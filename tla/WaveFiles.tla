----------------------------- MODULE WaveFiles ------------------------------
(***************************************************************************)
(* The wave files of the karaoke player: what is on the card, the header   *)
(* parser (WaveLib.c), and opening and reading a file, a call of the FAT   *)
(* library at a time, as ByteStream promises it - with failures, which     *)
(* ByteStream allows after a mount that was not a calm one.                *)
(***************************************************************************)
EXTENDS Naturals, Sequences

CONSTANTS
    File,           \* per name: [chunks, pcm], as [id, size] one after another
    ClusterSize,    \* bytes are allocated in clusters
    WaveHeaderSize, \* sizeof(WAVE_HEADER)
    ChunkSize,      \* sizeof(CHUNK)
    MaxFaults       \* bound: how many calls fail that need not

ASSUME FileAssumption ==
    /\ \A f \in DOMAIN File : File[f].chunks \in Seq([id : STRING, size : Nat])
    /\ WaveHeaderSize \in Nat /\ ChunkSize \in Nat

VARIABLES
    dir,            \* the names in the card's root directory, in their order
    faults          \* how many calls have failed so far
-----------------------------------------------------------------------------
(* WaveLib.c *)

\* Where chunk i of a file begins.
ChunkStart(chunks) ==
    LET start[i \in 1 .. Len(chunks) + 1] ==
          IF i = 1 THEN WaveHeaderSize
          ELSE start[i - 1] + ChunkSize + chunks[i - 1].size
    IN start

\* waveGetChunkOffset, in a buffer that holds the first nSize bytes: 0 when
\* the chunk begins behind them (the code then also compares one identifier
\* from the memory behind the buffer, which is taken to match nothing).
GetChunkOffset(chunks, nSize, id) ==
    LET found == {i \in DOMAIN chunks : chunks[i].id = id /\ ChunkStart(chunks)[i] < nSize}
        first == CHOOSE i \in found : \A k \in found : i <= k
    IN IF found = {} THEN [offset |-> 0, size |-> 0]
       ELSE [offset |-> ChunkStart(chunks)[first], size |-> chunks[first].size]

\* WAVE_IsWaveFile, and the sample rate, channels and bits the player takes,
\* from the first nSize bytes of file f.
IsWaveFile(f, nSize) ==
    File[f].pcm /\ GetChunkOffset(File[f].chunks, nSize, "fmt").offset # 0

\* Wave_GetWaveOffset, Wave_GetDataByteSize
DataChunk(f, nSize) ==
    LET chunk == GetChunkOffset(File[f].chunks, nSize, "data")
    IN [chunk EXCEPT !.offset = IF @ = 0 THEN 0 ELSE @ + ChunkSize]
-----------------------------------------------------------------------------
(* The card and the FAT library *)

Allocated == [f \in DOMAIN File |->
    LET size == ChunkStart(File[f].chunks)[Len(File[f].chunks) + 1]
    IN ((size + ClusterSize - 1) \div ClusterSize) * ClusterSize]

OnCard(f) == \E i \in DOMAIN dir : dir[i] = f

\* A call ends well if it can, and fails if it must or may.
Outcome(possible, ok) ==
    \/ ok /\ possible /\ UNCHANGED faults
    \/ ~ok /\ ~possible /\ UNCHANGED faults
    \/ ~ok /\ possible /\ faults < MaxFaults /\ faults' = faults + 1

\* The bytes of file f from position p: its own up to its end, then what the
\* last cluster holds behind it.
Bytes(f, p, n) == [i \in 1 .. n |-> <<f, p + i - 1>>]
=============================================================================

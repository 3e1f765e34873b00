----------------------------- MODULE WaveStream -----------------------------
(***************************************************************************)
(* waveplay_start and waveplay_execute (main.c): a song, and beside it a   *)
(* vocal track when the player is in karaoke mode, are read one buffer at  *)
(* a time and handed to the codec frame by frame.  Each track has three    *)
(* positions in its file: the next byte to play, the next to read and the  *)
(* end of the data chunk.                                                  *)
(***************************************************************************)
EXTENDS WaveFiles

CONSTANTS
    BufSize,    \* WAVE_BUF_SIZE
    FrameSize   \* 4: two samples of 16 bits

ASSUME BufAssumption ==
    FrameSize \in Nat \ {0} /\ BufSize \in Nat \ {0} /\ BufSize % FrameSize = 0

VARIABLES
    pc,         \* where the player is
    bKaraoke,
    song, vocal,\* gWavePlay, gWavePlay_vocal
    want,       \* the arguments of waveplay_start
    bSuccess,   \* its result, while it runs
    out, sung,  \* ghosts: the bytes of the two tracks played since its start
    sound       \* ghost: the tracks it could open and read

streamVars == <<pc, bKaraoke, song, vocal, want, bSuccess, out, sung, sound>>

\* What waveplay_start finds in the header of each file.
Playable == {f \in DOMAIN File : IsWaveFile(f, BufSize)}
Chunk == [f \in DOMAIN File |-> DataChunk(f, BufSize)]

NULL == [f |-> <<>>, pos |-> 0]
NoTrack == [hFile |-> NULL, szBuf |-> [i \in 1 .. BufSize |-> <<<<>>, 0>>],
            uWavePlayPos |-> 0, uWaveReadPos |-> 0, uWaveMaxPlayPos |-> 0]
-----------------------------------------------------------------------------
\* Fat_FileRead of n bytes into the track's buffer.  A read of one buffer is
\* a read of one sector: when it fails, the buffer is as before.
CanRead(t, n) == t.hFile # NULL /\ t.hFile.pos + n <= Allocated[t.hFile.f]
WithRead(t, n) ==
    [t EXCEPT !.hFile.pos = @ + n,
              !.szBuf = Bytes(t.hFile.f, t.hFile.pos, n) \o SubSeq(@, n + 1, BufSize)]

\* The file whose header is in the buffer, if any.
HeaderOf(t) == t.szBuf[1][1]
HasHeader(t) == t.szBuf[1][2] = 0 /\ HeaderOf(t) \in Playable

WithPositions(t) ==
    LET data == Chunk[HeaderOf(t)]
    IN [t EXCEPT !.uWavePlayPos = data.offset, !.uWaveReadPos = BufSize,
                 !.uWaveMaxPlayPos = data.offset + data.size]

\* Opening file f and reading its first buffer, and the track after it.
Opened(t, f, opens) == [t EXCEPT !.hFile = IF opens THEN [f |-> f, pos |-> 0] ELSE NULL]
OpenAndRead(t, f, opens, reads) ==
    IF opens THEN OnCard(f) /\ Outcome(CanRead(Opened(t, f, TRUE), BufSize), reads)
    ELSE ~reads /\ Outcome(OnCard(f), FALSE)
FirstRead(t, f, opens, reads) ==
    IF reads THEN WithRead(Opened(t, f, opens), BufSize) ELSE Opened(t, f, opens)

\* bSuccess, which was `before`, after a look at the header in the buffer.  A
\* file that does not open leaves it as it is.
Succeeds(t, opens, reads, before) == (IF opens THEN reads ELSE before) /\ HasHeader(t)

\* waveplay_start is called.
StartCall(songName, vocalName) ==
    /\ pc' = "start" /\ want' = [song |-> songName, vocal |-> vocalName]
    /\ out' = <<>> /\ sung' = <<>> /\ sound' = {}
    /\ UNCHANGED <<song, vocal, bSuccess, dir, faults>>

\* bSuccess is not initialised.
StartSong ==
    /\ pc = "start"
    /\ \E before, opens, reads \in BOOLEAN :
        LET t == FirstRead(song, want.song, opens, reads)
        IN /\ OpenAndRead(song, want.song, opens, reads)
           /\ bSuccess' = Succeeds(t, opens, reads, before)
           /\ song' = IF bSuccess' THEN WithPositions(t) ELSE t
           /\ sound' = IF bSuccess' /\ opens THEN {"song"} ELSE {}
    /\ pc' = IF bKaraoke THEN "start vocal"
             ELSE IF bSuccess' THEN "execute" ELSE "failed"
    /\ UNCHANGED <<bKaraoke, vocal, want, out, sung, dir>>

\* The vocal track's outcome replaces the song's.
StartVocal ==
    /\ pc = "start vocal"
    /\ \E opens, reads \in BOOLEAN :
        LET t == FirstRead(vocal, want.vocal, opens, reads)
        IN /\ OpenAndRead(vocal, want.vocal, opens, reads)
           /\ bSuccess' = Succeeds(t, opens, reads, bSuccess)
           /\ vocal' = IF bSuccess' THEN WithPositions(t) ELSE t
           /\ sound' = sound \cup IF bSuccess' /\ opens THEN {"vocal"} ELSE {}
    /\ pc' = IF bSuccess' THEN "execute" ELSE "failed"
    /\ UNCHANGED <<bKaraoke, song, want, out, sung, dir>>
-----------------------------------------------------------------------------
\* Mutant: the end is only seen one byte late.
OverLate == song.uWavePlayPos > song.uWaveMaxPlayPos
Over == song.uWavePlayPos >= song.uWaveMaxPlayPos

\* waveplay_execute is called: the song is over, or its next buffer is due.
ExecuteEnd ==
    /\ pc = "execute" /\ Over
    /\ pc' = "ended" /\ bKaraoke' = FALSE
    /\ UNCHANGED <<song, vocal, want, bSuccess, out, sung, sound, dir, faults>>

ExecuteBegin ==
    /\ pc = "execute" /\ ~Over
    /\ pc' = "data"
    /\ UNCHANGED <<bKaraoke, song, vocal, want, bSuccess, out, sung, sound, dir, faults>>

Empty(t) == t.uWavePlayPos >= t.uWaveReadPos

\* Mutant: a whole buffer is read, also where the data chunk ends.
ReadSizeWhole(t) == BufSize

\* read_size: the comparison is one of unsigned numbers, so behind the end of
\* the data chunk it is a whole buffer again.
ReadSize(t) ==
    IF t.uWavePlayPos > t.uWaveMaxPlayPos THEN BufSize
    ELSE LET rest == t.uWaveMaxPlayPos - t.uWavePlayPos
         IN IF BufSize > rest THEN rest ELSE BufSize

Refill(t, ok) ==
    /\ Outcome(CanRead(t, ReadSize(t)), ok)
    /\ pc' = IF ok THEN "data" ELSE "failed"
Refilled(t, ok) ==
    IF ok THEN [WithRead(t, ReadSize(t)) EXCEPT !.uWaveReadPos = @ + ReadSize(t)] ELSE t

RefillSong ==
    /\ pc = "data" /\ Empty(song)
    /\ \E ok \in BOOLEAN : Refill(song, ok) /\ song' = Refilled(song, ok)
    /\ UNCHANGED <<bKaraoke, vocal, want, bSuccess, out, sung, sound, dir>>

RefillVocal ==
    /\ pc = "data" /\ ~Empty(song) /\ bKaraoke /\ Empty(vocal)
    /\ \E ok \in BOOLEAN : Refill(vocal, ok) /\ vocal' = Refilled(vocal, ok)
    /\ UNCHANGED <<bKaraoke, song, want, bSuccess, out, sung, sound, dir>>

\* n bytes from the track's place in the buffer on: the vocal track's may
\* run over the end of its buffer.
Behind == <<<<"behind">>, 0>>
Played(t, n) ==
    LET at == t.uWavePlayPos % BufSize
    IN [i \in 1 .. n |-> IF at + i <= BufSize THEN t.szBuf[at + i] ELSE Behind]

\* Whole frames are played; both tracks move by what the song's buffer held.
\* (Outside karaoke the code moves the vocal track as well; its position is
\* not read again before StartVocal has set it, and is left out.)
PlaySize == ((song.uWaveReadPos - song.uWavePlayPos) \div FrameSize) * FrameSize

PlayStep(sungSize) ==
    /\ pc = "data" /\ ~Empty(song) /\ ~(bKaraoke /\ Empty(vocal))
    /\ out' = out \o Played(song, PlaySize)
    /\ song' = [song EXCEPT !.uWavePlayPos = @ + PlaySize]
    /\ sung' = IF bKaraoke THEN sung \o Played(vocal, PlaySize) ELSE sung
    /\ vocal' = IF bKaraoke THEN [vocal EXCEPT !.uWavePlayPos = @ + sungSize] ELSE vocal
    /\ pc' = "execute"
    /\ UNCHANGED <<bKaraoke, want, bSuccess, sound, dir, faults>>

\* Mutant: the vocal track moves by what its own buffer held at first.
PlayOwnPace == PlayStep(BufSize)

Play == PlayStep(PlaySize)

StreamInit ==
    /\ bKaraoke = FALSE /\ song = NoTrack /\ vocal = NoTrack
    /\ want = [song |-> <<>>, vocal |-> <<>>] /\ bSuccess = FALSE
    /\ out = <<>> /\ sung = <<>> /\ sound = {}

Streaming ==
    \/ StartSong \/ StartVocal
    \/ ExecuteEnd \/ ExecuteBegin \/ RefillSong \/ RefillVocal \/ Play
-----------------------------------------------------------------------------
Data == [f \in DOMAIN File |-> Bytes(f, Chunk[f].offset, Chunk[f].size)]
Beginning(s, n) == SubSeq(s, 1, IF n < Len(s) THEN n ELSE Len(s))

\* The files the player's arithmetic is made for: the data chunk begins on a
\* frame of the first buffer or right behind it, is whole frames long and
\* reaches to the end of the first buffer.
Aligned == {f \in Playable :
    /\ Chunk[f].offset \in 1 .. BufSize /\ Chunk[f].offset % FrameSize = 0
    /\ Chunk[f].size % FrameSize = 0 /\ Chunk[f].offset + Chunk[f].size >= BufSize}

Suits(v, s) ==
    v \in Playable /\ Chunk[v].offset = Chunk[s].offset /\ Chunk[v].size >= Chunk[s].size

Active == pc \in {"execute", "data", "ended"}

(* Of a file the arithmetic is made for, the frames of the data chunk are   *)
(* played each once and in their order, whatever vocal track runs beside    *)
(* it, and nothing else; when the song is reported over, all of them.       *)
PlaysTheData ==
    Active /\ "song" \in sound /\ want.song \in Aligned =>
        /\ out = Beginning(Data[want.song], Len(out))
        /\ pc = "ended" => out = Data[want.song]

(* While singing, the vocal track is in step with the song, frame by frame, *)
(* when both begin at the same place and the vocal track is long enough.    *)
VocalInStep ==
    Active /\ sound = {"song", "vocal"} /\ want.song \in Aligned /\ Suits(want.vocal, want.song) =>
        sung = Beginning(Data[want.vocal], Len(out))

(* Such a song does not come to a standstill: it ends, if it does not fail  *)
(* and no other is started.                                                 *)
Plays == pc \in {"execute", "data"}
PlaysWell ==
    /\ Plays /\ "song" \in sound /\ want.song \in Aligned
    /\ bKaraoke => "vocal" \in sound /\ Suits(want.vocal, want.song)
SongEnds == PlaysWell ~> ~PlaysWell

(* The same of every song whose start was reported a success: the player    *)
(* announces "Uncompressed WAV File" of any kind (main.c).                  *)
EverySongEnds == Plays /\ ~bKaraoke ~> ~(Plays /\ ~bKaraoke)
=============================================================================

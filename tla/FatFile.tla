------------------------------ MODULE FatFile -------------------------------
(***************************************************************************)
(* The FAT library of the karaoke player (terasic_fat) over the SD library *)
(* and a card: what main does to get at the card's files - wait for a      *)
(* card, mount it, open files, read them, and begin again when something   *)
(* fails.  A call is a step per block it asks the card for, so the card    *)
(* can be pulled, and the bus be noisy, anywhere inside it.  The one       *)
(* sector buffer of the volume serves the FAT, the directory and the data  *)
(* of every file.                                                          *)
(***************************************************************************)
EXTENDS SdLib, FatImage, Integers

CONSTANTS
    ReadSizes,  \* the sizes of the reads
    SeekTargets,\* the positions sought
    Garbage,    \* cluster numbers that stand for any value of a variable
                \*   without one: 0 and a cluster of another file
    MaxTry      \* fatMountSdcard's nMaxTry

ASSUME CallAssumption ==
    /\ ReadSizes \subseteq Nat /\ SeekTargets \subseteq Nat /\ Garbage \subseteq Nat
    /\ MaxTry \in Nat \ {0} /\ "none" \notin Cards

VARIABLES
    phase,  \* main: "insert", "mount", "mbr", "br", "play", "halted"
    tries,  \* fatMountSdcard's nTry
    vol,    \* VOLUME_INFO
    cache,  \* its Secter_Index and Secter_Data
    file,   \* per name: the FAT_FILE_INFO in use
    op,     \* the call in progress: its locals
    last    \* ghost: the last call and its result

fatVars == <<phase, tries, vol, cache, file, op, last>>
vars == <<cardVars, sdVars, fatVars>>

FAT16 == 6      \* PARTITION_FAT16
FAT32 == 11     \* PARTITION_FAT32
-----------------------------------------------------------------------------
NoVolume == [type |-> 0, start |-> 0, spc |-> 0, FatEntrySecter |-> 0,
             RootDirectoryEntrySecter |-> 0, DataEntrySecter |-> 0,
             card |-> NoCard, calm |-> FALSE, sound |-> FALSE]
Empty == [index |-> -1, data |-> Torn]
\* IsOpened, SeekPos, Cluster, ClusterSeq, and of Directory the first
\* cluster and the size; ghosts: the last call on it failed, its bytes are
\* sound.
Closed == [IsOpened |-> FALSE, SeekPos |-> 0, Cluster |-> 0, ClusterSeq |-> 0,
           first |-> 0, size |-> 0, failed |-> FALSE, sound |-> TRUE]
Idle == [step |-> "idle"]
Result(f, ok, data, sound) == [f |-> f, ok |-> ok, data |-> data, sound |-> sound]
NoResult == Result("none", FALSE, <<>>, TRUE)

\* What a block in memory is, and its byte i.  On a volume that was mounted
\* from a block of junk, no block is what the code takes it for.
Block(data) ==
    IF data \in {Junk, Torn} \/ ~vol.sound THEN [is |-> "junk"]
    ELSE IF data[2] < Len(Image[data[1]]) THEN Image[data[1]][data[2] + 1]
    ELSE [is |-> "blank"]
Byte(data, i) ==
    LET b == Block(data) IN
    IF b.is = "data" THEN <<data[1], b.cluster, b.secter, i>> ELSE <<b.is, i>>

\* Mutant: the index is set before the read.
ReadSecterIndexFirst(n) ==
    IF n = cache.index
      THEN {[ok |-> TRUE, card |-> card, cache |-> cache]}
      ELSE {[ok |-> r.ok, card |-> r.card, cache |-> [index |-> n, data |-> r.data]]
            : r \in ReadBlock512(n)}

\* fatReadSecter: what may come of it.  A failed read leaves half a block
\* in the buffer, and no index.
ReadSecter(n) ==
    IF n = cache.index
      THEN {[ok |-> TRUE, card |-> card, cache |-> cache]}
      ELSE {[ok |-> r.ok, card |-> r.card,
             cache |-> [index |-> IF r.ok THEN n ELSE -1, data |-> r.data]]
            : r \in ReadBlock512(n)}

\* fatNextCluster.  Its result is uninitialised when the FAT cannot be read,
\* and arbitrary when what was read is no FAT sector.
EntriesPerSecter == BlockSize \div FatEntrySize(vol.type)
FatSecter(cluster) == vol.FatEntrySecter + (cluster * FatEntrySize(vol.type)) \div BlockSize

\* The rest of the table, behind the entry of the last cluster, is zero.
FatEntry(b, cluster) ==
    LET chain == Volume[vol.card].chain
        i == b.first + (cluster % EntriesPerSecter)
        v == IF i \in DOMAIN chain THEN chain[i] ELSE 0
    IN IF v = BadMark THEN 0 ELSE v

NextCluster(cluster) ==
    UNION {LET b == Block(r.cache.data) IN
           IF r.ok /\ b.is = "fat"
             THEN {[next |-> FatEntry(b, cluster), sound |-> TRUE, r |-> r]}
             ELSE {[next |-> n, sound |-> FALSE, r |-> r] : n \in Garbage}
           : r \in ReadSecter(FatSecter(cluster))}
-----------------------------------------------------------------------------
(* Waiting for a card and mounting it (main, fatMountSdcard, fatMount).     *)

Call == /\ InitCall /\ UNCHANGED <<cardVars, moved>>
        /\ UNCHANGED <<vol, cache, file, op, last>>

\* wait_sdcard_insert tries until SDLIB_Init succeeds.
InsertTry ==
    /\ phase = "insert" /\ init \in {"none", "failed"}
    /\ Call /\ UNCHANGED <<phase, tries>>

\* fatMountSdcard initialises the card again, at most nMaxTry times.
MountTry ==
    /\ \/ phase = "insert" /\ init = "done" /\ tries' = 1
       \/ phase = "mount" /\ init = "failed" /\ tries < MaxTry /\ tries' = tries + 1
    /\ phase' = "mount" /\ Call

\* main returns: it waits for no other card.
Halt == phase' = "halted" /\ vol' = NoVolume /\ init' = "none"

MountGivesUp ==
    /\ phase = "mount" /\ init = "failed" /\ tries = MaxTry /\ Halt
    /\ UNCHANGED <<cardVars, sd, polls, moved, tries, cache, file, op, last>>

MountFound ==
    /\ phase = "mount" /\ init = "done"
    /\ phase' = "mbr" /\ tries' = 0
    /\ vol' = [NoVolume EXCEPT !.calm = ~noise /\ ~moved, !.sound = TRUE]
    /\ UNCHANGED <<cardVars, sdVars, cache, file, op, last>>

\* The partition type and start in block 0; arbitrary if the block is junk.
MountMbr ==
    /\ phase = "mbr"
    /\ \E r \in ReadBlock512(0) :
        /\ card' = r.card
        /\ \E v \in IF r.ok /\ r.data # Junk
                      THEN {[type |-> Volume[r.data[1]].type, start |-> Volume[r.data[1]].start]}
                      ELSE [type : {0, FAT16, FAT32}, start : {1}] :
            IF r.ok /\ v.type \in {FAT16, FAT32}
              THEN /\ phase' = "br" /\ UNCHANGED init
                   /\ vol' = [vol EXCEPT !.type = v.type, !.start = v.start,
                                         !.sound = @ /\ r.data # Junk]
              ELSE Halt
    /\ UNCHANGED <<noise, moves, sd, polls, moved, tries, cache, file, op, last>>

\* Mutant: one copy of the FAT is assumed.
GeometryOneFat(b) ==
    LET fat == vol.start + b.rsvd
        root == fat + b.fatsz
    IN [spc |-> b.spc, fat |-> fat, root |-> root,
        data |-> root + (b.rootcnt * DirEntrySize + (BlockSize - 1)) \div BlockSize]

\* The sectors at which the regions begin, from the fields of the boot record.
Geometry(b) ==
    LET fat == vol.start + b.rsvd
        root == fat + b.nfats * b.fatsz
    IN [spc |-> b.spc, fat |-> fat, root |-> root,
        data |-> root + (b.rootcnt * DirEntrySize + (BlockSize - 1)) \div BlockSize]

\* The sectors of the only size that is supported; what is no boot record may
\* pass for one.
Supports(b, k) == IF b.is = "br" THEN {Volume[k].bps = BlockSize} ELSE BOOLEAN

MountBr ==
    /\ phase = "br"
    /\ \E r \in ReadBlock512(vol.start) :
        /\ card' = r.card
        /\ IF ~r.ok THEN Halt /\ UNCHANGED cache
           ELSE LET k == IF r.data = Junk THEN card.id ELSE r.data[1]
                    g == Geometry(Volume[k])
                    b == Block(r.data)
                IN /\ cache' = Empty
                   /\ \E supported \in Supports(b, k) :
                      IF ~supported THEN Halt
                      ELSE /\ phase' = "play" /\ init' = "none"
                           /\ vol' = [vol EXCEPT !.spc = g.spc, !.FatEntrySecter = g.fat,
                                         !.RootDirectoryEntrySecter = g.root,
                                         !.DataEntrySecter = g.data, !.card = k,
                                         !.sound = @ /\ b.is = "br"]
    /\ file' = [f \in Files |-> Closed] /\ last' = NoResult
    /\ UNCHANGED <<noise, moves, sd, polls, moved, tries, op>>
-----------------------------------------------------------------------------
(* Fat_FileOpen: the directory is browsed entry by entry.                   *)

\* A bound on the states: a volume or a stream that the noise has got into,
\* of which nothing is claimed, is not used any further (the conjuncts
\* vol.sound and file[f].sound of the calls).
Ready == phase = "play" /\ op = Idle
Unmoved == UNCHANGED <<noise, moves, sdVars, phase, tries, vol>>
AfterRead(r) == card' = r.card /\ cache' = r.cache /\ Unmoved

OpenCall(f) ==
    /\ Ready /\ vol.sound
    /\ op' = [step |-> "browse", f |-> f, i |-> 0, order |-> 0, long |-> FALSE, name |-> ""]
    /\ last' = NoResult
    /\ UNCHANGED <<cardVars, sdVars, phase, tries, vol, cache, file>>

OpenFails ==
    /\ file' = [file EXCEPT ![op.f] = Closed]
    /\ last' = Result(op.f, FALSE, <<>>, TRUE) /\ op' = Idle

\* The lower half of the entry's first cluster; the upper is never looked at.
FirstLogicalCluster(e) == e.first % FirstClusters

Opened(first, size, sound) ==
    /\ file' = [file EXCEPT ![op.f] = [Closed EXCEPT !.IsOpened = TRUE,
                   !.Cluster = first, !.first = first, !.size = size, !.sound = sound]]
    /\ last' = Result(op.f, TRUE, <<>>, sound) /\ op' = Idle

\* Fat_FileBrowseNext on one entry: a long name counts its pieces down to
\* one and belongs to the entry that follows; deleted entries are skipped.
Entry(e) ==
    CASE e.is = "deleted" -> op' = [op EXCEPT !.i = @ + 1] /\ UNCHANGED <<file, last>>
      [] e.is = "end" -> OpenFails
      [] e.is = "long" ->
           IF IF op.order = 0 THEN op.long ELSE e.ord # op.order
             THEN OpenFails
             ELSE /\ op' = [op EXCEPT !.i = @ + 1, !.long = TRUE, !.name = e.name,
                             !.order = (IF @ = 0 THEN e.ord ELSE @) - 1]
                  /\ UNCHANGED <<file, last>>
      [] e.is = "file" ->
           IF op.long /\ ~e.archive THEN OpenFails
           ELSE IF (IF op.long THEN op.name ELSE e.name) = op.f
             THEN Opened(FirstLogicalCluster(e), e.size, TRUE)
             ELSE /\ op' = [op EXCEPT !.i = @ + 1, !.order = 0, !.long = FALSE]
                  /\ UNCHANGED <<file, last>>

\* From a block that is no directory sector, any file may be opened.
Browse ==
    /\ op.step = "browse"
    /\ LET perSecter == BlockSize \div DirEntrySize
           root == Volume[vol.card].root
       IN \E r \in ReadSecter(vol.RootDirectoryEntrySecter + op.i \div perSecter) :
            /\ AfterRead(r)
            /\ LET b == Block(r.cache.data) IN
               IF ~r.ok THEN OpenFails
               ELSE IF b.is = "root"
                 THEN LET i == b.first + (op.i % perSecter) + 1
                      IN Entry(IF i \in DOMAIN root THEN root[i] ELSE NotThere)
                 ELSE OpenFails \/ \E c \in Garbage : Opened(c, BlockSize, FALSE)
-----------------------------------------------------------------------------
(* Fat_FileRead, Fat_FileSeek.                                              *)

BytesPerCluster == vol.spc * BlockSize
FirstSecter(cluster) == (cluster - 2) * vol.spc + vol.DataEntrySecter

\* After a read that failed half way the cluster may be ahead of the position,
\* and the difference wraps: what a read then returns is not known.
ReadCall(f, n) ==
    /\ Ready /\ file[f].IsOpened /\ file[f].sound
    /\ file[f].SeekPos + n <= file[f].size
    /\ file' = [file EXCEPT ![f].sound = ~file[f].failed, ![f].failed = FALSE]
    /\ op' = [f |-> f, n |-> n, nread |-> 0, out |-> <<>>, ok |-> TRUE, s |-> 0,
              pos |-> (file[f].SeekPos - file[f].ClusterSeq * BytesPerCluster) % U32,
              step |-> IF file[f].SeekPos \div BytesPerCluster # file[f].ClusterSeq
                         THEN "walk" ELSE "secters"]
    /\ last' = NoResult
    /\ UNCHANGED <<cardVars, sdVars, phase, tries, vol, cache>>

\* The next cluster is looked up; the handle counts it even if there is none.
Advance(f, x) ==
    file' = [file EXCEPT ![f].Cluster = IF x.next = 0 THEN @ ELSE x.next,
                         ![f].ClusterSeq = @ + 1,
                         ![f].sound = @ /\ (x.sound \/ ~op.ok)]

\* To the cluster the position is in.
Walk ==
    /\ op.step = "walk"
    /\ IF op.pos >= BytesPerCluster
         THEN \E x \in NextCluster(file[op.f].Cluster) :
                /\ AfterRead(x.r) /\ Advance(op.f, x)
                /\ op' = [op EXCEPT !.pos = @ - BytesPerCluster, !.ok = x.next # 0,
                                    !.step = IF x.next = 0 THEN "end" ELSE "walk"]
         ELSE /\ op' = [op EXCEPT !.step = "secters"]
              /\ UNCHANGED <<cardVars, cache, file>> /\ Unmoved
    /\ UNCHANGED last

\* One turn of the loop over the sectors of a cluster.
Secter ==
    /\ op.step = "secters" /\ op.s < vol.spc /\ op.nread < op.n /\ op.ok
    /\ IF op.pos >= BlockSize
         THEN /\ op' = [op EXCEPT !.pos = @ - BlockSize, !.s = @ + 1]
              /\ UNCHANGED <<cardVars, cache, file>> /\ Unmoved
         ELSE \E r \in ReadSecter(FirstSecter(file[op.f].Cluster) + op.s) :
              LET room == BlockSize - op.pos
                  count == IF room > op.n - op.nread THEN op.n - op.nread ELSE room
              IN /\ AfterRead(r)
                 /\ IF r.ok
                      THEN op' = [op EXCEPT !.s = @ + 1, !.nread = @ + count, !.pos = 0,
                             !.out = @ \o [i \in 1 .. count |->
                                             Byte(r.cache.data, op.pos + i - 1)]]
                      ELSE op' = [op EXCEPT !.s = @ + 1, !.ok = FALSE]
                 /\ file' = [file EXCEPT ![op.f].sound =
                               @ /\ (~r.ok \/ Block(r.cache.data).is # "junk")]
    /\ UNCHANGED last

\* After the loop, unless all is read, the next cluster is looked up: also
\* when the loop was left because a sector could not be read.
EndOfCluster ==
    /\ op.step = "secters" /\ (op.s = vol.spc \/ op.nread = op.n \/ ~op.ok)
    /\ IF op.nread = op.n
         THEN op' = [op EXCEPT !.step = "end"] /\ UNCHANGED <<cardVars, cache, file>> /\ Unmoved
         ELSE \E x \in NextCluster(file[op.f].Cluster) :
                /\ AfterRead(x.r) /\ Advance(op.f, x)
                /\ LET ok == op.ok /\ x.next # 0
                   IN op' = [op EXCEPT !.ok = ok, !.s = 0,
                                       !.step = IF ok THEN "secters" ELSE "end"]
    /\ UNCHANGED last

ReadEnd ==
    /\ op.step = "end"
    /\ LET f == op.f
       IN IF op.ok
            THEN /\ file' = [file EXCEPT ![f].SeekPos = @ + op.n]
                 /\ last' = Result(f, TRUE, op.out, file[f].sound)
            ELSE /\ file' = [file EXCEPT ![f].failed = TRUE]
                 /\ last' = Result(f, FALSE, <<>>, TRUE)
    /\ op' = Idle
    /\ UNCHANGED <<cardVars, sdVars, phase, tries, vol, cache>>

SeekCall(f, p) ==
    /\ Ready /\ file[f].IsOpened /\ file[f].sound /\ p <= file[f].size
    /\ file' = [file EXCEPT ![f].SeekPos = p, ![f].failed = FALSE,
                            ![f].Cluster = file[f].first, ![f].ClusterSeq = 0]
    /\ last' = Result(f, TRUE, <<>>, file[f].sound)
    /\ UNCHANGED <<cardVars, sdVars, phase, tries, vol, cache, op>>

\* When a call has failed, main goes back to waiting for a card.
Restart ==
    /\ Ready /\ last # NoResult /\ ~last.ok
    /\ phase' = "insert" /\ vol' = NoVolume /\ cache' = Empty
    /\ file' = [f \in Files |-> Closed] /\ last' = NoResult
    /\ UNCHANGED <<cardVars, sdVars, tries, op>>
-----------------------------------------------------------------------------
Init ==
    /\ CardInit /\ SdInit
    /\ phase = "insert" /\ tries = 0 /\ vol = NoVolume /\ cache = Empty
    /\ file = [f \in Files |-> Closed] /\ op = Idle /\ last = NoResult

Mounting ==
    \/ InitStep /\ UNCHANGED fatVars
    \/ InsertTry \/ MountTry \/ MountGivesUp \/ MountFound \/ MountMbr \/ MountBr

Calling == Browse \/ Walk \/ Secter \/ EndOfCluster \/ ReadEnd

Client ==
    \/ Restart
    \/ \E f \in Files :
        \/ OpenCall(f)
        \/ \E n \in ReadSizes : ReadCall(f, n)
        \/ \E p \in SeekTargets : SeekCall(f, p)

Environment ==
    \/ Move /\ moved' = TRUE /\ UNCHANGED <<sd, init, polls, fatVars>>
    \/ Settle /\ UNCHANGED <<sdVars, fatVars>>

Next == Mounting \/ Calling \/ Client \/ Environment

Spec == Init /\ [][Next]_vars
LiveSpec == Spec /\ WF_vars(Mounting \/ Calling)
-----------------------------------------------------------------------------
\* Every block in the sector buffer that has an index is the block of that
\* index, of the card that was mounted, or junk the bus made of it: never
\* another block, another card's, or half a block.
CacheHoldsItsSecter ==
    cache.index # -1 => cache.data \in {<<vol.card, cache.index>>, Junk}

\* What the player sees of the volume, of a file and of the last call.
StreamMount ==
    IF phase = "play" THEN [medium |-> vol.card, calm |-> vol.calm]
    ELSE [medium |-> "none", calm |-> FALSE]
StreamPos(f) ==
    IF ~file[f].IsOpened THEN -1
    ELSE IF ~file[f].sound THEN -3
    ELSE IF file[f].failed THEN -2
    ELSE file[f].SeekPos
StreamResult ==
    IF last.sound THEN [f |-> last.f, ok |-> last.ok, data |-> last.data]
    ELSE [f |-> last.f, ok |-> FALSE, data |-> <<>>]
StreamPositions == [f \in Files |-> StreamPos(f)]

\* What the player relies on: ByteStream, for every card, through faults of
\* the bus, removals, remounts and both files' use of the one buffer.
Streams == INSTANCE ByteStream WITH
    Media <- Cards, Bytes <- FileBytes,
    mount <- StreamMount, pos <- StreamPositions, last <- StreamResult
ImplementsByteStream == Streams!Spec

\* Once the card is in its slot and the bus is quiet, a player that waits
\* for a card mounts it, whatever state the card was left in, if it is of a
\* kind that is supported.
MountCompletes ==
    ~noise /\ phase = "insert" /\ Mountable(Volume[card.id]) ~> phase = "play"
=============================================================================

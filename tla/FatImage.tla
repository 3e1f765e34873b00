------------------------------ MODULE FatImage ------------------------------
(***************************************************************************)
(* What is on the cards: a partition with a FAT16 or a FAT32 file system,  *)
(* laid out block after block, and the bytes of its files, read off the    *)
(* cluster chains.  FatFile finds both by arithmetic on the numbers of     *)
(* sectors and clusters.                                                   *)
(***************************************************************************)
EXTENDS SdCard, Sequences, SequencesExt

CONSTANTS
    Files,      \* the names that are opened
    Volume,     \* per card: [type, start, bps, rsvd, nfats, fatsz, rootcnt,
                \*            spc, chain, root]
    FirstClusters,  \* 2^16, the values of a directory entry's lower half of
                    \*   a file's first cluster
    U32             \* 2^32, scaled

DirEntry ==
    {[is |-> "deleted"]} \cup [is : {"long"}, ord : Nat \ {0}, name : STRING]
    \cup [is : {"file"}, of : STRING, name : STRING, archive : BOOLEAN,
          first : Nat, size : Nat]

ASSUME VolumeAssumption ==
    \A k \in Cards :
        /\ \A x \in {"type", "start", "bps", "rsvd", "nfats", "fatsz", "rootcnt", "spc"} :
             Volume[k][x] \in Nat
        /\ \A c \in DOMAIN Volume[k].chain : Volume[k].chain[c] \in Nat
        /\ Volume[k].root \in Seq(DirEntry)
ASSUME WidthAssumption == FirstClusters \in Nat \ {0} /\ U32 \in Nat \ {0}

EOC == 255                                         \* 0xFFF8 and up
BadMark == 247                                     \* 0xFFF7
FatEntrySize(type) == IF type = 11 THEN 2 ELSE 1   \* 4 and 2 bytes, scaled
DirEntrySize == 1                                  \* 32 bytes, scaled
RootClus == 2                                      \* BPB_RootClus
-----------------------------------------------------------------------------
Blank(n) == [i \in 1 .. n |-> [is |-> "blank"]]
TableBlocks(kind, n, entrySize) ==
    [i \in 1 .. n |-> [is |-> kind, first |-> (i - 1) * (BlockSize \div entrySize)]]
ClusterBlocks(v, c) ==
    [s \in 1 .. v.spc |-> [is |-> "data", cluster |-> c, secter |-> s - 1]]

\* The blocks of a card.  The root directory of FAT16 is a table of its own
\* before the clusters; that of FAT32 is the file that begins in cluster 2.
Image == [k \in Cards |->
    LET v == Volume[k]
        clusters == [i \in 1 .. Cardinality(DOMAIN v.chain) - 2 |->
                       IF v.type = 11 /\ i + 1 = RootClus
                         THEN TableBlocks("root", v.spc, DirEntrySize)
                         ELSE ClusterBlocks(v, i + 1)]
        rootSize == (v.rootcnt * DirEntrySize + BlockSize - 1) \div BlockSize
    IN <<[is |-> "mbr"]>> \o Blank(v.start - 1)
         \o <<[is |-> "br"]>> \o Blank(v.rsvd - 1)
         \o FlattenSeq([i \in 1 .. v.nfats |->
              TableBlocks("fat", v.fatsz, FatEntrySize(v.type))])
         \o TableBlocks("root", rootSize, DirEntrySize)
         \o FlattenSeq(clusters)]

ASSUME ImagesFit == \A k \in Cards : Len(Image[k]) <= NBlocks

\* A directory entry of a file has its short name; `of` is the name the file
\* is known by, its long one if it has one.
NotThere == [is |-> "end", first |-> EOC, size |-> 0]
EntryOf(k, f) ==
    LET r == Volume[k].root
        named == {i \in DOMAIN r : r[i].is = "file" /\ r[i].of = f}
    IN IF named = {} THEN NotThere ELSE r[CHOOSE i \in named : TRUE]

\* The clusters of the file with entry e, along its chain.
Clusters(k, e) ==
    LET nth[n \in 0 .. e.size] ==
            IF n = 0 THEN e.first ELSE Volume[k].chain[nth[n - 1]]
    IN nth

\* The bytes of file f: cluster after cluster.
FileBytes == [k \in Cards |-> [f \in Files |->
    LET spc == Volume[k].spc
        e == EntryOf(k, f)
        nth == Clusters(k, e)
    IN [i \in 1 .. e.size |->
          <<k, nth[(i - 1) \div (spc * BlockSize)],
            ((i - 1) \div BlockSize) % spc, (i - 1) % BlockSize>>]]]
-----------------------------------------------------------------------------
(* A card as a formatting program leaves it, and its files as they are     *)
(* written: what the library takes for granted.                            *)

\* The regions have a size, the FAT an entry for each cluster, and the root
\* directory an end.
RegionsFit(v) ==
    LET n == Cardinality(DOMAIN v.chain) IN
    /\ v.start > 0 /\ v.rsvd > 0 /\ v.nfats > 0 /\ v.spc > 0
    /\ n \in Nat /\ n > RootClus /\ DOMAIN v.chain = 0 .. n - 1
    /\ BlockSize % FatEntrySize(v.type) = 0
    /\ n * FatEntrySize(v.type) <= v.fatsz * BlockSize
    /\ v.type = 11 => v.rootcnt = 0 /\ Len(v.root) < v.spc * BlockSize
    /\ v.type # 11 => Len(v.root) < v.rootcnt

\* The pieces of a long name stand before the entry it belongs to, counted
\* down to one; no two files that are opened have the same name.
NamesOrdered(r) ==
    /\ \A i \in DOMAIN r : r[i].is = "long" =>
         /\ i < Len(r)
         /\ IF r[i].ord = 1
              THEN r[i + 1].is = "file" /\ r[i + 1].archive /\ r[i + 1].of = r[i].name
              ELSE r[i + 1].is = "long" /\ r[i + 1].ord = r[i].ord - 1
    /\ \A i \in DOMAIN r :
         r[i].is = "file" /\ (i = 1 \/ r[i - 1].is # "long") => r[i].of = r[i].name
    /\ \A i, j \in DOMAIN r :
         (r[i].is = "file" /\ r[j].is = "file" /\ r[i].of = r[j].of /\ r[i].of \in Files)
           => i = j

\* A file has a byte, and a chain of data clusters as long as it needs; none
\* of its links is free or bad, the last is an end mark.
Chained(k, e) ==
    LET v == Volume[k]
        nth == Clusters(k, e)
    IN /\ e.size > 0 /\ e.size < U32
       /\ \A n \in 0 .. (e.size - 1) \div (v.spc * BlockSize) :
            /\ nth[n] \in DOMAIN v.chain /\ nth[n] >= RootClus
            /\ (v.type = 11 => nth[n] # RootClus)
            /\ v.chain[nth[n]] \notin {0, BadMark}

Formatted(k) ==
    /\ RegionsFit(Volume[k]) /\ NamesOrdered(Volume[k].root)
    /\ \A f \in Files : EntryOf(k, f).is = "file" => Chained(k, EntryOf(k, f))

\* Every card the library mounts is of this kind.
Mountable(v) == v.type \in {6, 11} /\ v.bps = BlockSize
WellFormatted == \A k \in Cards : Mountable(Volume[k]) => Formatted(k)

\* Every file that is opened begins in a cluster whose number the lower half
\* can tell: on FAT32 a matter of luck.
FirstClustersFit ==
    \A k \in Cards, f \in Files :
        EntryOf(k, f).is = "file" => EntryOf(k, f).first < FirstClusters
=============================================================================

----------------------------- MODULE MCFatFile ------------------------------
(* Three cards: of version 1 and FAT16, of version 2 and something else, of *)
(* high capacity and FAT32.  Sectors of two bytes, clusters of two sectors; *)
(* two files whose clusters alternate on the card, one with a long name     *)
(* after a deleted entry; the second file is missing on the big card.       *)
EXTENDS FatFile

MCCards == {"old", "mid", "big"}
MCKind == [old |-> "v1", mid |-> "v2", big |-> "hc"]

File(of, name, first, size) ==
    [is |-> "file", of |-> of, name |-> name, archive |-> TRUE, first |-> first,
     size |-> size]
Long(ord, name) == [is |-> "long", ord |-> ord, name |-> name]

MCVolume ==
    [old |-> [type |-> 6, bps |-> 2, start |-> 2, rsvd |-> 1, nfats |-> 2, fatsz |-> 3, rootcnt |-> 8, spc |-> 2,
              chain |-> 0 :> 0 @@ 1 :> 0 @@ 2 :> 4 @@ 3 :> 255 @@ 4 :> 255 @@ 5 :> 0,
              root |-> <<[is |-> "deleted"], Long(2, "song"), Long(1, "song"), File("song", "SONG~1", 2, 7),
                         File("vocal", "vocal", 3, 4)>>],
     mid |-> [type |-> 7, bps |-> 2, start |-> 1, rsvd |-> 1, nfats |-> 1, fatsz |-> 1, rootcnt |-> 0, spc |-> 1,
              chain |-> 0 :> 0 @@ 1 :> 0, root |-> <<>>],
     big |-> [type |-> 11, bps |-> 2, start |-> 1, rsvd |-> 2, nfats |-> 1, fatsz |-> 6, rootcnt |-> 0, spc |-> 2,
              chain |-> 0 :> 0 @@ 1 :> 0 @@ 2 :> 255 @@ 3 :> 5 @@ 4 :> 247 @@ 5 :> 255,
              root |-> <<[is |-> "deleted"], File("song", "song", 3, 7)>>]]

ASSUME MCFormatted == WellFormatted /\ FirstClustersFit
=============================================================================

------------------------------ MODULE Karaoke -------------------------------
(***************************************************************************)
(* From the card's directory to the frames the codec gets: the play list,  *)
(* and the streaming of the song and the vocal track it names.  What main  *)
(* decides between two calls - to go on, or to start a song, in the one or *)
(* the other mode, with or without karaoke - is Player's subject; here it  *)
(* may decide anything.                                                    *)
(***************************************************************************)
EXTENDS PlayList, WaveStream

CONSTANT Dirs   \* the directories a card may have: sequences of names

\* A directory has no two entries of one name.
ASSUME DirAssumption ==
    \A d \in Dirs :
        /\ d \in Seq(DOMAIN File)
        /\ \A i, j \in DOMAIN d : d[i] = d[j] => i = j

vars == <<dir, faults, listVars, streamVars>>

Init ==
    /\ dir = <<>> /\ faults = 0 /\ pc = "insert"
    /\ ListInit /\ StreamInit

\* A card is inserted and mounted; build_wave_play_list begins.
Inserted ==
    /\ pc = "insert" /\ pc' = "scan"
    /\ dir' \in Dirs /\ scan' = NoScan /\ nFileNum' = [nFileNum EXCEPT !["song"] = 0]
    /\ UNCHANGED <<faults, list, bKaraoke, song, vocal, want, bSuccess, out, sung, sound>>

Scan == pc = "scan" /\ ScanEntry /\ UNCHANGED <<dir, streamVars>>

\* szFilename[i] of a list.
NameAt(k, i) == IF i \in DOMAIN list[k] THEN list[k][i] ELSE NoName
StartAt(i, k) == StartCall(NameAt(k, i), NameAt("vocal", i))

\* The pass ends: main returns if it found no song, or else goes on to start one.
Scanned ==
    /\ pc = "scan" /\ ScanEnd
    /\ pc' = IF scan.count["song"] = 0 THEN "exit" ELSE "built"
    /\ UNCHANGED <<dir, bKaraoke, song, vocal, want, bSuccess, out, sung, sound>>

\* A song is started, before the first one and between any two buffers.
Start ==
    /\ pc \in {"built", "execute", "ended"}
    /\ \E i \in 1 .. nFileNum["song"], k \in {"song", "bgm"} : StartAt(i, k)
    /\ bKaraoke' \in BOOLEAN
    /\ UNCHANGED listVars

\* A start or a read failed: main waits for a card and builds the list again.
Failed ==
    /\ pc = "failed" /\ pc' = "insert"
    /\ UNCHANGED <<dir, faults, listVars, bKaraoke, song, vocal, want, bSuccess,
                   out, sung, sound>>

Next ==
    \/ Inserted \/ Scan \/ Scanned \/ Start \/ Failed
    \/ Streaming /\ UNCHANGED listVars

Spec == Init /\ [][Next]_vars

\* waveplay_execute is called again and again.
LiveSpec == Spec /\ WF_vars(Streaming /\ UNCHANGED listVars)
-----------------------------------------------------------------------------
Built == pc = "built"

(* The entries of the same index are versions of the same title, as main    *)
(* takes them to be: if every title has all three and none was skipped.     *)
ListsMatch ==
    Built /\ scan.whole /\ WellNamed /\ Orderly =>
        \A i \in 1 .. nFileNum["song"] : \A k \in Kinds :
            /\ i <= nFileNum[k]
            /\ Title(list[k][i]) = Title(list["song"][i])

(* Every wave file is in its list, once, and no other file is.              *)
EveryFileListed ==
    Built /\ scan.whole /\ WellNamed /\ PrefixFree =>
        \A k \in Kinds :
            /\ Listed(k) = OnCardOfKind(k)
            /\ \A i, j \in 1 .. nFileNum[k] : list[k][i] = list[k][j] => i = j
=============================================================================

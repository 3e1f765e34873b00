------------------------------ MODULE PlayList ------------------------------
(***************************************************************************)
(* build_wave_play_list (main.c): one pass over the root directory fills   *)
(* three lists - songs, backgrounds ("bgm") and vocals, told apart by the  *)
(* end of the name - each kept sorted by insertion.  The player takes the  *)
(* entries with the same index in the three lists to be versions of the    *)
(* same song.  A name is a sequence of characters, numbered in the order   *)
(* in which they compare.                                                  *)
(***************************************************************************)
EXTENDS WaveFiles

CONSTANTS
    Ending,       \* per kind of file: the end of its name
    HeaderSize  \* sizeof(szHeader)

Kinds == {"song", "bgm", "vocal"}
NoName == <<>>

ASSUME NameAssumption ==
    /\ DOMAIN File \subseteq Seq(Nat)
    /\ \A k \in Kinds : Ending[k] \in Seq(Nat) \ {<<>>}

VARIABLES
    list,       \* the three arrays of names
    nFileNum,   \* per list: how many of them count
    scan        \* the pass: the entry it is at, its counts, bFlag

listVars == <<list, nFileNum, scan>>
-----------------------------------------------------------------------------
EndsIn(name, tail) ==
    /\ Len(name) > Len(tail)
    /\ SubSeq(name, Len(name) - Len(tail) + 1, Len(name)) = tail
MusicType(name) ==
    IF EndsIn(name, Ending["bgm"]) THEN "bgm"
    ELSE IF EndsIn(name, Ending["vocal"]) THEN "vocal" ELSE "song"
IsWav(name) == \E k \in Kinds : EndsIn(name, Ending[k])

\* Names are compared up to the end of the shorter one.
Differ(a, b) == {j \in 1 .. Len(a) : j <= Len(b) /\ a[j] # b[j]}
Before(a, b) == \E j \in Differ(a, b) : a[j] < b[j] /\ \A k \in Differ(a, b) : j <= k

\* Mutant: a name goes before every other that begins like it.
InsertByInitial(names, n, name) ==
    LET below == {i \in 1 .. n : names[i][1] < name[1]}
        at == IF below = {} THEN 1 ELSE 1 + CHOOSE i \in below : \A k \in below : k <= i
    IN [k \in 1 .. IF n < Len(names) THEN Len(names) ELSE n + 1 |->
          IF k = at THEN name ELSE IF k > at /\ k <= n + 1 THEN names[k - 1] ELSE names[k]]

\* Mutant: the names behind it are not moved up.
InsertOver(names, n, name) ==
    LET below == {i \in 1 .. n : Before(names[i], name)}
        at == IF below = {} THEN 1 ELSE 1 + CHOOSE i \in below : \A k \in below : k <= i
    IN [k \in 1 .. IF n < Len(names) THEN Len(names) ELSE n + 1 |->
          IF k = at THEN name ELSE IF k \in DOMAIN names THEN names[k] ELSE NoName]

\* The insertion of a name into the first n: from the end, the names that
\* come after it move up by one, up to the first that comes before it; a
\* name that only is longer or shorter stays and does not end the search.
\* What earlier passes left behind the first n stays as well.
Insert(names, n, name) ==
    LET below == {i \in 1 .. n : Before(names[i], name)}
        at == IF below = {} THEN 1 ELSE 1 + CHOOSE i \in below : \A k \in below : k <= i
    IN [k \in 1 .. IF n < Len(names) THEN Len(names) ELSE n + 1 |->
          IF k = at THEN name
          ELSE IF k > at /\ k <= n + 1 /\ Before(name, names[k - 1]) THEN names[k - 1]
          ELSE IF k \in DOMAIN names THEN names[k] ELSE NoName]
-----------------------------------------------------------------------------
Taken == {f \in DOMAIN File : IsWaveFile(f, HeaderSize)}

NoScan == [i |-> 1, count |-> [k \in Kinds |-> 0], bFlag |-> FALSE, whole |-> TRUE]

ListInit ==
    /\ list = [k \in Kinds |-> <<>>] /\ nFileNum = [k \in Kinds |-> 0]
    /\ scan = NoScan

\* One entry.  From the first name that ends in .wav on, bFlag stays set and
\* every entry is looked into; one that cannot be opened or read is skipped.
\* `whole` (ghost): no entry was skipped for that reason.
ScanEntry ==
    /\ scan.i \in DOMAIN dir
    /\ LET name == dir[scan.i]
           k == MusicType(name)
           flag == scan.bFlag \/ IsWav(name)
           next == [scan EXCEPT !.i = @ + 1, !.bFlag = flag]
       IN \E ok \in BOOLEAN :
            /\ IF flag THEN Outcome(Allocated[name] >= HeaderSize, ok)
               ELSE ok /\ UNCHANGED faults
            /\ IF flag /\ ok /\ name \in Taken
                 THEN /\ list' = [list EXCEPT ![k] = Insert(@, scan.count[k], name)]
                      /\ scan' = [next EXCEPT !.count[k] = @ + 1]
                 ELSE scan' = [next EXCEPT !.whole = @ /\ ok] /\ UNCHANGED list
    /\ UNCHANGED nFileNum

\* The end of the directory, or an entry that cannot be browsed, which looks
\* the same: what has been found so far are the lists.
ScanEnd ==
    /\ \/ scan.i \notin DOMAIN dir /\ UNCHANGED <<scan, faults>>
       \/ /\ scan.i \in DOMAIN dir /\ Outcome(TRUE, FALSE)
          /\ scan' = [scan EXCEPT !.whole = FALSE]
    /\ nFileNum' = scan.count
    /\ UNCHANGED list
-----------------------------------------------------------------------------
Title(name) == SubSeq(name, 1, Len(name) - Len(Ending[MusicType(name)]))
OnCardOfKind(k) ==
    {f \in {dir[i] : i \in DOMAIN dir} : MusicType(f) = k /\ f \in Taken}
Listed(k) == {list[k][i] : i \in 1 .. nFileNum[k]}

Titles(k) == {Title(f) : f \in OnCardOfKind(k)}

\* Every title on the card comes in all three versions, and the characters
\* of titles come after those the endings begin with.
Orderly ==
    \A k, m \in Kinds :
        /\ Titles(k) = Titles(m)
        /\ \A t \in Titles(k) : \A j \in DOMAIN t : t[j] > Ending[m][1]

\* Every file the player would take has a name it looks for.  (The others are
\* taken or not, depending on where in the directory they are.)
WellNamed == \A k \in Kinds : \A f \in OnCardOfKind(k) : IsWav(f)

\* No name goes on where another ends.
PrefixFree ==
    \A k \in Kinds : \A f, g \in OnCardOfKind(k) : f # g => Differ(f, g) # {}
=============================================================================

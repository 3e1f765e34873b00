--------------------------- MODULE Karaoke_proofs ---------------------------
(***************************************************************************)
(* The karaoke player from the directory to the codec, for any files, any  *)
(* names and any sizes of the buffers: the play lists are complete and     *)
(* match each other, and what is played is the data chunk.                 *)
(***************************************************************************)
EXTENDS Karaoke, TLAPS, WellFoundedInduction

(* Every non-empty set of natural numbers has a least element.             *)
LEMMA NatMin ==
  ASSUME NEW T, T \subseteq Nat, T # {}
  PROVE  \E x \in T : \A y \in T : x <= y
<1>1. PICK x \in T : \A y \in T : ~(<<y, x>> \in OpToRel(<, Nat))
  BY WFMin, NatLessThanWellFounded
<1>2. ASSUME NEW y \in T, y < x PROVE FALSE
  <2>1. <<y, x>> \in OpToRel(<, Nat)
    BY <1>2 DEF OpToRel
  <2> QED
    BY <2>1, <1>1
<1> QED
  BY <1>2

(* Division and remainder by a positive number.                            *)
LEMMA DivMod ==
  ASSUME NEW x \in Nat, NEW n \in Nat \ {0}
  PROVE  /\ x \div n \in Nat /\ x % n \in 0 .. n - 1
         /\ x = n * (x \div n) + (x % n)
  OBVIOUS

(* A positive multiple of n is at least n.                                 *)
LEMMA MulLower ==
  ASSUME NEW n \in Nat \ {0}, NEW k \in Int, k > 0
  PROVE  k * n \in Int /\ k * n >= n
  OBVIOUS

(* A multiple of n leaves no remainder, and its quotient is the factor.    *)
LEMMA OfMultiple ==
  ASSUME NEW n \in Nat \ {0}, NEW q \in Nat
  PROVE  n * q \in Nat /\ (n * q) % n = 0 /\ (n * q) \div n = q
<1> DEFINE x == n * q
           p == x \div n
           s == x % n
<1>1. x \in Nat
  OBVIOUS
<1>2. p \in Nat /\ s \in 0 .. n - 1 /\ x = n * p + s
  BY <1>1, DivMod, Zenon
<1>3. x = n * q
  OBVIOUS
<1> HIDE DEF p, s, x
<1>4. (q - p) * n = s /\ q - p \in Int
  BY <1>1, <1>2, <1>3
<1>5. ~(q - p > 0)
  <2> SUFFICES ASSUME q - p > 0 PROVE FALSE
    OBVIOUS
  <2>1. (q - p) * n >= n
    BY MulLower, <1>4
  <2> QED BY <2>1, <1>2, <1>4
<1>6. ~(p - q > 0)
  <2> SUFFICES ASSUME p - q > 0 PROVE FALSE
    OBVIOUS
  <2>1. (p - q) * n >= n /\ (p - q) * n = 0 - (q - p) * n
    BY MulLower, <1>2
  <2> QED BY <2>1, <1>2, <1>4
<1>7. p = q /\ s = 0
  BY <1>2, <1>4, <1>5, <1>6
<1> QED BY <1>1, <1>7 DEF p, s, x

(* Multiples of n are closed under sum and difference, and quotients of    *)
(* them are exact.                                                         *)
Multiple(x, n) == x \in Nat /\ x % n = 0

LEMMA Factor ==
  ASSUME NEW n \in Nat \ {0}, NEW x
  PROVE  Multiple(x, n) <=> \E q \in Nat : x = n * q
<1>1. ASSUME Multiple(x, n) PROVE \E q \in Nat : x = n * q
  <2> DEFINE p == x \div n
             s == x % n
  <2>1. p \in Nat /\ s \in 0 .. n - 1 /\ x = n * p + s /\ s = 0
    BY <1>1, DivMod, Zenon DEF Multiple
  <2> HIDE DEF p, s
  <2>2. x = n * p
    BY <2>1
  <2> QED BY <2>1, <2>2
<1>2. ASSUME NEW q \in Nat, x = n * q PROVE Multiple(x, n)
  BY <1>2, OfMultiple, Zenon DEF Multiple
<1> QED
  BY <1>1, <1>2, Zenon

LEMMA Multiples ==
  ASSUME NEW n \in Nat \ {0}, NEW x, NEW y, Multiple(x, n), Multiple(y, n)
  PROVE  /\ Multiple(x + y, n)
         /\ y <= x => Multiple(x - y, n)
         /\ (x \div n) * n = x
<1>1. PICK p \in Nat : x = n * p
  BY Factor, Zenon
<1>2. PICK q \in Nat : y = n * q
  BY Factor, Zenon
<1>3. Multiple(x + y, n)
  <2>1. x + y = n * (p + q) /\ p + q \in Nat
    BY <1>1, <1>2
  <2> QED BY <2>1, Factor
<1>4. ASSUME y <= x PROVE Multiple(x - y, n)
  <2>1. ~(q > p)
    <3> SUFFICES ASSUME q > p PROVE FALSE
      OBVIOUS
    <3>1. (q - p) * n >= n /\ q - p \in Int
      BY MulLower
    <3>2. (q - p) * n = y - x
      BY <1>1, <1>2
    <3>3. x \in Nat /\ y \in Nat
      BY DEF Multiple
    <3> QED BY <3>1, <3>2, <3>3, <1>4
  <2>2. x - y = n * (p - q) /\ p - q \in Nat
    BY <1>1, <1>2, <2>1
  <2> QED BY <2>2, Factor
<1>5. (x \div n) * n = x
  <2>1. x \div n = p
    BY <1>1, OfMultiple, Zenon
  <2>2. p * n = n * p
    OBVIOUS
  <2> QED BY <1>1, <2>1, <2>2
<1> QED
  BY <1>3, <1>4, <1>5

(* A step to the end of a block of n ends on a multiple of n.              *)
LEMMA ToBlockEnd ==
  ASSUME NEW n \in Nat \ {0}, NEW x \in Nat, NEW d \in Nat, (x % n) + d = n
  PROVE  (x + d) % n = 0
<1> DEFINE p == x \div n
           s == x % n
<1>1. p \in Nat /\ s \in 0 .. n - 1 /\ x = n * p + s /\ s + d = n
  BY DivMod, Zenon
<1> HIDE DEF p, s
<1>2. x + d = n * (p + 1) /\ p + 1 \in Nat
  BY <1>1
<1> QED BY <1>2, OfMultiple

(* A function on 1 .. n is a sequence of length n.                         *)
LEMMA FunctionIsSeq ==
  ASSUME NEW S, NEW n \in Nat, NEW s \in [1 .. n -> S]
  PROVE  s \in Seq(S) /\ Len(s) = n
  OBVIOUS

-----------------------------------------------------------------------------
(* The play lists.                                                         *)

(* A set of places among n has a last one.                                 *)
LEMMA NatMax ==
  ASSUME NEW n \in Nat, NEW T, T \subseteq 1 .. n, T # {}
  PROVE  \E x \in T : \A y \in T : y <= x
<1> DEFINE U == {n - x : x \in T}
<1>0. \A x \in T : n - x \in Nat
  <2> SUFFICES ASSUME NEW x \in T PROVE n - x \in Nat
    OBVIOUS
  <2>1. x \in 1 .. n
    OBVIOUS
  <2> QED BY <2>1
<1>1. U \subseteq Nat /\ U # {}
  BY <1>0
<1>2. PICK z \in U : \A y \in U : z <= y
  <2> HIDE DEF U
  <2> QED BY <1>1, NatMin
<1>3. PICK x \in T : z = n - x
  OBVIOUS
<1>4. ASSUME NEW y \in T PROVE y <= x
  <2>1. n - y \in U
    OBVIOUS
  <2>2. n - x <= n - y
    BY <1>2, <1>3, <2>1
  <2>3. x \in 1 .. n /\ y \in 1 .. n
    OBVIOUS
  <2> HIDE DEF U
  <2> QED BY <2>2, <2>3
<1> QED
  BY <1>4

(* a comes before b because of what is at place j.                         *)
LessAt(a, b, j) ==
  /\ j \in 1 .. Len(a) /\ j <= Len(b) /\ a[j] < b[j]
  /\ \A i \in 1 .. j - 1 : a[i] = b[i]

Text == Seq(Nat)

LEMMA TextFacts ==
  ASSUME NEW a, a \in Text
  PROVE  Len(a) \in Nat /\ \A i \in 1 .. Len(a) : a[i] \in Nat
  BY DEF Text

LEMMA BeforeIs ==
  ASSUME NEW a, a \in Text, NEW b, b \in Text
  PROVE  Before(a, b) <=> \E j : LessAt(a, b, j)
<1>0. Len(a) \in Nat /\ Len(b) \in Nat
  BY TextFacts
<1>1. ASSUME Before(a, b) PROVE \E j : LessAt(a, b, j)
  <2>1. PICK j \in Differ(a, b) : a[j] < b[j] /\ \A k \in Differ(a, b) : j <= k
    BY <1>1 DEF Before
  <2>2. j \in 1 .. Len(a) /\ j <= Len(b)
    BY <2>1 DEF Differ
  <2>3. ASSUME NEW i \in 1 .. j - 1 PROVE a[i] = b[i]
    <3>1. i \in 1 .. Len(a) /\ i <= Len(b) /\ ~(j <= i)
      BY <1>0, <2>2
    <3> QED BY <2>1, <3>1 DEF Differ
  <2> QED BY <2>1, <2>2, <2>3 DEF LessAt
<1>2. ASSUME NEW j, LessAt(a, b, j) PROVE Before(a, b)
  <2>1. /\ j \in 1 .. Len(a) /\ j <= Len(b) /\ a[j] < b[j]
        /\ \A i \in 1 .. j - 1 : a[i] = b[i]
    BY <1>2 DEF LessAt
  <2>2. a[j] \in Nat /\ b[j] \in Nat
    <3>1. j \in 1 .. Len(b)
      BY <1>0, <2>1
    <3> QED BY <2>1, <3>1, TextFacts
  <2>3. j \in Differ(a, b)
    BY <2>1, <2>2 DEF Differ
  <2>4. ASSUME NEW k \in Differ(a, b) PROVE j <= k
    <3>1. k \in 1 .. Len(a) /\ a[k] # b[k]
      BY DEF Differ
    <3>2. k \notin 1 .. j - 1
      BY <2>1, <3>1
    <3> QED BY <1>0, <2>1, <3>1, <3>2
  <2> QED BY <2>1, <2>3, <2>4 DEF Before
<1> QED
  BY <1>1, <1>2

LEMMA BeforeIrreflexive ==
  ASSUME NEW a, a \in Text
  PROVE  ~Before(a, a)
  BY DEF Before, Differ

LEMMA BeforeTransitive ==
  ASSUME NEW a, a \in Text, NEW b, b \in Text, NEW c, c \in Text, Before(a, b), Before(b, c)
  PROVE  Before(a, c)
<1>0. Len(a) \in Nat /\ Len(b) \in Nat /\ Len(c) \in Nat
  BY TextFacts
<1>1. PICK j : LessAt(a, b, j)
  BY BeforeIs
<1>2. PICK k : LessAt(b, c, k)
  BY BeforeIs
<1>3. /\ j \in 1 .. Len(a) /\ j <= Len(b) /\ a[j] < b[j]
      /\ \A i \in 1 .. j - 1 : a[i] = b[i]
  BY <1>1 DEF LessAt
<1>4. /\ k \in 1 .. Len(b) /\ k <= Len(c) /\ b[k] < c[k]
      /\ \A i \in 1 .. k - 1 : b[i] = c[i]
  BY <1>2 DEF LessAt
<1> DEFINE m == IF j < k THEN j ELSE k
<1>5. m \in 1 .. Len(a) /\ m <= Len(b) /\ m <= Len(c)
  BY <1>0, <1>3, <1>4
<1>6. \A i \in 1 .. m - 1 : i \in 1 .. j - 1 /\ i \in 1 .. k - 1
  BY <1>0, <1>3, <1>4
<1>7. a[m] \in Nat /\ b[m] \in Nat /\ c[m] \in Nat
  <2>1. m \in 1 .. Len(b) /\ m \in 1 .. Len(c)
    BY <1>0, <1>5
  <2> HIDE DEF m
  <2> QED BY <1>5, <2>1, TextFacts
<1>8. a[m] < c[m]
  <2>1. CASE j < k
    <3>1. m = j /\ j \in 1 .. k - 1
      BY <1>0, <1>3, <1>4, <2>1
    <3> QED BY <1>3, <1>4, <3>1
  <2>2. CASE k < j
    <3>1. m = k /\ k \in 1 .. j - 1
      BY <1>0, <1>3, <1>4, <2>2
    <3> QED BY <1>3, <1>4, <3>1
  <2>3. CASE j = k
    <3>1. m = k /\ m = j
      BY <2>3
    <3> HIDE DEF m
    <3> QED BY <1>3, <1>4, <1>7, <3>1
  <2> QED BY <1>0, <1>3, <1>4, <2>1, <2>2, <2>3
<1>9. \A i \in 1 .. m - 1 : a[i] = c[i]
  <2> HIDE DEF m
  <2> QED BY <1>3, <1>4, <1>6
<1> HIDE DEF m
<1> QED
  BY <1>5, <1>8, <1>9, BeforeIs DEF LessAt

(* Names that differ compare.                                              *)
LEMMA BeforeTotal ==
  ASSUME NEW a, a \in Text, NEW b, b \in Text, Differ(a, b) # {}
  PROVE  Before(a, b) \/ Before(b, a)
<1>0. Len(a) \in Nat /\ Len(b) \in Nat
  BY TextFacts
<1>1. PICK j \in Differ(a, b) : \A k \in Differ(a, b) : j <= k
  <2>1. Differ(a, b) \subseteq Nat
    BY <1>0 DEF Differ
  <2> QED BY <2>1, NatMin
<1>2. j \in 1 .. Len(a) /\ j \in 1 .. Len(b) /\ a[j] # b[j]
  BY <1>0 DEF Differ
<1>3. a[j] \in Nat /\ b[j] \in Nat
  BY <1>2, TextFacts
<1>4. CASE a[j] < b[j]
  BY <1>1, <1>4 DEF Before
<1>5. CASE b[j] < a[j]
  <2>1. Differ(b, a) = Differ(a, b)
    BY <1>0 DEF Differ
  <2> QED BY <1>1, <1>5, <2>1 DEF Before
<1> QED
  BY <1>2, <1>3, <1>4, <1>5
-----------------------------------------------------------------------------
(* The first n names are in strictly ascending order.                      *)
Sorted(names, n) == \A i, j \in 1 .. n : i < j => Before(names[i], names[j])

First(names, n) == {names[i] : i \in 1 .. n}

(* Where Insert puts a name.                                               *)
Below(names, n, name) == {i \in 1 .. n : Before(names[i], name)}
At(names, n, name) ==
  IF Below(names, n, name) = {} THEN 1
  ELSE 1 + CHOOSE i \in Below(names, n, name) : \A k \in Below(names, n, name) : k <= i

LEMMA InsertIs ==
  ASSUME NEW names, NEW n, NEW name
  PROVE  Insert(names, n, name) =
           [k \in 1 .. IF n < Len(names) THEN Len(names) ELSE n + 1 |->
              IF k = At(names, n, name) THEN name
              ELSE IF k > At(names, n, name) /\ k <= n + 1 /\ Before(name, names[k - 1])
                THEN names[k - 1]
              ELSE IF k \in DOMAIN names THEN names[k] ELSE NoName]
  BY Zenon DEF Insert, At, Below

LEMMA AtFacts ==
  ASSUME NEW names, NEW n \in Nat, NEW name
  PROVE  /\ At(names, n, name) \in 1 .. n + 1
         /\ \A i \in Below(names, n, name) : i < At(names, n, name)
         /\ At(names, n, name) # 1 => At(names, n, name) - 1 \in Below(names, n, name)
<1> DEFINE below == Below(names, n, name)
           last == CHOOSE i \in below : \A k \in below : k <= i
           at == At(names, n, name)
<1>1. below \subseteq 1 .. n
  BY DEF Below
<1>2. CASE below = {}
  <2>1. at = 1
    BY <1>2 DEF At
  <2> QED BY <1>2, <2>1
<1>3. CASE below # {}
  <2>1. last \in below /\ \A k \in below : k <= last
    <3>1. \E i \in below : \A k \in below : k <= i
      <4> HIDE DEF below
      <4> QED BY <1>1, <1>3, NatMax
    <3> HIDE DEF below
    <3> QED BY <3>1, Zenon
  <2>2. at = 1 + last
    BY <1>3, Zenon DEF At
  <2> HIDE DEF below, last, at
  <2>3. /\ at \in 1 .. n + 1 /\ at - 1 = last
        /\ \A i \in below : i < at
    BY <1>1, <2>1, <2>2
  <2> QED BY <2>1, <2>3 DEF below, at
<1> QED
  BY <1>2, <1>3

LEMMA InsertType ==
  ASSUME NEW names \in Seq(Text), NEW n \in Nat, n <= Len(names), NEW name \in Text
  PROVE  /\ Insert(names, n, name) \in Seq(Text)
         /\ n + 1 <= Len(Insert(names, n, name))
<1> DEFINE size == IF n < Len(names) THEN Len(names) ELSE n + 1
           at == At(names, n, name)
           r == [k \in 1 .. size |->
                   IF k = at THEN name
                   ELSE IF k > at /\ k <= n + 1 /\ Before(name, names[k - 1]) THEN names[k - 1]
                   ELSE IF k \in DOMAIN names THEN names[k] ELSE NoName]
<1>1. Insert(names, n, name) = r
  BY InsertIs, Zenon
<1>2. at \in 1 .. n + 1
  BY AtFacts
<1>3. size \in Nat /\ n + 1 <= size
  OBVIOUS
<1> HIDE DEF at, size
<1>4. ASSUME NEW k \in 1 .. size PROVE r[k] \in Text
  <2>1. CASE k = at
    BY <2>1
  <2>2. CASE k # at /\ k > at /\ k <= n + 1 /\ Before(name, names[k - 1])
    <3>1. k - 1 \in 1 .. Len(names)
      BY <1>2, <1>3, <2>2
    <3> QED BY <2>2, <3>1
  <2>3. CASE k # at /\ ~(k > at /\ k <= n + 1 /\ Before(name, names[k - 1])) /\ k \in DOMAIN names
    BY <2>3
  <2>4. CASE k # at /\ ~(k > at /\ k <= n + 1 /\ Before(name, names[k - 1])) /\ k \notin DOMAIN names
    <3>1. NoName \in Text
      BY DEF NoName, Text
    <3> QED BY <2>4, <3>1
  <2> QED BY <2>1, <2>2, <2>3, <2>4
<1>5. r \in [1 .. size -> Text]
  BY <1>4
<1> HIDE DEF r
<1> QED
  BY <1>1, <1>3, <1>5, FunctionIsSeq

(* A name that compares with all of them goes to its place among them.     *)
LEMMA InsertSorted ==
  ASSUME NEW names \in Seq(Text), NEW n \in Nat, n <= Len(names), NEW name \in Text,
         Sorted(names, n),
         \A i \in 1 .. n : Before(names[i], name) \/ Before(name, names[i])
  PROVE  /\ Sorted(Insert(names, n, name), n + 1)
         /\ First(Insert(names, n, name), n + 1) = First(names, n) \cup {name}
<1> DEFINE at == At(names, n, name)
           r == Insert(names, n, name)
<1>0. \A i \in 1 .. n : names[i] \in Text /\ i \in DOMAIN names
  OBVIOUS
<1>1. /\ at \in 1 .. n + 1
      /\ \A i \in Below(names, n, name) : i < at
      /\ at # 1 => at - 1 \in Below(names, n, name)
  BY AtFacts
<1>2. ASSUME NEW i \in 1 .. n, i < at PROVE Before(names[i], name)
  <2>1. at - 1 \in Below(names, n, name)
    BY <1>1, <1>2
  <2>2. at - 1 \in 1 .. n /\ Before(names[at - 1], name)
    BY <2>1, Zenon DEF Below
  <2>3. CASE i = at - 1
    BY <2>2, <2>3
  <2>4. CASE i # at - 1
    <3>1. i < at - 1
      BY <1>1, <1>2, <2>4
    <3>2. Before(names[i], names[at - 1])
      BY <2>2, <3>1 DEF Sorted
    <3> QED BY <1>0, <2>2, <3>2, BeforeTransitive
  <2> QED BY <2>3, <2>4
<1>3. ASSUME NEW i \in 1 .. n, ~(i < at) PROVE Before(name, names[i])
  BY <1>1, <1>3 DEF Below
<1> DEFINE size == IF n < Len(names) THEN Len(names) ELSE n + 1
<1>4. \A k \in 1 .. n + 1 : k \in 1 .. size
  OBVIOUS
<1>5. r = [k \in 1 .. size |->
             IF k = at THEN name
             ELSE IF k > at /\ k <= n + 1 /\ Before(name, names[k - 1]) THEN names[k - 1]
             ELSE IF k \in DOMAIN names THEN names[k] ELSE NoName]
  BY InsertIs, Zenon
<1> HIDE DEF at, r, size
<1>6. ASSUME NEW k \in 1 .. n + 1
      PROVE  /\ k < at => k \in 1 .. n /\ r[k] = names[k]
             /\ k = at => r[k] = name
             /\ k > at => k - 1 \in 1 .. n /\ r[k] = names[k - 1] /\ ~(k - 1 < at)
  <2>1. CASE k < at
    <3>1. k \in 1 .. n /\ k # at /\ ~(k > at)
      BY <1>1, <2>1
    <3>2. k \in DOMAIN names
      BY <1>0, <3>1
    <3> QED BY <1>4, <1>5, <2>1, <3>1, <3>2
  <2>2. CASE k = at
    <3>1. ~(k < at) /\ ~(k > at)
      BY <1>1, <2>2
    <3> QED BY <1>4, <1>5, <2>2, <3>1
  <2>3. CASE k > at
    <3>1. k - 1 \in 1 .. n /\ k # at /\ ~(k < at) /\ ~(k - 1 < at) /\ k <= n + 1
      BY <1>1, <2>3
    <3>2. Before(name, names[k - 1])
      BY <1>3, <3>1
    <3> QED BY <1>4, <1>5, <2>3, <3>1, <3>2
  <2> QED BY <1>1, <2>1, <2>2, <2>3
<1>7. Sorted(r, n + 1)
  <2> SUFFICES ASSUME NEW i \in 1 .. n + 1, NEW j \in 1 .. n + 1, i < j
               PROVE  Before(r[i], r[j])
    BY DEF Sorted
  <2>1. CASE j < at
    <3>1. i < at
      BY <1>1, <2>1
    <3> QED BY <1>6, <2>1, <3>1 DEF Sorted
  <2>2. CASE j = at
    BY <1>2, <1>6, <2>2
  <2>3. CASE j > at
    <3>1. j - 1 \in 1 .. n /\ r[j] = names[j - 1] /\ ~(j - 1 < at)
      BY <1>6, <2>3
    <3>2. Before(name, r[j])
      BY <1>3, <3>1
    <3>3. CASE i = at
      BY <1>6, <3>2, <3>3
    <3>4. CASE i < at
      <4>1. r[i] = names[i] /\ i \in 1 .. n
        BY <1>6, <3>4
      <4>2. i < j - 1
        BY <1>1, <3>1, <3>4
      <4> QED BY <3>1, <4>1, <4>2 DEF Sorted
    <3>5. CASE i > at
      <4>1. r[i] = names[i - 1] /\ i - 1 \in 1 .. n /\ i - 1 < j - 1
        BY <1>6, <3>5
      <4> QED BY <3>1, <4>1 DEF Sorted
    <3> QED BY <1>1, <3>3, <3>4, <3>5
  <2> QED BY <1>1, <2>1, <2>2, <2>3
<1>8. First(r, n + 1) = First(names, n) \cup {name}
  <2>1. ASSUME NEW k \in 1 .. n + 1 PROVE r[k] \in First(names, n) \cup {name}
    <3>1. CASE k < at
      BY <1>6, <3>1 DEF First
    <3>2. CASE k = at
      BY <1>6, <3>2
    <3>3. CASE k > at
      BY <1>6, <3>3 DEF First
    <3> QED BY <1>1, <3>1, <3>2, <3>3
  <2>2. ASSUME NEW k \in 1 .. n PROVE names[k] \in First(r, n + 1)
    <3>1. CASE k < at
      <4>1. k \in 1 .. n + 1
        OBVIOUS
      <4> QED BY <1>6, <3>1, <4>1 DEF First
    <3>2. CASE ~(k < at)
      <4>1. k + 1 \in 1 .. n + 1 /\ k + 1 > at /\ (k + 1) - 1 = k
        BY <1>1, <3>2
      <4>2. r[k + 1] = names[k]
        BY <1>6, <4>1
      <4> QED BY <4>1, <4>2 DEF First
    <3> QED BY <3>1, <3>2
  <2>3. name \in First(r, n + 1)
    BY <1>1, <1>6 DEF First
  <2> QED BY <2>1, <2>2, <2>3 DEF First
<1> QED
  BY <1>7, <1>8 DEF r
-----------------------------------------------------------------------------
(* The type of the lists, and how the first names of each stand to the     *)
(* directory.                                                              *)
ScanType == [i : Nat \ {0}, count : [Kinds -> Nat], bFlag : BOOLEAN, whole : BOOLEAN]

ListType ==
  /\ list \in [Kinds -> Seq(Text)] /\ nFileNum \in [Kinds -> Nat]
  /\ scan \in ScanType
  /\ \A k \in Kinds : scan.count[k] <= Len(list[k])
  /\ dir \in Seq(DOMAIN File)
  /\ \A i, j \in DOMAIN dir : dir[i] = dir[j] => i = j

(* The files of kind k among the entries before i that are to be listed.   *)
Found(k, i) == {f \in {dir[j] : j \in {n \in DOMAIN dir : n < i}} :
                  MusicType(f) = k /\ f \in Taken}

ScanOK ==
  pc = "scan" /\ scan.whole /\ WellNamed /\ PrefixFree =>
    \A k \in Kinds : /\ Sorted(list[k], scan.count[k])
                     /\ First(list[k], scan.count[k]) = Found(k, scan.i)

BuiltOK ==
  Built /\ scan.whole /\ WellNamed /\ PrefixFree =>
    \A k \in Kinds : Sorted(list[k], nFileNum[k]) /\ Listed(k) = OnCardOfKind(k)

ListInv == ListType /\ ScanOK /\ BuiltOK
-----------------------------------------------------------------------------
LEMMA FileIsText == ASSUME NEW f \in DOMAIN File PROVE f \in Text
  BY NameAssumption DEF Text

LEMMA KindOf == ASSUME NEW f PROVE MusicType(f) \in Kinds
  BY DEF MusicType, Kinds

LEMMA ListInitOK == Init => ListInv
<1> SUFFICES ASSUME Init PROVE ListInv
  OBVIOUS
<1>1. /\ list = [k \in Kinds |-> <<>>] /\ scan = NoScan /\ dir = <<>> /\ pc = "insert"
      /\ nFileNum \in [Kinds -> Nat]
  BY DEF Init, ListInit
<1>2. list \in [Kinds -> Seq(Text)] /\ \A k \in Kinds : Len(list[k]) = 0
  BY <1>1
<1>3. scan \in ScanType /\ \A k \in Kinds : scan.count[k] = 0
  BY <1>1 DEF NoScan, ScanType
<1>4. dir \in Seq(DOMAIN File) /\ DOMAIN dir = {}
  BY <1>1
<1>5. ScanOK /\ BuiltOK
  BY <1>1 DEF ScanOK, BuiltOK, Built
<1> QED
  BY <1>1, <1>2, <1>3, <1>4, <1>5 DEF ListInv, ListType

LEMMA InsertedLists == ListInv /\ Inserted => ListInv'
<1> SUFFICES ASSUME ListInv, Inserted PROVE ListInv'
  OBVIOUS
<1>1. /\ pc' = "scan" /\ dir' \in Dirs /\ scan' = NoScan /\ list' = list
  BY DEF Inserted
<1>2. scan' \in ScanType /\ scan'.i = 1 /\ \A k \in Kinds : scan'.count[k] = 0
  BY <1>1 DEF NoScan, ScanType
<1>3. /\ dir' \in Seq(DOMAIN File)
      /\ \A i, j \in DOMAIN dir' : dir'[i] = dir'[j] => i = j
  BY <1>1, DirAssumption
<1>4. list' \in [Kinds -> Seq(Text)] /\ nFileNum' \in [Kinds -> Nat]
  BY <1>1 DEF ListInv, ListType, Inserted
<1>5. \A k \in Kinds : 0 <= Len(list'[k])
  BY <1>4
<1>6. ListType'
  BY <1>2, <1>3, <1>4, <1>5 DEF ListType
<1>7. \A k \in Kinds : Sorted(list'[k], 0) /\ First(list'[k], 0) = {}
  BY DEF Sorted, First
<1>8. ASSUME NEW k \in Kinds PROVE Found(k, 1)' = {}
  <2>1. DOMAIN dir' \subseteq Nat \ {0}
    BY <1>3
  <2>2. \A n \in DOMAIN dir' : ~(n < 1)
    BY <2>1
  <2> QED BY <2>2 DEF Found
<1>9. ScanOK'
  BY <1>2, <1>7, <1>8 DEF ScanOK
<1>10. BuiltOK'
  BY <1>1 DEF BuiltOK, Built
<1> QED
  BY <1>6, <1>9, <1>10 DEF ListInv

(* Steps that leave the card and its lists alone.                          *)
LEMMA OtherLists ==
  ASSUME ListInv, UNCHANGED <<dir, listVars>>, pc' = pc \/ pc' \notin {"scan", "built"}
  PROVE  ListInv'
<1>1. list' = list /\ scan' = scan /\ nFileNum' = nFileNum /\ dir' = dir
  BY DEF listVars
<1>2. ListType'
  BY <1>1 DEF ListInv, ListType
<1>3. ScanOK'
  BY <1>1 DEF ListInv, ScanOK, WellNamed, PrefixFree, Found, OnCardOfKind
<1>4. BuiltOK'
  BY <1>1 DEF ListInv, BuiltOK, Built, WellNamed, PrefixFree, Listed, OnCardOfKind
<1> QED
  BY <1>2, <1>3, <1>4 DEF ListInv

(* What the next entry adds.                                               *)
LEMMA FoundNext ==
  ASSUME ListType, scan.i \in DOMAIN dir, NEW k \in Kinds
  PROVE  LET name == dir[scan.i]
         IN Found(k, scan.i + 1) =
              IF MusicType(name) = k /\ name \in Taken
                THEN Found(k, scan.i) \cup {name} ELSE Found(k, scan.i)
<1> DEFINE i == scan.i
<1>1. i \in Nat /\ DOMAIN dir \subseteq Nat
  BY DEF ListType, ScanType
<1>2. \A n \in DOMAIN dir : n < i + 1 <=> n < i \/ n = i
  BY <1>1
<1> HIDE DEF i
<1>3. {dir[j] : j \in {n \in DOMAIN dir : n < i + 1}} =
        {dir[j] : j \in {n \in DOMAIN dir : n < i}} \cup {dir[i]}
  <2>1. i \in DOMAIN dir
    BY DEF i
  <2> QED BY <1>2, <2>1
<1> QED
  BY <1>3 DEF Found, i

(* A listed name compares with the next one of its kind.                   *)
LEMMA Comparable ==
  ASSUME ListType, PrefixFree, scan.i \in DOMAIN dir, dir[scan.i] \in Taken,
         NEW k \in Kinds, k = MusicType(dir[scan.i]), NEW f \in Found(k, scan.i)
  PROVE  Before(f, dir[scan.i]) \/ Before(dir[scan.i], f)
<1> DEFINE name == dir[scan.i]
<1>1. PICK j \in DOMAIN dir : f = dir[j] /\ j < scan.i
  BY DEF Found
<1>2. j # scan.i
  BY <1>1 DEF ListType, ScanType
<1>3. f # name
  BY <1>1, <1>2 DEF ListType
<1>4. f \in OnCardOfKind(k) /\ name \in OnCardOfKind(k)
  BY <1>1 DEF Found, OnCardOfKind
<1>5. Differ(f, name) # {}
  BY <1>3, <1>4 DEF PrefixFree
<1>6. f \in Text /\ name \in Text
  BY <1>1, FileIsText DEF ListType
<1> QED
  BY <1>5, <1>6, BeforeTotal

(* The entry is put into the list of its kind.                             *)
LEMMA TakenLists ==
  ASSUME ListInv, Scan, scan.i \in DOMAIN dir, NEW k, k = MusicType(dir[scan.i]),
         dir[scan.i] \in Taken,
         list' = [list EXCEPT ![k] = Insert(@, scan.count[k], dir[scan.i])],
         NEW flag \in BOOLEAN, NEW count,
         count = [scan.count EXCEPT ![k] = @ + 1],
         scan' = [scan EXCEPT !.i = @ + 1, !.bFlag = flag, !.count = count]
  PROVE  ListInv'
<1> DEFINE name == dir[scan.i]
           n == scan.count[k]
           new == Insert(list[k], n, name)
<1>1. pc = "scan" /\ pc' = "scan" /\ dir' = dir /\ nFileNum' = nFileNum
  BY DEF Scan, streamVars, ScanEntry
<1>2. /\ k \in Kinds /\ name \in Text
      /\ list[k] \in Seq(Text) /\ n \in Nat /\ n <= Len(list[k])
  BY KindOf, FileIsText DEF ListInv, ListType, ScanType
<1>3. new \in Seq(Text) /\ n + 1 <= Len(new)
  BY <1>2, InsertType
<1> HIDE DEF new, name
<1>4. list' \in [Kinds -> Seq(Text)] /\ list'[k] = new /\ \A m \in Kinds \ {k} : list'[m] = list[m]
  BY <1>2, <1>3 DEF ListInv, ListType, new, name
<1>5. /\ scan' \in ScanType /\ scan'.i = scan.i + 1 /\ scan'.whole = scan.whole
      /\ scan'.count[k] = n + 1 /\ \A m \in Kinds \ {k} : scan'.count[m] = scan.count[m]
  <2>1. scan \in ScanType
    BY DEF ListInv, ListType
  <2>2. n + 1 \in Nat /\ scan.i + 1 \in Nat \ {0} /\ scan.count \in [Kinds -> Nat]
    BY <1>2, <2>1 DEF ScanType
  <2>3. count \in [Kinds -> Nat] /\ count[k] = n + 1 /\ \A m \in Kinds \ {k} : count[m] = scan.count[m]
    BY <1>2, <2>2
  <2>4. /\ scan' \in ScanType /\ scan'.i = scan.i + 1 /\ scan'.whole = scan.whole
        /\ scan'.count = count
    BY <2>1, <2>2, <2>3 DEF ScanType
  <2> QED BY <2>3, <2>4
<1>6. ListType'
  <2>1. \A m \in Kinds : scan'.count[m] <= Len(list'[m])
    BY <1>3, <1>4, <1>5 DEF ListInv, ListType
  <2> QED BY <1>1, <1>4, <1>5, <2>1 DEF ListInv, ListType
<1>7. ScanOK'
  <2> SUFFICES ASSUME scan.whole, WellNamed, PrefixFree, NEW m \in Kinds
               PROVE  /\ Sorted(list'[m], scan'.count[m])
                      /\ First(list'[m], scan'.count[m]) = Found(m, scan'.i)
    BY <1>1, <1>5 DEF ScanOK, WellNamed, PrefixFree, OnCardOfKind, Found
  <2>1. /\ Sorted(list[m], scan.count[m])
        /\ First(list[m], scan.count[m]) = Found(m, scan.i)
    BY <1>1 DEF ListInv, ScanOK
  <2>2. Found(m, scan'.i) = IF m = k THEN Found(m, scan.i) \cup {name} ELSE Found(m, scan.i)
    BY <1>5, FoundNext DEF ListInv, name
  <2>3. CASE m # k
    BY <1>4, <1>5, <2>1, <2>2, <2>3
  <2>4. CASE m = k
    <3>1. ASSUME NEW j \in 1 .. n
          PROVE  Before(list[k][j], name) \/ Before(name, list[k][j])
      <4>1. list[k][j] \in Found(k, scan.i)
        BY <2>1, <2>4 DEF First
      <4> QED BY <1>2, <4>1, Comparable DEF ListInv, name
    <3>2. Sorted(list[k], n)
      BY <2>1, <2>4
    <3>3. /\ Sorted(new, n + 1)
          /\ First(new, n + 1) = First(list[k], n) \cup {name}
      <4> DEFINE names == list[k]
      <4>1. /\ names \in Seq(Text) /\ n \in Nat /\ n <= Len(names) /\ name \in Text
            /\ Sorted(names, n)
        BY <1>2, <3>2
      <4>2. \A j \in 1 .. n : Before(names[j], name) \/ Before(name, names[j])
        BY <3>1
      <4> HIDE DEF n, names
      <4>3. /\ Sorted(Insert(names, n, name), n + 1)
            /\ First(Insert(names, n, name), n + 1) = First(names, n) \cup {name}
        BY <4>1, <4>2, InsertSorted
      <4> QED BY <4>3 DEF new, names
    <3> QED BY <1>4, <1>5, <2>1, <2>2, <2>4, <3>3
  <2> QED BY <2>3, <2>4
<1>8. BuiltOK'
  BY <1>1 DEF BuiltOK, Built
<1> QED
  BY <1>6, <1>7, <1>8 DEF ListInv

(* The entry is passed over.                                               *)
LEMMA PassedLists ==
  ASSUME ListInv, Scan, scan.i \in DOMAIN dir, list' = list,
         NEW whole \in BOOLEAN, NEW flag \in BOOLEAN,
         scan' = [scan EXCEPT !.i = @ + 1, !.bFlag = flag, !.whole = whole],
         whole => scan.whole /\ (IsWav(dir[scan.i]) => dir[scan.i] \notin Taken)
  PROVE  ListInv'
<1> DEFINE name == dir[scan.i]
           k == MusicType(name)
<1>1. pc = "scan" /\ pc' = "scan" /\ dir' = dir /\ nFileNum' = nFileNum
  BY DEF Scan, streamVars, ScanEntry
<1>2. /\ scan' \in ScanType /\ scan'.i = scan.i + 1 /\ scan'.whole = whole
      /\ scan'.count = scan.count
  <2>1. scan \in ScanType
    BY DEF ListInv, ListType
  <2>2. scan.i + 1 \in Nat \ {0}
    BY <2>1 DEF ScanType
  <2> QED BY <2>1, <2>2 DEF ScanType
<1>3. ListType'
  BY <1>1, <1>2 DEF ListInv, ListType
<1>4. ScanOK'
  <2> SUFFICES ASSUME whole, WellNamed, PrefixFree, NEW m \in Kinds
               PROVE  /\ Sorted(list[m], scan.count[m])
                      /\ First(list[m], scan.count[m]) = Found(m, scan.i + 1)
    BY <1>1, <1>2 DEF ScanOK, WellNamed, PrefixFree, OnCardOfKind, Found
  <2>1. /\ Sorted(list[m], scan.count[m])
        /\ First(list[m], scan.count[m]) = Found(m, scan.i)
    BY <1>1 DEF ListInv, ScanOK
  <2>2. name \notin Taken
    <3>1. ASSUME name \in Taken PROVE IsWav(name)
      <4>1. name \in OnCardOfKind(k)
        BY <3>1 DEF OnCardOfKind
      <4>2. k \in Kinds
        BY KindOf
      <4> HIDE DEF k, name
      <4> QED BY <4>1, <4>2 DEF WellNamed
    <3> QED BY <3>1
  <2>3. Found(m, scan.i + 1) = Found(m, scan.i)
    BY <2>2, FoundNext DEF ListInv
  <2> QED BY <2>1, <2>3
<1>5. BuiltOK'
  BY <1>1 DEF BuiltOK, Built
<1> QED
  BY <1>3, <1>4, <1>5 DEF ListInv

LEMMA ScanLists == ListInv /\ Scan => ListInv'
<1> SUFFICES ASSUME ListInv, Scan PROVE ListInv'
  OBVIOUS
<1> DEFINE name == dir[scan.i]
           k == MusicType(name)
           flag == scan.bFlag \/ IsWav(name)
           next == [scan EXCEPT !.i = @ + 1, !.bFlag = flag]
<1>1. PICK ok \in BOOLEAN :
        /\ scan.i \in DOMAIN dir
        /\ ~flag => ok
        /\ IF flag /\ ok /\ name \in Taken
             THEN /\ list' = [list EXCEPT ![k] = Insert(@, scan.count[k], name)]
                  /\ scan' = [next EXCEPT !.count[k] = @ + 1]
             ELSE scan' = [next EXCEPT !.whole = @ /\ ok] /\ list' = list
  BY DEF Scan, ScanEntry
<1>2. scan \in ScanType /\ k \in Kinds
  BY KindOf DEF ListInv, ListType
<1>3. flag \in BOOLEAN /\ scan.whole \in BOOLEAN /\ scan.i \in Nat
  BY <1>2 DEF ScanType, IsWav
<1>4. CASE flag /\ ok /\ name \in Taken
  <2>1. /\ list' = [list EXCEPT ![k] = Insert(@, scan.count[k], name)]
        /\ scan' = [next EXCEPT !.count[k] = @ + 1]
    BY <1>1, <1>4
  <2> HIDE DEF flag, k
  <2> DEFINE count == [scan.count EXCEPT ![k] = @ + 1]
  <2>2. scan' = [scan EXCEPT !.i = @ + 1, !.bFlag = flag, !.count = count]
    BY <1>2, <2>1 DEF ScanType
  <2> HIDE DEF count
  <2>3. list' = [list EXCEPT ![k] = Insert(@, scan.count[k], dir[scan.i])]
    BY <2>1
  <2>4. scan.i \in DOMAIN dir /\ k = MusicType(dir[scan.i]) /\ dir[scan.i] \in Taken
    BY <1>1, <1>4 DEF k
  <2>5. count = [scan.count EXCEPT ![k] = @ + 1]
    BY DEF count
  <2> QED BY <1>3, <2>2, <2>3, <2>4, <2>5, TakenLists, Zenon
<1>5. CASE ~(flag /\ ok /\ name \in Taken)
  <2> DEFINE whole == scan.whole /\ ok
  <2>1. scan' = [next EXCEPT !.whole = @ /\ ok] /\ list' = list
    BY <1>1, <1>5
  <2> HIDE DEF flag
  <2>2. whole \in BOOLEAN /\ scan' = [scan EXCEPT !.i = @ + 1, !.bFlag = flag, !.whole = whole]
    BY <1>2, <2>1 DEF ScanType
  <2>3. whole => scan.whole /\ (IsWav(name) => name \notin Taken)
    BY <1>5 DEF flag
  <2> HIDE DEF whole, name
  <2> QED BY <1>1, <1>3, <2>1, <2>2, <2>3, PassedLists DEF name
<1> QED
  BY <1>4, <1>5

LEMMA ScannedLists == ListInv /\ Scanned => ListInv'
<1> SUFFICES ASSUME ListInv, Scanned PROVE ListInv'
  OBVIOUS
<1>1. /\ pc = "scan" /\ pc' \in {"exit", "built"} /\ dir' = dir /\ list' = list
      /\ nFileNum' = scan.count
      /\ \/ scan.i \notin DOMAIN dir /\ scan' = scan
         \/ scan' = [scan EXCEPT !.whole = FALSE]
  BY DEF Scanned, ScanEnd
<1>2. scan' \in ScanType /\ scan'.count = scan.count
  BY <1>1 DEF ListInv, ListType, ScanType
<1>3. ListType'
  <2>1. scan.count \in [Kinds -> Nat]
    BY DEF ListInv, ListType, ScanType
  <2> QED BY <1>1, <1>2, <2>1 DEF ListInv, ListType
<1>4. ScanOK'
  BY <1>1 DEF ScanOK
<1>5. BuiltOK'
  <2> SUFFICES ASSUME scan'.whole, WellNamed, PrefixFree, NEW k \in Kinds
               PROVE  /\ Sorted(list[k], scan.count[k])
                      /\ First(list[k], scan.count[k]) = OnCardOfKind(k)
    BY <1>1 DEF BuiltOK, WellNamed, PrefixFree, OnCardOfKind, Listed, First
  <2>1. scan.i \notin DOMAIN dir /\ scan.whole
    <3>1. scan \in ScanType
      BY DEF ListInv, ListType
    <3> QED BY <1>1, <3>1 DEF ScanType
  <2>2. /\ Sorted(list[k], scan.count[k])
        /\ First(list[k], scan.count[k]) = Found(k, scan.i)
    BY <1>1, <2>1 DEF ListInv, ScanOK
  <2>3. Found(k, scan.i) = OnCardOfKind(k)
    <3>1. scan.i \in Nat \ {0} /\ DOMAIN dir = 1 .. Len(dir) /\ Len(dir) \in Nat
      BY DEF ListInv, ListType, ScanType
    <3>2. \A n \in DOMAIN dir : n < scan.i
      BY <2>1, <3>1
    <3>3. {n \in DOMAIN dir : n < scan.i} = DOMAIN dir
      BY <3>2
    <3> QED BY <3>3 DEF Found, OnCardOfKind
  <2> QED BY <2>2, <2>3
<1> QED
  BY <1>3, <1>4, <1>5 DEF ListInv

LEMMA ListNext == ListInv /\ [Next]_vars => ListInv'
<1> SUFFICES ASSUME ListInv, [Next]_vars PROVE ListInv'
  OBVIOUS
<1>1. CASE Inserted BY <1>1, InsertedLists
<1>2. CASE Scan BY <1>2, ScanLists
<1>3. CASE Scanned BY <1>3, ScannedLists
<1>4. CASE Start
  BY <1>4, OtherLists DEF Start, StartAt, StartCall
<1>5. CASE Failed
  BY <1>5, OtherLists DEF Failed
<1>6. CASE Streaming /\ UNCHANGED listVars
  <2>1. dir' = dir /\ pc' \notin {"scan", "built"}
    BY <1>6 DEF Streaming, StartSong, StartVocal, ExecuteEnd, ExecuteBegin,
                RefillSong, RefillVocal, Refill, Play, PlayStep
  <2> QED BY <1>6, <2>1, OtherLists
<1>7. CASE UNCHANGED vars
  BY <1>7, OtherLists DEF vars, streamVars
<1> QED
  BY <1>1, <1>2, <1>3, <1>4, <1>5, <1>6, <1>7 DEF Next

(* How the lists stand to the directory in every state.                    *)
THEOREM ListInvariant == Spec => []ListInv
<1>1. Init => ListInv
  BY ListInitOK
<1>2. ListInv /\ [Next]_vars => ListInv'
  BY ListNext
<1> QED
  BY <1>1, <1>2, PTL DEF Spec

(* A list that is complete and in order.                                   *)
InOrder(k) == Sorted(list[k], nFileNum[k]) /\ Listed(k) = OnCardOfKind(k)

LEMMA OnCardIsText ==
  ASSUME ListType, NEW k, NEW f \in OnCardOfKind(k)
  PROVE  f \in Text /\ MusicType(f) = k
  BY FileIsText DEF OnCardOfKind, ListType

(* Every wave file is in its list, once, and no other file is              *)
(* (build_wave_play_list).                                                 *)
THEOREM EveryFileListedCorrect == Spec => []EveryFileListed
<1>1. ListInv => EveryFileListed
  <2> SUFFICES ASSUME ListInv, Built, scan.whole, WellNamed, PrefixFree, NEW k \in Kinds
               PROVE  /\ Listed(k) = OnCardOfKind(k)
                      /\ \A i, j \in 1 .. nFileNum[k] : list[k][i] = list[k][j] => i = j
    BY DEF EveryFileListed
  <2>1. Sorted(list[k], nFileNum[k]) /\ Listed(k) = OnCardOfKind(k)
    BY DEF ListInv, BuiltOK
  <2>2. ASSUME NEW i \in 1 .. nFileNum[k] PROVE list[k][i] \in Text
    BY <2>1, OnCardIsText DEF Listed, ListInv
  <2>3. ASSUME NEW i \in 1 .. nFileNum[k], NEW j \in 1 .. nFileNum[k],
               list[k][i] = list[k][j], i < j
        PROVE  FALSE
    <3>1. Before(list[k][i], list[k][j])
      BY <2>1, <2>3 DEF Sorted
    <3> QED BY <2>2, <2>3, <3>1, BeforeIrreflexive
  <2>4. ASSUME NEW i \in 1 .. nFileNum[k], NEW j \in 1 .. nFileNum[k],
               list[k][i] = list[k][j]
        PROVE  i = j
    <3>1. ~(i < j) /\ ~(j < i)
      BY <2>3, <2>4
    <3> QED BY <3>1
  <2> QED BY <2>1, <2>4
<1> QED
  BY <1>1, ListInvariant, PTL
-----------------------------------------------------------------------------
(* The order of titles: the one that is the beginning of another comes     *)
(* first.                                                                  *)
Lex(t, u) ==
  \/ \E j : LessAt(t, u, j)
  \/ Len(t) < Len(u) /\ \A i \in 1 .. Len(t) : t[i] = u[i]

LEMMA LexAsymmetric ==
  ASSUME NEW t, t \in Text, NEW u, u \in Text, Lex(t, u)
  PROVE  ~Lex(u, t)
<1>0. Len(t) \in Nat /\ Len(u) \in Nat
  BY TextFacts
<1>1. ASSUME NEW j, LessAt(t, u, j), NEW k, LessAt(u, t, k) PROVE FALSE
  <2>1. /\ j \in 1 .. Len(t) /\ j \in 1 .. Len(u) /\ t[j] < u[j]
        /\ \A i \in 1 .. j - 1 : t[i] = u[i]
    BY <1>0, <1>1 DEF LessAt
  <2>2. /\ k \in 1 .. Len(t) /\ k \in 1 .. Len(u) /\ u[k] < t[k]
        /\ \A i \in 1 .. k - 1 : u[i] = t[i]
    BY <1>0, <1>1 DEF LessAt
  <2>3. t[j] \in Nat /\ u[j] \in Nat /\ t[k] \in Nat /\ u[k] \in Nat
    BY <2>1, <2>2, TextFacts
  <2>4. CASE j < k
    <3>1. j \in 1 .. k - 1
      BY <2>1, <2>2, <2>4
    <3> QED BY <2>1, <2>2, <2>3, <3>1
  <2>5. CASE k < j
    <3>1. k \in 1 .. j - 1
      BY <2>1, <2>2, <2>5
    <3> QED BY <2>1, <2>2, <2>3, <3>1
  <2>6. CASE j = k
    BY <2>1, <2>2, <2>3, <2>6
  <2> QED BY <2>1, <2>2, <2>4, <2>5, <2>6
<1>2. ASSUME NEW a, a \in Text, NEW b, b \in Text, NEW j, LessAt(a, b, j),
             Len(b) < Len(a), \A i \in 1 .. Len(b) : b[i] = a[i]
      PROVE  FALSE
  <2>1. Len(a) \in Nat /\ Len(b) \in Nat
    BY <1>2, TextFacts
  <2>2. j \in 1 .. Len(a) /\ j \in 1 .. Len(b) /\ a[j] < b[j]
    BY <1>2, <2>1 DEF LessAt
  <2>3. a[j] \in Nat /\ b[j] = a[j]
    BY <1>2, <2>2, TextFacts
  <2> QED BY <2>2, <2>3
<1>3. ASSUME NEW j, LessAt(t, u, j),
             Len(u) < Len(t), \A i \in 1 .. Len(u) : u[i] = t[i]
      PROVE  FALSE
  BY <1>2, <1>3
<1>4. ASSUME NEW j, LessAt(u, t, j),
             Len(t) < Len(u), \A i \in 1 .. Len(t) : t[i] = u[i]
      PROVE  FALSE
  BY <1>2, <1>4
<1>5. ~(Len(t) < Len(u) /\ Len(u) < Len(t))
  BY <1>0
<1> QED
  BY <1>1, <1>3, <1>4, <1>5, Zenon DEF Lex

(* Two ascending sequences of the same titles are the same.                *)
Ascending(a, n) ==
  /\ \A i \in 1 .. n : a[i] \in Text
  /\ \A i, j \in 1 .. n : i < j => Lex(a[i], a[j])

LEMMA SameOrder ==
  ASSUME NEW m \in Nat, NEW n \in Nat, NEW a, NEW b,
         Ascending(a, m), Ascending(b, n), First(a, m) = First(b, n)
  PROVE  \A i \in 1 .. m : i <= n /\ b[i] = a[i]
<1>0. /\ \A i \in 1 .. m : a[i] \in Text
      /\ \A i \in 1 .. n : b[i] \in Text
      /\ \A i, j \in 1 .. m : i < j => Lex(a[i], a[j])
      /\ \A i, j \in 1 .. n : i < j => Lex(b[i], b[j])
  BY DEF Ascending
<1> DEFINE T == {i \in 1 .. m : ~(i <= n /\ b[i] = a[i])}
<1> SUFFICES ASSUME T # {} PROVE FALSE
  OBVIOUS
<1>1. PICK i \in T : \A j \in T : i <= j
  <2>1. T \subseteq Nat
    OBVIOUS
  <2> HIDE DEF T
  <2> QED BY <2>1, NatMin
<1>2. i \in 1 .. m /\ ~(i <= n /\ b[i] = a[i])
  OBVIOUS
<1>3. ASSUME NEW j \in 1 .. m, j < i PROVE j \in 1 .. n /\ b[j] = a[j]
  <2>1. j \notin T
    <3>1. ~(i <= j)
      BY <1>2, <1>3
    <3> HIDE DEF T
    <3> QED BY <1>1, <3>1
  <2> QED BY <2>1
<1> HIDE DEF T
<1>4. PICK j \in 1 .. n : a[i] = b[j]
  BY <1>2 DEF First
<1>5. j > i
  <2>1. j # i
    BY <1>2, <1>4
  <2>2. ~(j < i)
    <3> SUFFICES ASSUME j < i PROVE FALSE
      OBVIOUS
    <3>1. j \in 1 .. m
      BY <1>2
    <3>2. b[j] = a[j]
      BY <1>3, <3>1
    <3>3. Lex(a[j], a[i]) /\ a[j] = a[i]
      BY <1>0, <1>2, <1>4, <3>1, <3>2
    <3> QED BY <1>0, <1>2, <3>3, LexAsymmetric
  <2> QED BY <1>2, <2>1, <2>2
<1>6. i \in 1 .. n /\ Lex(b[i], a[i])
  <2>1. i \in 1 .. n
    BY <1>2, <1>5
  <2> QED BY <1>0, <1>4, <1>5, <2>1
<1>7. PICK l \in 1 .. m : b[i] = a[l]
  BY <1>6 DEF First
<1>8. ~(l < i)
  <2> SUFFICES ASSUME l < i PROVE FALSE
    OBVIOUS
  <2>1. l \in 1 .. n /\ b[l] = a[l]
    BY <1>3
  <2>2. Lex(b[l], b[i]) /\ b[l] = b[i]
    BY <1>0, <1>6, <1>7, <2>1
  <2> QED BY <1>0, <1>6, <2>2, LexAsymmetric
<1>9. l # i
  BY <1>2, <1>6, <1>7
<1>10. Lex(a[i], b[i])
  <2>1. i < l
    BY <1>2, <1>8, <1>9
  <2> QED BY <1>0, <1>2, <1>7, <2>1
<1> QED
  BY <1>0, <1>2, <1>6, <1>10, LexAsymmetric
-----------------------------------------------------------------------------
(* A name the player looks for is its title and the ending of its kind.    *)
Ends(f, t, e) ==
  /\ f \in Text /\ t \in Text /\ e \in Text /\ Len(e) \in Nat \ {0}
  /\ Len(f) = Len(t) + Len(e)
  /\ \A i \in 1 .. Len(t) : f[i] = t[i]
  /\ \A i \in 1 .. Len(e) : f[Len(t) + i] = e[i]

LEMMA EndingFacts ==
  ASSUME NEW k \in Kinds
  PROVE  Ending[k] \in Text /\ Len(Ending[k]) \in Nat \ {0}
<1>1. Ending[k] \in Seq(Nat) /\ Ending[k] # <<>>
  BY NameAssumption
<1> QED
  BY <1>1 DEF Text

LEMMA TitleEnds ==
  ASSUME NEW f, f \in Text, IsWav(f)
  PROVE  Ends(f, Title(f), Ending[MusicType(f)])
<1> DEFINE e == Ending[MusicType(f)]
           t == Title(f)
<1>1. EndsIn(f, e)
  BY DEF IsWav, MusicType, Kinds
<1>2. e \in Text /\ Len(e) \in Nat \ {0}
  BY EndingFacts, KindOf
<1>3. t = SubSeq(f, 1, Len(f) - Len(e))
  BY DEF Title
<1> HIDE DEF e, t
<1>4. Len(f) > Len(e) /\ SubSeq(f, Len(f) - Len(e) + 1, Len(f)) = e
  BY <1>1 DEF EndsIn
<1> DEFINE n == Len(f) - Len(e)
<1>5. Len(f) \in Nat /\ n \in Nat /\ n + Len(e) = Len(f) /\ n <= Len(f)
  BY <1>2, <1>4, TextFacts
<1>6. t \in Text /\ Len(t) = n /\ \A i \in 1 .. n : t[i] = f[i]
  <2>1. t = SubSeq(f, 1, n)
    BY <1>3
  <2> HIDE DEF n
  <2> QED BY <1>5, <2>1 DEF Text
<1>7. ASSUME NEW i \in 1 .. Len(e) PROVE f[n + i] = e[i]
  <2>1. e = SubSeq(f, n + 1, Len(f))
    BY <1>4
  <2> HIDE DEF n
  <2>2. SubSeq(f, n + 1, Len(f))[i] = f[n + 1 + i - 1] /\ n + 1 + i - 1 = n + i
    BY <1>2, <1>5 DEF Text
  <2> QED BY <2>1, <2>2
<1> HIDE DEF n
<1> QED
  BY <1>2, <1>5, <1>6, <1>7 DEF Ends, e, t

(* The characters of a title come after the first of an ending.            *)
Above(t, e) == \A j \in 1 .. Len(t) : t[j] > e[1]

(* Of two names of one kind, the shorter title's ends within the other's   *)
(* title, or it is as long.                                                *)
LEMMA EndsDiffer ==
  ASSUME NEW f, NEW g, NEW t, NEW u, NEW e, Ends(f, t, e), Ends(g, u, e),
         Above(u, e), Len(t) < Len(u)
  PROVE  /\ Len(t) + 1 \in 1 .. Len(f) /\ Len(t) + 1 <= Len(g)
         /\ f[Len(t) + 1] = e[1] /\ g[Len(t) + 1] = u[Len(t) + 1]
         /\ f[Len(t) + 1] < g[Len(t) + 1]
<1>1. /\ Len(t) \in Nat /\ Len(u) \in Nat /\ Len(e) \in Nat \ {0}
      /\ Len(f) = Len(t) + Len(e) /\ Len(g) = Len(u) + Len(e)
      /\ \A i \in 1 .. Len(u) : g[i] = u[i]
      /\ \A i \in 1 .. Len(e) : f[Len(t) + i] = e[i]
  BY TextFacts DEF Ends
<1>2. 1 \in 1 .. Len(e) /\ Len(t) + 1 \in 1 .. Len(u)
  BY <1>1
<1>3. u[Len(t) + 1] > e[1] /\ u[Len(t) + 1] \in Nat /\ e[1] \in Nat
  BY <1>2, TextFacts DEF Above, Ends
<1>4. f[Len(t) + 1] = e[1] /\ g[Len(t) + 1] = u[Len(t) + 1]
  BY <1>1, <1>2
<1>5. Len(t) + 1 \in 1 .. Len(f) /\ Len(t) + 1 <= Len(g)
  BY <1>1
<1>6. f[Len(t) + 1] < g[Len(t) + 1]
  BY <1>3, <1>4
<1> QED
  BY <1>4, <1>5, <1>6

LEMMA TextEqual ==
  ASSUME NEW a, a \in Text, NEW b, b \in Text, Len(a) = Len(b),
         \A i \in 1 .. Len(a) : a[i] = b[i]
  PROVE  a = b
  BY DEF Text

(* Names of one kind with such titles differ, and compare as their titles  *)
(* do.                                                                     *)
LEMMA NamesDiffer ==
  ASSUME NEW f, NEW g, NEW t, NEW u, NEW e, Ends(f, t, e), Ends(g, u, e),
         Above(t, e), Above(u, e), f # g
  PROVE  Differ(f, g) # {}
<1>1. /\ Len(t) \in Nat /\ Len(u) \in Nat /\ f \in Text /\ g \in Text
      /\ Len(f) = Len(t) + Len(e) /\ Len(g) = Len(u) + Len(e) /\ Len(e) \in Nat
  BY TextFacts DEF Ends
<1>2. CASE Len(t) < Len(u)
  <2> DEFINE j == Len(t) + 1
  <2>1. j \in 1 .. Len(f) /\ j <= Len(g) /\ f[j] < g[j] /\ f[j] \in Nat
    BY <1>1, <1>2, EndsDiffer, TextFacts
  <2> HIDE DEF j
  <2>2. f[j] # g[j]
    BY <2>1
  <2> QED BY <2>1, <2>2 DEF Differ
<1>3. CASE Len(u) < Len(t)
  <2> DEFINE j == Len(u) + 1
  <2>1. j \in 1 .. Len(g) /\ j <= Len(f) /\ g[j] < f[j] /\ g[j] \in Nat
    BY <1>1, <1>3, EndsDiffer, TextFacts
  <2> HIDE DEF j
  <2>2. f[j] # g[j] /\ j \in 1 .. Len(f) /\ j <= Len(g)
    BY <1>1, <2>1
  <2> QED BY <2>2 DEF Differ
<1>4. CASE Len(t) = Len(u)
  <2>1. Len(f) = Len(g)
    BY <1>1, <1>4
  <2>2. PICK j \in 1 .. Len(f) : f[j] # g[j]
    BY <1>1, <2>1, TextEqual
  <2> QED BY <1>1, <2>1, <2>2 DEF Differ
<1> QED
  BY <1>1, <1>2, <1>3, <1>4

LEMMA TitlesCompare ==
  ASSUME NEW f, NEW g, NEW t, NEW u, NEW e, Ends(f, t, e), Ends(g, u, e),
         Above(t, e), Above(u, e), Before(f, g)
  PROVE  Lex(t, u)
<1>1. /\ Len(t) \in Nat /\ Len(u) \in Nat /\ f \in Text /\ g \in Text
      /\ t \in Text /\ u \in Text
      /\ Len(f) = Len(t) + Len(e) /\ Len(g) = Len(u) + Len(e) /\ Len(e) \in Nat \ {0}
      /\ \A i \in 1 .. Len(t) : f[i] = t[i]
      /\ \A i \in 1 .. Len(u) : g[i] = u[i]
      /\ \A i \in 1 .. Len(e) : f[Len(t) + i] = e[i]
      /\ \A i \in 1 .. Len(e) : g[Len(u) + i] = e[i]
  BY TextFacts DEF Ends
<1>2. PICK j : LessAt(f, g, j)
  BY <1>1, BeforeIs
<1>3. /\ j \in 1 .. Len(f) /\ j <= Len(g) /\ f[j] < g[j]
      /\ \A i \in 1 .. j - 1 : f[i] = g[i]
  BY <1>2 DEF LessAt
<1>4. f[j] \in Nat /\ g[j] \in Nat
  <2>1. j \in 1 .. Len(g)
    BY <1>1, <1>3
  <2> QED BY <1>1, <1>3, <2>1, TextFacts
<1>5. CASE j <= Len(t) /\ j <= Len(u)
  <2>1. j \in 1 .. Len(t) /\ j \in 1 .. Len(u)
    BY <1>1, <1>3, <1>5
  <2>2. t[j] < u[j]
    BY <1>1, <1>3, <2>1
  <2>3. ASSUME NEW i \in 1 .. j - 1 PROVE t[i] = u[i]
    <3>1. i \in 1 .. Len(t) /\ i \in 1 .. Len(u)
      BY <1>1, <2>1
    <3> QED BY <1>1, <1>3, <3>1
  <2> QED BY <2>1, <2>2, <2>3 DEF LessAt, Lex
<1>6. CASE j > Len(t) /\ Len(t) < Len(u)
  <2>1. ASSUME NEW i \in 1 .. Len(t) PROVE t[i] = u[i]
    <3>1. i \in 1 .. j - 1 /\ i \in 1 .. Len(u)
      BY <1>1, <1>3, <1>6
    <3> QED BY <1>1, <1>3, <3>1
  <2> QED BY <1>6, <2>1 DEF Lex
<1>7. CASE j > Len(u) /\ Len(u) < Len(t)
  <2> DEFINE m == Len(u) + 1
  <2>1. m \in 1 .. Len(g) /\ m <= Len(f) /\ g[m] < f[m]
    BY <1>7, EndsDiffer
  <2>2. m <= j /\ m \in 1 .. Len(f)
    BY <1>1, <1>3, <1>7, <2>1
  <2>3. g[m] \in Nat /\ f[m] \in Nat
    BY <1>1, <2>1, <2>2, TextFacts
  <2> HIDE DEF m
  <2>4. CASE m = j
    BY <1>3, <1>4, <2>1, <2>4
  <2>5. CASE m # j
    <3>1. m \in 1 .. j - 1
      BY <1>1, <1>3, <2>1, <2>2, <2>5
    <3> QED BY <1>3, <2>1, <2>3, <3>1
  <2> QED BY <2>4, <2>5
<1>8. CASE j > Len(t) /\ Len(t) = Len(u)
  <2> DEFINE i == j - Len(t)
  <2>1. i \in 1 .. Len(e) /\ Len(t) + i = j /\ Len(u) + i = j
    BY <1>1, <1>3, <1>8
  <2> HIDE DEF i
  <2>2. f[j] = e[i] /\ g[j] = e[i]
    BY <1>1, <2>1
  <2> QED BY <1>3, <1>4, <2>2
<1> QED
  BY <1>1, <1>3, <1>5, <1>6, <1>7, <1>8

LEMMA FileEnds ==
  ASSUME ListType, WellNamed, Orderly, NEW k \in Kinds, NEW f \in OnCardOfKind(k)
  PROVE  Ends(f, Title(f), Ending[k]) /\ Above(Title(f), Ending[k])
<1>1. f \in Text /\ MusicType(f) = k
  BY OnCardIsText
<1>2. IsWav(f)
  BY DEF WellNamed
<1>3. Ends(f, Title(f), Ending[k])
  BY <1>1, <1>2, TitleEnds
<1>4. Title(f) \in Titles(k)
  BY DEF Titles
<1>5. \A j \in DOMAIN Title(f) : Title(f)[j] > Ending[k][1]
  BY <1>4 DEF Orderly
<1>6. DOMAIN Title(f) = 1 .. Len(Title(f))
  BY <1>3 DEF Ends, Text
<1> QED
  BY <1>3, <1>5, <1>6 DEF Above

LEMMA OrderlyPrefixFree == ListType /\ WellNamed /\ Orderly => PrefixFree
<1> SUFFICES ASSUME ListType, WellNamed, Orderly, NEW k \in Kinds,
                    NEW f \in OnCardOfKind(k), NEW g \in OnCardOfKind(k), f # g
             PROVE  Differ(f, g) # {}
  BY DEF PrefixFree
<1>1. /\ Ends(f, Title(f), Ending[k]) /\ Above(Title(f), Ending[k])
      /\ Ends(g, Title(g), Ending[k]) /\ Above(Title(g), Ending[k])
  BY FileEnds
<1> QED
  BY <1>1, NamesDiffer

(* The titles of a complete list in order are in order.                    *)
LEMMA TitlesInOrder ==
  ASSUME ListType, WellNamed, Orderly, NEW k \in Kinds, InOrder(k)
  PROVE  LET n == nFileNum[k]
             a == [i \in 1 .. n |-> Title(list[k][i])]
         IN /\ Ascending(a, n)
            /\ First(a, n) = Titles(k)
<1> DEFINE n == nFileNum[k]
           a == [i \in 1 .. n |-> Title(list[k][i])]
<1>1. ASSUME NEW i \in 1 .. n
      PROVE  /\ list[k][i] \in OnCardOfKind(k) /\ a[i] = Title(list[k][i])
             /\ Ends(list[k][i], a[i], Ending[k]) /\ Above(a[i], Ending[k])
  <2>1. list[k][i] \in OnCardOfKind(k)
    BY DEF InOrder, Listed
  <2> QED BY <2>1, FileEnds
<1>2. ASSUME NEW i \in 1 .. n, NEW j \in 1 .. n, i < j PROVE Lex(a[i], a[j])
  <2>1. Before(list[k][i], list[k][j])
    BY <1>2 DEF InOrder, Sorted
  <2> QED BY <1>1, <2>1, TitlesCompare
<1>3. First(a, n) = Titles(k)
  <2>1. {list[k][i] : i \in 1 .. n} = OnCardOfKind(k)
    BY DEF InOrder, Listed
  <2>2. {a[i] : i \in 1 .. n} = {Title(list[k][i]) : i \in 1 .. n}
    OBVIOUS
  <2> QED BY <2>1, <2>2 DEF Titles, First
<1>4. \A i \in 1 .. n : a[i] \in Text
  BY <1>1 DEF Ends
<1> HIDE DEF a, n
<1>5. Ascending(a, n)
  BY <1>2, <1>4 DEF Ascending
<1> QED
  BY <1>3, <1>5 DEF a, n

(* The entries of the same index are versions of the same title, when      *)
(* every title has all three and none was skipped (build_wave_play_list).  *)
THEOREM ListsMatchCorrect == Spec => []ListsMatch
<1>1. ListInv => ListsMatch
  <2> SUFFICES ASSUME ListInv, Built, scan.whole, WellNamed, Orderly
               PROVE  \A i \in 1 .. nFileNum["song"] : \A k \in Kinds :
                        i <= nFileNum[k] /\ Title(list[k][i]) = Title(list["song"][i])
    BY DEF ListsMatch
  <2>1. PrefixFree /\ ListType
    BY OrderlyPrefixFree DEF ListInv
  <2>2. \A k \in Kinds : InOrder(k) /\ nFileNum[k] \in Nat
    BY <2>1 DEF ListInv, ListType, BuiltOK, InOrder
  <2> SUFFICES ASSUME NEW k \in Kinds
               PROVE  \A i \in 1 .. nFileNum["song"] :
                        i <= nFileNum[k] /\ Title(list[k][i]) = Title(list["song"][i])
    OBVIOUS
  <2> DEFINE m == nFileNum["song"]
             n == nFileNum[k]
             a == [i \in 1 .. m |-> Title(list["song"][i])]
             b == [i \in 1 .. n |-> Title(list[k][i])]
  <2>3. "song" \in Kinds
    BY DEF Kinds
  <2>4. m \in Nat /\ n \in Nat
    BY <2>2, <2>3
  <2>5. Ascending(a, m) /\ First(a, m) = Titles("song")
    BY <2>1, <2>2, <2>3, TitlesInOrder, Zenon
  <2>6. Ascending(b, n) /\ First(b, n) = Titles(k)
    BY <2>1, <2>2, TitlesInOrder, Zenon
  <2>7. Titles("song") = Titles(k)
    BY <2>3 DEF Orderly
  <2>8. \A i \in 1 .. m : i <= n /\ b[i] = a[i]
    <3> HIDE DEF m, n, a, b
    <3>1. First(a, m) = First(b, n)
      BY <2>5, <2>6, <2>7
    <3> QED BY <2>4, <2>5, <2>6, <3>1, SameOrder
  <2> SUFFICES ASSUME NEW i \in 1 .. m
               PROVE  i <= n /\ Title(list[k][i]) = Title(list["song"][i])
    OBVIOUS
  <2>9. i <= n /\ b[i] = a[i]
    BY <2>8
  <2>10. i \in 1 .. n /\ a[i] = Title(list["song"][i])
    BY <2>4, <2>9
  <2> QED BY <2>9, <2>10
<1> QED
  BY <1>1, ListInvariant, PTL
-----------------------------------------------------------------------------
(* Streaming.  First, what the parser finds in the header of a file.       *)

ChunkType == [id : STRING, size : Nat]
Chunks == Seq(ChunkType)

LEMMA ChunkSizes ==
  ASSUME NEW chunks \in Chunks, NEW i \in 1 .. Len(chunks)
  PROVE  chunks[i].size \in Nat
<1>1. chunks[i] \in ChunkType
  BY DEF Chunks
<1> QED
  BY <1>1 DEF ChunkType

(* f says where the first d + 1 chunks begin.                              *)
IsStart(f, chunks, d) ==
  /\ f \in [1 .. d + 1 -> Nat]
  /\ f[1] = WaveHeaderSize
  /\ \A i \in 1 .. d : f[i + 1] = f[i] + ChunkSize + chunks[i].size

(* The parser's recursion defines such a function.                         *)
LEMMA StartExists ==
  ASSUME NEW chunks \in Chunks
  PROVE  \A d \in 0 .. Len(chunks) : \E f : IsStart(f, chunks, d)
<1> DEFINE T == {d \in 0 .. Len(chunks) : ~ \E f : IsStart(f, chunks, d)}
<1> SUFFICES ASSUME T # {} PROVE FALSE
  OBVIOUS
<1>1. PICK d \in T : \A y \in T : d <= y
  <2>1. T \subseteq Nat
    BY DEF Chunks
  <2> HIDE DEF T
  <2> QED BY <2>1, NatMin
<1>2. d # 0
  <2>1. IsStart([i \in 1 .. 1 |-> WaveHeaderSize], chunks, 0)
    BY FileAssumption DEF IsStart
  <2> QED BY <2>1
<1>3. d \in Nat /\ d - 1 \in 0 .. Len(chunks) /\ d \in 1 .. Len(chunks)
  BY <1>2 DEF Chunks
<1>4. PICK g : IsStart(g, chunks, d - 1)
  BY <1>1, <1>3
<1>5. g \in [1 .. d -> Nat] /\ g[d] \in Nat
  BY <1>3, <1>4 DEF IsStart
<1>6. chunks[d].size \in Nat
  BY <1>3, ChunkSizes
<1> DEFINE z == g[d] + ChunkSize + chunks[d].size
           h == [i \in 1 .. d + 1 |-> IF i = d + 1 THEN z ELSE g[i]]
<1>7. z \in Nat
  BY <1>5, <1>6, FileAssumption
<1> HIDE DEF z
<1>8. IsStart(h, chunks, d)
  <2>1. h \in [1 .. d + 1 -> Nat]
    BY <1>3, <1>5, <1>7
  <2>2. h[1] = WaveHeaderSize
    BY <1>2, <1>3, <1>4 DEF IsStart
  <2>3. ASSUME NEW i \in 1 .. d PROVE h[i + 1] = h[i] + ChunkSize + chunks[i].size
    <3>1. h[i] = g[i]
      BY <1>3
    <3>2. CASE i = d
      BY <3>1, <3>2, <1>3 DEF z
    <3>3. CASE i # d
      <4>1. i \in 1 .. d - 1 /\ i + 1 # d + 1 /\ i + 1 \in 1 .. d + 1
        BY <3>3, <1>3
      <4>2. g[i + 1] = g[i] + ChunkSize + chunks[i].size
        BY <4>1, <1>4 DEF IsStart
      <4>3. h[i + 1] = g[i + 1]
        BY <4>1
      <4> QED BY <4>2, <4>3, <3>1
    <3> QED BY <3>2, <3>3
  <2> QED BY <2>1, <2>2, <2>3 DEF IsStart
<1> QED
  BY <1>8, <1>1

(* Where a chunk begins is a number.                                       *)
LEMMA StartIsNat ==
  ASSUME NEW chunks \in Chunks, NEW i \in 1 .. Len(chunks) + 1
  PROVE  ChunkStart(chunks)[i] \in Nat
<1> DEFINE n == Len(chunks)
           p == CHOOSE p : p = [j \in 1 .. n + 1 |->
                  IF j = 1 THEN WaveHeaderSize ELSE p[j - 1] + ChunkSize + chunks[j - 1].size]
<1>0. n \in Nat
  BY DEF Chunks
<1>1. PICK f : IsStart(f, chunks, n)
  BY <1>0, StartExists
<1>2. f = [j \in 1 .. n + 1 |->
             IF j = 1 THEN WaveHeaderSize ELSE f[j - 1] + ChunkSize + chunks[j - 1].size]
  <2>1. ASSUME NEW j \in 1 .. n + 1
        PROVE  f[j] = IF j = 1 THEN WaveHeaderSize
                      ELSE f[j - 1] + ChunkSize + chunks[j - 1].size
    <3>1. CASE j = 1
      BY <3>1, <1>1 DEF IsStart
    <3>2. CASE j # 1
      <4>1. j - 1 \in 1 .. n /\ (j - 1) + 1 = j
        BY <3>2, <1>0
      <4>2. f[(j - 1) + 1] = f[j - 1] + ChunkSize + chunks[j - 1].size
        BY <4>1, <1>1 DEF IsStart
      <4> QED BY <3>2, <4>1, <4>2
    <3> QED BY <3>1, <3>2
  <2>2. f = [j \in 1 .. n + 1 |-> f[j]]
    BY <1>1 DEF IsStart
  <2> QED BY <2>1, <2>2, Zenon
<1>3. p = [j \in 1 .. n + 1 |->
             IF j = 1 THEN WaveHeaderSize ELSE p[j - 1] + ChunkSize + chunks[j - 1].size]
  BY <1>2, Zenon
<1>4. ChunkStart(chunks) = p
  BY DEF ChunkStart
<1> HIDE DEF p
<1>5. p[i] \in Nat
  <2> DEFINE T == {j \in 1 .. n + 1 : p[j] \notin Nat}
  <2> SUFFICES ASSUME T # {} PROVE FALSE
    OBVIOUS
  <2>1. PICK j \in T : \A k \in T : j <= k
    <3>1. T \subseteq Nat
      BY <1>0
    <3> HIDE DEF T
    <3> QED BY <3>1, NatMin
  <2>2. j # 1
    BY <1>3, FileAssumption
  <2>3. j - 1 \in 1 .. n /\ j - 1 \in 1 .. n + 1 /\ ~(j <= j - 1)
    BY <2>2, <1>0
  <2>4. p[j - 1] \in Nat
    BY <2>1, <2>3
  <2>5. p[j] = p[j - 1] + ChunkSize + chunks[j - 1].size
    BY <1>3, <2>2
  <2>6. chunks[j - 1].size \in Nat
    BY <2>3, ChunkSizes
  <2> QED BY <2>1, <2>4, <2>5, <2>6, FileAssumption
<1> QED
  BY <1>4, <1>5

(* So are what the player takes for the place and the size of the data.    *)
LEMMA ChunkIsNat ==
  ASSUME NEW f \in DOMAIN File
  PROVE  Chunk[f].offset \in Nat /\ Chunk[f].size \in Nat
<1> DEFINE chunks == File[f].chunks
           found == {i \in DOMAIN chunks :
                       chunks[i].id = "data" /\ ChunkStart(chunks)[i] < BufSize}
           first == CHOOSE i \in found : \A k \in found : i <= k
           chunk == GetChunkOffset(chunks, BufSize, "data")
<1>1. chunks \in Chunks
  BY FileAssumption DEF Chunks, ChunkType
<1>2. chunk = IF found = {} THEN [offset |-> 0, size |-> 0]
              ELSE [offset |-> ChunkStart(chunks)[first], size |-> chunks[first].size]
  BY DEF GetChunkOffset
<1>3. \E r : /\ chunk = [offset |-> r.offset, size |-> r.size]
             /\ r.offset \in Nat /\ r.size \in Nat
  <2>1. CASE found = {}
    <3>1. chunk = [offset |-> 0, size |-> 0]
      BY <1>2, <2>1, Zenon
    <3> QED BY <3>1
  <2>2. CASE found # {}
    <3>1. found \subseteq Nat
      BY <1>1 DEF Chunks
    <3>2. \E i \in found : \A k \in found : i <= k
      <4> HIDE DEF found
      <4> QED BY <3>1, <2>2, NatMin
    <3>3. first \in found
      <4> HIDE DEF found
      <4> QED BY <3>2, Zenon
    <3>4. first \in DOMAIN chunks
      BY <3>3
    <3> HIDE DEF first, found
    <3>5. first \in 1 .. Len(chunks) /\ first \in 1 .. Len(chunks) + 1
      BY <1>1, <3>4 DEF Chunks
    <3>6. chunks[first].size \in Nat
      BY <1>1, <3>5, ChunkSizes
    <3>7. ChunkStart(chunks)[first] \in Nat
      BY <1>1, <3>5, StartIsNat, Zenon
    <3>8. chunk = [offset |-> ChunkStart(chunks)[first], size |-> chunks[first].size]
      BY <1>2, <2>2, Zenon
    <3> HIDE DEF chunk, chunks
    <3> QED BY <3>6, <3>7, <3>8
  <2> QED BY <2>1, <2>2
<1>4. Chunk[f] = [chunk EXCEPT !.offset = IF @ = 0 THEN 0 ELSE @ + ChunkSize]
  BY DEF Chunk, DataChunk
<1> HIDE DEF chunk, chunks
<1> QED
  BY <1>3, <1>4, FileAssumption
-----------------------------------------------------------------------------
LEMMA SeqIsFunction ==
  ASSUME NEW S, NEW s \in Seq(S)
  PROVE  s \in [1 .. Len(s) -> S] /\ Len(s) \in Nat
  OBVIOUS

(* Concatenation, by lengths and elements.                                 *)
Cat(s, t) == s \o t

LEMMA CatSeq ==
  ASSUME NEW S, NEW s \in Seq(S), NEW t \in Seq(S)
  PROVE  Cat(s, t) \in Seq(S) /\ Len(Cat(s, t)) = Len(s) + Len(t)
  BY DEF Cat

LEMMA CatHead ==
  ASSUME NEW S, NEW s \in Seq(S), NEW t \in Seq(S), NEW i \in 1 .. Len(s)
  PROVE  Cat(s, t)[i] = s[i]
  BY DEF Cat

LEMMA CatTail ==
  ASSUME NEW S, NEW s \in Seq(S), NEW t \in Seq(S), NEW i \in 1 .. Len(t)
  PROVE  Cat(s, t)[Len(s) + i] = t[i]
  BY DEF Cat

(* Sequences are equal if they have the same elements.                     *)
LEMMA SameSeq ==
  ASSUME NEW S, NEW s \in Seq(S), NEW t \in Seq(S), Len(s) = Len(t),
         \A i \in 1 .. Len(s) : s[i] = t[i]
  PROVE  s = t
  OBVIOUS

LEMMA TailIsFunction ==
  ASSUME NEW S, NEW n \in Nat, NEW k \in 0 .. n, NEW s \in [1 .. n -> S]
  PROVE  SubSeq(s, k + 1, n) \in [1 .. n - k -> S]
<1>1. s \in Seq(S) /\ Len(s) = n
  BY FunctionIsSeq
<1>2. SubSeq(s, k + 1, n) \in Seq(S) /\ Len(SubSeq(s, k + 1, n)) = n - k
  BY <1>1
<1> QED
  BY <1>2, SeqIsFunction

(* The names a handle may have, the bytes a buffer may hold, the tracks.   *)
Names == DOMAIN File \cup {<<>>}
Byte == Names \X Nat
Handle == [f : Names, pos : Nat]
Buffer == [1 .. BufSize -> Byte]
Track == [hFile : Handle, szBuf : Buffer,
          uWavePlayPos : Nat, uWaveReadPos : Nat, uWaveMaxPlayPos : Nat]

LEMMA BytesAre ==
  ASSUME NEW f, NEW p \in Nat, NEW n \in Nat
  PROVE  /\ Bytes(f, p, n) \in [1 .. n -> {f} \X Nat]
         /\ f \in Names => Bytes(f, p, n) \in [1 .. n -> Byte]
  BY DEF Bytes, Byte

LEMMA BytesAreSeq ==
  ASSUME NEW f, NEW p \in Nat, NEW n \in Nat
  PROVE  /\ Bytes(f, p, n) \in Seq({f} \X Nat) /\ Len(Bytes(f, p, n)) = n
         /\ \A i \in 1 .. n : Bytes(f, p, n)[i] = <<f, p + i - 1>>
<1>1. Bytes(f, p, n) \in [1 .. n -> {f} \X Nat]
  BY BytesAre
<1>2. \A i \in 1 .. n : Bytes(f, p, n)[i] = <<f, p + i - 1>>
  BY DEF Bytes
<1> QED
  BY <1>1, <1>2, FunctionIsSeq

(* Bytes of a file followed by the next ones of it.                        *)
LEMMA BytesJoin ==
  ASSUME NEW f, NEW o \in Nat, NEW p \in Nat, NEW r \in Nat, o <= p, p <= r
  PROVE  Cat(Bytes(f, o, p - o), Bytes(f, p, r - p)) = Bytes(f, o, r - o)
<1> DEFINE S == {f} \X Nat
           m == p - o
           n == r - p
           a == Bytes(f, o, m)
           s == Bytes(f, p, n)
           c == Bytes(f, o, r - o)
           d == Cat(a, s)
<1>0. m \in Nat /\ n \in Nat /\ r - o \in Nat /\ m + n = r - o /\ o + m = p
  OBVIOUS
<1>1. a \in Seq(S) /\ Len(a) = m /\ \A i \in 1 .. m : a[i] = <<f, o + i - 1>>
  BY <1>0, BytesAreSeq
<1>2. c \in Seq(S) /\ Len(c) = r - o /\ \A i \in 1 .. r - o : c[i] = <<f, o + i - 1>>
  BY <1>0, BytesAreSeq
<1>3. s \in Seq(S) /\ Len(s) = n /\ \A i \in 1 .. n : s[i] = <<f, p + i - 1>>
  BY <1>0, BytesAreSeq
<1> HIDE DEF a, s, c, S, m, n
<1>4. a \in Seq(S) /\ s \in Seq(S)
  BY <1>1, <1>3
<1>5. d \in Seq(S) /\ Len(d) = Len(a) + Len(s)
  BY <1>4, CatSeq
<1>6. ASSUME NEW i \in 1 .. Len(a) PROVE d[i] = a[i]
  BY <1>4, CatHead
<1>7. ASSUME NEW i \in 1 .. Len(s) PROVE d[Len(a) + i] = s[i]
  BY <1>4, CatTail
<1> HIDE DEF d
<1>8. ASSUME NEW i \in 1 .. r - o PROVE d[i] = c[i]
  <2>1. CASE i \in 1 .. m
    BY <1>1, <1>2, <1>6, <2>1
  <2>2. CASE i \notin 1 .. m
    <3>1. i - m \in 1 .. n /\ p + (i - m) - 1 = o + i - 1 /\ m + (i - m) = i
      BY <1>0, <2>2
    <3>2. d[m + (i - m)] = s[i - m]
      BY <1>1, <1>3, <1>7, <3>1
    <3>3. s[i - m] = <<f, p + (i - m) - 1>>
      BY <1>3, <3>1
    <3> QED BY <1>2, <3>1, <3>2, <3>3
  <2> QED BY <2>1, <2>2
<1>9. Len(d) = Len(c)
  BY <1>0, <1>1, <1>2, <1>3, <1>5
<1>10. d = c
  BY <1>2, <1>5, <1>8, <1>9, SameSeq
<1> QED
  BY <1>10 DEF a, s, c, d, m, n

LEMMA BytesEmpty == ASSUME NEW f, NEW p PROVE Bytes(f, p, 0) = <<>>
  BY DEF Bytes

LEMMA BufIsNat == BufSize \in Nat \ {0} /\ FrameSize \in Nat \ {0} /\ Multiple(BufSize, FrameSize)
  BY BufAssumption DEF Multiple

(* A read of the next n bytes into the beginning of the buffer.            *)
LEMMA ReadFacts ==
  ASSUME NEW t \in Track, NEW n \in 0 .. BufSize
  PROVE  /\ WithRead(t, n) \in Track
         /\ WithRead(t, n).hFile = [f |-> t.hFile.f, pos |-> t.hFile.pos + n]
         /\ \A i \in 1 .. n : WithRead(t, n).szBuf[i] = <<t.hFile.f, t.hFile.pos + i - 1>>
         /\ WithRead(t, n).uWavePlayPos = t.uWavePlayPos
         /\ WithRead(t, n).uWaveReadPos = t.uWaveReadPos
         /\ WithRead(t, n).uWaveMaxPlayPos = t.uWaveMaxPlayPos
<1> DEFINE new == Bytes(t.hFile.f, t.hFile.pos, n)
           rest == SubSeq(t.szBuf, n + 1, BufSize)
           buf == new \o rest
           handle == [t.hFile EXCEPT !.pos = @ + n]
<1>0. BufSize \in Nat /\ n \in Nat
  BY BufIsNat
<1>1. /\ t.hFile \in Handle /\ t.szBuf \in Buffer
      /\ t.uWavePlayPos \in Nat /\ t.uWaveReadPos \in Nat /\ t.uWaveMaxPlayPos \in Nat
  BY DEF Track
<1>2. t.hFile.f \in Names /\ t.hFile.pos \in Nat
  BY <1>1 DEF Handle
<1>3. new \in Seq(Byte) /\ Len(new) = n /\ DOMAIN new = 1 .. n
  BY <1>0, <1>2, BytesAre, FunctionIsSeq
<1>4. rest \in Seq(Byte) /\ Len(rest) = BufSize - n
  <2>1. t.szBuf \in Seq(Byte) /\ Len(t.szBuf) = BufSize
    BY <1>0, <1>1, FunctionIsSeq DEF Buffer
  <2> QED BY <1>0, <2>1
<1>5. buf \in [1 .. BufSize -> Byte] /\ \A i \in 1 .. n : buf[i] = new[i]
  <2> HIDE DEF new, rest
  <2>1. buf \in Seq(Byte) /\ Len(buf) = n + (BufSize - n)
    BY <1>3, <1>4
  <2>2. \A i \in 1 .. n : buf[i] = new[i]
    BY <1>0, <1>3, <1>4
  <2>3. n + (BufSize - n) = BufSize
    BY <1>0
  <2> HIDE DEF buf
  <2> QED BY <2>1, <2>2, <2>3, SeqIsFunction
<1>6. buf \in Buffer
  BY <1>5 DEF Buffer
<1>7. \A i \in 1 .. n : buf[i] = <<t.hFile.f, t.hFile.pos + i - 1>>
  <2> HIDE DEF buf
  <2> QED BY <1>5 DEF Bytes
<1>8. handle \in Handle /\ handle = [f |-> t.hFile.f, pos |-> t.hFile.pos + n]
  BY <1>0, <1>1, <1>2 DEF Handle
<1>9. WithRead(t, n) = [[t EXCEPT !.hFile = handle] EXCEPT !.szBuf = buf]
  BY DEF WithRead, Track
<1> HIDE DEF buf, handle
<1> QED
  BY <1>1, <1>6, <1>7, <1>8, <1>9 DEF Track
-----------------------------------------------------------------------------
(* Where the data of a file begins and ends, as waveplay_start takes it.   *)
DataBegin(f) == Chunk[f].offset
DataEnd(f) == Chunk[f].offset + Chunk[f].size

Pcs == {"insert", "scan", "built", "exit", "failed", "start", "start vocal",
        "execute", "data", "ended"}

StreamType ==
  /\ pc \in Pcs /\ bKaraoke \in BOOLEAN
  /\ song \in Track /\ vocal \in Track
  /\ sound \subseteq {"song", "vocal"}
  /\ dir \in Seq(DOMAIN File)

(* What the places of the player say of the tracks.                        *)
PcOK ==
  /\ pc \in {"start", "start vocal"} => out = <<>> /\ sung = <<>>
  /\ pc = "start" => sound = {}
  /\ pc = "start vocal" =>
       /\ "vocal" \notin sound /\ bKaraoke
       /\ "song" \in sound => /\ song.uWavePlayPos = DataBegin(want.song)
                              /\ song.uWaveReadPos = BufSize
  /\ pc \in {"execute", "data"} /\ "vocal" \in sound => bKaraoke
  /\ pc = "data" => ~Over
  /\ pc = "ended" /\ "song" \in sound /\ want.song \in Aligned =>
       song.uWavePlayPos = DataEnd(want.song)

(* The bytes of file f from position p to r are in the track's buffer.     *)
Holds(t, f, p, r) ==
  \A i \in 1 .. r - p : t.szBuf[(p % BufSize) + i] = <<f, p + i - 1>>

(* The song between p, where it plays, and r, where it will read on.       *)
InPlace(t, f, p, r) ==
  /\ t.hFile = [f |-> f, pos |-> r] /\ t.uWaveMaxPlayPos = DataEnd(f)
  /\ Multiple(p, FrameSize) /\ Multiple(r, FrameSize)
  /\ DataBegin(f) <= p /\ p <= r /\ r <= DataEnd(f)
  /\ Holds(t, f, p, r)
  /\ p < r => (p % BufSize) + (r - p) <= BufSize
  /\ p < r /\ r < DataEnd(f) => (p % BufSize) + (r - p) = BufSize
  /\ p = r /\ r < DataEnd(f) => p % BufSize = 0

SongOK ==
  "song" \in sound /\ want.song \in Aligned =>
    /\ InPlace(song, want.song, song.uWavePlayPos, song.uWaveReadPos)
    /\ out = Bytes(want.song, DataBegin(want.song),
                   song.uWavePlayPos - DataBegin(want.song))

(* The vocal track v while the song is between p and r: its own buffer is  *)
(* used up, or has at least what the song has.                             *)
Beside(t, v, p, r, end) ==
  /\ t.uWavePlayPos = p /\ t.uWaveMaxPlayPos = DataEnd(v)
  /\ t.hFile = [f |-> v, pos |-> t.uWaveReadPos]
  /\ p < r => \/ t.uWaveReadPos = p /\ p % BufSize = 0
              \/ r <= t.uWaveReadPos /\ Holds(t, v, p, r)
  /\ p = r => t.uWaveReadPos = p
  /\ r < end => t.uWaveReadPos <= r

VocalOK ==
  /\ sound = {"song", "vocal"} /\ want.song \in Aligned
  /\ Suits(want.vocal, want.song)
  => /\ sung = Bytes(want.vocal, DataBegin(want.vocal),
                     song.uWavePlayPos - DataBegin(want.vocal))
     /\ song.uWavePlayPos < DataEnd(want.song) =>
          Beside(vocal, want.vocal, song.uWavePlayPos, song.uWaveReadPos,
                 DataEnd(want.song))

StreamInv == StreamType /\ PcOK /\ SongOK /\ VocalOK
-----------------------------------------------------------------------------
(* The fields of a track.                                                  *)
LEMMA TrackFields ==
  ASSUME NEW t, t \in Track
  PROVE  /\ t.hFile \in Handle /\ t.szBuf \in Buffer
         /\ t.uWavePlayPos \in Nat /\ t.uWaveReadPos \in Nat
         /\ t.uWaveMaxPlayPos \in Nat
  BY DEF Track

(* A track just started: its first buffer is read, and its positions are   *)
(* those of the data of file f.                                            *)
Started(t, f) ==
  /\ f \in Playable
  /\ t.hFile = [f |-> f, pos |-> BufSize]
  /\ \A i \in 1 .. BufSize : t.szBuf[i] = <<f, i - 1>>
  /\ t.uWavePlayPos = DataBegin(f) /\ t.uWaveReadPos = BufSize
  /\ t.uWaveMaxPlayPos = DataEnd(f)

LEMMA OpenedFacts ==
  ASSUME NEW t, t \in Track, NEW f, NEW opens \in BOOLEAN, opens => f \in DOMAIN File
  PROVE  /\ Opened(t, f, opens) \in Track
         /\ opens => Opened(t, f, opens).hFile = [f |-> f, pos |-> 0]
<1> DEFINE h == IF opens THEN [f |-> f, pos |-> 0] ELSE NULL
<1>1. h \in Handle
  BY DEF Handle, Names, NULL
<1>2. Opened(t, f, opens) = [t EXCEPT !.hFile = h]
  BY DEF Opened
<1> HIDE DEF h
<1>3. Opened(t, f, opens) \in Track /\ Opened(t, f, opens).hFile = h
  BY <1>1, <1>2 DEF Track
<1> QED
  BY <1>3 DEF h

LEMMA FirstReadFacts ==
  ASSUME dir \in Seq(DOMAIN File), NEW t, t \in Track, NEW f,
         NEW opens \in BOOLEAN, NEW reads \in BOOLEAN, OpenAndRead(t, f, opens, reads)
  PROVE  LET u == FirstRead(t, f, opens, reads)
         IN /\ u \in Track
            /\ reads => opens
            /\ reads => /\ u.hFile = [f |-> f, pos |-> BufSize]
                        /\ \A i \in 1 .. BufSize : u.szBuf[i] = <<f, i - 1>>
<1> DEFINE o == Opened(t, f, opens)
           u == FirstRead(t, f, opens, reads)
<1>1. opens => f \in DOMAIN File
  BY DEF OpenAndRead, OnCard
<1>2. reads => opens
  BY DEF OpenAndRead
<1>3. o \in Track /\ (opens => o.hFile = [f |-> f, pos |-> 0])
  BY <1>1, OpenedFacts
<1>4. CASE reads
  <2>1. u = WithRead(o, BufSize)
    BY <1>4 DEF FirstRead
  <2>2. BufSize \in 0 .. BufSize
    BY BufIsNat
  <2>3. o.hFile = [f |-> f, pos |-> 0]
    BY <1>2, <1>3, <1>4
  <2> HIDE DEF o
  <2>4. /\ WithRead(o, BufSize) \in Track
        /\ WithRead(o, BufSize).hFile = [f |-> o.hFile.f, pos |-> o.hFile.pos + BufSize]
        /\ \A i \in 1 .. BufSize :
             WithRead(o, BufSize).szBuf[i] = <<o.hFile.f, o.hFile.pos + i - 1>>
    BY <1>3, <2>2, ReadFacts
  <2> HIDE DEF u
  <2>5. o.hFile.f = f /\ o.hFile.pos = 0
    BY <2>3
  <2>6. 0 + BufSize = BufSize /\ \A i \in 1 .. BufSize : 0 + i - 1 = i - 1
    BY BufIsNat
  <2> QED BY <1>2, <2>1, <2>4, <2>5, <2>6 DEF u
<1>5. CASE ~reads
  BY <1>3, <1>5 DEF FirstRead
<1> QED
  BY <1>4, <1>5

LEMMA PositionFacts ==
  ASSUME NEW t, t \in Track, HasHeader(t)
  PROVE  /\ WithPositions(t) \in Track
         /\ WithPositions(t).hFile = t.hFile /\ WithPositions(t).szBuf = t.szBuf
         /\ WithPositions(t).uWavePlayPos = DataBegin(HeaderOf(t))
         /\ WithPositions(t).uWaveReadPos = BufSize
         /\ WithPositions(t).uWaveMaxPlayPos = DataEnd(HeaderOf(t))
<1> DEFINE b == DataBegin(HeaderOf(t))
           e == DataEnd(HeaderOf(t))
<1>1. b \in Nat /\ e \in Nat /\ BufSize \in Nat
  <2>1. HeaderOf(t) \in DOMAIN File
    BY DEF HasHeader, Playable
  <2>2. Chunk[HeaderOf(t)].offset \in Nat /\ Chunk[HeaderOf(t)].size \in Nat
    BY <2>1, ChunkIsNat
  <2> QED BY <2>2, BufIsNat DEF DataBegin, DataEnd
<1>2. WithPositions(t) = [t EXCEPT !.uWavePlayPos = b, !.uWaveReadPos = BufSize,
                                   !.uWaveMaxPlayPos = e]
  BY DEF WithPositions, DataBegin, DataEnd
<1> HIDE DEF b, e
<1> QED
  BY <1>1, <1>2 DEF Track, b, e

(* waveplay_start on one of its tracks.                                    *)
LEMMA StartFacts ==
  ASSUME dir \in Seq(DOMAIN File), NEW t, t \in Track, NEW f,
         NEW opens \in BOOLEAN, NEW reads \in BOOLEAN, NEW before,
         OpenAndRead(t, f, opens, reads)
  PROVE  LET u == FirstRead(t, f, opens, reads)
             b == Succeeds(u, opens, reads, before)
             v == IF b THEN WithPositions(u) ELSE u
         IN /\ v \in Track
            /\ b /\ opens => Started(v, f)
<1> DEFINE u == FirstRead(t, f, opens, reads)
           b == Succeeds(u, opens, reads, before)
           v == IF b THEN WithPositions(u) ELSE u
<1>1. /\ u \in Track
      /\ reads => opens
      /\ reads => /\ u.hFile = [f |-> f, pos |-> BufSize]
                  /\ \A i \in 1 .. BufSize : u.szBuf[i] = <<f, i - 1>>
  BY FirstReadFacts, Zenon
<1>2. b => HasHeader(u)
  BY DEF Succeeds
<1>3. b /\ opens => reads
  BY DEF Succeeds
<1> HIDE DEF u, b
<1>4. v \in Track
  BY <1>1, <1>2, PositionFacts
<1>5. ASSUME b, opens PROVE Started(v, f)
  <2>1. reads /\ HasHeader(u) /\ v = WithPositions(u)
    BY <1>2, <1>3, <1>5
  <2>2. u.szBuf[1] = <<f, 0>>
    <3>1. 1 \in 1 .. BufSize /\ 1 - 1 = 0
      BY BufIsNat
    <3> QED BY <1>1, <2>1, <3>1
  <2>3. HeaderOf(u) = f /\ f \in Playable
    BY <2>1, <2>2 DEF HeaderOf, HasHeader
  <2> HIDE DEF v
  <2> QED BY <1>1, <2>1, <2>3, PositionFacts DEF Started
<1> QED
  BY <1>4, <1>5 DEF u, b
-----------------------------------------------------------------------------
(* What the alignment of a file gives.                                     *)
LEMMA AlignedFacts ==
  ASSUME NEW f, f \in Aligned
  PROVE  /\ f \in DOMAIN File /\ f \in Playable
         /\ DataBegin(f) \in Nat /\ DataEnd(f) \in Nat
         /\ DataBegin(f) <= BufSize /\ DataBegin(f) # 0
         /\ BufSize <= DataEnd(f) /\ DataBegin(f) <= DataEnd(f)
         /\ Multiple(DataBegin(f), FrameSize) /\ Multiple(DataEnd(f), FrameSize)
         /\ Chunk[f].size = DataEnd(f) - DataBegin(f)
<1> DEFINE o == Chunk[f].offset
           n == Chunk[f].size
<1>1. /\ f \in DOMAIN File /\ f \in Playable /\ o \in 1 .. BufSize
      /\ o % FrameSize = 0 /\ n % FrameSize = 0 /\ o + n >= BufSize
  BY DEF Aligned, Playable
<1>2. o \in Nat /\ n \in Nat
  BY <1>1, ChunkIsNat
<1>3. Multiple(o, FrameSize) /\ Multiple(n, FrameSize)
  BY <1>1, <1>2 DEF Multiple
<1> HIDE DEF o, n
<1>4. Multiple(o + n, FrameSize)
  BY <1>3, BufIsNat, Multiples
<1>5. DataBegin(f) = o /\ DataEnd(f) = o + n /\ Chunk[f].size = n
  BY DEF DataBegin, DataEnd, o, n
<1> QED
  BY <1>1, <1>2, <1>3, <1>4, <1>5, BufIsNat

LEMMA ModSmall ==
  ASSUME NEW x \in Nat, NEW n \in Nat \ {0}, x < n
  PROVE  x % n = x
  OBVIOUS

(* The data in the first buffer of a track just started.                   *)
LEMMA StartHolds ==
  ASSUME NEW t, NEW f, Started(t, f), NEW o,
         o \in Nat, o <= BufSize, o # 0
  PROVE  Holds(t, f, o, BufSize) /\ (o < BufSize => o % BufSize = o)
<1>1. /\ \A i \in 1 .. BufSize : t.szBuf[i] = <<f, i - 1>>
      /\ BufSize \in Nat \ {0}
  BY BufIsNat DEF Started
<1>2. o < BufSize => o % BufSize = o
  BY <1>1, ModSmall, Zenon
<1>3. Holds(t, f, o, BufSize)
  <2> SUFFICES ASSUME NEW i \in 1 .. BufSize - o
               PROVE  t.szBuf[(o % BufSize) + i] = <<f, o + i - 1>>
    BY DEF Holds
  <2>1. o % BufSize = o /\ o + i \in 1 .. BufSize /\ (o + i) - 1 = o + i - 1
    BY <1>1, <1>2
  <2> QED BY <1>1, <2>1
<1> QED
  BY <1>2, <1>3

(* A song just started is in its place.                                    *)
LEMMA StartInPlace ==
  ASSUME NEW t, t \in Track, NEW f, f \in Aligned, Started(t, f)
  PROVE  InPlace(t, f, t.uWavePlayPos, t.uWaveReadPos)
<1> DEFINE o == DataBegin(f)
           e == DataEnd(f)
<1>1. /\ o \in Nat /\ e \in Nat /\ o <= BufSize /\ o # 0 /\ BufSize <= e
      /\ Multiple(o, FrameSize) /\ BufSize \in Nat \ {0} /\ Multiple(BufSize, FrameSize)
  BY AlignedFacts, BufIsNat
<1>2. /\ t.uWavePlayPos = o /\ t.uWaveReadPos = BufSize /\ t.uWaveMaxPlayPos = e
      /\ t.hFile = [f |-> f, pos |-> BufSize]
  BY DEF Started
<1>3. Holds(t, f, o, BufSize) /\ (o < BufSize => o % BufSize = o)
  BY <1>1, StartHolds
<1> HIDE DEF o, e
<1>4. o = BufSize => o % BufSize = 0
  BY <1>1
<1>5. o < BufSize => (o % BufSize) + (BufSize - o) = BufSize
  BY <1>1, <1>3
<1> QED
  BY <1>1, <1>2, <1>3, <1>4, <1>5 DEF InPlace, o, e
-----------------------------------------------------------------------------
(* A refill, of any track.                                                 *)
LEMMA ReadSizeFacts ==
  ASSUME NEW t, t \in Track
  PROVE  /\ ReadSize(t) \in 0 .. BufSize
         /\ LET rest == t.uWaveMaxPlayPos - t.uWavePlayPos
            IN rest >= 0 => ReadSize(t) = IF BufSize > rest THEN rest ELSE BufSize
<1>1. t.uWavePlayPos \in Nat /\ t.uWaveMaxPlayPos \in Nat /\ BufSize \in Nat
  BY TrackFields, BufIsNat
<1> QED
  BY <1>1 DEF ReadSize

LEMMA RefilledFacts ==
  ASSUME NEW t, t \in Track
  PROVE  LET n == ReadSize(t)
             u == Refilled(t, TRUE)
         IN /\ u \in Track
            /\ u.hFile = [f |-> t.hFile.f, pos |-> t.hFile.pos + n]
            /\ \A i \in 1 .. n : u.szBuf[i] = <<t.hFile.f, t.hFile.pos + i - 1>>
            /\ u.uWavePlayPos = t.uWavePlayPos /\ u.uWaveReadPos = t.uWaveReadPos + n
            /\ u.uWaveMaxPlayPos = t.uWaveMaxPlayPos
<1> DEFINE n == ReadSize(t)
           w == WithRead(t, n)
           u == Refilled(t, TRUE)
<1>1. n \in 0 .. BufSize /\ BufSize \in Nat
  BY ReadSizeFacts, BufIsNat
<1> HIDE DEF n
<1>2. /\ w \in Track
      /\ w.hFile = [f |-> t.hFile.f, pos |-> t.hFile.pos + n]
      /\ \A i \in 1 .. n : w.szBuf[i] = <<t.hFile.f, t.hFile.pos + i - 1>>
      /\ w.uWavePlayPos = t.uWavePlayPos /\ w.uWaveReadPos = t.uWaveReadPos
      /\ w.uWaveMaxPlayPos = t.uWaveMaxPlayPos
  BY <1>1, ReadFacts
<1>3. u = [w EXCEPT !.uWaveReadPos = @ + n]
  BY DEF Refilled, n
<1>4. t.uWaveReadPos \in Nat
  BY TrackFields
<1> HIDE DEF w, u
<1>5. u \in Track /\ u.uWaveReadPos = t.uWaveReadPos + n
  BY <1>1, <1>2, <1>3, <1>4 DEF Track
<1>6. /\ u.hFile = w.hFile /\ u.szBuf = w.szBuf
      /\ u.uWavePlayPos = w.uWavePlayPos /\ u.uWaveMaxPlayPos = w.uWaveMaxPlayPos
  BY <1>2, <1>3 DEF Track
<1> QED
  BY <1>2, <1>5, <1>6 DEF u, n

(* The refill of a song that is in its place.                              *)
LEMMA RefillInPlace ==
  ASSUME NEW t, t \in Track, NEW f, f \in Aligned,
         InPlace(t, f, t.uWavePlayPos, t.uWaveReadPos),
         Empty(t), t.uWavePlayPos < DataEnd(f)
  PROVE  LET u == Refilled(t, TRUE)
         IN /\ InPlace(u, f, u.uWavePlayPos, u.uWaveReadPos)
            /\ u.uWavePlayPos = t.uWavePlayPos /\ t.uWavePlayPos < u.uWaveReadPos
            /\ t.uWavePlayPos % BufSize = 0 /\ t.uWaveReadPos = t.uWavePlayPos
<1> DEFINE p == t.uWavePlayPos
           e == DataEnd(f)
           n == ReadSize(t)
           u == Refilled(t, TRUE)
<1>1. p \in Nat /\ e \in Nat /\ BufSize \in Nat \ {0} /\ FrameSize \in Nat \ {0}
      /\ Multiple(e, FrameSize) /\ Multiple(BufSize, FrameSize)
  BY TrackFields, AlignedFacts, BufIsNat
<1>2. /\ p = t.uWaveReadPos /\ p < e /\ p % BufSize = 0 /\ Multiple(p, FrameSize)
      /\ t.hFile = [f |-> f, pos |-> p] /\ t.uWaveMaxPlayPos = e /\ DataBegin(f) <= p
  <2>1. t.uWaveReadPos \in Nat
    BY TrackFields
  <2> QED BY <1>1, <2>1 DEF InPlace, Empty
<1>3. n = IF BufSize > e - p THEN e - p ELSE BufSize
  <2>1. e - p >= 0
    BY <1>1, <1>2
  <2> QED BY <1>2, <2>1, ReadSizeFacts
<1>4. n \in Nat /\ n # 0 /\ n <= BufSize /\ p + n <= e /\ (p + n < e => n = BufSize)
  <2> HIDE DEF n, p, e
  <2> QED BY <1>1, <1>2, <1>3
<1>5. Multiple(p + n, FrameSize)
  <2>1. CASE n = BufSize
    BY <1>1, <1>2, <2>1, Multiples
  <2>2. CASE n # BufSize
    <3>1. p + n = e
      <4> HIDE DEF n, p, e
      <4> QED BY <1>1, <1>2, <1>3, <2>2
    <3> QED BY <1>1, <3>1
  <2> QED BY <2>1, <2>2
<1>6. /\ u \in Track /\ u.hFile = [f |-> f, pos |-> p + n]
      /\ \A i \in 1 .. n : u.szBuf[i] = <<f, p + i - 1>>
      /\ u.uWavePlayPos = p /\ u.uWaveReadPos = p + n /\ u.uWaveMaxPlayPos = e
  <2>1. t.hFile.f = f /\ t.hFile.pos = p
    BY <1>2
  <2> HIDE DEF p, e
  <2> QED BY <1>2, <2>1, RefilledFacts DEF p
<1> HIDE DEF p, e, n, u
<1>7. Holds(u, f, p, p + n)
  <2> SUFFICES ASSUME NEW i \in 1 .. (p + n) - p
               PROVE  u.szBuf[(p % BufSize) + i] = <<f, p + i - 1>>
    BY DEF Holds
  <2>1. i \in 1 .. n /\ (p % BufSize) + i = i
    BY <1>1, <1>2, <1>4
  <2> QED BY <1>6, <2>1
<1>8. /\ (p % BufSize) + ((p + n) - p) <= BufSize
      /\ p + n < e => (p % BufSize) + ((p + n) - p) = BufSize
      /\ p < p + n
  BY <1>1, <1>2, <1>4
<1>9. InPlace(u, f, p, p + n)
  <2>1. e = DataEnd(f)
    BY DEF e
  <2>2. DataBegin(f) <= p /\ p <= p + n /\ p + n <= e
    BY <1>1, <1>2, <1>4
  <2> QED BY <1>2, <1>5, <1>6, <1>7, <1>8, <2>1, <2>2, Zenon DEF InPlace
<1> QED
  BY <1>2, <1>6, <1>8, <1>9 DEF p, u
-----------------------------------------------------------------------------
(* What is played out of a buffer that holds it.                           *)
LEMMA PlayedFacts ==
  ASSUME NEW t, t \in Track, NEW f, NEW p \in Nat, NEW n \in Nat,
         t.uWavePlayPos = p, (p % BufSize) + n <= BufSize, Holds(t, f, p, p + n)
  PROVE  Played(t, n) = Bytes(f, p, n)
<1> DEFINE at == p % BufSize
<1>1. at \in Nat /\ BufSize \in Nat
  BY DivMod, BufIsNat
<1>2. ASSUME NEW i \in 1 .. n PROVE t.szBuf[at + i] = <<f, p + i - 1>>
  <2>1. i \in 1 .. (p + n) - p
    OBVIOUS
  <2> QED BY <2>1 DEF Holds
<1>3. Played(t, n) = [i \in 1 .. n |-> IF at + i <= BufSize THEN t.szBuf[at + i] ELSE Behind]
  BY DEF Played
<1>4. at + n <= BufSize
  OBVIOUS
<1> HIDE DEF at
<1>5. ASSUME NEW i \in 1 .. n
      PROVE  (IF at + i <= BufSize THEN t.szBuf[at + i] ELSE Behind) = <<f, p + i - 1>>
  <2>1. at + i <= BufSize
    BY <1>1, <1>4
  <2> QED BY <1>2, <2>1
<1> QED
  BY <1>3, <1>5, Zenon DEF Bytes

(* Playing them continues what has been played since position o.           *)
LEMMA PlayOn ==
  ASSUME NEW t, t \in Track, NEW f, NEW o \in Nat, NEW p \in Nat, NEW r \in Nat,
         o <= p, p <= r, t.uWavePlayPos = p,
         (p % BufSize) + (r - p) <= BufSize, Holds(t, f, p, r)
  PROVE  Cat(Bytes(f, o, p - o), Played(t, r - p)) = Bytes(f, o, r - o)
<1> DEFINE n == r - p
<1>1. Played(t, n) = Bytes(f, p, n)
  <2>1. p + n = r /\ n \in Nat
    OBVIOUS
  <2>2. Holds(t, f, p, p + n) /\ (p % BufSize) + n <= BufSize
    BY <2>1
  <2> HIDE DEF n
  <2> QED BY <2>1, <2>2, PlayedFacts
<1>2. Cat(Bytes(f, o, p - o), Bytes(f, p, n)) = Bytes(f, o, r - o)
  BY BytesJoin
<1> HIDE DEF n
<1> QED
  BY <1>1, <1>2 DEF n

(* All the song has in its buffer is played, and leaves it in its place.   *)
LEMMA PlayInPlace ==
  ASSUME NEW t, t \in Track, NEW f, f \in Aligned, NEW p, NEW r,
         p = t.uWavePlayPos, r = t.uWaveReadPos, InPlace(t, f, p, r), p < r
  PROVE  /\ ((r - p) \div FrameSize) * FrameSize = r - p
         /\ InPlace([t EXCEPT !.uWavePlayPos = r], f, r, r)
         /\ r < DataEnd(f) => r % BufSize = 0
         /\ p \in Nat /\ r \in Nat /\ (p % BufSize) + (r - p) <= BufSize
<1>1. p \in Nat /\ r \in Nat /\ BufSize \in Nat \ {0} /\ FrameSize \in Nat \ {0}
  BY TrackFields, BufIsNat
<1>2. ((r - p) \div FrameSize) * FrameSize = r - p
  <2>1. Multiple(r - p, FrameSize)
    BY <1>1, Multiples DEF InPlace
  <2> QED BY <1>1, <2>1, Multiples
<1>3. ASSUME r < DataEnd(f) PROVE r % BufSize = 0
  <2>1. (p % BufSize) + (r - p) = BufSize
    BY <1>3 DEF InPlace
  <2>2. r - p \in Nat /\ p + (r - p) = r
    BY <1>1
  <2>3. (p + (r - p)) % BufSize = 0
    BY <1>1, <2>1, <2>2, ToBlockEnd
  <2> QED BY <2>2, <2>3
<1> DEFINE u == [t EXCEPT !.uWavePlayPos = r]
<1>4. /\ u.hFile = t.hFile /\ u.uWaveMaxPlayPos = t.uWaveMaxPlayPos
  BY DEF Track
<1> HIDE DEF u
<1>5. Holds(u, f, r, r)
  <2>1. 1 .. r - r = {}
    BY <1>1
  <2> QED BY <2>1 DEF Holds
<1>6. InPlace(u, f, r, r)
  <2>1. /\ t.hFile = [f |-> f, pos |-> r] /\ t.uWaveMaxPlayPos = DataEnd(f)
        /\ Multiple(r, FrameSize) /\ DataBegin(f) <= p /\ p <= r /\ r <= DataEnd(f)
    BY DEF InPlace
  <2>2. DataBegin(f) <= r /\ ~(r < r) /\ r <= r
    BY <1>1, <2>1, AlignedFacts
  <2> QED BY <1>3, <1>4, <1>5, <2>1, <2>2 DEF InPlace
<1>7. (p % BufSize) + (r - p) <= BufSize
  BY DEF InPlace
<1> QED
  BY <1>1, <1>2, <1>3, <1>6, <1>7 DEF u
-----------------------------------------------------------------------------
(* What it means that vocal track v suits song f.                          *)
LEMMA SuitsFacts ==
  ASSUME NEW f, f \in Aligned, NEW v, Suits(v, f)
  PROVE  /\ v \in DOMAIN File /\ DataBegin(v) = DataBegin(f)
         /\ DataEnd(v) \in Nat /\ DataEnd(f) <= DataEnd(v)
<1>1. v \in DOMAIN File /\ Chunk[v].offset = Chunk[f].offset /\ Chunk[v].size >= Chunk[f].size
  BY DEF Suits, Playable
<1>2. f \in DOMAIN File
  BY AlignedFacts
<1>3. /\ Chunk[v].offset \in Nat /\ Chunk[v].size \in Nat
      /\ Chunk[f].offset \in Nat /\ Chunk[f].size \in Nat
  BY <1>1, <1>2, ChunkIsNat
<1> QED
  BY <1>1, <1>3 DEF DataBegin, DataEnd

(* The vocal track has just been started as well.                          *)
LEMMA StartBeside ==
  ASSUME NEW t, NEW f, f \in Aligned, NEW v, Suits(v, f), Started(t, v)
  PROVE  Beside(t, v, DataBegin(f), BufSize, DataEnd(f))
<1> DEFINE o == DataBegin(f)
<1>1. o \in Nat /\ o <= BufSize /\ o # 0 /\ BufSize \in Nat \ {0}
  BY AlignedFacts, BufIsNat
<1>2. o = DataBegin(v)
  BY SuitsFacts
<1> HIDE DEF o
<1>3. Holds(t, v, o, BufSize)
  BY <1>1, <1>2, StartHolds
<1>4. /\ t.uWavePlayPos = o /\ t.uWaveReadPos = BufSize /\ t.uWaveMaxPlayPos = DataEnd(v)
      /\ t.hFile = [f |-> v, pos |-> BufSize]
  BY <1>2 DEF Started
<1> QED
  BY <1>1, <1>3, <1>4 DEF Beside, o

(* The song has been refilled: the vocal track's buffer is used up.        *)
LEMMA SongRefillBeside ==
  ASSUME NEW t, NEW v, NEW p \in Nat, NEW r \in Nat, NEW e \in Nat,
         Beside(t, v, p, p, e), p < r, p % BufSize = 0
  PROVE  Beside(t, v, p, r, e)
  BY DEF Beside

(* The vocal track is refilled beside a song that has bytes to play.       *)
LEMMA VocalRefillBeside ==
  ASSUME NEW t, t \in Track, NEW s, NEW f, f \in Aligned, NEW v, Suits(v, f),
         NEW p \in Nat, NEW r \in Nat, p < r, InPlace(s, f, p, r),
         Beside(t, v, p, r, DataEnd(f)), Empty(t)
  PROVE  Beside(Refilled(t, TRUE), v, p, r, DataEnd(f))
<1> DEFINE e == DataEnd(f)
           ev == DataEnd(v)
           n == ReadSize(t)
           u == Refilled(t, TRUE)
<1>1. BufSize \in Nat \ {0} /\ t.uWaveReadPos \in Nat /\ e \in Nat /\ ev \in Nat /\ e <= ev
  BY BufIsNat, TrackFields, AlignedFacts, SuitsFacts
<1>2. /\ t.uWavePlayPos = p /\ t.uWaveMaxPlayPos = ev
      /\ t.hFile = [f |-> v, pos |-> t.uWaveReadPos]
      /\ t.uWaveReadPos = p \/ r <= t.uWaveReadPos
      /\ (t.uWaveReadPos = p /\ p % BufSize = 0) \/ r <= t.uWaveReadPos
  BY DEF Beside
<1>3. t.uWaveReadPos = p /\ p % BufSize = 0
  BY <1>1, <1>2 DEF Empty
<1>4. /\ r <= e /\ (p % BufSize) + (r - p) <= BufSize
      /\ r < e => (p % BufSize) + (r - p) = BufSize
  BY DEF InPlace
<1>5. r - p <= BufSize /\ (r < e => r - p = BufSize)
  <2> HIDE DEF e
  <2> QED BY <1>1, <1>3, <1>4
<1>6. n = IF BufSize > ev - p THEN ev - p ELSE BufSize
  <2>1. ev - p >= 0
    BY <1>1, <1>4
  <2> QED BY <1>2, <2>1, ReadSizeFacts
<1>7. n \in Nat /\ r - p <= n /\ (r < e => p + n <= r)
  <2> HIDE DEF n, e, ev
  <2> QED BY <1>1, <1>4, <1>5, <1>6
<1>8. /\ u.hFile = [f |-> v, pos |-> p + n]
      /\ \A i \in 1 .. n : u.szBuf[i] = <<v, p + i - 1>>
      /\ u.uWavePlayPos = p /\ u.uWaveReadPos = p + n /\ u.uWaveMaxPlayPos = ev
  <2>1. t.hFile.f = v /\ t.hFile.pos = p
    BY <1>2, <1>3
  <2> QED BY <1>2, <1>3, <2>1, RefilledFacts
<1> HIDE DEF n, u, e, ev
<1>9. Holds(u, v, p, r)
  <2> SUFFICES ASSUME NEW i \in 1 .. r - p
               PROVE  u.szBuf[(p % BufSize) + i] = <<v, p + i - 1>>
    BY DEF Holds
  <2>1. i \in 1 .. n /\ (p % BufSize) + i = i
    BY <1>3, <1>7
  <2> QED BY <1>8, <2>1
<1>10. r <= p + n /\ p # r
  BY <1>7
<1> QED
  BY <1>7, <1>8, <1>9, <1>10 DEF Beside, e, ev, u

(* Both tracks have moved to r, where the song reads on.                   *)
LEMMA PlayBeside ==
  ASSUME NEW t, t \in Track, NEW v, NEW p \in Nat, NEW r \in Nat, NEW e \in Nat,
         p < r, r < e, Beside(t, v, p, r, e), ~Empty(t)
  PROVE  Beside([t EXCEPT !.uWavePlayPos = r], v, r, r, e)
<1> DEFINE u == [t EXCEPT !.uWavePlayPos = r]
<1>1. t.uWavePlayPos = p /\ t.uWaveReadPos \in Nat
  BY TrackFields DEF Beside
<1>2. t.uWaveReadPos = r
  BY <1>1 DEF Beside, Empty
<1>3. /\ u.hFile = t.hFile /\ u.uWaveMaxPlayPos = t.uWaveMaxPlayPos
      /\ u.uWaveReadPos = t.uWaveReadPos /\ u.uWavePlayPos = r
  BY DEF Track
<1> HIDE DEF u
<1>4. /\ t.uWaveMaxPlayPos = DataEnd(v) /\ t.hFile = [f |-> v, pos |-> r]
  BY <1>2 DEF Beside
<1>5. Beside(u, v, r, r, e)
  BY <1>2, <1>3, <1>4 DEF Beside
<1> QED
  BY <1>5 DEF u
-----------------------------------------------------------------------------
(* The steps of the player, one by one.                                    *)
LEMMA QuietStep ==
  ASSUME StreamInv, dir' \in Seq(DOMAIN File),
         pc' \in {"insert", "scan", "built", "exit", "failed"},
         UNCHANGED <<bKaraoke, song, vocal, want, out, sung, sound>>
  PROVE  StreamInv'
<1>1. StreamType'
  BY DEF StreamInv, StreamType, Pcs
<1>2. PcOK'
  BY DEF StreamInv, PcOK
<1>3. SongOK' /\ VocalOK'
  BY DEF StreamInv, SongOK, VocalOK
<1> QED
  BY <1>1, <1>2, <1>3 DEF StreamInv

LEMMA InsertedStep == StreamInv /\ Inserted => StreamInv'
<1> SUFFICES ASSUME StreamInv, Inserted PROVE StreamInv'
  OBVIOUS
<1>1. dir' \in Seq(DOMAIN File)
  BY DirAssumption DEF Inserted
<1> QED
  BY <1>1, QuietStep, Zenon DEF Inserted

LEMMA ScanStep == StreamInv /\ Scan => StreamInv'
  BY QuietStep DEF Scan, streamVars, StreamInv, StreamType

LEMMA ScannedStep == StreamInv /\ Scanned => StreamInv'
  BY QuietStep DEF Scanned, StreamInv, StreamType

LEMMA FailedStep == StreamInv /\ Failed => StreamInv'
  BY QuietStep DEF Failed, StreamInv, StreamType

LEMMA StartStep == StreamInv /\ Start => StreamInv'
<1> SUFFICES ASSUME StreamInv, Start PROVE StreamInv'
  OBVIOUS
<1>1. /\ pc' = "start" /\ bKaraoke' \in BOOLEAN /\ out' = <<>> /\ sung' = <<>>
      /\ sound' = {} /\ song' = song /\ vocal' = vocal /\ dir' = dir
  BY DEF Start, StartAt, StartCall
<1>2. StreamType'
  BY <1>1 DEF StreamInv, StreamType, Pcs
<1>3. PcOK'
  BY <1>1 DEF PcOK
<1>4. SongOK' /\ VocalOK'
  BY <1>1 DEF SongOK, VocalOK
<1> QED
  BY <1>2, <1>3, <1>4 DEF StreamInv

LEMMA StartSongStep == StreamInv /\ StartSong => StreamInv'
<1> SUFFICES ASSUME StreamInv, StartSong PROVE StreamInv'
  OBVIOUS
<1>1. PICK before \in BOOLEAN, opens \in BOOLEAN, reads \in BOOLEAN :
        LET t == FirstRead(song, want.song, opens, reads)
        IN /\ OpenAndRead(song, want.song, opens, reads)
           /\ bSuccess' = Succeeds(t, opens, reads, before)
           /\ song' = IF bSuccess' THEN WithPositions(t) ELSE t
           /\ sound' = IF bSuccess' /\ opens THEN {"song"} ELSE {}
  BY DEF StartSong
<1>2. /\ pc = "start" /\ out' = out /\ sung' = sung /\ dir' = dir
      /\ bKaraoke' = bKaraoke /\ vocal' = vocal /\ want' = want
      /\ pc' \in {"start vocal", "execute", "failed"}
      /\ pc' = "start vocal" => bKaraoke
  BY DEF StartSong
<1>3. out = <<>> /\ sung = <<>> /\ dir \in Seq(DOMAIN File) /\ song \in Track
  BY <1>2 DEF StreamInv, StreamType, PcOK
<1> DEFINE f == want.song
<1>4. song' \in Track /\ ("song" \in sound' => Started(song', f))
  BY <1>1, <1>3, StartFacts, Zenon
<1>5. "vocal" \notin sound' /\ sound' \subseteq {"song", "vocal"}
  BY <1>1
<1>6. StreamType'
  BY <1>2, <1>4, <1>5 DEF StreamInv, StreamType, Pcs
<1>7. PcOK'
  BY <1>2, <1>3, <1>4, <1>5 DEF PcOK, Started
<1>8. SongOK'
  <2> SUFFICES ASSUME "song" \in sound', f \in Aligned
               PROVE  /\ InPlace(song', f, song'.uWavePlayPos, song'.uWaveReadPos)
                      /\ out' = Bytes(f, DataBegin(f), song'.uWavePlayPos - DataBegin(f))
    BY <1>2 DEF SongOK
  <2>1. InPlace(song', f, song'.uWavePlayPos, song'.uWaveReadPos)
    BY <1>4, StartInPlace
  <2>2. song'.uWavePlayPos = DataBegin(f) /\ DataBegin(f) \in Nat
    BY <1>4, AlignedFacts DEF Started
  <2>3. song'.uWavePlayPos - DataBegin(f) = 0
    BY <2>2
  <2> QED BY <1>2, <1>3, <2>1, <2>3, BytesEmpty
<1>9. VocalOK'
  BY <1>5 DEF VocalOK
<1> QED
  BY <1>6, <1>7, <1>8, <1>9 DEF StreamInv

LEMMA StartVocalStep == StreamInv /\ StartVocal => StreamInv'
<1> SUFFICES ASSUME StreamInv, StartVocal PROVE StreamInv'
  OBVIOUS
<1>1. PICK opens \in BOOLEAN, reads \in BOOLEAN :
        LET t == FirstRead(vocal, want.vocal, opens, reads)
        IN /\ OpenAndRead(vocal, want.vocal, opens, reads)
           /\ bSuccess' = Succeeds(t, opens, reads, bSuccess)
           /\ vocal' = IF bSuccess' THEN WithPositions(t) ELSE t
           /\ sound' = sound \cup IF bSuccess' /\ opens THEN {"vocal"} ELSE {}
  BY DEF StartVocal
<1>2. /\ pc = "start vocal" /\ out' = out /\ sung' = sung /\ dir' = dir
      /\ bKaraoke' = bKaraoke /\ song' = song /\ want' = want
      /\ pc' \in {"execute", "failed"}
  BY DEF StartVocal
<1>3. /\ out = <<>> /\ sung = <<>> /\ dir \in Seq(DOMAIN File) /\ vocal \in Track
      /\ "vocal" \notin sound /\ bKaraoke
      /\ "song" \in sound => /\ song.uWavePlayPos = DataBegin(want.song)
                             /\ song.uWaveReadPos = BufSize
  BY <1>2 DEF StreamInv, StreamType, PcOK
<1> DEFINE f == want.song
           v == want.vocal
<1>4. vocal' \in Track /\ ("vocal" \in sound' => Started(vocal', v))
  <2>1. vocal' \in Track /\ (bSuccess' /\ opens => Started(vocal', v))
    BY <1>1, <1>3, StartFacts, Zenon
  <2> QED BY <1>1, <1>3, <2>1
<1>5. sound' \subseteq {"song", "vocal"} /\ ("song" \in sound' <=> "song" \in sound)
  BY <1>1 DEF StreamInv, StreamType
<1>6. StreamType'
  BY <1>2, <1>4, <1>5 DEF StreamInv, StreamType, Pcs
<1>7. PcOK'
  BY <1>2, <1>3 DEF PcOK
<1>8. SongOK'
  BY <1>2, <1>5 DEF StreamInv, SongOK
<1>9. VocalOK'
  <2> SUFFICES ASSUME sound' = {"song", "vocal"}, f \in Aligned, Suits(v, f)
               PROVE  /\ sung' = Bytes(v, DataBegin(v), song'.uWavePlayPos - DataBegin(v))
                      /\ Beside(vocal', v, song'.uWavePlayPos, song'.uWaveReadPos, DataEnd(f))
    BY <1>2 DEF VocalOK
  <2>1. song'.uWavePlayPos = DataBegin(f) /\ song'.uWaveReadPos = BufSize
    BY <1>2, <1>3, <1>5
  <2>2. Beside(vocal', v, DataBegin(f), BufSize, DataEnd(f))
    BY <1>4, StartBeside
  <2>3. DataBegin(v) = DataBegin(f) /\ DataBegin(f) \in Nat
    BY AlignedFacts, SuitsFacts
  <2>4. song'.uWavePlayPos - DataBegin(v) = 0
    BY <2>1, <2>3
  <2> QED BY <1>2, <1>3, <2>1, <2>2, <2>4, BytesEmpty
<1> QED
  BY <1>6, <1>7, <1>8, <1>9 DEF StreamInv

LEMMA ExecuteEndStep == StreamInv /\ ExecuteEnd => StreamInv'
<1> SUFFICES ASSUME StreamInv, ExecuteEnd PROVE StreamInv'
  OBVIOUS
<1>1. /\ pc' = "ended" /\ bKaraoke' = FALSE /\ Over
      /\ UNCHANGED <<song, vocal, want, out, sung, sound, dir>>
  BY DEF ExecuteEnd
<1>2. StreamType'
  BY <1>1 DEF StreamInv, StreamType, Pcs
<1>3. ASSUME "song" \in sound, want.song \in Aligned
      PROVE  song.uWavePlayPos = DataEnd(want.song)
  <2>1. InPlace(song, want.song, song.uWavePlayPos, song.uWaveReadPos)
    BY <1>3 DEF StreamInv, SongOK
  <2>2. /\ song.uWavePlayPos <= song.uWaveReadPos /\ song.uWaveReadPos <= DataEnd(want.song)
        /\ song.uWaveMaxPlayPos = DataEnd(want.song)
    BY <2>1 DEF InPlace
  <2>3. /\ song.uWavePlayPos \in Nat /\ song.uWaveReadPos \in Nat
        /\ DataEnd(want.song) \in Nat
    BY <1>3, TrackFields, AlignedFacts DEF StreamInv, StreamType
  <2> QED BY <1>1, <2>2, <2>3 DEF Over
<1>4. PcOK'
  BY <1>1, <1>3 DEF PcOK
<1>5. SongOK' /\ VocalOK'
  BY <1>1 DEF StreamInv, SongOK, VocalOK
<1> QED
  BY <1>2, <1>4, <1>5 DEF StreamInv

LEMMA ExecuteBeginStep == StreamInv /\ ExecuteBegin => StreamInv'
<1> SUFFICES ASSUME StreamInv, ExecuteBegin PROVE StreamInv'
  OBVIOUS
<1>1. /\ pc = "execute" /\ pc' = "data" /\ ~Over
      /\ UNCHANGED <<bKaraoke, song, vocal, want, out, sung, sound, dir>>
  BY DEF ExecuteBegin
<1>2. StreamType'
  BY <1>1 DEF StreamInv, StreamType, Pcs
<1>4. PcOK'
  BY <1>1 DEF StreamInv, PcOK, Over
<1>5. SongOK' /\ VocalOK'
  BY <1>1 DEF StreamInv, SongOK, VocalOK
<1> QED
  BY <1>2, <1>4, <1>5 DEF StreamInv

LEMMA RefillSongStep == StreamInv /\ RefillSong => StreamInv'
<1> SUFFICES ASSUME StreamInv, RefillSong PROVE StreamInv'
  OBVIOUS
<1>1. PICK ok \in BOOLEAN : pc' = (IF ok THEN "data" ELSE "failed") /\ song' = Refilled(song, ok)
  BY DEF RefillSong, Refill
<1>2. /\ pc = "data" /\ Empty(song)
      /\ UNCHANGED <<bKaraoke, vocal, want, out, sung, sound, dir>>
  BY DEF RefillSong
<1>3. song \in Track /\ dir \in Seq(DOMAIN File)
  BY DEF StreamInv, StreamType
<1>4. CASE ~ok
  <2>1. song' = song /\ pc' = "failed"
    BY <1>1, <1>4 DEF Refilled
  <2> QED BY <1>2, <1>3, <2>1, QuietStep
<1>5. CASE ok
  <2> DEFINE f == want.song
             v == want.vocal
             p == song.uWavePlayPos
  <2>1. pc' = "data" /\ song' = Refilled(song, TRUE)
    BY <1>1, <1>5
  <2>2. /\ song' \in Track /\ song'.uWavePlayPos = p
        /\ song'.uWaveMaxPlayPos = song.uWaveMaxPlayPos
    BY <1>3, <2>1, RefilledFacts
  <2>3. StreamType'
    BY <1>2, <2>1, <2>2 DEF StreamInv, StreamType, Pcs
  <2>4. PcOK'
    BY <1>2, <2>1, <2>2 DEF StreamInv, PcOK, Over
  <2>5. ASSUME "song" \in sound, f \in Aligned
        PROVE  /\ InPlace(song', f, p, song'.uWaveReadPos) /\ p < song'.uWaveReadPos
               /\ p % BufSize = 0 /\ song.uWaveReadPos = p /\ p < DataEnd(f)
               /\ out = Bytes(f, DataBegin(f), p - DataBegin(f))
    <3>1. /\ InPlace(song, f, p, song.uWaveReadPos)
          /\ out = Bytes(f, DataBegin(f), p - DataBegin(f))
      BY <2>5 DEF StreamInv, SongOK
    <3>2. p < DataEnd(f)
      <4>1. ~Over /\ song.uWaveMaxPlayPos = DataEnd(f)
        BY <1>2, <3>1 DEF StreamInv, PcOK, InPlace
      <4>2. p \in Nat /\ DataEnd(f) \in Nat
        BY <1>3, <2>5, TrackFields, AlignedFacts
      <4> QED BY <4>1, <4>2 DEF Over
    <3>3. /\ InPlace(song', f, song'.uWavePlayPos, song'.uWaveReadPos)
          /\ p < song'.uWaveReadPos /\ p % BufSize = 0 /\ song.uWaveReadPos = p
      BY <1>2, <1>3, <2>1, <2>5, <3>1, <3>2, RefillInPlace
    <3> QED BY <2>2, <3>1, <3>2, <3>3
  <2>6. SongOK'
    BY <1>2, <2>2, <2>5 DEF SongOK
  <2>7. VocalOK'
    <3> SUFFICES ASSUME sound = {"song", "vocal"}, f \in Aligned, Suits(v, f)
                 PROVE  /\ sung = Bytes(v, DataBegin(v), p - DataBegin(v))
                        /\ Beside(vocal, v, p, song'.uWaveReadPos, DataEnd(f))
      BY <1>2, <2>2 DEF VocalOK
    <3>1. "song" \in sound
      OBVIOUS
    <3>2. /\ sung = Bytes(v, DataBegin(v), p - DataBegin(v))
          /\ Beside(vocal, v, p, p, DataEnd(f))
      BY <2>5, <3>1 DEF StreamInv, VocalOK
    <3>3. p \in Nat /\ song'.uWaveReadPos \in Nat /\ DataEnd(f) \in Nat
      BY <1>3, <2>2, TrackFields, AlignedFacts
    <3> HIDE DEF p
    <3> QED BY <2>5, <3>1, <3>2, <3>3, SongRefillBeside
  <2> QED BY <2>3, <2>4, <2>6, <2>7 DEF StreamInv
<1> QED
  BY <1>4, <1>5

LEMMA RefillVocalStep == StreamInv /\ RefillVocal => StreamInv'
<1> SUFFICES ASSUME StreamInv, RefillVocal PROVE StreamInv'
  OBVIOUS
<1>1. PICK ok \in BOOLEAN : pc' = (IF ok THEN "data" ELSE "failed") /\ vocal' = Refilled(vocal, ok)
  BY DEF RefillVocal, Refill
<1>2. /\ pc = "data" /\ ~Empty(song) /\ Empty(vocal)
      /\ UNCHANGED <<bKaraoke, song, want, out, sung, sound, dir>>
  BY DEF RefillVocal
<1>3. song \in Track /\ vocal \in Track /\ dir \in Seq(DOMAIN File)
  BY DEF StreamInv, StreamType
<1>4. CASE ~ok
  <2>1. vocal' = vocal /\ pc' = "failed"
    BY <1>1, <1>4 DEF Refilled
  <2> QED BY <1>2, <1>3, <2>1, QuietStep
<1>5. CASE ok
  <2> DEFINE f == want.song
             v == want.vocal
             p == song.uWavePlayPos
             r == song.uWaveReadPos
  <2>1. pc' = "data" /\ vocal' = Refilled(vocal, TRUE)
    BY <1>1, <1>5
  <2>2. vocal' \in Track
    BY <1>3, <2>1, RefilledFacts
  <2>3. StreamType'
    BY <1>2, <2>1, <2>2 DEF StreamInv, StreamType, Pcs
  <2>4. PcOK'
    BY <1>2, <2>1 DEF StreamInv, PcOK, Over
  <2>5. SongOK'
    BY <1>2 DEF StreamInv, SongOK
  <2>6. VocalOK'
    <3> SUFFICES ASSUME sound = {"song", "vocal"}, f \in Aligned, Suits(v, f)
                 PROVE  /\ sung = Bytes(v, DataBegin(v), p - DataBegin(v))
                        /\ p < DataEnd(f) => Beside(vocal', v, p, r, DataEnd(f))
      BY <1>2 DEF VocalOK
    <3>1. /\ sung = Bytes(v, DataBegin(v), p - DataBegin(v))
          /\ p < DataEnd(f) => Beside(vocal, v, p, r, DataEnd(f))
      BY DEF StreamInv, VocalOK
    <3>2. InPlace(song, f, p, r)
      BY DEF StreamInv, SongOK
    <3>3. p \in Nat /\ r \in Nat /\ p < r
      BY <1>2, <1>3, TrackFields DEF Empty
    <3> HIDE DEF p, r
    <3> QED BY <1>2, <1>3, <2>1, <3>1, <3>2, <3>3, VocalRefillBeside
  <2> QED BY <2>3, <2>4, <2>5, <2>6 DEF StreamInv
<1> QED
  BY <1>4, <1>5

LEMMA PlayStepOK == StreamInv /\ Play => StreamInv'
<1> SUFFICES ASSUME StreamInv, Play PROVE StreamInv'
  OBVIOUS
<1> DEFINE f == want.song
           v == want.vocal
           p == song.uWavePlayPos
           r == song.uWaveReadPos
           n == PlaySize
<1>1. /\ pc = "data" /\ ~Empty(song) /\ (bKaraoke => ~Empty(vocal))
      /\ out' = Cat(out, Played(song, n))
      /\ song' = [song EXCEPT !.uWavePlayPos = p + n]
      /\ sung' = IF bKaraoke THEN Cat(sung, Played(vocal, n)) ELSE sung
      /\ vocal' = IF bKaraoke THEN [vocal EXCEPT !.uWavePlayPos = @ + n] ELSE vocal
      /\ pc' = "execute"
      /\ UNCHANGED <<bKaraoke, want, sound, dir>>
  BY DEF Play, PlayStep, Cat
<1>2. song \in Track /\ vocal \in Track /\ dir \in Seq(DOMAIN File)
  BY DEF StreamInv, StreamType
<1>3. p \in Nat /\ r \in Nat /\ p < r /\ n \in Nat /\ vocal.uWavePlayPos \in Nat
  <2>1. p \in Nat /\ r \in Nat /\ vocal.uWavePlayPos \in Nat
    BY <1>2, TrackFields
  <2>2. p < r
    BY <1>1, <2>1 DEF Empty
  <2>3. r - p \in Nat /\ FrameSize \in Nat \ {0}
    BY <2>1, <2>2, BufIsNat
  <2>4. n \in Nat
    <3>1. n = ((r - p) \div FrameSize) * FrameSize
      BY DEF PlaySize
    <3>2. (r - p) \div FrameSize \in Nat
      BY <2>3, DivMod, Zenon
    <3> HIDE DEF n
    <3> QED BY <2>3, <3>1, <3>2
  <2> QED BY <2>1, <2>2, <2>4
<1> HIDE DEF n
<1>4. StreamType'
  <2>1. song' \in Track
    BY <1>1, <1>2, <1>3 DEF Track
  <2>2. vocal' \in Track
    <3>1. vocal.uWavePlayPos + n \in Nat
      BY <1>3
    <3>2. [vocal EXCEPT !.uWavePlayPos = @ + n] \in Track
      BY <1>2, <3>1 DEF Track
    <3> QED BY <1>1, <1>2, <3>2
  <2> QED BY <1>1, <2>1, <2>2 DEF StreamInv, StreamType, Pcs
<1>5. PcOK'
  BY <1>1 DEF StreamInv, PcOK
<1>6. ASSUME "song" \in sound, f \in Aligned
      PROVE  /\ n = r - p /\ song' = [song EXCEPT !.uWavePlayPos = r]
             /\ InPlace(song, f, p, r) /\ InPlace(song', f, r, r)
             /\ (p % BufSize) + (r - p) <= BufSize
             /\ out = Bytes(f, DataBegin(f), p - DataBegin(f))
             /\ song'.uWavePlayPos = r /\ song'.uWaveReadPos = r
  <2>1. InPlace(song, f, p, r) /\ out = Bytes(f, DataBegin(f), p - DataBegin(f))
    BY <1>6 DEF StreamInv, SongOK
  <2>2. /\ ((r - p) \div FrameSize) * FrameSize = r - p
        /\ InPlace([song EXCEPT !.uWavePlayPos = r], f, r, r)
        /\ (p % BufSize) + (r - p) <= BufSize
    BY <1>2, <1>3, <1>6, <2>1, PlayInPlace, Zenon
  <2>3. n = r - p
    BY <2>2 DEF n, PlaySize
  <2>4. p + n = r
    BY <1>3, <2>3
  <2>5. song' = [song EXCEPT !.uWavePlayPos = r]
    BY <1>1, <2>4
  <2>6. song'.uWavePlayPos = r /\ song'.uWaveReadPos = r
    BY <1>2, <2>5 DEF Track
  <2> QED BY <2>1, <2>2, <2>3, <2>5, <2>6
<1>7. SongOK'
  <2> SUFFICES ASSUME "song" \in sound, f \in Aligned
               PROVE  /\ InPlace(song', f, song'.uWavePlayPos, song'.uWaveReadPos)
                      /\ out' = Bytes(f, DataBegin(f), song'.uWavePlayPos - DataBegin(f))
    BY <1>1 DEF SongOK
  <2> DEFINE o == DataBegin(f)
  <2>1. o \in Nat /\ o <= p /\ p <= r /\ Holds(song, f, p, r)
    BY <1>3, <1>6, AlignedFacts DEF InPlace
  <2>2. Cat(Bytes(f, o, p - o), Played(song, r - p)) = Bytes(f, o, r - o)
    <3> HIDE DEF o
    <3> QED BY <1>2, <1>3, <1>6, <2>1, PlayOn
  <2>3. out' = Bytes(f, o, r - o)
    BY <1>1, <1>6, <2>2
  <2> QED BY <1>6, <2>3
<1>8. VocalOK'
  <2> SUFFICES ASSUME sound = {"song", "vocal"}, f \in Aligned, Suits(v, f)
               PROVE  /\ sung' = Bytes(v, DataBegin(v), song'.uWavePlayPos - DataBegin(v))
                      /\ song'.uWavePlayPos < DataEnd(f) =>
                           Beside(vocal', v, song'.uWavePlayPos, song'.uWaveReadPos, DataEnd(f))
    BY <1>1 DEF VocalOK
  <2> DEFINE o == DataBegin(v)
             e == DataEnd(f)
  <2>1. bKaraoke
    BY <1>1 DEF StreamInv, PcOK
  <2>2. /\ n = r - p /\ InPlace(song, f, p, r) /\ (p % BufSize) + (r - p) <= BufSize
        /\ song'.uWavePlayPos = r /\ song'.uWaveReadPos = r
    BY <1>6
  <2>3. o = DataBegin(f) /\ o \in Nat /\ e \in Nat
    BY AlignedFacts, SuitsFacts
  <2>4. o <= p /\ r <= e
    BY <2>2, <2>3 DEF InPlace
  <2>5. /\ sung = Bytes(v, o, p - o)
        /\ p < e => Beside(vocal, v, p, r, e)
    BY DEF StreamInv, VocalOK
  <2> HIDE DEF o, e
  <2>6. Beside(vocal, v, p, r, e)
    BY <1>3, <2>3, <2>4, <2>5
  <2>7. /\ vocal.uWavePlayPos = p /\ ~Empty(vocal)
        /\ Holds(vocal, v, p, r)
    <3>1. vocal.uWavePlayPos = p /\ ~Empty(vocal)
      BY <1>1, <2>1, <2>6 DEF Beside
    <3>2. vocal.uWaveReadPos # p
      BY <1>3, <3>1 DEF Empty
    <3> QED BY <1>3, <2>6, <3>1, <3>2 DEF Beside
  <2>8. Cat(Bytes(v, o, p - o), Played(vocal, r - p)) = Bytes(v, o, r - o)
    <3>1. p \in Nat /\ r \in Nat /\ p <= r /\ vocal \in Track
      BY <1>2, <1>3
    <3> HIDE DEF p, r
    <3> QED BY <2>2, <2>3, <2>4, <2>7, <3>1, PlayOn
  <2>9. sung' = Bytes(v, o, r - o)
    BY <1>1, <2>1, <2>2, <2>5, <2>8
  <2>10. vocal' = [vocal EXCEPT !.uWavePlayPos = r]
    <3>1. p + n = r
      BY <1>3, <2>2
    <3> QED BY <1>1, <2>1, <2>7, <3>1
  <2>11. r < e => Beside(vocal', v, r, r, e)
    BY <1>2, <1>3, <2>3, <2>6, <2>7, <2>10, PlayBeside
  <2> QED BY <2>2, <2>9, <2>11 DEF o, e
<1> QED
  BY <1>4, <1>5, <1>7, <1>8 DEF StreamInv
-----------------------------------------------------------------------------
LEMMA StreamInit0 == Init => StreamInv
<1> SUFFICES ASSUME Init PROVE StreamInv
  OBVIOUS
<1>1. /\ pc = "insert" /\ bKaraoke = FALSE /\ song = NoTrack /\ vocal = NoTrack
      /\ sound = {} /\ dir = <<>>
  BY DEF Init, StreamInit
<1>2. NoTrack \in Track
  <2>1. NULL \in Handle
    BY DEF NULL, Handle, Names
  <2>2. <<<<>>, 0>> \in Byte
    BY DEF Byte, Names
  <2>3. [i \in 1 .. BufSize |-> <<<<>>, 0>>] \in Buffer
    BY <2>2, Zenon DEF Buffer
  <2> QED BY <2>1, <2>3 DEF NoTrack, Track
<1>3. StreamType
  <2>1. dir \in Seq(DOMAIN File)
    BY <1>1
  <2>2. sound \subseteq {"song", "vocal"} /\ bKaraoke \in BOOLEAN /\ pc \in Pcs
    BY <1>1 DEF Pcs
  <2> QED BY <1>1, <1>2, <2>1, <2>2 DEF StreamType
<1>4. PcOK /\ SongOK /\ VocalOK
  BY <1>1 DEF PcOK, SongOK, VocalOK
<1> QED
  BY <1>3, <1>4 DEF StreamInv

LEMMA StreamNext == StreamInv /\ [Next]_vars => StreamInv'
<1> SUFFICES ASSUME StreamInv, [Next]_vars PROVE StreamInv'
  OBVIOUS
<1>1. CASE Inserted BY <1>1, InsertedStep
<1>2. CASE Scan BY <1>2, ScanStep
<1>3. CASE Scanned BY <1>3, ScannedStep
<1>4. CASE Start BY <1>4, StartStep
<1>5. CASE Failed BY <1>5, FailedStep
<1>6. CASE StartSong BY <1>6, StartSongStep
<1>7. CASE StartVocal BY <1>7, StartVocalStep
<1>8. CASE ExecuteEnd BY <1>8, ExecuteEndStep
<1>9. CASE ExecuteBegin BY <1>9, ExecuteBeginStep
<1>10. CASE RefillSong BY <1>10, RefillSongStep
<1>11. CASE RefillVocal BY <1>11, RefillVocalStep
<1>12. CASE Play BY <1>12, PlayStepOK
<1>13. CASE UNCHANGED vars
  BY <1>13 DEF vars, streamVars, StreamInv, StreamType, PcOK, SongOK, VocalOK, Over
<1> QED
  BY <1>1, <1>2, <1>3, <1>4, <1>5, <1>6, <1>7, <1>8, <1>9, <1>10, <1>11, <1>12, <1>13
  DEF Next, Streaming

(* Where the tracks and the player are in every state.                     *)
THEOREM StreamInvariant == Spec => []StreamInv
<1>1. Init => StreamInv
  BY StreamInit0
<1>2. StreamInv /\ [Next]_vars => StreamInv'
  BY StreamNext
<1> QED
  BY <1>1, <1>2, PTL DEF Spec

(* The first n of m bytes.                                                 *)
LEMMA BeginningOfBytes ==
  ASSUME NEW f, NEW o \in Nat, NEW m \in Nat, NEW n \in Nat, n <= m
  PROVE  Beginning(Bytes(f, o, m), n) = Bytes(f, o, n)
<1> DEFINE S == {f} \X Nat
           s == Bytes(f, o, m)
           t == Bytes(f, o, n)
           u == SubSeq(s, 1, n)
<1>1. s \in Seq(S) /\ Len(s) = m /\ \A i \in 1 .. m : s[i] = <<f, o + i - 1>>
  BY BytesAreSeq
<1>2. t \in Seq(S) /\ Len(t) = n /\ \A i \in 1 .. n : t[i] = <<f, o + i - 1>>
  BY BytesAreSeq
<1>3. Beginning(s, n) = SubSeq(s, 1, IF n < m THEN n ELSE m)
  BY <1>1 DEF Beginning
<1>4. (IF n < m THEN n ELSE m) = n
  OBVIOUS
<1> HIDE DEF s, t, S
<1>5. u \in Seq(S) /\ Len(u) = n /\ \A i \in 1 .. n : u[i] = s[i]
  BY <1>1
<1>6. Beginning(s, n) = u
  BY <1>3, <1>4
<1> HIDE DEF u
<1>7. u = t
  <2>1. ASSUME NEW i \in 1 .. n PROVE u[i] = t[i]
    <3>1. i \in 1 .. m
      OBVIOUS
    <3> QED BY <1>1, <1>2, <1>5, <3>1
  <2> QED BY <1>2, <1>5, <2>1, SameSeq
<1> QED
  BY <1>6, <1>7 DEF s, t

(* Of a file the arithmetic is made for, the frames of the data chunk are  *)
(* played each once and in their order, and all of them when the song is   *)
(* over (waveplay_execute).                                                *)
THEOREM PlaysTheDataCorrect == Spec => []PlaysTheData
<1>1. StreamInv => PlaysTheData
  <2> DEFINE f == want.song
             o == DataBegin(f)
             e == DataEnd(f)
             p == song.uWavePlayPos
             n == p - o
  <2> SUFFICES ASSUME StreamInv, "song" \in sound, f \in Aligned
               PROVE  out = Beginning(Data[f], Len(out)) /\ (pc = "ended" => out = Data[f])
    BY DEF PlaysTheData
  <2>1. /\ InPlace(song, f, p, song.uWaveReadPos) /\ out = Bytes(f, o, n)
        /\ pc = "ended" => p = e
    BY DEF StreamInv, SongOK, PcOK
  <2>2. f \in DOMAIN File /\ o \in Nat /\ e \in Nat /\ Chunk[f].size = e - o
    BY AlignedFacts
  <2>3. Data[f] = Bytes(f, o, e - o)
    BY <2>2 DEF Data, DataBegin
  <2>4. p \in Nat /\ song.uWaveReadPos \in Nat
    BY TrackFields DEF StreamInv, StreamType
  <2>5. o <= p /\ p <= song.uWaveReadPos /\ song.uWaveReadPos <= e
    BY <2>1 DEF InPlace
  <2> HIDE DEF o, e, p
  <2>6. n \in Nat /\ e - o \in Nat /\ n <= e - o
    BY <2>2, <2>4, <2>5
  <2> HIDE DEF n
  <2>7. Len(out) = n
    BY <2>1, <2>2, <2>6, BytesAreSeq
  <2>8. Beginning(Data[f], n) = Bytes(f, o, n)
    BY <2>2, <2>3, <2>6, BeginningOfBytes
  <2>9. pc = "ended" => n = e - o
    BY <2>1 DEF n
  <2> QED BY <2>1, <2>3, <2>7, <2>8, <2>9
<1> QED
  BY <1>1, StreamInvariant, PTL

(* While singing, the vocal track is in step with the song, frame by       *)
(* frame, when both begin at the same place and it is long enough          *)
(* (waveplay_execute).                                                     *)
THEOREM VocalInStepCorrect == Spec => []VocalInStep
<1>1. StreamInv => VocalInStep
  <2> DEFINE f == want.song
             v == want.vocal
             o == DataBegin(f)
             e == DataEnd(f)
             p == song.uWavePlayPos
             n == p - o
  <2> SUFFICES ASSUME StreamInv, sound = {"song", "vocal"}, f \in Aligned, Suits(v, f)
               PROVE  sung = Beginning(Data[v], Len(out))
    BY DEF VocalInStep
  <2>1. InPlace(song, f, p, song.uWaveReadPos) /\ out = Bytes(f, o, n)
    BY DEF StreamInv, SongOK
  <2>2. sung = Bytes(v, DataBegin(v), p - DataBegin(v))
    BY DEF StreamInv, VocalOK
  <2>3. /\ v \in DOMAIN File /\ DataBegin(v) = o /\ o \in Nat /\ e \in Nat
        /\ DataEnd(v) \in Nat /\ e <= DataEnd(v)
    BY AlignedFacts, SuitsFacts
  <2>4. Chunk[v].offset \in Nat /\ Chunk[v].size \in Nat
    BY <2>3, ChunkIsNat
  <2> DEFINE m == Chunk[v].size
  <2>5. Data[v] = Bytes(v, o, m) /\ DataEnd(v) = o + m
    BY <2>3 DEF Data, DataBegin, DataEnd
  <2>6. p \in Nat /\ song.uWaveReadPos \in Nat
    BY TrackFields DEF StreamInv, StreamType
  <2>7. o <= p /\ p <= song.uWaveReadPos /\ song.uWaveReadPos <= e
    BY <2>1 DEF InPlace
  <2>8. sung = Bytes(v, o, n)
    BY <2>2, <2>3
  <2> HIDE DEF o, e, p, m
  <2>9. n \in Nat /\ n <= m
    BY <2>3, <2>4, <2>5, <2>6, <2>7 DEF m
  <2> HIDE DEF n
  <2>10. Len(out) = n
    BY <2>1, <2>3, <2>9, BytesAreSeq
  <2>11. Beginning(Bytes(v, o, m), n) = Bytes(v, o, n)
    <3>1. m \in Nat
      BY <2>4 DEF m
    <3> QED BY <2>3, <2>9, <3>1, BeginningOfBytes
  <2> QED BY <2>5, <2>8, <2>10, <2>11
<1> QED
  BY <1>1, StreamInvariant, PTL
=============================================================================

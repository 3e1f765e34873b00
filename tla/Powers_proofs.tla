---------------------------- MODULE Powers_proofs ----------------------------
(***************************************************************************)
(* The facts about powers of two and about division that the proofs of the *)
(* arithmetic units rest on.  Induction over the natural numbers is the    *)
(* existence of a least element of a set, WFMin of the library.            *)
(***************************************************************************)
EXTENDS Powers, TLAPS, WellFoundedInduction

(* Every non-empty set of natural numbers has a least element.             *)
LEMMA NatMin ==
  ASSUME NEW T, T \subseteq Nat, T # {}
  PROVE  \E x \in T : \A y \in T : ~(y < x)
<1>1. PICK x \in T : \A y \in T : ~(<<y, x>> \in OpToRel(<, Nat))
  BY WFMin, NatLessThanWellFounded
<1>2. ASSUME NEW y \in T, y < x PROVE FALSE
  <2>1. <<y, x>> \in OpToRel(<, Nat)
    BY <1>2 DEF OpToRel
  <2> QED
    BY <2>1, <1>1
<1> QED
  BY <1>2

(* f is the table of the powers of two up to n.                            *)
IsTable(f, n) ==
  /\ f \in [0 .. n -> Nat]
  /\ f[0] = 1
  /\ \A i \in 0 .. n - 1 : f[i + 1] = 2 * f[i]

(* There is such a table up to every n.                                    *)
LEMMA TableExists == \A n \in Nat : \E f : IsTable(f, n)
<1> DEFINE T == {n \in Nat : ~ \E f : IsTable(f, n)}
<1> SUFFICES ASSUME T # {} PROVE FALSE
  OBVIOUS
<1>1. PICK x \in T : \A y \in T : ~(y < x)
  <2> HIDE DEF T
  <2> QED BY NatMin DEF T
<1>2. x # 0
  <2>1. IsTable([i \in 0 .. 0 |-> 1], 0)
    BY DEF IsTable
  <2> QED BY <2>1
<1>3. x \in Nat /\ x - 1 \in Nat
  BY <1>2
<1>4. PICK g : IsTable(g, x - 1)
  BY <1>1, <1>3
<1> DEFINE h == [i \in 0 .. x |-> IF i = x THEN 2 * g[x - 1] ELSE g[i]]
<1>5. IsTable(h, x)
  <2>1. g \in [0 .. x - 1 -> Nat]
    BY <1>4 DEF IsTable
  <2>2. h \in [0 .. x -> Nat]
    <3> SUFFICES ASSUME NEW i \in 0 .. x PROVE h[i] \in Nat
      OBVIOUS
    <3>1. CASE i = x
      <4>1. g[x - 1] \in Nat
        BY <1>3, <2>1
      <4> QED BY <3>1, <4>1
    <3>2. CASE i # x
      BY <3>2, <2>1, <1>3
    <3> QED BY <3>1, <3>2
  <2>3. h[0] = 1
    BY <1>2, <1>3, <1>4 DEF IsTable
  <2>4. ASSUME NEW i \in 0 .. x - 1 PROVE h[i + 1] = 2 * h[i]
    <3>1. h[i] = g[i]
      BY <1>3
    <3>2. CASE i = x - 1
      BY <3>1, <3>2, <1>3
    <3>3. CASE i # x - 1
      <4>1. i \in 0 .. (x - 1) - 1 /\ i + 1 # x
        BY <3>3, <1>3
      <4>2. g[i + 1] = 2 * g[i]
        BY <4>1, <1>4 DEF IsTable
      <4> QED BY <4>1, <4>2, <3>1, <1>3
    <3> QED BY <3>2, <3>3
  <2> QED BY <2>2, <2>3, <2>4 DEF IsTable
<1> QED
  BY <1>5, <1>1

(* Two tables agree wherever both are defined.                             *)
LEMMA TablesAgree ==
  ASSUME NEW m \in Nat, NEW n \in Nat, NEW f, NEW g,
         IsTable(f, m), IsTable(g, n), NEW k \in Nat, k <= m, k <= n
  PROVE  f[k] = g[k]
<1> DEFINE T == {i \in 0 .. k : f[i] # g[i]}
<1> SUFFICES ASSUME T # {} PROVE FALSE
  OBVIOUS
<1>1. PICK x \in T : \A y \in T : ~(y < x)
  <2>1. T \subseteq Nat
    OBVIOUS
  <2> HIDE DEF T
  <2> QED BY <2>1, NatMin
<1>2. x # 0
  BY DEF IsTable
<1>3. x - 1 \in 0 .. k /\ x - 1 \in 0 .. m - 1 /\ x - 1 \in 0 .. n - 1
  BY <1>2
<1>4. f[x - 1] = g[x - 1]
  BY <1>1, <1>3
<1>5. f[(x - 1) + 1] = 2 * f[x - 1] /\ g[(x - 1) + 1] = 2 * g[x - 1]
  BY <1>3 DEF IsTable
<1>6. (x - 1) + 1 = x
  OBVIOUS
<1> QED
  BY <1>4, <1>5, <1>6

(* The recursive definition of Pow2 defines a function on Nat.             *)
LEMMA Pow2Recursion ==
  Pow2 = [n \in Nat |-> IF n = 0 THEN 1 ELSE 2 * Pow2[n - 1]]
<1> DEFINE Table(n) == CHOOSE f : IsTable(f, n)
           F == [n \in Nat |-> Table(n)[n]]
<1>1. ASSUME NEW n \in Nat PROVE IsTable(Table(n), n)
  <2>1. \E f : IsTable(f, n)
    BY TableExists
  <2> QED BY <2>1
<1>2. F[0] = 1
  BY <1>1 DEF IsTable
<1>3. ASSUME NEW n \in Nat, n # 0 PROVE F[n] = 2 * F[n - 1]
  <2>1. n - 1 \in Nat /\ n - 1 \in 0 .. n - 1 /\ (n - 1) + 1 = n
    BY <1>3
  <2>2. Table(n)[(n - 1) + 1] = 2 * Table(n)[n - 1]
    <3> HIDE DEF Table
    <3> QED BY <1>1, <2>1 DEF IsTable
  <2>3. Table(n)[n - 1] = Table(n - 1)[n - 1]
    <3> HIDE DEF Table
    <3>1. IsTable(Table(n), n) /\ IsTable(Table(n - 1), n - 1)
      BY <1>1, <2>1
    <3>2. n - 1 <= n /\ n - 1 <= n - 1
      BY <2>1
    <3> QED BY <3>1, <3>2, <2>1, TablesAgree
  <2>4. F[n] = Table(n)[n] /\ F[n - 1] = Table(n - 1)[n - 1]
    BY <2>1
  <2> QED BY <2>1, <2>2, <2>3, <2>4
<1>4. F = [n \in Nat |-> IF n = 0 THEN 1 ELSE 2 * F[n - 1]]
  <2> HIDE DEF Table
  <2>1. F = [n \in Nat |-> F[n]]
    OBVIOUS
  <2> HIDE DEF F
  <2>2. \A n \in Nat : F[n] = IF n = 0 THEN 1 ELSE 2 * F[n - 1]
    BY <1>2, <1>3
  <2> QED BY <2>1, <2>2
<1> HIDE DEF F
<1> QED
  BY <1>4 DEF Pow2

(* What the other modules need of Pow2.                                    *)
LEMMA Pow2Facts ==
  /\ Pow2 \in [Nat -> Nat \ {0}]
  /\ Pow2[0] = 1
  /\ \A n \in Nat : Pow2[n + 1] = 2 * Pow2[n]
<1>1. Pow2[0] = 1
  BY Pow2Recursion
<1>2. ASSUME NEW n \in Nat PROVE Pow2[n + 1] = 2 * Pow2[n]
  <2>1. n + 1 \in Nat /\ n + 1 # 0 /\ (n + 1) - 1 = n
    OBVIOUS
  <2> QED BY <2>1, Pow2Recursion
<1>3. Pow2 = [n \in Nat |-> Pow2[n]]
  BY Pow2Recursion
<1>4. \A n \in Nat : Pow2[n] \in Nat \ {0}
  <2> DEFINE T == {n \in Nat : Pow2[n] \notin Nat \ {0}}
  <2> SUFFICES ASSUME T # {} PROVE FALSE
    OBVIOUS
  <2>1. PICK x \in T : \A y \in T : ~(y < x)
    <3> HIDE DEF T
    <3> QED BY NatMin DEF T
  <2>2. x # 0
    BY <1>1
  <2>3. x - 1 \in Nat /\ x - 1 < x /\ (x - 1) + 1 = x
    BY <2>2
  <2>4. Pow2[x - 1] \in Nat \ {0}
    BY <2>1, <2>3
  <2>5. Pow2[(x - 1) + 1] = 2 * Pow2[x - 1]
    BY <1>2, <2>3
  <2> QED BY <2>3, <2>4, <2>5
<1> QED
  BY <1>1, <1>2, <1>3, <1>4
-----------------------------------------------------------------------------
(* Division and remainder by a positive number.                            *)
LEMMA DivMod ==
  ASSUME NEW x \in Nat, NEW n \in Nat \ {0}
  PROVE  /\ x \div n \in Nat /\ x % n \in 0 .. n - 1
         /\ x = n * (x \div n) + (x % n)
  OBVIOUS

(* A positive multiple of n is at least n.                                 *)
LEMMA MulLower ==
  ASSUME NEW n \in Nat \ {0}, NEW k \in Int, k > 0
  PROVE  k * n \in Int /\ k * n >= n
  OBVIOUS

(* Quotient and remainder are determined by n * q + r with r below n.      *)
LEMMA ModUnique ==
  ASSUME NEW n \in Nat \ {0}, NEW q \in Int, NEW r \in 0 .. n - 1,
         NEW x \in Nat, x = n * q + r
  PROVE  x % n = r /\ x \div n = q
<1> DEFINE p == x \div n
           s == x % n
<1>1. p \in Int /\ s \in 0 .. n - 1 /\ x = n * p + s
  <2>1. p \in Nat /\ s \in 0 .. n - 1 /\ x = n * p + s
    BY DivMod, Zenon
  <2> HIDE DEF p, s
  <2> QED BY <2>1
<1> HIDE DEF p, s
<1>2. (p - q) * n = r - s /\ (q - p) * n = s - r
  BY <1>1
<1>3. ~(p - q > 0)
  <2> SUFFICES ASSUME p - q > 0 PROVE FALSE
    OBVIOUS
  <2>1. (p - q) * n >= n
    BY MulLower, <1>1
  <2> QED BY <2>1, <1>1, <1>2
<1>4. ~(q - p > 0)
  <2> SUFFICES ASSUME q - p > 0 PROVE FALSE
    OBVIOUS
  <2>1. (q - p) * n >= n
    BY MulLower, <1>1
  <2> QED BY <2>1, <1>1, <1>2
<1>5. p = q
  BY <1>1, <1>3, <1>4
<1> QED BY <1>1, <1>5 DEF p, s

(* A number below n is its own remainder.                                  *)
LEMMA ModSmall ==
  ASSUME NEW n \in Nat \ {0}, NEW x \in 0 .. n - 1
  PROVE  x % n = x
  OBVIOUS

(* Multiples of n do not change the remainder.                             *)
LEMMA ModShift ==
  ASSUME NEW n \in Nat \ {0}, NEW x \in Nat, NEW k \in Int, x + (k * n) \in Nat
  PROVE  (x + k * n) % n = x % n
<1>1. x \div n \in Nat /\ x % n \in 0 .. n - 1 /\ x = n * (x \div n) + (x % n)
  BY DivMod
<1> DEFINE q == x \div n
           r == x % n
<1>2. q \in Nat /\ r \in 0 .. n - 1 /\ x = n * q + r
  BY <1>1
<1> HIDE DEF q, r
<1>3. x + k * n = n * (q + k) + r
  BY <1>2
<1>4. x + k * n \in Nat /\ q + k \in Int
  BY <1>2
<1>5. (x + k * n) % n = r
  BY <1>2, <1>3, <1>4, ModUnique
<1> QED BY <1>5 DEF r

(* The lowest c + 1 bits of x are the lowest c bits and bit c.             *)
LEMMA BitSplit ==
  ASSUME NEW x \in Nat, NEW c \in Nat
  PROVE  /\ Bit(x, c) \in {0, 1}
         /\ x % Pow2[c + 1] = (x % Pow2[c]) + Bit(x, c) * Pow2[c]
<1> DEFINE P == Pow2[c]
           q == x \div P
           r == x % P
           t == q % 2
<1>1. P \in Nat \ {0} /\ Pow2[c + 1] = 2 * P
  BY Pow2Facts
<1> HIDE DEF P
<1>2. q \in Nat /\ r \in 0 .. P - 1 /\ x = P * q + r
  BY <1>1, DivMod
<1> HIDE DEF q, r
<1>3. q \div 2 \in Nat /\ t \in 0 .. 1 /\ q = 2 * (q \div 2) + t
  BY <1>2, DivMod
<1> DEFINE h == q \div 2
<1>4. h \in Nat /\ q = 2 * h + t
  BY <1>3
<1> HIDE DEF h, t
<1>5. x = (2 * P) * h + (t * P + r)
  BY <1>1, <1>2, <1>3, <1>4
<1>6. t * P + r \in 0 .. 2 * P - 1
  <2>1. t = 0 \/ t = 1
    BY <1>3
  <2> QED BY <2>1, <1>1, <1>2
<1>7. x % (2 * P) = t * P + r
  <2>1. 2 * P \in Nat \ {0} /\ h \in Int
    BY <1>1, <1>4
  <2> QED BY <2>1, <1>5, <1>6, ModUnique
<1>8. Bit(x, c) = t
  BY DEF Bit, t, q, P
<1> QED
  <2>1. r = x % Pow2[c] /\ P = Pow2[c]
    BY DEF r, P
  <2>2. t * P + r = r + t * P /\ t \in {0, 1}
    BY <1>1, <1>2, <1>3
  <2> QED BY <1>1, <1>7, <1>8, <2>1, <2>2
-----------------------------------------------------------------------------
(* x and y differ by a multiple of n.                                      *)
SameResidue(x, y, n) == \E k \in Int : x = y + (k * n)

(* That is what equal remainders mean.                                     *)
LEMMA ResidueMod ==
  ASSUME NEW n \in Nat \ {0}, NEW x \in Nat, NEW y \in Nat
  PROVE  SameResidue(x, y, n) <=> x % n = y % n
<1>1. ASSUME SameResidue(x, y, n) PROVE x % n = y % n
  <2>1. PICK k \in Int : x = y + (k * n)
    BY <1>1 DEF SameResidue
  <2>2. y + (k * n) \in Nat
    BY <2>1
  <2> QED BY <2>1, <2>2, ModShift
<1>2. ASSUME x % n = y % n PROVE SameResidue(x, y, n)
  <2> DEFINE p == x \div n
             q == y \div n
             r == x % n
  <2>1. p \in Nat /\ q \in Nat /\ r \in Nat /\ x = n * p + r /\ y = n * q + r
    <3>1. /\ x \div n \in Nat /\ x % n \in 0 .. n - 1 /\ x = n * (x \div n) + (x % n)
          /\ y \div n \in Nat /\ y % n \in 0 .. n - 1 /\ y = n * (y \div n) + (y % n)
      BY DivMod, Zenon
    <3> DEFINE s == y % n
    <3>2. p \in Nat /\ q \in Nat /\ r \in 0 .. n - 1 /\ x = n * p + r /\ y = n * q + s /\ s = r
      BY <1>2, <3>1
    <3> HIDE DEF p, q, r, s
    <3> QED BY <3>2
  <2> HIDE DEF p, q, r
  <2>2. p - q \in Int /\ x = y + ((p - q) * n)
    BY <2>1
  <2> QED BY <2>2 DEF SameResidue
<1> QED
  BY <1>1, <1>2

(* It is an equivalence.                                                   *)
LEMMA ResidueEquivalence ==
  ASSUME NEW n \in Nat, NEW x \in Int, NEW y \in Int, NEW z \in Int
  PROVE  /\ SameResidue(x, x, n)
         /\ SameResidue(x, y, n) => SameResidue(y, x, n)
         /\ SameResidue(x, y, n) /\ SameResidue(y, z, n) => SameResidue(x, z, n)
<1>1. SameResidue(x, x, n)
  <2>1. x = x + (0 * n)
    OBVIOUS
  <2> QED BY <2>1 DEF SameResidue
<1>2. ASSUME SameResidue(x, y, n) PROVE SameResidue(y, x, n)
  <2>1. PICK k \in Int : x = y + (k * n)
    BY <1>2 DEF SameResidue
  <2>2. -k \in Int /\ y = x + ((-k) * n)
    BY <2>1
  <2> QED BY <2>2 DEF SameResidue
<1>3. ASSUME SameResidue(x, y, n), SameResidue(y, z, n) PROVE SameResidue(x, z, n)
  <2>1. PICK k \in Int : x = y + (k * n)
    BY <1>3 DEF SameResidue
  <2>2. PICK l \in Int : y = z + (l * n)
    BY <1>3 DEF SameResidue
  <2>3. k + l \in Int /\ x = z + ((k + l) * n)
    BY <2>1, <2>2
  <2> QED BY <2>3 DEF SameResidue
<1> QED
  BY <1>1, <1>2, <1>3

(* A remainder stands for its number.                                      *)
LEMMA ResidueOfMod ==
  ASSUME NEW n \in Nat \ {0}, NEW x \in Nat
  PROVE  x % n \in 0 .. n - 1 /\ SameResidue(x % n, x, n)
<1>1. x % n \in 0 .. n - 1
  BY DivMod
<1>2. (x % n) % n = x % n
  <2> DEFINE r == x % n
  <2>1. r \in 0 .. n - 1
    BY <1>1
  <2> HIDE DEF r
  <2>2. r % n = r
    BY <2>1, ModSmall
  <2> QED BY <2>2 DEF r
<1>3. x % n \in Nat
  BY <1>1
<1> QED
  BY <1>1, <1>2, <1>3, ResidueMod

(* Products of residues.                                                   *)
LEMMA ResidueMul ==
  ASSUME NEW n \in Nat, NEW x \in Int, NEW y \in Int, NEW u \in Int, NEW v \in Int,
         SameResidue(x, u, n), SameResidue(y, v, n)
  PROVE  SameResidue(x * y, u * v, n)
<1>1. PICK k \in Int : x = u + (k * n)
  BY DEF SameResidue
<1>2. PICK l \in Int : y = v + (l * n)
  BY DEF SameResidue
<1>3. x * y = (u * v) + (((u * l) + (k * v) + (k * l * n)) * n)
  BY <1>1, <1>2
<1>4. (u * l) + (k * v) + (k * l * n) \in Int
  OBVIOUS
<1> QED
  BY <1>3, <1>4 DEF SameResidue

(* Division by two modulo an odd number.                                   *)
LEMMA ResidueHalve ==
  ASSUME NEW n \in Nat, n % 2 = 1, NEW x \in Int, NEW y \in Int,
         SameResidue(2 * x, 2 * y, n)
  PROVE  SameResidue(x, y, n)
<1>1. PICK k \in Int : 2 * x = (2 * y) + (k * n)
  BY DEF SameResidue
<1>2. PICK h \in Int : n = 2 * h + 1
  <2>1. n \div 2 \in Int /\ n = 2 * (n \div 2) + 1
    OBVIOUS
  <2> QED BY <2>1
<1>3. PICK j \in Int : k = 2 * j
  <2>1. k = 2 * (x - y - (k * h))
    <3>1. k * n = 2 * (k * h) + k
      BY <1>2
    <3> DEFINE kn == k * n
               kh == k * h
    <3>2. kn \in Int /\ kh \in Int /\ kn = 2 * kh + k /\ 2 * x = (2 * y) + kn
      BY <1>1, <3>1
    <3> HIDE DEF kn, kh
    <3>3. k = 2 * (x - y - kh)
      BY <3>2
    <3> QED BY <3>3 DEF kh
  <2>2. x - y - (k * h) \in Int
    OBVIOUS
  <2> QED BY <2>1, <2>2
<1>4. k * n = 2 * (j * n)
  BY <1>3
<1>5. x = y + (j * n)
  <2> DEFINE kn == k * n
             jn == j * n
  <2>1. kn \in Int /\ jn \in Int /\ kn = 2 * jn /\ 2 * x = (2 * y) + kn
    BY <1>1, <1>4
  <2> HIDE DEF kn, jn
  <2>2. x = y + jn
    BY <2>1
  <2> QED BY <2>2 DEF jn
<1> QED
  BY <1>5 DEF SameResidue

(* Division by a power of two modulo an odd number.                        *)
LEMMA ResidueCancel ==
  ASSUME NEW n \in Nat, n % 2 = 1, NEW x \in Int, NEW y \in Int, NEW w \in Nat,
         SameResidue(x * Pow2[w], y * Pow2[w], n)
  PROVE  SameResidue(x, y, n)
<1> DEFINE T == {i \in Nat : SameResidue(x * Pow2[i], y * Pow2[i], n)}
<1>1. PICK i \in T : \A j \in T : ~(j < i)
  <2>1. T \subseteq Nat /\ T # {}
    OBVIOUS
  <2> HIDE DEF T
  <2> QED BY <2>1, NatMin
<1>2. i = 0
  <2> SUFFICES ASSUME i # 0 PROVE FALSE
    OBVIOUS
  <2> DEFINE P == Pow2[i - 1]
  <2>1. i - 1 \in Nat /\ i - 1 < i /\ (i - 1) + 1 = i
    OBVIOUS
  <2>2. P \in Nat /\ Pow2[i] = 2 * P
    BY <2>1, Pow2Facts
  <2>3. x * Pow2[i] = 2 * (x * P) /\ y * Pow2[i] = 2 * (y * P)
        /\ x * P \in Int /\ y * P \in Int
    <3> HIDE DEF P
    <3> QED BY <2>2
  <2>4. SameResidue(2 * (x * P), 2 * (y * P), n)
    BY <2>3
  <2>5. SameResidue(x * P, y * P, n)
    BY <2>3, <2>4, ResidueHalve
  <2> QED BY <1>1, <2>1, <2>5
<1>3. Pow2[0] = 1 /\ x * 1 = x /\ y * 1 = y
  BY Pow2Facts
<1> QED
  BY <1>1, <1>2, <1>3
-----------------------------------------------------------------------------
(* Two more bits are four times the range.                                 *)
LEMMA PowersBeyond ==
  ASSUME NEW w \in Nat \ {0}
  PROVE  /\ Pow2[w] \in Nat \ {0} /\ Pow2[w] >= 2
         /\ Pow2[w + 1] = 2 * Pow2[w] /\ Pow2[w + 2] = 4 * Pow2[w]
<1>1. Pow2[w + 1] = 2 * Pow2[w] /\ Pow2[(w + 1) + 1] = 2 * Pow2[w + 1]
  BY Pow2Facts
<1>2. (w + 1) + 1 = w + 2 /\ Pow2[w] \in Nat \ {0}
  BY Pow2Facts
<1>3. w - 1 \in Nat /\ (w - 1) + 1 = w
  OBVIOUS
<1>4. Pow2[(w - 1) + 1] = 2 * Pow2[w - 1] /\ Pow2[w - 1] \in Nat \ {0}
  BY <1>3, Pow2Facts
<1> QED
  BY <1>1, <1>2, <1>3, <1>4

(* Numbers below a multiple of the modulus fit registers of two more bits. *)
LEMMA FitsBeyond ==
  ASSUME NEW w \in Nat \ {0}, NEW n \in Nat, n < Pow2[w], NEW x \in Nat, x < 4 * n
  PROVE  x < 4 * Pow2[w] /\ x \in 0 .. Pow2[w + 2] - 1 /\ x % Pow2[w + 2] = x
<1> DEFINE Q == Pow2[w]
           V == Pow2[w + 2]
<1>1. Q \in Nat /\ V = 4 * Q /\ n < Q
  BY PowersBeyond
<1> HIDE DEF Q, V
<1>2. x < 4 * Q /\ V \in Nat \ {0} /\ x \in 0 .. V - 1
  BY <1>1
<1>3. x % V = x
  BY <1>2, ModSmall
<1> QED
  BY <1>1, <1>2, <1>3 DEF V, Q

(* A number below a word is a word.                                        *)
LEMMA WordBelow == ASSUME NEW w \in Nat, NEW n \in 0 .. w - 1, NEW y \in 0 .. n - 1
                   PROVE  y \in 0 .. w - 1 /\ y < n
  OBVIOUS
-----------------------------------------------------------------------------
(* Halving m + e b + t N keeps the accumulator congruent to the product.   *)
LEMMA HalvingStep ==
  ASSUME NEW n \in Nat, NEW y \in Nat, NEW m \in Nat, NEW h \in Nat,
         NEW P \in Nat, NEW A \in Nat, NEW k \in Int,
         NEW e \in {0, 1}, NEW t \in {0, 1},
         2 * h = m + (e * y) + (t * n),
         m * P = (A * y) + (k * n)
  PROVE  h * (2 * P) = ((A + (e * P)) * y) + ((k + (t * P)) * n)
<1>1. h * (2 * P) = (m + (e * y) + (t * n)) * P
  <2>1. h * (2 * P) = (2 * h) * P
    OBVIOUS
  <2> QED BY <2>1
<1>2. CASE e = 0 /\ t = 0
  BY <1>1, <1>2
<1>3. CASE e = 1 /\ t = 0
  BY <1>1, <1>3
<1>4. CASE e = 0 /\ t = 1
  BY <1>1, <1>4
<1>5. CASE e = 1 /\ t = 1
  BY <1>1, <1>5
<1> QED
  BY <1>2, <1>3, <1>4, <1>5

(* A parity is 0 or 1, and adding the odd N to an odd sum makes it even.   *)
LEMMA Parity ==
  ASSUME NEW x \in Nat, NEW n \in Nat, n % 2 = 1
  PROVE  LET t == IF x % 2 = 1 THEN 1 ELSE 0
         IN  t \in {0, 1} /\ (x + (t * n)) % 2 = 0
  OBVIOUS

(* One iteration of the Montgomery loop: s is the even sum formed in w + 2 *)
(* bits and shifted right.  It does not wrap, the result stays below 2n    *)
(* and is the product of the low c + 1 bits of a with b, over 2^(c + 1).   *)
LEMMA MontgomeryIteration ==
  ASSUME NEW w \in Nat \ {0}, NEW n \in Nat, n < Pow2[w], NEW a \in Nat, NEW b \in Nat, b < n,
         NEW m \in Nat, m < 2 * n, NEW c \in Nat, NEW t \in {0, 1}, NEW s \in Nat,
         s % 2 = 0, s = m + (Bit(a, c) * b) + (t * n),
         SameResidue(m * Pow2[c], (a % Pow2[c]) * b, n)
  PROVE  LET h == (s % Pow2[w + 2]) \div 2
         IN  /\ h \in Nat /\ h < 2 * n
             /\ SameResidue(h * Pow2[c + 1], (a % Pow2[c + 1]) * b, n)
<1> DEFINE P == Pow2[c]
           e == Bit(a, c)
           A == a % P
           V == Pow2[w + 2]
           h == (s % V) \div 2
<1>1. P \in Nat \ {0} /\ Pow2[c + 1] = 2 * P
  BY Pow2Facts
<1>2. e \in {0, 1} /\ a % Pow2[c + 1] = A + (e * P) /\ A \in Nat
  <2>1. a % P \in 0 .. P - 1
    BY <1>1, DivMod
  <2> QED BY <2>1, BitSplit
<1>3. s = m + (e * b) + (t * n)
  OBVIOUS
<1>4. s < 4 * n
  <2> HIDE DEF e
  <2>1. e * b \in {0, b} /\ t * n \in {0, n}
    BY <1>2
  <2> DEFINE eb == e * b
             tn == t * n
  <2>2. s = m + eb + tn /\ eb \in {0, b} /\ tn \in {0, n}
    BY <1>3, <2>1
  <2> HIDE DEF eb, tn
  <2> QED BY <2>2
<1>5. s % V = s
  BY <1>4, FitsBeyond
<1> HIDE DEF V
<1>6. h \in Nat /\ 2 * h = s
  BY <1>5
<1>7. h < 2 * n
  BY <1>4, <1>6
<1> HIDE DEF P, e, A, h
<1>8. PICK k \in Int : m * P = (A * b) + (k * n)
  BY DEF SameResidue, P, A
<1>9. h * (2 * P) = ((A + (e * P)) * b) + ((k + (t * P)) * n)
  <2>1. 2 * h = m + (e * b) + (t * n)
    BY <1>3, <1>6
  <2> QED BY <1>1, <1>2, <1>6, <1>8, <2>1, HalvingStep
<1>10. k + (t * P) \in Int
  BY <1>1
<1>11. SameResidue(h * (2 * P), (A + (e * P)) * b, n)
  BY <1>9, <1>10 DEF SameResidue
<1> QED
  BY <1>1, <1>2, <1>6, <1>7, <1>11 DEF h, V

(* The last subtraction of the Montgomery loop reduces the result.         *)
LEMMA MontgomeryReduction ==
  ASSUME NEW n \in Nat \ {0}, NEW y \in Nat, NEW m \in Nat, m < 2 * n,
         NEW Q \in Nat, SameResidue(m * Q, y, n)
  PROVE  LET r == IF m >= n THEN m - n ELSE m
         IN  r \in 0 .. n - 1 /\ (r * Q) % n = y % n
<1> DEFINE r == IF m >= n THEN m - n ELSE m
<1>1. r \in 0 .. n - 1 /\ (r = m \/ r = m - n)
  OBVIOUS
<1>2. PICK k \in Int : m * Q = y + (k * n)
  BY DEF SameResidue
<1> HIDE DEF r
<1>3. SameResidue(r * Q, y, n)
  <2>1. CASE r = m
    BY <1>2, <2>1 DEF SameResidue
  <2>2. CASE r = m - n
    <3>1. (m - n) * Q = y + ((k - Q) * n)
      BY <1>2
    <3>2. k - Q \in Int /\ r * Q = y + ((k - Q) * n)
      BY <2>2, <3>1
    <3> QED BY <3>2 DEF SameResidue
  <2> QED BY <1>1, <2>1, <2>2
<1>4. r * Q \in Nat
  BY <1>1
<1>5. (r * Q) % n = y % n
  BY <1>3, <1>4, ResidueMod
<1> QED
  BY <1>1, <1>5 DEF r

(* Doubling t modulo n.  The result may be n itself: the comparison of     *)
(* ModuloProduct.sv is strict.                                             *)
LEMMA DoublingIteration ==
  ASSUME NEW w \in Nat \ {0}, NEW n \in Nat \ {0}, n < Pow2[w], NEW b \in Nat, NEW c \in Nat,
         NEW t \in Nat, t <= n, SameResidue(b * Pow2[c], t, n)
  PROVE  LET s == (t + t) % Pow2[w + 2]
             d == IF s > n THEN s - n ELSE s
         IN  d \in 0 .. n /\ SameResidue(b * Pow2[c + 1], d, n)
<1> DEFINE P == Pow2[c]
           s == (t + t) % Pow2[w + 2]
           d == IF s > n THEN s - n ELSE s
<1>1. s = t + t
  BY FitsBeyond
<1> HIDE DEF s
<1>2. d \in 0 .. n /\ (d = t + t \/ d = (t + t) - n)
  BY <1>1
<1>3. P \in Nat \ {0} /\ Pow2[c + 1] = 2 * P
  BY Pow2Facts
<1>4. PICK k \in Int : b * P = t + (k * n)
  BY DEF SameResidue
<1> HIDE DEF P, d
<1>5. b * (2 * P) = (t + t) + ((k + k) * n)
  <2>1. b * (2 * P) = (b * P) + (b * P)
    BY <1>3
  <2>2. (k + k) * n = (k * n) + (k * n) /\ k * n \in Int
    OBVIOUS
  <2> QED BY <1>4, <2>1, <2>2
<1>6. SameResidue(b * (2 * P), d, n)
  <2>1. CASE d = t + t
    <3>1. k + k \in Int /\ b * (2 * P) = d + ((k + k) * n)
      BY <1>5, <2>1
    <3> QED BY <3>1 DEF SameResidue
  <2>2. CASE d = (t + t) - n
    <3>1. ((k + k) + 1) * n = ((k + k) * n) + n /\ (k + k) * n \in Int
      OBVIOUS
    <3>2. (k + k) + 1 \in Int /\ b * (2 * P) = d + (((k + k) + 1) * n)
      BY <1>5, <2>2, <3>1
    <3> QED BY <3>2 DEF SameResidue
  <2> QED BY <1>2, <2>1, <2>2
<1> QED
  BY <1>2, <1>3, <1>6 DEF d, s

(* Adding t to m modulo n, when bit c of a is set.                         *)
LEMMA AddingIteration ==
  ASSUME NEW w \in Nat \ {0}, NEW n \in Nat \ {0}, n < Pow2[w], NEW a \in Nat, NEW b \in Nat, NEW c \in Nat,
         NEW t \in Nat, t <= n, NEW m \in Nat, m < n, Bit(a, c) = 1,
         SameResidue(b * Pow2[c], t, n), SameResidue((a % Pow2[c]) * b, m, n)
  PROVE  LET s == (m + t) % Pow2[w + 2]
             d == IF s >= n THEN s - n ELSE s
         IN  d \in 0 .. n - 1 /\ SameResidue((a % Pow2[c + 1]) * b, d, n)
<1> DEFINE P == Pow2[c]
           A == a % P
           s == (m + t) % Pow2[w + 2]
           d == IF s >= n THEN s - n ELSE s
<1>1. s = m + t
  BY FitsBeyond
<1> HIDE DEF s
<1>2. d \in 0 .. n - 1 /\ (d = m + t \/ d = (m + t) - n)
  BY <1>1
<1>3. P \in Nat \ {0}
  BY Pow2Facts
<1>4. a % Pow2[c + 1] = A + P /\ A \in Nat
  <2>1. a % P \in 0 .. P - 1
    BY <1>3, DivMod
  <2>2. a % Pow2[c + 1] = A + (1 * P)
    BY BitSplit
  <2> QED BY <1>3, <2>1, <2>2
<1>5. PICK k \in Int : b * P = t + (k * n)
  BY DEF SameResidue
<1>6. PICK l \in Int : A * b = m + (l * n)
  BY DEF SameResidue
<1> HIDE DEF P, A, d
<1>7. (A + P) * b = (m + t) + ((k + l) * n)
  <2>1. (A + P) * b = (A * b) + (b * P)
    BY <1>3, <1>4
  <2>2. (k + l) * n = (k * n) + (l * n) /\ k * n \in Int /\ l * n \in Int
    OBVIOUS
  <2> QED BY <1>5, <1>6, <2>1, <2>2
<1>8. SameResidue((A + P) * b, d, n)
  <2>1. CASE d = m + t
    <3>1. k + l \in Int /\ (A + P) * b = d + ((k + l) * n)
      BY <1>7, <2>1
    <3> QED BY <3>1 DEF SameResidue
  <2>2. CASE d = (m + t) - n
    <3>1. ((k + l) + 1) * n = ((k + l) * n) + n /\ (k + l) * n \in Int
      OBVIOUS
    <3>2. (k + l) + 1 \in Int /\ (A + P) * b = d + (((k + l) + 1) * n)
      BY <1>7, <2>2, <3>1
    <3> QED BY <3>2 DEF SameResidue
  <2> QED BY <1>2, <2>1, <2>2
<1> QED
  BY <1>2, <1>4, <1>8 DEF d, s

(* A bit that is not set adds nothing to the product.                      *)
LEMMA SkippingIteration ==
  ASSUME NEW a \in Nat, NEW c \in Nat, Bit(a, c) = 0
  PROVE  a % Pow2[c + 1] = a % Pow2[c]
<1>1. Pow2[c] \in Nat \ {0}
  BY Pow2Facts
<1>2. a % Pow2[c] \in 0 .. Pow2[c] - 1
  BY <1>1, DivMod
<1>3. a % Pow2[c + 1] = (a % Pow2[c]) + (0 * Pow2[c])
  BY BitSplit
<1> QED
  BY <1>1, <1>2, <1>3
=============================================================================

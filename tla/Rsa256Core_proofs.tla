-------------------------- MODULE Rsa256Core_proofs --------------------------
(***************************************************************************)
(* Rsa256Core computes a^d mod n for every operand width W, and implements *)
(* the decryption service of module Decryption.                            *)
(***************************************************************************)
EXTENDS Rsa256Core, Powers_proofs

(* The width is a positive natural number.                                 *)
LEMMA WType == W \in Nat \ {0}
  BY WAssumption DEF WAssumption

(* The powers of two around it, and what fits a register of W + 2 bits.    *)
LEMMA WidePowers ==
  /\ Pow2[W] \in Nat \ {0} /\ Pow2[W] >= 2
  /\ Pow2[W + 1] = 2 * Pow2[W] /\ Pow2[W + 2] = 4 * Pow2[W]
  BY WType, PowersBeyond

LEMMA FitsWide ==
  ASSUME NEW n \in Nat, n < Pow2[W], NEW x \in Nat, x < 4 * n
  PROVE  x < 4 * Pow2[W] /\ x \in 0 .. Pow2[W + 2] - 1 /\ x % Pow2[W + 2] = x
  BY WType, FitsBeyond
-----------------------------------------------------------------------------
(* f is the table of the powers of x modulo n up to exponent d.            *)
IsPowTable(f, x, d, n) ==
  /\ f \in [0 .. d -> Nat]
  /\ f[0] = 1 % n
  /\ \A i \in 0 .. d - 1 : f[i + 1] = (x * f[i]) % n

(* There is such a table for every exponent.                               *)
LEMMA PowTableExists ==
  ASSUME NEW x \in Nat, NEW n \in Nat \ {0}
  PROVE  \A d \in Nat : \E f : IsPowTable(f, x, d, n)
<1> DEFINE T == {d \in Nat : ~ \E f : IsPowTable(f, x, d, n)}
<1> SUFFICES ASSUME T # {} PROVE FALSE
  OBVIOUS
<1>1. PICK d \in T : \A y \in T : ~(y < d)
  <2> HIDE DEF T
  <2> QED BY NatMin DEF T
<1>0. 1 % n \in Nat
  BY DivMod
<1>2. d # 0
  <2>1. IsPowTable([i \in 0 .. 0 |-> 1 % n], x, 0, n)
    <3> DEFINE r == 1 % n
    <3>1. r \in Nat
      BY <1>0
    <3> HIDE DEF r
    <3>2. IsPowTable([i \in 0 .. 0 |-> r], x, 0, n) <=> r = 1 % n
      BY <3>1 DEF IsPowTable
    <3> QED BY <3>2 DEF r
  <2> QED BY <2>1
<1>3. d \in Nat /\ d - 1 \in Nat
  BY <1>2
<1>4. PICK g : IsPowTable(g, x, d - 1, n)
  BY <1>1, <1>3
<1>5. g \in [0 .. d - 1 -> Nat] /\ g[d - 1] \in Nat
  BY <1>3, <1>4 DEF IsPowTable
<1>6. (x * g[d - 1]) % n \in Nat
  <2>1. x * g[d - 1] \in Nat
    BY <1>5
  <2> QED BY <2>1, DivMod
<1> DEFINE z == (x * g[d - 1]) % n
           h == [i \in 0 .. d |-> IF i = d THEN z ELSE g[i]]
<1>7. z \in Nat /\ z = (x * g[d - 1]) % n
  BY <1>6
<1> HIDE DEF z
<1>8. IsPowTable(h, x, d, n)
  <2>1. h \in [0 .. d -> Nat]
    BY <1>3, <1>5, <1>7
  <2>2. h[0] = 1 % n
    BY <1>2, <1>3, <1>4 DEF IsPowTable
  <2>3. ASSUME NEW i \in 0 .. d - 1 PROVE h[i + 1] = (x * h[i]) % n
    <3>1. h[i] = g[i]
      BY <1>3
    <3>2. CASE i = d - 1
      BY <3>1, <3>2, <1>3, <1>7
    <3>3. CASE i # d - 1
      <4>1. i \in 0 .. (d - 1) - 1 /\ i + 1 # d /\ i + 1 \in 0 .. d
        BY <3>3, <1>3
      <4>2. g[i + 1] = (x * g[i]) % n
        BY <4>1, <1>4 DEF IsPowTable
      <4>3. h[i + 1] = g[i + 1]
        BY <4>1
      <4> QED BY <4>2, <4>3, <3>1
    <3> QED BY <3>2, <3>3
  <2> QED BY <2>1, <2>2, <2>3 DEF IsPowTable
<1> QED
  BY <1>8, <1>1

(* Two tables agree wherever both are defined.                             *)
LEMMA PowTablesAgree ==
  ASSUME NEW x \in Nat, NEW n \in Nat \ {0}, NEW c \in Nat, NEW d \in Nat,
         NEW f, NEW g, IsPowTable(f, x, c, n), IsPowTable(g, x, d, n),
         NEW k \in Nat, k <= c, k <= d
  PROVE  f[k] = g[k]
<1> DEFINE T == {i \in 0 .. k : f[i] # g[i]}
<1> SUFFICES ASSUME T # {} PROVE FALSE
  OBVIOUS
<1>1. PICK y \in T : \A z \in T : ~(z < y)
  <2>1. T \subseteq Nat
    OBVIOUS
  <2> HIDE DEF T
  <2> QED BY <2>1, NatMin
<1>2. y # 0
  BY DEF IsPowTable
<1>3. y - 1 \in 0 .. k /\ y - 1 \in 0 .. c - 1 /\ y - 1 \in 0 .. d - 1
  BY <1>2
<1>4. f[y - 1] = g[y - 1]
  BY <1>1, <1>3
<1>5. f[(y - 1) + 1] = (x * f[y - 1]) % n /\ g[(y - 1) + 1] = (x * g[y - 1]) % n
  BY <1>3 DEF IsPowTable
<1>6. (y - 1) + 1 = y
  OBVIOUS
<1> QED
  BY <1>4, <1>5, <1>6

(* PowMod reads off such a table.                                          *)
LEMMA PowModTable ==
  ASSUME NEW x \in Nat, NEW d \in Nat, NEW n \in Nat \ {0}
  PROVE  \E f : IsPowTable(f, x, d, n) /\ PowMod(x, d, n) = f[d]
<1> DEFINE p == CHOOSE p : p = [i \in 0 .. d |-> IF i = 0 THEN 1 % n ELSE (x * p[i - 1]) % n]
<1>1. PICK f : IsPowTable(f, x, d, n)
  BY PowTableExists
<1>2. f = [i \in 0 .. d |-> IF i = 0 THEN 1 % n ELSE (x * f[i - 1]) % n]
  <2>1. ASSUME NEW i \in 0 .. d PROVE f[i] = IF i = 0 THEN 1 % n ELSE (x * f[i - 1]) % n
    <3>1. CASE i = 0
      BY <3>1, <1>1 DEF IsPowTable
    <3>2. CASE i # 0
      <4>1. i - 1 \in 0 .. d - 1 /\ (i - 1) + 1 = i
        BY <3>2
      <4>2. f[(i - 1) + 1] = (x * f[i - 1]) % n
        BY <4>1, <1>1 DEF IsPowTable
      <4> QED BY <3>2, <4>1, <4>2
    <3> QED BY <3>1, <3>2
  <2>2. f = [i \in 0 .. d |-> f[i]]
    BY <1>1 DEF IsPowTable
  <2> QED BY <2>1, <2>2, Zenon
<1>3. p = [i \in 0 .. d |-> IF i = 0 THEN 1 % n ELSE (x * p[i - 1]) % n]
  BY <1>2, Zenon
<1>4. IsPowTable(p, x, d, n)
  <2>0. 1 % n \in Nat
    BY DivMod
  <2>1. p[0] = 1 % n /\ p[0] \in Nat
    <3>1. 0 \in 0 .. d
      OBVIOUS
    <3> HIDE DEF p
    <3>2. p[0] = 1 % n
      BY <1>3, <3>1, Zenon
    <3> QED BY <3>2, <2>0
  <2>2. ASSUME NEW i \in 0 .. d - 1 PROVE p[i + 1] = (x * p[i]) % n
    <3>1. i + 1 \in 0 .. d /\ i + 1 # 0 /\ (i + 1) - 1 = i
      OBVIOUS
    <3> HIDE DEF p
    <3> QED BY <1>3, <3>1
  <2>3. ASSUME NEW i \in 0 .. d PROVE p[i] \in Nat
    <3> DEFINE T == {j \in 0 .. d : p[j] \notin Nat}
    <3> SUFFICES ASSUME T # {} PROVE FALSE
      OBVIOUS
    <3> HIDE DEF p
    <3>1. PICK j \in T : \A k \in T : ~(k < j)
      <4>1. T \subseteq Nat
        OBVIOUS
      <4> HIDE DEF T
      <4> QED BY <4>1, NatMin
    <3>2. j # 0
      BY <2>1
    <3>3. j - 1 \in 0 .. d - 1 /\ (j - 1) + 1 = j /\ j - 1 \in 0 .. d
      BY <3>2
    <3>4. p[j - 1] \in Nat
      BY <3>1, <3>3
    <3>5. p[j] = (x * p[j - 1]) % n
      BY <2>2, <3>3
    <3>6. x * p[j - 1] \in Nat
      BY <3>4
    <3>7. (x * p[j - 1]) % n \in Nat
      BY <3>6, DivMod
    <3> QED BY <3>1, <3>5, <3>7
  <2> HIDE DEF p
  <2>4. p \in [0 .. d -> Nat]
    BY <1>3, <2>3, Zenon
  <2> QED BY <2>1, <2>2, <2>4 DEF IsPowTable
<1>5. PowMod(x, d, n) = p[d]
  BY DEF PowMod
<1> QED
  BY <1>4, <1>5

(* The two equations that define exponentiation modulo n.                  *)
LEMMA PowModStep ==
  ASSUME NEW x \in Nat, NEW d \in Nat, NEW n \in Nat \ {0}
  PROVE  /\ PowMod(x, d, n) \in 0 .. n - 1
         /\ PowMod(x, 0, n) = 1 % n
         /\ PowMod(x, d + 1, n) = (x * PowMod(x, d, n)) % n
<1>1. PICK f : IsPowTable(f, x, d, n) /\ PowMod(x, d, n) = f[d]
  BY PowModTable
<1>2. d + 1 \in Nat /\ d \in 0 .. (d + 1) - 1
  OBVIOUS
<1>3. PICK g : IsPowTable(g, x, d + 1, n) /\ PowMod(x, d + 1, n) = g[d + 1]
  BY <1>2, PowModTable
<1>4. PICK h : IsPowTable(h, x, 0, n) /\ PowMod(x, 0, n) = h[0]
  BY PowModTable
<1>5. f[d] = g[d]
  <2>1. d <= d /\ d <= d + 1
    OBVIOUS
  <2> QED BY <1>1, <1>2, <1>3, <2>1, PowTablesAgree
<1>6. g[d + 1] = (x * g[d]) % n
  BY <1>2, <1>3 DEF IsPowTable
<1>7. f[d] \in 0 .. n - 1
  <2>1. CASE d = 0
    <3>1. f[d] = 1 % n
      BY <2>1, <1>1 DEF IsPowTable
    <3>2. 1 % n \in 0 .. n - 1
      BY DivMod
    <3> QED BY <3>1, <3>2
  <2>2. CASE d # 0
    <3>1. d - 1 \in 0 .. d - 1 /\ (d - 1) + 1 = d /\ d - 1 \in 0 .. d
      BY <2>2
    <3>2. f[d] = (x * f[d - 1]) % n /\ f[d - 1] \in Nat
      BY <3>1, <1>1 DEF IsPowTable
    <3>3. x * f[d - 1] \in Nat
      BY <3>2
    <3>4. (x * f[d - 1]) % n \in 0 .. n - 1
      BY <3>3, DivMod
    <3> QED BY <3>2, <3>4
  <2> QED BY <2>1, <2>2
<1>8. h[0] = 1 % n
  BY <1>4 DEF IsPowTable
<1> QED
  BY <1>1, <1>3, <1>4, <1>5, <1>6, <1>7, <1>8

(* a^(i + j) is a^i times a^j, modulo n.                                   *)
LEMMA PowModSum ==
  ASSUME NEW x \in Nat, NEW i \in Nat, NEW j \in Nat, NEW n \in Nat \ {0}
  PROVE  SameResidue(PowMod(x, i + j, n), PowMod(x, i, n) * PowMod(x, j, n), n)
<1> DEFINE P(k) == PowMod(x, k, n)
           Good(k) == SameResidue(P(i + k), P(i) * P(k), n)
           T == {k \in Nat : ~Good(k)}
<1> SUFFICES ASSUME T # {} PROVE FALSE
  OBVIOUS
<1>0. \A k \in Nat : P(k) \in Nat /\ P(k + 1) = (x * P(k)) % n /\ SameResidue(P(k + 1), x * P(k), n)
  <2> SUFFICES ASSUME NEW k \in Nat
               PROVE P(k) \in Nat /\ P(k + 1) = (x * P(k)) % n /\ SameResidue(P(k + 1), x * P(k), n)
    OBVIOUS
  <2>1. P(k) \in 0 .. n - 1 /\ P(k + 1) = (x * P(k)) % n
    BY PowModStep
  <2> HIDE DEF P
  <2>2. x * P(k) \in Nat
    BY <2>1
  <2> QED BY <2>1, <2>2, ResidueOfMod
<1>1. PICK k \in T : \A y \in T : ~(y < k)
  <2>1. T \subseteq Nat
    OBVIOUS
  <2> HIDE DEF T
  <2> QED BY <2>1, NatMin
<1>2. k # 0
  <2> SUFFICES ASSUME k = 0 PROVE FALSE
    OBVIOUS
  <2>1. P(0) = 1 % n
    BY PowModStep
  <2>2. P(i) \in Nat
    BY <1>0
  <2> HIDE DEF P
  <2> DEFINE r == 1 % n
  <2>3. r \in Nat /\ SameResidue(r, 1, n)
    BY ResidueOfMod
  <2> HIDE DEF r
  <2>4. SameResidue(P(i), P(i), n) /\ P(i) * 1 = P(i) /\ P(i) * r \in Int
    BY <2>2, <2>3, ResidueEquivalence
  <2>5. SameResidue(P(i) * r, P(i) * 1, n)
    BY <2>2, <2>3, <2>4, ResidueMul
  <2>6. SameResidue(P(i), P(i) * r, n)
    BY <2>2, <2>4, <2>5, ResidueEquivalence
  <2> QED
    <3>1. i + 0 = i /\ P(0) = r
      BY <2>1 DEF r
    <3> QED BY <3>1, <2>6
<1>3. k - 1 \in Nat /\ k - 1 < k /\ (k - 1) + 1 = k /\ i + (k - 1) \in Nat
      /\ (i + (k - 1)) + 1 = i + k
  BY <1>2
<1>4. SameResidue(P(i + (k - 1)), P(i) * P(k - 1), n)
  BY <1>1, <1>3
<1>5. P(i) \in Nat /\ P(k) \in Nat /\ P(k - 1) \in Nat /\ P(i + (k - 1)) \in Nat /\ P(i + k) \in Nat
  <2>1. i + k \in Nat
    OBVIOUS
  <2> QED BY <2>1, <1>0, <1>3
<1>6. SameResidue(P(i + k), x * P(i + (k - 1)), n) /\ SameResidue(P(k), x * P(k - 1), n)
  BY <1>0, <1>3
<1> HIDE DEF P
<1>7. SameResidue(x, x, n) /\ SameResidue(P(i), P(i), n)
  BY <1>5, ResidueEquivalence
<1>8. SameResidue(x * P(i + (k - 1)), x * (P(i) * P(k - 1)), n)
  <2>1. P(i) * P(k - 1) \in Int
    BY <1>5
  <2> QED BY <1>4, <1>5, <1>7, <2>1, ResidueMul
<1>9. SameResidue(P(i) * P(k), P(i) * (x * P(k - 1)), n)
  <2>1. x * P(k - 1) \in Int
    BY <1>5
  <2> QED BY <1>5, <1>6, <1>7, <2>1, ResidueMul
<1>10. x * (P(i) * P(k - 1)) = P(i) * (x * P(k - 1))
  BY <1>5
<1> DEFINE u == P(i + k)
           v == x * P(i + (k - 1))
           w == P(i) * (x * P(k - 1))
           z == P(i) * P(k)
<1>11. u \in Int /\ v \in Int /\ w \in Int /\ z \in Int
  BY <1>5
<1>12. SameResidue(u, v, n) /\ SameResidue(v, w, n) /\ SameResidue(z, w, n)
  BY <1>6, <1>8, <1>9, <1>10
<1>13. SameResidue(u, z, n)
  <2> HIDE DEF u, v, w, z
  <2>1. SameResidue(u, w, n)
    BY <1>11, <1>12, ResidueEquivalence
  <2>2. SameResidue(w, z, n)
    BY <1>11, <1>12, ResidueEquivalence
  <2> QED BY <1>11, <2>1, <2>2, ResidueEquivalence
<1> QED
  BY <1>1, <1>13
-----------------------------------------------------------------------------
(* A clock of a Montgomery multiplier takes its registers from u to v, with *)
(* start, n, a and b on its ports.  MontClocks relates this to the two     *)
(* instances of Montgomery_Algorithm.                                      *)
MontClock(u, v, start, n, a, b) ==
  \/ /\ u.state = "IDLE" /\ ~start
     /\ v = [u EXCEPT !.o_finished = FALSE]
  \/ /\ u.state = "IDLE" /\ start
     /\ v = [m |-> 0, o_finished |-> FALSE, state |-> "RUN1", counter |-> 0]
  \/ \E t \in {0, 1}, s \in Nat :
       /\ u.state = "RUN1" /\ u.counter < W
       /\ s % 2 = 0 /\ s = u.m + (Bit(a, u.counter) * b) + (t * n)
       /\ v = [u EXCEPT !.counter = u.counter + 1, !.m = (s % Pow2[W + 2]) \div 2]
  \/ /\ u.state = "RUN1" /\ u.counter >= W
     /\ v = [u EXCEPT !.state = "RUN2"]
  \/ /\ u.state = "RUN2"
     /\ v = [u EXCEPT !.m = IF u.m >= n THEN u.m - n ELSE u.m,
                      !.state = "IDLE", !.o_finished = TRUE]

(* What holds of the registers u of a Montgomery multiplier while n, a and *)
(* b are on its ports, from the start to the answer.                       *)
MontOK(u, n, a, b) ==
  /\ u \in [m : 0 .. Pow2[W + 2] - 1, o_finished : BOOLEAN,
            state : {"IDLE", "RUN1", "RUN2"}, counter : 0 .. W]
  /\ u.state # "IDLE" => u.m < 2 * n
  /\ u.state = "RUN1" =>
       SameResidue(u.m * Pow2[u.counter], (a % Pow2[u.counter]) * b, n)
  /\ u.state = "RUN2" => u.counter = W /\ SameResidue(u.m * Pow2[W], a * b, n)
  /\ u.o_finished => /\ u.state = "IDLE"
                     /\ u.m < n /\ (u.m * Pow2[W]) % n = (a * b) % n

(* The same for ModuloProduct.                                             *)
ProdClock(u, v, start, n, a, b) ==
  \/ /\ u.state = "IDLE" /\ ~start
     /\ v = [u EXCEPT !.o_finished = FALSE]
  \/ /\ u.state = "IDLE" /\ start
     /\ v = [m |-> 0, t |-> b, o_finished |-> FALSE, state |-> "RUN", counter |-> 0]
  \/ \E x \in Int, y \in Int :
       /\ u.state = "RUN" /\ u.counter <= W
       /\ x = (LET s == (u.t + u.t) % Pow2[W + 2] IN IF s > n THEN s - n ELSE s)
       /\ y = IF Bit(a, u.counter) = 1
              THEN LET s == (u.m + u.t) % Pow2[W + 2] IN IF s >= n THEN s - n ELSE s
              ELSE u.m
       /\ v = [u EXCEPT !.m = y, !.t = x, !.counter = u.counter + 1]
  \/ /\ u.state = "RUN" /\ u.counter > W
     /\ v = [u EXCEPT !.state = "IDLE", !.o_finished = TRUE]

ProdOK(u, n, a, b) ==
  /\ u \in [m : 0 .. Pow2[W + 2] - 1, t : 0 .. Pow2[W + 2] - 1, o_finished : BOOLEAN,
            state : {"IDLE", "RUN"}, counter : 0 .. W + 1]
  /\ u.state = "RUN" =>
       /\ u.m < n /\ u.t <= n
       /\ SameResidue(b * Pow2[u.counter], u.t, n)
       /\ SameResidue((a % Pow2[u.counter]) * b, u.m, n)
  /\ u.o_finished => u.state = "IDLE" /\ u.m = (a * b) % n

(* A unit at rest.                                                         *)
Quiet(u) == u.state = "IDLE" /\ u.o_finished = FALSE

(* A unit at rest is ready for any operands.                               *)
LEMMA MontQuiet ==
  ASSUME NEW u, NEW n, NEW a, NEW b, NEW k, NEW c, NEW d,
         MontOK(u, n, a, b), Quiet(u)
  PROVE  MontOK(u, k, c, d)
  BY DEF MontOK, Quiet

LEMMA ProdQuiet ==
  ASSUME NEW u, NEW n, NEW a, NEW b, NEW k, NEW c, NEW d,
         ProdOK(u, n, a, b), Quiet(u)
  PROVE  ProdOK(u, k, c, d)
  BY DEF ProdOK, Quiet

(* A clock of a Montgomery multiplier keeps MontOK.                        *)
LEMMA MontKeeps ==
  ASSUME NEW n \in Nat, n % 2 = 1, n < Pow2[W], NEW a \in Word,
         NEW b \in Nat, b < n, NEW start \in BOOLEAN, NEW u, NEW v,
         MontOK(u, n, a, b), MontClock(u, v, start, n, a, b)
  PROVE  MontOK(v, n, a, b)
<1> DEFINE MontType == [m : 0 .. Pow2[W + 2] - 1, o_finished : BOOLEAN,
                        state : {"IDLE", "RUN1", "RUN2"}, counter : 0 .. W]
<1>1. /\ u \in MontType /\ u.counter \in 0 .. W /\ u.m \in 0 .. Pow2[W + 2] - 1
      /\ W \in Nat \ {0} /\ Pow2[W] \in Nat \ {0} /\ Pow2[W + 2] = 4 * Pow2[W]
      /\ a \in Nat /\ a < Pow2[W] /\ n # 0
  <2>1. W \in Nat \ {0} /\ Pow2[W] \in Nat \ {0} /\ Pow2[W + 2] = 4 * Pow2[W]
    BY WType, WidePowers
  <2>2. a \in Nat /\ a < Pow2[W] /\ n # 0
    BY <2>1 DEF Word
  <2>3. u \in MontType
    BY DEF MontOK
  <2>4. u.counter \in 0 .. W /\ u.m \in 0 .. Pow2[W + 2] - 1
    BY <2>3
  <2> QED BY <2>1, <2>2, <2>3, <2>4
<1>2. u.m \in Nat /\ 0 \in 0 .. Pow2[W + 2] - 1
  BY <1>1
<1>3. CASE u.state = "IDLE" /\ v = [u EXCEPT !.o_finished = FALSE]
  <2>1. v \in MontType /\ Quiet(v)
    BY <1>1, <1>3 DEF Quiet
  <2> QED BY <2>1 DEF MontOK, Quiet
<1>4. CASE v = [m |-> 0, o_finished |-> FALSE, state |-> "RUN1", counter |-> 0]
  <2>1. v \in MontType
    BY <1>1, <1>2, <1>4
  <2>2. SameResidue(0 * Pow2[0], (a % Pow2[0]) * b, n)
    <3>1. Pow2[0] = 1 /\ a % 1 = 0
      BY <1>1, Pow2Facts
    <3>2. 0 * Pow2[0] = 0 /\ (a % Pow2[0]) * b = 0
      BY <3>1
    <3>3. SameResidue(0, 0, n)
      BY ResidueEquivalence
    <3> QED BY <3>2, <3>3
  <2> QED BY <1>1, <1>4, <2>1, <2>2 DEF MontOK
<1>5. ASSUME NEW t \in {0, 1}, NEW s \in Nat,
             u.state = "RUN1", u.counter < W, s % 2 = 0,
             s = u.m + (Bit(a, u.counter) * b) + (t * n),
             v = [u EXCEPT !.counter = u.counter + 1, !.m = (s % Pow2[W + 2]) \div 2]
      PROVE  MontOK(v, n, a, b)
  <2> DEFINE c == u.counter
             h == (s % Pow2[W + 2]) \div 2
  <2>1. c \in Nat /\ c + 1 \in 0 .. W /\ u.m < 2 * n
        /\ SameResidue(u.m * Pow2[c], (a % Pow2[c]) * b, n)
    BY <1>1, <1>5 DEF MontOK
  <2>2. h \in Nat /\ h < 2 * n /\ SameResidue(h * Pow2[c + 1], (a % Pow2[c + 1]) * b, n)
    BY <1>1, <1>2, <1>5, <2>1, MontgomeryIteration
  <2> HIDE DEF h
  <2>3. h \in 0 .. Pow2[W + 2] - 1
    <3>1. h < 4 * n
      BY <1>1, <2>2
    <3> QED BY <1>1, <2>2, <3>1, FitsWide
  <2>4. v = [u EXCEPT !.counter = c + 1, !.m = h] /\ u.o_finished = FALSE
    BY <1>1, <1>5 DEF h, MontOK
  <2>5. v \in MontType /\ v.state = "RUN1" /\ v.o_finished = FALSE
        /\ v.m = h /\ v.counter = c + 1
    BY <1>1, <1>5, <2>1, <2>3, <2>4
  <2> QED BY <2>2, <2>5 DEF MontOK
<1>6. CASE u.state = "RUN1" /\ u.counter >= W /\ v = [u EXCEPT !.state = "RUN2"]
  <2>1. u.counter = W /\ u.o_finished = FALSE
    BY <1>1, <1>6 DEF MontOK
  <2>2. a % Pow2[W] = a
    BY <1>1, ModSmall
  <2>3. v \in MontType /\ v.state = "RUN2" /\ v.o_finished = FALSE
        /\ v.m = u.m /\ v.counter = W
    BY <1>1, <1>6, <2>1
  <2> QED BY <1>6, <2>1, <2>2, <2>3 DEF MontOK
<1>7. CASE /\ u.state = "RUN2"
           /\ v = [u EXCEPT !.m = IF u.m >= n THEN u.m - n ELSE u.m,
                            !.state = "IDLE", !.o_finished = TRUE]
  <2> DEFINE Q == Pow2[W]
             r == IF u.m >= n THEN u.m - n ELSE u.m
             y == a * b
  <2>1. u.m < 2 * n /\ SameResidue(u.m * Q, y, n) /\ y \in Nat /\ Q \in Nat
    BY <1>1, <1>7 DEF MontOK
  <2>2. r \in 0 .. n - 1 /\ (r * Q) % n = y % n
    <3> DEFINE m == u.m
               z == IF m >= n THEN m - n ELSE m
    <3>1. /\ m \in Nat /\ m < 2 * n /\ SameResidue(m * Q, y, n)
          /\ y \in Nat /\ Q \in Nat /\ n \in Nat \ {0}
      BY <1>1, <1>2, <2>1
    <3> HIDE DEF Q, y, m
    <3>2. z \in 0 .. n - 1 /\ (z * Q) % n = y % n
      BY <3>1, MontgomeryReduction
    <3> QED BY <3>2 DEF m
  <2> HIDE DEF r
  <2>3. r \in 0 .. Pow2[W + 2] - 1
    BY <1>1, <2>2
  <2>4. v = [u EXCEPT !.m = r, !.state = "IDLE", !.o_finished = TRUE]
    BY <1>7 DEF r
  <2>5. v \in MontType /\ v.state = "IDLE" /\ v.m = r
    BY <1>1, <2>3, <2>4
  <2>6. r < n
    BY <2>2
  <2> QED BY <2>2, <2>5, <2>6 DEF MontOK
<1> QED
  BY <1>3, <1>4, <1>5, <1>6, <1>7 DEF MontClock

(* A clock of ModuloProduct keeps ProdOK.                                  *)
LEMMA ProdKeeps ==
  ASSUME NEW n \in Nat \ {0}, n < Pow2[W], NEW a \in Nat, a < Pow2[W + 1],
         NEW b \in Nat, b < n, NEW start \in BOOLEAN, NEW u, NEW v,
         ProdOK(u, n, a, b), ProdClock(u, v, start, n, a, b)
  PROVE  ProdOK(v, n, a, b)
<1> DEFINE ProdType == [m : 0 .. Pow2[W + 2] - 1, t : 0 .. Pow2[W + 2] - 1,
                        o_finished : BOOLEAN, state : {"IDLE", "RUN"},
                        counter : 0 .. W + 1]
<1>1. /\ W \in Nat \ {0} /\ Pow2[W] \in Nat \ {0} /\ Pow2[W + 1] \in Nat \ {0}
      /\ Pow2[W + 2] = 4 * Pow2[W]
  BY WType, WidePowers
<1>2. /\ u \in ProdType /\ u.counter \in 0 .. W + 1 /\ u.m \in Nat /\ u.t \in Nat
  <2>1. u \in ProdType
    BY DEF ProdOK
  <2>2. u.counter \in 0 .. W + 1 /\ u.m \in 0 .. Pow2[W + 2] - 1
        /\ u.t \in 0 .. Pow2[W + 2] - 1
    BY <2>1
  <2> QED BY <1>1, <2>1, <2>2
<1>3. \A x \in 0 .. n : x \in 0 .. Pow2[W + 2] - 1
  BY <1>1
<1>4. CASE u.state = "IDLE" /\ v = [u EXCEPT !.o_finished = FALSE]
  <2>1. v \in ProdType /\ Quiet(v)
    BY <1>2, <1>4 DEF Quiet
  <2> QED BY <2>1 DEF ProdOK, Quiet
<1>5. CASE v = [m |-> 0, t |-> b, o_finished |-> FALSE, state |-> "RUN", counter |-> 0]
  <2>1. v \in ProdType
    <3>1. 0 \in 0 .. Pow2[W + 2] - 1 /\ b \in 0 .. Pow2[W + 2] - 1
      BY <1>3
    <3> QED BY <1>1, <1>5, <3>1
  <2>2. SameResidue(b * Pow2[0], b, n) /\ SameResidue((a % Pow2[0]) * b, 0, n)
    <3>1. Pow2[0] = 1 /\ a % 1 = 0
      BY Pow2Facts
    <3>2. b * Pow2[0] = b /\ (a % Pow2[0]) * b = 0
      BY <3>1
    <3>3. SameResidue(b, b, n) /\ SameResidue(0, 0, n)
      BY ResidueEquivalence
    <3> QED BY <3>2, <3>3
  <2> QED BY <1>5, <2>1, <2>2 DEF ProdOK
<1>6. ASSUME NEW x \in Int, NEW y \in Int, u.state = "RUN", u.counter <= W,
             x = (LET s == (u.t + u.t) % Pow2[W + 2] IN IF s > n THEN s - n ELSE s),
             y = IF Bit(a, u.counter) = 1
                 THEN LET s == (u.m + u.t) % Pow2[W + 2] IN IF s >= n THEN s - n ELSE s
                 ELSE u.m,
             v = [u EXCEPT !.m = y, !.t = x, !.counter = u.counter + 1]
      PROVE  ProdOK(v, n, a, b)
  <2> DEFINE c == u.counter
  <2>1. /\ c \in Nat /\ c + 1 \in 0 .. W + 1 /\ u.m < n /\ u.t <= n
        /\ SameResidue(b * Pow2[c], u.t, n)
        /\ SameResidue((a % Pow2[c]) * b, u.m, n)
        /\ u.o_finished = FALSE
    BY <1>1, <1>2, <1>6 DEF ProdOK
  <2>2. x \in 0 .. n /\ SameResidue(b * Pow2[c + 1], x, n)
    BY <1>1, <1>2, <1>6, <2>1, DoublingIteration
  <2>3. y \in 0 .. n - 1 /\ SameResidue((a % Pow2[c + 1]) * b, y, n)
    <3>1. CASE Bit(a, c) = 1
      BY <1>1, <1>2, <1>6, <2>1, <3>1, AddingIteration
    <3>2. CASE Bit(a, c) # 1
      <4>1. Bit(a, c) = 0
        BY <2>1, <3>2, BitSplit
      <4>2. a % Pow2[c + 1] = a % Pow2[c]
        BY <2>1, <4>1, SkippingIteration
      <4> QED BY <1>2, <1>6, <2>1, <3>2, <4>2
    <3> QED BY <3>1, <3>2
  <2>4. x \in 0 .. Pow2[W + 2] - 1 /\ y \in 0 .. Pow2[W + 2] - 1
        /\ x <= n /\ y < n
    BY <1>3, <2>2, <2>3
  <2>5. v \in ProdType /\ v.m = y /\ v.t = x /\ v.counter = c + 1
        /\ v.o_finished = FALSE
    BY <1>2, <1>6, <2>1, <2>4
  <2> QED BY <2>2, <2>3, <2>4, <2>5 DEF ProdOK
<1>7. CASE /\ u.state = "RUN" /\ u.counter > W
           /\ v = [u EXCEPT !.state = "IDLE", !.o_finished = TRUE]
  <2>1. u.counter = W + 1 /\ u.m < n /\ SameResidue((a % Pow2[u.counter]) * b, u.m, n)
    BY <1>1, <1>2, <1>7 DEF ProdOK
  <2>2. a % Pow2[W + 1] = a
    BY <1>1, ModSmall
  <2>3. SameResidue(a * b, u.m, n) /\ a * b \in Nat
    BY <2>1, <2>2
  <2>4. u.m % n = u.m
    BY <1>2, <2>1, ModSmall
  <2>5. u.m = (a * b) % n
    <3> DEFINE z == a * b
    <3>1. z \in Nat /\ SameResidue(z, u.m, n)
      BY <2>3
    <3> HIDE DEF z
    <3> QED BY <1>2, <2>4, <3>1, ResidueMod DEF z
  <2>6. v \in ProdType /\ v.state = "IDLE" /\ v.m = u.m
    BY <1>2, <1>7
  <2> QED BY <2>5, <2>6 DEF ProdOK
<1> QED
  BY <1>4, <1>5, <1>6, <1>7 DEF ProdClock
-----------------------------------------------------------------------------
(* What t and m hold before exponent bit c: a^(2^c) in Montgomery form,    *)
(* and a to the exponent bits below c.                                     *)
Square(a, n, c) == (PowMod(a, Pow2[c], n) * Pow2[W]) % n
Partial(a, d, n, c) == PowMod(a, d % Pow2[c], n)

(* Both are reduced.                                                       *)
LEMMA Reduced ==
  ASSUME NEW n \in Nat \ {0}, NEW a \in Nat, NEW d \in Nat, NEW c \in Nat
  PROVE  Square(a, n, c) \in 0 .. n - 1 /\ Partial(a, d, n, c) \in 0 .. n - 1
<1>1. Pow2[c] \in Nat \ {0} /\ Pow2[W] \in Nat \ {0}
  BY Pow2Facts, WidePowers
<1>2. d % Pow2[c] \in Nat
  BY <1>1, DivMod
<1>3. PowMod(a, Pow2[c], n) \in 0 .. n - 1 /\ Partial(a, d, n, c) \in 0 .. n - 1
  BY <1>1, <1>2, PowModStep DEF Partial
<1>4. PowMod(a, Pow2[c], n) * Pow2[W] \in Nat
  BY <1>1, <1>3
<1> QED
  BY <1>3, <1>4, DivMod DEF Square

(* If x R is y s, s is p R and z is y p modulo n, then x is z modulo n, for *)
(* R a power of two and an odd n.                                          *)
LEMMA MontgomeryCancel ==
  ASSUME NEW n \in Nat, n % 2 = 1, NEW x \in Int, NEW y \in Int, NEW s \in Int,
         NEW p \in Int, NEW z \in Int,
         SameResidue(x * Pow2[W], y * s, n), SameResidue(s, p * Pow2[W], n),
         SameResidue(z, y * p, n)
  PROVE  SameResidue(x, z, n)
<1> DEFINE R == Pow2[W]
<1>1. R \in Nat /\ W \in Nat
  BY WidePowers, WType
<1>2. PICK k \in Int : x * R = (y * s) + (k * n)
  BY DEF SameResidue
<1>3. PICK l \in Int : s = (p * R) + (l * n)
  BY DEF SameResidue
<1>4. PICK m \in Int : z = (y * p) + (m * n)
  BY DEF SameResidue
<1> HIDE DEF R
<1>5. y * s = ((y * p) * R) + ((y * l) * n)
  BY <1>1, <1>3
<1>6. z * R = ((y * p) * R) + ((m * R) * n)
  BY <1>1, <1>4
<1>7. x * R = (z * R) + ((((y * l) + k) - (m * R)) * n)
  <2> DEFINE u == (y * p) * R
             v == y * l
             e == m * R
  <2>1. u \in Int /\ v \in Int /\ e \in Int
    BY <1>1
  <2>2. y * s = u + (v * n) /\ z * R = u + (e * n)
    BY <1>5, <1>6
  <2> HIDE DEF u, v, e
  <2>3. ((v + k) - e) * n = ((v * n) + (k * n)) - (e * n)
    BY <2>1
  <2>4. x * R = (z * R) + (((v + k) - e) * n)
    <3> DEFINE vn == v * n
               kn == k * n
               en == e * n
               xr == x * R
               zr == z * R
    <3>1. /\ vn \in Int /\ kn \in Int /\ en \in Int /\ xr \in Int /\ zr \in Int
          /\ xr = (u + vn) + kn /\ zr = u + en
      BY <1>1, <1>2, <2>1, <2>2
    <3> HIDE DEF vn, kn, en, xr, zr
    <3>2. xr = zr + ((vn + kn) - en)
      BY <2>1, <3>1
    <3> QED BY <2>3, <3>2 DEF vn, kn, en, xr, zr
  <2> QED BY <2>4 DEF v, e
<1>8. ((y * l) + k) - (m * R) \in Int
  BY <1>1
<1>9. SameResidue(x * R, z * R, n)
  BY <1>7, <1>8 DEF SameResidue
<1> QED
  BY <1>1, <1>9, ResidueCancel DEF R

(* If s is p R and q is p p modulo n, then q R is s p modulo n.            *)
LEMMA SquareLift ==
  ASSUME NEW n \in Nat, NEW R \in Int, NEW s \in Int, NEW p \in Int, NEW q \in Int,
         SameResidue(s, p * R, n), SameResidue(q, p * p, n)
  PROVE  SameResidue(q * R, s * p, n)
<1>1. PICK l \in Int : s = (p * R) + (l * n)
  BY DEF SameResidue
<1>2. PICK m \in Int : q = (p * p) + (m * n)
  BY DEF SameResidue
<1>3. q * R = ((p * p) * R) + ((m * R) * n)
  BY <1>2
<1>4. s * p = ((p * p) * R) + ((l * p) * n)
  BY <1>1
<1>5. q * R = (s * p) + (((m * R) - (l * p)) * n)
  <2> DEFINE u == (p * p) * R
             e == m * R
             f == l * p
  <2>1. u \in Int /\ e \in Int /\ f \in Int /\ q * R = u + (e * n) /\ s * p = u + (f * n)
    BY <1>3, <1>4
  <2> HIDE DEF u, e, f
  <2>2. (e - f) * n = (e * n) - (f * n) /\ e * n \in Int /\ f * n \in Int
    BY <2>1
  <2>3. q * R = (s * p) + ((e - f) * n)
    BY <2>1, <2>2
  <2> QED BY <2>3 DEF e, f
<1>6. (m * R) - (l * p) \in Int
  OBVIOUS
<1> QED
  BY <1>5, <1>6 DEF SameResidue

(* A square in Montgomery form stands for its power.                       *)
LEMMA SquareResidue ==
  ASSUME NEW n \in Nat \ {0}, NEW a \in Nat, NEW c \in Nat
  PROVE  /\ PowMod(a, Pow2[c], n) \in 0 .. n - 1
         /\ SameResidue(Square(a, n, c), PowMod(a, Pow2[c], n) * Pow2[W], n)
<1> DEFINE P == PowMod(a, Pow2[c], n)
           R == Pow2[W]
<1>1. Pow2[c] \in Nat /\ R \in Nat
  BY Pow2Facts, WidePowers
<1>2. P \in 0 .. n - 1
  BY <1>1, PowModStep
<1> HIDE DEF P, R
<1>3. P * R \in Nat
  BY <1>1, <1>2
<1>4. SameResidue((P * R) % n, P * R, n)
  BY <1>3, ResidueOfMod
<1> QED
  BY <1>2, <1>4 DEF P, R, Square

(* Reduced numbers with the same residue are equal.                        *)
LEMMA ResidueUnique ==
  ASSUME NEW n \in Nat \ {0}, NEW x \in 0 .. n - 1, NEW y \in Nat, SameResidue(x, y, n)
  PROVE  x = y % n
  BY ResidueMod, ModSmall

(* A Montgomery product of t with itself is the next square.               *)
LEMMA Squaring ==
  ASSUME NEW n \in Nat, n % 2 = 1, NEW a \in Nat, NEW c \in Nat, NEW x \in 0 .. n - 1,
         (x * Pow2[W]) % n = (Square(a, n, c) * Square(a, n, c)) % n
  PROVE  x = Square(a, n, c + 1)
<1> DEFINE R == Pow2[W]
           S == Square(a, n, c)
           P == PowMod(a, Pow2[c], n)
           Q == PowMod(a, Pow2[c + 1], n)
<1>1. n \in Nat \ {0} /\ R \in Nat /\ c + 1 \in Nat
      /\ Pow2[c] \in Nat /\ Pow2[c + 1] = Pow2[c] + Pow2[c]
  BY Pow2Facts, WidePowers
<1>2. P \in 0 .. n - 1 /\ S \in 0 .. n - 1 /\ SameResidue(S, P * R, n)
  BY <1>1, SquareResidue, Reduced
<1>3. Q \in 0 .. n - 1
  BY <1>1, SquareResidue
<1>4. SameResidue(Q, P * P, n)
  <2>1. SameResidue(PowMod(a, Pow2[c] + Pow2[c], n), P * P, n)
    BY <1>1, PowModSum
  <2> QED BY <1>1, <2>1
<1>5. Square(a, n, c + 1) = (Q * R) % n
  BY DEF Square
<1>6. (x * R) % n = (S * S) % n
  OBVIOUS
<1> HIDE DEF S, P, Q
<1>7. P \in Int /\ S \in Int /\ Q \in Int /\ x \in Int /\ R \in Int
  BY <1>1, <1>2, <1>3
<1>8. Q * R \in Nat /\ x * R \in Nat /\ S * S \in Nat /\ Q * R \in Int
  <2> HIDE DEF R
  <2> QED BY <1>1, <1>2, <1>3
<1>9. SameResidue(x * R, S * S, n)
  BY <1>1, <1>6, <1>8, ResidueMod
<1>10. SameResidue(Q * R, S * P, n)
  BY <1>2, <1>4, <1>7, SquareLift
<1>11. SameResidue(x, Q * R, n)
  BY <1>2, <1>7, <1>8, <1>9, <1>10, MontgomeryCancel
<1> QED
  BY <1>1, <1>5, <1>8, <1>11, ResidueUnique

(* A Montgomery product of m with t takes in an exponent bit that is set.  *)
LEMMA Multiplying ==
  ASSUME NEW n \in Nat, n % 2 = 1, NEW a \in Nat, NEW d \in Nat, NEW c \in Nat,
         Bit(d, c) = 1, NEW x \in 0 .. n - 1,
         (x * Pow2[W]) % n = (Partial(a, d, n, c) * Square(a, n, c)) % n
  PROVE  x = Partial(a, d, n, c + 1)
<1> DEFINE R == Pow2[W]
           S == Square(a, n, c)
           P == PowMod(a, Pow2[c], n)
           Y == Partial(a, d, n, c)
           Q == Partial(a, d, n, c + 1)
<1>1. n \in Nat \ {0} /\ R \in Nat /\ c + 1 \in Nat /\ Pow2[c] \in Nat \ {0}
  BY Pow2Facts, WidePowers
<1>2. P \in 0 .. n - 1 /\ S \in 0 .. n - 1 /\ SameResidue(S, P * R, n)
  BY <1>1, SquareResidue, Reduced
<1>3. Y \in 0 .. n - 1 /\ Q \in 0 .. n - 1
  BY <1>1, Reduced
<1>4. SameResidue(Q, Y * P, n)
  <2> DEFINE r == d % Pow2[c]
  <2>1. r \in Nat
    <3>1. r \in 0 .. Pow2[c] - 1
      BY <1>1, DivMod
    <3> QED BY <1>1, <3>1
  <2>2. d % Pow2[c + 1] = r + (1 * Pow2[c])
    BY BitSplit
  <2> HIDE DEF r
  <2>3. d % Pow2[c + 1] = r + Pow2[c]
    BY <1>1, <2>1, <2>2
  <2>4. SameResidue(PowMod(a, r + Pow2[c], n), PowMod(a, r, n) * P, n)
    BY <1>1, <2>1, PowModSum
  <2>5. Y = PowMod(a, r, n) /\ Q = PowMod(a, r + Pow2[c], n)
    BY <2>3 DEF Partial, r
  <2> HIDE DEF Y, Q, P
  <2> QED BY <2>4, <2>5
<1>5. (x * R) % n = (Y * S) % n
  OBVIOUS
<1> HIDE DEF S, P, Y, Q
<1>6. P \in Int /\ S \in Int /\ Q \in Int /\ Y \in Int /\ x \in Int /\ R \in Int
      /\ Q \in Nat
  BY <1>1, <1>2, <1>3
<1>7. x * R \in Nat /\ Y * S \in Nat
  <2> HIDE DEF R
  <2> QED BY <1>1, <1>2, <1>3
<1>8. SameResidue(x * R, Y * S, n)
  BY <1>1, <1>5, <1>7, ResidueMod
<1>9. SameResidue(x, Q, n)
  BY <1>2, <1>4, <1>6, <1>8, MontgomeryCancel
<1>10. x = Q % n /\ Q % n = Q
  BY <1>1, <1>3, <1>6, <1>9, ResidueUnique, ModSmall
<1> QED
  BY <1>10 DEF Q

(* An exponent bit that is not set leaves the partial power alone.         *)
LEMMA NotMultiplying ==
  ASSUME NEW n, NEW a, NEW d \in Nat, NEW c \in Nat, Bit(d, c) # 1
  PROVE  Partial(a, d, n, c + 1) = Partial(a, d, n, c)
<1>1. Bit(d, c) = 0
  BY BitSplit
<1> QED
  BY <1>1, SkippingIteration DEF Partial

(* The values the loop starts from.                                        *)
LEMMA FirstBit ==
  ASSUME NEW n \in Nat, n > 1, NEW a \in 0 .. n - 1, NEW d \in Nat
  PROVE  Square(a, n, 0) = (Pow2[W] * a) % n /\ Partial(a, d, n, 0) = 1
<1>1. n \in Nat \ {0} /\ a \in Nat /\ Pow2[0] = 1 /\ Pow2[W] \in Nat
  BY Pow2Facts, WidePowers
<1>2. 1 % n = 1 /\ a % n = a /\ d % 1 = 0
  <2>1. 1 \in 0 .. n - 1
    OBVIOUS
  <2> QED BY <1>1, <2>1, ModSmall
<1>3. PowMod(a, 0, n) = 1 /\ PowMod(a, 0 + 1, n) = (a * PowMod(a, 0, n)) % n
  <2>1. 0 \in Nat
    OBVIOUS
  <2>2. PowMod(a, 0, n) = 1 % n /\ PowMod(a, 0 + 1, n) = (a * PowMod(a, 0, n)) % n
    BY <1>1, <2>1, PowModStep, Zenon
  <2> QED BY <1>2, <2>2
<1>4. PowMod(a, 1, n) = a
  BY <1>1, <1>2, <1>3
<1>5. a * Pow2[W] = Pow2[W] * a
  BY <1>1
<1> QED
  BY <1>1, <1>2, <1>3, <1>4, <1>5 DEF Square, Partial

(* The value the loop ends with.                                           *)
LEMMA EveryBit ==
  ASSUME NEW n, NEW a, NEW d \in Word
  PROVE  Partial(a, d, n, W) = PowMod(a, d, n)
<1>1. Pow2[W] \in Nat \ {0} /\ d \in 0 .. Pow2[W] - 1
  BY WidePowers DEF Word
<1>2. d % Pow2[W] = d
  BY <1>1, ModSmall
<1> QED
  BY <1>2 DEF Partial
-----------------------------------------------------------------------------
(* Every register of the core keeps to its width.                          *)
CoreType ==
  [state : {"IDLE", "PREP_1", "PREP_2", "MONT_1", "MONT_2", "CALC"},
   counter : 0 .. W - 1, encryptdata : Word, t : Word, m : Word,
   o_a_pow_d : Word, o_finished : BOOLEAN,
   prep_start : BOOLEAN, t_start : BOOLEAN, m_start : BOOLEAN,
   t_a : Word, t_b : Word, m_a : Word, m_b : Word,
   t_finished : BOOLEAN, m_finished : BOOLEAN]

(* The ports: an odd modulus above the ciphertext from the start on.       *)
PortsOK ==
  /\ i_start \in BOOLEAN
  /\ i_n \in Word /\ i_n % 2 = 1 /\ i_a \in 0 .. i_n - 1 /\ i_d \in Word
  /\ i_start => core.state = "IDLE"
  /\ i_start \/ core.state # "IDLE" => i_n > 1

UnitsOK ==
  /\ ProdOK(prep, i_n, Pow2[W], core.encryptdata)
  /\ MontOK(montT, i_n, core.t_a, core.t_b)
  /\ MontOK(montM, i_n, core.m_a, core.m_b)

(* A unit is at work in one state of the core only, and at rest before its *)
(* start and once its result is collected.                                 *)
PrepControl ==
  /\ core.prep_start \/ ~Quiet(prep) => core.state = "PREP_2"
  /\ core.prep_start => Quiet(prep)

TControl ==
  /\ core.t_start \/ core.t_finished \/ ~Quiet(montT) => core.state = "MONT_2"
  /\ core.t_start => ~core.t_finished
  /\ core.t_start \/ core.t_finished => Quiet(montT)

MControl ==
  /\ core.m_start \/ core.m_finished \/ ~Quiet(montM) => core.state = "MONT_2" /\ ExponentBit
  /\ core.m_start => ~core.m_finished
  /\ core.m_start \/ core.m_finished => Quiet(montM)

(* What the registers hold, state by state.                                *)
PrepData ==
  core.state \in {"PREP_1", "PREP_2"} => core.counter = 0 /\ core.encryptdata = i_a

LoopData ==
  /\ core.state = "MONT_1" =>
       /\ core.t = Square(i_a, i_n, core.counter)
       /\ core.m = Partial(i_a, i_d, i_n, core.counter)
  /\ core.state = "CALC" =>
       /\ core.t = Square(i_a, i_n, core.counter + 1)
       /\ core.m = Partial(i_a, i_d, i_n, core.counter + 1)

SquareData ==
  core.state = "MONT_2" =>
    /\ core.t_a = Square(i_a, i_n, core.counter) /\ core.t_b = core.t_a
    /\ core.t_finished =>
         core.t < i_n /\ (core.t * Pow2[W]) % i_n = (core.t_a * core.t_b) % i_n

MultiplyData ==
  core.state = "MONT_2" =>
    /\ ~ExponentBit => core.m = Partial(i_a, i_d, i_n, core.counter)
    /\ ExponentBit => /\ core.m_a = Partial(i_a, i_d, i_n, core.counter)
                      /\ core.m_b = Square(i_a, i_n, core.counter)
    /\ core.m_finished =>
         core.m < i_n /\ (core.m * Pow2[W]) % i_n = (core.m_a * core.m_b) % i_n

IInv ==
  /\ core \in CoreType /\ PortsOK /\ UnitsOK
  /\ PrepControl /\ TControl /\ MControl
  /\ PrepData /\ LoopData /\ SquareData /\ MultiplyData
-----------------------------------------------------------------------------
(* The numbers on the ports and in the registers.                          *)
LEMMA Numbers ==
  ASSUME IInv
  PROVE  /\ i_n \in Nat \ {0} /\ i_n < Pow2[W] /\ i_n % 2 = 1
         /\ i_a \in Nat /\ i_a < i_n /\ i_d \in Nat
         /\ core.counter \in Nat /\ core.counter < W /\ core.encryptdata \in Nat
         /\ core.t_a \in Nat /\ core.t_b \in Nat /\ core.m_a \in Nat /\ core.m_b \in Nat
<1>1. Pow2[W] \in Nat \ {0} /\ W \in Nat
  BY WidePowers, WType
<1>2. /\ i_n \in 0 .. Pow2[W] - 1 /\ i_n % 2 = 1 /\ i_a \in 0 .. i_n - 1
      /\ i_d \in 0 .. Pow2[W] - 1
  BY DEF IInv, PortsOK, Word
<1>3. /\ core.counter \in 0 .. W - 1 /\ core.encryptdata \in 0 .. Pow2[W] - 1
      /\ core.t_a \in 0 .. Pow2[W] - 1 /\ core.t_b \in 0 .. Pow2[W] - 1
      /\ core.m_a \in 0 .. Pow2[W] - 1 /\ core.m_b \in 0 .. Pow2[W] - 1
  BY DEF IInv, CoreType, Word
<1> QED
  BY <1>1, <1>2, <1>3

(* The sum of AddB and SkipB, which differ in whether b is added.          *)
LEMMA EvenSum ==
  ASSUME NEW x \in Nat, NEW n \in Nat, n % 2 = 1
  PROVE  \E t \in {0, 1}, s \in Nat :
           s % 2 = 0 /\ s = x + (t * n) /\ s = x + IF x % 2 = 1 THEN n ELSE 0
<1> DEFINE t == IF x % 2 = 1 THEN 1 ELSE 0
           s == x + (t * n)
<1>1. t \in {0, 1} /\ s % 2 = 0
  BY Parity
<1>2. s \in Nat /\ s = x + IF x % 2 = 1 THEN n ELSE 0
  OBVIOUS
<1> HIDE DEF t
<1> QED
  BY <1>1, <1>2

(* The instances share the powers of two of this module.                   *)
LEMMA SamePowers ==
  /\ Prep!Pow2 = Pow2 /\ MontT!Pow2 = Pow2 /\ MontM!Pow2 = Pow2
  /\ \A x, i : /\ Prep!Bit(x, i) = Bit(x, i)
               /\ MontT!Bit(x, i) = Bit(x, i) /\ MontM!Bit(x, i) = Bit(x, i)
<1>1. Prep!Pow2 = Pow2 /\ MontT!Pow2 = Pow2 /\ MontM!Pow2 = Pow2
  BY DEF Prep!Pow2, MontT!Pow2, MontM!Pow2, Pow2
<1> QED
  BY <1>1 DEF Prep!Bit, MontT!Bit, MontM!Bit, Bit

(* The two multipliers take such clocks.                                   *)
LEMMA MontTClock ==
  ASSUME MontT!Clock, montT.m \in Nat, core.t_b \in Nat, i_n \in Nat, i_n % 2 = 1
  PROVE  MontClock(montT, montT', core.t_start, i_n, core.t_a, core.t_b)
<1> USE DEF MontClock
<1>1. CASE MontT!Idle
  BY <1>1 DEF MontT!Idle
<1>2. CASE MontT!Start
  BY <1>2 DEF MontT!Start
<1>3. CASE MontT!AddB
  <2>1. PICK t \in {0, 1}, s \in Nat :
          /\ s % 2 = 0 /\ s = (montT.m + core.t_b) + (t * i_n)
          /\ s = (montT.m + core.t_b) + IF (montT.m + core.t_b) % 2 = 1 THEN i_n ELSE 0
    <3>1. montT.m + core.t_b \in Nat
      OBVIOUS
    <3> QED BY <3>1, EvenSum
  <2>2. s = montT.m + (Bit(core.t_a, montT.counter) * core.t_b) + (t * i_n)
    <3>1. Bit(core.t_a, montT.counter) = 1
      BY <1>3, SamePowers DEF MontT!AddB
    <3> QED BY <2>1, <3>1
  <2>3. montT' = [montT EXCEPT !.counter = montT.counter + 1,
                             !.m = (s % Pow2[W + 2]) \div 2]
    BY <1>3, <2>1, SamePowers DEF MontT!AddB, MontT!Halve
  <2>4. montT.state = "RUN1" /\ montT.counter < W
    BY <1>3 DEF MontT!AddB
  <2> QED BY <2>1, <2>2, <2>3, <2>4
<1>4. CASE MontT!SkipB
  <2>1. PICK t \in {0, 1}, s \in Nat :
          /\ s % 2 = 0 /\ s = montT.m + (t * i_n)
          /\ s = montT.m + IF montT.m % 2 = 1 THEN i_n ELSE 0
    BY EvenSum
  <2>2. s = montT.m + (Bit(core.t_a, montT.counter) * core.t_b) + (t * i_n)
    <3>1. Bit(core.t_a, montT.counter) = 0
      BY <1>4, SamePowers DEF MontT!SkipB
    <3> QED BY <2>1, <3>1
  <2>3. montT' = [montT EXCEPT !.counter = montT.counter + 1,
                             !.m = (s % Pow2[W + 2]) \div 2]
    BY <1>4, <2>1, SamePowers DEF MontT!SkipB, MontT!Halve
  <2>4. montT.state = "RUN1" /\ montT.counter < W
    BY <1>4 DEF MontT!SkipB
  <2> QED BY <2>1, <2>2, <2>3, <2>4
<1>5. CASE MontT!LastBit
  BY <1>5 DEF MontT!LastBit
<1>6. CASE MontT!Reduce
  BY <1>6 DEF MontT!Reduce
<1> QED
  BY <1>1, <1>2, <1>3, <1>4, <1>5, <1>6 DEF MontT!Clock

LEMMA MontMClock ==
  ASSUME MontM!Clock, montM.m \in Nat, core.m_b \in Nat, i_n \in Nat, i_n % 2 = 1
  PROVE  MontClock(montM, montM', core.m_start, i_n, core.m_a, core.m_b)
<1> USE DEF MontClock
<1>1. CASE MontM!Idle
  BY <1>1 DEF MontM!Idle
<1>2. CASE MontM!Start
  BY <1>2 DEF MontM!Start
<1>3. CASE MontM!AddB
  <2>1. PICK t \in {0, 1}, s \in Nat :
          /\ s % 2 = 0 /\ s = (montM.m + core.m_b) + (t * i_n)
          /\ s = (montM.m + core.m_b) + IF (montM.m + core.m_b) % 2 = 1 THEN i_n ELSE 0
    <3>1. montM.m + core.m_b \in Nat
      OBVIOUS
    <3> QED BY <3>1, EvenSum
  <2>2. s = montM.m + (Bit(core.m_a, montM.counter) * core.m_b) + (t * i_n)
    <3>1. Bit(core.m_a, montM.counter) = 1
      BY <1>3, SamePowers DEF MontM!AddB
    <3> QED BY <2>1, <3>1
  <2>3. montM' = [montM EXCEPT !.counter = montM.counter + 1,
                             !.m = (s % Pow2[W + 2]) \div 2]
    BY <1>3, <2>1, SamePowers DEF MontM!AddB, MontM!Halve
  <2>4. montM.state = "RUN1" /\ montM.counter < W
    BY <1>3 DEF MontM!AddB
  <2> QED BY <2>1, <2>2, <2>3, <2>4
<1>4. CASE MontM!SkipB
  <2>1. PICK t \in {0, 1}, s \in Nat :
          /\ s % 2 = 0 /\ s = montM.m + (t * i_n)
          /\ s = montM.m + IF montM.m % 2 = 1 THEN i_n ELSE 0
    BY EvenSum
  <2>2. s = montM.m + (Bit(core.m_a, montM.counter) * core.m_b) + (t * i_n)
    <3>1. Bit(core.m_a, montM.counter) = 0
      BY <1>4, SamePowers DEF MontM!SkipB
    <3> QED BY <2>1, <3>1
  <2>3. montM' = [montM EXCEPT !.counter = montM.counter + 1,
                             !.m = (s % Pow2[W + 2]) \div 2]
    BY <1>4, <2>1, SamePowers DEF MontM!SkipB, MontM!Halve
  <2>4. montM.state = "RUN1" /\ montM.counter < W
    BY <1>4 DEF MontM!SkipB
  <2> QED BY <2>1, <2>2, <2>3, <2>4
<1>5. CASE MontM!LastBit
  BY <1>5 DEF MontM!LastBit
<1>6. CASE MontM!Reduce
  BY <1>6 DEF MontM!Reduce
<1> QED
  BY <1>1, <1>2, <1>3, <1>4, <1>5, <1>6 DEF MontM!Clock

(* So does ModuloProduct.                                                  *)
LEMMA PrepClock ==
  ASSUME Prep!Clock, prep.m \in Nat, prep.t \in Nat, i_n \in Nat,
         prep.counter \in Nat
  PROVE  ProdClock(prep, prep', core.prep_start, i_n, Pow2[W], core.encryptdata)
<1> USE DEF ProdClock
<1>1. CASE Prep!Idle
  BY <1>1 DEF Prep!Idle
<1>2. CASE Prep!Start
  BY <1>2 DEF Prep!Start
<1> DEFINE V == Pow2[W + 2]
           s == (prep.t + prep.t) % V
           x == IF s > i_n THEN s - i_n ELSE s
           r == (prep.m + prep.t) % V
           y == IF r >= i_n THEN r - i_n ELSE r
<1>3. x \in Int /\ y \in Int /\ prep.m \in Int
  <2>1. V \in Nat \ {0}
    BY WType, Pow2Facts
  <2> HIDE DEF V
  <2>2. s \in Nat /\ r \in Nat
    BY <2>1, DivMod
  <2> QED BY <2>2
<1>4. CASE Prep!Accumulate
  <2>1. /\ prep.state = "RUN" /\ prep.counter <= W /\ Bit(Pow2[W], prep.counter) = 1
        /\ prep' = [prep EXCEPT !.m = y, !.t = x, !.counter = prep.counter + 1]
    BY <1>4, SamePowers DEF Prep!Accumulate, Prep!AddT, Prep!DoubleT, Prep!Plus
  <2> QED BY <1>3, <2>1
<1>5. CASE Prep!Skip
  <2>1. /\ prep.state = "RUN" /\ prep.counter <= W /\ Bit(Pow2[W], prep.counter) = 0
        /\ prep' = [prep EXCEPT !.t = x, !.counter = prep.counter + 1]
    BY <1>5, SamePowers DEF Prep!Skip, Prep!DoubleT, Prep!Plus
  <2>2. prep' = [prep EXCEPT !.m = prep.m, !.t = x, !.counter = prep.counter + 1]
    BY <2>1
  <2>3. prep.m = IF Bit(Pow2[W], prep.counter) = 1 THEN y ELSE prep.m
    BY <2>1
  <2>4. \E X \in Int, Y \in Int :
          /\ prep.state = "RUN" /\ prep.counter <= W /\ X = x
          /\ Y = IF Bit(Pow2[W], prep.counter) = 1 THEN y ELSE prep.m
          /\ prep' = [prep EXCEPT !.m = Y, !.t = X, !.counter = prep.counter + 1]
    <3> HIDE DEF x, y
    <3> QED BY <1>3, <2>1, <2>2, <2>3
  <2> QED BY <2>4, Zenon
<1>6. CASE Prep!Finish
  BY <1>6 DEF Prep!Finish
<1> QED
  BY <1>1, <1>2, <1>4, <1>5, <1>6 DEF Prep!Clock

(* A unit at rest that is not started stays at rest, and a pulse lasts one *)
(* clock.                                                                  *)
LEMMA MontRests ==
  ASSUME NEW n, NEW a, NEW b, NEW u, NEW v,
         MontOK(u, n, a, b), u.state = "IDLE", MontClock(u, v, FALSE, n, a, b)
  PROVE  Quiet(v) /\ \A k, c, d : MontOK(v, k, c, d)
<1>1. v = [u EXCEPT !.o_finished = FALSE]
  BY DEF MontClock
<1>2. v \in [m : 0 .. Pow2[W + 2] - 1, o_finished : BOOLEAN,
            state : {"IDLE", "RUN1", "RUN2"}, counter : 0 .. W]
  BY <1>1 DEF MontOK
<1>3. Quiet(v)
  BY <1>1 DEF Quiet, MontOK
<1> QED
  BY <1>2, <1>3 DEF MontOK, Quiet

LEMMA ProdRests ==
  ASSUME NEW n, NEW a, NEW b, NEW u, NEW v,
         ProdOK(u, n, a, b), u.state = "IDLE", ProdClock(u, v, FALSE, n, a, b)
  PROVE  Quiet(v) /\ \A k, c, d : ProdOK(v, k, c, d)
<1>1. v = [u EXCEPT !.o_finished = FALSE]
  BY DEF ProdClock
<1>2. v \in [m : 0 .. Pow2[W + 2] - 1, t : 0 .. Pow2[W + 2] - 1, o_finished : BOOLEAN,
            state : {"IDLE", "RUN"}, counter : 0 .. W + 1]
  BY <1>1 DEF ProdOK
<1>3. Quiet(v)
  BY <1>1 DEF Quiet, ProdOK
<1> QED
  BY <1>2, <1>3 DEF ProdOK, Quiet

(* The registers of the units are numbers.                                 *)
LEMMA UnitNumbers ==
  ASSUME IInv
  PROVE  /\ prep.m \in Nat /\ prep.t \in Nat /\ prep.counter \in Nat
         /\ montT.m \in Nat /\ montM.m \in Nat
<1>1. Pow2[W + 2] \in Nat \ {0} /\ W \in Nat
  BY WType, Pow2Facts
<1>2. /\ prep.m \in 0 .. Pow2[W + 2] - 1 /\ prep.t \in 0 .. Pow2[W + 2] - 1
      /\ prep.counter \in 0 .. W + 1
      /\ montT.m \in 0 .. Pow2[W + 2] - 1 /\ montM.m \in 0 .. Pow2[W + 2] - 1
  BY DEF IInv, UnitsOK, ProdOK, MontOK
<1> QED
  BY <1>1, <1>2
-----------------------------------------------------------------------------
(* The ports are held while the core is busy.                              *)
LEMMA PortsHeld ==
  ASSUME Next, core.state # "IDLE" \/ i_start
  PROVE  i_start' = FALSE /\ i_a' = i_a /\ i_d' = i_d /\ i_n' = i_n
  BY DEF Next, Request, Hold

(* What a clock does in S_MONT_2.                                          *)
LEMMA CollectEffect ==
  ASSUME core \in CoreType, CoreClock, core.state = "MONT_2"
  PROVE  /\ core'.t_start = FALSE
         /\ core'.m_start = IF ExponentBit THEN FALSE ELSE core.m_start
         /\ core'.prep_start = core.prep_start
         /\ core'.t = IF montT.o_finished THEN montT.m % Pow2[W] ELSE core.t
         /\ core'.m = IF ExponentBit /\ montM.o_finished THEN montM.m % Pow2[W] ELSE core.m
         /\ core'.t_a = core.t_a /\ core'.t_b = core.t_b
         /\ core'.m_a = core.m_a /\ core'.m_b = core.m_b
         /\ core'.counter = core.counter /\ core'.encryptdata = core.encryptdata
         /\ core'.o_a_pow_d = core.o_a_pow_d /\ core'.o_finished = core.o_finished
         /\ \/ /\ core'.state = "MONT_2" /\ ~AllCollected
               /\ core'.t_finished = (core.t_finished \/ montT.o_finished)
               /\ core'.m_finished = (core.m_finished \/ (ExponentBit /\ montM.o_finished))
            \/ /\ core'.state = "CALC" /\ AllCollected
               /\ core'.t_finished = FALSE /\ core'.m_finished = FALSE
<1>1. WaitMont \/ LeaveMont
  BY DEF CoreClock, Rest, Accept, StartPrep, WaitPrep, TakePrep, StartSquare,
         StartSquareAndMultiply, NextBit, Answer
<1>2. CASE WaitMont
  BY <1>2 DEF WaitMont, Collect, CoreType
<1>3. CASE LeaveMont
  BY <1>3 DEF LeaveMont, Collect, CoreType
<1> QED
  BY <1>1, <1>2, <1>3

(* What it does everywhere else.                                           *)
LEMMA OtherEffect ==
  ASSUME core \in CoreType, CoreClock, core.state # "MONT_2"
  PROVE  /\ core.state \in {"IDLE", "PREP_1", "PREP_2", "CALC"} =>
              /\ core'.state # "MONT_2"
              /\ core'.t_start \in {core.t_start, FALSE}
              /\ core'.m_start \in {core.m_start, FALSE}
         /\ core.state = "MONT_1" =>
              /\ core'.state = "MONT_2" /\ core'.counter = core.counter
              /\ core'.m_start \in {core.m_start, ExponentBit}
         /\ core'.t_finished \in {core.t_finished, FALSE}
         /\ core'.m_finished \in {core.m_finished, FALSE}
         /\ core.state = "PREP_2" =>
              /\ core'.prep_start = FALSE /\ core'.encryptdata = core.encryptdata
              /\ core'.state # "PREP_2" => prep.o_finished
         /\ core.state # "PREP_2" /\ core'.prep_start =>
              core.prep_start \/ core'.state = "PREP_2"
<1> USE DEF CoreType
<1>1. CASE Rest
  BY <1>1 DEF Rest
<1>2. CASE Accept
  BY <1>2 DEF Accept, CoreReset
<1>3. CASE StartPrep
  BY <1>3 DEF StartPrep
<1>4. CASE WaitPrep
  BY <1>4 DEF WaitPrep
<1>5. CASE TakePrep
  BY <1>5 DEF TakePrep
<1>6. CASE StartSquare
  BY <1>6 DEF StartSquare
<1>7. CASE StartSquareAndMultiply
  BY <1>7 DEF StartSquareAndMultiply
<1>8. CASE NextBit
  BY <1>8 DEF NextBit
<1>9. CASE Answer
  BY <1>9 DEF Answer
<1> QED
  BY <1>1, <1>2, <1>3, <1>4, <1>5, <1>6, <1>7, <1>8, <1>9
     DEF CoreClock, WaitMont, LeaveMont

(* ModuloProduct and its control.                                          *)
LEMMA PrepStep ==
  ASSUME IInv, Next
  PROVE  ProdOK(prep', i_n', Pow2[W], core'.encryptdata) /\ PrepControl'
<1>1. /\ core \in CoreType /\ CoreClock /\ core.prep_start \in BOOLEAN
      /\ ProdOK(prep, i_n, Pow2[W], core.encryptdata) /\ PrepControl
  BY DEF IInv, UnitsOK, Next, Clock, CoreType
<1>2. ProdClock(prep, prep', core.prep_start, i_n, Pow2[W], core.encryptdata)
  BY Numbers, UnitNumbers, PrepClock DEF Next, Clock
<1>3. ASSUME prep.state = "IDLE", core.prep_start = FALSE
      PROVE  Quiet(prep') /\ ProdOK(prep', i_n', Pow2[W], core'.encryptdata)
  <2>1. ProdClock(prep, prep', FALSE, i_n, Pow2[W], core.encryptdata)
    BY <1>2, <1>3
  <2>2. Quiet(prep') /\ \A k, c, d : ProdOK(prep', k, c, d)
    BY <1>1, <1>3, <2>1, ProdRests
  <2> QED BY <2>2
<1>4. CASE core.state = "PREP_2"
  <2>1. i_n' = i_n /\ core'.encryptdata = core.encryptdata /\ core'.prep_start = FALSE
        /\ (core'.state # "PREP_2" => prep.o_finished)
    BY <1>1, <1>4, PortsHeld, OtherEffect
  <2>2. ProdOK(prep', i_n, Pow2[W], core.encryptdata)
    <3>1. core.encryptdata < i_n
      BY <1>4, Numbers DEF IInv, PrepData
    <3>2. Pow2[W] \in Nat /\ Pow2[W] < Pow2[W + 1]
      BY WidePowers
    <3> QED BY <1>1, <1>2, <3>1, <3>2, Numbers, ProdKeeps
  <2>3. prep.o_finished => Quiet(prep')
    <3>1. prep.o_finished => prep.state = "IDLE" /\ ~core.prep_start
      BY <1>1 DEF ProdOK, PrepControl, Quiet
    <3> QED BY <1>1, <1>3, <3>1
  <2> QED BY <2>1, <2>2, <2>3 DEF PrepControl
<1>5. CASE core.state # "PREP_2"
  <2>1. core.prep_start = FALSE /\ prep.state = "IDLE"
    BY <1>1, <1>5 DEF PrepControl, Quiet
  <2>2. core'.prep_start => core'.state = "PREP_2"
    <3>1. CASE core.state = "MONT_2"
      BY <1>1, <2>1, <3>1, CollectEffect
    <3>2. CASE core.state # "MONT_2"
      BY <1>1, <1>5, <2>1, <3>2, OtherEffect
    <3> QED BY <3>1, <3>2
  <2> QED BY <1>3, <2>1, <2>2 DEF PrepControl
<1> QED
  BY <1>4, <1>5

(* The squaring multiplier and its control.                                *)
LEMMA SquareStep ==
  ASSUME IInv, Next
  PROVE  MontOK(montT', i_n', core'.t_a, core'.t_b) /\ TControl'
<1>1. /\ core \in CoreType /\ CoreClock /\ core.t_start \in BOOLEAN
      /\ core.t_finished \in BOOLEAN
      /\ MontOK(montT, i_n, core.t_a, core.t_b) /\ TControl
  BY DEF IInv, UnitsOK, Next, Clock, CoreType
<1>2. MontClock(montT, montT', core.t_start, i_n, core.t_a, core.t_b)
  BY Numbers, UnitNumbers, MontTClock DEF Next, Clock
<1>3. ASSUME montT.state = "IDLE", core.t_start = FALSE
      PROVE  Quiet(montT') /\ MontOK(montT', i_n', core'.t_a, core'.t_b)
  <2>1. MontClock(montT, montT', FALSE, i_n, core.t_a, core.t_b)
    BY <1>2, <1>3
  <2>2. Quiet(montT') /\ \A k, c, d : MontOK(montT', k, c, d)
    BY <1>1, <1>3, <2>1, MontRests
  <2> QED BY <2>2
<1>4. CASE core.state = "MONT_2"
  <2>1. i_n' = i_n
    BY <1>4, PortsHeld
  <2>2. /\ core'.t_a = core.t_a /\ core'.t_b = core.t_b /\ core'.t_start = FALSE
        /\ core'.t_finished => core.t_finished \/ montT.o_finished
        /\ core'.state # "MONT_2" => core.t_finished /\ ~core'.t_finished
    BY <1>1, <1>4, CollectEffect DEF AllCollected
  <2>3. MontOK(montT', i_n, core.t_a, core.t_b)
    <3>1. core.t_b \in Nat /\ core.t_b < i_n /\ core.t_a \in Word
      <4>1. Square(i_a, i_n, core.counter) \in 0 .. i_n - 1
        BY Numbers, Reduced
      <4> QED BY <1>1, <1>4, <4>1, Numbers DEF IInv, SquareData, CoreType
    <3> QED BY <1>1, <1>2, <3>1, Numbers, MontKeeps
  <2>4. core.t_finished \/ montT.o_finished => Quiet(montT')
    <3>1. core.t_finished \/ montT.o_finished =>
            montT.state = "IDLE" /\ core.t_start = FALSE
      BY <1>1 DEF MontOK, TControl, Quiet
    <3> QED BY <1>3, <3>1
  <2> QED BY <2>1, <2>2, <2>3, <2>4 DEF TControl
<1>5. CASE core.state # "MONT_2"
  <2>1. core.t_start = FALSE /\ core.t_finished = FALSE /\ montT.state = "IDLE"
    BY <1>1, <1>5 DEF TControl, Quiet
  <2>2. core'.t_finished = FALSE /\ (core'.t_start => core'.state = "MONT_2")
    BY <1>1, <1>5, <2>1, OtherEffect DEF CoreType
  <2> QED BY <1>3, <2>1, <2>2 DEF TControl
<1> QED
  BY <1>4, <1>5

(* The multiplying multiplier and its control.                             *)
LEMMA MultiplyStep ==
  ASSUME IInv, Next
  PROVE  MontOK(montM', i_n', core'.m_a, core'.m_b) /\ MControl'
<1>1. /\ core \in CoreType /\ CoreClock /\ core.m_start \in BOOLEAN
      /\ core.m_finished \in BOOLEAN
      /\ MontOK(montM, i_n, core.m_a, core.m_b) /\ MControl
  BY DEF IInv, UnitsOK, Next, Clock, CoreType
<1>2. MontClock(montM, montM', core.m_start, i_n, core.m_a, core.m_b)
  BY Numbers, UnitNumbers, MontMClock DEF Next, Clock
<1>3. ASSUME montM.state = "IDLE", core.m_start = FALSE
      PROVE  Quiet(montM') /\ MontOK(montM', i_n', core'.m_a, core'.m_b)
  <2>1. MontClock(montM, montM', FALSE, i_n, core.m_a, core.m_b)
    BY <1>2, <1>3
  <2>2. Quiet(montM') /\ \A k, c, d : MontOK(montM', k, c, d)
    BY <1>1, <1>3, <2>1, MontRests
  <2> QED BY <2>2
<1>4. CASE core.state = "MONT_2" /\ ExponentBit
  <2>1. i_n' = i_n /\ i_d' = i_d
    BY <1>4, PortsHeld
  <2>2. /\ core'.m_a = core.m_a /\ core'.m_b = core.m_b /\ core'.m_start = FALSE
        /\ core'.counter = core.counter
        /\ core'.m_finished => core.m_finished \/ montM.o_finished
        /\ core'.state # "MONT_2" => core.m_finished /\ ~core'.m_finished
    BY <1>1, <1>4, CollectEffect DEF AllCollected
  <2>3. MontOK(montM', i_n, core.m_a, core.m_b)
    <3>1. core.m_b \in Nat /\ core.m_b < i_n /\ core.m_a \in Word
      <4>1. Square(i_a, i_n, core.counter) \in 0 .. i_n - 1
        BY Numbers, Reduced
      <4> QED BY <1>1, <1>4, <4>1, Numbers DEF IInv, MultiplyData, CoreType
    <3> QED BY <1>1, <1>2, <3>1, Numbers, MontKeeps
  <2>4. core.m_finished \/ montM.o_finished => Quiet(montM')
    <3>1. core.m_finished \/ montM.o_finished =>
            montM.state = "IDLE" /\ core.m_start = FALSE
      BY <1>1 DEF MontOK, MControl, Quiet
    <3> QED BY <1>3, <3>1
  <2>5. ExponentBit'
    BY <1>4, <2>1, <2>2 DEF ExponentBit
  <2> QED BY <2>1, <2>2, <2>3, <2>4, <2>5 DEF MControl
<1>5. CASE ~(core.state = "MONT_2" /\ ExponentBit)
  <2>1. core.m_start = FALSE /\ core.m_finished = FALSE /\ montM.state = "IDLE"
    BY <1>1, <1>5 DEF MControl, Quiet
  <2>2. core'.m_finished = FALSE /\ (core'.m_start => core'.state = "MONT_2" /\ ExponentBit')
    <3>1. CASE core.state = "MONT_2"
      BY <1>1, <1>5, <2>1, <3>1, CollectEffect
    <3>2. CASE core.state = "MONT_1"
      <4>1. i_d' = i_d
        BY <3>2, PortsHeld
      <4>2. core'.m_finished = FALSE /\ core'.state = "MONT_2"
            /\ core'.counter = core.counter /\ (core'.m_start => ExponentBit)
        BY <1>1, <2>1, <3>2, OtherEffect
      <4> QED BY <4>1, <4>2 DEF ExponentBit
    <3>3. CASE core.state \in {"IDLE", "PREP_1", "PREP_2", "CALC"}
      BY <1>1, <2>1, <3>3, OtherEffect
    <3> QED BY <1>1, <3>1, <3>2, <3>3 DEF CoreType
  <2> QED BY <1>3, <2>1, <2>2 DEF MControl
<1> QED
  BY <1>4, <1>5
-----------------------------------------------------------------------------
(* The results the core takes fit its registers.                           *)
LEMMA ResultFits ==
  ASSUME NEW n \in Nat, n < Pow2[W], NEW x \in Nat, x < n
  PROVE  x % Pow2[W] = x
<1>1. Pow2[W] \in Nat \ {0} /\ x \in 0 .. Pow2[W] - 1
  BY WidePowers
<1> QED
  BY <1>1, ModSmall

(* The registers of the core keep to their widths.                         *)
LEMMA TypeStep ==
  ASSUME IInv, Next
  PROVE  core' \in CoreType
<1>1. /\ core \in CoreType /\ CoreClock /\ W \in Nat \ {0}
      /\ prep.m % Pow2[W] \in Word /\ montT.m % Pow2[W] \in Word
      /\ montM.m % Pow2[W] \in Word
  <2>1. Pow2[W] \in Nat \ {0} /\ W \in Nat \ {0}
    BY WidePowers, WType
  <2>2. prep.m \in Nat /\ montT.m \in Nat /\ montM.m \in Nat
    BY UnitNumbers
  <2> QED BY <2>1, <2>2, DivMod DEF Word, IInv, Next, Clock
<1>2. 0 \in Word /\ 1 \in Word /\ i_a \in Word /\ 0 \in 0 .. W - 1
  <2>1. Pow2[W] \in Nat /\ Pow2[W] >= 2 /\ i_a \in Nat /\ i_a < Pow2[W]
    BY WidePowers, Numbers
  <2> QED BY <1>1, <2>1 DEF Word
<1>3. CASE Rest
  BY <1>1, <1>3 DEF Rest, CoreType
<1>4. CASE Accept
  BY <1>1, <1>2, <1>4 DEF Accept, CoreReset, CoreType
<1>5. CASE StartPrep
  BY <1>1, <1>5 DEF StartPrep, CoreType
<1>6. CASE WaitPrep
  BY <1>1, <1>6 DEF WaitPrep, CoreType
<1>7. CASE TakePrep
  BY <1>1, <1>2, <1>7 DEF TakePrep, CoreType
<1>8. CASE StartSquare
  BY <1>1, <1>8 DEF StartSquare, CoreType
<1>9. CASE StartSquareAndMultiply
  BY <1>1, <1>9 DEF StartSquareAndMultiply, CoreType
<1>10. Collect \in CoreType
  <2> DEFINE x == montT.m % Pow2[W]
             y == montM.m % Pow2[W]
             u == IF montT.o_finished THEN x ELSE core.t
             v == IF ExponentBit /\ montM.o_finished THEN y ELSE core.m
             p == core.t_finished \/ montT.o_finished
             q == core.m_finished \/ (ExponentBit /\ montM.o_finished)
             r == IF ExponentBit THEN FALSE ELSE core.m_start
  <2>1. u \in Word /\ v \in Word /\ p \in BOOLEAN /\ q \in BOOLEAN /\ r \in BOOLEAN
    BY <1>1 DEF CoreType
  <2>2. Collect = [core EXCEPT !.t_start = FALSE, !.m_start = r, !.t = u, !.m = v,
                               !.t_finished = p, !.m_finished = q]
    BY DEF Collect
  <2> HIDE DEF u, v, p, q, r
  <2> QED BY <1>1, <2>1, <2>2 DEF CoreType
<1>11. CASE WaitMont
  BY <1>10, <1>11 DEF WaitMont
<1>12. CASE LeaveMont
  <2> DEFINE k == Collect
  <2>1. k \in CoreType
    BY <1>10
  <2>2. core' = [k EXCEPT !.state = "CALC", !.t_finished = FALSE, !.m_finished = FALSE]
    BY <1>12 DEF LeaveMont
  <2> HIDE DEF k
  <2> QED BY <2>1, <2>2 DEF CoreType
<1>13. CASE NextBit
  <2>1. core.counter + 1 \in 0 .. W - 1
    BY <1>1, <1>13 DEF NextBit, CoreType
  <2> QED BY <1>1, <1>13, <2>1 DEF NextBit, CoreType
<1>14. CASE Answer
  BY <1>1, <1>14 DEF Answer, CoreType
<1> QED
  BY <1>1, <1>3, <1>4, <1>5, <1>6, <1>7, <1>8, <1>9, <1>11, <1>12, <1>13, <1>14
     DEF CoreClock

(* The core leaves S_IDLE on a start only.                                 *)
LEMMA LeavesIdle ==
  ASSUME core \in CoreType, CoreClock, core.state = "IDLE"
  PROVE  \/ Rest /\ core'.state = "IDLE" /\ ~i_start
         \/ Accept /\ core'.state = "PREP_1" /\ i_start
<1>1. Rest \/ Accept
  BY DEF CoreClock, Rest, Accept, StartPrep, WaitPrep, TakePrep, StartSquare,
         StartSquareAndMultiply, WaitMont, LeaveMont, NextBit, Answer
<1>2. CASE Rest
  BY <1>2 DEF Rest, CoreType
<1>3. CASE Accept
  BY <1>3 DEF Accept, CoreReset
<1> QED
  BY <1>1, <1>2, <1>3

(* The ports carry an odd modulus and a reduced ciphertext.                *)
LEMMA PortsStep ==
  ASSUME IInv, Next
  PROVE  PortsOK'
<1>1. PortsOK /\ core \in CoreType /\ CoreClock
  BY DEF IInv, Next, Clock
<1>2. CASE Hold
  <2>1. i_start' = FALSE /\ i_a' = i_a /\ i_d' = i_d /\ i_n' = i_n
    BY <1>2 DEF Hold
  <2>2. core'.state # "IDLE" => i_n > 1
    <3>1. core'.state # "IDLE" => i_start \/ core.state # "IDLE"
      BY <1>1, LeavesIdle
    <3> QED BY <1>1, <3>1 DEF PortsOK
  <2> QED BY <1>1, <2>1, <2>2 DEF PortsOK, Word
<1>3. CASE Request
  <2>1. core'.state = "IDLE"
    BY <1>1, <1>3, LeavesIdle DEF Request
  <2>2. /\ i_start' = TRUE /\ i_n' \in Word /\ i_n' % 2 = 1 /\ i_n' > 1
        /\ i_a' \in 0 .. i_n' - 1 /\ i_d' \in Word
    BY <1>3 DEF Request
  <2> QED BY <2>1, <2>2 DEF PortsOK, Word
<1> QED
  BY <1>2, <1>3 DEF Next

(* What the loop starts from.                                              *)
LEMMA TakePrepStep ==
  ASSUME IInv, Next, TakePrep
  PROVE  /\ core'.state = "MONT_1"
         /\ core'.t = Square(i_a, i_n, core'.counter)
         /\ core'.m = Partial(i_a, i_d, i_n, core'.counter)
<1>1. /\ core.counter = 0 /\ core.encryptdata = i_a /\ i_n > 1
      /\ prep.m = (Pow2[W] * core.encryptdata) % i_n
  BY DEF IInv, PortsOK, UnitsOK, ProdOK, PrepData, TakePrep
<1>2. Pow2[W] * i_a \in Nat
  BY Numbers, WidePowers
<1>3. prep.m \in Nat /\ prep.m < i_n
  <2>1. (Pow2[W] * i_a) % i_n \in 0 .. i_n - 1
    BY <1>2, Numbers, DivMod
  <2> QED BY <1>1, <2>1, Numbers
<1>4. prep.m % Pow2[W] = prep.m
  BY <1>3, Numbers, ResultFits
<1>5. Square(i_a, i_n, 0) = (Pow2[W] * i_a) % i_n /\ Partial(i_a, i_d, i_n, 0) = 1
  <2>1. i_a \in 0 .. i_n - 1
    BY Numbers
  <2> QED BY <1>1, <2>1, Numbers, FirstBit
<1>6. /\ core'.state = "MONT_1" /\ core'.counter = core.counter
      /\ core'.t = prep.m % Pow2[W] /\ core'.m = 1
  BY DEF TakePrep, IInv, CoreType
<1> QED
  BY <1>1, <1>4, <1>5, <1>6

(* What a round of the loop ends with.                                     *)
LEMMA LeaveMontStep ==
  ASSUME IInv, Next, LeaveMont
  PROVE  /\ core'.state = "CALC"
         /\ core'.t = Square(i_a, i_n, core'.counter + 1)
         /\ core'.m = Partial(i_a, i_d, i_n, core'.counter + 1)
<1> DEFINE c == core.counter
<1>1. /\ core \in CoreType /\ CoreClock /\ core.state = "MONT_2"
      /\ core.t_finished /\ (ExponentBit => core.m_finished)
  BY DEF IInv, Next, Clock, LeaveMont, AllCollected
<1>2. montT.o_finished = FALSE /\ (ExponentBit => montM.o_finished = FALSE)
  BY <1>1 DEF IInv, TControl, MControl, Quiet
<1>3. core'.state = "CALC" /\ core'.counter = c /\ core'.t = core.t /\ core'.m = core.m
  <2>1. AllCollected
    BY <1>1 DEF AllCollected
  <2> QED BY <1>1, <1>2, <2>1, CollectEffect
<1>4. core.t = Square(i_a, i_n, c + 1)
  <2>1. /\ core.t_a = Square(i_a, i_n, c) /\ core.t_b = core.t_a
        /\ core.t < i_n /\ (core.t * Pow2[W]) % i_n = (core.t_a * core.t_b) % i_n
    BY <1>1 DEF IInv, SquareData
  <2>2. core.t \in 0 .. i_n - 1
    <3>1. core.t \in Nat
      BY <1>1, WidePowers DEF CoreType, Word
    <3> QED BY <2>1, <3>1, Numbers
  <2>3. (core.t * Pow2[W]) % i_n = (Square(i_a, i_n, c) * Square(i_a, i_n, c)) % i_n
    BY <2>1
  <2> QED BY <2>2, <2>3, Numbers, Squaring
<1>5. core.m = Partial(i_a, i_d, i_n, c + 1)
  <2>1. CASE ExponentBit
    <3>1. /\ core.m_a = Partial(i_a, i_d, i_n, c) /\ core.m_b = Square(i_a, i_n, c)
          /\ core.m < i_n /\ (core.m * Pow2[W]) % i_n = (core.m_a * core.m_b) % i_n
      BY <1>1, <2>1 DEF IInv, MultiplyData
    <3>2. core.m \in 0 .. i_n - 1
      <4>1. core.m \in Nat
        BY <1>1, WidePowers DEF CoreType, Word
      <4> QED BY <3>1, <4>1, Numbers
    <3>3. /\ (core.m * Pow2[W]) % i_n = (Partial(i_a, i_d, i_n, c) * Square(i_a, i_n, c)) % i_n
          /\ Bit(i_d, c) = 1
      BY <2>1, <3>1 DEF ExponentBit
    <3> QED BY <3>2, <3>3, Numbers, Multiplying
  <2>2. CASE ~ExponentBit
    <3>1. core.m = Partial(i_a, i_d, i_n, c) /\ Bit(i_d, c) # 1
      BY <1>1, <2>2 DEF IInv, MultiplyData, ExponentBit
    <3> QED BY <3>1, Numbers, NotMultiplying
  <2> QED BY <2>1, <2>2
<1> QED
  BY <1>3, <1>4, <1>5

(* The result a pulse announces.                                           *)
LEMMA Collected ==
  ASSUME IInv
  PROVE  /\ montT.o_finished =>
              /\ montT.m % Pow2[W] < i_n
              /\ ((montT.m % Pow2[W]) * Pow2[W]) % i_n = (core.t_a * core.t_b) % i_n
         /\ montM.o_finished =>
              /\ montM.m % Pow2[W] < i_n
              /\ ((montM.m % Pow2[W]) * Pow2[W]) % i_n = (core.m_a * core.m_b) % i_n
<1>1. ASSUME montT.o_finished
      PROVE  /\ montT.m % Pow2[W] < i_n
             /\ ((montT.m % Pow2[W]) * Pow2[W]) % i_n = (core.t_a * core.t_b) % i_n
  <2>1. montT.m < i_n /\ (montT.m * Pow2[W]) % i_n = (core.t_a * core.t_b) % i_n
    BY <1>1 DEF IInv, UnitsOK, MontOK
  <2>2. montT.m % Pow2[W] = montT.m
    BY <2>1, Numbers, UnitNumbers, ResultFits
  <2> QED BY <2>1, <2>2
<1>2. ASSUME montM.o_finished
      PROVE  /\ montM.m % Pow2[W] < i_n
             /\ ((montM.m % Pow2[W]) * Pow2[W]) % i_n = (core.m_a * core.m_b) % i_n
  <2>1. montM.m < i_n /\ (montM.m * Pow2[W]) % i_n = (core.m_a * core.m_b) % i_n
    BY <1>2 DEF IInv, UnitsOK, MontOK
  <2>2. montM.m % Pow2[W] = montM.m
    BY <2>1, Numbers, UnitNumbers, ResultFits
  <2> QED BY <2>1, <2>2
<1> QED
  BY <1>1, <1>2

(* The states a clock leads to, and the action that does.                  *)
LEMMA Successors ==
  ASSUME core \in CoreType, CoreClock
  PROVE  /\ core'.state = "PREP_1" => Accept
         /\ core'.state = "PREP_2" => StartPrep \/ WaitPrep
         /\ core'.state = "MONT_1" => TakePrep \/ NextBit
         /\ core'.state = "MONT_2" => StartSquare \/ StartSquareAndMultiply \/ WaitMont
         /\ core'.state = "CALC" => LeaveMont
<1>1. CASE Rest
  BY <1>1 DEF Rest, CoreType
<1>2. CASE Accept
  BY <1>2 DEF Accept, CoreReset
<1>3. CASE StartPrep
  BY <1>3 DEF StartPrep, CoreType
<1>4. CASE WaitPrep
  BY <1>4 DEF WaitPrep, CoreType
<1>5. CASE TakePrep
  BY <1>5 DEF TakePrep, CoreType
<1>6. CASE StartSquare
  BY <1>6 DEF StartSquare, CoreType
<1>7. CASE StartSquareAndMultiply
  BY <1>7 DEF StartSquareAndMultiply, CoreType
<1>8. CASE WaitMont
  BY <1>8 DEF WaitMont, Collect, CoreType
<1>9. CASE LeaveMont
  BY <1>9 DEF LeaveMont, Collect, CoreType
<1>10. CASE NextBit
  BY <1>10 DEF NextBit, CoreType
<1>11. CASE Answer
  BY <1>11 DEF Answer, CoreType
<1> QED
  BY <1>1, <1>2, <1>3, <1>4, <1>5, <1>6, <1>7, <1>8, <1>9, <1>10, <1>11
     DEF CoreClock

(* The registers read in S_PREP_1 and S_PREP_2.                            *)
LEMMA PrepDataStep ==
  ASSUME IInv, Next
  PROVE  PrepData'
<1>1. core \in CoreType /\ CoreClock /\ PrepData
  BY DEF IInv, Next, Clock
<1>2. CASE core'.state = "PREP_1"
  <2>1. Accept
    BY <1>1, <1>2, Successors
  <2>2. i_a' = i_a
    BY <2>1, PortsHeld DEF Accept
  <2> QED BY <2>1, <2>2 DEF Accept, CoreReset, PrepData
<1>3. CASE core'.state = "PREP_2"
  <2>1. StartPrep \/ WaitPrep
    BY <1>1, <1>3, Successors
  <2>2. i_a' = i_a
    BY <2>1, PortsHeld DEF StartPrep, WaitPrep
  <2> QED BY <1>1, <2>1, <2>2 DEF StartPrep, WaitPrep, PrepData, CoreType
<1> QED
  BY <1>2, <1>3 DEF PrepData

(* The registers read in S_MONT_1 and S_CALC.                              *)
LEMMA LoopDataStep ==
  ASSUME IInv, Next
  PROVE  LoopData'
<1>1. core \in CoreType /\ CoreClock /\ LoopData
  BY DEF IInv, Next, Clock
<1>2. CASE core'.state = "MONT_1"
  <2>1. TakePrep \/ NextBit
    BY <1>1, <1>2, Successors
  <2>2. i_a' = i_a /\ i_d' = i_d /\ i_n' = i_n
    BY <2>1, PortsHeld DEF TakePrep, NextBit
  <2>3. /\ core'.t = Square(i_a, i_n, core'.counter)
        /\ core'.m = Partial(i_a, i_d, i_n, core'.counter)
    <3>1. CASE TakePrep
      BY <3>1, TakePrepStep
    <3>2. CASE NextBit
      <4>1. /\ core'.t = core.t /\ core'.m = core.m
            /\ core'.counter = core.counter + 1 /\ core.state = "CALC"
        BY <1>1, <3>2 DEF NextBit, CoreType
      <4> QED BY <1>1, <4>1 DEF LoopData
    <3> QED BY <2>1, <3>1, <3>2
  <2> QED BY <1>2, <2>2, <2>3 DEF LoopData, Square, Partial
<1>3. CASE core'.state = "CALC"
  <2>1. LeaveMont
    BY <1>1, <1>3, Successors
  <2>2. i_a' = i_a /\ i_d' = i_d /\ i_n' = i_n
    BY <2>1, PortsHeld DEF LeaveMont
  <2> QED BY <1>3, <2>1, <2>2, LeaveMontStep DEF LoopData, Square, Partial
<1> QED
  BY <1>2, <1>3 DEF LoopData

(* The operands and the result of the squaring.                            *)
LEMMA SquareDataStep ==
  ASSUME IInv, Next
  PROVE  SquareData'
<1> SUFFICES ASSUME core'.state = "MONT_2" PROVE SquareData'
  BY DEF SquareData
<1>1. core \in CoreType /\ CoreClock /\ LoopData /\ SquareData /\ TControl
  BY DEF IInv, Next, Clock
<1>2. StartSquare \/ StartSquareAndMultiply \/ WaitMont
  BY <1>1, Successors
<1>3. i_a' = i_a /\ i_n' = i_n
  BY <1>2, PortsHeld DEF StartSquare, StartSquareAndMultiply, WaitMont
<1>4. CASE StartSquare \/ StartSquareAndMultiply
  <2>1. /\ core.state = "MONT_1" /\ core'.counter = core.counter
        /\ core'.t_a = core.t /\ core'.t_b = core.t
        /\ core'.t_finished = core.t_finished
    BY <1>1, <1>4 DEF StartSquare, StartSquareAndMultiply, CoreType
  <2>2. core'.t_finished = FALSE
    BY <1>1, <2>1 DEF TControl, CoreType
  <2>3. core'.t_a = Square(i_a, i_n, core'.counter)
    BY <1>1, <2>1 DEF LoopData
  <2> QED BY <1>3, <2>1, <2>2, <2>3 DEF SquareData, Square
<1>5. CASE WaitMont
  <2>1. core.state = "MONT_2"
    BY <1>5 DEF WaitMont
  <2>2. /\ core'.t_a = core.t_a /\ core'.t_b = core.t_b /\ core'.counter = core.counter
        /\ core'.t = IF montT.o_finished THEN montT.m % Pow2[W] ELSE core.t
        /\ core'.t_finished = (core.t_finished \/ montT.o_finished)
    BY <1>1, <2>1, CollectEffect
  <2>3. core'.t_finished =>
          core'.t < i_n /\ (core'.t * Pow2[W]) % i_n = (core.t_a * core.t_b) % i_n
    <3>1. CASE montT.o_finished
      BY <2>2, <3>1, Collected
    <3>2. CASE ~montT.o_finished
      BY <1>1, <2>1, <2>2, <3>2 DEF SquareData
    <3> QED BY <3>1, <3>2
  <2>4. core'.t_a = Square(i_a, i_n, core'.counter) /\ core'.t_b = core'.t_a
    BY <1>1, <2>1, <2>2 DEF SquareData
  <2> QED BY <1>3, <2>2, <2>3, <2>4 DEF SquareData, Square
<1> QED
  BY <1>2, <1>4, <1>5

(* The operands and the result of the multiplication.                      *)
LEMMA MultiplyDataStep ==
  ASSUME IInv, Next
  PROVE  MultiplyData'
<1> SUFFICES ASSUME core'.state = "MONT_2" PROVE MultiplyData'
  BY DEF MultiplyData
<1>1. core \in CoreType /\ CoreClock /\ LoopData /\ MultiplyData /\ MControl
  BY DEF IInv, Next, Clock
<1>2. StartSquare \/ StartSquareAndMultiply \/ WaitMont
  BY <1>1, Successors
<1>3. i_a' = i_a /\ i_d' = i_d /\ i_n' = i_n
  BY <1>2, PortsHeld DEF StartSquare, StartSquareAndMultiply, WaitMont
<1>4. core'.counter = core.counter
  <2>1. CASE WaitMont
    BY <2>1 DEF WaitMont, Collect
  <2>2. CASE StartSquare \/ StartSquareAndMultiply
    BY <1>1, <2>2 DEF StartSquare, StartSquareAndMultiply, CoreType
  <2> QED BY <1>2, <2>1, <2>2
<1>5. ExponentBit' <=> ExponentBit
  BY <1>3, <1>4 DEF ExponentBit
<1>6. CASE StartSquare
  <2>1. ~ExponentBit /\ core.state = "MONT_1" /\ core'.m = core.m
        /\ core'.m_finished = core.m_finished
    BY <1>1, <1>6 DEF StartSquare, CoreType
  <2>2. core'.m_finished = FALSE
    BY <1>1, <2>1 DEF MControl, CoreType
  <2>3. core'.m = Partial(i_a, i_d, i_n, core'.counter)
    BY <1>1, <1>4, <2>1 DEF LoopData
  <2> QED BY <1>3, <1>5, <2>1, <2>2, <2>3 DEF MultiplyData, Partial
<1>7. CASE StartSquareAndMultiply
  <2>1. /\ ExponentBit /\ core.state = "MONT_1"
        /\ core'.m_a = core.m /\ core'.m_b = core.t
        /\ core'.m_finished = core.m_finished
    BY <1>1, <1>7 DEF StartSquareAndMultiply, CoreType
  <2>2. core'.m_finished = FALSE
    BY <1>1, <2>1 DEF MControl, CoreType
  <2>3. /\ core'.m_a = Partial(i_a, i_d, i_n, core'.counter)
        /\ core'.m_b = Square(i_a, i_n, core'.counter)
    BY <1>1, <1>4, <2>1 DEF LoopData
  <2> QED BY <1>3, <1>5, <2>1, <2>2, <2>3 DEF MultiplyData, Partial, Square
<1>8. CASE WaitMont
  <2>1. core.state = "MONT_2"
    BY <1>8 DEF WaitMont
  <2>2. /\ core'.m_a = core.m_a /\ core'.m_b = core.m_b
        /\ core'.m = IF ExponentBit /\ montM.o_finished THEN montM.m % Pow2[W] ELSE core.m
        /\ core'.m_finished = (core.m_finished \/ (ExponentBit /\ montM.o_finished))
    BY <1>1, <2>1, CollectEffect
  <2>3. core'.m_finished =>
          core'.m < i_n /\ (core'.m * Pow2[W]) % i_n = (core.m_a * core.m_b) % i_n
    <3>1. CASE ExponentBit /\ montM.o_finished
      BY <2>2, <3>1, Collected
    <3>2. CASE ~(ExponentBit /\ montM.o_finished)
      BY <1>1, <2>1, <2>2, <3>2 DEF MultiplyData
    <3> QED BY <3>1, <3>2
  <2>4. CASE ExponentBit
    <3>1. /\ core'.m_a = Partial(i_a, i_d, i_n, core'.counter)
          /\ core'.m_b = Square(i_a, i_n, core'.counter)
      BY <1>1, <1>4, <2>1, <2>2, <2>4 DEF MultiplyData
    <3> QED BY <1>3, <1>5, <2>2, <2>3, <2>4, <3>1 DEF MultiplyData, Partial, Square
  <2>5. CASE ~ExponentBit
    <3>1. core'.m = Partial(i_a, i_d, i_n, core'.counter)
      BY <1>1, <1>4, <2>1, <2>2, <2>5 DEF MultiplyData
    <3> QED BY <1>3, <1>5, <2>2, <2>3, <2>5, <3>1 DEF MultiplyData, Partial, Square
  <2> QED BY <2>4, <2>5
<1> QED
  BY <1>2, <1>6, <1>7, <1>8
-----------------------------------------------------------------------------
(* The reset state satisfies the inductive invariant.                      *)
LEMMA InitIInv == Init => IInv
<1> SUFFICES ASSUME Init PROVE IInv
  OBVIOUS
<1>1. /\ 0 \in Word /\ 1 \in Word /\ 0 \in 0 .. W - 1 /\ 0 \in 0 .. W /\ 0 \in 0 .. W + 1
      /\ 0 \in 0 .. Pow2[W + 2] - 1
  <2>1. Pow2[W] \in Nat /\ Pow2[W] >= 2 /\ W \in Nat \ {0}
        /\ Pow2[W + 2] \in Nat \ {0}
    BY WidePowers, WType
  <2> QED BY <2>1 DEF Word
<1>2. core \in CoreType
  BY <1>1 DEF Init, CoreReset, CoreType
<1>3. PortsOK
  <2>1. i_start = FALSE /\ i_a = 0 /\ i_d = 0 /\ i_n = 1
    BY DEF Init
  <2>2. core.state = "IDLE"
    BY DEF Init, CoreReset
  <2>3. 1 % 2 = 1 /\ 0 \in 0 .. 1 - 1
    OBVIOUS
  <2> QED BY <1>1, <2>1, <2>2, <2>3 DEF PortsOK
<1>4. Quiet(prep) /\ Quiet(montT) /\ Quiet(montM)
  BY DEF Init, Quiet, Prep!ProdReset, MontT!MontReset, MontM!MontReset
<1>5. UnitsOK
  <2>1. ProdOK(prep, i_n, Pow2[W], core.encryptdata)
    BY <1>1 DEF Init, ProdOK, Prep!ProdReset
  <2>2. MontOK(montT, i_n, core.t_a, core.t_b)
    BY <1>1 DEF Init, MontOK, MontT!MontReset
  <2>3. MontOK(montM, i_n, core.m_a, core.m_b)
    BY <1>1 DEF Init, MontOK, MontM!MontReset
  <2> QED BY <2>1, <2>2, <2>3 DEF UnitsOK
<1>6. core = CoreReset
  BY DEF Init
<1> HIDE DEF Quiet
<1>7. PrepControl /\ TControl /\ MControl
  BY <1>4, <1>6 DEF CoreReset, PrepControl, TControl, MControl
<1>8. PrepData /\ LoopData /\ SquareData /\ MultiplyData
  BY <1>6 DEF CoreReset, PrepData, LoopData, SquareData, MultiplyData
<1> QED
  BY <1>2, <1>3, <1>5, <1>7, <1>8 DEF IInv

(* Every step keeps the inductive invariant.                               *)
LEMMA NextIInv == IInv /\ [Next]_vars => IInv'
<1>1. ASSUME IInv, Next PROVE IInv'
  <2>1. UnitsOK' /\ PrepControl' /\ TControl' /\ MControl'
    BY <1>1, PrepStep, SquareStep, MultiplyStep DEF UnitsOK
  <2>2. core' \in CoreType
    BY <1>1, TypeStep
  <2>3. PortsOK' /\ PrepData' /\ LoopData' /\ SquareData' /\ MultiplyData'
    BY <1>1, PortsStep, PrepDataStep, LoopDataStep, SquareDataStep, MultiplyDataStep
  <2> QED BY <2>1, <2>2, <2>3 DEF IInv, CoreType, Word
<1>2. ASSUME IInv, UNCHANGED vars PROVE IInv'
  <2>1. /\ core' = core /\ prep' = prep /\ montT' = montT /\ montM' = montM
        /\ i_start' = i_start /\ i_a' = i_a /\ i_d' = i_d /\ i_n' = i_n
    BY <1>2 DEF vars
  <2>2. (core \in CoreType)' /\ PortsOK' /\ UnitsOK'
    BY <1>2, <2>1 DEF IInv, CoreType, Word, PortsOK, UnitsOK
  <2>3. PrepControl' /\ TControl' /\ MControl'
    BY <1>2, <2>1 DEF IInv, PrepControl, TControl, MControl, ExponentBit
  <2>4. PrepData' /\ LoopData'
    BY <1>2, <2>1 DEF IInv, PrepData, LoopData
  <2>5. SquareData' /\ MultiplyData'
    BY <1>2, <2>1 DEF IInv, SquareData, MultiplyData, ExponentBit
  <2> QED BY <2>2, <2>3, <2>4, <2>5 DEF IInv
<1> QED
  BY <1>1, <1>2

(* The inductive invariant holds in every reachable state.                 *)
LEMMA InductiveInvariant == Spec => []IInv
<1> QED
  BY InitIInv, NextIInv, PTL DEF Spec
-----------------------------------------------------------------------------
(* At the start of bit counter_r, t holds a^(2^counter_r) in Montgomery    *)
(* form and m holds a to the exponent bits below counter_r, whatever the   *)
(* width, the odd modulus, the ciphertext and the exponent (Rsa256Core.sv, *)
(* S_MONT_1).                                                              *)
THEOREM SquareAndMultiplyCorrect == Spec => []SquareAndMultiplyInvariant
<1>1. IInv => SquareAndMultiplyInvariant
  BY DEF IInv, LoopData, SquareAndMultiplyInvariant, Square, Partial
<1> QED
  BY <1>1, InductiveInvariant, PTL

(* No finished pulse of a submodule comes when the core is not looking.    *)
THEOREM PulsesCorrect == Spec => []PulsesAreCollected
<1>1. IInv => PulsesAreCollected
  <2> SUFFICES ASSUME IInv PROVE PulsesAreCollected
    OBVIOUS
  <2>1. prep.o_finished => core.state = "PREP_2"
    BY DEF IInv, PrepControl, Quiet
  <2>2. montT.o_finished => core.state = "MONT_2" /\ ~core.t_finished
    BY DEF IInv, TControl, Quiet
  <2>3. montM.o_finished => core.state = "MONT_2" /\ ExponentBit /\ ~core.m_finished
    BY DEF IInv, MControl, Quiet
  <2> QED BY <2>1, <2>2, <2>3 DEF PulsesAreCollected
<1> QED
  BY <1>1, InductiveInvariant, PTL

(* The operands of a running submodule do not change under it.             *)
THEOREM OperandsCorrect == Spec => OperandsHeld
<1> DEFINE Held ==
      /\ montT.state # "IDLE" =>
           <<core.t_a, core.t_b, i_n>>' = <<core.t_a, core.t_b, i_n>>
      /\ montM.state # "IDLE" =>
           <<core.m_a, core.m_b, i_n>>' = <<core.m_a, core.m_b, i_n>>
      /\ prep.state # "IDLE" => <<core.encryptdata, i_n>>' = <<core.encryptdata, i_n>>
<1>1. IInv /\ [Next]_vars => [Held]_vars
  <2> SUFFICES ASSUME IInv, Next PROVE Held
    OBVIOUS
  <2>1. core \in CoreType /\ CoreClock
    BY DEF IInv, Next, Clock
  <2>2. ASSUME montT.state # "IDLE" \/ montM.state # "IDLE"
        PROVE  /\ core'.t_a = core.t_a /\ core'.t_b = core.t_b
               /\ core'.m_a = core.m_a /\ core'.m_b = core.m_b /\ i_n' = i_n
    <3>1. core.state = "MONT_2"
      BY <2>2 DEF IInv, TControl, MControl, Quiet
    <3> QED BY <2>1, <3>1, CollectEffect, PortsHeld
  <2>3. ASSUME prep.state # "IDLE"
        PROVE  core'.encryptdata = core.encryptdata /\ i_n' = i_n
    <3>1. core.state = "PREP_2"
      BY <2>3 DEF IInv, PrepControl, Quiet
    <3> QED BY <2>1, <3>1, OtherEffect, PortsHeld
  <2> QED BY <2>2, <2>3
<1>2. Spec => [][Held]_vars
  BY <1>1, InductiveInvariant, PTL DEF Spec
<1> QED
  BY <1>2 DEF OperandsHeld

(* The answer of a busy core is a^d mod n.                                 *)
LEMMA AnswerStep ==
  ASSUME IInv, Answer
  PROVE  core.m = PowMod(i_a, i_d, i_n)
<1>1. core.counter + 1 = W /\ core.m = Partial(i_a, i_d, i_n, core.counter + 1)
  BY Numbers, WType DEF IInv, LoopData, Answer
<1>2. i_d \in Word
  BY DEF IInv, PortsOK
<1> QED
  BY <1>1, <1>2, EveryBit

(* The core implements the decryption service: after a start it is busy    *)
(* until it shows a^d mod n with a pulse of o_finished, and its outputs    *)
(* change in no other way.                                                 *)
THEOREM ServiceImplemented == Spec => Service!Spec
<1>1. Init => Service!Init
  BY DEF Init, CoreReset, Service!Init
<1>2. IInv /\ [Next]_vars => [Service!Next]_(Service!outputs)
  <2> SUFFICES ASSUME IInv, [Next]_vars PROVE [Service!Next]_(Service!outputs)
    OBVIOUS
  <2> USE DEF Service!Next, Service!outputs, CoreType
  <2>1. core \in CoreType
    BY DEF IInv
  <2>2. CASE UNCHANGED vars
    BY <2>2 DEF vars
  <2>3. CASE Rest
    BY <2>1, <2>3 DEF Rest, Service!Rest
  <2>4. CASE Accept
    BY <2>1, <2>4 DEF Accept, CoreReset, Service!Accept
  <2>5. CASE Answer
    <3>1. core.m = PowMod(i_a, i_d, i_n)
      BY <2>5, AnswerStep
    <3> QED BY <2>1, <2>5, <3>1 DEF Answer, Service!Deliver
  <2>6. CASE StartPrep \/ WaitPrep \/ TakePrep
    BY <2>1, <2>6 DEF StartPrep, WaitPrep, TakePrep, Service!Compute
  <2>7. CASE StartSquare \/ StartSquareAndMultiply \/ NextBit
    BY <2>1, <2>7 DEF StartSquare, StartSquareAndMultiply, NextBit, Service!Compute
  <2>8. CASE WaitMont \/ LeaveMont
    BY <2>1, <2>8 DEF WaitMont, LeaveMont, Collect, Service!Compute
  <2> QED
    BY <2>2, <2>3, <2>4, <2>5, <2>6, <2>7, <2>8 DEF Next, Clock, CoreClock
<1> QED
  BY <1>1, <1>2, InductiveInvariant, PTL DEF Spec, Service!Spec
=============================================================================

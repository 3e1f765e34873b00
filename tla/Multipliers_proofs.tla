------------------------- MODULE Multipliers_proofs -------------------------
(***************************************************************************)
(* The two multipliers of the RSA core, Montgomery_Algorithm and           *)
(* ModuloProduct, are correct for every operand width W.                   *)
(***************************************************************************)
EXTENDS Montgomery_Algorithm, Powers_proofs

VARIABLE prod   \* the registers of the other multiplier

(* ModuloProduct, with ports of the same names.                            *)
Prod == INSTANCE ModuloProduct
-----------------------------------------------------------------------------
(* Montgomery_Algorithm.                                                   *)

(* The ports: an odd modulus above a reduced b, from the start on.         *)
PortsOK ==
  /\ i_start \/ mont.state # "IDLE" \/ mont.o_finished => N % 2 = 1 /\ b < N
  /\ i_start => mont.state = "IDLE"

(* The accumulator times 2^c is the product of the low c bits of a with b, *)
(* up to a multiple of N.                                                  *)
Congruent(x, y) == SameResidue(x, y, N)

RunOK ==
  /\ mont.state = "RUN1" =>
       Congruent(mont.m * Pow2[mont.counter], (a % Pow2[mont.counter]) * b)
  /\ mont.state = "RUN2" => mont.counter = W /\ Congruent(mont.m * Pow2[W], a * b)
  /\ mont.o_finished => mont.state = "IDLE"

IInv ==
  TypeOK /\ PortsOK /\ AccumulatorBelow2N /\ RunOK /\ ResultIsMontgomeryProduct
-----------------------------------------------------------------------------
(* The width is a positive natural number.                                 *)
LEMMA WType == W \in Nat \ {0}
  BY WAssumption DEF WAssumption

(* The powers of two around it, and what fits a register of W + 2 bits.    *)
LEMMA WidePowers ==
  /\ Pow2[W] \in Nat \ {0} /\ Pow2[W] >= 2
  /\ Pow2[W + 1] = 2 * Pow2[W] /\ Pow2[W + 2] = 4 * Pow2[W]
  BY WType, PowersBeyond

LEMMA FitsWide ==
  ASSUME NEW n \in Nat, n < Pow2[W], NEW x \in Nat, x < 4 * n
  PROVE  x < 4 * Pow2[W] /\ x \in 0 .. Pow2[W + 2] - 1 /\ x % Pow2[W + 2] = x
  BY WType, FitsBeyond

USE WType

(* The ranges of the registers in terms of 2^W.                            *)
LEMMA Widths ==
  /\ Pow2[W] \in Nat \ {0} /\ Pow2[W + 2] = 4 * Pow2[W]
  /\ Word = 0 .. Pow2[W] - 1 /\ Acc = 0 .. 4 * Pow2[W] - 1
  BY WidePowers DEF Word, Acc

(* The reset state satisfies the inductive invariant.                      *)
LEMMA InitIInv == Init => IInv
<1> SUFFICES ASSUME Init PROVE IInv
  OBVIOUS
<1> USE DEF Init, MontReset
<1>1. 1 \in Word /\ 0 \in Word /\ 0 \in Acc
  <2>2. Pow2[W] >= 2
    BY WidePowers
  <2> QED BY <2>2, Widths
<1>2. TypeOK
  <2>1. mont \in MontType
    BY <1>1 DEF MontType
  <2>2. i_start \in BOOLEAN /\ N \in Word /\ a \in Word /\ b \in Word
    BY <1>1
  <2> QED BY <2>1, <2>2 DEF TypeOK
<1> QED
  BY <1>2 DEF IInv, PortsOK, AccumulatorBelow2N, RunOK, ResultIsMontgomeryProduct
-----------------------------------------------------------------------------
(* The facts every step of a running multiplication starts from.           *)
LEMMA RunFacts ==
  ASSUME IInv, mont.state # "IDLE"
  PROVE  /\ N \in Nat \ {0} /\ N < Pow2[W] /\ N % 2 = 1
         /\ a \in Nat /\ a < Pow2[W] /\ b \in Nat /\ b < N
         /\ mont.m \in Nat /\ mont.m < 2 * N
         /\ mont.counter \in 0 .. W
         /\ mont.state \in {"RUN1", "RUN2"} /\ mont.o_finished = FALSE
         /\ i_start = FALSE
<1>1. mont \in MontType
  BY DEF IInv, TypeOK
<1>2. mont.m \in Acc /\ mont.counter \in 0 .. W /\ mont.o_finished \in BOOLEAN
      /\ mont.state \in {"RUN1", "RUN2"}
  BY <1>1 DEF MontType
<1>3. N \in Word /\ a \in Word /\ b \in Word /\ i_start \in BOOLEAN
  BY DEF IInv, TypeOK
<1>4. N % 2 = 1 /\ b < N /\ mont.m < 2 * N /\ ~mont.o_finished /\ ~i_start
  BY <1>2 DEF IInv, PortsOK, AccumulatorBelow2N, RunOK
<1>5. N # 0
  BY <1>3, <1>4, Widths
<1>6. N \in Nat /\ N < Pow2[W] /\ a \in Nat /\ a < Pow2[W] /\ b \in Nat
  BY <1>3, Widths
<1>7. mont.m \in Nat
  BY <1>2, Widths
<1>8. N \in Nat \ {0}
  BY <1>5, <1>6
<1>9. mont.o_finished = FALSE /\ i_start = FALSE
  BY <1>4
<1> QED
  BY <1>2, <1>4, <1>6, <1>7, <1>8, <1>9, Zenon

(* One step of S_RUN1: s is the even sum that is shifted right.            *)
LEMMA RunStep ==
  ASSUME IInv, mont.state = "RUN1", mont.counter < W, Hold,
         NEW t \in {0, 1}, NEW s \in Nat, s % 2 = 0,
         s = mont.m + (Bit(a, mont.counter) * b) + (t * N),
         mont' = [mont EXCEPT !.counter = mont.counter + 1, !.m = Halve(s)]
  PROVE  IInv'
<1> DEFINE c == mont.counter
<1>1. /\ N \in Nat \ {0} /\ N < Pow2[W] /\ N % 2 = 1
      /\ a \in Nat /\ a < Pow2[W] /\ b \in Nat /\ b < N
      /\ mont.m \in Nat /\ mont.m < 2 * N
      /\ c \in 0 .. W /\ mont.o_finished = FALSE
  BY RunFacts
<1>2. c \in Nat /\ c + 1 \in 0 .. W
  BY <1>1
<1>3. /\ Halve(s) \in Nat /\ Halve(s) < 2 * N
      /\ Congruent(Halve(s) * Pow2[c + 1], (a % Pow2[c + 1]) * b)
  <2>1. SameResidue(mont.m * Pow2[c], (a % Pow2[c]) * b, N)
    BY DEF IInv, RunOK, Congruent
  <2> QED
    BY <1>1, <1>2, <2>1, MontgomeryIteration DEF Halve, Congruent
<1>4. Halve(s) \in Acc
  <2>1. Halve(s) < 4 * N
    BY <1>1, <1>3
  <2> QED BY <1>1, <1>3, <2>1, FitsWide DEF Acc
<1>7. /\ mont'.m = Halve(s) /\ mont'.counter = c + 1
      /\ mont'.state = "RUN1" /\ mont'.o_finished = FALSE /\ mont' \in MontType
  <2>1. mont \in MontType
    BY DEF IInv, TypeOK
  <2> QED BY <1>1, <1>2, <1>4, <2>1 DEF MontType
<1>8. i_start' = FALSE /\ N' = N /\ a' = a /\ b' = b
  BY DEF Hold
<1>9. TypeOK'
  BY <1>7, <1>8 DEF IInv, TypeOK, Word
<1>10. PortsOK'
  BY <1>1, <1>8 DEF PortsOK
<1>11. AccumulatorBelow2N'
  BY <1>1, <1>3, <1>7, <1>8 DEF AccumulatorBelow2N
<1>12. RunOK'
  BY <1>3, <1>7, <1>8 DEF RunOK, Congruent
<1>13. ResultIsMontgomeryProduct'
  BY <1>7 DEF ResultIsMontgomeryProduct
<1> QED
  BY <1>9, <1>10, <1>11, <1>12, <1>13 DEF IInv

(* A clock that adds b keeps the inductive invariant.                      *)
LEMMA AddBStep == IInv /\ AddB /\ Hold => IInv'
<1> SUFFICES ASSUME IInv, AddB, Hold PROVE IInv'
  OBVIOUS
<1> DEFINE x == mont.m + b
           t == IF x % 2 = 1 THEN 1 ELSE 0
           s == x + (t * N)
<1>1. mont.state = "RUN1" /\ mont.counter < W /\ Bit(a, mont.counter) = 1
  BY DEF AddB
<1>2. N \in Nat /\ N % 2 = 1 /\ mont.m \in Nat /\ b \in Nat /\ x \in Nat
  BY <1>1, RunFacts
<1>3. t \in {0, 1} /\ s % 2 = 0 /\ s \in Nat
  BY <1>2, Parity
<1>4. s = mont.m + (Bit(a, mont.counter) * b) + (t * N)
  BY <1>1, <1>2, <1>3
<1>5. mont' = [mont EXCEPT !.counter = mont.counter + 1, !.m = Halve(s)]
  <2>1. s = mont.m + b + IF (mont.m + b) % 2 = 1 THEN N ELSE 0
    BY <1>2
  <2> QED BY <2>1 DEF AddB
<1> HIDE DEF x, t, s
<1> QED
  BY <1>1, <1>3, <1>4, <1>5, RunStep

(* A clock that does not add b keeps the inductive invariant.              *)
LEMMA SkipBStep == IInv /\ SkipB /\ Hold => IInv'
<1> SUFFICES ASSUME IInv, SkipB, Hold PROVE IInv'
  OBVIOUS
<1> DEFINE x == mont.m
           t == IF x % 2 = 1 THEN 1 ELSE 0
           s == x + (t * N)
<1>1. mont.state = "RUN1" /\ mont.counter < W /\ Bit(a, mont.counter) = 0
  BY DEF SkipB
<1>2. N \in Nat /\ N % 2 = 1 /\ mont.m \in Nat /\ b \in Nat /\ x \in Nat
  BY <1>1, RunFacts
<1>3. t \in {0, 1} /\ s % 2 = 0 /\ s \in Nat
  BY <1>2, Parity
<1>4. s = mont.m + (Bit(a, mont.counter) * b) + (t * N)
  BY <1>1, <1>2, <1>3
<1>5. mont' = [mont EXCEPT !.counter = mont.counter + 1, !.m = Halve(s)]
  <2>1. s = mont.m + IF mont.m % 2 = 1 THEN N ELSE 0
    BY <1>2
  <2> QED BY <2>1 DEF SkipB
<1> HIDE DEF x, t, s
<1> QED
  BY <1>1, <1>3, <1>4, <1>5, RunStep

(* Waiting, and being given new operands, keeps the inductive invariant.   *)
LEMMA IdleStep == IInv /\ Idle /\ (Request \/ Hold) => IInv'
<1> SUFFICES ASSUME IInv, Idle, Request \/ Hold PROVE IInv'
  OBVIOUS
<1>1. mont \in MontType /\ mont.state = "IDLE"
  BY DEF IInv, TypeOK, Idle
<1>2. mont'.state = "IDLE" /\ mont'.o_finished = FALSE /\ mont' \in MontType
  BY <1>1 DEF Idle, MontType
<1>3. i_start' \in BOOLEAN /\ N' \in Word /\ a' \in Word /\ b' \in Word
  <2>1. CASE Hold
    BY <2>1 DEF Hold, IInv, TypeOK, Word
  <2>2. CASE Request
    <3>1. N' \in 0 .. Pow2[W] - 1 /\ b' \in 0 .. N' - 1
      BY <2>2, Widths DEF Request
    <3>2. b' \in 0 .. Pow2[W] - 1
      BY <3>1, Widths, WordBelow
    <3> QED BY <2>2, <3>2 DEF Request, Word
  <2> QED BY <2>1, <2>2
<1>4. i_start' => N' % 2 = 1 /\ b' < N'
  <2>1. CASE Hold
    BY <2>1 DEF Hold
  <2>2. CASE Request
    <3>1. N' \in 0 .. Pow2[W] - 1 /\ N' % 2 = 1 /\ b' \in 0 .. N' - 1
      BY <2>2, Widths DEF Request
    <3>2. b' < N'
      BY <3>1, Widths, WordBelow
    <3> QED BY <3>1, <3>2
  <2> QED BY <2>1, <2>2
<1> QED
  BY <1>2, <1>3, <1>4 DEF IInv, TypeOK, Word, PortsOK, AccumulatorBelow2N, RunOK,
                          ResultIsMontgomeryProduct

(* Starting on the operands keeps the inductive invariant.                 *)
LEMMA StartStep == IInv /\ Start /\ Hold => IInv'
<1> SUFFICES ASSUME IInv, Start, Hold PROVE IInv'
  OBVIOUS
<1>1. /\ i_start' = FALSE /\ N' = N /\ a' = a /\ b' = b
      /\ N \in Word /\ a \in Word /\ b \in Word
      /\ N % 2 = 1 /\ b < N
  BY DEF IInv, TypeOK, PortsOK, Start, Hold
<1>2. mont' = [m |-> 0, o_finished |-> FALSE, state |-> "RUN1", counter |-> 0]
  BY DEF Start
<1>3. N \in Nat /\ a \in Nat /\ b \in Nat /\ 0 < N
  BY <1>1, Widths
<1>4. mont' \in MontType
  BY <1>2, Widths DEF MontType
<1>5. Congruent(0 * Pow2[0], (a % Pow2[0]) * b)
  <2>1. Pow2[0] = 1 /\ a % 1 = 0
    BY <1>3, Pow2Facts
  <2>2. 0 * Pow2[0] = ((a % Pow2[0]) * b) + (0 * N)
    BY <2>1, <1>3
  <2> QED BY <2>2 DEF Congruent, SameResidue
<1>6. TypeOK'
  BY <1>1, <1>4 DEF TypeOK, Word
<1>7. RunOK'
  BY <1>1, <1>2, <1>5 DEF RunOK, Congruent
<1> QED
  BY <1>1, <1>2, <1>3, <1>6, <1>7
     DEF IInv, PortsOK, AccumulatorBelow2N, ResultIsMontgomeryProduct

(* Leaving the bit loop keeps the inductive invariant.                     *)
LEMMA LastBitStep == IInv /\ LastBit /\ Hold => IInv'
<1> SUFFICES ASSUME IInv, LastBit, Hold PROVE IInv'
  OBVIOUS
<1>1. /\ N \in Nat \ {0} /\ N % 2 = 1 /\ a \in Nat /\ a < Pow2[W]
      /\ b \in Nat /\ b < N /\ mont.m \in Nat /\ mont.m < 2 * N
      /\ mont.counter \in 0 .. W /\ mont.o_finished = FALSE
  BY RunFacts DEF LastBit
<1>2. mont.counter = W
  BY <1>1 DEF LastBit
<1>3. /\ mont'.m = mont.m /\ mont'.counter = W /\ mont'.state = "RUN2"
      /\ mont'.o_finished = FALSE /\ mont' \in MontType
  BY <1>1, <1>2 DEF LastBit, IInv, TypeOK, MontType
<1>4. i_start' = FALSE /\ N' = N /\ a' = a /\ b' = b
  BY DEF Hold
<1>5. Congruent(mont.m * Pow2[W], a * b)
  <2>1. a % Pow2[W] = a
    BY <1>1, Widths, ModSmall
  <2> QED BY <1>2, <2>1 DEF IInv, RunOK, LastBit
<1>6. RunOK'
  BY <1>3, <1>4, <1>5 DEF RunOK, Congruent
<1>7. TypeOK'
  BY <1>3, <1>4 DEF IInv, TypeOK, Word
<1> QED
  BY <1>1, <1>3, <1>4, <1>6, <1>7
     DEF IInv, PortsOK, AccumulatorBelow2N, ResultIsMontgomeryProduct

(* The last subtraction keeps the inductive invariant and gives the result. *)
LEMMA ReduceStep == IInv /\ Reduce /\ Hold => IInv'
<1> SUFFICES ASSUME IInv, Reduce, Hold PROVE IInv'
  OBVIOUS
<1> DEFINE Q == Pow2[W]
           r == IF mont.m >= N THEN mont.m - N ELSE mont.m
<1>1. /\ N \in Nat \ {0} /\ N % 2 = 1 /\ a \in Nat
      /\ b \in Nat /\ b < N /\ mont.m \in Nat /\ mont.m < 2 * N
      /\ mont.counter \in 0 .. W /\ Q \in Nat \ {0} /\ N < Q
  BY RunFacts, Widths DEF Reduce
<1>2. r \in Nat /\ r < N
  BY <1>1
<1>3. /\ mont'.m = r /\ mont'.state = "IDLE" /\ mont'.o_finished = TRUE
      /\ mont' \in MontType
  <2>1. r \in Acc
    <3>1. \A x, n, w \in Nat : x < n /\ n < w => x \in 0 .. 4 * w - 1
      OBVIOUS
    <3>2. Acc = 0 .. 4 * Q - 1
      BY Widths
    <3> HIDE DEF Q, r
    <3> QED BY <1>1, <1>2, <3>1, <3>2
  <2> QED BY <2>1 DEF Reduce, IInv, TypeOK, MontType
<1>4. i_start' = FALSE /\ N' = N /\ a' = a /\ b' = b
  BY DEF Hold
<1>5. (r * Q) % N = (a * b) % N
  <2>1. SameResidue(mont.m * Q, a * b, N)
    BY DEF IInv, RunOK, Congruent, Reduce
  <2>2. a * b \in Nat
    BY <1>1
  <2> DEFINE m == mont.m
             y == a * b
  <2>3. /\ N \in Nat \ {0} /\ y \in Nat /\ m \in Nat /\ m < 2 * N /\ Q \in Nat
        /\ SameResidue(m * Q, y, N)
    BY <1>1, <2>1, <2>2
  <2>4. r = IF m >= N THEN m - N ELSE m
    OBVIOUS
  <2> HIDE DEF Q, m, y, r
  <2>5. ((IF m >= N THEN m - N ELSE m) * Q) % N = y % N
    BY <2>3, MontgomeryReduction, Zenon
  <2>6. (r * Q) % N = y % N
    BY <2>4, <2>5, Zenon
  <2> QED BY <2>6 DEF y
<1>6. ResultIsMontgomeryProduct'
  BY <1>2, <1>3, <1>4, <1>5 DEF ResultIsMontgomeryProduct
<1>7. TypeOK'
  BY <1>3, <1>4 DEF IInv, TypeOK, Word
<1> QED
  BY <1>1, <1>3, <1>4, <1>6, <1>7 DEF IInv, PortsOK, AccumulatorBelow2N, RunOK

(* Every step keeps the inductive invariant.                               *)
LEMMA NextIInv == IInv /\ [Next]_vars => IInv'
<1>1. CASE UNCHANGED vars
  BY <1>1 DEF vars, IInv, TypeOK, Word, PortsOK, AccumulatorBelow2N, RunOK,
              Congruent, ResultIsMontgomeryProduct
<1>2. ASSUME Clock, Request PROVE Idle
  BY <1>2 DEF Clock, Request, Idle, Start, AddB, SkipB, LastBit, Reduce
<1>3. Next => \/ Idle /\ (Request \/ Hold)
              \/ (Start \/ AddB \/ SkipB \/ LastBit \/ Reduce) /\ Hold
  BY <1>2 DEF Next, Clock
<1> QED
  BY <1>1, <1>3, IdleStep, StartStep, AddBStep, SkipBStep, LastBitStep, ReduceStep

(* The inductive invariant holds in every reachable state.                 *)
LEMMA InductiveInvariant == Spec => []IInv
<1> QED
  BY InitIInv, NextIInv, PTL DEF Spec
-----------------------------------------------------------------------------
(* Every register of the multiplier keeps to its width, for every W.       *)
THEOREM TypeCorrect == Spec => []TypeOK
<1>1. IInv => TypeOK
  BY DEF IInv
<1> QED
  BY <1>1, InductiveInvariant, PTL

(* The accumulator of a running multiplication stays below 2N.             *)
THEOREM AccumulatorBounded == Spec => []AccumulatorBelow2N
<1>1. IInv => AccumulatorBelow2N
  BY DEF IInv
<1> QED
  BY <1>1, InductiveInvariant, PTL

(* After counter_r bits the accumulator is the product of the bits of a    *)
(* seen so far with b, divided by 2^counter_r modulo N.                    *)
THEOREM PartialProductCorrect == Spec => []PartialProduct
<1>1. ASSUME NEW x \in Nat, NEW y \in Nat, N \in Nat \ {0}, Congruent(x, y)
      PROVE  x % N = y % N
  BY <1>1, ResidueMod DEF Congruent
<1>2. IInv => PartialProduct
  <2> SUFFICES ASSUME IInv, mont.state # "IDLE"
               PROVE  (mont.m * Pow2[mont.counter]) % N
                        = ((a % Pow2[mont.counter]) * b) % N
    BY DEF PartialProduct
  <2> DEFINE P == Pow2[mont.counter]
  <2>1. P \in Nat \ {0} /\ mont.m \in Nat /\ b \in Nat /\ a \in Nat /\ N \in Nat \ {0}
    <3>1. mont.counter \in Nat /\ b \in Nat /\ mont.m \in Nat /\ a \in Nat
          /\ N \in Nat \ {0}
      BY RunFacts
    <3> QED BY <3>1, Pow2Facts
  <2>2. a % P \in 0 .. P - 1
    BY <2>1, DivMod
  <2>3. mont.m * P \in Nat /\ (a % P) * b \in Nat
    BY <2>1, <2>2
  <2>4. Congruent(mont.m * P, (a % P) * b)
    <3>1. CASE mont.state = "RUN1"
      BY <3>1 DEF IInv, RunOK
    <3>2. CASE mont.state = "RUN2"
      <4>1. mont.counter = W /\ a < Pow2[W]
        BY <3>2, RunFacts DEF IInv, RunOK
      <4>2. a % P = a
        BY <2>1, <4>1, ModSmall
      <4> QED BY <3>2, <4>1, <4>2 DEF IInv, RunOK
    <3> QED BY <3>1, <3>2, RunFacts
  <2> HIDE DEF P
  <2>5. (mont.m * P) % N = ((a % P) * b) % N
    BY <1>1, <2>1, <2>3, <2>4
  <2> QED BY <2>5 DEF P
<1> QED
  BY <1>2, InductiveInvariant, PTL

(* No sum overflows the two extra bits of m_r (Montgomery_Algorithm.sv     *)
(* 21-23 and 52-80).                                                       *)
THEOREM NoCarryLost == Spec => []SumFits
<1>1. IInv => SumFits
  <2> SUFFICES ASSUME IInv, mont.state # "IDLE" PROVE mont.m + b + N < Pow2[W + 2]
    BY DEF SumFits
  <2>1. /\ N \in Nat /\ N < Pow2[W] /\ b \in Nat /\ b < N
        /\ mont.m \in Nat /\ mont.m < 2 * N
    BY RunFacts
  <2>2. Pow2[W] \in Nat /\ Pow2[W + 2] = 4 * Pow2[W]
    BY Widths
  <2> QED BY <2>1, <2>2
<1> QED
  BY <1>1, InductiveInvariant, PTL

(* The multiplier computes a * b * 2^-W mod N: the result is reduced, and  *)
(* times 2^W it is congruent to the product of the operands.               *)
THEOREM MontgomeryCorrect == Spec => []ResultIsMontgomeryProduct
<1>1. IInv => ResultIsMontgomeryProduct
  BY DEF IInv
<1> QED
  BY <1>1, InductiveInvariant, PTL
-----------------------------------------------------------------------------
(* ModuloProduct.                                                          *)

(* The ports: a reduced b and a positive N, from the start to the answer.  *)
ProductPortsOK ==
  /\ i_start \/ prod.state = "RUN" \/ prod.o_finished => N # 0 /\ b < N
  /\ i_start => prod.state = "IDLE"

ProductRunOK ==
  /\ prod.state = "RUN" =>
       /\ Congruent(b * Pow2[prod.counter], prod.t)
       /\ Congruent((a % Pow2[prod.counter]) * b, prod.m)
  /\ prod.o_finished => prod.state = "IDLE"

ProductIInv == Prod!TypeOK /\ ProductPortsOK /\ Prod!Reduced /\ ProductRunOK /\ Prod!ResultIsProductModN
(* Its powers and bits are the same ones.                                  *)
LEMMA SamePowers ==
  /\ Prod!Pow2 = Pow2
  /\ \A x, i : Prod!Bit(x, i) = Bit(x, i)
<1>1. Prod!Pow2 = Pow2
  BY DEF Prod!Pow2, Pow2
<1>2. \A x, i : Prod!Bit(x, i) = Bit(x, i)
  BY <1>1 DEF Prod!Bit, Bit
<1> QED
  BY <1>1, <1>2

(* The ranges of the registers in terms of 2^W.                            *)
LEMMA ProductWidths ==
  /\ Pow2[W] \in Nat \ {0} /\ Pow2[W + 1] = 2 * Pow2[W] /\ Pow2[W + 2] = 4 * Pow2[W]
  /\ Prod!Word = 0 .. Pow2[W] - 1 /\ Prod!Acc = 0 .. 4 * Pow2[W] - 1
  BY WidePowers, SamePowers DEF Prod!Word, Prod!Acc

(* The reset state satisfies the inductive invariant.                      *)
LEMMA ProductInitIInv == Prod!Init => ProductIInv
<1> SUFFICES ASSUME Prod!Init PROVE ProductIInv
  OBVIOUS
<1> USE DEF Prod!Init, Prod!ProdReset
<1>1. 1 \in Prod!Word /\ 0 \in Prod!Word /\ 0 \in Prod!Acc /\ 0 \in 0 .. Pow2[W + 1] - 1
  <2>1. Pow2[W] >= 2
    BY WidePowers
  <2> QED BY <2>1, ProductWidths
<1>2. Prod!TypeOK
  <2>1. prod \in Prod!ProdType
    BY <1>1 DEF Prod!ProdType
  <2>2. i_start \in BOOLEAN /\ N \in Prod!Word /\ b \in Prod!Word
        /\ a \in 0 .. Pow2[W + 1] - 1
    BY <1>1
  <2> QED BY <2>1, <2>2, SamePowers DEF Prod!TypeOK
<1> QED
  BY <1>2 DEF ProductIInv, ProductPortsOK, Prod!Reduced, ProductRunOK,
     Prod!ResultIsProductModN
-----------------------------------------------------------------------------
(* What holds of a running multiplication.                                 *)
LEMMA ProductRunFacts ==
  ASSUME ProductIInv, prod.state = "RUN"
  PROVE  /\ N \in Nat \ {0} /\ N < Pow2[W] /\ b \in Nat /\ b < N
         /\ a \in Nat /\ a < Pow2[W + 1]
         /\ prod.m \in Nat /\ prod.m < N /\ prod.t \in Nat /\ prod.t <= N
         /\ prod.counter \in 0 .. W + 1
         /\ prod.o_finished = FALSE /\ i_start = FALSE /\ prod \in Prod!ProdType
<1>1. prod \in Prod!ProdType
  BY DEF ProductIInv, Prod!TypeOK
<1>2. prod.m \in Prod!Acc /\ prod.t \in Prod!Acc /\ prod.counter \in 0 .. W + 1
      /\ prod.o_finished \in BOOLEAN
  BY <1>1 DEF Prod!ProdType
<1>3. N \in Prod!Word /\ a \in 0 .. Pow2[W + 1] - 1 /\ b \in Prod!Word /\ i_start \in BOOLEAN
  BY SamePowers DEF ProductIInv, Prod!TypeOK
<1>4. N # 0 /\ b < N /\ prod.m < N /\ prod.t <= N /\ ~prod.o_finished /\ ~i_start
  BY <1>2 DEF ProductIInv, ProductPortsOK, Prod!Reduced, ProductRunOK
<1>5. N \in Nat \ {0} /\ N < Pow2[W] /\ b \in Nat
  BY <1>3, <1>4, ProductWidths
<1>6. a \in Nat /\ a < Pow2[W + 1]
  <2>1. Pow2[W + 1] \in Nat
    BY ProductWidths
  <2> QED BY <1>3, <2>1
<1>7. prod.m \in Nat /\ prod.t \in Nat
  BY <1>2, ProductWidths
<1> QED
  BY <1>1, <1>2, <1>3, <1>4, <1>5, <1>6, <1>7

(* Doubling t: the result may be N itself, and stands for b * 2^(c + 1).   *)
LEMMA Doubling ==
  ASSUME ProductIInv, prod.state = "RUN", prod.counter <= W
  PROVE  /\ Prod!DoubleT(prod.t) \in 0 .. N
         /\ Congruent(b * Pow2[prod.counter + 1], Prod!DoubleT(prod.t))
<1>1. /\ N \in Nat \ {0} /\ N < Pow2[W] /\ b \in Nat
      /\ prod.t \in Nat /\ prod.t <= N /\ prod.counter \in Nat
  BY ProductRunFacts
<1>2. SameResidue(b * Pow2[prod.counter], prod.t, N)
  BY DEF ProductIInv, ProductRunOK, Congruent
<1> QED
  BY <1>1, <1>2, DoublingIteration, SamePowers DEF Prod!DoubleT, Prod!Plus, Congruent

(* Adding t to m, when bit counter_r of a is 1.                            *)
LEMMA Adding ==
  ASSUME ProductIInv, prod.state = "RUN", prod.counter <= W, Bit(a, prod.counter) = 1
  PROVE  /\ Prod!AddT(prod.m, prod.t) \in 0 .. N - 1
         /\ Congruent((a % Pow2[prod.counter + 1]) * b, Prod!AddT(prod.m, prod.t))
<1>1. /\ N \in Nat \ {0} /\ N < Pow2[W] /\ b \in Nat /\ a \in Nat
      /\ prod.t \in Nat /\ prod.t <= N /\ prod.m \in Nat /\ prod.m < N
      /\ prod.counter \in Nat
  BY ProductRunFacts
<1>2. /\ SameResidue(b * Pow2[prod.counter], prod.t, N)
      /\ SameResidue((a % Pow2[prod.counter]) * b, prod.m, N)
  BY DEF ProductIInv, ProductRunOK, Congruent
<1> QED
  BY <1>1, <1>2, AddingIteration, SamePowers DEF Prod!AddT, Prod!Plus, Congruent

(* One step of S_RUN, with the accumulator it leaves behind.               *)
LEMMA ProductRunStep ==
  ASSUME ProductIInv, prod.state = "RUN", prod.counter <= W, Prod!Hold,
         NEW d \in 0 .. N - 1, Congruent((a % Pow2[prod.counter + 1]) * b, d),
         prod' = [prod EXCEPT !.m = d, !.t = Prod!DoubleT(prod.t),
                              !.counter = prod.counter + 1]
  PROVE  ProductIInv'
<1>1. /\ N \in Nat \ {0} /\ N < Pow2[W] /\ b < N
      /\ prod.counter \in 0 .. W + 1 /\ prod.o_finished = FALSE
      /\ prod \in Prod!ProdType
  BY ProductRunFacts
<1>2. /\ Prod!DoubleT(prod.t) \in Nat /\ Prod!DoubleT(prod.t) <= N
      /\ Congruent(b * Pow2[prod.counter + 1], Prod!DoubleT(prod.t))
  <2>1. \A x \in 0 .. N : x \in Nat /\ x <= N
    BY <1>1
  <2> QED BY <2>1, Doubling
<1>3. i_start' = FALSE /\ N' = N /\ a' = a /\ b' = b
  BY DEF Prod!Hold
<1>4. d \in Prod!Acc /\ Prod!DoubleT(prod.t) \in Prod!Acc /\ prod.counter + 1 \in 0 .. W + 1
  <2>1. \A x, n, w \in Nat : x <= n /\ n < w => x \in 0 .. 4 * w - 1
    OBVIOUS
  <2>2. Pow2[W] \in Nat /\ Prod!Acc = 0 .. 4 * Pow2[W] - 1
    BY ProductWidths
  <2>3. d <= N
    BY <1>1
  <2>4. d \in Prod!Acc
    BY <1>1, <2>1, <2>2, <2>3
  <2>5. Prod!DoubleT(prod.t) \in Prod!Acc
    BY <1>1, <1>2, <2>1, <2>2
  <2>6. prod.counter + 1 \in 0 .. W + 1
    BY <1>1
  <2> QED BY <2>4, <2>5, <2>6
<1>5. /\ prod'.m = d /\ prod'.t = Prod!DoubleT(prod.t)
      /\ prod'.counter = prod.counter + 1 /\ prod'.state = "RUN"
      /\ prod'.o_finished = FALSE /\ prod' \in Prod!ProdType
  BY <1>1, <1>4 DEF Prod!ProdType
<1>6. Prod!TypeOK'
  BY <1>3, <1>5 DEF ProductIInv, Prod!TypeOK, Prod!Word
<1>7. ProductRunOK'
  BY <1>2, <1>3, <1>5 DEF ProductRunOK, Congruent
<1> QED
  BY <1>1, <1>2, <1>3, <1>5, <1>6, <1>7
     DEF ProductIInv, ProductPortsOK, Prod!Reduced, Prod!ResultIsProductModN

(* A clock that adds t_r keeps the inductive invariant.                    *)
LEMMA ProductAccumulateStep == ProductIInv /\ Prod!Accumulate /\ Prod!Hold => ProductIInv'
<1> SUFFICES ASSUME ProductIInv, Prod!Accumulate, Prod!Hold PROVE ProductIInv'
  OBVIOUS
<1>1. prod.state = "RUN" /\ prod.counter <= W /\ Bit(a, prod.counter) = 1
      /\ prod' = [prod EXCEPT !.m = Prod!AddT(prod.m, prod.t), !.t = Prod!DoubleT(prod.t),
                              !.counter = prod.counter + 1]
  BY SamePowers DEF Prod!Accumulate
<1> QED
  BY <1>1, Adding, ProductRunStep

(* A clock that only doubles t_r keeps the inductive invariant.            *)
LEMMA ProductSkipStep == ProductIInv /\ Prod!Skip /\ Prod!Hold => ProductIInv'
<1> SUFFICES ASSUME ProductIInv, Prod!Skip, Prod!Hold PROVE ProductIInv'
  OBVIOUS
<1>1. prod.state = "RUN" /\ prod.counter <= W /\ Bit(a, prod.counter) = 0
  BY SamePowers DEF Prod!Skip
<1>2. /\ prod.m \in Nat /\ prod.m < N /\ a \in Nat /\ prod.counter \in Nat
      /\ prod \in Prod!ProdType
  BY <1>1, ProductRunFacts
<1>3. a % Pow2[prod.counter + 1] = a % Pow2[prod.counter]
  BY <1>1, <1>2, SkippingIteration
<1>4. Congruent((a % Pow2[prod.counter + 1]) * b, prod.m)
  BY <1>1, <1>3 DEF ProductIInv, ProductRunOK
<1>5. prod' = [prod EXCEPT !.m = prod.m, !.t = Prod!DoubleT(prod.t),
                           !.counter = prod.counter + 1]
  BY <1>2 DEF Prod!Skip, Prod!ProdType
<1>6. prod.m \in 0 .. N - 1
  BY <1>1, ProductRunFacts
<1> QED
  BY <1>1, <1>4, <1>5, <1>6, ProductRunStep

(* Leaving the bit loop keeps the inductive invariant and gives the result. *)
LEMMA ProductFinishStep == ProductIInv /\ Prod!Finish /\ Prod!Hold => ProductIInv'
<1> SUFFICES ASSUME ProductIInv, Prod!Finish, Prod!Hold PROVE ProductIInv'
  OBVIOUS
<1>1. /\ N \in Nat \ {0} /\ b \in Nat /\ b < N /\ a \in Nat /\ a < Pow2[W + 1]
      /\ prod.m \in Nat /\ prod.m < N /\ prod.counter \in 0 .. W + 1
      /\ prod \in Prod!ProdType
  BY ProductRunFacts DEF Prod!Finish
<1>2. prod.counter = W + 1
  BY <1>1 DEF Prod!Finish
<1>3. /\ prod'.m = prod.m /\ prod'.state = "IDLE" /\ prod'.o_finished = TRUE
      /\ prod' \in Prod!ProdType
  BY <1>1 DEF Prod!Finish, Prod!ProdType
<1>4. i_start' = FALSE /\ N' = N /\ a' = a /\ b' = b
  BY DEF Prod!Hold
<1>5. prod.m = (a * b) % N
  <2>1. a % Pow2[W + 1] = a
    <3>1. Pow2[W + 1] \in Nat \ {0}
      BY ProductWidths
    <3>2. a \in 0 .. Pow2[W + 1] - 1
      BY <1>1, <3>1
    <3> QED BY <3>1, <3>2, ModSmall
  <2>2. SameResidue((a % Pow2[prod.counter]) * b, prod.m, N)
    BY DEF ProductIInv, ProductRunOK, Prod!Finish, Congruent
  <2>3. SameResidue(a * b, prod.m, N)
    BY <1>2, <2>1, <2>2
  <2>4. prod.m % N = prod.m /\ a * b \in Nat
    BY <1>1, ModSmall
  <2> QED BY <1>1, <2>3, <2>4, ResidueMod
<1>6. Prod!TypeOK'
  BY <1>3, <1>4 DEF ProductIInv, Prod!TypeOK, Prod!Word
<1>7. Prod!ResultIsProductModN'
  BY <1>3, <1>4, <1>5 DEF Prod!ResultIsProductModN
<1> QED
  BY <1>1, <1>3, <1>4, <1>6, <1>7 DEF ProductIInv, ProductPortsOK, Prod!Reduced,
     ProductRunOK

(* Starting on the operands keeps the inductive invariant.                 *)
LEMMA ProductStartStep == ProductIInv /\ Prod!Start /\ Prod!Hold => ProductIInv'
<1> SUFFICES ASSUME ProductIInv, Prod!Start, Prod!Hold PROVE ProductIInv'
  OBVIOUS
<1>1. /\ i_start' = FALSE /\ N' = N /\ a' = a /\ b' = b
      /\ N \in Prod!Word /\ a \in 0 .. Pow2[W + 1] - 1 /\ b \in Prod!Word
      /\ N # 0 /\ b < N
  BY SamePowers DEF ProductIInv, Prod!TypeOK, ProductPortsOK, Prod!Start, Prod!Hold
<1>2. prod' = [m |-> 0, t |-> b, o_finished |-> FALSE, state |-> "RUN", counter |-> 0]
  BY DEF Prod!Start
<1>3. N \in Nat \ {0} /\ a \in Nat /\ b \in Nat /\ b \in Prod!Acc /\ 0 \in Prod!Acc
  <2>1. Pow2[W] \in Nat \ {0} /\ Pow2[W + 1] \in Nat
    BY ProductWidths
  <2>2. N \in Nat \ {0} /\ a \in Nat /\ b \in 0 .. Pow2[W] - 1
    BY <1>1, <2>1, ProductWidths
  <2>3. \A w \in Nat \ {0} : 0 .. w - 1 \subseteq 0 .. 4 * w - 1 /\ 0 \in 0 .. w - 1
    OBVIOUS
  <2>4. b \in Prod!Acc /\ 0 \in Prod!Acc
    BY <2>1, <2>2, <2>3, ProductWidths
  <2> QED BY <2>2, <2>4
<1>4. prod' \in Prod!ProdType
  BY <1>2, <1>3 DEF Prod!ProdType
<1>5. Congruent(b * Pow2[0], b) /\ Congruent((a % Pow2[0]) * b, 0)
  <2>1. Pow2[0] = 1 /\ a % 1 = 0
    BY <1>3, Pow2Facts
  <2>2. b * Pow2[0] = b + (0 * N) /\ (a % Pow2[0]) * b = 0 + (0 * N)
    BY <2>1, <1>3
  <2> QED BY <2>2 DEF Congruent, SameResidue
<1>6. Prod!TypeOK'
  BY <1>1, <1>4, SamePowers DEF Prod!TypeOK, Prod!Word
<1>7. ProductRunOK'
  BY <1>1, <1>2, <1>5 DEF ProductRunOK, Congruent
<1> QED
  BY <1>1, <1>2, <1>3, <1>6, <1>7 DEF ProductIInv, ProductPortsOK, Prod!Reduced,
     Prod!ResultIsProductModN

(* Waiting, and being given new operands, keeps the inductive invariant.   *)
LEMMA ProductIdleStep == ProductIInv /\ Prod!Idle /\ (Prod!Request \/ Prod!Hold) => ProductIInv'
<1> SUFFICES ASSUME ProductIInv, Prod!Idle, Prod!Request \/ Prod!Hold PROVE ProductIInv'
  OBVIOUS
<1>1. prod \in Prod!ProdType /\ prod.state = "IDLE"
  BY DEF ProductIInv, Prod!TypeOK, Prod!Idle
<1>2. prod'.state = "IDLE" /\ prod'.o_finished = FALSE /\ prod' \in Prod!ProdType
  BY <1>1 DEF Prod!Idle, Prod!ProdType
<1>3. /\ i_start' \in BOOLEAN /\ N' \in Prod!Word /\ b' \in Prod!Word
      /\ a' \in 0 .. Pow2[W + 1] - 1
      /\ i_start' => N' # 0 /\ b' < N'
  <2>1. CASE Prod!Hold
    BY <2>1, SamePowers DEF Prod!Hold, ProductIInv, Prod!TypeOK, Prod!Word
  <2>2. CASE Prod!Request
    <3>1. N' \in 0 .. Pow2[W] - 1 /\ N' # 0 /\ b' \in 0 .. N' - 1
      BY <2>2, ProductWidths DEF Prod!Request
    <3>2. b' \in 0 .. Pow2[W] - 1 /\ b' < N'
      BY <3>1, ProductWidths, WordBelow
    <3> QED BY <2>2, <3>1, <3>2, SamePowers DEF Prod!Request, Prod!Word
  <2> QED BY <2>1, <2>2
<1> QED
  BY <1>2, <1>3, SamePowers DEF ProductIInv, Prod!TypeOK, Prod!Word, ProductPortsOK,
     Prod!Reduced, ProductRunOK, Prod!ResultIsProductModN

(* Every step keeps the inductive invariant.                               *)
LEMMA ProductNextIInv == ProductIInv /\ [Prod!Next]_(Prod!vars) => ProductIInv'
<1>1. CASE UNCHANGED Prod!vars
  BY <1>1 DEF Prod!vars, ProductIInv, Prod!TypeOK, Prod!Word, ProductPortsOK,
     Prod!Reduced, ProductRunOK, Congruent,
              Prod!ResultIsProductModN
<1>2. ASSUME Prod!Clock, Prod!Request PROVE Prod!Idle
  BY <1>2 DEF Prod!Clock, Prod!Request, Prod!Idle, Prod!Start, Prod!Accumulate,
     Prod!Skip, Prod!Finish
<1>3. Prod!Next =>
        \/ Prod!Idle /\ (Prod!Request \/ Prod!Hold)
        \/ (Prod!Start \/ Prod!Accumulate \/ Prod!Skip \/ Prod!Finish) /\ Prod!Hold
  BY <1>2 DEF Prod!Next, Prod!Clock
<1> QED
  BY <1>1, <1>3, ProductIdleStep, ProductStartStep, ProductAccumulateStep,
     ProductSkipStep, ProductFinishStep

(* The inductive invariant holds in every reachable state.                 *)
LEMMA ProductInductiveInvariant == Prod!Spec => []ProductIInv
<1> QED
  BY ProductInitIInv, ProductNextIInv, PTL DEF Prod!Spec
-----------------------------------------------------------------------------
(* Every register of the unit keeps to its width, for every W.             *)
THEOREM ProductTypeCorrect == Prod!Spec => []Prod!TypeOK
<1>1. ProductIInv => Prod!TypeOK
  BY DEF ProductIInv
<1> QED
  BY <1>1, ProductInductiveInvariant, PTL

(* t_r may reach N, since ModuloProduct.sv 67 compares with >, but m_r     *)
(* stays below N and t_r never passes it: one subtraction is enough.       *)
THEOREM ReducedCorrect == Prod!Spec => []Prod!Reduced
<1>1. ProductIInv => Prod!Reduced
  BY DEF ProductIInv
<1> QED
  BY <1>1, ProductInductiveInvariant, PTL

(* The unit computes a * b mod N.                                          *)
THEOREM ProductCorrect == Prod!Spec => []Prod!ResultIsProductModN
<1>1. ProductIInv => Prod!ResultIsProductModN
  BY DEF ProductIInv
<1> QED
  BY <1>1, ProductInductiveInvariant, PTL
=============================================================================

------------------------ MODULE Montgomery_Algorithm ------------------------
(***************************************************************************)
(* Lab 2, Montgomery_Algorithm.sv: the bit-serial Montgomery multiplier.   *)
(* A register file of one record, one action per branch of the             *)
(* combinational block, one step per rising edge of i_clk.  The inputs     *)
(* i_start, N, a, b are the ports; Rsa256Core drives them, and the         *)
(* standalone specification below drives them as Rsa256Core does.          *)
(***************************************************************************)
EXTENDS Powers

CONSTANT W          \* width of the operands; 256 in the source
ASSUME WAssumption == W \in Nat \ {0}

VARIABLES i_start, N, a, b,   \* input ports
          mont                \* the registers m_r, o_finished_r, state_r, counter_r

ports == <<i_start, N, a, b>>
vars == <<i_start, N, a, b, mont>>

Word == 0 .. Pow2[W] - 1
Acc  == 0 .. Pow2[W + 2] - 1    \* m_r is two bits wider than the operands

MontReset == [m |-> 0, o_finished |-> FALSE, state |-> "IDLE", counter |-> 0]

(* A sum is formed in W + 2 bits and then shifted right by one. *)
Halve(x) == (x % Pow2[W + 2]) \div 2

Idle ==
  /\ mont.state = "IDLE"
  /\ ~i_start
  /\ mont' = [mont EXCEPT !.o_finished = FALSE]

Start ==
  /\ mont.state = "IDLE"
  /\ i_start
  /\ mont' = [m |-> 0, o_finished |-> FALSE, state |-> "RUN1", counter |-> 0]

\* Mutant: the sum is not shifted.
AddBUnshifted ==
  /\ mont.state = "RUN1"
  /\ mont.counter < W
  /\ Bit(a, mont.counter) = 1
  /\ mont' = [mont EXCEPT
        !.counter = @ + 1,
        !.m = (@ + b + IF (@ + b) % 2 = 1 THEN N ELSE 0) % Pow2[W + 2]]

(* Bit counter_r of a is 1: add b, and N when that makes the sum even. *)
AddB ==
  /\ mont.state = "RUN1"
  /\ mont.counter < W
  /\ Bit(a, mont.counter) = 1
  /\ mont' = [mont EXCEPT
        !.counter = @ + 1,
        !.m = Halve(@ + b + IF (@ + b) % 2 = 1 THEN N ELSE 0)]

\* Mutant: the loop runs one bit too far.
SkipBTooFar ==
  /\ mont.state = "RUN1"
  /\ mont.counter <= W
  /\ Bit(a, mont.counter) = 0
  /\ mont' = [mont EXCEPT
        !.counter = @ + 1,
        !.m = Halve(@ + IF @ % 2 = 1 THEN N ELSE 0)]

(* Bit counter_r of a is 0: only make the accumulator even. *)
SkipB ==
  /\ mont.state = "RUN1"
  /\ mont.counter < W
  /\ Bit(a, mont.counter) = 0
  /\ mont' = [mont EXCEPT
        !.counter = @ + 1,
        !.m = Halve(@ + IF @ % 2 = 1 THEN N ELSE 0)]

LastBit ==
  /\ mont.state = "RUN1"
  /\ mont.counter >= W
  /\ mont' = [mont EXCEPT !.state = "RUN2"]

\* Mutant: N itself is not reduced.
ReduceStrict ==
  /\ mont.state = "RUN2"
  /\ mont' = [mont EXCEPT
        !.m = IF @ > N THEN @ - N ELSE @,
        !.state = "IDLE",
        !.o_finished = TRUE]

Reduce ==
  /\ mont.state = "RUN2"
  /\ mont' = [mont EXCEPT
        !.m = IF @ >= N THEN @ - N ELSE @,
        !.state = "IDLE",
        !.o_finished = TRUE]

Clock == Idle \/ Start \/ AddB \/ SkipB \/ LastBit \/ Reduce

(***************************************************************************)
(* The ports as Rsa256Core drives them: a one-cycle start while the        *)
(* multiplier is idle, operands reduced modulo an odd N (except a, which   *)
(* only has to be a word), all held until the result has been taken.       *)
(***************************************************************************)
Request ==
  /\ mont.state = "IDLE" /\ ~i_start
  /\ i_start' = TRUE
  /\ N' \in {n \in Word : n % 2 = 1 /\ n > 1}
  /\ a' \in Word
  /\ b' \in 0 .. N' - 1

Hold ==
  /\ i_start' = FALSE
  /\ UNCHANGED <<N, a, b>>

Init ==
  /\ mont = MontReset
  /\ i_start = FALSE /\ N = 1 /\ a = 0 /\ b = 0

Next == Clock /\ (Request \/ Hold)

Spec == Init /\ [][Next]_vars

-----------------------------------------------------------------------------
MontType == [m : Acc, o_finished : BOOLEAN, state : {"IDLE", "RUN1", "RUN2"},
             counter : 0 .. W]

(* Every register stays within its declared width. *)
TypeOK ==
  /\ mont \in MontType
  /\ i_start \in BOOLEAN /\ N \in Word /\ a \in Word /\ b \in Word

(* The accumulator of a running multiplication stays below 2N, so the two  *)
(* extra bits of m_r suffice for every sum and one subtraction suffices in *)
(* S_RUN2.                                                                 *)
AccumulatorBelow2N == mont.state # "IDLE" => mont.m < 2 * N

(* The sum that is shifted right never loses a carry out of m_r's width.   *)
SumFits ==
  mont.state # "IDLE" => mont.m + b + N < Pow2[W + 2]

(* After counter_r bits the accumulator is the product of the bits of a    *)
(* seen so far with b, divided by 2^counter_r modulo N.                    *)
PartialProduct ==
  mont.state # "IDLE" =>
    (mont.m * Pow2[mont.counter]) % N = ((a % Pow2[mont.counter]) * b) % N

(* When o_finished is raised, m is the Montgomery product a*b*2^-W reduced *)
(* modulo N.                                                               *)
ResultIsMontgomeryProduct ==
  mont.o_finished => /\ mont.m < N
                     /\ (mont.m * Pow2[W]) % N = (a * b) % N
=============================================================================

---------------------------- MODULE ModuloProduct ---------------------------
(***************************************************************************)
(* Lab 2, ModuloProduct.sv: a*b mod N by shift and add.  Rsa256Core uses   *)
(* it once per decryption, with a = 2^256 and k = 256, to bring the        *)
(* ciphertext into Montgomery form.                                        *)
(***************************************************************************)
EXTENDS Powers

CONSTANT W          \* width of the operands, a positive number

VARIABLES i_start, N, a, b,   \* input ports; a has W + 1 bits
          prod                \* m_r, t_r, o_finished_r, state_r, counter_r

vars == <<i_start, N, a, b, prod>>

Word == 0 .. Pow2[W] - 1
Acc  == 0 .. Pow2[W + 2] - 1    \* m_r and t_r are two bits wider

ProdReset ==
  [m |-> 0, t |-> 0, o_finished |-> FALSE, state |-> "IDLE", counter |-> 0]

Idle ==
  /\ prod.state = "IDLE"
  /\ ~i_start
  /\ prod' = [prod EXCEPT !.o_finished = FALSE]

Start ==
  /\ prod.state = "IDLE"
  /\ i_start
  /\ prod' = [m |-> 0, t |-> b, o_finished |-> FALSE,
              state |-> "RUN", counter |-> 0]

(* The sums wrap at the width of m_r and t_r. *)
Plus(x, y) == (x + y) % Pow2[W + 2]

(* The doubling compares with >, not >=: t_r may come to equal an even N. *)
DoubleT(t) == IF Plus(t, t) > N THEN Plus(t, t) - N ELSE Plus(t, t)
AddT(m, t) == IF Plus(m, t) >= N THEN Plus(m, t) - N ELSE Plus(m, t)

Accumulate ==
  /\ prod.state = "RUN"
  /\ prod.counter <= W
  /\ Bit(a, prod.counter) = 1
  /\ prod' = [prod EXCEPT !.m = AddT(@, prod.t),
                          !.t = DoubleT(@),
                          !.counter = @ + 1]

Skip ==
  /\ prod.state = "RUN"
  /\ prod.counter <= W
  /\ Bit(a, prod.counter) = 0
  /\ prod' = [prod EXCEPT !.t = DoubleT(@), !.counter = @ + 1]

Finish ==
  /\ prod.state = "RUN"
  /\ prod.counter > W
  /\ prod' = [prod EXCEPT !.state = "IDLE", !.o_finished = TRUE]

Clock == Idle \/ Start \/ Accumulate \/ Skip \/ Finish

(***************************************************************************)
(* The ports as the core drives them: one start cycle while idle, b < N,   *)
(* everything held until the result has been taken.                        *)
(***************************************************************************)
Request ==
  /\ prod.state = "IDLE" /\ ~i_start
  /\ i_start' = TRUE
  /\ N' \in Word \ {0}
  /\ a' \in 0 .. Pow2[W + 1] - 1
  /\ b' \in 0 .. N' - 1

Hold ==
  /\ i_start' = FALSE
  /\ UNCHANGED <<N, a, b>>

Init ==
  /\ prod = ProdReset
  /\ i_start = FALSE /\ N = 1 /\ a = 0 /\ b = 0

Next == Clock /\ (Request \/ Hold)

Spec == Init /\ [][Next]_vars

-----------------------------------------------------------------------------
ProdType == [m : Acc, t : Acc, o_finished : BOOLEAN, state : {"IDLE", "RUN"},
             counter : 0 .. W + 1]

(* Every register stays within its declared width. *)
TypeOK ==
  /\ prod \in ProdType
  /\ i_start \in BOOLEAN /\ N \in Word
  /\ a \in 0 .. Pow2[W + 1] - 1 /\ b \in Word

(* Although t_r is allowed to reach N (the strict comparison), m_r stays   *)
(* reduced and no sum reaches 2N + 1, so one subtraction is always enough. *)
Reduced == prod.state = "RUN" => prod.m < N /\ prod.t <= N

(* After counter_r bits, t_r is b*2^counter_r and m_r is the product of b  *)
(* with the bits of a seen so far, modulo N.                               *)
PartialProduct ==
  prod.state = "RUN" =>
    /\ prod.t % N = (b * Pow2[prod.counter]) % N
    /\ prod.m = ((a % Pow2[prod.counter]) * b) % N

(* When o_finished is raised, m is a*b mod N. *)
ResultIsProductModN == prod.o_finished => prod.m = (a * b) % N
=============================================================================

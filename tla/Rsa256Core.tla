----------------------------- MODULE Rsa256Core -----------------------------
(***************************************************************************)
(* Lab 2, Rsa256Core.sv: a^d mod n by right-to-left square and multiply in *)
(* Montgomery form.  The core's own FSM and its three submodules (one      *)
(* ModuloProduct, two Montgomery_Algorithm) all step on the same clock     *)
(* edge: Next conjoins one action of each.                                 *)
(***************************************************************************)
EXTENDS Powers

CONSTANT W          \* width of the operands; 256 in the source
ASSUME WAssumption == W \in Nat \ {0}

VARIABLES i_start, i_a, i_d, i_n,   \* input ports
          core,                     \* the registers of Rsa256Core
          prep, montT, montM        \* the registers of RsaPrep, RsaMont_t, RsaMont_m

ports == <<i_start, i_a, i_d, i_n>>
vars == <<i_start, i_a, i_d, i_n, core, prep, montT, montM>>

Word == 0 .. Pow2[W] - 1

Prep == INSTANCE ModuloProduct WITH
  i_start <- core.prep_start, N <- i_n, a <- Pow2[W], b <- core.encryptdata, prod <- prep
MontT == INSTANCE Montgomery_Algorithm WITH
  i_start <- core.t_start, N <- i_n, a <- core.t_a, b <- core.t_b, mont <- montT
MontM == INSTANCE Montgomery_Algorithm WITH
  i_start <- core.m_start, N <- i_n, a <- core.m_a, b <- core.m_b, mont <- montM

\* Mutant: the exponent is scanned from the other end.
ExponentBitReversed == Bit(i_d, W - 1 - core.counter) = 1

ExponentBit == Bit(i_d, core.counter) = 1

CoreReset ==
  [state |-> "IDLE", counter |-> 0, encryptdata |-> 0, t |-> 0, m |-> 0,
   o_a_pow_d |-> 0, o_finished |-> FALSE,
   prep_start |-> FALSE, t_start |-> FALSE, m_start |-> FALSE,
   t_a |-> 0, t_b |-> 0, m_a |-> 0, m_b |-> 0,
   t_finished |-> FALSE, m_finished |-> FALSE]

Rest ==
  /\ core.state = "IDLE" /\ ~i_start
  /\ core' = [core EXCEPT !.o_finished = FALSE]

Accept ==
  /\ core.state = "IDLE" /\ i_start
  /\ core' = [CoreReset EXCEPT !.state = "PREP_1", !.encryptdata = i_a]

StartPrep ==
  /\ core.state = "PREP_1"
  /\ core' = [core EXCEPT !.prep_start = TRUE, !.state = "PREP_2"]

WaitPrep ==
  /\ core.state = "PREP_2" /\ ~prep.o_finished
  /\ core' = [core EXCEPT !.prep_start = FALSE]

TakePrep ==
  /\ core.state = "PREP_2" /\ prep.o_finished
  /\ core' = [core EXCEPT !.prep_start = FALSE, !.t = prep.m % Pow2[W], !.m = 1,
                          !.state = "MONT_1"]

(* S_MONT_1: square t; multiply m by t when the exponent bit is set. *)
StartSquare ==
  /\ core.state = "MONT_1" /\ ~ExponentBit
  /\ core' = [core EXCEPT !.t_start = TRUE, !.t_a = core.t, !.t_b = core.t,
                          !.state = "MONT_2"]

StartSquareAndMultiply ==
  /\ core.state = "MONT_1" /\ ExponentBit
  /\ core' = [core EXCEPT !.t_start = TRUE, !.t_a = core.t, !.t_b = core.t,
                          !.m_start = TRUE, !.m_a = core.m, !.m_b = core.t,
                          !.state = "MONT_2"]

\* Mutant: only the multiplication is waited for.
MCollected == ExponentBit => core.m_finished

(* S_MONT_2: collect each multiplier's result when it shows up; leave once *)
(* every result this bit needs had been collected in an earlier cycle.     *)
AllCollected == core.t_finished /\ (ExponentBit => core.m_finished)

Collect ==
  LET takeT == montT.o_finished
      takeM == ExponentBit /\ montM.o_finished
  IN  [core EXCEPT
        !.t_start = FALSE,
        !.m_start = IF ExponentBit THEN FALSE ELSE @,
        !.t = IF takeT THEN montT.m % Pow2[W] ELSE @,
        !.m = IF takeM THEN montM.m % Pow2[W] ELSE @,
        !.t_finished = @ \/ takeT,
        !.m_finished = @ \/ takeM]

WaitMont ==
  /\ core.state = "MONT_2" /\ ~AllCollected
  /\ core' = Collect

LeaveMont ==
  /\ core.state = "MONT_2" /\ AllCollected
  /\ core' = [Collect EXCEPT !.state = "CALC", !.t_finished = FALSE,
                             !.m_finished = FALSE]

NextBit ==
  /\ core.state = "CALC" /\ core.counter < W - 1
  /\ core' = [core EXCEPT !.state = "MONT_1", !.counter = @ + 1]

\* Mutant: the answer is the last square.
AnswerSquare ==
  /\ core.state = "CALC" /\ core.counter >= W - 1
  /\ core' = [core EXCEPT !.o_a_pow_d = core.t, !.o_finished = TRUE,
                          !.state = "IDLE"]

Answer ==
  /\ core.state = "CALC" /\ core.counter >= W - 1
  /\ core' = [core EXCEPT !.o_a_pow_d = core.m, !.o_finished = TRUE,
                          !.state = "IDLE"]

CoreClock ==
  \/ Rest \/ Accept \/ StartPrep \/ WaitPrep \/ TakePrep
  \/ StartSquare \/ StartSquareAndMultiply
  \/ WaitMont \/ LeaveMont \/ NextBit \/ Answer

Clock == CoreClock /\ Prep!Clock /\ MontT!Clock /\ MontM!Clock

(***************************************************************************)
(* The ports as the wrapper drives them: a one-cycle start while the core  *)
(* is idle, an odd modulus, a reduced ciphertext, all held until the       *)
(* answer has been taken.                                                  *)
(***************************************************************************)
Request ==
  /\ core.state = "IDLE" /\ ~i_start
  /\ i_start' = TRUE
  /\ i_n' \in {n \in Word : n % 2 = 1 /\ n > 1}
  /\ i_a' \in 0 .. i_n' - 1
  /\ i_d' \in Word

Hold ==
  /\ i_start' = FALSE
  /\ UNCHANGED <<i_a, i_d, i_n>>

Init ==
  /\ core = CoreReset
  /\ prep = Prep!ProdReset /\ montT = MontT!MontReset /\ montM = MontM!MontReset
  /\ i_start = FALSE /\ i_a = 0 /\ i_d = 0 /\ i_n = 1

Next == Clock /\ (Request \/ Hold)

Spec == Init /\ [][Next]_vars
LiveSpec == Spec /\ WF_vars(Next)

-----------------------------------------------------------------------------
(* Reference: a^d mod n by d multiplications. *)
PowMod(x, d, n) ==
  LET p[i \in 0 .. d] == IF i = 0 THEN 1 % n ELSE (x * p[i - 1]) % n
  IN  p[d]

(* The operands of a multiplication in progress do not change under it:    *)
(* both multipliers read i_n and their operands on every cycle.            *)
OperandsHeld ==
  [][/\ montT.state # "IDLE" => <<core.t_a, core.t_b, i_n>>' = <<core.t_a, core.t_b, i_n>>
     /\ montM.state # "IDLE" => <<core.m_a, core.m_b, i_n>>' = <<core.m_a, core.m_b, i_n>>
     /\ prep.state # "IDLE" => <<core.encryptdata, i_n>>' = <<core.encryptdata, i_n>>]_vars

(* At the start of bit counter_r, t holds a^(2^counter_r) in Montgomery    *)
(* form and m holds a to the exponent bits below counter_r.                *)
SquareAndMultiplyInvariant ==
  core.state = "MONT_1" =>
    /\ core.t = (PowMod(i_a, Pow2[core.counter], i_n) * Pow2[W]) % i_n
    /\ core.m = PowMod(i_a, i_d % Pow2[core.counter], i_n)

(* A finished pulse of a multiplier is never missed: whenever one is up    *)
(* the core is in the state that collects it.                              *)
PulsesAreCollected ==
  /\ prep.o_finished => core.state = "PREP_2"
  /\ montT.o_finished => core.state = "MONT_2" /\ ~core.t_finished
  /\ montM.o_finished => core.state = "MONT_2" /\ ExponentBit /\ ~core.m_finished

(* The core implements the decryption service the wrapper relies on, with  *)
(* modular exponentiation as the decryption, and answers every request.    *)
Service == INSTANCE Decryption WITH
  Decrypt <- PowMod, NoResult <- 0,
  o_a_pow_d <- core.o_a_pow_d, o_finished <- core.o_finished,
  busy <- core.state # "IDLE"
ImplementsDecryption == Service!LiveSpec
=============================================================================

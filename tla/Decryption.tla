----------------------------- MODULE Decryption -----------------------------
(***************************************************************************)
(* What Rsa256Core promises Rsa256Wrapper: after a start it is busy, then  *)
(* it shows the decryption of the operands and raises o_finished for one   *)
(* cycle.  How the result is computed is left to Rsa256Core, which is      *)
(* shown to implement this module; the wrapper is checked against it.      *)
(***************************************************************************)
CONSTANTS Decrypt(_, _, _),   \* ciphertext, exponent, modulus
          NoResult            \* the cleared output register

VARIABLES i_start, i_a, i_d, i_n,          \* driven by the wrapper
          o_a_pow_d, o_finished, busy

outputs == <<o_a_pow_d, o_finished, busy>>

Init == o_a_pow_d = NoResult /\ o_finished = FALSE /\ busy = FALSE

Rest ==
  /\ ~busy /\ ~i_start
  /\ o_finished' = FALSE
  /\ UNCHANGED <<o_a_pow_d, busy>>

Accept ==
  /\ ~busy /\ i_start
  /\ busy' = TRUE
  /\ o_finished' = FALSE
  /\ o_a_pow_d' = NoResult

Compute == busy /\ UNCHANGED outputs

Deliver ==
  /\ busy
  /\ busy' = FALSE
  /\ o_finished' = TRUE
  /\ o_a_pow_d' = Decrypt(i_a, i_d, i_n)

Next == Rest \/ Accept \/ Compute \/ Deliver

Fairness == WF_outputs(Deliver)
Spec == Init /\ [][Next]_outputs
LiveSpec == Spec /\ Fairness
=============================================================================

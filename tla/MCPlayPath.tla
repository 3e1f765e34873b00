----------------------------- MODULE MCPlayPath -----------------------------
(* Model values for PlayPath: a tape that is silent but for one word,      *)
(* which is negative in two's complement.                                  *)
EXTENDS PlayPath

MCTape == [a \in 0 .. LastAddress |-> IF a = 1 THEN Pow2[SampleBits] - 2 ELSE 0]
=============================================================================

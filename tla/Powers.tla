------------------------------- MODULE Powers -------------------------------
(* Powers of two as a function, in a form the provers can reason about.    *)
EXTENDS Integers

Pow2[n \in Nat] == IF n = 0 THEN 1 ELSE 2 * Pow2[n - 1]

\* Bit i of the natural number x.
Bit(x, i) == (x \div Pow2[i]) % 2
=============================================================================

----------------------------- MODULE FrameClock -----------------------------
(***************************************************************************)
(* Lab 3: what recording and playing have in common, Top's registers and   *)
(* the codec's frame clock, counted in 12 MHz clocks.                      *)
(***************************************************************************)
EXTENDS Integers

CONSTANTS LastAddress,    \* 2^20 - 1 in the source
          Low, High       \* 12 MHz clocks in the halves of a frame: 375 together
ASSUME FrameAssumption ==
  /\ LastAddress \in Nat \ {0}
  /\ Low \in Nat /\ Low >= 2 /\ High \in Nat /\ High >= 2

VARIABLES top,
          t               \* position in the frame; lrc is low first

lrc == t >= Low

NextPosition == (t + 1) % (Low + High)
=============================================================================

------------------------------ MODULE Playback ------------------------------
(***************************************************************************)
(* Lab 3: what PlayPath and PlayOut have in common, AudDSP, the speed      *)
(* switches and a user who presses a key at most once a frame.             *)
(***************************************************************************)
EXTENDS FrameClock, Powers

CONSTANTS SampleBits,     \* 16 in the source
          Counters,       \* values of the 4-bit counter: 16 in the source
          Speeds          \* settings of the speed switches
ASSUME PlaybackAssumption ==
  /\ SampleBits \in Nat \ {0} /\ Counters \in Nat \ {0}
  /\ Speeds \subseteq 0 .. Counters - 1

VARIABLES dsp,
          i_speed,
          keyed           \* falling edges of lrc until the next key press
=============================================================================

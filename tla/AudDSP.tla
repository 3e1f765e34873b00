------------------------------- MODULE AudDSP -------------------------------
(***************************************************************************)
(* Lab 3, AudDSP.sv: decides which SRAM word the player plays next, with   *)
(* fast play (skip), slow play by repetition and slow play by linear       *)
(* interpolation.  One step per falling edge of the frame clock; the stop  *)
(* pulse resets it asynchronously.                                         *)
(*                                                                         *)
(* The sample registers are four bits wider than a sample and hold bit     *)
(* patterns, written as the natural number the pattern denotes.            *)
(***************************************************************************)
EXTENDS Powers

CONSTANTS LastAddress,    \* 2^20 - 1 in the source
          SampleBits,     \* 16 in the source
          Counters        \* values of the 4-bit counter: 16 in the source

VARIABLES dsp,                                       \* the registers
          i_start, i_pause, i_stop, i_mode, i_speed, \* from Top and the switches
          i_sram_data                                \* SRAM word at dsp.addr

SampleRange == Pow2[SampleBits]
RegRange    == Pow2[SampleBits + 4]

\* Mutant: the sample is widened without its sign.
ZeroExtend(x) == x

SignExtend(x) ==
  IF x < SampleRange \div 2 THEN x ELSE x + RegRange - SampleRange

(* The value a sample-sized pattern stands for. *)
Signed(x) == IF x < SampleRange \div 2 THEN x ELSE x - SampleRange

DspReset == [state |-> "IDLE", addr |-> 0, counter |-> 0, ready |-> FALSE,
             prev |-> 0, this |-> 0, data |-> 0]

AddressPlus(n) == (dsp.addr + n) % (LastAddress + 1)

(* counter_r == i_speed - 1 is compared in 32 bits: never for speed 0. *)
NextCounter ==
  IF i_speed > 0 /\ dsp.counter = i_speed - 1 THEN 0
  ELSE (dsp.counter + 1) % Counters

(* i_speed and counter_r are unsigned, which makes the whole expression    *)
(* unsigned: the products and quotients are those of the bit patterns.     *)
Weighted(x, w) == ((x * (w % RegRange)) % RegRange) \div i_speed

\* Mutant: the weights are swapped.
InterpolatedBackwards ==
  (Weighted(dsp.prev, dsp.counter) + Weighted(dsp.this, i_speed - dsp.counter))
     % RegRange

Interpolated ==
  (Weighted(dsp.prev, i_speed - dsp.counter) + Weighted(dsp.this, dsp.counter))
     % RegRange

-----------------------------------------------------------------------------
StopHeld == i_stop /\ dsp' = DspReset

Idle == ~i_stop /\ dsp.state = "IDLE" /\ ~i_start /\ UNCHANGED dsp

\* Mutant: a start wins over a stop.
StartPlayingStopped ==
  /\ dsp.state = "IDLE" /\ i_start
  /\ dsp' = [dsp EXCEPT !.addr = 0, !.data = 0, !.counter = 0, !.prev = 0,
                        !.ready = FALSE, !.state = "PROC"]

StartPlaying ==
  /\ ~i_stop /\ dsp.state = "IDLE" /\ i_start
  /\ dsp' = [dsp EXCEPT !.addr = 0, !.data = 0, !.counter = 0, !.prev = 0,
                        !.ready = FALSE, !.state = "PROC"]

Pause ==
  /\ ~i_stop /\ dsp.state = "PROC" /\ i_pause
  /\ dsp' = [dsp EXCEPT !.state = "PAUSE"]

Resume ==
  /\ ~i_stop /\ dsp.state = "PAUSE" /\ ~i_pause
  /\ dsp' = [dsp EXCEPT !.state = "PROC"]

StayPaused == ~i_stop /\ dsp.state = "PAUSE" /\ i_pause /\ UNCHANGED dsp

\* Mutant: a pause does not hold the sample processing back.
ProcessingPaused == ~i_stop /\ dsp.state = "PROC"

Processing == ~i_stop /\ dsp.state = "PROC" /\ ~i_pause

Original ==
  /\ Processing /\ i_mode = 0
  /\ dsp' = [dsp EXCEPT !.ready = TRUE, !.data = i_sram_data, !.addr = AddressPlus(1)]

Fast ==
  /\ Processing /\ i_mode = 1
  /\ dsp' = [dsp EXCEPT !.ready = TRUE, !.data = i_sram_data,
                        !.addr = AddressPlus(i_speed)]

SlowFetch ==
  /\ Processing /\ i_mode = 2 /\ dsp.counter = 0
  /\ dsp' = [dsp EXCEPT !.ready = TRUE, !.this = SignExtend(i_sram_data),
                        !.data = SignExtend(i_sram_data),
                        !.addr = AddressPlus(1), !.counter = (@ + 1) % Counters]

SlowRepeat ==
  /\ Processing /\ i_mode = 2 /\ dsp.counter # 0
  /\ dsp' = [dsp EXCEPT !.ready = TRUE, !.data = dsp.this, !.counter = NextCounter]

LinearPrime ==
  /\ Processing /\ i_mode = 3 /\ ~dsp.ready
  /\ dsp' = [dsp EXCEPT !.ready = TRUE, !.this = SignExtend(i_sram_data),
                        !.addr = AddressPlus(1), !.counter = 0]

LinearFetch ==
  /\ Processing /\ i_mode = 3 /\ dsp.ready /\ dsp.counter = 0
  /\ dsp' = [dsp EXCEPT !.this = SignExtend(i_sram_data), !.prev = dsp.this,
                        !.data = dsp.this,
                        !.addr = AddressPlus(1), !.counter = (@ + 1) % Counters]

(* For speed 0 the quotient is undefined: any pattern. *)
LinearInterpolate ==
  /\ Processing /\ i_mode = 3 /\ dsp.ready /\ dsp.counter # 0
  /\ \E x \in IF i_speed = 0 THEN 0 .. RegRange - 1 ELSE {Interpolated} :
       dsp' = [dsp EXCEPT !.data = x, !.counter = NextCounter]

DspFrame ==
  \/ StopHeld \/ Idle \/ StartPlaying \/ Pause \/ Resume \/ StayPaused
  \/ Original \/ Fast \/ SlowFetch \/ SlowRepeat
  \/ LinearPrime \/ LinearFetch \/ LinearInterpolate

(* What goes to the player: the low bits of the data register. *)
o_dac_data == dsp.data % SampleRange

=============================================================================

------------------------------- MODULE PlayOut -------------------------------
(***************************************************************************)
(* Lab 3: what the codec hears.  AudDSP feeds AudPlayer, which feeds the   *)
(* codec, in any mode and at any speed, with arbitrary samples.  Top is    *)
(* environment, the outputs of it that AudDSP and AudPlayer see: it plays, *)
(* pauses and resumes at any time, as often as a user who presses a key at *)
(* most once a frame makes it.                                             *)
(*                                                                         *)
(* One step of the clock is one falling edge of the bit clock, which is as *)
(* fast as Top's.  AudDSP steps when the frame clock falls, AudPlayer's    *)
(* latch when it rises.                                                    *)
(***************************************************************************)
EXTENDS Playback

CONSTANT Samples          \* sample patterns the SRAM may hold
ASSUME PlayOutAssumption ==
  /\ High >= SampleBits + 2
  /\ Counters <= 16       \* as many bits as the registers have above a sample
  /\ Samples \subseteq 0 .. Pow2[SampleBits] - 1

VARIABLES i_sram_data, player, latch,
          word,           \* what the codec has taken of this frame's word
          unheard         \* history: the codec has not received AudDSP's output

outVars == <<top, dsp, i_speed, i_sram_data, player, latch, t, keyed, word, unheard>>

Source == INSTANCE AudDSP WITH
  i_start <- top.play_start, i_pause <- top.play_pause, i_stop <- top.play_stop,
  i_mode <- top.mode
Player == INSTANCE AudPlayer WITH
  i_en <- ~top.play_pause, i_dac_data <- Source!o_dac_data

(* The codec takes a bit on the rising edge that follows, from the second  *)
(* one after lrc has risen.                                                *)
CodecTakes(bit) ==
  word' = IF t' \in Low + 1 .. Low + SampleBits THEN 2 * word + bit
          ELSE IF t' = Low THEN 0 ELSE word

BitClockFalls ==
  /\ t' = NextPosition
  /\ Player!PlayerClock
  /\ IF t' = Low THEN Player!LatchWord ELSE UNCHANGED latch
  /\ IF t' = 0
     THEN /\ Source!DspFrame
          /\ i_sram_data' \in IF dsp'.addr = dsp.addr THEN {i_sram_data} ELSE Samples
     ELSE UNCHANGED <<dsp, i_sram_data>>
  /\ CodecTakes(player'.aud_dacdat)
  /\ keyed' = IF t' = 0 /\ keyed > 0 THEN keyed - 1 ELSE keyed
  /\ unheard' = IF t' = 0 THEN unheard \/ Source!Processing
                ELSE unheard /\ ~(t' = Low + SampleBits /\ word' = Source!o_dac_data)
  /\ UNCHANGED <<top, i_speed>>

(* Top raises start with the end of a pause.  It lowers it a little after  *)
(* the next pause begins, which AudDSP, playing, does not look at.         *)
PauseKey ==
  /\ keyed = 0 /\ keyed' = 2
  /\ top' = [top EXCEPT !.play_pause = ~@, !.play_start = top.play_pause]
  /\ UNCHANGED <<dsp, i_speed, i_sram_data, player, latch, t, word, unheard>>

OutInit ==
  /\ top \in [play_start : {FALSE}, play_pause : {TRUE}, play_stop : {FALSE},
              mode : 0 .. 3]
  /\ dsp = Source!DspReset /\ player = Player!PlayerReset /\ latch = Player!LatchReset
  /\ i_speed \in Speeds /\ i_sram_data \in Samples
  /\ t \in 0 .. Low + High - 1 /\ keyed = 0 /\ word = 0 /\ unheard = FALSE

OutNext == BitClockFalls \/ PauseKey

OutSpec == OutInit /\ [][OutNext]_outVars

-----------------------------------------------------------------------------
FrameFalls == t # 0 /\ t' = 0
Output == Source!Signed(Source!o_dac_data)
RegSigned(x) == IF x < Source!RegRange \div 2 THEN x ELSE x - Source!RegRange

Interpolating == top.mode = 3 /\ i_speed >= 2 /\ dsp.ready /\ dsp.state = "PROC"

(* AudDSP never moves on from a word the codec has not received, whole and *)
(* bit by bit: no pause, whenever it comes, swallows a sample.             *)
EverySampleHeard == [][FrameFalls /\ Source!Processing => ~unheard]_outVars

(* Between two samples that are not negative the output moves along the    *)
(* straight line from the one to the other: frame c of the i_speed frames  *)
(* of an interval plays prev + (this - prev) * c / i_speed, less what the  *)
(* two quotients, each rounded down, lose.  (At speed 1 the counter is     *)
(* never found at i_speed - 1 and runs on, out of the interval.)           *)
OnTheLineForPositive ==
  [][FrameFalls /\ Interpolating /\ Source!Processing
     /\ RegSigned(dsp'.prev) >= 0 /\ RegSigned(dsp'.this) >= 0 =>
       LET c == dsp.counter
           exact == RegSigned(dsp'.prev) * (i_speed - c) + RegSigned(dsp'.this) * c
       IN  Output' * i_speed \in exact - 2 * (i_speed - 1) .. exact]_outVars

(* In the repeating slow mode what is played is the word fetched last, for *)
(* every sample, negative ones included: widening and narrowing the        *)
(* register loses nothing.                                                 *)
RepeatsSample ==
  top.mode = 2 /\ dsp.state = "PROC" /\ dsp.ready =>
    Output = RegSigned(dsp.this)

=============================================================================

------------------------------ MODULE AudPlayer ------------------------------
(***************************************************************************)
(* Lab 3, AudPlayer.sv: sends AudDSP's word to the codec, most significant *)
(* bit first, in the high half of the frame.  The shifter steps on the     *)
(* falling edge of the bit clock; what it sends, and whether, is latched   *)
(* on the rising edge of the frame clock.                                  *)
(***************************************************************************)
EXTENDS Powers

CONSTANT SampleBits         \* 16 in the source

VARIABLES player,           \* state_r, counter_r, aud_dacdat_r
          latch,            \* Ispre_r, dac_data_r
          lrc, i_en, i_dac_data

PlayerReset == [state |-> "IDLE", counter |-> 0, aud_dacdat |-> 0]
LatchReset == [Ispre |-> FALSE, dac_data |-> 0]

Sending == player.state = "PLAY" /\ latch.Ispre /\ lrc

Idle == player.state = "IDLE" /\ ~i_en /\ UNCHANGED player

Enable ==
  /\ player.state = "IDLE" /\ i_en
  /\ player' = [player EXCEPT !.state = "PLAY"]

\* Mutant: the least significant bit goes first.
SendBitReversed ==
  /\ Sending /\ player.counter < SampleBits
  /\ player' = [player EXCEPT
        !.aud_dacdat = Bit(latch.dac_data, player.counter),
        !.counter = @ + 1]

SendBit ==
  /\ Sending /\ player.counter < SampleBits
  /\ player' = [player EXCEPT
        !.aud_dacdat = Bit(latch.dac_data, SampleBits - 1 - player.counter),
        !.counter = @ + 1]

WordSent ==
  /\ Sending /\ player.counter >= SampleBits
  /\ player' = [state |-> "PLAY_FINISH", counter |-> 0, aud_dacdat |-> 0]

Silent ==
  /\ player.state = "PLAY" /\ ~Sending
  /\ player' = [player EXCEPT !.aud_dacdat = 0, !.counter = 0]

NextFrame ==
  /\ player.state = "PLAY_FINISH" /\ ~lrc
  /\ player' = [player EXCEPT !.state = "PLAY"]

AwaitFrame == player.state = "PLAY_FINISH" /\ lrc /\ UNCHANGED player

PlayerClock ==
  Idle \/ Enable \/ SendBit \/ WordSent \/ Silent \/ NextFrame \/ AwaitFrame

LatchWord == latch' = [Ispre |-> i_en, dac_data |-> i_dac_data]
=============================================================================

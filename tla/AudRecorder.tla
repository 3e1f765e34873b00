---------------------------- MODULE AudRecorder -----------------------------
(***************************************************************************)
(* Lab 3, AudRecorder.sv: shifts one 16-bit sample per frame out of the    *)
(* codec's I2S stream, in the high half of the frame, and presents it with *)
(* its SRAM address.  One step per rising edge of AUD_BCLK, plus FrameRises *)
(* on the rising edge of AUD_ADCLRCK, which latches the pause request.     *)
(***************************************************************************)
EXTENDS Integers

CONSTANTS LastAddress,      \* 2^20 - 1 in the source
          Bits,             \* bits of a sample: 16 in the source
          ZeroBit           \* the value of a cleared data bit

VARIABLES rec,                        \* the registers of AudRecorder
          lrc, i_data,                \* from the codec
          i_start, i_pause, i_stop    \* from Top

Cleared == [b \in 0 .. Bits - 1 |-> ZeroBit]

(* flag: pause request at the last rise of lrc.  flag2: a stop request was *)
(* seen while shifting.  flag3: this frame's sample has been counted.      *)
RecReset ==
  [state |-> "IDLE", address |-> 0, data |-> Cleared, counter |-> 0,
   flag |-> FALSE, flag2 |-> FALSE, flag3 |-> FALSE]

Idle ==
  /\ rec.state = "IDLE" /\ ~i_start
  /\ UNCHANGED rec

(* Started in the high half, it shifts a single bit (counter_r = 0) and    *)
(* waits for the next frame: the word at address 0 is then not a sample.   *)
StartRecording ==
  /\ rec.state = "IDLE" /\ i_start
  /\ rec' = [rec EXCEPT !.address = 0, !.data = Cleared, !.counter = 0,
                        !.flag2 = FALSE, !.flag3 = FALSE,
                        !.state = IF lrc THEN "RECORD" ELSE "NOT_RECORD"]

StopWaiting ==
  /\ rec.state = "NOT_RECORD" /\ (i_stop \/ rec.flag2)
  /\ rec' = [rec EXCEPT !.flag3 = FALSE, !.state = "IDLE"]

\* Mutant: a sample begins although the recording is paused.
BeginSamplePaused ==
  /\ rec.state = "NOT_RECORD" /\ ~(i_stop \/ rec.flag2)
  /\ lrc
  /\ rec' = [rec EXCEPT !.flag3 = FALSE, !.data = Cleared,
                        !.counter = Bits - 1, !.state = "RECORD"]

BeginSample ==
  /\ rec.state = "NOT_RECORD" /\ ~(i_stop \/ rec.flag2)
  /\ lrc /\ ~rec.flag
  /\ rec' = [rec EXCEPT !.flag3 = FALSE, !.data = Cleared,
                        !.counter = Bits - 1, !.state = "RECORD"]

KeepWaiting ==
  /\ rec.state = "NOT_RECORD" /\ ~(i_stop \/ rec.flag2)
  /\ ~lrc \/ rec.flag
  /\ rec' = [rec EXCEPT !.flag3 = FALSE]

ShiftBit ==
  /\ rec.state = "RECORD"
  /\ rec' = [rec EXCEPT
        !.flag2 = @ \/ i_stop,
        !.data[rec.counter] = i_data,
        !.counter = (@ - 1) % Bits,
        !.state = IF rec.counter = 0 THEN "RECORD_FINISHED" ELSE @]

(* The sample is complete; the address moves on after one cycle. *)
Finished ==
  /\ rec.state = "RECORD_FINISHED"
  /\ rec' = [rec EXCEPT
        !.address = IF rec.flag3 THEN @ ELSE (@ + 1) % (LastAddress + 1),
        !.flag3 = TRUE,
        !.state = IF lrc THEN @ ELSE "NOT_RECORD"]

RecClock ==
  \/ Idle \/ StartRecording \/ StopWaiting \/ BeginSample \/ KeepWaiting
  \/ ShiftBit \/ Finished

FrameRises ==
  rec' = [rec EXCEPT !.flag = IF rec.state = "IDLE" /\ i_start THEN FALSE ELSE i_pause]

=============================================================================

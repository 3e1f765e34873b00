---------------------------- MODULE RecorderTop -----------------------------
(***************************************************************************)
(* Lab 3, Top.sv: the control FSM of the audio recorder.  One step per     *)
(* rising edge of i_clk (12 MHz).  keys is the set of debounced key pulses *)
(* present in the cycle: 0 record/play/pause, 1 stop/mode, 2 back to       *)
(* recording.                                                              *)
(***************************************************************************)
EXTENDS Integers

CONSTANTS LastAddress,      \* 20'b1...1 in the source
          Modes             \* playback modes: 4 in the source

VARIABLES top,              \* the registers of Top
          lrc,              \* i_AUD_ADCLRCK and i_AUD_DACLRCK, one wire of the codec
          ini_finish,       \* from I2cInitializer
          addr_record,      \* from AudRecorder
          addr_play         \* from AudDSP

TopReset ==
  [state |-> "IDLE", ini_start |-> FALSE, mode |-> 0, data_end |-> 0,
   rec_start |-> FALSE, rec_pause |-> TRUE, rec_stop |-> FALSE,
   play_start |-> FALSE, play_pause |-> TRUE, play_stop |-> FALSE]

Boot ==
  /\ top.state = "IDLE"
  /\ top' = [top EXCEPT !.state = "I2C", !.ini_start = TRUE,
                        !.rec_pause = TRUE, !.play_pause = TRUE,
                        !.rec_stop = FALSE, !.play_stop = FALSE]

WaitCodec ==
  /\ top.state = "I2C"
  /\ top' = IF ini_finish THEN [top EXCEPT !.state = "RECD_PAUSE"]
                          ELSE [top EXCEPT !.ini_start = FALSE]

\* Mutant: a pause takes effect at once.
RecdSettlesAtOnce == top.rec_pause

(***************************************************************************)
(* S_RECD.  A pause or stop request only takes effect in the low half of   *)
(* the frame, when no sample is being shifted in.                          *)
(***************************************************************************)
RecdSettles == ~lrc /\ top.rec_pause

RecdStopped ==
  /\ top.state = "RECD" /\ RecdSettles /\ top.rec_stop
  /\ top' = [top EXCEPT !.rec_start = FALSE, !.rec_stop = FALSE,
                        !.state = "PLAY_PAUSE"]

RecdPaused ==
  /\ top.state = "RECD" /\ RecdSettles /\ ~top.rec_stop
  /\ top' = [top EXCEPT !.rec_start = FALSE, !.state = "RECD_PAUSE"]

RecdPauseKey(keys) ==
  /\ top.state = "RECD" /\ ~RecdSettles /\ 0 \in keys
  /\ top' = [top EXCEPT !.rec_start = FALSE, !.rec_pause = TRUE]

(* The stop key, or the last address of the SRAM, ends the recording. *)
RecdStopKey(keys) ==
  /\ top.state = "RECD" /\ ~RecdSettles /\ 0 \notin keys
  /\ 1 \in keys \/ addr_record = LastAddress
  /\ top' = [top EXCEPT !.rec_start = FALSE, !.rec_pause = TRUE,
                        !.rec_stop = TRUE, !.data_end = addr_record]

RecdGoesOn(keys) ==
  /\ top.state = "RECD" /\ ~RecdSettles
  /\ 0 \notin keys /\ 1 \notin keys /\ addr_record # LastAddress
  /\ top' = [top EXCEPT !.rec_start = FALSE]

RecdResume(keys) ==
  /\ top.state = "RECD_PAUSE" /\ 0 \in keys
  /\ top' = [top EXCEPT !.state = "RECD", !.rec_pause = FALSE, !.rec_start = TRUE]

(***************************************************************************)
(* S_PLAY.                                                                 *)
(***************************************************************************)
PlaySettles == ~lrc /\ top.play_pause

PlayPaused ==
  /\ top.state = "PLAY" /\ PlaySettles
  /\ top' = [top EXCEPT !.state = "PLAY_PAUSE", !.play_start = FALSE]

PlayPauseKey(keys) ==
  /\ top.state = "PLAY" /\ ~PlaySettles /\ 0 \in keys
  /\ top' = [top EXCEPT !.play_pause = TRUE]

PlayStopKey(keys) ==
  /\ top.state = "PLAY" /\ ~PlaySettles /\ 0 \notin keys /\ 1 \in keys
  /\ top' = [top EXCEPT !.play_pause = TRUE, !.play_stop = TRUE]

\* Mutant: the end is noticed one word late.
PlayEndsLate(keys) ==
  /\ top.state = "PLAY" /\ ~PlaySettles /\ 0 \notin keys /\ 1 \notin keys
  /\ addr_play > top.data_end
  /\ top' = IF addr_play > top.data_end + 1
            THEN [top EXCEPT !.play_pause = TRUE, !.play_stop = TRUE,
                             !.play_start = FALSE]
            ELSE top

PlayEnds(keys) ==
  /\ top.state = "PLAY" /\ ~PlaySettles /\ 0 \notin keys /\ 1 \notin keys
  /\ addr_play > top.data_end
  /\ top' = [top EXCEPT !.play_pause = TRUE, !.play_stop = TRUE,
                        !.play_start = FALSE]

PlayResume(keys) ==
  /\ top.state = "PLAY_PAUSE" /\ 0 \in keys
  /\ top' = [top EXCEPT !.play_stop = FALSE, !.state = "PLAY",
                        !.play_start = TRUE, !.play_pause = FALSE]

NextMode(keys) ==
  /\ top.state = "PLAY_PAUSE" /\ 0 \notin keys /\ 1 \in keys
  /\ top' = [top EXCEPT !.play_stop = FALSE, !.mode = (@ + 1) % Modes]

BackToRecord(keys) ==
  /\ top.state = "PLAY_PAUSE" /\ 0 \notin keys /\ 1 \notin keys /\ 2 \in keys
  /\ top' = [top EXCEPT !.play_stop = FALSE, !.state = "RECD_PAUSE"]

(* No branch is taken; S_PLAY_PAUSE still clears the stop pulse. *)
NoBranch(keys) ==
  \/ /\ top.state = "RECD_PAUSE" /\ 0 \notin keys
     /\ UNCHANGED top
  \/ /\ top.state = "PLAY" /\ ~PlaySettles /\ 0 \notin keys /\ 1 \notin keys
     /\ addr_play <= top.data_end
     /\ UNCHANGED top
  \/ /\ top.state = "PLAY_PAUSE" /\ keys = {}
     /\ top' = [top EXCEPT !.play_stop = FALSE]

TopClock(keys) ==
  \/ Boot \/ WaitCodec
  \/ RecdStopped \/ RecdPaused \/ RecdPauseKey(keys) \/ RecdStopKey(keys)
  \/ RecdGoesOn(keys) \/ RecdResume(keys)
  \/ PlayPaused \/ PlayPauseKey(keys) \/ PlayStopKey(keys) \/ PlayEnds(keys)
  \/ PlayResume(keys) \/ NextMode(keys) \/ BackToRecord(keys)
  \/ NoBranch(keys)

=============================================================================

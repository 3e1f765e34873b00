------------------------------ MODULE PlayPath ------------------------------
(***************************************************************************)
(* Lab 3, playback: Top's FSM and AudDSP reading the SRAM, with the keys,  *)
(* the speed switches and the codec's frame clock as environment.  Top     *)
(* steps many times per frame, AudDSP once, on the frame clock's falling   *)
(* edge, and at once when Top raises play_stop.                            *)
(*                                                                         *)
(* The recording side is environment here: the address at which a          *)
(* recording stops is arbitrary, the SRAM is the constant Tape.            *)
(***************************************************************************)
EXTENDS Playback

CONSTANT Tape             \* the SRAM's words, by address
ASSUME TapeAssumption == Tape \in [0 .. LastAddress -> 0 .. Pow2[SampleBits] - 1]

VARIABLES frameDue,       \* the codec's next edge comes before Top's next edge
          ini_finish

playVars == <<top, dsp, t, frameDue, i_speed, keyed, ini_finish>>

PlayTop(addr_record) == INSTANCE RecorderTop WITH
  Modes <- 4, addr_play <- dsp.addr
Dsp == INSTANCE AudDSP WITH
  i_start <- top.play_start, i_pause <- top.play_pause, i_stop <- top.play_stop,
  i_mode <- top.mode, i_sram_data <- Tape[dsp.addr]

(* The codec's clock moves; AudDSP steps when lrc falls. *)
CodecTicks ==
  /\ frameDue /\ frameDue' = FALSE
  /\ t' = NextPosition
  /\ IF t' = 0 THEN Dsp!DspFrame ELSE UNCHANGED dsp
  /\ keyed' = IF t' = 0 /\ keyed > 0 THEN keyed - 1 ELSE keyed
  /\ UNCHANGED <<top, i_speed, ini_finish>>

(* Two key presses of a user are at least a frame (31 us) apart. *)
TopPlays(keys, addr_record) ==
  /\ ~frameDue /\ frameDue' = TRUE
  /\ keys # {} => keyed = 0
  /\ keyed' = IF keys # {} THEN 2 ELSE keyed
  /\ PlayTop(addr_record)!TopClock(keys)
  /\ dsp' = IF top'.play_stop /\ ~top.play_stop THEN Dsp!DspReset ELSE dsp
  /\ ini_finish' \in {TRUE, ini_finish}
  /\ UNCHANGED <<t, i_speed>>

(* The user may turn the speed switches at any time; AudDSP reads them in  *)
(* every frame, in the middle of a repetition or an interpolation too.     *)
TurnSwitches ==
  /\ i_speed' \in Speeds \ {i_speed}
  /\ UNCHANGED <<top, dsp, t, frameDue, keyed, ini_finish>>

PlayInit ==
  /\ top = PlayTop(0)!TopReset /\ dsp = Dsp!DspReset
  /\ t = 0 /\ frameDue = TRUE
  /\ i_speed \in Speeds /\ keyed = 0 /\ ini_finish = FALSE

PlayNext ==
  \/ CodecTicks
  \/ \E keys \in SUBSET {0, 1, 2}, addr_record \in 0 .. LastAddress :
       TopPlays(keys, addr_record)
  \/ TurnSwitches

PlaySpec == PlayInit /\ [][PlayNext]_playVars

(* The clocks run.  The keys are free, but each is sooner or later let go  *)
(* for a Top clock when nothing else is needed: fairness is stated only of *)
(* the steps in which no key is pressed.                                   *)
LiveSpec ==
  /\ PlaySpec
  /\ WF_playVars(CodecTicks)
  /\ WF_playVars(\E addr_record \in 0 .. LastAddress : TopPlays({}, addr_record))

-----------------------------------------------------------------------------
(* No word beyond the end of the recording is ever played: Top has stopped *)
(* AudDSP before the frame in which it would fetch one.                    *)
NothingPastTheEnd ==
  [][dsp.state = "PROC" /\ dsp'.addr # dsp.addr
       => dsp.addr <= top.data_end \/ dsp'.state = "IDLE"]_playVars

(* A stop is final: once it is over AudDSP is idle, so the next playback   *)
(* starts from the first word.                                             *)
StopRewinds ==
  top.play_stop => dsp = Dsp!DspReset

(* From the moment Top has left S_PLAY, which it may do up to a frame      *)
(* before AudDSP has seen the pause, the position does not move unless it  *)
(* is rewound: resuming goes on where the user paused.                     *)
PausedPositionKept ==
  [][top.state # "PLAY" /\ dsp.state # "IDLE" /\ dsp'.state # "IDLE"
       => <<dsp.addr, dsp.counter, dsp.this>>' = <<dsp.addr, dsp.counter, dsp.this>>]_playVars

(* Playback comes to an end by itself, wherever the speed switches are     *)
(* turned to meanwhile, unless that makes the step past the end of the     *)
(* recording overflow the address.  A repetition counter that has run past *)
(* the new speed comes round again.                                        *)
StepFits ==
  top.data_end + (IF top.mode = 1 THEN i_speed ELSE 1) <= LastAddress
Advances == top.mode = 1 => i_speed >= 1
PlaybackEnds ==
  (top.state = "PLAY" /\ StepFits /\ Advances)
     ~> (top.state = "PLAY_PAUSE" \/ ~StepFits \/ ~Advances)
=============================================================================

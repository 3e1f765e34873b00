----------------------------- MODULE RecordPath -----------------------------
(***************************************************************************)
(* Lab 3, recording: Top's FSM, I2cInitializer, AudRecorder and the SRAM,  *)
(* with the codec and the keys as environment.                             *)
(*                                                                         *)
(* Top is clocked by the 12 MHz clock, AudRecorder by the bit clock the    *)
(* codec derives from it; the codec moves lrc on the falling edge of the   *)
(* bit clock.  The frequencies are equal, the phase is not known: skew     *)
(* says on which side of the falling edge Top's edge lies.  I2cInitializer *)
(* runs by a third, slow clock, which has no relation to the two.  The     *)
(* playback address, which Top only compares with the end of the           *)
(* recording, is arbitrary here: one that is not past the end, one that    *)
(* may be.                                                                 *)
(***************************************************************************)
EXTENDS FrameClock

CONSTANT Bits   \* bits of a sample: 16 in the source
ASSUME RecordPathAssumption ==
  Bits \in Nat \ {0} /\ Low >= 3 /\ High >= Bits + 3

VARIABLES rec, sram,
          frame,      \* parity of the frame number, tells samples apart
          phase,      \* which edge comes next
          skew,       \* TRUE: Top's edge comes before the falling bit clock
          i2c, codec  \* I2cInitializer and the codec's end of the I2C bus

I2c == INSTANCE I2cInitializer

recordVars == <<top, rec, sram, t, frame, phase, skew, i2c, codec>>

(* The codec sends a frame's sample, most significant bit first, one bit   *)
(* clock after lrc has risen; before and after it the line is padding.     *)
SampleBit(f, b) == <<f, b>>
Pad == <<"pad">>
ZeroBit == <<"zero">>
Sample(f) == [b \in 0 .. Bits - 1 |-> SampleBit(f, b)]
i_data == LET b == Bits - (t - Low)
          IN  IF b \in 0 .. Bits - 1 THEN SampleBit(frame, b) ELSE Pad

(* The playback mode does not matter here: one mode stands for the four.   *)
RecordTop(addr_play) == INSTANCE RecorderTop WITH
  Modes <- 1, addr_record <- rec.address, ini_finish <- i2c.finished
Recorder == INSTANCE AudRecorder WITH
  i_start <- top.rec_start, i_pause <- top.rec_pause, i_stop <- top.rec_stop

(* The SRAM's write enable is tied to S_RECD: it stores the recorder's     *)
(* output register at the recorder's address all the time.                 *)
SramFollows ==
  sram' = IF top'.state = "RECD" THEN [sram EXCEPT ![rec'.address] = rec'.data]
                                 ELSE sram

BclkRises ==
  /\ phase = "rise"
  /\ phase' = IF skew THEN "top" ELSE "fall"
  /\ Recorder!RecClock
  /\ UNCHANGED <<top, t, frame, i2c, codec>>

BclkFalls ==
  /\ phase = "fall"
  /\ phase' = IF skew THEN "rise" ELSE "top"
  /\ t' = NextPosition
  /\ IF t' = Low THEN Recorder!FrameRises /\ frame' = 1 - frame
                 ELSE UNCHANGED <<rec, frame>>
  /\ UNCHANGED <<top, i2c, codec>>

TopRecords(keys, addr_play) ==
  /\ phase = "top"
  /\ phase' = IF skew THEN "fall" ELSE "rise"
  /\ RecordTop(addr_play)!TopClock(keys)
  /\ UNCHANGED <<rec, t, frame, i2c, codec>>

I2cFalls ==
  /\ I2c!Next
  /\ UNCHANGED <<top, rec, t, frame, phase>>

RecordInit ==
  /\ top = RecordTop(0)!TopReset
  /\ rec = Recorder!RecReset
  /\ sram = [a \in 0 .. LastAddress |-> Recorder!Cleared]
  /\ t = 0 /\ frame = 0 /\ phase = "rise" /\ skew \in BOOLEAN
  /\ I2c!Init

RecordNext ==
  /\ \/ BclkRises
     \/ BclkFalls
     \/ \E keys \in SUBSET {0, 1, 2}, addr_play \in {0, LastAddress} :
          TopRecords(keys, addr_play)
     \/ I2cFalls
  /\ SramFollows
  /\ UNCHANGED skew

RecordSpec == RecordInit /\ [][RecordNext]_recordVars

-----------------------------------------------------------------------------
(* Whatever the keys do and whenever they do it, every word below the      *)
(* current address except the first one is one whole sample of one frame:  *)
(* pausing and stopping never cut a sample in two.                         *)
WholeSamples ==
  rec.state # "IDLE" /\ top.state = "RECD" =>
    \A a \in 1 .. rec.address - 1 : \E f \in {0, 1} : sram[a] = Sample(f)

(* Once Top is out of S_RECD the recorder shifts nothing: it neither       *)
(* begins a sample nor goes on with one, so what a paused recording holds  *)
(* is what it will hold when it is resumed.                                *)
QuietWhenNotRecording ==
  [][top.state # "RECD" /\ top'.state # "RECD" => rec'.data = rec.data]_recordVars

(* Each configuration word after the first reaches the codec whole and in  *)
(* order, framed by a START and a STOP of its own.                         *)
LaterWordsReceived == I2c!LaterWordsReceived

(* The I2C data line is stable while the clock line is high inside a word: *)
(* the codec never mistakes a bit for a START or a STOP.                   *)
StableInsideWord == I2c!StableInsideWord

(* No key makes Top record or play before the codec has been sent its last *)
(* word and the STOP that ends it, and nothing is sent to it afterwards.   *)
ConfiguredFirst ==
  top.state \notin {"IDLE", "I2C"} =>
    /\ i2c.datcounter = I2c!Words /\ ~codec.active
    /\ codec.received # <<>>
    /\ codec.received[I2c!Words - 1] = I2c!config_data(I2c!Words - 1)

(* AudRecorder.sv:30: "when lrc=1, we want to stop, set this flag to 1.    *)
(* Therefore, when lrc=0, we can decide whether to stop by this flag": a   *)
(* stop that has taken effect leaves the recorder idle, ready to start the *)
(* next recording at address 0.  (Stated for recordings of more than one   *)
(* word, so that it does not hang on a stop within cycles of the start.)   *)
StopReachesRecorder ==
  top.state = "PLAY_PAUSE" /\ ~lrc /\ t > 1 /\ rec.address > 1
    => rec.state = "IDLE"
=============================================================================

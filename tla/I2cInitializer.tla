--------------------------- MODULE I2cInitializer ---------------------------
(***************************************************************************)
(* Lab 3, I2cInitializer.sv: writes the ten configuration words of the     *)
(* WM8731 codec over I2C.  One step per falling edge of the 100 kHz clock; *)
(* every step sets both bus lines at once.  The codec's side of the bus    *)
(* (external) follows the I2C rules: a change of SDA while SCL stays high  *)
(* is a START or a STOP, a bit is taken when SCL rises, an edge of SDA     *)
(* that coincides with a fall of SCL comes after it.                       *)
(***************************************************************************)
EXTENDS Integers, Sequences

VARIABLES i2c,        \* the registers of I2cInitializer
          codec       \* the slave: what it has understood so far

vars == <<i2c, codec>>

Words == 10
WordBits == 24

(* Device address 0011_0100, 7-bit register number, 9 bits of data. The    *)
(* words are sent from the active control register down to the line input. *)
config_data(d) ==
  << <<0,0,1,1,0,1,0,0, 0,0,0,1,0,0,1, 0,0,0,0,0,0,0,0,1>>,   \* ACTRL
     <<0,0,1,1,0,1,0,0, 0,0,0,1,0,0,0, 0,0,0,0,1,1,0,0,1>>,   \* SCTRL
     <<0,0,1,1,0,1,0,0, 0,0,0,0,1,1,1, 0,0,1,0,0,0,0,1,0>>,   \* DAIFMT
     <<0,0,1,1,0,1,0,0, 0,0,0,0,1,1,0, 0,0,0,0,0,0,0,0,0>>,   \* PDCTRL
     <<0,0,1,1,0,1,0,0, 0,0,0,0,1,0,1, 0,0,0,0,0,0,0,0,0>>,   \* DAPCTRL
     <<0,0,1,1,0,1,0,0, 0,0,0,0,1,0,0, 0,0,0,0,1,0,1,0,1>>,   \* AAPCTRL
     <<0,0,1,1,0,1,0,0, 0,0,0,0,0,1,1, 0,0,1,1,1,1,0,0,1>>,   \* RHPOUT
     <<0,0,1,1,0,1,0,0, 0,0,0,0,0,1,0, 0,0,1,1,1,1,0,0,1>>,   \* LHPOUT
     <<0,0,1,1,0,1,0,0, 0,0,0,0,0,0,1, 0,1,0,0,1,0,1,1,1>>,   \* RLINEIN
     <<0,0,1,1,0,1,0,0, 0,0,0,0,0,0,0, 0,1,0,0,1,0,1,1,1>>    \* LLINEIN
  >>[d + 1]
\* Mutant: least significant bit first.
ConfigBitReversed(d, i) == config_data(d)[WordBits - i]

ConfigBit(d, i) == config_data(d)[i + 1]

I2cReset ==
  [state |-> "IDLE", bitcounter |-> 0, datcounter |-> 0, ack_counter |-> 0,
   finished |-> FALSE, sclk |-> 0, sdat |-> 0, oen |-> FALSE]

(* S_START drives the word's first bit, which is 0 in every word. *)
StartWord ==
  /\ i2c.state = "START"
  /\ i2c' = [i2c EXCEPT !.sclk = 0, !.sdat = 0, !.finished = FALSE, !.oen = TRUE,
                        !.bitcounter = 0, !.ack_counter = 0, !.state = "TRANSMIT"]

\* Mutant: the data line moves while the clock line is high.
WriteBitClockHigh ==
  /\ i2c.state = "WRITE"
  /\ i2c' = [i2c EXCEPT !.finished = FALSE, !.oen = TRUE,
                        !.state = "TRANSMIT",
                        !.sdat = ConfigBit(i2c.datcounter, i2c.bitcounter)]

WriteBit ==
  /\ i2c.state = "WRITE"
  /\ i2c' = [i2c EXCEPT !.sclk = 0, !.finished = FALSE, !.oen = TRUE,
                        !.state = "TRANSMIT",
                        !.sdat = ConfigBit(i2c.datcounter, i2c.bitcounter)]

ByteDone == (i2c.bitcounter + 1) % 8 = 0
WordDone == i2c.bitcounter + 1 = WordBits

Transmit ==
  /\ i2c.state = "TRANSMIT"
  /\ i2c' = [i2c EXCEPT !.sclk = 1,
                        !.state = IF ByteDone THEN "ACK" ELSE "WRITE",
                        !.datcounter = IF WordDone THEN @ + 1 ELSE @,
                        !.bitcounter = @ + 1]

(* The line is released for the codec's acknowledge, which nobody checks. *)
AckLow ==
  /\ i2c.state = "ACK" /\ i2c.ack_counter = 0
  /\ i2c' = [i2c EXCEPT !.oen = FALSE, !.ack_counter = 1, !.sclk = 0]

AckHigh ==
  /\ i2c.state = "ACK" /\ i2c.ack_counter = 1
  /\ LET last == i2c.bitcounter = WordBits
     IN  i2c' = [i2c EXCEPT !.oen = FALSE, !.ack_counter = 0, !.sclk = 1,
                            !.bitcounter = IF last THEN 0 ELSE @,
                            !.state = IF last THEN "FINISH" ELSE "WRITE"]

Finish ==
  /\ i2c.state = "FINISH"
  /\ i2c' = IF i2c.bitcounter <= 1
            THEN [i2c EXCEPT !.sclk = 1, !.oen = TRUE, !.sdat = 0, !.bitcounter = @ + 1]
            ELSE [i2c EXCEPT !.sclk = 1, !.oen = TRUE, !.sdat = 1, !.bitcounter = 0,
                             !.state = "IDLE"]

Release ==
  /\ i2c.state = "IDLE" /\ i2c.bitcounter = 0
  /\ i2c' = [i2c EXCEPT !.sclk = 1, !.sdat = 1, !.bitcounter = 1, !.finished = FALSE]

NextWord ==
  /\ i2c.state = "IDLE" /\ i2c.bitcounter # 0 /\ i2c.datcounter < Words
  /\ i2c' = [i2c EXCEPT !.sclk = 1, !.sdat = 0, !.bitcounter = 0,
                        !.finished = FALSE, !.state = "START"]

\* Mutant: the last word is left out.
AllSentEarly ==
  /\ i2c.state = "IDLE" /\ i2c.bitcounter # 0 /\ i2c.datcounter >= Words - 1
  /\ i2c' = [i2c EXCEPT !.sclk = 1, !.finished = TRUE]

AllSent ==
  /\ i2c.state = "IDLE" /\ i2c.bitcounter # 0 /\ i2c.datcounter >= Words
  /\ i2c' = [i2c EXCEPT !.sclk = 1, !.finished = TRUE]

I2cClock ==
  \/ StartWord \/ WriteBit \/ Transmit \/ AckLow \/ AckHigh
  \/ Finish \/ Release \/ NextWord \/ AllSent

-----------------------------------------------------------------------------
\* word: the bits of the word it is receiving.
CodecReset == [active |-> FALSE, ack |-> FALSE, word |-> <<>>, received |-> <<>>]

(* The data line: driven by the initializer, or pulled down by an          *)
(* acknowledging codec, or high.                                           *)
Sda(m, s) == IF m.oen THEN m.sdat ELSE IF s.ack THEN 0 ELSE 1

StartCondition == i2c.sclk = 1 /\ i2c'.sclk = 1 /\ Sda(i2c, codec) = 1 /\ Sda(i2c', codec) = 0
StopCondition  == i2c.sclk = 1 /\ i2c'.sclk = 1 /\ Sda(i2c, codec) = 0 /\ Sda(i2c', codec) = 1
ClockRises == i2c.sclk = 0 /\ i2c'.sclk = 1
ClockFalls == i2c.sclk = 1 /\ i2c'.sclk = 0

CodecListens ==
  codec' =
    CASE StartCondition ->
           [codec EXCEPT !.active = TRUE, !.ack = FALSE, !.word = <<>>]
      [] StopCondition ->
           [codec EXCEPT !.active = FALSE, !.ack = FALSE, !.word = <<>>,
              !.received = IF codec.active /\ Len(codec.word) = WordBits
                           THEN Append(@, codec.word) ELSE @]
      [] ClockRises /\ codec.active /\ ~codec.ack ->
           [codec EXCEPT !.word = Append(@, Sda(i2c', codec))]
      [] ClockFalls /\ codec.active ->
           [codec EXCEPT !.ack = ~codec.ack /\ Len(codec.word) \in {8, 16, 24}]
      [] OTHER -> codec

Init == i2c = I2cReset /\ codec = CodecReset
Next == I2cClock /\ CodecListens
Spec == Init /\ [][Next]_vars

-----------------------------------------------------------------------------
(* Each configuration word after the first reaches the codec whole and in  *)
(* order, framed by a START and a STOP of its own.                         *)
LaterWordsReceived ==
  /\ \A k \in 1 .. Len(codec.received) : codec.received[k] = config_data(k)
  /\ i2c.state = "IDLE" /\ i2c.datcounter > 0
       => Len(codec.received) = i2c.datcounter - 1

(* The data line is stable while the clock line is high inside a word: the *)
(* codec never mistakes a bit for a START or a STOP.                       *)
StableInsideWord ==
  [][i2c.state \in {"WRITE", "TRANSMIT", "ACK"} =>
       ~StartCondition /\ ~StopCondition]_vars

=============================================================================

-------------------------- MODULE Recorder_proofs ---------------------------
(***************************************************************************)
(* The recorder: the configuration of the codec, the recording, the        *)
(* playback, and what the codec hears of it, for a sample of any width, a  *)
(* frame of any length that holds it, any memory, any tape and any setting *)
(* of the speed switches.                                                  *)
(***************************************************************************)
EXTENDS RecordPath, PlayPath, PlayOut, Powers_proofs, Sequences, TLAPS

(* The registers of Top.                                                   *)
TopType ==
  [state : {"IDLE", "I2C", "RECD", "RECD_PAUSE", "PLAY", "PLAY_PAUSE"},
   ini_start : BOOLEAN, mode : 0 .. 3, data_end : 0 .. LastAddress,
   rec_start : BOOLEAN, rec_pause : BOOLEAN, rec_stop : BOOLEAN,
   play_start : BOOLEAN, play_pause : BOOLEAN, play_stop : BOOLEAN]

(* The frame clock goes round.                                             *)
LEMMA PositionKept ==
  ASSUME t \in 0 .. Low + High - 1
  PROVE  /\ NextPosition \in 0 .. Low + High - 1
         /\ NextPosition = IF t = Low + High - 1 THEN 0 ELSE t + 1
<1>1. Low \in Nat /\ High \in Nat /\ Low + High >= 4 /\ t \in Nat /\ t <= Low + High - 1
  BY FrameAssumption
<1>2. \A m \in Nat \ {0}, x \in Nat : (x < m => x % m = x) /\ m % m = 0
  OBVIOUS
<1> DEFINE m == Low + High
<1>3. NextPosition = (t + 1) % m
  BY DEF NextPosition
<1>4. m \in Nat \ {0} /\ t + 1 \in Nat /\ t + 1 <= m /\ m = Low + High
  BY <1>1
<1> HIDE DEF m
<1>5. NextPosition = IF t + 1 = m THEN 0 ELSE t + 1
  BY <1>2, <1>3, <1>4
<1> HIDE DEF NextPosition
<1> QED
  BY <1>1, <1>4, <1>5

-----------------------------------------------------------------------------
(***************************************************************************)
(* The configuration of the codec.                                         *)
(***************************************************************************)
(* The types; named, so that the steps need no more than membership.       *)
I2cStates == {"IDLE", "START", "WRITE", "TRANSMIT", "ACK", "FINISH"}
BitCount == 0 .. 24
WordCount == 0 .. 10
BitValue == 0 .. 1
I2cRegs ==
  [state : I2cStates, bitcounter : BitCount, datcounter : WordCount, ack_counter : BitValue,
   finished : BOOLEAN, sclk : BitValue, sdat : BitValue, oen : BOOLEAN]
CodecRegs ==
  [active : BOOLEAN, ack : BOOLEAN, word : Seq(BitValue), received : Seq(Seq(BitValue))]
I2cType == i2c \in I2cRegs /\ codec \in CodecRegs

(* The word that is on the bus, or the next one.                           *)
Current == IF i2c.state = "FINISH" \/ (i2c.state = "ACK" /\ i2c.bitcounter = 24)
           THEN i2c.datcounter - 1 ELSE i2c.datcounter

(* The codec has taken k bits of it.                                       *)
Taken(k) == /\ Len(codec.word) = k
            /\ \A i \in 1 .. k : codec.word[i] = I2c!config_data(Current)[i]

(* Both ends of the bus by the initializer's state: the first word, of     *)
(* which the codec has seen no START, and the others.                      *)
FirstWord ==
  /\ i2c.state \in {"START", "TRANSMIT", "WRITE", "ACK"} => ~codec.active /\ ~codec.ack
  /\ i2c.state = "START" => ~i2c.oen
  /\ i2c.state = "FINISH" /\ i2c.bitcounter = 0 => ~codec.active /\ ~codec.ack
  /\ i2c.state = "FINISH" /\ i2c.bitcounter # 0 => codec.word = <<>>
  /\ i2c.state = "IDLE" => ~i2c.oen

LaterWord ==
  /\ i2c.state \in {"START", "TRANSMIT", "WRITE", "ACK", "FINISH"} => codec.active
  /\ i2c.state = "START" => i2c.oen /\ ~codec.ack /\ Taken(0)
  /\ i2c.state = "TRANSMIT" => /\ ~codec.ack /\ Taken(i2c.bitcounter)
                               /\ i2c.sdat = I2c!config_data(Current)[i2c.bitcounter + 1]
  /\ i2c.state = "WRITE" => Taken(i2c.bitcounter) /\ (i2c.bitcounter \in {8, 16} => codec.ack)
  /\ i2c.state = "ACK" => Taken(i2c.bitcounter) /\ (codec.ack <=> i2c.ack_counter = 1)
  /\ i2c.state = "FINISH" => Taken(24) /\ (i2c.bitcounter = 0 => codec.ack)
  /\ i2c.state = "IDLE" => i2c.oen

(* The initializer's registers and lines, by its state.                    *)
BusLines ==
  /\ i2c.state # "IDLE" => Current <= 9
  /\ i2c.state = "START" => i2c.sclk = 1 /\ i2c.sdat = 0 /\ i2c.bitcounter = 0
  /\ i2c.state = "TRANSMIT" => i2c.sclk = 0 /\ i2c.oen /\ i2c.bitcounter <= 23
                               /\ i2c.ack_counter = 0
  /\ i2c.state = "WRITE" => i2c.sclk = 1 /\ i2c.bitcounter \in 1 .. 23 /\ i2c.ack_counter = 0
  /\ i2c.state = "ACK" => /\ i2c.bitcounter \in {8, 16, 24} /\ i2c.sclk = 1 - i2c.ack_counter
                          /\ i2c.ack_counter = 1 => ~i2c.oen
                          /\ i2c.bitcounter = 24 => i2c.datcounter > 0
  /\ i2c.state = "FINISH" => /\ i2c.bitcounter <= 2 /\ i2c.sclk = 1 /\ i2c.datcounter > 0
                             /\ i2c.bitcounter = 0 => ~i2c.oen
                             /\ i2c.bitcounter # 0 => codec.active /\ i2c.oen /\ i2c.sdat = 0
  /\ i2c.state = "IDLE" => /\ ~codec.active /\ ~codec.ack /\ i2c.bitcounter <= 1
                           /\ i2c.bitcounter = 1 => i2c.sclk = 1 /\ i2c.sdat = 1
                           /\ i2c.datcounter > 0 => i2c.sclk = 1 /\ i2c.sdat = 1
  /\ i2c.finished => i2c.state = "IDLE" /\ i2c.bitcounter = 1 /\ i2c.datcounter = 10

(* What the codec has received: nothing of the first word, then every word *)
(* up to the one on the bus.                                               *)
Received ==
  /\ Len(codec.received) = IF Current > 0 THEN Current - 1 ELSE 0
  /\ \A k \in 1 .. Len(codec.received) : codec.received[k] = I2c!config_data(k)

(* The last word has been sent, and the bus released.                      *)
Done == i2c.state = "IDLE" /\ i2c.bitcounter = 1 /\ i2c.datcounter = 10

I2cInv ==
  /\ I2cType /\ BusLines /\ Received
  /\ Current = 0 => FirstWord
  /\ Current > 0 => LaterWord

(* Top waits for that; what it tells the recorder, by its state.           *)
TopInv ==
  /\ top.state \notin {"IDLE", "I2C"} => Done
  /\ ~top.rec_pause => top.state = "RECD"
  /\ top.rec_start => top.state = "RECD" /\ ~top.rec_pause

(***************************************************************************)
(* The recording.                                                          *)
(***************************************************************************)
(* The bit clock has risen in this position of the frame; Top has not seen *)
(* yet what it did.                                                        *)
Risen == IF skew THEN phase # "rise" ELSE phase = "fall"
TopBehind == IF skew THEN phase = "top" ELSE phase # "rise"
NextRise == IF Risen THEN t + 1 ELSE t

(* The bits of this frame's sample from k up are in the output register.   *)
Shifted(k) == \A b \in k .. Bits - 1 : rec.data[b] = SampleBit(frame, b)

(* The recorder is not told to pause while Top records; what it latched.   *)
Latched ==
  /\ t >= Low /\ ~rec.flag => top.state = "RECD"
  /\ rec.state = "NOT_RECORD" /\ NextRise > Low => rec.flag

(* A sample is shifted in step with the frame, but for the single bit of a *)
(* recording that was started in the high half.                            *)
Shifting ==
  rec.state = "RECORD" =>
    /\ top.state = "RECD"
    /\ \/ NextRise = Low + Bits - rec.counter /\ Shifted(rec.counter + 1)
       \/ rec.address = 0 /\ rec.counter = 0 /\ (TopBehind => ~top.rec_pause)

(* A complete sample is counted at once, while Top still records.          *)
Counting ==
  rec.state = "RECORD_FINISHED" /\ ~rec.flag3 /\ rec.address # 0 =>
    top.state = "RECD" /\ NextRise = Low + Bits + 1 /\ rec.data = Sample(frame)

(* While Top records, the SRAM holds the recorder's output register; the   *)
(* words before it are samples.                                            *)
Stored ==
  /\ top.state = "RECD" => sram[rec.address] = rec.data
  /\ rec.state # "IDLE" =>
       \A a \in 1 .. rec.address - 1 : \E f \in {0, 1} : sram[a] = Sample(f)

RecInv == Latched /\ Shifting /\ Counting /\ Stored

(* The types; named, so that the steps need no more than membership.       *)
RecStates == {"IDLE", "NOT_RECORD", "RECORD", "RECORD_FINISHED"}
Addresses == 0 .. LastAddress
BitNumbers == 0 .. Bits - 1
Symbol == ({0, 1} \X BitNumbers) \cup {Pad, ZeroBit}
RecRegs ==
  [state : RecStates, address : Addresses, data : [BitNumbers -> Symbol],
   counter : BitNumbers, flag : BOOLEAN, flag2 : BOOLEAN, flag3 : BOOLEAN]
RecType ==
  /\ top \in TopType
  /\ rec \in RecRegs /\ sram \in [Addresses -> [BitNumbers -> Symbol]]
  /\ t \in 0 .. Low + High - 1 /\ frame \in {0, 1} /\ skew \in BOOLEAN
  /\ phase \in {"rise", "top", "fall"}

RecordIInv == I2cInv /\ TopInv /\ RecType /\ RecInv
-----------------------------------------------------------------------------
USE DEF I2c!Words, I2c!WordBits

(* A configuration word has 24 bits, the first of them 0.                  *)
IsWord(w) == w \in Seq(BitValue) /\ Len(w) = 24 /\ w[1] = 0

LEMMA ConfigWords == \A d \in 0 .. 9 : IsWord(I2c!config_data(d))
<1> SUFFICES ASSUME NEW d \in 0 .. 9 PROVE IsWord(I2c!config_data(d))
  OBVIOUS
<1>0. CASE d = 0
  <2>1. I2c!config_data(d) = <<0,0,1,1,0,1,0,0, 0,0,0,1,0,0,1, 0,0,0,0,0,0,0,0,1>>
    BY <1>0 DEF I2c!config_data
  <2> QED
    BY <2>1 DEF IsWord, BitValue
<1>1. CASE d = 1
  <2>1. I2c!config_data(d) = <<0,0,1,1,0,1,0,0, 0,0,0,1,0,0,0, 0,0,0,0,1,1,0,0,1>>
    BY <1>1 DEF I2c!config_data
  <2> QED
    BY <2>1 DEF IsWord, BitValue
<1>2. CASE d = 2
  <2>1. I2c!config_data(d) = <<0,0,1,1,0,1,0,0, 0,0,0,0,1,1,1, 0,0,1,0,0,0,0,1,0>>
    BY <1>2 DEF I2c!config_data
  <2> QED
    BY <2>1 DEF IsWord, BitValue
<1>3. CASE d = 3
  <2>1. I2c!config_data(d) = <<0,0,1,1,0,1,0,0, 0,0,0,0,1,1,0, 0,0,0,0,0,0,0,0,0>>
    BY <1>3 DEF I2c!config_data
  <2> QED
    BY <2>1 DEF IsWord, BitValue
<1>4. CASE d = 4
  <2>1. I2c!config_data(d) = <<0,0,1,1,0,1,0,0, 0,0,0,0,1,0,1, 0,0,0,0,0,0,0,0,0>>
    BY <1>4 DEF I2c!config_data
  <2> QED
    BY <2>1 DEF IsWord, BitValue
<1>5. CASE d = 5
  <2>1. I2c!config_data(d) = <<0,0,1,1,0,1,0,0, 0,0,0,0,1,0,0, 0,0,0,0,1,0,1,0,1>>
    BY <1>5 DEF I2c!config_data
  <2> QED
    BY <2>1 DEF IsWord, BitValue
<1>6. CASE d = 6
  <2>1. I2c!config_data(d) = <<0,0,1,1,0,1,0,0, 0,0,0,0,0,1,1, 0,0,1,1,1,1,0,0,1>>
    BY <1>6 DEF I2c!config_data
  <2> QED
    BY <2>1 DEF IsWord, BitValue
<1>7. CASE d = 7
  <2>1. I2c!config_data(d) = <<0,0,1,1,0,1,0,0, 0,0,0,0,0,1,0, 0,0,1,1,1,1,0,0,1>>
    BY <1>7 DEF I2c!config_data
  <2> QED
    BY <2>1 DEF IsWord, BitValue
<1>8. CASE d = 8
  <2>1. I2c!config_data(d) = <<0,0,1,1,0,1,0,0, 0,0,0,0,0,0,1, 0,1,0,0,1,0,1,1,1>>
    BY <1>8 DEF I2c!config_data
  <2> QED
    BY <2>1 DEF IsWord, BitValue
<1>9. CASE d = 9
  <2>1. I2c!config_data(d) = <<0,0,1,1,0,1,0,0, 0,0,0,0,0,0,0, 0,1,0,0,1,0,1,1,1>>
    BY <1>9 DEF I2c!config_data
  <2> QED
    BY <2>1 DEF IsWord, BitValue
<1> QED
  BY <1>0, <1>1, <1>2, <1>3, <1>4, <1>5, <1>6, <1>7, <1>8, <1>9

(* What the steps need of the types.                                       *)
LEMMA Ranges ==
  /\ {"IDLE", "START", "WRITE", "TRANSMIT", "ACK", "FINISH"} \subseteq I2cStates
  /\ 0 \in BitValue /\ 1 \in BitValue /\ BitValue = {0, 1}
  /\ \A k \in 0 .. 24 : k \in BitCount
  /\ \A k \in 0 .. 10 : k \in WordCount
  BY DEF I2cStates, BitValue, BitCount, WordCount

LEMMA States == /\ "IDLE" \in I2cStates /\ "START" \in I2cStates /\ "WRITE" \in I2cStates
  /\ "TRANSMIT" \in I2cStates /\ "ACK" \in I2cStates /\ "FINISH" \in I2cStates
  BY DEF I2cStates

(* What the codec makes of a step of the bus.                              *)
Regs == codec \in CodecRegs /\ i2c \in I2cRegs /\ i2c' \in I2cRegs

LEMMA CodecStarts ==
  ASSUME Regs, I2c!CodecListens, I2c!StartCondition
  PROVE  /\ codec' \in CodecRegs /\ codec'.active /\ ~codec'.ack
         /\ codec'.word = <<>> /\ codec'.received = codec.received
<1>1. codec' = [codec EXCEPT !.active = TRUE, !.ack = FALSE, !.word = <<>>]
  BY DEF I2c!CodecListens, I2c!StartCondition, I2c!StopCondition, I2c!ClockRises,
     I2c!ClockFalls
<1>2. <<>> \in Seq(BitValue)
  OBVIOUS
<1> QED
  BY <1>1, <1>2 DEF CodecRegs, Regs

LEMMA CodecStops ==
  ASSUME Regs, I2c!CodecListens, I2c!StopCondition
  PROVE  /\ codec' \in CodecRegs /\ ~codec'.active /\ ~codec'.ack
         /\ codec'.word = <<>>
         /\ codec'.received = IF codec.active /\ Len(codec.word) = 24
                              THEN Append(codec.received, codec.word) ELSE codec.received
<1> DEFINE r == IF codec.active /\ Len(codec.word) = 24
                THEN Append(codec.received, codec.word) ELSE codec.received
<1>1. codec' = [codec EXCEPT !.active = FALSE, !.ack = FALSE, !.word = <<>>, !.received = r]
  BY DEF I2c!CodecListens, I2c!StartCondition, I2c!StopCondition, I2c!ClockRises,
     I2c!ClockFalls
<1>2. <<>> \in Seq(BitValue)
  OBVIOUS
<1>3. /\ Append(codec.received, codec.word) \in Seq(Seq(BitValue))
      /\ codec.received \in Seq(Seq(BitValue))
  BY DEF CodecRegs, Regs
<1>4. r \in Seq(Seq(BitValue))
  BY <1>3
<1> HIDE DEF r
<1>5. /\ codec' \in CodecRegs /\ ~codec'.active /\ ~codec'.ack
      /\ codec'.word = <<>> /\ codec'.received = r
  BY <1>1, <1>2, <1>4 DEF CodecRegs, Regs
<1> QED
  BY <1>5 DEF r

LEMMA CodecTakesBit ==
  ASSUME Regs, I2c!CodecListens, i2c.sclk = 0, i2c'.sclk = 1, codec.active, ~codec.ack
  PROVE  /\ codec' \in CodecRegs /\ codec'.active /\ ~codec'.ack
         /\ codec'.word = Append(codec.word, I2c!Sda(i2c', codec))
         /\ codec'.received = codec.received
<1> DEFINE w == Append(codec.word, I2c!Sda(i2c', codec))
<1>1. codec' = [codec EXCEPT !.word = w]
  BY DEF I2c!CodecListens, I2c!StartCondition, I2c!StopCondition, I2c!ClockRises,
     I2c!ClockFalls
<1>2. I2c!Sda(i2c', codec) \in BitValue
  BY DEF I2c!Sda, I2cRegs, Regs, BitValue
<1>3. w \in Seq(BitValue)
  BY <1>2 DEF CodecRegs, Regs
<1> HIDE DEF w
<1>4. /\ codec' \in CodecRegs /\ codec'.active /\ ~codec'.ack
      /\ codec'.word = w /\ codec'.received = codec.received
  BY <1>1, <1>3 DEF CodecRegs, Regs
<1> QED
  BY <1>4 DEF w

LEMMA CodecAcks ==
  ASSUME Regs, I2c!CodecListens, i2c.sclk = 1, i2c'.sclk = 0, codec.active
  PROVE  /\ codec' \in CodecRegs /\ codec'.active
         /\ codec'.ack <=> ~codec.ack /\ Len(codec.word) \in {8, 16, 24}
         /\ codec'.word = codec.word /\ codec'.received = codec.received
<1> DEFINE k == ~codec.ack /\ Len(codec.word) \in {8, 16, 24}
<1>1. codec' = [codec EXCEPT !.ack = k]
  BY DEF I2c!CodecListens, I2c!StartCondition, I2c!StopCondition, I2c!ClockRises,
     I2c!ClockFalls
<1>2. k \in BOOLEAN
  OBVIOUS
<1> HIDE DEF k
<1>3. /\ codec' \in CodecRegs /\ codec'.active /\ codec'.ack = k
      /\ codec'.word = codec.word /\ codec'.received = codec.received
  BY <1>1, <1>2 DEF CodecRegs, Regs
<1> QED
  BY <1>3 DEF k

LEMMA CodecDeaf ==
  ASSUME Regs, I2c!CodecListens, ~I2c!StartCondition, ~I2c!StopCondition,
         ~(i2c.sclk = 0 /\ i2c'.sclk = 1 /\ codec.active /\ ~codec.ack),
         ~(i2c.sclk = 1 /\ i2c'.sclk = 0 /\ codec.active)
  PROVE  codec' = codec
  BY DEF I2c!CodecListens, I2c!ClockRises, I2c!ClockFalls

LEMMA Element == ASSUME NEW S, NEW s \in Seq(S), NEW j \in 1 .. Len(s) PROVE s[j] \in S
  OBVIOUS

LEMMA BitOf ==
  ASSUME NEW d \in 0 .. 9, NEW i \in 0 .. 23
  PROVE  I2c!config_data(d)[i + 1] \in BitValue
<1> DEFINE w == I2c!config_data(d)
<1>1. w \in Seq(BitValue) /\ Len(w) = 24
  BY ConfigWords DEF IsWord
<1> HIDE DEF w
<1>2. i + 1 \in 1 .. Len(w)
  BY <1>1
<1>3. w[i + 1] \in BitValue
  BY <1>1, <1>2, Element
<1> QED
  BY <1>3 DEF w

LEMMA SameReceived ==
  ASSUME Received, Current' = Current, codec'.received = codec.received PROVE Received'
  BY DEF Received

(* The first word goes unnoticed; of the others the codec takes each bit.  *)
LEMMA StartWordKept ==
  ASSUME I2cInv, I2c!StartWord, I2c!CodecListens PROVE I2cInv'
<1>1. /\ Regs /\ i2c.state = "START" /\ i2c.sclk = 1
      /\ i2c'.state = "TRANSMIT" /\ i2c'.sclk = 0 /\ i2c'.sdat = 0 /\ i2c'.oen
      /\ i2c'.bitcounter = 0 /\ i2c'.ack_counter = 0
      /\ i2c'.datcounter = i2c.datcounter /\ ~i2c'.finished
  BY DEF I2cInv, I2cType, I2cRegs, BitValue, BitCount, WordCount, I2cStates, Regs,
     BusLines, I2c!StartWord
<1>2. Current' = Current /\ Current \in 0 .. 9
  BY <1>1 DEF Current, I2cInv, BusLines, I2cRegs, BitValue, BitCount, WordCount,
     I2cStates, Regs
<1>3. BusLines'
  BY <1>1, <1>2 DEF BusLines
<1>4. CASE Current = 0
  <2>1. codec' = codec /\ ~codec.active /\ ~codec.ack
    BY <1>1, <1>4, CodecDeaf DEF I2cInv, FirstWord, I2c!StartCondition,
       I2c!StopCondition
  <2> QED
    BY <1>1, <1>2, <1>3, <1>4, <2>1, SameReceived DEF I2cInv, I2cType, Regs,
       FirstWord
<1>5. CASE Current > 0
  <2>1. codec.active /\ ~codec.ack /\ Len(codec.word) = 0
    BY <1>1, <1>5 DEF I2cInv, LaterWord, Taken
  <2>2. /\ codec' \in CodecRegs /\ codec'.active /\ ~codec'.ack
        /\ codec'.word = codec.word /\ codec'.received = codec.received
    BY <1>1, <2>1, CodecAcks
  <2>3. Taken(0)' /\ I2c!config_data(Current)[1] = 0
    BY <1>2, <2>1, <2>2, ConfigWords DEF Taken, IsWord
  <2>4. LaterWord'
    BY <1>1, <1>2, <2>2, <2>3 DEF LaterWord
  <2> QED
    BY <1>1, <1>2, <1>3, <1>5, <2>2, <2>4, SameReceived DEF I2cInv, I2cType, Regs
<1> QED
  BY <1>2, <1>4, <1>5

LEMMA WriteBitKept ==
  ASSUME I2cInv, I2c!WriteBit, I2c!CodecListens PROVE I2cInv'
<1>1. /\ Regs /\ i2c.state = "WRITE" /\ i2c.sclk = 1 /\ i2c.bitcounter \in 1 .. 23
      /\ i2c'.state = "TRANSMIT" /\ i2c'.sclk = 0 /\ i2c'.oen
      /\ i2c'.sdat = I2c!config_data(Current)[i2c.bitcounter + 1]
      /\ i2c'.bitcounter = i2c.bitcounter /\ i2c'.ack_counter = 0
      /\ i2c'.datcounter = i2c.datcounter /\ ~i2c'.finished
      /\ Current' = Current /\ Current = i2c.datcounter /\ Current \in 0 .. 9
  <2>1. i2c.state = "WRITE" /\ i2c.bitcounter \in 1 .. 23 /\ i2c.sclk = 1 /\ i2c.ack_counter = 0
    BY DEF I2cInv, BusLines, I2c!WriteBit
  <2>2. Current = i2c.datcounter /\ Current \in 0 .. 9
    BY <2>1 DEF Current, I2cInv, I2cType, I2cRegs, BitValue, BitCount, WordCount,
       I2cStates, BusLines
  <2>3. I2c!config_data(Current)[i2c.bitcounter + 1] \in BitValue
    BY <2>1, <2>2, BitOf
  <2> DEFINE bit == I2c!config_data(Current)[i2c.bitcounter + 1]
  <2>4. i2c' = [i2c EXCEPT !.sclk = 0, !.finished = FALSE, !.oen = TRUE, !.state = "TRANSMIT",
                          !.sdat = bit]
    BY <2>2 DEF I2c!WriteBit, I2c!ConfigBit
  <2>7. bit \in BitValue
    BY <2>3
  <2>0. i2c \in I2cRegs
    BY DEF I2cInv, I2cType
  <2> HIDE DEF bit
  <2>5. i2c' \in I2cRegs /\ i2c'.sdat = bit
    BY <2>0, <2>4, <2>7, Ranges, States DEF I2cRegs
  <2>6. Current' = Current
    BY <2>1, <2>4 DEF I2cInv, I2cType, I2cRegs, BitValue, BitCount, WordCount,
       I2cStates, Current
  <2> QED
    BY <2>1, <2>2, <2>4, <2>5, <2>6 DEF bit, I2cInv, I2cType, I2cRegs, BitValue,
       BitCount, WordCount, I2cStates, Regs
<1>3. BusLines'
  BY <1>1 DEF BusLines
<1>4. CASE Current = 0
  <2>1. codec' = codec /\ ~codec.active /\ ~codec.ack
    BY <1>1, <1>4, CodecDeaf DEF I2cInv, FirstWord, I2c!StartCondition,
       I2c!StopCondition
  <2> QED
    BY <1>1, <1>3, <1>4, <2>1, SameReceived DEF I2cInv, I2cType, Regs, FirstWord
<1>5. CASE Current > 0
  <2>1. codec.active /\ Taken(i2c.bitcounter) /\ (i2c.bitcounter \in {8, 16} => codec.ack)
    BY <1>1, <1>5 DEF I2cInv, LaterWord
  <2>2. /\ codec' \in CodecRegs /\ codec'.active
        /\ codec'.ack <=> ~codec.ack /\ Len(codec.word) \in {8, 16, 24}
        /\ codec'.word = codec.word /\ codec'.received = codec.received
    BY <1>1, <2>1, CodecAcks
  <2>6. Len(codec.word) = i2c.bitcounter
    BY <2>1 DEF Taken
  <2>7. i2c.bitcounter \in 1 .. 23
    BY <1>1
  <2>3. ~codec'.ack
    BY <2>1, <2>2, <2>6, <2>7
  <2>4. Taken(i2c.bitcounter)'
    BY <1>1, <2>1, <2>2 DEF Taken
  <2>5. LaterWord'
    BY <1>1, <2>2, <2>3, <2>4 DEF LaterWord
  <2> QED
    BY <1>1, <1>3, <1>5, <2>2, <2>5, SameReceived DEF I2cInv, I2cType, Regs
<1> QED
  BY <1>1, <1>4, <1>5

(* A rise of the clock line: the codec takes the bit.                      *)
LEMMA TransmitKept ==
  ASSUME I2cInv, I2c!Transmit, I2c!CodecListens PROVE I2cInv'
<1>1. /\ Regs /\ i2c.state = "TRANSMIT" /\ i2c.sclk = 0 /\ i2c.oen
      /\ i2c.bitcounter \in 0 .. 23 /\ i2c.ack_counter = 0
      /\ i2c'.state = IF i2c.bitcounter \in {7, 15, 23} THEN "ACK" ELSE "WRITE"
      /\ i2c'.sclk = 1 /\ i2c'.oen /\ i2c'.sdat = i2c.sdat
      /\ i2c'.bitcounter = i2c.bitcounter + 1 /\ i2c'.ack_counter = 0
      /\ i2c'.datcounter = (IF i2c.bitcounter = 23 THEN i2c.datcounter + 1 ELSE i2c.datcounter)
      /\ ~i2c'.finished
      /\ Current = i2c.datcounter /\ Current \in 0 .. 9
  <2>1. i2c.state = "TRANSMIT" /\ i2c.bitcounter \in 0 .. 23 /\ i2c.sclk = 0
        /\ i2c.ack_counter = 0 /\ i2c.oen /\ ~i2c.finished
    BY DEF I2cInv, I2cType, I2cRegs, BitValue, BitCount, WordCount, I2cStates,
       BusLines, I2c!Transmit
  <2>2. Current = i2c.datcounter /\ Current \in 0 .. 9
    BY <2>1 DEF Current, I2cInv, I2cType, I2cRegs, BitValue, BitCount, WordCount,
       I2cStates, BusLines
  <2>3. /\ I2c!ByteDone <=> i2c.bitcounter \in {7, 15, 23}
        /\ I2c!WordDone <=> i2c.bitcounter = 23
    BY <2>1 DEF I2c!ByteDone, I2c!WordDone
  <2> DEFINE s == IF I2c!ByteDone THEN "ACK" ELSE "WRITE"
             d == IF I2c!WordDone THEN i2c.datcounter + 1 ELSE i2c.datcounter
  <2>4. i2c' = [i2c EXCEPT !.sclk = 1, !.state = s, !.datcounter = d,
                           !.bitcounter = i2c.bitcounter + 1]
    BY DEF I2c!Transmit
  <2>6. /\ s = IF i2c.bitcounter \in {7, 15, 23} THEN "ACK" ELSE "WRITE"
        /\ d = IF i2c.bitcounter = 23 THEN i2c.datcounter + 1 ELSE i2c.datcounter
        /\ s \in {"ACK", "WRITE"} /\ d \in 0 .. 10 /\ i2c.bitcounter + 1 \in 0 .. 24
    BY <2>1, <2>2, <2>3
  <2> HIDE DEF s, d
  <2>0. i2c \in I2cRegs
    BY DEF I2cInv, I2cType
  <2>7. s \in I2cStates /\ d \in WordCount /\ i2c.bitcounter + 1 \in BitCount
    BY <2>6, Ranges, States
  <2>5. i2c' \in I2cRegs
    BY <2>0, <2>4, <2>7, Ranges, States DEF I2cRegs
  <2> QED
    BY <2>1, <2>2, <2>4, <2>5, <2>6 DEF I2cInv, I2cType, I2cRegs, BitValue, BitCount,
       WordCount, I2cStates, Regs
<1>2. Current' = Current
  BY <1>1 DEF Current
<1>3. BusLines'
  BY <1>1, <1>2 DEF BusLines
<1>4. CASE Current = 0
  <2>1. codec' = codec /\ ~codec.active /\ ~codec.ack
    BY <1>1, <1>4, CodecDeaf DEF I2cInv, FirstWord, I2c!StartCondition,
       I2c!StopCondition
  <2> QED
    BY <1>1, <1>2, <1>3, <1>4, <2>1, SameReceived DEF I2cInv, I2cType, Regs,
       FirstWord
<1>5. CASE Current > 0
  <2>1. /\ codec.active /\ ~codec.ack /\ Taken(i2c.bitcounter)
        /\ i2c.sdat = I2c!config_data(Current)[i2c.bitcounter + 1]
    BY <1>1, <1>5 DEF I2cInv, LaterWord
  <2>2. I2c!Sda(i2c', codec) = i2c.sdat
    BY <1>1 DEF I2c!Sda
  <2>3. /\ codec' \in CodecRegs /\ codec'.active /\ ~codec'.ack
        /\ codec'.word = Append(codec.word, i2c.sdat)
        /\ codec'.received = codec.received
    BY <1>1, <2>1, <2>2, CodecTakesBit
  <2>4. Taken(i2c.bitcounter)'
    <3>1. codec.word \in Seq(BitValue) /\ i2c.sdat \in BitValue
      BY <1>1 DEF Regs, CodecRegs, I2cRegs, BitValue, BitCount, WordCount, I2cStates
    <3>2. /\ Len(codec'.word) = Len(codec.word) + 1
          /\ \A i \in 1 .. Len(codec.word) : codec'.word[i] = codec.word[i]
          /\ codec'.word[Len(codec.word) + 1] = i2c.sdat
      BY <2>3, <3>1
    <3> DEFINE W(i) == I2c!config_data(Current)[i]
    <3>3. /\ Len(codec.word) = i2c.bitcounter
          /\ \A i \in 1 .. i2c.bitcounter : codec.word[i] = W(i)
          /\ i2c.sdat = W(i2c.bitcounter + 1)
      BY <2>1 DEF Taken
    <3> HIDE DEF W
    <3>4. \A i \in 1 .. i2c.bitcounter + 1 : codec'.word[i] = W(i)
      BY <1>1, <3>2, <3>3
    <3>5. i2c'.bitcounter = i2c.bitcounter + 1
      BY <1>1
    <3> QED
      BY <1>1, <1>2, <3>2, <3>3, <3>4, <3>5 DEF Taken, W
  <2>5. LaterWord'
    <3>1. CASE i2c.bitcounter \in {7, 15, 23}
      <4>1. i2c'.state = "ACK" /\ i2c'.ack_counter = 0
        BY <1>1, <3>1
      <4> QED
        BY <4>1, <2>3, <2>4 DEF LaterWord
    <3>2. CASE i2c.bitcounter \notin {7, 15, 23}
      <4>1. i2c'.state = "WRITE" /\ i2c'.bitcounter \notin {8, 16}
        BY <1>1, <3>2
      <4> QED
        BY <4>1, <2>3, <2>4 DEF LaterWord
    <3> QED
      BY <3>1, <3>2
  <2> QED
    BY <1>1, <1>2, <1>3, <1>5, <2>3, <2>5, SameReceived DEF I2cInv, I2cType, Regs
<1> QED
  BY <1>1, <1>4, <1>5

LEMMA AckLowKept ==
  ASSUME I2cInv, I2c!AckLow, I2c!CodecListens PROVE I2cInv'
<1>0. i2c \in I2cRegs /\ codec \in CodecRegs
  BY DEF I2cInv, I2cType
<1>1. i2c' \in I2cRegs
  BY <1>0, Ranges DEF I2c!AckLow, I2cRegs
<1>2. /\ i2c.state = "ACK" /\ i2c.sclk = 1 /\ i2c.ack_counter = 0 /\ ~i2c.finished
      /\ i2c.bitcounter \in {8, 16, 24} /\ (i2c.bitcounter = 24 => i2c.datcounter > 0)
      /\ Current <= 9
  BY <1>0 DEF I2c!AckLow, I2cInv, BusLines
<1>3. /\ i2c'.state = "ACK" /\ i2c'.sclk = 0 /\ i2c'.ack_counter = 1 /\ ~i2c'.oen /\ ~i2c'.finished
      /\ i2c'.bitcounter = i2c.bitcounter /\ i2c'.datcounter = i2c.datcounter
  BY <1>0, <1>2 DEF I2c!AckLow, I2cRegs
<1>4. Current' = Current
  BY <1>2, <1>3 DEF Current
<1>5. BusLines'
  BY <1>2, <1>3, <1>4 DEF BusLines
<1>6. Regs
  BY <1>0, <1>1 DEF Regs
<1>7. CASE Current = 0
  <2>1. codec' = codec /\ ~codec.active /\ ~codec.ack
    BY <1>2, <1>3, <1>6, <1>7, CodecDeaf DEF I2cInv, FirstWord,
       I2c!StartCondition, I2c!StopCondition
  <2>2. FirstWord'
    BY <1>3, <2>1 DEF FirstWord
  <2> QED
    BY <1>0, <1>1, <1>4, <1>5, <1>7, <2>1, <2>2, SameReceived DEF I2cInv, I2cType
<1>8. CASE Current > 0
  <2>1. codec.active /\ Taken(i2c.bitcounter) /\ ~codec.ack
    BY <1>2, <1>8 DEF I2cInv, LaterWord
  <2>2. Len(codec.word) \in {8, 16, 24}
    BY <1>2, <2>1 DEF Taken
  <2>3. /\ codec' \in CodecRegs /\ codec'.active /\ codec'.ack
        /\ codec'.word = codec.word /\ codec'.received = codec.received
    BY <1>2, <1>3, <1>6, <2>1, <2>2, CodecAcks
  <2>4. Taken(i2c.bitcounter)'
    BY <1>3, <1>4, <2>1, <2>3 DEF Taken
  <2>5. LaterWord'
    BY <1>3, <2>3, <2>4 DEF LaterWord
  <2> QED
    BY <1>1, <1>4, <1>5, <1>8, <2>3, <2>5, SameReceived DEF I2cInv, I2cType
<1>9. Current \in Nat
  BY <1>0, <1>2 DEF Current, I2cRegs, WordCount
<1> QED
  BY <1>7, <1>8, <1>9

LEMMA AckHighKept ==
  ASSUME I2cInv, I2c!AckHigh, I2c!CodecListens PROVE I2cInv'
<1> DEFINE last == i2c.bitcounter = 24
           k == IF last THEN 0 ELSE i2c.bitcounter
           s == IF last THEN "FINISH" ELSE "WRITE"
<1>0. i2c \in I2cRegs /\ codec \in CodecRegs
  BY DEF I2cInv, I2cType
<1>1. i2c' = [i2c EXCEPT !.oen = FALSE, !.ack_counter = 0, !.sclk = 1, !.bitcounter = k, !.state = s]
  BY DEF I2c!AckHigh
<1>2. /\ i2c.state = "ACK" /\ i2c.ack_counter = 1 /\ i2c.sclk = 0 /\ ~i2c.finished /\ ~i2c.oen
      /\ i2c.bitcounter \in {8, 16, 24} /\ (i2c.bitcounter = 24 => i2c.datcounter > 0)
      /\ Current <= 9
  BY <1>0 DEF I2c!AckHigh, I2cInv, BusLines
<1>3. k \in BitCount /\ s \in I2cStates
  BY <1>2, Ranges, States
<1>4. /\ i2c.bitcounter = 24 => k = 0 /\ s = "FINISH"
      /\ i2c.bitcounter # 24 => k = i2c.bitcounter /\ k \in {8, 16} /\ s = "WRITE"
  BY <1>2
<1> HIDE DEF k, s
<1>5. i2c' \in I2cRegs
  BY <1>0, <1>1, <1>3, Ranges DEF I2cRegs
<1>6. /\ i2c'.state = s /\ i2c'.bitcounter = k /\ i2c'.sclk = 1 /\ i2c'.ack_counter = 0 /\ ~i2c'.oen
      /\ ~i2c'.finished /\ i2c'.datcounter = i2c.datcounter
  BY <1>0, <1>1, <1>2 DEF I2cRegs
<1>7. Current' = Current /\ Current \in Nat
  BY <1>0, <1>2, <1>4, <1>6 DEF Current, I2cRegs, WordCount
<1>8. BusLines'
  BY <1>2, <1>4, <1>6, <1>7 DEF BusLines
<1>9. codec' = codec
  <2>1. Regs
    BY <1>0, <1>5 DEF Regs
  <2>2. codec.active => codec.ack
    BY <1>2, <1>7 DEF I2cInv, FirstWord, LaterWord
  <2> QED
    BY <1>2, <1>6, <2>1, <2>2, CodecDeaf DEF I2c!StartCondition, I2c!StopCondition
<1>10. Current = 0 => FirstWord'
  BY <1>2, <1>4, <1>6, <1>9 DEF I2cInv, FirstWord
<1>11. Current > 0 => LaterWord'
  <2> SUFFICES ASSUME Current > 0 PROVE LaterWord'
    OBVIOUS
  <2>1. codec.active /\ codec.ack /\ Taken(i2c.bitcounter)
    BY <1>2 DEF I2cInv, LaterWord
  <2>3. i2c.bitcounter # 24 => Taken(i2c.bitcounter)'
    BY <1>4, <1>6, <1>7, <1>9, <2>1 DEF Taken
  <2>4. i2c.bitcounter = 24 => Taken(24)'
    BY <1>7, <1>9, <2>1 DEF Taken
  <2> QED
    BY <1>2, <1>4, <1>6, <1>9, <2>1, <2>3, <2>4 DEF LaterWord
<1>12. Received'
  BY <1>7, <1>9, SameReceived DEF I2cInv
<1> QED
  BY <1>0, <1>5, <1>7, <1>8, <1>9, <1>10, <1>11, <1>12 DEF I2cInv, I2cType

LEMMA SameWord ==
  ASSUME NEW u \in Seq(BitValue), NEW w \in Seq(BitValue), Len(u) = Len(w),
         \A j \in 1 .. Len(u) : u[j] = w[j]
  PROVE  u = w
  OBVIOUS

LEMMA FinishKept ==
  ASSUME I2cInv, I2c!Finish, I2c!CodecListens PROVE I2cInv'
<1>0. i2c \in I2cRegs /\ codec \in CodecRegs
  BY DEF I2cInv, I2cType
<1>1. /\ i2c.state = "FINISH" /\ i2c.bitcounter \in 0 .. 2 /\ i2c.sclk = 1 /\ ~i2c.finished
      /\ i2c.datcounter > 0 /\ Current = i2c.datcounter - 1 /\ Current \in 0 .. 9
      /\ i2c.bitcounter = 0 => ~i2c.oen
      /\ i2c.bitcounter # 0 => codec.active /\ i2c.oen /\ i2c.sdat = 0
  BY <1>0 DEF I2c!Finish, I2cInv, BusLines, Current, I2cRegs, BitCount, WordCount
<1>2. CASE i2c.bitcounter <= 1
  <2>1. i2c' = [i2c EXCEPT !.sclk = 1, !.oen = TRUE, !.sdat = 0, !.bitcounter = i2c.bitcounter + 1]
    BY <1>2 DEF I2c!Finish
  <2>2. i2c.bitcounter + 1 \in BitCount
    BY <1>1, <1>2, Ranges
  <2>3. i2c' \in I2cRegs
    BY <1>0, <2>1, <2>2, Ranges DEF I2cRegs
  <2>4. /\ i2c'.state = "FINISH" /\ i2c'.sclk = 1 /\ i2c'.oen /\ i2c'.sdat = 0 /\ ~i2c'.finished
        /\ i2c'.bitcounter = i2c.bitcounter + 1 /\ i2c'.datcounter = i2c.datcounter
    BY <1>0, <1>1, <2>1 DEF I2cRegs
  <2>5. Current' = Current
    BY <1>1, <2>4 DEF Current
  <2>6. Regs
    BY <1>0, <2>3 DEF Regs
  <2>7. /\ I2c!Sda(i2c', codec) = 0
        /\ I2c!Sda(i2c, codec) = IF i2c.bitcounter = 0 /\ ~codec.ack THEN 1 ELSE 0
    BY <1>1, <2>4 DEF I2c!Sda
  <2>8. CASE Current = 0 /\ i2c.bitcounter = 0
    <3>1. ~codec.active /\ ~codec.ack
      BY <1>1, <2>8 DEF I2cInv, FirstWord
    <3>2. I2c!StartCondition
      BY <1>1, <2>4, <2>7, <2>8, <3>1 DEF I2c!StartCondition
    <3>3. /\ codec' \in CodecRegs /\ codec'.active /\ codec'.word = <<>>
          /\ codec'.received = codec.received
      BY <2>6, <3>2, CodecStarts
    <3>4. BusLines' /\ FirstWord'
      BY <1>1, <2>4, <2>5, <2>8, <3>3 DEF BusLines, FirstWord
    <3> QED
      BY <2>3, <2>5, <2>8, <3>3, <3>4, SameReceived DEF I2cInv, I2cType
  <2>9. CASE Current # 0 \/ i2c.bitcounter # 0
    <3>1. i2c.bitcounter = 0 => codec.active /\ codec.ack
      BY <1>1, <2>9 DEF I2cInv, LaterWord
    <3>2. codec' = codec /\ codec.active
      BY <1>1, <2>4, <2>6, <2>7, <3>1, CodecDeaf DEF I2c!StartCondition,
         I2c!StopCondition
    <3>3. BusLines'
      BY <1>1, <1>2, <2>4, <2>5, <3>2 DEF BusLines
    <3>4. Current = 0 => FirstWord'
      BY <1>1, <2>4, <2>9, <3>2 DEF I2cInv, FirstWord
    <3>5. Current > 0 => LaterWord'
      <4>1. Current > 0 => Taken(24) /\ Taken(24)'
        BY <1>1, <2>5, <3>2 DEF I2cInv, LaterWord, Taken
      <4> QED
        BY <1>1, <2>4, <3>2, <4>1 DEF LaterWord
    <3> QED
      BY <1>0, <2>3, <2>5, <3>2, <3>3, <3>4, <3>5, SameReceived DEF I2cInv, I2cType
  <2> QED
    BY <2>8, <2>9
<1>3. CASE i2c.bitcounter = 2
  <2>1. i2c' = [i2c EXCEPT !.sclk = 1, !.oen = TRUE, !.sdat = 1, !.bitcounter = 0, !.state = "IDLE"]
    BY <1>3 DEF I2c!Finish
  <2>2. 0 \in BitCount
    BY Ranges
  <2>3. i2c' \in I2cRegs
    BY <1>0, <2>1, <2>2, Ranges, States DEF I2cRegs
  <2>4. /\ i2c'.state = "IDLE" /\ i2c'.sclk = 1 /\ i2c'.oen /\ i2c'.sdat = 1 /\ ~i2c'.finished
        /\ i2c'.bitcounter = 0 /\ i2c'.datcounter = i2c.datcounter
    BY <1>0, <1>1, <2>1 DEF I2cRegs
  <2>5. Current' = Current + 1
    BY <1>1, <2>4 DEF Current
  <2>6. I2c!StopCondition
    BY <1>1, <1>3, <2>4 DEF I2c!StopCondition, I2c!Sda
  <2>7. /\ codec' \in CodecRegs /\ ~codec'.active /\ ~codec'.ack
        /\ codec'.received = IF Len(codec.word) = 24
                              THEN Append(codec.received, codec.word) ELSE codec.received
    BY <1>0, <1>1, <1>3, <2>3, <2>6, CodecStops DEF Regs
  <2>8. BusLines'
    BY <1>1, <2>4, <2>7 DEF BusLines
  <2>9. LaterWord'
    BY <2>4 DEF LaterWord
  <2>10. Received'
    <3>1. CASE Current = 0
      <4>1. codec.word = <<>>
        BY <1>1, <1>3, <3>1 DEF I2cInv, FirstWord
      <4>2. Len(codec.word) # 24
        BY <4>1
      <4> QED
        BY <2>5, <2>7, <3>1, <4>2 DEF I2cInv, Received
    <3>2. CASE Current > 0
      <4>1. Taken(24)
        BY <1>1, <3>2 DEF I2cInv, LaterWord
      <4>2. codec.word = I2c!config_data(Current)
        BY <1>0, <1>1, <4>1, ConfigWords, SameWord DEF Taken, IsWord, CodecRegs
      <4>3. codec'.received = Append(codec.received, codec.word)
        BY <2>7, <4>1 DEF Taken
      <4>4. /\ codec.received \in Seq(Seq(BitValue)) /\ codec.word \in Seq(BitValue)
        BY <1>0 DEF CodecRegs
      <4>5. /\ Len(codec'.received) = Len(codec.received) + 1
            /\ codec'.received[Len(codec.received) + 1] = codec.word
            /\ \A j \in 1 .. Len(codec.received) : codec'.received[j] = codec.received[j]
            /\ Len(codec.received) \in Nat
        BY <4>3, <4>4
      <4>6. /\ Len(codec.received) = Current - 1
            /\ \A j \in 1 .. Len(codec.received) : codec.received[j] = I2c!config_data(j)
        BY <3>2 DEF I2cInv, Received
      <4> HIDE DEF Current
      <4>7. \A j \in 1 .. Len(codec'.received) : codec'.received[j] = I2c!config_data(j)
        <5> SUFFICES ASSUME NEW j \in 1 .. Len(codec'.received)
                     PROVE  codec'.received[j] = I2c!config_data(j)
          OBVIOUS
        <5>1. CASE j = Current
          BY <1>1, <4>2, <4>5, <4>6, <5>1
        <5>2. CASE j # Current
          <6>1. j \in 1 .. Len(codec.received)
            BY <1>1, <4>5, <4>6, <5>2
          <6> QED
            BY <4>5, <4>6, <6>1
        <5> QED
          BY <5>1, <5>2
      <4>8. Len(codec'.received) = Current' - 1 /\ Current' > 0
        BY <1>1, <2>5, <4>5, <4>6
      <4> QED
        BY <4>7, <4>8 DEF Received
    <3> QED
      BY <1>1, <3>1, <3>2
  <2> QED
    BY <1>1, <2>3, <2>5, <2>7, <2>8, <2>9, <2>10 DEF I2cInv, I2cType
<1> QED
  BY <1>1, <1>2, <1>3

(* Between two words the codec is not addressed.                           *)
LEMMA BetweenWords ==
  ASSUME I2cInv, i2c.state = "IDLE"
  PROVE  /\ i2c \in I2cRegs /\ codec \in CodecRegs /\ ~codec.active /\ ~codec.ack
         /\ Current = i2c.datcounter /\ Current \in 0 .. 10 /\ i2c.bitcounter \in 0 .. 1
         /\ i2c.bitcounter = 1 => i2c.sclk = 1 /\ i2c.sdat = 1
         /\ Current > 0 => i2c.sclk = 1 /\ i2c.sdat = 1 /\ i2c.oen
         /\ Current = 0 => ~i2c.oen
  BY DEF I2cInv, I2cType, BusLines, Current, FirstWord, LaterWord, I2cRegs,
     BitCount, WordCount

LEMMA QuietStep ==
  ASSUME I2cInv, I2c!CodecListens, i2c' \in I2cRegs,
         i2c.state = "IDLE", i2c'.state = "IDLE", i2c'.sclk = 1, i2c'.sdat = 1,
         i2c'.bitcounter = 1, i2c'.datcounter = i2c.datcounter, i2c'.oen = i2c.oen,
         i2c'.finished => i2c.datcounter = 10
  PROVE  I2cInv'
<1>1. Regs
  BY BetweenWords DEF Regs
<1>2. Current' = Current
  BY BetweenWords DEF Current
<1>3. codec' = codec
  BY <1>1, BetweenWords, CodecDeaf DEF I2c!StartCondition, I2c!StopCondition,
     I2c!Sda
<1>4. BusLines'
  BY <1>3, BetweenWords DEF BusLines
<1>5. (Current = 0 => FirstWord') /\ (Current > 0 => LaterWord')
  BY <1>3, BetweenWords DEF FirstWord, LaterWord
<1> QED
  BY <1>2, <1>3, <1>4, <1>5, BetweenWords, SameReceived DEF I2cInv, I2cType

LEMMA ReleaseKept ==
  ASSUME I2cInv, I2c!Release, I2c!CodecListens PROVE I2cInv'
<1>1. i2c.state = "IDLE" /\ i2c.bitcounter = 0
  BY DEF I2c!Release
<1>2. i2c' \in I2cRegs
  <2>1. 1 \in BitCount
    BY Ranges
  <2> QED
    BY <1>1, <2>1, BetweenWords, Ranges DEF I2c!Release, I2cRegs
<1>3. /\ i2c'.state = "IDLE" /\ i2c'.sclk = 1 /\ i2c'.sdat = 1 /\ ~i2c'.finished
      /\ i2c'.bitcounter = 1 /\ i2c'.datcounter = i2c.datcounter /\ i2c'.oen = i2c.oen
  BY <1>1, BetweenWords DEF I2c!Release, I2cRegs
<1> QED
  BY <1>1, <1>2, <1>3, QuietStep

LEMMA AllSentKept ==
  ASSUME I2cInv, I2c!AllSent, I2c!CodecListens PROVE I2cInv'
<1>1. i2c.state = "IDLE" /\ i2c.bitcounter # 0 /\ i2c.datcounter >= 10
  BY DEF I2c!AllSent
<1>2. i2c' \in I2cRegs
  BY <1>1, BetweenWords, Ranges DEF I2c!AllSent, I2cRegs
<1>3. /\ i2c'.state = "IDLE" /\ i2c'.sclk = 1 /\ i2c'.sdat = 1
      /\ i2c'.bitcounter = 1 /\ i2c'.datcounter = i2c.datcounter /\ i2c'.oen = i2c.oen
      /\ i2c.datcounter = 10
  BY <1>1, BetweenWords DEF I2c!AllSent, I2cRegs
<1> QED
  BY <1>1, <1>2, <1>3, QuietStep

LEMMA NextWordKept ==
  ASSUME I2cInv, I2c!NextWord, I2c!CodecListens PROVE I2cInv'
<1>1. i2c.state = "IDLE" /\ i2c.bitcounter # 0 /\ i2c.datcounter < 10
  BY DEF I2c!NextWord
<1>2. i2c' \in I2cRegs
  <2>1. 0 \in BitCount
    BY Ranges
  <2> QED
    BY <1>1, <2>1, BetweenWords, Ranges, States DEF I2c!NextWord, I2cRegs
<1>3. /\ i2c'.state = "START" /\ i2c'.sclk = 1 /\ i2c'.sdat = 0 /\ ~i2c'.finished
      /\ i2c'.bitcounter = 0 /\ i2c'.datcounter = i2c.datcounter /\ i2c'.oen = i2c.oen
  BY <1>1, BetweenWords DEF I2c!NextWord, I2cRegs
<1>4. Current' = Current /\ Current \in 0 .. 9
  BY <1>1, <1>3, BetweenWords DEF Current
<1>5. BusLines'
  BY <1>3, <1>4 DEF BusLines
<1>6. Regs
  BY <1>1, <1>2, BetweenWords DEF Regs
<1>7. CASE Current = 0
  <2>1. codec' = codec
    BY <1>1, <1>3, <1>6, <1>7, BetweenWords, CodecDeaf DEF I2c!StartCondition,
       I2c!StopCondition, I2c!Sda
  <2>2. FirstWord'
    BY <1>1, <1>3, <1>7, <2>1, BetweenWords DEF FirstWord
  <2> QED
    BY <1>1, <1>2, <1>4, <1>5, <1>7, <2>1, <2>2, BetweenWords, SameReceived
       DEF I2cInv, I2cType
<1>8. CASE Current > 0
  <2>1. I2c!StartCondition
    BY <1>1, <1>3, <1>8, BetweenWords DEF I2c!StartCondition, I2c!Sda
  <2>2. /\ codec' \in CodecRegs /\ codec'.active /\ ~codec'.ack
        /\ codec'.word = <<>> /\ codec'.received = codec.received
    BY <1>6, <2>1, CodecStarts
  <2>3. Taken(0)'
    BY <2>2 DEF Taken
  <2>4. LaterWord'
    BY <1>1, <1>3, <1>8, <2>2, <2>3, BetweenWords DEF LaterWord
  <2> QED
    BY <1>2, <1>4, <1>5, <1>8, <2>2, <2>4, SameReceived DEF I2cInv, I2cType
<1> QED
  BY <1>4, <1>7, <1>8

LEMMA I2cInvNext == I2cInv /\ I2c!Next => I2cInv'
  BY StartWordKept, WriteBitKept, TransmitKept, AckLowKept, AckHighKept, FinishKept,
     ReleaseKept, NextWordKept, AllSentKept DEF I2c!Next, I2c!I2cClock

LEMMA I2cInvInit == I2c!Init => I2cInv
<1> SUFFICES ASSUME I2c!Init PROVE I2cInv
  OBVIOUS
<1>1. i2c \in I2cRegs
  BY Ranges, States DEF I2c!Init, I2c!I2cReset, I2cRegs, BitCount, WordCount
<1>2. codec \in CodecRegs
  BY DEF I2c!Init, I2c!CodecReset, CodecRegs
<1>3. Current = 0 /\ i2c.state = "IDLE" /\ ~i2c.oen /\ ~i2c.finished /\ i2c.bitcounter = 0
      /\ i2c.datcounter = 0 /\ ~codec.active /\ ~codec.ack /\ codec.received = <<>>
  BY DEF I2c!Init, I2c!I2cReset, I2c!CodecReset, Current
<1>4. Received
  BY <1>3 DEF Received
<1> QED
  BY <1>1, <1>2, <1>3, <1>4 DEF I2cInv, I2cType, BusLines, FirstWord

-----------------------------------------------------------------------------
(* What a step of Top does to the recording.                               *)
LEMMA TopRecordsStep ==
  ASSUME I2cInv, TopInv, top \in TopType, rec.address \in 0 .. LastAddress,
         NEW keys, NEW a \in {0, LastAddress}, RecordTop(a)!TopClock(keys), UNCHANGED i2c
  PROVE  /\ top' \in TopType /\ TopInv'
         /\ top.state = "RECD" /\ top'.state # "RECD" => ~lrc /\ top.rec_pause
<1>1. i2c.finished => Done
  BY DEF I2cInv, BusLines, Done
<1>2. Done' <=> Done
  BY DEF Done
<1> USE <1>1, <1>2 DEF TopType, TopInv
<1> HIDE DEF Done
<1>3. CASE RecordTop(a)!Boot
  BY <1>3 DEF RecordTop!Boot
<1>4. CASE RecordTop(a)!WaitCodec
  BY <1>4 DEF RecordTop!WaitCodec
<1>5. CASE RecordTop(a)!RecdStopped
  BY <1>5 DEF RecordTop!RecdStopped, RecordTop!RecdSettles
<1>6. CASE RecordTop(a)!RecdPaused
  BY <1>6 DEF RecordTop!RecdPaused, RecordTop!RecdSettles
<1>7. CASE RecordTop(a)!RecdPauseKey(keys)
  BY <1>7 DEF RecordTop!RecdPauseKey
<1>8. CASE RecordTop(a)!RecdStopKey(keys)
  BY <1>8 DEF RecordTop!RecdStopKey
<1>9. CASE RecordTop(a)!RecdGoesOn(keys)
  BY <1>9 DEF RecordTop!RecdGoesOn
<1>10. CASE RecordTop(a)!RecdResume(keys)
  BY <1>10 DEF RecordTop!RecdResume
<1>11. CASE RecordTop(a)!PlayPaused
  BY <1>11 DEF RecordTop!PlayPaused
<1>12. CASE RecordTop(a)!PlayPauseKey(keys)
  BY <1>12 DEF RecordTop!PlayPauseKey
<1>13. CASE RecordTop(a)!PlayStopKey(keys)
  BY <1>13 DEF RecordTop!PlayStopKey
<1>14. CASE RecordTop(a)!PlayEnds(keys)
  BY <1>14 DEF RecordTop!PlayEnds
<1>15. CASE RecordTop(a)!PlayResume(keys)
  BY <1>15 DEF RecordTop!PlayResume
<1>16. CASE RecordTop(a)!NextMode(keys)
  <2>1. top.mode \in 0 .. 3 /\ (top.mode + 1) % 1 \in 0 .. 3
    OBVIOUS
  <2> QED BY <1>16, <2>1 DEF RecordTop!NextMode
<1>17. CASE RecordTop(a)!BackToRecord(keys)
  BY <1>17 DEF RecordTop!BackToRecord
<1>18. CASE RecordTop(a)!NoBranch(keys)
  BY <1>18 DEF RecordTop!NoBranch
<1> QED
  BY <1>3, <1>4, <1>5, <1>6, <1>7, <1>8, <1>9, <1>10, <1>11, <1>12, <1>13, <1>14,
     <1>15,
     <1>16, <1>17, <1>18 DEF RecordTop!TopClock

(* The sizes of the memory, of a sample and of the frame.                  *)
LEMMA Sizes ==
  /\ LastAddress \in Nat \ {0} /\ Bits \in Nat \ {0} /\ Low \in Nat /\ Low >= 3
  /\ High \in Nat /\ High >= Bits + 3
  BY FrameAssumption, RecordPathAssumption

LEMMA RecRanges ==
  /\ "IDLE" \in RecStates /\ "NOT_RECORD" \in RecStates /\ "RECORD" \in RecStates
  /\ "RECORD_FINISHED" \in RecStates
  /\ 0 \in Addresses /\ 0 \in BitNumbers /\ Bits - 1 \in BitNumbers
  BY Sizes DEF RecStates, Addresses, BitNumbers

LEMMA Symbols ==
  /\ \A f \in {0, 1}, b \in BitNumbers : SampleBit(f, b) \in Symbol
  /\ Pad \in Symbol /\ ZeroBit \in Symbol
  BY DEF SampleBit, Symbol

LEMMA WholeWords ==
  /\ Recorder!Cleared \in [BitNumbers -> Symbol]
  /\ \A f \in {0, 1} : Sample(f) \in [BitNumbers -> Symbol]
  BY Symbols DEF Recorder!Cleared, Sample, BitNumbers

LEMMA Shifts ==
  ASSUME NEW f \in {0, 1}, NEW w \in [BitNumbers -> Symbol],
         \A b \in BitNumbers : w[b] = SampleBit(f, b)
  PROVE  w = Sample(f)
<1>1. Sample(f) \in [BitNumbers -> Symbol] /\ \A b \in BitNumbers : Sample(f)[b] = SampleBit(f, b)
  BY WholeWords DEF Sample, BitNumbers
<1> HIDE DEF Sample
<1> QED
  BY <1>1

(* The line from the codec carries the bit the recorder counts to.         *)
LEMMA Incoming ==
  ASSUME frame \in {0, 1}, t \in 0 .. Low + High - 1
  PROVE  /\ i_data \in Symbol
         /\ \A b \in BitNumbers : t = Low + Bits - b => i_data = SampleBit(frame, b)
<1>1. CASE Bits - (t - Low) \in 0 .. Bits - 1
  <2>1. i_data = SampleBit(frame, Bits - (t - Low))
    BY <1>1 DEF i_data
  <2>2. i_data \in Symbol
    BY <1>1, <2>1, Symbols DEF BitNumbers
  <2>3. \A b \in BitNumbers : t = Low + Bits - b => b = Bits - (t - Low)
    BY Sizes DEF BitNumbers
  <2> QED
    BY <2>1, <2>2, <2>3
<1>2. CASE Bits - (t - Low) \notin 0 .. Bits - 1
  <2>1. i_data = Pad
    BY <1>2 DEF i_data
  <2>2. \A b \in BitNumbers : t = Low + Bits - b => b = Bits - (t - Low)
    BY Sizes DEF BitNumbers
  <2> QED
    BY <1>2, <2>1, <2>2, Symbols DEF BitNumbers
<1> QED
  BY <1>1, <1>2

(* What the SRAM holds after a step.                                       *)
LEMMA SramStep ==
  ASSUME sram \in [Addresses -> [BitNumbers -> Symbol]], rec' \in RecRegs, SramFollows
  PROVE  /\ sram' \in [Addresses -> [BitNumbers -> Symbol]]
         /\ top'.state = "RECD" => sram'[rec'.address] = rec'.data
         /\ \A a \in Addresses : a # rec'.address => sram'[a] = sram[a]
<1>1. rec'.address \in Addresses /\ rec'.data \in [BitNumbers -> Symbol]
  BY DEF RecRegs
<1>2. CASE top'.state = "RECD"
  <2> DEFINE x == rec'.address
             d == rec'.data
  <2>1. sram' = [sram EXCEPT ![x] = d]
    BY <1>2 DEF SramFollows
  <2>2. x \in Addresses /\ d \in [BitNumbers -> Symbol]
    BY <1>1
  <2> HIDE DEF x, d
  <2>3. /\ sram' \in [Addresses -> [BitNumbers -> Symbol]]
        /\ sram'[x] = d /\ \A a \in Addresses : a # x => sram'[a] = sram[a]
    BY <2>1, <2>2
  <2> QED
    BY <2>3 DEF x, d
<1>3. CASE top'.state # "RECD"
  BY <1>3 DEF SramFollows
<1> QED
  BY <1>2, <1>3

(* A step that does not count a word leaves the words before the address.  *)
LEMMA StoredKept ==
  ASSUME Stored, RecType, rec' \in RecRegs, SramFollows,
         rec'.state # "IDLE" =>
           \/ rec'.address = 0
           \/ rec.state # "IDLE" /\ rec'.address = rec.address
  PROVE  Stored' /\ sram' \in [Addresses -> [BitNumbers -> Symbol]]
<1>1. /\ sram' \in [Addresses -> [BitNumbers -> Symbol]]
      /\ top'.state = "RECD" => sram'[rec'.address] = rec'.data
      /\ \A a \in Addresses : a # rec'.address => sram'[a] = sram[a]
  BY SramStep DEF RecType
<1>2. ASSUME rec'.state # "IDLE", NEW a \in 1 .. rec'.address - 1
      PROVE  \E f \in {0, 1} : sram'[a] = Sample(f)
  <2>1. rec'.address \in Addresses
    BY DEF RecRegs
  <2>2. a \in Addresses /\ a # rec'.address /\ rec'.address # 0
    BY <2>1, Sizes DEF Addresses
  <2>3. \E f \in {0, 1} : sram[a] = Sample(f)
    BY <1>2, <2>2 DEF Stored
  <2> QED
    BY <1>1, <2>2, <2>3
<1>3. \A f : Sample(f)' = Sample(f)
  BY DEF Sample, SampleBit
<1> HIDE DEF Sample
<1> QED
  BY <1>1, <1>2, <1>3 DEF Stored

LEMMA I2cInvKept == I2cInv /\ UNCHANGED <<i2c, codec>> => I2cInv'
  BY DEF I2cInv, I2cType, BusLines, FirstWord, LaterWord, Received, Taken, Current

LEMMA TopInvKept == TopInv /\ UNCHANGED <<top, i2c>> => TopInv'
  BY DEF TopInv, Done

(* A rise of the bit clock, in Top's terms.                                *)
Rising == RecordIInv /\ BclkRises /\ SramFollows /\ skew' = skew

LEMMA RiseFacts ==
  ASSUME Rising
  PROVE  /\ t' = t /\ top' = top /\ frame' = frame /\ skew' = skew
         /\ phase = "rise" /\ phase' \in {"rise", "top", "fall"}
         /\ NextRise = t /\ NextRise' = t + 1 /\ TopBehind'
         /\ RecType /\ Latched /\ Shifting /\ Counting /\ Stored /\ TopInv
         /\ rec \in RecRegs /\ rec.address \in Addresses /\ rec.counter \in BitNumbers
         /\ rec.data \in [BitNumbers -> Symbol]
         /\ t \in 0 .. Low + High - 1 /\ t \in Int /\ frame \in {0, 1}
<1>1. t' = t /\ top' = top /\ frame' = frame /\ phase = "rise"
      /\ phase' = IF skew THEN "top" ELSE "fall"
  BY DEF Rising, BclkRises
<1>2. RecType
  BY DEF Rising, RecordIInv
<1>3. rec \in RecRegs /\ t \in 0 .. Low + High - 1 /\ frame \in {0, 1} /\ skew \in BOOLEAN
  BY <1>2 DEF RecType
<1>4. NextRise = t /\ NextRise' = t + 1 /\ TopBehind'
  BY <1>1, <1>3 DEF Rising, NextRise, Risen, TopBehind
<1>5. rec.address \in Addresses /\ rec.counter \in BitNumbers /\ rec.data \in [BitNumbers -> Symbol]
  BY <1>3 DEF RecRegs
<1>6. t \in Int
  BY <1>3, Sizes
<1> QED
  BY <1>1, <1>2, <1>3, <1>4, <1>5, <1>6 DEF Rising, RecordIInv, RecInv

(* What each step of the recorder has to keep; and that it leaves the      *)
(* output register alone while Top does not record.                        *)
Kept == /\ rec' \in RecRegs /\ RecInv' /\ sram' \in [Addresses -> [BitNumbers -> Symbol]]
        /\ top.state # "RECD" => rec'.data = rec.data

LEMMA IdleKept == ASSUME Rising, Recorder!Idle PROVE Kept
<1>1. rec' = rec /\ rec.state = "IDLE"
  BY DEF Recorder!Idle
<1>2. Stored' /\ sram' \in [Addresses -> [BitNumbers -> Symbol]]
  BY <1>1, RiseFacts, StoredKept DEF Rising
<1> QED
  BY <1>1, <1>2, RiseFacts DEF Kept, RecInv, Latched, Shifting, Counting

LEMMA StartRecordingKept == ASSUME Rising, Recorder!StartRecording PROVE Kept
<1> DEFINE s == IF lrc THEN "RECORD" ELSE "NOT_RECORD"
<1>1. rec' = [rec EXCEPT !.address = 0, !.data = Recorder!Cleared, !.counter = 0,
                         !.flag2 = FALSE, !.flag3 = FALSE, !.state = s]
  BY DEF Recorder!StartRecording
<1>2. top.state = "RECD" /\ ~top.rec_pause
  BY RiseFacts DEF Recorder!StartRecording, TopInv
<1>3. s \in RecStates /\ (s = "NOT_RECORD" => t < Low) /\ s \in {"RECORD", "NOT_RECORD"}
  BY RiseFacts, RecRanges, Sizes DEF lrc
<1> HIDE DEF s
<1>4. rec' \in RecRegs
  BY <1>1, <1>3, RiseFacts, RecRanges, WholeWords DEF RecRegs
<1>5. rec'.state = s /\ rec'.address = 0 /\ rec'.counter = 0 /\ rec'.flag = rec.flag
  BY <1>1, RiseFacts DEF RecRegs
<1>6. Stored' /\ sram' \in [Addresses -> [BitNumbers -> Symbol]]
  BY <1>4, <1>5, RiseFacts, StoredKept DEF Rising
<1>7. Latched'
  BY <1>3, <1>5, RiseFacts, Sizes DEF Latched
<1>8. Shifting' /\ Counting'
  BY <1>2, <1>3, <1>5, RiseFacts DEF Shifting, Counting
<1> QED
  BY <1>2, <1>4, <1>6, <1>7, <1>8 DEF Kept, RecInv

LEMMA StopWaitingKept == ASSUME Rising, Recorder!StopWaiting PROVE Kept
<1>1. rec' = [rec EXCEPT !.flag3 = FALSE, !.state = "IDLE"] /\ rec.state = "NOT_RECORD"
  BY DEF Recorder!StopWaiting
<1>2. rec' \in RecRegs
  BY <1>1, RiseFacts, RecRanges DEF RecRegs
<1>3. rec'.state = "IDLE" /\ rec'.flag = rec.flag /\ rec'.data = rec.data
  BY <1>1, RiseFacts DEF RecRegs
<1>4. Stored' /\ sram' \in [Addresses -> [BitNumbers -> Symbol]]
  BY <1>2, <1>3, RiseFacts, StoredKept DEF Rising
<1> QED
  BY <1>2, <1>3, <1>4, RiseFacts DEF Kept, RecInv, Latched, Shifting, Counting

LEMMA BeginSampleKept == ASSUME Rising, Recorder!BeginSample PROVE Kept
<1>1. rec' = [rec EXCEPT !.flag3 = FALSE, !.data = Recorder!Cleared,
                         !.counter = Bits - 1, !.state = "RECORD"]
      /\ rec.state = "NOT_RECORD" /\ t >= Low /\ ~rec.flag
  BY DEF Recorder!BeginSample, lrc
<1>2. rec' \in RecRegs
  BY <1>1, RiseFacts, RecRanges, WholeWords DEF RecRegs
<1>3. rec'.state = "RECORD" /\ rec'.counter = Bits - 1 /\ rec'.address = rec.address
      /\ rec'.flag = rec.flag
  BY <1>1, RiseFacts DEF RecRegs
<1>4. t = Low /\ top.state = "RECD"
  BY <1>1, RiseFacts, Sizes DEF Latched
<1>5. Stored' /\ sram' \in [Addresses -> [BitNumbers -> Symbol]]
  BY <1>1, <1>2, <1>3, RiseFacts, StoredKept DEF Rising
<1>6. NextRise' = Low + Bits - rec'.counter
  BY <1>3, <1>4, RiseFacts, Sizes
<1>7. Shifted(rec.counter + 1)'
  BY <1>3, Sizes DEF Shifted
<1>8. Shifting'
  BY <1>4, <1>6, <1>7, RiseFacts DEF Shifting
<1> QED
  BY <1>2, <1>3, <1>4, <1>5, <1>8, RiseFacts DEF Kept, RecInv, Latched, Counting

LEMMA KeepWaitingKept == ASSUME Rising, Recorder!KeepWaiting PROVE Kept
<1>1. rec' = [rec EXCEPT !.flag3 = FALSE] /\ rec.state = "NOT_RECORD" /\ (t < Low \/ rec.flag)
  BY RiseFacts, Sizes DEF Recorder!KeepWaiting, lrc
<1>2. rec' \in RecRegs
  BY <1>1, RiseFacts DEF RecRegs
<1>3. rec'.state = "NOT_RECORD" /\ rec'.flag = rec.flag /\ rec'.data = rec.data
      /\ rec'.address = rec.address
  BY <1>1, RiseFacts DEF RecRegs
<1>4. Stored' /\ sram' \in [Addresses -> [BitNumbers -> Symbol]]
  BY <1>1, <1>2, <1>3, RiseFacts, StoredKept DEF Rising
<1>5. Latched'
  BY <1>1, <1>3, RiseFacts, Sizes DEF Latched
<1> QED
  BY <1>2, <1>3, <1>4, <1>5, RiseFacts DEF Kept, RecInv, Shifting, Counting

LEMMA ShiftBitKept == ASSUME Rising, Recorder!ShiftBit PROVE Kept
<1> DEFINE c == rec.counter
           d == [rec.data EXCEPT ![c] = i_data]
           n == (c - 1) % Bits
           s == IF c = 0 THEN "RECORD_FINISHED" ELSE "RECORD"
           g == rec.flag2 \/ top.rec_stop
<1>1. rec.state = "RECORD"
  BY DEF Recorder!ShiftBit
<1>2. rec' = [rec EXCEPT !.flag2 = g, !.data = d, !.counter = n, !.state = s]
  <2>1. rec' = [rec EXCEPT !.flag2 = rec.flag2 \/ top.rec_stop,
                           !.data = [rec.data EXCEPT ![rec.counter] = i_data],
                           !.counter = (rec.counter - 1) % Bits,
                           !.state = IF rec.counter = 0 THEN "RECORD_FINISHED" ELSE rec.state]
    BY RiseFacts DEF Recorder!ShiftBit, RecRegs
  <2> QED
    BY <1>1, <2>1
<1>3. g \in BOOLEAN
  OBVIOUS
<1>4. n \in BitNumbers /\ (c # 0 => n = c - 1)
  <2>1. \A m \in Nat \ {0}, x \in Int : x % m \in 0 .. m - 1 /\ (x \in 0 .. m - 1 => x % m = x)
    OBVIOUS
  <2>2. c - 1 \in Int /\ Bits \in Nat \ {0} /\ (c # 0 => c - 1 \in 0 .. Bits - 1)
    BY RiseFacts, Sizes DEF BitNumbers
  <2> HIDE DEF c
  <2> QED
    BY <2>1, <2>2 DEF BitNumbers
<1>5. /\ s \in RecStates /\ (c = 0 => s = "RECORD_FINISHED") /\ (c # 0 => s = "RECORD")
  BY RecRanges
<1>6. c \in BitNumbers /\ c \in Nat /\ c < Bits
  BY RiseFacts, Sizes DEF BitNumbers
<1>7. /\ d \in [BitNumbers -> Symbol] /\ d[c] = i_data
      /\ \A b \in BitNumbers : b # c => d[b] = rec.data[b]
  <2>1. i_data \in Symbol
    BY RiseFacts, Incoming
  <2>2. rec.data \in [BitNumbers -> Symbol]
    BY RiseFacts
  <2> HIDE DEF c
  <2> QED
    BY <1>6, <2>1, <2>2
<1> HIDE DEF c, d, n, s, g
<1>8. rec' \in RecRegs
  BY <1>2, <1>3, <1>4, <1>5, <1>7, RiseFacts DEF RecRegs
<1>9. /\ rec'.state = s /\ rec'.data = d /\ rec'.counter = n /\ rec'.address = rec.address
      /\ rec'.flag = rec.flag
  BY <1>2, RiseFacts DEF RecRegs
<1>10. top.state = "RECD"
  BY <1>1, RiseFacts DEF Shifting
<1>11. Stored' /\ sram' \in [Addresses -> [BitNumbers -> Symbol]]
  BY <1>1, <1>8, <1>9, RiseFacts, StoredKept DEF Rising
<1>12. Latched'
  BY <1>5, <1>9, <1>10, RiseFacts DEF Latched
<1>13. CASE t = Low + Bits - c /\ Shifted(c + 1)
  <2>1. d[c] = SampleBit(frame, c)
    BY <1>6, <1>7, <1>13, RiseFacts, Incoming
  <2>2. \A b \in c .. Bits - 1 : d[b] = SampleBit(frame, b)
    <3> SUFFICES ASSUME NEW b \in c .. Bits - 1 PROVE d[b] = SampleBit(frame, b)
      OBVIOUS
    <3>1. CASE b = c
      BY <2>1, <3>1
    <3>2. CASE b # c
      <4>1. b \in BitNumbers /\ b \in c + 1 .. Bits - 1
        BY <1>6, <3>2, Sizes DEF BitNumbers
      <4> QED
        BY <1>7, <1>13, <3>2, <4>1 DEF Shifted
    <3> QED
      BY <3>1, <3>2
  <2>3. CASE c # 0
    <3>1. rec'.counter + 1 = c /\ NextRise' = Low + Bits - rec'.counter
      BY <1>4, <1>6, <1>9, <1>13, <2>3, RiseFacts, Sizes
    <3>2. Shifted(rec.counter + 1)'
      BY <1>9, <2>2, <3>1, RiseFacts DEF Shifted, SampleBit
    <3>3. Shifting' /\ Counting'
      BY <1>5, <1>9, <1>10, <2>3, <3>1, <3>2, RiseFacts DEF Shifting, Counting
    <3> QED
      BY <1>8, <1>10, <1>11, <1>12, <3>3 DEF Kept, RecInv
  <2>4. CASE c = 0
    <3>1. NextRise' = Low + Bits + 1
      BY <1>13, <2>4, RiseFacts, Sizes
    <3>2. d = Sample(frame)
      BY <1>7, <2>2, <2>4, RiseFacts, Shifts DEF BitNumbers
    <3>3. Sample(frame)' = Sample(frame)
      BY RiseFacts DEF Sample, SampleBit
    <3>4. Shifting' /\ Counting'
      BY <1>5, <1>9, <1>10, <2>4, <3>1, <3>2, <3>3, RiseFacts DEF Shifting, Counting
    <3> QED
      BY <1>8, <1>10, <1>11, <1>12, <3>4 DEF Kept, RecInv
  <2> QED
    BY <2>3, <2>4
<1>14. CASE rec.address = 0 /\ c = 0
  <2>1. Shifting' /\ Counting'
    BY <1>5, <1>9, <1>14 DEF Shifting, Counting
  <2> QED
    BY <1>8, <1>10, <1>11, <1>12, <2>1 DEF Kept, RecInv
<1> QED
  BY <1>1, <1>13, <1>14, RiseFacts DEF Shifting, c

LEMMA FinishedKept == ASSUME Rising, Recorder!Finished PROVE Kept
<1> DEFINE a == IF rec.flag3 THEN rec.address ELSE (rec.address + 1) % (LastAddress + 1)
           s == IF lrc THEN "RECORD_FINISHED" ELSE "NOT_RECORD"
<1>1. rec.state = "RECORD_FINISHED"
  BY DEF Recorder!Finished
<1>2. rec' = [rec EXCEPT !.address = a, !.flag3 = TRUE, !.state = s]
  BY <1>1 DEF Recorder!Finished
<1>3. /\ a \in Addresses
      /\ rec.flag3 => a = rec.address
      /\ ~rec.flag3 => a = 0 \/ a = rec.address + 1
  <2>1. \A m \in Nat \ {0}, x \in Nat : (x < m => x % m = x) /\ m % m = 0
    OBVIOUS
  <2> DEFINE m == LastAddress + 1
             x == rec.address + 1
  <2>2. m \in Nat \ {0} /\ x \in Nat /\ x <= m /\ 0 \in Addresses /\ (x # m => x \in Addresses)
    BY RiseFacts, Sizes DEF Addresses
  <2>3. a = IF rec.flag3 THEN rec.address ELSE x % m
    OBVIOUS
  <2>4. rec.address \in Addresses
    BY RiseFacts
  <2> HIDE DEF m, x, a
  <2>5. x % m = IF x = m THEN 0 ELSE x
    BY <2>1, <2>2
  <2>6. a \in Addresses /\ (rec.flag3 => a = rec.address) /\ (~rec.flag3 => a = 0 \/ a = x)
    BY <2>2, <2>3, <2>4, <2>5
  <2> QED
    BY <2>6 DEF x
<1>4. s \in RecStates /\ s \in {"RECORD_FINISHED", "NOT_RECORD"} /\ (s = "NOT_RECORD" => t < Low)
  BY RiseFacts, RecRanges, Sizes DEF lrc
<1> HIDE DEF a, s
<1>5. rec' \in RecRegs
  BY <1>2, <1>3, <1>4, RiseFacts DEF RecRegs
<1>6. /\ rec'.state = s /\ rec'.address = a /\ rec'.flag3 /\ rec'.data = rec.data
      /\ rec'.flag = rec.flag
  BY <1>2, RiseFacts DEF RecRegs
<1>7. Latched' /\ Shifting' /\ Counting'
  BY <1>4, <1>6, RiseFacts, Sizes DEF Latched, Shifting, Counting
<1>8. Stored' /\ sram' \in [Addresses -> [BitNumbers -> Symbol]]
  <2>1. CASE rec.flag3 \/ a = 0
    BY <1>1, <1>3, <1>5, <1>6, <2>1, RiseFacts, StoredKept DEF Rising
  <2>2. CASE ~rec.flag3 /\ a = rec.address + 1
    <3>1. /\ sram' \in [Addresses -> [BitNumbers -> Symbol]]
          /\ top'.state = "RECD" => sram'[rec'.address] = rec'.data
          /\ \A b \in Addresses : b # rec'.address => sram'[b] = sram[b]
      BY <1>5, SramStep, RiseFacts DEF Rising, RecType
    <3>2. rec.address \in Nat /\ rec.address <= LastAddress
      BY RiseFacts, Sizes DEF Addresses
    <3>3. ASSUME NEW b \in 1 .. rec'.address - 1
          PROVE  \E f \in {0, 1} : sram'[b] = Sample(f)
      <4>1. b \in Addresses /\ b # rec'.address /\ b <= rec.address /\ rec.address # 0
        BY <1>6, <2>2, <3>2, Sizes DEF Addresses
      <4>2. \E f \in {0, 1} : sram[b] = Sample(f)
        <5>1. CASE b = rec.address
          <6>1. sram[rec.address] = rec.data /\ rec.data = Sample(frame)
            BY <1>1, <2>2, <4>1, RiseFacts DEF Counting, Stored
          <6> QED
            BY <5>1, <6>1, RiseFacts
        <5>2. CASE b # rec.address
          <6>1. b \in 1 .. rec.address - 1
            BY <3>2, <4>1, <5>2
          <6> QED
            BY <1>1, <6>1, RiseFacts DEF Stored
        <5> QED
          BY <5>1, <5>2
      <4> QED
        BY <3>1, <4>1, <4>2
    <3>4. \A f : Sample(f)' = Sample(f)
      BY DEF Sample, SampleBit
    <3> HIDE DEF Sample
    <3> QED
      BY <3>1, <3>3, <3>4 DEF Stored
  <2> QED
    BY <1>3, <2>1, <2>2
<1> QED
  BY <1>5, <1>6, <1>7, <1>8 DEF Kept, RecInv

LEMMA RiseKept == ASSUME Rising PROVE Kept
  BY IdleKept, StartRecordingKept, StopWaitingKept, BeginSampleKept,
     KeepWaitingKept,
     ShiftBitKept, FinishedKept DEF Rising, BclkRises, Recorder!RecClock

(* A fall of the bit clock: the frame goes on to its next position.        *)
Falling == RecordIInv /\ BclkFalls /\ SramFollows /\ skew' = skew

LEMMA FallFacts ==
  ASSUME Falling
  PROVE  /\ top' = top /\ skew' = skew /\ phase' \in {"rise", "top", "fall"}
         /\ t \in 0 .. Low + High - 1 /\ t \in Int
         /\ t' = IF t = Low + High - 1 THEN 0 ELSE t + 1
         /\ NextRise = t + 1 /\ NextRise' = t' /\ (TopBehind' <=> TopBehind)
         /\ RecType /\ Latched /\ Shifting /\ Counting /\ Stored /\ TopInv
         /\ rec \in RecRegs /\ rec.counter \in 0 .. Bits - 1
<1>1. top' = top /\ phase = "fall" /\ phase' = (IF skew THEN "rise" ELSE "top")
      /\ t' = NextPosition
  BY DEF Falling, BclkFalls
<1>2. RecType
  BY DEF Falling, RecordIInv
<1>3. rec \in RecRegs /\ t \in 0 .. Low + High - 1 /\ skew \in BOOLEAN
  BY <1>2 DEF RecType
<1>4. NextRise = t + 1 /\ NextRise' = t' /\ (TopBehind' <=> TopBehind)
  BY <1>1, <1>3 DEF Falling, NextRise, Risen, TopBehind
<1>5. rec.counter \in 0 .. Bits - 1
  BY <1>3 DEF RecRegs, BitNumbers
<1>6. t' = IF t = Low + High - 1 THEN 0 ELSE t + 1
  BY <1>1, <1>3, PositionKept
<1>7. t \in Int
  BY <1>3, Sizes
<1> QED
  BY <1>1, <1>2, <1>3, <1>4, <1>5, <1>6, <1>7 DEF Falling, RecordIInv, RecInv

LEMMA FallKept ==
  ASSUME Falling
  PROVE  /\ RecType' /\ RecInv' /\ rec'.data = rec.data
<1>1. t' \in 0 .. Low + High - 1
  BY FallFacts, Sizes
<1>2. CASE t' = Low
  <2> DEFINE f == IF rec.state = "IDLE" /\ top.rec_start THEN FALSE ELSE top.rec_pause
  <2>1. rec' = [rec EXCEPT !.flag = f] /\ frame' = 1 - frame
    BY <1>2 DEF Falling, BclkFalls, Recorder!FrameRises
  <2>2. f \in BOOLEAN /\ (~f => top.state = "RECD")
    BY FallFacts DEF TopInv, RecType, TopType
  <2> HIDE DEF f
  <2>3. rec' \in RecRegs
    BY <2>1, <2>2, FallFacts DEF RecRegs
  <2>4. /\ rec'.flag = f /\ rec'.state = rec.state /\ rec'.address = rec.address
        /\ rec'.counter = rec.counter /\ rec'.flag3 = rec.flag3 /\ rec'.data = rec.data
    BY <2>1, FallFacts DEF RecRegs
  <2>5. Stored' /\ sram' \in [Addresses -> [BitNumbers -> Symbol]]
    BY <2>3, <2>4, FallFacts, StoredKept DEF Falling
  <2>6. NextRise = Low /\ NextRise' = Low /\ Low \in Nat
    BY <1>2, FallFacts, Sizes
  <2>7. Latched'
    BY <2>2, <2>4, <2>6, FallFacts DEF Latched
  <2>8. rec.state = "RECORD" => /\ top.state = "RECD" /\ rec.address = 0 /\ rec.counter = 0
                                /\ TopBehind => ~top.rec_pause
    BY <2>6, FallFacts, Sizes DEF Shifting
  <2>9. Shifting'
    BY <2>4, <2>8, FallFacts DEF Shifting
  <2>10. Counting'
    BY <2>4, <2>6, FallFacts, Sizes DEF Counting
  <2>11. RecType'
    BY <1>1, <2>1, <2>3, <2>5, FallFacts DEF RecType
  <2> QED
    BY <2>4, <2>5, <2>7, <2>9, <2>10, <2>11 DEF RecInv
<1>3. CASE t' # Low
  <2>1. rec' = rec /\ frame' = frame
    BY <1>3 DEF Falling, BclkFalls
  <2>2. Stored' /\ sram' \in [Addresses -> [BitNumbers -> Symbol]]
    BY <2>1, FallFacts, StoredKept DEF Falling
  <2>3. Latched'
    BY <1>3, <2>1, FallFacts, Sizes DEF Latched
  <2>4. \A k : Shifted(k)' <=> Shifted(k)
    BY <2>1 DEF Shifted, SampleBit
  <2>5. Shifting'
    BY <2>1, <2>4, FallFacts, Sizes DEF Shifting
  <2>6. Counting'
    BY <2>1, FallFacts, Sizes DEF Counting, Sample, SampleBit
  <2>7. RecType'
    BY <1>1, <2>1, <2>2, FallFacts DEF RecType
  <2> QED
    BY <2>1, <2>2, <2>3, <2>5, <2>6, <2>7 DEF RecInv
<1> QED
  BY <1>2, <1>3

(* A clock of Top: it leaves S_RECD only while nothing is being shifted.   *)
LEMMA TopKept ==
  ASSUME RecordIInv, NEW keys, NEW a \in {0, LastAddress}, TopRecords(keys, a),
         SramFollows, skew' = skew
  PROVE  RecType' /\ RecInv' /\ TopInv' /\ rec' = rec
<1>1. /\ phase = "top" /\ phase' = (IF skew THEN "fall" ELSE "rise")
      /\ rec' = rec /\ t' = t /\ frame' = frame /\ UNCHANGED i2c
      /\ RecordTop(a)!TopClock(keys)
  BY DEF TopRecords
<1>2. RecType /\ I2cInv /\ TopInv /\ Latched /\ Shifting /\ Counting /\ Stored
  BY DEF RecordIInv, RecInv
<1>3. /\ top \in TopType /\ rec \in RecRegs /\ t \in 0 .. Low + High - 1 /\ skew \in BOOLEAN
  BY <1>2 DEF RecType
<1>4. rec.address \in 0 .. LastAddress /\ rec.counter \in 0 .. Bits - 1 /\ t \in Int
  BY <1>3, Sizes DEF RecRegs, Addresses, BitNumbers
<1>5. /\ top' \in TopType /\ TopInv'
      /\ top.state = "RECD" /\ top'.state # "RECD" => t < Low /\ top.rec_pause
  BY <1>1, <1>2, <1>3, <1>4, TopRecordsStep, Sizes DEF lrc
<1>6. NextRise' = NextRise /\ TopBehind /\ ~TopBehind' /\ NextRise \in {t, t + 1}
  BY <1>1, <1>3 DEF NextRise, Risen, TopBehind
<1>7. Stored' /\ sram' \in [Addresses -> [BitNumbers -> Symbol]]
  BY <1>1, <1>2, <1>3, StoredKept
<1>8. Latched'
  BY <1>1, <1>2, <1>4, <1>5, <1>6, Sizes DEF Latched
<1>9. \A k : Shifted(k)' <=> Shifted(k)
  BY <1>1 DEF Shifted, SampleBit
<1>10. Shifting'
  <2>1. ASSUME rec.state = "RECORD" PROVE top'.state = "RECD"
    BY <1>2, <1>4, <1>5, <1>6, <2>1, Sizes DEF Shifting
  <2> QED
    BY <1>1, <1>2, <1>6, <1>9, <2>1 DEF Shifting
<1>11. Counting'
  <2>1. ASSUME rec.state = "RECORD_FINISHED", ~rec.flag3, rec.address # 0
        PROVE  top'.state = "RECD"
    BY <1>2, <1>4, <1>5, <1>6, <2>1, Sizes DEF Counting
  <2> QED
    BY <1>1, <1>2, <1>6, <2>1 DEF Counting, Sample, SampleBit
<1>12. RecType'
  BY <1>1, <1>2, <1>3, <1>5, <1>7 DEF RecType
<1> QED
  BY <1>1, <1>5, <1>7, <1>8, <1>10, <1>11, <1>12 DEF RecInv

(* A fall of the slow clock: nothing is sent any more once Top records.    *)
LEMMA ConfigureKept ==
  ASSUME RecordIInv, I2cFalls, SramFollows, skew' = skew
  PROVE  RecordIInv' /\ rec' = rec
<1>1. /\ I2c!Next /\ top' = top /\ rec' = rec /\ t' = t /\ frame' = frame /\ phase' = phase
  BY DEF I2cFalls
<1>2. RecType /\ I2cInv /\ TopInv /\ Latched /\ Shifting /\ Counting /\ Stored /\ rec \in RecRegs
  BY DEF RecordIInv, RecInv, RecType
<1>3. I2cInv'
  BY <1>1, <1>2, I2cInvNext
<1>4. Done => Done'
  <2> SUFFICES ASSUME Done PROVE Done'
    OBVIOUS
  <2>1. I2c!AllSent
    BY <1>1 DEF Done, I2c!Next, I2c!I2cClock, I2c!StartWord, I2c!WriteBit,
       I2c!Transmit,
       I2c!AckLow, I2c!AckHigh, I2c!Finish, I2c!Release, I2c!NextWord, I2c!Words
  <2>2. i2c \in I2cRegs
    BY <1>2 DEF I2cInv, I2cType
  <2> QED
    BY <2>1, <2>2 DEF Done, I2c!AllSent, I2cRegs
<1>5. TopInv'
  BY <1>1, <1>2, <1>4 DEF TopInv
<1>6. Stored' /\ sram' \in [Addresses -> [BitNumbers -> Symbol]]
  BY <1>1, <1>2, StoredKept
<1>7. NextRise' = NextRise /\ (TopBehind' <=> TopBehind)
  BY <1>1 DEF NextRise, Risen, TopBehind
<1>8. \A k : Shifted(k)' <=> Shifted(k)
  BY <1>1 DEF Shifted, SampleBit
<1>9. Latched' /\ Shifting' /\ Counting'
  BY <1>1, <1>2, <1>7, <1>8 DEF Latched, Shifting, Counting, Sample, SampleBit
<1>10. RecType'
  BY <1>1, <1>2, <1>6 DEF RecType
<1> QED
  BY <1>1, <1>3, <1>5, <1>6, <1>9, <1>10 DEF RecordIInv, RecInv

LEMMA RecordInitInv == RecordInit => RecordIInv
<1> SUFFICES ASSUME RecordInit PROVE RecordIInv
  OBVIOUS
<1>1. /\ top = RecordTop(0)!TopReset /\ rec = Recorder!RecReset
      /\ sram = [a \in 0 .. LastAddress |-> Recorder!Cleared]
      /\ t = 0 /\ frame = 0 /\ phase = "rise" /\ skew \in BOOLEAN /\ I2c!Init
  BY DEF RecordInit
<1>2. I2cInv
  BY <1>1, I2cInvInit
<1>3. /\ top \in TopType /\ top.state = "IDLE" /\ top.rec_pause /\ ~top.rec_start
  BY <1>1, Sizes DEF TopType, RecordTop!TopReset
<1>4. TopInv
  BY <1>3 DEF TopInv
<1>5. rec \in RecRegs /\ rec.state = "IDLE"
  BY <1>1, RecRanges, WholeWords DEF RecRegs, Recorder!RecReset
<1>6. sram \in [Addresses -> [BitNumbers -> Symbol]]
  BY <1>1, WholeWords DEF Addresses
<1>7. 0 \in 0 .. Low + High - 1 /\ Low > 0
  BY Sizes
<1>8. RecType
  BY <1>1, <1>3, <1>5, <1>6, <1>7 DEF RecType
<1>9. RecInv
  BY <1>1, <1>3, <1>5, <1>7, Sizes DEF RecInv, Latched, Shifting, Counting, Stored
<1> QED
  BY <1>2, <1>4, <1>8, <1>9 DEF RecordIInv

(* Each step keeps the invariant, and the output register alone unless Top *)
(* records.                                                                *)
LEMMA RecordStep ==
  ASSUME RecordIInv, RecordNext
  PROVE  RecordIInv' /\ (top.state # "RECD" => rec'.data = rec.data)
<1>1. SramFollows /\ skew' = skew
  BY DEF RecordNext
<1>2. CASE BclkRises
  <2>1. Rising /\ UNCHANGED <<i2c, codec, top>>
    BY <1>1, <1>2 DEF Rising, BclkRises
  <2>2. RecType'
    BY <2>1, RiseFacts, RiseKept DEF Kept, RecType
  <2> QED
    BY <2>1, <2>2, RiseKept, I2cInvKept, TopInvKept DEF Kept, RecordIInv
<1>3. CASE BclkFalls
  <2>1. Falling /\ UNCHANGED <<i2c, codec, top>>
    BY <1>1, <1>3 DEF Falling, BclkFalls
  <2> QED
    BY <2>1, FallKept, I2cInvKept, TopInvKept DEF RecordIInv
<1>4. ASSUME NEW keys, NEW a \in {0, LastAddress}, TopRecords(keys, a)
      PROVE  RecordIInv' /\ rec' = rec
  <2>1. UNCHANGED <<i2c, codec>>
    BY <1>4 DEF TopRecords
  <2> QED
    BY <1>1, <1>4, <2>1, TopKept, I2cInvKept DEF RecordIInv
<1>5. CASE I2cFalls
  BY <1>1, <1>5, ConfigureKept
<1> QED
  BY <1>2, <1>3, <1>4, <1>5 DEF RecordNext

LEMMA RecordUnchanged == RecordIInv /\ UNCHANGED recordVars => RecordIInv'
<1> SUFFICES ASSUME RecordIInv, UNCHANGED recordVars PROVE RecordIInv'
  OBVIOUS
<1>1. /\ top' = top /\ rec' = rec /\ sram' = sram /\ t' = t /\ frame' = frame
      /\ phase' = phase /\ skew' = skew /\ i2c' = i2c /\ codec' = codec
  BY DEF recordVars
<1>2. I2cInv' /\ TopInv'
  BY <1>1, I2cInvKept, TopInvKept DEF RecordIInv
<1>3. NextRise' = NextRise /\ (TopBehind' <=> TopBehind)
  BY <1>1 DEF NextRise, Risen, TopBehind
<1>4. \A k : Shifted(k)' <=> Shifted(k)
  BY <1>1 DEF Shifted, SampleBit
<1>5. \A f : Sample(f)' = Sample(f)
  BY DEF Sample, SampleBit
<1> HIDE DEF Sample
<1>6. RecInv'
  BY <1>1, <1>3, <1>4, <1>5 DEF RecordIInv, RecInv, Latched, Shifting, Counting,
     Stored
<1>7. RecType'
  BY <1>1 DEF RecordIInv, RecType
<1> QED
  BY <1>2, <1>6, <1>7 DEF RecordIInv

THEOREM RecordInvariant == RecordSpec => []RecordIInv
<1>1. RecordIInv /\ [RecordNext]_recordVars => RecordIInv'
  BY RecordStep, RecordUnchanged
<1> QED
  BY <1>1, RecordInitInv, PTL DEF RecordSpec

(* Whenever the keys are pressed and wherever Top's clock lies in the bit  *)
(* clock, each word behind the first is one whole sample of one frame.     *)
THEOREM WholeSamplesCorrect == RecordSpec => []WholeSamples
<1>1. RecordIInv => WholeSamples
  BY DEF RecordIInv, RecInv, Stored, WholeSamples
<1> QED
  BY <1>1, RecordInvariant, PTL

(* Out of S_RECD the recorder shifts nothing.                              *)
THEOREM QuietCorrect == RecordSpec => QuietWhenNotRecording
<1>1. RecordIInv /\ [RecordNext]_recordVars =>
        [top.state # "RECD" /\ top'.state # "RECD" => rec'.data = rec.data]_recordVars
  BY RecordStep
<1> QED
  BY <1>1, RecordInvariant, PTL DEF RecordSpec, QuietWhenNotRecording

(* The codec has received the words behind the first one, whole and in     *)
(* order.                                                                  *)
THEOREM LaterWordsCorrect == RecordSpec => []LaterWordsReceived
<1>1. RecordIInv => LaterWordsReceived
  <2> SUFFICES ASSUME RecordIInv PROVE LaterWordsReceived
    OBVIOUS
  <2>1. Received /\ i2c \in I2cRegs
    BY DEF RecordIInv, I2cInv, I2cType
  <2>2. i2c.state = "IDLE" => Current = i2c.datcounter
    BY DEF Current
  <2> QED
    BY <2>1, <2>2 DEF Received, LaterWordsReceived, I2c!LaterWordsReceived
<1> QED
  BY <1>1, RecordInvariant, PTL

(* Top neither records nor plays before the codec has its last word.       *)
THEOREM ConfiguredFirstCorrect == RecordSpec => []ConfiguredFirst
<1>1. RecordIInv => ConfiguredFirst
  <2> SUFFICES ASSUME RecordIInv, top.state \notin {"IDLE", "I2C"}
               PROVE  /\ i2c.datcounter = I2c!Words /\ ~codec.active
                      /\ codec.received # <<>>
                      /\ codec.received[I2c!Words - 1] = I2c!config_data(I2c!Words - 1)
    BY DEF ConfiguredFirst
  <2>1. Done /\ I2cInv
    BY DEF RecordIInv, TopInv
  <2>2. ~codec.active /\ i2c.datcounter = 10 /\ Current = 10
    BY <2>1 DEF Done, I2cInv, BusLines, Current
  <2>3. Len(codec.received) = 9 /\ codec.received[9] = I2c!config_data(9)
    BY <2>1, <2>2 DEF I2cInv, Received
  <2>4. codec.received # <<>>
    BY <2>3
  <2> QED
    BY <2>2, <2>3, <2>4 DEF I2c!Words
<1> QED
  BY <1>1, RecordInvariant, PTL

(* Inside a word the data line moves only while the clock line is low.     *)
THEOREM StableInsideWordCorrect == RecordSpec => StableInsideWord
<1>1. RecordIInv /\ [RecordNext]_recordVars =>
        [i2c.state \in {"WRITE", "TRANSMIT", "ACK"} =>
           ~I2c!StartCondition /\ ~I2c!StopCondition]_(I2c!vars)
  <2> SUFFICES ASSUME RecordIInv, [RecordNext]_recordVars,
                      i2c.state \in {"WRITE", "TRANSMIT", "ACK"},
                      <<i2c, codec>>' # <<i2c, codec>>
               PROVE  ~I2c!StartCondition /\ ~I2c!StopCondition
    BY DEF I2c!vars
  <2>1. I2c!Next
    BY DEF RecordNext, recordVars, BclkRises, BclkFalls, TopRecords, I2cFalls
  <2>2. i2c \in I2cRegs /\ BusLines
    BY DEF RecordIInv, I2cInv, I2cType
  <2>3. CASE I2c!WriteBit
    BY <2>2, <2>3 DEF I2c!WriteBit, I2cRegs, I2c!StartCondition, I2c!StopCondition
  <2>4. CASE I2c!Transmit
    BY <2>2, <2>4 DEF I2c!Transmit, BusLines, I2c!StartCondition, I2c!StopCondition
  <2>5. CASE I2c!AckLow
    BY <2>2, <2>5 DEF I2c!AckLow, I2cRegs, I2c!StartCondition, I2c!StopCondition
  <2>6. CASE I2c!AckHigh
    BY <2>2, <2>6 DEF I2c!AckHigh, BusLines, I2c!StartCondition, I2c!StopCondition
  <2> QED
    BY <2>1, <2>3, <2>4, <2>5, <2>6 DEF I2c!Next, I2c!I2cClock, I2c!StartWord,
       I2c!Finish,
       I2c!Release, I2c!NextWord, I2c!AllSent
<1> QED
  BY <1>1, RecordInvariant, PTL DEF RecordSpec, StableInsideWord,
     I2c!StableInsideWord

-----------------------------------------------------------------------------
(***************************************************************************)
(* The playback.                                                           *)
(***************************************************************************)
(* The registers of Top and AudDSP, those that decide what AudDSP does.    *)
Shape ==
  /\ top \in TopType
  /\ DOMAIN dsp = DOMAIN Dsp!DspReset
  /\ dsp.state \in {"IDLE", "PROC", "PAUSE"} /\ dsp.addr \in 0 .. LastAddress
  /\ t \in 0 .. Low + High - 1 /\ frameDue \in BOOLEAN
  /\ i_speed \in Speeds /\ keyed \in 0 .. 2 /\ ini_finish \in BOOLEAN

(* What Top tells AudDSP, by Top's state.                                  *)
Lines ==
  /\ ~top.play_pause => top.state = "PLAY" /\ ~top.play_stop
  /\ top.play_start => top.state = "PLAY"

(* AudDSP follows a start or a pause at the next fall of the frame clock,  *)
(* before the next key.                                                    *)
Follows ==
  /\ dsp.state = "PROC" /\ top.play_pause => keyed = 2
  /\ dsp.state = "IDLE" /\ top.play_start /\ ~top.play_stop
       => ~top.play_pause /\ keyed = 2

(* Top has seen that AudDSP is past the end before the frame is over.      *)
EndNoticed ==
  ~top.play_pause /\ dsp.state = "PROC" =>
    dsp.addr <= top.data_end \/ (t = 0 /\ ~frameDue)

PlayIInv == Shape /\ Lines /\ Follows /\ StopRewinds /\ EndNoticed
-----------------------------------------------------------------------------
(* The registers of Top keep their types.                                  *)
LEMMA TopTypeKept ==
  ASSUME top \in TopType, NEW keys, NEW a \in 0 .. LastAddress, PlayTop(a)!TopClock(keys)
  PROVE  top' \in TopType
<1> USE DEF TopType
<1>1. CASE PlayTop(a)!Boot
  BY <1>1 DEF PlayTop!Boot
<1>2. CASE PlayTop(a)!WaitCodec
  BY <1>2 DEF PlayTop!WaitCodec
<1>3. CASE PlayTop(a)!RecdStopped
  BY <1>3 DEF PlayTop!RecdStopped
<1>4. CASE PlayTop(a)!RecdPaused
  BY <1>4 DEF PlayTop!RecdPaused
<1>5. CASE PlayTop(a)!RecdPauseKey(keys)
  BY <1>5 DEF PlayTop!RecdPauseKey
<1>6. CASE PlayTop(a)!RecdStopKey(keys)
  BY <1>6 DEF PlayTop!RecdStopKey
<1>7. CASE PlayTop(a)!RecdGoesOn(keys)
  BY <1>7 DEF PlayTop!RecdGoesOn
<1>8. CASE PlayTop(a)!RecdResume(keys)
  BY <1>8 DEF PlayTop!RecdResume
<1>9. CASE PlayTop(a)!PlayPaused
  BY <1>9 DEF PlayTop!PlayPaused
<1>10. CASE PlayTop(a)!PlayPauseKey(keys)
  BY <1>10 DEF PlayTop!PlayPauseKey
<1>11. CASE PlayTop(a)!PlayStopKey(keys)
  BY <1>11 DEF PlayTop!PlayStopKey
<1>12. CASE PlayTop(a)!PlayEnds(keys)
  BY <1>12 DEF PlayTop!PlayEnds
<1>13. CASE PlayTop(a)!PlayResume(keys)
  BY <1>13 DEF PlayTop!PlayResume
<1>14. CASE PlayTop(a)!NextMode(keys)
  <2>1. top.mode \in 0 .. 3 /\ (top.mode + 1) % 4 \in 0 .. 3
    OBVIOUS
  <2> QED BY <1>14, <2>1 DEF PlayTop!NextMode
<1>15. CASE PlayTop(a)!BackToRecord(keys)
  BY <1>15 DEF PlayTop!BackToRecord
<1>16. CASE PlayTop(a)!NoBranch(keys)
  BY <1>16 DEF PlayTop!NoBranch
<1> QED
  BY <1>1, <1>2, <1>3, <1>4, <1>5, <1>6, <1>7, <1>8, <1>9, <1>10, <1>11, <1>12,
     <1>13, <1>14, <1>15, <1>16 DEF PlayTop!TopClock

(* What a step of Top keeps, by its branches.                              *)
LEMMA TopStep ==
  ASSUME PlayIInv, NEW keys \in SUBSET {0, 1, 2}, NEW a \in 0 .. LastAddress,
         TopPlays(keys, a)
  PROVE  PlayIInv'
<1>0. /\ ~frameDue /\ frameDue' = TRUE /\ t' = t /\ i_speed' = i_speed
      /\ keys # {} => keyed = 0 /\ keyed' = 2
      /\ keys = {} => keyed' = keyed
  BY DEF TopPlays
<1>1. /\ dsp' = dsp \/ dsp' = Dsp!DspReset
      /\ top'.play_stop => dsp' = Dsp!DspReset
      /\ ~(top'.play_stop /\ ~top.play_stop) => dsp' = dsp
      /\ top.play_stop => dsp = Dsp!DspReset
  BY DEF TopPlays, PlayIInv, StopRewinds
<1>2. top \in TopType /\ top' \in TopType /\ PlayTop(a)!TopClock(keys)
  BY TopTypeKept DEF TopPlays, PlayIInv, Shape
<1>3. keyed \in 0 .. 2 /\ keyed' \in 0 .. 2 /\ frameDue' \in BOOLEAN
  BY <1>0 DEF PlayIInv, Shape
<1>7. ini_finish' \in BOOLEAN
  BY Zenon DEF PlayIInv, Shape, TopPlays
<1>4. dsp.addr \in Int /\ top.data_end \in Int
  BY <1>2 DEF TopType, PlayIInv, Shape
<1>5. Shape'
  BY <1>0, <1>1, <1>2, <1>3, <1>7, FrameAssumption, PlaybackAssumption, TapeAssumption
     DEF PlayIInv, Shape, Dsp!DspReset
<1>6. Lines' /\ Follows' /\ EndNoticed'
  <2> USE <1>0, <1>1, <1>4 DEF PlayIInv, TopType, Lines, Follows, EndNoticed, Dsp!DspReset
  <2>1. CASE PlayTop(a)!Boot
    BY <1>2, <2>1 DEF PlayTop!Boot
  <2>2. CASE PlayTop(a)!WaitCodec
    BY <1>2, <2>2 DEF PlayTop!WaitCodec
  <2>3. CASE PlayTop(a)!RecdStopped
    BY <1>2, <2>3 DEF PlayTop!RecdStopped, PlayTop!RecdSettles
  <2>4. CASE PlayTop(a)!RecdPaused
    BY <1>2, <2>4 DEF PlayTop!RecdPaused, PlayTop!RecdSettles
  <2>5. CASE PlayTop(a)!RecdPauseKey(keys)
    BY <1>2, <2>5 DEF PlayTop!RecdPauseKey
  <2>6. CASE PlayTop(a)!RecdStopKey(keys)
    BY <1>2, <2>6 DEF PlayTop!RecdStopKey
  <2>7. CASE PlayTop(a)!RecdGoesOn(keys)
    BY <1>2, <2>7 DEF PlayTop!RecdGoesOn
  <2>8. CASE PlayTop(a)!RecdResume(keys)
    BY <1>2, <2>8 DEF PlayTop!RecdResume
  <2>9. CASE PlayTop(a)!PlayPaused
    BY <1>2, <2>9 DEF PlayTop!PlayPaused, PlayTop!PlaySettles
  <2>10. CASE PlayTop(a)!PlayPauseKey(keys)
    BY <1>2, <2>10 DEF PlayTop!PlayPauseKey
  <2>11. CASE PlayTop(a)!PlayStopKey(keys)
    BY <1>2, <2>11 DEF PlayTop!PlayStopKey
  <2>12. CASE PlayTop(a)!PlayEnds(keys)
    BY <1>2, <2>12 DEF PlayTop!PlayEnds
  <2>13. CASE PlayTop(a)!PlayResume(keys)
    BY <1>2, <2>13 DEF PlayTop!PlayResume
  <2>14. CASE PlayTop(a)!NextMode(keys)
    BY <1>2, <2>14 DEF PlayTop!NextMode
  <2>15. CASE PlayTop(a)!BackToRecord(keys)
    BY <1>2, <2>15 DEF PlayTop!BackToRecord
  <2>16. CASE PlayTop(a)!NoBranch(keys)
    BY <1>2, <2>16 DEF PlayTop!NoBranch, PlayTop!PlaySettles
  <2> QED
    BY <1>2, <2>1, <2>2, <2>3, <2>4, <2>5, <2>6, <2>7, <2>8, <2>9, <2>10, <2>11,
       <2>12, <2>13, <2>14, <2>15, <2>16 DEF PlayTop!TopClock
<1> QED
  BY <1>1, <1>5, <1>6 DEF PlayIInv, StopRewinds

(* The address counter does not leave the memory.                          *)
LEMMA AddressKept ==
  ASSUME Shape, NEW n \in Nat PROVE Dsp!AddressPlus(n) \in 0 .. LastAddress
<1>1. LastAddress + 1 \in Nat \ {0} /\ dsp.addr + n \in Nat
  BY FrameAssumption, PlaybackAssumption, TapeAssumption DEF Shape
<1>2. \A x \in Nat, m \in Nat \ {0} : x % m \in 0 .. m - 1
  OBVIOUS
<1>3. (dsp.addr + n) % (LastAddress + 1) \in 0 .. (LastAddress + 1) - 1
  BY <1>1, <1>2
<1>4. LastAddress \in Nat /\ 0 .. (LastAddress + 1) - 1 = 0 .. LastAddress
  BY FrameAssumption, PlaybackAssumption, TapeAssumption
<1> QED
  BY <1>3, <1>4 DEF Dsp!AddressPlus

(* What AudDSP does in a frame, as far as its state and address go.        *)
Moves ==
  \/ top.play_stop /\ dsp' = Dsp!DspReset
  \/ ~top.play_stop /\ dsp.state = "IDLE" /\ ~top.play_start /\ dsp' = dsp
  \/ /\ ~top.play_stop /\ dsp.state = "IDLE" /\ top.play_start
     /\ dsp'.state = "PROC" /\ dsp'.addr = 0
  \/ /\ ~top.play_stop /\ dsp.state = "PROC" /\ top.play_pause
     /\ dsp' = [dsp EXCEPT !.state = "PAUSE"]
  \/ /\ ~top.play_stop /\ dsp.state = "PAUSE" /\ ~top.play_pause
     /\ dsp' = [dsp EXCEPT !.state = "PROC"]
  \/ ~top.play_stop /\ dsp.state = "PAUSE" /\ top.play_pause /\ dsp' = dsp
  \/ ~top.play_stop /\ dsp.state = "PROC" /\ ~top.play_pause /\ dsp'.state = "PROC"

LEMMA DspMoves ==
  ASSUME Shape, Dsp!DspFrame
  PROVE  Moves /\ DOMAIN dsp' = DOMAIN dsp /\ dsp'.addr \in 0 .. LastAddress
<1>0. i_speed \in Nat /\ 1 \in Nat /\ 0 \in 0 .. LastAddress /\ dsp.addr \in 0 .. LastAddress
  BY FrameAssumption, PlaybackAssumption, TapeAssumption DEF Shape
<1>1. Dsp!AddressPlus(1) \in 0 .. LastAddress /\ Dsp!AddressPlus(i_speed) \in 0 .. LastAddress
  BY <1>0, AddressKept
<1>2. DOMAIN dsp = {"state", "addr", "counter", "ready", "prev", "this", "data"}
  BY DEF Shape, Dsp!DspReset
<1>3. CASE Dsp!StopHeld
  BY <1>0, <1>1, <1>2, <1>3 DEF Dsp!StopHeld, Dsp!DspReset, Moves
<1>4. CASE Dsp!Idle
  BY <1>0, <1>1, <1>2, <1>4 DEF Dsp!Idle, Moves
<1>5. CASE Dsp!StartPlaying
  BY <1>0, <1>1, <1>2, <1>5 DEF Dsp!StartPlaying, Moves
<1>6. CASE Dsp!Pause
  BY <1>0, <1>1, <1>2, <1>6 DEF Dsp!Pause, Moves
<1>7. CASE Dsp!Resume
  BY <1>0, <1>1, <1>2, <1>7 DEF Dsp!Resume, Moves
<1>8. CASE Dsp!StayPaused
  BY <1>0, <1>1, <1>2, <1>8 DEF Dsp!StayPaused, Moves
<1>9. CASE Dsp!Original
  BY <1>0, <1>1, <1>2, <1>9 DEF Dsp!Original, Dsp!Processing, Moves
<1>10. CASE Dsp!Fast
  BY <1>0, <1>1, <1>2, <1>10 DEF Dsp!Fast, Dsp!Processing, Moves
<1>11. CASE Dsp!SlowFetch
  BY <1>0, <1>1, <1>2, <1>11 DEF Dsp!SlowFetch, Dsp!Processing, Moves
<1>12. CASE Dsp!SlowRepeat
  BY <1>0, <1>1, <1>2, <1>12 DEF Dsp!SlowRepeat, Dsp!Processing, Moves
<1>13. CASE Dsp!LinearPrime
  BY <1>0, <1>1, <1>2, <1>13 DEF Dsp!LinearPrime, Dsp!Processing, Moves
<1>14. CASE Dsp!LinearFetch
  BY <1>0, <1>1, <1>2, <1>14 DEF Dsp!LinearFetch, Dsp!Processing, Moves
<1>15. CASE Dsp!LinearInterpolate
  BY <1>0, <1>1, <1>2, <1>15 DEF Dsp!LinearInterpolate, Dsp!Processing, Moves
<1> QED
  BY <1>3, <1>4, <1>5, <1>6, <1>7, <1>8, <1>9, <1>10, <1>11, <1>12, <1>13, <1>14,
     <1>15 DEF Dsp!DspFrame

(* What a tick of the codec's clock keeps.                                 *)
LEMMA CodecStep == PlayIInv /\ CodecTicks => PlayIInv'
<1> SUFFICES ASSUME PlayIInv, CodecTicks PROVE PlayIInv'
  OBVIOUS
<1>1. /\ top' = top /\ i_speed' = i_speed /\ ini_finish' = ini_finish
      /\ frameDue /\ frameDue' = FALSE
      /\ t' # 0 => dsp' = dsp /\ keyed' = keyed
      /\ keyed' = IF t' = 0 /\ keyed > 0 THEN keyed - 1 ELSE keyed
  BY DEF CodecTicks
<1>2. t' \in 0 .. Low + High - 1
  BY PositionKept DEF CodecTicks, PlayIInv, Shape
<1>3. keyed \in 0 .. 2 /\ keyed' \in 0 .. 2
  BY <1>1 DEF PlayIInv, Shape
<1>4. CASE t' # 0
  <2>1. dsp' = dsp /\ keyed' = keyed
    BY <1>1, <1>4
  <2>2. Shape' /\ Lines' /\ Follows' /\ StopRewinds'
    BY <1>1, <1>2, <2>1 DEF PlayIInv, Shape, Lines, Follows, StopRewinds
  <2>3. EndNoticed'
    BY <1>1, <2>1 DEF PlayIInv, EndNoticed
  <2> QED
    BY <2>2, <2>3 DEF PlayIInv
<1>5. CASE t' = 0
  <2>1. Moves /\ DOMAIN dsp' = DOMAIN dsp /\ dsp'.addr \in 0 .. LastAddress
    BY <1>5, DspMoves DEF CodecTicks, PlayIInv
  <2>2. dsp'.state \in {"IDLE", "PROC", "PAUSE"}
    BY <2>1 DEF Moves, PlayIInv, Shape, Dsp!DspReset
  <2>3. Shape' /\ Lines'
    BY <1>1, <1>2, <1>3, <2>1, <2>2 DEF PlayIInv, Shape, Lines
  <2>4. Follows' /\ StopRewinds'
    BY <1>1, <1>3, <1>5, <2>1 DEF PlayIInv, Shape, Moves, Lines, Follows,
       StopRewinds, Dsp!DspReset
  <2>5. EndNoticed'
    BY <1>1, <1>5 DEF EndNoticed
  <2> QED
    BY <2>3, <2>4, <2>5 DEF PlayIInv
<1> QED
  BY <1>4, <1>5

LEMMA SwitchStep == PlayIInv /\ TurnSwitches => PlayIInv'
  BY DEF PlayIInv, Shape, Lines, Follows, StopRewinds, EndNoticed, TurnSwitches

LEMMA PlaybackInit == PlayInit => PlayIInv
<1> SUFFICES ASSUME PlayInit PROVE PlayIInv
  OBVIOUS
<1>1. LastAddress \in Nat \ {0} /\ Low + High - 1 \in Nat
  BY FrameAssumption, PlaybackAssumption, TapeAssumption
<1>2. top \in TopType /\ top.play_pause /\ ~top.play_start /\ ~top.play_stop
  BY <1>1 DEF PlayInit, TopType, PlayTop!TopReset
<1>3. 0 \in 0 .. Low + High - 1 /\ 0 \in 0 .. 2 /\ TRUE \in BOOLEAN /\ FALSE \in BOOLEAN
  BY <1>1
<1>4. dsp.state = "IDLE" /\ dsp.addr \in 0 .. LastAddress /\ dsp = Dsp!DspReset
  BY <1>1 DEF PlayInit, Dsp!DspReset
<1>5. t = 0 /\ frameDue = TRUE /\ keyed = 0 /\ ini_finish = FALSE /\ i_speed \in Speeds
  BY DEF PlayInit
<1>6. Shape
  BY <1>2, <1>3, <1>4, <1>5 DEF Shape
<1> QED
  BY <1>2, <1>4, <1>6 DEF PlayIInv, Lines, Follows, StopRewinds, EndNoticed

LEMMA PlaybackNext == PlayIInv /\ [PlayNext]_playVars => PlayIInv'
<1> SUFFICES ASSUME PlayIInv, [PlayNext]_playVars PROVE PlayIInv'
  OBVIOUS
<1>1. CASE UNCHANGED playVars
  BY <1>1 DEF playVars, PlayIInv, Shape, Lines, Follows, StopRewinds, EndNoticed
<1>2. CASE PlayNext
  BY <1>2, CodecStep, TopStep, SwitchStep DEF PlayNext
<1> QED
  BY <1>1, <1>2

THEOREM PlaybackInvariant == PlaySpec => []PlayIInv
  BY PlaybackInit, PlaybackNext, PTL DEF PlaySpec

(* While Top raises its stop line AudDSP is rewound: the next playback     *)
(* starts from the first word, whatever keys came before.                  *)
THEOREM StopRewindsCorrect == PlaySpec => []StopRewinds
<1>1. PlayIInv => StopRewinds
  BY DEF PlayIInv
<1> QED
  BY <1>1, PlaybackInvariant, PTL

(* AudDSP moves on from no word behind the end of the recording.           *)
THEOREM NothingPastTheEndCorrect == PlaySpec => NothingPastTheEnd
<1>1. PlayIInv /\ [PlayNext]_playVars =>
        [dsp.state = "PROC" /\ dsp'.addr # dsp.addr
           => dsp.addr <= top.data_end \/ dsp'.state = "IDLE"]_playVars
  <2> SUFFICES ASSUME PlayIInv, PlayNext, dsp.state = "PROC", dsp'.addr # dsp.addr,
                      dsp'.state # "IDLE"
               PROVE  dsp.addr <= top.data_end
    OBVIOUS
  <2>1. CASE CodecTicks
    <3>1. t' = 0 /\ frameDue
      BY <2>1 DEF CodecTicks
    <3>2. Moves
      BY <2>1, <3>1, DspMoves DEF CodecTicks, PlayIInv
    <3>3. ~top.play_pause
      BY <3>2 DEF Moves, PlayIInv, Shape, Dsp!DspReset
    <3> QED
      BY <3>1, <3>3 DEF PlayIInv, EndNoticed
  <2>2. ASSUME NEW keys \in SUBSET {0, 1, 2}, NEW a \in 0 .. LastAddress, TopPlays(keys, a)
        PROVE  FALSE
    BY <2>2 DEF TopPlays, Dsp!DspReset
  <2>3. CASE TurnSwitches
    BY <2>3 DEF TurnSwitches
  <2> QED
    BY <2>1, <2>2, <2>3 DEF PlayNext
<1> QED
  BY <1>1, PlaybackInvariant, PTL DEF PlaySpec, NothingPastTheEnd

(* A paused playback keeps its position, although AudDSP notices the pause *)
(* up to a frame after Top.                                                *)
THEOREM PausedPositionCorrect == PlaySpec => PausedPositionKept
<1>1. PlayIInv /\ [PlayNext]_playVars =>
        [top.state # "PLAY" /\ dsp.state # "IDLE" /\ dsp'.state # "IDLE"
           => <<dsp.addr, dsp.counter, dsp.this>>' = <<dsp.addr, dsp.counter, dsp.this>>]_playVars
  <2> SUFFICES ASSUME PlayIInv, PlayNext, top.state # "PLAY", dsp.state # "IDLE", dsp'.state # "IDLE"
               PROVE  /\ dsp'.addr = dsp.addr /\ dsp'.counter = dsp.counter
                      /\ dsp'.this = dsp.this
    OBVIOUS
  <2>1. CASE CodecTicks
    <3>1. CASE t' = 0
      <4>1. Moves
        BY <2>1, <3>1, DspMoves DEF CodecTicks, PlayIInv
      <4>2. top.play_pause
        BY DEF PlayIInv, Lines
      <4> QED
        BY <4>1, <4>2 DEF Moves, PlayIInv, Shape, Dsp!DspReset
    <3>2. CASE t' # 0
      BY <2>1, <3>2 DEF CodecTicks
    <3> QED
      BY <3>1, <3>2
  <2>2. ASSUME NEW keys \in SUBSET {0, 1, 2}, NEW a \in 0 .. LastAddress, TopPlays(keys, a)
        PROVE  dsp' = dsp
    BY <2>2 DEF TopPlays, Dsp!DspReset
  <2>3. CASE TurnSwitches
    BY <2>3 DEF TurnSwitches
  <2> QED
    BY <2>1, <2>2, <2>3 DEF PlayNext
<1> QED
  BY <1>1, PlaybackInvariant, PTL DEF PlaySpec, PausedPositionKept

-----------------------------------------------------------------------------
(***************************************************************************)
(* What the codec hears.                                                   *)
(***************************************************************************)
(* A register that holds a widened sample.                                 *)
Widened(x) == \E p \in 0 .. Source!SampleRange - 1 : x = Source!SignExtend(p)

DspStates == {"IDLE", "PROC", "PAUSE"}
OutShape ==
  /\ DOMAIN dsp = DOMAIN Source!DspReset /\ dsp.state \in DspStates
  /\ dsp.ready \in BOOLEAN /\ dsp.counter \in 0 .. Counters - 1
  /\ dsp.data \in 0 .. Source!RegRange - 1
  /\ DOMAIN top = {"play_start", "play_pause", "play_stop", "mode"}
  /\ top.play_pause \in BOOLEAN /\ top.play_start \in BOOLEAN
  /\ i_speed \in Speeds /\ i_sram_data \in Samples
  /\ t \in 0 .. Low + High - 1 /\ keyed \in 0 .. 2
  /\ word \in Nat /\ unheard \in BOOLEAN

(* AudDSP's registers: widened samples, an interpolation that has not run  *)
(* past its end, a repetition of the sample fetched last.                  *)
Registers ==
  /\ Widened(dsp.prev) /\ Widened(dsp.this)
  /\ top.mode = 3 /\ i_speed >= 2 => dsp.counter < i_speed
  /\ top.mode = 2 /\ dsp.ready => dsp.data = dsp.this

(* What Top tells AudDSP.  A pause that AudDSP has not seen is as young as *)
(* the frame.                                                              *)
Pausing ==
  /\ ~top.play_stop /\ (top.play_start => ~top.play_pause)
  /\ dsp.state = "PROC" /\ top.play_pause => keyed = 2

(* The word under way to the codec: in the high half AudPlayer sends what  *)
(* AudDSP puts out, unless a pause keeps it, and then AudDSP will wait.    *)
Window == t \in Low .. Low + SampleBits
PlayerOK ==
  /\ DOMAIN player = {"state", "counter", "aud_dacdat"} /\ player.aud_dacdat \in {0, 1}
  /\ player.state \in {"IDLE", "PLAY", "PLAY_FINISH"}
  /\ DOMAIN latch = {"Ispre", "dac_data"}
  /\ latch.Ispre \in BOOLEAN /\ latch.dac_data \in 0 .. Source!SampleRange - 1
  /\ player.state = "IDLE" => ~latch.Ispre
  /\ player.state = "PLAY_FINISH" => t = 0 \/ t > Low + SampleBits
  /\ ~(latch.Ispre /\ Window) => player.counter = 0
SendingOK ==
  latch.Ispre /\ Window =>
    /\ player.state = "PLAY" /\ player.counter = t - Low
    /\ word = latch.dac_data \div Pow2[SampleBits - (t - Low)]
HearingOK ==
  /\ t >= Low /\ latch.Ispre => latch.dac_data = Source!o_dac_data
  /\ t >= Low /\ dsp.state = "PROC" /\ ~latch.Ispre => top.play_pause
  /\ t >= Low + SampleBits /\ latch.Ispre => ~unheard
  /\ t > Low + SampleBits /\ latch.Ispre => player.state = "PLAY_FINISH"

OutIInv == OutShape /\ Registers /\ Pausing /\ PlayerOK /\ SendingOK /\ HearingOK
(* The ranges of the two registers, whose powers of two are those of       *)
(* Powers.                                                                 *)
LEMMA OutRanges ==
  /\ Source!SampleRange = Pow2[SampleBits] /\ Source!SampleRange \in Nat \ {0}
  /\ Source!SampleRange \div 2 \in Nat \ {0}
  /\ Source!SampleRange = 2 * (Source!SampleRange \div 2)
  /\ Source!RegRange = 16 * Source!SampleRange
  /\ Source!RegRange \div 2 = 8 * Source!SampleRange
<1>1. Source!SampleRange = Pow2[SampleBits] /\ Source!RegRange = Pow2[SampleBits + 4]
  BY DEF Source!SampleRange, Source!RegRange, Source!Pow2, Pow2
<1> DEFINE n == SampleBits
<1>2. n \in Nat \ {0} /\ n - 1 \in Nat /\ (n - 1) + 1 = n
  BY PlaybackAssumption
<1> HIDE DEF n
<1>3. /\ Pow2[n - 1] \in Nat \ {0} /\ Pow2[(n - 1) + 1] = 2 * Pow2[n - 1]
      /\ Pow2[n + 1] = 2 * Pow2[n] /\ Pow2[(n + 1) + 1] = 2 * Pow2[n + 1]
      /\ Pow2[(n + 2) + 1] = 2 * Pow2[n + 2] /\ Pow2[(n + 3) + 1] = 2 * Pow2[n + 3]
  BY <1>2, Pow2Facts
<1>4. (n + 1) + 1 = n + 2 /\ (n + 2) + 1 = n + 3 /\ (n + 3) + 1 = n + 4
  BY <1>2
<1>5. Pow2[n] = 2 * Pow2[n - 1] /\ Pow2[n + 4] = 16 * Pow2[n] /\ Pow2[n] \in Nat \ {0}
  BY <1>2, <1>3, <1>4, Pow2Facts
<1> HIDE DEF Source!SampleRange, Source!RegRange
<1>6. \A h \in Nat : (2 * h) \div 2 = h
  OBVIOUS
<1>7. Pow2[n] \div 2 = Pow2[n - 1]
  BY <1>3, <1>5, <1>6
<1>8. Pow2[n + 4] \div 2 = 8 * Pow2[n]
  <2>1. Pow2[n + 4] = 2 * (8 * Pow2[n]) /\ 8 * Pow2[n] \in Nat
    BY <1>5
  <2> QED BY <2>1, <1>6
<1> QED
  BY <1>1, <1>3, <1>5, <1>7, <1>8 DEF n

(* Widening a sample keeps what it stands for, and narrowing undoes it.    *)
LEMMA WidenedSample ==
  ASSUME NEW x, Widened(x)
  PROVE  /\ x \in 0 .. Source!RegRange - 1
         /\ Source!Signed(x % Source!SampleRange) = RegSigned(x)
         /\ RegSigned(x) \in Int
         /\ RegSigned(x) >= 0 => RegSigned(x) = x /\ x < Source!SampleRange \div 2
<1>1. PICK p \in 0 .. Source!SampleRange - 1 : x = Source!SignExtend(p)
  BY DEF Widened
<1> DEFINE S == Source!SampleRange
           R == Source!RegRange
           h == S \div 2
<1>2. S \in Nat \ {0} /\ h \in Nat \ {0} /\ S = 2 * h /\ R = 16 * S /\ R \div 2 = 8 * S
  BY OutRanges
<1>3. x = IF p < h THEN p ELSE p + R - S
  BY <1>1 DEF Source!SignExtend
<1>4. /\ Source!Signed(x % S) = IF x % S < h THEN x % S ELSE (x % S) - S
      /\ RegSigned(x) = IF x < R \div 2 THEN x ELSE x - R
  BY DEF Source!Signed, RegSigned
<1>5. p \in 0 .. S - 1
  BY <1>1
<1> HIDE DEF h, S, R
<1>6. x \in Nat /\ p \in Nat /\ x < R
  BY <1>2, <1>3, <1>5
<1>7. x % S = p
  <2>1. CASE p < h
    <3>1. x \in 0 .. S - 1
      BY <2>1, <1>3, <1>5
    <3> QED BY <2>1, <3>1, <1>2, <1>3, ModSmall
  <2>2. CASE ~(p < h)
    <3>1. x = S * 15 + p
      BY <2>2, <1>2, <1>3, <1>6
    <3> QED BY <3>1, <1>2, <1>5, <1>6, ModUnique
  <2> QED BY <2>1, <2>2
<1>8. (IF p < h THEN p ELSE p - S) = IF x < R \div 2 THEN x ELSE x - R
  BY <1>2, <1>3, <1>5, <1>6
<1>9. x < R \div 2 => x < h
  BY <1>2, <1>3, <1>5, <1>6
<1> DEFINE H == R \div 2
<1>10. H \in Nat /\ R \in Nat /\ x \in 0 .. R - 1
  BY <1>2, <1>6
<1>11. Source!Signed(x % S) = RegSigned(x)
  BY <1>4, <1>7, <1>8
<1>12. RegSigned(x) \in Int /\ (RegSigned(x) >= 0 => RegSigned(x) = x /\ x < h)
  <2>1. RegSigned(x) = IF x < H THEN x ELSE x - R
    BY <1>4
  <2>2. x < H => x < h
    BY <1>9
  <2> HIDE DEF H
  <2> QED BY <2>1, <2>2, <1>10
<1> QED
  BY <1>10, <1>11, <1>12 DEF S, R, h

(* Zero is a widened sample, and so is what AudDSP widens.                 *)
LEMMA Widenings ==
  /\ Widened(0)
  /\ \A p \in Samples : Widened(Source!SignExtend(p)) /\ p \in 0 .. Source!RegRange - 1
<1>1. Source!SampleRange \in Nat \ {0} /\ Source!SampleRange \div 2 \in Nat \ {0}
      /\ Source!RegRange = 16 * Source!SampleRange
  BY OutRanges
<1>2. Source!SignExtend(0) = 0 /\ 0 \in 0 .. Source!SampleRange - 1
  BY <1>1 DEF Source!SignExtend
<1>3. \A p \in Samples : p \in 0 .. Source!SampleRange - 1
  BY PlayOutAssumption, OutRanges
<1> QED
  BY <1>1, <1>2, <1>3 DEF Widened

(* Bits from the top: a number without its lowest j bits.                  *)
LEMMA NextBit ==
  ASSUME NEW x \in Nat, NEW j \in Nat
  PROVE  /\ x \div Pow2[j] = 2 * (x \div Pow2[j + 1]) + Bit(x, j)
         /\ Bit(x, j) \in {0, 1} /\ x \div Pow2[j] \in Nat
<1> DEFINE P == Pow2[j]
           q == x \div P
           h == q \div 2
           b == q % 2
           r == x % P
<1>1. P \in Nat \ {0} /\ Pow2[j + 1] = 2 * P
  BY Pow2Facts
<1>2. q \in Nat /\ r \in 0 .. P - 1 /\ x = P * q + r
  <2> HIDE DEF P
  <2> QED BY <1>1, DivMod
<1>3. h \in Nat /\ b \in 0 .. 1 /\ q = 2 * h + b
  <2> HIDE DEF q
  <2> QED BY <1>2, DivMod
<1>4. Bit(x, j) = b
  BY DEF Bit
<1> HIDE DEF P, q, h, b, r
<1>5. x = (2 * P) * h + (b * P + r)
  BY <1>1, <1>2, <1>3
<1>6. b * P + r \in 0 .. 2 * P - 1
  <2>1. b = 0 \/ b = 1
    BY <1>3
  <2> QED BY <2>1, <1>1, <1>2
<1>7. x \div (2 * P) = h
  <2>1. 2 * P \in Nat \ {0} /\ h \in Int
    BY <1>1, <1>3
  <2> QED BY <2>1, <1>5, <1>6, ModUnique
<1> QED
  BY <1>1, <1>2, <1>3, <1>4, <1>7 DEF q, P
-----------------------------------------------------------------------------
(* The two quotients are numbers, and so their sum is a register value.    *)
LEMMA WeightedType ==
  ASSUME i_speed \in Nat \ {0}, NEW x \in Nat, NEW w \in Int
  PROVE  Source!Weighted(x, w) \in Nat
<1> DEFINE R == Source!RegRange
           m == w % R
           q == (x * m) % R
<1>1. R \in Nat \ {0}
  BY OutRanges
<1> HIDE DEF R
<1>2. m \in Nat
  BY <1>1
<1> HIDE DEF m
<1>3. x * m \in Nat
  BY <1>2
<1>4. q \in Nat
  BY <1>1, <1>3
<1> HIDE DEF q
<1>5. q \div i_speed \in Nat
  BY <1>4
<1> QED
  BY <1>5 DEF Source!Weighted, q, m, R

LEMMA InterpolatedType ==
  ASSUME OutShape, Registers, i_speed # 0
  PROVE  Source!Interpolated \in 0 .. Source!RegRange - 1
<1>1. i_speed \in Nat \ {0} /\ i_speed - dsp.counter \in Int /\ dsp.counter \in Int
  BY PlaybackAssumption DEF OutShape
<1>2. dsp.prev \in Nat /\ dsp.this \in Nat
  <2>1. dsp.prev \in 0 .. Source!RegRange - 1 /\ dsp.this \in 0 .. Source!RegRange - 1
    BY WidenedSample DEF Registers
  <2> QED BY <2>1, OutRanges
<1> DEFINE x == Source!Weighted(dsp.prev, i_speed - dsp.counter)
           y == Source!Weighted(dsp.this, dsp.counter)
           R == Source!RegRange
<1>3. x \in Nat /\ y \in Nat /\ R \in Nat \ {0}
  <2>1. x \in Nat
    BY <1>1, <1>2, WeightedType
  <2>2. y \in Nat
    BY <1>1, <1>2, WeightedType
  <2> QED BY <2>1, <2>2, OutRanges
<1>4. Source!Interpolated = (x + y) % R
  BY DEF Source!Interpolated
<1> HIDE DEF x, y, R
<1>5. (x + y) % R \in 0 .. R - 1
  BY <1>3
<1> QED
  BY <1>4, <1>5 DEF R

(* The counter stays in its range, and inside an interpolation.            *)
LEMMA CounterKept ==
  ASSUME OutShape, Registers, NEW c, c = Source!NextCounter \/ c = (dsp.counter + 1) % Counters
  PROVE  /\ c \in 0 .. Counters - 1
         /\ c = Source!NextCounter /\ top.mode = 3 /\ i_speed >= 2 => c < i_speed
         /\ c = (dsp.counter + 1) % Counters /\ dsp.counter = 0 /\ i_speed >= 2 => c < i_speed
<1>1. /\ Counters \in Nat \ {0} /\ i_speed \in 0 .. Counters - 1
      /\ dsp.counter \in 0 .. Counters - 1
      /\ top.mode = 3 /\ i_speed >= 2 => dsp.counter < i_speed
  BY PlaybackAssumption DEF OutShape, Registers
<1> DEFINE d == (dsp.counter + 1) % Counters
           n == dsp.counter
<1>2. d \in 0 .. Counters - 1 /\ (n + 1 < Counters => d = n + 1)
  <2>1. \A m \in Nat \ {0}, x \in Nat : x % m \in 0 .. m - 1 /\ (x < m => x % m = x)
    OBVIOUS
  <2>2. n + 1 \in Nat
    BY <1>1
  <2> QED BY <1>1, <2>1, <2>2
<1>3. Source!NextCounter = IF i_speed > 0 /\ n = i_speed - 1 THEN 0 ELSE d
  BY DEF Source!NextCounter
<1> HIDE DEF d, n
<1>4. n = dsp.counter /\ (c = Source!NextCounter \/ c = d)
  BY DEF n, d
<1>5. c = Source!NextCounter /\ top.mode = 3 /\ i_speed >= 2 => c < i_speed
  BY <1>1, <1>2, <1>3, <1>4
<1>6. c = d /\ n = 0 /\ i_speed >= 2 => c < i_speed
  BY <1>1, <1>2
<1>7. c \in 0 .. Counters - 1
  BY <1>1, <1>2, <1>3, <1>4
<1> QED
  BY <1>5, <1>6, <1>7 DEF d, n

(* What a step of AudDSP, at the falling edge of the frame clock, keeps.   *)
DspKept ==
  /\ DOMAIN dsp' = DOMAIN Source!DspReset /\ dsp'.state \in DspStates
  /\ dsp'.ready \in BOOLEAN /\ dsp'.counter \in 0 .. Counters - 1
  /\ dsp'.data \in 0 .. Source!RegRange - 1
  /\ Widened(dsp'.prev) /\ Widened(dsp'.this)
  /\ top.mode = 3 /\ i_speed >= 2 => dsp'.counter < i_speed
  /\ top.mode = 2 /\ dsp'.ready => dsp'.data = dsp'.this
  /\ dsp'.state = "PROC" => ~top.play_pause

LEMMA SourceStep ==
  ASSUME OutShape, Registers, Pausing, Source!DspFrame
  PROVE  DspKept
<1>1. /\ DOMAIN dsp = {"state", "addr", "counter", "ready", "prev", "this", "data"}
      /\ dsp.state \in DspStates /\ dsp.ready \in BOOLEAN
      /\ dsp.counter \in 0 .. Counters - 1 /\ dsp.data \in 0 .. Source!RegRange - 1
      /\ Widened(dsp.prev) /\ Widened(dsp.this)
      /\ dsp.this \in 0 .. Source!RegRange - 1
      /\ top.mode = 3 /\ i_speed >= 2 => dsp.counter < i_speed
      /\ top.mode = 2 /\ dsp.ready => dsp.data = dsp.this
      /\ ~top.play_stop /\ (top.play_start => ~top.play_pause)
  BY WidenedSample DEF OutShape, Registers, Pausing, Source!DspReset
<1>2. /\ 0 \in 0 .. Counters - 1 /\ 0 \in 0 .. Source!RegRange - 1 /\ Widened(0)
      /\ i_speed >= 2 => 0 < i_speed
  BY PlaybackAssumption, OutRanges, Widenings DEF OutShape
<1>3. /\ Widened(Source!SignExtend(i_sram_data)) /\ i_sram_data \in 0 .. Source!RegRange - 1
      /\ Source!SignExtend(i_sram_data) \in 0 .. Source!RegRange - 1
  BY Widenings, WidenedSample DEF OutShape
<1>4. /\ Source!NextCounter \in 0 .. Counters - 1
      /\ (dsp.counter + 1) % Counters \in 0 .. Counters - 1
      /\ top.mode = 3 /\ i_speed >= 2 => Source!NextCounter < i_speed
      /\ dsp.counter = 0 /\ i_speed >= 2 => (dsp.counter + 1) % Counters < i_speed
  BY CounterKept
<1>5. i_speed # 0 => Source!Interpolated \in 0 .. Source!RegRange - 1
  BY InterpolatedType
<1> USE <1>1, <1>2, <1>3, <1>4, <1>5 DEF DspKept, DspStates, Source!DspReset
<1>6. CASE Source!StopHeld
  BY <1>6 DEF Source!StopHeld
<1>7. CASE Source!Idle
  BY <1>7 DEF Source!Idle
<1>8. CASE Source!StartPlaying
  BY <1>8 DEF Source!StartPlaying
<1>9. CASE Source!Pause
  BY <1>9 DEF Source!Pause
<1>10. CASE Source!Resume
  BY <1>10 DEF Source!Resume
<1>11. CASE Source!StayPaused
  BY <1>11 DEF Source!StayPaused
<1>12. CASE Source!Original
  BY <1>12 DEF Source!Original, Source!Processing
<1>13. CASE Source!Fast
  BY <1>13 DEF Source!Fast, Source!Processing
<1>14. CASE Source!SlowFetch
  BY <1>14 DEF Source!SlowFetch, Source!Processing
<1>15. CASE Source!SlowRepeat
  BY <1>15 DEF Source!SlowRepeat, Source!Processing
<1>16. CASE Source!LinearPrime
  BY <1>16 DEF Source!LinearPrime, Source!Processing
<1>17. CASE Source!LinearFetch
  <2> DEFINE c == (dsp.counter + 1) % Counters
             w == Source!SignExtend(i_sram_data)
  <2>1. /\ top.mode = 3 /\ ~top.play_pause /\ dsp.state = "PROC"
        /\ dsp' = [dsp EXCEPT !.this = w, !.prev = dsp.this, !.data = dsp.this,
                              !.addr = Source!AddressPlus(1), !.counter = c]
    BY <1>17 DEF Source!LinearFetch, Source!Processing
  <2>2. c \in 0 .. Counters - 1 /\ (i_speed >= 2 => c < i_speed)
    BY <1>17 DEF Source!LinearFetch
  <2>3. Widened(w)
    OBVIOUS
  <2> HIDE DEF c, w
  <2> QED BY <2>1, <2>2, <2>3
<1>18. CASE Source!LinearInterpolate
  <2>1. PICK x \in 0 .. Source!RegRange - 1 :
          dsp' = [dsp EXCEPT !.data = x, !.counter = Source!NextCounter]
    BY <1>18 DEF Source!LinearInterpolate
  <2>2. top.mode = 3 /\ ~top.play_pause /\ dsp.state = "PROC"
    BY <1>18 DEF Source!LinearInterpolate, Source!Processing
  <2> DEFINE c == Source!NextCounter
  <2>3. c \in 0 .. Counters - 1 /\ (i_speed >= 2 => c < i_speed)
    BY <2>2
  <2>4. dsp' = [dsp EXCEPT !.data = x, !.counter = c]
    BY <2>1
  <2> HIDE DEF c
  <2> QED BY <2>2, <2>3, <2>4
<1> QED
  BY <1>6, <1>7, <1>8, <1>9, <1>10, <1>11, <1>12, <1>13, <1>14, <1>15, <1>16, <1>17,
     <1>18 DEF Source!DspFrame
-----------------------------------------------------------------------------
(* The numbers a frame is made of.                                         *)
LEMMA FrameNumbers ==
  ASSUME OutShape, BitClockFalls
  PROVE  /\ Low \in Nat /\ Low >= 2 /\ SampleBits \in Nat \ {0} /\ High \in Nat
         /\ High >= SampleBits + 2
         /\ t \in 0 .. Low + High - 1 /\ t' \in 0 .. Low + High - 1
         /\ t' = IF t = Low + High - 1 THEN 0 ELSE t + 1
  BY FrameAssumption, PlaybackAssumption, PlayOutAssumption, PositionKept
     DEF OutShape, BitClockFalls

(* AudPlayer's branches, by where the frame is: it sends the next bit,     *)
(* ends the word, or is silent and waits.                                  *)
LEMMA PlayerMoves ==
  ASSUME OutShape, PlayerOK, SendingOK, HearingOK, BitClockFalls
  PROVE  /\ DOMAIN player' = {"state", "counter", "aud_dacdat"}
         /\ player'.aud_dacdat \in {0, 1}
         /\ latch.Ispre /\ t \in Low .. Low + SampleBits - 1 =>
              /\ player'.state = "PLAY" /\ player'.counter = t + 1 - Low
              /\ player'.aud_dacdat = Bit(latch.dac_data, SampleBits - 1 - (t - Low))
         /\ latch.Ispre /\ t = Low + SampleBits =>
              player'.state = "PLAY_FINISH" /\ player'.counter = 0
         /\ ~(latch.Ispre /\ Window) =>
              /\ player'.counter = 0
              /\ player'.state = IF player.state = "IDLE" /\ top.play_pause THEN "IDLE"
                                 ELSE IF player.state = "PLAY_FINISH" /\ t >= Low
                                 THEN "PLAY_FINISH" ELSE "PLAY"
<1> USE FrameNumbers
<1>1. Player!Bit(latch.dac_data, SampleBits - 1 - player.counter)
        = Bit(latch.dac_data, SampleBits - 1 - player.counter)
  BY DEF Player!Bit, Player!Pow2, Bit, Pow2
<1>2. /\ DOMAIN player = {"state", "counter", "aud_dacdat"} /\ player.aud_dacdat \in {0, 1}
      /\ player.state \in {"IDLE", "PLAY", "PLAY_FINISH"}
      /\ latch.Ispre /\ Window => player.state = "PLAY" /\ player.counter = t - Low
      /\ ~(latch.Ispre /\ Window) => player.counter = 0
      /\ player.state = "IDLE" => ~latch.Ispre
      /\ player.state = "PLAY_FINISH" => t = 0 \/ t > Low + SampleBits
      /\ t > Low + SampleBits /\ latch.Ispre => player.state = "PLAY_FINISH"
      /\ Window <=> t \in Low .. Low + SampleBits
  BY DEF PlayerOK, SendingOK, HearingOK, Window
<1>3. Player!Sending <=> latch.Ispre /\ Window
  BY <1>2 DEF Player!Sending, lrc
<1>4. Player!PlayerClock
  BY DEF BitClockFalls
<1>5. CASE Player!Idle
  BY <1>2, <1>5 DEF Player!Idle
<1>6. CASE Player!Enable
  BY <1>2, <1>6 DEF Player!Enable
<1>7. CASE Player!SendBit
  <2>1. latch.Ispre /\ t \in Low .. Low + SampleBits - 1 /\ player.counter = t - Low
    BY <1>2, <1>3, <1>7 DEF Player!SendBit
  <2>2. player' = [player EXCEPT
          !.aud_dacdat = Bit(latch.dac_data, SampleBits - 1 - player.counter),
          !.counter = player.counter + 1]
    BY <1>1, <1>7 DEF Player!SendBit
  <2>3. player'.aud_dacdat = Bit(latch.dac_data, SampleBits - 1 - (t - Low))
    BY <1>2, <2>1, <2>2
  <2>4. player.state = "PLAY" /\ Window
    BY <1>3, <1>7 DEF Player!SendBit, Player!Sending
  <2>5. Bit(latch.dac_data, SampleBits - 1 - (t - Low)) \in {0, 1}
    <3>1. SampleBits - 1 - (t - Low) \in Nat
      BY <2>1
    <3>2. latch.dac_data \in Nat
      BY OutRanges DEF PlayerOK
    <3> QED BY <3>1, <3>2, NextBit
  <2> QED BY <1>2, <2>1, <2>2, <2>3, <2>4, <2>5
<1>8. CASE Player!WordSent
  BY <1>2, <1>3, <1>8 DEF Player!WordSent
<1>9. CASE Player!Silent
  BY <1>2, <1>3, <1>9 DEF Player!Silent
<1>10. CASE Player!NextFrame
  BY <1>2, <1>10 DEF Player!NextFrame, lrc
<1>11. CASE Player!AwaitFrame
  BY <1>2, <1>11 DEF Player!AwaitFrame, lrc
<1> QED
  BY <1>4, <1>5, <1>6, <1>7, <1>8, <1>9, <1>10, <1>11 DEF Player!PlayerClock

(* AudPlayer's registers after a bit clock.                                *)
LEMMA PlayerKept ==
  ASSUME OutShape, PlayerOK, SendingOK, HearingOK, BitClockFalls
  PROVE  PlayerOK'
<1> USE FrameNumbers
<1>1. /\ DOMAIN latch' = {"Ispre", "dac_data"} /\ latch'.Ispre \in BOOLEAN
      /\ latch'.dac_data \in 0 .. Source!SampleRange - 1
      /\ latch'.Ispre => latch.Ispre \/ (t' = Low /\ ~top.play_pause)
      /\ t' # Low => latch' = latch
  <2>1. CASE t' = Low
    <3>1. latch' = [Ispre |-> ~top.play_pause, dac_data |-> Source!o_dac_data]
      BY <2>1 DEF BitClockFalls, Player!LatchWord
    <3>2. Source!o_dac_data \in 0 .. Source!SampleRange - 1
      <4>1. \A m \in Nat \ {0}, x \in Nat : x % m \in 0 .. m - 1
        OBVIOUS
      <4>2. dsp.data \in Nat /\ Source!SampleRange \in Nat \ {0}
        BY OutRanges DEF OutShape
      <4> QED BY <4>1, <4>2 DEF Source!o_dac_data
    <3> QED BY <2>1, <3>1, <3>2 DEF OutShape
  <2>2. CASE t' # Low
    BY <2>2 DEF BitClockFalls, PlayerOK
  <2> QED BY <2>1, <2>2
<1>2. /\ player.state \in {"IDLE", "PLAY", "PLAY_FINISH"}
      /\ player.state = "IDLE" => ~latch.Ispre
      /\ player.state = "PLAY_FINISH" => t = 0 \/ t > Low + SampleBits
      /\ Window <=> t \in Low .. Low + SampleBits
      /\ Window' <=> t' \in Low .. Low + SampleBits
  BY DEF PlayerOK, Window
<1>3. ~(latch'.Ispre /\ Window') => player'.counter = 0
  BY <1>1, <1>2, PlayerMoves
<1>4. player'.state \in {"IDLE", "PLAY", "PLAY_FINISH"}
  BY <1>2, PlayerMoves
<1>5. player'.state = "IDLE" => ~latch'.Ispre
  BY <1>1, <1>2, PlayerMoves
<1>6. player'.state = "PLAY_FINISH" => t' = 0 \/ t' > Low + SampleBits
  BY <1>2, PlayerMoves
<1> QED
  BY <1>1, <1>3, <1>4, <1>5, <1>6, PlayerMoves DEF PlayerOK

(* The codec has the bits AudPlayer has sent.                              *)
LEMMA SendingKept ==
  ASSUME OutShape, PlayerOK, SendingOK, HearingOK, BitClockFalls
  PROVE  SendingOK'
<1> USE FrameNumbers
<1> SUFFICES ASSUME latch'.Ispre, t' \in Low .. Low + SampleBits
             PROVE  /\ player'.state = "PLAY" /\ player'.counter = t' - Low
                    /\ word' = latch'.dac_data \div Pow2[SampleBits - (t' - Low)]
  BY DEF SendingOK, Window
<1>1. t' = t + 1 /\ t \in Low - 1 .. Low + SampleBits - 1
  OBVIOUS
<1>2. CASE t' = Low
  <2>1. /\ latch' = [Ispre |-> ~top.play_pause, dac_data |-> Source!o_dac_data]
        /\ word' = 0
    BY <1>2 DEF BitClockFalls, CodecTakes, Player!LatchWord
  <2>2. ~Window /\ t < Low /\ t # 0
    BY <1>1, <1>2 DEF Window
  <2>3. player.state # "PLAY_FINISH" /\ player.state \in {"IDLE", "PLAY", "PLAY_FINISH"}
    BY <2>2 DEF PlayerOK
  <2>7. ~top.play_pause
    BY <2>1
  <2>4. player'.state = "PLAY" /\ player'.counter = 0
    BY <2>2, <2>3, <2>7, PlayerMoves
  <2>5. latch'.dac_data \div Pow2[SampleBits] = 0
    <3>1. \A m \in Nat \ {0} : \A x \in 0 .. m - 1 : x \div m = 0
      OBVIOUS
    <3>2. Pow2[SampleBits] \in Nat \ {0} /\ latch'.dac_data \in 0 .. Pow2[SampleBits] - 1
      BY PlayerKept, OutRanges DEF PlayerOK
    <3> QED BY <3>1, <3>2
  <2>6. SampleBits - (t' - Low) = SampleBits
    BY <1>2
  <2> QED BY <1>2, <2>1, <2>4, <2>5, <2>6
<1>3. CASE t' # Low
  <2>1. latch' = latch /\ t \in Low .. Low + SampleBits - 1
    BY <1>1, <1>3 DEF BitClockFalls
  <2> DEFINE j == SampleBits - 1 - (t - Low)
             d == latch.dac_data
  <2>2. j \in Nat /\ j + 1 = SampleBits - (t - Low) /\ j = SampleBits - (t' - Low)
    BY <1>1, <2>1
  <2>3. /\ player'.state = "PLAY" /\ player'.counter = t + 1 - Low
        /\ player'.aud_dacdat = Bit(d, j)
    BY <2>1, PlayerMoves
  <2>4. word = d \div Pow2[j + 1]
    BY <2>1, <2>2 DEF SendingOK, Window
  <2>5. word' = 2 * word + player'.aud_dacdat
    BY <1>1, <2>1 DEF BitClockFalls, CodecTakes
  <2>6. d \in Nat
    BY OutRanges DEF PlayerOK
  <2>7. d \div Pow2[j] = 2 * (d \div Pow2[j + 1]) + Bit(d, j)
    BY <2>2, <2>6, NextBit
  <2> QED BY <1>1, <2>1, <2>2, <2>3, <2>4, <2>5, <2>7
<1> QED
  BY <1>2, <1>3

(* AudDSP's word has been heard when AudPlayer has done with it.           *)
LEMMA HearingKept ==
  ASSUME OutIInv, BitClockFalls
  PROVE  HearingOK'
<1> USE FrameNumbers
<1> USE DEF OutIInv
<1>1. t' # 0 => dsp' = dsp
  BY DEF BitClockFalls
<1>2. t' # Low => latch' = latch
  BY DEF BitClockFalls
<1>3. t' = Low => latch' = [Ispre |-> ~top.play_pause, dac_data |-> Source!o_dac_data]
  BY DEF BitClockFalls, Player!LatchWord
<1>4. t' # 0 => Source!o_dac_data' = Source!o_dac_data
  BY <1>1 DEF Source!o_dac_data
<1>5. t' >= Low /\ latch'.Ispre => latch'.dac_data = Source!o_dac_data'
  BY <1>2, <1>3, <1>4 DEF HearingOK
<1>6. t' >= Low /\ dsp'.state = "PROC" /\ ~latch'.Ispre => top'.play_pause
  <2>1. top' = top /\ top.play_pause \in BOOLEAN
    BY DEF BitClockFalls, OutShape
  <2>2. CASE t' = Low
    <3>1. latch'.Ispre = ~top.play_pause
      BY <1>3, <2>2
    <3> QED BY <2>1, <3>1
  <2>3. CASE t' > Low
    <3>1. t >= Low /\ dsp' = dsp /\ latch' = latch
      BY <1>1, <1>2, <2>3
    <3> QED BY <2>1, <3>1 DEF HearingOK
  <2> QED BY <2>2, <2>3
<1>7. t' >= Low + SampleBits /\ latch'.Ispre => ~unheard'
  <2> SUFFICES ASSUME t' >= Low + SampleBits, latch'.Ispre PROVE ~unheard'
    OBVIOUS
  <2>1. t' # 0 /\ t' # Low /\ t >= Low /\ latch.Ispre
    BY <1>2
  <2>2. unheard' = (unheard /\ ~(t' = Low + SampleBits /\ word' = Source!o_dac_data))
    BY <2>1 DEF BitClockFalls
  <2>3. CASE t' > Low + SampleBits
    <3>1. ~unheard
      BY <2>1, <2>3 DEF HearingOK
    <3> QED BY <2>2, <3>1
  <2>4. CASE t' = Low + SampleBits
    <3>1. word' = latch'.dac_data \div Pow2[0]
      <4>1. SampleBits - (t' - Low) = 0
        BY <2>4
      <4>2. Window'
        BY <2>4 DEF Window
      <4> QED BY <4>1, <4>2, SendingKept DEF SendingOK
    <3>2. latch'.dac_data = Source!o_dac_data /\ latch'.dac_data \in Nat
      BY <1>2, <2>1, OutRanges DEF HearingOK, PlayerOK
    <3>3. Pow2[0] = 1
      BY Pow2Facts
    <3>4. word' = Source!o_dac_data
      <4>1. \A x \in Nat : x \div 1 = x
        OBVIOUS
      <4> QED BY <3>1, <3>2, <3>3, <4>1
    <3> QED BY <2>2, <2>4, <3>4, Zenon
  <2> QED BY <2>3, <2>4
<1>8. t' > Low + SampleBits /\ latch'.Ispre => player'.state = "PLAY_FINISH"
  <2> SUFFICES ASSUME t' > Low + SampleBits, latch'.Ispre PROVE player'.state = "PLAY_FINISH"
    OBVIOUS
  <2>1. t >= Low + SampleBits /\ latch.Ispre
    BY <1>2
  <2>2. t > Low + SampleBits => player.state = "PLAY_FINISH" /\ ~Window
    BY <2>1 DEF HearingOK, Window
  <2> QED BY <2>1, <2>2, PlayerMoves
<1> QED
  BY <1>5, <1>6, <1>7, <1>8 DEF HearingOK

(* The registers of AudDSP, the switches and the keys.                     *)
LEMMA ShapeKept ==
  ASSUME OutIInv, BitClockFalls
  PROVE  OutShape' /\ Registers' /\ Pausing'
<1> USE FrameNumbers
<1>1. top' = top /\ i_speed' = i_speed
  BY DEF BitClockFalls
<1>2. word' \in Nat
  <2>1. player'.aud_dacdat \in {0, 1}
    BY PlayerMoves DEF OutIInv
  <2> QED BY <2>1 DEF BitClockFalls, CodecTakes, OutIInv, OutShape
<1>3. unheard' \in BOOLEAN /\ keyed' \in 0 .. 2
  <2>1. keyed' \in 0 .. 2
    BY DEF BitClockFalls, OutIInv, OutShape
  <2>2. \/ unheard' = (unheard \/ Source!Processing)
        \/ unheard' = (unheard /\ ~(t' = Low + SampleBits /\ word' = Source!o_dac_data))
    BY DEF BitClockFalls
  <2>3. unheard' \in BOOLEAN
    BY <2>2, Zenon
  <2> QED BY <2>1, <2>3
<1>4. CASE t' # 0
  <2>1. dsp' = dsp /\ i_sram_data' = i_sram_data /\ keyed' = keyed
    BY <1>4 DEF BitClockFalls
  <2>2. OutShape'
    BY <1>1, <1>2, <1>3, <2>1 DEF OutIInv, OutShape, Source!DspReset, Source!RegRange
  <2>3. Registers' /\ Pausing'
    BY <1>1, <2>1 DEF OutIInv, Registers, Pausing, Widened, Source!SignExtend
  <2> QED BY <2>2, <2>3
<1>5. CASE t' = 0
  <2>1. DspKept
    BY <1>5, SourceStep DEF OutIInv, BitClockFalls
  <2>2. i_sram_data' \in Samples
    BY <1>5 DEF BitClockFalls, OutIInv, OutShape
  <2>3. OutShape'
    BY <1>1, <1>2, <1>3, <2>1, <2>2 DEF DspKept, OutIInv, OutShape, Source!DspReset
  <2>4. Registers' /\ Pausing'
    BY <1>1, <2>1 DEF OutIInv, DspKept, Registers, Pausing
  <2> QED BY <2>3, <2>4
<1> QED
  BY <1>4, <1>5
-----------------------------------------------------------------------------
(* A key moves nothing but what Top says.                                  *)
LEMMA PauseKeyKept == OutIInv /\ PauseKey => OutIInv'
<1> SUFFICES ASSUME OutIInv, PauseKey PROVE OutIInv'
  OBVIOUS
<1> USE DEF OutIInv, PauseKey
<1>1. OutShape'
  BY DEF OutShape, Source!DspReset, Source!RegRange
<1>2. Registers'
  BY DEF OutShape, Registers, Widened, Source!SignExtend
<1>3. Pausing'
  BY DEF OutShape, Pausing
<1>4. PlayerOK' /\ SendingOK'
  BY DEF PlayerOK, SendingOK, Window
<1>5. HearingOK'
  BY DEF HearingOK, OutShape, Pausing, Source!o_dac_data
<1> QED
  BY <1>1, <1>2, <1>3, <1>4, <1>5

LEMMA OutInitInv == OutInit => OutIInv
<1> SUFFICES ASSUME OutInit PROVE OutIInv
  OBVIOUS
<1>1. /\ Low \in Nat /\ Low >= 2 /\ High \in Nat /\ SampleBits \in Nat \ {0}
      /\ Counters \in Nat \ {0} /\ Source!RegRange \in Nat \ {0}
      /\ Source!SampleRange \in Nat \ {0} /\ Widened(0)
  BY FrameAssumption, PlaybackAssumption, OutRanges, Widenings
<1>2. DOMAIN top = {"play_start", "play_pause", "play_stop", "mode"} /\ top.play_stop = FALSE
      /\ top.play_start = FALSE /\ top.play_pause = TRUE
  BY DEF OutInit
<1>3. dsp = Source!DspReset /\ dsp.state = "IDLE" /\ dsp.ready = FALSE /\ dsp.counter = 0
      /\ dsp.data = 0 /\ dsp.prev = 0 /\ dsp.this = 0
  BY DEF OutInit, Source!DspReset
<1>4. OutShape
  <2>1. /\ i_speed \in Speeds /\ i_sram_data \in Samples /\ t \in 0 .. Low + High - 1
        /\ keyed = 0 /\ word = 0 /\ unheard = FALSE
    BY DEF OutInit
  <2>2. 0 \in 0 .. Counters - 1 /\ 0 \in 0 .. Source!RegRange - 1 /\ 0 \in 0 .. 2
    BY <1>1
  <2> QED BY <1>2, <1>3, <2>1, <2>2 DEF OutShape, DspStates
<1>5. Registers
  <2>1. i_speed >= 2 => 0 < i_speed
    BY PlaybackAssumption DEF OutInit
  <2> QED BY <1>1, <1>3, <2>1 DEF Registers
<1>6. Pausing
  BY <1>2, <1>3 DEF Pausing
<1>7. PlayerOK /\ SendingOK /\ HearingOK
  <2>1. /\ player = Player!PlayerReset /\ latch = Player!LatchReset
    BY DEF OutInit
  <2> QED BY <1>1, <1>3, <2>1
          DEF PlayerOK, SendingOK, HearingOK, Player!PlayerReset, Player!LatchReset
<1> QED
  BY <1>4, <1>5, <1>6, <1>7 DEF OutIInv

LEMMA OutNextInv == OutIInv /\ [OutNext]_outVars => OutIInv'
<1> SUFFICES ASSUME OutIInv, [OutNext]_outVars PROVE OutIInv'
  OBVIOUS
<1>1. CASE BitClockFalls
  <2>1. PlayerOK' /\ SendingOK'
    BY <1>1, PlayerKept, SendingKept DEF OutIInv
  <2> QED BY <1>1, <2>1, ShapeKept, HearingKept DEF OutIInv
<1>2. CASE PauseKey
  BY <1>2, PauseKeyKept
<1>3. CASE UNCHANGED outVars
  BY <1>3 DEF outVars, OutIInv, OutShape, Registers, Pausing, PlayerOK, SendingOK,
     HearingOK, Window, Widened, Source!o_dac_data, Source!DspReset, Source!SignExtend,
     Source!RegRange
<1> QED
  BY <1>1, <1>2, <1>3 DEF OutNext

(* The invariant of what the codec hears.                                  *)
THEOREM OutInvariant == OutSpec => []OutIInv
<1>1. OutInit => OutIInv
  BY OutInitInv
<1>2. OutIInv /\ [OutNext]_outVars => OutIInv'
  BY OutNextInv
<1> QED
  BY <1>1, <1>2, PTL DEF OutSpec

(* For samples of any width, any mode, any speed and any pauses: AudDSP    *)
(* never moves on from a word the codec has not received bit by bit.       *)
THEOREM EverySampleHeardCorrect == OutSpec => EverySampleHeard
<1>1. ASSUME OutIInv, [OutNext]_outVars, FrameFalls, Source!Processing PROVE ~unheard
  <2>1. BitClockFalls
    BY <1>1 DEF FrameFalls, OutNext, PauseKey, outVars
  <2>2. t >= Low + SampleBits /\ t >= Low
    BY <1>1, <2>1, FrameNumbers DEF OutIInv, FrameFalls
  <2> QED BY <1>1, <2>2 DEF OutIInv, HearingOK, Source!Processing
<1>2. OutIInv /\ [OutNext]_outVars => (FrameFalls /\ Source!Processing => ~unheard)
  BY <1>1
<1> QED
  BY <1>2, OutInvariant, PTL DEF OutSpec, EverySampleHeard

(* The repeating slow mode plays the sample fetched last, negative ones    *)
(* included, for samples of any width.                                     *)
THEOREM RepeatsSampleCorrect == OutSpec => []RepeatsSample
<1>1. OutIInv => RepeatsSample
  <2> SUFFICES ASSUME OutIInv, top.mode = 2, dsp.ready PROVE Output = RegSigned(dsp.this)
    BY DEF RepeatsSample
  <2>1. dsp.data = dsp.this /\ Widened(dsp.this)
    BY DEF OutIInv, Registers
  <2> QED BY <2>1, WidenedSample DEF Output, Source!o_dac_data
<1> QED
  BY <1>1, OutInvariant, PTL
-----------------------------------------------------------------------------
(* A product grows with either factor, and a common factor can be taken    *)
(* away.                                                                   *)
LEMMA ProductBelow ==
  ASSUME NEW a \in Nat, NEW b \in Nat, NEW n \in Nat, a <= b
  PROVE  a * n \in Nat /\ b * n \in Nat /\ a * n <= b * n
<1> DEFINE k == b - a
<1>1. k \in Nat /\ b = a + k
  OBVIOUS
<1> HIDE DEF k
<1>2. k * n \in Nat /\ a * n \in Nat /\ b * n = a * n + k * n
  BY <1>1
<1> QED BY <1>2

LEMMA CommonFactor ==
  ASSUME NEW a \in Nat, NEW b \in Nat, NEW n \in Nat \ {0}, a * n < b * n
  PROVE  a < b
<1> SUFFICES ASSUME ~(a < b) PROVE FALSE
  OBVIOUS
<1>1. b <= a
  OBVIOUS
<1>2. b * n \in Nat /\ a * n \in Nat /\ b * n <= a * n
  BY <1>1, ProductBelow
<1> QED BY <1>2

(* The register is wide enough for a product with a weight: what is lost   *)
(* is the remainder of the quotient.                                       *)
LEMMA WeightedExact ==
  ASSUME i_speed \in 1 .. 15, NEW x \in 0 .. Source!SampleRange \div 2 - 1,
         NEW w \in 0 .. i_speed
  PROVE  /\ Source!Weighted(x, w) \in Nat /\ x * w \in Nat
         /\ Source!Weighted(x, w) * i_speed \in x * w - (i_speed - 1) .. x * w
<1> DEFINE R == Source!RegRange
           h == Source!SampleRange \div 2
           a == x * w
           s == i_speed
           q == a \div s
<1>1. h \in Nat \ {0} /\ R = 32 * h
  BY OutRanges
<1>2. Source!Weighted(x, w) = ((x * (w % R)) % R) \div s
  BY DEF Source!Weighted
<1>3. x \in Nat /\ x < h /\ w \in Nat /\ w <= 15 /\ s \in Nat \ {0}
  <2>1. x \in 0 .. h - 1
    OBVIOUS
  <2> HIDE DEF h
  <2> QED BY <1>1, <2>1
<1> HIDE DEF R, h, s
<1>4. a \in Nat /\ a <= 15 * x
  <2>1. w * x \in Nat /\ 15 * x \in Nat /\ w * x <= 15 * x
    BY <1>3, ProductBelow
  <2>2. a = w * x
    BY <1>3
  <2> QED BY <2>1, <2>2
<1>5. w \in 0 .. R - 1 /\ R \in Nat \ {0}
  BY <1>1, <1>3
<1>6. w % R = w
  BY <1>5, ModSmall
<1> HIDE DEF a
<1>7. a \in 0 .. R - 1
  BY <1>1, <1>3, <1>4
<1>8. a % R = a
  BY <1>5, <1>7, ModSmall
<1>9. Source!Weighted(x, w) = q
  BY <1>2, <1>6, <1>8 DEF a
<1>10. q \in Nat /\ a % s \in 0 .. s - 1 /\ a = s * q + (a % s)
  BY <1>3, <1>4, DivMod
<1> DEFINE r == a % s
<1>11. q * s \in a - (s - 1) .. a
  <2>1. q \in Nat /\ r \in 0 .. s - 1 /\ a = s * q + r
    BY <1>10
  <2> HIDE DEF q, r
  <2>2. q * s = s * q /\ s * q \in Nat
    BY <1>3, <2>1
  <2>3. s * q = a - r
    BY <1>3, <1>4, <2>1, <2>2
  <2> QED BY <1>3, <1>4, <2>1, <2>2, <2>3
<1> QED
  BY <1>4, <1>9, <1>10, <1>11 DEF a, s

(* Two samples that are not negative, c of s steps from the one to the     *)
(* other: the output is a sample, as near the line as the quotients allow. *)
LEMMA InterpolatedOnLine ==
  ASSUME i_speed \in 1 .. 15, dsp.counter \in 0 .. i_speed - 1,
         dsp.prev \in 0 .. Source!SampleRange \div 2 - 1,
         dsp.this \in 0 .. Source!SampleRange \div 2 - 1
  PROVE  /\ Source!Interpolated \in 0 .. Source!SampleRange \div 2 - 1
         /\ LET exact == dsp.prev * (i_speed - dsp.counter) + dsp.this * dsp.counter
            IN  Source!Interpolated * i_speed \in exact - 2 * (i_speed - 1) .. exact
<1> DEFINE h == Source!SampleRange \div 2
           R == Source!RegRange
           s == i_speed
           c == dsp.counter
           p == dsp.prev
           q == dsp.this
           x == Source!Weighted(p, s - c)
           y == Source!Weighted(q, c)
           a == p * (s - c)
           b == q * c
<1>1. h \in Nat \ {0} /\ R = 32 * h
  BY OutRanges
<1>2. s \in 1 .. 15 /\ c \in 0 .. s - 1 /\ s - c \in 0 .. s /\ c \in 0 .. s
  OBVIOUS
<1>3. x \in Nat /\ a \in Nat /\ x * s \in a - (s - 1) .. a
  BY <1>2, WeightedExact
<1>4. y \in Nat /\ b \in Nat /\ y * s \in b - (s - 1) .. b
  BY <1>2, WeightedExact
<1>5. p \in 0 .. h - 1 /\ q \in 0 .. h - 1
  OBVIOUS
<1>6. Source!Interpolated = (x + y) % R
  BY DEF Source!Interpolated
<1> HIDE DEF h, R, s, c, x, y, p, q
<1>7. (x + y) * s = x * s + y * s /\ x * s \in Nat /\ y * s \in Nat
  BY <1>2, <1>3, <1>4
<1>8. a + b < h * s
  <2> DEFINE d == s - c
             m == h - 1
  <2>1. d \in Nat /\ c \in Nat /\ m \in Nat /\ p \in Nat /\ q \in Nat /\ p <= m /\ q <= m
        /\ s = d + c /\ h = m + 1 /\ s >= 1
    BY <1>1, <1>2, <1>5
  <2>2. a = p * d
    OBVIOUS
  <2> HIDE DEF d, m, a
  <2>3. a <= m * d /\ b <= m * c /\ m * d \in Nat /\ m * c \in Nat
    BY <2>1, <2>2, ProductBelow
  <2>4. h * s = m * d + m * c + s
    BY <2>1
  <2> QED BY <1>3, <1>4, <2>1, <2>3, <2>4
<1>9. x + y < h
  <2> DEFINE z == x + y
  <2>1. z * s < h * s
    <3> DEFINE u == x * s
               v == y * s
               w == h * s
    <3>1. u \in a - (s - 1) .. a /\ v \in b - (s - 1) .. b /\ a + b < w /\ z * s = u + v
          /\ w \in Nat /\ s \in 1 .. 15 /\ a \in Nat /\ b \in Nat
      BY <1>1, <1>2, <1>3, <1>4, <1>7, <1>8
    <3> HIDE DEF u, v, w, a, b
    <3> QED BY <3>1 DEF w
  <2>2. z \in Nat /\ s \in Nat \ {0}
    BY <1>2, <1>3, <1>4
  <2> HIDE DEF z
  <2>3. z < h
    BY <1>1, <2>1, <2>2, CommonFactor
  <2> QED BY <2>3 DEF z
<1>10. (x + y) % R = x + y
  <2>1. x + y \in 0 .. R - 1 /\ R \in Nat \ {0}
    BY <1>1, <1>3, <1>4, <1>9
  <2> QED BY <2>1, ModSmall
<1>11. Source!Interpolated = x + y /\ x + y \in 0 .. h - 1
  BY <1>1, <1>3, <1>4, <1>6, <1>9, <1>10
<1>12. (x + y) * s \in (a + b) - 2 * (s - 1) .. a + b
  <2> DEFINE u == x * s
             v == y * s
  <2>1. u \in a - (s - 1) .. a /\ v \in b - (s - 1) .. b /\ (x + y) * s = u + v
        /\ s \in 1 .. 15 /\ a \in Nat /\ b \in Nat
    BY <1>2, <1>3, <1>4, <1>7
  <2> HIDE DEF u, v, a, b
  <2> QED BY <2>1
<1>13. a + b = p * (s - c) + q * c
  OBVIOUS
<1> HIDE DEF a, b
<1> QED
  BY <1>11, <1>12, <1>13 DEF h, s, c, p, q

(* For samples of any width and every speed the switches can set: between  *)
(* two samples that are not negative the output moves along the line.      *)
THEOREM OnTheLineCorrect == OutSpec => OnTheLineForPositive
<1> DEFINE c == dsp.counter
           P == RegSigned(dsp'.prev)
           Q == RegSigned(dsp'.this)
           OnLine == LET exact == P * (i_speed - c) + Q * c
                     IN  Output' * i_speed \in exact - 2 * (i_speed - 1) .. exact
<1>1. ASSUME OutIInv, OutIInv', [OutNext]_outVars, FrameFalls, Interpolating,
             Source!Processing, P >= 0, Q >= 0
      PROVE  OnLine
  <2> DEFINE h == Source!SampleRange \div 2
  <2>1. BitClockFalls /\ t' = 0
    BY <1>1 DEF FrameFalls, OutNext, PauseKey, outVars
  <2>2. Source!DspFrame /\ i_speed' = i_speed
    BY <2>1 DEF BitClockFalls
  <2>3. i_speed \in 2 .. 15 /\ c \in 0 .. i_speed - 1
    <3>1. i_speed \in Speeds /\ c \in 0 .. Counters - 1 /\ c < i_speed /\ i_speed >= 2
      BY <1>1 DEF OutIInv, OutShape, Registers, Interpolating
    <3> QED BY <3>1, PlaybackAssumption, PlayOutAssumption
  <2>4. Widened(dsp'.prev) /\ Widened(dsp'.this)
    <3>1. DspKept
      BY <1>1, <2>2, SourceStep DEF OutIInv
    <3> QED BY <3>1 DEF DspKept
  <2>5. /\ dsp'.prev = P /\ P \in 0 .. h - 1 /\ Source!Signed(P % Source!SampleRange) = P
        /\ dsp'.this = Q /\ Q \in 0 .. h - 1
    <3>1. /\ dsp'.prev \in 0 .. Source!RegRange - 1 /\ P = dsp'.prev /\ P < h
          /\ Source!Signed(dsp'.prev % Source!SampleRange) = P
      BY <1>1, <2>4, WidenedSample
    <3>2. dsp'.this \in 0 .. Source!RegRange - 1 /\ Q = dsp'.this /\ Q < h
      BY <1>1, <2>4, WidenedSample
    <3>3. h \in Nat /\ Source!RegRange \in Nat
      BY OutRanges
    <3> HIDE DEF P, Q, h
    <3> QED BY <3>1, <3>2, <3>3
  <2>6. Output' = Source!Signed(dsp'.data % Source!SampleRange)
    BY DEF Output, Source!o_dac_data, Source!Signed, Source!SampleRange
  <2>7. DOMAIN dsp = {"state", "addr", "counter", "ready", "prev", "this", "data"}
    BY <1>1 DEF OutIInv, OutShape, Source!DspReset
  <2>8. CASE Source!LinearFetch
    <3>1. dsp'.data = dsp'.prev /\ c = 0
      BY <2>7, <2>8 DEF Source!LinearFetch
    <3>2. Output' = P
      BY <2>5, <2>6, <3>1
    <3> HIDE DEF P, Q, c, h
    <3>3. P \in Nat /\ Q \in Nat /\ h \in Nat
      BY <2>5, OutRanges DEF h
    <3>4. P * (i_speed - 0) + Q * 0 = P * i_speed /\ P * i_speed \in Nat
      BY <2>3, <3>3
    <3> QED BY <2>3, <3>1, <3>2, <3>4
  <2>9. CASE Source!LinearInterpolate
    <3>1. dsp'.data = Source!Interpolated /\ dsp'.prev = dsp.prev /\ dsp'.this = dsp.this
      BY <2>3, <2>7, <2>9 DEF Source!LinearInterpolate
    <3>2. dsp.prev = P /\ dsp.this = Q /\ dsp.prev \in 0 .. h - 1 /\ dsp.this \in 0 .. h - 1
      BY <2>5, <3>1
    <3>3. /\ Source!Interpolated \in 0 .. h - 1
          /\ LET exact == P * (i_speed - c) + Q * c
             IN  Source!Interpolated * i_speed \in exact - 2 * (i_speed - 1) .. exact
      BY <2>3, <3>2, InterpolatedOnLine
    <3>4. Output' = Source!Interpolated
      <4> DEFINE i == Source!Interpolated
                 S == Source!SampleRange
      <4>1. i \in 0 .. h - 1 /\ S \in Nat \ {0} /\ S = 2 * h /\ h \in Nat
        BY <3>3, OutRanges
      <4>2. i \in 0 .. S - 1 /\ i < h
        <5> HIDE DEF i, S, h
        <5> QED BY <4>1
      <4>3. i % S = i
        BY <4>1, <4>2, ModSmall
      <4>4. Source!Signed(i) = i
        BY <4>2 DEF Source!Signed
      <4> QED BY <2>6, <3>1, <4>3, <4>4
    <3> QED BY <3>3, <3>4
  <2>10. Source!LinearFetch \/ Source!LinearInterpolate
    BY <1>1, <2>2 DEF Source!DspFrame, Interpolating, Source!Processing, Source!StopHeld,
       Source!Idle, Source!StartPlaying, Source!Pause, Source!Resume, Source!StayPaused,
       Source!Original, Source!Fast, Source!SlowFetch, Source!SlowRepeat, Source!LinearPrime
  <2> QED BY <2>8, <2>9, <2>10
<1>2. OutIInv /\ OutIInv' /\ [OutNext]_outVars =>
        (FrameFalls /\ Interpolating /\ Source!Processing /\ P >= 0 /\ Q >= 0 => OnLine)
  BY <1>1
<1> QED
  BY <1>2, OutInvariant, PTL DEF OutSpec, OnTheLineForPositive
=============================================================================

--------------------------- MODULE RsaSystem_proofs --------------------------
(***************************************************************************)
(* Lab 2 end to end, for every width K and every number of blocks NBlocks: *)
(* what the host writes to its file is the plaintext, no byte of the host  *)
(* is lost, the wrapper obeys the Avalon bus, and it holds the operands    *)
(* for as long as the core reads them.                                     *)
(*                                                                         *)
(* The argument counts bytes.  What the wrapper is doing follows from how  *)
(* many bytes it has taken from the UART and how many it has given to it;  *)
(* at most one byte is under way in each direction, and both are members   *)
(* of a sequence known in advance.                                         *)
(***************************************************************************)
EXTENDS RsaSystem, TLAPS

Positions == 0 .. K - 1
Byte == {Zero, Garbage} \cup ({"stream"} \X Nat) \cup ({"plain"} \X Nat \X Nat)
Register == [Positions -> Byte]

(* The j-th byte of the host's file, counted from 1.                       *)
PlainByte(j) == Plain((j - 1) \div (K - 1))[K - 2 - ((j - 1) % (K - 1))]

Taken == IF rx = None THEN sent ELSE sent - 1
Given == Len(file) + (IF tx = None THEN 0 ELSE 1)

WrapRegisters ==
  [state : {"IDLE", "GET_KEY", "GET_DATA", "WAIT_CALCULATE", "SEND_DATA"},
   n : Register, e : Register, enc : Register, dec : Register,
   bytes_counter : 0 .. 2 * K - 1, sel : Positions, rsa_start : BOOLEAN,
   address : {"STATUS", "RX", "TX"}, read : BOOLEAN, write : BOOLEAN,
   writedata : Byte]

TypeOK ==
  /\ wrap \in WrapRegisters
  /\ avm_waitrequest \in BOOLEAN
  /\ o_a_pow_d \in Register
  /\ o_finished \in BOOLEAN /\ busy \in BOOLEAN
  /\ rx \in Byte \cup {None} /\ tx \in Byte \cup {None}
  /\ overrun \in BOOLEAN
  /\ sent \in Nat
  /\ file \in Seq(Byte)

(* The line: the UART holds the last byte the host has sent, and the next  *)
(* byte of its file.                                                       *)
LineOK ==
  /\ ~overrun
  /\ sent <= 2 * K + NBlocks * K
  /\ rx # None => sent >= 1 /\ rx = StreamByte(sent - 1)
  /\ tx # None => tx = PlainByte(Len(file) + 1)
  /\ \A j \in 1 .. Len(file) : file[j] = PlainByte(j)

(* The bus: a transfer of data is requested only after the status word has *)
(* allowed it, and what allowed it still holds.                            *)
BusOK ==
  /\ wrap.state \in {"IDLE", "WAIT_CALCULATE"} =>
       ~wrap.read /\ ~wrap.write /\ wrap.address = "STATUS"
  /\ wrap.state \in {"GET_KEY", "GET_DATA"} =>
       /\ ~wrap.write
       /\ wrap.address # "TX"
       /\ wrap.address = "RX" => wrap.read /\ rx # None
  /\ wrap.state = "SEND_DATA" =>
       /\ wrap.address # "RX"
       /\ wrap.write <=> wrap.address = "TX"
       /\ wrap.write => /\ ~wrap.read /\ tx = None
                        /\ wrap.writedata = wrap.dec[K - 1 - wrap.sel]

(* The core: started, busy or finished one at a time, and only while the   *)
(* wrapper waits for it.                                                   *)
CoreOK ==
  /\ wrap.rsa_start \/ busy \/ o_finished => wrap.state = "WAIT_CALCULATE"
  /\ wrap.rsa_start => ~busy /\ ~o_finished
  /\ ~(busy /\ o_finished)

(* Where the wrapper is when it works on block b.                          *)
IdleAt(b) ==
  /\ b = 0 /\ Taken = 0 /\ Given = 0

KeyAt(b) ==
  LET c == wrap.bytes_counter IN
  /\ b = 0 /\ Taken = 2 * K - 1 - c /\ Given = 0 /\ wrap.sel = 1
  /\ \A i \in Positions : /\ i + K > c => wrap.n[i] = KeyN[i]
                          /\ i > c => wrap.e[i] = KeyE[i]

DataAt(b) ==
  LET c == wrap.bytes_counter IN
  /\ c \in Positions /\ wrap.sel = 1
  /\ Taken = 2 * K + b * K + (K - 1 - c)
  /\ Given = b * K - b
  /\ \A i \in Positions : i > c => wrap.enc[i] = Block(b)[i]

CalculateAt(b) ==
  /\ wrap.bytes_counter = K - 1 /\ wrap.sel = 1
  /\ Taken = 2 * K + b * K + K
  /\ Given = b * K - b
  /\ wrap.enc = Block(b)
  /\ o_finished => o_a_pow_d = Plain(b)

SendAt(b) ==
  /\ wrap.bytes_counter = K - 1 /\ wrap.sel >= 1
  /\ Taken = 2 * K + b * K + K
  /\ Given = b * K - b + (wrap.sel - 1)
  /\ wrap.dec = Plain(b)

At(b) ==
  /\ wrap.state = "IDLE" => IdleAt(b)
  /\ wrap.state = "GET_KEY" => KeyAt(b)
  /\ wrap.state \in {"GET_DATA", "WAIT_CALCULATE", "SEND_DATA"} =>
       wrap.n = KeyN /\ wrap.e = KeyE
  /\ wrap.state = "GET_DATA" => DataAt(b)
  /\ wrap.state = "WAIT_CALCULATE" => CalculateAt(b)
  /\ wrap.state = "SEND_DATA" => SendAt(b)

IInv == TypeOK /\ LineOK /\ BusOK /\ CoreOK /\ \E b \in 0 .. NBlocks : At(b)

-----------------------------------------------------------------------------
(* Quotient and remainder are unique.                                      *)
LEMMA DivModUnique ==
  ASSUME NEW m \in Nat \ {0}, NEW q \in Nat, NEW r \in 0 .. m - 1
  PROVE  (q * m + r) \div m = q /\ (q * m + r) % m = r
<1> DEFINE x == q * m + r
           d == x \div m
           k == x % m
<1>1. q * m \in Nat /\ x \in Nat
  OBVIOUS
<1>2. d \in Int /\ k \in 0 .. m - 1 /\ x = m * d + k
  <2> HIDE DEF x
  <2> QED BY <1>1
<1>3. d = q
  <2> HIDE DEF d, k
  <2>1. m * d + k = q * m + r
    BY <1>2
  <2>2. ASSUME d < q PROVE FALSE
    <3>1. m * (d + 1) <= m * q
      BY <2>2, <1>2
    <3>2. m * (d + 1) = m * d + m /\ m * q = q * m
      BY <1>2
    <3> QED BY <3>1, <3>2, <2>1, <1>2, <1>1
  <2>3. ASSUME d > q PROVE FALSE
    <3>1. m * (q + 1) <= m * d
      BY <2>3, <1>2
    <3>2. m * (q + 1) = q * m + m
      OBVIOUS
    <3> QED BY <3>1, <3>2, <2>1, <1>2, <1>1
  <2> QED BY <2>2, <2>3, <1>2
<1>4. k = r
  <2>1. m * q + k = q * m + r
    BY <1>2, <1>3
  <2>2. m * q = q * m
    OBVIOUS
  <2> HIDE DEF k, d
  <2> QED BY <2>1, <2>2, <1>1, <1>2
<1> QED
  BY <1>3, <1>4

(* The byte r of the answer to block b, from the top, is the plaintext     *)
(* byte below position K - 1 - r: the wrapper skips the top byte.          *)
LEMMA PlainByteAt ==
  ASSUME NEW b \in Nat, NEW r \in 0 .. K - 2
  PROVE  PlainByte(b * K - b + r + 1) = Plain(b)[K - 2 - r]
<1>1. K - 1 \in Nat \ {0} /\ r \in 0 .. (K - 1) - 1
  BY KAssumption
<1>2. (b * (K - 1) + r) \div (K - 1) = b /\ (b * (K - 1) + r) % (K - 1) = r
  BY <1>1, DivModUnique
<1>3. (b * K - b + r + 1) - 1 = b * (K - 1) + r
  BY KAssumption
<1> QED
  BY <1>2, <1>3 DEF PlainByte

(* Where the host waits for an answer it sends no byte: the line is quiet  *)
(* from the last byte of block b to the last byte of its answer.           *)
LEMMA HostWaits ==
  ASSUME NEW b \in Nat, TypeOK,
         sent >= 2 * K + b * K + K,
         Len(file) <= b * K - b + (K - 2)
  PROVE  ~MaySend
<1> DEFINE d == Len(file) \div (K - 1)
           m == K - 1
<1>1. m \in Nat \ {0} /\ Len(file) \in Nat /\ sent \in Nat
      /\ NBlocks \in Nat /\ K \in Nat
  BY KAssumption, NBlocksAssumption DEF TypeOK
<1>2. d \in Int /\ Len(file) >= m * d
  <2>1. \A x \in Nat : \A y \in Nat \ {0} : x \div y \in Int /\ x >= y * (x \div y)
    OBVIOUS
  <2> QED BY <1>1, <2>1
<1>3. d <= b
  <2> SUFFICES ASSUME d >= b + 1 PROVE FALSE
    <3> HIDE DEF d
    <3> QED BY <1>2
  <2> HIDE DEF d
  <2>1. m * d >= m * (b + 1)
    <3> HIDE DEF m
    <3> QED BY <1>1, <1>2
  <2>2. m * (b + 1) = b * K - b + K - 1
    BY <1>1
  <2>3. b * K \in Int
    BY <1>1
  <2> HIDE DEF m
  <2>4. m * d \in Int
    BY <1>1, <1>2
  <2> QED BY <2>1, <2>2, <2>3, <2>4, <1>2, <1>1
<1> DEFINE blocks == IF 1 + d < NBlocks THEN 1 + d ELSE NBlocks
<1>4. blocks \in Int /\ blocks <= b + 1
  <2> HIDE DEF d
  <2> QED BY <1>1, <1>2, <1>3
<1>5. blocks * K <= b * K + K
  <2> HIDE DEF blocks
  <2>1. blocks * K <= (b + 1) * K
    BY <1>1, <1>4
  <2> QED BY <2>1, <1>1
<1>6. MaySend <=> sent < 2 * K + blocks * K
  BY DEF MaySend
<1> HIDE DEF blocks
<1>7. blocks * K \in Int /\ b * K \in Int
  BY <1>1, <1>4
<1> QED
  BY <1>1, <1>5, <1>6, <1>7

(* The host never sends more than its key and its blocks.                  *)
LEMMA HostStops ==
  ASSUME TypeOK, MaySend
  PROVE  sent < 2 * K + NBlocks * K
<1> DEFINE d == Len(file) \div (K - 1)
           blocks == IF 1 + d < NBlocks THEN 1 + d ELSE NBlocks
<1>1. K - 1 \in Nat \ {0} /\ Len(file) \in Nat /\ sent \in Nat
      /\ NBlocks \in Nat /\ K \in Nat
  BY KAssumption, NBlocksAssumption DEF TypeOK
<1>2. d \in Int
  <2>1. \A x \in Nat : \A y \in Nat \ {0} : x \div y \in Int
    OBVIOUS
  <2> QED BY <1>1, <2>1
<1>3. blocks \in Int /\ blocks <= NBlocks
  <2> HIDE DEF d
  <2> QED BY <1>1, <1>2
<1>4. sent < 2 * K + blocks * K
  BY DEF MaySend
<1> HIDE DEF blocks
<1>5. blocks * K <= NBlocks * K
  BY <1>1, <1>3
<1>6. blocks * K \in Int /\ NBlocks * K \in Int
  BY <1>1, <1>3
<1> QED
  BY <1>1, <1>4, <1>5, <1>6

(* Multiples of K are ordered as their factors.                            *)
LEMMA Multiples ==
  ASSUME NEW a \in Nat, NEW b \in Nat
  PROVE  /\ a * K \in Nat
         /\ a <= b <=> a * K <= b * K
         /\ a = b <=> a * K = b * K
<1>1. K \in Nat \ {0}
  BY KAssumption
<1>2. a * K \in Nat /\ b * K \in Nat
  BY <1>1
<1>3. ASSUME a <= b PROVE a * K <= b * K
  BY <1>1, <1>3
<1>4. ASSUME a < b PROVE a * K < b * K
  <2>1. (a + 1) * K <= b * K
    BY <1>1, <1>4
  <2>2. (a + 1) * K = a * K + K
    BY <1>1
  <2> QED BY <2>1, <2>2, <1>1, <1>2
<1>5. ASSUME b < a PROVE b * K < a * K
  <2>1. (b + 1) * K <= a * K
    BY <1>1, <1>5
  <2>2. (b + 1) * K = b * K + K
    BY <1>1
  <2> QED BY <2>1, <2>2, <1>1, <1>2
<1> QED
  BY <1>2, <1>3, <1>4, <1>5

-----------------------------------------------------------------------------
(* Bytes on the line are not the mark of an empty register, and no two of  *)
(* the host's bytes are the same.                                          *)
LEMMA Tokens ==
  /\ \A j : StreamByte(j) # None
  /\ \A j, k : StreamByte(j) = StreamByte(k) => j = k
  /\ \A b \in Byte : b # None
  /\ \A j \in Nat : StreamByte(j) \in Byte
  /\ \A k, i \in Nat : <<"plain", k, i>> \in Byte
  /\ Zero \in Byte /\ Garbage \in Byte
<1>1. \A j : StreamByte(j) # None
  BY DEF StreamByte, None
<1>2. \A j, k : StreamByte(j) = StreamByte(k) => j = k
  BY DEF StreamByte
<1>3. ASSUME NEW b \in Byte PROVE b # None
  <2>1. CASE b = Zero \/ b = Garbage
    BY <2>1 DEF None, Zero, Garbage
  <2>2. CASE b \in {"stream"} \X Nat
    BY <2>2 DEF None
  <2>3. CASE b \in {"plain"} \X Nat \X Nat
    BY <2>3 DEF None
  <2> QED BY <2>1, <2>2, <2>3 DEF Byte
<1>4. \A j \in Nat : StreamByte(j) \in Byte
  BY DEF StreamByte, Byte
<1>5. \A k, i \in Nat : <<"plain", k, i>> \in Byte
  BY DEF Byte
<1>6. Zero \in Byte /\ Garbage \in Byte
  BY DEF Byte
<1> QED
  BY <1>1, <1>2, <1>3, <1>4, <1>5, <1>6

(* The keys, the blocks and the plaintexts are registers.                  *)
LEMMA Registers ==
  /\ KeyN \in Register /\ KeyE \in Register
  /\ \A k \in Nat : Block(k) \in Register /\ Plain(k) \in Register
<1>1. K \in Nat
  BY KAssumption
<1>2. \A i \in Positions : K - 1 - i \in Nat /\ 2 * K - 1 - i \in Nat /\ i \in Nat
  BY <1>1 DEF Positions
<1>3. KeyN \in Register /\ KeyE \in Register
  BY <1>2, Tokens DEF KeyN, KeyE, Register, Positions
<1>4. ASSUME NEW k \in Nat PROVE Block(k) \in Register
  <2>1. k * K \in Nat
    BY Multiples
  <2>2. \A i \in Positions : 2 * K + k * K + K - 1 - i \in Nat
    <3> DEFINE q == k * K
    <3>1. q \in Nat
      BY <2>1
    <3> HIDE DEF q
    <3>2. \A i \in Positions : 2 * K + q + K - 1 - i \in Nat
      BY <3>1, <1>1 DEF Positions
    <3> QED BY <3>2 DEF q
  <2> QED BY <2>2, Tokens DEF Block, Register, Positions
<1>5. ASSUME NEW k \in Nat PROVE Plain(k) \in Register
  BY <1>2, Tokens DEF Plain, Register, Positions
<1> QED
  BY <1>3, <1>4, <1>5

(* The core answers block b with its plaintext.                            *)
LEMMA AnswerIsPlain ==
  ASSUME NEW b \in 0 .. NBlocks - 1
  PROVE  Decrypt(Block(b), KeyE, KeyN) = Plain(b)
<1>1. K \in Nat \ {0} /\ NBlocks \in Nat
  BY KAssumption, NBlocksAssumption
<1>2. ASSUME NEW k \in 0 .. NBlocks - 1, Block(b) = Block(k) PROVE k = b
  <2>1. 0 \in 0 .. K - 1 /\ k \in Nat /\ b \in Nat
    BY <1>1
  <2>2. Block(b)[0] = StreamByte(2 * K + b * K + K - 1 - 0)
        /\ Block(k)[0] = StreamByte(2 * K + k * K + K - 1 - 0)
    BY <2>1 DEF Block
  <2>3. 2 * K + b * K + K - 1 - 0 = 2 * K + k * K + K - 1 - 0
    BY <1>2, <2>2, Tokens
  <2>4. b * K \in Nat /\ k * K \in Nat
    BY <2>1, Multiples
  <2>5. b * K = k * K
    BY <2>3, <2>4, <1>1
  <2> QED BY <2>1, <2>5, Multiples
<1>3. (CHOOSE k \in 0 .. NBlocks - 1 : Block(b) = Block(k)) = b
  BY <1>2
<1> QED
  BY <1>3 DEF Decrypt

(* Any answer of the core is a register.                                   *)
LEMMA DecryptType == \A a, d, n : Decrypt(a, d, n) \in Register
<1>1. [i \in 0 .. K - 1 |-> Garbage] \in Register
  BY Tokens DEF Register, Positions
<1>2. ASSUME NEW a, \E k \in 0 .. NBlocks - 1 : a = Block(k)
      PROVE  Plain(CHOOSE k \in 0 .. NBlocks - 1 : a = Block(k)) \in Register
  <2>1. (CHOOSE k \in 0 .. NBlocks - 1 : a = Block(k)) \in 0 .. NBlocks - 1
    BY <1>2
  <2>2. (CHOOSE k \in 0 .. NBlocks - 1 : a = Block(k)) \in Nat
    BY <2>1, NBlocksAssumption
  <2> QED BY <2>2, Registers
<1> QED
  BY <1>1, <1>2 DEF Decrypt

-----------------------------------------------------------------------------
(* The wrapper's registers as a set of records, field by field.            *)
LEMMA WrapFields ==
  ASSUME wrap \in WrapRegisters
  PROVE  /\ wrap = [state |-> wrap.state, n |-> wrap.n, e |-> wrap.e,
                    enc |-> wrap.enc, dec |-> wrap.dec,
                    bytes_counter |-> wrap.bytes_counter, sel |-> wrap.sel,
                    rsa_start |-> wrap.rsa_start, address |-> wrap.address,
                    read |-> wrap.read, write |-> wrap.write,
                    writedata |-> wrap.writedata]
         /\ wrap.state \in {"IDLE", "GET_KEY", "GET_DATA", "WAIT_CALCULATE",
                            "SEND_DATA"}
         /\ wrap.n \in Register /\ wrap.e \in Register
         /\ wrap.enc \in Register /\ wrap.dec \in Register
         /\ wrap.bytes_counter \in 0 .. 2 * K - 1 /\ wrap.sel \in Positions
         /\ wrap.rsa_start \in BOOLEAN
         /\ wrap.address \in {"STATUS", "RX", "TX"}
         /\ wrap.read \in BOOLEAN /\ wrap.write \in BOOLEAN
         /\ wrap.writedata \in Byte
  BY DEF WrapRegisters

(* The reset values.                                                       *)
LEMMA ResetFields ==
  /\ Wrapper!WrapReset \in WrapRegisters
  /\ Wrapper!WrapReset.state = "IDLE" /\ Wrapper!WrapReset.sel = 1
  /\ Wrapper!WrapReset.bytes_counter = 2 * K - 1
  /\ Wrapper!WrapReset.address = "STATUS"
  /\ ~Wrapper!WrapReset.read /\ ~Wrapper!WrapReset.write
  /\ ~Wrapper!WrapReset.rsa_start
<1>1. Wrapper!Cleared \in Register
  BY Tokens DEF Wrapper!Cleared, Wrapper!ByteIndex, Register, Positions
<1>2. 2 * K - 1 \in 0 .. 2 * K - 1 /\ 1 \in Positions
  BY KAssumption DEF Positions
<1> QED
  BY <1>1, <1>2, Tokens DEF Wrapper!WrapReset, WrapRegisters

(* A byte of the key is stored in n or in e, and the status word is next.  *)
LEMMA KeyByteEffect ==
  ASSUME wrap \in WrapRegisters, rx \in Byte, Wrapper!TakeKeyByte
  PROVE  LET c == wrap.bytes_counter IN
         wrap' = [wrap EXCEPT
           !.n = IF c >= K THEN [wrap.n EXCEPT ![c - K] = rx] ELSE wrap.n,
           !.e = IF c >= K THEN wrap.e ELSE [wrap.e EXCEPT ![c] = rx],
           !.address = "STATUS", !.read = FALSE,
           !.bytes_counter = IF c = 0 THEN K - 1 ELSE c - 1,
           !.state = IF c = 0 THEN "GET_DATA" ELSE "GET_KEY"]
<1> DEFINE c == wrap.bytes_counter
<1>1. wrap.state = "GET_KEY"
  BY DEF Wrapper!TakeKeyByte
<1>2. CASE c >= K
  <2>1. wrap' = [Wrapper!BackToStatus([wrap EXCEPT !.n[c - K] = rx]) EXCEPT
                   !.bytes_counter = IF c = 0 THEN K - 1 ELSE c - 1,
                   !.state = IF c = 0 THEN "GET_DATA" ELSE @]
    BY <1>2 DEF Wrapper!TakeKeyByte
  <2> QED
    BY <1>1, <1>2, <2>1 DEF Wrapper!BackToStatus, WrapRegisters
<1>3. CASE ~(c >= K)
  <2>1. wrap' = [Wrapper!BackToStatus([wrap EXCEPT !.e[c] = rx]) EXCEPT
                   !.bytes_counter = IF c = 0 THEN K - 1 ELSE c - 1,
                   !.state = IF c = 0 THEN "GET_DATA" ELSE @]
    BY <1>3 DEF Wrapper!TakeKeyByte
  <2> QED
    BY <1>1, <1>3, <2>1 DEF Wrapper!BackToStatus, WrapRegisters
<1> QED
  BY <1>2, <1>3

(* A byte of a block is stored in enc; the last one starts the core.       *)
LEMMA DataByteEffect ==
  ASSUME wrap \in WrapRegisters, rx \in Byte, Wrapper!TakeDataByte
  PROVE  LET c == wrap.bytes_counter IN
         wrap' = [wrap EXCEPT
           !.enc = [wrap.enc EXCEPT ![c] = rx],
           !.address = "STATUS", !.read = FALSE,
           !.bytes_counter = IF c = 0 THEN K - 1 ELSE c - 1,
           !.state = IF c = 0 THEN "WAIT_CALCULATE" ELSE "GET_DATA",
           !.rsa_start = IF c = 0 THEN TRUE ELSE wrap.rsa_start]
  BY DEF Wrapper!TakeDataByte, Wrapper!BackToStatus, WrapRegisters

(* A byte of the answer has been sent.                                     *)
LEMMA ByteSentEffect ==
  ASSUME wrap \in WrapRegisters, Wrapper!ByteSent
  PROVE  wrap' = [wrap EXCEPT
           !.writedata = wrap.dec[K - 1 - wrap.sel],
           !.address = "STATUS", !.write = FALSE,
           !.sel = IF wrap.sel = K - 1 THEN 1 ELSE wrap.sel + 1,
           !.state = IF wrap.sel = K - 1 THEN "GET_DATA" ELSE "SEND_DATA"]
  BY DEF Wrapper!ByteSent, Wrapper!Shown, WrapRegisters

(* A register with one byte replaced is a register, and the other bytes    *)
(* stay.                                                                   *)
LEMMA StoreByte ==
  ASSUME NEW r \in Register, NEW i \in Positions, NEW b \in Byte
  PROVE  /\ [r EXCEPT ![i] = b] \in Register
         /\ \A j \in Positions : j # i => [r EXCEPT ![i] = b][j] = r[j]
  BY DEF Register

(* The registers keep their types.                                         *)
LEMMA WrapTypeStep ==
  ASSUME TypeOK, BusOK, Wrapper!WrapClock,
         wrap.state = "GET_DATA" => wrap.bytes_counter \in Positions
  PROVE  wrap' \in WrapRegisters
<1> wrap \in WrapRegisters /\ o_a_pow_d \in Register /\ K \in Nat /\ K >= 2
    /\ (rx # None => rx \in Byte)
  BY KAssumption DEF TypeOK
<1> USE WrapFields
<1>1. CASE Wrapper!Idle
  BY <1>1, ResetFields DEF Wrapper!Idle, Wrapper!StartRead, WrapRegisters
<1>2. CASE Wrapper!RaiseRead
  BY <1>2 DEF Wrapper!RaiseRead, WrapRegisters
<1>3. CASE Wrapper!RxReady
  BY <1>3 DEF Wrapper!RxReady, Wrapper!StartRead, WrapRegisters
<1>4. CASE Wrapper!RxNotReady
  BY <1>4 DEF Wrapper!RxNotReady, WrapRegisters
<1>5. CASE Wrapper!RxWait
  BY <1>5 DEF Wrapper!RxWait, WrapRegisters
<1>6. CASE Wrapper!TakeKeyByte
  <2> DEFINE c == wrap.bytes_counter
             storedN == IF c >= K THEN [wrap.n EXCEPT ![c - K] = rx] ELSE wrap.n
             storedE == IF c >= K THEN wrap.e ELSE [wrap.e EXCEPT ![c] = rx]
             next == IF c = 0 THEN K - 1 ELSE c - 1
  <2>1. rx \in Byte
    BY <1>6 DEF Wrapper!TakeKeyByte, BusOK
  <2>2. storedN \in Register /\ storedE \in Register
    BY <2>1, StoreByte DEF Positions
  <2>3. next \in 0 .. 2 * K - 1
    OBVIOUS
  <2>4. wrap' = [wrap EXCEPT
           !.n = storedN, !.e = storedE, !.address = "STATUS", !.read = FALSE,
           !.bytes_counter = next,
           !.state = IF c = 0 THEN "GET_DATA" ELSE "GET_KEY"]
    BY <1>6, <2>1, KeyByteEffect
  <2> HIDE DEF storedN, storedE, next, c
  <2> QED
    BY <2>2, <2>3, <2>4 DEF WrapRegisters
<1>7. CASE Wrapper!TakeDataByte
  <2>1. rx \in Byte /\ wrap.bytes_counter \in Positions
    BY <1>7 DEF Wrapper!TakeDataByte, BusOK
  <2> DEFINE c == wrap.bytes_counter
             stored == [wrap.enc EXCEPT ![c] = rx]
             next == IF c = 0 THEN K - 1 ELSE c - 1
  <2>2. stored \in Register
    BY <2>1, StoreByte
  <2>3. next \in 0 .. 2 * K - 1
    OBVIOUS
  <2>4. wrap' = [wrap EXCEPT
           !.enc = stored, !.address = "STATUS", !.read = FALSE,
           !.bytes_counter = next,
           !.state = IF c = 0 THEN "WAIT_CALCULATE" ELSE "GET_DATA",
           !.rsa_start = IF c = 0 THEN TRUE ELSE wrap.rsa_start]
    BY <1>7, <2>1, DataByteEffect
  <2> HIDE DEF stored, next, c
  <2> QED
    BY <2>2, <2>3, <2>4 DEF WrapRegisters
<1>8. CASE Wrapper!WaitCalculate
  BY <1>8 DEF Wrapper!WaitCalculate, WrapRegisters
<1>9. CASE Wrapper!TakeAnswer
  BY <1>9, Tokens DEF Wrapper!TakeAnswer, WrapRegisters
<1>10. wrap.dec[K - 1 - wrap.sel] \in Byte
  BY DEF Register, Positions
<1>11. CASE Wrapper!RaiseReadTx
  BY <1>10, <1>11 DEF Wrapper!RaiseReadTx, Wrapper!Shown, WrapRegisters
<1>12. CASE Wrapper!TxReady
  BY <1>10, <1>12 DEF Wrapper!TxReady, Wrapper!Shown, Wrapper!StartWrite, WrapRegisters
<1>13. CASE Wrapper!TxNotReady
  BY <1>10, <1>13 DEF Wrapper!TxNotReady, Wrapper!Shown, WrapRegisters
<1>14. CASE Wrapper!TxWait
  BY <1>10, <1>14 DEF Wrapper!TxWait, Wrapper!Shown, WrapRegisters
<1>15. CASE Wrapper!ByteSent
  <2>1. wrap' = [wrap EXCEPT
           !.writedata = wrap.dec[K - 1 - wrap.sel],
           !.address = "STATUS", !.write = FALSE,
           !.sel = IF wrap.sel = K - 1 THEN 1 ELSE wrap.sel + 1,
           !.state = IF wrap.sel = K - 1 THEN "GET_DATA" ELSE "SEND_DATA"]
    BY <1>15, ByteSentEffect
  <2>2. (IF wrap.sel = K - 1 THEN 1 ELSE wrap.sel + 1) \in Positions
    BY DEF Positions
  <2> QED
    BY <1>10, <2>1, <2>2 DEF WrapRegisters
<1> QED
  BY <1>1, <1>2, <1>3, <1>4, <1>5, <1>6, <1>7, <1>8, <1>9, <1>11, <1>12,
     <1>13, <1>14, <1>15 DEF Wrapper!WrapClock

(* Every variable keeps its type.                                          *)
LEMMA TypeStep ==
  ASSUME TypeOK, LineOK, BusOK, \E b \in 0 .. NBlocks : At(b), [Next]_vars
  PROVE  TypeOK'
<1>1. CASE Clock
  <2>1. wrap.state = "GET_DATA" => wrap.bytes_counter \in Positions
    BY DEF At, DataAt
  <2>2. wrap' \in WrapRegisters
    BY <1>1, <2>1, WrapTypeStep DEF Clock
  <2>3. o_a_pow_d' \in Register /\ o_finished' \in BOOLEAN /\ busy' \in BOOLEAN
    <3>1. [i \in 0 .. K - 1 |-> Zero] \in Register
      BY Tokens DEF Register, Positions
    <3>2. Core!Next /\ o_a_pow_d \in Register /\ o_finished \in BOOLEAN
          /\ busy \in BOOLEAN
      BY <1>1 DEF Clock, TypeOK
    <3>3. CASE Core!Rest
      BY <3>2, <3>3 DEF Core!Rest
    <3>4. CASE Core!Accept
      BY <3>1, <3>4 DEF Core!Accept
    <3>5. CASE Core!Compute
      BY <3>2, <3>5 DEF Core!Compute, Core!outputs
    <3>6. CASE Core!Deliver
      BY <3>6, DecryptType DEF Core!Deliver
    <3> QED BY <3>2, <3>3, <3>4, <3>5, <3>6 DEF Core!Next
  <2>4. rx' \in Byte \cup {None} /\ tx' \in Byte \cup {None}
    <3>1. wrap.writedata \in Byte
      BY DEF TypeOK, WrapRegisters
    <3> QED BY <1>1, <3>1 DEF Clock, UartClock, TypeOK
  <2> QED
    BY <1>1, <2>2, <2>3, <2>4 DEF Clock, TypeOK
<1>2. CASE HostByteArrives
  BY <1>2, Tokens DEF HostByteArrives, TypeOK
<1>3. CASE HostReceives
  <2>1. tx \in Byte
    BY <1>3 DEF HostReceives, TypeOK
  <2>2. Append(file, tx) \in Seq(Byte)
    BY <2>1 DEF TypeOK
  <2> QED
    BY <1>3, <2>2 DEF HostReceives, TypeOK
<1>4. CASE UNCHANGED vars
  BY <1>4 DEF vars, TypeOK
<1> QED
  BY <1>1, <1>2, <1>3, <1>4 DEF Next

-----------------------------------------------------------------------------
(* One cycle of the UART: a byte leaves RX when the wrapper reads it, and  *)
(* the next byte of the host's file enters TX when the wrapper writes it.  *)
LEMMA UartStep ==
  ASSUME TypeOK, LineOK, BusOK, UartClock, UNCHANGED <<sent, file>>,
         NEW b \in 0 .. NBlocks, At(b)
  PROVE  /\ Taken' = Taken + (IF ReadsRx THEN 1 ELSE 0)
         /\ Given' = Given + (IF WritesTx THEN 1 ELSE 0)
         /\ ReadsRx => rx = StreamByte(Taken)
         /\ rx' # None => rx' = StreamByte(sent' - 1)
         /\ tx' # None => tx' = PlainByte(Len(file') + 1)
<1>1. ASSUME ReadsRx PROVE rx # None
  BY <1>1 DEF ReadsRx, BusOK, TypeOK, WrapRegisters
<1>2. ASSUME WritesTx
      PROVE  tx = None /\ wrap.writedata = PlainByte(Len(file) + 1)
             /\ wrap.writedata \in Byte
  <2>1. wrap.state = "SEND_DATA" /\ tx = None
        /\ wrap.writedata = wrap.dec[K - 1 - wrap.sel]
    BY <1>2 DEF WritesTx, BusOK, TypeOK, WrapRegisters
  <2>2. SendAt(b)
    BY <2>1 DEF At
  <2> DEFINE r == wrap.sel - 1
  <2>3. b \in Nat /\ r \in 0 .. K - 2 /\ K - 2 - r = K - 1 - wrap.sel
    BY <2>2, KAssumption, NBlocksAssumption DEF SendAt, TypeOK, WrapRegisters, Positions
  <2>4. Len(file) = b * K - b + r
    BY <2>1, <2>2 DEF SendAt, Given, TypeOK
  <2>5. PlainByte(b * K - b + r + 1) = Plain(b)[K - 2 - r]
    BY <2>3, PlainByteAt
  <2>6. wrap.writedata = PlainByte(Len(file) + 1)
    BY <2>1, <2>2, <2>3, <2>4, <2>5 DEF SendAt
  <2>7. wrap.writedata \in Byte
    BY DEF TypeOK, WrapRegisters
  <2> QED BY <2>1, <2>6, <2>7
<1>3. sent \in Nat /\ Len(file) \in Nat
  BY DEF TypeOK
<1>4. Taken' = Taken + (IF ReadsRx THEN 1 ELSE 0)
  <2>1. CASE ReadsRx
    BY <1>1, <1>3, <2>1 DEF UartClock, Taken
  <2>2. CASE ~ReadsRx
    BY <1>3, <2>2 DEF UartClock, Taken
  <2> QED BY <2>1, <2>2
<1>5. Given' = Given + (IF WritesTx THEN 1 ELSE 0)
  <2>1. CASE WritesTx
    BY <1>2, <1>3, <2>1, Tokens DEF UartClock, Given
  <2>2. CASE ~WritesTx
    BY <1>3, <2>2 DEF UartClock, Given
  <2> QED BY <2>1, <2>2
<1>6. ReadsRx => rx = StreamByte(Taken)
  BY <1>1 DEF Taken, LineOK
<1>7. rx' # None => rx' = StreamByte(sent' - 1)
  BY DEF UartClock, LineOK
<1>8. tx' # None => tx' = PlainByte(Len(file') + 1)
  BY <1>2 DEF UartClock, LineOK
<1> QED
  BY <1>4, <1>5, <1>6, <1>7, <1>8

(* A wrapper that is not polling has taken everything the host may send.   *)
LEMMA NoByteWhileAway ==
  ASSUME TypeOK, LineOK, NEW b \in 0 .. NBlocks, At(b),
         wrap.state \in {"WAIT_CALCULATE", "SEND_DATA"}
  PROVE  ~MaySend
<1> DEFINE q == b * K
<1>1. b \in Nat /\ K \in Nat /\ K >= 2 /\ q \in Nat /\ sent \in Nat
      /\ Len(file) \in Nat /\ wrap.sel \in 0 .. K - 1
  BY KAssumption, NBlocksAssumption, Multiples
     DEF TypeOK, WrapRegisters, Positions
<1>2. Taken = 2 * K + q + K /\ Given <= q - b + (K - 2)
  <2>1. CASE wrap.state = "WAIT_CALCULATE"
    <3>1. Taken = 2 * K + q + K /\ Given = q - b
      BY <2>1 DEF At, CalculateAt
    <3> HIDE DEF q
    <3> QED BY <3>1, <1>1
  <2>2. CASE wrap.state = "SEND_DATA"
    <3>1. Taken = 2 * K + q + K /\ Given = q - b + (wrap.sel - 1)
      BY <2>2 DEF At, SendAt
    <3> HIDE DEF q
    <3> QED BY <3>1, <1>1
  <2> QED BY <2>1, <2>2
<1>3. sent >= Taken /\ Len(file) <= Given
  BY <1>1 DEF Taken, Given
<1>4. sent >= 2 * K + b * K + K /\ Len(file) <= b * K - b + (K - 2)
  <2> HIDE DEF q
  <2>1. sent >= 2 * K + q + K /\ Len(file) <= q - b + (K - 2)
    BY <1>1, <1>2, <1>3 DEF Given
  <2> QED BY <2>1 DEF q
<1> QED
  BY <1>1, <1>4, HostWaits

(* The line keeps its contract.                                            *)
LEMMA LineStep ==
  ASSUME TypeOK, LineOK, BusOK, NEW b \in 0 .. NBlocks, At(b), [Next]_vars
  PROVE  LineOK'
<1> USE DEF TypeOK
<1>1. CASE Clock
  <2>1. UartClock /\ UNCHANGED <<overrun, sent, file>>
    BY <1>1 DEF Clock
  <2>2. /\ rx' # None => rx' = StreamByte(sent' - 1)
        /\ tx' # None => tx' = PlainByte(Len(file') + 1)
    BY <2>1, UartStep
  <2>3. rx' # None => sent' >= 1
    BY <2>1 DEF UartClock, LineOK
  <2> QED
    BY <2>1, <2>2, <2>3 DEF LineOK
<1>2. CASE HostByteArrives
  <2>1. rx = None
    <3>1. CASE wrap.state \in {"IDLE", "GET_KEY", "GET_DATA"}
      BY <1>2, <3>1 DEF HostByteArrives
    <3>2. CASE wrap.state \in {"WAIT_CALCULATE", "SEND_DATA"}
      BY <1>2, <3>2, NoByteWhileAway DEF HostByteArrives
    <3> QED BY <3>1, <3>2 DEF WrapRegisters
  <2>2. sent < 2 * K + NBlocks * K
    BY <1>2, HostStops DEF HostByteArrives
  <2>3. 2 * K + NBlocks * K \in Int
    BY KAssumption, NBlocksAssumption
  <2>4. sent' <= 2 * K + NBlocks * K
    BY <1>2, <2>2, <2>3 DEF HostByteArrives
  <2> QED
    BY <1>2, <2>1, <2>4 DEF HostByteArrives, LineOK
<1>3. CASE HostReceives
  <2>1. file' = Append(file, tx) /\ tx = PlainByte(Len(file) + 1)
    BY <1>3 DEF HostReceives, LineOK
  <2>2. ASSUME NEW j \in 1 .. Len(file') PROVE file'[j] = PlainByte(j)
    <3>1. Len(file') = Len(file) + 1
      BY <2>1
    <3>2. CASE j = Len(file) + 1
      BY <2>1, <3>2
    <3>3. CASE j \in 1 .. Len(file)
      BY <2>1, <3>3 DEF LineOK
    <3> QED BY <3>1, <3>2, <3>3
  <2>4. (\A j \in 1 .. Len(file) : file[j] = PlainByte(j))'
    BY <2>2 DEF PlainByte
  <2> QED
    BY <1>3, <2>4 DEF HostReceives, LineOK
<1>4. CASE UNCHANGED vars
  BY <1>4 DEF vars, LineOK
<1> QED
  BY <1>1, <1>2, <1>3, <1>4 DEF Next

(* The bus keeps its contract.                                             *)
LEMMA BusStep ==
  ASSUME TypeOK, BusOK, NEW b \in 0 .. NBlocks, At(b), CoreOK, [Next]_vars
  PROVE  BusOK'
<1> USE WrapFields DEF TypeOK
<1>1. CASE Clock
  <2>1. UartClock /\ Wrapper!WrapClock
    BY <1>1 DEF Clock
  <2>2. ~ReadsRx => rx' = rx
    BY <2>1 DEF UartClock
  <2>3. ~WritesTx => tx' = tx
    BY <2>1 DEF UartClock
  <2> HIDE DEF TypeOK
  <2> wrap \in WrapRegisters
    BY DEF TypeOK
  <2>4. CASE Wrapper!Idle
    BY <2>4, ResetFields DEF Wrapper!Idle, Wrapper!StartRead, BusOK
  <2>5. CASE Wrapper!RaiseRead
    BY <2>5, <2>2 DEF Wrapper!RaiseRead, Wrapper!Receiving, BusOK, ReadsRx
  <2>6. CASE Wrapper!RxReady
    BY <2>6, <2>2 DEF Wrapper!RxReady, Wrapper!Receiving, Wrapper!StatusShown,
                      Wrapper!StartRead, BusOK, ReadsRx
  <2>7. CASE Wrapper!RxNotReady
    BY <2>7 DEF Wrapper!RxNotReady, Wrapper!Receiving, Wrapper!StatusShown, BusOK
  <2>8. CASE Wrapper!RxWait
    BY <2>8, <2>2 DEF Wrapper!RxWait, Wrapper!Receiving, BusOK, ReadsRx
  <2>9. CASE Wrapper!TakeKeyByte
    <3>1. rx \in Byte /\ wrap.state = "GET_KEY"
      BY <2>9 DEF Wrapper!TakeKeyByte, BusOK, TypeOK
    <3>2. /\ wrap'.state \in {"GET_KEY", "GET_DATA"}
          /\ ~wrap'.write /\ wrap'.address = "STATUS"
      BY <2>9, <3>1, KeyByteEffect DEF BusOK
    <3> QED BY <3>2 DEF BusOK
  <2>10. CASE Wrapper!TakeDataByte
    <3>1. rx \in Byte /\ wrap.state = "GET_DATA"
      BY <2>10 DEF Wrapper!TakeDataByte, BusOK, TypeOK
    <3>2. /\ wrap'.state \in {"WAIT_CALCULATE", "GET_DATA"}
          /\ ~wrap'.write /\ ~wrap'.read /\ wrap'.address = "STATUS"
      BY <2>10, <3>1, DataByteEffect DEF BusOK
    <3> QED BY <3>2 DEF BusOK
  <2>11. CASE Wrapper!WaitCalculate
    BY <2>11 DEF Wrapper!WaitCalculate, BusOK
  <2>12. CASE Wrapper!TakeAnswer
    BY <2>12 DEF Wrapper!TakeAnswer, BusOK
  <2>13. CASE Wrapper!RaiseReadTx
    BY <2>13 DEF Wrapper!RaiseReadTx, Wrapper!Shown, BusOK
  <2>14. CASE Wrapper!TxReady
    BY <2>14, <2>3 DEF Wrapper!TxReady, Wrapper!Shown, Wrapper!StatusShown,
                       Wrapper!StartWrite, BusOK, WritesTx
  <2>15. CASE Wrapper!TxNotReady
    BY <2>15 DEF Wrapper!TxNotReady, Wrapper!Shown, Wrapper!StatusShown, BusOK
  <2>16. CASE Wrapper!TxWait
    BY <2>16, <2>3 DEF Wrapper!TxWait, Wrapper!Shown, BusOK, WritesTx
  <2>17. CASE Wrapper!ByteSent
    <3>1. ~wrap.read
      BY <2>17 DEF Wrapper!ByteSent, BusOK
    <3>2. /\ wrap'.state \in {"SEND_DATA", "GET_DATA"}
          /\ ~wrap'.write /\ ~wrap'.read /\ wrap'.address = "STATUS"
      BY <2>17, <3>1, ByteSentEffect
    <3> QED BY <3>2 DEF BusOK
  <2> QED
    BY <2>1, <2>4, <2>5, <2>6, <2>7, <2>8, <2>9, <2>10, <2>11, <2>12, <2>13,
       <2>14, <2>15, <2>16, <2>17 DEF Wrapper!WrapClock
<1>2. CASE HostByteArrives
  BY <1>2, Tokens DEF HostByteArrives, BusOK
<1>3. CASE HostReceives
  BY <1>3 DEF HostReceives, BusOK
<1>4. CASE UNCHANGED vars
  BY <1>4 DEF vars, BusOK
<1> QED
  BY <1>1, <1>2, <1>3, <1>4 DEF Next

(* What a clock edge does to the core.                                     *)
LEMMA CoreEffect ==
  ASSUME TypeOK, CoreOK, Core!Next
  PROVE  /\ ~wrap.rsa_start /\ ~busy => ~busy' /\ ~o_finished'
         /\ wrap.rsa_start => busy' /\ ~o_finished'
         /\ ~(busy' /\ o_finished')
         /\ o_finished' => o_a_pow_d' = Decrypt(wrap.enc, wrap.e, wrap.n)
<1> USE DEF TypeOK, CoreOK
<1>1. CASE Core!Rest
  BY <1>1 DEF Core!Rest
<1>2. CASE Core!Accept
  BY <1>2 DEF Core!Accept
<1>3. CASE Core!Compute
  BY <1>3 DEF Core!Compute, Core!outputs
<1>4. CASE Core!Deliver
  BY <1>4 DEF Core!Deliver
<1> QED
  BY <1>1, <1>2, <1>3, <1>4 DEF Core!Next

(* Every wrapper action other than those named leaves rsa_start down and   *)
(* the state outside WAIT_CALCULATE.                                       *)
LEMMA StartEffect ==
  ASSUME wrap \in WrapRegisters, BusOK, rx # None => rx \in Byte,
         wrap.rsa_start => wrap.state = "WAIT_CALCULATE", Wrapper!WrapClock
  PROVE  \/ /\ wrap.state = "WAIT_CALCULATE" /\ wrap'.state = "WAIT_CALCULATE"
            /\ ~o_finished /\ ~wrap'.rsa_start
         \/ /\ wrap.state = "WAIT_CALCULATE" /\ wrap'.state = "SEND_DATA"
            /\ o_finished /\ ~wrap'.rsa_start
         \/ /\ wrap.state # "WAIT_CALCULATE"
            /\ wrap'.rsa_start => wrap'.state = "WAIT_CALCULATE"
<1> USE WrapFields
<1>4. CASE Wrapper!Idle
  BY <1>4, ResetFields DEF Wrapper!Idle, Wrapper!StartRead
<1>5. CASE Wrapper!RaiseRead
  BY <1>5 DEF Wrapper!RaiseRead, Wrapper!Receiving
<1>6. CASE Wrapper!RxReady
  BY <1>6 DEF Wrapper!RxReady, Wrapper!Receiving, Wrapper!StartRead
<1>7. CASE Wrapper!RxNotReady
  BY <1>7 DEF Wrapper!RxNotReady, Wrapper!Receiving
<1>8. CASE Wrapper!RxWait
  BY <1>8 DEF Wrapper!RxWait, Wrapper!Receiving
<1>9. CASE Wrapper!TakeKeyByte
  <2>1. rx \in Byte /\ wrap.state = "GET_KEY"
    BY <1>9 DEF Wrapper!TakeKeyByte, BusOK
  <2>2. wrap'.rsa_start = wrap.rsa_start
    BY <1>9, <2>1, KeyByteEffect
  <2> QED BY <2>1, <2>2
<1>10. CASE Wrapper!TakeDataByte
  <2>1. rx \in Byte /\ wrap.state = "GET_DATA"
    BY <1>10 DEF Wrapper!TakeDataByte, BusOK
  <2>2. wrap'.rsa_start => wrap'.state = "WAIT_CALCULATE"
    <3>1. CASE wrap.bytes_counter = 0
      BY <1>10, <2>1, <3>1, DataByteEffect
    <3>2. CASE wrap.bytes_counter # 0
      BY <1>10, <2>1, <3>2, DataByteEffect
    <3> QED BY <3>1, <3>2
  <2> QED BY <2>1, <2>2
<1>11. CASE Wrapper!WaitCalculate
  BY <1>11 DEF Wrapper!WaitCalculate
<1>12. CASE Wrapper!TakeAnswer
  BY <1>12 DEF Wrapper!TakeAnswer
<1>13. CASE Wrapper!RaiseReadTx
  BY <1>13 DEF Wrapper!RaiseReadTx, Wrapper!Shown
<1>14. CASE Wrapper!TxReady
  BY <1>14 DEF Wrapper!TxReady, Wrapper!Shown, Wrapper!StartWrite
<1>15. CASE Wrapper!TxNotReady
  BY <1>15 DEF Wrapper!TxNotReady, Wrapper!Shown
<1>16. CASE Wrapper!TxWait
  BY <1>16 DEF Wrapper!TxWait, Wrapper!Shown
<1>17. CASE Wrapper!ByteSent
  BY <1>17, ByteSentEffect DEF Wrapper!ByteSent
<1> QED
  BY <1>4, <1>5, <1>6, <1>7, <1>8, <1>9, <1>10, <1>11, <1>12, <1>13,
     <1>14, <1>15, <1>16, <1>17 DEF Wrapper!WrapClock

(* Start, busy and finished follow one another.                            *)
LEMMA CoreStep ==
  ASSUME TypeOK, BusOK, CoreOK, [Next]_vars
  PROVE  CoreOK'
<1>1. CASE Clock
  <2>1. Core!Next /\ Wrapper!WrapClock
    BY <1>1 DEF Clock
  <2>2. wrap \in WrapRegisters /\ (rx # None => rx \in Byte)
        /\ busy \in BOOLEAN /\ o_finished \in BOOLEAN
    BY DEF TypeOK
  <2>3. CASE wrap.state = "WAIT_CALCULATE" /\ wrap'.state = "WAIT_CALCULATE"
             /\ ~wrap'.rsa_start
    BY <2>1, <2>3, CoreEffect DEF CoreOK
  <2>4. CASE wrap.state = "WAIT_CALCULATE" /\ o_finished /\ ~wrap'.rsa_start
    BY <2>1, <2>4, CoreEffect DEF CoreOK
  <2>5. CASE wrap.state # "WAIT_CALCULATE"
             /\ (wrap'.rsa_start => wrap'.state = "WAIT_CALCULATE")
    BY <2>1, <2>5, CoreEffect DEF CoreOK
  <2> QED
    BY <2>1, <2>2, <2>3, <2>4, <2>5, StartEffect DEF CoreOK
<1>2. CASE HostByteArrives \/ HostReceives \/ UNCHANGED vars
  BY <1>2 DEF HostByteArrives, HostReceives, vars, CoreOK
<1> QED
  BY <1>1, <1>2 DEF Next

-----------------------------------------------------------------------------
(* A block that is complete is one of the host's.                          *)
LEMMA BlockExists ==
  ASSUME TypeOK, LineOK, NEW b \in 0 .. NBlocks, At(b),
         wrap.state \in {"WAIT_CALCULATE", "SEND_DATA"}
  PROVE  b \in 0 .. NBlocks - 1
<1>1. b \in Nat /\ NBlocks \in Nat /\ K \in Nat \ {0} /\ sent \in Nat
  BY KAssumption, NBlocksAssumption DEF TypeOK
<1>2. Taken = 2 * K + b * K + K
  BY DEF At, CalculateAt, SendAt
<1>3. b * K \in Nat /\ NBlocks * K \in Nat /\ (b + 1) * K = b * K + K
  BY <1>1
<1>4. 2 * K + b * K + K <= 2 * K + NBlocks * K
  BY <1>1, <1>2, <1>3 DEF Taken, LineOK
<1>5. (b + 1) * K <= NBlocks * K
  BY <1>1, <1>3, <1>4
<1>6. b + 1 <= NBlocks
  BY <1>1, <1>5, Multiples
<1> QED
  BY <1>1, <1>6

(* What At says of a block is about these registers and counts only.       *)
LEMMA Unmoved ==
  ASSUME NEW b, At(b),
         wrap'.state = wrap.state, wrap'.n = wrap.n, wrap'.e = wrap.e,
         wrap'.enc = wrap.enc, wrap'.dec = wrap.dec,
         wrap'.bytes_counter = wrap.bytes_counter, wrap'.sel = wrap.sel,
         Taken' = Taken, Given' = Given,
         wrap.state = "WAIT_CALCULATE" /\ o_finished' => o_a_pow_d' = Plain(b)
  PROVE  At(b)'
<1>1. wrap.state = "IDLE" => IdleAt(b)'
  BY DEF At, IdleAt
<1>2. wrap.state = "GET_KEY" => KeyAt(b)'
  BY DEF At, KeyAt
<1>3. wrap.state = "GET_DATA" => DataAt(b)'
  BY DEF At, DataAt
<1>4. wrap.state = "WAIT_CALCULATE" => CalculateAt(b)'
  BY DEF At, CalculateAt
<1>5. wrap.state = "SEND_DATA" => SendAt(b)'
  BY DEF At, SendAt
<1>6. wrap.state \in {"GET_DATA", "WAIT_CALCULATE", "SEND_DATA"} =>
        wrap'.n = KeyN /\ wrap'.e = KeyE
  BY DEF At
<1> QED
  BY <1>1, <1>2, <1>3, <1>4, <1>5, <1>6 DEF At

(* Byte 2K - 1 - c of the stream is the byte of the key that the counter   *)
(* at c asks for.                                                          *)
LEMMA KeyByteAt ==
  ASSUME NEW c \in 0 .. 2 * K - 1
  PROVE  /\ c >= K => c - K \in Positions /\ KeyN[c - K] = StreamByte(2 * K - 1 - c)
         /\ c < K => c \in Positions /\ KeyE[c] = StreamByte(2 * K - 1 - c)
<1>1. K \in Nat
  BY KAssumption
<1>2. ASSUME c >= K
      PROVE  c - K \in Positions /\ KeyN[c - K] = StreamByte(2 * K - 1 - c)
  <2>1. c - K \in 0 .. K - 1 /\ K - 1 - (c - K) = 2 * K - 1 - c
    BY <1>1, <1>2
  <2> QED BY <2>1 DEF KeyN, Positions
<1>3. ASSUME c < K
      PROVE  c \in Positions /\ KeyE[c] = StreamByte(2 * K - 1 - c)
  BY <1>1, <1>3 DEF KeyE, Positions
<1> QED
  BY <1>2, <1>3

(* A byte of the key goes to its place.                                    *)
LEMMA KeyByteStep ==
  ASSUME TypeOK, BusOK, NEW b \in 0 .. NBlocks, At(b), Wrapper!TakeKeyByte,
         rx = StreamByte(Taken), Taken' = Taken + 1, Given' = Given
  PROVE  At(b)'
<1> DEFINE c == wrap.bytes_counter
           storedN == IF c >= K THEN [wrap.n EXCEPT ![c - K] = rx] ELSE wrap.n
           storedE == IF c >= K THEN wrap.e ELSE [wrap.e EXCEPT ![c] = rx]
<1>1. wrap \in WrapRegisters /\ wrap.state = "GET_KEY" /\ rx \in Byte
      /\ wrap.n \in Register /\ wrap.e \in Register
  BY DEF Wrapper!TakeKeyByte, BusOK, TypeOK, WrapRegisters
<1>2. wrap' = [wrap EXCEPT
        !.n = storedN, !.e = storedE, !.address = "STATUS", !.read = FALSE,
        !.bytes_counter = IF c = 0 THEN K - 1 ELSE c - 1,
        !.state = IF c = 0 THEN "GET_DATA" ELSE "GET_KEY"]
  BY <1>1, KeyByteEffect
<1>3. c \in 0 .. 2 * K - 1 /\ K \in Nat /\ K >= 2
  BY KAssumption DEF TypeOK, WrapRegisters
<1>4. b = 0 /\ Taken = 2 * K - 1 - c /\ Given = 0 /\ wrap.sel = 1
  BY <1>1 DEF At, KeyAt
<1>5. \A i \in Positions : /\ i + K > c => wrap.n[i] = KeyN[i]
                           /\ i > c => wrap.e[i] = KeyE[i]
  BY <1>1 DEF At, KeyAt
<1>6. storedN \in Register /\ storedE \in Register
  BY <1>1, <1>3, KeyByteAt, StoreByte
<1>7. ASSUME NEW i \in Positions PROVE i + K > c - 1 => storedN[i] = KeyN[i]
  <2>1. i \in Nat /\ i < K
    BY <1>3 DEF Positions
  <2>2. CASE c >= K
    <3>1. c - K \in Positions /\ KeyN[c - K] = rx
      BY <1>3, <1>4, <2>2, KeyByteAt
    <3>2. CASE i = c - K
      <4>1. storedN[c - K] = rx
        BY <1>1, <2>2, <3>1 DEF Register
      <4> HIDE DEF storedN
      <4> QED BY <3>1, <3>2, <4>1
    <3>3. CASE i # c - K
      <4>1. storedN[i] = wrap.n[i]
        BY <1>1, <2>2, <3>1, <3>3, StoreByte
      <4>2. i + K > c - 1 => i + K > c
        BY <1>3, <2>1, <3>3
      <4> QED BY <1>5, <4>1, <4>2
    <3> QED BY <3>2, <3>3
  <2>3. CASE c < K
    <3>1. i + K > c
      BY <1>3, <2>1, <2>3
    <3> QED BY <1>3, <1>5, <2>3, <3>1
  <2> QED BY <1>3, <2>2, <2>3
<1>8. ASSUME NEW i \in Positions PROVE i > c - 1 => storedE[i] = KeyE[i]
  <2>1. i \in Nat /\ i < K
    BY <1>3 DEF Positions
  <2>2. CASE c >= K
    <3>1. i > c - 1 => FALSE
      BY <1>3, <2>1, <2>2
    <3> QED BY <3>1
  <2>3. CASE c < K
    <3>1. c \in Positions /\ KeyE[c] = rx
      BY <1>3, <1>4, <2>3, KeyByteAt
    <3>2. CASE i = c
      <4>1. storedE[c] = rx
        BY <1>1, <1>3, <2>3, <3>1 DEF Register
      <4> HIDE DEF storedE
      <4> QED BY <3>1, <3>2, <4>1
    <3>3. CASE i # c
      <4>1. storedE[i] = wrap.e[i]
        BY <1>1, <1>3, <2>3, <3>1, <3>3, StoreByte
      <4>2. i > c - 1 => i > c
        BY <1>3, <2>1, <3>3
      <4> QED BY <1>5, <4>1, <4>2
    <3> QED BY <3>2, <3>3
  <2> QED BY <1>3, <2>2, <2>3
<1> HIDE DEF storedN, storedE
<1>9. CASE c # 0
  <2>1. /\ wrap'.state = "GET_KEY" /\ wrap'.n = storedN /\ wrap'.e = storedE
        /\ wrap'.bytes_counter = c - 1 /\ wrap'.sel = 1
    BY <1>1, <1>2, <1>4, <1>9 DEF WrapRegisters
  <2>2. Taken' = 2 * K - 1 - (c - 1)
    BY <1>3, <1>4
  <2> QED
    BY <1>4, <1>7, <1>8, <2>1, <2>2 DEF At, KeyAt
<1>10. CASE c = 0
  <2>1. /\ wrap'.state = "GET_DATA" /\ wrap'.n = storedN /\ wrap'.e = storedE
        /\ wrap'.bytes_counter = K - 1 /\ wrap'.sel = 1
    BY <1>1, <1>2, <1>4, <1>10 DEF WrapRegisters
  <2>2. \A i \in Positions : i + K > c - 1 /\ i > c - 1 /\ ~(i > K - 1)
    BY <1>3, <1>10 DEF Positions
  <2>3. storedN = KeyN /\ storedE = KeyE
    <3>1. \A i \in Positions : storedN[i] = KeyN[i] /\ storedE[i] = KeyE[i]
      BY <1>7, <1>8, <2>2
    <3> QED BY <1>6, <3>1, Registers DEF Register
  <2>4. 0 * K = 0 /\ Taken' = 2 * K + 0 * K + (K - 1 - (K - 1))
        /\ Given' = 0 * K - 0
    BY <1>3, <1>4, <1>10
  <2>5. K - 1 \in Positions
    BY <1>3 DEF Positions
  <2>6. DataAt(b)'
    BY <1>4, <2>1, <2>2, <2>4, <2>5 DEF DataAt
  <2> QED
    BY <2>1, <2>3, <2>6 DEF At
<1> QED
  BY <1>9, <1>10

(* A byte of a block goes to its place.                                    *)
LEMMA DataByteStep ==
  ASSUME TypeOK, BusOK, CoreOK, CoreOK', NEW b \in 0 .. NBlocks, At(b),
         Wrapper!TakeDataByte, ~o_finished',
         rx = StreamByte(Taken), Taken' = Taken + 1, Given' = Given
  PROVE  At(b)'
<1> DEFINE c == wrap.bytes_counter
           q == b * K
           stored == [wrap.enc EXCEPT ![c] = rx]
<1>1. wrap \in WrapRegisters /\ wrap.state = "GET_DATA" /\ rx \in Byte
      /\ wrap.enc \in Register
  BY DEF Wrapper!TakeDataByte, BusOK, TypeOK, WrapRegisters
<1>2. wrap' = [wrap EXCEPT
        !.enc = stored, !.address = "STATUS", !.read = FALSE,
        !.bytes_counter = IF c = 0 THEN K - 1 ELSE c - 1,
        !.state = IF c = 0 THEN "WAIT_CALCULATE" ELSE "GET_DATA",
        !.rsa_start = IF c = 0 THEN TRUE ELSE wrap.rsa_start]
  BY <1>1, DataByteEffect
<1>3. K \in Nat /\ K >= 2 /\ b \in Nat /\ q \in Nat
  BY KAssumption, NBlocksAssumption, Multiples
<1>4. /\ c \in Positions /\ wrap.sel = 1 /\ Taken = 2 * K + q + (K - 1 - c)
      /\ Given = q - b /\ wrap.n = KeyN /\ wrap.e = KeyE
      /\ \A i \in Positions : i > c => wrap.enc[i] = Block(b)[i]
  BY <1>1 DEF At, DataAt
<1>5. c \in Nat /\ c <= K - 1
  BY <1>3, <1>4 DEF Positions
<1>6. stored \in Register
  BY <1>1, <1>4, StoreByte
<1>7. rx = Block(b)[c]
  <2>1. Block(b)[c] = StreamByte(2 * K + q + K - 1 - c)
    BY <1>4 DEF Block, Positions
  <2> HIDE DEF q
  <2>2. 2 * K + q + K - 1 - c = Taken
    BY <1>3, <1>4, <1>5
  <2> QED BY <2>1, <2>2
<1>8. ASSUME NEW i \in Positions PROVE i > c - 1 => stored[i] = Block(b)[i]
  <2>1. i \in Nat
    BY <1>3 DEF Positions
  <2>2. CASE i = c
    <3>1. stored[c] = rx
      BY <1>1, <1>4 DEF Register
    <3> HIDE DEF stored
    <3> QED BY <1>7, <2>2, <3>1
  <2>3. CASE i # c
    <3>1. stored[i] = wrap.enc[i]
      BY <1>1, <1>4, <2>3, StoreByte
    <3>2. i > c - 1 => i > c
      BY <1>5, <2>1, <2>3
    <3> QED BY <1>4, <3>1, <3>2
  <2> QED BY <2>2, <2>3
<1>9. Given' = b * K - b
  BY <1>4
<1> HIDE DEF stored, q
<1>10. CASE c # 0
  <2>1. /\ wrap'.state = "GET_DATA" /\ wrap'.n = KeyN /\ wrap'.e = KeyE
        /\ wrap'.enc = stored /\ wrap'.bytes_counter = c - 1 /\ wrap'.sel = 1
    BY <1>1, <1>2, <1>4, <1>10 DEF WrapRegisters
  <2>2. c - 1 \in Positions
    BY <1>3, <1>5, <1>10 DEF Positions
  <2>3. Taken' = 2 * K + q + (K - 1 - (c - 1))
    BY <1>3, <1>4, <1>5
  <2>4. DataAt(b)'
    BY <1>8, <1>9, <2>1, <2>2, <2>3 DEF DataAt, q
  <2> QED
    BY <2>1, <2>4 DEF At
<1>11. CASE c = 0
  <2>1. /\ wrap'.state = "WAIT_CALCULATE" /\ wrap'.n = KeyN /\ wrap'.e = KeyE
        /\ wrap'.enc = stored /\ wrap'.bytes_counter = K - 1 /\ wrap'.sel = 1
    BY <1>1, <1>2, <1>4, <1>11 DEF WrapRegisters
  <2>2. Taken' = 2 * K + q + K
    BY <1>3, <1>4, <1>5, <1>11
  <2>3. stored = Block(b)
    <3>1. \A i \in Positions : i > c - 1
      BY <1>3, <1>11 DEF Positions
    <3>2. \A i \in Positions : stored[i] = Block(b)[i]
      BY <1>8, <3>1
    <3>3. Block(b) \in Register
      BY <1>3, Registers
    <3> QED BY <1>6, <3>2, <3>3 DEF Register
  <2>4. CalculateAt(b)'
    BY <1>9, <2>1, <2>2, <2>3 DEF CalculateAt, q
  <2> QED
    BY <2>1, <2>4 DEF At
<1> QED
  BY <1>10, <1>11

(* The wrapper takes the core's answer.                                    *)
LEMMA AnswerStep ==
  ASSUME TypeOK, NEW b \in 0 .. NBlocks, At(b), Wrapper!TakeAnswer,
         Taken' = Taken, Given' = Given
  PROVE  At(b)'
<1>1. wrap \in WrapRegisters /\ wrap.state = "WAIT_CALCULATE" /\ o_finished
  BY DEF TypeOK, Wrapper!TakeAnswer
<1>2. /\ wrap.bytes_counter = K - 1 /\ wrap.sel = 1
      /\ Taken = 2 * K + b * K + K /\ Given = b * K - b
      /\ o_a_pow_d = Plain(b) /\ wrap.n = KeyN /\ wrap.e = KeyE
  BY <1>1 DEF At, CalculateAt
<1>3. /\ wrap'.state = "SEND_DATA" /\ wrap'.n = KeyN /\ wrap'.e = KeyE
      /\ wrap'.dec = Plain(b) /\ wrap'.bytes_counter = K - 1 /\ wrap'.sel = 1
  BY <1>1, <1>2 DEF Wrapper!TakeAnswer, WrapRegisters
<1>4. Given' = b * K - b + (1 - 1)
  <2>1. b * K - b \in Int
    BY KAssumption, NBlocksAssumption
  <2> QED BY <1>2, <2>1
<1> QED
  BY <1>2, <1>3, <1>4 DEF At, SendAt

(* A byte of the answer has been sent; after the last one the next block   *)
(* is awaited.                                                             *)
LEMMA SentStep ==
  ASSUME TypeOK, LineOK, NEW b \in 0 .. NBlocks, At(b), Wrapper!ByteSent,
         Taken' = Taken, Given' = Given + 1
  PROVE  \E d \in 0 .. NBlocks : At(d)'
<1> DEFINE s == wrap.sel
           q == b * K
<1>1. wrap \in WrapRegisters /\ wrap.state = "SEND_DATA"
  BY DEF TypeOK, Wrapper!ByteSent
<1>2. K \in Nat /\ K >= 2 /\ NBlocks \in Nat /\ b \in Nat /\ q \in Nat
      /\ s \in 0 .. K - 1
  BY <1>1, KAssumption, NBlocksAssumption, Multiples DEF WrapRegisters, Positions
<1>3. /\ wrap.bytes_counter = K - 1 /\ s >= 1 /\ Taken = 2 * K + q + K
      /\ Given = q - b + (s - 1) /\ wrap.dec = Plain(b)
      /\ wrap.n = KeyN /\ wrap.e = KeyE
  BY <1>1 DEF At, SendAt
<1>4. b \in 0 .. NBlocks - 1
  BY <1>1, BlockExists
<1>5. wrap' = [wrap EXCEPT
        !.writedata = wrap.dec[K - 1 - s], !.address = "STATUS", !.write = FALSE,
        !.sel = IF s = K - 1 THEN 1 ELSE s + 1,
        !.state = IF s = K - 1 THEN "GET_DATA" ELSE "SEND_DATA"]
  BY <1>1, ByteSentEffect
<1>6. /\ wrap'.n = KeyN /\ wrap'.e = KeyE /\ wrap'.dec = Plain(b)
      /\ wrap'.bytes_counter = K - 1
  BY <1>1, <1>3, <1>5 DEF WrapRegisters
<1>7. CASE s # K - 1
  <2>1. wrap'.state = "SEND_DATA" /\ wrap'.sel = s + 1
    BY <1>1, <1>5, <1>7 DEF WrapRegisters
  <2>2. s + 1 >= 1 /\ Given' = q - b + ((s + 1) - 1)
    <3> HIDE DEF q, s
    <3> QED BY <1>2, <1>3
  <2>3. SendAt(b)'
    BY <1>3, <1>6, <2>1, <2>2 DEF SendAt
  <2> QED
    BY <1>6, <2>1, <2>3 DEF At
<1>8. CASE s = K - 1
  <2>1. wrap'.state = "GET_DATA" /\ wrap'.sel = 1
    BY <1>1, <1>5, <1>8 DEF WrapRegisters
  <2>2. (b + 1) * K = q + K /\ b + 1 \in 0 .. NBlocks
    BY <1>2, <1>4
  <2>3. Given' = (b + 1) * K - (b + 1)
        /\ Taken' = 2 * K + (b + 1) * K + (K - 1 - (K - 1))
    <3> DEFINE r == (b + 1) * K
    <3>1. r = q + K
      BY <2>2
    <3> HIDE DEF q, s, r
    <3>2. Given' = r - (b + 1) /\ Taken' = 2 * K + r + (K - 1 - (K - 1))
      BY <1>2, <1>3, <1>8, <3>1
    <3> QED BY <3>2 DEF r
  <2>4. K - 1 \in Positions /\ \A i \in Positions : ~(i > K - 1)
    BY <1>2 DEF Positions
  <2>5. DataAt(b + 1)'
    BY <1>6, <2>1, <2>3, <2>4 DEF DataAt
  <2>6. At(b + 1)'
    BY <1>6, <2>1, <2>5 DEF At
  <2> QED
    BY <2>2, <2>6
<1> QED
  BY <1>7, <1>8

(* Every step leaves the wrapper at work on some block.                    *)
LEMMA AtStep ==
  ASSUME TypeOK, LineOK, BusOK, CoreOK, CoreOK', NEW b \in 0 .. NBlocks, At(b),
         [Next]_vars
  PROVE  \E d \in 0 .. NBlocks : At(d)'
<1>1. CASE Clock
  <2>1. Core!Next /\ Wrapper!WrapClock /\ UartClock /\ UNCHANGED <<sent, file>>
    BY <1>1 DEF Clock
  <2>2. wrap \in WrapRegisters /\ sent \in Nat /\ Len(file) \in Nat
        /\ busy \in BOOLEAN
    BY DEF TypeOK
  <2>3. Taken \in Int /\ Given \in Int
    BY <2>2 DEF Taken, Given
  <2>4. /\ Taken' = Taken + (IF ReadsRx THEN 1 ELSE 0)
        /\ Given' = Given + (IF WritesTx THEN 1 ELSE 0)
        /\ ReadsRx => rx = StreamByte(Taken)
    BY <2>1, UartStep
  <2>5. ~ReadsRx => Taken' = Taken
    BY <2>3, <2>4
  <2>6. ~WritesTx => Given' = Given
    BY <2>3, <2>4
  <2>7. wrap.state # "WAIT_CALCULATE" => ~o_finished'
    BY <2>1, <2>2, CoreEffect DEF CoreOK
  <2> USE WrapFields
  <2>8. CASE Wrapper!Idle
    <3>1. wrap.state = "IDLE" /\ ~wrap.read /\ ~wrap.write
      BY <2>8 DEF Wrapper!Idle, BusOK
    <3>2. b = 0 /\ Taken' = 0 /\ Given' = 0
      BY <2>5, <2>6, <3>1 DEF At, IdleAt, ReadsRx, WritesTx
    <3>3. wrap'.state = "GET_KEY" /\ wrap'.sel = 1 /\ wrap'.bytes_counter = 2 * K - 1
      BY <2>8, ResetFields DEF Wrapper!Idle, Wrapper!StartRead, WrapRegisters
    <3>4. \A i \in Positions : ~(i + K > 2 * K - 1) /\ ~(i > 2 * K - 1)
      BY KAssumption DEF Positions
    <3>5. 0 = 2 * K - 1 - (2 * K - 1)
      BY KAssumption
    <3>6. KeyAt(b)'
      BY <3>2, <3>3, <3>4, <3>5 DEF KeyAt
    <3> QED
      BY <3>3, <3>6 DEF At
  <2>9. CASE \/ Wrapper!RaiseRead \/ Wrapper!RxReady
             \/ Wrapper!RxNotReady \/ Wrapper!RxWait
    <3>1. wrap.state \in {"GET_KEY", "GET_DATA"} /\ ~ReadsRx /\ ~WritesTx
      BY <2>9 DEF Wrapper!RaiseRead, Wrapper!RxReady, Wrapper!RxNotReady,
                  Wrapper!RxWait, Wrapper!Receiving, Wrapper!StatusShown, BusOK,
                  ReadsRx, WritesTx
    <3>2. /\ wrap'.state = wrap.state /\ wrap'.n = wrap.n /\ wrap'.e = wrap.e
          /\ wrap'.enc = wrap.enc /\ wrap'.dec = wrap.dec
          /\ wrap'.bytes_counter = wrap.bytes_counter /\ wrap'.sel = wrap.sel
      BY <2>2, <2>9 DEF Wrapper!RaiseRead, Wrapper!RxReady, Wrapper!RxNotReady,
                        Wrapper!RxWait, Wrapper!StartRead, WrapRegisters
    <3> QED
      BY <2>5, <2>6, <3>1, <3>2, Unmoved
  <2>10. CASE Wrapper!TakeKeyByte
    <3>1. ReadsRx /\ ~WritesTx
      BY <2>10 DEF Wrapper!TakeKeyByte, BusOK, ReadsRx, WritesTx
    <3> QED
      BY <2>4, <2>6, <2>10, <3>1, KeyByteStep
  <2>11. CASE Wrapper!TakeDataByte
    <3>1. ReadsRx /\ ~WritesTx /\ ~o_finished'
      BY <2>7, <2>11 DEF Wrapper!TakeDataByte, BusOK, ReadsRx, WritesTx
    <3> QED
      BY <2>4, <2>6, <2>11, <3>1, DataByteStep
  <2>12. CASE Wrapper!WaitCalculate
    <3>1. wrap.state = "WAIT_CALCULATE" /\ ~ReadsRx /\ ~WritesTx
      BY <2>12 DEF Wrapper!WaitCalculate, BusOK, ReadsRx, WritesTx
    <3>2. /\ wrap'.state = wrap.state /\ wrap'.n = wrap.n /\ wrap'.e = wrap.e
          /\ wrap'.enc = wrap.enc /\ wrap'.dec = wrap.dec
          /\ wrap'.bytes_counter = wrap.bytes_counter /\ wrap'.sel = wrap.sel
      BY <2>2, <2>12 DEF Wrapper!WaitCalculate, WrapRegisters
    <3>3. o_finished' => o_a_pow_d' = Plain(b)
      <4>1. wrap.enc = Block(b) /\ wrap.e = KeyE /\ wrap.n = KeyN
        BY <3>1 DEF At, CalculateAt
      <4>2. Decrypt(wrap.enc, wrap.e, wrap.n) = Plain(b)
        BY <3>1, <4>1, BlockExists, AnswerIsPlain
      <4> QED BY <2>1, <4>2, CoreEffect
    <3> QED
      BY <2>5, <2>6, <3>1, <3>2, <3>3, Unmoved
  <2>13. CASE Wrapper!TakeAnswer
    <3>1. ~ReadsRx /\ ~WritesTx
      BY <2>13 DEF Wrapper!TakeAnswer, BusOK, ReadsRx, WritesTx
    <3> QED
      BY <2>5, <2>6, <2>13, <3>1, AnswerStep
  <2>14. CASE \/ Wrapper!RaiseReadTx \/ Wrapper!TxReady
              \/ Wrapper!TxNotReady \/ Wrapper!TxWait
    <3>1. wrap.state = "SEND_DATA" /\ ~ReadsRx /\ ~WritesTx
      BY <2>14 DEF Wrapper!RaiseReadTx, Wrapper!TxReady, Wrapper!TxNotReady,
                   Wrapper!TxWait, Wrapper!StatusShown, BusOK, ReadsRx, WritesTx
    <3>2. /\ wrap'.state = wrap.state /\ wrap'.n = wrap.n /\ wrap'.e = wrap.e
          /\ wrap'.enc = wrap.enc /\ wrap'.dec = wrap.dec
          /\ wrap'.bytes_counter = wrap.bytes_counter /\ wrap'.sel = wrap.sel
      BY <2>2, <2>14 DEF Wrapper!RaiseReadTx, Wrapper!TxReady,
                         Wrapper!TxNotReady, Wrapper!TxWait, Wrapper!Shown,
                         Wrapper!StartWrite, WrapRegisters
    <3> QED
      BY <2>5, <2>6, <3>1, <3>2, Unmoved
  <2>15. CASE Wrapper!ByteSent
    <3>1. WritesTx /\ ~ReadsRx
      BY <2>15 DEF Wrapper!ByteSent, BusOK, ReadsRx, WritesTx
    <3> QED
      BY <2>4, <2>5, <2>15, <3>1, SentStep
  <2> QED
    BY <2>1, <2>8, <2>9, <2>10, <2>11, <2>12, <2>13, <2>14, <2>15
       DEF Wrapper!WrapClock
<1>2. CASE HostByteArrives
  <2>1. rx = None
    <3>1. CASE wrap.state \in {"IDLE", "GET_KEY", "GET_DATA"}
      BY <1>2, <3>1 DEF HostByteArrives
    <3>2. CASE wrap.state \in {"WAIT_CALCULATE", "SEND_DATA"}
      BY <1>2, <3>2, NoByteWhileAway DEF HostByteArrives
    <3> QED BY <3>1, <3>2 DEF TypeOK, WrapRegisters
  <2>2. Taken' = Taken
    BY <1>2, <2>1, Tokens DEF HostByteArrives, Taken, TypeOK
  <2>3. Given' = Given
    BY <1>2 DEF HostByteArrives, Given
  <2>4. UNCHANGED <<wrap, o_finished, o_a_pow_d>>
    BY <1>2 DEF HostByteArrives
  <2>5. wrap.state = "WAIT_CALCULATE" /\ o_finished' => o_a_pow_d' = Plain(b)
    BY <2>4 DEF At, CalculateAt
  <2> QED
    BY <2>2, <2>3, <2>4, <2>5, Unmoved
<1>3. CASE HostReceives \/ UNCHANGED vars
  <2>1. Taken' = Taken
    BY <1>3 DEF HostReceives, vars, Taken
  <2>2. Given' = Given
    <3>1. Len(Append(file, tx)) = Len(file) + 1 /\ Len(file) \in Nat
      BY DEF TypeOK
    <3>2. CASE HostReceives
      BY <3>1, <3>2 DEF HostReceives, Given
    <3>3. CASE UNCHANGED vars
      BY <3>3 DEF vars, Given
    <3> QED BY <1>3, <3>2, <3>3
  <2>3. UNCHANGED <<wrap, o_finished, o_a_pow_d>>
    BY <1>3 DEF HostReceives, vars
  <2>4. wrap.state = "WAIT_CALCULATE" /\ o_finished' => o_a_pow_d' = Plain(b)
    BY <2>3 DEF At, CalculateAt
  <2> QED
    BY <2>1, <2>2, <2>3, <2>4, Unmoved
<1> QED
  BY <1>1, <1>2, <1>3 DEF Next

-----------------------------------------------------------------------------
(* After reset the wrapper is at block 0 and has counted no byte.          *)
LEMMA InitIInv == Init => IInv
<1> SUFFICES ASSUME Init PROVE IInv
  OBVIOUS
<1> USE DEF Init, Core!Init
<1>1. [i \in 0 .. K - 1 |-> Zero] \in Register
  BY Tokens DEF Register, Positions
<1>2. TypeOK
  <2>1. file \in Seq(Byte)
    <3>1. \A S : <<>> \in Seq(S)
      OBVIOUS
    <3> QED BY <3>1
  <2>2. wrap \in WrapRegisters /\ o_a_pow_d \in Register /\ sent \in Nat
        /\ o_finished \in BOOLEAN /\ busy \in BOOLEAN /\ overrun \in BOOLEAN
        /\ avm_waitrequest \in BOOLEAN /\ rx = None /\ tx = None
    BY <1>1, ResetFields
  <2> QED
    BY <2>1, <2>2 DEF TypeOK
<1>3. 2 * K + NBlocks * K \in Nat /\ 0 \in 0 .. NBlocks
  BY KAssumption, NBlocksAssumption
<1>4. LineOK
  BY <1>3 DEF LineOK
<1>5. BusOK /\ CoreOK
  BY ResetFields DEF BusOK, CoreOK
<1>6. At(0)
  BY ResetFields DEF At, IdleAt, Taken, Given
<1> QED
  BY <1>2, <1>3, <1>4, <1>5, <1>6 DEF IInv

(* The invariant is inductive.                                             *)
LEMMA StepIInv == IInv /\ [Next]_vars => IInv'
<1> SUFFICES ASSUME IInv, [Next]_vars PROVE IInv'
  OBVIOUS
<1>1. TypeOK /\ LineOK /\ BusOK /\ CoreOK
  BY DEF IInv
<1>2. PICK b \in 0 .. NBlocks : At(b)
  BY DEF IInv
<1>3. TypeOK'
  BY <1>1, <1>2, TypeStep
<1>4. LineOK'
  BY <1>1, <1>2, LineStep
<1>5. BusOK'
  BY <1>1, <1>2, BusStep
<1>6. CoreOK'
  BY <1>1, CoreStep
<1>7. \E d \in 0 .. NBlocks : At(d)'
  BY <1>1, <1>2, <1>6, AtStep
<1> QED
  BY <1>3, <1>4, <1>5, <1>6, <1>7 DEF IInv

(* The invariant holds in every reachable state.                           *)
LEMMA Invariance == Spec => []IInv
  BY InitIInv, StepIInv, PTL DEF Spec

(* rs232.py: for every key and every number of blocks, what the host has   *)
(* written is a prefix of the plaintext, block after block, each from its  *)
(* second highest byte to its lowest.                                      *)
THEOREM FileCorrect == Spec => []FileIsPlaintext
<1>1. IInv => FileIsPlaintext
  BY DEF IInv, LineOK, FileIsPlaintext, PlainByte
<1> QED
  BY <1>1, Invariance, PTL

(* The host waits for the whole answer before it sends the next block, so  *)
(* the wrapper, which does not poll while it calculates and sends, never   *)
(* loses a byte.                                                           *)
THEOREM NoByteLost == Spec => []NoOverrun
<1>1. IInv => NoOverrun
  BY DEF IInv, LineOK, NoOverrun
<1> QED
  BY <1>1, Invariance, PTL

(* Rsa256Wrapper.sv as an Avalon master: while the UART stalls a transfer, *)
(* address, direction and write data stay.                                 *)
THEOREM TransfersHeld == Spec => HeldWhileStalled
<1> DEFINE Held ==
             (wrap.read \/ wrap.write) /\ avm_waitrequest =>
               /\ wrap'.read = wrap.read /\ wrap'.write = wrap.write
               /\ wrap'.address = wrap.address
               /\ wrap.write => wrap'.writedata = wrap.writedata
<1>1. IInv /\ [Next]_vars => [Held]_vars
  <2> SUFFICES ASSUME IInv, [Next]_vars, wrap.read \/ wrap.write, avm_waitrequest
               PROVE  Held
    OBVIOUS
  <2>1. TypeOK /\ BusOK /\ wrap \in WrapRegisters
    BY DEF IInv, TypeOK
  <2>2. CASE Clock
    <3>1. Wrapper!WrapClock
      BY <2>2 DEF Clock
    <3>2. Wrapper!RxWait \/ Wrapper!TxWait
      <4>1. wrap.state \notin {"IDLE", "WAIT_CALCULATE"}
        BY <2>1 DEF BusOK
      <4>2. wrap.state \in {"GET_KEY", "GET_DATA"} => wrap.read
        BY <2>1 DEF BusOK
      <4> QED
        BY <3>1, <4>1, <4>2 DEF Wrapper!WrapClock, Wrapper!Idle,
           Wrapper!RaiseRead, Wrapper!Receiving, Wrapper!RxReady,
           Wrapper!RxNotReady, Wrapper!StatusShown, Wrapper!TakeKeyByte,
           Wrapper!TakeDataByte, Wrapper!WaitCalculate, Wrapper!TakeAnswer,
           Wrapper!RaiseReadTx, Wrapper!TxReady, Wrapper!TxNotReady,
           Wrapper!ByteSent
    <3>3. CASE Wrapper!RxWait
      <4>1. wrap.read /\ ~wrap.write
        BY <2>1, <3>3 DEF Wrapper!RxWait, Wrapper!Receiving, BusOK
      <4>2. /\ wrap'.read /\ wrap'.write = wrap.write
            /\ wrap'.address = wrap.address
        BY <2>1, <3>3 DEF Wrapper!RxWait, WrapRegisters
      <4>3. wrap.read \in BOOLEAN
        BY <2>1, WrapFields
      <4> QED BY <4>1, <4>2, <4>3
    <3>4. CASE Wrapper!TxWait
      BY <2>1, <3>4 DEF Wrapper!TxWait, Wrapper!Shown, BusOK, WrapRegisters
    <3> QED BY <3>2, <3>3, <3>4
  <2>3. CASE HostByteArrives \/ HostReceives \/ UNCHANGED vars
    BY <2>3 DEF HostByteArrives, HostReceives, vars
  <2> QED BY <2>2, <2>3 DEF Next
<1> QED
  BY <1>1, Invariance, PTL DEF Spec, HeldWhileStalled

(* Rsa256Wrapper.sv and Rsa256Core.sv: the registers the core reads do not *)
(* change while it is at work, and it is not started while it is.          *)
THEOREM OperandsStay == Spec => OperandsHeld
<1> DEFINE Stay ==
             /\ (busy \/ wrap.rsa_start) =>
                  <<wrap.enc, wrap.e, wrap.n>>' = <<wrap.enc, wrap.e, wrap.n>>
             /\ wrap.rsa_start => ~busy
<1>1. IInv /\ [Next]_vars => [Stay]_vars
  <2> SUFFICES ASSUME IInv, [Next]_vars PROVE Stay
    OBVIOUS
  <2>1. TypeOK /\ BusOK /\ CoreOK /\ wrap \in WrapRegisters
    BY DEF IInv, TypeOK
  <2>2. wrap.rsa_start => ~busy
    BY <2>1 DEF CoreOK
  <2>3. ASSUME busy \/ wrap.rsa_start
        PROVE  wrap'.enc = wrap.enc /\ wrap'.e = wrap.e /\ wrap'.n = wrap.n
    <3>1. wrap.state = "WAIT_CALCULATE"
      BY <2>1, <2>3 DEF CoreOK
    <3>2. CASE Clock
      <4>1. Wrapper!WaitCalculate \/ Wrapper!TakeAnswer
        BY <3>1, <3>2 DEF Clock, Wrapper!WrapClock, Wrapper!Idle,
           Wrapper!RaiseRead, Wrapper!Receiving, Wrapper!RxReady,
           Wrapper!RxNotReady, Wrapper!RxWait, Wrapper!TakeKeyByte,
           Wrapper!TakeDataByte, Wrapper!RaiseReadTx, Wrapper!TxReady,
           Wrapper!TxNotReady, Wrapper!TxWait, Wrapper!ByteSent
      <4> QED
        BY <2>1, <4>1 DEF Wrapper!WaitCalculate, Wrapper!TakeAnswer,
                          WrapRegisters
    <3>3. CASE HostByteArrives \/ HostReceives \/ UNCHANGED vars
      BY <3>3 DEF HostByteArrives, HostReceives, vars
    <3> QED BY <3>2, <3>3 DEF Next
  <2> QED BY <2>2, <2>3
<1> QED
  BY <1>1, Invariance, PTL DEF Spec, OperandsHeld
=============================================================================

----------------------------- MODULE RsaSystem ------------------------------
(***************************************************************************)
(* Lab 2 end to end: the host script rs232.py, the serial link and UART    *)
(* (external, modelled from how Rsa256Wrapper uses it), the wrapper and    *)
(* the RSA core, the last through what it promises (module Decryption).    *)
(*                                                                         *)
(* Bytes are opaque: the wrapper never looks at one.  Every key and        *)
(* ciphertext byte is a token of its own, so a byte that is lost, doubled  *)
(* or stored in the wrong place cannot go unnoticed.                       *)
(***************************************************************************)
EXTENDS Integers, Sequences

CONSTANTS K,        \* bytes of a register: 32 in the source
          NBlocks   \* ciphertext blocks in the host's file
ASSUME KAssumption == K \in Nat \ {0, 1}
ASSUME NBlocksAssumption == NBlocks \in Nat

VARIABLES wrap,              \* registers of Rsa256Wrapper
          avm_waitrequest,   \* the UART's Avalon slave stalls this cycle
          o_a_pow_d, o_finished, busy,   \* the core
          rx, tx,            \* the UART's holding registers: a byte or None
          overrun,           \* a received byte was lost in the UART
          sent,              \* bytes the host has put on the line
          file               \* bytes the host has received and written

vars == <<wrap, avm_waitrequest, o_a_pow_d, o_finished, busy, rx, tx,
          overrun, sent, file>>

Zero == <<"zero">>
None == <<"none">>
Garbage == <<"garbage">>

(* The host's stream: the key file, n then e, most significant byte first, *)
(* then the blocks.                                                        *)
StreamByte(j) == <<"stream", j>>
KeyN == [i \in 0 .. K - 1 |-> StreamByte(K - 1 - i)]
KeyE == [i \in 0 .. K - 1 |-> StreamByte(2 * K - 1 - i)]
Block(k) == [i \in 0 .. K - 1 |-> StreamByte(2 * K + k * K + K - 1 - i)]
Plain(k) == [i \in 0 .. K - 1 |-> <<"plain", k, i>>]

(* Decryption of one of the host's blocks under the host's key; anything   *)
(* else decrypts to garbage.                                               *)
Decrypt(a, d, n) ==
  IF n = KeyN /\ d = KeyE /\ \E k \in 0 .. NBlocks - 1 : a = Block(k)
  THEN Plain(CHOOSE k \in 0 .. NBlocks - 1 : a = Block(k))
  ELSE [i \in 0 .. K - 1 |-> Garbage]

Wrapper == INSTANCE Rsa256Wrapper WITH
  rx_ok <- rx # None, tx_ok <- tx = None, rx_data <- rx,
  rsa_finished <- o_finished, rsa_dec <- o_a_pow_d
Core == INSTANCE Decryption WITH
  NoResult <- [i \in 0 .. K - 1 |-> Zero],
  i_start <- wrap.rsa_start, i_a <- wrap.enc, i_d <- wrap.e, i_n <- wrap.n

-----------------------------------------------------------------------------
(* A transfer of the Avalon bus completes in a cycle in which the slave    *)
(* does not stall: reading RX empties it, writing TX fills it.             *)
ReadsRx  == wrap.read /\ wrap.address = "RX" /\ ~avm_waitrequest
WritesTx == wrap.write /\ wrap.address = "TX" /\ ~avm_waitrequest

UartClock ==
  /\ rx' = IF ReadsRx THEN None ELSE rx
  /\ tx' = IF WritesTx THEN wrap.writedata ELSE tx

(* One rising edge of avm_clk. *)
Clock ==
  /\ Wrapper!WrapClock /\ Core!Next /\ UartClock
  /\ avm_waitrequest' \in BOOLEAN
  /\ UNCHANGED <<overrun, sent, file>>

\* Mutant: the host streams its file without waiting for the answers.
MayStream == sent < (2 + NBlocks) * K

(***************************************************************************)
(* The host writes the key and the first block, then each further block    *)
(* only when the K - 1 bytes of the previous answer have been read.        *)
(***************************************************************************)
MaySend ==
  LET blocksReleased == 1 + Len(file) \div (K - 1)
      blocks == IF blocksReleased < NBlocks THEN blocksReleased ELSE NBlocks
  IN  sent < 2 * K + blocks * K

(* A byte arrives in the UART.  A byte takes thousands of clock cycles on  *)
(* the line, a poll a handful, so a wrapper that is polling has always     *)
(* taken the previous byte; a wrapper that is not polling may not have.    *)
HostByteArrives ==
  /\ MaySend
  /\ ~(rx # None /\ wrap.state \in {"IDLE", "GET_KEY", "GET_DATA"})
  /\ rx' = StreamByte(sent)
  /\ overrun' = (overrun \/ rx # None)
  /\ sent' = sent + 1
  /\ UNCHANGED <<wrap, avm_waitrequest, o_a_pow_d, o_finished, busy, tx, file>>

(* The UART has shifted out a byte and the host's read picks it up. *)
HostReceives ==
  /\ tx # None
  /\ tx' = None
  /\ file' = Append(file, tx)
  /\ UNCHANGED <<wrap, avm_waitrequest, o_a_pow_d, o_finished, busy, rx,
                 overrun, sent>>

Init ==
  /\ wrap = Wrapper!WrapReset
  /\ Core!Init
  /\ avm_waitrequest \in BOOLEAN
  /\ rx = None /\ tx = None /\ overrun = FALSE
  /\ sent = 0 /\ file = <<>>

Next == Clock \/ HostByteArrives \/ HostReceives

(***************************************************************************)
(* Fairness: the clock runs and the slave does not stall for ever; the     *)
(* core answers (proved of Rsa256Core by its own run); the line delivers.  *)
(***************************************************************************)
Fairness ==
  /\ WF_vars(Clock /\ ~avm_waitrequest')
  /\ WF_vars(Clock /\ Core!Deliver)
  /\ WF_vars(HostByteArrives)
  /\ WF_vars(HostReceives)

Spec == Init /\ [][Next]_vars
LiveSpec == Spec /\ Fairness

-----------------------------------------------------------------------------
(* What the host has written so far is the plaintext of its blocks, in     *)
(* order, each most significant byte first without the top byte.           *)
FileIsPlaintext ==
  \A j \in 1 .. Len(file) :
    file[j] = Plain((j - 1) \div (K - 1))[K - 2 - ((j - 1) % (K - 1))]

(* The wrapper is never away (calculating, sending) long enough to lose a  *)
(* byte of the host: the host's wait for 31 bytes is the only flow control *)
(* there is.                                                               *)
NoOverrun == ~overrun

(* Avalon: while the slave stalls a transfer, the master holds address,    *)
(* direction and write data.                                               *)
HeldWhileStalled ==
  [][(wrap.read \/ wrap.write) /\ avm_waitrequest =>
       /\ wrap'.read = wrap.read /\ wrap'.write = wrap.write
       /\ wrap'.address = wrap.address
       /\ wrap.write => wrap'.writedata = wrap.writedata]_vars

(* The core reads e and n throughout a calculation and enc at its start:   *)
(* the wrapper does not touch them while the core is busy, and starts the  *)
(* core only when it is idle.                                              *)
OperandsHeld ==
  [][/\ (busy \/ wrap.rsa_start) =>
           <<wrap.enc, wrap.e, wrap.n>>' = <<wrap.enc, wrap.e, wrap.n>>
     /\ wrap.rsa_start => ~busy]_vars

(* The host's loop runs to its end: every block is answered.               *)
HostFinishes == <>(Len(file) = NBlocks * (K - 1))
=============================================================================

--------------------------- MODULE Rsa256Wrapper ----------------------------
(***************************************************************************)
(* Lab 2, Rsa256Wrapper.sv: the Avalon master between the RS-232 UART and  *)
(* the RSA core.  It collects the key (n, then e) byte by byte, then for   *)
(* ever collects a ciphertext block, has it decrypted and sends the        *)
(* plaintext back, polling the UART's status word before every byte.       *)
(*                                                                         *)
(* A 256-bit register is a function from byte positions (0 is the least    *)
(* significant) to bytes; K stands for the 32 bytes of such a register.    *)
(***************************************************************************)
EXTENDS Integers

CONSTANTS K,          \* bytes of a register: 32 in the source
          Zero        \* a cleared byte

VARIABLES wrap,                 \* the wrapper's registers
          avm_waitrequest,      \* Avalon slave not ready in this cycle
          rx_ok, tx_ok,         \* the status word's bits RX_OK and TX_OK
          rx_data,              \* the RX word's byte
          rsa_finished, rsa_dec \* from the core

ByteIndex == 0 .. K - 1
Cleared == [i \in ByteIndex |-> Zero]

\* Mutant: the top byte is sent as well.
WrapResetTopByte ==
  [state |-> "IDLE", n |-> Cleared, e |-> Cleared, enc |-> Cleared,
   dec |-> Cleared, bytes_counter |-> 2 * K - 1, sel |-> 0, rsa_start |-> FALSE,
   address |-> "STATUS", read |-> FALSE, write |-> FALSE, writedata |-> Zero]

WrapReset ==
  [state |-> "IDLE", n |-> Cleared, e |-> Cleared, enc |-> Cleared,
   dec |-> Cleared, bytes_counter |-> 2 * K - 1, sel |-> 1, rsa_start |-> FALSE,
   address |-> "STATUS", read |-> FALSE, write |-> FALSE, writedata |-> Zero]

StartRead(r, addr)  == [r EXCEPT !.read = TRUE, !.write = FALSE, !.address = addr]
StartWrite(r, addr) == [r EXCEPT !.read = FALSE, !.write = TRUE, !.address = addr]
BackToStatus(r) == [r EXCEPT !.address = "STATUS", !.read = FALSE]

Receiving == wrap.state \in {"GET_KEY", "GET_DATA"}
StatusShown == wrap.address = "STATUS" /\ wrap.read /\ ~avm_waitrequest

Idle ==
  /\ wrap.state = "IDLE"
  /\ wrap' = StartRead([WrapReset EXCEPT !.state = "GET_KEY"], "STATUS")

(* Receiving: ask for the status word until it shows RX_OK, then for the   *)
(* byte.                                                                   *)
RaiseRead ==
  /\ Receiving /\ ~wrap.read /\ wrap.address = "STATUS"
  /\ wrap' = [wrap EXCEPT !.read = TRUE]

RxReady ==
  /\ Receiving /\ StatusShown /\ rx_ok
  /\ wrap' = StartRead(wrap, "RX")

RxNotReady ==
  /\ Receiving /\ StatusShown /\ ~rx_ok
  /\ wrap' = [wrap EXCEPT !.read = FALSE]

\* Mutant: the read request is dropped while the slave stalls.
RxWaitDrops ==
  /\ Receiving /\ avm_waitrequest /\ (wrap.address = "STATUS" => wrap.read)
  /\ wrap' = [wrap EXCEPT !.read = FALSE]

RxWait ==
  /\ Receiving /\ avm_waitrequest /\ (wrap.address = "STATUS" => wrap.read)
  /\ wrap' = [wrap EXCEPT !.read = TRUE]

TakeKeyByte ==
  /\ wrap.state = "GET_KEY" /\ wrap.address = "RX" /\ ~avm_waitrequest
  /\ LET c == wrap.bytes_counter
         stored == IF c >= K THEN [wrap EXCEPT !.n[c - K] = rx_data]
                             ELSE [wrap EXCEPT !.e[c] = rx_data]
     IN  wrap' = [BackToStatus(stored) EXCEPT
                    !.bytes_counter = IF c = 0 THEN K - 1 ELSE c - 1,
                    !.state = IF c = 0 THEN "GET_DATA" ELSE @]

TakeDataByte ==
  /\ wrap.state = "GET_DATA" /\ wrap.address = "RX" /\ ~avm_waitrequest
  /\ LET c == wrap.bytes_counter
     IN  wrap' = [BackToStatus(wrap) EXCEPT
                    !.enc[c] = rx_data,
                    !.bytes_counter = IF c = 0 THEN K - 1 ELSE c - 1,
                    !.state = IF c = 0 THEN "WAIT_CALCULATE" ELSE @,
                    !.rsa_start = IF c = 0 THEN TRUE ELSE @]

\* Mutant: the start pulse stays up.
WaitCalculateStarting ==
  /\ wrap.state = "WAIT_CALCULATE" /\ ~rsa_finished
  /\ UNCHANGED wrap

WaitCalculate ==
  /\ wrap.state = "WAIT_CALCULATE" /\ ~rsa_finished
  /\ wrap' = [wrap EXCEPT !.rsa_start = FALSE]

\* Mutant: the answer is not sent.
TakeAnswerOnly ==
  /\ wrap.state = "WAIT_CALCULATE" /\ rsa_finished
  /\ wrap' = [wrap EXCEPT !.rsa_start = FALSE, !.dec = rsa_dec,
                          !.state = "GET_DATA", !.writedata = Zero]

(* The first value put on writedata is the top bits of the answer shifted  *)
(* by one bit (rsa_dec[247+:8]); it is overwritten before any write.       *)
TakeAnswer ==
  /\ wrap.state = "WAIT_CALCULATE" /\ rsa_finished
  /\ wrap' = [wrap EXCEPT !.rsa_start = FALSE, !.dec = rsa_dec,
                          !.state = "SEND_DATA", !.writedata = Zero]

(* Sending: the top byte (sel = 0) is skipped; writedata follows sel.      *)
Shown == [wrap EXCEPT !.writedata = wrap.dec[K - 1 - wrap.sel]]

RaiseReadTx ==
  /\ wrap.state = "SEND_DATA" /\ ~wrap.read /\ ~wrap.write
  /\ wrap' = [Shown EXCEPT !.read = TRUE]

TxReady ==
  /\ wrap.state = "SEND_DATA" /\ StatusShown /\ tx_ok
  /\ wrap' = StartWrite(Shown, "TX")

TxNotReady ==
  /\ wrap.state = "SEND_DATA" /\ StatusShown /\ ~tx_ok
  /\ wrap' = [Shown EXCEPT !.read = FALSE]

TxWait ==
  /\ wrap.state = "SEND_DATA" /\ avm_waitrequest /\ (wrap.read \/ wrap.write)
  /\ wrap' = Shown

ByteSent ==
  /\ wrap.state = "SEND_DATA" /\ wrap.address = "TX" /\ ~avm_waitrequest
  /\ wrap' = [Shown EXCEPT
                !.address = "STATUS", !.write = FALSE,
                !.sel = IF @ = K - 1 THEN 1 ELSE @ + 1,
                !.state = IF wrap.sel = K - 1 THEN "GET_DATA" ELSE @]

WrapClock ==
  \/ Idle \/ RaiseRead \/ RxReady \/ RxNotReady \/ RxWait
  \/ TakeKeyByte \/ TakeDataByte \/ WaitCalculate \/ TakeAnswer
  \/ RaiseReadTx \/ TxReady \/ TxNotReady \/ TxWait \/ ByteSent

=============================================================================

------------------------------- MODULE SdCard -------------------------------
(***************************************************************************)
(* The card in the slot, as the SD library relies on it: a card of version *)
(* 1, of version 2 or of high capacity, which follows the SD protocol's    *)
(* states, refuses a command that its state forbids (it says nothing, and  *)
(* admits the error in its next status), and may be pulled out and put     *)
(* back.  While there is noise on the bus a command can be lost on its way *)
(* to the card, or its answer on the way back; what the host rejects for   *)
(* its CRC, its index or its end bits counts as lost.                      *)
(***************************************************************************)
EXTENDS Naturals

CONSTANTS
    Cards,      \* the cards at hand
    NoCard,     \* the empty slot
    Kind,       \* [Cards -> {"v1", "v2", "hc"}]
    RCAs,       \* the addresses a card may publish, without 0
    BlockSize,  \* 512, scaled
    NBlocks,    \* blocks on a card
    MaxBusy,    \* ACMD41 answers "busy" that many times after a reset
    MaxMoves    \* bound: how often the card is pulled out or put in

ASSUME CardAssumption ==
    /\ Cards # {} /\ NoCard \notin Cards /\ Kind \in [Cards -> {"v1", "v2", "hc"}]
    /\ RCAs # {} /\ RCAs \subseteq Nat \ {0}
    /\ BlockSize \in Nat \ {0, 1} /\ NBlocks \in Nat \ {0}
    /\ MaxBusy \in Nat /\ MaxMoves \in Nat

VARIABLES
    card,   \* the slot: the card in it and that card's registers
    noise,  \* the bus and the contacts are not yet at rest
    moves   \* how often the card was moved

cardVars == <<card, noise, moves>>

Fresh(k) == [id |-> k, st |-> IF k = NoCard THEN "out" ELSE "idle", rca |-> 0,
             app |-> FALSE, vhs |-> FALSE, wide |-> FALSE, err |-> FALSE,
             busy |-> MaxBusy]
Silence == [st |-> "none"]      \* no answer, or none the host accepts
-----------------------------------------------------------------------------
Addressed == {"CMD55", "CMD9", "CMD10", "CMD7"}

\* The states in which the card takes command m.
Legal(c, m) ==
    CASE m.cmd = "CMD0" -> TRUE
      [] m.cmd = "CMD8" -> c.st = "idle" /\ Kind[c.id] # "v1"
      [] m.cmd = "CMD55" -> c.st \in {"idle", "stby", "tran", "data"}
      [] m.cmd = "ACMD41" -> c.st = "idle" /\ c.app
      [] m.cmd = "CMD2" -> c.st = "ready"
      [] m.cmd = "CMD3" -> c.st \in {"ident", "stby"}
      [] m.cmd \in {"CMD9", "CMD10", "CMD7"} -> c.st = "stby"
      [] m.cmd \in {"ACMD6", "ACMD42"} -> c.st = "tran" /\ c.app
      [] m.cmd \in {"CMD16", "CMD17"} -> c.st = "tran"

\* A high-capacity card stays busy for a host that has not announced
\* (CMD8) and claimed (the HCS bit of ACMD41) to know such cards.
Waits(c, m) == c.busy > 0 \/ (Kind[c.id] = "hc" /\ ~(c.vhs /\ m.arg = 1))

BlockAt(c, addr) == IF Kind[c.id] = "hc" THEN addr ELSE addr \div BlockSize
BadAddress(c, addr) ==
    BlockAt(c, addr) >= NBlocks \/ (Kind[c.id] # "hc" /\ addr % BlockSize # 0)

\* The card's registers after a command it takes.
Done(c, m, rca) ==
    LET d == [c EXCEPT !.app = (m.cmd = "CMD55"), !.err = FALSE] IN
    CASE m.cmd = "CMD0" -> Fresh(c.id)
      [] m.cmd = "CMD8" -> [d EXCEPT !.vhs = TRUE]
      [] m.cmd = "ACMD41" -> IF Waits(c, m)
                               THEN [d EXCEPT !.busy = IF @ > 0 THEN @ - 1 ELSE 0]
                               ELSE [d EXCEPT !.st = "ready"]
      [] m.cmd = "CMD2" -> [d EXCEPT !.st = "ident"]
      [] m.cmd = "CMD3" -> [d EXCEPT !.st = "stby", !.rca = rca]
      [] m.cmd = "CMD7" -> [d EXCEPT !.st = "tran"]
      [] m.cmd = "ACMD6" -> [d EXCEPT !.wide = TRUE]
      [] m.cmd = "CMD17" /\ ~BadAddress(c, m.arg) -> [d EXCEPT !.st = "data"]
      [] OTHER -> d

\* The status it answers with: its state and errors before the command.
Answer(c, m, rca) ==
    [st |-> c.st, app |-> m.cmd \in {"CMD55", "ACMD6", "ACMD42"},
     err |-> c.err \/ (m.cmd = "CMD17" /\ BadAddress(c, m.arg)),
     ready |-> m.cmd = "ACMD41" /\ ~Waits(c, m),
     ccs |-> Kind[c.id] = "hc", rca |-> rca]

React(c, m, rca) ==
    IF c.st = "out" \/ (m.cmd \in Addressed /\ m.arg # c.rca)
      THEN [card |-> c, resp |-> Silence]
    ELSE IF ~Legal(c, m)
      THEN [card |-> [c EXCEPT !.err = TRUE, !.app = FALSE], resp |-> Silence]
    ELSE [card |-> Done(c, m, rca),
          resp |-> IF m.cmd = "CMD0" THEN Silence ELSE Answer(c, m, rca)]

\* A block whose answer the host did not want goes out as the clock runs.
Drained(c) == {c} \cup (IF c.st = "data" THEN {[c EXCEPT !.st = "tran"]} ELSE {})

\* What may come of command m, sent now.
Outcomes(m) ==
    UNION {LET r == React(c, m, rca) IN
           {r} \cup IF noise
                      THEN {[card |-> r.card, resp |-> Silence],
                            [card |-> IF c.st = "out" THEN c
                                      ELSE [c EXCEPT !.err = TRUE],
                             resp |-> Silence]}
                      ELSE {}
           : c \in Drained(card), rca \in RCAs}
-----------------------------------------------------------------------------
CardInit ==
    /\ \E k \in Cards \cup {NoCard} : card = Fresh(k)
    /\ noise = TRUE /\ moves = 0

\* The card is pulled out, or a card, the same or another, is put in; both
\* can happen between two commands.
Move ==
    /\ noise /\ moves < MaxMoves
    /\ \E k \in Cards \cup {NoCard} : card' = Fresh(k)
    /\ moves' = moves + 1 /\ UNCHANGED noise

Settle == noise /\ card.st # "out" /\ noise' = FALSE /\ UNCHANGED <<card, moves>>
=============================================================================

------------------------------- MODULE SdLib --------------------------------
(***************************************************************************)
(* The SD library of the karaoke player (terasic_sdcard): SDLIB_Init, a    *)
(* step per command with the checks SD_CMDn makes on the answer, and       *)
(* SDLIB_ReadBlock512.  SD_4BIT_MODE is defined, and in that mode          *)
(* SDHAL_ReadData checks neither the CRC nor the end bit of a block: what  *)
(* the noise makes of a block is delivered (Junk).  SDLIB_WriteBlock512 is *)
(* left out: nothing the player runs writes.                               *)
(***************************************************************************)
EXTENDS SdCard, Sequences

CONSTANT MaxPolls       \* ACMD41 is tried that often within the second

ASSUME PollAssumption == MaxPolls \in Nat /\ MaxPolls > MaxBusy

VARIABLES
    sd,     \* gSdInfo: the HCS bit of HostOCR32, bSDHC, RCA16
    init,   \* SDLIB_Init: the command it is at, or its result
    polls,  \* the rounds of the ACMD41 loop
    moved   \* ghost: the card was moved after the last SDLIB_Init

sdVars == <<sd, init, polls, moved>>

Junk == <<"junk", 0>>   \* a block delivered, but not as it is on the card
Torn == <<"torn", 0>>   \* what a failed transfer leaves in the buffer

ASSUME JunkIsNoCard == Junk[1] \notin Cards /\ Torn[1] \notin Cards

NoInfo == [HCS |-> FALSE, bSDHC |-> FALSE, RCA16 |-> 0]

\* The commands after ACMD41, in their order.
Script == <<"CMD2", "CMD3", "CMD9", "CMD10", "CMD7", "CMD16",
          "CMD55 6", "ACMD6", "CMD55 42", "ACMD42">>
InScript == \E i \in 1 .. Len(Script) : Script[i] = init
ScriptAt == CHOOSE i \in 1 .. Len(Script) : Script[i] = init

Status(r, st, app) == r.st = st /\ r.app = app /\ ~r.err

\* The answers SD_CMDn returns TRUE for, at each step of the tail: while the
\* card is identified, selected, and set to the wide bus.
Identified(step, r) ==
    step \in {"CMD2", "CMD9", "CMD10"} \/ (step = "CMD3" /\ r.st = "ident")
Selected(step, r) ==
    \/ step = "CMD7" /\ Status(r, "stby", FALSE)
    \/ step = "CMD16" /\ Status(r, "tran", FALSE)
Widened(step, r) ==
    /\ step \in {"CMD55 6", "ACMD6", "CMD55 42", "ACMD42"}
    /\ Status(r, "tran", TRUE)

Accepted(step, r) ==
    r # Silence /\ (Identified(step, r) \/ Selected(step, r) \/ Widened(step, r))

ScriptCommand ==
    [cmd |-> CASE init \in {"CMD55 6", "CMD55 42"} -> "CMD55" [] OTHER -> init,
     arg |-> sd.RCA16]
-----------------------------------------------------------------------------
SdInit == sd = NoInfo /\ init = "none" /\ polls = 0 /\ moved = FALSE

\* SDLIB_Init is called.
InitCall == sd' = NoInfo /\ init' = "CMD0" /\ polls' = 0

\* What may come of a command, and its effect on the card.
Replies(cmd, arg) == Outcomes([cmd |-> cmd, arg |-> arg])
Takes(o) == card' = o.card /\ UNCHANGED <<noise, moves, moved>>

InitReset ==
    /\ init \in {"CMD0", "CMD0 again"}
    /\ \E o \in Replies("CMD0", 0) : Takes(o)
    /\ init' = (IF init = "CMD0" THEN "CMD8" ELSE "CMD55")
    /\ UNCHANGED <<sd, polls>>

\* Mutant: no second CMD0 for a card that does not know CMD8.
InitCmd8Once ==
    /\ init = "CMD8"
    /\ \E o \in Replies("CMD8", 0) :
        /\ Takes(o)
        /\ sd' = IF o.resp # Silence THEN [sd EXCEPT !.HCS = TRUE, !.bSDHC = TRUE] ELSE sd
    /\ init' = "CMD55"
    /\ UNCHANGED polls

InitCmd8 ==
    /\ init = "CMD8"
    /\ \E o \in Replies("CMD8", 0) :
        /\ Takes(o)
        /\ IF o.resp # Silence
             THEN init' = "CMD55" /\ sd' = [sd EXCEPT !.HCS = TRUE, !.bSDHC = TRUE]
             ELSE init' = "CMD0 again" /\ UNCHANGED sd
    /\ UNCHANGED polls

InitCmd55 ==
    /\ init = "CMD55"
    /\ \E o \in Replies("CMD55", sd.RCA16) :
        /\ Takes(o)
        /\ init' = IF o.resp # Silence /\ Status(o.resp, "idle", TRUE)
                     THEN "ACMD41" ELSE "failed"
    /\ UNCHANGED <<sd, polls>>

\* Another round of the ACMD41 loop, or its time is up.
PollAgain ==
    /\ init' = IF polls + 1 = MaxPolls THEN "failed" ELSE "CMD55"
    /\ polls' = IF polls + 1 = MaxPolls THEN 0 ELSE polls + 1
    /\ UNCHANGED sd

\* Mutant: a card that knows CMD8 is taken for one of high capacity.
InitAcmd41AnyV2 ==
    /\ init = "ACMD41"
    /\ \E o \in Replies("ACMD41", IF sd.HCS THEN 1 ELSE 0) :
        /\ Takes(o)
        /\ IF o.resp # Silence /\ o.resp.ready
             THEN init' = Script[1] /\ polls' = 0 /\ UNCHANGED sd
             ELSE PollAgain

InitAcmd41 ==
    /\ init = "ACMD41"
    /\ \E o \in Replies("ACMD41", IF sd.HCS THEN 1 ELSE 0) :
        /\ Takes(o)
        /\ IF o.resp # Silence /\ o.resp.ready
             THEN /\ init' = Script[1] /\ polls' = 0
                  /\ sd' = [sd EXCEPT !.bSDHC = @ /\ o.resp.ccs]
             ELSE PollAgain

\* One command of the tail; the last one ends SDLIB_Init.
InitScript ==
    /\ InScript
    /\ \E o \in Outcomes(ScriptCommand) :
        /\ card' = o.card
        /\ IF Accepted(init, o.resp)
             THEN /\ init' = IF ScriptAt = Len(Script) THEN "done" ELSE Script[ScriptAt + 1]
                  /\ sd' = IF init = "CMD3" THEN [sd EXCEPT !.RCA16 = o.resp.rca] ELSE sd
                  /\ moved' = (moved /\ ScriptAt # Len(Script))
             ELSE init' = "failed" /\ UNCHANGED <<sd, moved>>
    /\ UNCHANGED <<noise, moves, polls>>

InitStep == InitReset \/ InitCmd8 \/ InitCmd55 \/ InitAcmd41 \/ InitScript
-----------------------------------------------------------------------------
Address(block) == IF sd.bSDHC THEN block ELSE block * BlockSize

\* SDLIB_ReadBlock512: what it may return for a block, what is in the
\* buffer then, and the card after it.  The block itself is named by the
\* card it comes from and its number there.
ReadBlock512(block) ==
    UNION {IF o.resp # Silence /\ Status(o.resp, "tran", FALSE)
             THEN LET after == [o.card EXCEPT !.st = "tran"] IN
                  (IF card.wide
                     THEN {[ok |-> TRUE, card |-> after,
                            data |-> <<card.id, BlockAt(card, Address(block))>>]}
                     ELSE {[ok |-> FALSE, card |-> o.card, data |-> Torn]})
                  \cup IF noise
                         THEN {[ok |-> TRUE, card |-> after, data |-> Junk],
                               [ok |-> FALSE, card |-> o.card, data |-> Torn]}
                         ELSE {}
             ELSE {[ok |-> FALSE, card |-> o.card, data |-> Torn]}
           : o \in Outcomes([cmd |-> "CMD17", arg |-> Address(block)])}

\* Whatever befell the card while it was initialised - lost commands and
\* answers, another card in the slot - when SDLIB_Init returns TRUE the
\* card and gSdInfo agree: on its state, on the width of the bus, on its
\* address and on what a block address means.
CardAgrees ==
    init = "done" /\ ~moved =>
        /\ card.st \in {"tran", "data"} /\ card.wide
        /\ sd.RCA16 = card.rca
        /\ sd.bSDHC <=> Kind[card.id] = "hc"
=============================================================================

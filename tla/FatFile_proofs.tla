---------------------------- MODULE FatFile_proofs ---------------------------
(***************************************************************************)
(* The karaoke player's way to its card, for every set of cards and every  *)
(* content of theirs: what SDLIB_Init leaves behind when it succeeds is    *)
(* what the card took (CardAgrees); the volume's one sector buffer never   *)
(* holds another sector than the one of its index, nor one of another card *)
(* (CacheHoldsItsSecter); and of cards that are well formatted the player  *)
(* gets the bytes of its files, in order (ImplementsByteStream).           *)
(*                                                                         *)
(* The first two rest on one observation about the protocol: a card that   *)
(* was put in is idle, and leaves that state only through ACMD41.  So from *)
(* ACMD41 on whatever the library has agreed with a card holds of the card *)
(* in the slot, unless that card is idle, and then it answers no command   *)
(* that would show the difference.                                         *)
(*                                                                         *)
(* The third adds what a volume, a handle and a read say of the card that  *)
(* is mounted (RInv): the regions of a sound volume begin where the card   *)
(* has them, the handle of a sound stream is on its file's chain at or     *)
(* before the cluster of its position, and a read has so far the bytes     *)
(* from there on.                                                          *)
(***************************************************************************)
EXTENDS FatFile, Powers_proofs, SequenceTheorems, TLAPS

Slots == Cards \cup {NoCard}
States == {"out", "idle", "ready", "ident", "stby", "tran", "data"}
CardRegisters ==
  [id : Slots, st : States, rca : RCAs \cup {0}, app : BOOLEAN, vhs : BOOLEAN,
   wide : BOOLEAN, err : BOOLEAN, busy : Nat]

Early == {"CMD0", "CMD8", "CMD0 again", "CMD55", "ACMD41"}
Steps == {"CMD2", "CMD3", "CMD9", "CMD10", "CMD7", "CMD16", "CMD55 6", "ACMD6",
         "CMD55 42", "ACMD42"}
Commands == {"CMD0", "CMD8", "CMD55", "ACMD41", "CMD2", "CMD3", "CMD9", "CMD10",
             "CMD7", "CMD16", "ACMD6", "ACMD42", "CMD17"}

(* A card that has left the state a card is put in with.                   *)
Awake(c) == c.st \notin {"out", "idle"}

CardOK ==
  /\ card \in CardRegisters
  /\ card.id = NoCard <=> card.st = "out"

(* What the library knows of the card at each point, unless the card was   *)
(* changed since: then it is idle.                                         *)
SdOK ==
  /\ sd \in [HCS : BOOLEAN, bSDHC : BOOLEAN, RCA16 : RCAs \cup {0}]
  /\ init \in Early \cup Steps \cup {"none", "failed", "done"}
  /\ moved \in BOOLEAN
  /\ init \in Early => (sd.HCS <=> sd.bSDHC)
  /\ phase \in {"mbr", "br"} => init = "done"
  /\ phase \in {"play", "halted"} => init = "none"
  /\ init = "done" /\ ~moved => card.st \in {"tran", "data"}

KnowsCapacity == init \in Steps \cup {"done"} \/ phase = "play"
KnowsAddress == KnowsCapacity /\ init \notin {"CMD2", "CMD3"}
KnowsWidth == init \in {"CMD55 42", "ACMD42", "done"} \/ phase = "play"

Agreed ==
  Awake(card) =>
    /\ KnowsCapacity => (sd.bSDHC <=> Kind[card.id] = "hc")
    /\ KnowsAddress => sd.RCA16 = card.rca
    /\ KnowsWidth => card.wide
    /\ phase = "play" => card.id = vol.card

Phases == {"insert", "mount", "mbr", "br", "play", "halted"}
VolOK ==
  /\ phase \in Phases
  /\ vol \in [type : {0, FAT16, FAT32}, start : Nat, spc : Nat,
              FatEntrySecter : Int, RootDirectoryEntrySecter : Int,
              DataEntrySecter : Int, card : Slots, calm : BOOLEAN, sound : BOOLEAN]
  /\ phase = "play" => vol.card \in Cards

FileInfo == [IsOpened : BOOLEAN, SeekPos : Nat, Cluster : Nat, ClusterSeq : Nat,
             first : Nat, size : Nat, failed : BOOLEAN, sound : BOOLEAN]

BrowseOp ==
  /\ op.step = "browse"
  /\ op = [step |-> "browse", f |-> op.f, i |-> op.i, order |-> op.order,
           long |-> op.long, name |-> op.name]
  /\ op.f \in Files /\ op.i \in Nat
ReadOp ==
  /\ op.step \in {"walk", "secters", "end"}
  /\ DOMAIN op = {"f", "n", "nread", "out", "ok", "s", "pos", "step"}
  /\ op.f \in Files /\ op.n \in Nat /\ op.s \in Nat /\ op.ok \in BOOLEAN

CallOK ==
  /\ file \in [Files -> FileInfo]
  /\ op = Idle \/ BrowseOp \/ ReadOp
  /\ phase # "play" => op = Idle

CacheOK ==
  /\ cache = [index |-> cache.index, data |-> cache.data]
  /\ cache.index # -1 => cache.data \in {<<vol.card, cache.index>>, Junk}
  /\ phase # "play" => cache.index = -1

IInv == CardOK /\ SdOK /\ Agreed /\ VolOK /\ CallOK /\ CacheOK

-----------------------------------------------------------------------------
(* A card after a command it takes: it is the same card, keeps its address *)
(* but for CMD0 and CMD3 and its bus but for CMD0, and only ACMD41 wakes   *)
(* it.                                                                     *)
LEMMA DoneEffect ==
  ASSUME NEW c \in CardRegisters, c.st # "out", NEW m, m.cmd \in Commands,
         NEW rca \in RCAs, Legal(c, m)
  PROVE  LET d == Done(c, m, rca) IN
         /\ d \in CardRegisters
         /\ d.id = c.id /\ (c.id # NoCard => d.st # "out")
         /\ m.cmd # "CMD0" /\ c.wide => d.wide
         /\ m.cmd \notin {"CMD0", "CMD3"} => d.rca = c.rca
         /\ m.cmd # "ACMD41" /\ Awake(d) => Awake(c)
         /\ m.cmd = "CMD17" => d.st \in {"tran", "data"}
<1> USE DEF CardRegisters, Awake, States
<1>0. c.rca \in RCAs \cup {0} /\ c.id \in Slots /\ c.busy \in Nat /\ c.vhs \in BOOLEAN
      /\ c.wide \in BOOLEAN /\ c.st \in States
  OBVIOUS
<1> DEFINE e == [c EXCEPT !.app = (m.cmd = "CMD55"), !.err = FALSE]
<1>1. /\ e \in CardRegisters /\ e.id = c.id /\ e.st = c.st /\ e.rca = c.rca
      /\ e.wide = c.wide /\ e.vhs = c.vhs /\ e.busy = c.busy
  <2>1. (m.cmd = "CMD55") \in BOOLEAN
    OBVIOUS
  <2> QED BY <2>1
<1>2. CASE m.cmd = "CMD0"
  <2>1. Done(c, m, rca) = Fresh(c.id)
    BY <1>2 DEF Done
  <2>2. Fresh(c.id) \in CardRegisters /\ Fresh(c.id).id = c.id
        /\ Fresh(c.id).st \in {"out", "idle"}
        /\ (c.id # NoCard => Fresh(c.id).st = "idle")
    BY <1>0, CardAssumption DEF Fresh
  <2> HIDE DEF e
  <2> QED BY <1>2, <2>1, <2>2
<1> HIDE DEF e
<1>3. CASE m.cmd = "CMD8"
  <2>1. Done(c, m, rca) = [e EXCEPT !.vhs = TRUE]
    BY <1>3 DEF Done, e
  <2> QED BY <1>1, <1>3, <2>1
<1>4. CASE m.cmd = "ACMD41"
  <2>1. Done(c, m, rca) = IF Waits(c, m)
                            THEN [e EXCEPT !.busy = IF @ > 0 THEN @ - 1 ELSE 0]
                            ELSE [e EXCEPT !.st = "ready"]
    BY <1>4 DEF Done, e
  <2>2. (IF e.busy > 0 THEN e.busy - 1 ELSE 0) \in Nat
    BY <1>0, <1>1
  <2> DEFINE less == IF e.busy > 0 THEN e.busy - 1 ELSE 0
  <2>3. [e EXCEPT !.busy = IF @ > 0 THEN @ - 1 ELSE 0] = [e EXCEPT !.busy = less]
    OBVIOUS
  <2>4. less \in Nat
    BY <2>2
  <2> HIDE DEF less
  <2> QED BY <1>1, <1>4, <2>1, <2>3, <2>4
<1>5. CASE m.cmd = "CMD2"
  <2>1. Done(c, m, rca) = [e EXCEPT !.st = "ident"] /\ c.st = "ready"
    BY <1>5 DEF Done, e, Legal
  <2> QED BY <1>1, <1>5, <2>1
<1>6. CASE m.cmd = "CMD3"
  <2>1. Done(c, m, rca) = [e EXCEPT !.st = "stby", !.rca = rca]
        /\ c.st \in {"ident", "stby"}
    BY <1>6 DEF Done, e, Legal
  <2> QED BY <1>1, <1>6, <2>1
<1>7. CASE m.cmd = "CMD7"
  <2>1. Done(c, m, rca) = [e EXCEPT !.st = "tran"] /\ c.st = "stby"
    BY <1>7 DEF Done, e, Legal
  <2> QED BY <1>1, <1>7, <2>1
<1>8. CASE m.cmd = "ACMD6"
  <2>1. Done(c, m, rca) = [e EXCEPT !.wide = TRUE]
    BY <1>8 DEF Done, e
  <2> QED BY <1>1, <1>8, <2>1
<1>9. CASE m.cmd = "CMD17"
  <2>1. (Done(c, m, rca) = [e EXCEPT !.st = "data"] \/ Done(c, m, rca) = e)
        /\ c.st = "tran"
    BY <1>9 DEF Done, e, Legal
  <2> QED BY <1>1, <1>9, <2>1
<1>10. CASE m.cmd \in {"CMD55", "CMD9", "CMD10", "CMD16", "ACMD42"}
  <2>1. Done(c, m, rca) = e
    BY <1>10 DEF Done, e
  <2> QED BY <1>1, <1>10, <2>1
<1> QED
  BY <1>2, <1>3, <1>4, <1>5, <1>6, <1>7, <1>8, <1>9, <1>10 DEF Commands

(* What may come of a command, whatever the noise does: the card stays the *)
(* same card, and an answer that reaches the host is that of a card that   *)
(* took the command.                                                       *)
LEMMA OutcomeEffect ==
  ASSUME CardOK, NEW m, m.cmd \in Commands, NEW o \in Outcomes(m)
  PROVE  /\ o.card \in CardRegisters
         /\ o.card.id = card.id /\ (o.card.id = NoCard <=> o.card.st = "out")
         /\ m.cmd # "CMD0" /\ card.wide => o.card.wide
         /\ m.cmd \notin {"CMD0", "CMD3"} => o.card.rca = card.rca
         /\ m.cmd # "ACMD41" /\ Awake(o.card) => Awake(card)
         /\ m.cmd = "CMD17" /\ card.st \in {"tran", "data"} =>
              o.card.st \in {"tran", "data"}
         /\ o.resp # Silence =>
              \E c \in Drained(card), rca \in RCAs :
                /\ c \in CardRegisters /\ c.st # "out" /\ Legal(c, m)
                /\ c.id = card.id /\ (c.wide <=> card.wide)
                /\ m.cmd # "CMD0"
                /\ o.card = Done(c, m, rca) /\ o.resp = Answer(c, m, rca)
<1>1. PICK c \in Drained(card), rca \in RCAs :
        LET r == React(c, m, rca) IN
        o \in {r} \cup IF noise
                         THEN {[card |-> r.card, resp |-> Silence],
                               [card |-> IF c.st = "out" THEN c
                                         ELSE [c EXCEPT !.err = TRUE],
                                resp |-> Silence]}
                         ELSE {}
  BY DEF Outcomes
<1>2. /\ c \in CardRegisters /\ c.id = card.id /\ c.rca = card.rca
      /\ (c.wide <=> card.wide) /\ (c.id = NoCard <=> c.st = "out")
      /\ (Awake(c) => Awake(card))
      /\ (card.st \in {"tran", "data"} => c.st \in {"tran", "data"})
  <2>1. card \in CardRegisters /\ (card.id = NoCard <=> card.st = "out")
    BY DEF CardOK
  <2>2. c = card \/ (card.st = "data" /\ c = [card EXCEPT !.st = "tran"])
    BY DEF Drained
  <2> QED BY <2>1, <2>2 DEF CardRegisters, States, Awake
<1> DEFINE Fine(d) ==
             /\ d \in CardRegisters
             /\ d.id = c.id /\ (d.id = NoCard <=> d.st = "out")
             /\ m.cmd # "CMD0" /\ c.wide => d.wide
             /\ m.cmd \notin {"CMD0", "CMD3"} => d.rca = c.rca
             /\ m.cmd # "ACMD41" /\ Awake(d) => Awake(c)
             /\ m.cmd = "CMD17" /\ c.st \in {"tran", "data"} => d.st \in {"tran", "data"}
           r == React(c, m, rca)
<1>3. Fine(c) /\ (c.st # "out" => Fine([c EXCEPT !.err = TRUE])
                                  /\ Fine([c EXCEPT !.err = TRUE, !.app = FALSE]))
  BY <1>2 DEF CardRegisters, Awake
<1>4. c.st # "out" /\ Legal(c, m) => Fine(Done(c, m, rca))
  <2> SUFFICES ASSUME c.st # "out", Legal(c, m) PROVE Fine(Done(c, m, rca))
    OBVIOUS
  <2> DEFINE d == Done(c, m, rca)
  <2>1. /\ d \in CardRegisters
        /\ d.id = c.id /\ (c.id # NoCard => d.st # "out")
        /\ m.cmd # "CMD0" /\ c.wide => d.wide
        /\ m.cmd \notin {"CMD0", "CMD3"} => d.rca = c.rca
        /\ m.cmd # "ACMD41" /\ Awake(d) => Awake(c)
        /\ m.cmd = "CMD17" => d.st \in {"tran", "data"}
    BY <1>2, DoneEffect
  <2> HIDE DEF d
  <2>2. Fine(d)
    BY <1>2, <2>1
  <2> QED BY <2>2 DEF d
<1> HIDE DEF Fine
<1>5. \/ r = [card |-> c, resp |-> Silence]
      \/ /\ c.st # "out"
         /\ r = [card |-> [c EXCEPT !.err = TRUE, !.app = FALSE], resp |-> Silence]
      \/ /\ c.st # "out" /\ Legal(c, m) /\ r.card = Done(c, m, rca)
         /\ r.resp = IF m.cmd = "CMD0" THEN Silence ELSE Answer(c, m, rca)
  BY DEF React
<1>6. Fine(r.card)
  BY <1>3, <1>4, <1>5
<1>7. o = r \/ (o.resp = Silence /\ (o.card = r.card \/ o.card = c
             \/ (c.st # "out" /\ o.card = [c EXCEPT !.err = TRUE])))
  <2> DEFINE lost == [card |-> r.card, resp |-> Silence]
             hurt == IF c.st = "out" THEN c ELSE [c EXCEPT !.err = TRUE]
             ignored == [card |-> hurt, resp |-> Silence]
  <2>1. o \in {r} \cup IF noise THEN {lost, ignored} ELSE {}
    BY <1>1
  <2>2. lost.resp = Silence /\ lost.card = r.card
        /\ ignored.resp = Silence /\ ignored.card = hurt
    OBVIOUS
  <2>3. hurt = c \/ (c.st # "out" /\ hurt = [c EXCEPT !.err = TRUE])
    OBVIOUS
  <2> HIDE DEF r, lost, ignored, hurt
  <2>4. o = r \/ o = lost \/ o = ignored
    BY <2>1
  <2> QED BY <2>2, <2>3, <2>4
<1>8. Fine(o.card)
  <2> HIDE DEF r
  <2> QED BY <1>3, <1>6, <1>7
<1>9. ASSUME o.resp # Silence
      PROVE  /\ c.st # "out" /\ Legal(c, m) /\ m.cmd # "CMD0"
             /\ o.card = Done(c, m, rca) /\ o.resp = Answer(c, m, rca)
  <2>1. o = r
    BY <1>7, <1>9
  <2> HIDE DEF r
  <2> QED BY <1>5, <1>9, <2>1
<1>10. o.resp # Silence =>
         \E x \in Drained(card), y \in RCAs :
           /\ x \in CardRegisters /\ x.st # "out" /\ Legal(x, m)
           /\ x.id = card.id /\ (x.wide <=> card.wide)
           /\ m.cmd # "CMD0"
           /\ o.card = Done(x, m, y) /\ o.resp = Answer(x, m, y)
  BY <1>2, <1>9
<1> QED
  BY <1>2, <1>8, <1>10 DEF Fine

-----------------------------------------------------------------------------
(* Block n is block n on the card, once host and card agree on the meaning *)
(* of an address.                                                          *)
LEMMA SameBlock ==
  ASSUME NEW n \in Int, sd.bSDHC <=> Kind[card.id] = "hc"
  PROVE  BlockAt(card, Address(n)) = n
<1>1. CASE Kind[card.id] = "hc"
  BY <1>1 DEF BlockAt, Address
<1>2. CASE Kind[card.id] # "hc"
  <2>1. BlockAt(card, Address(n)) = (n * BlockSize) \div BlockSize
    BY <1>2 DEF BlockAt, Address
  <2>2. (n * BlockSize) \div BlockSize = n
    <3>1. BlockSize \in Nat \ {0}
      BY CardAssumption
    <3>2. ASSUME NEW m \in Nat \ {0} PROVE (n * m) \div m = n
      <4> DEFINE x == n * m
                 q == x \div m
      <4>1. x \in Int /\ q \in Int /\ x % m \in 0 .. m - 1 /\ x = m * q + (x % m)
        <5>1. x \in Int
          OBVIOUS
        <5>2. \A y \in Int : y \div m \in Int
          OBVIOUS
        <5>3. \A y \in Int : y % m \in 0 .. m - 1
          OBVIOUS
        <5>4. \A y \in Int : y = m * (y \div m) + (y % m)
          OBVIOUS
        <5> HIDE DEF x
        <5> QED BY <5>1, <5>2, <5>3, <5>4
      <4>2. x = m * n
        OBVIOUS
      <4> DEFINE k == x % m
      <4>3. m * n = m * q + k /\ k \in 0 .. m - 1
        BY <4>1, <4>2
      <4> HIDE DEF k, q, x
      <4>4. ASSUME q < n PROVE FALSE
        <5>1. m * (q + 1) <= m * n
          BY <4>1, <4>4
        <5>2. m * (q + 1) = m * q + m
          BY <4>1
        <5>3. m * q \in Int /\ m * n \in Int
          BY <4>1
        <5> QED BY <4>3, <5>1, <5>2, <5>3
      <4>5. ASSUME q > n PROVE FALSE
        <5>1. m * (n + 1) <= m * q
          BY <4>1, <4>5
        <5>2. m * (n + 1) = m * n + m
          OBVIOUS
        <5>3. m * q \in Int /\ m * n \in Int
          BY <4>1
        <5> QED BY <4>3, <5>1, <5>2, <5>3
      <4> QED BY <4>1, <4>4, <4>5 DEF q, x
    <3> QED BY <3>1, <3>2
  <2> QED BY <2>1, <2>2
<1> QED
  BY <1>1, <1>2

(* SDLIB_ReadBlock512: a block comes from the card in the slot, and that   *)
(* card is awake; which card it is, its address and its bus stay.          *)
LEMMA ReadBlockEffect ==
  ASSUME CardOK, NEW n, NEW r \in ReadBlock512(n)
  PROVE  /\ r.card \in CardRegisters /\ r.card.id = card.id
         /\ r.card.id = NoCard <=> r.card.st = "out"
         /\ card.wide => r.card.wide
         /\ r.card.rca = card.rca
         /\ Awake(r.card) => Awake(card)
         /\ card.st \in {"tran", "data"} => r.card.st \in {"tran", "data"}
         /\ r = [ok |-> r.ok, card |-> r.card, data |-> r.data]
         /\ r.ok \in BOOLEAN
         /\ r.ok => /\ Awake(card) /\ card.id \in Cards
                    /\ r.data \in {<<card.id, BlockAt(card, Address(n))>>, Junk}
<1> DEFINE m == [cmd |-> "CMD17", arg |-> Address(n)]
<1>1. m.cmd = "CMD17" /\ m.cmd \in Commands
  BY DEF Commands
<1>2. PICK o \in Outcomes(m) :
        r \in IF o.resp # Silence /\ Status(o.resp, "tran", FALSE)
                THEN LET after == [o.card EXCEPT !.st = "tran"] IN
                     (IF card.wide
                        THEN {[ok |-> TRUE, card |-> after,
                               data |-> <<card.id, BlockAt(card, Address(n))>>]}
                        ELSE {[ok |-> FALSE, card |-> o.card, data |-> Torn]})
                     \cup IF noise
                            THEN {[ok |-> TRUE, card |-> after, data |-> Junk],
                                  [ok |-> FALSE, card |-> o.card, data |-> Torn]}
                            ELSE {}
                ELSE {[ok |-> FALSE, card |-> o.card, data |-> Torn]}
  BY DEF ReadBlock512
<1> HIDE DEF m
<1>3. /\ o.card \in CardRegisters /\ o.card.id = card.id
      /\ o.card.id = NoCard <=> o.card.st = "out"
      /\ card.wide => o.card.wide
      /\ o.card.rca = card.rca
      /\ Awake(o.card) => Awake(card)
      /\ card.st \in {"tran", "data"} => o.card.st \in {"tran", "data"}
  BY <1>1, OutcomeEffect
<1>4. ASSUME o.resp # Silence, Status(o.resp, "tran", FALSE)
      PROVE  Awake(card) /\ card.id \in Cards
             /\ [o.card EXCEPT !.st = "tran"] \in CardRegisters
  <2>1. PICK c \in Drained(card), rca \in RCAs :
          c \in CardRegisters /\ o.resp = Answer(c, m, rca) /\ Legal(c, m)
    BY <1>1, <1>4, OutcomeEffect
  <2>2. c.st = "tran"
    BY <1>1, <2>1 DEF Legal
  <2>3. card.st \in {"tran", "data"}
    BY <2>2 DEF Drained
  <2>4. Awake(card) /\ card.id \in Cards
    BY <2>3 DEF Awake, CardOK, CardRegisters, Slots
  <2>5. [o.card EXCEPT !.st = "tran"] \in CardRegisters
    BY <1>3 DEF CardRegisters, States
  <2> QED BY <2>4, <2>5
<1> DEFINE after == [o.card EXCEPT !.st = "tran"]
           block == <<card.id, BlockAt(card, Address(n))>>
<1>5. \/ r = [ok |-> FALSE, card |-> o.card, data |-> Torn]
      \/ /\ o.resp # Silence /\ Status(o.resp, "tran", FALSE)
         /\ \E d \in {block, Junk} : r = [ok |-> TRUE, card |-> after, data |-> d]
  <2> DEFINE failed == [ok |-> FALSE, card |-> o.card, data |-> Torn]
             got(d) == [ok |-> TRUE, card |-> after, data |-> d]
  <2>1. r \in IF o.resp # Silence /\ Status(o.resp, "tran", FALSE)
                THEN (IF card.wide THEN {got(block)} ELSE {failed})
                     \cup IF noise THEN {got(Junk), failed} ELSE {}
                ELSE {failed}
    BY <1>2
  <2> HIDE DEF failed, got, block, after
  <2>2. r = failed \/ (o.resp # Silence /\ Status(o.resp, "tran", FALSE)
                       /\ (r = got(block) \/ r = got(Junk)))
    BY <2>1
  <2> QED BY <2>2 DEF failed, got
<1>6. CASE r = [ok |-> FALSE, card |-> o.card, data |-> Torn]
  BY <1>3, <1>6
<1>7. CASE /\ o.resp # Silence /\ Status(o.resp, "tran", FALSE)
           /\ \E d \in {block, Junk} : r = [ok |-> TRUE, card |-> after, data |-> d]
  <2>1. PICK d \in {block, Junk} : r = [ok |-> TRUE, card |-> after, data |-> d]
    BY <1>7
  <2>2. Awake(card) /\ card.id \in Cards /\ after \in CardRegisters
    BY <1>4, <1>7
  <2>3. card.id # NoCard
    BY <2>2, CardAssumption
  <2>4. /\ after.id = o.card.id /\ after.st = "tran" /\ after.rca = o.card.rca
        /\ after.wide = o.card.wide
    BY <1>3 DEF CardRegisters
  <2> HIDE DEF after, block
  <2>5. r.card = after /\ r.ok = TRUE /\ r.data = d
        /\ r = [ok |-> r.ok, card |-> r.card, data |-> r.data]
    BY <2>1
  <2>6. r.data \in {<<card.id, BlockAt(card, Address(n))>>, Junk}
    BY <2>5 DEF block
  <2> QED BY <1>3, <2>2, <2>3, <2>4, <2>5, <2>6
<1> QED
  BY <1>5, <1>6, <1>7

-----------------------------------------------------------------------------
(* The commands after ACMD41 in their order.                               *)
LEMMA ScriptOrder ==
  ASSUME InScript
  PROVE  LET next == Script[ScriptAt + 1] IN
         /\ init \in Steps
         /\ ScriptAt = Len(Script) <=> init = "ACMD42"
         /\ init # "ACMD42" =>
              /\ next \in Steps \ {"CMD2"}
              /\ next = "CMD3" => init = "CMD2"
              /\ next = "CMD9" => init = "CMD3"
              /\ init \in {"CMD2", "CMD3"} => next \in {"CMD3", "CMD9"}
              /\ next \in {"CMD55 42", "ACMD42"} => init \in {"ACMD6", "CMD55 42"}
<1>1. Len(Script) = 10
  BY DEF Script
<1>2. /\ Script[1] = "CMD2" /\ Script[2] = "CMD3" /\ Script[3] = "CMD9"
      /\ Script[4] = "CMD10" /\ Script[5] = "CMD7" /\ Script[6] = "CMD16"
      /\ Script[7] = "CMD55 6" /\ Script[8] = "ACMD6"
      /\ Script[9] = "CMD55 42" /\ Script[10] = "ACMD42"
  BY DEF Script
<1>3. ScriptAt \in 1 .. 10 /\ Script[ScriptAt] = init
  <2>1. \E i \in 1 .. 10 : Script[i] = init
    BY <1>1 DEF InScript
  <2>2. ScriptAt = CHOOSE i \in 1 .. 10 : Script[i] = init
    BY <1>1 DEF ScriptAt
  <2> QED BY <2>1, <2>2
<1>4. ScriptAt \in {1, 2, 3, 4, 5, 6, 7, 8, 9, 10}
  BY <1>3
<1> DEFINE i == ScriptAt
           next == Script[i + 1]
           At(now, then) == init = now /\ next = then /\ i # 10
<1>5. /\ 1 + 1 = 2 /\ 2 + 1 = 3 /\ 3 + 1 = 4 /\ 4 + 1 = 5 /\ 5 + 1 = 6
      /\ 6 + 1 = 7 /\ 7 + 1 = 8 /\ 8 + 1 = 9 /\ 9 + 1 = 10
  OBVIOUS
<1> HIDE DEF Script, ScriptAt
<1>6. \/ At("CMD2", "CMD3") \/ At("CMD3", "CMD9") \/ At("CMD9", "CMD10")
      \/ At("CMD10", "CMD7") \/ At("CMD7", "CMD16")
      \/ At("CMD16", "CMD55 6") \/ At("CMD55 6", "ACMD6")
      \/ At("ACMD6", "CMD55 42") \/ At("CMD55 42", "ACMD42")
      \/ (init = "ACMD42" /\ i = 10)
  <2> HIDE DEF i
  <2>1. i \in {1, 2, 3, 4, 5, 6, 7, 8, 9, 10} /\ Script[i] = init
    BY <1>3, <1>4 DEF i
  <2>2. CASE i = 1
    BY <1>2, <1>5, <2>1, <2>2
  <2>3. CASE i = 2
    BY <1>2, <1>5, <2>1, <2>3
  <2>4. CASE i = 3
    BY <1>2, <1>5, <2>1, <2>4
  <2>5. CASE i = 4
    BY <1>2, <1>5, <2>1, <2>5
  <2>6. CASE i = 5
    BY <1>2, <1>5, <2>1, <2>6
  <2>7. CASE i = 6
    BY <1>2, <1>5, <2>1, <2>7
  <2>8. CASE i = 7
    BY <1>2, <1>5, <2>1, <2>8
  <2>9. CASE i = 8
    BY <1>2, <1>5, <2>1, <2>9
  <2>10. CASE i = 9
    BY <1>2, <1>5, <2>1, <2>10
  <2>11. CASE i = 10
    BY <1>2, <1>5, <2>1, <2>11
  <2> QED
    BY <2>1, <2>2, <2>3, <2>4, <2>5, <2>6, <2>7, <2>8, <2>9, <2>10, <2>11
<1> HIDE DEF i, next
<1>7. /\ init \in Steps
      /\ i = 10 <=> init = "ACMD42"
      /\ init # "ACMD42" =>
           /\ next \in Steps \ {"CMD2"}
           /\ next = "CMD3" => init = "CMD2"
           /\ next = "CMD9" => init = "CMD3"
           /\ init \in {"CMD2", "CMD3"} => next \in {"CMD3", "CMD9"}
           /\ next \in {"CMD55 42", "ACMD42"} => init \in {"ACMD6", "CMD55 42"}
  BY <1>6 DEF Steps
<1> QED
  BY <1>1, <1>7 DEF i, next

(* An accepted command of the tail was taken by the card in the slot, and  *)
(* the card is what the library takes it for afterwards.                   *)
LEMMA ScriptEffect ==
  ASSUME CardOK, SdOK, InScript, NEW o \in Outcomes(ScriptCommand)
  PROVE  /\ o.card \in CardRegisters /\ o.card.id = card.id
         /\ o.card.id = NoCard <=> o.card.st = "out"
         /\ card.wide => o.card.wide
         /\ init # "CMD3" => o.card.rca = card.rca
         /\ Awake(o.card) => Awake(card)
         /\ Accepted(init, o.resp) =>
              /\ init = "CMD3" => /\ o.resp.rca = o.card.rca
                                  /\ o.resp.rca \in RCAs
              /\ init = "ACMD6" => o.card.wide
              /\ init = "ACMD42" => o.card.st = "tran" /\ ~o.card.err
<1> DEFINE m == ScriptCommand
<1>1. init \in Steps
  BY ScriptOrder
<1>2. m.cmd = (IF init \in {"CMD55 6", "CMD55 42"} THEN "CMD55" ELSE init)
  BY DEF ScriptCommand
<1>3. /\ m.cmd \in Commands /\ m.cmd \notin {"CMD0", "ACMD41"}
      /\ m.cmd = "CMD3" => init = "CMD3"
  BY <1>1, <1>2 DEF Steps, Commands
<1> HIDE DEF m
<1>4. o \in Outcomes(m)
  BY DEF m
<1>5. /\ o.card \in CardRegisters /\ o.card.id = card.id
      /\ o.card.id = NoCard <=> o.card.st = "out"
      /\ card.wide => o.card.wide
      /\ init # "CMD3" => o.card.rca = card.rca
      /\ Awake(o.card) => Awake(card)
  BY <1>3, <1>4, OutcomeEffect
<1>6. ASSUME Accepted(init, o.resp)
      PROVE  /\ init = "CMD3" => o.resp.rca = o.card.rca /\ o.resp.rca \in RCAs
             /\ init = "ACMD6" => o.card.wide
             /\ init = "ACMD42" => o.card.st = "tran" /\ ~o.card.err
  <2>1. o.resp # Silence
    BY <1>6 DEF Accepted
  <2>2. PICK c \in Drained(card), rca \in RCAs :
          /\ c \in CardRegisters /\ o.card = Done(c, m, rca)
          /\ o.resp = Answer(c, m, rca)
    BY <1>3, <1>4, <2>1, OutcomeEffect
  <2> DEFINE e == [c EXCEPT !.app = (m.cmd = "CMD55"), !.err = FALSE]
  <2>3. ASSUME init = "CMD3"
        PROVE  o.resp.rca = o.card.rca /\ o.resp.rca \in RCAs
    <3>1. o.card = [e EXCEPT !.st = "stby", !.rca = rca]
      BY <1>2, <2>2, <2>3 DEF Done
    <3>2. o.card.rca = rca
      BY <2>2, <3>1 DEF CardRegisters
    <3> QED BY <2>2, <3>2 DEF Answer
  <2>4. ASSUME init = "ACMD6" PROVE o.card.wide
    <3>1. o.card = [e EXCEPT !.wide = TRUE]
      BY <1>2, <2>2, <2>4 DEF Done
    <3> QED BY <2>2, <3>1 DEF CardRegisters
  <2>5. ASSUME init = "ACMD42" PROVE o.card.st = "tran" /\ ~o.card.err
    <3>1. o.card = e
      BY <1>2, <2>2, <2>5 DEF Done
    <3>2. Status(o.resp, "tran", TRUE)
      BY <1>6, <2>5 DEF Accepted, Identified, Selected, Widened
    <3>3. c.st = "tran"
      BY <2>2, <3>2 DEF Status, Answer
    <3> QED BY <2>2, <3>1, <3>3 DEF CardRegisters
  <2> QED BY <2>3, <2>4, <2>5
<1> QED
  BY <1>5, <1>6

(* A step of SDLIB_Init keeps what the library knows.                      *)
LEMMA InitKeeps ==
  ASSUME CardOK, SdOK, Agreed, phase \in Phases, InitStep, UNCHANGED fatVars
  PROVE  CardOK' /\ SdOK' /\ Agreed'
<1>1. /\ sd \in [HCS : BOOLEAN, bSDHC : BOOLEAN, RCA16 : RCAs \cup {0}]
      /\ init \in Early => (sd.HCS <=> sd.bSDHC)
      /\ moved \in BOOLEAN
      /\ phase \in {"mbr", "br"} => init = "done"
      /\ phase \in {"play", "halted"} => init = "none"
  BY DEF SdOK
<1>2. phase' = phase /\ vol' = vol
  BY DEF fatVars
<1>3. /\ sd.HCS \in BOOLEAN /\ sd.bSDHC \in BOOLEAN /\ sd.RCA16 \in RCAs \cup {0}
  BY <1>1
<1>4. ASSUME init \in Early, NEW m, m.cmd \in Commands,
             \E o \in Outcomes(m) : card' = o.card
      PROVE  CardOK'
  BY <1>4, OutcomeEffect DEF CardOK
<1>5. ASSUME init \in Early, init' \in Early \cup {"failed"}, CardOK',
             sd' = sd \/ (sd' \in [HCS : BOOLEAN, bSDHC : BOOLEAN, RCA16 : RCAs \cup {0}]
                          /\ sd'.HCS = sd'.bSDHC), moved' = moved
      PROVE  CardOK' /\ SdOK' /\ Agreed'
  <2>1. phase \notin {"mbr", "br", "play", "halted"}
    BY <1>1, <1>5 DEF Early
  <2>2. SdOK'
    BY <1>1, <1>2, <1>5, <2>1 DEF SdOK, Early
  <2>3. ~KnowsCapacity' /\ ~KnowsAddress' /\ ~KnowsWidth' /\ phase' # "play"
    BY <1>2, <1>5, <2>1 DEF KnowsCapacity, KnowsAddress, KnowsWidth, Early, Steps
  <2> QED BY <1>5, <2>2, <2>3 DEF Agreed
<1>6. CASE InitReset
  <2>1. \E o \in Outcomes([cmd |-> "CMD0", arg |-> 0]) : card' = o.card
    BY <1>6 DEF InitReset, Replies, Takes
  <2>2. init \in Early /\ init' \in Early /\ sd' = sd /\ moved' = moved
    BY <1>6 DEF InitReset, Takes, Early
  <2>3. CardOK'
    BY <1>4, <2>1, <2>2 DEF Commands
  <2> QED BY <1>5, <2>2, <2>3
<1>7. CASE InitCmd8
  <2>1. \E o \in Outcomes([cmd |-> "CMD8", arg |-> 0]) : card' = o.card
    BY <1>7 DEF InitCmd8, Replies, Takes
  <2>2. init \in Early /\ init' \in Early /\ moved' = moved
    BY <1>7 DEF InitCmd8, Takes, Early
  <2>3. sd' = sd \/ sd' = [sd EXCEPT !.HCS = TRUE, !.bSDHC = TRUE]
    BY <1>7 DEF InitCmd8
  <2>4. CardOK'
    BY <1>4, <2>1, <2>2 DEF Commands
  <2>5. sd' = sd \/ (sd' \in [HCS : BOOLEAN, bSDHC : BOOLEAN, RCA16 : RCAs \cup {0}]
                     /\ sd'.HCS = sd'.bSDHC)
    BY <1>1, <2>3
  <2> QED BY <1>5, <2>2, <2>4, <2>5
<1>8. CASE InitCmd55
  <2>1. \E o \in Outcomes([cmd |-> "CMD55", arg |-> sd.RCA16]) : card' = o.card
    BY <1>8 DEF InitCmd55, Replies, Takes
  <2>2. init \in Early /\ init' \in Early \cup {"failed"} /\ sd' = sd /\ moved' = moved
    BY <1>8 DEF InitCmd55, Takes, Early
  <2>3. CardOK'
    BY <1>4, <2>1, <2>2 DEF Commands
  <2> QED BY <1>5, <2>2, <2>3
<1>9. CASE InitAcmd41
  <2> DEFINE m == [cmd |-> "ACMD41", arg |-> IF sd.HCS THEN 1 ELSE 0]
  <2>1. PICK o \in Outcomes(m) :
          /\ card' = o.card /\ moved' = moved
          /\ IF o.resp # Silence /\ o.resp.ready
               THEN /\ init' = Script[1]
                    /\ sd' = [sd EXCEPT !.bSDHC = @ /\ o.resp.ccs]
               ELSE PollAgain
    BY <1>9 DEF InitAcmd41, Replies, Takes
  <2>2. init = "ACMD41" /\ init \in Early
    BY <1>9 DEF InitAcmd41, Early
  <2>3. m.cmd = "ACMD41" /\ m.cmd \in Commands /\ m.arg = (IF sd.HCS THEN 1 ELSE 0)
    BY DEF Commands
  <2> HIDE DEF m
  <2>4. CardOK'
    BY <1>4, <2>1, <2>2, <2>3
  <2>5. CASE ~(o.resp # Silence /\ o.resp.ready)
    <3>1. init' \in Early \cup {"failed"} /\ sd' = sd
      BY <2>1, <2>5 DEF PollAgain, Early
    <3> QED BY <1>5, <2>1, <2>2, <2>4, <3>1
  <2>6. CASE o.resp # Silence /\ o.resp.ready
    <3>1. init' = "CMD2" /\ sd' = [sd EXCEPT !.bSDHC = sd.bSDHC /\ o.resp.ccs]
      BY <2>1, <2>6 DEF Script
    <3>2. PICK c \in Drained(card), rca \in RCAs :
            c.id = card.id /\ o.resp = Answer(c, m, rca)
      BY <2>3, <2>6, OutcomeEffect
    <3>3. o.card.id = card.id
      BY <2>3, OutcomeEffect
    <3>4. o.resp.ccs = (Kind[card.id] = "hc")
      BY <3>2 DEF Answer
    <3>5. ~Waits(c, m)
      <4>1. o.resp.ready = (m.cmd = "ACMD41" /\ ~Waits(c, m))
        BY <3>2 DEF Answer
      <4> QED BY <2>6, <4>1
    <3>6. Kind[card.id] = "hc" => m.arg = 1
      BY <3>2, <3>5 DEF Waits
    <3>7. Kind[card.id] = "hc" => sd.HCS
      BY <2>3, <3>6
    <3>8. sd.HCS <=> sd.bSDHC
      BY <1>1, <2>2
    <3>9. /\ sd' \in [HCS : BOOLEAN, bSDHC : BOOLEAN, RCA16 : RCAs \cup {0}]
          /\ sd'.bSDHC <=> (sd.bSDHC /\ o.resp.ccs)
      <4>1. (sd.bSDHC /\ o.resp.ccs) \in BOOLEAN
        OBVIOUS
      <4> QED BY <1>1, <3>1, <4>1
    <3>10. sd'.bSDHC <=> Kind[card'.id] = "hc"
      BY <2>1, <3>3, <3>4, <3>7, <3>8, <3>9
    <3>11. phase \notin {"mbr", "br", "play", "halted"}
      BY <1>1, <2>2 DEF Early
    <3>12. SdOK'
      BY <1>1, <1>2, <2>1, <3>1, <3>9, <3>11 DEF SdOK, Early, Steps
    <3>13. ~KnowsAddress' /\ ~KnowsWidth' /\ phase' # "play"
      BY <1>2, <3>1, <3>11 DEF KnowsAddress, KnowsWidth
    <3> QED BY <2>4, <3>10, <3>12, <3>13 DEF Agreed
  <2> QED BY <2>5, <2>6
<1>10. CASE InitScript
  <2>1. InScript /\ init \in Steps
    BY <1>10, ScriptOrder DEF InitScript
  <2>2. PICK o \in Outcomes(ScriptCommand) :
          /\ card' = o.card
          /\ IF Accepted(init, o.resp)
               THEN /\ init' = IF ScriptAt = Len(Script) THEN "done"
                               ELSE Script[ScriptAt + 1]
                    /\ sd' = IF init = "CMD3" THEN [sd EXCEPT !.RCA16 = o.resp.rca]
                             ELSE sd
                    /\ moved' = (moved /\ ScriptAt # Len(Script))
               ELSE init' = "failed" /\ UNCHANGED <<sd, moved>>
    BY <1>10 DEF InitScript
  <2>3. /\ o.card \in CardRegisters /\ o.card.id = card.id
        /\ o.card.id = NoCard <=> o.card.st = "out"
        /\ card.wide => o.card.wide
        /\ init # "CMD3" => o.card.rca = card.rca
        /\ Awake(o.card) => Awake(card)
    BY <2>1, ScriptEffect
  <2>4. CardOK'
    BY <2>2, <2>3 DEF CardOK
  <2>5. phase \notin {"mbr", "br", "play", "halted"}
    BY <1>1, <2>1 DEF Steps
  <2>6. CASE ~Accepted(init, o.resp)
    <3>1. init' = "failed" /\ sd' = sd /\ moved' = moved
      BY <2>2, <2>6
    <3>2. SdOK'
      BY <1>1, <1>2, <2>5, <3>1 DEF SdOK, Early
    <3>3. ~KnowsCapacity' /\ ~KnowsAddress' /\ ~KnowsWidth' /\ phase' # "play"
      BY <1>2, <2>5, <3>1 DEF KnowsCapacity, KnowsAddress, KnowsWidth, Steps
    <3> QED BY <2>4, <3>2, <3>3 DEF Agreed
  <2>7. CASE Accepted(init, o.resp)
    <3> DEFINE next == Script[ScriptAt + 1]
               last_ == ScriptAt = Len(Script)
    <3>1. /\ init = "CMD3" => o.resp.rca = o.card.rca /\ o.resp.rca \in RCAs
          /\ init = "ACMD6" => o.card.wide
          /\ init = "ACMD42" => o.card.st = "tran" /\ ~o.card.err
      BY <2>1, <2>7, ScriptEffect
    <3>2. /\ last_ <=> init = "ACMD42"
          /\ init # "ACMD42" =>
               /\ next \in Steps \ {"CMD2"}
               /\ next = "CMD3" => init = "CMD2"
               /\ next = "CMD9" => init = "CMD3"
               /\ init \in {"CMD2", "CMD3"} => next \in {"CMD3", "CMD9"}
               /\ next \in {"CMD55 42", "ACMD42"} => init \in {"ACMD6", "CMD55 42"}
      BY <2>1, ScriptOrder
    <3>3. /\ init' = IF last_ THEN "done" ELSE next
          /\ sd' = IF init = "CMD3" THEN [sd EXCEPT !.RCA16 = o.resp.rca] ELSE sd
          /\ moved' = (moved /\ ~last_)
      BY <2>2, <2>7
    <3> HIDE DEF next, last_
    <3>4. /\ sd' \in [HCS : BOOLEAN, bSDHC : BOOLEAN, RCA16 : RCAs \cup {0}]
          /\ sd'.bSDHC = sd.bSDHC
          /\ init = "CMD3" => sd'.RCA16 = o.resp.rca
          /\ init # "CMD3" => sd' = sd
      BY <1>1, <3>1, <3>3
    <3>5. init' \in (Steps \ {"CMD2"}) \cup {"done"}
          /\ (init' = "done" <=> init = "ACMD42")
          /\ (init' = "CMD3" => init = "CMD2")
          /\ (init \in {"CMD2", "CMD3"} => init' \in {"CMD3", "CMD9"})
          /\ (init' = "CMD9" => init = "CMD3")
          /\ (init' \in {"CMD55 42", "ACMD42", "done"} =>
                init \in {"ACMD6", "CMD55 42", "ACMD42"})
      BY <3>2, <3>3 DEF Steps
    <3>6. moved' \in BOOLEAN
      BY <3>3
    <3>7. SdOK'
      BY <1>2, <2>2, <2>5, <3>1, <3>4, <3>5, <3>6 DEF SdOK, Early, Steps
    <3>8. ASSUME Awake(card')
          PROVE  /\ sd'.bSDHC <=> Kind[card'.id] = "hc"
                 /\ init' # "CMD3" => sd'.RCA16 = card'.rca
                 /\ init' \in {"CMD55 42", "ACMD42", "done"} => card'.wide
      <4>1. Awake(card)
        BY <2>2, <2>3, <3>8
      <4>2. sd.bSDHC <=> Kind[card.id] = "hc"
        BY <2>1, <4>1 DEF Agreed, KnowsCapacity
      <4>3. init \notin {"CMD2", "CMD3"} => sd.RCA16 = card.rca
        BY <2>1, <4>1 DEF Agreed, KnowsAddress, KnowsCapacity
      <4>4. init \in {"CMD55 42", "ACMD42"} => card.wide
        BY <4>1 DEF Agreed, KnowsWidth
      <4>5. init' # "CMD3" => sd'.RCA16 = card'.rca
        <5>1. CASE init = "CMD3"
          BY <2>2, <3>1, <3>4, <5>1
        <5>2. CASE init = "CMD2"
          BY <3>5, <5>2
        <5>3. CASE init \notin {"CMD2", "CMD3"}
          BY <2>2, <2>3, <3>4, <4>3, <5>3
        <5> QED BY <5>1, <5>2, <5>3
      <4>6. init' \in {"CMD55 42", "ACMD42", "done"} => card'.wide
        BY <2>2, <2>3, <3>1, <3>5, <4>4
      <4> QED BY <2>2, <2>3, <3>4, <4>2, <4>5, <4>6
    <3>9. Agreed'
      BY <1>2, <2>5, <3>8 DEF Agreed, KnowsCapacity, KnowsAddress, KnowsWidth
    <3> QED BY <2>4, <3>7, <3>9
  <2> QED BY <2>6, <2>7
<1> QED
  BY <1>6, <1>7, <1>8, <1>9, <1>10 DEF InitStep

-----------------------------------------------------------------------------
(* What a read may do to the card in the slot.                             *)
ReadFine(c) ==
  /\ c \in CardRegisters /\ c.id = card.id
  /\ c.id = NoCard <=> c.st = "out"
  /\ card.wide => c.wide
  /\ c.rca = card.rca
  /\ Awake(c) => Awake(card)
  /\ card.st \in {"tran", "data"} => c.st \in {"tran", "data"}

(* A read keeps what the library knows of the card.                        *)
LEMMA ReadKeeps ==
  ASSUME CardOK, SdOK, Agreed, ReadFine(card'), UNCHANGED <<sdVars, phase, vol>>
  PROVE  CardOK' /\ SdOK' /\ Agreed'
<1>1. UNCHANGED <<sd, init, moved, phase, vol>>
  BY DEF sdVars
<1>2. CardOK'
  BY DEF ReadFine, CardOK
<1>3. SdOK'
  BY <1>1 DEF ReadFine, SdOK
<1>4. Agreed'
  BY <1>1 DEF ReadFine, Agreed, KnowsCapacity, KnowsAddress, KnowsWidth
<1> QED
  BY <1>2, <1>3, <1>4

(* fatReadSecter: the buffer holds the sector of its index afterwards.     *)
LEMMA ReadSecterEffect ==
  ASSUME CardOK, Agreed, CacheOK, phase = "play", NEW n \in Int, NEW r \in ReadSecter(n)
  PROVE  /\ ReadFine(r.card)
         /\ r.ok \in BOOLEAN
         /\ r.cache = [index |-> r.cache.index, data |-> r.cache.data]
         /\ r.cache.index # -1 =>
              r.cache.data \in {<<vol.card, r.cache.index>>, Junk}
<1>1. CASE n = cache.index
  <2>1. r = [ok |-> TRUE, card |-> card, cache |-> cache]
    BY <1>1 DEF ReadSecter
  <2>2. ReadFine(card)
    BY DEF ReadFine, CardOK
  <2> QED BY <2>1, <2>2 DEF CacheOK
<1>2. CASE n # cache.index
  <2>1. PICK b \in ReadBlock512(n) :
          r = [ok |-> b.ok, card |-> b.card,
               cache |-> [index |-> IF b.ok THEN n ELSE -1, data |-> b.data]]
    BY <1>2 DEF ReadSecter
  <2>2. ReadFine(b.card) /\ b.ok \in BOOLEAN
    BY ReadBlockEffect DEF ReadFine
  <2>3. ASSUME b.ok PROVE b.data \in {<<vol.card, n>>, Junk}
    <3>1. /\ Awake(card)
          /\ b.data \in {<<card.id, BlockAt(card, Address(n))>>, Junk}
      BY <2>3, ReadBlockEffect
    <3>2. (sd.bSDHC <=> Kind[card.id] = "hc") /\ card.id = vol.card
      BY <3>1 DEF Agreed, KnowsCapacity
    <3>3. BlockAt(card, Address(n)) = n
      BY <3>2, SameBlock
    <3> QED BY <3>1, <3>2, <3>3
  <2> QED
    BY <2>1, <2>2, <2>3
<1> QED
  BY <1>1, <1>2

(* A read of a sector keeps everything but the calls.                      *)
LEMMA AfterReadKeeps ==
  ASSUME CardOK, SdOK, Agreed, VolOK, CacheOK, phase = "play", NEW n \in Int,
         NEW r \in ReadSecter(n), AfterRead(r)
  PROVE  CardOK' /\ SdOK' /\ Agreed' /\ VolOK' /\ CacheOK' /\ phase' = "play"
<1>1. /\ card' = r.card /\ cache' = r.cache
      /\ UNCHANGED <<sdVars, phase, vol>> /\ phase' = phase /\ vol' = vol
  BY DEF AfterRead, Unmoved
<1>2. /\ ReadFine(r.card)
      /\ r.cache = [index |-> r.cache.index, data |-> r.cache.data]
      /\ r.cache.index # -1 =>
           r.cache.data \in {<<vol.card, r.cache.index>>, Junk}
  BY ReadSecterEffect
<1>3. CardOK' /\ SdOK' /\ Agreed'
  BY <1>1, <1>2, ReadKeeps
<1>4. VolOK'
  BY <1>1 DEF VolOK
<1>5. CacheOK'
  BY <1>1, <1>2 DEF CacheOK
<1> QED
  BY <1>1, <1>3, <1>4, <1>5

(* The cluster numbers the library computes with.                          *)
LEMMA NextClusterEffect ==
  ASSUME VolOK, phase = "play", NEW c \in Nat, NEW x \in NextCluster(c)
  PROVE  /\ x.next \in Nat /\ x.sound \in BOOLEAN
         /\ FatSecter(c) \in Int /\ x.r \in ReadSecter(FatSecter(c))
<1>1. FatSecter(c) \in Int
  <2>1. vol.FatEntrySecter \in Int
    BY DEF VolOK
  <2>2. FatEntrySize(vol.type) \in {1, 2}
    BY DEF FatEntrySize
  <2>3. BlockSize \in Nat \ {0}
    BY CardAssumption
  <2>4. \A y \in Int : \A m \in Nat \ {0} : y \div m \in Int
    OBVIOUS
  <2>5. c * FatEntrySize(vol.type) \in Int
    BY <2>2
  <2>6. (c * FatEntrySize(vol.type)) \div BlockSize \in Int
    BY <2>3, <2>4, <2>5
  <2> QED BY <2>1, <2>6 DEF FatSecter
<1>2. PICK r \in ReadSecter(FatSecter(c)) :
        LET b == Block(r.cache.data) IN
        x \in IF r.ok /\ b.is = "fat"
                THEN {[next |-> FatEntry(b, c), sound |-> TRUE, r |-> r]}
                ELSE {[next |-> n, sound |-> FALSE, r |-> r] : n \in Garbage}
  BY DEF NextCluster
<1>3. \A b : FatEntry(b, c) \in Nat
  <2> TAKE b
  <2> DEFINE chain == Volume[vol.card].chain
             i == b.first + (c % EntriesPerSecter)
             v == IF i \in DOMAIN chain THEN chain[i] ELSE 0
  <2>1. vol.card \in Cards
    BY DEF VolOK
  <2>2. \A j \in DOMAIN chain : chain[j] \in Nat
    BY <2>1, VolumeAssumption
  <2>3. v \in Nat
    <3> HIDE DEF i, chain
    <3> QED BY <2>2
  <2>4. FatEntry(b, c) = IF v = BadMark THEN 0 ELSE v
    BY DEF FatEntry
  <2> HIDE DEF v
  <2> QED BY <2>3, <2>4
<1>4. \/ \E b : x = [next |-> FatEntry(b, c), sound |-> TRUE, r |-> r]
      \/ \E n \in Garbage : x = [next |-> n, sound |-> FALSE, r |-> r]
  BY <1>2
<1>5. Garbage \subseteq Nat
  BY CallAssumption
<1>6. x.r = r
  BY <1>4
<1>7. \/ \E b : x.next = FatEntry(b, c) /\ x.sound = TRUE
      \/ \E n \in Garbage : x.next = n /\ x.sound = FALSE
  BY <1>4
<1>8. x.next \in Nat /\ x.sound \in BOOLEAN
  BY <1>3, <1>5, <1>7
<1> QED
  BY <1>1, <1>2, <1>6, <1>8

-----------------------------------------------------------------------------
(* Waiting for a card and mounting it.                                     *)
LEMMA MountingKeeps == IInv /\ Mounting => IInv'
<1> SUFFICES ASSUME IInv, Mounting PROVE IInv'
  OBVIOUS
<1> CardOK /\ SdOK /\ Agreed /\ VolOK /\ CallOK /\ CacheOK
  BY DEF IInv
<1>1. ASSUME UNCHANGED <<phase, vol, cache, file, op>>
      PROVE  VolOK' /\ CallOK' /\ CacheOK'
  <2>1. VolOK'
    BY <1>1 DEF VolOK
  <2>2. CallOK'
    BY <1>1 DEF CallOK, BrowseOp, ReadOp
  <2>3. CacheOK'
    BY <1>1 DEF CacheOK
  <2> QED BY <2>1, <2>2, <2>3
<1>2. CASE InitStep /\ UNCHANGED fatVars
  <2>1. phase \in Phases
    BY DEF VolOK
  <2>2. CardOK' /\ SdOK' /\ Agreed'
    BY <1>2, <2>1, InitKeeps
  <2>3. UNCHANGED <<phase, vol, cache, file, op>>
    BY <1>2 DEF fatVars
  <2> QED BY <1>1, <2>2, <2>3 DEF IInv
<1>3. ASSUME Call, phase' \in {"insert", "mount"}, phase \in {"insert", "mount"}
      PROVE  IInv'
  <2>1. sd' = NoInfo /\ init' = "CMD0" /\ card' = card /\ moved' = moved
    BY <1>3 DEF Call, InitCall, cardVars
  <2>2. CardOK'
    BY <2>1 DEF CardOK
  <2>3. SdOK'
    BY <1>3, <2>1 DEF SdOK, NoInfo, Early, Steps
  <2>4. Agreed'
    BY <1>3, <2>1 DEF Agreed, KnowsCapacity, KnowsAddress, KnowsWidth, Steps
  <2>5. UNCHANGED <<vol, cache, file, op>>
    BY <1>3 DEF Call
  <2>6. VolOK'
    BY <1>3, <2>5 DEF VolOK, Phases
  <2>7. CallOK'
    BY <1>3, <2>5 DEF CallOK, BrowseOp, ReadOp
  <2>8. CacheOK'
    BY <1>3, <2>5 DEF CacheOK
  <2> QED BY <2>2, <2>3, <2>4, <2>6, <2>7, <2>8 DEF IInv
<1>4. CASE InsertTry
  BY <1>3, <1>4 DEF InsertTry
<1>5. CASE MountTry
  BY <1>3, <1>5 DEF MountTry
<1>6. NoVolume \in [type : {0, FAT16, FAT32}, start : Nat, spc : Nat,
              FatEntrySecter : Int, RootDirectoryEntrySecter : Int,
              DataEntrySecter : Int, card : Slots, calm : BOOLEAN, sound : BOOLEAN]
  BY DEF NoVolume, Slots
<1>7. ASSUME Halt, CardOK', phase # "play",
             card'.st = card.st \/ ReadFine(card'),
             UNCHANGED <<sd, moved, cache, file, op>>
      PROVE  IInv'
  <2>1. phase' = "halted" /\ vol' = NoVolume /\ init' = "none"
    BY <1>7 DEF Halt
  <2>2. SdOK'
    BY <1>7, <2>1 DEF SdOK, Early, Steps
  <2>3. Agreed'
    BY <2>1 DEF Agreed, KnowsCapacity, KnowsAddress, KnowsWidth, Steps
  <2>4. VolOK'
    BY <1>6, <2>1 DEF VolOK, Phases
  <2>5. CallOK'
    BY <1>7, <2>1 DEF CallOK, BrowseOp, ReadOp
  <2>6. CacheOK'
    BY <1>7, <2>1 DEF CacheOK
  <2> QED BY <1>7, <2>2, <2>3, <2>4, <2>5, <2>6 DEF IInv
<1>8. CASE MountGivesUp
  <2>1. CardOK' /\ card' = card
    BY <1>8 DEF MountGivesUp, cardVars, CardOK
  <2> QED BY <1>7, <1>8, <2>1 DEF MountGivesUp
<1>9. CASE MountFound
  <2>1. /\ phase = "mount" /\ init = "done" /\ phase' = "mbr"
        /\ vol' = [NoVolume EXCEPT !.calm = ~noise /\ ~moved, !.sound = TRUE]
        /\ UNCHANGED <<card, sd, init, moved, cache, file, op>>
    BY <1>9 DEF MountFound, cardVars, sdVars
  <2>2. CardOK' /\ SdOK'
    BY <2>1 DEF CardOK, SdOK
  <2>3. Agreed'
    BY <2>1 DEF Agreed, KnowsCapacity, KnowsAddress, KnowsWidth
  <2>4. VolOK'
    <3>1. (~noise /\ ~moved) \in BOOLEAN
      OBVIOUS
    <3> QED BY <1>6, <2>1, <3>1 DEF VolOK, Phases
  <2>5. CallOK' /\ CacheOK'
    BY <2>1 DEF CallOK, BrowseOp, ReadOp, CacheOK
  <2> QED BY <2>2, <2>3, <2>4, <2>5 DEF IInv
<1>10. CASE MountMbr
  <2>1. PICK r \in ReadBlock512(0) :
          /\ card' = r.card
          /\ \E v \in IF r.ok /\ r.data # Junk
                        THEN {[type |-> Volume[r.data[1]].type,
                               start |-> Volume[r.data[1]].start]}
                        ELSE [type : {0, FAT16, FAT32}, start : {1}] :
              IF r.ok /\ v.type \in {FAT16, FAT32}
                THEN /\ phase' = "br" /\ UNCHANGED init
                     /\ vol' = [vol EXCEPT !.type = v.type, !.start = v.start,
                                           !.sound = @ /\ r.data # Junk]
                ELSE Halt
    BY <1>10 DEF MountMbr
  <2>2. phase = "mbr" /\ init = "done" /\ UNCHANGED <<sd, moved, cache, file, op>>
    BY <1>10 DEF MountMbr, SdOK
  <2>3. ReadFine(card') /\ CardOK'
    BY <2>1, ReadBlockEffect DEF ReadFine, CardOK
  <2>4. CASE Halt
    BY <1>7, <2>2, <2>3, <2>4
  <2>5. CASE ~Halt
    <3>1. PICK v \in IF r.ok /\ r.data # Junk
                       THEN {[type |-> Volume[r.data[1]].type,
                              start |-> Volume[r.data[1]].start]}
                       ELSE [type : {0, FAT16, FAT32}, start : {1}] :
            /\ r.ok /\ v.type \in {FAT16, FAT32} /\ phase' = "br" /\ init' = init
            /\ vol' = [vol EXCEPT !.type = v.type, !.start = v.start,
                                  !.sound = @ /\ r.data # Junk]
      BY <2>1, <2>5
    <3>2. v.start \in Nat
      <4>1. CASE r.data # Junk
        <5>1. r.data = <<card.id, BlockAt(card, Address(0))>> /\ card.id \in Cards
          BY <3>1, <4>1, ReadBlockEffect
        <5>2. r.data[1] = card.id
          BY <5>1
        <5>3. Volume[card.id].start \in Nat
          <6>1. Volume[card.id]["start"] \in Nat
            BY <5>1, VolumeAssumption
          <6> QED BY <6>1
        <5> QED BY <3>1, <4>1, <5>2, <5>3
      <4>2. CASE r.data = Junk
        BY <3>1, <4>2
      <4> QED BY <4>1, <4>2
    <3>3. VolOK'
      <4>1. (vol.sound /\ r.data # Junk) \in BOOLEAN
        OBVIOUS
      <4> QED BY <3>1, <3>2, <4>1 DEF VolOK, Phases
    <3>4. SdOK'
      BY <2>2, <2>3, <3>1 DEF SdOK, ReadFine
    <3>5. Agreed'
      BY <2>2, <2>3, <3>1 DEF Agreed, ReadFine, KnowsCapacity, KnowsAddress, KnowsWidth
    <3>6. CallOK' /\ CacheOK'
      BY <2>2, <3>1 DEF CallOK, BrowseOp, ReadOp, CacheOK
    <3> QED BY <2>3, <3>3, <3>4, <3>5, <3>6 DEF IInv
  <2> QED BY <2>4, <2>5
<1>11. CASE MountBr
  <2>1. PICK r \in ReadBlock512(vol.start) :
          /\ card' = r.card
          /\ IF ~r.ok THEN Halt /\ UNCHANGED cache
             ELSE LET k == IF r.data = Junk THEN card.id ELSE r.data[1]
                      g == Geometry(Volume[k])
                  IN /\ cache' = Empty
                     /\ \/ Halt
                        \/ /\ phase' = "play" /\ init' = "none"
                           /\ vol' = [vol EXCEPT !.spc = g.spc, !.FatEntrySecter = g.fat,
                                         !.RootDirectoryEntrySecter = g.root,
                                         !.DataEntrySecter = g.data, !.card = k,
                                         !.sound = @ /\ Block(r.data).is = "br"]
    BY <1>11 DEF MountBr
  <2>2. /\ phase = "br" /\ init = "done" /\ UNCHANGED <<sd, moved, op>>
        /\ file' = [f \in Files |-> Closed] /\ op = Idle
    BY <1>11 DEF MountBr, SdOK, CallOK
  <2>3. ReadFine(card') /\ CardOK'
    BY <2>1, ReadBlockEffect DEF ReadFine, CardOK
  <2>4. Closed \in FileInfo
    BY DEF Closed, FileInfo
  <2>5. file' \in [Files -> FileInfo]
    BY <2>2, <2>4
  <2>6. CASE Halt
    <3>1. /\ phase' = "halted" /\ vol' = NoVolume /\ init' = "none"
          /\ cache' = cache \/ cache' = Empty
      BY <2>1, <2>6 DEF Halt
    <3>2. SdOK'
      BY <2>2, <3>1 DEF SdOK, Early, Steps
    <3>3. Agreed'
      BY <3>1 DEF Agreed, KnowsCapacity, KnowsAddress, KnowsWidth, Steps
    <3>4. VolOK'
      BY <1>6, <3>1 DEF VolOK, Phases
    <3>5. CallOK'
      BY <2>2, <2>5, <3>1 DEF CallOK
    <3>6. CacheOK'
      BY <2>2, <3>1 DEF CacheOK, Empty
    <3> QED BY <2>3, <3>2, <3>3, <3>4, <3>5, <3>6 DEF IInv
  <2>7. CASE ~Halt
    <3>0. r.ok
      BY <2>1, <2>7
    <3> DEFINE k == IF r.data = Junk THEN card.id ELSE r.data[1]
               g == Geometry(Volume[k])
               isBr == Block(r.data).is = "br"
    <3>1. /\ phase' = "play" /\ init' = "none" /\ cache' = Empty
          /\ vol' = [vol EXCEPT !.spc = g.spc, !.FatEntrySecter = g.fat,
                        !.RootDirectoryEntrySecter = g.root,
                        !.DataEntrySecter = g.data, !.card = k,
                        !.sound = @ /\ isBr]
      BY <2>1, <2>7, <3>0
    <3>2. k = card.id /\ card.id \in Cards
      <4>1. card.id \in Cards
            /\ r.data \in {<<card.id, BlockAt(card, Address(vol.start))>>, Junk}
        BY <3>0, ReadBlockEffect
      <4> QED BY <4>1
    <3>3. g.spc \in Nat /\ g.fat \in Int /\ g.root \in Int /\ g.data \in Int
      <4> DEFINE b == Volume[card.id]
      <4>1. b["rsvd"] \in Nat /\ b["nfats"] \in Nat /\ b["fatsz"] \in Nat
            /\ b["rootcnt"] \in Nat /\ b["spc"] \in Nat
        BY <3>2, VolumeAssumption
      <4>2. b.rsvd \in Nat /\ b.nfats \in Nat /\ b.fatsz \in Nat
            /\ b.rootcnt \in Nat /\ b.spc \in Nat
        BY <4>1
      <4> HIDE DEF b
      <4>3. vol.start \in Nat /\ BlockSize \in Nat \ {0}
        BY CardAssumption DEF VolOK
      <4>4. b.nfats * b.fatsz \in Nat /\ b.rootcnt * DirEntrySize \in Nat
        BY <4>2 DEF DirEntrySize
      <4>5. \A y \in Int : \A m \in Nat \ {0} : y \div m \in Int
        OBVIOUS
      <4>6. (b.rootcnt * DirEntrySize + (BlockSize - 1)) \div BlockSize \in Int
        <5>1. b.rootcnt * DirEntrySize + (BlockSize - 1) \in Int
          BY <4>3, <4>4
        <5> QED BY <4>3, <4>5, <5>1
      <4>7. g = Geometry(b)
        BY <3>2 DEF b
      <4> QED BY <4>2, <4>3, <4>4, <4>6, <4>7 DEF Geometry
    <3>4. (vol.sound /\ isBr) \in BOOLEAN
      OBVIOUS
    <3> HIDE DEF g, k, isBr
    <3>5. VolOK' /\ vol'.card = card.id
      BY <3>1, <3>2, <3>3, <3>4 DEF VolOK, Phases, Slots
    <3>6. SdOK'
      BY <2>2, <3>1 DEF SdOK, Early, Steps
    <3>7. Agreed'
      BY <2>2, <2>3, <3>1, <3>5
         DEF Agreed, ReadFine, KnowsCapacity, KnowsAddress, KnowsWidth, Steps
    <3>8. CallOK'
      BY <2>2, <2>5 DEF CallOK
    <3>9. CacheOK'
      BY <3>1 DEF CacheOK, Empty
    <3> QED BY <2>3, <3>5, <3>6, <3>7, <3>8, <3>9 DEF IInv
  <2> QED BY <2>6, <2>7
<1> QED
  BY <1>2, <1>4, <1>5, <1>8, <1>9, <1>10, <1>11 DEF Mounting

-----------------------------------------------------------------------------
(* Opening, reading, seeking, and beginning again.                         *)

(* What a step of a call leaves alone.                                     *)
LEMMA CallKeeps ==
  ASSUME IInv, UNCHANGED <<cardVars, sdVars, phase, vol, cache>>
  PROVE  CardOK' /\ SdOK' /\ Agreed' /\ VolOK' /\ CacheOK'
<1>1. UNCHANGED <<card, sd, init, moved, phase, vol, cache>>
  BY DEF cardVars, sdVars
<1>2. CardOK' /\ SdOK'
  BY <1>1 DEF IInv, CardOK, SdOK
<1>3. Agreed'
  BY <1>1 DEF IInv, Agreed, KnowsCapacity, KnowsAddress, KnowsWidth
<1>4. VolOK' /\ CacheOK'
  BY <1>1 DEF IInv, VolOK, CacheOK
<1> QED
  BY <1>2, <1>3, <1>4

(* A call in progress is one of the two kinds.                             *)
LEMMA Kinds ==
  ASSUME CallOK, op.step # "idle"
  PROVE  /\ op.step = "browse" => BrowseOp
         /\ op.step # "browse" => ReadOp
         /\ phase = "play"
<1>1. op # Idle
  BY DEF Idle
<1> QED
  BY <1>1 DEF CallOK, BrowseOp, ReadOp

(* The record of an opened file.                                           *)
LEMMA OpenedKeeps ==
  ASSUME CallOK, op.f \in Files, NEW first \in Nat, NEW size \in Nat,
         NEW sound \in BOOLEAN, Opened(first, size, sound)
  PROVE  CallOK'
<1> DEFINE info == [Closed EXCEPT !.IsOpened = TRUE, !.Cluster = first,
                      !.first = first, !.size = size, !.sound = sound]
<1>1. info \in FileInfo
  BY DEF Closed, FileInfo
<1>2. file' = [file EXCEPT ![op.f] = info] /\ op' = Idle
  BY DEF Opened
<1> HIDE DEF info
<1> QED
  BY <1>1, <1>2 DEF CallOK

(* The same of a file that was not found.                                  *)
LEMMA OpenFailsKeeps ==
  ASSUME CallOK, OpenFails
  PROVE  CallOK'
<1>1. Closed \in FileInfo
  BY DEF Closed, FileInfo
<1>2. file' = [file EXCEPT ![op.f] = Closed] /\ op' = Idle
  BY DEF OpenFails
<1> QED
  BY <1>1, <1>2 DEF CallOK

(* Fat_FileBrowseNext.                                                     *)
LEMMA EntryKeeps ==
  ASSUME CallOK, BrowseOp, phase' = phase, phase = "play",
         NEW e \in DirEntry \cup {NotThere}, Entry(e)
  PROVE  CallOK'
<1>1. op.f \in Files /\ op.i \in Nat
      /\ op = [step |-> "browse", f |-> op.f, i |-> op.i, order |-> op.order,
               long |-> op.long, name |-> op.name]
  BY DEF BrowseOp
<1>2. ASSUME NEW order, NEW long, NEW name, file' = file,
             op' = [step |-> "browse", f |-> op.f, i |-> op.i + 1,
                    order |-> order, long |-> long, name |-> name]
      PROVE  CallOK'
  <2>1. BrowseOp'
    BY <1>1, <1>2 DEF BrowseOp
  <2> QED BY <1>2, <2>1 DEF CallOK
<1>3. CASE e.is = "deleted"
  <2>1. op' = [op EXCEPT !.i = @ + 1] /\ file' = file
    BY <1>3 DEF Entry
  <2>2. op' = [step |-> "browse", f |-> op.f, i |-> op.i + 1, order |-> op.order,
               long |-> op.long, name |-> op.name]
    BY <1>1, <2>1
  <2> QED BY <1>2, <2>1, <2>2
<1>4. CASE e.is = "end"
  BY <1>4, OpenFailsKeeps DEF Entry
<1>5. CASE e.is = "long"
  <2>1. \/ OpenFails
        \/ /\ op' = [op EXCEPT !.i = @ + 1, !.long = TRUE, !.name = e.name,
                               !.order = (IF @ = 0 THEN e.ord ELSE @) - 1]
           /\ file' = file
    BY <1>5 DEF Entry
  <2>2. CASE ~OpenFails
    <3> DEFINE less == (IF op.order = 0 THEN e.ord ELSE op.order) - 1
    <3>1. op' = [op EXCEPT !.i = op.i + 1, !.long = TRUE, !.name = e.name,
                           !.order = less]
      BY <2>1, <2>2
    <3> HIDE DEF less
    <3>2. op' = [step |-> "browse", f |-> op.f, i |-> op.i + 1, order |-> less,
                 long |-> TRUE, name |-> e.name]
      <4>1. PICK f, i, order, long, name :
              op = [step |-> "browse", f |-> f, i |-> i, order |-> order,
                    long |-> long, name |-> name]
        BY <1>1
      <4>2. op.f = f /\ op.i = i
        BY <4>1
      <4>3. op' = [step |-> "browse", f |-> f, i |-> op.i + 1, order |-> less,
                   long |-> TRUE, name |-> e.name]
        BY <3>1, <4>1
      <4> QED BY <4>2, <4>3
    <3> QED BY <1>2, <2>1, <2>2, <3>2
  <2> QED BY <2>2, OpenFailsKeeps
<1>6. CASE e.is = "file"
  <2>1. \/ OpenFails
        \/ Opened(FirstLogicalCluster(e), e.size, TRUE)
        \/ /\ op' = [op EXCEPT !.i = @ + 1, !.order = 0, !.long = FALSE]
           /\ file' = file
    BY <1>6 DEF Entry
  <2>2. FirstLogicalCluster(e) \in Nat /\ e.size \in Nat
    <3>1. e.first \in Nat /\ e.size \in Nat
      BY <1>6 DEF DirEntry, NotThere
    <3>2. FirstClusters \in Nat \ {0}
      BY WidthAssumption
    <3>3. e.first % FirstClusters \in 0 .. FirstClusters - 1
      BY <3>1, <3>2, DivMod
    <3> QED BY <3>1, <3>2, <3>3 DEF FirstLogicalCluster
  <2>3. CASE OpenFails
    BY <2>3, OpenFailsKeeps
  <2>4. CASE Opened(FirstLogicalCluster(e), e.size, TRUE)
    BY <1>1, <2>2, <2>4, OpenedKeeps
  <2>5. CASE /\ op' = [op EXCEPT !.i = @ + 1, !.order = 0, !.long = FALSE]
             /\ file' = file
    <3>1. op' = [step |-> "browse", f |-> op.f, i |-> op.i + 1, order |-> 0,
                 long |-> FALSE, name |-> op.name]
      <4>1. PICK f, i, order, long, name :
              op = [step |-> "browse", f |-> f, i |-> i, order |-> order,
                    long |-> long, name |-> name]
        BY <1>1
      <4>2. op.f = f /\ op.i = i /\ op.name = name
        BY <4>1
      <4>3. op' = [op EXCEPT !.i = op.i + 1, !.order = 0, !.long = FALSE]
        BY <2>5
      <4>4. op' = [step |-> "browse", f |-> f, i |-> op.i + 1, order |-> 0,
                   long |-> FALSE, name |-> name]
        BY <4>1, <4>3
      <4> QED BY <4>2, <4>4
    <3> QED BY <1>2, <2>5, <3>1
  <2> QED BY <2>1, <2>3, <2>4, <2>5
<1>7. e.is \in {"deleted", "end", "long", "file"}
  BY DEF DirEntry, NotThere
<1> QED
  BY <1>3, <1>4, <1>5, <1>6, <1>7

(* Fat_FileOpen, one entry of the directory.                               *)
LEMMA BrowseKeeps == IInv /\ Browse => IInv'
<1> SUFFICES ASSUME IInv, Browse PROVE IInv'
  OBVIOUS
<1>1. CardOK /\ SdOK /\ Agreed /\ VolOK /\ CallOK /\ CacheOK
  BY DEF IInv
<1>2. op.step = "browse"
  BY DEF Browse
<1>3. BrowseOp /\ phase = "play"
  BY <1>1, <1>2, Kinds
<1> DEFINE perSecter == BlockSize \div DirEntrySize
           root == Volume[vol.card].root
           n == vol.RootDirectoryEntrySecter + op.i \div perSecter
<1>4. PICK r \in ReadSecter(n) :
        /\ AfterRead(r)
        /\ LET b == Block(r.cache.data) IN
           IF ~r.ok THEN OpenFails
           ELSE IF b.is = "root"
             THEN LET i == b.first + (op.i % perSecter) + 1
                  IN Entry(IF i \in DOMAIN root THEN root[i] ELSE NotThere)
             ELSE OpenFails \/ \E c \in Garbage : Opened(c, BlockSize, FALSE)
  BY DEF Browse
<1>5. n \in Int
  <2>1. BlockSize \in Nat \ {0}
    BY CardAssumption
  <2>2. \A y \in Nat : y \div 1 = y
    OBVIOUS
  <2>3. perSecter \in Nat \ {0}
    BY <2>1, <2>2 DEF DirEntrySize
  <2> HIDE DEF perSecter
  <2>4. \A y \in Nat : \A m \in Nat \ {0} : y \div m \in Int
    OBVIOUS
  <2>5. op.i \div perSecter \in Int
    BY <1>3, <2>3, <2>4 DEF BrowseOp
  <2> QED BY <1>1, <2>5 DEF VolOK
<1>6. CardOK' /\ SdOK' /\ Agreed' /\ VolOK' /\ CacheOK' /\ phase' = phase
  <2> HIDE DEF n
  <2> QED BY <1>1, <1>3, <1>4, <1>5, AfterReadKeeps
<1>7. \/ OpenFails
      \/ \E e \in DirEntry \cup {NotThere} : Entry(e)
      \/ \E c \in Garbage : Opened(c, BlockSize, FALSE)
  <2>1. vol.card \in Cards
    BY <1>1, <1>3 DEF VolOK
  <2>2. root \in Seq(DirEntry)
    BY <2>1, VolumeAssumption
  <2>3. \A i \in DOMAIN root : root[i] \in DirEntry
    <3> HIDE DEF root
    <3> QED BY <2>2
  <2> DEFINE b == Block(r.cache.data)
             i == b.first + (op.i % perSecter) + 1
             e == IF i \in DOMAIN root THEN root[i] ELSE NotThere
  <2>4. e \in DirEntry \cup {NotThere}
    <3> HIDE DEF root, i
    <3> QED BY <2>3
  <2>5. \/ OpenFails \/ Entry(e)
        \/ \E c \in Garbage : Opened(c, BlockSize, FALSE)
    BY <1>4
  <2> HIDE DEF e
  <2> QED BY <2>4, <2>5
<1>8. CallOK'
  <2>1. CASE OpenFails
    BY <1>1, <2>1, OpenFailsKeeps
  <2>2. CASE \E e \in DirEntry \cup {NotThere} : Entry(e)
    BY <1>1, <1>3, <1>6, <2>2, EntryKeeps
  <2>3. CASE \E c \in Garbage : Opened(c, BlockSize, FALSE)
    <3>1. Garbage \subseteq Nat /\ BlockSize \in Nat /\ op.f \in Files
      BY <1>3, CallAssumption, CardAssumption DEF BrowseOp
    <3> QED BY <1>1, <2>3, <3>1, OpenedKeeps
  <2> QED BY <1>7, <2>1, <2>2, <2>3
<1> QED
  BY <1>6, <1>8 DEF IInv

(* Fat_FileRead, Fat_FileSeek: the file whose next cluster was looked up.  *)
LEMMA AdvanceKeeps ==
  ASSUME file \in [Files -> FileInfo], NEW f \in Files, NEW x,
         x.next \in Nat, x.sound \in BOOLEAN, Advance(f, x)
  PROVE  file' \in [Files -> FileInfo]
<1> DEFINE c == IF x.next = 0 THEN file[f].Cluster ELSE x.next
           seq == file[f].ClusterSeq + 1
           sound == file[f].sound /\ (x.sound \/ ~op.ok)
           info == [file[f] EXCEPT !.Cluster = c, !.ClusterSeq = seq, !.sound = sound]
<1>1. file[f] \in FileInfo
  OBVIOUS
<1>2. c \in Nat /\ seq \in Nat
  BY <1>1 DEF FileInfo
<1>3. sound \in BOOLEAN
  OBVIOUS
<1>4. file' = [file EXCEPT ![f].Cluster = c, ![f].ClusterSeq = seq, ![f].sound = sound]
  BY DEF Advance
<1> HIDE DEF c, seq, sound
<1>5. info \in FileInfo
  BY <1>1, <1>2, <1>3 DEF FileInfo
<1>6. file' = [file EXCEPT ![f] = info]
  BY <1>4
<1> QED
  BY <1>5, <1>6

(* A step of a read: what its locals are afterwards.                       *)
LEMMA ReadOpKeeps ==
  ASSUME ReadOp, file' \in [Files -> FileInfo], phase' = "play",
         DOMAIN op' = DOMAIN op, op'.f = op.f, op'.n = op.n,
         op'.step \in {"walk", "secters", "end"}, op'.s \in Nat, op'.ok \in BOOLEAN
  PROVE  CallOK'
<1>1. ReadOp'
  BY DEF ReadOp
<1> QED
  BY <1>1 DEF CallOK

(* Fat_FileOpen, Fat_FileRead and Fat_FileSeek begin.                      *)
LEMMA BeginKeeps ==
  ASSUME IInv, NEW f \in Files
  PROVE  /\ OpenCall(f) => IInv'
         /\ \A n \in ReadSizes : ReadCall(f, n) => IInv'
         /\ \A p \in SeekTargets : SeekCall(f, p) => IInv'
<1>1. CallOK
  BY DEF IInv
<1>2. ASSUME OpenCall(f) PROVE IInv'
  <2>1. /\ UNCHANGED <<cardVars, sdVars, phase, vol, cache>> /\ file' = file
        /\ op' = [step |-> "browse", f |-> f, i |-> 0, order |-> 0, long |-> FALSE,
                  name |-> ""]
        /\ phase = "play" /\ phase' = phase
    BY <1>2 DEF OpenCall, Ready
  <2>2. BrowseOp'
    BY <2>1 DEF BrowseOp
  <2>3. CallOK'
    BY <1>1, <2>1, <2>2 DEF CallOK
  <2> QED BY <2>1, <2>3, CallKeeps DEF IInv
<1>3. ASSUME NEW n \in ReadSizes, ReadCall(f, n) PROVE IInv'
  <2> DEFINE pos == (file[f].SeekPos - file[f].ClusterSeq * BytesPerCluster) % U32
             step == IF file[f].SeekPos \div BytesPerCluster # file[f].ClusterSeq
                       THEN "walk" ELSE "secters"
             info == [file[f] EXCEPT !.sound = ~file[f].failed, !.failed = FALSE]
  <2>1. /\ UNCHANGED <<cardVars, sdVars, phase, vol, cache>>
        /\ file' = [file EXCEPT ![f] = info]
        /\ op' = [f |-> f, n |-> n, nread |-> 0, out |-> <<>>, ok |-> TRUE, s |-> 0,
                  pos |-> pos, step |-> step]
        /\ phase = "play" /\ phase' = phase
    BY <1>3 DEF ReadCall, Ready
  <2>2. step \in {"walk", "secters"} /\ n \in Nat /\ info \in FileInfo
    BY <1>1, CallAssumption DEF CallOK, FileInfo
  <2> HIDE DEF pos, step, info
  <2>3. ReadOp'
    BY <2>1, <2>2 DEF ReadOp
  <2>4. CallOK'
    BY <1>1, <2>1, <2>2, <2>3 DEF CallOK
  <2> QED BY <2>1, <2>4, CallKeeps DEF IInv
<1>4. ASSUME NEW p \in SeekTargets, SeekCall(f, p) PROVE IInv'
  <2> DEFINE info == [file[f] EXCEPT !.SeekPos = p, !.failed = FALSE,
                                     !.Cluster = file[f].first, !.ClusterSeq = 0]
  <2>1. /\ UNCHANGED <<cardVars, sdVars, phase, vol, cache, op>>
        /\ phase = "play" /\ op = Idle
        /\ file' = [file EXCEPT ![f].SeekPos = p, ![f].failed = FALSE,
                       ![f].Cluster = file[f].first, ![f].ClusterSeq = 0]
    BY <1>4 DEF SeekCall, Ready
  <2>2. p \in Nat /\ file[f] \in FileInfo /\ file \in [Files -> FileInfo]
    BY <1>1, CallAssumption DEF CallOK
  <2>3. info \in FileInfo
    BY <2>2 DEF FileInfo
  <2>4. file' = [file EXCEPT ![f] = info]
    BY <2>1
  <2> HIDE DEF info
  <2>5. file' \in [Files -> FileInfo]
    BY <2>2, <2>3, <2>4
  <2>6. CallOK'
    BY <2>1, <2>5 DEF CallOK
  <2> QED BY <2>1, <2>6, CallKeeps DEF IInv
<1> QED
  BY <1>2, <1>3, <1>4

(* Fat_FileRead: a step to the cluster of the position.                    *)
LEMMA WalkKeeps == IInv /\ Walk => IInv'
<1> SUFFICES ASSUME IInv, Walk PROVE IInv'
  OBVIOUS
<1>1. CardOK /\ SdOK /\ Agreed /\ VolOK /\ CallOK /\ CacheOK
  BY DEF IInv
<1>2. ReadOp /\ phase = "play"
  BY <1>1, Kinds DEF Walk
<1>3. op.f \in Files /\ op.s \in Nat /\ op.ok \in BOOLEAN /\ op.step = "walk"
  BY <1>2 DEF ReadOp, Walk
<1>4. file \in [Files -> FileInfo] /\ file[op.f].Cluster \in Nat
  BY <1>1, <1>3 DEF CallOK, FileInfo
<1>5. CASE op.pos >= BytesPerCluster
  <2>1. PICK x \in NextCluster(file[op.f].Cluster) :
          /\ AfterRead(x.r) /\ Advance(op.f, x)
          /\ op' = [op EXCEPT !.pos = @ - BytesPerCluster, !.ok = x.next # 0,
                              !.step = IF x.next = 0 THEN "end" ELSE "walk"]
    BY <1>5 DEF Walk
  <2>2. /\ x.next \in Nat /\ x.sound \in BOOLEAN
        /\ FatSecter(file[op.f].Cluster) \in Int
        /\ x.r \in ReadSecter(FatSecter(file[op.f].Cluster))
    BY <1>1, <1>2, <1>4, NextClusterEffect
  <2>3. CardOK' /\ SdOK' /\ Agreed' /\ VolOK' /\ CacheOK' /\ phase' = "play"
    BY <1>1, <1>2, <2>1, <2>2, AfterReadKeeps
  <2>4. file' \in [Files -> FileInfo]
    BY <1>3, <1>4, <2>1, <2>2, AdvanceKeeps
  <2>5. /\ DOMAIN op' = DOMAIN op /\ op'.f = op.f /\ op'.n = op.n
        /\ op'.step \in {"walk", "secters", "end"}
        /\ op'.s \in Nat /\ op'.ok \in BOOLEAN
    BY <1>2, <1>3, <2>1 DEF ReadOp
  <2> QED BY <1>2, <2>3, <2>4, <2>5, ReadOpKeeps DEF IInv
<1>6. CASE ~(op.pos >= BytesPerCluster)
  <2>1. /\ op' = [op EXCEPT !.step = "secters"]
        /\ UNCHANGED <<cardVars, sdVars, phase, vol, cache, file>>
        /\ phase' = phase /\ file' = file
    BY <1>6 DEF Walk, Unmoved
  <2>2. /\ DOMAIN op' = DOMAIN op /\ op'.f = op.f /\ op'.n = op.n
        /\ op'.step \in {"walk", "secters", "end"}
        /\ op'.s \in Nat /\ op'.ok \in BOOLEAN
    BY <1>2, <1>3, <2>1 DEF ReadOp
  <2>3. CallOK'
    BY <1>2, <1>4, <2>1, <2>2, ReadOpKeeps
  <2> QED BY <2>1, <2>3, CallKeeps DEF IInv
<1> QED
  BY <1>5, <1>6

(* Fat_FileRead: a sector of the cluster.                                  *)
LEMMA SecterKeeps == IInv /\ Secter => IInv'
<1> SUFFICES ASSUME IInv, Secter PROVE IInv'
  OBVIOUS
<1>1. CardOK /\ SdOK /\ Agreed /\ VolOK /\ CallOK /\ CacheOK
  BY DEF IInv
<1>2. ReadOp /\ phase = "play"
  BY <1>1, Kinds DEF Secter
<1>3. op.f \in Files /\ op.s \in Nat /\ op.ok \in BOOLEAN /\ op.step = "secters"
  BY <1>2 DEF ReadOp, Secter
<1>4. /\ file \in [Files -> FileInfo] /\ file[op.f] \in FileInfo
      /\ file[op.f].Cluster \in Nat
  BY <1>1, <1>3 DEF CallOK, FileInfo
<1> DEFINE n == FirstSecter(file[op.f].Cluster) + op.s
<1>5. CASE op.pos >= BlockSize
  <2>1. /\ op' = [op EXCEPT !.pos = @ - BlockSize, !.s = @ + 1]
        /\ UNCHANGED <<cardVars, sdVars, phase, vol, cache, file>>
        /\ phase' = phase /\ file' = file
    BY <1>5 DEF Secter, Unmoved
  <2>2. /\ DOMAIN op' = DOMAIN op /\ op'.f = op.f /\ op'.n = op.n
        /\ op'.step \in {"walk", "secters", "end"}
        /\ op'.s \in Nat /\ op'.ok \in BOOLEAN
    BY <1>2, <1>3, <2>1 DEF ReadOp
  <2>3. CallOK'
    BY <1>2, <1>4, <2>1, <2>2, ReadOpKeeps
  <2> QED BY <2>1, <2>3, CallKeeps DEF IInv
<1>6. CASE ~(op.pos >= BlockSize)
  <2> DEFINE room == BlockSize - op.pos
             count == IF room > op.n - op.nread THEN op.n - op.nread ELSE room
  <2>1. PICK r \in ReadSecter(n) :
          /\ AfterRead(r)
          /\ IF r.ok
               THEN op' = [op EXCEPT !.s = @ + 1, !.nread = @ + count, !.pos = 0,
                      !.out = @ \o [i \in 1 .. count |->
                                      Byte(r.cache.data, op.pos + i - 1)]]
               ELSE op' = [op EXCEPT !.s = @ + 1, !.ok = FALSE]
          /\ file' = [file EXCEPT ![op.f].sound =
                        @ /\ (~r.ok \/ Block(r.cache.data).is # "junk")]
    BY <1>6 DEF Secter
  <2>2. n \in Int
    <3>1. vol.spc \in Nat /\ vol.DataEntrySecter \in Int
      BY <1>1 DEF VolOK
    <3>2. (file[op.f].Cluster - 2) * vol.spc \in Int
      BY <1>4, <3>1
    <3> QED BY <1>3, <3>1, <3>2 DEF FirstSecter
  <2> HIDE DEF n, count
  <2>3. CardOK' /\ SdOK' /\ Agreed' /\ VolOK' /\ CacheOK' /\ phase' = "play"
    BY <1>1, <1>2, <2>1, <2>2, AfterReadKeeps
  <2>4. file' \in [Files -> FileInfo]
    <3> DEFINE fine == file[op.f].sound /\ (~r.ok \/ Block(r.cache.data).is # "junk")
               info == [file[op.f] EXCEPT !.sound = fine]
    <3>1. fine \in BOOLEAN
      OBVIOUS
    <3>2. file' = [file EXCEPT ![op.f].sound = fine]
      BY <2>1
    <3> HIDE DEF fine
    <3>3. info \in FileInfo
      BY <1>4, <3>1 DEF FileInfo
    <3>4. file' = [file EXCEPT ![op.f] = info]
      BY <3>2
    <3> HIDE DEF info
    <3> QED BY <1>3, <1>4, <3>3, <3>4
  <2>5. /\ DOMAIN op' = DOMAIN op /\ op'.f = op.f /\ op'.n = op.n
        /\ op'.step \in {"walk", "secters", "end"}
        /\ op'.s \in Nat /\ op'.ok \in BOOLEAN
    <3>1. CASE r.ok
      <4> DEFINE nread == op.nread + count
                 out == op.out \o [i \in 1 .. count |->
                                     Byte(r.cache.data, op.pos + i - 1)]
      <4>1. op' = [op EXCEPT !.s = op.s + 1, !.nread = nread, !.pos = 0, !.out = out]
        BY <2>1, <3>1
      <4> HIDE DEF nread, out
      <4> QED BY <1>2, <1>3, <4>1 DEF ReadOp
    <3>2. CASE ~r.ok
      <4>1. op' = [op EXCEPT !.s = op.s + 1, !.ok = FALSE]
        BY <2>1, <3>2
      <4> QED BY <1>2, <1>3, <4>1 DEF ReadOp
    <3> QED BY <3>1, <3>2
  <2> QED BY <1>2, <2>3, <2>4, <2>5, ReadOpKeeps DEF IInv
<1> QED
  BY <1>5, <1>6

(* Fat_FileRead: from one cluster to the next, or to the end.              *)
LEMMA EndOfClusterKeeps == IInv /\ EndOfCluster => IInv'
<1> SUFFICES ASSUME IInv, EndOfCluster PROVE IInv'
  OBVIOUS
<1>1. CardOK /\ SdOK /\ Agreed /\ VolOK /\ CallOK /\ CacheOK
  BY DEF IInv
<1>2. ReadOp /\ phase = "play"
  BY <1>1, Kinds DEF EndOfCluster
<1>3. op.f \in Files /\ op.s \in Nat /\ op.ok \in BOOLEAN /\ op.step = "secters"
  BY <1>2 DEF ReadOp, EndOfCluster
<1>4. file \in [Files -> FileInfo] /\ file[op.f].Cluster \in Nat
  BY <1>1, <1>3 DEF CallOK, FileInfo
<1>5. CASE op.nread = op.n
  <2>1. /\ op' = [op EXCEPT !.step = "end"]
        /\ UNCHANGED <<cardVars, sdVars, phase, vol, cache, file>>
        /\ phase' = phase /\ file' = file
    BY <1>5 DEF EndOfCluster, Unmoved
  <2>2. /\ DOMAIN op' = DOMAIN op /\ op'.f = op.f /\ op'.n = op.n
        /\ op'.step \in {"walk", "secters", "end"}
        /\ op'.s \in Nat /\ op'.ok \in BOOLEAN
    BY <1>2, <1>3, <2>1 DEF ReadOp
  <2>3. CallOK'
    BY <1>2, <1>4, <2>1, <2>2, ReadOpKeeps
  <2> QED BY <2>1, <2>3, CallKeeps DEF IInv
<1>6. CASE op.nread # op.n
  <2>1. PICK x \in NextCluster(file[op.f].Cluster) :
          /\ AfterRead(x.r) /\ Advance(op.f, x)
          /\ LET ok == op.ok /\ x.next # 0
             IN op' = [op EXCEPT !.ok = ok, !.s = 0,
                                 !.step = IF ok THEN "secters" ELSE "end"]
    BY <1>6 DEF EndOfCluster
  <2>2. /\ x.next \in Nat /\ x.sound \in BOOLEAN
        /\ FatSecter(file[op.f].Cluster) \in Int
        /\ x.r \in ReadSecter(FatSecter(file[op.f].Cluster))
    BY <1>1, <1>2, <1>4, NextClusterEffect
  <2>3. CardOK' /\ SdOK' /\ Agreed' /\ VolOK' /\ CacheOK' /\ phase' = "play"
    BY <1>1, <1>2, <2>1, <2>2, AfterReadKeeps
  <2>4. file' \in [Files -> FileInfo]
    BY <1>3, <1>4, <2>1, <2>2, AdvanceKeeps
  <2>5. /\ DOMAIN op' = DOMAIN op /\ op'.f = op.f /\ op'.n = op.n
        /\ op'.step \in {"walk", "secters", "end"}
        /\ op'.s \in Nat /\ op'.ok \in BOOLEAN
    <3> DEFINE ok == op.ok /\ x.next # 0
    <3>1. ok \in BOOLEAN
      OBVIOUS
    <3>2. op' = [op EXCEPT !.ok = ok, !.s = 0, !.step = IF ok THEN "secters" ELSE "end"]
      BY <2>1
    <3> HIDE DEF ok
    <3> QED BY <1>2, <1>3, <3>1, <3>2 DEF ReadOp
  <2> QED BY <1>2, <2>3, <2>4, <2>5, ReadOpKeeps DEF IInv
<1> QED
  BY <1>5, <1>6

(* Fat_FileRead returns.                                                   *)
LEMMA ReadEndKeeps == IInv /\ ReadEnd => IInv'
<1> SUFFICES ASSUME IInv, ReadEnd PROVE IInv'
  OBVIOUS
<1>1. CallOK
  BY DEF IInv
<1>2. ReadOp
  BY <1>1, Kinds DEF ReadEnd
<1>3. op.f \in Files /\ op.n \in Nat
  BY <1>2 DEF ReadOp
<1>4. file \in [Files -> FileInfo] /\ file[op.f] \in FileInfo
  BY <1>1, <1>3 DEF CallOK
<1>5. op' = Idle /\ UNCHANGED <<cardVars, sdVars, phase, vol, cache>>
  BY DEF ReadEnd
<1>6. file' \in [Files -> FileInfo]
  <2> DEFINE read == [file[op.f] EXCEPT !.SeekPos = file[op.f].SeekPos + op.n]
             broken == [file[op.f] EXCEPT !.failed = TRUE]
  <2>1. read \in FileInfo /\ broken \in FileInfo
    <3>1. file[op.f].SeekPos + op.n \in Nat
      BY <1>3, <1>4 DEF FileInfo
    <3>2. \A pos \in Nat : [file[op.f] EXCEPT !.SeekPos = pos] \in FileInfo
      BY <1>4 DEF FileInfo
    <3>3. broken \in FileInfo
      BY <1>4 DEF FileInfo
    <3> QED BY <3>1, <3>2, <3>3
  <2>2. \/ file' = [file EXCEPT ![op.f].SeekPos = @ + op.n]
        \/ file' = [file EXCEPT ![op.f].failed = TRUE]
    BY DEF ReadEnd
  <2>3. file' = [file EXCEPT ![op.f] = read] \/ file' = [file EXCEPT ![op.f] = broken]
    BY <2>2
  <2> HIDE DEF read, broken
  <2> QED BY <1>3, <1>4, <2>1, <2>3
<1>7. CallOK'
  BY <1>5, <1>6 DEF CallOK
<1> QED
  BY <1>5, <1>7, CallKeeps DEF IInv

(* main goes back to waiting for a card.                                   *)
LEMMA RestartKeeps == IInv /\ Restart => IInv'
<1> SUFFICES ASSUME IInv, Restart PROVE IInv'
  OBVIOUS
<1>1. CardOK /\ SdOK /\ CallOK
  BY DEF IInv
<1>2. /\ phase = "play" /\ op = Idle /\ phase' = "insert" /\ vol' = NoVolume
      /\ cache' = Empty /\ file' = [f \in Files |-> Closed]
      /\ UNCHANGED <<card, sd, init, moved, op>>
  BY DEF Restart, Ready, cardVars, sdVars
<1>3. CardOK'
  BY <1>1, <1>2 DEF CardOK
<1>4. SdOK'
  BY <1>1, <1>2 DEF SdOK, Early, Steps
<1>5. Agreed'
  BY <1>1, <1>2 DEF Agreed, SdOK, KnowsCapacity, KnowsAddress, KnowsWidth, Steps
<1>6. VolOK'
  BY <1>2 DEF VolOK, Phases, NoVolume, Slots
<1>7. CallOK'
  <2>1. Closed \in FileInfo
    BY DEF Closed, FileInfo
  <2>2. file' \in [Files -> FileInfo]
    BY <1>2, <2>1
  <2> QED BY <1>2, <2>2 DEF CallOK
<1>8. CacheOK'
  BY <1>2 DEF CacheOK, Empty
<1> QED
  BY <1>3, <1>4, <1>5, <1>6, <1>7, <1>8 DEF IInv

-----------------------------------------------------------------------------
(* A card is put in or pulled, or the bus goes quiet.                      *)
LEMMA EnvironmentKeeps == IInv /\ Environment => IInv'
<1> SUFFICES ASSUME IInv, Environment PROVE IInv'
  OBVIOUS
<1>1. CardOK /\ SdOK /\ Agreed /\ VolOK /\ CallOK /\ CacheOK
  BY DEF IInv
<1>2. UNCHANGED <<sd, init, phase, vol, cache, file, op>>
  BY DEF Environment, fatVars, sdVars
<1>3. VolOK' /\ CallOK' /\ CacheOK'
  BY <1>1, <1>2 DEF VolOK, CallOK, BrowseOp, ReadOp, CacheOK
<1>4. CASE Move /\ moved' = TRUE
  <2>1. PICK k \in Slots : card' = Fresh(k)
    BY <1>4 DEF Move, Slots
  <2>2. CardOK' /\ ~Awake(card')
    BY <2>1, CardAssumption DEF CardOK, Fresh, CardRegisters, States, Slots, Awake
  <2>3. SdOK'
    BY <1>1, <1>2, <1>4 DEF SdOK
  <2>4. Agreed'
    BY <2>2 DEF Agreed
  <2> QED BY <1>3, <2>2, <2>3, <2>4 DEF IInv
<1>5. CASE Settle /\ UNCHANGED <<sdVars, fatVars>>
  <2>1. card' = card /\ moved' = moved
    BY <1>5 DEF Settle, sdVars
  <2>2. CardOK' /\ SdOK' /\ Agreed'
    BY <1>1, <1>2, <2>1 DEF CardOK, SdOK, Agreed, KnowsCapacity, KnowsAddress, KnowsWidth
  <2> QED BY <1>3, <2>2 DEF IInv
<1> QED
  BY <1>4, <1>5 DEF Environment

(* Every step keeps the invariant, and the first state has it.             *)
LEMMA StepIInv == IInv /\ [Next]_vars => IInv'
<1> SUFFICES ASSUME IInv, [Next]_vars PROVE IInv'
  OBVIOUS
<1>1. CASE Mounting
  BY <1>1, MountingKeeps
<1>2. CASE Calling
  BY <1>2, BrowseKeeps, WalkKeeps, SecterKeeps, EndOfClusterKeeps, ReadEndKeeps
     DEF Calling
<1>3. CASE Client
  <2>1. CASE Restart
    BY <2>1, RestartKeeps
  <2>2. CASE ~Restart
    <3>1. PICK f \in Files : \/ OpenCall(f)
                             \/ \E n \in ReadSizes : ReadCall(f, n)
                             \/ \E p \in SeekTargets : SeekCall(f, p)
      BY <1>3, <2>2 DEF Client
    <3> QED BY <3>1, BeginKeeps
  <2> QED BY <2>1, <2>2
<1>4. CASE Environment
  BY <1>4, EnvironmentKeeps
<1>5. CASE UNCHANGED vars
  <2>1. UNCHANGED <<cardVars, sdVars, phase, vol, cache, file, op>>
    BY <1>5 DEF vars, fatVars
  <2>2. CallOK'
    BY <2>1 DEF IInv, CallOK, BrowseOp, ReadOp
  <2> QED BY <2>1, <2>2, CallKeeps DEF IInv
<1> QED
  BY <1>1, <1>2, <1>3, <1>4, <1>5 DEF Next

LEMMA InitIInv == Init => IInv
<1> SUFFICES ASSUME Init PROVE IInv
  OBVIOUS
<1>1. CardOK
  BY CardAssumption DEF Init, CardInit, CardOK, Fresh, CardRegisters, States, Slots
<1>2. SdOK
  BY DEF Init, SdInit, SdOK, NoInfo, Early, Steps
<1>3. Agreed
  BY DEF Init, CardInit, SdInit, Agreed, Awake, Fresh, KnowsCapacity, KnowsAddress,
         KnowsWidth, Steps
<1>4. VolOK
  BY DEF Init, VolOK, Phases, NoVolume, Slots
<1>5. CallOK
  <2>1. Closed \in FileInfo
    BY DEF Closed, FileInfo
  <2> QED BY <2>1 DEF Init, CallOK
<1>6. CacheOK
  BY DEF Init, CacheOK, Empty
<1> QED
  BY <1>1, <1>2, <1>3, <1>4, <1>5, <1>6 DEF IInv

LEMMA Invariance == Spec => []IInv
<1> QED
  BY InitIInv, StepIInv, PTL DEF Spec

-----------------------------------------------------------------------------
(* CardAgrees (SDLIB_Init): when the initialisation has succeeded and the  *)
(* card was not changed since, the library's address, its capacity bit and *)
(* its bus width are those of the card, however noisy the bus was and      *)
(* however often cards were changed, initialised and given up before.      *)
THEOREM CardAgreement == Spec => []CardAgrees
<1>1. IInv => CardAgrees
  BY DEF IInv, SdOK, Agreed, KnowsCapacity, KnowsAddress, KnowsWidth, CardAgrees,
         CardOK, CardRegisters, Awake, Steps
<1> QED
  BY <1>1, Invariance, PTL

(* CacheHoldsItsSecter (fatReadSecter): at every moment, inside calls too, *)
(* a sector buffer with an index holds that sector of the mounted card or  *)
(* the junk the bus made of it; the FAT, the directory and the data of     *)
(* both files share the buffer, and no removal, failed read or remount     *)
(* leaves another sector, another card's or half a block behind the index. *)
THEOREM CacheCorrect == Spec => []CacheHoldsItsSecter
<1>1. IInv => CacheHoldsItsSecter
  BY DEF IInv, CacheOK, CacheHoldsItsSecter
<1> QED
  BY <1>1, Invariance, PTL

-----------------------------------------------------------------------------
(* What holds of the streams.  First where the regions of a card begin: of *)
(* the FAT, the root directory and the clusters.                           *)
Fats == {FAT16, FAT32}
FatAt(k) == Volume[k].start + Volume[k].rsvd
RootAt(k) == FatAt(k) + Volume[k].nfats * Volume[k].fatsz
RootSize(k) == (Volume[k].rootcnt * DirEntrySize + (BlockSize - 1)) \div BlockSize
DataAt(k) == RootAt(k) + RootSize(k)

(* A volume that was mounted in calm: the card stays selected, and every   *)
(* block it sends arrives as it is.                                        *)
CalmOK ==
  /\ phase \in {"insert", "mount"} /\ init = "done" /\ ~moved =>
       card.st = "tran" /\ ~card.err
  /\ phase \in {"mbr", "br", "play"} /\ vol.calm => ~noise /\ card.st = "tran" /\ ~card.err
  /\ phase = "play" /\ vol.calm =>
       /\ cache.index # -1 => cache.data # Junk
       /\ \A f \in Files : file[f].sound /\ ~file[f].failed

(* What a sound volume says of its card.                                   *)
Mounted(k) ==
  /\ vol.type \in Fats /\ vol.type = Volume[k].type /\ vol.start = Volume[k].start
MountOK ==
  /\ phase = "br" /\ vol.sound /\ Awake(card) => Mounted(card.id)
  /\ phase = "play" /\ vol.sound =>
       /\ Mounted(vol.card) /\ Volume[vol.card].bps = BlockSize
       /\ vol.spc = Volume[vol.card].spc /\ vol.FatEntrySecter = FatAt(vol.card)
       /\ vol.RootDirectoryEntrySecter = RootAt(vol.card)
       /\ vol.DataEntrySecter = DataAt(vol.card)

(* The file that is being read, one whose read has failed, and the place   *)
(* in the file that its read has come to.                                  *)
Reading(f) == op.step \in {"walk", "secters", "end"} /\ op.f = f
Lost(f) == Reading(f) /\ ~op.ok
Reached(f) == file[f].SeekPos + IF Reading(f) THEN op.nread ELSE 0

(* The handle of a sound stream.                                           *)
StreamOK(f) ==
  LET i == file[f]
      e == EntryOf(vol.card, f)
  IN i.IsOpened =>
     /\ phase = "play"
     /\ i.sound =>
       /\ vol.sound /\ e.is = "file" /\ i.first = e.first /\ i.size = e.size
       /\ i.SeekPos <= i.size
       /\ ~i.failed /\ ~Lost(f) =>
            /\ i.ClusterSeq * BytesPerCluster <= Reached(f)
            /\ i.Cluster = Clusters(vol.card, e)[i.ClusterSeq]

(* The locals of a read: where in the file the loop over the sectors of a  *)
(* cluster is, and what it has copied.                                     *)
ReadCallOK ==
  op.step \in {"walk", "secters", "end"} =>
    LET i == file[op.f]
        at == i.SeekPos + op.nread
    IN /\ i.IsOpened /\ ~i.failed
       /\ op.nread \in 0 .. op.n /\ op.pos \in Int
       /\ op.step = "walk" => op.ok
       /\ vol.calm => op.ok
       /\ op.ok /\ i.sound =>
            /\ i.SeekPos + op.n <= i.size /\ op.pos \in Nat
            /\ op.out = SubSeq(FileBytes[vol.card][op.f], i.SeekPos + 1, at)
            /\ op.step = "walk" =>
                 op.nread = 0 /\ op.s = 0 /\ i.ClusterSeq * BytesPerCluster + op.pos = at
            /\ op.step = "secters" /\ op.nread < op.n =>
                 /\ op.s <= vol.spc /\ op.s * BlockSize + op.pos <= BytesPerCluster
                 /\ i.ClusterSeq * BytesPerCluster + (op.s * BlockSize + op.pos) = at
            /\ op.step = "end" => op.nread = op.n

(* The locals of an open: what the entries passed were.                    *)
BrowseOK ==
  op.step = "browse" =>
    LET r == Volume[vol.card].root IN
    /\ vol.sound /\ op.i <= Len(r) /\ op.long \in BOOLEAN
    /\ \A j \in 1 .. op.i : r[j].is = "file" => r[j].of # op.f
    /\ op.long <=> op.i > 0 /\ r[op.i].is = "long"
    /\ op.long => op.order = r[op.i].ord - 1 /\ op.name = r[op.i].name
    /\ ~op.long => op.order = 0

RInv == CalmOK /\ MountOK /\ (\A f \in Files : StreamOK(f)) /\ ReadCallOK /\ BrowseOK

-----------------------------------------------------------------------------
(* The recursion of FlattenSeq defines a function: h[m] is the first m of  *)
(* the sequences in q, one after the other.                                *)
IsFlat(h, q, m, S) ==
  /\ h \in [1 .. m -> Seq(S)]
  /\ m > 0 => h[1] = q[1]
  /\ \A i \in 1 .. m - 1 : h[i + 1] = h[i] \o q[i + 1]

LEMMA FlatExists ==
  ASSUME NEW S, NEW n \in Nat, NEW q \in [1 .. n -> Seq(S)]
  PROVE  \A m \in 0 .. n : \E h : IsFlat(h, q, m, S)
<1> DEFINE T == {m \in 0 .. n : ~ \E h : IsFlat(h, q, m, S)}
<1> SUFFICES ASSUME T # {} PROVE FALSE
  OBVIOUS
<1>1. PICK m \in T : \A y \in T : ~(y < m)
  <2>1. T \subseteq Nat
    OBVIOUS
  <2> HIDE DEF T
  <2> QED BY <2>1, NatMin
<1>2. m # 0
  <2>1. IsFlat([i \in 1 .. 0 |-> <<>>], q, 0, S)
    BY DEF IsFlat
  <2> QED BY <2>1
<1>3. m \in Nat /\ m - 1 \in 0 .. n /\ m \in 1 .. n
  BY <1>2
<1>4. PICK g : IsFlat(g, q, m - 1, S)
  <2>1. m - 1 \notin T
    <3>1. m - 1 < m
      BY <1>3
    <3> HIDE DEF T
    <3> QED BY <1>1, <3>1
  <2> QED BY <2>1, <1>3
<1> DEFINE z == IF m = 1 THEN q[1] ELSE g[m - 1] \o q[m]
           h == [i \in 1 .. m |-> IF i = m THEN z ELSE g[i]]
<1>5. z \in Seq(S)
  <2>1. CASE m = 1
    BY <2>1, <1>3
  <2>2. CASE m # 1
    <3>1. m - 1 \in 1 .. m - 1 /\ q[m] \in Seq(S)
      BY <2>2, <1>3
    <3>2. g[m - 1] \in Seq(S)
      BY <3>1, <1>4 DEF IsFlat
    <3> QED BY <3>1, <3>2, <2>2
  <2> QED BY <2>1, <2>2
<1>6. IsFlat(h, q, m, S)
  <2>1. h \in [1 .. m -> Seq(S)]
    <3> HIDE DEF z
    <3> SUFFICES ASSUME NEW i \in 1 .. m PROVE h[i] \in Seq(S)
      OBVIOUS
    <3>1. i # m => i \in 1 .. m - 1
      BY <1>3
    <3> QED BY <3>1, <1>4, <1>5 DEF IsFlat
  <2>2. h[1] = q[1]
    <3>1. CASE m = 1
      BY <3>1
    <3>2. CASE m # 1
      <4>1. h[1] = g[1] /\ m - 1 > 0
        BY <3>2, <1>3
      <4> QED BY <4>1, <1>4 DEF IsFlat
    <3> QED BY <3>1, <3>2
  <2>3. ASSUME NEW i \in 1 .. m - 1 PROVE h[i + 1] = h[i] \o q[i + 1]
    <3>1. h[i] = g[i] /\ m # 1
      BY <1>3
    <3>2. CASE i = m - 1
      <4>1. i + 1 = m
        BY <3>2, <1>3
      <4>2. h[m] = z /\ z = g[m - 1] \o q[m]
        <5> HIDE DEF z
        <5>1. h[m] = z
          BY <1>3
        <5> QED BY <5>1, <3>1 DEF z
      <4> HIDE DEF h, z
      <4> QED BY <3>1, <3>2, <4>1, <4>2
    <3>3. CASE i # m - 1
      <4>1. i \in 1 .. (m - 1) - 1 /\ i + 1 # m /\ i + 1 \in 1 .. m
        BY <3>3, <1>3
      <4>2. g[i + 1] = g[i] \o q[i + 1]
        BY <4>1, <1>4 DEF IsFlat
      <4>3. h[i + 1] = g[i + 1]
        BY <4>1
      <4> QED BY <4>2, <4>3, <3>1
    <3> QED BY <3>2, <3>3
  <2> QED BY <2>1, <2>2, <2>3 DEF IsFlat
<1> QED
  BY <1>6, <1>1

(* The place of element j of the i-th of some sequences of length L.       *)
Place(i, j, L) == (i - 1) * L + j
InOrder(f, q, n, L) == \A i \in 1 .. n : \A j \in 1 .. L : f[Place(i, j, L)] = q[i][j]

(* Sequences of one length one after the other: element j of sequence i.   *)
LEMMA FlatIs ==
  ASSUME NEW S, NEW n \in Nat, NEW q \in [1 .. n -> Seq(S)], NEW L \in Nat,
         \A i \in 1 .. n : Len(q[i]) = L
  PROVE  /\ FlattenSeq(q) \in Seq(S) /\ Len(FlattenSeq(q)) = n * L
         /\ InOrder(FlattenSeq(q), q, n, L)
<1>0. Len(q) = n
  OBVIOUS
<1>1. CASE n = 0
  <2>1. FlattenSeq(q) = q /\ q \in Seq(S) /\ n * L = 0
    BY <1>0, <1>1 DEF FlattenSeq
  <2> QED BY <2>1, <1>0, <1>1 DEF InOrder
<1>2. CASE n # 0
  <2> DEFINE p == CHOOSE p : p = [i \in 1 .. n |-> IF i = 1 THEN q[i] ELSE p[i - 1] \o q[i]]
  <2>1. PICK f : IsFlat(f, q, n, S)
    <3>1. n \in 0 .. n
      OBVIOUS
    <3> QED BY <3>1, FlatExists
  <2>2. f = [i \in 1 .. n |-> IF i = 1 THEN q[i] ELSE f[i - 1] \o q[i]]
    <3>1. ASSUME NEW i \in 1 .. n
          PROVE  f[i] = IF i = 1 THEN q[i] ELSE f[i - 1] \o q[i]
      <4>1. CASE i = 1
        BY <4>1, <2>1 DEF IsFlat
      <4>2. CASE i # 1
        <5>1. i - 1 \in 1 .. n - 1 /\ (i - 1) + 1 = i
          BY <4>2
        <5>2. f[(i - 1) + 1] = f[i - 1] \o q[(i - 1) + 1]
          BY <5>1, <2>1 DEF IsFlat
        <5> QED BY <4>2, <5>1, <5>2
      <4> QED BY <4>1, <4>2
    <3>2. f = [i \in 1 .. n |-> f[i]]
      BY <2>1 DEF IsFlat
    <3> QED BY <3>1, <3>2, Zenon
  <2>3. p = [i \in 1 .. n |-> IF i = 1 THEN q[i] ELSE p[i - 1] \o q[i]]
    BY <2>2, Zenon
  <2>4. FlattenSeq(q) = p[n]
    BY <1>0, <1>2, Zenon DEF FlattenSeq
  <2> HIDE DEF p
  <2> DEFINE Fine(m) == /\ p[m] \in Seq(S) /\ Len(p[m]) = m * L
                        /\ \A i \in 1 .. m : \A j \in 1 .. L :
                             p[m][Place(i, j, L)] = q[i][j]
             T == {m \in 1 .. n : ~Fine(m)}
  <2>5. T = {}
    <3> SUFFICES ASSUME T # {} PROVE FALSE
      OBVIOUS
    <3>1. PICK m \in T : \A y \in T : ~(y < m)
      <4>1. T \subseteq Nat
        OBVIOUS
      <4> HIDE DEF T
      <4> QED BY <4>1, NatMin
    <3>2. m \in 1 .. n /\ ~Fine(m)
      OBVIOUS
    <3>3. CASE m = 1
      <4>1. p[1] = q[1] /\ 1 \in 1 .. n
        BY <2>3, <1>2
      <4>2. Len(q[1]) = L /\ q[1] \in Seq(S) /\ 1 * L = L /\ (1 - 1) * L = 0
        BY <4>1
      <4>3. ASSUME NEW i \in 1 .. 1, NEW j \in 1 .. L
            PROVE  p[1][Place(i, j, L)] = q[i][j]
        <5>1. i = 1
          OBVIOUS
        <5>2. Place(i, j, L) = j
          BY <4>2, <5>1 DEF Place
        <5> QED BY <4>1, <5>1, <5>2
      <4> QED BY <3>2, <3>3, <4>1, <4>2, <4>3
    <3>4. CASE m # 1
      <4>1. m - 1 \in 1 .. n /\ m - 1 < m /\ m \in 1 .. n
        BY <3>2, <3>4
      <4>2. Fine(m - 1)
        <5> HIDE DEF Fine
        <5> QED BY <3>1, <4>1
      <4>3. p[m] = p[m - 1] \o q[m]
        BY <2>3, <3>4, <4>1
      <4> DEFINE a == p[m - 1]
                 b == q[m]
                 k == (m - 1) * L
      <4>4. a \in Seq(S) /\ b \in Seq(S) /\ Len(a) = k /\ Len(b) = L
        BY <4>1, <4>2
      <4>5. k \in Nat /\ k + L = m * L
        BY <4>1
      <4>6. \A i \in 1 .. m - 1 : \A j \in 1 .. L : a[Place(i, j, L)] = q[i][j]
        BY <4>2
      <4>7. p[m] = a \o b /\ b = q[m] /\ k = (m - 1) * L
        BY <4>3
      <4> HIDE DEF a, b, k, Fine, T
      <4>8. /\ a \o b \in Seq(S) /\ Len(a \o b) = k + L
            /\ \A i \in 1 .. k + L : (a \o b)[i] = IF i <= k THEN a[i] ELSE b[i - k]
        BY <4>4, ConcatProperties
      <4>9. ASSUME NEW i \in 1 .. m, NEW j \in 1 .. L
            PROVE  p[m][Place(i, j, L)] = q[i][j]
        <5>1. CASE i = m
          <6>1. k + j \in 1 .. k + L /\ ~(k + j <= k) /\ (k + j) - k = j
            BY <4>5
          <6>2. (a \o b)[k + j] = b[j]
            BY <4>8, <6>1
          <6>3. Place(m, j, L) = k + j
            BY <4>7 DEF Place
          <6> QED BY <5>1, <6>2, <6>3, <4>7
        <5>2. CASE i # m
          <6>1. i \in 1 .. m - 1 /\ i <= m - 1
            BY <5>2, <4>1
          <6> DEFINE x == (i - 1) * L
          <6>2. x \in Nat /\ x + L <= k
            <7>1. (m - 1 - i) * L \in Nat /\ i * L \in Nat
              BY <6>1, <4>1
            <7>2. k = (m - 1 - i) * L + i * L /\ i * L = x + L
              BY <4>7, <4>1
            <7>3. x \in Nat
              BY <6>1
            <7> HIDE DEF x
            <7> QED BY <7>1, <7>2, <7>3
          <6>3. a[x + j] = q[i][j]
            BY <6>1, <4>6 DEF Place
          <6> HIDE DEF x
          <6>4. x + j \in 1 .. k + L /\ x + j <= k
            BY <6>2, <4>5
          <6>5. (a \o b)[x + j] = a[x + j]
            BY <4>8, <6>4
          <6>6. p[m][x + j] = q[i][j]
            BY <6>3, <6>5, <4>7
          <6>7. Place(i, j, L) = x + j
            BY DEF Place, x
          <6> QED BY <6>6, <6>7
        <5> QED BY <5>1, <5>2
      <4>10. Fine(m)
        BY <4>5, <4>7, <4>8, <4>9 DEF Fine
      <4> QED BY <4>10, <3>2
    <3> QED BY <3>3, <3>4
  <2>6. Fine(n)
    <3>1. n \in 1 .. n
      BY <1>2
    <3> HIDE DEF Fine
    <3> QED BY <2>5, <3>1
  <2> QED BY <2>4, <2>6 DEF InOrder
<1> QED
  BY <1>1, <1>2

-----------------------------------------------------------------------------
(* The layout of a card.                                                   *)
Blank1 == [is |-> "blank"]
Table1(kind, first) == [is |-> kind, first |-> first]
Data1(c, s) == [is |-> "data", cluster |-> c, secter |-> s]
Blocks ==
  {[is |-> x] : x \in {"mbr", "br", "blank"}}
    \cup {Table1(x, y) : x \in {"fat", "root"}, y \in Int}
    \cup {Data1(c, s) : c \in Int, s \in Int}

LEMMA BlankIs ==
  ASSUME NEW n \in Nat
  PROVE  Blank(n) \in Seq(Blocks) /\ Len(Blank(n)) = n
<1> DEFINE b == [is |-> "blank"]
<1>1. b \in Blocks
  BY DEF Blocks
<1>2. Blank(n) = [i \in 1 .. n |-> b]
  BY DEF Blank
<1> HIDE DEF b
<1> QED BY <1>1, <1>2

LEMMA TableBlocksIs ==
  ASSUME NEW kind \in {"fat", "root"}, NEW n \in Nat, NEW es, BlockSize \div es \in Nat
  PROVE  /\ TableBlocks(kind, n, es) \in Seq(Blocks) /\ Len(TableBlocks(kind, n, es)) = n
         /\ \A i \in 1 .. n :
              TableBlocks(kind, n, es)[i] = Table1(kind, (i - 1) * (BlockSize \div es))
<1> DEFINE d == BlockSize \div es
           b(i) == Table1(kind, (i - 1) * d)
<1>1. TableBlocks(kind, n, es) = [i \in 1 .. n |-> b(i)]
  BY DEF TableBlocks, Table1
<1>2. \A i \in 1 .. n : b(i) \in Blocks
  <2> SUFFICES ASSUME NEW i \in 1 .. n PROVE b(i) \in Blocks
    OBVIOUS
  <2> HIDE DEF d
  <2>0. d \in Nat
    BY DEF d
  <2>1. (i - 1) * d \in Int
    BY <2>0
  <2> QED BY <2>1 DEF Blocks
<1> HIDE DEF b
<1>3. TableBlocks(kind, n, es) \in Seq(Blocks) /\ Len(TableBlocks(kind, n, es)) = n
  BY <1>1, <1>2
<1>4. \A i \in 1 .. n : TableBlocks(kind, n, es)[i] = b(i)
  BY <1>1
<1> QED BY <1>3, <1>4 DEF b

LEMMA ClusterBlocksIs ==
  ASSUME NEW v, v.spc \in Nat, NEW c \in Int
  PROVE  /\ ClusterBlocks(v, c) \in Seq(Blocks) /\ Len(ClusterBlocks(v, c)) = v.spc
         /\ \A i \in 1 .. v.spc : ClusterBlocks(v, c)[i] = Data1(c, i - 1)
<1> DEFINE b(i) == Data1(c, i - 1)
           n == v.spc
<1>1. ClusterBlocks(v, c) = [i \in 1 .. n |-> b(i)]
  BY DEF ClusterBlocks, Data1
<1>2. \A i \in 1 .. n : b(i) \in Blocks
  BY DEF Blocks
<1>0. n \in Nat
  OBVIOUS
<1> HIDE DEF b, n
<1>3. ClusterBlocks(v, c) \in Seq(Blocks) /\ Len(ClusterBlocks(v, c)) = n
  BY <1>0, <1>1, <1>2
<1>4. \A i \in 1 .. n : ClusterBlocks(v, c)[i] = b(i)
  BY <1>1
<1> QED BY <1>3, <1>4 DEF b, n

(* One sequence behind another.                                            *)
LEMMA Behind ==
  ASSUME NEW S, NEW s \in Seq(S), NEW t \in Seq(S)
  PROVE  /\ s \o t \in Seq(S) /\ Len(s \o t) = Len(s) + Len(t)
         /\ \A i \in 1 .. Len(s) : (s \o t)[i] = s[i]
         /\ \A i \in 1 .. Len(t) : (s \o t)[Len(s) + i] = t[i]
<1>1. Len(s) \in Nat /\ Len(t) \in Nat
  OBVIOUS
<1>2. /\ s \o t \in Seq(S) /\ Len(s \o t) = Len(s) + Len(t)
      /\ \A i \in 1 .. Len(s) + Len(t) :
           (s \o t)[i] = IF i <= Len(s) THEN s[i] ELSE t[i - Len(s)]
  BY ConcatProperties
<1>3. ASSUME NEW i \in 1 .. Len(t) PROVE (s \o t)[Len(s) + i] = t[i]
  <2>1. Len(s) + i \in 1 .. Len(s) + Len(t) /\ ~(Len(s) + i <= Len(s))
        /\ (Len(s) + i) - Len(s) = i
    BY <1>1
  <2> QED BY <1>2, <2>1
<1>4. ASSUME NEW i \in 1 .. Len(s) PROVE (s \o t)[i] = s[i]
  <2>1. i \in 1 .. Len(s) + Len(t) /\ i <= Len(s)
    BY <1>1
  <2> QED BY <1>2, <2>1
<1> QED BY <1>2, <1>3, <1>4

ClusterCount(k) == Cardinality(DOMAIN Volume[k].chain)

(* The numbers that describe a card.                                       *)
LEMMA VolumeIs ==
  ASSUME NEW k \in Cards, RegionsFit(Volume[k])
  PROVE  LET v == Volume[k] IN
         /\ v.start \in Nat \ {0} /\ v.rsvd \in Nat \ {0} /\ v.nfats \in Nat \ {0}
         /\ v.spc \in Nat \ {0} /\ v.fatsz \in Nat /\ v.rootcnt \in Nat
         /\ ClusterCount(k) \in Nat /\ ClusterCount(k) > 2
         /\ DOMAIN v.chain = 0 .. ClusterCount(k) - 1
         /\ FatEntrySize(v.type) \in {1, 2}
         /\ BlockSize \div FatEntrySize(v.type) \in Nat \ {0}
         /\ FatEntrySize(v.type) * (BlockSize \div FatEntrySize(v.type)) = BlockSize
         /\ FatAt(k) \in Nat /\ RootAt(k) \in Nat /\ RootSize(k) \in Nat /\ DataAt(k) \in Nat
         /\ \A c \in DOMAIN v.chain : v.chain[c] \in Nat
<1> DEFINE v == Volume[k]
           es == FatEntrySize(v.type)
<1>1. v.start \in Nat /\ v.rsvd \in Nat /\ v.nfats \in Nat /\ v.fatsz \in Nat
      /\ v.rootcnt \in Nat /\ v.spc \in Nat /\ \A c \in DOMAIN v.chain : v.chain[c] \in Nat
  <2>1. \A x \in {"type", "start", "rsvd", "nfats", "fatsz", "rootcnt", "spc"} : v[x] \in Nat
    BY VolumeAssumption
  <2> QED BY <2>1, VolumeAssumption
<1>2. /\ v.start > 0 /\ v.rsvd > 0 /\ v.nfats > 0 /\ v.spc > 0
      /\ ClusterCount(k) \in Nat /\ ClusterCount(k) > 2
      /\ DOMAIN v.chain = 0 .. ClusterCount(k) - 1
      /\ BlockSize % es = 0
  BY DEF RegionsFit, ClusterCount, RootClus
<1>3. es \in {1, 2}
  BY DEF FatEntrySize
<1>4. BlockSize \in Nat \ {0, 1}
  BY CardAssumption
<1> HIDE DEF es
<1>5. BlockSize \div es \in Nat /\ BlockSize = es * (BlockSize \div es) + (BlockSize % es)
  <2>1. es \in Nat \ {0} /\ BlockSize \in Nat
    BY <1>3, <1>4
  <2> QED BY <2>1, DivMod
<1>6. BlockSize = es * (BlockSize \div es) /\ BlockSize \div es # 0
  BY <1>2, <1>3, <1>4, <1>5
<1>7. FatAt(k) \in Nat /\ RootAt(k) \in Nat
  <2>1. v.nfats * v.fatsz \in Nat
    BY <1>1
  <2> QED BY <1>1, <2>1 DEF FatAt, RootAt
<1>8. RootSize(k) \in Nat
  <2> DEFINE x == v.rootcnt * DirEntrySize + (BlockSize - 1)
  <2>1. x \in Nat
    BY <1>1, <1>4 DEF DirEntrySize
  <2>2. x \div BlockSize \in Nat
    <3> HIDE DEF x
    <3> QED BY <2>1, <1>4, DivMod
  <2> QED BY <2>2 DEF RootSize
<1>9. DataAt(k) \in Nat
  BY <1>7, <1>8 DEF DataAt
<1>10. es \in {1, 2} /\ BlockSize \div es \in Nat \ {0} /\ es * (BlockSize \div es) = BlockSize
  BY <1>3, <1>5, <1>6
<1>11. /\ FatEntrySize(v.type) \in {1, 2}
       /\ BlockSize \div FatEntrySize(v.type) \in Nat \ {0}
       /\ FatEntrySize(v.type) * (BlockSize \div FatEntrySize(v.type)) = BlockSize
  BY <1>10, Zenon DEF es
<1>12. /\ v.start \in Nat \ {0} /\ v.rsvd \in Nat \ {0} /\ v.nfats \in Nat \ {0}
       /\ v.spc \in Nat \ {0}
  BY <1>1, <1>2
<1> QED
  BY <1>1, <1>2, <1>7, <1>8, <1>9, <1>11, <1>12, ZenonT(30)

(* Where the blocks of the FAT, of the root directory and of the clusters  *)
(* are.                                                                    *)
Layout(k) ==
  LET v == Volume[k] IN
  /\ Image[k] \in Seq(Blocks)
  /\ Len(Image[k]) = DataAt(k) + (ClusterCount(k) - 2) * v.spc
  /\ \A j \in 1 .. v.fatsz :
       Image[k][FatAt(k) + j] = Table1("fat", (j - 1) * (BlockSize \div FatEntrySize(v.type)))
  /\ \A j \in 1 .. RootSize(k) :
       Image[k][RootAt(k) + j] = Table1("root", (j - 1) * (BlockSize \div DirEntrySize))
  /\ \A c \in 2 .. ClusterCount(k) - 1 : \A s \in 1 .. v.spc :
       Image[k][DataAt(k) + ((c - 2) * v.spc + s)] =
         IF v.type = 11 /\ c = RootClus
           THEN Table1("root", (s - 1) * (BlockSize \div DirEntrySize))
           ELSE Data1(c, s - 1)

LEMMA LayoutIs ==
  ASSUME NEW k \in Cards, RegionsFit(Volume[k])
  PROVE  Layout(k)
<1> DEFINE v == Volume[k]
           n == ClusterCount(k) - 2
           es == FatEntrySize(v.type)
           fats == [i \in 1 .. v.nfats |-> TableBlocks("fat", v.fatsz, es)]
           clus(i) == IF v.type = 11 /\ i + 1 = RootClus
                        THEN TableBlocks("root", v.spc, DirEntrySize)
                        ELSE ClusterBlocks(v, i + 1)
           clusters == [i \in 1 .. n |-> clus(i)]
           A == <<[is |-> "mbr"]>>
           B == Blank(v.start - 1)
           C == <<[is |-> "br"]>>
           D == Blank(v.rsvd - 1)
           E == FlattenSeq(fats)
           F == TableBlocks("root", RootSize(k), DirEntrySize)
           G == FlattenSeq(clusters)
           P1 == A \o B
           P2 == P1 \o C
           P3 == P2 \o D
           P4 == P3 \o E
           P5 == P4 \o F
<1>1. Image[k] = P5 \o G
  BY DEF Image, ClusterCount, RootSize
<1>2. /\ v.start \in Nat \ {0} /\ v.rsvd \in Nat \ {0} /\ v.nfats \in Nat \ {0}
      /\ v.spc \in Nat \ {0} /\ v.fatsz \in Nat /\ n \in Nat \ {0}
      /\ BlockSize \div es \in Nat /\ BlockSize \div DirEntrySize \in Nat
      /\ FatAt(k) \in Nat /\ RootAt(k) \in Nat /\ RootSize(k) \in Nat /\ DataAt(k) \in Nat
  <2>1. BlockSize \div DirEntrySize \in Nat
    <3>1. BlockSize \in Nat /\ DirEntrySize \in Nat \ {0}
      BY CardAssumption DEF DirEntrySize
    <3> QED BY <3>1, DivMod
  <2>2. /\ v.start \in Nat \ {0} /\ v.rsvd \in Nat \ {0} /\ v.nfats \in Nat \ {0}
        /\ v.spc \in Nat \ {0} /\ v.fatsz \in Nat
        /\ ClusterCount(k) \in Nat /\ ClusterCount(k) > 2
        /\ BlockSize \div es \in Nat \ {0}
        /\ FatAt(k) \in Nat /\ RootAt(k) \in Nat /\ RootSize(k) \in Nat /\ DataAt(k) \in Nat
    BY VolumeIs
  <2>3. n \in Nat \ {0}
    BY <2>2
  <2> HIDE DEF es, n
  <2> QED BY <2>1, <2>2, <2>3
<1> DEFINE fw == v.nfats * v.fatsz
           cw == n * v.spc
<1>21. fw \in Nat /\ cw \in Nat
  <2> HIDE DEF v, n
  <2> QED BY <1>2
<1>22. /\ FatAt(k) = v.start + v.rsvd /\ RootAt(k) = FatAt(k) + fw
       /\ DataAt(k) = RootAt(k) + RootSize(k)
  BY DEF FatAt, RootAt, DataAt
<1> HIDE DEF v, n, es
<1>3. A \in Seq(Blocks) /\ Len(A) = 1 /\ C \in Seq(Blocks) /\ Len(C) = 1
  BY DEF Blocks
<1>4. B \in Seq(Blocks) /\ Len(B) = v.start - 1 /\ D \in Seq(Blocks) /\ Len(D) = v.rsvd - 1
  <2>1. v.start - 1 \in Nat /\ v.rsvd - 1 \in Nat
    BY <1>2
  <2> QED BY <2>1, BlankIs
<1> DEFINE tab == TableBlocks("fat", v.fatsz, es)
<1>5. /\ tab \in Seq(Blocks) /\ Len(tab) = v.fatsz
      /\ \A j \in 1 .. v.fatsz : tab[j] = Table1("fat", (j - 1) * (BlockSize \div es))
  BY <1>2, TableBlocksIs
<1>6. /\ F \in Seq(Blocks) /\ Len(F) = RootSize(k)
      /\ \A j \in 1 .. RootSize(k) :
           F[j] = Table1("root", (j - 1) * (BlockSize \div DirEntrySize))
  BY <1>2, TableBlocksIs
<1>7. /\ E \in Seq(Blocks) /\ Len(E) = fw
      /\ \A j \in 1 .. v.fatsz : E[j] = tab[j]
  <2>1. /\ fats \in [1 .. v.nfats -> Seq(Blocks)]
        /\ \A i \in 1 .. v.nfats : Len(fats[i]) = v.fatsz
    <3>1. fats = [i \in 1 .. v.nfats |-> tab]
      OBVIOUS
    <3> HIDE DEF tab
    <3> QED BY <3>1, <1>5
  <2>2. /\ E \in Seq(Blocks) /\ Len(E) = fw
        /\ \A i \in 1 .. v.nfats : \A j \in 1 .. v.fatsz : E[Place(i, j, v.fatsz)] = fats[i][j]
    <3>1. v.nfats \in Nat /\ v.fatsz \in Nat
      BY <1>2
    <3> HIDE DEF fats
    <3>2. /\ E \in Seq(Blocks) /\ Len(E) = v.nfats * v.fatsz
          /\ InOrder(E, fats, v.nfats, v.fatsz)
      BY <2>1, <3>1, FlatIs
    <3> QED BY <3>2 DEF InOrder
  <2>3. 1 \in 1 .. v.nfats /\ fats[1] = tab /\ \A j \in 1 .. v.fatsz : Place(1, j, v.fatsz) = j
    BY <1>2 DEF Place
  <2> HIDE DEF E, fats, tab
  <2>4. ASSUME NEW j \in 1 .. v.fatsz PROVE E[j] = tab[j]
    <3>1. E[Place(1, j, v.fatsz)] = fats[1][j] /\ Place(1, j, v.fatsz) = j
      BY <2>2, <2>3
    <3> QED BY <3>1, <2>3
  <2> QED BY <2>2, <2>4
<1>8. ASSUME NEW m \in 1 .. n
      PROVE  /\ clus(m) \in Seq(Blocks) /\ Len(clus(m)) = v.spc
             /\ \A s \in 1 .. v.spc : clus(m)[s] =
                  IF v.type = 11 /\ m + 1 = RootClus
                    THEN Table1("root", (s - 1) * (BlockSize \div DirEntrySize))
                    ELSE Data1(m + 1, s - 1)
  <2>1. CASE v.type = 11 /\ m + 1 = RootClus
    <3>1. /\ TableBlocks("root", v.spc, DirEntrySize) \in Seq(Blocks)
          /\ Len(TableBlocks("root", v.spc, DirEntrySize)) = v.spc
          /\ \A s \in 1 .. v.spc : TableBlocks("root", v.spc, DirEntrySize)[s] =
               Table1("root", (s - 1) * (BlockSize \div DirEntrySize))
      BY <1>2, TableBlocksIs
    <3> QED BY <2>1, <3>1
  <2>2. CASE ~(v.type = 11 /\ m + 1 = RootClus)
    <3>1. m + 1 \in Int
      OBVIOUS
    <3>2. /\ ClusterBlocks(v, m + 1) \in Seq(Blocks) /\ Len(ClusterBlocks(v, m + 1)) = v.spc
          /\ \A s \in 1 .. v.spc : ClusterBlocks(v, m + 1)[s] = Data1(m + 1, s - 1)
      BY <1>2, <3>1, ClusterBlocksIs
    <3> QED BY <2>2, <3>2
  <2> QED BY <2>1, <2>2
<1>9. /\ G \in Seq(Blocks) /\ Len(G) = cw
      /\ \A i \in 1 .. n : \A s \in 1 .. v.spc : G[Place(i, s, v.spc)] = clus(i)[s]
  <2> HIDE DEF clus
  <2>1. /\ clusters \in [1 .. n -> Seq(Blocks)]
        /\ \A i \in 1 .. n : Len(clusters[i]) = v.spc
        /\ \A i \in 1 .. n : clusters[i] = clus(i)
    BY <1>8
  <2>2. /\ G \in Seq(Blocks) /\ Len(G) = cw
        /\ \A i \in 1 .. n : \A s \in 1 .. v.spc : G[Place(i, s, v.spc)] = clusters[i][s]
    <3>1. n \in Nat /\ v.spc \in Nat
      BY <1>2
    <3> HIDE DEF clusters
    <3>2. /\ G \in Seq(Blocks) /\ Len(G) = n * v.spc
          /\ InOrder(G, clusters, n, v.spc)
      BY <2>1, <3>1, FlatIs
    <3> QED BY <3>2 DEF InOrder
  <2> HIDE DEF clusters, G
  <2> QED BY <2>1, <2>2
<1> HIDE DEF A, B, C, D, E, F, G, tab, clus
<1>a. v.start \in Nat /\ v.rsvd \in Nat /\ v.fatsz \in Nat /\ Len(B) = v.start - 1
      /\ Len(D) = v.rsvd - 1 /\ Len(A) = 1 /\ Len(C) = 1 /\ Len(E) = fw
      /\ Len(F) = RootSize(k) /\ Len(G) = cw
  BY <1>2, <1>3, <1>4, <1>6, <1>7, <1>9
<1>b. /\ A \in Seq(Blocks) /\ B \in Seq(Blocks) /\ C \in Seq(Blocks) /\ D \in Seq(Blocks)
      /\ E \in Seq(Blocks) /\ F \in Seq(Blocks) /\ G \in Seq(Blocks)
  BY <1>3, <1>4, <1>6, <1>7, <1>9
<1>c. FatAt(k) \in Nat /\ RootAt(k) \in Nat /\ RootSize(k) \in Nat /\ DataAt(k) \in Nat
  BY <1>2
<1> HIDE DEF fw, cw, fats, clusters
<1>d. \A s, t \in Seq(Blocks) :
        /\ s \o t \in Seq(Blocks) /\ Len(s \o t) = Len(s) + Len(t)
        /\ \A j \in 1 .. Len(s) : (s \o t)[j] = s[j]
        /\ \A j \in 1 .. Len(t) : (s \o t)[Len(s) + j] = t[j]
  <2> TAKE s, t \in Seq(Blocks)
  <2> QED BY Behind
<1>10. P1 \in Seq(Blocks) /\ Len(P1) = v.start
  <2>1. P1 \in Seq(Blocks) /\ Len(P1) = Len(A) + Len(B)
    BY <1>b, Behind
  <2> QED BY <2>1, <1>a
<1> HIDE DEF P1
<1>11. P2 \in Seq(Blocks) /\ Len(P2) = v.start + 1
  <2>1. P2 \in Seq(Blocks) /\ Len(P2) = Len(P1) + Len(C)
    BY <1>b, <1>10, Behind
  <2> QED BY <2>1, <1>10, <1>a
<1> HIDE DEF P2
<1>12. P3 \in Seq(Blocks) /\ Len(P3) = FatAt(k)
  <2>1. P3 \in Seq(Blocks) /\ Len(P3) = Len(P2) + Len(D)
    BY <1>b, <1>11, Behind
  <2>2. Len(P3) = (v.start + 1) + (v.rsvd - 1)
    BY <2>1, <1>a, <1>11
  <2> QED BY <2>1, <2>2, <1>a, <1>22, SMTT(30)
<1> HIDE DEF P3
<1>13. /\ P4 \in Seq(Blocks) /\ Len(P4) = RootAt(k)
       /\ \A i \in 1 .. fw : P4[FatAt(k) + i] = E[i]
  <2>1. /\ P4 \in Seq(Blocks) /\ Len(P4) = Len(P3) + Len(E)
        /\ \A i \in 1 .. Len(E) : P4[Len(P3) + i] = E[i]
    BY <1>b, <1>12, <1>d, Zenon
  <2> QED BY <2>1, <1>a, <1>12, <1>22
<1> HIDE DEF P4
<1>14. /\ P5 \in Seq(Blocks) /\ Len(P5) = DataAt(k)
       /\ \A i \in 1 .. RootAt(k) : P5[i] = P4[i]
       /\ \A i \in 1 .. RootSize(k) : P5[RootAt(k) + i] = F[i]
  <2>1. /\ P5 \in Seq(Blocks) /\ Len(P5) = Len(P4) + Len(F)
        /\ \A i \in 1 .. Len(P4) : P5[i] = P4[i]
        /\ \A i \in 1 .. Len(F) : P5[Len(P4) + i] = F[i]
    BY <1>b, <1>13, <1>d, Zenon
  <2> QED BY <2>1, <1>a, <1>13, <1>22
<1> HIDE DEF P5
<1>15. /\ Image[k] \in Seq(Blocks) /\ Len(Image[k]) = DataAt(k) + cw
       /\ \A i \in 1 .. DataAt(k) : Image[k][i] = P5[i]
       /\ \A i \in 1 .. cw : Image[k][DataAt(k) + i] = G[i]
  <2>1. /\ P5 \o G \in Seq(Blocks) /\ Len(P5 \o G) = Len(P5) + Len(G)
        /\ \A i \in 1 .. Len(P5) : (P5 \o G)[i] = P5[i]
        /\ \A i \in 1 .. Len(G) : (P5 \o G)[Len(P5) + i] = G[i]
    BY <1>b, <1>14, <1>d, Zenon
  <2> QED BY <2>1, <1>1, <1>a, <1>14
<1>16. ASSUME NEW j \in 1 .. v.fatsz
       PROVE  Image[k][FatAt(k) + j] = Table1("fat", (j - 1) * (BlockSize \div es))
  <2>1. v.fatsz <= fw
    <3> DEFINE a == v.nfats
               b == v.fatsz
    <3>1. a \in Nat \ {0} /\ b \in Nat
      BY <1>2
    <3> HIDE DEF a, b
    <3>2. (a - 1) * b \in Nat /\ a * b = (a - 1) * b + b
      BY <3>1
    <3>3. b <= a * b
      BY <3>1, <3>2
    <3> QED BY <3>3 DEF a, b, fw
  <2>3. j \in 1 .. fw /\ FatAt(k) + j \in 1 .. RootAt(k) /\ FatAt(k) + j \in 1 .. DataAt(k)
    <3> DEFINE b == v.fatsz
               f == FatAt(k)
               r == RootAt(k)
               d == DataAt(k)
    <3>1. b \in Nat /\ j \in 1 .. b /\ b <= fw /\ fw \in Nat /\ f \in Nat /\ r = f + fw
          /\ RootSize(k) \in Nat /\ d = r + RootSize(k)
      BY <2>1, <1>c, <1>2, <1>21, <1>22
    <3> HIDE DEF b, f, r, d
    <3>2. j \in 1 .. fw /\ f + j \in 1 .. r /\ f + j \in 1 .. d
      BY <3>1
    <3> QED BY <3>2 DEF f, r, d
  <2>4. Image[k][FatAt(k) + j] = P5[FatAt(k) + j] /\ P5[FatAt(k) + j] = P4[FatAt(k) + j]
        /\ P4[FatAt(k) + j] = E[j]
    BY <2>3, <1>13, <1>14, <1>15
  <2>5. E[j] = Table1("fat", (j - 1) * (BlockSize \div es))
    BY <1>5, <1>7
  <2> QED BY <2>4, <2>5
<1>17. ASSUME NEW j \in 1 .. RootSize(k)
       PROVE  Image[k][RootAt(k) + j] = Table1("root", (j - 1) * (BlockSize \div DirEntrySize))
  <2>1. RootAt(k) + j \in 1 .. DataAt(k)
    BY <1>c, <1>22
  <2> QED BY <2>1, <1>6, <1>14, <1>15
<1>18. ASSUME NEW c \in 2 .. ClusterCount(k) - 1, NEW s \in 1 .. v.spc
       PROVE  Image[k][DataAt(k) + ((c - 2) * v.spc + s)] =
                IF v.type = 11 /\ c = RootClus
                  THEN Table1("root", (s - 1) * (BlockSize \div DirEntrySize))
                  ELSE Data1(c, s - 1)
  <2> DEFINE m == c - 1
             x == (c - 2) * v.spc
  <2>1. m \in 1 .. n /\ m + 1 = c /\ m - 1 = c - 2
    <3>1. ClusterCount(k) - 1 = n + 1
      <4>1. ClusterCount(k) \in Nat
        BY VolumeIs
      <4> QED BY <4>1 DEF n
    <3> HIDE DEF n
    <3> QED BY <3>1, <1>2
  <2>2. x \in Nat /\ x + s \in 1 .. cw
    <3> DEFINE a == v.spc
               y == (n - m) * a
    <3>0. a \in Nat \ {0} /\ n - m \in Nat /\ c - 2 \in Nat
      BY <2>1, <1>2
    <3> HIDE DEF a
    <3>1. y \in Nat /\ n * a = y + ((c - 2) * a + a) /\ (c - 2) * a \in Nat
      <4>1. n = (n - m) + ((c - 2) + 1)
        BY <2>1, <1>2
      <4> QED BY <4>1, <3>0
    <3>2. x \in Nat /\ cw = y + (x + a)
      BY <3>1 DEF a, cw
    <3>3. s \in 1 .. a
      BY DEF a
    <3> HIDE DEF x, y, m
    <3> QED BY <3>0, <3>1, <3>2, <3>3
  <2>3. Image[k][DataAt(k) + (x + s)] = G[x + s]
    <3> HIDE DEF x, m
    <3> QED BY <2>2, <1>15
  <2>4. G[x + s] = clus(m)[s]
    <3>1. G[Place(m, s, v.spc)] = clus(m)[s]
      <4> HIDE DEF m
      <4> QED BY <2>1, <1>9
    <3>2. Place(m, s, v.spc) = x + s
      BY <2>1 DEF Place
    <3> QED BY <3>1, <3>2
  <2>5. clus(m)[s] = IF v.type = 11 /\ m + 1 = RootClus
                       THEN Table1("root", (s - 1) * (BlockSize \div DirEntrySize))
                       ELSE Data1(m + 1, s - 1)
    <3> HIDE DEF m
    <3> QED BY <2>1, <1>8
  <2> QED BY <2>1, <2>3, <2>4, <2>5
<1> QED
  BY <1>15, <1>16, <1>17, <1>18 DEF Layout, v, n, es, cw

-----------------------------------------------------------------------------
(* The clusters of a file, and its bytes.                                  *)
IsChain(h, k, e, m) ==
  /\ h = [i \in 0 .. m |-> h[i]]
  /\ h[0] = e.first
  /\ \A i \in 0 .. m - 1 : h[i + 1] = Volume[k].chain[h[i]]

LEMMA ChainExists ==
  ASSUME NEW k, NEW e
  PROVE  \A m \in Nat : \E h : IsChain(h, k, e, m)
<1> DEFINE T == {m \in Nat : ~ \E h : IsChain(h, k, e, m)}
<1> SUFFICES ASSUME T # {} PROVE FALSE
  OBVIOUS
<1>1. PICK m \in T : \A y \in T : ~(y < m)
  <2>1. T \subseteq Nat
    OBVIOUS
  <2> HIDE DEF T
  <2> QED BY <2>1, NatMin
<1>2. m # 0
  <2>1. IsChain([i \in 0 .. 0 |-> e.first], k, e, 0)
    BY DEF IsChain
  <2> QED BY <2>1
<1>3. m \in Nat /\ m - 1 \in Nat /\ m - 1 < m
  BY <1>2
<1>4. PICK g : IsChain(g, k, e, m - 1)
  <2>1. m - 1 \notin T
    <3> HIDE DEF T
    <3> QED BY <1>1, <1>3
  <2> QED BY <2>1, <1>3
<1> DEFINE z == Volume[k].chain[g[m - 1]]
           h == [i \in 0 .. m |-> IF i = m THEN z ELSE g[i]]
<1>5. IsChain(h, k, e, m)
  <2>1. h[0] = e.first
    <3>1. h[0] = g[0]
      BY <1>2, <1>3
    <3> QED BY <3>1, <1>4 DEF IsChain
  <2>2. ASSUME NEW i \in 0 .. m - 1 PROVE h[i + 1] = Volume[k].chain[h[i]]
    <3>1. h[i] = g[i]
      BY <1>3
    <3>2. CASE i = m - 1
      <4>1. i + 1 = m /\ i + 1 \in 0 .. m
        BY <3>2, <1>3
      <4>2. h[i + 1] = z
        <5> HIDE DEF z
        <5> QED BY <4>1
      <4> HIDE DEF h
      <4> QED BY <3>1, <3>2, <4>2
    <3>3. CASE i # m - 1
      <4>1. i \in 0 .. (m - 1) - 1 /\ i + 1 # m /\ i + 1 \in 0 .. m
        BY <3>3, <1>3
      <4>2. g[i + 1] = Volume[k].chain[g[i]]
        BY <4>1, <1>4 DEF IsChain
      <4>3. h[i + 1] = g[i + 1]
        <5> HIDE DEF z
        <5> QED BY <4>1
      <4> HIDE DEF h
      <4> QED BY <4>2, <4>3, <3>1
    <3> QED BY <3>2, <3>3
  <2>3. h = [i \in 0 .. m |-> h[i]]
    OBVIOUS
  <2> HIDE DEF h
  <2> QED BY <2>1, <2>2, <2>3 DEF IsChain
<1> QED
  BY <1>5, <1>1

LEMMA ClustersIs ==
  ASSUME NEW k, NEW e, e.size \in Nat
  PROVE  /\ Clusters(k, e)[0] = e.first
         /\ \A n \in 0 .. e.size - 1 :
              Clusters(k, e)[n + 1] = Volume[k].chain[Clusters(k, e)[n]]
<1> DEFINE m == e.size
           p == CHOOSE p : p = [n \in 0 .. m |->
                  IF n = 0 THEN e.first ELSE Volume[k].chain[p[n - 1]]]
<1>1. PICK f : IsChain(f, k, e, m)
  BY ChainExists
<1>2. f = [n \in 0 .. m |-> IF n = 0 THEN e.first ELSE Volume[k].chain[f[n - 1]]]
  <2>1. ASSUME NEW n \in 0 .. m
        PROVE  f[n] = IF n = 0 THEN e.first ELSE Volume[k].chain[f[n - 1]]
    <3>1. CASE n = 0
      BY <3>1, <1>1 DEF IsChain
    <3>2. CASE n # 0
      <4>1. n - 1 \in 0 .. m - 1 /\ (n - 1) + 1 = n
        BY <3>2
      <4>2. f[(n - 1) + 1] = Volume[k].chain[f[n - 1]]
        BY <4>1, <1>1 DEF IsChain
      <4> QED BY <3>2, <4>1, <4>2
    <3> QED BY <3>1, <3>2
  <2>2. f = [n \in 0 .. m |-> f[n]]
    BY <1>1 DEF IsChain
  <2> QED BY <2>1, <2>2, Zenon
<1>3. p = [n \in 0 .. m |-> IF n = 0 THEN e.first ELSE Volume[k].chain[p[n - 1]]]
  BY <1>2, Zenon
<1>4. Clusters(k, e) = p
  BY DEF Clusters
<1> HIDE DEF p
<1>5. p[0] = e.first
  BY <1>3
<1>6. ASSUME NEW n \in 0 .. m - 1 PROVE p[n + 1] = Volume[k].chain[p[n]]
  <2>1. n + 1 \in 0 .. m /\ n + 1 # 0 /\ (n + 1) - 1 = n
    OBVIOUS
  <2> QED BY <1>3, <2>1
<1> QED
  BY <1>4, <1>5, <1>6

(* The entry of a file that is on the card.                                *)
LEMMA EntryIs ==
  ASSUME NEW k \in Cards, NEW f
  PROVE  LET e == EntryOf(k, f)
             r == Volume[k].root
             named == {i \in DOMAIN r : r[i].is = "file" /\ r[i].of = f}
         IN /\ named = {} => e = NotThere
            /\ named # {} => \E i \in named : e = r[i]
            /\ e.size \in Nat
            /\ e.is = "file" => e.first \in Nat
            /\ e.is \in {"file", "end"}
            /\ e.is = "end" => e.size = 0
<1> DEFINE e == EntryOf(k, f)
           r == Volume[k].root
           named == {i \in DOMAIN r : r[i].is = "file" /\ r[i].of = f}
<1>1. CASE named = {}
  <2>1. e = NotThere
    BY <1>1 DEF EntryOf
  <2> QED BY <1>1, <2>1 DEF NotThere
<1>2. CASE named # {}
  <2>1. e = r[CHOOSE i \in named : TRUE]
    BY <1>2 DEF EntryOf
  <2>2. PICK i \in named : e = r[i]
    <3> HIDE DEF named, e, r
    <3> QED BY <1>2, <2>1
  <2>3. i \in DOMAIN r /\ r[i].is = "file"
    OBVIOUS
  <2>4. r[i] \in DirEntry
    <3>1. r \in Seq(DirEntry)
      BY VolumeAssumption
    <3> HIDE DEF r
    <3> QED BY <3>1, <2>3
  <2> HIDE DEF e, r
  <2>5. r[i].first \in Nat /\ r[i].size \in Nat
    BY <2>3, <2>4 DEF DirEntry
  <2> HIDE DEF named
  <2> QED BY <1>2, <2>2, <2>3, <2>5 DEF e, r, named
<1> QED BY <1>1, <1>2

(* Byte x of sector s of cluster q of a file, with c sectors of b bytes to *)
(* a cluster: where it is, and what the divisions make of that.            *)
IsAt(p, b, c, q, s, x) == p = q * (c * b) + (s * b + x)
SplitsTo(p, b, c, q, s, x) ==
  p \in Nat /\ p \div (c * b) = q /\ (p \div b) % c = s /\ p % b = x

LEMMA PlaceInFile ==
  ASSUME NEW b \in Nat \ {0}, NEW c \in Nat \ {0}, NEW q \in Nat, NEW s \in 0 .. c - 1,
         NEW x \in 0 .. b - 1, NEW p, IsAt(p, b, c, q, s, x)
  PROVE  SplitsTo(p, b, c, q, s, x)
<1>0. p = q * (c * b) + (s * b + x)
  BY DEF IsAt
<1> DEFINE n == c * b
           y == s * b + x
<1>1. n \in Nat \ {0} /\ y \in 0 .. n - 1
  <2>1. n \in Nat /\ n = (c - 1 - s) * b + (s * b + b) /\ (c - 1 - s) * b \in Nat /\ s * b \in Nat
    OBVIOUS
  <2> DEFINE u == s * b
             w == (c - 1 - s) * b
  <2>2. n \in Nat /\ n = w + (u + b) /\ w \in Nat /\ u \in Nat /\ y = u + x
    BY <2>1
  <2> HIDE DEF u, w, n, y
  <2> QED BY <2>2
<1>2. p = n * q + y /\ p \in Nat
  <2>1. q * n \in Nat /\ p = q * n + y /\ q * n = n * q
    <3>1. n \in Nat /\ p = q * n + y
      BY <1>0, <1>1
    <3> HIDE DEF n, y
    <3> QED BY <3>1
  <2> HIDE DEF n, y
  <2> QED BY <1>1, <2>1
<1>3. p \div n = q
  <2> HIDE DEF n, y
  <2>1. y \in 0 .. n - 1 /\ n \in Nat \ {0} /\ p \in Nat /\ q \in Int /\ p = n * q + y
    BY <1>1, <1>2
  <2> QED BY <2>1, ModUnique, ZenonT(30)
<1> DEFINE t == q * c + s
<1>4. t \in Nat /\ p = b * t + x
  <2>1. q * c \in Nat /\ q * (c * b) = b * (q * c) /\ s * b = b * s
    OBVIOUS
  <2>2. b * t = b * (q * c) + b * s
    BY <2>1
  <2>3. b * (q * c) \in Nat /\ b * s \in Nat
    BY <2>1
  <2> DEFINE u == b * (q * c)
             w == b * s
  <2>4. u \in Nat /\ w \in Nat /\ b * t = u + w /\ p = u + (w + x)
    BY <1>0, <2>1, <2>2, <2>3
  <2>5. t \in Nat
    BY <2>1
  <2> HIDE DEF u, w, t
  <2> QED BY <2>4, <2>5
<1>5. p % b = x /\ p \div b = t
  <2> HIDE DEF t
  <2>1. x \in 0 .. b - 1 /\ b \in Nat \ {0} /\ p \in Nat /\ t \in Int /\ p = b * t + x
    BY <1>2, <1>4
  <2> QED BY <2>1, ModUnique, ZenonT(30)
<1>6. t % c = s
  <2>1. t = c * q + s
    OBVIOUS
  <2> HIDE DEF t
  <2> QED BY <1>4, <2>1, ModUnique
<1> QED BY <1>2, <1>3, <1>5, <1>6 DEF SplitsTo

LEMMA ByteIs ==
  ASSUME NEW k \in Cards, NEW f \in Files, Volume[k].spc \in Nat \ {0},
         NEW q \in Nat, NEW s \in 0 .. Volume[k].spc - 1, NEW x \in 0 .. BlockSize - 1, NEW p,
         IsAt(p, BlockSize, Volume[k].spc, q, s, x),
         p < EntryOf(k, f).size
  PROVE  /\ p \in Nat
         /\ FileBytes[k][f][p + 1] = <<k, Clusters(k, EntryOf(k, f))[q], s, x>>
<1> DEFINE c == Volume[k].spc
           b == BlockSize
           e == EntryOf(k, f)
           n == e.size
           nth == Clusters(k, e)
<1>0. b \in Nat \ {0} /\ c \in Nat \ {0} /\ n \in Nat
  BY CardAssumption, EntryIs
<1>1. FileBytes[k][f] = [i \in 1 .. n |->
         <<k, nth[(i - 1) \div (c * b)], ((i - 1) \div b) % c, (i - 1) % b>>]
  BY DEF FileBytes
<1> HIDE DEF c, b, e, nth, n
<1>2. /\ p \in Nat /\ p \div (c * b) = q /\ (p \div b) % c = s /\ p % b = x
  <2>1. s \in 0 .. c - 1 /\ x \in 0 .. b - 1 /\ IsAt(p, b, c, q, s, x)
    BY DEF c, b
  <2>2. SplitsTo(p, b, c, q, s, x)
    BY <1>0, <2>1, PlaceInFile
  <2> QED BY <2>2 DEF SplitsTo
<1>3. p + 1 \in 1 .. n /\ (p + 1) - 1 = p
  <2>1. p < n
    BY DEF n, e
  <2> QED BY <1>0, <1>2, <2>1
<1>4. FileBytes[k][f][p + 1] = <<k, nth[p \div (c * b)], (p \div b) % c, p % b>>
  <2> DEFINE g(i) == <<k, nth[(i - 1) \div (c * b)], ((i - 1) \div b) % c, (i - 1) % b>>
  <2>1. FileBytes[k][f][p + 1] = g(p + 1)
    <3>1. FileBytes[k][f] = [i \in 1 .. n |-> g(i)]
      BY <1>1
    <3> HIDE DEF g
    <3> QED BY <3>1, <1>3
  <2> QED BY <2>1, <1>3
<1> QED
  BY <1>2, <1>4 DEF e, nth

-----------------------------------------------------------------------------
(* Reading a block.                                                        *)
CardCalm(c) == c.st = "tran" /\ ~c.err

LEMMA JunkIsJunk ==
  ASSUME NEW k \in Cards, NEW n
  PROVE  <<k, n>> # Junk /\ <<k, n>> # Torn /\ Junk # Torn
  BY JunkIsNoCard DEF Junk, Torn

(* Block n begins at the address a card takes for it.                      *)
LEMMA GoodAddress ==
  ASSUME NEW n \in Nat, sd.bSDHC <=> Kind[card.id] = "hc", n < NBlocks
  PROVE  ~BadAddress(card, Address(n))
<1>1. BlockAt(card, Address(n)) = n
  BY SameBlock
<1>2. Kind[card.id] # "hc" => Address(n) % BlockSize = 0
  <2>1. SUFFICES ASSUME Kind[card.id] # "hc" PROVE (n * BlockSize) % BlockSize = 0
    BY DEF Address
  <2> DEFINE b == BlockSize
             x == n * b
  <2>2. b \in Nat \ {0}
    BY CardAssumption
  <2> HIDE DEF b
  <2>3. x \in Nat /\ x = b * n + 0 /\ n \in Int /\ 0 \in 0 .. b - 1
    BY <2>2
  <2> HIDE DEF x
  <2>4. x % b = 0
    BY <2>2, <2>3, ModUnique, Zenon
  <2> QED BY <2>4 DEF x, b
<1>3. NBlocks \in Nat
  BY CardAssumption
<1> QED
  BY <1>1, <1>2, <1>3 DEF BadAddress

(* From a selected card on a quiet bus a block arrives as it is.           *)
LEMMA CalmBlock ==
  ASSUME CardOK, ~noise, CardCalm(card), card.wide, NEW n, NEW r \in ReadBlock512(n)
  PROVE  /\ CardCalm(r.card)
         /\ r.data # Junk
         /\ ~BadAddress(card, Address(n)) => r.ok
<1> DEFINE m == [cmd |-> "CMD17", arg |-> Address(n)]
           block == <<card.id, BlockAt(card, Address(n))>>
           bad == BadAddress(card, Address(n))
<1>0. card \in CardRegisters /\ card.st = "tran" /\ card.err = FALSE /\ card.id \in Cards
  <2>1. card.err \in BOOLEAN
    BY DEF CardOK, CardRegisters
  <2>2. card.id \in Cards
    BY DEF CardOK, CardRegisters, CardCalm, Slots
  <2> QED BY <2>1, <2>2 DEF CardOK, CardCalm
<1>1. PICK o \in Outcomes(m) :
        r \in IF o.resp # Silence /\ Status(o.resp, "tran", FALSE)
                THEN LET after == [o.card EXCEPT !.st = "tran"] IN
                     (IF card.wide THEN {[ok |-> TRUE, card |-> after, data |-> block]}
                        ELSE {[ok |-> FALSE, card |-> o.card, data |-> Torn]})
                     \cup IF noise
                            THEN {[ok |-> TRUE, card |-> after, data |-> Junk],
                                  [ok |-> FALSE, card |-> o.card, data |-> Torn]}
                            ELSE {}
                ELSE {[ok |-> FALSE, card |-> o.card, data |-> Torn]}
  BY DEF ReadBlock512
<1>2. PICK rca \in RCAs : o = React(card, m, rca)
  <2>1. PICK c \in Drained(card), rca \in RCAs :
          o \in {React(c, m, rca)} \cup IF noise
                      THEN {[card |-> React(c, m, rca).card, resp |-> Silence],
                            [card |-> IF c.st = "out" THEN c
                                      ELSE [c EXCEPT !.err = TRUE],
                             resp |-> Silence]}
                      ELSE {}
    BY DEF Outcomes
  <2>2. c = card
    BY <2>1, <1>0 DEF Drained
  <2>3. o \in {React(c, m, rca)}
    BY <2>1
  <2> QED BY <2>2, <2>3
<1>3. m.cmd = "CMD17" /\ m.arg = Address(n)
  OBVIOUS
<1> HIDE DEF m
<1>4. o = [card |-> Done(card, m, rca), resp |-> Answer(card, m, rca)]
  <2>1. Legal(card, m)
    BY <1>0, <1>3 DEF Legal
  <2>2. card.st # "out" /\ m.cmd \notin Addressed
    BY <1>0, <1>3 DEF Addressed
  <2> QED BY <1>2, <1>3, <2>1, <2>2 DEF React
<1> DEFINE d == [card EXCEPT !.app = FALSE, !.err = FALSE]
<1>5. d.st = "tran" /\ d.err = FALSE /\ DOMAIN d = DOMAIN card
  BY <1>0 DEF CardRegisters
<1>6. Done(card, m, rca) = IF bad THEN d ELSE [d EXCEPT !.st = "data"]
  <2>1. (m.cmd = "CMD55") = FALSE
    BY <1>3
  <2> HIDE DEF bad
  <2> QED BY <2>1, <1>3 DEF Done, bad
<1>7. CardCalm([Done(card, m, rca) EXCEPT !.st = "tran"]) /\ (bad => CardCalm(Done(card, m, rca)))
  <2>1. d.err = FALSE /\ [d EXCEPT !.st = "data"].err = FALSE
        /\ "st" \in DOMAIN d /\ "st" \in DOMAIN [d EXCEPT !.st = "data"]
        /\ [[d EXCEPT !.st = "data"] EXCEPT !.st = "tran"].err = FALSE
        /\ [d EXCEPT !.st = "tran"].err = FALSE
    BY <1>0, <1>5 DEF CardRegisters
  <2> HIDE DEF d, bad
  <2> QED BY <2>1, <1>5, <1>6 DEF CardCalm
<1>8. o.resp.st = "tran" /\ o.resp.app = FALSE /\ o.resp.err = bad /\ o.resp # Silence
  <2>1. m.cmd \notin {"CMD55", "ACMD6", "ACMD42"}
    BY <1>3
  <2>2. o.resp = Answer(card, m, rca)
    BY <1>4
  <2>3. Answer(card, m, rca).st = "tran" /\ Answer(card, m, rca).app = FALSE
    <3>1. Answer(card, m, rca).st = card.st
      BY DEF Answer
    <3>2. Answer(card, m, rca).app = (m.cmd \in {"CMD55", "ACMD6", "ACMD42"})
      BY DEF Answer
    <3>3. (m.cmd \in {"CMD55", "ACMD6", "ACMD42"}) = FALSE
      BY <2>1
    <3> QED BY <1>0, <3>1, <3>2, <3>3
  <2>4. Answer(card, m, rca).err = (card.err \/ (m.cmd = "CMD17" /\ BadAddress(card, m.arg)))
    BY DEF Answer
  <2>5. bad \in BOOLEAN
    BY DEF BadAddress
  <2>6. Answer(card, m, rca).err = bad
    <3> HIDE DEF bad
    <3>1. (card.err \/ (m.cmd = "CMD17" /\ bad)) = bad
      BY <1>0, <1>3, <2>5
    <3> QED BY <3>1, <2>4, <1>3 DEF bad
  <2>7. "tran" # "none"
    OBVIOUS
  <2> HIDE DEF bad
  <2> QED BY <2>2, <2>3, <2>6, <2>7 DEF Silence
<1>9. block # Junk /\ Torn # Junk
  BY <1>0, JunkIsJunk
<1> DEFINE after == [o.card EXCEPT !.st = "tran"]
<1>10. CardCalm(after) /\ (bad => CardCalm(o.card))
  BY <1>4, <1>7
<1>11. CASE bad
  <2>1. ~(o.resp # Silence /\ Status(o.resp, "tran", FALSE))
    BY <1>8, <1>11 DEF Status
  <2>2. r = [ok |-> FALSE, card |-> o.card, data |-> Torn]
    BY <1>1, <2>1
  <2> QED BY <2>2, <1>9, <1>10, <1>11
<1>12. CASE ~bad
  <2>1. o.resp # Silence /\ Status(o.resp, "tran", FALSE)
    BY <1>8, <1>12 DEF Status
  <2> HIDE DEF block, after, bad
  <2>2. r = [ok |-> TRUE, card |-> after, data |-> block]
    BY <1>1, <2>1 DEF after
  <2> QED BY <2>2, <1>9, <1>10
<1> QED BY <1>11, <1>12

-----------------------------------------------------------------------------
(* fatReadSecter on a mounted volume: sector n of its card or junk; on one *)
(* that was mounted in calm, sector n.                                     *)
CalmState == ~noise /\ CardCalm(card) /\ (cache.index # -1 => cache.data # Junk)

LEMMA SecterRead ==
  ASSUME CardOK, SdOK, Agreed, CacheOK, VolOK, CalmOK, phase = "play", NEW n \in Nat,
         NEW r \in ReadSecter(n)
  PROVE  /\ r.ok => r.cache.data \in {<<vol.card, n>>, Junk}
         /\ vol.calm => /\ CardCalm(r.card)
                        /\ r.cache.index # -1 => r.cache.data # Junk
                        /\ n < NBlocks => r.ok /\ r.cache.data = <<vol.card, n>>
<1>1. CASE n = cache.index
  <2>1. r = [ok |-> TRUE, card |-> card, cache |-> cache]
    BY <1>1 DEF ReadSecter
  <2>2. n # -1
    OBVIOUS
  <2>3. cache.data \in {<<vol.card, n>>, Junk}
    BY <1>1, <2>2 DEF CacheOK
  <2>4. vol.calm => CardCalm(card) /\ cache.data # Junk
    BY <1>1, <2>2 DEF CalmOK, CardCalm
  <2> QED BY <2>1, <2>3, <2>4
<1>2. CASE n # cache.index
  <2>1. PICK b \in ReadBlock512(n) :
          r = [ok |-> b.ok, card |-> b.card,
               cache |-> [index |-> IF b.ok THEN n ELSE -1, data |-> b.data]]
    BY <1>2 DEF ReadSecter
  <2>2. ASSUME b.ok PROVE b.data \in {<<vol.card, n>>, Junk}
    <3>1. /\ Awake(card)
          /\ b.data \in {<<card.id, BlockAt(card, Address(n))>>, Junk}
      BY <2>2, ReadBlockEffect
    <3>2. (sd.bSDHC <=> Kind[card.id] = "hc") /\ card.id = vol.card
      BY <3>1 DEF Agreed, KnowsCapacity
    <3>3. BlockAt(card, Address(n)) = n
      BY <3>2, SameBlock
    <3> QED BY <3>1, <3>2, <3>3
  <2>3. ASSUME vol.calm
        PROVE  /\ CardCalm(b.card) /\ b.data # Junk
               /\ n < NBlocks => b.ok /\ b.data = <<vol.card, n>>
    <3>1. ~noise /\ CardCalm(card)
      BY <2>3 DEF CalmOK, CardCalm
    <3>2. Awake(card)
      BY <3>1 DEF Awake, CardCalm
    <3>3. (sd.bSDHC <=> Kind[card.id] = "hc") /\ card.wide
      BY <3>2 DEF Agreed, KnowsCapacity, KnowsWidth
    <3>4. CardCalm(b.card) /\ b.data # Junk /\ (~BadAddress(card, Address(n)) => b.ok)
      BY <3>1, <3>3, CalmBlock
    <3>5. n < NBlocks => ~BadAddress(card, Address(n))
      BY <3>3, GoodAddress
    <3> QED BY <2>2, <3>4, <3>5
  <2>4. r.ok = b.ok /\ r.card = b.card /\ r.cache.data = b.data
    BY <2>1
  <2> QED BY <2>2, <2>3, <2>4
<1> QED BY <1>1, <1>2

(* What a sound volume says of its card is so, and the card is laid out as *)
(* it says.                                                                *)
LEMMA SoundVolume ==
  ASSUME WellFormatted, VolOK, MountOK, phase = "play", vol.sound
  PROVE  LET k == vol.card
             v == Volume[k]
         IN /\ k \in Cards /\ Formatted(k) /\ RegionsFit(v) /\ Layout(k)
            /\ v.type \in Fats /\ vol.type = v.type /\ vol.spc = v.spc
            /\ vol.FatEntrySecter = FatAt(k) /\ vol.RootDirectoryEntrySecter = RootAt(k)
            /\ vol.DataEntrySecter = DataAt(k)
            /\ Len(Image[k]) \in Nat /\ Len(Image[k]) <= NBlocks
<1> DEFINE k == vol.card
           v == Volume[k]
<1>1. k \in Cards
  BY DEF VolOK
<1>2. /\ v.type \in Fats /\ vol.type = v.type /\ vol.spc = v.spc
      /\ vol.FatEntrySecter = FatAt(k) /\ vol.RootDirectoryEntrySecter = RootAt(k)
      /\ vol.DataEntrySecter = DataAt(k)
  BY DEF MountOK, Mounted
<1>3. Formatted(k)
  BY <1>1, <1>2 DEF MountOK, WellFormatted, Mountable, Fats, FAT16, FAT32
<1>4. RegionsFit(v) /\ Layout(k)
  BY <1>1, <1>3, LayoutIs DEF Formatted
<1>5. Len(Image[k]) \in Nat /\ Len(Image[k]) <= NBlocks
  <2>1. Image[k] \in Seq(Blocks)
    BY <1>4 DEF Layout
  <2> QED BY <1>1, <2>1, ImagesFit
<1> QED BY <1>1, <1>2, <1>3, <1>4, <1>5

LEMMA BlockIs ==
  ASSUME vol.sound, NEW k \in Cards, NEW n \in Nat, n < Len(Image[k])
  PROVE  Block(<<k, n>>) = Image[k][n + 1] /\ Block(Junk).is = "junk"
<1>1. <<k, n>> \notin {Junk, Torn}
  BY JunkIsJunk
<1>2. <<k, n>>[1] = k /\ <<k, n>>[2] = n
  OBVIOUS
<1>3. Block(<<k, n>>) = Image[k][n + 1]
  BY <1>1, <1>2 DEF Block
<1>4. Block(Junk) = [is |-> "junk"]
  BY DEF Block
<1> QED BY <1>3, <1>4

(* The quotient of a number that reaches q times n.                        *)
LEMMA DivAtLeast ==
  ASSUME NEW n \in Nat \ {0}, NEW x \in Nat, NEW q \in Nat, n * q <= x
  PROVE  q <= x \div n
<1> DEFINE p == x \div n
           s == x % n
<1>1. p \in Nat /\ s \in 0 .. n - 1 /\ x = n * p + s
  BY DivMod
<1> HIDE DEF p, s
<1>2. ~(q - p > 0)
  <2> SUFFICES ASSUME q - p > 0 PROVE FALSE
    OBVIOUS
  <2>1. (q - p) * n >= n
    BY MulLower, <1>1
  <2>2. (q - p) * n = n * q - n * p
    BY <1>1
  <2>3. n * q \in Nat /\ n * p \in Nat
    BY <1>1
  <2> DEFINE a == n * q
             b == n * p
             c == (q - p) * n
  <2>4. a \in Nat /\ b \in Nat /\ c >= n /\ c = a - b /\ a <= x /\ x = b + s
    BY <1>1, <2>1, <2>2, <2>3
  <2> HIDE DEF a, b, c
  <2> QED BY <2>4, <1>1
<1> QED BY <1>1, <1>2 DEF p

LEMMA DivBelow ==
  ASSUME NEW n \in Nat \ {0}, NEW x \in Nat, NEW q \in Nat, x < q * n
  PROVE  x \div n < q
<1> DEFINE p == x \div n
           s == x % n
<1>1. p \in Nat /\ s \in 0 .. n - 1 /\ x = n * p + s
  BY DivMod
<1> HIDE DEF p, s
<1>2. ~(q <= p)
  <2> SUFFICES ASSUME q <= p PROVE FALSE
    OBVIOUS
  <2>1. (p - q) * n \in Nat /\ n * p = q * n + (p - q) * n
    BY <1>1
  <2> DEFINE a == n * p
             b == q * n
             c == (p - q) * n
  <2>2. a = b + c /\ c \in Nat /\ b \in Nat /\ a \in Nat /\ x = a + s /\ x < b
    BY <1>1, <2>1
  <2> HIDE DEF a, b, c
  <2> QED BY <2>2, <1>1
<1> QED BY <1>1, <1>2 DEF p

(* The entry of cluster c: entry c % E of the sector (c * es) / B, when a  *)
(* sector of B bytes has E entries of es bytes.                            *)
HasEntries(B, E, es) == B \in Nat \ {0} /\ E \in Nat \ {0} /\ es \in Nat \ {0} /\ es * E = B
SamePlace(c, B, E, es) == (c * es) \div B = c \div E

LEMMA FatPlace ==
  ASSUME NEW B, NEW E, NEW es, HasEntries(B, E, es), NEW c \in Nat
  PROVE  SamePlace(c, B, E, es)
<1>0. B \in Nat \ {0} /\ E \in Nat \ {0} /\ es \in Nat \ {0} /\ es * E = B
  BY DEF HasEntries
<1> DEFINE p == c \div E
           s == c % E
           x == c * es
           y == s * es
<1>1. p \in Nat /\ s \in 0 .. E - 1 /\ c = E * p + s
  BY <1>0, DivMod
<1> HIDE DEF p, s
<1>2. x \in Nat /\ y \in Nat
  BY <1>0, <1>1
<1>3. x = B * p + y
  <2>1. (E * p + s) * es = (es * E) * p + s * es
    BY <1>0, <1>1
  <2> QED BY <1>0, <1>1, <2>1
<1>4. y \in 0 .. B - 1
  <2>1. B = (E - 1 - s) * es + (s * es + es) /\ (E - 1 - s) * es \in Nat
    BY <1>0, <1>1
  <2> DEFINE z == (E - 1 - s) * es
  <2>2. B = z + (y + es) /\ z \in Nat
    BY <2>1
  <2> HIDE DEF z, y
  <2> QED BY <2>2, <1>0, <1>2
<1> HIDE DEF x, y
<1>5. x \div B = p
  <2>1. p \in Int
    BY <1>0, <1>1
  <2> QED BY <2>1, <1>0, <1>2, <1>3, <1>4, ModUnique, Zenon
<1> QED BY <1>5 DEF x, p, SamePlace

(* The sector of the FAT that has the entry of cluster c.                  *)
LEMMA FatSecterIs ==
  ASSUME WellFormatted, VolOK, MountOK, phase = "play", vol.sound,
         NEW c \in DOMAIN Volume[vol.card].chain
  PROVE  LET k == vol.card
             n == FatSecter(c)
         IN /\ c \in Nat /\ n \in Nat /\ n < NBlocks
            /\ Block(<<k, n>>).is = "fat"
            /\ FatEntry(Block(<<k, n>>), c) =
                 IF Volume[k].chain[c] = BadMark THEN 0 ELSE Volume[k].chain[c]
<1> DEFINE k == vol.card
           v == Volume[k]
           es == FatEntrySize(v.type)
           E == BlockSize \div es
           j == (c * es) \div BlockSize
<1>1. /\ k \in Cards /\ RegionsFit(v) /\ Layout(k) /\ vol.type = v.type
      /\ vol.FatEntrySecter = FatAt(k) /\ Len(Image[k]) \in Nat /\ Len(Image[k]) <= NBlocks
  BY SoundVolume
<1>2. /\ v.fatsz \in Nat /\ es \in {1, 2} /\ E \in Nat \ {0} /\ es * E = BlockSize
      /\ ClusterCount(k) \in Nat /\ DOMAIN v.chain = 0 .. ClusterCount(k) - 1
      /\ FatAt(k) \in Nat /\ DataAt(k) \in Nat /\ RootAt(k) \in Nat
  <2>1. /\ v.fatsz \in Nat /\ es \in {1, 2} /\ E \in Nat \ {0} /\ es * E = BlockSize
        /\ ClusterCount(k) \in Nat /\ DOMAIN v.chain = 0 .. ClusterCount(k) - 1
        /\ FatAt(k) \in Nat /\ DataAt(k) \in Nat /\ RootAt(k) \in Nat
    BY <1>1, VolumeIs
  <2> QED BY <2>1
<1>3. ClusterCount(k) * es <= v.fatsz * BlockSize
  BY <1>1 DEF RegionsFit, ClusterCount
<1>4. BlockSize \in Nat \ {0}
  BY CardAssumption
<1>5. c \in Nat /\ c \in 0 .. ClusterCount(k) - 1
  BY <1>2
<1> HIDE DEF v, es
<1>6. j = c \div E
  <2>1. es \in Nat \ {0}
    BY <1>2
  <2>2. E \in Nat \ {0} /\ es * E = BlockSize /\ c \in Nat /\ BlockSize \in Nat \ {0}
    BY <1>2, <1>4, <1>5
  <2> HIDE DEF E
  <2> DEFINE b == BlockSize
  <2>3. b \in Nat \ {0} /\ E \in Nat \ {0} /\ es \in Nat \ {0} /\ es * E = b /\ c \in Nat
    BY <2>1, <2>2
  <2> HIDE DEF b
  <2>4. HasEntries(b, E, es)
    BY <2>3 DEF HasEntries
  <2>5. SamePlace(c, b, E, es)
    BY <2>3, <2>4, FatPlace
  <2> QED BY <2>5 DEF b, SamePlace
<1>7. j \in Nat /\ c % E \in 0 .. E - 1 /\ c = E * j + (c % E)
  <2>1. E \in Nat \ {0} /\ c \in Nat
    BY <1>2, <1>5
  <2> HIDE DEF E
  <2>2. c \div E \in Nat /\ c % E \in 0 .. E - 1 /\ c = E * (c \div E) + (c % E)
    BY <2>1, DivMod
  <2> QED BY <2>2, <1>6, Zenon
<1>8. j < v.fatsz
  <2> DEFINE x == c * es
             n == ClusterCount(k)
             y == v.fatsz * BlockSize
  <2>1. x \in Nat /\ x < n * es
    <3>1. (n - 1 - c) * es \in Nat /\ n * es = x + (n - 1 - c) * es + es
      <4>1. n \in Nat /\ c \in 0 .. n - 1 /\ es \in {1, 2}
        BY <1>2, <1>5
      <4> HIDE DEF n, j, E
      <4>2. CASE es = 1
        BY <4>1, <4>2
      <4>3. CASE es = 2
        BY <4>1, <4>3
      <4> QED BY <4>1, <4>2, <4>3, Zenon
    <3> DEFINE z == (n - 1 - c) * es
               w == n * es
    <3>2. z \in Nat /\ w = x + z + es /\ x \in Nat
      BY <3>1, <1>2, <1>5
    <3> HIDE DEF x, z, w
    <3>3. x < w
      BY <3>2, <1>2
    <3> QED BY <3>2, <3>3 DEF w
  <2>2. x < y
    <3> DEFINE a == n * es
    <3>1. a <= y
      BY <1>3, Zenon
    <3>2. a \in Nat /\ y \in Nat
      BY <1>2, <1>4
    <3>3. x \in Nat /\ x < a
      BY <2>1
    <3> HIDE DEF x, y, a
    <3> QED BY <3>1, <3>2, <3>3
  <2> HIDE DEF x
  <2>3. x \div BlockSize < v.fatsz
    BY <2>1, <2>2, <1>2, <1>4, DivBelow
  <2> QED BY <2>3 DEF x
<1> HIDE DEF j, E
<1> DEFINE n == FatSecter(c)
<1>9. n = FatAt(k) + j
  BY <1>1 DEF FatSecter, j, es
<1> HIDE DEF n
<1>10. n \in Nat /\ n < Len(Image[k]) /\ Image[k][n + 1] = Table1("fat", j * E)
  <2>1. \A i \in 1 .. v.fatsz : Image[k][FatAt(k) + i] = Table1("fat", (i - 1) * E)
    BY <1>1 DEF Layout, v, E, es
  <2>0. j \in Nat /\ FatAt(k) \in Nat /\ v.fatsz \in Nat /\ RootAt(k) \in Nat /\ DataAt(k) \in Nat
    BY <1>2, <1>7
  <2>2. j + 1 \in 1 .. v.fatsz /\ (j + 1) - 1 = j /\ FatAt(k) + (j + 1) = n + 1 /\ n \in Nat
    BY <2>0, <1>8, <1>9
  <2>3. Image[k][n + 1] = Table1("fat", j * E)
    BY <2>1, <2>2
  <2>4. n + 1 <= DataAt(k)
    <3>1. v.fatsz <= v.nfats * v.fatsz /\ v.nfats * v.fatsz \in Nat
      <4>1. v.nfats \in Nat \ {0}
        BY <1>1, VolumeIs DEF v
      <4> DEFINE a == v.nfats
                 b == v.fatsz
      <4>2. a \in Nat \ {0} /\ b \in Nat
        BY <4>1, <1>2
      <4> HIDE DEF a, b
      <4>3. (a - 1) * b \in Nat /\ a * b = (a - 1) * b + b
        BY <4>2
      <4>4. b <= a * b /\ a * b \in Nat
        BY <4>2, <4>3
      <4> QED BY <4>4 DEF a, b
    <3> DEFINE w == v.nfats * v.fatsz
    <3>2. RootAt(k) = FatAt(k) + w
      BY DEF RootAt, v
    <3>3. RootSize(k) \in Nat /\ DataAt(k) = RootAt(k) + RootSize(k)
      BY <1>1, VolumeIs DEF DataAt, v
    <3>4. w \in Nat /\ v.fatsz <= w
      BY <3>1
    <3> HIDE DEF w
    <3> QED BY <3>2, <3>3, <3>4, <2>0, <1>8, <1>9
  <2>5. DataAt(k) <= Len(Image[k])
    <3>1. Len(Image[k]) = DataAt(k) + (ClusterCount(k) - 2) * v.spc
      BY <1>1 DEF Layout, v
    <3>2. (ClusterCount(k) - 2) * v.spc \in Nat
      <4>1. ClusterCount(k) - 2 \in Nat /\ v.spc \in Nat
        BY <1>1, VolumeIs DEF v
      <4> QED BY <4>1
    <3> DEFINE w == (ClusterCount(k) - 2) * v.spc
    <3>3. w \in Nat /\ Len(Image[k]) = DataAt(k) + w
      BY <3>1, <3>2
    <3> HIDE DEF w
    <3> QED BY <3>3, <2>0
  <2>6. Len(Image[k]) \in Nat
    BY <1>1
  <2> QED BY <2>0, <2>2, <2>3, <2>4, <2>5, <2>6
<1>11. Block(<<k, n>>) = Table1("fat", j * E)
  <2> HIDE DEF n
  <2> QED BY <1>1, <1>10, BlockIs
<1>12. n < NBlocks
  <2> HIDE DEF n
  <2>1. NBlocks \in Nat
    BY CardAssumption
  <2> QED BY <1>1, <1>10, <2>1
<1>13. FatEntry(Table1("fat", j * E), c) =
         IF v.chain[c] = BadMark THEN 0 ELSE v.chain[c]
  <2>1. EntriesPerSecter = E
    BY <1>1 DEF EntriesPerSecter, E, es
  <2>2. Table1("fat", j * E).first = j * E
    BY DEF Table1
  <2>3. j * E + (c % E) = c
    <3> DEFINE s == c % E
    <3>1. s \in Nat /\ c = E * j + s
      BY <1>7
    <3> HIDE DEF s
    <3>2. j * E + s = c
      BY <3>1, <1>2, <1>7
    <3> QED BY <3>2 DEF s
  <2>4. Table1("fat", j * E).first + (c % EntriesPerSecter) = c
    BY <2>1, <2>2, <2>3
  <2>5. c \in DOMAIN v.chain
    BY DEF v
  <2> DEFINE i == Table1("fat", j * E).first + (c % EntriesPerSecter)
             w == IF i \in DOMAIN v.chain THEN v.chain[i] ELSE 0
  <2>6. FatEntry(Table1("fat", j * E), c) = IF w = BadMark THEN 0 ELSE w
    BY DEF FatEntry, v
  <2>7. w = v.chain[c]
    <3> HIDE DEF i
    <3>1. i = c
      BY <2>4 DEF i
    <3> QED BY <3>1, <2>5
  <2> HIDE DEF w
  <2> QED BY <2>6, <2>7
<1>14. Table1("fat", j * E).is = "fat"
  BY DEF Table1
<1> QED
  BY <1>5, <1>10, <1>11, <1>12, <1>13, <1>14 DEF v, n

(* The sector of the clusters that has sector s of cluster c.              *)
LEMMA DataSecterIs ==
  ASSUME WellFormatted, VolOK, MountOK, phase = "play", vol.sound,
         NEW c \in DOMAIN Volume[vol.card].chain, c >= 2,
         Volume[vol.card].type = 11 => c # 2,
         NEW s \in 0 .. vol.spc - 1
  PROVE  LET k == vol.card
             n == FirstSecter(c) + s
         IN n \in Nat /\ n < NBlocks /\ Block(<<k, n>>) = Data1(c, s)
<1> DEFINE k == vol.card
           v == Volume[k]
           m == ClusterCount(k)
           w == v.spc
           a == (c - 2) * w
           n == FirstSecter(c) + s
<1>1. /\ k \in Cards /\ RegionsFit(v) /\ Layout(k) /\ vol.spc = w
      /\ vol.DataEntrySecter = DataAt(k) /\ Len(Image[k]) \in Nat /\ Len(Image[k]) <= NBlocks
  BY SoundVolume
<1>2. m \in Nat /\ DOMAIN v.chain = 0 .. m - 1 /\ w \in Nat \ {0} /\ DataAt(k) \in Nat
  BY <1>1, VolumeIs
<1>3. c \in 2 .. m - 1 /\ s \in 0 .. w - 1 /\ s + 1 \in 1 .. w
  <2>1. s \in 0 .. w - 1
    BY <1>1
  <2>2. c \in 0 .. m - 1 /\ c >= 2
    BY <1>2
  <2> HIDE DEF w, m
  <2> QED BY <2>1, <2>2, <1>2
<1>4. Image[k][DataAt(k) + (a + (s + 1))] = Data1(c, s)
  <2>1. \A x \in 2 .. m - 1 : \A y \in 1 .. w :
          Image[k][DataAt(k) + ((x - 2) * w + y)] =
            IF v.type = 11 /\ x = RootClus
              THEN Table1("root", (y - 1) * (BlockSize \div DirEntrySize))
              ELSE Data1(x, y - 1)
    BY <1>1 DEF Layout
  <2>2. ~(v.type = 11 /\ c = RootClus)
    BY DEF RootClus
  <2>3. (s + 1) - 1 = s
    BY <1>3
  <2>4. Image[k][DataAt(k) + ((c - 2) * w + (s + 1))] = Data1(c, (s + 1) - 1)
    <3> HIDE DEF v, w, m
    <3> QED BY <2>1, <2>2, <1>3, Zenon
  <2> QED BY <2>3, <2>4
<1>5. Len(Image[k]) = DataAt(k) + (m - 2) * w
  BY <1>1 DEF Layout
<1>6. a \in Nat /\ a + s < (m - 2) * w
  <2> HIDE DEF w, m
  <2>1. a \in Nat /\ (m - 1 - c) * w \in Nat /\ (m - 2) * w = (m - 1 - c) * w + (a + w)
    BY <1>2, <1>3
  <2> DEFINE x == (m - 1 - c) * w
             y == (m - 2) * w
  <2>2. a \in Nat /\ x \in Nat /\ y = x + (a + w)
    BY <2>1
  <2>4. s \in Nat /\ w \in Nat /\ s < w
    BY <1>2, <1>3
  <2> HIDE DEF a, x, y
  <2>3. a + s < y
    BY <2>2, <2>4
  <2> QED BY <2>2, <2>3 DEF y
<1>7. n = DataAt(k) + (a + s)
  <2>1. FirstSecter(c) = a + DataAt(k)
    BY <1>1 DEF FirstSecter
  <2> HIDE DEF a, w
  <2> QED BY <2>1, <1>2, <1>3, <1>6
<1> DEFINE y == (m - 2) * w
<1>8. a \in Nat /\ a + s < y /\ Len(Image[k]) = DataAt(k) + y /\ y \in Int
  <2> HIDE DEF m, w
  <2> QED BY <1>5, <1>6, <1>2
<1> HIDE DEF a, y, n, w, m
<1>9. n \in Nat /\ n < Len(Image[k]) /\ n + 1 = DataAt(k) + (a + (s + 1))
  BY <1>2, <1>3, <1>7, <1>8
<1>10. Block(<<k, n>>) = Data1(c, s)
  BY <1>1, <1>4, <1>9, BlockIs
<1>11. NBlocks \in Nat
  BY CardAssumption
<1> QED
  BY <1>1, <1>9, <1>10, <1>11 DEF n

(* The sector of the root directory that has its entry i + 1.              *)
PerSecter == BlockSize \div DirEntrySize

LEMMA RootSecterIs ==
  ASSUME WellFormatted, VolOK, MountOK, phase = "play", vol.sound,
         NEW i \in Nat, i <= Len(Volume[vol.card].root)
  PROVE  LET k == vol.card
             n == vol.RootDirectoryEntrySecter + i \div PerSecter
             b == Block(<<k, n>>)
         IN n \in Nat /\ n < NBlocks /\ b.is = "root" /\ b.first + (i % PerSecter) + 1 = i + 1
<1> DEFINE k == vol.card
           v == Volume[k]
           m == ClusterCount(k)
           w == v.spc
           B == BlockSize
           q == i \div B
           n == RootAt(k) + q
           len == Len(Volume[k].root)
<1>1. /\ k \in Cards /\ RegionsFit(v) /\ Layout(k)
      /\ vol.RootDirectoryEntrySecter = RootAt(k)
      /\ Len(Image[k]) \in Nat /\ Len(Image[k]) <= NBlocks
  BY SoundVolume
<1>2. /\ m \in Nat /\ m > 2 /\ w \in Nat \ {0} /\ RootAt(k) \in Nat /\ DataAt(k) \in Nat
      /\ RootSize(k) \in Nat /\ v.rootcnt \in Nat
  BY <1>1, VolumeIs
<1>3. PerSecter = B /\ B \in Nat \ {0}
  <2>1. BlockSize \in Nat \ {0}
    BY CardAssumption
  <2>2. BlockSize \div 1 = BlockSize
    BY <2>1
  <2> QED BY <2>1, <2>2 DEF PerSecter, DirEntrySize
<1>4. len \in Nat
  BY <1>1, VolumeAssumption
<1> DEFINE t == i % B
<1>5. q \in Nat /\ t \in 0 .. B - 1 /\ i = B * q + t
  <2> HIDE DEF B
  <2> QED BY <1>3, DivMod
<1>6. DataAt(k) = RootAt(k) + RootSize(k) /\ Len(Image[k]) = DataAt(k) + (m - 2) * w
  BY <1>1 DEF DataAt, Layout
<1>7. (m - 2) * w \in Nat /\ w <= (m - 2) * w
  <2> HIDE DEF m, w
  <2>1. (m - 3) * w \in Nat /\ (m - 2) * w = (m - 3) * w + w
    BY <1>2
  <2> QED BY <2>1, <1>2
<1> DEFINE y == (m - 2) * w
<1>8. y \in Nat /\ w <= y /\ Len(Image[k]) = DataAt(k) + y
  BY <1>6, <1>7
<1> HIDE DEF y, t, q
<1>9. n < Len(Image[k]) /\ Image[k][n + 1] = Table1("root", q * PerSecter)
  <2>1. CASE v.type = 11
    <3>1. v.rootcnt = 0 /\ len < w * B
      BY <1>1, <2>1 DEF RegionsFit
    <3>2. RootSize(k) = 0
      <4>1. RootSize(k) = (0 * DirEntrySize + (B - 1)) \div B
        BY <3>1 DEF RootSize
      <4>2. 0 * DirEntrySize + (B - 1) = B - 1
        BY <1>3 DEF DirEntrySize
      <4>3. (B - 1) \div B = 0
        <5> HIDE DEF B
        <5>1. B - 1 \in Nat /\ B - 1 < 1 * B
          BY <1>3
        <5>2. (B - 1) \div B < 1
          BY <5>1, <1>3, DivBelow
        <5>3. (B - 1) \div B \in Nat
          BY <5>1, <1>3, DivMod
        <5> QED BY <5>2, <5>3
      <4> QED BY <4>1, <4>2, <4>3
    <3>3. q < w
      <4> DEFINE z == w * B
      <4>1. i < z
        <5>1. z \in Nat /\ len < z
          <6> HIDE DEF w, B
          <6> QED BY <3>1, <1>2, <1>3
        <5> HIDE DEF z, len
        <5> QED BY <5>1, <1>4 DEF len
      <4> HIDE DEF B, w, q
      <4> QED BY <4>1, <1>2, <1>3, DivBelow DEF q
    <3>4. \A x \in 2 .. m - 1 : \A s \in 1 .. w :
            Image[k][DataAt(k) + ((x - 2) * w + s)] =
              IF v.type = 11 /\ x = RootClus THEN Table1("root", (s - 1) * PerSecter)
              ELSE Data1(x, s - 1)
      BY <1>1 DEF Layout, PerSecter
    <3>5. 2 \in 2 .. m - 1 /\ q + 1 \in 1 .. w /\ (q + 1) - 1 = q
      <4> HIDE DEF m, w
      <4> QED BY <1>2, <1>5, <3>3
    <3>6. Image[k][DataAt(k) + ((2 - 2) * w + (q + 1))] = Table1("root", ((q + 1) - 1) * PerSecter)
      <4> HIDE DEF m, w, v
      <4> QED BY <3>4, <3>5, <2>1, Zenon DEF RootClus
    <3>7. DataAt(k) + ((2 - 2) * w + (q + 1)) = n + 1
      <4>1. (2 - 2) * w = 0
        BY <1>2
      <4> HIDE DEF w
      <4> QED BY <4>1, <3>2, <1>2, <1>5, <1>6
    <3>8. n < Len(Image[k])
      <4> HIDE DEF w
      <4> QED BY <3>2, <3>3, <1>2, <1>5, <1>6, <1>8
    <3> HIDE DEF n
    <3> QED BY <3>5, <3>6, <3>7, <3>8
  <2>2. CASE v.type # 11
    <3>1. len < v.rootcnt
      BY <1>1, <2>2 DEF RegionsFit
    <3> DEFINE x == v.rootcnt * DirEntrySize + (B - 1)
    <3>2. B * (q + 1) <= x /\ x \in Nat
      <4>1. x = v.rootcnt + (B - 1)
        BY <1>2, <1>3 DEF DirEntrySize
      <4>2. i + 1 <= v.rootcnt
        <5> HIDE DEF len, v
        <5>1. i <= len
          BY DEF len, v
        <5> QED BY <3>1, <5>1, <1>2, <1>4
      <4>3. B * (q + 1) = B * q + B
        BY <1>3, <1>5
      <4> DEFINE z == B * q
      <4>4. z \in Nat /\ i = z + t /\ B * (q + 1) = z + B
        BY <1>3, <1>5, <4>3
      <4>6. v.rootcnt \in Nat /\ B \in Nat \ {0} /\ t \in Nat /\ i \in Nat
        BY <1>2, <1>3, <1>5
      <4> HIDE DEF x, z, B, v, t, q
      <4>5. z + B <= x /\ x \in Nat
        BY <4>1, <4>2, <4>4, <4>6
      <4> QED BY <4>4, <4>5
    <3>3. q + 1 <= RootSize(k)
      <4>1. RootSize(k) = x \div B
        BY DEF RootSize
      <4> HIDE DEF x, B
      <4>2. q + 1 \in Nat
        BY <1>5
      <4>3. q + 1 <= x \div B
        BY <4>2, <3>2, <1>3, DivAtLeast
      <4> QED BY <4>1, <4>3
    <3>4. \A j \in 1 .. RootSize(k) :
            Image[k][RootAt(k) + j] = Table1("root", (j - 1) * PerSecter)
      BY <1>1 DEF Layout, PerSecter
    <3>5. q + 1 \in 1 .. RootSize(k) /\ (q + 1) - 1 = q /\ RootAt(k) + (q + 1) = n + 1
          /\ n < Len(Image[k])
      <4> DEFINE u == Len(Image[k])
      <4>1. /\ DataAt(k) = RootAt(k) + RootSize(k) /\ u = DataAt(k) + y /\ y \in Nat
            /\ RootAt(k) \in Nat /\ RootSize(k) \in Nat /\ q \in Nat
        BY <1>2, <1>5, <1>6, <1>8
      <4> HIDE DEF u
      <4>2. q + 1 \in 1 .. RootSize(k) /\ (q + 1) - 1 = q /\ RootAt(k) + (q + 1) = n + 1 /\ n < u
        BY <4>1, <3>3
      <4> QED BY <4>2 DEF u
    <3> HIDE DEF n
    <3> QED BY <3>4, <3>5
  <2> QED BY <2>1, <2>2
<1>10. n \in Nat
  BY <1>2, <1>5
<1> HIDE DEF n
<1>11. Block(<<k, n>>) = Table1("root", q * PerSecter)
  BY <1>1, <1>9, <1>10, BlockIs
<1>12. n < NBlocks
  <2>1. NBlocks \in Nat
    BY CardAssumption
  <2> QED BY <1>1, <1>9, <1>10, <2>1
<1>13. Table1("root", q * PerSecter).is = "root" /\ Table1("root", q * PerSecter).first = q * PerSecter
  BY DEF Table1
<1>14. q * PerSecter + (i % PerSecter) + 1 = i + 1
  <2>1. q * B = B * q /\ B * q \in Nat
    BY <1>3, <1>5
  <2>2. i % PerSecter = t
    BY <1>3 DEF t
  <2> DEFINE z == q * B
  <2>3. z \in Nat /\ i = z + t
    BY <2>1, <1>5
  <2>4. q * PerSecter = z
    BY <1>3
  <2> HIDE DEF z
  <2> QED BY <2>2, <2>3, <2>4, <1>5
<1>15. n = vol.RootDirectoryEntrySecter + i \div PerSecter
  BY <1>1, <1>3 DEF n, q
<1> QED
  BY <1>10, <1>11, <1>12, <1>13, <1>14, <1>15

-----------------------------------------------------------------------------
(* What the library reads of a sound volume is what is on the card, unless *)
(* it is junk; of one that was mounted in calm, it is what is on the card. *)
CalmRead(r) ==
  vol.calm => CardCalm(r.card) /\ (r.cache.index # -1 => r.cache.data # Junk)

(* fatNextCluster: the next cluster of the chain.                          *)
LEMMA NextSound ==
  ASSUME WellFormatted, IInv, CalmOK, MountOK, phase = "play", vol.sound,
         NEW c \in DOMAIN Volume[vol.card].chain, NEW x \in NextCluster(c)
  PROVE  LET chain == Volume[vol.card].chain IN
         /\ x.sound => x.next = IF chain[c] = BadMark THEN 0 ELSE chain[c]
         /\ vol.calm => x.sound
         /\ CalmRead(x.r)
<1> DEFINE n == FatSecter(c)
           at == <<vol.card, n>>
<1>1. CardOK /\ SdOK /\ Agreed /\ CacheOK /\ VolOK
  BY DEF IInv
<1>2. /\ n \in Nat /\ n < NBlocks /\ Block(at).is = "fat"
      /\ FatEntry(Block(at), c) = IF Volume[vol.card].chain[c] = BadMark
                                    THEN 0 ELSE Volume[vol.card].chain[c]
  BY <1>1, FatSecterIs
<1>3. Block(Junk).is # "fat"
  BY DEF Block
<1>4. PICK r \in ReadSecter(n) :
        LET b == Block(r.cache.data) IN
        x \in IF r.ok /\ b.is = "fat"
                THEN {[next |-> FatEntry(b, c), sound |-> TRUE, r |-> r]}
                ELSE {[next |-> y, sound |-> FALSE, r |-> r] : y \in Garbage}
  BY DEF NextCluster
<1> HIDE DEF n
<1>5. /\ r.ok => r.cache.data \in {at, Junk}
      /\ vol.calm => /\ CardCalm(r.card)
                     /\ r.cache.index # -1 => r.cache.data # Junk
                     /\ r.ok /\ r.cache.data = at
  BY <1>1, <1>2, SecterRead
<1> HIDE DEF at
<1>6. \/ /\ r.ok /\ Block(r.cache.data).is = "fat"
         /\ x = [next |-> FatEntry(Block(r.cache.data), c), sound |-> TRUE, r |-> r]
      \/ /\ ~(r.ok /\ Block(r.cache.data).is = "fat")
         /\ \E y \in Garbage : x = [next |-> y, sound |-> FALSE, r |-> r]
  BY <1>4
<1>7. \/ /\ r.ok /\ Block(r.cache.data).is = "fat"
         /\ x.next = FatEntry(Block(r.cache.data), c) /\ x.sound = TRUE /\ x.r = r
      \/ /\ ~(r.ok /\ Block(r.cache.data).is = "fat") /\ x.sound = FALSE /\ x.r = r
  BY <1>6
<1>8. CalmRead(x.r)
  BY <1>5, <1>7 DEF CalmRead
<1> QED BY <1>2, <1>3, <1>5, <1>7, <1>8

(* fatReadSecter on a sector of a cluster: the bytes of that cluster.      *)
LEMMA DataSound ==
  ASSUME WellFormatted, IInv, CalmOK, MountOK, phase = "play", vol.sound,
         NEW c \in DOMAIN Volume[vol.card].chain, c >= 2,
         Volume[vol.card].type = 11 => c # 2,
         NEW s \in 0 .. vol.spc - 1,
         NEW r \in ReadSecter(FirstSecter(c) + s)
  PROVE  /\ r.ok /\ Block(r.cache.data).is # "junk" =>
              \A i : Byte(r.cache.data, i) = <<vol.card, c, s, i>>
         /\ vol.calm => r.ok /\ Block(r.cache.data).is # "junk"
         /\ CalmRead(r)
<1> DEFINE n == FirstSecter(c) + s
           at == <<vol.card, n>>
<1>1. CardOK /\ SdOK /\ Agreed /\ CacheOK /\ VolOK
  BY DEF IInv
<1>2. n \in Nat /\ n < NBlocks /\ Block(at) = Data1(c, s)
  BY <1>1, DataSecterIs
<1>3. Block(Junk).is = "junk"
  BY DEF Block
<1> HIDE DEF n
<1>5. /\ r.ok => r.cache.data \in {at, Junk}
      /\ vol.calm => /\ CardCalm(r.card)
                     /\ r.cache.index # -1 => r.cache.data # Junk
                     /\ r.ok /\ r.cache.data = at
  BY <1>1, <1>2, SecterRead DEF n
<1>6. CalmRead(r)
  BY <1>5 DEF CalmRead
<1>7. Data1(c, s).is = "data" /\ Data1(c, s).cluster = c /\ Data1(c, s).secter = s
  BY DEF Data1
<1>8. \A i : Byte(at, i) = <<vol.card, c, s, i>>
  BY <1>2, <1>7 DEF Byte
<1> HIDE DEF at
<1> QED BY <1>2, <1>3, <1>5, <1>6, <1>7, <1>8

(* fatReadSecter on the root directory: the sector with entry i + 1.       *)
LEMMA RootSound ==
  ASSUME WellFormatted, IInv, CalmOK, MountOK, phase = "play", vol.sound,
         NEW i \in Nat, i <= Len(Volume[vol.card].root),
         NEW r \in ReadSecter(vol.RootDirectoryEntrySecter + i \div PerSecter)
  PROVE  LET b == Block(r.cache.data) IN
         /\ r.ok /\ b.is = "root" => b.first + (i % PerSecter) + 1 = i + 1
         /\ vol.calm => r.ok /\ b.is = "root"
         /\ CalmRead(r)
<1> DEFINE n == vol.RootDirectoryEntrySecter + i \div PerSecter
           at == <<vol.card, n>>
           b == Block(at)
<1>1. CardOK /\ SdOK /\ Agreed /\ CacheOK /\ VolOK
  BY DEF IInv
<1>2. n \in Nat /\ n < NBlocks /\ b.is = "root" /\ b.first + (i % PerSecter) + 1 = i + 1
  BY <1>1, RootSecterIs
<1>3. Block(Junk).is = "junk"
  BY DEF Block
<1> HIDE DEF n
<1>5. /\ r.ok => r.cache.data \in {at, Junk}
      /\ vol.calm => /\ CardCalm(r.card)
                     /\ r.cache.index # -1 => r.cache.data # Junk
                     /\ r.ok /\ r.cache.data = at
  BY <1>1, <1>2, SecterRead DEF n
<1>6. CalmRead(r)
  BY <1>5 DEF CalmRead
<1>7. r.cache.data = at => Block(r.cache.data) = b
  OBVIOUS
<1> HIDE DEF at, b
<1> QED BY <1>2, <1>3, <1>5, <1>6, <1>7

-----------------------------------------------------------------------------
(* The steps of ByteStream, as they look in the library's state.           *)
StreamStep == [Streams!Next]_(Streams!vars)

(* Nothing the player sees changes.                                        *)
LEMMA SameStep ==
  ASSUME UNCHANGED <<phase, vol, last>>, \A f \in Files : StreamPos(f)' = StreamPos(f)
  PROVE  StreamStep
<1>1. StreamMount' = StreamMount /\ StreamResult' = StreamResult
  BY DEF StreamMount, StreamResult
<1>2. StreamPositions' = StreamPositions
  <2> HIDE DEF StreamPos
  <2> QED BY DEF StreamPositions
<1> QED BY <1>1, <1>2 DEF StreamStep, Streams!vars

LEMMA BeginStep ==
  ASSUME UNCHANGED <<phase, vol, file>>, last' = NoResult
  PROVE  StreamStep
<1>1. StreamMount' = StreamMount /\ StreamPositions' = StreamPositions
  BY DEF StreamMount, StreamPositions, StreamPos
<1>2. StreamResult' = Streams!NoCall
  BY DEF StreamResult, NoResult, Result, Streams!NoCall, Streams!Call
<1> QED BY <1>1, <1>2 DEF StreamStep, Streams!Next, Streams!Begin

(* All handles are closed.                                                 *)
LEMMA AllClosed ==
  ASSUME file' = [f \in Files |-> Closed], last' = NoResult
  PROVE  /\ StreamPositions' = [f \in Files |-> Streams!Closed]
         /\ StreamResult' = Streams!NoCall
<1>1. \A f \in Files : file'[f].IsOpened = FALSE
  BY DEF Closed
<1>2. \A f \in Files : StreamPos(f)' = Streams!Closed
  BY <1>1 DEF StreamPos, Streams!Closed
<1>3. StreamResult' = Streams!NoCall
  BY DEF StreamResult, NoResult, Result, Streams!NoCall, Streams!Call
<1> QED BY <1>2, <1>3 DEF StreamPositions

LEMMA MountStep ==
  ASSUME phase' = "play", vol'.card \in Cards, vol'.calm \in BOOLEAN,
         file' = [f \in Files |-> Closed], last' = NoResult
  PROVE  StreamStep
<1>1. StreamMount' = [medium |-> vol'.card, calm |-> vol'.calm]
  BY DEF StreamMount
<1>2. Streams!Mount(vol'.card, vol'.calm)
  BY <1>1, AllClosed DEF Streams!Mount
<1> QED BY <1>2 DEF StreamStep, Streams!Next

LEMMA UnmountStep ==
  ASSUME phase' # "play", file' = [f \in Files |-> Closed], last' = NoResult
  PROVE  StreamStep
<1>1. StreamMount' = [medium |-> "none", calm |-> FALSE]
  BY DEF StreamMount
<1>2. Streams!Unmount
  BY <1>1, AllClosed DEF Streams!Unmount
<1> QED BY <1>2 DEF StreamStep, Streams!Next

(* A call on file f of a mounted volume.                                   *)
OnFile(f) ==
  /\ f \in Files /\ phase = "play" /\ phase' = "play" /\ vol' = vol /\ vol.card \in Cards
  /\ \A g \in Files \ {f} : file'[g] = file[g]

LEMMA OnFileIs ==
  ASSUME NEW f, OnFile(f)
  PROVE  /\ StreamMount = [medium |-> vol.card, calm |-> vol.calm]
         /\ StreamMount' = StreamMount /\ StreamMount.medium = vol.card
         /\ StreamMount.calm = vol.calm /\ vol.card # "none"
         /\ StreamPositions' = [StreamPositions EXCEPT ![f] = StreamPos(f)']
         /\ StreamPositions[f] = StreamPos(f)
         /\ f \in Files
<1>1. /\ StreamMount = [medium |-> vol.card, calm |-> vol.calm]
      /\ StreamMount' = [medium |-> vol.card, calm |-> vol.calm] /\ vol.card # "none"
  BY CallAssumption DEF OnFile, StreamMount
<1>2. \A g \in Files \ {f} : StreamPos(g)' = StreamPos(g)
  BY DEF OnFile, StreamPos
<1>3. f \in Files
  BY DEF OnFile
<1>4. /\ StreamPositions = [g \in Files |-> StreamPos(g)]
      /\ StreamPositions' = [g \in Files |-> StreamPos(g)']
  BY DEF StreamPositions
<1>5. /\ StreamPositions' = [StreamPositions EXCEPT ![f] = StreamPos(f)']
      /\ StreamPositions[f] = StreamPos(f)
  BY <1>2, <1>3, <1>4
<1> QED BY <1>1, <1>3, <1>5

(* A file is as long as its entry says.                                    *)
LEMMA BytesAre ==
  ASSUME NEW k \in Cards, NEW f \in Files
  PROVE  LET b == FileBytes[k][f] IN
         /\ b = [i \in 1 .. EntryOf(k, f).size |-> b[i]]
         /\ Len(b) = EntryOf(k, f).size
<1> DEFINE e == EntryOf(k, f)
           spc == Volume[k].spc
           nth == Clusters(k, e)
           b == [i \in 1 .. e.size |->
                  <<k, nth[(i - 1) \div (spc * BlockSize)],
                    ((i - 1) \div BlockSize) % spc, (i - 1) % BlockSize>>]
<1>1. e.size \in Nat
  BY EntryIs
<1>2. FileBytes[k][f] = b
  BY DEF FileBytes
<1>3. b = [i \in 1 .. e.size |-> b[i]]
  <2> HIDE DEF nth, spc, e
  <2> QED OBVIOUS
<1> HIDE DEF b, e
<1> QED BY <1>1, <1>2, <1>3 DEF e

LEMMA SizeIs ==
  ASSUME NEW f, OnFile(f)
  PROVE  /\ Streams!Size(f) = EntryOf(vol.card, f).size
         /\ EntryOf(vol.card, f).size \in Nat
<1>1. StreamMount.medium = vol.card
  BY OnFileIs
<1>2. vol.card \in Cards /\ f \in Files
  BY DEF OnFile
<1>3. Len(FileBytes[vol.card][f]) = EntryOf(vol.card, f).size
  BY <1>2, BytesAre
<1>4. EntryOf(vol.card, f).size \in Nat
  BY <1>2, EntryIs
<1> QED BY <1>1, <1>3, <1>4 DEF Streams!Size

LEMMA OpenStep ==
  ASSUME NEW f, OnFile(f), StreamPos(f)' = 0, EntryOf(vol.card, f).size > 0,
         NEW s, s = [f |-> f, ok |-> TRUE, data |-> <<>>], StreamResult' = s
  PROVE  StreamStep
<1>1. /\ StreamMount' = StreamMount /\ StreamMount.medium = vol.card /\ vol.card # "none"
      /\ StreamPositions' = [StreamPositions EXCEPT ![f] = 0] /\ f \in Files
  BY OnFileIs
<1>2. Streams!Size(f) = EntryOf(vol.card, f).size
  BY SizeIs
<1>3. EntryOf(vol.card, f).size \in Nat
  BY SizeIs
<1>4. Streams!Open(f)
  BY <1>1, <1>2, <1>3 DEF Streams!Open, Streams!Call
<1> QED BY <1>1, <1>4 DEF StreamStep, Streams!Next

LEMMA MissingStep ==
  ASSUME NEW f, OnFile(f), StreamPos(f)' = -1, EntryOf(vol.card, f).size = 0,
         NEW s, s = [f |-> f, ok |-> FALSE, data |-> <<>>], StreamResult' = s
  PROVE  StreamStep
<1>1. /\ StreamMount' = StreamMount /\ StreamMount.medium = vol.card /\ vol.card # "none"
      /\ StreamPositions' = [StreamPositions EXCEPT ![f] = -1] /\ f \in Files
  BY OnFileIs
<1>2. Streams!Size(f) = 0
  BY SizeIs
<1>3. Streams!Open(f)
  BY <1>1, <1>2 DEF Streams!Open, Streams!Call, Streams!Closed
<1> QED BY <1>1, <1>3 DEF StreamStep, Streams!Next

LEMMA ReadStep ==
  ASSUME NEW f, OnFile(f), NEW p \in Nat, NEW n \in Nat, StreamPos(f) = p,
         StreamPos(f)' = p + n, p + n <= EntryOf(vol.card, f).size,
         NEW s, s = [f |-> f, ok |-> TRUE,
                     data |-> SubSeq(FileBytes[vol.card][f], p + 1, p + n)],
         StreamResult' = s
  PROVE  StreamStep
<1>1. /\ StreamMount' = StreamMount /\ StreamMount.medium = vol.card
      /\ StreamPositions' = [StreamPositions EXCEPT ![f] = p + n] /\ f \in Files
      /\ StreamPositions[f] = p
  BY OnFileIs
<1>2. Streams!Size(f) = EntryOf(vol.card, f).size
  BY SizeIs
<1>3. EntryOf(vol.card, f).size \in Nat
  BY SizeIs
<1>4. p \notin Streams!Down
  BY DEF Streams!Down, Streams!Closed, Streams!Failed, Streams!Tampered
<1>5. n \in 0 .. Streams!Size(f)
  BY <1>2, <1>3
<1>6. StreamPositions' = [StreamPositions EXCEPT ![f] = @ + n]
  BY <1>1
<1>7. Streams!Read(f, n)
  <2>1. StreamResult' = Streams!Call(f, TRUE,
          SubSeq(FileBytes[StreamMount.medium][f], StreamPositions[f] + 1,
                 StreamPositions[f] + n))
    BY <1>1 DEF Streams!Call
  <2>2. StreamPositions[f] \notin Streams!Down /\ StreamPositions[f] + n <= Streams!Size(f)
    BY <1>1, <1>2, <1>4
  <2> QED BY <1>1, <1>6, <2>1, <2>2 DEF Streams!Read
<1> QED BY <1>1, <1>5, <1>7 DEF StreamStep, Streams!Next

LEMMA ReadOnStep ==
  ASSUME NEW f, OnFile(f), StreamPos(f) = -2, StreamPos(f)' = -3,
         StreamResult' = Streams!NoCall
  PROVE  StreamStep
<1>1. /\ StreamMount' = StreamMount /\ f \in Files
      /\ StreamPositions' = [StreamPositions EXCEPT ![f] = -3]
      /\ StreamPositions[f] = -2
  BY OnFileIs
<1>2. Streams!ReadOn(f)
  BY <1>1 DEF Streams!ReadOn, Streams!Failed, Streams!Tampered
<1> QED BY <1>1, <1>2 DEF StreamStep, Streams!Next

LEMMA SeekStep ==
  ASSUME NEW f, OnFile(f), NEW p \in Nat, StreamPos(f) \notin {-1, -3},
         StreamPos(f)' = p, p <= EntryOf(vol.card, f).size,
         NEW s, s = [f |-> f, ok |-> TRUE, data |-> <<>>], StreamResult' = s
  PROVE  StreamStep
<1>1. /\ StreamMount' = StreamMount /\ StreamMount.medium = vol.card
      /\ StreamPositions' = [StreamPositions EXCEPT ![f] = p] /\ f \in Files
      /\ StreamPositions[f] \notin {-1, -3}
  BY OnFileIs
<1>2. Streams!Size(f) = EntryOf(vol.card, f).size
  BY SizeIs
<1>3. EntryOf(vol.card, f).size \in Nat
  BY SizeIs
<1>5. p \in 0 .. Streams!Size(f)
  BY <1>2, <1>3
<1>7. Streams!Seek(f, p)
  BY <1>1, <1>2 DEF Streams!Seek, Streams!Call, Streams!Closed, Streams!Tampered
<1> QED BY <1>1, <1>5, <1>7 DEF StreamStep, Streams!Next

LEMMA DisturbStep ==
  ASSUME NEW f, OnFile(f), ~vol.calm, StreamPos(f)' \in {-1, -2, -3},
         NEW s, s = [f |-> f, ok |-> FALSE, data |-> <<>>],
         last' = last \/ StreamResult' = s
  PROVE  StreamStep
<1>1. /\ StreamMount' = StreamMount /\ StreamMount.medium # "none"
      /\ StreamMount.calm = vol.calm
      /\ StreamPositions' = [StreamPositions EXCEPT ![f] = StreamPos(f)'] /\ f \in Files
  BY OnFileIs
<1>2. StreamPos(f)' \in Streams!Down
  BY DEF Streams!Down, Streams!Closed, Streams!Failed, Streams!Tampered
<1>3. StreamResult' \in {StreamResult, Streams!Call(f, FALSE, <<>>)}
  BY DEF StreamResult, Streams!Call
<1>4. ~StreamMount.calm
  BY <1>1
<1>5. Streams!Disturb(f)
  BY <1>1, <1>2, <1>3, <1>4 DEF Streams!Disturb
<1> QED BY <1>1, <1>5 DEF StreamStep, Streams!Next

-----------------------------------------------------------------------------
(* The calls and the streams.                                              *)
CallsOK == (\A f \in Files : StreamOK(f)) /\ ReadCallOK /\ BrowseOK

LEMMA CallsKept ==
  ASSUME CallsOK, UNCHANGED <<phase, vol, file, op>>
  PROVE  CallsOK'
<1> QED
  BY DEF CallsOK, StreamOK, ReadCallOK, BrowseOK, Reading, Lost, Reached, BytesPerCluster

(* Before a volume is mounted there are none.                              *)
LEMMA NoCallsKept ==
  ASSUME CallOK, CallsOK, phase # "play", UNCHANGED <<file, op>>
  PROVE  CallsOK'
<1>1. op' = Idle
  BY DEF CallOK
<1>2. \A f \in Files : ~file'[f].IsOpened
  BY DEF CallsOK, StreamOK
<1> QED
  BY <1>1, <1>2 DEF CallsOK, StreamOK, ReadCallOK, BrowseOK, Idle

LEMMA ClosedCalls ==
  ASSUME op' = Idle, file' = [f \in Files |-> Closed]
  PROVE  CallsOK' /\ \A f \in Files : file'[f].sound /\ ~file'[f].failed
<1>1. \A f \in Files : ~file'[f].IsOpened /\ file'[f].sound /\ ~file'[f].failed
  BY DEF Closed
<1> QED
  BY <1>1 DEF CallsOK, StreamOK, ReadCallOK, BrowseOK, Idle

-----------------------------------------------------------------------------
(* Waiting for a card and mounting it.                                     *)
LEMMA InitStepRefines ==
  ASSUME IInv, RInv, InitStep, UNCHANGED fatVars
  PROVE  RInv' /\ StreamStep
<1>1. CardOK /\ SdOK /\ CallOK /\ VolOK
  BY DEF IInv
<1>2. UNCHANGED <<phase, vol, cache, file, op, last>>
  BY DEF fatVars
<1>3. phase \notin {"mbr", "br", "play"}
  <2>1. init # "none" /\ init # "done"
    <3>1. ASSUME InScript PROVE init # "none" /\ init # "done"
      BY <3>1, ScriptOrder DEF Steps
    <3> QED
      BY <3>1 DEF InitStep, InitReset, InitCmd8, InitCmd55, InitAcmd41, InitScript
  <2> QED BY <1>1, <2>1 DEF SdOK
<1>4. init' = "done" /\ ~moved' => card'.st = "tran" /\ ~card'.err
  <2>1. CASE InitScript
    <3>1. /\ InScript
          /\ init \in Steps
          /\ ScriptAt = Len(Script) <=> init = "ACMD42"
          /\ init # "ACMD42" => Script[ScriptAt + 1] \in Steps
      BY <2>1, ScriptOrder DEF InitScript
    <3>2. PICK o \in Outcomes(ScriptCommand) :
            /\ card' = o.card
            /\ IF Accepted(init, o.resp)
                 THEN init' = IF ScriptAt = Len(Script) THEN "done" ELSE Script[ScriptAt + 1]
                 ELSE init' = "failed"
      BY <2>1 DEF InitScript
    <3>3. Accepted(init, o.resp) /\ init = "ACMD42" => o.card.st = "tran" /\ ~o.card.err
      BY <1>1, <3>1, ScriptEffect
    <3> QED BY <3>1, <3>2, <3>3 DEF Steps
  <2>2. CASE InitReset \/ InitCmd8 \/ InitCmd55
    <3>1. init' \in {"CMD8", "CMD55", "CMD0 again", "ACMD41", "failed"}
      BY <2>2 DEF InitReset, InitCmd8, InitCmd55
    <3> QED BY <3>1
  <2>3. CASE InitAcmd41
    <3>1. Script[1] = "CMD2"
      BY DEF Script
    <3>2. init' \in {"CMD2", "failed", "CMD55"}
      BY <2>3, <3>1 DEF InitAcmd41, PollAgain
    <3> QED BY <3>2
  <2> QED BY <2>1, <2>2, <2>3 DEF InitStep
<1>5. CalmOK' /\ MountOK'
  BY <1>2, <1>3, <1>4 DEF CalmOK, MountOK
<1>6. CallsOK'
  BY <1>2, CallsKept DEF RInv, CallsOK
<1>7. StreamStep
  <2>1. \A f \in Files : StreamPos(f)' = StreamPos(f)
    BY <1>2 DEF StreamPos
  <2> QED BY <1>2, <2>1, SameStep
<1> QED BY <1>5, <1>6, <1>7 DEF RInv, CallsOK

LEMMA InsertRefines ==
  ASSUME IInv, RInv, InsertTry \/ MountTry \/ MountGivesUp \/ MountFound
  PROVE  RInv' /\ StreamStep
<1>1. CardOK /\ SdOK /\ CallOK /\ VolOK
  BY DEF IInv
<1>2. UNCHANGED <<card, noise, moved, file, op, last>>
  BY DEF InsertTry, MountTry, MountGivesUp, MountFound, Call, Halt, cardVars, sdVars
<1>3. phase \in {"insert", "mount"} /\ phase' # "play"
  BY DEF InsertTry, MountTry, MountGivesUp, MountFound, Halt
<1>4. CallsOK'
  BY <1>1, <1>2, <1>3, NoCallsKept DEF RInv, CallsOK
<1>5. StreamStep
  <2>1. StreamMount' = StreamMount
    BY <1>3 DEF StreamMount
  <2>2. StreamPositions' = StreamPositions /\ StreamResult' = StreamResult
    BY <1>2 DEF StreamPositions, StreamPos, StreamResult
  <2> QED BY <2>1, <2>2 DEF StreamStep, Streams!vars
<1>6. CASE InsertTry \/ MountTry
  <2>1. init' = "CMD0" /\ phase' \in {"insert", "mount"}
    BY <1>6 DEF InsertTry, MountTry, Call, InitCall
  <2>2. CalmOK' /\ MountOK'
    BY <2>1 DEF CalmOK, MountOK
  <2> QED BY <1>4, <1>5, <2>2 DEF RInv, CallsOK
<1>7. CASE MountGivesUp
  <2>1. phase' = "halted"
    BY <1>7 DEF MountGivesUp, Halt
  <2>2. CalmOK' /\ MountOK'
    BY <2>1 DEF CalmOK, MountOK
  <2> QED BY <1>4, <1>5, <2>2 DEF RInv, CallsOK
<1>8. CASE MountFound
  <2>1. /\ phase = "mount" /\ init = "done" /\ phase' = "mbr"
        /\ vol' = [NoVolume EXCEPT !.calm = ~noise /\ ~moved, !.sound = TRUE]
    BY <1>8 DEF MountFound
  <2>2. vol'.calm => ~noise /\ ~moved
    BY <2>1 DEF NoVolume
  <2>3. ~moved => card.st = "tran" /\ ~card.err
    BY <2>1 DEF RInv, CalmOK
  <2>4. CalmOK'
    BY <1>2, <2>1, <2>2, <2>3 DEF CalmOK
  <2>5. MountOK'
    BY <2>1 DEF MountOK
  <2> QED BY <1>4, <1>5, <2>4, <2>5 DEF RInv, CallsOK
<1> QED BY <1>6, <1>7, <1>8

(* The read of a block while the volume is mounted.                        *)
LEMMA MountRead ==
  ASSUME IInv, RInv, phase \in {"mbr", "br"}, NEW n, NEW r \in ReadBlock512(n)
  PROVE  /\ r.ok \in BOOLEAN /\ r.card.id = card.id
         /\ r.ok => /\ card.id \in Cards
                    /\ r.data = Junk \/ (r.data # Junk /\ r.data[1] = card.id)
                    /\ Awake(card)
         /\ Awake(r.card) => Awake(card)
         /\ vol.calm => CardCalm(r.card)
<1>1. CardOK /\ SdOK /\ Agreed
  BY DEF IInv
<1>2. /\ r.ok \in BOOLEAN /\ r.card.id = card.id /\ (Awake(r.card) => Awake(card))
      /\ r.ok => /\ Awake(card) /\ card.id \in Cards
                 /\ r.data \in {<<card.id, BlockAt(card, Address(n))>>, Junk}
  BY <1>1, ReadBlockEffect
<1>3. ASSUME vol.calm PROVE CardCalm(r.card)
  <2>1. ~noise /\ CardCalm(card)
    BY <1>3 DEF RInv, CalmOK, CardCalm
  <2>2. card.wide
    BY <1>1, <2>1 DEF CardCalm, Awake, Agreed, SdOK, KnowsWidth
  <2> QED BY <1>1, <2>1, <2>2, CalmBlock
<1>4. card.id \in Cards => <<card.id, BlockAt(card, Address(n))>> # Junk
  BY JunkIsJunk
<1>5. <<card.id, BlockAt(card, Address(n))>>[1] = card.id
  OBVIOUS
<1> QED BY <1>2, <1>3, <1>4, <1>5

LEMMA MbrRefines ==
  ASSUME IInv, RInv, MountMbr
  PROVE  RInv' /\ StreamStep
<1>1. CardOK /\ SdOK /\ CallOK /\ VolOK
  BY DEF IInv
<1>2. UNCHANGED <<noise, file, op, last>> /\ phase = "mbr"
  BY DEF MountMbr
<1>3. PICK r \in ReadBlock512(0) :
        /\ card' = r.card
        /\ \E v \in IF r.ok /\ r.data # Junk
                      THEN {[type |-> Volume[r.data[1]].type, start |-> Volume[r.data[1]].start]}
                      ELSE [type : {0, FAT16, FAT32}, start : {1}] :
            IF r.ok /\ v.type \in {FAT16, FAT32}
              THEN /\ phase' = "br"
                   /\ vol' = [vol EXCEPT !.type = v.type, !.start = v.start,
                                         !.sound = @ /\ r.data # Junk]
              ELSE Halt
  BY DEF MountMbr
<1>4. /\ r.card.id = card.id
      /\ r.ok => r.data = Junk \/ r.data[1] = card.id
      /\ vol.calm => CardCalm(r.card)
  BY <1>2, MountRead
<1>5. PICK v : 
        /\ v \in IF r.ok /\ r.data # Junk
                   THEN {[type |-> Volume[r.data[1]].type, start |-> Volume[r.data[1]].start]}
                   ELSE [type : {0, FAT16, FAT32}, start : {1}]
        /\ IF r.ok /\ v.type \in {FAT16, FAT32}
             THEN /\ phase' = "br"
                  /\ vol' = [vol EXCEPT !.type = v.type, !.start = v.start,
                                        !.sound = @ /\ r.data # Junk]
             ELSE Halt
  BY <1>3
<1>6. phase' # "play"
  BY <1>5 DEF Halt
<1>7. CallsOK'
  BY <1>1, <1>2, NoCallsKept DEF RInv, CallsOK
<1>8. StreamStep
  <2>1. StreamMount' = StreamMount
    BY <1>2, <1>6 DEF StreamMount
  <2>2. StreamPositions' = StreamPositions /\ StreamResult' = StreamResult
    BY <1>2 DEF StreamPositions, StreamPos, StreamResult
  <2> QED BY <2>1, <2>2 DEF StreamStep, Streams!vars
<1>9. CASE r.ok /\ v.type \in {FAT16, FAT32}
  <2> DEFINE fine == vol.sound /\ r.data # Junk
  <2>1. phase' = "br" /\ vol' = [vol EXCEPT !.type = v.type, !.start = v.start, !.sound = fine]
    BY <1>5, <1>9
  <2>2. /\ vol'.type = v.type /\ vol'.start = v.start /\ vol'.sound = fine
        /\ vol'.calm = vol.calm
    BY <1>1, <2>1 DEF VolOK
  <2>3. fine => v = [type |-> Volume[card.id].type, start |-> Volume[card.id].start]
    BY <1>4, <1>5, <1>9
  <2> HIDE DEF fine
  <2>4. MountOK'
    <3>1. fine => v.type = Volume[card.id].type /\ v.start = Volume[card.id].start
      BY <2>3
    <3>2. card'.id = card.id
      BY <1>3, <1>4
    <3> QED BY <1>9, <2>1, <2>2, <3>1, <3>2 DEF MountOK, Mounted, Fats
  <2>5. CalmOK'
    <3>1. vol'.calm => ~noise' /\ card'.st = "tran" /\ ~card'.err
      BY <1>2, <1>3, <1>4, <2>2 DEF RInv, CalmOK, CardCalm
    <3> QED BY <2>1, <3>1 DEF CalmOK
  <2> QED BY <1>7, <1>8, <2>4, <2>5 DEF RInv, CallsOK
<1>10. CASE ~(r.ok /\ v.type \in {FAT16, FAT32})
  <2>1. phase' = "halted"
    BY <1>5, <1>10 DEF Halt
  <2>2. CalmOK' /\ MountOK'
    BY <2>1 DEF CalmOK, MountOK
  <2> QED BY <1>7, <1>8, <2>2 DEF RInv, CallsOK
<1> QED BY <1>9, <1>10

LEMMA BrRefines ==
  ASSUME IInv, RInv, MountBr
  PROVE  RInv' /\ StreamStep
<1>1. CardOK /\ SdOK /\ CallOK /\ VolOK
  BY DEF IInv
<1>2. /\ UNCHANGED <<noise, op>> /\ phase = "br" /\ op = Idle
      /\ file' = [f \in Files |-> Closed] /\ last' = NoResult
  BY <1>1 DEF MountBr, CallOK
<1>3. PICK r \in ReadBlock512(vol.start) :
        /\ card' = r.card
        /\ IF ~r.ok THEN Halt /\ UNCHANGED cache
           ELSE LET k == IF r.data = Junk THEN card.id ELSE r.data[1]
                    g == Geometry(Volume[k])
                IN /\ cache' = Empty
                   /\ \/ Halt
                      \/ /\ phase' = "play" /\ init' = "none"
                         /\ vol' = [vol EXCEPT !.spc = g.spc, !.FatEntrySecter = g.fat,
                                       !.RootDirectoryEntrySecter = g.root,
                                       !.DataEntrySecter = g.data, !.card = k,
                                       !.sound = @ /\ Block(r.data).is = "br"]
                         /\ Block(r.data).is = "br" => Volume[k].bps = BlockSize
  BY DEF MountBr, Supports
<1>4. CallsOK' /\ \A f \in Files : file'[f].sound /\ ~file'[f].failed
  BY <1>2, ClosedCalls
<1>5. CASE Halt
  <2>1. phase' = "halted"
    BY <1>5 DEF Halt
  <2>2. CalmOK' /\ MountOK'
    BY <2>1 DEF CalmOK, MountOK
  <2>3. StreamStep
    BY <1>2, <2>1, UnmountStep
  <2> QED BY <1>4, <2>2, <2>3 DEF RInv, CallsOK
<1>6. CASE ~Halt
  <2>0. r.ok
    BY <1>3, <1>6
  <2> DEFINE k == card.id
             g == Geometry(Volume[k])
             isBr == Block(r.data).is = "br"
  <2>1. /\ r.card.id = k /\ k \in Cards /\ Awake(card)
        /\ r.data = Junk \/ (r.data # Junk /\ r.data[1] = k)
        /\ vol.calm => CardCalm(r.card)
    BY <1>2, <2>0, MountRead
  <2>2. (IF r.data = Junk THEN card.id ELSE r.data[1]) = k
    BY <2>1
  <2>3. /\ phase' = "play" /\ init' = "none" /\ cache' = Empty
        /\ vol' = [vol EXCEPT !.spc = g.spc, !.FatEntrySecter = g.fat,
                      !.RootDirectoryEntrySecter = g.root,
                      !.DataEntrySecter = g.data, !.card = k, !.sound = @ /\ isBr]
        /\ isBr => Volume[k].bps = BlockSize
    BY <1>3, <1>6, <2>0, <2>2
  <2>4. /\ vol'.type = vol.type /\ vol'.start = vol.start /\ vol'.calm = vol.calm
        /\ vol'.spc = g.spc /\ vol'.FatEntrySecter = g.fat
        /\ vol'.RootDirectoryEntrySecter = g.root /\ vol'.DataEntrySecter = g.data
        /\ vol'.card = k /\ vol'.sound = (vol.sound /\ isBr)
    <3> HIDE DEF k, g, isBr
    <3> QED BY <1>1, <2>3 DEF VolOK
  <2>5. ASSUME vol.sound
        PROVE  /\ Mounted(k) /\ g.spc = Volume[k].spc
               /\ g.fat = FatAt(k) /\ g.root = RootAt(k) /\ g.data = DataAt(k)
    <3>1. Mounted(k)
      BY <1>2, <2>1, <2>5 DEF RInv, MountOK
    <3>2. vol.start = Volume[k].start
      BY <3>1 DEF Mounted
    <3> QED BY <3>1, <3>2 DEF Geometry, FatAt, RootAt, RootSize, DataAt
  <2> HIDE DEF k, g, isBr
  <2>6. MountOK'
    BY <2>3, <2>4, <2>5 DEF MountOK, Mounted
  <2>7. CalmOK'
    <3>1. vol'.calm => ~noise' /\ card'.st = "tran" /\ ~card'.err
      BY <1>2, <1>3, <2>1, <2>4 DEF RInv, CalmOK, CardCalm
    <3>2. cache'.index = -1
      BY <2>3 DEF Empty
    <3> QED BY <1>4, <2>3, <3>1, <3>2 DEF CalmOK
  <2>8. StreamStep
    <3>1. vol'.card \in Cards /\ vol'.calm \in BOOLEAN
      BY <1>1, <2>1, <2>4 DEF VolOK
    <3> QED BY <1>2, <2>3, <3>1, MountStep
  <2> QED BY <1>4, <2>6, <2>7, <2>8 DEF RInv, CallsOK
<1> QED BY <1>3, <1>5, <1>6

(* main goes back to waiting for a card.                                   *)
LEMMA RestartRefines ==
  ASSUME IInv, RInv, Restart
  PROVE  RInv' /\ StreamStep
<1>1. SdOK
  BY DEF IInv
<1>2. /\ phase = "play" /\ op' = Idle /\ phase' = "insert" /\ init' = init
      /\ file' = [f \in Files |-> Closed] /\ last' = NoResult
  BY DEF Restart, Ready, sdVars
<1>3. init' # "done"
  BY <1>1, <1>2 DEF SdOK
<1>4. CallsOK'
  BY <1>2, ClosedCalls
<1>5. CalmOK' /\ MountOK'
  BY <1>2, <1>3 DEF CalmOK, MountOK
<1>6. StreamStep
  BY <1>2, UnmountStep
<1> QED BY <1>4, <1>5, <1>6 DEF RInv, CallsOK

(* A card is put in or pulled, or the bus goes quiet.                      *)
LEMMA EnvironmentRefines ==
  ASSUME IInv, RInv, Environment
  PROVE  RInv' /\ StreamStep
<1>1. UNCHANGED <<init, phase, vol, cache, file, op, last>>
  BY DEF Environment, fatVars, sdVars
<1>2. CallsOK'
  BY <1>1, CallsKept DEF RInv, CallsOK
<1>3. StreamStep
  <2>1. \A f \in Files : StreamPos(f)' = StreamPos(f)
    BY <1>1 DEF StreamPos
  <2> QED BY <1>1, <2>1, SameStep
<1>4. CASE Move /\ moved' = TRUE
  <2>1. noise /\ \E k \in Cards \cup {NoCard} : card' = Fresh(k)
    BY <1>4 DEF Move
  <2>2. ~Awake(card')
    BY <2>1 DEF Fresh, Awake
  <2>3. MountOK'
    BY <1>1, <2>2 DEF RInv, MountOK, Mounted
  <2>4. CalmOK'
    BY <1>1, <1>4, <2>1 DEF RInv, CalmOK
  <2> QED BY <1>2, <1>3, <2>3, <2>4 DEF RInv, CallsOK
<1>5. CASE Settle /\ UNCHANGED <<sdVars, fatVars>>
  <2>1. card' = card /\ moved' = moved /\ ~noise'
    BY <1>5 DEF Settle, sdVars
  <2>2. CalmOK' /\ MountOK'
    BY <1>1, <2>1 DEF RInv, CalmOK, MountOK, Mounted
  <2> QED BY <1>2, <1>3, <2>2 DEF RInv, CallsOK
<1> QED BY <1>4, <1>5 DEF Environment

-----------------------------------------------------------------------------
(* The cluster in which a byte of a file is: it is on the file's chain, and *)
(* has a successor there.                                                   *)
LEMMA OnChain ==
  ASSUME WellFormatted, VolOK, MountOK, phase = "play", vol.sound, NEW f \in Files,
         EntryOf(vol.card, f).is = "file", NEW q \in Nat,
         q * BytesPerCluster < EntryOf(vol.card, f).size
  PROVE  LET chain == Volume[vol.card].chain
             nth == Clusters(vol.card, EntryOf(vol.card, f))
         IN /\ nth[q] \in DOMAIN chain /\ nth[q] >= 2
            /\ Volume[vol.card].type = 11 => nth[q] # 2
            /\ chain[nth[q]] \notin {0, BadMark}
            /\ nth[q + 1] = chain[nth[q]]
<1> DEFINE k == vol.card
           e == EntryOf(k, f)
           nth == Clusters(k, e)
           v == Volume[k]
           b == v.spc * BlockSize
<1>1. k \in Cards /\ Formatted(k) /\ RegionsFit(v) /\ vol.spc = v.spc
  BY SoundVolume
<1>2. v.spc \in Nat \ {0} /\ BlockSize \in Nat \ {0}
  BY <1>1, VolumeIs, CardAssumption
<1>3. b \in Nat \ {0} /\ BytesPerCluster = b
  BY <1>1, <1>2 DEF BytesPerCluster
<1>4. e.size \in Nat
  BY <1>1, EntryIs
<1>5. Chained(k, e)
  BY <1>1 DEF Formatted
<1>6. q * b < e.size
  BY <1>3
<1> HIDE DEF k, e, v
<1>7. q <= (e.size - 1) \div b /\ q <= e.size - 1
  <2> HIDE DEF b
  <2>1. b * q = q * b /\ q * b \in Nat /\ q <= q * b
    BY <1>3
  <2>2. e.size - 1 \in Nat /\ b * q <= e.size - 1 /\ q <= e.size - 1
    BY <1>4, <1>6, <2>1
  <2> QED BY <1>3, <2>2, DivAtLeast
<1>8. \A n \in 0 .. (e.size - 1) \div b :
        /\ nth[n] \in DOMAIN v.chain /\ nth[n] >= 2 /\ (v.type = 11 => nth[n] # 2)
        /\ v.chain[nth[n]] \notin {0, BadMark}
  BY <1>5 DEF Chained, v, RootClus
<1>9. nth[q + 1] = v.chain[nth[q]]
  <2>1. \A n \in 0 .. e.size - 1 : nth[n + 1] = v.chain[nth[n]]
    BY <1>4, ClustersIs DEF v
  <2>2. q \in 0 .. e.size - 1
    BY <1>4, <1>7
  <2> HIDE DEF nth
  <2> QED BY <2>1, <2>2
<1>10. q \in 0 .. (e.size - 1) \div b
  <2>1. (e.size - 1) \div b \in Int
    <3> HIDE DEF b
    <3>1. \A y \in Int : \A m \in Nat \ {0} : y \div m \in Int
      OBVIOUS
    <3> QED BY <3>1, <1>3, <1>4
  <2> HIDE DEF b
  <2> QED BY <1>7, <2>1
<1> HIDE DEF b, nth
<1> QED BY <1>8, <1>9, <1>10 DEF k, e, v, nth

-----------------------------------------------------------------------------
(* Fat_FileRead: what holds of the call in progress.                       *)
Walking == {"walk", "secters", "end"}

LEMMA ReadState ==
  ASSUME IInv, RInv, op.step \in Walking
  PROVE  /\ phase = "play" /\ vol.card \in Cards /\ VolOK /\ MountOK
         /\ op.f \in Files /\ op.n \in Nat /\ op.s \in Nat /\ op.ok \in BOOLEAN
         /\ op.nread \in 0 .. op.n /\ op.pos \in Int
         /\ DOMAIN op = {"f", "n", "nread", "out", "ok", "s", "pos", "step"}
         /\ file \in [Files -> FileInfo] /\ file[op.f] \in FileInfo
         /\ file[op.f].IsOpened /\ ~file[op.f].failed
         /\ file[op.f].SeekPos \in Nat /\ file[op.f].ClusterSeq \in Nat
         /\ file[op.f].Cluster \in Nat /\ file[op.f].size \in Nat
         /\ file[op.f].sound \in BOOLEAN
         /\ BytesPerCluster \in Nat
         /\ vol.calm => op.ok /\ file[op.f].sound /\ vol.sound /\ ~noise
                        /\ CardCalm(card) /\ (cache.index # -1 => cache.data # Junk)
<1>1. CallOK /\ VolOK /\ MountOK /\ ReadCallOK /\ CalmOK
  BY DEF IInv, RInv
<1>2. ReadOp /\ phase = "play"
  BY <1>1, Kinds DEF Walking
<1>3. /\ op.f \in Files /\ op.n \in Nat /\ op.s \in Nat /\ op.ok \in BOOLEAN
      /\ DOMAIN op = {"f", "n", "nread", "out", "ok", "s", "pos", "step"}
  BY <1>2 DEF ReadOp
<1>4. file \in [Files -> FileInfo] /\ file[op.f] \in FileInfo
  BY <1>1, <1>3 DEF CallOK
<1>5. /\ file[op.f].SeekPos \in Nat /\ file[op.f].ClusterSeq \in Nat
      /\ file[op.f].Cluster \in Nat /\ file[op.f].size \in Nat
      /\ file[op.f].sound \in BOOLEAN
  BY <1>4 DEF FileInfo
<1>6. /\ op.nread \in 0 .. op.n /\ op.pos \in Int
      /\ file[op.f].IsOpened /\ ~file[op.f].failed /\ (vol.calm => op.ok)
  BY <1>1 DEF ReadCallOK, Walking
<1>7. vol.card \in Cards /\ vol.spc \in Nat
  BY <1>1, <1>2 DEF VolOK
<1>8. BytesPerCluster \in Nat
  BY <1>7, CardAssumption DEF BytesPerCluster
<1>9. vol.calm => /\ file[op.f].sound /\ ~noise /\ CardCalm(card)
                  /\ cache.index # -1 => cache.data # Junk
  BY <1>1, <1>2, <1>3 DEF CalmOK, CardCalm
<1>10. file[op.f].sound => vol.sound
  BY <1>3, <1>6 DEF RInv, StreamOK
<1> QED BY <1>1, <1>2, <1>3, <1>4, <1>5, <1>6, <1>7, <1>8, <1>9, <1>10

(* ... and of the file, as long as nothing went wrong.                     *)
LEMMA SoundState ==
  ASSUME IInv, RInv, op.step \in Walking, file[op.f].sound
  PROVE  LET i == file[op.f]
             e == EntryOf(vol.card, op.f)
         IN /\ vol.sound /\ e.is = "file" /\ i.first = e.first /\ i.size = e.size
            /\ i.SeekPos <= i.size
            /\ op.ok => /\ i.SeekPos + op.n <= i.size
                        /\ i.ClusterSeq * BytesPerCluster <= i.SeekPos + op.nread
                        /\ i.Cluster = Clusters(vol.card, e)[i.ClusterSeq]
                        /\ op.pos \in Nat
<1>1. op.f \in Files /\ file[op.f].IsOpened /\ ~file[op.f].failed
  BY ReadState
<1>2. StreamOK(op.f) /\ ReadCallOK /\ Reading(op.f)
  BY <1>1 DEF RInv, Reading, Walking
<1>3. Reached(op.f) = file[op.f].SeekPos + op.nread
  BY <1>2 DEF Reached
<1> QED
  BY <1>1, <1>2, <1>3 DEF StreamOK, Lost, ReadCallOK, Walking

(* A step inside a read keeps everything but the stream that is read.      *)
LEMMA ReadFrame ==
  ASSUME IInv, RInv, op.step \in Walking,
         UNCHANGED <<noise, phase, vol, last>>, op'.f = op.f, op'.step \in Walking,
         \A g \in Files \ {op.f} : file'[g] = file[g],
         LET i == file[op.f]
             j == file'[op.f]
         IN /\ j.IsOpened = i.IsOpened /\ j.failed = i.failed /\ j.SeekPos = i.SeekPos
            /\ j.first = i.first /\ j.size = i.size
            /\ (j.sound <=> i.sound) \/ (~j.sound /\ ~vol.calm)
            /\ j.sound /\ op'.ok =>
                 /\ j.ClusterSeq * BytesPerCluster <= i.SeekPos + op'.nread
                 /\ j.Cluster = Clusters(vol.card, EntryOf(vol.card, op.f))[j.ClusterSeq],
         vol.calm => CardCalm(card') /\ (cache'.index # -1 => cache'.data # Junk),
         ReadCallOK'
  PROVE  RInv' /\ StreamStep
<1>0. PICK f : f = op.f
  OBVIOUS
<1>1. /\ phase = "play" /\ f \in Files /\ vol.card \in Cards
      /\ file[f].IsOpened /\ ~file[f].failed
      /\ vol.calm => ~noise /\ file[f].sound
  BY <1>0, ReadState
<1>2. phase' = "play" /\ vol' = vol /\ noise' = noise /\ BytesPerCluster' = BytesPerCluster
  BY <1>1 DEF BytesPerCluster
<1>3. /\ file'[f].IsOpened /\ ~file'[f].failed /\ file'[f].SeekPos = file[f].SeekPos
      /\ file'[f].first = file[f].first /\ file'[f].size = file[f].size
      /\ (file'[f].sound <=> file[f].sound) \/ (~file'[f].sound /\ ~vol.calm)
      /\ file'[f].sound /\ op'.ok =>
           /\ file'[f].ClusterSeq * BytesPerCluster <= file[f].SeekPos + op'.nread
           /\ file'[f].Cluster = Clusters(vol.card, EntryOf(vol.card, f))[file'[f].ClusterSeq]
      /\ \A g \in Files \ {f} : file'[g] = file[g]
      /\ op'.f = f
  BY <1>0, <1>1
<1>4. CalmOK'
  <2>1. vol.calm => \A g \in Files : file[g].sound /\ ~file[g].failed
    BY <1>1 DEF RInv, CalmOK
  <2>2. vol.calm => \A g \in Files : file'[g].sound /\ ~file'[g].failed
    BY <1>1, <1>3, <2>1
  <2> QED BY <1>1, <1>2, <2>2 DEF CalmOK, CardCalm
<1>5. MountOK'
  BY <1>1, <1>2 DEF RInv, MountOK, Mounted
<1>6. BrowseOK'
  BY DEF BrowseOK, Walking
<1>7. ASSUME NEW g \in Files PROVE StreamOK(g)'
  <2>1. CASE g = f
    <3> DEFINE i == file[f]
               j == file'[f]
               e == EntryOf(vol.card, f)
    <3>1. Reading(f)' /\ Reached(f)' = j.SeekPos + op'.nread
      BY <1>3 DEF Reading, Reached, Walking
    <3>2. i.sound => /\ vol.sound /\ e.is = "file" /\ i.first = e.first /\ i.size = e.size
                     /\ i.SeekPos <= i.size
      BY <1>0, SoundState
    <3>3. j.sound => /\ vol.sound /\ e.is = "file" /\ j.first = e.first /\ j.size = e.size
                     /\ j.SeekPos <= j.size
      BY <1>1, <1>3, <3>2
    <3>4. j.sound /\ ~Lost(f)' => /\ j.ClusterSeq * BytesPerCluster <= Reached(f)'
                                  /\ j.Cluster = Clusters(vol.card, e)[j.ClusterSeq]
      <4>1. ~Lost(f)' => op'.ok
        BY <3>1 DEF Lost
      <4> QED BY <1>3, <3>1, <4>1
    <3>5. StreamOK(f)'
      BY <1>2, <3>3, <3>4 DEF StreamOK
    <3> QED BY <2>1, <3>5
  <2>2. CASE g # f
    <3>1. file'[g] = file[g] /\ ~Reading(g) /\ ~Reading(g)'
      BY <1>0, <1>3, <2>2 DEF Reading
    <3>2. StreamOK(g)
      BY DEF RInv
    <3> QED BY <1>2, <3>1, <3>2, <1>1 DEF StreamOK, Lost, Reached
  <2> QED BY <2>1, <2>2
<1>8. StreamStep
  <2>1. StreamPos(f) = (IF file[f].sound THEN file[f].SeekPos ELSE -3)
    BY <1>1 DEF StreamPos
  <2>2. StreamPos(f)' = (IF file'[f].sound THEN file[f].SeekPos ELSE -3)
    BY <1>3 DEF StreamPos
  <2>3. CASE file'[f].sound <=> file[f].sound
    <3>1. \A g \in Files : StreamPos(g)' = StreamPos(g)
      BY <1>3, <2>1, <2>2, <2>3 DEF StreamPos
    <3> QED BY <3>1, SameStep
  <2>4. CASE ~file'[f].sound /\ ~vol.calm
    <3>1. OnFile(f)
      BY <1>1, <1>2, <1>3 DEF OnFile
    <3>2. StreamPos(f)' = -3 /\ last' = last
      BY <2>2, <2>4
    <3> QED BY <2>4, <3>1, <3>2, DisturbStep
  <2> QED BY <1>3, <2>3, <2>4
<1> QED BY <1>4, <1>5, <1>6, <1>7, <1>8 DEF RInv

-----------------------------------------------------------------------------
LEMMA AdvanceEffect ==
  ASSUME file \in [Files -> FileInfo], NEW f \in Files, NEW x, Advance(f, x)
  PROVE  LET i == file[f]
             j == file'[f]
         IN /\ \A g \in Files \ {f} : file'[g] = file[g]
            /\ j.IsOpened = i.IsOpened /\ j.failed = i.failed /\ j.SeekPos = i.SeekPos
            /\ j.first = i.first /\ j.size = i.size /\ j.ClusterSeq = i.ClusterSeq + 1
            /\ j.Cluster = IF x.next = 0 THEN i.Cluster ELSE x.next
            /\ j.sound <=> i.sound /\ (x.sound \/ ~op.ok)
<1> DEFINE fine == file[f].sound /\ (x.sound \/ ~op.ok)
           at == IF x.next = 0 THEN file[f].Cluster ELSE x.next
           info == [file[f] EXCEPT !.Cluster = at, !.ClusterSeq = @ + 1, !.sound = fine]
<1>1. file' = [file EXCEPT ![f] = info]
  BY DEF Advance
<1>2. file[f] \in FileInfo
  OBVIOUS
<1>3. /\ info.IsOpened = file[f].IsOpened /\ info.failed = file[f].failed
      /\ info.SeekPos = file[f].SeekPos /\ info.first = file[f].first
      /\ info.size = file[f].size /\ info.ClusterSeq = file[f].ClusterSeq + 1
      /\ info.Cluster = at /\ info.sound = fine
  <2> HIDE DEF at, fine
  <2> QED BY <1>2 DEF FileInfo
<1> HIDE DEF info
<1>4. file'[f] = info /\ \A g \in Files \ {f} : file'[g] = file[g]
  BY <1>1
<1>5. info.sound <=> fine
  BY <1>3
<1> QED BY <1>3, <1>4, <1>5

(* fatNextCluster in a read that has used up its cluster.                  *)
LEMMA NextStep ==
  ASSUME WellFormatted, IInv, RInv, op.step \in Walking,
         NEW x \in NextCluster(file[op.f].Cluster), AfterRead(x.r), Advance(op.f, x),
         op.ok /\ file[op.f].sound =>
           LET i == file[op.f] IN
           /\ i.ClusterSeq * BytesPerCluster + BytesPerCluster <= i.SeekPos + op.nread
           /\ i.ClusterSeq * BytesPerCluster < i.size
  PROVE  LET i == file[op.f]
             j == file'[op.f]
         IN /\ j.ClusterSeq * BytesPerCluster =
                 i.ClusterSeq * BytesPerCluster + BytesPerCluster
            /\ j.sound => i.sound
            /\ (j.sound <=> i.sound) \/ (~j.sound /\ ~vol.calm)
            /\ j.sound /\ op.ok =>
                 /\ x.next # 0
                 /\ j.ClusterSeq * BytesPerCluster <= i.SeekPos + op.nread
                 /\ j.Cluster = Clusters(vol.card, EntryOf(vol.card, op.f))[j.ClusterSeq]
            /\ vol.calm => /\ x.next # 0 /\ CardCalm(card')
                           /\ cache'.index # -1 => cache'.data # Junk
<1> DEFINE i == file[op.f]
           e == EntryOf(vol.card, op.f)
           nth == Clusters(vol.card, e)
           c == i.Cluster
           base == i.ClusterSeq * BytesPerCluster
<1>0. PICK j : j = file'[op.f]
  OBVIOUS
<1>1. /\ phase = "play" /\ vol.card \in Cards /\ VolOK /\ MountOK /\ op.f \in Files
      /\ file \in [Files -> FileInfo] /\ i.ClusterSeq \in Nat /\ BytesPerCluster \in Nat
      /\ c \in Nat /\ op.ok \in BOOLEAN /\ i.sound \in BOOLEAN
      /\ vol.calm => op.ok /\ i.sound
  BY ReadState
<1>2. CalmOK
  BY DEF RInv
<1>3. x.next \in Nat /\ x.sound \in BOOLEAN
  BY <1>1, NextClusterEffect
<1>4. /\ j.ClusterSeq = i.ClusterSeq + 1
      /\ j.Cluster = IF x.next = 0 THEN i.Cluster ELSE x.next
      /\ j.sound <=> i.sound /\ (x.sound \/ ~op.ok)
  BY <1>0, <1>1, AdvanceEffect
<1>5. j.ClusterSeq * BytesPerCluster = base + BytesPerCluster
  BY <1>1, <1>4
<1>6. ASSUME op.ok, i.sound
      PROVE  /\ x.sound => x.next = nth[i.ClusterSeq + 1] /\ x.next # 0
             /\ vol.calm => x.sound
             /\ CalmRead(x.r)
             /\ base + BytesPerCluster <= i.SeekPos + op.nread
  <2>1. /\ vol.sound /\ e.is = "file" /\ i.size = e.size /\ c = nth[i.ClusterSeq]
    BY <1>6, SoundState
  <2>2. base + BytesPerCluster <= i.SeekPos + op.nread /\ base < e.size
    BY <1>6, <2>1
  <2>3. /\ c \in DOMAIN Volume[vol.card].chain
        /\ Volume[vol.card].chain[c] \notin {0, BadMark}
        /\ nth[i.ClusterSeq + 1] = Volume[vol.card].chain[c]
    <3>1. /\ phase = "play" /\ VolOK /\ MountOK /\ vol.sound /\ op.f \in Files
          /\ EntryOf(vol.card, op.f).is = "file"
          /\ i.ClusterSeq \in Nat /\ i.ClusterSeq * BytesPerCluster < EntryOf(vol.card, op.f).size
      BY <1>1, <2>1, <2>2
    <3>2. c = Clusters(vol.card, EntryOf(vol.card, op.f))[i.ClusterSeq]
      BY <2>1
    <3> HIDE DEF i, c
    <3> QED BY <3>1, <3>2, OnChain, SMTT(30)
  <2>4. /\ x.sound => x.next = IF Volume[vol.card].chain[c] = BadMark
                                 THEN 0 ELSE Volume[vol.card].chain[c]
        /\ vol.calm => x.sound
        /\ CalmRead(x.r)
    BY <1>1, <1>2, <2>1, <2>3, NextSound
  <2> QED BY <2>2, <2>3, <2>4
<1>7. card' = x.r.card /\ cache' = x.r.cache
  BY DEF AfterRead
<1>8. j.sound /\ op.ok => /\ x.next # 0 /\ j.Cluster = nth[j.ClusterSeq]
                          /\ base + BytesPerCluster <= i.SeekPos + op.nread
  BY <1>1, <1>3, <1>4, <1>6
<1>9. vol.calm => /\ x.sound /\ x.next # 0 /\ CardCalm(card')
                  /\ cache'.index # -1 => cache'.data # Junk
  BY <1>1, <1>6, <1>7 DEF CalmRead
<1>10. j.sound => i.sound
  BY <1>4
<1>11. (j.sound <=> i.sound) \/ (~j.sound /\ ~vol.calm)
  BY <1>4, <1>9
<1> HIDE DEF i, e, nth, c, base
<1>12. j.sound /\ op.ok => j.ClusterSeq * BytesPerCluster <= i.SeekPos + op.nread
  BY <1>5, <1>8
<1> QED BY <1>0, <1>5, <1>8, <1>9, <1>10, <1>11, <1>12 DEF i, e, nth, base

(* The clusters of a sound volume have a size.                             *)
LEMMA ClusterSize ==
  ASSUME WellFormatted, IInv, RInv, phase = "play", vol.sound
  PROVE  /\ vol.spc \in Nat \ {0} /\ BlockSize \in Nat \ {0}
         /\ BytesPerCluster \in Nat \ {0}
<1>1. /\ vol.card \in Cards /\ RegionsFit(Volume[vol.card])
      /\ vol.spc = Volume[vol.card].spc
  BY SoundVolume DEF IInv, RInv
<1>2. vol.spc \in Nat \ {0} /\ BlockSize \in Nat \ {0}
  BY <1>1, VolumeIs, CardAssumption
<1> QED BY <1>2 DEF BytesPerCluster

-----------------------------------------------------------------------------
(* A step of a read without a block.                                       *)
LEMMA QuietFrame ==
  ASSUME IInv, RInv, op.step \in Walking,
         UNCHANGED <<cardVars, cache, phase, vol, file, last>>, op'.f = op.f,
         op'.step \in Walking, op'.ok = op.ok, op'.nread = op.nread, ReadCallOK'
  PROVE  RInv' /\ StreamStep
<1>1. /\ vol.calm => CardCalm(card) /\ (cache.index # -1 => cache.data # Junk)
      /\ op.f \in Files
  BY ReadState
<1>2. file[op.f].sound /\ op.ok =>
        /\ file[op.f].ClusterSeq * BytesPerCluster <= file[op.f].SeekPos + op.nread
        /\ file[op.f].Cluster =
             Clusters(vol.card, EntryOf(vol.card, op.f))[file[op.f].ClusterSeq]
  BY SoundState
<1>3. noise' = noise /\ card' = card
  BY DEF cardVars
<1> QED BY <1>1, <1>2, <1>3, ReadFrame

(* Fat_FileRead: to the cluster of the position.                           *)
LEMMA WalkRefines ==
  ASSUME WellFormatted, IInv, RInv, Walk
  PROVE  RInv' /\ StreamStep
<1> DEFINE i == file[op.f]
           base == i.ClusterSeq * BytesPerCluster
<1>1. op.step = "walk" /\ op.step \in Walking
  BY DEF Walk, Walking
<1>2. /\ phase = "play" /\ op.f \in Files /\ op.n \in Nat /\ op.s \in Nat
      /\ op.nread \in 0 .. op.n /\ op.pos \in Int
      /\ DOMAIN op = {"f", "n", "nread", "out", "ok", "s", "pos", "step"}
      /\ file \in [Files -> FileInfo] /\ i.IsOpened /\ ~i.failed
      /\ i.SeekPos \in Nat /\ i.ClusterSeq \in Nat /\ i.size \in Nat
      /\ BytesPerCluster \in Nat /\ (vol.calm => op.ok /\ i.sound)
  BY <1>1, ReadState
<1>3. op.ok /\ op.nread \in 0 .. op.n
  BY <1>1 DEF RInv, ReadCallOK
<1>4. i.sound =>
        /\ i.SeekPos + op.n <= i.size /\ op.pos \in Nat
        /\ op.out = SubSeq(FileBytes[vol.card][op.f], i.SeekPos + 1, i.SeekPos + op.nread)
        /\ op.nread = 0 /\ op.s = 0 /\ base + op.pos = i.SeekPos + op.nread
        /\ i.SeekPos <= i.size
  BY <1>1, <1>3, SoundState DEF RInv, ReadCallOK
<1>5. UNCHANGED last
  BY DEF Walk
<1>6. CASE op.pos >= BytesPerCluster
  <2>1. PICK x \in NextCluster(i.Cluster) :
          /\ AfterRead(x.r) /\ Advance(op.f, x)
          /\ op' = [op EXCEPT !.pos = @ - BytesPerCluster, !.ok = x.next # 0,
                              !.step = IF x.next = 0 THEN "end" ELSE "walk"]
    BY <1>6 DEF Walk
  <2> DEFINE more == x.next # 0
             pos == op.pos - BytesPerCluster
             step == IF x.next = 0 THEN "end" ELSE "walk"
  <2>2. /\ op'.f = op.f /\ op'.n = op.n /\ op'.nread = op.nread /\ op'.out = op.out
        /\ op'.s = op.s /\ op'.ok = more /\ op'.pos = pos /\ op'.step = step
    <3>1. op' = [op EXCEPT !.pos = pos, !.ok = more, !.step = step]
      BY <2>1
    <3> HIDE DEF more, pos, step
    <3> QED BY <1>2, <3>1
  <2>3. PICK j : j = file'[op.f]
    OBVIOUS
  <2>4. /\ \A g \in Files \ {op.f} : file'[g] = file[g]
        /\ j.IsOpened = i.IsOpened /\ j.failed = i.failed /\ j.SeekPos = i.SeekPos
        /\ j.first = i.first /\ j.size = i.size
    BY <1>2, <2>1, <2>3, AdvanceEffect
  <2>5. i.sound => base + BytesPerCluster <= i.SeekPos + op.nread /\ base < i.size
    <3>1. ASSUME i.sound
          PROVE  base + BytesPerCluster <= i.SeekPos + op.nread /\ base < i.size
      <4>1. BytesPerCluster > 0
        BY <1>1, <1>2, <3>1, SoundState, ClusterSize
      <4>2. base \in Nat
        BY <1>2
      <4>3. op.pos \in Nat /\ base + op.pos = i.SeekPos + op.nread /\ op.nread = 0
            /\ i.SeekPos <= i.size
        BY <1>4, <3>1
      <4> HIDE DEF base, i
      <4> QED BY <1>2, <1>6, <4>1, <4>2, <4>3
    <3> QED BY <3>1
  <2>6. /\ j.ClusterSeq * BytesPerCluster = base + BytesPerCluster
        /\ j.sound => i.sound
        /\ (j.sound <=> i.sound) \/ (~j.sound /\ ~vol.calm)
        /\ j.sound =>
             /\ x.next # 0
             /\ j.ClusterSeq * BytesPerCluster <= i.SeekPos + op.nread
             /\ j.Cluster = Clusters(vol.card, EntryOf(vol.card, op.f))[j.ClusterSeq]
        /\ vol.calm => /\ x.next # 0 /\ CardCalm(card')
                       /\ cache'.index # -1 => cache'.data # Junk
    BY <1>1, <1>3, <2>1, <2>3, <2>5, NextStep
  <2>7. UNCHANGED <<noise, phase, vol>> /\ BytesPerCluster' = BytesPerCluster
    BY <2>1 DEF AfterRead, Unmoved, BytesPerCluster
  <2>8. ReadCallOK'
    <3>1. j.sound =>
            /\ j.SeekPos + op'.n <= j.size /\ op'.pos \in Nat
            /\ op'.out = SubSeq(FileBytes[vol.card][op.f], j.SeekPos + 1, j.SeekPos + op'.nread)
            /\ op'.nread = 0 /\ op'.s = 0 /\ op'.ok /\ op'.step = "walk"
            /\ j.ClusterSeq * BytesPerCluster + op'.pos = j.SeekPos + op'.nread
      <4>1. ASSUME j.sound
            PROVE  /\ op.pos \in Nat /\ base + op.pos = i.SeekPos + op.nread
                   /\ j.ClusterSeq * BytesPerCluster = base + BytesPerCluster
        BY <1>4, <2>6, <4>1
      <4>2. base \in Nat
        BY <1>2
      <4> DEFINE after == j.ClusterSeq * BytesPerCluster
      <4>3. ASSUME j.sound
            PROVE  after + pos = i.SeekPos + op.nread /\ pos \in Nat
        <5>1. after = base + BytesPerCluster /\ op.pos \in Nat /\ base + op.pos = i.SeekPos + op.nread
          BY <4>1, <4>3
        <5> HIDE DEF after, base
        <5> QED BY <1>2, <1>6, <4>2, <5>1
      <4>4. ASSUME j.sound
            PROVE  /\ i.SeekPos + op.n <= i.size /\ op.nread = 0 /\ op.s = 0 /\ x.next # 0
                   /\ op.out = SubSeq(FileBytes[vol.card][op.f], i.SeekPos + 1,
                                      i.SeekPos + op.nread)
        BY <1>4, <2>6, <4>4
      <4> HIDE DEF pos, base
      <4> QED BY <2>2, <2>4, <4>3, <4>4
    <3>2. pos \in Int /\ step \in {"walk", "end"}
      BY <1>2
    <3>3. step = "walk" => more
      OBVIOUS
    <3>4. vol.calm => more
      BY <2>6
    <3>5. vol' = vol
      BY <2>7
    <3> HIDE DEF pos, more, step
    <3> QED
      BY <1>2, <2>2, <2>3, <2>4, <2>7, <3>1, <3>2, <3>3, <3>4, <3>5 DEF ReadCallOK
  <2>9. op'.step \in Walking
    BY <2>2 DEF Walking
  <2> HIDE DEF pos, more, step, base
  <2> QED
    BY <1>1, <1>5, <2>2, <2>3, <2>4, <2>6, <2>7, <2>8, <2>9, ReadFrame
<1>7. CASE ~(op.pos >= BytesPerCluster)
  <2>1. /\ op' = [op EXCEPT !.step = "secters"]
        /\ UNCHANGED <<cardVars, cache, phase, vol, file, last>>
    BY <1>7 DEF Walk, Unmoved
  <2>2. /\ op'.f = op.f /\ op'.n = op.n /\ op'.nread = op.nread /\ op'.out = op.out
        /\ op'.s = op.s /\ op'.ok = op.ok /\ op'.pos = op.pos /\ op'.step = "secters"
    BY <1>2, <2>1
  <2>3. i.sound => /\ op.s <= vol.spc /\ op.s * BlockSize + op.pos <= BytesPerCluster
                   /\ base + (op.s * BlockSize + op.pos) = i.SeekPos + op.nread
    <3>1. ASSUME i.sound
          PROVE  /\ op.s = 0 /\ op.pos \in Nat /\ base + op.pos = i.SeekPos + op.nread
                 /\ vol.spc \in Nat /\ BlockSize \in Nat
      BY <1>1, <1>2, <1>4, <3>1, SoundState, ClusterSize
    <3>2. base \in Nat
      BY <1>2
    <3>3. ASSUME i.sound PROVE op.s * BlockSize = 0
      BY <3>1, <3>3
    <3> DEFINE off == op.s * BlockSize
    <3> HIDE DEF base, off
    <3>4. i.sound => off = 0
      BY <3>3 DEF off
    <3>5. i.sound => op.s <= vol.spc /\ off + op.pos <= BytesPerCluster
                     /\ base + (off + op.pos) = i.SeekPos + op.nread
      BY <1>2, <1>7, <3>1, <3>2, <3>4
    <3> QED BY <3>5 DEF off
  <2>4. ReadCallOK'
    <3>1. BytesPerCluster' = BytesPerCluster /\ vol' = vol /\ file' = file
      BY <2>1 DEF BytesPerCluster
    <3> HIDE DEF base
    <3>2. i.sound =>
            /\ i.SeekPos + op.n <= i.size /\ op.pos \in Nat
            /\ op.out = SubSeq(FileBytes[vol.card][op.f], i.SeekPos + 1, i.SeekPos + op.nread)
      BY <1>4
    <3> QED
      BY <1>2, <1>3, <2>2, <2>3, <3>1, <3>2 DEF ReadCallOK, base
  <2>5. op'.step \in Walking
    BY <2>2 DEF Walking
  <2> QED BY <1>1, <2>1, <2>2, <2>4, <2>5, QuietFrame
<1> QED BY <1>6, <1>7

(* Fat_FileRead: what holds among the sectors of a cluster.                *)
LEMMA SectersState ==
  ASSUME WellFormatted, IInv, RInv, op.step = "secters", op.ok, file[op.f].sound
  PROVE  LET i == file[op.f] IN
         /\ vol.sound /\ BytesPerCluster \in Nat \ {0} /\ op.pos \in Nat
         /\ vol.spc \in Nat \ {0} /\ BlockSize \in Nat \ {0}
         /\ BytesPerCluster = vol.spc * BlockSize
         /\ i.SeekPos + op.n <= i.size
         /\ op.out = SubSeq(FileBytes[vol.card][op.f], i.SeekPos + 1, i.SeekPos + op.nread)
         /\ op.nread < op.n =>
              /\ op.s <= vol.spc /\ op.s * BlockSize + op.pos <= BytesPerCluster
              /\ i.ClusterSeq * BytesPerCluster + (op.s * BlockSize + op.pos)
                   = i.SeekPos + op.nread
<1>1. op.step \in Walking
  BY DEF Walking
<1>2. phase = "play" /\ vol.sound /\ op.pos \in Nat
  BY <1>1, ReadState, SoundState
<1>3. BytesPerCluster \in Nat \ {0} /\ vol.spc \in Nat \ {0} /\ BlockSize \in Nat \ {0}
  BY <1>2, ClusterSize
<1>4. BytesPerCluster = vol.spc * BlockSize
  BY DEF BytesPerCluster
<1>5. LET i == file[op.f] IN
      /\ i.SeekPos + op.n <= i.size
      /\ op.out = SubSeq(FileBytes[vol.card][op.f], i.SeekPos + 1, i.SeekPos + op.nread)
      /\ op.nread < op.n =>
           /\ op.s <= vol.spc /\ op.s * BlockSize + op.pos <= BytesPerCluster
           /\ i.ClusterSeq * BytesPerCluster + (op.s * BlockSize + op.pos)
                = i.SeekPos + op.nread
  BY DEF RInv, ReadCallOK
<1> QED BY <1>2, <1>3, <1>4, <1>5

(* Fat_FileRead: from one cluster to the next, or to the end.              *)
LEMMA EndOfClusterRefines ==
  ASSUME WellFormatted, IInv, RInv, EndOfCluster
  PROVE  RInv' /\ StreamStep
<1> DEFINE i == file[op.f]
           base == i.ClusterSeq * BytesPerCluster
<1>1. op.step = "secters" /\ op.step \in Walking
      /\ (op.s = vol.spc \/ op.nread = op.n \/ ~op.ok)
  BY DEF EndOfCluster, Walking
<1>2. /\ phase = "play" /\ op.f \in Files /\ op.n \in Nat /\ op.s \in Nat
      /\ op.nread \in 0 .. op.n /\ op.pos \in Int /\ op.ok \in BOOLEAN
      /\ DOMAIN op = {"f", "n", "nread", "out", "ok", "s", "pos", "step"}
      /\ file \in [Files -> FileInfo] /\ i.IsOpened /\ ~i.failed
      /\ i.SeekPos \in Nat /\ i.ClusterSeq \in Nat /\ i.size \in Nat
      /\ BytesPerCluster \in Nat /\ (vol.calm => op.ok /\ i.sound)
  BY <1>1, ReadState
<1>3. op.ok /\ i.sound =>
        /\ i.SeekPos + op.n <= i.size /\ op.pos \in Nat
        /\ op.out = SubSeq(FileBytes[vol.card][op.f], i.SeekPos + 1, i.SeekPos + op.nread)
  BY <1>1, SectersState
<1>4. UNCHANGED last
  BY DEF EndOfCluster
<1>5. CASE op.nread = op.n
  <2>1. /\ op' = [op EXCEPT !.step = "end"]
        /\ UNCHANGED <<cardVars, cache, phase, vol, file, last>>
    BY <1>5 DEF EndOfCluster, Unmoved
  <2>2. /\ op'.f = op.f /\ op'.n = op.n /\ op'.nread = op.nread /\ op'.out = op.out
        /\ op'.s = op.s /\ op'.ok = op.ok /\ op'.pos = op.pos /\ op'.step = "end"
    BY <1>2, <2>1
  <2>3. ReadCallOK'
    <3>1. vol' = vol /\ file' = file
      BY <2>1
    <3> QED
      BY <1>2, <1>3, <1>5, <2>2, <3>1 DEF ReadCallOK
  <2>4. op'.step \in Walking
    BY <2>2 DEF Walking
  <2> QED BY <1>1, <2>1, <2>2, <2>3, <2>4, QuietFrame
<1>6. CASE op.nread # op.n
  <2>1. PICK x \in NextCluster(i.Cluster) :
          /\ AfterRead(x.r) /\ Advance(op.f, x)
          /\ LET ok == op.ok /\ x.next # 0
             IN op' = [op EXCEPT !.ok = ok, !.s = 0,
                                 !.step = IF ok THEN "secters" ELSE "end"]
    BY <1>6 DEF EndOfCluster
  <2> DEFINE more == op.ok /\ x.next # 0
             step == IF more THEN "secters" ELSE "end"
  <2>2. /\ op'.f = op.f /\ op'.n = op.n /\ op'.nread = op.nread /\ op'.out = op.out
        /\ op'.s = 0 /\ op'.ok = more /\ op'.pos = op.pos /\ op'.step = step
    <3>1. op' = [op EXCEPT !.ok = more, !.s = 0, !.step = step]
      BY <2>1
    <3> HIDE DEF more, step
    <3> QED BY <1>2, <3>1
  <2>3. PICK j : j = file'[op.f]
    OBVIOUS
  <2>4. /\ \A g \in Files \ {op.f} : file'[g] = file[g]
        /\ j.IsOpened = i.IsOpened /\ j.failed = i.failed /\ j.SeekPos = i.SeekPos
        /\ j.first = i.first /\ j.size = i.size
    BY <1>2, <2>1, <2>3, AdvanceEffect
  <2>5. ASSUME op.ok, i.sound
        PROVE  /\ op.pos = 0 /\ base + BytesPerCluster = i.SeekPos + op.nread
               /\ base + BytesPerCluster <= i.SeekPos + op.nread /\ base < i.size
    <3>1. /\ BytesPerCluster \in Nat \ {0} /\ op.pos \in Nat
          /\ BytesPerCluster = vol.spc * BlockSize /\ op.s = vol.spc
          /\ i.SeekPos + op.n <= i.size
          /\ op.s * BlockSize + op.pos <= BytesPerCluster
          /\ base + (op.s * BlockSize + op.pos) = i.SeekPos + op.nread
      <4>1. op.nread < op.n
        BY <1>2, <1>6
      <4> QED BY <1>1, <1>6, <2>5, <4>1, SectersState
    <3>2. op.s * BlockSize = BytesPerCluster
      BY <3>1
    <3>3. /\ BytesPerCluster + op.pos <= BytesPerCluster
          /\ base + (BytesPerCluster + op.pos) = i.SeekPos + op.nread
      BY <3>1, <3>2
    <3>4. base \in Nat /\ BytesPerCluster \in Nat \ {0} /\ op.pos \in Nat
          /\ i.SeekPos + op.n <= i.size
      BY <1>2, <3>1
    <3> HIDE DEF base, i
    <3> QED BY <1>2, <1>6, <3>3, <3>4
  <2>6. /\ j.ClusterSeq * BytesPerCluster = base + BytesPerCluster
        /\ j.sound => i.sound
        /\ (j.sound <=> i.sound) \/ (~j.sound /\ ~vol.calm)
        /\ j.sound /\ op.ok =>
             /\ x.next # 0
             /\ j.ClusterSeq * BytesPerCluster <= i.SeekPos + op.nread
             /\ j.Cluster = Clusters(vol.card, EntryOf(vol.card, op.f))[j.ClusterSeq]
        /\ vol.calm => /\ x.next # 0 /\ CardCalm(card')
                       /\ cache'.index # -1 => cache'.data # Junk
    BY <1>1, <2>1, <2>3, <2>5, NextStep
  <2>7. UNCHANGED <<noise, phase, vol>> /\ BytesPerCluster' = BytesPerCluster
    BY <2>1 DEF AfterRead, Unmoved, BytesPerCluster
  <2>8. ReadCallOK'
    <3>1. j.sound /\ op'.ok =>
            /\ j.SeekPos + op'.n <= j.size /\ op'.pos \in Nat
            /\ op'.out = SubSeq(FileBytes[vol.card][op.f], j.SeekPos + 1, j.SeekPos + op'.nread)
            /\ op'.s <= vol.spc /\ op'.s * BlockSize + op'.pos <= BytesPerCluster
            /\ j.ClusterSeq * BytesPerCluster + (op'.s * BlockSize + op'.pos)
                 = j.SeekPos + op'.nread
            /\ step = "secters"
      <4>1. ASSUME j.sound, more
            PROVE  /\ op.ok /\ i.sound /\ op.pos = 0
                   /\ j.ClusterSeq * BytesPerCluster = i.SeekPos + op.nread
                   /\ vol.spc \in Nat /\ BlockSize \in Nat /\ step = "secters"
        <5>1. op.ok /\ i.sound
          BY <2>6, <4>1
        <5>2. vol.spc \in Nat /\ BlockSize \in Nat
          BY <1>1, <5>1, SectersState
        <5> QED BY <2>5, <2>6, <4>1, <5>1, <5>2
      <4> DEFINE after == j.ClusterSeq * BytesPerCluster
      <4>2. ASSUME j.sound, more
            PROVE  /\ 0 <= vol.spc /\ 0 * BlockSize + op.pos <= BytesPerCluster
                   /\ after + (0 * BlockSize + op.pos) = i.SeekPos + op.nread
        <5>1. 0 * BlockSize = 0 /\ op.pos = 0 /\ after = i.SeekPos + op.nread /\ vol.spc \in Nat
          BY <4>1, <4>2
        <5> HIDE DEF after
        <5> QED BY <1>2, <5>1
      <4>3. ASSUME j.sound, more
            PROVE  /\ i.SeekPos + op.n <= i.size /\ op.pos \in Nat
                   /\ op.out = SubSeq(FileBytes[vol.card][op.f], i.SeekPos + 1,
                                      i.SeekPos + op.nread)
        BY <1>3, <4>1, <4>3
      <4> HIDE DEF more, step, base
      <4> QED BY <2>2, <2>4, <4>1, <4>2, <4>3
    <3>2. step \in {"secters", "end"} /\ more \in BOOLEAN
      OBVIOUS
    <3>3. vol.calm => more
      BY <1>2, <2>6
    <3>4. vol' = vol
      BY <2>7
    <3> HIDE DEF more, step
    <3> QED
      BY <1>2, <2>2, <2>3, <2>4, <2>7, <3>1, <3>2, <3>3, <3>4 DEF ReadCallOK
  <2>9. op'.step \in Walking /\ (op'.ok => op.ok)
    BY <2>2 DEF Walking
  <2> HIDE DEF more, step, base
  <2> QED
    BY <1>1, <1>4, <2>2, <2>3, <2>4, <2>6, <2>7, <2>8, <2>9, ReadFrame
<1> QED BY <1>5, <1>6

(* Fat_FileRead returns.                                                   *)
LEMMA ReadEndRefines ==
  ASSUME WellFormatted, IInv, RInv, ReadEnd
  PROVE  RInv' /\ StreamStep
<1>1. op.step = "end" /\ op.step \in Walking
  BY DEF ReadEnd, Walking
<1>0. PICK f : f = op.f
  OBVIOUS
<1> DEFINE i == file[f]
<1>2. /\ phase = "play" /\ vol.card \in Cards /\ f \in Files /\ op.n \in Nat
      /\ op.ok \in BOOLEAN /\ file \in [Files -> FileInfo] /\ i \in FileInfo
      /\ i.IsOpened /\ ~i.failed /\ i.SeekPos \in Nat /\ i.size \in Nat /\ i.sound \in BOOLEAN
      /\ (vol.calm => op.ok /\ i.sound)
  BY <1>0, <1>1, ReadState
<1>3. op' = Idle /\ UNCHANGED <<cardVars, sdVars, phase, vol, cache>>
  BY DEF ReadEnd
<1>4. BytesPerCluster' = BytesPerCluster /\ vol' = vol /\ phase' = "play"
  BY <1>2, <1>3 DEF BytesPerCluster
<1>5. i.sound => /\ vol.sound /\ EntryOf(vol.card, f).is = "file"
                 /\ i.first = EntryOf(vol.card, f).first
                 /\ i.size = EntryOf(vol.card, f).size
                 /\ i.SeekPos <= i.size
  BY <1>0, <1>1, SoundState
<1>6. op.ok /\ i.sound =>
        /\ i.SeekPos + op.n <= i.size
        /\ i.ClusterSeq * BytesPerCluster <= i.SeekPos + op.n
        /\ i.Cluster = Clusters(vol.card, EntryOf(vol.card, f))[i.ClusterSeq]
        /\ op.out = SubSeq(FileBytes[vol.card][f], i.SeekPos + 1, i.SeekPos + op.n)
  <2>1. op.ok /\ i.sound => /\ op.nread = op.n /\ op.out = SubSeq(FileBytes[vol.card][f],
                                            i.SeekPos + 1, i.SeekPos + op.nread)
    BY <1>0, <1>1 DEF RInv, ReadCallOK
  <2> QED BY <1>0, <1>1, <2>1, SoundState
<1>7. ReadCallOK' /\ BrowseOK'
  BY <1>3 DEF ReadCallOK, BrowseOK, Idle
<1>8. \A g : ~Reading(g)'
  BY <1>3 DEF Reading, Idle
<1>9. ASSUME NEW g \in Files, g # f, file'[g] = file[g] PROVE StreamOK(g)'
  <2>1. ~Reading(g) /\ ~Reading(g)'
    BY <1>0, <1>8, <1>9 DEF Reading
  <2>2. StreamOK(g)
    BY DEF RInv
  <2> QED BY <1>2, <1>4, <1>9, <2>1, <2>2 DEF StreamOK, Lost, Reached
<1>10. ASSUME NEW j, file'[f] = j, j.sound = i.sound, j.failed => i.failed \/ ~vol.calm,
              \A g \in Files \ {f} : file'[g] = file[g]
       PROVE  CalmOK' /\ MountOK'
  <2>1. \A g \in Files : /\ file'[g].sound = file[g].sound
                         /\ file'[g].failed => file[g].failed \/ ~vol.calm
    BY <1>10
  <2>2. UNCHANGED <<card, noise, phase, vol, cache>>
    BY <1>3 DEF cardVars
  <2> QED BY <1>2, <2>1, <2>2 DEF RInv, CalmOK, MountOK, Mounted
<1>11. CASE op.ok
  <2> DEFINE j == [i EXCEPT !.SeekPos = i.SeekPos + op.n]
  <2>1. /\ file' = [file EXCEPT ![f] = j]
        /\ last' = Result(f, TRUE, op.out, i.sound)
    BY <1>0, <1>11 DEF ReadEnd
  <2>2. /\ j.IsOpened = i.IsOpened /\ j.failed = i.failed /\ j.sound = i.sound
        /\ j.SeekPos = i.SeekPos + op.n /\ j.Cluster = i.Cluster
        /\ j.ClusterSeq = i.ClusterSeq /\ j.first = i.first /\ j.size = i.size
    <3> DEFINE p == i.SeekPos + op.n
    <3> HIDE DEF p
    <3> QED BY <1>2 DEF FileInfo, p
  <2> HIDE DEF j
  <2>3. file'[f] = j /\ \A g \in Files \ {f} : file'[g] = file[g]
    BY <1>2, <2>1
  <2>4. StreamOK(f)'
    <3>1. Reached(f)' = file'[f].SeekPos + 0
      BY <1>8 DEF Reached
    <3>2. j.SeekPos \in Nat
      BY <1>2, <2>2
    <3>3. Reached(f)' = j.SeekPos
      BY <2>3, <3>1, <3>2
    <3> DEFINE base == j.ClusterSeq * BytesPerCluster
    <3>4. j.sound => /\ vol.sound /\ EntryOf(vol.card, f).is = "file"
                     /\ j.first = EntryOf(vol.card, f).first
                     /\ j.size = EntryOf(vol.card, f).size
                     /\ j.SeekPos <= j.size /\ base <= j.SeekPos
                     /\ j.Cluster = Clusters(vol.card, EntryOf(vol.card, f))[j.ClusterSeq]
      BY <1>5, <1>6, <1>11, <2>2
    <3> HIDE DEF base
    <3> QED BY <1>4, <2>3, <3>3, <3>4 DEF StreamOK, base
  <2>5. CalmOK' /\ MountOK'
    BY <1>10, <2>2, <2>3
  <2>6. OnFile(f)
    BY <1>2, <1>4, <2>3 DEF OnFile
  <2>7. StreamStep
    <3>1. CASE i.sound
      <4>1. StreamPos(f) = i.SeekPos /\ StreamPos(f)' = i.SeekPos + op.n
        BY <1>2, <2>2, <2>3, <3>1 DEF StreamPos
      <4>2. i.SeekPos + op.n <= EntryOf(vol.card, f).size
        BY <1>5, <1>6, <1>11, <3>1
      <4>3. StreamResult' = [f |-> f, ok |-> TRUE,
              data |-> SubSeq(FileBytes[vol.card][f], i.SeekPos + 1, i.SeekPos + op.n)]
        BY <1>6, <1>11, <2>1, <3>1 DEF StreamResult, Result
      <4> HIDE DEF i
      <4> QED BY <1>2, <2>6, <4>1, <4>2, <4>3, ReadStep
    <3>2. CASE ~i.sound
      <4>1. StreamPos(f)' = -3
        BY <1>2, <2>2, <2>3, <3>2 DEF StreamPos
      <4>2. StreamResult' = [f |-> f, ok |-> FALSE, data |-> <<>>]
        BY <2>1, <3>2 DEF StreamResult, Result
      <4> QED BY <1>2, <2>6, <3>2, <4>1, <4>2, DisturbStep
    <3> QED BY <3>1, <3>2
  <2>8. \A g \in Files : StreamOK(g)'
    BY <1>9, <2>3, <2>4
  <2> QED BY <1>7, <2>5, <2>7, <2>8 DEF RInv
<1>12. CASE ~op.ok
  <2> DEFINE j == [i EXCEPT !.failed = TRUE]
  <2>1. /\ file' = [file EXCEPT ![f] = j]
        /\ last' = Result(f, FALSE, <<>>, TRUE)
    BY <1>0, <1>12 DEF ReadEnd
  <2>2. /\ j.IsOpened = i.IsOpened /\ j.failed = TRUE /\ j.sound = i.sound
        /\ j.SeekPos = i.SeekPos /\ j.first = i.first /\ j.size = i.size
    BY <1>2 DEF FileInfo
  <2> HIDE DEF j
  <2>3. file'[f] = j /\ \A g \in Files \ {f} : file'[g] = file[g]
    BY <1>2, <2>1
  <2>4. StreamOK(f)'
    BY <1>4, <1>5, <2>2, <2>3 DEF StreamOK
  <2>5. CalmOK' /\ MountOK'
    BY <1>2, <1>10, <1>12, <2>2, <2>3
  <2>6. OnFile(f)
    BY <1>2, <1>4, <2>3 DEF OnFile
  <2>7. StreamStep
    <3>1. StreamPos(f)' \in {-1, -2, -3}
      BY <1>2, <2>2, <2>3 DEF StreamPos
    <3>2. StreamResult' = [f |-> f, ok |-> FALSE, data |-> <<>>]
      BY <2>1 DEF StreamResult, Result
    <3> QED BY <1>2, <1>12, <2>6, <3>1, <3>2, DisturbStep
  <2>8. \A g \in Files : StreamOK(g)'
    BY <1>9, <2>3, <2>4
  <2> QED BY <1>7, <2>5, <2>7, <2>8 DEF RInv
<1> QED BY <1>2, <1>11, <1>12

(* A sequence of L elements; those of it that q has, and where they are.   *)
IsSeq(b, L) == b = [i \in 1 .. L |-> b[i]]
Has(b, a, m, q, c) == \A i \in 1 .. c : q[i] = b[a + m + i]
Continues(b, a, m, q, c) == SubSeq(b, a + 1, a + m) \o q = SubSeq(b, a + 1, a + (m + c))

(* The next c elements of a sequence, behind the m before them.            *)
LEMMA NextBytes ==
  ASSUME NEW b, NEW L \in Nat, IsSeq(b, L),
         NEW a \in Nat, NEW m \in Nat, NEW c \in Nat, a + (m + c) <= L,
         NEW q, IsSeq(q, c), Has(b, a, m, q, c)
  PROVE  Continues(b, a, m, q, c)
<1> DEFINE S == {b[i] : i \in 1 .. L}
           k == a + m
           n == a + (m + c)
<1>1. \A i \in 1 .. L : b[i] \in S
  OBVIOUS
<1> HIDE DEF S
<1>2. b \in [1 .. L -> S]
  BY <1>1 DEF IsSeq
<1>3. b \in Seq(S) /\ Len(b) = L
  BY <1>2
<1>4. /\ a + 1 \in 1 .. L + 1 /\ k \in (a + 1) - 1 .. L /\ n \in k .. L
      /\ k \in Nat /\ n \in Nat /\ n - (k + 1) + 1 = c /\ n = k + c
      /\ \A i \in k + 1 .. n : i \in 1 .. L
      /\ \A i \in 1 .. c : k + i \in 1 .. L
  OBVIOUS
<1> HIDE DEF k, n
<1>5. SubSeq(b, a + 1, k) \o SubSeq(b, k + 1, n) = SubSeq(b, a + 1, n)
  BY <1>3, <1>4, ConcatAdjacentSubSeq
<1> DEFINE t == SubSeq(b, k + 1, n)
<1>6. t \in Seq(S) /\ Len(t) = c /\ \A i \in 1 .. c : t[i] = b[k + i]
  <2>1. \A i \in k + 1 .. n : b[i] \in S
    BY <1>1, <1>4
  <2>2. /\ t \in Seq(S) /\ Len(t) = IF k + 1 <= n THEN n - (k + 1) + 1 ELSE 0
        /\ \A i \in 1 .. n - (k + 1) + 1 : t[i] = b[(k + 1) + i - 1]
    <3>1. k + 1 \in Int /\ n \in Int
      BY <1>4
    <3> QED BY <2>1, <3>1, SubSeqProperties DEF t
  <2>3. Len(t) = c
    BY <1>4, <2>2
  <2>4. \A i \in 1 .. c : t[i] = b[k + i]
    <3> TAKE i \in 1 .. c
    <3>1. i \in 1 .. n - (k + 1) + 1 /\ (k + 1) + i - 1 = k + i
      BY <1>4
    <3> QED BY <2>2, <3>1
  <2> QED BY <2>2, <2>3, <2>4
<1>7. \A i \in 1 .. c : q[i] = b[k + i] /\ q[i] \in S
  <2> TAKE i \in 1 .. c
  <2>1. q[i] = b[k + i]
    BY DEF k, Has
  <2>2. k + i \in 1 .. L
    BY <1>4
  <2> QED BY <1>1, <2>1, <2>2
<1>8. q \in Seq(S) /\ Len(q) = c
  <2>1. q \in [1 .. c -> S]
    BY <1>7 DEF IsSeq
  <2> QED BY <2>1
<1> HIDE DEF t
<1>9. q = t
  BY <1>6, <1>7, <1>8, SeqEqual
<1> QED BY <1>5, <1>9 DEF t, k, n, Continues

(* A sector of a read, or the part of it that is wanted.                   *)
LEMMA SecterData ==
  ASSUME WellFormatted, IInv, RInv, op.step = "secters", op.ok, file[op.f].sound,
         op.s < vol.spc, op.nread < op.n, op.pos < BlockSize,
         NEW r \in ReadSecter(FirstSecter(file[op.f].Cluster) + op.s),
         NEW count \in Nat, count <= BlockSize - op.pos, count <= op.n - op.nread
  PROVE  LET i == file[op.f]
             bytes == FileBytes[vol.card][op.f]
         IN /\ r.ok /\ Block(r.cache.data).is # "junk" =>
                 op.out \o [x \in 1 .. count |-> Byte(r.cache.data, op.pos + x - 1)]
                   = SubSeq(bytes, i.SeekPos + 1, i.SeekPos + (op.nread + count))
            /\ vol.calm => r.ok /\ Block(r.cache.data).is # "junk"
            /\ CalmRead(r)
<1>0. PICK f : f = op.f
  OBVIOUS
<1> DEFINE k == vol.card
           i == file[f]
           e == EntryOf(k, f)
           c == i.Cluster
           w == Volume[k].spc
           base == i.ClusterSeq * BytesPerCluster
           off == op.s * BlockSize
           bytes == FileBytes[k][f]
<1>1. op.step \in Walking
  BY DEF Walking
<1>2. /\ phase = "play" /\ k \in Cards /\ VolOK /\ MountOK /\ f \in Files
      /\ i.SeekPos \in Nat /\ i.ClusterSeq \in Nat /\ op.nread \in 0 .. op.n /\ op.n \in Nat
      /\ op.s \in Nat
  BY <1>0, <1>1, ReadState
<1>3. /\ BytesPerCluster \in Nat \ {0} /\ op.pos \in Nat
      /\ vol.spc \in Nat \ {0} /\ BlockSize \in Nat \ {0}
  BY SectersState
<1>e. vol.sound /\ i.SeekPos + op.n <= i.size
  BY <1>0, SectersState
<1>f. op.out = SubSeq(bytes, i.SeekPos + 1, i.SeekPos + op.nread)
  BY <1>0, SectersState
<1>a. BytesPerCluster = vol.spc * BlockSize
  BY SectersState
<1>b. base + (off + op.pos) = i.SeekPos + op.nread
  BY <1>0, SectersState
<1>c. base \in Nat
  <2>1. i.ClusterSeq \in Nat
    BY <1>2
  <2> QED BY <1>3, <2>1
<1>d. off \in Nat
  <2>1. op.s \in Nat
    BY <1>2
  <2> QED BY <1>3, <2>1
<1>4. e.is = "file" /\ i.size = e.size /\ c = Clusters(k, e)[i.ClusterSeq]
  BY <1>0, <1>1, SoundState
<1>5. vol.spc = w
  BY <1>2, <1>e DEF MountOK
<1>6. base < e.size /\ e.size \in Nat
  <2>2. e.size \in Nat
    BY <1>2, EntryIs
  <2>3. i.SeekPos + op.n <= e.size
    BY <1>e, <1>4
  <2> HIDE DEF base, e, off, i
  <2> QED BY <1>2, <1>3, <1>b, <1>c, <1>d, <2>2, <2>3
<1>7. /\ c \in DOMAIN Volume[k].chain /\ c >= 2
      /\ Volume[k].type = 11 => c # 2
  BY <1>2, <1>4, <1>6, <1>e, OnChain
<1>8. op.s \in 0 .. vol.spc - 1
  BY <1>2, <1>3
<1>9. /\ r.ok /\ Block(r.cache.data).is # "junk" =>
           \A x : Byte(r.cache.data, x) = <<k, c, op.s, x>>
      /\ vol.calm => r.ok /\ Block(r.cache.data).is # "junk"
      /\ CalmRead(r)
  <2>1. CalmOK /\ MountOK
    BY DEF RInv
  <2> QED BY <1>0, <1>2, <1>7, <1>8, <1>e, <2>1, DataSound
<1>10. ASSUME NEW x \in 1 .. count
       PROVE  bytes[i.SeekPos + op.nread + x] = <<k, c, op.s, op.pos + x - 1>>
  <2> DEFINE p == i.SeekPos + op.nread + x - 1
             y == op.pos + x - 1
  <2>1. y \in 0 .. BlockSize - 1 /\ y = op.pos + (x - 1)
    BY <1>3
  <2>2. IsAt(p, BlockSize, w, i.ClusterSeq, op.s, y)
    <3>1. base = i.ClusterSeq * (w * BlockSize)
      BY <1>5, <1>a
    <3> HIDE DEF base, off, i, w
    <3>2. p = base + (off + y)
      BY <1>2, <1>3, <1>b, <1>c, <1>d
    <3> QED BY <3>1, <3>2 DEF IsAt, off
  <2>3. p < e.size /\ p + 1 = i.SeekPos + op.nread + x
    <3>1. i.SeekPos + op.n <= e.size /\ e.size \in Nat
      BY <1>4, <1>6, <1>e
    <3> HIDE DEF e, i
    <3> QED BY <1>2, <3>1
  <2>4. op.s \in 0 .. w - 1 /\ w \in Nat \ {0}
    BY <1>3, <1>5, <1>8
  <2> HIDE DEF p, y
  <2>5. bytes[p + 1] = <<k, Clusters(k, e)[i.ClusterSeq], op.s, y>>
    BY <1>2, <2>1, <2>2, <2>3, <2>4, ByteIs
  <2> QED BY <1>4, <2>3, <2>5 DEF y
<1>11. ASSUME r.ok /\ Block(r.cache.data).is # "junk"
       PROVE  op.out \o [x \in 1 .. count |-> Byte(r.cache.data, op.pos + x - 1)]
                = SubSeq(bytes, i.SeekPos + 1, i.SeekPos + (op.nread + count))
  <2> DEFINE q == [x \in 1 .. count |-> Byte(r.cache.data, op.pos + x - 1)]
  <2>1. IsSeq(q, count)
    BY DEF IsSeq
  <2>2. Has(bytes, i.SeekPos, op.nread, q, count)
    BY <1>9, <1>10, <1>11 DEF Has
  <2>3. IsSeq(bytes, e.size)
    BY <1>2, BytesAre DEF IsSeq
  <2>4. i.SeekPos + (op.nread + count) <= e.size /\ op.nread \in Nat
    <3>1. i.SeekPos + op.n <= e.size /\ e.size \in Nat
      BY <1>4, <1>6, <1>e
    <3> HIDE DEF e, i
    <3> QED BY <1>2, <3>1
  <2>6. e.size \in Nat
    BY <1>6
  <2> HIDE DEF q, bytes, e, i
  <2>5. Continues(bytes, i.SeekPos, op.nread, q, count)
    BY <1>2, <2>1, <2>2, <2>3, <2>4, <2>6, NextBytes
  <2> QED BY <1>f, <2>5 DEF q, Continues
<1> QED BY <1>0, <1>9, <1>11

(* Fat_FileRead: a sector of the cluster.                                  *)
LEMMA SecterRefines ==
  ASSUME WellFormatted, IInv, RInv, Secter
  PROVE  RInv' /\ StreamStep
<1> DEFINE i == file[op.f]
           base == i.ClusterSeq * BytesPerCluster
           off == op.s * BlockSize
           next == (op.s + 1) * BlockSize
           bytes == FileBytes[vol.card][op.f]
<1>1. /\ op.step = "secters" /\ op.step \in Walking
      /\ op.s < vol.spc /\ op.nread < op.n /\ op.ok
  BY DEF Secter, Walking
<1>2. /\ phase = "play" /\ op.f \in Files /\ op.n \in Nat /\ op.s \in Nat
      /\ op.nread \in 0 .. op.n /\ op.pos \in Int
      /\ DOMAIN op = {"f", "n", "nread", "out", "ok", "s", "pos", "step"}
      /\ file \in [Files -> FileInfo] /\ i \in FileInfo /\ i.IsOpened /\ ~i.failed
      /\ i.SeekPos \in Nat /\ i.ClusterSeq \in Nat /\ i.size \in Nat /\ i.sound \in BOOLEAN
      /\ BytesPerCluster \in Nat /\ (vol.calm => op.ok /\ i.sound)
  BY <1>1, ReadState
<1>3. ASSUME i.sound
      PROVE  /\ i.SeekPos + op.n <= i.size /\ op.pos \in Nat
             /\ vol.spc \in Nat \ {0} /\ BlockSize \in Nat \ {0}
  BY <1>1, <1>3, SectersState
<1>4. ASSUME i.sound
      PROVE  op.out = SubSeq(bytes, i.SeekPos + 1, i.SeekPos + op.nread)
  BY <1>1, <1>4, SectersState
<1>5. ASSUME i.sound PROVE off + op.pos <= BytesPerCluster
  BY <1>1, <1>5, SectersState
<1>6. ASSUME i.sound PROVE base + (off + op.pos) = i.SeekPos + op.nread
  BY <1>1, <1>6, SectersState
<1>7. ASSUME i.sound
      PROVE  base \in Nat /\ off \in Nat /\ next = off + BlockSize
             /\ next <= BytesPerCluster
  <2>1. /\ op.s \in Nat /\ vol.spc \in Nat \ {0} /\ BlockSize \in Nat \ {0}
        /\ i.ClusterSeq \in Nat
    BY <1>2, <1>3, <1>7
  <2>2. base \in Nat /\ off \in Nat /\ next = off + BlockSize
    <3>1. base \in Nat
      BY <1>2
    <3>2. off \in Nat /\ next = off + BlockSize
      BY <2>1
    <3> QED BY <3>1, <3>2
  <2>3. vol.spc - (op.s + 1) \in Nat
    BY <1>1, <2>1
  <2> DEFINE rest == (vol.spc - (op.s + 1)) * BlockSize
  <2>4. rest \in Nat /\ vol.spc * BlockSize = next + rest /\ next \in Nat
    BY <2>1, <2>3
  <2>5. BytesPerCluster = next + rest
    BY <2>4 DEF BytesPerCluster
  <2> HIDE DEF rest, next
  <2>6. next <= BytesPerCluster
    BY <2>4, <2>5
  <2> QED BY <2>2, <2>6
<1>8. UNCHANGED last
  BY DEF Secter
<1>9. CASE op.pos >= BlockSize
  <2> DEFINE pos == op.pos - BlockSize
  <2>1. /\ op' = [op EXCEPT !.pos = pos, !.s = op.s + 1]
        /\ UNCHANGED <<cardVars, cache, phase, vol, file, last>>
    BY <1>9 DEF Secter, Unmoved
  <2>2. /\ op'.f = op.f /\ op'.n = op.n /\ op'.nread = op.nread /\ op'.out = op.out
        /\ op'.s = op.s + 1 /\ op'.ok = op.ok /\ op'.pos = pos /\ op'.step = op.step
    <3> HIDE DEF pos
    <3> QED BY <1>2, <2>1
  <2>3. pos \in Int
    BY <1>2, CardAssumption
  <2>4. ASSUME i.sound
        PROVE  /\ pos \in Nat /\ next + pos <= BytesPerCluster
               /\ base + (next + pos) = i.SeekPos + op.nread
    <3>1. /\ base \in Nat /\ off \in Nat /\ next = off + BlockSize /\ BlockSize \in Nat
          /\ base + (off + op.pos) = i.SeekPos + op.nread
          /\ off + op.pos <= BytesPerCluster /\ op.pos \in Nat
      BY <1>3, <1>5, <1>6, <1>7, <2>4
    <3> HIDE DEF base, off, next, i
    <3> QED BY <1>2, <1>9, <3>1
  <2>5. ReadCallOK'
    <3>1. BytesPerCluster' = BytesPerCluster /\ vol' = vol /\ file' = file
      BY <2>1 DEF BytesPerCluster
    <3>2. ASSUME i.sound
          PROVE /\ i.SeekPos + op.n <= i.size
                /\ op.out = SubSeq(bytes, i.SeekPos + 1, i.SeekPos + op.nread)
                /\ op.s + 1 <= vol.spc
      BY <1>1, <1>2, <1>3, <1>4, <3>2
    <3> HIDE DEF base, pos, bytes
    <3> QED
      BY <1>1, <1>2, <2>2, <2>3, <2>4, <3>1, <3>2 DEF ReadCallOK, base, bytes
  <2>6. op'.step \in Walking
    BY <1>1, <2>2
  <2> QED BY <1>1, <2>1, <2>2, <2>5, <2>6, QuietFrame
<1>10. CASE ~(op.pos >= BlockSize)
  <2> DEFINE room == BlockSize - op.pos
             count == IF room > op.n - op.nread THEN op.n - op.nread ELSE room
  <2>1. PICK r \in ReadSecter(FirstSecter(i.Cluster) + op.s) :
          /\ AfterRead(r)
          /\ IF r.ok
               THEN op' = [op EXCEPT !.s = @ + 1, !.nread = @ + count, !.pos = 0,
                      !.out = @ \o [x \in 1 .. count |->
                                      Byte(r.cache.data, op.pos + x - 1)]]
               ELSE op' = [op EXCEPT !.s = @ + 1, !.ok = FALSE]
          /\ file' = [file EXCEPT ![op.f].sound =
                        @ /\ (~r.ok \/ Block(r.cache.data).is # "junk")]
    BY <1>10 DEF Secter
  <2> DEFINE fine == i.sound /\ (~r.ok \/ Block(r.cache.data).is # "junk")
             info == [i EXCEPT !.sound = fine]
             out == op.out \o [x \in 1 .. count |-> Byte(r.cache.data, op.pos + x - 1)]
  <2>2. BlockSize \in Nat /\ op.pos < BlockSize /\ op.n - op.nread \in Nat /\ op.nread \in Nat
    BY <1>2, <1>10, CardAssumption
  <2>3. /\ count \in Nat /\ count <= BlockSize - op.pos /\ count <= op.n - op.nread
        /\ op.nread + count \in 0 .. op.n
        /\ op.nread + count < op.n => count = BlockSize - op.pos
    BY <1>2, <2>2
  <2> HIDE DEF count
  <2>4. file' = [file EXCEPT ![op.f] = info]
    BY <2>1
  <2>5. /\ info.IsOpened = i.IsOpened /\ info.failed = i.failed /\ info.SeekPos = i.SeekPos
        /\ info.first = i.first /\ info.size = i.size /\ info.Cluster = i.Cluster
        /\ info.ClusterSeq = i.ClusterSeq /\ info.sound = fine
    <3> HIDE DEF fine
    <3> QED BY <1>2 DEF FileInfo
  <2>6. info.sound <=> fine
    BY <2>5
  <2> HIDE DEF info
  <2>7. file'[op.f] = info /\ \A g \in Files \ {op.f} : file'[g] = file[g]
    BY <1>2, <2>4
  <2>8. PICK j : j = file'[op.f]
    OBVIOUS
  <2>9. /\ j.IsOpened = i.IsOpened /\ j.failed = i.failed /\ j.SeekPos = i.SeekPos
        /\ j.first = i.first /\ j.size = i.size /\ j.Cluster = i.Cluster
        /\ j.ClusterSeq = i.ClusterSeq /\ (j.sound <=> fine)
    BY <2>5, <2>6, <2>7, <2>8
  <2>10. /\ op'.f = op.f /\ op'.n = op.n /\ op'.s = op.s + 1 /\ op'.step = op.step
         /\ r.ok => op'.nread = op.nread + count /\ op'.pos = 0 /\ op'.out = out
                    /\ op'.ok = op.ok
         /\ ~r.ok => op'.nread = op.nread /\ op'.pos = op.pos /\ op'.ok = FALSE
    <3>1. CASE r.ok
      <4> DEFINE nread == op.nread + count
      <4>1. op' = [op EXCEPT !.s = op.s + 1, !.nread = nread, !.pos = 0, !.out = out]
        BY <2>1, <3>1
      <4> HIDE DEF nread, out
      <4>2. /\ op'.f = op.f /\ op'.n = op.n /\ op'.s = op.s + 1 /\ op'.step = op.step
            /\ op'.nread = nread /\ op'.pos = 0 /\ op'.out = out /\ op'.ok = op.ok
        BY <1>2, <4>1
      <4> QED BY <3>1, <4>2 DEF nread
    <3>2. CASE ~r.ok
      <4>1. op' = [op EXCEPT !.s = op.s + 1, !.ok = FALSE]
        BY <2>1, <3>2
      <4>2. /\ op'.f = op.f /\ op'.n = op.n /\ op'.s = op.s + 1 /\ op'.step = op.step
            /\ op'.nread = op.nread /\ op'.pos = op.pos /\ op'.ok = FALSE
        BY <1>2, <4>1
      <4> QED BY <3>2, <4>2
    <3> QED BY <3>1, <3>2
  <2>11. ASSUME i.sound
         PROVE  /\ r.ok /\ Block(r.cache.data).is # "junk" =>
                     out = SubSeq(bytes, i.SeekPos + 1, i.SeekPos + (op.nread + count))
                /\ vol.calm => r.ok /\ Block(r.cache.data).is # "junk"
                /\ CalmRead(r)
    BY <1>1, <2>1, <2>2, <2>3, <2>11, SecterData
  <2>12. UNCHANGED <<noise, phase, vol>> /\ BytesPerCluster' = BytesPerCluster
         /\ card' = r.card /\ cache' = r.cache
    BY <2>1 DEF AfterRead, Unmoved, BytesPerCluster
  <2>13. vol.calm => /\ r.ok /\ j.sound /\ CardCalm(card')
                     /\ cache'.index # -1 => cache'.data # Junk
    BY <1>2, <2>9, <2>11, <2>12 DEF CalmRead
  <2>14. j.sound => i.sound
    BY <2>9
  <2>15. op'.nread \in 0 .. op'.n /\ op.nread <= op'.nread /\ op'.pos \in Int
    <3>1. \/ op'.nread = op.nread + count /\ op'.pos = 0
          \/ op'.nread = op.nread /\ op'.pos = op.pos
      BY <2>10
    <3>2. /\ op.nread \in 0 .. op.n /\ op.nread + count \in 0 .. op.n /\ count \in Nat
          /\ op'.n = op.n /\ op.n \in Nat /\ op.pos \in Int
      BY <1>2, <2>3, <2>10
    <3> HIDE DEF out
    <3> QED BY <3>1, <3>2
  <2>16. ASSUME op'.ok, j.sound
         PROVE  /\ r.ok /\ i.sound /\ op'.nread = op.nread + count /\ op'.pos = 0
                /\ op'.out = SubSeq(bytes, i.SeekPos + 1, i.SeekPos + op'.nread)
    <3>1. r.ok /\ i.sound /\ Block(r.cache.data).is # "junk"
      BY <2>9, <2>10, <2>16
    <3>2. op'.out = out /\ op'.nread = op.nread + count
      BY <2>10, <3>1
    <3>3. out = SubSeq(bytes, i.SeekPos + 1, i.SeekPos + (op.nread + count))
      BY <2>11, <3>1
    <3> HIDE DEF out
    <3> QED BY <2>10, <3>1, <3>2, <3>3
  <2>17. ASSUME op'.ok, j.sound, op'.nread < op'.n
         PROVE  /\ op.s + 1 <= vol.spc /\ next + 0 <= BytesPerCluster
                /\ base + (next + 0) = i.SeekPos + op'.nread
    <3>1. op'.nread = op.nread + count /\ i.sound /\ op'.n = op.n
      BY <2>10, <2>16, <2>17
    <3>2. count = BlockSize - op.pos
      BY <2>3, <2>17, <3>1
    <3>3. /\ base \in Nat /\ off \in Nat /\ next = off + BlockSize
          /\ base + (off + op.pos) = i.SeekPos + op.nread
          /\ next <= BytesPerCluster /\ op.pos \in Nat /\ vol.spc \in Nat
      BY <1>3, <1>6, <1>7, <3>1
    <3> HIDE DEF base, off, next, i
    <3>4. base + (next + 0) = i.SeekPos + op'.nread
      BY <1>2, <2>2, <3>1, <3>2, <3>3
    <3> QED BY <1>1, <1>2, <3>3, <3>4
  <2>18. ReadCallOK'
    <3>1. ASSUME j.sound
          PROVE  i.SeekPos + op.n <= i.size
      BY <1>3, <2>14, <3>1
    <3>2. file'[op'.f] = j
      BY <2>8, <2>10
    <3>3. op'.step = "secters" /\ (vol.calm => op'.ok) /\ vol' = vol
      BY <1>1, <2>10, <2>12, <2>13
    <3>4. j.IsOpened /\ ~j.failed
      BY <1>2, <2>9
    <3> HIDE DEF base, next, fine, out, i
    <3>5. ASSUME op'.ok, j.sound
          PROVE  /\ j.SeekPos + op'.n <= j.size /\ op'.pos \in Nat
                 /\ op'.out = SubSeq(FileBytes[vol'.card][op'.f], j.SeekPos + 1,
                                     j.SeekPos + op'.nread)
      BY <2>9, <2>10, <2>12, <2>16, <3>1, <3>5
    <3>6. ASSUME op'.ok, j.sound, op'.nread < op'.n
          PROVE  /\ op'.s <= vol'.spc /\ op'.s * BlockSize + op'.pos <= BytesPerCluster'
                 /\ j.ClusterSeq * BytesPerCluster' + (op'.s * BlockSize + op'.pos)
                      = j.SeekPos + op'.nread
      <4>1. op'.pos = 0 /\ op'.s = op.s + 1 /\ op'.s * BlockSize = next
        BY <2>10, <2>16, <3>6 DEF next
      <4>2. j.ClusterSeq * BytesPerCluster' = base
        BY <2>9, <2>12 DEF base, i
      <4>3. j.SeekPos = i.SeekPos /\ vol' = vol /\ BytesPerCluster' = BytesPerCluster
        BY <2>9, <2>12
      <4>4. /\ op.s + 1 <= vol.spc /\ next + 0 <= BytesPerCluster
            /\ base + (next + 0) = i.SeekPos + op'.nread
        BY <2>17, <3>6
      <4> QED BY <4>1, <4>2, <4>3, <4>4
    <3> QED BY <2>15, <3>2, <3>3, <3>4, <3>5, <3>6 DEF ReadCallOK
  <2>19. /\ (j.sound <=> i.sound) \/ (~j.sound /\ ~vol.calm)
    BY <2>13, <2>14
  <2>20. ASSUME j.sound, op'.ok
         PROVE  /\ base <= i.SeekPos + op'.nread
                /\ j.Cluster = Clusters(vol.card, EntryOf(vol.card, op.f))[j.ClusterSeq]
    <3>1. /\ base <= i.SeekPos + op.nread
          /\ i.Cluster = Clusters(vol.card, EntryOf(vol.card, op.f))[i.ClusterSeq]
      BY <1>1, <2>14, <2>20, SoundState
    <3>2. base \in Nat
      BY <1>7, <2>14, <2>20
    <3> HIDE DEF base
    <3>3. base <= i.SeekPos + op'.nread
      BY <1>2, <2>15, <3>1, <3>2
    <3> QED BY <2>9, <3>1, <3>3
  <2>21. base = j.ClusterSeq * BytesPerCluster
    BY <2>9
  <2>22. op'.step \in Walking
    BY <1>1, <2>10
  <2> HIDE DEF base, next, fine, out
  <2>23. j.sound /\ op'.ok =>
           /\ j.ClusterSeq * BytesPerCluster <= i.SeekPos + op'.nread
           /\ j.Cluster = Clusters(vol.card, EntryOf(vol.card, op.f))[j.ClusterSeq]
    BY <2>20, <2>21
  <2> QED
    BY <1>1, <1>8, <2>7, <2>8, <2>9, <2>10, <2>12, <2>13, <2>18, <2>19, <2>22, <2>23,
       ReadFrame
<1> QED BY <1>9, <1>10

-----------------------------------------------------------------------------
(* A call begins.                                                          *)
LEMMA BeginFrame ==
  ASSUME IInv, RInv, Ready, UNCHANGED <<cardVars, phase, vol, cache, file>>,
         last' = NoResult, op'.step \in Walking => op'.ok /\ op'.nread = 0,
         ReadCallOK', BrowseOK'
  PROVE  RInv' /\ StreamStep
<1>1. /\ phase = "play" /\ phase' = "play" /\ \A f : ~Reading(f)
      /\ file \in [Files -> FileInfo]
      /\ UNCHANGED <<card, noise, cache, vol, file>> /\ BytesPerCluster' = BytesPerCluster
  BY DEF Ready, Reading, Idle, IInv, CallOK, cardVars, BytesPerCluster
<1>2. CalmOK' /\ MountOK'
  BY <1>1 DEF RInv, CalmOK, MountOK, Mounted
<1>3. ASSUME NEW f \in Files PROVE StreamOK(f)'
  <2>1. StreamOK(f)
    BY DEF RInv
  <2>2. file[f].SeekPos \in Nat
    BY <1>1 DEF FileInfo
  <2>3. Reached(f)' = Reached(f) /\ ~Lost(f) /\ ~Lost(f)'
    <3>1. Reached(f) = file[f].SeekPos + 0
      BY <1>1 DEF Reached
    <3>2. Reading(f)' => op'.ok /\ op'.nread = 0
      BY DEF Reading, Walking
    <3>3. Reached(f)' = file[f].SeekPos + 0
      BY <1>1, <2>2, <3>2 DEF Reached
    <3> QED BY <1>1, <3>1, <3>2, <3>3 DEF Lost
  <2> QED BY <1>1, <2>1, <2>3 DEF StreamOK
<1>4. StreamStep
  BY BeginStep
<1> QED BY <1>2, <1>3, <1>4 DEF RInv

(* Fat_FileOpen begins.                                                    *)
LEMMA OpenCallRefines ==
  ASSUME IInv, RInv, NEW f \in Files, OpenCall(f)
  PROVE  RInv' /\ StreamStep
<1>1. /\ Ready /\ vol.sound /\ last' = NoResult
      /\ op' = [step |-> "browse", f |-> f, i |-> 0, order |-> 0, long |-> FALSE, name |-> ""]
      /\ UNCHANGED <<cardVars, phase, vol, cache, file>>
  BY DEF OpenCall
<1>2. /\ op'.step = "browse" /\ op'.i = 0 /\ op'.order = 0 /\ op'.long = FALSE /\ vol' = vol
  BY <1>1
<1>3. ReadCallOK'
  BY <1>2 DEF ReadCallOK
<1>4. Len(Volume[vol.card].root) \in Nat
  <2>1. vol.card \in Cards
    BY <1>1 DEF IInv, VolOK, Ready
  <2>2. Volume[vol.card].root \in Seq(DirEntry)
    BY <2>1, VolumeAssumption
  <2> QED BY <2>2
<1>5. BrowseOK'
  <2>1. vol.sound
    BY <1>1
  <2>2. 1 .. op'.i = {} /\ op'.i <= Len(Volume[vol.card].root) /\ ~(op'.i > 0)
    BY <1>2, <1>4
  <2> QED BY <1>2, <2>1, <2>2 DEF BrowseOK
<1> QED
  BY <1>1, <1>2, <1>3, <1>5, BeginFrame DEF Walking

(* Fat_FileRead begins.                                                    *)
LEMMA ReadCallRefines ==
  ASSUME WellFormatted, IInv, RInv, NEW f \in Files, NEW n \in ReadSizes, ReadCall(f, n),
         ~file[f].failed
  PROVE  RInv' /\ StreamStep
<1> DEFINE i == file[f]
           base == i.ClusterSeq * BytesPerCluster
           pos == i.SeekPos - base
           step == IF i.SeekPos \div BytesPerCluster # i.ClusterSeq
                     THEN "walk" ELSE "secters"
<1>1. /\ Ready /\ i.IsOpened /\ ~i.failed /\ i.sound /\ i.SeekPos + n <= i.size
      /\ op' = [f |-> f, n |-> n, nread |-> 0, out |-> <<>>, ok |-> TRUE, s |-> 0,
                pos |-> pos, step |-> step]
      /\ last' = NoResult
      /\ UNCHANGED <<cardVars, phase, vol, cache, file>>
  <2>1. /\ Ready /\ i.IsOpened /\ i.sound /\ i.SeekPos + n <= i.size
        /\ file' = [file EXCEPT ![f].sound = TRUE, ![f].failed = FALSE]
        /\ op' = [f |-> f, n |-> n, nread |-> 0, out |-> <<>>, ok |-> TRUE, s |-> 0,
                  pos |-> pos % U32, step |-> step]
        /\ last' = NoResult /\ UNCHANGED <<cardVars, phase, vol, cache>>
    BY DEF ReadCall
  <2>2. /\ phase = "play" /\ i.SeekPos \in Nat /\ i.ClusterSeq \in Nat
        /\ i.size \in Nat /\ n \in Nat /\ file \in [Files -> FileInfo]
        /\ i.sound = TRUE /\ i.failed = FALSE /\ vol.card \in Cards
    BY <2>1, CallAssumption DEF IInv, CallOK, VolOK, Ready, FileInfo
  <2>3. file' = file
    <3> DEFINE j == [i EXCEPT !.sound = TRUE, !.failed = FALSE]
    <3>1. i \in FileInfo
      BY <2>2
    <3>2. j = i
      BY <2>2, <3>1 DEF FileInfo
    <3>3. file' = [file EXCEPT ![f] = j]
      BY <2>1
    <3> HIDE DEF j, i
    <3>4. file' = [file EXCEPT ![f] = i]
      BY <3>2, <3>3
    <3> QED BY <2>2, <3>4 DEF i
  <2>4. /\ vol.sound /\ EntryOf(vol.card, f).is = "file" /\ base <= i.SeekPos
        /\ i.size = EntryOf(vol.card, f).size
    <3>1. StreamOK(f) /\ ~Reading(f)
      BY <2>1 DEF RInv, Ready, Idle, Reading
    <3>2. Reached(f) = i.SeekPos + 0
      BY <3>1 DEF Reached
    <3>3. Reached(f) = i.SeekPos
      BY <2>2, <3>2
    <3> QED BY <2>1, <3>1, <3>3 DEF StreamOK, Lost
  <2>5. i.size < U32
    <3>1. Formatted(vol.card)
      BY <2>2, <2>4, SoundVolume DEF IInv, RInv
    <3> QED BY <2>4, <3>1 DEF Formatted, Chained
  <2>6. base \in Nat
    <3>1. BytesPerCluster \in Nat
      BY <2>2, <2>4, ClusterSize
    <3> QED BY <2>2, <3>1
  <2>7. pos % U32 = pos
    <3>1. U32 \in Nat \ {0}
      BY WidthAssumption
    <3> HIDE DEF base
    <3>2. pos \in 0 .. U32 - 1
      BY <2>1, <2>2, <2>4, <2>5, <2>6, <3>1
    <3> HIDE DEF pos
    <3> QED BY <3>1, <3>2, ModSmall
  <2> HIDE DEF pos, step
  <2> QED BY <2>1, <2>3, <2>7
<1>2. /\ op'.f = f /\ op'.n = n /\ op'.nread = 0 /\ op'.out = <<>> /\ op'.ok = TRUE
      /\ op'.s = 0 /\ op'.pos = pos /\ op'.step = step
  <2> HIDE DEF pos, step
  <2> QED BY <1>1
<1>3. /\ step \in {"walk", "secters"} /\ n \in Nat /\ phase = "play"
      /\ i.SeekPos \in Nat /\ i.ClusterSeq \in Nat /\ i.size \in Nat
      /\ vol' = vol /\ file' = file /\ BytesPerCluster' = BytesPerCluster
  <2>1. file \in [Files -> FileInfo]
    BY DEF IInv, CallOK
  <2> QED BY <1>1, <2>1, CallAssumption DEF Ready, FileInfo, BytesPerCluster
<1>4. vol.sound /\ base <= i.SeekPos
  <2>1. StreamOK(f) /\ ~Reading(f)
    BY <1>1 DEF RInv, Ready, Idle, Reading
  <2>2. Reached(f) = i.SeekPos + 0
    BY <2>1 DEF Reached
  <2>3. Reached(f) = i.SeekPos
    BY <1>3, <2>2
  <2> QED BY <1>1, <2>1, <2>3 DEF StreamOK, Lost
<1>5. vol.spc \in Nat \ {0} /\ BlockSize \in Nat \ {0} /\ BytesPerCluster \in Nat \ {0}
  BY <1>3, <1>4, ClusterSize
<1>6. base \in Nat /\ pos \in Nat /\ base + pos = i.SeekPos
  <2>1. base \in Nat
    BY <1>3, <1>5
  <2> HIDE DEF base
  <2> QED BY <1>3, <1>4, <2>1
<1>7. step = "secters" => pos <= BytesPerCluster
  <2>1. ASSUME i.SeekPos \div BytesPerCluster = i.ClusterSeq
        PROVE  pos <= BytesPerCluster
    <3> DEFINE p == i.SeekPos
               b == BytesPerCluster
               q == i.ClusterSeq
    <3>1. p \in Nat /\ b \in Nat \ {0} /\ q \in Nat /\ p \div b = q
      BY <1>3, <1>5, <2>1
    <3> HIDE DEF p, b, q
    <3>2. p < (q + 1) * b
      <4>1. CASE (q + 1) * b <= p
        <5>1. b * (q + 1) <= p
          BY <3>1, <4>1
        <5>2. q + 1 <= p \div b
          BY <3>1, <5>1, DivAtLeast
        <5> QED BY <3>1, <5>2
      <4>2. (q + 1) * b \in Nat
        BY <3>1
      <4> QED BY <3>1, <4>1, <4>2
    <3>3. (q + 1) * b = q * b + b
      BY <3>1
    <3>4. base = q * b
      BY DEF q, b
    <3>5. p < base + b
      BY <3>2, <3>3, <3>4
    <3>6. base + pos = p /\ base \in Nat /\ pos \in Nat
      BY <1>6 DEF p
    <3> HIDE DEF base, pos
    <3>7. pos <= b
      BY <3>1, <3>5, <3>6
    <3> QED BY <3>7 DEF b
  <2> QED BY <2>1
<1>8. SubSeq(FileBytes[vol.card][f], i.SeekPos + 1, i.SeekPos) = <<>>
  BY <1>3, SubSeqEmpty
<1>9. ReadCallOK'
  <2>1. 0 * BlockSize + pos = pos
    <3> HIDE DEF pos
    <3> QED BY <1>5, <1>6
  <2>2. i.SeekPos + 0 = i.SeekPos
    BY <1>3
  <2>3. file'[op'.f] = i /\ 0 \in 0 .. n
    BY <1>2, <1>3
  <2>4. i.IsOpened /\ ~i.failed /\ i.SeekPos + n <= i.size
    BY <1>1
  <2> HIDE DEF pos, base, step, i
  <2>5. step = "secters" =>
          /\ 0 <= vol.spc /\ 0 * BlockSize + pos <= BytesPerCluster
          /\ base + (0 * BlockSize + pos) = i.SeekPos
    BY <1>5, <1>6, <1>7, <2>1
  <2>6. pos \in Nat /\ pos \in Int /\ base + pos = i.SeekPos
    BY <1>6
  <2>7. base = i.ClusterSeq * BytesPerCluster
    BY DEF base, i
  <2> QED
    BY <1>2, <1>3, <1>8, <2>2, <2>3, <2>4, <2>5, <2>6, <2>7 DEF ReadCallOK
<1>10. BrowseOK'
  BY <1>2, <1>3 DEF BrowseOK
<1> QED
  BY <1>1, <1>2, <1>9, <1>10, BeginFrame

(* Fat_FileRead begins on a handle whose last read failed: the volume was  *)
(* not mounted in calm, and of what the read returns nothing is said.      *)
LEMMA ReadOnRefines ==
  ASSUME IInv, RInv, NEW f \in Files, NEW n \in ReadSizes, ReadCall(f, n), file[f].failed
  PROVE  RInv' /\ StreamStep
<1> DEFINE i == file[f]
           j == [i EXCEPT !.sound = FALSE, !.failed = FALSE]
           pos == (i.SeekPos - i.ClusterSeq * BytesPerCluster) % U32
           step == IF i.SeekPos \div BytesPerCluster # i.ClusterSeq
                     THEN "walk" ELSE "secters"
<1>1. /\ Ready /\ i.IsOpened /\ i.sound /\ file' = [file EXCEPT ![f] = j]
      /\ op' = [f |-> f, n |-> n, nread |-> 0, out |-> <<>>, ok |-> TRUE, s |-> 0,
                pos |-> pos, step |-> step]
      /\ last' = NoResult /\ UNCHANGED <<cardVars, phase, vol, cache>>
  BY DEF ReadCall
<1>2. /\ phase = "play" /\ phase' = "play" /\ file \in [Files -> FileInfo]
      /\ i \in FileInfo /\ vol' = vol /\ n \in Nat /\ vol.card \in Cards
      /\ UNCHANGED <<card, noise, cache>> /\ BytesPerCluster' = BytesPerCluster
      /\ \A g : ~Reading(g)
  BY <1>1, CallAssumption
     DEF Ready, Reading, Idle, IInv, CallOK, VolOK, cardVars, BytesPerCluster
<1>3. /\ j.IsOpened /\ ~j.failed /\ ~j.sound
      /\ file'[f] = j /\ \A g \in Files \ {f} : file'[g] = file[g]
  BY <1>1, <1>2 DEF FileInfo
<1>4. step \in {"walk", "secters"} /\ pos \in Int
  <2>1. i.SeekPos \in Nat /\ i.ClusterSeq \in Nat /\ vol.spc \in Nat
    BY <1>2 DEF FileInfo, IInv, VolOK
  <2>2. BytesPerCluster \in Nat
    BY <2>1, CardAssumption DEF BytesPerCluster
  <2>3. i.ClusterSeq * BytesPerCluster \in Nat
    BY <2>1, <2>2
  <2> DEFINE d == i.SeekPos - i.ClusterSeq * BytesPerCluster
  <2>4. d \in Int /\ U32 \in Nat \ {0}
    BY <2>1, <2>3, WidthAssumption
  <2>5. \A y \in Int : \A m \in Nat \ {0} : y % m \in Int
    OBVIOUS
  <2> HIDE DEF d
  <2>6. d % U32 \in Int
    BY <2>4, <2>5
  <2> QED BY <2>6 DEF d
<1> HIDE DEF j, pos, step
<1>5. /\ op'.f = f /\ op'.n = n /\ op'.nread = 0 /\ op'.ok = TRUE /\ op'.pos = pos
      /\ op'.step = step
  BY <1>1
<1>6. ~vol.calm
  BY <1>2 DEF RInv, CalmOK
<1>7. CalmOK' /\ MountOK'
  BY <1>2, <1>6 DEF RInv, CalmOK, MountOK, Mounted
<1>8. ReadCallOK' /\ BrowseOK'
  <2>1. 0 \in 0 .. n
    BY <1>2
  <2> QED BY <1>2, <1>3, <1>4, <1>5, <1>6, <2>1 DEF ReadCallOK, BrowseOK
<1>9. ASSUME NEW g \in Files PROVE StreamOK(g)'
  <2>1. CASE g = f
    BY <1>2, <1>3, <2>1 DEF StreamOK
  <2>2. CASE g # f
    <3>1. StreamOK(g) /\ file'[g] = file[g] /\ ~Reading(g)'
      BY <1>3, <1>5, <2>2 DEF RInv, Reading
    <3> QED BY <1>2, <3>1 DEF StreamOK, Lost, Reached
  <2> QED BY <2>1, <2>2
<1>10. StreamStep
  <2>1. OnFile(f)
    BY <1>2, <1>3 DEF OnFile
  <2>2. StreamPos(f) = -2 /\ StreamPos(f)' = -3
    BY <1>1, <1>3 DEF StreamPos
  <2>3. StreamResult' = Streams!NoCall
    BY <1>1 DEF StreamResult, NoResult, Result, Streams!NoCall, Streams!Call
  <2> QED BY <2>1, <2>2, <2>3, ReadOnStep
<1> QED BY <1>7, <1>8, <1>9, <1>10 DEF RInv

(* Fat_FileSeek.                                                           *)
LEMMA SeekCallRefines ==
  ASSUME IInv, RInv, NEW f \in Files, NEW p \in SeekTargets, SeekCall(f, p)
  PROVE  RInv' /\ StreamStep
<1> DEFINE i == file[f]
           e == EntryOf(vol.card, f)
           j == [i EXCEPT !.SeekPos = p, !.failed = FALSE, !.Cluster = i.first,
                          !.ClusterSeq = 0]
<1>1. /\ Ready /\ i.IsOpened /\ i.sound /\ p <= i.size
      /\ file' = [file EXCEPT ![f] = j]
      /\ last' = Result(f, TRUE, <<>>, i.sound)
      /\ UNCHANGED <<cardVars, phase, vol, cache, op>>
  BY DEF SeekCall
<1>2. /\ phase = "play" /\ phase' = "play" /\ vol' = vol /\ op' = Idle /\ op = Idle
      /\ file \in [Files -> FileInfo] /\ i \in FileInfo /\ p \in Nat
      /\ UNCHANGED <<card, noise, cache>> /\ BytesPerCluster' = BytesPerCluster
      /\ vol.card \in Cards /\ vol.spc \in Nat
  BY <1>1, CallAssumption DEF Ready, IInv, CallOK, VolOK, cardVars, BytesPerCluster
<1>3. /\ j.IsOpened = i.IsOpened /\ j.SeekPos = p /\ j.failed = FALSE /\ j.sound = i.sound
      /\ j.first = i.first /\ j.size = i.size /\ j.Cluster = i.first /\ j.ClusterSeq = 0
  BY <1>2 DEF FileInfo
<1>4. i.SeekPos \in Nat /\ i.size \in Nat /\ i.failed \in BOOLEAN
  BY <1>2 DEF FileInfo
<1> HIDE DEF j
<1>5. file'[f] = j /\ \A g \in Files \ {f} : file'[g] = file[g]
  BY <1>1, <1>2
<1>6. CalmOK' /\ MountOK'
  <2>1. \A g \in Files : /\ file'[g].sound = file[g].sound
                         /\ file'[g].failed => file[g].failed
    BY <1>3, <1>5
  <2> QED BY <1>1, <1>2, <2>1 DEF RInv, CalmOK, MountOK, Mounted
<1>7. ReadCallOK' /\ BrowseOK'
  BY <1>2 DEF ReadCallOK, BrowseOK, Idle
<1>8. \A g : ~Reading(g) /\ ~Reading(g)'
  BY <1>2 DEF Reading, Idle
<1>9. vol.sound /\ e.is = "file" /\ i.first = e.first /\ i.size = e.size
  BY <1>1 DEF RInv, StreamOK
<1>10. StreamOK(f)'
  <2>1. Clusters(vol.card, e)[0] = e.first
    <3>1. e.size \in Nat
      BY <1>2, EntryIs
    <3> QED BY <3>1, ClustersIs
  <2>2. Reached(f)' = p
    <3>1. Reached(f)' = file'[f].SeekPos + 0
      BY <1>8 DEF Reached
    <3> QED BY <1>2, <1>3, <1>5, <3>1
  <2>3. 0 * BytesPerCluster <= p
    BY <1>2, CardAssumption DEF BytesPerCluster
  <2> HIDE DEF i, e
  <2>4. j.ClusterSeq * BytesPerCluster <= Reached(f)'
    BY <1>3, <2>2, <2>3
  <2>5. /\ j.first = e.first /\ j.size = e.size /\ j.SeekPos <= j.size
        /\ j.Cluster = Clusters(vol.card, e)[j.ClusterSeq]
    BY <1>1, <1>3, <1>9, <2>1
  <2> QED BY <1>2, <1>5, <1>9, <2>4, <2>5 DEF StreamOK, e
<1>11. ASSUME NEW g \in Files \ {f} PROVE StreamOK(g)'
  <2>1. StreamOK(g)
    BY DEF RInv
  <2>2. file'[g] = file[g] /\ ~Reading(g) /\ ~Reading(g)'
    BY <1>5, <1>8, <1>11
  <2> QED BY <1>2, <2>1, <2>2 DEF StreamOK, Lost, Reached
<1>12. StreamStep
  <2>1. OnFile(f)
    BY <1>2, <1>5 DEF OnFile
  <2>2. StreamPos(f) \notin {-1, -3} /\ StreamPos(f)' = p
    <3>1. file[f].IsOpened /\ file[f].sound /\ file[f].SeekPos \in Nat
      BY <1>1, <1>4
    <3>2. /\ file'[f].IsOpened /\ file'[f].sound /\ file'[f].failed = FALSE
          /\ file'[f].SeekPos = p
      BY <1>1, <1>3, <1>5
    <3>3. StreamPos(f) \in {-2, file[f].SeekPos}
      BY <3>1 DEF StreamPos
    <3>4. StreamPos(f)' = p
      BY <3>2 DEF StreamPos
    <3> HIDE DEF i
    <3> QED BY <3>1, <3>3, <3>4
  <2>3. p <= EntryOf(vol.card, f).size
    BY <1>1, <1>9
  <2>4. StreamResult' = [f |-> f, ok |-> TRUE, data |-> <<>>]
    BY <1>1 DEF StreamResult, Result
  <2> HIDE DEF i, e
  <2> QED BY <1>2, <2>1, <2>2, <2>3, <2>4, SeekStep
<1> QED BY <1>6, <1>7, <1>10, <1>11, <1>12 DEF RInv

-----------------------------------------------------------------------------
(* Fat_FileBrowseNext: what holds while the directory is browsed.          *)
CalmAfter == vol.calm => CardCalm(card') /\ (cache'.index # -1 => cache'.data # Junk)

LEMMA BrowseState ==
  ASSUME WellFormatted, IInv, RInv, op.step = "browse"
  PROVE  LET k == vol.card
             r == Volume[k].root
         IN /\ BrowseOp /\ phase = "play" /\ vol.sound /\ k \in Cards
            /\ file \in [Files -> FileInfo]
            /\ op.f \in Files /\ op.i \in Nat /\ op.i <= Len(r)
            /\ Len(r) \in Nat /\ DOMAIN r = 1 .. Len(r)
            /\ \A j \in DOMAIN r : r[j] \in DirEntry
            /\ NamesOrdered(r)
            /\ EntryOf(k, op.f).is = "file" => EntryOf(k, op.f).size > 0
            /\ \A f : ~Reading(f)
<1> DEFINE k == vol.card
           r == Volume[k].root
<1>1. BrowseOp /\ phase = "play" /\ file \in [Files -> FileInfo]
  BY Kinds DEF IInv, CallOK
<1>2. vol.sound /\ op.i <= Len(r)
  BY DEF RInv, BrowseOK
<1>3. k \in Cards /\ Formatted(k)
  BY <1>1, <1>2, SoundVolume DEF IInv, RInv
<1>4. Len(r) \in Nat /\ DOMAIN r = 1 .. Len(r) /\ \A j \in DOMAIN r : r[j] \in DirEntry
  <2>1. r \in Seq(DirEntry)
    BY <1>3, VolumeAssumption
  <2> HIDE DEF r
  <2> QED BY <2>1
<1>5. op.f \in Files /\ op.i \in Nat
  BY <1>1 DEF BrowseOp
<1>6. NamesOrdered(r) /\ (EntryOf(k, op.f).is = "file" => EntryOf(k, op.f).size > 0)
  BY <1>3, <1>5 DEF Formatted, Chained
<1>7. \A f : ~Reading(f)
  BY DEF Reading
<1> QED BY <1>1, <1>2, <1>3, <1>4, <1>5, <1>6, <1>7

(* The next entry is looked at.                                            *)
LEMMA SkipRefines ==
  ASSUME WellFormatted, IInv, RInv, op.step = "browse",
         UNCHANGED <<noise, phase, vol, file, last>>, CalmAfter,
         op'.step = "browse", BrowseOK'
  PROVE  RInv' /\ StreamStep
<1>1. phase = "play" /\ \A f : ~Reading(f) /\ ~Reading(f)'
  BY BrowseState DEF Reading
<1>2. CalmOK'
  BY <1>1 DEF RInv, CalmOK, CalmAfter, CardCalm
<1>3. MountOK'
  BY <1>1 DEF RInv, MountOK, Mounted
<1>4. ReadCallOK'
  BY DEF ReadCallOK
<1>5. BytesPerCluster' = BytesPerCluster
  BY DEF BytesPerCluster
<1>6. ASSUME NEW f \in Files PROVE StreamOK(f)'
  <2>1. StreamOK(f)
    BY DEF RInv
  <2> QED BY <1>1, <1>5, <2>1 DEF StreamOK, Lost, Reached
<1>7. StreamStep
  <2>1. \A f \in Files : StreamPos(f)' = StreamPos(f)
    BY DEF StreamPos
  <2> QED BY <2>1, SameStep
<1> QED BY <1>2, <1>3, <1>4, <1>6, <1>7 DEF RInv

Begun(j, e) ==
  /\ e.is = "file" /\ j.first = e.first /\ j.size = e.size
  /\ j.SeekPos = 0 /\ j.ClusterSeq = 0 /\ j.Cluster = e.first

(* The call ends: the handle is closed, or open at the beginning.          *)
LEMMA OpenEnds ==
  ASSUME WellFormatted, IInv, RInv, op.step = "browse",
         UNCHANGED <<noise, phase, vol>>, CalmAfter, op' = Idle,
         NEW f, f = op.f, NEW j, file' = [file EXCEPT ![f] = j],
         vol.calm => j.sound, ~j.failed,
         j.IsOpened /\ j.sound => Begun(j, EntryOf(vol.card, f))
  PROVE  RInv' /\ OnFile(f) /\ file'[f] = j
<1> DEFINE e == EntryOf(vol.card, f)
<1>1. /\ phase = "play" /\ vol.sound /\ vol.card \in Cards /\ f \in Files
      /\ file \in [Files -> FileInfo] /\ \A g : ~Reading(g) /\ ~Reading(g)'
  BY BrowseState DEF Reading, Idle
<1>2. file'[f] = j /\ \A g \in Files \ {f} : file'[g] = file[g]
  BY <1>1
<1>3. OnFile(f)
  BY <1>1, <1>2 DEF OnFile
<1>4. CalmOK'
  <2>1. vol.calm => \A g \in Files : file[g].sound /\ ~file[g].failed
    BY <1>1 DEF RInv, CalmOK
  <2>2. vol.calm => \A g \in Files : file'[g].sound /\ ~file'[g].failed
    BY <1>1, <1>2, <2>1
  <2>3. vol.calm => ~noise
    BY <1>1 DEF RInv, CalmOK
  <2> QED BY <1>1, <2>2, <2>3 DEF CalmOK, CalmAfter, CardCalm
<1>5. MountOK'
  BY <1>1 DEF RInv, MountOK, Mounted
<1>6. ReadCallOK' /\ BrowseOK'
  BY DEF ReadCallOK, BrowseOK, Idle
<1>7. BytesPerCluster' = BytesPerCluster /\ BytesPerCluster \in Nat
  <2>1. vol.spc \in Nat
    BY DEF IInv, VolOK
  <2> QED BY <2>1, CardAssumption DEF BytesPerCluster
<1>8. StreamOK(f)'
  <2>1. ASSUME j.IsOpened, j.sound
        PROVE  /\ e.is = "file" /\ j.first = e.first /\ j.size = e.size /\ j.SeekPos <= j.size
               /\ j.ClusterSeq * BytesPerCluster <= Reached(f)'
               /\ j.Cluster = Clusters(vol.card, e)[j.ClusterSeq]
    <3>1. /\ e.is = "file" /\ j.first = e.first /\ j.size = e.size
          /\ j.SeekPos = 0 /\ j.ClusterSeq = 0 /\ j.Cluster = e.first
      BY <2>1 DEF Begun
    <3>2. e.size \in Nat
      BY <1>1, EntryIs
    <3>3. Clusters(vol.card, e)[0] = e.first
      BY <3>2, ClustersIs
    <3>4. Reached(f)' = file'[f].SeekPos + 0
      BY <1>1 DEF Reached
    <3>5. 0 * BytesPerCluster = 0 /\ Reached(f)' = 0
      BY <1>2, <1>7, <3>1, <3>4
    <3> HIDE DEF e
    <3> QED BY <3>1, <3>2, <3>3, <3>5
  <2> QED BY <1>1, <1>2, <1>7, <2>1 DEF StreamOK
<1>9. ASSUME NEW g \in Files, g # f PROVE StreamOK(g)'
  <2>1. StreamOK(g) /\ file'[g] = file[g]
    BY <1>2, <1>9 DEF RInv
  <2> QED BY <1>1, <1>7, <2>1 DEF StreamOK, Lost, Reached
<1> QED BY <1>2, <1>3, <1>4, <1>5, <1>6, <1>8, <1>9 DEF RInv

(* Fat_FileOpen fails: there is no such file, or the volume was not        *)
(* mounted in calm.                                                        *)
LEMMA OpenFailsRefines ==
  ASSUME WellFormatted, IInv, RInv, op.step = "browse",
         UNCHANGED <<noise, phase, vol>>, CalmAfter, OpenFails,
         EntryOf(vol.card, op.f).size = 0 \/ ~vol.calm
  PROVE  RInv' /\ StreamStep
<1>1. PICK f : f = op.f
  OBVIOUS
<1>2. /\ file' = [file EXCEPT ![f] = Closed] /\ op' = Idle
      /\ last' = Result(f, FALSE, <<>>, TRUE)
  BY <1>1 DEF OpenFails
<1>3. Closed.IsOpened = FALSE /\ Closed.sound = TRUE /\ Closed.failed = FALSE
  BY DEF Closed
<1>4. RInv' /\ OnFile(f) /\ file'[f] = Closed
  <2>1. (vol.calm => Closed.sound) /\ ~Closed.failed
    BY <1>3
  <2>2. Closed.IsOpened /\ Closed.sound => Begun(Closed, EntryOf(vol.card, f))
    BY <1>3
  <2> QED BY <1>1, <1>2, <2>1, <2>2, OpenEnds
<1>5. StreamPos(f)' = -1
  BY <1>3, <1>4 DEF StreamPos
<1>6. StreamResult' = [f |-> f, ok |-> FALSE, data |-> <<>>]
  BY <1>2 DEF StreamResult, Result
<1>7. CASE EntryOf(vol.card, op.f).size = 0
  BY <1>1, <1>4, <1>5, <1>6, <1>7, MissingStep
<1>8. CASE ~vol.calm
  BY <1>4, <1>5, <1>6, <1>8, DisturbStep
<1> QED BY <1>4, <1>7, <1>8

(* Fat_FileOpen opens a file: the one that was meant, or any if noise got  *)
(* into the directory.                                                     *)
LEMMA OpenedRefines ==
  ASSUME WellFormatted, IInv, RInv, op.step = "browse",
         UNCHANGED <<noise, phase, vol>>, CalmAfter,
         NEW first, NEW size, NEW sound \in BOOLEAN, Opened(first, size, sound),
         sound => LET e == EntryOf(vol.card, op.f) IN
                  e.is = "file" /\ first = e.first /\ size = e.size,
         ~sound => ~vol.calm
  PROVE  RInv' /\ StreamStep
<1>1. PICK f : f = op.f
  OBVIOUS
<1> DEFINE j == [Closed EXCEPT !.IsOpened = TRUE, !.Cluster = first, !.first = first,
                               !.size = size, !.sound = sound]
<1>2. file' = [file EXCEPT ![f] = j] /\ op' = Idle /\ last' = Result(f, TRUE, <<>>, sound)
  BY <1>1 DEF Opened
<1>3. /\ j.IsOpened = TRUE /\ j.SeekPos = 0 /\ j.Cluster = first /\ j.ClusterSeq = 0
      /\ j.first = first /\ j.size = size /\ j.failed = FALSE /\ j.sound = sound
  BY DEF Closed
<1> HIDE DEF j
<1>4. RInv' /\ OnFile(f) /\ file'[f] = j
  <2>1. (vol.calm => j.sound) /\ ~j.failed
    BY <1>3
  <2>2. j.IsOpened /\ j.sound => Begun(j, EntryOf(vol.card, f))
    BY <1>1, <1>3 DEF Begun
  <2> QED BY <1>1, <1>2, <2>1, <2>2, OpenEnds
<1>5. CASE sound
  <2>1. StreamPos(f)' = 0
    BY <1>3, <1>4, <1>5 DEF StreamPos
  <2>2. StreamResult' = [f |-> f, ok |-> TRUE, data |-> <<>>]
    BY <1>2, <1>5 DEF StreamResult, Result
  <2>3. EntryOf(vol.card, f).size > 0
    BY <1>1, <1>5, BrowseState
  <2> QED BY <1>4, <2>1, <2>2, <2>3, OpenStep
<1>6. CASE ~sound
  <2>1. StreamPos(f)' = -3
    BY <1>3, <1>4, <1>6 DEF StreamPos
  <2>2. StreamResult' = [f |-> f, ok |-> FALSE, data |-> <<>>]
    BY <1>2, <1>6 DEF StreamResult, Result
  <2> QED BY <1>4, <1>6, <2>1, <2>2, DisturbStep
<1> QED BY <1>5, <1>6

(* The entry that comes next in the directory; behind the last there is    *)
(* the end.                                                                *)
NextEntry ==
  LET r == Volume[vol.card].root IN
  IF op.i + 1 \in DOMAIN r THEN r[op.i + 1] ELSE NotThere

(* Fat_FileBrowseNext on the next entry.                                   *)
LEMMA EntryRefines ==
  ASSUME WellFormatted, FirstClustersFit, IInv, RInv, op.step = "browse",
         UNCHANGED <<noise, phase, vol>>, CalmAfter, Entry(NextEntry)
  PROVE  RInv' /\ StreamStep
<1> DEFINE k == vol.card
           r == Volume[k].root
           i == op.i
           m == op.i + 1
           e == NextEntry
<1>1. PICK f : f = op.f
  OBVIOUS
<1>2. /\ BrowseOp /\ phase = "play" /\ vol.sound /\ k \in Cards
      /\ f \in Files /\ i \in Nat /\ i <= Len(r) /\ Len(r) \in Nat /\ DOMAIN r = 1 .. Len(r)
      /\ \A j \in DOMAIN r : r[j] \in DirEntry
      /\ NamesOrdered(r)
      /\ EntryOf(k, f).is = "file" => EntryOf(k, f).size > 0
  BY <1>1, BrowseState
<1>3. /\ op.long \in BOOLEAN
      /\ \A j \in 1 .. i : r[j].is = "file" => r[j].of # f
      /\ op.long <=> i > 0 /\ r[i].is = "long"
      /\ op.long => op.order = r[i].ord - 1 /\ op.name = r[i].name
      /\ ~op.long => op.order = 0
  BY <1>1 DEF RInv, BrowseOK
<1>4. IF m \in DOMAIN r THEN e = r[m] ELSE e = NotThere
  BY DEF NextEntry
<1>5. vol' = vol
  OBVIOUS
<1> HIDE DEF r, e
<1>6. CASE m \notin DOMAIN r
  <2>1. e.is = "end"
    BY <1>4, <1>6 DEF NotThere
  <2>2. OpenFails
    BY <2>1 DEF Entry, e
  <2>3. \A j \in DOMAIN r : ~(r[j].is = "file" /\ r[j].of = f)
    <3>1. DOMAIN r = 1 .. i
      BY <1>2, <1>6
    <3> QED BY <1>3, <3>1
  <2>4. EntryOf(k, f) = NotThere
    <3> DEFINE named == {j \in DOMAIN r : r[j].is = "file" /\ r[j].of = f}
    <3>1. named = {}
      BY <2>3
    <3>2. named = {} => EntryOf(k, f) = NotThere
      BY <1>2, EntryIs DEF r
    <3> QED BY <3>1, <3>2
  <2> QED BY <1>1, <2>2, <2>4, OpenFailsRefines DEF NotThere
<1>7. CASE m \in DOMAIN r
  <2>1. e = r[m] /\ e \in DirEntry /\ m \in 1 .. Len(r) /\ m <= Len(r) /\ m \in Nat
    BY <1>2, <1>4, <1>7
  <2>2. e.is \in {"deleted", "long", "file"}
    BY <2>1 DEF DirEntry
  <2>3. ASSUME op.long
        PROVE  IF r[i].ord = 1
                 THEN e.is = "file" /\ e.archive /\ e.of = r[i].name
                 ELSE e.is = "long" /\ e.ord = r[i].ord - 1
    <3>1. i \in DOMAIN r /\ r[i].is = "long"
      BY <1>2, <1>3, <2>3
    <3> QED BY <1>2, <2>1, <3>1 DEF NamesOrdered
  <2>4. ASSUME op.long PROVE r[i].ord \in Nat \ {0}
    <3>1. r[i] \in DirEntry /\ r[i].is = "long"
      BY <1>2, <1>3, <2>4
    <3> QED BY <3>1 DEF DirEntry
  <2>5. PICK i0, order, long, name :
          /\ op = [step |-> "browse", f |-> f, i |-> i0, order |-> order,
                   long |-> long, name |-> name]
          /\ i0 = op.i /\ order = op.order /\ long = op.long /\ name = op.name
    BY <1>1, <1>2 DEF BrowseOp
  <2>6. ASSUME NEW order2, NEW long2 \in BOOLEAN, NEW name2,
               op' = [step |-> "browse", f |-> f, i |-> i0 + 1, order |-> order2,
                      long |-> long2, name |-> name2],
               UNCHANGED <<file, last>>,
               e.is = "file" => e.of # f,
               long2 <=> e.is = "long",
               long2 => order2 = e.ord - 1 /\ name2 = e.name,
               ~long2 => order2 = 0
        PROVE  RInv' /\ StreamStep
    <3>1. /\ op'.step = "browse" /\ op'.f = f /\ op'.i = m /\ op'.order = order2
          /\ op'.long = long2 /\ op'.name = name2
      BY <2>5, <2>6
    <3>2. \A j \in 1 .. m : r[j].is = "file" => r[j].of # f
      <4>1. ASSUME NEW j \in 1 .. m PROVE j \in 1 .. i \/ j = m
        BY <1>2
      <4> QED BY <1>3, <2>1, <2>6, <4>1
    <3>3. m > 0
      BY <1>2
    <3> HIDE DEF m
    <3>4. BrowseOK'
      <4>1. \A j \in 1 .. op'.i : Volume[vol'.card].root[j].is = "file" =>
              Volume[vol'.card].root[j].of # op'.f
        BY <1>5, <3>1, <3>2 DEF r
      <4>2. /\ vol'.sound /\ op'.i <= Len(Volume[vol'.card].root) /\ op'.long \in BOOLEAN
            /\ op'.long <=> op'.i > 0 /\ Volume[vol'.card].root[op'.i].is = "long"
            /\ op'.long => /\ op'.order = Volume[vol'.card].root[op'.i].ord - 1
                           /\ op'.name = Volume[vol'.card].root[op'.i].name
            /\ ~op'.long => op'.order = 0
        BY <1>2, <1>5, <2>1, <2>6, <3>1, <3>3 DEF r
      <4> QED BY <4>1, <4>2 DEF BrowseOK
    <3> QED BY <2>6, <3>1, <3>4, SkipRefines
  <2>7. CASE e.is = "deleted"
    <3>1. op' = [op EXCEPT !.i = @ + 1] /\ UNCHANGED <<file, last>>
      BY <2>7 DEF Entry, e
    <3>2. op' = [step |-> "browse", f |-> f, i |-> i0 + 1, order |-> order,
                 long |-> long, name |-> name]
      BY <2>5, <3>1
    <3>3. ~op.long
      BY <2>3, <2>7
    <3>4. long = FALSE /\ order = 0
      BY <1>3, <2>5, <3>3
    <3> QED BY <2>6, <2>7, <3>1, <3>2, <3>4
  <2>8. CASE e.is = "long"
    <3>1. op.long => op.order # 0 /\ e.ord = op.order
      BY <1>3, <2>3, <2>4, <2>8
    <3>2. ~(IF op.order = 0 THEN op.long ELSE e.ord # op.order)
      BY <1>3, <3>1
    <3>3. /\ op' = [op EXCEPT !.i = @ + 1, !.long = TRUE, !.name = e.name,
                              !.order = (IF @ = 0 THEN e.ord ELSE @) - 1]
          /\ UNCHANGED <<file, last>>
      BY <2>8, <3>2 DEF Entry, e
    <3> DEFINE less == (IF op.order = 0 THEN e.ord ELSE op.order) - 1
    <3>4. op' = [op EXCEPT !.i = op.i + 1, !.long = TRUE, !.name = e.name, !.order = less]
      BY <3>3
    <3>5. less = e.ord - 1
      BY <1>3, <3>1
    <3> HIDE DEF less
    <3>6. op' = [step |-> "browse", f |-> f, i |-> i0 + 1, order |-> less,
                 long |-> TRUE, name |-> e.name]
      BY <2>5, <3>4
    <3> QED BY <2>6, <2>8, <3>3, <3>5, <3>6
  <2>9. CASE e.is = "file"
    <3>1. ASSUME op.long PROVE e.archive /\ e.of = op.name
      BY <1>3, <2>3, <2>9, <3>1
    <3>2. ASSUME ~op.long PROVE e.of = e.name
      <4>1. m = 1 \/ r[m - 1].is # "long"
        <5>1. m - 1 = i /\ (i > 0 \/ m = 1)
          BY <1>2
        <5> HIDE DEF m
        <5> QED BY <1>3, <3>2, <5>1
      <4> HIDE DEF m
      <4> QED BY <1>2, <1>7, <2>1, <2>9, <4>1 DEF NamesOrdered
    <3>3. (IF op.long THEN op.name ELSE e.name) = e.of /\ ~(op.long /\ ~e.archive)
      BY <3>1, <3>2
    <3>4. CASE e.of = f
      <4>1. Opened(FirstLogicalCluster(e), e.size, TRUE)
        BY <1>1, <2>9, <3>3, <3>4 DEF Entry, e
      <4>2. EntryOf(k, f) = e
        <5> DEFINE named == {j \in DOMAIN r : r[j].is = "file" /\ r[j].of = f}
        <5> HIDE DEF m
        <5>1. m \in named
          BY <1>7, <2>1, <2>9, <3>4
        <5>2. PICK j \in named : EntryOf(k, f) = r[j]
          <6>1. named # {} => \E j \in named : EntryOf(k, f) = r[j]
            BY <1>2, EntryIs DEF r
          <6> QED BY <5>1, <6>1
        <5>3. j = m
          BY <1>2, <5>1, <5>2 DEF NamesOrdered
        <5> QED BY <2>1, <5>2, <5>3
      <4>3. FirstLogicalCluster(e) = e.first
        <5>1. e.first \in Nat
          BY <2>1, <2>9 DEF DirEntry
        <5>2. e.first < FirstClusters
          BY <1>2, <2>9, <4>2 DEF FirstClustersFit
        <5>3. FirstClusters \in Nat \ {0}
          BY WidthAssumption
        <5>4. e.first \in 0 .. FirstClusters - 1
          BY <5>1, <5>2, <5>3
        <5>5. e.first % FirstClusters = e.first
          BY <5>3, <5>4, ModSmall
        <5> QED BY <5>5 DEF FirstLogicalCluster
      <4> QED BY <1>1, <2>9, <4>1, <4>2, <4>3, OpenedRefines
    <3>5. CASE e.of # f
      <4>1. /\ op' = [op EXCEPT !.i = @ + 1, !.order = 0, !.long = FALSE]
            /\ UNCHANGED <<file, last>>
        BY <1>1, <2>9, <3>3, <3>5 DEF Entry, e
      <4>2. op' = [step |-> "browse", f |-> f, i |-> i0 + 1, order |-> 0,
                   long |-> FALSE, name |-> name]
        BY <2>5, <4>1
      <4> QED BY <2>6, <2>9, <3>5, <4>1, <4>2
    <3> QED BY <3>4, <3>5
  <2> QED BY <2>2, <2>7, <2>8, <2>9
<1> QED BY <1>6, <1>7

(* Fat_FileOpen: an entry of the directory is read.                        *)
LEMMA BrowseRefines ==
  ASSUME WellFormatted, FirstClustersFit, IInv, RInv, Browse
  PROVE  RInv' /\ StreamStep
<1>1. op.step = "browse"
  BY DEF Browse
<1>2. /\ phase = "play" /\ vol.sound /\ op.i \in Nat /\ op.f \in Files
      /\ op.i <= Len(Volume[vol.card].root)
  BY <1>1, BrowseState
<1> DEFINE root == Volume[vol.card].root
           n == vol.RootDirectoryEntrySecter + op.i \div PerSecter
<1>3. PICK r \in ReadSecter(n) :
        /\ AfterRead(r)
        /\ LET b == Block(r.cache.data) IN
           IF ~r.ok THEN OpenFails
           ELSE IF b.is = "root"
             THEN LET i == b.first + (op.i % PerSecter) + 1
                  IN Entry(IF i \in DOMAIN root THEN root[i] ELSE NotThere)
             ELSE OpenFails \/ \E c \in Garbage : Opened(c, BlockSize, FALSE)
  BY DEF Browse, PerSecter
<1> DEFINE b == Block(r.cache.data)
           i == b.first + (op.i % PerSecter) + 1
<1>4. /\ r.ok /\ b.is = "root" => i = op.i + 1
      /\ vol.calm => r.ok /\ b.is = "root"
      /\ CalmRead(r)
  BY <1>2, RootSound DEF RInv
<1>5. /\ card' = r.card /\ cache' = r.cache /\ UNCHANGED <<noise, phase, vol>>
  BY <1>3 DEF AfterRead, Unmoved
<1>6. CalmAfter
  BY <1>4, <1>5 DEF CalmRead, CalmAfter
<1>7. \/ ~r.ok /\ OpenFails
      \/ r.ok /\ b.is = "root" /\ Entry(IF i \in DOMAIN root THEN root[i] ELSE NotThere)
      \/ b.is # "root" /\ (OpenFails \/ \E c \in Garbage : Opened(c, BlockSize, FALSE))
  BY <1>3
<1> HIDE DEF n, b, i
<1>8. CASE (~r.ok \/ b.is # "root") /\ OpenFails
  BY <1>1, <1>4, <1>5, <1>6, <1>8, OpenFailsRefines
<1>9. CASE b.is # "root" /\ \E c \in Garbage : Opened(c, BlockSize, FALSE)
  <2>1. PICK c \in Garbage : Opened(c, BlockSize, FALSE)
    BY <1>9
  <2> QED BY <1>1, <1>4, <1>5, <1>6, <1>9, <2>1, OpenedRefines
<1>10. CASE /\ r.ok /\ b.is = "root"
            /\ Entry(IF i \in DOMAIN root THEN root[i] ELSE NotThere)
  <2>1. i = op.i + 1
    BY <1>4, <1>10
  <2>2. (IF i \in DOMAIN root THEN root[i] ELSE NotThere) = NextEntry
    BY <2>1 DEF NextEntry
  <2>3. Entry(NextEntry)
    BY <1>10, <2>2
  <2> QED BY <1>1, <1>5, <1>6, <2>3, EntryRefines
<1> QED BY <1>7, <1>8, <1>9, <1>10

(* Every step of the library is a step of ByteStream, or none it can see.  *)
LEMMA StepRefines ==
  WellFormatted /\ FirstClustersFit /\ IInv /\ RInv /\ [Next]_vars => RInv' /\ StreamStep
<1> SUFFICES ASSUME WellFormatted, FirstClustersFit, IInv, RInv, [Next]_vars
             PROVE  RInv' /\ StreamStep
  OBVIOUS
<1>1. CASE Mounting
  BY <1>1, InitStepRefines, InsertRefines, MbrRefines, BrRefines DEF Mounting
<1>2. CASE Calling
  BY <1>2, BrowseRefines, WalkRefines, SecterRefines, EndOfClusterRefines, ReadEndRefines
     DEF Calling
<1>3. CASE Client
  <2>1. CASE Restart
    BY <2>1, RestartRefines
  <2>2. CASE ~Restart
    <3>1. PICK f \in Files : \/ OpenCall(f)
                             \/ \E n \in ReadSizes : ReadCall(f, n)
                             \/ \E p \in SeekTargets : SeekCall(f, p)
      BY <1>3, <2>2 DEF Client
    <3> QED BY <3>1, OpenCallRefines, ReadCallRefines, ReadOnRefines, SeekCallRefines
  <2> QED BY <2>1, <2>2
<1>4. CASE Environment
  BY <1>4, EnvironmentRefines
<1>5. CASE UNCHANGED vars
  <2>1. UNCHANGED <<card, noise, init, moved, phase, vol, cache, file, op, last>>
    BY <1>5 DEF vars, fatVars, cardVars, sdVars
  <2>2. CallsOK'
    BY <2>1, CallsKept DEF RInv, CallsOK
  <2>3. CalmOK' /\ MountOK'
    BY <2>1 DEF RInv, CalmOK, MountOK, Mounted
  <2>4. StreamStep
    <3>1. \A f \in Files : StreamPos(f)' = StreamPos(f)
      BY <2>1 DEF StreamPos
    <3> QED BY <2>1, <3>1, SameStep
  <2> QED BY <2>2, <2>3, <2>4 DEF RInv, CallsOK
<1> QED
  BY <1>1, <1>2, <1>3, <1>4, <1>5 DEF Next

(* At first no card is mounted and no file is open.                        *)
LEMMA InitRefines == Init => RInv /\ Streams!Init
<1> SUFFICES ASSUME Init PROVE RInv /\ Streams!Init
  OBVIOUS
<1>1. /\ phase = "insert" /\ init # "done" /\ op = Idle /\ file = [f \in Files |-> Closed]
      /\ last = NoResult
  BY DEF Init, SdInit
<1>2. CalmOK /\ MountOK
  BY <1>1 DEF CalmOK, MountOK
<1>3. \A f \in Files : file[f].IsOpened = FALSE
  BY <1>1 DEF Closed
<1>4. RInv
  BY <1>1, <1>2, <1>3 DEF RInv, StreamOK, ReadCallOK, BrowseOK, Idle
<1>5. StreamMount = [medium |-> "none", calm |-> FALSE]
  BY <1>1 DEF StreamMount
<1>6. StreamPositions = [f \in Files |-> Streams!Closed]
  <2>1. \A f \in Files : StreamPos(f) = Streams!Closed
    BY <1>3 DEF StreamPos, Streams!Closed
  <2> QED BY <2>1 DEF StreamPositions
<1>7. StreamResult = Streams!NoCall
  BY <1>1 DEF StreamResult, NoResult, Result, Streams!NoCall, Streams!Call
<1> QED BY <1>4, <1>5, <1>6, <1>7 DEF Streams!Init

(* ImplementsByteStream (Fat_FileOpen, Fat_FileRead, Fat_FileSeek): of a   *)
(* well formatted card, whatever the sizes of its regions, its files and   *)
(* their chains, as long as each file begins in a cluster the lower half   *)
(* of its number tells, every read returns the bytes of the file that come *)
(* next in it, through any interleaving of the calls on its files over the *)
(* one buffer, and no call fails on a volume that was mounted in calm.     *)
THEOREM StreamsCorrect ==
  ASSUME WellFormatted, FirstClustersFit
  PROVE  Spec => ImplementsByteStream
<1>1. Init => RInv /\ Streams!Init
  BY InitRefines
<1>2. WellFormatted /\ FirstClustersFit /\ IInv /\ RInv /\ [Next]_vars =>
        RInv' /\ [Streams!Next]_(Streams!vars)
  BY StepRefines DEF StreamStep
<1>3. IInv /\ RInv /\ [Next]_vars => RInv' /\ [Streams!Next]_(Streams!vars)
  BY <1>2
<1> QED
  BY <1>1, <1>3, Invariance, PTL DEF Spec, ImplementsByteStream, Streams!Spec
=============================================================================

--------------------------- MODULE Player_proofs ---------------------------
(***************************************************************************)
(* The main loop and the remote's interrupt handler, for any number of     *)
(* files, any length of songs and of the codec's FIFOs: no press of "next" *)
(* is dropped, and a player that believes it plays has its codec running.  *)
(* Then the volume under both handlers, for every range of levels and for  *)
(* whatever level the address byte stands for.                             *)
(***************************************************************************)
EXTENDS Player, VolumeBench, TLAPS

Places ==
  {"boot", "insert", "mount", "exit",
   "start", "startOff", "startRate", "startOn", "startVocal",
   "restart", "restartOff", "restartRate", "restartOn", "restartVocal",
   "execute", "copy", "key", "handle", "last", "next", "advance", "clearLast",
   "clearNext"}

Turns == [eof : BOOLEAN, last : BOOLEAN, next : BOOLEAN, mode : BOOLEAN,
          done : BOOLEAN]

(* Where main is, the locals of a turn, and the switches shared with the   *)
(* handler.                                                                *)
TypeOK ==
  /\ pc \in Places
  /\ loop \in Turns
  /\ ready \in BOOLEAN /\ bPlayMode \in BOOLEAN
  /\ bNextSwitch \in BOOLEAN /\ bPlaySwitch \in BOOLEAN
  /\ active \in BOOLEAN /\ owed \in BOOLEAN /\ cut \in BOOLEAN

(* A press that has to be honoured stays in the switch until the loop has  *)
(* looked at it, is in the loop's local when the loop acts on it, and is   *)
(* acted on before the switch is cleared, unless the song is given up.     *)
PressKept ==
  /\ owed => bNextSwitch
  /\ owed /\ pc = "advance" => loop.next
  /\ owed /\ pc \in {"clearLast", "clearNext"} => ~ready

(* main calls handle_key, or sets the volume, only after its transfers of  *)
(* the start-up.                                                           *)
BootKept == boot \notin {"line", "up"} => key.step = "rest"
CallKept == "step" \in DOMAIN key /\ BootKept

IInv == TypeOK /\ PressKept /\ CallKept /\ PlaySwitchMeansActive
-----------------------------------------------------------------------------
(* The order of main's start-up: its transfers, then the default volume.   *)
LEMMA BootOrder ==
  /\ BootTransfers = {"reset", "off", "lineInL", "lineInR", "left", "right", "path",
                      "digital", "power", "format", "rate", "on", "source"}
  /\ DOMAIN BootNext =
       BootTransfers \cup {"memset", "default", "loadL", "loadR", "line"}
  /\ \A s \in BootTransfers \ {"on", "source"} :
        BootNext[s] \in BootTransfers \ {"source"}
  /\ BootNext["on"] = "source" /\ BootNext["source"] = "memset"
  /\ BootNext["memset"] = "default" /\ BootNext["default"] = "loadL"
  /\ BootNext["loadL"] = "loadR" /\ BootNext["loadR"] = "line"
<1>1. DOMAIN BootNext =
        {"reset", "off", "lineInL", "lineInR", "left", "right", "path", "digital",
         "power", "format", "rate", "on", "source", "memset", "default", "loadL",
         "loadR", "line"}
  BY DEF BootNext
<1>2. BootTransfers = {"reset", "off", "lineInL", "lineInR", "left", "right", "path",
                       "digital", "power", "format", "rate", "on", "source"}
  BY <1>1 DEF BootTransfers
<1>3. \A s \in BootTransfers \ {"on", "source"} :
        BootNext[s] \in BootTransfers \ {"source"}
  BY <1>2 DEF BootNext
<1>4. /\ BootNext["on"] = "source" /\ BootNext["source"] = "memset"
      /\ BootNext["memset"] = "default" /\ BootNext["default"] = "loadL"
      /\ BootNext["loadL"] = "loadR" /\ BootNext["loadR"] = "line"
  BY DEF BootNext
<1> QED
  BY <1>1, <1>2, <1>3, <1>4

(* The handler's effect on the switches of main.c.                         *)
LEMMA Switches ==
  ASSUME TypeOK, NEW button \in RemoteButtons,
         IrDASwitches(button)
  PROVE  /\ bNextSwitch' \in BOOLEAN /\ bPlaySwitch' \in BOOLEAN /\ owed' \in BOOLEAN
         /\ bNextSwitch => bNextSwitch'
         /\ owed' => owed \/ (bNextSwitch' /\ SwitchIsSeen)
         /\ button # "play" => bPlaySwitch' = bPlaySwitch
         /\ UNCHANGED <<loop, ready, bPlayMode>>
  BY DEF TypeOK, IrDASwitches, SwitchIsSeen

(* The locals of a turn stay Boolean, whichever are assigned.              *)
LEMMA TurnTypes ==
  /\ NewTurn \in Turns
  /\ \A t \in Turns, b, c \in BOOLEAN :
        /\ [t EXCEPT !.eof = b] \in Turns /\ [t EXCEPT !.next = b] \in Turns
        /\ [t EXCEPT !.next = b, !.mode = c] \in Turns
        /\ [t EXCEPT !.last = b, !.next = c] \in Turns
        /\ [t EXCEPT !.done = b] \in Turns
  BY DEF NewTurn, Turns

(* Every action keeps the types.                                           *)
LEMMA TypeStep == TypeOK /\ [Next]_vars => TypeOK'
<1> SUFFICES ASSUME TypeOK, [Next]_vars PROVE TypeOK'
  OBVIOUS
<1> USE DEF TypeOK, Places, songVars, modeVars, remoteVars, codecVars
<1>1. CASE UNCHANGED vars
  BY <1>1 DEF vars
<1>2. CASE Insert \/ Mount \/ MountFails
  BY <1>2 DEF Insert, Mount, MountFails
<1>20. CASE Boot \/ BootReturns
  <2>1. BootSwitches \in BOOLEAN
    BY DEF BootSwitches
  <2>2. cut' \in BOOLEAN /\ bPlayMode' \in BOOLEAN /\ active' \in BOOLEAN
    BY <1>20, <2>1, Zenon DEF Boot, BootReturns
  <2> QED BY <1>20, <2>2 DEF Boot, BootReturns
<1>3. CASE Start \/ Restart
  BY <1>3 DEF Start, Restart, StartSong
<1>4. CASE InterfaceOff \/ SampleRate \/ InterfaceOn
  <2>1. /\ pc \in {"startOff", "startRate", "startOn",
                   "restartOff", "restartRate", "restartOn"}
        /\ pc' = AfterSwitch
        /\ active' \in {active, TRUE, FALSE} /\ cut' \in {cut, FALSE}
        /\ UNCHANGED <<loop, ready, bPlayMode, bNextSwitch, bPlaySwitch, owed>>
    BY <1>4 DEF InterfaceOff, SampleRate, InterfaceOn, SetsRate, SwitchesOn
  <2>2. pc' \in Places
    BY <2>1 DEF AfterSwitch
  <2> QED BY <2>1, <2>2
<1>5. CASE StartVocal
  <2>1. \E success : ready' = (ready /\ success)
    BY <1>5 DEF StartVocal
  <2>2. ready' \in BOOLEAN
    BY <2>1
  <2>3. pc' \in Places
    BY <1>5 DEF StartVocal
  <2>4. loop' \in {loop, NewTurn}
    BY <1>5 DEF StartVocal
  <2> QED BY <1>5, <2>2, <2>3, <2>4, TurnTypes DEF StartVocal
<1>6. CASE ExecuteEnd \/ ExecuteRead \/ ExecuteFails \/ Copy
  <2>1. CASE ExecuteEnd
    BY <2>1, TurnTypes DEF ExecuteEnd
  <2>2. CASE ExecuteRead \/ ExecuteFails
    BY <2>2 DEF ExecuteRead, ExecuteFails
  <2>3. CASE Copy
    BY <2>3 DEF Copy
  <2> QED BY <1>6, <2>1, <2>2, <2>3
<1>7. ASSUME NEW button \in Keys, NEW next \in BOOLEAN, NEW mode \in BOOLEAN,
             KeyCall(button, next, mode)
      PROVE  TypeOK'
  <2>1. loop' \in Turns
    BY <1>7, TurnTypes DEF KeyCall
  <2> QED BY <1>7, <2>1 DEF KeyCall
<1>8. CASE HandleKey
  BY <1>8 DEF HandleKey
<1>9. CASE HandleKeyReturns
  BY <1>9, TurnTypes DEF HandleKeyReturns
<1>10. CASE ReadLastSwitch \/ ReadNextSwitch
  BY <1>10, TurnTypes DEF ReadLastSwitch, ReadNextSwitch
<1>11. CASE Advance
  <2>1. loop' \in Turns /\ owed' \in BOOLEAN
    <3>1. PICK turns \in BOOLEAN : /\ loop' = [loop EXCEPT !.done = turns]
                                  /\ owed' = (owed /\ ~(turns /\ loop.next))
      BY <1>11, Zenon DEF Advance
    <3> QED BY <3>1, TurnTypes
  <2> QED BY <1>11, <2>1 DEF Advance
<1>12. CASE ClearLastSwitch \/ ClearNextSwitch
  BY <1>12, TurnTypes DEF ClearLastSwitch, ClearNextSwitch
<1>13. ASSUME NEW button \in RemoteButtons,
              HandleIrDA(button)
       PROVE  TypeOK'
  <2>1. cut' \in {cut, FALSE} /\ active' \in {active, bPlaySwitch'} /\ pc' = pc
        /\ IrDASwitches(button)
    BY <1>13 DEF HandleIrDA
  <2> QED BY <2>1, Switches
<1>14. ASSUME NEW button \in RemoteButtons,
              IrDACutsVolume(button)
       PROVE  TypeOK'
  <2>1. cut' = (cut \/ button = "play") /\ active' \in {active, bPlaySwitch'}
        /\ pc' = pc /\ IrDASwitches(button)
    BY <1>14 DEF IrDACutsVolume, MaySend
  <2>2. cut' \in BOOLEAN
    BY <2>1
  <2> QED BY <2>1, <2>2, Switches
<1>15. ASSUME NEW button \in RemoteButtons,
              IrDACutsSongStart(button)
       PROVE  TypeOK'
  <2>1. /\ cut' \in {cut \/ button = "play", TRUE}
        /\ active' \in {active, FALSE, SwitchesOn, bPlaySwitch'}
        /\ pc' = AfterSwitch /\ IrDASwitches(button)
        /\ pc \in {"startOff", "startRate", "startOn",
                   "restartOff", "restartRate", "restartOn"}
    BY <1>15 DEF IrDACutsSongStart, MaySend
  <2>2. AfterSwitch \in Places /\ SwitchesOn \in BOOLEAN
    BY <2>1 DEF AfterSwitch, SwitchesOn
  <2>3. cut' \in BOOLEAN
    BY <2>1, Zenon
  <2> QED BY <2>1, <2>2, <2>3, Switches
<1>17. ASSUME NEW button \in RemoteButtons,
              IrDACutsBoot(button)
       PROVE  TypeOK'
  <2>1. /\ cut' = (cut \/ button = "play" \/ boot # "source")
        /\ active' \in {active, BootSwitches, active /\ boot # "on", bPlaySwitch'}
        /\ pc' \in {"exit", "boot"} /\ IrDASwitches(button)
    BY <1>17 DEF IrDACutsBoot, MaySend
  <2>2. BootSwitches \in BOOLEAN /\ cut' \in BOOLEAN
    BY <2>1 DEF BootSwitches
  <2> QED BY <2>1, <2>2, Switches
<1>16. CASE Codec \/ CardMoves
  BY <1>16 DEF Codec, CardMoves
<1> QED
  BY <1>1, <1>2, <1>20, <1>3, <1>4, <1>5, <1>6, <1>7, <1>8, <1>9, <1>10, <1>11,
     <1>12, <1>13, <1>14, <1>15, <1>16, <1>17 DEF Next, Main, Remote

(* Every action keeps a press of "next" where the loop will find it.       *)
LEMMA PressStep == TypeOK /\ PressKept /\ [Next]_vars => PressKept'
<1> SUFFICES ASSUME TypeOK, PressKept, [Next]_vars PROVE PressKept'
  OBVIOUS
<1> USE DEF PressKept, songVars, modeVars, remoteVars, codecVars
<1>1. CASE UNCHANGED vars
  BY <1>1 DEF vars
<1>2. CASE Insert \/ Mount \/ MountFails
  BY <1>2 DEF Insert, Mount, MountFails
<1>20. CASE Boot \/ BootReturns
  BY <1>20 DEF Boot, BootReturns
<1>3. CASE Start \/ Restart
  <2>1. pc' \in {"startOff", "startVocal", "restartOff", "restartVocal"}
    BY <1>3 DEF Start, Restart, StartSong
  <2>2. UNCHANGED <<loop, bNextSwitch, owed>>
    BY <1>3 DEF Start, Restart, StartSong
  <2> QED BY <2>1, <2>2
<1>4. CASE InterfaceOff \/ SampleRate \/ InterfaceOn
  BY <1>4 DEF InterfaceOff, SampleRate, InterfaceOn, SetsRate, SwitchesOn, AfterSwitch
<1>5. CASE StartVocal
  BY <1>5 DEF StartVocal
<1>6. CASE ExecuteEnd \/ ExecuteRead \/ ExecuteFails \/ Copy
  BY <1>6 DEF ExecuteEnd, ExecuteRead, ExecuteFails, Copy
<1>7. ASSUME NEW button \in Keys, NEW next \in BOOLEAN, NEW mode \in BOOLEAN,
             KeyCall(button, next, mode)
      PROVE  PressKept'
  BY <1>7 DEF KeyCall
<1>8. CASE HandleKey
  BY <1>8 DEF HandleKey
<1>9. CASE HandleKeyReturns
  BY <1>9 DEF HandleKeyReturns
<1>10. CASE ReadLastSwitch
  BY <1>10 DEF ReadLastSwitch
<1>11. CASE ReadNextSwitch
  \* The switch is copied: it is up for every press that is owed.
  BY <1>11 DEF ReadNextSwitch, TypeOK, Turns
<1>12. CASE Advance
  \* What the loop acts on is no longer owed; it acts unless the song failed.
  <2>1. /\ owed' = (owed /\ ~(ready /\ (loop.eof \/ loop.last \/ loop.next) /\ loop.next))
        /\ pc = "advance" /\ pc' = "clearLast" /\ UNCHANGED <<ready, bNextSwitch>>
    BY <1>12 DEF Advance
  <2> QED BY <2>1, Zenon
<1>13. CASE ClearLastSwitch \/ ClearNextSwitch
  BY <1>13 DEF ClearLastSwitch, ClearNextSwitch
<1>14. ASSUME NEW button \in RemoteButtons,
              \/ HandleIrDA(button)
              \/ IrDACutsVolume(button)
              \/ IrDACutsBoot(button)
              \/ IrDACutsSongStart(button)
       PROVE  PressKept'
  <2>1. IrDASwitches(button)
    BY <1>14 DEF HandleIrDA, IrDACutsVolume, IrDACutsBoot, IrDACutsSongStart
  <2>2. pc' = pc \/ pc' \in {"boot", "exit", "startRate", "startOn", "startVocal",
                             "restartRate", "restartOn", "restartVocal"}
    BY <1>14 DEF HandleIrDA, IrDACutsVolume, IrDACutsBoot, IrDACutsSongStart,
                 AfterSwitch
  <2> QED BY <2>1, <2>2, Switches DEF SwitchIsSeen, TypeOK
<1>15. CASE Codec \/ CardMoves
  BY <1>15 DEF Codec, CardMoves
<1> QED
  BY <1>1, <1>2, <1>20, <1>3, <1>4, <1>5, <1>6, <1>7, <1>8, <1>9, <1>10, <1>11, <1>12,
     <1>13, <1>14, <1>15 DEF Next, Main, Remote

(* main sets the volume only once its start-up's transfers are over.       *)
LEMMA BootStep == CallKept /\ [Next]_vars => CallKept'
<1> SUFFICES ASSUME CallKept, [Next]_vars PROVE CallKept'
  OBVIOUS
<1> USE DEF CallKept, BootKept
<1>8. "step" \in DOMAIN Rest /\ Rest.step = "rest"
  BY DEF Rest
<1>1. CASE UNCHANGED vars
  BY <1>1 DEF vars, volumeVars, keyVars
<1>2. CASE Boot \/ BootReturns
  <2>1. CASE BootReturns
    BY <1>8, <2>1 DEF BootReturns, KeyReturn
  <2>2. CASE KeyLeft \/ KeyRight
    BY <2>2 DEF KeyLeft, KeyRight
  <2>3. CASE BootWrites \/ BootSetsVolume
    <3>1. boot \notin {"line", "up"} /\ key' = key
      BY <2>3, BootOrder DEF BootWrites, BootSetsVolume, keyVars
    <3> QED BY <3>1
  <2>4. CASE BootLoadsLeft \/ BootLoadsRight
    BY <2>4 DEF BootLoadsLeft, BootLoadsRight
  <2> QED BY <1>2, <2>1, <2>2, <2>3, <2>4 DEF Boot, Boots
<1>3. ASSUME NEW button \in Keys, NEW next \in BOOLEAN, NEW mode \in BOOLEAN,
             KeyCall(button, next, mode)
      PROVE  CallKept'
  <2>1. boot' = "up" /\ "step" \in DOMAIN key'
    BY <1>3, <1>8 DEF KeyCall, KeyTest
  <2> QED BY <2>1
<1>4. CASE HandleKey \/ HandleKeyReturns
  <2>1. CASE HandleKeyReturns
    BY <1>8, <2>1 DEF HandleKeyReturns, KeyReturn
  <2>2. CASE HandleKey
    <3>1. boot' = boot /\ boot \in {"line", "up"} /\ "step" \in DOMAIN key'
      BY <2>2 DEF HandleKey, KeyRead, KeyLeft, KeyRight, KeyStore
    <3> QED BY <3>1
  <2> QED BY <1>4, <2>1, <2>2
<1>5. ASSUME NEW button \in RemoteButtons,
             \/ HandleIrDA(button)
             \/ IrDACutsVolume(button)
             \/ IrDACutsBoot(button)
             \/ IrDACutsSongStart(button)
      PROVE  CallKept'
  <2>1. CASE HandleIrDA(button) \/ IrDACutsSongStart(button)
    BY <2>1 DEF HandleIrDA, RemoteVolume, IrDACutsSongStart, SongStartCut
  <2>2. CASE IrDACutsVolume(button)
    BY <2>2 DEF IrDACutsVolume, RemoteCuts
  <2>3. CASE IrDACutsBoot(button)
    <3>1. boot \notin {"line", "up"} /\ key' = key
      BY <2>3, BootOrder DEF IrDACutsBoot, BootCut
    <3> QED BY <3>1
  <2> QED BY <1>5, <2>1, <2>2, <2>3
<1>6. CASE UNCHANGED volumeVars
  BY <1>6 DEF volumeVars, keyVars
<1>7. UNCHANGED volumeVars \/ ~(\/ Insert \/ Mount \/ MountFails \/ Start \/ Restart
        \/ InterfaceOff \/ SampleRate \/ InterfaceOn \/ StartVocal \/ ExecuteEnd
        \/ ExecuteRead \/ ExecuteFails \/ Copy \/ ReadLastSwitch \/ ReadNextSwitch
        \/ Advance \/ ClearLastSwitch \/ ClearNextSwitch \/ Codec \/ CardMoves)
  BY DEF Insert, Mount, MountFails, Start, Restart, StartSong, InterfaceOff,
         SampleRate, InterfaceOn, StartVocal, ExecuteEnd, ExecuteRead,
         ExecuteFails, Copy, ReadLastSwitch, ReadNextSwitch, Advance,
         ClearLastSwitch, ClearNextSwitch, Codec, CardMoves
<1> QED
  BY <1>1, <1>2, <1>3, <1>4, <1>5, <1>6, <1>7 DEF Next, Main, Remote

(* The codec's interface is switched by main's start-up, by waveplay_start *)
(* and by the remote's pause only, and the pause keeps switch and          *)
(* interface together.                                                     *)
LEMMA PlayStep ==
  TypeOK /\ CallKept /\ PlaySwitchMeansActive /\ [Next]_vars
    => PlaySwitchMeansActive'
<1> SUFFICES ASSUME TypeOK, CallKept, PlaySwitchMeansActive, [Next]_vars
             PROVE  PlaySwitchMeansActive'
  OBVIOUS
<1> USE DEF PlaySwitchMeansActive, Paused, SetsRate, SwitchesOn, BootSwitchesOn,
            songVars, modeVars, remoteVars, codecVars
<1>1. CASE UNCHANGED vars
  BY <1>1 DEF vars, volumeVars
<1>20. CASE Boot
  <2>1. pc = "boot" /\ active' = BootSwitches /\ cut' = (cut /\ boot # "on")
        /\ UNCHANGED <<pc, bPlaySwitch>>
    BY <1>20 DEF Boot
  <2>2. \/ boot' = boot
        \/ boot \in BootTransfers /\ boot' = BootNext[boot]
        \/ boot \notin BootTransfers /\ boot' \notin BootTransfers
    BY <1>20, BootOrder DEF Boot, Boots, BootWrites, BootSetsVolume, BootLoadsLeft,
                            BootLoadsRight, KeyLeft, KeyRight
  <2>3. CASE boot = "on"
    BY <2>1, <2>3 DEF BootSwitches
  <2>4. CASE boot \in BootTransfers \ {"on", "source"}
    <3>1. boot' \in BootTransfers \ {"source"}
      BY <2>2, <2>4, BootOrder
    <3> QED BY <2>1, <3>1
  <2>5. CASE boot \notin BootTransfers \/ boot = "source"
    <3>1. boot \notin {"reset", "off", "on"}
      BY <2>5, BootOrder
    <3>2. active' = active /\ cut' = cut
      BY <2>1, <3>1 DEF BootSwitches, TypeOK
    <3> QED BY <2>1, <2>5, <3>2
  <2> QED BY <2>3, <2>4, <2>5
<1>21. CASE BootReturns
  <2>1. boot \in {"line", "up"} /\ pc' # "boot" /\ pc = "boot"
        /\ UNCHANGED <<active, cut, bPlaySwitch>>
    BY <1>21 DEF BootReturns, KeyReturn, CallKept, BootKept
  <2>2. boot \notin BootTransfers
    BY <2>1, BootOrder
  <2> QED BY <2>1, <2>2
<1>2. CASE Insert \/ Mount \/ MountFails
  BY <1>2 DEF Insert, Mount, MountFails
<1>3. CASE Start \/ Restart
  BY <1>3 DEF Start, Restart, StartSong
<1>4. CASE InterfaceOff \/ SampleRate
  BY <1>4 DEF InterfaceOff, SampleRate, AfterSwitch
<1>5. CASE InterfaceOn
  BY <1>5 DEF InterfaceOn
<1>6. CASE StartVocal
  BY <1>6 DEF StartVocal
<1>7. CASE ExecuteEnd \/ ExecuteRead \/ ExecuteFails \/ Copy
  BY <1>7 DEF ExecuteEnd, ExecuteRead, ExecuteFails, Copy
<1>8. ASSUME NEW button \in Keys, NEW next \in BOOLEAN, NEW mode \in BOOLEAN,
             KeyCall(button, next, mode)
      PROVE  PlaySwitchMeansActive'
  BY <1>8 DEF KeyCall
<1>9. CASE HandleKey \/ HandleKeyReturns
  BY <1>9 DEF HandleKey, HandleKeyReturns
<1>10. CASE \/ ReadLastSwitch \/ ReadNextSwitch \/ Advance
            \/ ClearLastSwitch \/ ClearNextSwitch
  BY <1>10 DEF ReadLastSwitch, ReadNextSwitch, Advance, ClearLastSwitch,
               ClearNextSwitch
<1>11. ASSUME NEW button \in RemoteButtons,
              HandleIrDA(button)
       PROVE  PlaySwitchMeansActive'
  <2>1. IrDASwitches(button) /\ UNCHANGED <<pc, boot>>
        /\ IF button = "play" THEN active' = bPlaySwitch' /\ cut' = FALSE
                              ELSE UNCHANGED <<active, cut>>
    BY <1>11 DEF HandleIrDA, RemoteVolume
  <2>2. CASE button = "play"
    BY <2>1, <2>2
  <2>3. CASE button # "play"
    <3>1. bPlaySwitch' = bPlaySwitch
      BY <2>1, <2>3, Switches
    <3> QED BY <2>1, <2>3, <3>1
  <2> QED BY <2>2, <2>3
<1>12. ASSUME NEW button \in RemoteButtons,
              IrDACutsVolume(button)
       PROVE  PlaySwitchMeansActive'
  <2>1. /\ IrDASwitches(button) /\ cut' = (cut \/ button = "play") /\ pc' = pc
        /\ button # "play" => active' = active
        /\ boot' = boot
    BY <1>12 DEF IrDACutsVolume, MaySend, RemoteCuts
  <2>2. CASE button = "play"
    BY <2>1, <2>2
  <2>3. CASE button # "play"
    <3>1. bPlaySwitch' = bPlaySwitch /\ active' = active /\ cut' = cut
      BY <2>1, <2>3, Switches DEF TypeOK
    <3> QED BY <2>1, <3>1
  <2> QED BY <2>2, <2>3
<1>13. ASSUME NEW button \in RemoteButtons,
              IrDACutsBoot(button)
       PROVE  PlaySwitchMeansActive'
  <2>1. /\ IrDASwitches(button)
        /\ cut' = (cut \/ button = "play" \/ boot # "source")
        /\ button # "play" /\ boot = "source" => active' = active
        /\ boot = "source" => boot' = "memset"
    BY <1>13, BootOrder DEF IrDACutsBoot, BootCut, MaySend, BootSwitches, TypeOK
  <2>2. CASE button = "play" \/ boot # "source"
    BY <2>1, <2>2
  <2>3. CASE button # "play" /\ boot = "source"
    <3>1. bPlaySwitch' = bPlaySwitch /\ active' = active /\ cut' = cut
      BY <2>1, <2>3, Switches DEF TypeOK
    <3>2. pc' # "boot" \/ boot' \notin BootTransfers
      BY <2>1, <2>3, BootOrder
    <3>3. pc = "boot" /\ pc' \in {"boot", "exit"}
      BY <1>13 DEF IrDACutsBoot
    <3> QED BY <2>1, <2>3, <3>1, <3>2, <3>3
  <2> QED BY <2>2, <2>3
<1>15. ASSUME NEW button \in RemoteButtons,
              IrDACutsSongStart(button)
       PROVE  PlaySwitchMeansActive'
  <2>1. CASE SetsRate
    BY <1>15, <2>1 DEF IrDACutsSongStart, AfterSwitch
  <2>2. CASE ~SetsRate
    BY <1>15, <2>2 DEF IrDACutsSongStart
  <2> QED BY <2>1, <2>2
<1>14. CASE Codec \/ CardMoves
  BY <1>14 DEF Codec, CardMoves, volumeVars
<1> QED
  BY <1>1, <1>20, <1>21, <1>2, <1>3, <1>4, <1>5, <1>6, <1>7, <1>8, <1>9, <1>10,
     <1>11, <1>12, <1>13, <1>14, <1>15 DEF Next, Main, Remote
-----------------------------------------------------------------------------
(* The initial state satisfies the inductive invariant.                    *)
LEMMA InitIInv == Init => IInv
<1> SUFFICES ASSUME Init PROVE IInv
  OBVIOUS
<1>2. TypeOK
  BY TurnTypes DEF Init, TypeOK, Places
<1> QED
  BY <1>2, BootOrder DEF Init, IInv, PressKept, CallKept, BootKept, VolumeInit, Rest,
              PlaySwitchMeansActive, Paused, BootSwitchesOn

(* The inductive invariant holds in every reachable state.                 *)
LEMMA InductiveInvariant == LiveSpec => []IInv
<1>1. IInv /\ [Next]_vars => IInv'
  BY TypeStep, PressStep, BootStep, PlayStep DEF IInv
<1> QED
  BY InitIInv, <1>1, PTL DEF LiveSpec

(* A press of "next" on the remote that came while the loop could see it   *)
(* is dropped by no turn of the loop but the one that gives the song up    *)
(* (main.c 1249-1347).                                                     *)
THEOREM PressNotForgotten == LiveSpec => []NextIsNotForgotten
<1>1. IInv => NextIsNotForgotten
  BY DEF IInv, PressKept, NextIsNotForgotten
<1> QED
  BY <1>1, InductiveInvariant, PTL

(* While bPlaySwitch says "playing" the codec's interface is on, outside   *)
(* waveplay_start and main's start-up, and unless the last write of that   *)
(* switch, or one before it that had to succeed, met another on the bus.   *)
THEOREM PlayingMeansActive == LiveSpec => []PlaySwitchMeansActive
<1>1. IInv => PlaySwitchMeansActive
  BY DEF IInv
<1> QED
  BY <1>1, InductiveInvariant, PTL
-----------------------------------------------------------------------------
Stages == DOMAIN BootNext \cup {"up", "failed"}
KeySteps == {"rest", "read", "left", "right", "store", "done"}
Registers == [l : Int, r : Int]

(* Levels are integers; where main is in handle_key; the flags.            *)
VolumeTypeOK ==
  /\ boot \in Stages
  /\ nVolume \in Int /\ nMute_Volume \in Int /\ heard \in Int
  /\ key \in [step : KeySteps, button : SUBSET VolumeKeys, vol : Registers]
  /\ line \in Registers
  /\ bMuteSwitch \in BOOLEAN /\ torn \in BOOLEAN /\ untimely \in BOOLEAN
  /\ keyFirst \in BOOLEAN /\ irFirst \in BOOLEAN

(* In its start-up main sets the volume once, and does not store it.       *)
Loading == boot = "line" => key.step \in {"left", "right", "done"}

(* In a window the remote stayed out of, the registers written so far hold *)
(* the level main is about to store, or has stored at its start-up;        *)
(* outside, the one it has stored.                                         *)
Written ==
  ~torn =>
    /\ boot = "loadR" => key.vol.l = nVolume
    /\ boot \in {"line", "up", "failed"} /\ key.step \in {"rest", "done"}
         => line = Both(nVolume)
    /\ key.step \in {"left", "right", "store"} => key.vol.r = key.vol.l
    /\ boot = "line" /\ key.step \in {"left", "right"} => key.vol.l = nVolume
    /\ key.step = "right" => line.l = key.vol.l
    /\ key.step = "store" => line = Both(key.vol.l)

(* A mute that did not fall into a window keeps main out of the next ones. *)
Muted ==
  bMuteSwitch /\ ~untimely =>
    ~InWindow /\ nVolume = HW_MIN_VOL /\ line = Both(HW_MIN_VOL)

(* What the program remembers while muted is what the mute silenced.       *)
Remembers == bMuteSwitch => nMute_Volume = heard

VolumeIInv ==
  VolumeTypeOK /\ BootKept /\ Loading /\ Written /\ Muted /\ Remembers
-----------------------------------------------------------------------------
(* The constants are integers.                                             *)
LEMMA Levels ==
  /\ HW_MIN_VOL \in Int /\ HW_MAX_VOL \in Int /\ HW_DEFAULT_VOL \in Int
  /\ ResetLevel \in Int /\ InitLevel \in Int /\ AddressLevel \in Int
  BY VolumeAssumption DEF VolumeAssumption

USE Levels

(* One level for both channels makes a pair of registers, and the codec    *)
(* keeps them levels.                                                      *)
LEMMA Pairs ==
  /\ \A v \in Int : Both(v) \in Registers
  /\ line \in Registers =>
       \A reg, v : v \in Int => Taken(reg, v) \in Registers
<1>1. ASSUME NEW v \in Int PROVE Both(v) \in Registers
  BY DEF Both, Registers
<1>2. ASSUME line \in Registers, NEW reg, NEW v \in Int
      PROVE  Taken(reg, v) \in Registers
  <2>1. CASE reg = "left"
    BY <1>2, <2>1 DEF Taken, Registers
  <2>2. CASE reg = "right"
    BY <1>2, <2>2 DEF Taken, Registers
  <2>3. CASE reg # "left" /\ reg # "right"
    BY <1>2, <2>3 DEF Taken
  <2> QED BY <2>1, <2>2, <2>3
<1> QED
  BY <1>1, <1>2

(* The initial state satisfies the inductive invariant.                    *)
LEMMA VolumeInitIInv == BenchInit => VolumeIInv
<1> SUFFICES ASSUME BenchInit PROVE VolumeIInv
  OBVIOUS
<1> USE DEF BenchInit, VolumeInit
<1>1. Both(ResetLevel) \in Registers /\ Both(0) \in Registers
  BY Pairs
<1>2. boot \in Stages
  BY BootOrder DEF Stages
<1>3. key \in [step : KeySteps, button : SUBSET VolumeKeys, vol : Registers]
  BY <1>1 DEF Rest, KeySteps
<1>5. nVolume \in Int /\ nMute_Volume \in Int /\ heard \in Int /\ line \in Registers
  BY <1>1
<1>6. /\ bMuteSwitch \in BOOLEAN /\ torn \in BOOLEAN /\ untimely \in BOOLEAN
      /\ keyFirst \in BOOLEAN /\ irFirst \in BOOLEAN
  BY Zenon
<1> HIDE DEF BenchInit, VolumeInit
<1>4. VolumeTypeOK
  BY <1>2, <1>3, <1>5, <1>6 DEF VolumeTypeOK
<1> USE DEF BenchInit, VolumeInit
<1> QED
  BY <1>4 DEF VolumeIInv, BootKept, Rest, Loading, Written, Muted, Remembers

(* The steps of main's start-up.                                           *)
LEMMA StartUpStep == VolumeIInv /\ StartsUp => VolumeIInv'
<1> SUFFICES ASSUME VolumeIInv, StartsUp PROVE VolumeIInv'
  OBVIOUS
<1>1. /\ torn' = (torn /\ boot # "loadL") /\ untimely' = untimely /\ heard' = heard
      /\ UNCHANGED <<keyFirst, remoteVolumeVars>>
      /\ boot \in DOMAIN BootNext \ {"line"} /\ boot' = BootNext[boot]
  BY BootOrder DEF StartsUp, Boots, BootWrites, BootSetsVolume, BootLoadsLeft,
         BootLoadsRight, keyVars
<1>2. boot' \in Stages /\ boot' \notin {"up", "failed"}
      /\ boot \notin {"line", "up", "failed"}
  BY <1>1, BootOrder DEF Stages
<1>3. Remembers' /\ Muted'
  BY <1>1, <1>2 DEF VolumeIInv, Remembers, Muted, InWindow, remoteVolumeVars
<1>4. torn' \in BOOLEAN
  BY <1>1, Zenon DEF VolumeIInv, VolumeTypeOK
<1> USE DEF VolumeIInv
<1>5. CASE BootWrites
  <2>1. BootTaken \in Registers
    BY Pairs DEF BootTaken, VolumeTypeOK
  <2>2. VolumeTypeOK'
    BY <1>1, <1>2, <1>4, <1>5, <2>1 DEF VolumeTypeOK, BootWrites, keyVars,
                                   remoteVolumeVars
  <2>3. boot' \notin {"loadR", "line", "up", "failed"} /\ key'.step = "rest"
    BY <1>2, <1>5, BootOrder DEF BootWrites, BootKept, keyVars
  <2> QED BY <1>3, <2>2, <2>3 DEF BootKept, Loading, Written
<1>6. CASE BootSetsVolume
  <2>1. VolumeTypeOK'
    BY <1>1, <1>2, <1>4, <1>6 DEF VolumeTypeOK, BootSetsVolume, keyVars,
                                   remoteVolumeVars
  <2>2. boot' \notin {"loadR", "line", "up", "failed"} /\ key'.step = "rest"
    BY <1>2, <1>6, BootOrder DEF BootSetsVolume, BootKept, keyVars
  <2> QED BY <1>3, <2>1, <2>2 DEF BootKept, Loading, Written
<1>7. CASE BootLoadsLeft
  <2>1. key' = [key EXCEPT !.vol.l = nVolume] /\ boot' = "loadR"
        /\ nVolume' = nVolume /\ line' = line
    BY <1>7 DEF BootLoadsLeft
  <2>2. key' \in [step : KeySteps, button : SUBSET VolumeKeys, vol : Registers]
        /\ key'.step = key.step /\ key'.vol.l = nVolume
    BY <2>1 DEF VolumeTypeOK, Registers
  <2>3. VolumeTypeOK'
    BY <1>1, <1>2, <1>4, <2>1, <2>2 DEF VolumeTypeOK, remoteVolumeVars
  <2>4. key'.step = "rest"
    BY <1>2, <2>2 DEF BootKept
  <2> QED BY <1>3, <2>1, <2>2, <2>3, <2>4 DEF BootKept, Loading, Written
<1>8. CASE BootLoadsRight
  <2>1. key' = [key EXCEPT !.step = "left", !.vol.r = nVolume] /\ boot' = "line"
        /\ nVolume' = nVolume /\ line' = line /\ boot = "loadR"
    BY <1>8 DEF BootLoadsRight
  <2>2. /\ key' \in [step : KeySteps, button : SUBSET VolumeKeys, vol : Registers]
        /\ key'.step = "left" /\ key'.vol.r = nVolume /\ key'.vol.l = key.vol.l
    BY <2>1 DEF VolumeTypeOK, Registers, KeySteps
  <2>3. VolumeTypeOK'
    BY <1>1, <1>2, <1>4, <2>1, <2>2 DEF VolumeTypeOK, remoteVolumeVars
  <2>4. Written'
    BY <1>1, <2>1, <2>2 DEF Written
  <2> QED BY <1>3, <2>1, <2>2, <2>3, <2>4 DEF BootKept, Loading
<1> QED
  BY <1>5, <1>6, <1>7, <1>8 DEF StartsUp, Boots

(* A call of handle_key opens a window only when the mute is off.          *)
LEMMA CallStep ==
  ASSUME VolumeIInv, NEW button \in SUBSET VolumeKeys, CallsHandleKey(button)
  PROVE  VolumeIInv'
<1> USE DEF CallsHandleKey, KeyTest, VolumeIInv, KeySteps, remoteVolumeVars
<1>1. Rest.vol \in Registers
  BY Pairs DEF Rest
<1>2. /\ key' \in [step : KeySteps, button : SUBSET VolumeKeys, vol : Registers]
      /\ key'.step \in {"read", "done"}
      /\ bMuteSwitch => key'.step = "done"
  BY <1>1 DEF Rest, VolumeTypeOK
<1>3. torn' \in BOOLEAN /\ (key'.step = "done" => torn' = torn)
  BY Zenon DEF VolumeTypeOK
<1>4. VolumeTypeOK'
  BY <1>2, <1>3 DEF VolumeTypeOK
<1> QED
  BY <1>2, <1>3, <1>4 DEF BootKept, Loading, Written, Muted, Remembers, InWindow, Both

(* The steps of handle_key.                                                *)
LEMMA HandleStep == VolumeIInv /\ HandlesKey => VolumeIInv'
<1> SUFFICES ASSUME VolumeIInv, HandlesKey PROVE VolumeIInv'
  OBVIOUS
<1> USE DEF HandlesKey, VolumeIInv, VolumeTypeOK, KeySteps, remoteVolumeVars, BootKept,
            Loading, Remembers
<1>1. CASE KeyRead
  <2> DEFINE v == Stepped(nVolume, keyFirst, "up" \in key.button)
  <2>1. v \in Int
    BY DEF Stepped, Louder, Softer
  <2> HIDE DEF v
  <2>2. key' = [key EXCEPT !.step = "left", !.vol = Both(v)]
    BY <1>1 DEF KeyRead, v
  <2>3. Both(v) \in Registers /\ Both(v).l = v /\ Both(v).r = v
    BY <2>1, Pairs DEF Both
  <2>4. VolumeTypeOK'
    BY <1>1, <2>2, <2>3 DEF KeyRead
  <2>5. key'.vol.l = v /\ key'.vol.r = v /\ key'.step = "left" /\ boot' = boot
        /\ key.step = "read"
    BY <1>1, <2>2, <2>3 DEF KeyRead
  <2> QED BY <1>1, <2>4, <2>5 DEF KeyRead, Written, Muted, InWindow
<1>2. CASE KeyLeft
  <2>1. Taken("left", key.vol.l) \in Registers
    BY Pairs DEF Registers
  <2>2. VolumeTypeOK'
    BY <1>2, <2>1 DEF KeyLeft
  <2>3. line'.l = key.vol.l
    BY <1>2 DEF KeyLeft, Taken, Registers
  <2> QED BY <1>2, <2>2, <2>3 DEF KeyLeft, Written, Muted, InWindow
<1>3. CASE KeyRight
  <2>1. Taken("right", key.vol.r) \in Registers
    BY Pairs DEF Registers
  <2>2. VolumeTypeOK'
    BY <1>3, <2>1 DEF KeyRight, AfterSet
  <2>3. line.l = key.vol.l /\ key.vol.r = key.vol.l => line' = Both(key.vol.l)
    BY <1>3 DEF KeyRight, Taken, Registers, Both
  <2>4. key'.step = AfterSet /\ key'.vol = key.vol /\ boot' = boot /\ key.step = "right"
    BY <1>3 DEF KeyRight
  <2>5. Written'
    BY <1>3, <2>3, <2>4 DEF KeyRight, Written, AfterSet
  <2> QED BY <1>3, <2>2, <2>4, <2>5 DEF KeyRight, AfterSet, Muted, InWindow
<1>4. CASE KeyStore
  <2>1. key.vol.l \in Int
    BY DEF Registers
  <2>2. VolumeTypeOK'
    BY <1>4, <2>1 DEF KeyStore
  <2> QED BY <1>4, <2>2 DEF KeyStore, Written, Muted, InWindow, Both
<1>5. CASE KeyReturn
  <2>1. Rest \in [step : KeySteps, button : SUBSET VolumeKeys, vol : Registers]
        /\ Rest.step = "rest"
    BY Pairs DEF Rest
  <2>2. VolumeTypeOK'
    BY <1>5, <2>1 DEF KeyReturn, Stages
  <2> QED BY <1>5, <2>1, <2>2 DEF KeyReturn, Written, Muted, InWindow, Both
<1> QED
  BY <1>1, <1>2, <1>3, <1>4, <1>5
-----------------------------------------------------------------------------
Buttons == {"up", "down", "mute", "play"}

(* A press of the remote, whatever becomes of its transfers: the mute goes *)
(* on with a level above the minimum, which is remembered, and off with    *)
(* the return to the level remembered; other buttons do neither, and set   *)
(* no volume while it is on.                                               *)
LEMMA Decision ==
  ASSUME VolumeIInv, NEW button \in Buttons, RemoteDecides(button)
  PROVE  /\ bMuteSwitch' \in BOOLEAN /\ keyFirst' \in BOOLEAN /\ irFirst' \in BOOLEAN
         /\ nVolume' \in Int /\ nMute_Volume' \in Int
         /\ button = "mute" /\ bMuteSwitch' => nMute_Volume' = nVolume
         /\ button # "mute" => bMuteSwitch' = bMuteSwitch /\ nMute_Volume' = nMute_Volume
         /\ bMuteSwitch /\ ~bMuteSwitch' => nVolume' = nMute_Volume
         /\ button = "mute" /\ bMuteSwitch' => nVolume' = HW_MIN_VOL
         /\ bMuteSwitch /\ button # "mute" => ~RemoteSets(button)
         /\ ~RemoteSets(button) => nVolume' = nVolume /\ button # "mute"
<1> DEFINE v == IF RemoteAdjusts(button)
                THEN Stepped(nVolume, irFirst, button = "up") ELSE nVolume
<1>1. v \in Int
  BY DEF VolumeIInv, VolumeTypeOK, Stepped, Louder, Softer
<1>2. button = "mute" => v = nVolume
  BY DEF RemoteAdjusts, Stepped
<1>3. ~RemoteSets(button) => v = nVolume /\ button # "mute"
  BY DEF RemoteSets
<1>4. bMuteSwitch /\ button # "mute" => ~RemoteSets(button)
  BY DEF RemoteSets, RemoteAdjusts
<1> DEFINE mutes == button = "mute" /\ v # HW_MIN_VOL
           unmutes == button = "mute" /\ v = HW_MIN_VOL
<1>5. /\ nVolume' = IF mutes THEN HW_MIN_VOL ELSE IF unmutes THEN nMute_Volume ELSE v
      /\ nMute_Volume' = IF mutes THEN v ELSE nMute_Volume
      /\ bMuteSwitch' = (mutes \/ (bMuteSwitch /\ ~unmutes))
      /\ irFirst' = (irFirst /\ bMuteSwitch) /\ keyFirst' = keyFirst
  BY DEF RemoteDecides, Remembered
<1> HIDE DEF v
<1> QED
  BY <1>1, <1>2, <1>3, <1>4, <1>5 DEF VolumeIInv, VolumeTypeOK

(* What a listener makes of a press.                                       *)
LEMMA Hearing ==
  ASSUME VolumeIInv, NEW button \in Buttons, NEW peace \in BOOLEAN,
         RemoteDecides(button), Hears(button, peace)
  PROVE  /\ Remembers' /\ heard' \in Int /\ untimely' \in BOOLEAN
         /\ bMuteSwitch' /\ ~untimely' =>
              \/ peace /\ button = "mute" /\ nVolume' = HW_MIN_VOL
              \/ bMuteSwitch /\ ~untimely /\ button # "mute"
<1>1. CASE button = "mute" /\ bMuteSwitch'
  BY <1>1, Decision DEF Hears, Remembers, VolumeIInv, VolumeTypeOK
<1>2. CASE button = "mute" /\ ~bMuteSwitch'
  BY <1>2, Decision DEF Hears, Remembers, VolumeIInv, VolumeTypeOK
<1>3. CASE button # "mute"
  <2>1. untimely' = untimely /\ heard' = heard
    BY <1>3 DEF Hears
  <2>2. bMuteSwitch' = bMuteSwitch /\ nMute_Volume' = nMute_Volume
    BY <1>3, Decision
  <2> QED BY <1>3, <2>1, <2>2 DEF Remembers, VolumeIInv, VolumeTypeOK
<1> QED
  BY <1>1, <1>2, <1>3, Decision

(* The registers after a press are levels.                                 *)
LEMMA Levelled ==
  ASSUME VolumeIInv, NEW button \in Buttons, RemoteDecides(button), NEW l \in Registers
  PROVE  Sent(button, l) \in Registers
  BY Decision, Pairs DEF Sent

(* The handler between two transfers of main's.                            *)
LEMMA RemoteStep ==
  ASSUME VolumeIInv, NEW button \in Buttons, RemotePressed(button)
  PROVE  VolumeIInv'
<1>1. /\ RemoteDecides(button) /\ UNCHANGED <<boot, key>>
      /\ line' = Sent(button, line)
      /\ torn' = IF RemoteSets(button) THEN InWindow ELSE torn
      /\ Hears(button, ~InWindow) /\ InWindow \in BOOLEAN
  BY DEF RemotePressed, RemoteVolume, InWindow
<1>2. VolumeTypeOK'
  <2>1. line' \in Registers
    BY <1>1, Levelled DEF VolumeIInv, VolumeTypeOK
  <2>2. torn' \in BOOLEAN
    BY <1>1, Zenon DEF VolumeIInv, VolumeTypeOK
  <2> QED BY <1>1, <2>1, <2>2, Decision, Hearing DEF VolumeIInv, VolumeTypeOK
<1>3. InWindow' = InWindow
  BY <1>1 DEF InWindow
<1>4. Written'
  <2>1. CASE RemoteSets(button)
    <3>1. line' = Both(nVolume') /\ torn' = InWindow
      BY <1>1, <2>1 DEF Sent
    <3> QED BY <1>1, <3>1 DEF VolumeIInv, VolumeTypeOK, BootKept, Written, InWindow,
                              Loading, KeySteps, Both
  <2>2. CASE ~RemoteSets(button)
    <3>1. line' = line /\ torn' = torn /\ nVolume' = nVolume
      BY <1>1, <2>2, Decision DEF Sent
    <3> QED BY <1>1, <3>1 DEF VolumeIInv, Written, Both
  <2> QED BY <2>1, <2>2
<1>5. Muted'
  <2> SUFFICES ASSUME bMuteSwitch', ~untimely'
               PROVE  ~InWindow /\ nVolume' = HW_MIN_VOL /\ line' = Both(HW_MIN_VOL)
    BY <1>3 DEF Muted
  <2>1. \/ ~InWindow /\ button = "mute" /\ nVolume' = HW_MIN_VOL
        \/ bMuteSwitch /\ ~untimely /\ button # "mute"
    BY <1>1, Hearing
  <2>2. CASE ~InWindow /\ button = "mute" /\ nVolume' = HW_MIN_VOL
    BY <1>1, <2>2 DEF Sent, RemoteSets
  <2>3. CASE bMuteSwitch /\ ~untimely /\ button # "mute"
    BY <1>1, <2>3, Decision DEF VolumeIInv, Muted, Sent
  <2> QED BY <2>1, <2>2, <2>3
<1> QED
  BY <1>1, <1>2, <1>4, <1>5, Hearing DEF VolumeIInv, BootKept, Loading

(* The handler in the middle of a transfer of the volume's or of the       *)
(* start-up's: what the codec took is uncertain, and torn says so.         *)
LEMMA CutStep ==
  ASSUME VolumeIInv, NEW button \in Buttons, CutsVolume(button)
  PROVE  VolumeIInv'
<1>1. /\ RemoteDecides(button) /\ Hears(button, FALSE) /\ torn' = TRUE
      /\ BootCut(button) \/ RemoteCuts(button)
  BY DEF CutsVolume, BootCut, RemoteCuts
<1>2. InWindow
  BY <1>1, BootOrder DEF BootCut, RemoteCuts, InWindow
<1>3. Muted' /\ Remembers' /\ Written'
  BY <1>1, <1>2, Hearing DEF VolumeIInv, Muted, Written
<1>4. ASSUME NEW c \in CutOutcomes, NEW mine \in Registers, NEW mistaken \in Registers
      PROVE  CutLine(c, mine, mistaken, button) \in Registers
  <2>1. c.mine \in {"taken", "mistaken", "lost"}
    BY DEF CutOutcomes
  <2> DEFINE l == CASE c.mine = "taken" -> mine
                    [] c.mine = "mistaken" -> mistaken
                    [] c.mine = "lost" -> line
  <2>2. l \in Registers
    BY <2>1 DEF VolumeIInv, VolumeTypeOK
  <2> HIDE DEF l
  <2>3. CutLine(c, mine, mistaken, button) = IF c.theirs THEN Sent(button, l) ELSE l
    BY DEF CutLine, l
  <2> QED BY <1>1, <2>2, <2>3, Levelled
<1>5. Taken(boot, AddressLevel) \in Registers /\ Taken(key.step, AddressLevel) \in Registers
      /\ BootTaken \in Registers
  BY Pairs DEF BootTaken, VolumeIInv, VolumeTypeOK
<1>6. CASE BootCut(button)
  <2>1. PICK c \in CutOutcomes :
          /\ line' = CutLine(c, BootTaken, Taken(boot, AddressLevel), button)
          /\ boot' = IF c.ok \/ boot = "source" THEN BootNext[boot] ELSE "failed"
    BY <1>6 DEF BootCut
  <2>2. line' \in Registers
    BY <1>4, <1>5, <2>1
  <2>3. boot \in BootTransfers /\ key' = key
    BY <1>6 DEF BootCut
  <2>4. boot' \in Stages /\ boot' # "line"
    BY <2>1, <2>3, BootOrder DEF Stages
  <2>5. key.step = "rest"
    BY <2>3, BootOrder DEF VolumeIInv, BootKept
  <2>6. VolumeTypeOK'
    BY <1>1, <2>2, <2>3, <2>4, Decision, Hearing DEF VolumeIInv, VolumeTypeOK
  <2> QED BY <1>3, <2>3, <2>4, <2>5, <2>6 DEF VolumeIInv, BootKept, Loading
<1>7. CASE RemoteCuts(button)
  <2> DEFINE v == IF key.step = "left" THEN key.vol.l ELSE key.vol.r
  <2>1. PICK c \in CutOutcomes :
          /\ line' = CutLine(c, Taken(key.step, v), Taken(key.step, AddressLevel), button)
          /\ key' = [key EXCEPT !.step = IF c.ok /\ @ = "left" THEN "right" ELSE AfterSet]
    BY <1>7 DEF RemoteCuts
  <2>2. Taken(key.step, v) \in Registers
    BY Pairs DEF VolumeIInv, VolumeTypeOK, Registers
  <2> HIDE DEF v
  <2>3. line' \in Registers
    BY <1>4, <1>5, <2>1, <2>2
  <2>4. key' \in [step : KeySteps, button : SUBSET VolumeKeys, vol : Registers]
        /\ key'.step \in {"right", AfterSet} /\ boot' = boot
        /\ key.step \in {"left", "right"}
    BY <1>7, <2>1 DEF VolumeIInv, VolumeTypeOK, KeySteps, AfterSet, RemoteCuts
  <2>5. VolumeTypeOK'
    BY <1>1, <2>3, <2>4, Decision, Hearing DEF VolumeIInv, VolumeTypeOK
  <2> QED BY <1>3, <2>4, <2>5 DEF VolumeIInv, BootKept, Loading, AfterSet
<1> QED
  BY <1>1, <1>6, <1>7

(* The handler in the middle of a transfer of waveplay_start's: what it    *)
(* sends itself may be lost.                                               *)
LEMMA SongCutStep ==
  ASSUME VolumeIInv, NEW button \in Buttons, CutsSongStart(button)
  PROVE  VolumeIInv'
<1>1. /\ RemoteDecides(button) /\ Hears(button, FALSE) /\ UNCHANGED <<boot, key>>
      /\ torn' = (torn \/ RemoteSets(button))
      /\ line' \in {line, Sent(button, line)}
  BY DEF CutsSongStart, SongStartCut
<1>2. InWindow' = InWindow
  BY <1>1 DEF InWindow
<1>3. VolumeTypeOK'
  <2>1. line' \in Registers
    BY <1>1, Levelled DEF VolumeIInv, VolumeTypeOK
  <2>2. torn' \in BOOLEAN
    BY <1>1 DEF VolumeIInv, VolumeTypeOK
  <2> QED BY <1>1, <2>1, <2>2, Decision, Hearing DEF VolumeIInv, VolumeTypeOK
<1>4. ~RemoteSets(button) => line' = line /\ nVolume' = nVolume
  BY <1>1, Decision DEF Sent
<1>5. Written'
  BY <1>1, <1>4 DEF VolumeIInv, Written, Both
<1>6. Muted'
  BY <1>1, <1>2, <1>4, Decision, Hearing DEF VolumeIInv, Muted
<1> QED
  BY <1>1, <1>3, <1>5, <1>6, Hearing DEF VolumeIInv, BootKept, Loading

(* Every step keeps the inductive invariant.                               *)
LEMMA VolumeNextIInv == VolumeIInv /\ [BenchNext]_benchVars => VolumeIInv'
<1>1. CASE UNCHANGED benchVars
  BY <1>1 DEF benchVars, volumeVars, keyVars, remoteVolumeVars, VolumeIInv, VolumeTypeOK,
              BootKept, Loading, Written, Muted, Remembers, InWindow
<1> QED
  BY <1>1, StartUpStep, CallStep, HandleStep, RemoteStep, CutStep, SongCutStep
     DEF BenchNext, Buttons

(* The inductive invariant holds in every reachable state.                 *)
LEMMA VolumeInductiveInvariant == BenchSpec => []VolumeIInv
  BY VolumeInitIInv, VolumeNextIInv, PTL DEF BenchSpec
-----------------------------------------------------------------------------
(* Once main has set the volume undisturbed, or the remote has outside     *)
(* main's windows, both line-out registers hold the volume the program     *)
(* believes in, until main and the remote meet again.                      *)
THEOREM LineOutCorrect == BenchSpec => []LineOutMatchesVolume
<1>1. VolumeIInv => LineOutMatchesVolume
  BY DEF VolumeIInv, VolumeTypeOK, KeySteps, Written, LineOutMatchesVolume,
         InWindow
<1> QED
  BY <1>1, VolumeInductiveInvariant, PTL

(* Nothing pressed since makes a muted player audible again whose mute     *)
(* came in peace.                                                          *)
THEOREM MuteCorrect == BenchSpec => []MuteIsSilent
<1>1. VolumeIInv => MuteIsSilent
  BY DEF VolumeIInv, Muted, MuteIsSilent
<1> QED
  BY <1>1, VolumeInductiveInvariant, PTL

(* Unmuting returns to the level the mute silenced.                        *)
THEOREM UnmuteCorrect == BenchSpec => UnmuteRestores
<1>1. VolumeIInv /\ [BenchNext]_benchVars
         => [bMuteSwitch /\ ~bMuteSwitch' => nVolume' = heard]_benchVars
  <2> SUFFICES ASSUME VolumeIInv, BenchNext, bMuteSwitch, ~bMuteSwitch' PROVE nVolume' = heard
    OBVIOUS
  <2>1. PICK button \in Buttons : RemoteDecides(button)
    BY DEF BenchNext, StartsUp, Boots, BootWrites, BootSetsVolume, BootLoadsLeft,
           BootLoadsRight, CallsHandleKey, KeyTest, HandlesKey, KeyRead, KeyLeft,
           KeyRight, KeyStore, KeyReturn, RemotePressed, RemoteVolume, CutsVolume,
           BootCut, RemoteCuts, CutsSongStart, SongStartCut, remoteVolumeVars, Buttons
  <2> QED BY <2>1, Decision DEF VolumeIInv, Remembers
<1> QED
  BY <1>1, VolumeInductiveInvariant, PTL DEF BenchSpec, UnmuteRestores
=============================================================================

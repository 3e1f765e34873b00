------------------------------- MODULE Player -------------------------------
(***************************************************************************)
(* The main loop of the karaoke player (main.c) with the interrupt handler *)
(* of the remote control, the card and the codec around it.                *)
(*                                                                         *)
(* main's program counter pc names the next thing main does; the handler   *)
(* of the remote runs between any two of its steps, from its start-up on.  *)
(* A song is a number of chunks, the data waveplay_execute hands to the    *)
(* codec in one call; the codec's FIFOs hold FifoLen of them.  Which file  *)
(* is played is its index in one of the three play lists.  A vocal track   *)
(* is taken to be as long as its song.                                     *)
(***************************************************************************)
EXTENDS VolumeControl

CONSTANTS Keys,         \* the combinations of volume and karaoke buttons used
          RemoteButtons,
          NFiles,       \* gWavePlayList.nFileNum
          BgmFiles,     \* gWavePlayList_bgm.nFileNum
          VocalFiles,   \* gWavePlayList_vocal.nFileNum
          SongLen, FifoLen
ASSUME PlayerAssumption ==
    /\ Keys \subseteq SUBSET VolumeKeys
    /\ RemoteButtons \subseteq {"up", "down", "mute", "last", "next", "play"}
    /\ NFiles \in Nat \ {0} /\ {BgmFiles, VocalFiles} \subseteq Nat
    /\ SongLen \in Nat \ {0} /\ FifoLen \in Nat \ {0}

VARIABLES
    pc, nPlayIndex,
    ready,                  \* bSdacrdReady
    loop,                   \* the locals of one turn of the inner loop
    ok,                     \* waveplay_start's bSuccess, while it runs
    opened,                 \* hFile is no null pointer, nor the vocal track's
    left,                   \* chunks of the song not yet played
    bKaraoke, bPlayMode,
    bLastSwitch, bNextSwitch, bPlaySwitch,
    active, dac, adc,       \* the codec: its interface, its two FIFOs
    card,                   \* a card is in the slot
    owed,                   \* history: a next press the loop has neither acted
                            \* on nor cleared
    cut                     \* history: the last write of the codec's interface
                            \* switch met another transfer on the bus, or never
                            \* came because a transfer before it did

songVars == <<ok, opened, left>>
modeVars == <<bKaraoke, bPlayMode>>
remoteVars == <<bLastSwitch, bNextSwitch, bPlaySwitch, owed>>
codecVars == <<active, dac, adc, cut>>
vars == <<volumeVars, pc, nPlayIndex, ready, loop, songVars, modeVars,
          remoteVars, codecVars, card>>

NewTurn == [eof |-> FALSE, last |-> FALSE, next |-> FALSE, mode |-> FALSE,
            done |-> FALSE]

Init ==
    /\ VolumeInit
    /\ pc = "boot" /\ nPlayIndex = 0 /\ ready = FALSE /\ loop = NewTurn
    /\ ok = FALSE /\ opened = FALSE /\ left = 0
    /\ bKaraoke = FALSE /\ bPlayMode = FALSE
    /\ bLastSwitch = FALSE /\ bNextSwitch = FALSE /\ bPlaySwitch = TRUE
    /\ active = FALSE /\ dac = 0 /\ adc = 0
    /\ card \in BOOLEAN
    /\ owed = FALSE /\ cut = FALSE
-----------------------------------------------------------------------------
\* The interface switch after a transfer of AUDIO_Init's that the codec took.
BootSwitches == CASE boot \in {"reset", "off"} -> FALSE
                  [] boot = "on" -> TRUE
                  [] OTHER -> active

\* Main's start-up (see VolumeControl).  memset clears the play mode as well.
Boot ==
    /\ pc = "boot"
    /\ Boots \/ KeyLeft \/ KeyRight
    /\ active' = BootSwitches
    /\ cut' = (cut /\ boot # "on")
    /\ bPlayMode' = (bPlayMode /\ boot # "memset")
    /\ UNCHANGED <<pc, nPlayIndex, ready, loop, songVars, bKaraoke, remoteVars,
                   dac, adc, card>>

BootReturns ==
    /\ pc = "boot"
    /\ KeyReturn
    /\ pc' = "insert"
    /\ UNCHANGED <<nPlayIndex, ready, loop, songVars, modeVars, remoteVars,
                   codecVars, card>>
-----------------------------------------------------------------------------
Insert ==
    /\ pc = "insert" /\ card
    /\ pc' = "mount"
    /\ UNCHANGED <<volumeVars, nPlayIndex, ready, loop, songVars, modeVars,
                   remoteVars, codecVars, card>>

Mount ==
    /\ pc = "mount" /\ card
    /\ pc' = "start" /\ nPlayIndex' = 0 /\ ready' = TRUE
    /\ UNCHANGED <<volumeVars, loop, songVars, modeVars, remoteVars, codecVars, card>>

\* The card was pulled between its detection and the mount, its bus failed, or
\* it has no song: main returns.
MountFails ==
    /\ pc = "mount"
    /\ pc' = "exit"
    /\ UNCHANGED <<volumeVars, nPlayIndex, ready, loop, songVars, modeVars,
                   remoteVars, codecVars, card>>

(***************************************************************************)
(* waveplay_start, called before a song (pc "start") and when the play     *)
(* mode changes (pc "restart").  bSuccess is read uninitialised when the   *)
(* song's file cannot be opened: it may be true, and the format check then *)
(* reads whatever the buffer holds.                                        *)
(***************************************************************************)
\* A file that is on the list may be missing on another card, or unreadable.
Opens(files) == IF nPlayIndex < files THEN BOOLEAN ELSE {FALSE}

\* A file is read from a card in its slot, or fails; what an uninitialised
\* bSuccess and an old buffer make of no file is not known.
Starts(opens) == IF opens /\ ~card THEN {FALSE} ELSE BOOLEAN

StartSong(bgm) ==
    /\ pc \in {"start", "restart"}
    /\ \E opens \in Opens(IF bgm THEN BgmFiles ELSE NFiles) :
       \E success \in Starts(opens) :
          /\ opened' = opens
          /\ ok' = success
          /\ left' = IF success THEN SongLen ELSE left
    /\ pc' = IF pc = "start" THEN IF ok' THEN "startOff" ELSE "startVocal"
             ELSE IF ok' THEN "restartOff" ELSE "restartVocal"
    /\ UNCHANGED <<volumeVars, nPlayIndex, ready, loop, modeVars, remoteVars,
                   codecVars, card>>

\* At "start" main reads the mode switch itself, at "restart" bPlayMode.
Start == \E bgm \in BOOLEAN : pc = "start" /\ StartSong(bgm)
Restart == pc = "restart" /\ StartSong(bPlayMode)

\* Main is about to switch the interface on, at a song's start.
SwitchesOn == pc \in {"startOn", "restartOn"}

AfterSwitch ==
    CASE pc = "startOff" -> "startRate"   [] pc = "restartOff" -> "restartRate"
      [] pc = "startRate" -> "startOn"    [] pc = "restartRate" -> "restartOn"
      [] pc = "startOn" -> "startVocal"   [] pc = "restartOn" -> "restartVocal"

\* The interface is switched off, the sample rate set, the FIFOs cleared, the
\* interface switched on again.
InterfaceOff ==
    /\ pc \in {"startOff", "restartOff"}
    /\ active' = FALSE /\ cut' = FALSE
    /\ pc' = AfterSwitch
    /\ UNCHANGED <<volumeVars, nPlayIndex, ready, loop, songVars, modeVars,
                   remoteVars, dac, adc, card>>

SetsRate == pc \in {"startRate", "restartRate"}

SampleRate ==
    /\ SetsRate
    /\ dac' = 0 /\ adc' = 0
    /\ pc' = AfterSwitch
    /\ UNCHANGED <<volumeVars, nPlayIndex, ready, loop, songVars, modeVars,
                   remoteVars, active, cut, card>>

\* Mutant: waveplay_start leaves the codec's interface off.
InterfaceLeftOff ==
    /\ SwitchesOn
    /\ pc' = AfterSwitch
    /\ UNCHANGED <<volumeVars, nPlayIndex, ready, loop, songVars, modeVars,
                   remoteVars, codecVars, card>>

InterfaceOn ==
    /\ SwitchesOn
    /\ active' = TRUE /\ cut' = FALSE
    /\ pc' = AfterSwitch
    /\ UNCHANGED <<volumeVars, nPlayIndex, ready, loop, songVars, modeVars,
                   remoteVars, dac, adc, card>>

\* The vocal track's outcome overwrites the song's, unless it does not open.
VocalOutcomes(opens) ==
    IF ~bKaraoke THEN {ok}
    ELSE IF opens THEN Starts(opens)
    ELSE IF ok THEN BOOLEAN ELSE {FALSE}

StartVocal ==
    /\ pc \in {"startVocal", "restartVocal"}
    /\ \E opens \in IF bKaraoke THEN Opens(VocalFiles) ELSE {TRUE} :
       \E success \in VocalOutcomes(opens) :
          /\ opened' = (opened /\ opens)
          /\ ready' = (ready /\ success)
          /\ pc' = IF pc = "restartVocal" THEN "last"
                   ELSE IF success THEN "execute" ELSE "insert"
    /\ ok' = FALSE
    /\ loop' = IF pc = "startVocal" THEN NewTurn ELSE loop
    /\ UNCHANGED <<volumeVars, nPlayIndex, left, modeVars, remoteVars, codecVars, card>>
-----------------------------------------------------------------------------
\* Mutant: the end of the song is not reported.
ExecuteEndUnnoticed ==
    /\ pc = "execute" /\ left = 0
    /\ bKaraoke' = FALSE
    /\ pc' = "key"
    /\ UNCHANGED <<volumeVars, nPlayIndex, ready, loop, songVars, bPlayMode, remoteVars,
                   codecVars, card>>

(* waveplay_execute *)
ExecuteEnd ==
    /\ pc = "execute" /\ left = 0
    /\ loop' = [loop EXCEPT !.eof = TRUE]
    /\ bKaraoke' = FALSE
    /\ pc' = "key"
    /\ UNCHANGED <<volumeVars, nPlayIndex, ready, songVars, bPlayMode, remoteVars,
                   codecVars, card>>

\* A song's first chunk came with its header, the others are read now.
ExecuteRead ==
    /\ pc = "execute" /\ left > 0
    /\ (card /\ opened) \/ left = SongLen
    /\ pc' = "copy"
    /\ UNCHANGED <<volumeVars, nPlayIndex, ready, loop, songVars, modeVars,
                   remoteVars, codecVars, card>>

\* The card was pulled, its bus failed, or there was no file to read from.
ExecuteFails ==
    /\ pc = "execute" /\ left \in 1 .. SongLen - 1
    /\ ready' = FALSE
    /\ pc' = "key"
    /\ UNCHANGED <<volumeVars, nPlayIndex, loop, songVars, modeVars, remoteVars,
                   codecVars, card>>

\* The copy waits for room in the one FIFO, and when singing for the other.
Copy ==
    /\ pc = "copy"
    /\ dac < FifoLen /\ (bKaraoke => adc > 0)
    /\ dac' = dac + 1 /\ adc' = IF bKaraoke THEN adc - 1 ELSE adc
    /\ left' = left - 1
    /\ pc' = "key"
    /\ UNCHANGED <<volumeVars, nPlayIndex, ready, loop, ok, opened, modeVars,
                   remoteVars, active, cut, card>>
-----------------------------------------------------------------------------
(* handle_key: the switches, the buttons, the volume window *)
KeyCall(button, next, mode) ==
    /\ pc = "key"
    /\ KeyTest(button)
    /\ loop' = [loop EXCEPT !.next = next, !.mode = mode # bPlayMode]
    /\ bPlayMode' = mode
    /\ pc' = "handle"
    /\ UNCHANGED <<nPlayIndex, ready, songVars, bKaraoke, remoteVars, codecVars, card>>

HandleKey ==
    /\ pc = "handle"
    /\ KeyRead \/ KeyLeft \/ KeyRight \/ KeyStore
    /\ bKaraoke' = (bKaraoke # (key.step = "store" /\ "karaoke" \in key.button))
    /\ UNCHANGED <<pc, nPlayIndex, ready, loop, songVars, bPlayMode, remoteVars,
                   codecVars, card>>

\* A change of mode restarts the song and goes on; the karaoke button breaks
\* out of the inner loop, before the remote's switches are looked at.
HandleKeyReturns ==
    /\ pc = "handle"
    /\ KeyReturn
    /\ pc' = IF loop.mode THEN "restart"
             ELSE IF "karaoke" \notin key.button THEN "last"
             ELSE IF ready THEN "start" ELSE "insert"
    /\ loop' = IF pc' \in {"start", "insert"} THEN NewTurn ELSE loop
    /\ UNCHANGED <<nPlayIndex, ready, songVars, modeVars, remoteVars,
                   codecVars, card>>
-----------------------------------------------------------------------------
(* The remote's switches: read one after the other, acted on, cleared. *)
ReadLastSwitch ==
    /\ pc = "last"
    /\ loop' = IF bLastSwitch THEN [loop EXCEPT !.last = TRUE, !.next = FALSE] ELSE loop
    /\ pc' = "next"
    /\ UNCHANGED <<volumeVars, nPlayIndex, ready, songVars, modeVars, remoteVars,
                   codecVars, card>>

\* Mutants: "last" wins over "next"; the switch is only looked at when the song
\* has ended.
ReadNextSwitchUnlessLast ==
    /\ pc = "next"
    /\ loop' = IF bNextSwitch /\ ~loop.last
               THEN [loop EXCEPT !.next = TRUE] ELSE loop
    /\ pc' = "advance"
    /\ UNCHANGED <<volumeVars, nPlayIndex, ready, songVars, modeVars, remoteVars,
                   codecVars, card>>

ReadNextSwitchAtEnd ==
    /\ pc = "next"
    /\ loop' = IF bNextSwitch /\ loop.eof
               THEN [loop EXCEPT !.last = FALSE, !.next = TRUE] ELSE loop
    /\ pc' = "advance"
    /\ UNCHANGED <<volumeVars, nPlayIndex, ready, songVars, modeVars, remoteVars,
                   codecVars, card>>

ReadNextSwitch ==
    /\ pc = "next"
    /\ loop' = IF bNextSwitch THEN [loop EXCEPT !.last = FALSE, !.next = TRUE] ELSE loop
    /\ pc' = "advance"
    /\ UNCHANGED <<volumeVars, nPlayIndex, ready, songVars, modeVars, remoteVars,
                   codecVars, card>>

NextIndex(i) == IF i + 1 >= NFiles THEN 0 ELSE i + 1
LastIndex(i) == IF i - 1 < 0 THEN NFiles - 1 ELSE i - 1

\* The repeat switch is read in every turn, by handle_key or the remote, and is
\* in either position.
Advance ==
    /\ pc = "advance"
    /\ LET pressed == loop.last \/ loop.next
           turns == ready /\ (loop.eof \/ pressed)
       IN /\ \E bRepeatMode \in BOOLEAN :
             LET forward == loop.next \/ (loop.eof /\ (pressed \/ ~bRepeatMode))
                 i == IF forward THEN NextIndex(nPlayIndex) ELSE nPlayIndex
             IN nPlayIndex' = IF ~turns THEN nPlayIndex
                              ELSE IF loop.last THEN LastIndex(i) ELSE i
          /\ loop' = [loop EXCEPT !.done = turns]
          /\ owed' = (owed /\ ~(turns /\ loop.next))
    /\ pc' = "clearLast"
    /\ UNCHANGED <<volumeVars, ready, songVars, modeVars, bLastSwitch,
                   bNextSwitch, bPlaySwitch, codecVars, card>>

ClearLastSwitch ==
    /\ pc = "clearLast"
    /\ bLastSwitch' = FALSE
    /\ pc' = "clearNext"
    /\ UNCHANGED <<volumeVars, nPlayIndex, ready, loop, songVars, modeVars,
                   bNextSwitch, bPlaySwitch, owed, codecVars, card>>

ClearNextSwitch ==
    /\ pc = "clearNext"
    /\ bNextSwitch' = FALSE /\ owed' = FALSE
    /\ loop' = NewTurn
    /\ pc' = IF ~ready THEN "insert" ELSE IF loop.done THEN "start" ELSE "execute"
    /\ UNCHANGED <<volumeVars, nPlayIndex, ready, songVars, modeVars,
                   bLastSwitch, bPlaySwitch, codecVars, card>>
-----------------------------------------------------------------------------
\* A press is seen by this turn of the loop or a later one, unless it comes
\* between the loop's look at the switch and the line that clears it.
SwitchIsSeen == pc \notin {"advance", "clearLast", "clearNext"}

\* handle_IrDA but for the codec: the song, the pause.
IrDASwitches(button) ==
    /\ bLastSwitch' = (bLastSwitch \/ button = "last")
    /\ bNextSwitch' = (bNextSwitch \/ button = "next")
    /\ owed' = (owed \/ (button = "next" /\ SwitchIsSeen))
    /\ bPlaySwitch' = (bPlaySwitch # (button = "play"))
    /\ UNCHANGED <<nPlayIndex, ready, loop, songVars, bKaraoke, bPlayMode, card>>

HandleIrDA(button) ==
    /\ RemoteVolume(button)
    /\ IrDASwitches(button)
    /\ IF button = "play" THEN active' = bPlaySwitch' /\ cut' = FALSE
                          ELSE UNCHANGED <<active, cut>>
    /\ UNCHANGED <<pc, dac, adc>>

\* The handler in the middle of a transfer of main's (see VolumeControl): of
\* the volume, of AUDIO_Init's, of waveplay_start's.  Whose write counts is
\* anyone's guess; I2C_AUDIO_ADDR taken for data switches the interface off.
MaySend(button, a) == IF button = "play" THEN {a, bPlaySwitch'} ELSE {a}

IrDACutsVolume(button) ==
    /\ pc \in {"boot", "handle"}
    /\ Sends(button)
    /\ RemoteCuts(button)
    /\ IrDASwitches(button)
    /\ active' \in MaySend(button, active)
    /\ cut' = (cut \/ button = "play")
    /\ UNCHANGED <<pc, dac, adc>>

IrDACutsBoot(button) ==
    /\ pc = "boot"
    /\ Sends(button)
    /\ BootCut(button)
    /\ IrDASwitches(button)
    /\ \E mine \in {active, BootSwitches, active /\ boot # "on"} :
          active' \in MaySend(button, mine)
    /\ cut' = (cut \/ button = "play" \/ boot # "source")
    /\ pc' = IF boot' = "failed" THEN "exit" ELSE "boot"
    /\ UNCHANGED <<dac, adc>>

IrDACutsSongStart(button) ==
    /\ pc \in {"startOff", "startRate", "startOn",
               "restartOff", "restartRate", "restartOn"}
    /\ Sends(button)
    /\ SongStartCut(button)
    /\ IrDASwitches(button)
    /\ \E mine \in IF SetsRate THEN {active} ELSE {active, FALSE, SwitchesOn} :
          active' \in MaySend(button, mine)
    /\ cut' = (IF SetsRate THEN cut \/ button = "play" ELSE TRUE)
    /\ IF SetsRate THEN dac' = 0 /\ adc' = 0 ELSE UNCHANGED <<dac, adc>>
    /\ pc' = AfterSwitch

Codec ==
    /\ active
    /\ dac' = IF dac > 0 THEN dac - 1 ELSE 0
    /\ adc' = IF adc < FifoLen THEN adc + 1 ELSE adc
    /\ UNCHANGED <<volumeVars, pc, nPlayIndex, ready, loop, songVars, modeVars,
                   remoteVars, active, cut, card>>

CardMoves ==
    /\ card' = ~card
    /\ UNCHANGED <<volumeVars, pc, nPlayIndex, ready, loop, songVars, modeVars,
                   remoteVars, codecVars>>

Main ==
    \/ Boot \/ BootReturns \/ Insert \/ Mount \/ MountFails
    \/ Start \/ Restart \/ InterfaceOff \/ SampleRate \/ InterfaceOn \/ StartVocal
    \/ ExecuteEnd \/ ExecuteRead \/ ExecuteFails \/ Copy
    \/ \E button \in Keys, next, mode \in BOOLEAN :
          KeyCall(button, next, mode)
    \/ HandleKey \/ HandleKeyReturns
    \/ ReadLastSwitch \/ ReadNextSwitch \/ Advance
    \/ ClearLastSwitch \/ ClearNextSwitch

Remote == \E button \in RemoteButtons :
    \/ HandleIrDA(button)
    \/ IrDACutsVolume(button) \/ IrDACutsBoot(button)
    \/ IrDACutsSongStart(button)

Next == Main \/ Remote \/ Codec \/ CardMoves

\* The processor returns from every interrupt to main; the codec is clocked.
LiveSpec == Init /\ [][Next]_vars /\ WF_vars(Main) /\ WF_vars(Codec)
-----------------------------------------------------------------------------
\* A press of "next" on the remote that came while the loop could see it is
\* acted on by the turn that clears it: no change of mode, no break of the
\* karaoke button and no press of "last" drops it.  Only the turn that gives
\* the song up, by a failed read or start, clears it without acting.
NextIsNotForgotten ==
    owed => bNextSwitch /\ (pc \in {"clearLast", "clearNext"} => ~ready)

\* Main will switch the interface on before its start-up is over.
BootSwitchesOn == pc = "boot" /\ boot \in BootTransfers \ {"source"}

\* The codec is silent by the remote's pause, not by a reset of main's.
Paused == ~active /\ ~(BootSwitchesOn \/ SetsRate \/ SwitchesOn)

\* The program never believes it plays while the codec's interface is off,
\* except inside waveplay_start and main's start-up, and after a collision on
\* the bus: else the loop would wait for FIFO room forever and the next press
\* of "play" would pause it for good.
PlaySwitchMeansActive == bPlaySwitch /\ ~cut => ~Paused

\* The loop moves on by the press.
ActsOnNext == pc \in {"clearLast", "clearNext"} /\ loop.next /\ loop.done

\* Every press of "next" the loop could see is acted on in the end, unless main
\* gives its song up (a failed read or start: it is back at waiting for a card),
\* has returned, playback is paused (the loop waits inside waveplay_execute), or
\* the karaoke button breaks out of the turn that would see it.
NextIsHonoured ==
    owed ~> \/ ActsOnNext \/ Paused \/ pc \in {"insert", "exit"}
            \/ pc = "handle" /\ "karaoke" \in key.button

\* Songs go on being started as long as nobody pauses and the card stays.
MusicGoesOn ==
    <>[](~Paused /\ card) => []<>(pc \in {"start", "restart", "exit"})
=============================================================================

--------------------------- MODULE VolumeControl ---------------------------
(***************************************************************************)
(* The line-out volume of the SD-card karaoke player (main.c).  Two        *)
(* threads of control set it: main, when it starts up and in handle_key,   *)
(* and handle_IrDA, the interrupt handler of the remote control.  The      *)
(* handler is enabled before main does anything else and runs to           *)
(* completion between any two of main's steps.  handle_key tests the       *)
(* buttons, reads the volume, writes the left and the right register of    *)
(* the codec over I2C (AUDIO_SetLineOutVol) and stores the volume; main    *)
(* masks no interrupt while it does so, nor while it starts up.            *)
(*                                                                         *)
(* Both drive the two I2C lines pin by pin and nobody arbitrates: when the *)
(* handler has something to send while main is in the middle of a          *)
(* transfer, the codec takes main's transfer for broken off and refuses    *)
(* what is left of it.  A cut into an acknowledge bit, which the codec     *)
(* drives, may cost the handler's transfer instead, and leave its address  *)
(* byte in main's register.                                                *)
(***************************************************************************)
EXTENDS Integers

CONSTANTS HW_MIN_VOL,       \* main.c 73
          HW_MAX_VOL,       \* main.c 72
          HW_DEFAULT_VOL,   \* main.c 74
          ResetLevel,       \* what a reset leaves in the codec's registers
          InitLevel,        \* what AUDIO_Init writes there
          AddressLevel      \* the level I2C_AUDIO_ADDR is, taken for one
ASSUME VolumeAssumption ==
    {HW_MIN_VOL, HW_MAX_VOL, HW_DEFAULT_VOL, ResetLevel, InitLevel, AddressLevel}
        \subseteq Int

VARIABLES
    boot,           \* how far main has come before its loop
    nVolume,        \* gWavePlay.nVolume
    line,           \* the codec's line-out registers 2 and 3, as [l, r]
    nMute_Volume,
    bMuteSwitch,
    key,            \* handle_key: where it is, its button, and the arguments
                    \* of AUDIO_SetLineOutVol
    keyFirst,       \* handle_key's bFirsTime2SetupVol
    irFirst         \* handle_IrDA's bFirsTime2SetupVol

keyVars == <<key, keyFirst>>
remoteVolumeVars == <<nMute_Volume, bMuteSwitch, irFirst>>
volumeVars == <<boot, nVolume, line, keyVars, remoteVolumeVars>>

VolumeKeys == {"up", "down", "karaoke"}
Both(v) == [l |-> v, r |-> v]
Rest == [step |-> "rest", button |-> {}, vol |-> Both(0)]
-----------------------------------------------------------------------------
\* One notch up or down, by the rules both handlers use.
Louder(v) == IF v < HW_MAX_VOL THEN v + 1 ELSE v
Softer(v) == IF v > HW_MIN_VOL THEN v - 1 ELSE v
Stepped(v, first, up) ==
    IF first THEN v ELSE IF up THEN Louder(v) ELSE Softer(v)

VolumeInit ==
    /\ boot = "reset" /\ nVolume = 0 /\ line = Both(ResetLevel)
    /\ nMute_Volume = 0 /\ bMuteSwitch = FALSE
    /\ key = Rest /\ keyFirst = TRUE /\ irFirst = TRUE
-----------------------------------------------------------------------------
(***************************************************************************)
(* main's start-up: the registers AUDIO_Init writes, one after the other,  *)
(* that of AUDIO_SetInputSource, memset, the default volume, the two       *)
(* arguments of AUDIO_SetLineOutVol as they are loaded, and the call.      *)
(***************************************************************************)
BootNext == [reset |-> "off", off |-> "lineInL", lineInL |-> "lineInR",
             lineInR |-> "left", left |-> "right", right |-> "path",
             path |-> "digital", digital |-> "power", power |-> "format",
             format |-> "rate", rate |-> "on", on |-> "source",
             source |-> "memset", memset |-> "default", default |-> "loadL",
             loadL |-> "loadR", loadR |-> "line", line |-> "up"]

\* Main has a transfer to make that is not one of the volume's.
BootTransfers == DOMAIN BootNext \ {"memset", "default", "loadL", "loadR", "line"}

\* The registers once the codec has taken v for the register reg.
Taken(reg, v) ==
    CASE reg = "left" -> [line EXCEPT !.l = v]
      [] reg = "right" -> [line EXCEPT !.r = v]
      [] OTHER -> line

BootTaken == IF boot = "reset" THEN Both(ResetLevel) ELSE Taken(boot, InitLevel)

BootWrites ==
    /\ boot \in BootTransfers
    /\ line' = BootTaken
    /\ boot' = BootNext[boot]
    /\ UNCHANGED <<nVolume, keyVars, remoteVolumeVars>>

\* memset over gWavePlay, then HW_DEFAULT_VOL: what the remote did to the
\* volume so far is undone, what it did to bMuteSwitch is not.
BootSetsVolume ==
    /\ boot \in {"memset", "default"}
    /\ nVolume' = IF boot = "memset" THEN 0 ELSE HW_DEFAULT_VOL
    /\ boot' = BootNext[boot]
    /\ UNCHANGED <<line, keyVars, remoteVolumeVars>>

BootLoadsLeft ==
    /\ boot = "loadL"
    /\ key' = [key EXCEPT !.vol.l = nVolume]
    /\ boot' = "loadR"
    /\ UNCHANGED <<nVolume, line, keyFirst, remoteVolumeVars>>

BootLoadsRight ==
    /\ boot = "loadR"
    /\ key' = [key EXCEPT !.step = "left", !.vol.r = nVolume]
    /\ boot' = "line"
    /\ UNCHANGED <<nVolume, line, keyFirst, remoteVolumeVars>>

Boots == BootWrites \/ BootSetsVolume \/ BootLoadsLeft \/ BootLoadsRight
-----------------------------------------------------------------------------
\* Mutant: the mute switch is not looked at.
KeyTestMuted(button) ==
    /\ boot = "up" /\ key.step = "rest"
    /\ key' = [Rest EXCEPT !.step = IF keyFirst \/ button # {} THEN "read" ELSE "done",
                           !.button = button]
    /\ UNCHANGED <<boot, nVolume, line, keyFirst, remoteVolumeVars>>

\* handle_key reads the buttons and decides whether to touch the volume;
\* the switch that forbids it is read here and not looked at again.
KeyTest(button) ==
    /\ boot = "up" /\ key.step = "rest"
    /\ key' = [Rest EXCEPT !.step = IF ~bMuteSwitch /\ (keyFirst \/ button # {})
                                    THEN "read" ELSE "done",
                           !.button = button]
    /\ UNCHANGED <<boot, nVolume, line, keyFirst, remoteVolumeVars>>

KeyRead ==
    /\ key.step = "read"
    /\ key' = [key EXCEPT !.step = "left",
                          !.vol = Both(Stepped(nVolume, keyFirst, "up" \in key.button))]
    /\ keyFirst' = FALSE
    /\ UNCHANGED <<boot, nVolume, line, remoteVolumeVars>>

KeyLeft ==
    /\ key.step = "left"
    /\ key' = [key EXCEPT !.step = "right"]
    /\ line' = Taken("left", key.vol.l)
    /\ UNCHANGED <<boot, nVolume, keyFirst, remoteVolumeVars>>

\* Where AUDIO_SetLineOutVol returns to.
AfterSet == IF boot = "line" THEN "done" ELSE "store"

\* Mutant: the right channel gets the volume from before the step.
KeyRightStale ==
    /\ key.step = "right"
    /\ key' = [key EXCEPT !.step = AfterSet]
    /\ line' = Taken("right", nVolume)
    /\ UNCHANGED <<boot, nVolume, keyFirst, remoteVolumeVars>>

KeyRight ==
    /\ key.step = "right"
    /\ key' = [key EXCEPT !.step = AfterSet]
    /\ line' = Taken("right", key.vol.r)
    /\ UNCHANGED <<boot, nVolume, keyFirst, remoteVolumeVars>>

KeyStore ==
    /\ key.step = "store"
    /\ key' = [key EXCEPT !.step = "done"]
    /\ nVolume' = key.vol.l
    /\ UNCHANGED <<boot, line, keyFirst, remoteVolumeVars>>

\* Back in main's loop, or in it for the first time.
KeyReturn ==
    /\ key.step = "done"
    /\ key' = Rest
    /\ boot' = "up"
    /\ UNCHANGED <<nVolume, line, keyFirst, remoteVolumeVars>>

(***************************************************************************)
(* handle_IrDA.  The first press of any button also "sets up" the volume;  *)
(* the mute button runs after that, in the same call.  Mute is told from   *)
(* unmute by the volume itself, so a volume lowered to HW_MIN_VOL by hand  *)
(* looks like a mute.                                                      *)
(***************************************************************************)
RemoteAdjusts(button) == (button \in {"up", "down"} \/ irFirst) /\ ~bMuteSwitch

\* Mutant: every press remembers the volume it finds.
RememberedAlways(mutes, v) == v

\* What nMute_Volume holds after a press that found the volume at v.
Remembered(mutes, v) == IF mutes THEN v ELSE nMute_Volume

\* The handler has a volume to send; to send at all, as the play button makes
\* it write the codec's interface switch.
RemoteSets(button) == RemoteAdjusts(button) \/ button = "mute"
Sends(button) == RemoteSets(button) \/ button = "play"

\* What the handler does to the program's variables.
RemoteDecides(button) ==
    LET v == IF RemoteAdjusts(button)
             THEN Stepped(nVolume, irFirst, button = "up") ELSE nVolume
        mutes == button = "mute" /\ v # HW_MIN_VOL
        unmutes == button = "mute" /\ v = HW_MIN_VOL
    IN /\ nVolume' = IF mutes THEN HW_MIN_VOL ELSE IF unmutes THEN nMute_Volume ELSE v
       /\ nMute_Volume' = Remembered(mutes, v)
       /\ bMuteSwitch' = (mutes \/ (bMuteSwitch /\ ~unmutes))
       /\ irFirst' = (irFirst /\ bMuteSwitch)
       /\ UNCHANGED keyFirst

\* What it sends, over registers that hold l.
Sent(button, l) == IF RemoteSets(button) THEN Both(nVolume') ELSE l

\* The handler between two transfers of main's, or with nothing to send.
RemoteVolume(button) ==
    /\ RemoteDecides(button)
    /\ line' = Sent(button, line)
    /\ UNCHANGED <<boot, key>>

\* What may come of a transfer of main's that the handler cuts into: the
\* codec takes it, takes the handler's address byte for its value, or does
\* not take it; whether main sees it acknowledged; and whether the codec
\* takes what the handler sends.
CutOutcomes ==
    [mine : {"taken", "mistaken", "lost"}, ok : {FALSE}, theirs : BOOLEAN]
    \cup [mine : {"taken"}, ok : {TRUE}, theirs : BOOLEAN]

\* The registers after such a cut: mine if the codec took what main sent,
\* mistaken if it took the address byte in its place.
CutLine(c, mine, mistaken, button) ==
    LET l == CASE c.mine = "taken" -> mine
               [] c.mine = "mistaken" -> mistaken
               [] c.mine = "lost" -> line
    IN IF c.theirs THEN Sent(button, l) ELSE l

\* The handler in the middle of a transfer of the volume's.
\* AUDIO_SetLineOutVol gives up at a transfer that was refused, and nobody
\* asks whether it did.
RemoteCuts(button) ==
    /\ key.step \in {"left", "right"}
    /\ RemoteDecides(button)
    /\ \E c \in CutOutcomes :
          /\ line' = CutLine(c, Taken(key.step, IF key.step = "left" THEN key.vol.l
                                                ELSE key.vol.r),
                             Taken(key.step, AddressLevel), button)
          /\ key' = [key EXCEPT !.step = IF c.ok /\ @ = "left" THEN "right" ELSE AfterSet]
    /\ UNCHANGED boot

\* The handler in the middle of a transfer of AUDIO_Init's: main returns if it
\* was refused.  After that of AUDIO_SetInputSource main goes on all the same.
BootCut(button) ==
    /\ boot \in BootTransfers
    /\ RemoteDecides(button)
    /\ \E c \in CutOutcomes :
          /\ line' = CutLine(c, BootTaken, Taken(boot, AddressLevel), button)
          /\ boot' = IF c.ok \/ boot = "source" THEN BootNext[boot] ELSE "failed"
    /\ UNCHANGED key

\* The handler in the middle of a transfer of waveplay_start's: the registers
\* main writes there are others, but the handler's own transfer may be lost.
SongStartCut(button) ==
    /\ boot = "up" /\ key.step = "rest"
    /\ RemoteDecides(button)
    /\ line' \in {line, Sent(button, line)}
    /\ UNCHANGED <<boot, key>>
=============================================================================

---------------------------- MODULE VolumeBench ----------------------------
(***************************************************************************)
(* The volume alone: main's start-up, then handle_key called over and      *)
(* over and songs started between its calls, the remote's handler between  *)
(* any two of main's steps or in the middle of one, every combination of   *)
(* buttons.  Three history variables say what a listener would remember.   *)
(***************************************************************************)
EXTENDS VolumeControl

VARIABLES torn,     \* since main last began to set the volume, the remote came
                    \* between its steps or cut into a transfer, and nobody has
                    \* set the volume in peace since
          untimely, \* so did the press that put the mute on
          heard     \* the level the last mute silenced

benchVars == <<volumeVars, torn, untimely, heard>>

BenchInit ==
    VolumeInit /\ torn = TRUE /\ untimely = FALSE /\ heard = HW_DEFAULT_VOL

\* Main is between its test of bMuteSwitch, or the beginning of its start-up,
\* and its last step with the volume.
InWindow ==
    \/ boot \notin {"line", "up", "failed"}
    \/ key.step \in {"read", "left", "right", "store"}

StartsUp ==
    /\ Boots
    /\ torn' = (torn /\ boot # "loadL")
    /\ UNCHANGED <<untimely, heard>>

CallsHandleKey(button) ==
    /\ KeyTest(button)
    /\ torn' = (torn /\ key'.step = "done")
    /\ UNCHANGED <<untimely, heard>>

HandlesKey == (KeyRead \/ KeyLeft \/ KeyRight \/ KeyStore \/ KeyReturn)
              /\ UNCHANGED <<torn, untimely, heard>>

\* What a listener makes of a press that came in peace, or did not.
Hears(button, peace) ==
    /\ untimely' = IF button = "mute" /\ bMuteSwitch' THEN ~peace ELSE untimely
    /\ heard' = IF button = "mute" /\ bMuteSwitch' THEN nVolume ELSE heard

RemotePressed(button) ==
    /\ RemoteVolume(button)
    /\ Hears(button, ~InWindow)
    /\ torn' = IF RemoteSets(button) THEN InWindow ELSE torn

CutsVolume(button) ==
    /\ Sends(button)
    /\ BootCut(button) \/ RemoteCuts(button)
    /\ Hears(button, FALSE)
    /\ torn' = TRUE

CutsSongStart(button) ==
    /\ Sends(button)
    /\ SongStartCut(button)
    /\ Hears(button, FALSE)
    /\ torn' = (torn \/ RemoteSets(button))

BenchNext ==
    \/ StartsUp
    \/ \E button \in SUBSET VolumeKeys : CallsHandleKey(button)
    \/ HandlesKey
    \/ \E button \in {"up", "down", "mute", "play"} :
          RemotePressed(button) \/ CutsVolume(button) \/ CutsSongStart(button)

BenchSpec == BenchInit /\ [][BenchNext]_benchVars
-----------------------------------------------------------------------------
\* The volume the program believes in and the one both channels play may come
\* apart where nothing arbitrates between main and the remote: the remote in
\* the middle of main's setting, or of a transfer.  They are together again as
\* soon as main has set the volume undisturbed, or the remote has outside:
\* there is no other way for them to part, and none in which they stay apart.
LineOutMatchesVolume == ~torn /\ ~InWindow => line = Both(nVolume)

\* While a mute of the remote is on that came in peace, nothing pressed since,
\* however it meets main's steps and transfers, makes the player audible again:
\* the test of bMuteSwitch in both handlers.
MuteIsSilent ==
    bMuteSwitch /\ ~untimely => nVolume = HW_MIN_VOL /\ line = Both(HW_MIN_VOL)

\* Unmuting returns to the level the mute silenced, whatever was pressed since.
UnmuteRestores ==
    [][bMuteSwitch /\ ~bMuteSwitch' => nVolume' = heard]_benchVars
=============================================================================

------------------------------ MODULE MCPlayer ------------------------------
(* Songs of two chunks, a codec that holds one; the remote skips back and   *)
(* forth and pauses.  One volume level: VolumeBench is about volume.        *)
EXTENDS Player

MCKeys == {{}, {"karaoke"}}
MCRemoteButtons == {"last", "next", "play"}
=============================================================================

----------------------------- MODULE ByteStream -----------------------------
(***************************************************************************)
(* What the karaoke player may rely on when it plays from a card: after a  *)
(* mount in calm - the card in its slot and the bus quiet - a file of the  *)
(* card opens, and each read of it returns the next bytes of that file.    *)
(* After any other mount a call may fail, and then the file must be opened *)
(* or sought again, or the bytes of its stream are lost; or a stream may   *)
(* have been tampered with on its way, and then what its reads return is   *)
(* anybody's guess.                                                        *)
(***************************************************************************)
EXTENDS Integers, Sequences

CONSTANTS Files, Media,
          Bytes         \* [Media -> [Files -> Seq]]; an absent file is empty

VARIABLES
    mount,      \* the medium, and whether it was mounted in calm
    pos,        \* per file: the position of its stream, or why it has none
    last        \* the last call and its result

vars == <<mount, pos, last>>

Closed == -1
Failed == -2
Tampered == -3
Down == {Closed, Failed, Tampered}
Size(f) == Len(Bytes[mount.medium][f])
Call(f, ok, data) == [f |-> f, ok |-> ok, data |-> data]
NoCall == Call("none", FALSE, <<>>)

Init ==
    /\ mount = [medium |-> "none", calm |-> FALSE]
    /\ pos = [f \in Files |-> Closed] /\ last = NoCall

Mount(m, calm) ==
    /\ mount' = [medium |-> m, calm |-> calm]
    /\ pos' = [f \in Files |-> Closed] /\ last' = NoCall

Unmount ==
    /\ mount' = [medium |-> "none", calm |-> FALSE]
    /\ pos' = [f \in Files |-> Closed] /\ last' = NoCall

\* A call begins.
Begin == last' = NoCall /\ UNCHANGED <<mount, pos>>

\* A file is opened at its beginning; without it on the medium, it is not.
Open(f) ==
    /\ mount.medium # "none"
    /\ Size(f) > 0 => pos' = [pos EXCEPT ![f] = 0] /\ last' = Call(f, TRUE, <<>>)
    /\ Size(f) = 0 => pos' = [pos EXCEPT ![f] = Closed] /\ last' = Call(f, FALSE, <<>>)
    /\ UNCHANGED mount

\* The next n bytes of the file, all of them and in their order.
Read(f, n) ==
    /\ pos[f] \notin Down /\ pos[f] + n <= Size(f)
    /\ pos' = [pos EXCEPT ![f] = @ + n]
    /\ last' = Call(f, TRUE, SubSeq(Bytes[mount.medium][f], pos[f] + 1, pos[f] + n))
    /\ UNCHANGED mount

\* A client that goes on reading after a failed call, without opening or
\* seeking the file again, gets what it gets.
ReadOn(f) ==
    /\ pos[f] = Failed
    /\ pos' = [pos EXCEPT ![f] = Tampered] /\ last' = NoCall
    /\ UNCHANGED mount

Seek(f, p) ==
    /\ pos[f] \notin {Closed, Tampered} /\ p <= Size(f)
    /\ pos' = [pos EXCEPT ![f] = p] /\ last' = Call(f, TRUE, <<>>)
    /\ UNCHANGED mount

\* Only when the mount was not a calm one: a call fails, or noise gets into
\* the stream, with or without a call that ends.
Disturb(f) ==
    /\ mount.medium # "none" /\ ~mount.calm
    /\ \E d \in Down : pos' = [pos EXCEPT ![f] = d]
    /\ last' \in {last, Call(f, FALSE, <<>>)}
    /\ UNCHANGED mount

Next ==
    \/ \E m \in Media, calm \in BOOLEAN : Mount(m, calm)
    \/ Unmount \/ Begin
    \/ \E f \in Files :
        \/ Open(f) \/ ReadOn(f) \/ Disturb(f)
        \/ \E n \in 0 .. Size(f) : Read(f, n) \/ Seek(f, n)

Spec == Init /\ [][Next]_vars
=============================================================================

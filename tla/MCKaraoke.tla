----------------------------- MODULE MCKaraoke ------------------------------
(* Three titles, one the beginning of another, in three versions each, the  *)
(* songs and the vocal tracks in all orders; buffers of four frames.  The    *)
(* data chunks begin on a frame or not, at different places, are longer or  *)
(* shorter than the first buffer, or lie behind it; one vocal track is      *)
(* shorter than its song; one wave file has another name than those the     *)
(* player looks for.                                                        *)
EXTENDS Karaoke, TLC

\* '(' < '.' < letters; what follows '(' and '.' tells the endings apart.
MCEnding == [song |-> <<2, 20>>, bgm |-> <<1, 21>>, vocal |-> <<1, 22>>]
A == <<10>>
AB == <<10, 11>>
C == <<12>>
Name(t, k) == t \o MCEnding[k]
Text == <<10, 2, 23>>
Bare == <<13, 3, 20>>

MkChunk(id, size) == [id |-> id, size |-> size]
Wave(data) == [chunks |-> <<MkChunk("fmt", 1), MkChunk("data", data)>>, pcm |-> TRUE]
WithList(n, data) ==
    [chunks |-> <<MkChunk("fmt", 1), MkChunk("LIST", n), MkChunk("data", data)>>, pcm |-> TRUE]

MCFile ==
    Name(A, "song") :> Wave(14) @@ Name(A, "vocal") :> Wave(14) @@ Name(A, "bgm") :> Wave(4)
    @@ Name(AB, "song") :> WithList(1, 10) @@ Name(AB, "vocal") :> WithList(1, 2)
    @@ Name(AB, "bgm") :> WithList(4, 4)
    @@ Name(C, "song") :> WithList(2, 8) @@ Name(C, "vocal") :> Wave(12) @@ Name(C, "bgm") :> Wave(2)
    @@ Text :> [chunks |-> <<>>, pcm |-> FALSE] @@ Bare :> Wave(12)

Order(k, p, q, r) == <<Name(p, k), Name(q, k), Name(r, k)>>

MCDirs ==
    {Order("song", C, AB, A) \o <<Text>> \o Order("vocal", A, AB, C) \o Order("bgm", A, C, AB),
     Order("vocal", AB, C, A) \o Order("song", A, C, AB) \o Order("bgm", AB, A, C) \o <<Text>>,
     <<Text>> \o Order("bgm", AB, C, A) \o Order("song", AB, A, C) \o Order("vocal", C, A, AB),
     <<Bare, Name(A, "song"), Name(A, "bgm"), Name(A, "vocal")>>,
     <<Text>>}
=============================================================================

----------------------------- MODULE WnChannel ------------------------------
(***************************************************************************)
(* What one direction of a session promises, whatever the transport does:  *)
(* the reader takes the writer's payloads 1, 2, 3, ... in the order they   *)
(* were written, none twice and none left out, and is told of the end of   *)
(* the stream only when it has taken every payload.                        *)
(***************************************************************************)
EXTENDS Naturals, Sequences

VARIABLES
    sent,       \* how many payloads the writer has handed over
    got,        \* the payloads the reader has taken, in order
    reader      \* "open"; "eof": told of the end; "gone": has let go

cvars == <<sent, got, reader>>

ChannelInit == sent = 0 /\ got = <<>> /\ reader = "open"

Put ==
    /\ reader # "eof"
    /\ sent' = sent + 1
    /\ UNCHANGED <<got, reader>>

Take ==
    /\ reader = "open"
    /\ Len(got) < sent
    /\ got' = Append(got, Len(got) + 1)
    /\ UNCHANGED <<sent, reader>>

EndOfStream ==
    /\ reader = "open"
    /\ Len(got) = sent
    /\ reader' = "eof"
    /\ UNCHANGED <<sent, got>>

LetGo ==
    /\ reader' = "gone"
    /\ UNCHANGED <<sent, got>>

ChannelNext == Put \/ Take \/ EndOfStream \/ LetGo

ChannelSpec == ChannelInit /\ [][ChannelNext]_cvars
=============================================================================

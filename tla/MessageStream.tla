--------------------------- MODULE MessageStream ---------------------------
(***************************************************************************)
(* What a connection promises to those who push messages into it: a        *)
(* stream.  A message is accepted whole, as a header and a content; the    *)
(* units accepted leave in the order they were accepted, and a closed      *)
(* stream accepts nothing.                                                 *)
(***************************************************************************)
EXTENDS Naturals, Sequences

VARIABLES
    accepted,   \* the units taken, in order
    sent,       \* the units that left
    closed

vars == <<accepted, sent, closed>>

Init == accepted = <<>> /\ sent = <<>> /\ closed = FALSE

\* The two units of the next message.
Message == <<Len(accepted) + 1, Len(accepted) + 2>>

Accept ==
    /\ ~closed
    /\ accepted' = accepted \o Message
    /\ UNCHANGED <<sent, closed>>

Transmit ==
    /\ \E n \in Len(sent) + 1 .. Len(accepted) :
          sent' = SubSeq(accepted, 1, n)
    /\ UNCHANGED <<accepted, closed>>

Close == ~closed /\ closed' = TRUE /\ UNCHANGED <<accepted, sent>>

Next == Accept \/ Transmit \/ Close

Spec == Init /\ [][Next]_vars
=============================================================================

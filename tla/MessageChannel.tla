--------------------------- MODULE MessageChannel ---------------------------
(***************************************************************************)
(* What one direction of a TcpConnection promises: whole messages, each at *)
(* most once, in the order they were sent, with nothing left out; and once *)
(* a receive has failed, no message any more.                              *)
(***************************************************************************)
EXTENDS Naturals, Sequences

VARIABLES
    sent,   \* messages whose sending has begun
    got,    \* messages the receiver was given
    failed  \* the receiver has stopped reading

vars == <<sent, got, failed>>

Init == sent = <<>> /\ got = <<>> /\ failed = FALSE

Send ==
    /\ Len(sent') = Len(sent) + 1
    /\ SubSeq(sent', 1, Len(sent)) = sent
    /\ UNCHANGED <<got, failed>>

Deliver ==
    /\ ~failed
    /\ Len(got) < Len(sent)
    /\ got' = Append(got, sent[Len(got) + 1])
    /\ UNCHANGED sent
    /\ failed' \in BOOLEAN

Fail == failed' = TRUE /\ UNCHANGED <<sent, got>>

Next == Send \/ Deliver \/ Fail

Spec == Init /\ [][Next]_vars
=============================================================================

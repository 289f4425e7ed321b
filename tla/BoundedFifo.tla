---------------------------- MODULE BoundedFifo ----------------------------
(***************************************************************************)
(* What llt::SpscQueue promises to its producer and its consumer, with the *)
(* ring buffer, the indices and the memory order left out.                 *)
(*                                                                         *)
(* An accepted item is delivered exactly once and in order.  The consumer  *)
(* sees a prefix of what was accepted (a release store becomes visible     *)
(* after a while), the producer learns of freed room after a while, and an *)
(* offered item may be refused only while, as far as the producer can      *)
(* know, Capacity - 1 items are outstanding.                               *)
(***************************************************************************)
EXTENDS Naturals, Sequences

CONSTANTS
    Item,       \* what may be pushed
    NoItem,     \* std::nullopt, and "no push in progress"
    Capacity,   \* template parameter of SpscQueue; one slot stays unused
    CounterMod  \* range of the std::size_t drop counter

VARIABLES
    offered,     \* argument of the push in progress
    queue,       \* accepted and not yet delivered, oldest first
    visible,     \* how many of them the consumer can see
    unreclaimed, \* delivered items whose room the producer still counts
    dropped,     \* refused pushes
    popped       \* result of the latest pop

vars == <<offered, queue, visible, unreclaimed, dropped, popped>>

Room == Capacity - 1

Init ==
    /\ offered = NoItem
    /\ queue = <<>>
    /\ visible = 0
    /\ unreclaimed = 0
    /\ dropped = 0
    /\ popped = NoItem

Offer(i) ==
    /\ offered = NoItem
    /\ offered' = i
    /\ UNCHANGED <<queue, visible, unreclaimed, dropped, popped>>

Accept ==
    /\ offered # NoItem
    /\ Len(queue) + unreclaimed < Room
    /\ queue' = Append(queue, offered)
    /\ offered' = NoItem
    /\ UNCHANGED <<visible, unreclaimed, dropped, popped>>

Refuse ==
    /\ offered # NoItem
    /\ Len(queue) + unreclaimed = Room
    /\ dropped' = (dropped + 1) % CounterMod
    /\ offered' = NoItem
    /\ UNCHANGED <<queue, visible, unreclaimed, popped>>

Deliver ==
    /\ visible > 0
    /\ popped' = Head(queue)
    /\ queue' = Tail(queue)
    /\ visible' = visible - 1
    /\ unreclaimed' = unreclaimed + 1
    /\ UNCHANGED <<offered, dropped>>

\* pop() that finds nothing: allowed only when every visible item is delivered
DeliverNothing ==
    /\ visible = 0
    /\ popped' = NoItem
    /\ UNCHANGED <<offered, queue, visible, unreclaimed, dropped>>

Show ==
    /\ visible' = Len(queue)
    /\ UNCHANGED <<offered, queue, unreclaimed, dropped, popped>>

Reclaim ==
    /\ unreclaimed' = 0
    /\ UNCHANGED <<offered, queue, visible, dropped, popped>>

Next ==
    \/ \E i \in Item : Offer(i)
    \/ Accept
    \/ Refuse
    \/ Deliver
    \/ DeliverNothing
    \/ Show
    \/ Reclaim

Spec == Init /\ [][Next]_vars
=============================================================================

----------------------------- MODULE SpscQueue -----------------------------
(***************************************************************************)
(* llt::SpscQueue (include/llt/spsc_queue.hpp): a ring buffer with one     *)
(* producer thread (push) and one consumer thread (pop).                   *)
(*                                                                         *)
(* Memory order.  head_ is stored only by the producer and tail_ only by   *)
(* the consumer, with release; each thread loads the other's index with    *)
(* acquire.  An acquire load may return an older value of the              *)
(* modification order, so each side has a view of the other side's index   *)
(* (headView, tailView) that catches up in a step of its own.  A thread's  *)
(* relaxed load of the index it alone stores is exact.  The slots of       *)
(* buffer_ are plain memory: an access that is not ordered by an           *)
(* acquire/release pair is a data race, which NoDataRace excludes.         *)
(***************************************************************************)
EXTENDS Integers, Sequences

CONSTANTS
    Item,       \* values of T that are pushed
    NoItem,     \* T{} in a slot never written, std::nullopt as a result
    Capacity,   \* template parameter
    CounterMod  \* 2^64 in the code: range of dropped_

ASSUME CapacityAssumption == Capacity \in Nat /\ Capacity >= 2
ASSUME CounterAssumption  == CounterMod \in Nat \ {0}
ASSUME ItemAssumption     == NoItem \notin Item

VARIABLES
    buffer, head, tail, dropped,  \* the members of SpscQueue
    headView,                     \* head_ as the consumer's acquire load sees it
    tailView,                     \* tail_ as the producer's acquire load sees it
    pPc, pItem, pHead,            \* push in progress: step, item, local head
    cPc, cItem, cTail,            \* pop in progress: step, local item, local tail
    popped                        \* what the latest pop returned

prodVars == <<pPc, pItem, pHead>>
consVars == <<cPc, cItem, cTail>>
vars == <<buffer, head, tail, dropped, headView, tailView,
          prodVars, consVars, popped>>

Index == 0 .. Capacity - 1

\* Plausible bug: the index is never wrapped.
increment_NoWrap(value) == value + 1

increment(value) == (value + 1) % Capacity

Init ==
    /\ buffer = [s \in Index |-> NoItem]
    /\ head = 0
    /\ tail = 0
    /\ dropped = 0
    /\ headView = 0
    /\ tailView = 0
    /\ pPc = "idle" /\ pItem = NoItem /\ pHead = 0
    /\ cPc = "idle" /\ cItem = NoItem /\ cTail = 0
    /\ popped = NoItem

-----------------------------------------------------------------------------
(* push(item) *)

PushBegin(i) ==
    /\ pPc = "idle"
    /\ pItem' = i
    /\ pHead' = head
    /\ pPc' = "check"
    /\ UNCHANGED <<buffer, head, tail, dropped, headView, tailView, consVars, popped>>

\* Plausible bug: the full test looks one slot too far and refuses early.
PushFull_Early ==
    /\ pPc = "check"
    /\ increment(increment(pHead)) = tailView
    /\ dropped' = (dropped + 1) % CounterMod
    /\ pItem' = NoItem
    /\ pPc' = "idle"
    /\ UNCHANGED <<buffer, head, tail, headView, tailView, pHead, consVars, popped>>

PushFull ==
    /\ pPc = "check"
    /\ increment(pHead) = tailView
    /\ dropped' = (dropped + 1) % CounterMod
    /\ pItem' = NoItem
    /\ pPc' = "idle"
    /\ UNCHANGED <<buffer, head, tail, headView, tailView, pHead, consVars, popped>>

\* Plausible bug: push overwrites instead of testing for room.
PushHasRoom_NoTest ==
    /\ pPc = "check"
    /\ pPc' = "write"
    /\ UNCHANGED <<buffer, head, tail, dropped, headView, tailView, pItem, pHead, consVars, popped>>

PushHasRoom ==
    /\ pPc = "check"
    /\ increment(pHead) # tailView
    /\ pPc' = "write"
    /\ UNCHANGED <<buffer, head, tail, dropped, headView, tailView, pItem, pHead, consVars, popped>>

PushWrite ==
    /\ pPc = "write"
    /\ buffer' = [buffer EXCEPT ![pHead] = pItem]
    /\ pPc' = "publish"
    /\ UNCHANGED <<head, tail, dropped, headView, tailView, pItem, pHead, consVars, popped>>

PushPublish ==
    /\ pPc = "publish"
    /\ head' = increment(pHead)
    /\ pItem' = NoItem
    /\ pPc' = "idle"
    /\ UNCHANGED <<buffer, tail, dropped, headView, tailView, pHead, consVars, popped>>

-----------------------------------------------------------------------------
(* pop() *)

\* Plausible bug: the consumer starts only when a batch of two is waiting.
PopBegin_Batch ==
    /\ cPc = "idle"
    /\ headView \notin {tail, increment(tail)}
    /\ cTail' = tail
    /\ cPc' = "check"
    /\ UNCHANGED <<buffer, head, tail, dropped, headView, tailView, prodVars, cItem, popped>>

PopBegin ==
    /\ cPc = "idle"
    /\ cTail' = tail
    /\ cPc' = "check"
    /\ UNCHANGED <<buffer, head, tail, dropped, headView, tailView, prodVars, cItem, popped>>

PopEmpty ==
    /\ cPc = "check"
    /\ cTail = headView
    /\ popped' = NoItem
    /\ cPc' = "idle"
    /\ UNCHANGED <<buffer, head, tail, dropped, headView, tailView, prodVars, cItem, cTail>>

PopHasItem ==
    /\ cPc = "check"
    /\ cTail # headView
    /\ cPc' = "read"
    /\ UNCHANGED <<buffer, head, tail, dropped, headView, tailView, prodVars, cItem, cTail, popped>>

PopRead ==
    /\ cPc = "read"
    /\ cItem' = buffer[cTail]
    /\ cPc' = "advance"
    /\ UNCHANGED <<buffer, head, tail, dropped, headView, tailView, prodVars, cTail, popped>>

PopAdvance ==
    /\ cPc = "advance"
    /\ tail' = increment(cTail)
    /\ popped' = cItem
    /\ cItem' = NoItem
    /\ cPc' = "idle"
    /\ UNCHANGED <<buffer, head, dropped, headView, tailView, prodVars, cTail>>

-----------------------------------------------------------------------------
(* The release stores become visible to the other thread's acquire loads. *)

HeadVisible ==
    /\ headView # head
    /\ headView' = head
    /\ UNCHANGED <<buffer, head, tail, dropped, tailView, prodVars, consVars, popped>>

TailVisible ==
    /\ tailView # tail
    /\ tailView' = tail
    /\ UNCHANGED <<buffer, head, tail, dropped, headView, prodVars, consVars, popped>>

Push == PushFull \/ PushHasRoom \/ PushWrite \/ PushPublish
Pop  == PopBegin \/ PopEmpty \/ PopHasItem \/ PopRead \/ PopAdvance

Next ==
    \/ \E i \in Item : PushBegin(i)
    \/ Push
    \/ Pop
    \/ HeadVisible
    \/ TailVisible

Spec == Init /\ [][Next]_vars

\* Both threads poll in a loop while g_running; a store becomes visible in
\* finite time.  Nothing obliges the producer to start another push.
Fairness ==
    /\ WF_vars(Push)
    /\ WF_vars(Pop)
    /\ WF_vars(HeadVisible)
    /\ WF_vars(TailVisible)

FairSpec == Spec /\ Fairness

-----------------------------------------------------------------------------
(* Properties *)

\* The members and the locals hold values of their types.
TypeOK ==
    /\ buffer \in [Index -> Item \cup {NoItem}]
    /\ head \in Index /\ tail \in Index
    /\ headView \in Index /\ tailView \in Index
    /\ dropped \in 0 .. CounterMod - 1
    /\ pPc \in {"idle", "check", "write", "publish"}
    /\ pItem \in Item \cup {NoItem}
    /\ pHead \in Index
    /\ cPc \in {"idle", "check", "read", "advance"}
    /\ cItem \in Item \cup {NoItem}
    /\ cTail \in Index
    /\ popped \in Item \cup {NoItem}

\* Slots from index a (inclusive) forward to index b (exclusive).
Dist(a, b) == IF a <= b THEN b - a ELSE b - a + Capacity

\* k slots forward from index a.
Slot(a, k) == IF a + k < Capacity THEN a + k ELSE a + k - Capacity

\* push() never writes a slot that pop() may be reading, not even when each
\* side works with a stale view of the other's index: the slot of a push that
\* passed the full check lies outside the accepted items, and what pop()
\* reads lies inside them and inside what the consumer has acquired.
NoDataRace ==
    /\ pPc \in {"write", "publish"} =>
          Dist(tail, pHead) + 1 < Capacity /\ pHead = head
    /\ cPc \in {"read", "advance"} =>
          cTail # headView /\ Dist(cTail, headView) <= Dist(cTail, head)
    /\ (pPc = "write" /\ cPc = "read") => pHead # cTail

\* The ring holds, between tail_ and head_, exactly what the abstract FIFO
\* holds; a view never runs ahead of, or a whole lap behind, the index it is
\* a view of.
Contents == [k \in 1 .. Dist(tail, head) |-> buffer[Slot(tail, k - 1)]]

\* SpscQueue keeps the promise stated in BoundedFifo: exactly-once, in-order
\* delivery of accepted items, refusal only when no slot is known to be free.
Fifo == INSTANCE BoundedFifo WITH
            offered     <- pItem,
            queue       <- Contents,
            visible     <- Dist(tail, headView),
            unreclaimed <- Dist(tailView, tail)

RefinesFifo == Fifo!Spec

\* Neither side starves: the oldest accepted item is delivered by the
\* consumer's polling loop, and a producer that finds the ring full gets to
\* know of free slots again (no lost wake-up in the index protocol).
NeitherSideStarves ==
    /\ \A s \in Index : (tail = s /\ head # s) ~> (tail # s)
    /\ (increment(head) = tailView) ~> (increment(head) # tailView)
=============================================================================

-------------------------- MODULE SpscQueueProofs --------------------------
(***************************************************************************)
(* Proofs about SpscQueue for every Item, Capacity and CounterMod.         *)
(*                                                                         *)
(* The argument: going forward round the ring from tailView one meets      *)
(* tail, headView and head in this order, in less than a lap (RingOrder).  *)
(* Everything else follows from that and from what each thread knows at    *)
(* each of its steps (ProducerKnows, ConsumerKnows).                       *)
(***************************************************************************)
EXTENDS SpscQueue, SequenceTheorems, TLAPS

RingOrder ==
    Dist(tailView, tail) + Dist(tail, headView) + Dist(headView, head)
        = Dist(tailView, head)

ProducerKnows ==
    /\ pItem = NoItem <=> pPc = "idle"
    /\ pPc # "idle" => pHead = head
    /\ pPc \in {"write", "publish"} => Dist(tailView, head) + 1 < Capacity
    /\ pPc = "publish" => buffer[pHead] = pItem

ConsumerKnows ==
    /\ cPc # "idle" => cTail = tail
    /\ cPc \in {"read", "advance"} => tail # headView
    /\ cPc = "advance" => cItem = buffer[cTail]

\* No slot between tail_ and head_ holds a default T{}.
SlotsFilled ==
    \A s \in Index : Dist(tail, s) < Dist(tail, head) => buffer[s] \in Item

\* The inductive invariant.
IInv == TypeOK /\ RingOrder /\ ProducerKnows /\ ConsumerKnows /\ SlotsFilled

-----------------------------------------------------------------------------
\* The wrap-around of an index, as linear arithmetic.
LEMMA IncrementLinear ==
    \A v \in Index : increment(v) = IF v = Capacity - 1 THEN 0 ELSE v + 1
BY CapacityAssumption DEF Index, increment

\* Distances round the ring, and what one step of either end does to them.
LEMMA DistFacts ==
    ASSUME NEW a \in Index, NEW b \in Index, NEW c \in Index
    PROVE  /\ increment(a) \in Index
           /\ Dist(a, b) \in 0 .. Capacity - 1
           /\ Dist(a, b) = 0 <=> a = b
           /\ \/ Dist(a, c) = Dist(a, b) + Dist(b, c)
              \/ Dist(a, c) = Dist(a, b) + Dist(b, c) - Capacity
           /\ a # b => Dist(increment(a), b) = Dist(a, b) - 1
           /\ Dist(increment(a), a) = Capacity - 1
           /\ Dist(a, b) + 1 < Capacity => Dist(a, increment(b)) = Dist(a, b) + 1
<1>1. increment(a) = (IF a = Capacity - 1 THEN 0 ELSE a + 1)
    BY IncrementLinear
<1>2. increment(b) = (IF b = Capacity - 1 THEN 0 ELSE b + 1)
    BY IncrementLinear
<1> QED
    BY <1>1, <1>2, CapacityAssumption DEF Dist, Index

\* The drop counter stays in its range.
LEMMA CounterRange == \A d \in Nat : (d + 1) % CounterMod \in 0 .. CounterMod - 1
BY CounterAssumption

\* The empty ring of the constructor satisfies the invariant.
LEMMA InitIInv == Init => IInv
BY CapacityAssumption, CounterAssumption, ItemAssumption
   DEF Init, IInv, TypeOK, RingOrder, ProducerKnows, ConsumerKnows, SlotsFilled,
       Index, Dist

\* Every step of either thread, and every propagation of an index, keeps it.
LEMMA NextIInv == IInv /\ [Next]_vars => IInv'
<1> USE CapacityAssumption, ItemAssumption, IncrementLinear
<1> SUFFICES ASSUME IInv, [Next]_vars PROVE IInv'
    OBVIOUS
<1> USE DEF IInv, TypeOK, RingOrder, ProducerKnows, ConsumerKnows, SlotsFilled,
            Index, Dist, prodVars, consVars
<1>1. ASSUME NEW i \in Item, PushBegin(i) PROVE IInv'
    BY <1>1 DEF PushBegin
<1>2. CASE PushFull
    <2>1. dropped' \in 0 .. CounterMod - 1
        BY <1>2, CounterRange, CounterAssumption DEF PushFull
    <2> QED
        BY <1>2, <2>1 DEF PushFull
<1>3. CASE PushHasRoom
    BY <1>3 DEF PushHasRoom
<1>4. CASE PushWrite
    BY <1>4 DEF PushWrite
<1>5. CASE PushPublish
    <2> HIDE DEF Dist, Index
    <2>1. pHead = head /\ head' = increment(head) /\ head' \in Index
        BY <1>5, DistFacts DEF PushPublish
    <2>2. TypeOK' /\ ProducerKnows' /\ ConsumerKnows'
        BY <1>5, <2>1 DEF PushPublish
    <2>3. /\ Dist(tailView, head)' = Dist(tailView, head) + 1
          /\ Dist(headView, head)' = Dist(headView, head) + 1
          /\ Dist(tail, head)' = Dist(tail, head) + 1
          /\ Dist(tailView, tail)' = Dist(tailView, tail)
          /\ Dist(tail, headView)' = Dist(tail, headView)
        <3>1. /\ Dist(tailView, head) + 1 < Capacity
              /\ Dist(headView, head) <= Dist(tailView, head)
              /\ Dist(tail, head) <= Dist(tailView, head)
            BY <1>5 DEF PushPublish, Dist, Index
        <3>2. /\ Dist(tailView, increment(head)) = Dist(tailView, head) + 1
              /\ Dist(headView, increment(head)) = Dist(headView, head) + 1
              /\ Dist(tail, increment(head)) = Dist(tail, head) + 1
            <4>1. /\ Dist(headView, head) + 1 < Capacity
                  /\ Dist(tail, head) + 1 < Capacity
                BY <3>1 DEF Dist, Index
            <4> QED
                BY <3>1, <4>1, DistFacts DEF Index
        <3> QED
            BY <1>5, <2>1, <3>2 DEF PushPublish, Dist
    <2>r. RingOrder'
        <3>1. /\ Dist(tailView, tail) \in Int /\ Dist(tail, headView) \in Int
              /\ Dist(headView, head) \in Int /\ Dist(tailView, head) \in Int
            BY DEF Dist, Index
        <3> QED
            BY <2>3, <3>1
    <2>4. ASSUME NEW s \in Index, Dist(tail, s)' < Dist(tail, head)'
          PROVE  buffer'[s] \in Item
        <3>1. CASE s = head
            BY <1>5, <2>1, <3>1 DEF PushPublish
        <3>2. CASE s # head
            <4>1. Dist(tail, s) < Dist(tail, head)
                <5>1. Dist(tail, s) < Dist(tail, head) + 1
                    BY <1>5, <2>3, <2>4 DEF PushPublish, Dist
                <5>2. Dist(tail, s) # Dist(tail, head)
                    BY <3>2 DEF Dist, Index
                <5> QED
                    BY <5>1, <5>2 DEF Dist, Index
            <4> QED
                BY <1>5, <4>1 DEF PushPublish
        <3> QED
            BY <3>1, <3>2
    <2> QED
        BY <2>2, <2>r, <2>4 DEF Index
<1>6. CASE PopBegin
    BY <1>6 DEF PopBegin
<1>7. CASE PopEmpty
    BY <1>7 DEF PopEmpty
<1>8. CASE PopHasItem
    BY <1>8 DEF PopHasItem
<1>9. CASE PopRead
    BY <1>9 DEF PopRead
<1>10. CASE PopAdvance
    <2> HIDE DEF Dist, Index
    <2>1. cTail = tail /\ tail' = increment(tail) /\ tail' \in Index /\ tail # headView
        BY <1>10, DistFacts DEF PopAdvance
    <2>2. TypeOK' /\ ProducerKnows' /\ ConsumerKnows'
        BY <1>10, <2>1 DEF PopAdvance, Dist
    <2>3. /\ Dist(tailView, tail)' = Dist(tailView, tail) + 1
          /\ Dist(tail, headView)' = Dist(tail, headView) - 1
          /\ Dist(tail, head)' = Dist(tail, head) - 1
          /\ Dist(tailView, head)' = Dist(tailView, head)
          /\ Dist(headView, head)' = Dist(headView, head)
        <3>1. tail # head /\ Dist(tailView, tail) + 1 < Capacity
            BY <2>1 DEF Dist, Index
        <3>2. /\ Dist(tailView, increment(tail)) = Dist(tailView, tail) + 1
              /\ Dist(increment(tail), headView) = Dist(tail, headView) - 1
              /\ Dist(increment(tail), head) = Dist(tail, head) - 1
            BY <2>1, <3>1, DistFacts DEF Index
        <3> QED
            BY <1>10, <2>1, <3>2 DEF PopAdvance, Dist
    <2>r. RingOrder'
        <3>1. /\ Dist(tailView, tail) \in Int /\ Dist(tail, headView) \in Int
              /\ Dist(headView, head) \in Int /\ Dist(tailView, head) \in Int
            BY DEF Dist, Index
        <3> QED
            BY <2>3, <3>1
    <2>4. ASSUME NEW s \in Index, Dist(tail, s)' < Dist(tail, head)'
          PROVE  buffer'[s] \in Item
        <3>1. Dist(tail, s) < Dist(tail, head)
            <4>1. Dist(increment(tail), s) < Dist(tail, head) - 1
                BY <1>10, <2>1, <2>3, <2>4 DEF PopAdvance, Dist
            <4>2. s # tail
                BY <4>1, DistFacts DEF Dist, Index
            <4>3. Dist(increment(tail), s) = Dist(tail, s) - 1
                BY <4>2, DistFacts
            <4> QED
                BY <4>1, <4>3 DEF Dist, Index
        <3> QED
            BY <1>10, <3>1 DEF PopAdvance
    <2> QED
        BY <2>2, <2>r, <2>4 DEF Index
<1>11. CASE HeadVisible
    BY <1>11 DEF HeadVisible
<1>12. CASE TailVisible
    BY <1>12 DEF TailVisible
<1>13. CASE UNCHANGED vars
    BY <1>13 DEF vars
<1> QED
    BY <1>1, <1>2, <1>3, <1>4, <1>5, <1>6, <1>7, <1>8, <1>9, <1>10, <1>11,
       <1>12, <1>13 DEF Next, Push, Pop

\* The invariant holds in every reachable state.
LEMMA IInvHolds == Spec => []IInv
BY InitIInv, NextIInv, PTL DEF Spec

\* Type correctness of the queue's members and of both threads' locals.
THEOREM TypeCorrect == Spec => []TypeOK
BY IInvHolds, PTL DEF IInv

\* push() and pop() never touch the same slot at once, for every Capacity and
\* however stale the indices they have loaded are.
THEOREM DataRaceFree == Spec => []NoDataRace
<1>1. IInv => NoDataRace
    BY CapacityAssumption DEF IInv, TypeOK, RingOrder, ProducerKnows,
       ConsumerKnows, NoDataRace, Index, Dist
<1> QED
    BY IInvHolds, <1>1, PTL

-----------------------------------------------------------------------------
(* Refinement of BoundedFifo *)

\* What the abstract queue is, as a sequence.
LEMMA ContentsSeq ==
    ASSUME IInv
    PROVE  /\ Contents \in Seq(Item)
           /\ Len(Contents) = Dist(tail, head)
<1>1. Dist(tail, head) \in Nat
    BY CapacityAssumption DEF IInv, TypeOK, Index, Dist
<1>2. ASSUME NEW k \in 1 .. Dist(tail, head)
      PROVE  buffer[Slot(tail, k - 1)] \in Item
    <2>1. /\ Slot(tail, k - 1) \in Index
          /\ Dist(tail, Slot(tail, k - 1)) = k - 1
        BY <1>1, CapacityAssumption DEF IInv, TypeOK, Index, Dist, Slot
    <2> QED
        BY <1>1, <2>1 DEF IInv, SlotsFilled
<1>3. Contents \in [1 .. Dist(tail, head) -> Item]
    BY <1>2 DEF Contents
<1> QED
    BY <1>1, <1>3

\* Every step of SpscQueue is a step, or a stutter, of BoundedFifo.
LEMMA NextRefines == IInv /\ IInv' /\ [Next]_vars => [Fifo!Next]_Fifo!vars
<1> SUFFICES ASSUME IInv, IInv', [Next]_vars PROVE [Fifo!Next]_Fifo!vars
    OBVIOUS
<1> USE CapacityAssumption, ItemAssumption
<1>t. /\ head \in Index /\ tail \in Index /\ headView \in Index
      /\ tailView \in Index /\ buffer \in [Index -> Item \cup {NoItem}]
    BY DEF IInv, TypeOK
<1>s. Contents \in Seq(Item) /\ Len(Contents) = Dist(tail, head)
    BY ContentsSeq
<1> USE DEF prodVars, consVars
<1>1. ASSUME NEW i \in Item, PushBegin(i) PROVE Fifo!Offer(i)
    BY <1>1 DEF PushBegin, Fifo!Offer, Contents, IInv, ProducerKnows
<1>2. ASSUME PushFull PROVE Fifo!Refuse
    <2>1. Len(Contents) + Dist(tailView, tail) = Capacity - 1
        BY <1>2, <1>s, <1>t, IncrementLinear
           DEF PushFull, IInv, RingOrder, ProducerKnows, Dist, Index
    <2> QED
        BY <1>2, <2>1 DEF PushFull, Fifo!Refuse, Fifo!Room, Contents, IInv, ProducerKnows
<1>3. CASE PushHasRoom
    BY <1>3 DEF PushHasRoom, Fifo!vars, Contents
<1>4. CASE PushWrite
    <2>1. Contents' = Contents
        <3>1. ASSUME NEW k \in 1 .. Dist(tail, head)
              PROVE  Slot(tail, k - 1) \in Index /\ Slot(tail, k - 1) # head
            BY <1>t DEF Dist, Slot, Index
        <3> QED
            BY <1>4, <1>t, <3>1 DEF PushWrite, Contents, Dist, IInv, ProducerKnows
    <2> QED
        BY <1>4, <2>1 DEF PushWrite, Fifo!vars, Dist
<1>5. ASSUME PushPublish PROVE Fifo!Accept
    <2>1. /\ Dist(tailView, head) + 1 < Capacity
          /\ pItem # NoItem /\ pItem \in Item
          /\ buffer[head] = pItem
          /\ head' = IF head = Capacity - 1 THEN 0 ELSE head + 1
        BY <1>5, <1>t, IncrementLinear DEF PushPublish, IInv, TypeOK, ProducerKnows
    <2>2. Len(Contents) + Dist(tailView, tail) < Capacity - 1
        BY <1>s, <1>t, <2>1 DEF IInv, RingOrder, Dist, Index
    <2>3. Contents' = Append(Contents, pItem)
        <3>1. Dist(tail, head)' = Dist(tail, head) + 1 /\ Dist(tail, head) \in Nat
            BY <1>5, <1>t, <2>1, <2>2, <1>s DEF PushPublish, Dist, Index
        <3>2. Slot(tail, Dist(tail, head)) = head
            BY <1>t DEF Slot, Dist, Index
        <3>3. Contents' = [k \in 1 .. Dist(tail, head) + 1 |-> buffer[Slot(tail, k - 1)]]
            BY <1>5, <3>1 DEF PushPublish, Contents, Slot
        <3>4. \A k \in 1 .. Dist(tail, head) : Contents[k] = buffer[Slot(tail, k - 1)]
            BY DEF Contents
        <3> QED
            <4>1. /\ Append(Contents, pItem) \in Seq(Item)
                  /\ Len(Append(Contents, pItem)) = Dist(tail, head) + 1
                  /\ \A k \in 1 .. Dist(tail, head) :
                        Append(Contents, pItem)[k] = buffer[Slot(tail, k - 1)]
                  /\ Append(Contents, pItem)[Dist(tail, head) + 1] = buffer[head]
                BY <1>s, <2>1, <3>4, AppendProperties
            <4>2. \A k \in 1 .. Dist(tail, head) + 1 :
                     Append(Contents, pItem)[k] = buffer[Slot(tail, k - 1)]
                BY <3>1, <3>2, <4>1
            <4>3. Append(Contents, pItem) \in [1 .. Dist(tail, head) + 1 -> Item]
                BY <3>1, <4>1, LenProperties
            <4> QED
                BY <3>3, <4>2, <4>3
    <2> QED
        BY <1>5, <2>1, <2>2, <2>3 DEF PushPublish, Fifo!Accept, Fifo!Room, Dist
<1>6. CASE PopBegin
    BY <1>6 DEF PopBegin, Fifo!vars, Contents
<1>7. ASSUME PopEmpty PROVE Fifo!DeliverNothing
    BY <1>7, <1>t DEF PopEmpty, Fifo!DeliverNothing, Contents, IInv, ConsumerKnows, Dist, Index
<1>8. CASE PopHasItem
    BY <1>8 DEF PopHasItem, Fifo!vars, Contents
<1>9. CASE PopRead
    BY <1>9 DEF PopRead, Fifo!vars, Contents
<1>10. ASSUME PopAdvance PROVE Fifo!Deliver
    <2>1. /\ tail # headView
          /\ cItem = buffer[tail]
          /\ tail' = IF tail = Capacity - 1 THEN 0 ELSE tail + 1
        BY <1>10, <1>t, IncrementLinear DEF PopAdvance, IInv, ConsumerKnows
    <2>2. /\ Dist(tail, headView) > 0
          /\ Dist(tail, headView)' = Dist(tail, headView) - 1
          /\ Dist(tail, head) > 0
          /\ Dist(tail, head)' = Dist(tail, head) - 1
          /\ Dist(tailView, tail)' = Dist(tailView, tail) + 1
        BY <1>10, <1>t, <2>1 DEF PopAdvance, IInv, RingOrder, Dist, Index
    <2>3. cItem = Head(Contents)
        BY <1>s, <1>t, <2>1, <2>2 DEF Contents, Slot, Index
    <2>4. Contents' = Tail(Contents)
        <3>1. \A k \in 1 .. Dist(tail, head) - 1 : Slot(tail, k - 1)' = Slot(tail, k)
            BY <1>10, <1>t, <2>1, <2>2 DEF PopAdvance, Slot, Dist, Index
        <3>2. Contents' = [k \in 1 .. Dist(tail, head) - 1 |-> buffer[Slot(tail, k)]]
            BY <1>10, <2>2, <3>1 DEF PopAdvance, Contents
        <3>3. /\ Tail(Contents) \in Seq(Item)
              /\ Len(Tail(Contents)) = Len(Contents) - 1
              /\ \A k \in 1 .. Len(Contents) - 1 : Tail(Contents)[k] = Contents[k + 1]
            BY <1>s, <2>2, HeadTailProperties
        <3>4. \A k \in 1 .. Dist(tail, head) - 1 : Contents[k + 1] = buffer[Slot(tail, k)]
            BY <1>t, <2>2 DEF Contents, Dist, Index
        <3>5. Tail(Contents) \in [1 .. Dist(tail, head) - 1 -> Item]
            BY <1>s, <3>3, LenProperties
        <3> QED
            BY <1>s, <3>2, <3>3, <3>4, <3>5
    <2> QED
        BY <1>10, <2>2, <2>3, <2>4 DEF PopAdvance, Fifo!Deliver
<1>11. ASSUME HeadVisible PROVE Fifo!Show
    BY <1>11, <1>s, <1>t DEF HeadVisible, Fifo!Show, Contents, Dist
<1>12. ASSUME TailVisible PROVE Fifo!Reclaim
    BY <1>12, <1>t DEF TailVisible, Fifo!Reclaim, Contents, Dist, Index
<1>13. CASE UNCHANGED vars
    BY <1>13 DEF vars, Fifo!vars, Contents
<1> QED
    BY <1>1, <1>2, <1>3, <1>4, <1>5, <1>6, <1>7, <1>8, <1>9, <1>10, <1>11,
       <1>12, <1>13 DEF Next, Push, Pop, Fifo!Next

\* The ring buffer implements the bounded FIFO: exactly-once in-order delivery
\* of accepted items and refusal only when no slot is known to be free.
THEOREM ImplementsFifo == Spec => RefinesFifo
<1>1. Init => Fifo!Init
    BY CapacityAssumption DEF Init, Fifo!Init, Contents, Dist
<1> QED
    BY <1>1, IInvHolds, NextRefines, PTL DEF Spec, RefinesFifo, Fifo!Spec
=============================================================================

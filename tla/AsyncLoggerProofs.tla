------------------------- MODULE AsyncLoggerProofs -------------------------
(***************************************************************************)
(* Proofs about the asynchronous logger: TypeOK and CallsAccounted, for    *)
(* every finite set of threads, capacity and number of calls.              *)
(*                                                                         *)
(* The account holds as long as no slot is claimed in a full ring.  The    *)
(* full test of a thread that nobody has overtaken since it loaded head    *)
(* stays valid (Room): only pops happen after it.  A thread that was       *)
(* overtaken by less than a lap finds another head (Distance) and retries. *)
(* The window of the ring from tail on lines up with the claims that have  *)
(* no line yet (Text): a slot holds its call or its thread still writes.   *)
(***************************************************************************)
EXTENDS AsyncLogger, FiniteSetTheorems, TLAPS

\* The slots that have been claimed and not released yet.
Fill == Len(claims) - Len(file)

\* A call that is over, or past its claim, has claimed a slot or was dropped.
Counted ==
    /\ claims \in Seq(Thread \X Nat)
    /\ Cardinality(Calls) = Len(claims) + dropped

\* How far head is ahead of where a thread loaded it, up to a lap.
Distance ==
    \A t \in Thread : pc[t] \in {"tail", "test"} /\ overtaken[t] < Capacity =>
        \/ head = seenHead[t] + overtaken[t]
        \/ head = seenHead[t] + overtaken[t] - Capacity

\* A thread in the loop of try_push_log_event has a call to make; another one
\* is not overtaken.
Inside ==
    \A t \in Thread : IF pc[t] \in {"tail", "test"} THEN calls[t] < MaxCalls
                                                   ELSE overtaken[t] = 0

\* The slots in use lie between tail and head, and one stays free.
Level ==
    ~ lapped =>
        /\ Fill \in 0 .. Capacity - 1
        /\ head = tail + Fill \/ head = tail + Fill - Capacity

\* A full test that failed is still right when nobody has claimed since.
Room ==
    ~ lapped => \A t \in Thread :
        pc[t] = "test" /\ overtaken[t] = 0 /\ NextIndex(seenHead[t]) # seenTail[t]
            => Fill <= Capacity - 2

\* The logger thread stores the tail only of a ring it found not empty.
Storing == ~ lapped /\ loggerPc = "store" => Fill >= 1

\* The slot that is d after tail.
Slot(d) == IF tail + d < Capacity THEN tail + d ELSE tail + d - Capacity

\* That slot holds the call that claimed it, or the thread is about to write.
Holds(d) ==
    LET call == claims[Len(file) + d + 1]
    IN  buffer[Slot(d)] = call \/ call[1] \in Writers(Slot(d))

\* The slot and its claim are those of the call that t is in.
Mine(t, d) == seenHead[t] = Slot(d) /\ claims[Len(file) + d + 1] = <<t, calls[t]>>

\* The lines are the first claims, the slots in use the ones that follow; a
\* thread writes a slot in use, and never the one the logger thread has read.
Text ==
    ~ lapped /\ ~ early =>
        /\ \A i \in 1 .. Len(file) : file[i] = claims[i]
        /\ \A d \in 0 .. Fill - 1 : Holds(d)
        /\ \A t \in Thread : pc[t] = "write" => \E d \in 0 .. Fill - 1 : Mine(t, d)
        /\ loggerPc = "store" => event = claims[Len(file) + 1] /\ Writers(tail) = {}

IInv == TypeOK /\ Distance /\ Inside /\ Counted /\ Level /\ Room /\ Storing /\ Text

-----------------------------------------------------------------------------
(* The wrapping index and the count of calls *)

\* The next index is the next slot or, from the last one, slot 0.
LEMMA NextIndexIs ==
    ASSUME NEW k \in 0 .. Capacity - 1
    PROVE  /\ NextIndex(k) \in 0 .. Capacity - 1
           /\ NextIndex(k) = IF k = Capacity - 1 THEN 0 ELSE k + 1
<1>1. Capacity \in Nat /\ Capacity > 1
    BY LoggerAssumption
<1>2. CASE k = Capacity - 1
    <2>1. (k + 1) % Capacity = 0
        BY <1>1, <1>2
    <2> QED  BY <1>1, <1>2, <2>1 DEF NextIndex
<1>3. CASE k # Capacity - 1
    <2>1. (k + 1) % Capacity = k + 1
        BY <1>1, <1>3
    <2> QED  BY <1>1, <1>3, <2>1 DEF NextIndex
<1> QED  BY <1>2, <1>3

\* A difference of indices modulo the capacity is the number of slots between.
LEMMA Between ==
    ASSUME NEW h \in 0 .. Capacity - 1, NEW l \in 0 .. Capacity - 1,
           NEW n \in 0 .. Capacity - 1, h = l + n \/ h = l + n - Capacity
    PROVE  (h - l) % Capacity = n
<1>1. Capacity \in Nat /\ Capacity > 1
    BY LoggerAssumption
<1>2. CASE h = l + n
    <2>1. h - l = n
        BY <1>1, <1>2
    <2>2. n % Capacity = n
        BY <1>1
    <2> QED  BY <2>1, <2>2
<1>3. CASE h = l + n - Capacity
    <2>1. h - l = n - Capacity
        BY <1>1, <1>3
    <2>2. (n - Capacity) % Capacity = n
        BY <1>1
    <2> QED  BY <2>1, <2>2
<1> QED  BY <1>2, <1>3

\* The calls are finitely many.
LEMMA CallsFinite == IsFiniteSet(Calls)
<1>1. IsFiniteSet(Thread \X (1 .. MaxCalls))
    <2>1. MaxCalls \in Int /\ 1 \in Int /\ IsFiniteSet(Thread)
        BY LoggerAssumption
    <2>2. IsFiniteSet(1 .. MaxCalls)
        BY <2>1, FS_Interval
    <2> QED  BY <2>1, <2>2, FS_Product
<1> QED  BY <1>1, FS_Subset DEF Calls

\* One more call of one thread makes one more call.
LEMMA CallsCount ==
    ASSUME NEW t \in Thread, calls \in [Thread -> 0 .. MaxCalls], calls[t] < MaxCalls,
           calls' = [calls EXCEPT ![t] = @ + 1]
    PROVE  /\ Cardinality(Calls) \in Nat
           /\ Cardinality(Calls') = Cardinality(Calls) + 1
<1> DEFINE new == <<t, calls[t] + 1>>
<1>1. MaxCalls \in Nat /\ calls[t] \in 0 .. MaxCalls
    BY LoggerAssumption
<1>2. new \notin Calls
    BY <1>1 DEF Calls
<1>3. Calls' = Calls \cup {new}
    <2>1. ASSUME NEW c \in Thread \X (1 .. MaxCalls)
          PROVE  c[2] <= calls'[c[1]] <=> (c[2] <= calls[c[1]] \/ c = new)
        <3>1. c = <<c[1], c[2]>> /\ c[1] \in Thread /\ c[2] \in 1 .. MaxCalls
            OBVIOUS
        <3>2. CASE c[1] = t
            BY <1>1, <3>1, <3>2
        <3>3. CASE c[1] # t
            BY <1>1, <3>1, <3>3
        <3> QED  BY <3>2, <3>3
    <2>2. new \in Thread \X (1 .. MaxCalls)
        BY <1>1
    <2> QED  BY <2>1, <2>2 DEF Calls
<1> HIDE DEF new
<1> QED  BY <1>2, <1>3, CallsFinite, FS_AddElement, FS_CardinalityType

-----------------------------------------------------------------------------
(* Steps that leave the account alone *)

\* Calls, claims, file, drops and the ring are what they were.
Quiet == UNCHANGED <<head, tail, dropped, calls, claims, file, lapped>>

\* A quiet step keeps the counts and the level.
LEMMA QuietFill ==
    ASSUME Quiet
    PROVE  Fill' = Fill /\ (Level => Level') /\ (Counted => Counted')
<1>1. Calls' = Calls
    BY DEF Quiet, Calls
<1>2. Fill' = Fill
    BY DEF Quiet, Fill
<1> QED  BY <1>1, <1>2 DEF Level, Counted, Quiet

\* The fill is a number, and the bounds of the ring are.
LEMMA FillIsInt ==
    ASSUME TypeOK, Counted
    PROVE  Fill \in Int /\ Capacity \in Nat /\ Capacity > 1
BY LoggerAssumption DEF Fill, TypeOK, Counted

\* The slots, the claims and the threads inside a slot are what they were.
Steady ==
    /\ UNCHANGED <<tail, buffer, claims, file, lapped, early>>
    /\ \A u \in Thread :
          /\ pc'[u] = "write" <=> pc[u] = "write"
          /\ pc[u] = "write" => seenHead'[u] = seenHead[u] /\ calls'[u] = calls[u]
    /\ loggerPc' = "store" => loggerPc = "store" /\ event' = event

\* A steady step keeps the text.
LEMMA SteadyText ==
    ASSUME Text, Steady
    PROVE  Text'
<1>1. \A k : Writers(k)' = Writers(k)
    BY DEF Steady, Writers
<1>2. Fill' = Fill /\ \A d : Slot(d)' = Slot(d)
    BY DEF Steady, Fill, Slot
<1>3. \A d : Holds(d)' <=> Holds(d)
    BY <1>1, <1>2 DEF Steady, Holds
<1>4. \A u \in Thread, d \in 0 .. Fill - 1 : pc[u] = "write" => (Mine(u, d)' <=> Mine(u, d))
    BY <1>2 DEF Steady, Mine
<1>5. Writers(tail)' = Writers(tail)
    BY <1>1 DEF Steady, Writers
<1> QED  BY <1>2, <1>3, <1>4, <1>5 DEF Steady, Text

\* The slots from tail on are different slots of the ring, and the one behind
\* the last one in use is head.
LEMMA Slots ==
    ASSUME TypeOK, Counted
    PROVE  /\ Slot(0) = tail
           /\ \A d \in 0 .. Capacity - 1 :
                 Slot(d) \in 0 .. Capacity - 1 /\ (tail + d) % Capacity = Slot(d)
           /\ \A d, e \in 0 .. Capacity - 1 : Slot(d) = Slot(e) => d = e
           /\ Level /\ ~ lapped => head = Slot(Fill)
<1>0. Capacity \in Nat /\ Capacity > 1 /\ Fill \in Int
    BY FillIsInt
<1>1. tail \in 0 .. Capacity - 1 /\ head \in 0 .. Capacity - 1
    BY DEF TypeOK
<1>2. Slot(0) = tail
    BY <1>0, <1>1 DEF Slot
<1>3. ASSUME NEW d \in 0 .. Capacity - 1
      PROVE  Slot(d) \in 0 .. Capacity - 1 /\ (tail + d) % Capacity = Slot(d)
    <2>1. CASE tail + d < Capacity
        <3>1. (tail + d) % Capacity = tail + d
            BY <1>0, <1>1, <2>1
        <3> QED  BY <1>0, <1>1, <2>1, <3>1 DEF Slot
    <2>2. CASE ~ (tail + d < Capacity)
        <3>1. (tail + d) % Capacity = tail + d - Capacity
            BY <1>0, <1>1, <2>2
        <3> QED  BY <1>0, <1>1, <2>2, <3>1 DEF Slot
    <2> QED  BY <2>1, <2>2
<1>4. ASSUME NEW d \in 0 .. Capacity - 1, NEW e \in 0 .. Capacity - 1, Slot(d) = Slot(e)
      PROVE  d = e
    BY <1>0, <1>1, <1>4 DEF Slot
<1>5. ASSUME Level, ~ lapped PROVE head = Slot(Fill)
    BY <1>0, <1>1, <1>5 DEF Slot, Level
<1> QED  BY <1>2, <1>3, <1>4, <1>5

\* The invariant holds in the initial state.
LEMMA InitIInv == Init => IInv
<1> SUFFICES ASSUME Init PROVE IInv
    OBVIOUS
<1>0. Capacity \in Nat /\ Capacity > 1 /\ MaxCalls \in Nat
    BY LoggerAssumption
<1>1. TypeOK
    <2>1. 0 \in 0 .. Capacity - 1 /\ 0 \in 0 .. MaxCalls /\ Blank \in Event
        BY <1>0 DEF Event
    <2>2. file \in Seq(Event)
        BY DEF Init
    <2> QED  BY <2>1, <2>2, <1>0 DEF Init, TypeOK
<1>2. Fill = 0
    BY DEF Fill, Init
<1>3. Counted
    <2>1. Calls = {}
        <3>1. \A c \in Thread \X (1 .. MaxCalls) : ~ (c[2] <= calls[c[1]])
            BY <1>0 DEF Init
        <3> QED  BY <3>1 DEF Calls
    <2> QED  BY <2>1, FS_EmptySet DEF Init, Counted
<1>4. Level /\ Distance /\ Inside /\ Room /\ Storing
    BY <1>0, <1>2 DEF Level, Distance, Inside, Room, Storing, Init
<1>5. Text
    BY <1>2 DEF Text, Init
<1> QED  BY <1>1, <1>3, <1>4, <1>5 DEF IInv

-----------------------------------------------------------------------------
(* log *)

\* Entering log() and loading head.
LEMMA LogKeeps ==
    ASSUME IInv, NEW t \in Thread, Log(t)
    PROVE  IInv'
<1> USE DEF IInv
<1>1. Quiet
    BY DEF Log, Quiet, ring, logger, history
<1>2. TypeOK'
    BY DEF TypeOK, Log, ring, logger, history
<1>3. Distance'
    BY FillIsInt DEF TypeOK, Distance, Inside, Log, ring, history
<1>4. Inside'
    BY DEF TypeOK, Inside, Log, history
<1>5. Room' /\ Storing' /\ Level' /\ Counted'
    BY <1>1, QuietFill DEF TypeOK, Room, Storing, Quiet, Log, logger, history
<1>6. Steady
    BY DEF TypeOK, Steady, Log, ring, logger, history
<1> QED  BY <1>2, <1>3, <1>4, <1>5, <1>6, SteadyText

\* Loading tail: a ring that this thread will find not full has two free slots.
LEMMA LoadTailKeeps ==
    ASSUME IInv, NEW t \in Thread, LoadTail(t)
    PROVE  IInv'
<1> USE DEF IInv
<1>1. Quiet
    BY DEF LoadTail, Quiet, ring, logger, history
<1>2. TypeOK'
    BY DEF TypeOK, LoadTail, ring, logger, history
<1>3. Distance' /\ Inside'
    BY DEF TypeOK, Distance, Inside, LoadTail, ring, history
<1>4. Storing' /\ Level' /\ Counted'
    BY <1>1, QuietFill DEF TypeOK, Storing, Quiet, LoadTail, logger, history
<1>5. Room'
    <2> SUFFICES ASSUME ~ lapped', NEW u \in Thread, pc'[u] = "test", overtaken'[u] = 0,
                        NextIndex(seenHead'[u]) # seenTail'[u]
                 PROVE  Fill' <= Capacity - 2
        BY DEF Room, NextIndex
    <2>0. Fill' = Fill /\ ~ lapped /\ seenHead' = seenHead /\ overtaken' = overtaken
        BY <1>1, QuietFill DEF Quiet, LoadTail, history
    <2>1. CASE u # t
        BY <2>0, <2>1 DEF Room, LoadTail, TypeOK
    <2>2. CASE u = t
        <3>1. seenTail'[t] = tail /\ pc[t] = "tail"
            BY DEF LoadTail, TypeOK
        <3>c. Capacity \in Nat /\ Capacity > 1 /\ Fill \in Int
            BY FillIsInt
        <3>h. /\ head \in 0 .. Capacity - 1 /\ tail \in 0 .. Capacity - 1
              /\ seenHead[t] \in 0 .. Capacity - 1
            BY DEF TypeOK
        <3>2. head = seenHead[t]
            <4>1. overtaken[t] = 0
                BY <2>0, <2>2
            <4>2. head = seenHead[t] + 0 \/ head = seenHead[t] + 0 - Capacity
                BY <3>1, <3>c, <4>1 DEF Distance
            <4> QED  BY <3>c, <3>h, <4>2
        <3>3. NextIndex(head) # tail
            BY <2>0, <2>2, <3>1, <3>2
        <3>4. tail # IF head = Capacity - 1 THEN 0 ELSE head + 1
            BY <3>3, <3>h, NextIndexIs
        <3>5. Fill \in 0 .. Capacity - 1 /\ (head = tail + Fill \/ head = tail + Fill - Capacity)
            BY <2>0 DEF Level
        <3> QED  BY <2>0, <3>c, <3>h, <3>4, <3>5
    <2> QED  BY <2>1, <2>2
<1>6. Steady
    BY DEF TypeOK, Steady, LoadTail, ring, logger, history
<1> QED  BY <1>2, <1>3, <1>4, <1>5, <1>6, SteadyText

\* A failed compare-and-swap starts over.
LEMMA PushRetryKeeps ==
    ASSUME IInv, NEW t \in Thread, PushRetry(t)
    PROVE  IInv'
<1> USE DEF IInv
<1>1. Quiet
    BY DEF PushRetry, Quiet, ring, logger
<1>2. TypeOK'
    BY DEF TypeOK, PushRetry, ring, logger
<1>3. Distance' /\ Inside'
    BY FillIsInt DEF TypeOK, Distance, Inside, PushRetry, ring
<1>5. Room' /\ Storing' /\ Level' /\ Counted'
    BY <1>1, QuietFill DEF TypeOK, Room, Storing, Quiet, PushRetry, logger
<1>6. Steady
    BY DEF TypeOK, Steady, PushRetry, ring, logger
<1> QED  BY <1>2, <1>3, <1>5, <1>6, SteadyText

\* A drop is counted, and the call with it.
LEMMA PushFullKeeps ==
    ASSUME IInv, NEW t \in Thread, PushFull(t)
    PROVE  IInv'
<1> USE DEF IInv
<1>1. calls[t] < MaxCalls /\ calls[t] \in 0 .. MaxCalls /\ MaxCalls \in Nat
    BY LoggerAssumption DEF PushFull, Inside, TypeOK
<1>2. TypeOK'
    BY <1>1 DEF TypeOK, PushFull, logger
<1>3. Counted' /\ Fill' = Fill
    <2>1. Cardinality(Calls) \in Nat /\ Cardinality(Calls') = Cardinality(Calls) + 1
        BY <1>1, CallsCount DEF PushFull, TypeOK
    <2>2. dropped' = dropped + 1 /\ claims' = claims /\ dropped \in Nat /\ Len(claims) \in Nat
        BY DEF PushFull, TypeOK, Counted
    <2> QED  BY <2>1, <2>2 DEF Counted, Fill, PushFull, logger
<1>4. Distance' /\ Inside'
    BY <1>1 DEF TypeOK, Distance, Inside, PushFull
<1>5. Level' /\ Room' /\ Storing'
    BY <1>3 DEF TypeOK, Level, Room, Storing, PushFull, logger, NextIndex
<1>6. Steady
    BY DEF TypeOK, Steady, PushFull, logger
<1> QED  BY <1>2, <1>3, <1>4, <1>5, <1>6, SteadyText

\* The event goes into the slot that was claimed.
LEMMA PushWriteKeeps ==
    ASSUME IInv, NEW t \in Thread, PushWrite(t)
    PROVE  IInv'
<1> USE DEF IInv
<1>1. Quiet
    BY DEF PushWrite, Quiet, logger, history
<1>2. TypeOK'
    <2>1. <<t, calls[t]>> \in Event
        BY LoggerAssumption DEF TypeOK, Event
    <2> QED  BY <2>1 DEF TypeOK, PushWrite, logger, history
<1>3. Distance' /\ Inside'
    BY DEF TypeOK, Distance, Inside, PushWrite, history
<1>5. Room' /\ Storing' /\ Level' /\ Counted'
    BY <1>1, QuietFill DEF TypeOK, Room, Storing, Quiet, PushWrite, logger, history
<1>6. Text'
    <2> SUFFICES ASSUME ~ lapped', ~ early'
                 PROVE  /\ \A i \in 1 .. Len(file') : file'[i] = claims'[i]
                        /\ \A d \in 0 .. Fill' - 1 : Holds(d)'
                        /\ \A u \in Thread : pc'[u] = "write" =>
                              \E d \in 0 .. Fill' - 1 : Mine(u, d)'
                        /\ loggerPc' = "store" =>
                              event' = claims'[Len(file') + 1] /\ Writers(tail)' = {}
        BY DEF Text
    <2>0. /\ ~ lapped /\ ~ early /\ pc[t] = "write" /\ pc \in [Thread -> {"idle", "tail", "test", "write"}]
          /\ UNCHANGED <<tail, claims, file, seenHead, calls, loggerPc, event>>
          /\ buffer' = [buffer EXCEPT ![seenHead[t]] = <<t, calls[t]>>]
          /\ pc' = [pc EXCEPT ![t] = "idle"] /\ Fill' = Fill
        BY <1>1, QuietFill DEF PushWrite, Quiet, logger, history, TypeOK
    <2>1. \A d : Slot(d)' = Slot(d)
        BY <2>0 DEF Slot
    <2>2. PICK mine \in 0 .. Fill - 1 : Mine(t, mine)
        BY <2>0 DEF Text
    <2>3. Fill \in 0 .. Capacity - 1 /\ Capacity \in Nat
        BY <2>0, FillIsInt DEF Level
    <2>4. ASSUME NEW d \in 0 .. Fill - 1 PROVE Holds(d)'
        <3>0. d \in 0 .. Capacity - 1 /\ mine \in 0 .. Capacity - 1 /\ Slot(d) \in 0 .. Capacity - 1
            BY <2>3, Slots
        <3>1. CASE d = mine
            <4>1. buffer'[Slot(d)] = <<t, calls[t]>>
                BY <2>0, <2>2, <3>0, <3>1 DEF Mine, TypeOK
            <4> QED  BY <2>0, <2>1, <2>2, <3>1, <4>1 DEF Holds, Mine
        <3>2. CASE d # mine
            <4>1. seenHead[t] # Slot(d)
                BY <2>2, <3>0, <3>2, Slots DEF Mine
            <4>2. buffer'[Slot(d)] = buffer[Slot(d)]
                BY <2>0, <3>0, <4>1 DEF TypeOK
            <4>3. \A u \in Writers(Slot(d)) : u \in Writers(Slot(d))'
                BY <2>0, <2>1, <4>1 DEF Writers
            <4>4. Holds(d)
                BY <2>0 DEF Text
            <4> QED  BY <2>0, <2>1, <4>2, <4>3, <4>4 DEF Holds
        <3> QED  BY <3>1, <3>2
    <2>5. ASSUME NEW u \in Thread, pc'[u] = "write"
          PROVE  \E d \in 0 .. Fill - 1 : Mine(u, d)'
        <3>1. pc[u] = "write"
            BY <2>0, <2>5
        <3>2. PICK d \in 0 .. Fill - 1 : Mine(u, d)
            BY <2>0, <3>1 DEF Text
        <3>3. Mine(u, d)'
            BY <2>0, <2>1, <3>2 DEF Mine
        <3> QED  BY <3>3
    <2>6. Writers(tail)' \subseteq Writers(tail)
        BY <2>0 DEF Writers
    <2>7. /\ \A i \in 1 .. Len(file) : file[i] = claims[i]
          /\ loggerPc = "store" => event = claims[Len(file) + 1] /\ Writers(tail) = {}
        BY <2>0 DEF Text
    <2> QED  BY <2>0, <2>4, <2>5, <2>6, <2>7
<1> QED  BY <1>2, <1>3, <1>5, <1>6

\* A claim takes a free slot, unless head has come round a whole lap.
LEMMA PushClaimKeeps ==
    ASSUME IInv, NEW t \in Thread, PushClaim(t)
    PROVE  IInv'
<1> USE DEF IInv
<1>0. Capacity \in Nat /\ Capacity > 1 /\ Fill \in Int
    BY FillIsInt
<1>1. calls[t] < MaxCalls /\ calls[t] \in 0 .. MaxCalls /\ MaxCalls \in Nat
    BY LoggerAssumption DEF PushClaim, Inside, TypeOK
<1>n. /\ head' \in 0 .. Capacity - 1
      /\ head' = IF head = Capacity - 1 THEN 0 ELSE head + 1
    BY NextIndexIs DEF PushClaim, TypeOK
<1>2. TypeOK'
    <2>1. overtaken' \in [Thread -> Nat] /\ lapped' \in BOOLEAN
        BY DEF TypeOK, PushClaim, Claim
    <2>4. early' \in BOOLEAN
        BY DEF TypeOK, PushClaim, Claim
    <2>2. calls' \in [Thread -> 0 .. MaxCalls]
        BY <1>1 DEF TypeOK, PushClaim
    <2>3. pc' \in [Thread -> {"idle", "tail", "test", "write"}]
        BY DEF TypeOK, PushClaim
    <2> QED  BY <1>n, <2>1, <2>2, <2>3, <2>4 DEF TypeOK, PushClaim, logger
<1>3. Counted' /\ Fill' = Fill + 1
    <2>1. Cardinality(Calls) \in Nat /\ Cardinality(Calls') = Cardinality(Calls) + 1
        BY <1>1, CallsCount DEF PushClaim, TypeOK
    <2>2. /\ dropped' = dropped /\ file' = file /\ dropped \in Nat /\ Len(file) \in Nat
          /\ claims' = Append(claims, <<t, calls[t] + 1>>) /\ <<t, calls[t] + 1>> \in Thread \X Nat
        BY <1>1 DEF PushClaim, Claim, TypeOK, logger
    <2>3. claims' \in Seq(Thread \X Nat) /\ Len(claims') = Len(claims) + 1 /\ Len(claims) \in Nat
        BY <2>2 DEF Counted
    <2> QED  BY <2>1, <2>2, <2>3 DEF Fill, Counted
<1>4. ~ lapped' => overtaken[t] = 0 /\ ~ lapped
    <2> SUFFICES ASSUME ~ lapped' PROVE overtaken[t] = 0 /\ ~ lapped
        OBVIOUS
    <2>1. ~ lapped /\ ~ (overtaken[t] >= Capacity) /\ overtaken[t] \in Nat
        BY DEF PushClaim, Claim, TypeOK
    <2>2. head = seenHead[t] /\ pc[t] = "test" /\ head \in 0 .. Capacity - 1
        BY DEF PushClaim, TypeOK
    <2> QED  BY <1>0, <2>1, <2>2 DEF Distance
<1>5. Level'
    <2> SUFFICES ASSUME ~ lapped'
                 PROVE  /\ Fill' \in 0 .. Capacity - 1
                        /\ head' = tail' + Fill' \/ head' = tail' + Fill' - Capacity
        BY DEF Level
    <2>1. Fill <= Capacity - 2 /\ Fill \in 0 .. Capacity - 1
        BY <1>4 DEF Room, Level, PushClaim
    <2>2. head = tail + Fill \/ head = tail + Fill - Capacity
        BY <1>4 DEF Level
    <2>3. tail' = tail /\ head \in 0 .. Capacity - 1 /\ tail \in 0 .. Capacity - 1
        BY DEF PushClaim, TypeOK
    <2> QED  BY <1>0, <1>n, <1>3, <2>1, <2>2, <2>3
<1>6. Distance'
    <2> SUFFICES ASSUME NEW u \in Thread, pc'[u] \in {"tail", "test"}, overtaken'[u] < Capacity
                 PROVE  \/ head' = seenHead'[u] + overtaken'[u]
                        \/ head' = seenHead'[u] + overtaken'[u] - Capacity
        BY DEF Distance
    <2>1. u # t /\ pc[u] \in {"tail", "test"} /\ seenHead'[u] = seenHead[u]
        BY DEF PushClaim, TypeOK
    <2>2. overtaken'[u] = overtaken[u] + 1 /\ overtaken[u] \in Nat
        BY <2>1 DEF PushClaim, Claim, TypeOK
    <2>3. head = seenHead[u] + overtaken[u] \/ head = seenHead[u] + overtaken[u] - Capacity
        BY <1>0, <2>1, <2>2 DEF Distance
    <2>4. seenHead[u] \in 0 .. Capacity - 1 /\ head \in 0 .. Capacity - 1
        BY DEF TypeOK
    <2> QED  BY <1>0, <1>n, <2>1, <2>2, <2>3, <2>4
<1>7. Inside'
    <2> SUFFICES ASSUME NEW u \in Thread
                 PROVE  IF pc'[u] \in {"tail", "test"} THEN calls'[u] < MaxCalls
                                                       ELSE overtaken'[u] = 0
        BY DEF Inside
    <2>1. CASE u = t
        BY <2>1 DEF PushClaim, Claim, TypeOK
    <2>2. CASE u # t
        BY <2>2 DEF PushClaim, Claim, TypeOK, Inside
    <2> QED  BY <2>1, <2>2
<1>8. Room'
    <2> SUFFICES ASSUME NEW u \in Thread, pc'[u] = "test", overtaken'[u] = 0
                 PROVE  FALSE
        BY DEF Room
    <2>1. u # t /\ pc[u] = "test"
        BY DEF PushClaim, TypeOK
    <2> QED  BY <2>1 DEF PushClaim, Claim, TypeOK
<1>9. Storing'
    BY <1>0, <1>3, <1>4 DEF Storing, PushClaim, logger
<1>10. Text'
    <2> SUFFICES ASSUME ~ lapped', ~ early'
                 PROVE  /\ \A i \in 1 .. Len(file') : file'[i] = claims'[i]
                        /\ \A d \in 0 .. Fill' - 1 : Holds(d)'
                        /\ \A u \in Thread : pc'[u] = "write" =>
                              \E d \in 0 .. Fill' - 1 : Mine(u, d)'
                        /\ loggerPc' = "store" =>
                              event' = claims'[Len(file') + 1] /\ Writers(tail)' = {}
        BY DEF Text
    <2>0. /\ ~ lapped /\ ~ early /\ pc[t] = "test" /\ head = seenHead[t]
          /\ UNCHANGED <<tail, buffer, file, seenHead, loggerPc, event>>
          /\ claims' = Append(claims, <<t, calls[t] + 1>>)
          /\ calls' = [calls EXCEPT ![t] = @ + 1] /\ pc' = [pc EXCEPT ![t] = "write"]
        BY <1>4 DEF PushClaim, Claim, logger
    <2>1. \A d : Slot(d)' = Slot(d)
        BY <2>0 DEF Slot
    <2>2. /\ Fill \in 0 .. Capacity - 1 /\ head = Slot(Fill) /\ Slot(0) = tail
          /\ Len(claims) = Len(file) + Fill /\ Len(file) \in Nat /\ Len(claims) \in Nat
        <3>1. Len(file) \in Nat /\ Len(claims) \in Nat
            BY DEF TypeOK, Counted
        <3>2. Fill \in 0 .. Capacity - 1
            BY <2>0 DEF Level
        <3>3. head = Slot(Fill) /\ Slot(0) = tail
            BY <2>0, Slots
        <3> QED  BY <3>1, <3>2, <3>3 DEF Fill
    <2>3. /\ \A i \in 1 .. Len(claims) : claims'[i] = claims[i]
          /\ claims'[Len(claims) + 1] = <<t, calls'[t]>>
        BY <2>0 DEF Counted, TypeOK
    <2>4. /\ pc'[t] = "write" /\ \A u \in Thread : pc[u] = "write" => pc'[u] = "write"
          /\ \A u \in Thread \ {t} : pc'[u] = pc[u] /\ calls'[u] = calls[u]
        BY <2>0 DEF TypeOK
    <2>5. \A d \in 0 .. Fill - 1 : Len(file) + d + 1 \in 1 .. Len(claims)
        BY <2>2
    <2>6. ASSUME NEW d \in 0 .. Fill' - 1 PROVE Holds(d)'
        <3>1. CASE d = Fill
            <4>1. claims'[Len(file) + d + 1] = <<t, calls'[t]>>
                BY <2>2, <2>3, <3>1
            <4>2. t \in Writers(Slot(d))'
                BY <2>0, <2>1, <2>2, <2>4, <3>1 DEF Writers
            <4>3. <<t, calls'[t]>>[1] = t
                OBVIOUS
            <4>4. claims'[Len(file) + d + 1][1] = t
                BY <4>1, <4>3
            <4> QED  BY <2>0, <4>2, <4>4 DEF Holds
        <3>2. CASE d # Fill
            <4>1. d \in 0 .. Fill - 1
                BY <1>0, <1>3, <3>2
            <4>2. Holds(d)
                BY <2>0, <4>1 DEF Text
            <4>3. \A u \in Writers(Slot(d)) : u \in Writers(Slot(d))'
                BY <2>0, <2>1, <2>4 DEF Writers
            <4>4. claims'[Len(file) + d + 1] = claims[Len(file) + d + 1]
                BY <2>3, <2>5, <4>1
            <4> QED  BY <2>0, <2>1, <4>2, <4>3, <4>4 DEF Holds
        <3> QED  BY <3>1, <3>2
    <2>7. ASSUME NEW u \in Thread, pc'[u] = "write"
          PROVE  \E d \in 0 .. Fill' - 1 : Mine(u, d)'
        <3>1. CASE u = t
            <4>1. PICK d \in 0 .. Fill' - 1 : d = Fill
                BY <1>0, <1>3, <2>2
            <4>2. Mine(u, d)'
                BY <2>0, <2>1, <2>2, <2>3, <3>1, <4>1 DEF Mine
            <4> QED  BY <4>2
        <3>2. CASE u # t
            <4>1. pc[u] = "write"
                BY <2>4, <2>7, <3>2
            <4>2. PICK d \in 0 .. Fill - 1 : Mine(u, d)
                BY <2>0, <4>1 DEF Text
            <4>3. Mine(u, d)'
                BY <2>0, <2>1, <2>3, <2>4, <2>5, <3>2, <4>2 DEF Mine
            <4> QED  BY <1>0, <1>3, <4>3
        <3> QED  BY <3>1, <3>2
    <2>8. ASSUME loggerPc' = "store"
          PROVE  event' = claims'[Len(file') + 1] /\ Writers(tail)' = {}
        <3>1. Fill >= 1 /\ event = claims[Len(file) + 1] /\ Writers(tail) = {}
            BY <2>0, <2>8 DEF Storing, Text
        <3>2. head # tail
            BY <1>0, <2>2, <3>1, Slots
        <3>3. Writers(tail)' = {}
            BY <2>0, <2>4, <3>1, <3>2 DEF Writers
        <3> QED  BY <2>0, <2>2, <2>3, <3>1, <3>3
    <2>9. \A i \in 1 .. Len(file) : file[i] = claims[i] /\ claims'[i] = claims[i]
        BY <2>0, <2>2, <2>3 DEF Text
    <2> QED  BY <2>0, <2>6, <2>7, <2>8, <2>9
<1> QED  BY <1>2, <1>3, <1>5, <1>6, <1>7, <1>8, <1>9, <1>10

-----------------------------------------------------------------------------
(* The logger thread, start and stop *)

\* Steps of the logger thread and of main that do not release a slot.
LEMMA IdleKeeps ==
    ASSUME IInv, LoopTop \/ PopEmpty \/ StartLogger \/ StopLogger \/ JoinLogger
    PROVE  IInv'
<1> USE DEF IInv
<1>0. /\ Quiet /\ UNCHANGED <<pushing, buffer, event, overtaken, early>>
      /\ loggerPc' = "store" => loggerPc = "store"
    BY DEF LoopTop, PopEmpty, StartLogger, StopLogger, JoinLogger, Quiet, ring, pushing,
           logger, history
<1>1. TypeOK'
    BY <1>0 DEF TypeOK, LoopTop, PopEmpty, StartLogger, StopLogger, JoinLogger, Quiet,
                ring, pushing, logger, history
<1>2. Distance' /\ Inside'
    BY <1>0 DEF Distance, Inside, Quiet, pushing
<1>3. Level' /\ Counted' /\ Room' /\ Storing'
    BY <1>0, QuietFill DEF Room, Storing, Quiet, pushing, NextIndex
<1>4. Steady
    BY <1>0 DEF Steady, Quiet, pushing
<1> QED  BY <1>1, <1>2, <1>3, <1>4, SteadyText

\* A slot is read only from a ring that is not empty.
LEMMA PopReadKeeps ==
    ASSUME IInv, PopRead
    PROVE  IInv'
<1> USE DEF IInv
<1>0. Quiet /\ UNCHANGED <<pushing, buffer, overtaken>>
    BY DEF PopRead, Quiet, ring, pushing, history
<1>1. TypeOK'
    <2>1. event' \in Event
        BY DEF PopRead, TypeOK, Event
    <2>2. early' \in BOOLEAN
        BY DEF PopRead, TypeOK
    <2> QED  BY <1>0, <2>1, <2>2 DEF TypeOK, PopRead, Quiet, ring, pushing
<1>2. Distance' /\ Inside'
    BY <1>0 DEF Distance, Inside, Quiet, pushing
<1>3. Level' /\ Counted' /\ Room'
    BY <1>0, QuietFill DEF Room, Quiet, pushing, NextIndex
<1>4. ~ lapped => Fill >= 1
    BY FillIsInt DEF PopRead, Level, TypeOK
<1>5. Storing'
    BY <1>0, <1>4, QuietFill DEF Storing, Quiet
<1>6. Text'
    <2>0. \A k : Writers(k)' = Writers(k)
        BY <1>0 DEF Writers, pushing
    <2>1. Fill' = Fill /\ \A d : Slot(d)' = Slot(d)
        BY <1>0, QuietFill DEF Slot, Quiet
    <2>2. \A d : Holds(d)' <=> Holds(d)
        BY <1>0, <2>0, <2>1 DEF Holds, Quiet
    <2>3. \A u, d : Mine(u, d)' <=> Mine(u, d)
        BY <1>0, <2>1 DEF Mine, Quiet, pushing
    <2>4. ASSUME ~ lapped', ~ early'
          PROVE  event' = claims'[Len(file') + 1] /\ Writers(tail)' = {}
        <3>1. ~ lapped /\ ~ early /\ Writers(tail) = {} /\ event' = buffer[tail]
            <4>1. ~ lapped
                BY <1>0, <2>4 DEF Quiet
            <4>2. ~ early /\ Writers(tail) = {}
                BY <2>4 DEF PopRead
            <4>3. event' = buffer[tail]
                BY <4>2 DEF PopRead
            <4> QED  BY <4>1, <4>2, <4>3
        <3>2. Fill \in Int /\ Fill >= 1 /\ Slot(0) = tail /\ Len(file) \in Nat
            <4>1. Fill \in Int /\ Slot(0) = tail
                BY FillIsInt, Slots
            <4>2. Len(file) \in Nat
                BY DEF TypeOK
            <4> QED  BY <1>4, <3>1, <4>1, <4>2
        <3>3. Holds(0)
            BY <3>1, <3>2 DEF Text
        <3>4. buffer[tail] = claims[Len(file) + 1]
            BY <3>1, <3>2, <3>3 DEF Holds
        <3>5. Writers(tail)' = {}
            BY <1>0, <3>1 DEF Writers, Quiet, pushing
        <3> QED  BY <1>0, <3>1, <3>4, <3>5 DEF Quiet
    <2>5. ~ early' => ~ early
        BY DEF PopRead
    <2> QED  BY <1>0, <2>1, <2>2, <2>3, <2>4, <2>5 DEF Text, Quiet, pushing
<1> QED  BY <1>1, <1>2, <1>3, <1>5, <1>6

\* A slot is released when its line is written.
LEMMA PopStoreKeeps ==
    ASSUME IInv, PopStore
    PROVE  IInv'
<1> USE DEF IInv
<1>0. Capacity \in Nat /\ Capacity > 1 /\ Fill \in Int
    BY FillIsInt
<1>n. /\ tail' \in 0 .. Capacity - 1
      /\ tail' = IF tail = Capacity - 1 THEN 0 ELSE tail + 1
    BY NextIndexIs DEF PopStore, TypeOK
<1>1. file' \in Seq(Event) /\ Len(file') = Len(file) + 1 /\ Len(file) \in Nat
    BY DEF PopStore, TypeOK
<1>2. TypeOK'
    BY <1>1, <1>n DEF TypeOK, PopStore, pushing, history
<1>3. Counted' /\ Fill' = Fill - 1
    <2>1. Calls' = Calls /\ dropped' = dropped /\ claims' = claims /\ Len(claims) \in Nat
        BY DEF PopStore, Calls, pushing, history, Counted
    <2> QED  BY <1>1, <2>1 DEF Fill, Counted
<1>4. Distance' /\ Inside'
    BY DEF Distance, Inside, PopStore, pushing, history
<1>5. Level'
    <2> SUFFICES ASSUME ~ lapped'
                 PROVE  /\ Fill' \in 0 .. Capacity - 1
                        /\ head' = tail' + Fill' \/ head' = tail' + Fill' - Capacity
        BY DEF Level
    <2>1. /\ Fill >= 1 /\ Fill \in 0 .. Capacity - 1
          /\ head = tail + Fill \/ head = tail + Fill - Capacity
        BY DEF Storing, Level, PopStore, history
    <2>2. head' = head /\ head \in 0 .. Capacity - 1 /\ tail \in 0 .. Capacity - 1
        BY DEF PopStore, TypeOK
    <2> QED  BY <1>0, <1>n, <1>3, <2>1, <2>2
<1>6. Room'
    <2>1. ~ lapped' => Fill \in 0 .. Capacity - 1 /\ Fill' <= Capacity - 2
        BY <1>0, <1>3 DEF Level, PopStore, history
    <2> QED  BY <2>1 DEF Room
<1>7. Storing'
    BY DEF Storing, PopStore
<1>8. Text'
    <2> SUFFICES ASSUME ~ lapped', ~ early'
                 PROVE  /\ \A i \in 1 .. Len(file') : file'[i] = claims'[i]
                        /\ \A d \in 0 .. Fill' - 1 : Holds(d)'
                        /\ \A u \in Thread : pc'[u] = "write" =>
                              \E d \in 0 .. Fill' - 1 : Mine(u, d)'
        BY DEF Text, PopStore
    <2>0. /\ ~ lapped /\ ~ early /\ loggerPc = "store" /\ file' = Append(file, event)
          /\ UNCHANGED <<claims, buffer, pc, seenHead, calls>>
        BY DEF PopStore, pushing, history
    <2>1. /\ Fill \in 1 .. Capacity - 1 /\ Slot(0) = tail
          /\ event = claims[Len(file) + 1] /\ Writers(tail) = {}
        BY <1>0, <2>0, Slots DEF Level, Storing, Text
    <2>2. ASSUME NEW d \in 0 .. Capacity - 2 PROVE Slot(d)' = Slot(d + 1)
        BY <1>0, <1>n DEF Slot, TypeOK
    <2>3. \A k : Writers(k)' = Writers(k)
        BY <2>0 DEF Writers
    <2>4. ASSUME NEW d \in 0 .. Fill' - 1
          PROVE  d + 1 \in 0 .. Fill - 1 /\ d \in 0 .. Capacity - 2
        BY <1>0, <1>3, <2>1
    <2>5. \A d \in 0 .. Fill' - 1 : Len(file') + d + 1 = Len(file) + (d + 1) + 1
        BY <1>0, <1>1, <1>3
    <2>6. ASSUME NEW d \in 0 .. Fill' - 1 PROVE Holds(d)'
        <3>1. Holds(d + 1)
            BY <2>0, <2>4 DEF Text
        <3>2. Slot(d)' = Slot(d + 1)
            BY <2>2, <2>4
        <3>3. Writers(Slot(d))' = Writers(Slot(d + 1))
            BY <2>0, <3>2 DEF Writers
        <3> QED  BY <2>0, <2>5, <3>1, <3>2, <3>3 DEF Holds
    <2>7. ASSUME NEW u \in Thread, pc'[u] = "write"
          PROVE  \E d \in 0 .. Fill' - 1 : Mine(u, d)'
        <3>1. pc[u] = "write"
            BY <2>0, <2>7
        <3>2. PICK e \in 0 .. Fill - 1 : Mine(u, e)
            BY <2>0, <3>1 DEF Text
        <3>3. e # 0
            BY <2>1, <3>1, <3>2 DEF Mine, Writers
        <3>4. PICK d \in 0 .. Fill' - 1 : e = d + 1
            <4>1. e - 1 \in 0 .. Fill' - 1 /\ e = (e - 1) + 1
                BY <1>0, <1>3, <3>3
            <4> QED  BY <4>1
        <3>5. Slot(d)' = Slot(e)
            BY <2>2, <2>4, <3>4
        <3>6. Mine(u, d)'
            BY <2>0, <2>5, <3>2, <3>4, <3>5 DEF Mine
        <3> QED  BY <3>6
    <2>8. \A i \in 1 .. Len(file') : file'[i] = claims[i]
        <3> SUFFICES ASSUME NEW i \in 1 .. Len(file') PROVE file'[i] = claims[i]
            OBVIOUS
        <3>1. CASE i = Len(file) + 1
            BY <1>1, <2>0, <2>1, <3>1 DEF TypeOK
        <3>2. CASE i # Len(file) + 1
            <4>1. i \in 1 .. Len(file)
                BY <1>1, <3>2
            <4>2. file[i] = claims[i] /\ file'[i] = file[i]
                BY <2>0, <4>1 DEF Text, TypeOK
            <4> QED  BY <4>2
        <3> QED  BY <3>1, <3>2
    <2> QED  BY <2>0, <2>6, <2>7, <2>8
<1> QED  BY <1>2, <1>3, <1>4, <1>5, <1>6, <1>7, <1>8

-----------------------------------------------------------------------------
(* Theorems *)

\* Every step keeps the invariant.
LEMMA NextIInv == IInv /\ [Next]_vars => IInv'
<1> SUFFICES ASSUME IInv, [Next]_vars PROVE IInv'
    OBVIOUS
<1>1. ASSUME NEW t \in Thread, Log(t) \/ Push(t) PROVE IInv'
    BY <1>1, LogKeeps, LoadTailKeeps, PushFullKeeps, PushClaimKeeps, PushRetryKeeps,
       PushWriteKeeps DEF Push
<1>2. CASE Logger \/ StartLogger \/ StopLogger \/ JoinLogger
    BY <1>2, IdleKeeps, PopReadKeeps, PopStoreKeeps DEF Logger
<1>3. CASE UNCHANGED vars
    <2>1. Quiet /\ UNCHANGED <<pushing, logger, history, ring, mainPc, running>>
        BY <1>3 DEF vars, Quiet, ring, pushing, logger, history
    <2>2. TypeOK' /\ Distance' /\ Inside'
        BY <2>1 DEF IInv, TypeOK, Distance, Inside, ring, pushing, logger, history
    <2>3. Steady
        BY <2>1 DEF Steady, ring, pushing, logger, history
    <2> QED  BY <2>1, <2>2, <2>3, QuietFill, SteadyText
             DEF IInv, Room, Storing, pushing, logger, history, NextIndex
<1> QED  BY <1>1, <1>2, <1>3 DEF Next

\* Every index that log() and the logger thread use is a slot of the ring, for
\* every number of threads, capacity and number of calls.
THEOREM TypeCorrect == Spec => []TypeOK
<1>1. IInv => TypeOK
    BY DEF IInv
<1> QED  BY <1>1, InitIInv, NextIInv, PTL DEF Spec

\* Every call is counted as dropped or has claimed a slot.  Unless a thread was
\* overtaken by a whole lap of the ring between its load of head and its
\* compare-and-swap, the claims are the lines and the occupied slots; unless
\* the logger thread has also read a slot before its writer was done, the lines
\* are the calls in the order of their claims and the slots, in the order in
\* which they will be popped, are the calls that follow.
THEOREM DropsExact == Spec => []CallsAccounted
<1>1. IInv => CallsAccounted
    <2> SUFFICES ASSUME IInv PROVE CallsAccounted
        OBVIOUS
    <2>1. /\ Len(file) \in Nat /\ Len(claims) \in Nat /\ Capacity \in Nat
          /\ Cardinality(Calls) = Len(claims) + dropped
        BY FillIsInt DEF IInv, TypeOK, Counted
    <2>2. ASSUME ~ lapped
          PROVE  Used = Fill /\ Fill \in 0 .. Capacity - 1
        BY <2>2, Between DEF IInv, Level, TypeOK, Used
    <2>3. ASSUME ~ lapped PROVE Len(claims) = Len(file) + Used
        BY <2>1, <2>2, <2>3 DEF Fill
    <2>4. ASSUME ~ lapped, ~ early, NEW d \in 0 .. Used - 1
          PROVE  LET call == claims[Len(file) + d + 1]  slot == (tail + d) % Capacity
                 IN  buffer[slot] = call \/ call[1] \in Writers(slot)
        <3>1. Holds(d) /\ d \in 0 .. Capacity - 1
            BY <2>1, <2>2, <2>4 DEF IInv, Text
        <3>2. (tail + d) % Capacity = Slot(d)
            BY <3>1, Slots DEF IInv
        <3> QED  BY <3>1, <3>2 DEF Holds
    <2>5. ~ lapped /\ ~ early => \A i \in 1 .. Len(file) : file[i] = claims[i]
        BY DEF IInv, Text
    <2> QED  BY <2>1, <2>3, <2>4, <2>5 DEF CallsAccounted
<1> QED  BY <1>1, InitIInv, NextIInv, PTL DEF Spec
=============================================================================

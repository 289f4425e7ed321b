---------------------------- MODULE AsyncLogger ----------------------------
(***************************************************************************)
(* The asynchronous logger (logging.cpp): many threads call log(), which   *)
(* claims a slot of a bounded ring by compare-and-swap on head and then    *)
(* writes the event into it; the logger thread pops events into the file   *)
(* until stop_async_logger, then drains the ring.                          *)
(***************************************************************************)
EXTENDS Integers, Sequences, FiniteSets

CONSTANTS
    Thread,     \* the threads that log
    Capacity,   \* LOG_QUEUE_CAPACITY
    MaxCalls    \* bound: calls of log() by one thread

ASSUME LoggerAssumption ==
    IsFiniteSet(Thread) /\ Capacity \in Nat \ {0, 1} /\ MaxCalls \in Nat

VARIABLES
    head, tail, dropped, buffer,   \* g_queue
    running,                       \* g_logger_running
    pc, seenHead, seenTail, calls, \* each logging thread, in try_push_log_event
    mainPc,                        \* the thread that starts and stops the logger
    loggerPc, event, draining,     \* logger thread, in logger_loop
    file,                          \* lines written
    overtaken,  \* history: claims of others since a thread inside log() loaded head
    lapped,     \* history: a compare-and-swap has succeeded on a head that other
                \* threads had moved a whole lap or more
    claims,     \* history: the calls that have claimed a slot, in order
    early       \* history: a slot was read before its thread had written it

ring   == <<head, tail, dropped, buffer>>
pushing == <<pc, seenHead, seenTail, calls>>
logger == <<loggerPc, event, draining, file>>
history == <<overtaken, lapped, claims, early>>
vars == <<ring, running, pushing, mainPc, logger, history>>

\* A slot that was never written.
Blank == <<"blank", 0>>

\* What a read of a slot may give while a thread is writing it.
Torn == <<"torn", 0>>

Init ==
    /\ head = 0 /\ tail = 0 /\ dropped = 0
    /\ buffer = [k \in 0 .. Capacity - 1 |-> Blank]
    /\ running = FALSE
    /\ pc = [t \in Thread |-> "idle"]
    /\ seenHead = [t \in Thread |-> 0] /\ seenTail = [t \in Thread |-> 0]
    /\ calls = [t \in Thread |-> 0]
    /\ mainPc = "start"
    /\ loggerPc = "none" /\ event = Blank /\ draining = FALSE
    /\ file = <<>>
    /\ overtaken = [t \in Thread |-> 0] /\ lapped = FALSE
    /\ claims = <<>> /\ early = FALSE

-----------------------------------------------------------------------------
(* log: the two loads, the full test, the claim, the write *)

\* Plausible bug: the index runs off the buffer.
NextIndex_NoWrap(k) == k + 1

NextIndex(k) == (k + 1) % Capacity

Log(t) ==
    /\ pc[t] = "idle" /\ calls[t] < MaxCalls
    /\ pc' = [pc EXCEPT ![t] = "tail"]
    /\ seenHead' = [seenHead EXCEPT ![t] = head]
    /\ UNCHANGED <<ring, running, seenTail, calls, mainPc, logger, history>>

LoadTail(t) ==
    /\ pc[t] = "tail"
    /\ pc' = [pc EXCEPT ![t] = "test"]
    /\ seenTail' = [seenTail EXCEPT ![t] = tail]
    /\ UNCHANGED <<ring, running, seenHead, calls, mainPc, logger, history>>

\* Plausible bug: a full ring makes the caller wait.
PushFull_Waits(t) ==
    /\ pc[t] = "test" /\ NextIndex(seenHead[t]) = seenTail[t]
    /\ pc' = [pc EXCEPT ![t] = "tail"]
    /\ seenHead' = [seenHead EXCEPT ![t] = head]
    /\ overtaken' = [overtaken EXCEPT ![t] = 0]
    /\ UNCHANGED <<ring, running, seenTail, calls, mainPc, logger, lapped, claims, early>>

PushFull(t) ==
    /\ pc[t] = "test" /\ NextIndex(seenHead[t]) = seenTail[t]
    /\ dropped' = dropped + 1
    /\ pc' = [pc EXCEPT ![t] = "idle"]
    /\ calls' = [calls EXCEPT ![t] = @ + 1]
    /\ overtaken' = [overtaken EXCEPT ![t] = 0]
    /\ UNCHANGED <<head, tail, buffer, running, seenHead, seenTail, mainPc, logger, lapped, claims, early>>

\* A claim of t moves head past every thread that has loaded it and has not
\* claimed yet.
Claim(t) ==
    /\ overtaken' = [u \in Thread |->
           IF u # t /\ pc[u] \in {"tail", "test"} THEN overtaken[u] + 1 ELSE 0]
    /\ lapped' = (lapped \/ overtaken[t] >= Capacity)
    /\ claims' = Append(claims, <<t, calls[t] + 1>>)
    /\ UNCHANGED early

\* Plausible bug: head is stored, not compared and swapped.
PushClaim_Store(t) ==
    /\ pc[t] = "test" /\ NextIndex(seenHead[t]) # seenTail[t]
    /\ head' = NextIndex(seenHead[t])
    /\ pc' = [pc EXCEPT ![t] = "write"]
    /\ calls' = [calls EXCEPT ![t] = @ + 1]
    /\ Claim(t)
    /\ UNCHANGED <<tail, dropped, buffer, running, seenHead, seenTail, mainPc, logger>>

PushClaim(t) ==
    /\ pc[t] = "test" /\ NextIndex(seenHead[t]) # seenTail[t]
    /\ head = seenHead[t]
    /\ head' = NextIndex(head)
    /\ pc' = [pc EXCEPT ![t] = "write"]
    /\ calls' = [calls EXCEPT ![t] = @ + 1]
    /\ Claim(t)
    /\ UNCHANGED <<tail, dropped, buffer, running, seenHead, seenTail, mainPc, logger>>

\* The compare-and-swap failed: the loop starts over with fresh loads.
PushRetry(t) ==
    /\ pc[t] = "test" /\ NextIndex(seenHead[t]) # seenTail[t]
    /\ head # seenHead[t]
    /\ seenHead' = [seenHead EXCEPT ![t] = head]
    /\ pc' = [pc EXCEPT ![t] = "tail"]
    /\ overtaken' = [overtaken EXCEPT ![t] = 0]
    /\ UNCHANGED <<ring, running, seenTail, calls, mainPc, logger, lapped, claims, early>>

\* The claim is visible before the event is in the slot; the step is when
\* the other threads see the event there.
PushWrite(t) ==
    /\ pc[t] = "write"
    /\ buffer' = [buffer EXCEPT ![seenHead[t]] = <<t, calls[t]>>]
    /\ pc' = [pc EXCEPT ![t] = "idle"]
    /\ UNCHANGED <<head, tail, dropped, running, seenHead, seenTail, calls, mainPc, logger, history>>

-----------------------------------------------------------------------------
(* logger_loop and try_pop_log_event *)

\* Plausible bug: the flag is never looked at.
LoopTop_IgnoresFlag ==
    /\ loggerPc = "top"
    /\ loggerPc' = "pop"
    /\ UNCHANGED <<ring, running, pushing, mainPc, event, draining, file, history>>

LoopTop ==
    /\ loggerPc = "top"
    /\ loggerPc' = "pop"
    /\ draining' = ~running
    /\ UNCHANGED <<ring, running, pushing, mainPc, event, file, history>>

\* An empty ring: flush or sleep, then look at the flag; when draining, write
\* the line with the drop count and return.
PopEmpty ==
    /\ loggerPc = "pop" /\ head = tail
    /\ loggerPc' = IF draining THEN "stopped" ELSE "top"
    /\ UNCHANGED <<ring, running, pushing, mainPc, event, draining, file, history>>

\* The threads that have claimed the slot and not written it.
Writers(slot) == {t \in Thread : pc[t] = "write" /\ seenHead[t] = slot}

PopRead ==
    /\ loggerPc = "pop" /\ head # tail
    /\ event' \in {buffer[tail]} \cup {Torn : t \in Writers(tail)}
    /\ early' = (early \/ Writers(tail) # {})
    /\ loggerPc' = "store"
    /\ UNCHANGED <<ring, running, pushing, mainPc, draining, file, overtaken, lapped, claims>>

\* The tail is released and the line goes to the file.
PopStore ==
    /\ loggerPc = "store"
    /\ tail' = NextIndex(tail)
    /\ file' = Append(file, event)
    /\ loggerPc' = "pop"
    /\ UNCHANGED <<head, dropped, buffer, running, pushing, mainPc, event, draining, history>>

(* start_async_logger, stop_async_logger *)

StartLogger ==
    /\ mainPc = "start"
    /\ running' = TRUE /\ loggerPc' = "top"
    /\ mainPc' = "run"
    /\ UNCHANGED <<ring, pushing, event, draining, file, history>>

StopLogger ==
    /\ mainPc = "run"
    /\ running' = FALSE
    /\ mainPc' = "join"
    /\ UNCHANGED <<ring, pushing, logger, history>>

JoinLogger ==
    /\ mainPc = "join" /\ loggerPc = "stopped"
    /\ mainPc' = "done"
    /\ UNCHANGED <<ring, running, pushing, logger, history>>

Push(t) == \/ LoadTail(t) \/ PushFull(t) \/ PushClaim(t)
           \/ PushRetry(t) \/ PushWrite(t)
Logger  == LoopTop \/ PopEmpty \/ PopRead \/ PopStore

Next ==
    \/ \E t \in Thread : Log(t) \/ Push(t)
    \/ Logger \/ StartLogger \/ StopLogger \/ JoinLogger

Spec == Init /\ [][Next]_vars

\* Threads that have work keep running; when to log and when to stop is the
\* program's business.
FairSpec ==
    Spec /\ WF_vars(Logger) /\ WF_vars(JoinLogger) /\ \A t \in Thread : WF_vars(Push(t))

-----------------------------------------------------------------------------
(* Properties *)

\* What a slot or a line holds: the number of a call, or no whole event.
Event == (Thread \X Nat) \cup {Blank, Torn}

\* Every index is a slot, every program counter a place in the code.
TypeOK ==
    /\ head \in 0 .. Capacity - 1 /\ tail \in 0 .. Capacity - 1
    /\ dropped \in Nat /\ running \in BOOLEAN /\ draining \in BOOLEAN
    /\ pc \in [Thread -> {"idle", "tail", "test", "write"}]
    /\ seenHead \in [Thread -> 0 .. Capacity - 1]
    /\ seenTail \in [Thread -> 0 .. Capacity - 1]
    /\ calls \in [Thread -> 0 .. MaxCalls]
    /\ mainPc \in {"start", "run", "join", "done"}
    /\ loggerPc \in {"none", "top", "pop", "store", "stopped"}
    /\ buffer \in [0 .. Capacity - 1 -> Event] /\ event \in Event /\ file \in Seq(Event)
    /\ overtaken \in [Thread -> Nat] /\ lapped \in BOOLEAN /\ early \in BOOLEAN

\* The calls of log() that have got past the queue.
Calls == {c \in Thread \X (1 .. MaxCalls) : c[2] <= calls[c[1]]}

Used == (head - tail) % Capacity

\* dropped_logs is exact: every call that has got past the queue has claimed a
\* slot of its own or is counted as dropped, and every claim is a line of the
\* file or an occupied slot, however the compare-and-swaps interleave.  The
\* lines are the calls in the order of their claims, none blank, torn,
\* repeated or out of place, and the occupied slots hold, or are about to get,
\* the calls that follow.  Two things can break this: a thread that others
\* overtake by a whole lap of the ring between its load of head and its
\* compare-and-swap (the index has come round), and, for the text of the
\* lines, the logger thread reading a slot before its writer is done.
CallsAccounted ==
    /\ Cardinality(Calls) = Len(claims) + dropped
    /\ ~ lapped => Len(claims) = Len(file) + Used
    /\ ~ lapped /\ ~ early =>
          /\ \A i \in 1 .. Len(file) : file[i] = claims[i]
          /\ \A d \in 0 .. Used - 1 :
                LET call == claims[Len(file) + d + 1]  slot == (tail + d) % Capacity
                IN  buffer[slot] = call \/ call[1] \in Writers(slot)

\* log() never blocks its caller, full ring or not, logger alive or not.
LogReturns == \A t \in Thread : (pc[t] # "idle") ~> (pc[t] = "idle")

\* stop_async_logger returns.
StopReturns == (mainPc = "join") ~> (mainPc = "done")
=============================================================================

----------------------------- MODULE LiveRouter -----------------------------
(***************************************************************************)
(* apps/live_multi_venue_router.cpp: one thread per venue and symbol reads *)
(* a WebSocket stream, normalizes its frames (MarketDataAdapter) and hands *)
(* every update to process_update, which works on the shared state         *)
(* (MultiVenueRouter, KillSwitch, replay and journal writers) under one    *)
(* mutex.  The operator creates and removes the halt file meanwhile, and   *)
(* either file may refuse a record, which nobody looks at.  The kill       *)
(* switch is called only under the mutex here, so its calls are single     *)
(* steps; KillSwitch has the unsynchronised case.                          *)
(***************************************************************************)
EXTENDS MarketDataAdapter

CONSTANTS
    Venue, Symbol,
    Frames,     \* what a venue may send: quotes, crossed ones, other text
    MaxRoutes,  \* KillSwitchLimits::max_routes_per_run
    MaxUpdates, \* LLT_MAX_UPDATES_PER_STREAM
    MaxFailures \* bound: records that a file refuses

Stream == Venue \X Symbol

\* SharedState::replay_writer and SharedState::journal
File == {"replay", "journal"}

ASSUME RouterAssumption ==
    /\ MaxRoutes \in Nat /\ MaxUpdates \in Nat \ {0}
    /\ MaxSequence \in Nat /\ MaxFailures \in Nat
    /\ None \notin Stream /\ None \notin Numeral
    /\ Frames \subseteq Frame

VARIABLES
    pc, held, received,  \* per stream: step, update in hand, updates so far
    lock,                \* SharedState::mutex
    books,               \* MultiVenueRouter::books_
    enabled, routes,     \* KillSwitch: trading_enabled_, routes_seen_
    halt,                \* controls/HALT exists
    events,              \* history: what process_update has recorded, in order
    file,                \* what a reader gets from each of the two files
    cut,                 \* a file behind whose end nothing can be read any more
    failures             \* what was used of MaxFailures

streamVars == <<pc, held, received>>
record == <<events, file, cut, failures>>
vars == <<streamVars, lock, books, enabled, routes, halt, record>>

Init ==
    /\ pc = [t \in Stream |-> "read"]
    /\ held = [t \in Stream |-> None]
    /\ received = [t \in Stream |-> 0]
    /\ lock = None
    /\ books = [t \in Stream |-> None]
    /\ enabled = TRUE /\ routes = 0
    /\ halt = FALSE
    /\ events = <<>> /\ failures = 0
    /\ file = [f \in File |-> <<>>] /\ cut = [f \in File |-> FALSE]

Goto(t, label) == pc' = [pc EXCEPT ![t] = label]

\* MultiVenueRouter::update accepts two positive prices that do not cross.
Valid(u) == u.bid > 0 /\ u.ask > 0 /\ u.bid <= u.ask

\* Venues with a book for the symbol that offer the best price; which of
\* several equal ones wins depends on the hash map's order.
Known(s) == {v \in Venue : books[<<v, s>>] # None}

BestAsk(s) == {v \in Known(s) : \A w \in Known(s) : books[<<v, s>>].ask <= books[<<w, s>>].ask}
BestBid(s) == {v \in Known(s) : \A w \in Known(s) : books[<<v, s>>].bid >= books[<<w, s>>].bid}

-----------------------------------------------------------------------------
(* run_..._stream: the connector's read loop *)

\* A frame that does not normalize is skipped, and not counted.
SkipFrame(t, frame) ==
    /\ pc[t] = "read" /\ received[t] < MaxUpdates
    /\ Normalize(frame) = None
    /\ UNCHANGED vars

Receive(t, frame) ==
    /\ pc[t] = "read" /\ received[t] < MaxUpdates
    /\ Normalize(frame) # None
    /\ held' = [held EXCEPT ![t] = Normalize(frame)]
    /\ Goto(t, "lock")
    /\ UNCHANGED <<received, lock, books, enabled, routes, halt, record>>

\* the stream is closed by the venue, fails, or has had its updates
StreamEnds(t) ==
    /\ pc[t] = "read"
    /\ Goto(t, "done")
    /\ UNCHANGED <<held, received, lock, books, enabled, routes, halt, record>>

\* process_update returns to the connector, releasing the mutex
Return(t) ==
    /\ Goto(t, "read")
    /\ received' = [received EXCEPT ![t] = @ + 1]
    /\ held' = [held EXCEPT ![t] = None]

\* Plausible bug: the halt file is consulted but the flag is not.
Enter_FileOnly(t) ==
    /\ pc[t] = "lock" /\ lock = None
    /\ enabled' = (enabled /\ ~halt)
    /\ IF ~halt
       THEN lock' = t /\ Goto(t, "update") /\ UNCHANGED <<held, received>>
       ELSE Return(t) /\ UNCHANGED lock
    /\ UNCHANGED <<books, routes, halt, record>>

\* Plausible bug: an update that finds trading disabled waits for its return.
Enter_Waits(t) ==
    /\ pc[t] = "lock" /\ lock = None
    /\ enabled' = (enabled /\ ~halt)
    /\ enabled'
    /\ lock' = t /\ Goto(t, "update")
    /\ UNCHANGED <<held, received, books, routes, halt, record>>

\* lock, then KillSwitch::trading_enabled, once per update
Enter(t) ==
    /\ pc[t] = "lock" /\ lock = None
    /\ enabled' = (enabled /\ ~halt)
    /\ IF enabled'
       THEN lock' = t /\ Goto(t, "update") /\ UNCHANGED <<held, received>>
       ELSE Return(t) /\ UNCHANGED lock
    /\ UNCHANGED <<books, routes, halt, record>>

\* Plausible bug: an invalid update returns without releasing the mutex.
UpdateRejected_KeepsLock(t) ==
    /\ pc[t] = "update" /\ ~Valid(held[t])
    /\ Return(t)
    /\ UNCHANGED <<lock, books, enabled, routes, halt, record>>

UpdateRejected(t) ==
    /\ pc[t] = "update" /\ ~Valid(held[t])
    /\ Return(t)
    /\ lock' = None
    /\ UNCHANGED <<books, enabled, routes, halt, record>>

\* Plausible bug: a refused record does not use up its number.
Number_IfTaken(f) == Len(file[f]) + 1

\* replay_seq and journal_seq are incremented for every record, taken or not.
Number(f) == Len(events) + 1

\* ReplayWriter::append, then JournalWriter::append; both results are ignored.
\* A refused record leaves a fragment behind, at which readers stop, or
\* nothing.  The replay file takes the next one again; the journal's stream
\* stays bad.
Record(e) ==
    /\ events' = Append(events, e)
    /\ \E refused \in SUBSET File, fragment \in BOOLEAN :
          /\ refused # {} => failures < MaxFailures
          /\ failures' = IF refused = {} THEN failures ELSE failures + 1
          /\ file' = [f \in File |-> IF f \in refused \/ cut[f] THEN file[f]
                                     ELSE Append(file[f], [seq |-> Number(f), event |-> e])]
          /\ cut' = [f \in File |-> cut[f] \/ (f \in refused /\ (f = "journal" \/ fragment))]

\* MultiVenueRouter::update, then the record of the update
UpdateBook(t) ==
    /\ pc[t] = "update" /\ Valid(held[t])
    /\ books' = [books EXCEPT ![t] = held[t]]
    /\ Record([kind |-> "update", by |-> t, venue |-> t[1], px |-> held[t]])
    /\ Goto(t, "buy")
    /\ UNCHANGED <<held, received, lock, enabled, routes, halt>>

\* The decision's venue is carried for the properties; the record, a Signal,
\* has symbol, side and price.
RouteEvent(t, side, v) ==
    [kind |-> side, by |-> t, venue |-> v,
     px |-> IF side = "Buy" THEN books[<<v, t[2]>>].ask ELSE books[<<v, t[2]>>].bid]

\* KillSwitch::on_route trips when the count exceeds the limit
OnRoute ==
    /\ routes' = routes + 1
    /\ enabled' = (enabled /\ routes + 1 <= MaxRoutes)

\* route_signal for a buy and for a sell of the update's symbol: the decision
\* is counted by the kill switch and recorded.  The sell is recorded even if
\* the buy has tripped the switch.
RouteBuy(t) ==
    /\ pc[t] = "buy"
    /\ OnRoute
    /\ \E v \in BestAsk(t[2]) : Record(RouteEvent(t, "Buy", v))
    /\ Goto(t, "sell")
    /\ UNCHANGED <<held, received, lock, books, halt>>

RouteSell(t) ==
    /\ pc[t] = "sell"
    /\ OnRoute
    /\ \E v \in BestBid(t[2]) : Record(RouteEvent(t, "Sell", v))
    /\ Return(t)
    /\ lock' = None
    /\ UNCHANGED <<books, halt>>

OperatorTogglesHalt ==
    /\ halt' = ~halt
    /\ UNCHANGED <<streamVars, lock, books, enabled, routes, record>>

AllDone == \A t \in Stream : pc[t] = "done"

\* main has joined every stream's thread
Joined == AllDone /\ UNCHANGED vars

\* process_update
Process(t) ==
    Enter(t) \/ UpdateRejected(t) \/ UpdateBook(t) \/ RouteBuy(t) \/ RouteSell(t)

Step(t) ==
    \/ \E frame \in Frames : Receive(t, frame) \/ SkipFrame(t, frame)
    \/ StreamEnds(t)
    \/ Process(t)

Next == OperatorTogglesHalt \/ Joined \/ \E t \in Stream : Step(t)

Spec == Init /\ [][Next]_vars

\* A thread inside process_update goes on.  Nothing is asked of the venues: a
\* read may block for ever.  Nothing is asked of the mutex either, which lets
\* in whom it likes.
Fairness == \A t \in Stream : WF_vars(Process(t))

FairSpec == Spec /\ Fairness

-----------------------------------------------------------------------------
(* Properties *)

Inside == {"update", "buy", "sell"}

\* Every variable has its type; the mutex is held exactly by the stream that
\* is inside process_update.
TypeOK ==
    /\ pc \in [Stream -> {"read", "lock", "done"} \cup Inside]
    /\ held \in [Stream -> {Normalize(f) : f \in Frames} \cup {None}]
    /\ received \in [Stream -> 0 .. MaxUpdates]
    /\ books \in [Stream -> {Normalize(f) : f \in Frames} \cup {None}]
    /\ enabled \in BOOLEAN /\ halt \in BOOLEAN /\ routes \in Nat
    /\ cut \in [File -> BOOLEAN] /\ failures \in 0 .. MaxFailures
    /\ \A t \in Stream : pc[t] \in Inside <=> lock = t

\* The latest update of venue v for the symbol of event k among the first k
\* events of es, and the venues that have one.
Latest(es, k, v) ==
    LET mine == {j \in 1 .. k : es[j].kind = "update" /\ es[j].by = <<v, es[k].by[2]>>}
    IN  IF mine = {} THEN None ELSE es[Max(mine)].px

Seen(es, k) == {v \in Venue : Latest(es, k, v) # None}

\* Event k is an update, or it can be computed from the events before it: it
\* stands behind the update it was made for, and its price is the lowest ask,
\* or the highest bid, of the books that the updates so far add up to.
Explained(es, k) ==
    LET e == es[k] IN
    /\ e.kind = "Buy" =>
          /\ k > 1 /\ es[k - 1].kind = "update" /\ es[k - 1].by = e.by
          /\ \E v \in Seen(es, k) : e.px = Latest(es, k, v).ask
          /\ \A v \in Seen(es, k) : e.px <= Latest(es, k, v).ask
    /\ e.kind = "Sell" =>
          /\ k > 1 /\ es[k - 1].kind = "Buy" /\ es[k - 1].by = e.by
          /\ \E v \in Seen(es, k) : e.px = Latest(es, k, v).bid
          /\ \A v \in Seen(es, k) : e.px >= Latest(es, k, v).bid

Contents(f) == [k \in 1 .. Len(file[f]) |-> file[f][k].event]

\* Either file is deterministic input for a replay as far as its numbers have
\* no hole: each route follows its own update before anything of another
\* stream and is what the records up to it give, whatever records are refused
\* and however the streams interleave.
ReplayExplainsRoutes ==
    \A f \in File : \A k \in 1 .. Len(file[f]) :
        file[f][k].seq = k => Explained(Contents(f), k)

\* What the venue sent is what the router compares: every book holds the
\* venue's quantities cut to millionths, and its prices in hundredths
\* wherever the venue writes at most two decimals.
BooksExact ==
    \A t \in Stream : books[t] # None =>
        LET f == books[t].frame IN
        /\ Truncated(books[t].bidQty, f.bidQty, 6) /\ Truncated(books[t].askQty, f.askQty, 6)
        /\ Len(f.bid.frac) <= 2 => Truncated(books[t].bid, f.bid, 2)
        /\ Len(f.ask.frac) <= 2 => Truncated(books[t].ask, f.ask, 2)

RoutesMade == {k \in 1 .. Len(events) : events[k].kind # "update"}

\* The kill switch counts every route that is made, trips above its limit, and
\* is asked often enough: the limit is overrun by the two routes of one update
\* at most, although every stream may have an update in hand when it trips.
RouteLimitHolds ==
    /\ Cardinality(RoutesMade) = routes
    /\ routes > MaxRoutes => ~enabled
    /\ routes <= MaxRoutes + 2

\* An update in hand is dealt with, halted or not: no stream is left waiting
\* for the mutex, which is not fair, as long as the others' updates run out.
UpdateServed == \A t \in Stream : (pc[t] = "lock") ~> (pc[t] = "read")

-----------------------------------------------------------------------------
(* What the documentation says of the router and the code does not do. *)

\* README, "81531.83 dollars -> 8153183 cents/ticks", and route_signal's
\* "routed to lowest live ask": a buy goes to a venue that asks no more, and
\* a sell to one that bids no less, than any other venue with a quote.
RoutesToBest ==
    \A k \in 1 .. Len(events) :
        LET e == events[k] IN
        \A v \in Seen(events, k) :
            /\ e.kind = "Buy" =>
                  AtMost(Latest(events, k, e.venue).frame.ask, Latest(events, k, v).frame.ask)
            /\ e.kind = "Sell" =>
                  AtMost(Latest(events, k, v).frame.bid, Latest(events, k, e.venue).frame.bid)
=============================================================================

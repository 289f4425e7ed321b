---------------------------- MODULE ReplayChain ----------------------------
(***************************************************************************)
(* Recording and replay of a distributed session: each of the four nodes   *)
(* appends what it sends to a replay file of its own (src/replay.cpp), in  *)
(* front of the send, with its own numbering and a time stamp;             *)
(* apps/replay_merge.cpp sorts the records of all files into one, and      *)
(* apps/replay_run.cpp feeds the market data in it to a fresh strategy,    *)
(* OMS and simulated gateway.                                              *)
(*                                                                         *)
(* A session is one start of the four nodes: every file is truncated when  *)
(* its node opens it.  A process that has crashed or lost its connection   *)
(* is one that takes no further step, and a record it was writing is not   *)
(* there for the reader; messages reach the next node in order.  The state *)
(* read by the properties is what the files hold at any moment of it.      *)
(***************************************************************************)
EXTENDS TradingCore, Sequences, SequencesExt

CONSTANTS
    Quotes,      \* <<bid, ask>> pairs the venue's feed may publish
    Limits,      \* RiskLimits
    MaxUpdates,  \* bound: market data updates
    MaxTime,     \* bound: readings of the clock that differ
    MaxFaults    \* bound: failed writes

ASSUME ReplayAssumption ==
    MaxUpdates \in Nat /\ MaxTime \in Nat /\ MaxFaults \in Nat

Role == {"md", "strategy", "oms", "gateway"}

\* static_cast<int>(node_role)
Rank == [md |-> 1, strategy |-> 2, oms |-> 3, gateway |-> 4]

VARIABLES
    now,           \* what now_ns() returns, in all processes
    file, seq,     \* per node: its replay file, the last number it used
    link,          \* per sending node: messages on the way
    book,          \* strategy node
    nextId, busy,  \* OMS node: next id; an order is unanswered
    updates, faults

vars == <<now, file, seq, link, book, nextId, busy, updates, faults>>

\* RiskEngine::position_: on_fill has no caller.
Position == 0

Init ==
    /\ now = 0
    /\ file = [r \in Role |-> <<>>]
    /\ seq = [r \in Role |-> 0]
    /\ link = [r \in Role |-> <<>>]
    /\ book = NoBook /\ nextId = 1 /\ busy = FALSE
    /\ updates = 0 /\ faults = 0

-----------------------------------------------------------------------------
(* ReplayWriter, ReplayReader *)

Record(r, type, msg, whole) ==
    [role |-> r, seq |-> seq[r] + 1, ts |-> now, type |-> type, msg |-> msg, whole |-> whole]

\* append writes header and payload.  Nobody looks at its result, and a
\* write that failed, with or without a part of the record in the file, does
\* not stop the next one.  The number is used up in any case.
WriteRecord(r, type, msg) ==
    /\ seq' = [seq EXCEPT ![r] = @ + 1]
    /\ \/ /\ file' = [file EXCEPT ![r] = Append(@, Record(r, type, msg, TRUE))]
          /\ UNCHANGED faults
       \/ /\ faults < MaxFaults /\ faults' = faults + 1
          /\ file' \in {file, [file EXCEPT ![r] = Append(@, Record(r, type, msg, FALSE))]}

\* next() until it returns nullopt: up to the first record that is not whole.
ReadAll(f) ==
    LET torn == {k \in 1 .. Len(f) : ~f[k].whole} IN
    SubSeq(f, 1, IF torn = {} THEN Len(f) ELSE Min(torn) - 1)

-----------------------------------------------------------------------------
(* The nodes: record first, then send *)

SendOn(r, msg, from) == link' = [from EXCEPT ![r] = Append(@, msg)]
Take(r) == [link EXCEPT ![r] = Tail(@)]

\* Plausible bug: only updates that are new to the book are recorded, all
\* are sent.
MdPublish_NewOnly(q, s) ==
    LET update == [seq |-> s, bid |-> q[1], ask |-> q[2], src |-> updates + 1] IN
    /\ updates < MaxUpdates /\ updates' = updates + 1
    /\ IF s > updates THEN WriteRecord("md", "MarketData", update)
                      ELSE UNCHANGED <<file, seq, faults>>
    /\ SendOn("md", update, link)
    /\ UNCHANGED <<now, book, nextId, busy>>

\* The venue numbers an update with a new number or, repeating itself, an
\* old one.  src, the update's place in the feed, is carried along for the
\* properties; the messages do not have it.
MdPublish(q, s) ==
    LET update == [seq |-> s, bid |-> q[1], ask |-> q[2], src |-> updates + 1] IN
    /\ updates < MaxUpdates /\ updates' = updates + 1
    /\ WriteRecord("md", "MarketData", update)
    /\ SendOn("md", update, link)
    /\ UNCHANGED <<now, book, nextId, busy>>

Quote(update) == [seq |-> update.seq, bid |-> update.bid, ask |-> update.ask]

StrategyOnUpdate ==
    /\ link["md"] # <<>>
    /\ LET update == Head(link["md"]) IN
       /\ book' = BookApply(book, Quote(update))
       /\ LET signal == OnMarketData(book')
              msg == [terms |-> signal, src |-> update.src]
          IN IF signal = NoSignal
             THEN link' = Take("md") /\ UNCHANGED <<file, seq, faults>>
             ELSE WriteRecord("strategy", "Signal", msg) /\ SendOn("strategy", msg, Take("md"))
    /\ UNCHANGED <<now, nextId, busy, updates>>

\* A signal that risk rejects uses up an id and is neither recorded nor sent.
OmsOnSignal ==
    /\ link["strategy"] # <<>> /\ ~busy
    /\ nextId' = nextId + 1
    /\ LET signal == Head(link["strategy"])
           order == [id |-> nextId, terms |-> signal.terms, src |-> signal.src]
       IN IF RiskOk(signal.terms, Position, Limits)
          THEN /\ WriteRecord("oms", "NewOrder", order)
               /\ SendOn("oms", order, Take("strategy"))
               /\ busy' = TRUE
          ELSE link' = Take("strategy") /\ UNCHANGED <<file, seq, faults, busy>>
    /\ UNCHANGED <<now, book, updates>>

GatewayOnOrder ==
    /\ link["oms"] # <<>>
    /\ LET order == Head(link["oms"])
           response == [id |-> order.id, src |-> order.src]
       IN WriteRecord("gateway", "Response", response) /\ SendOn("gateway", response, Take("oms"))
    /\ UNCHANGED <<now, book, nextId, busy, updates>>

OmsOnResponse ==
    /\ link["gateway"] # <<>>
    /\ WriteRecord("oms", "Response", Head(link["gateway"]))
    /\ link' = Take("gateway")
    /\ busy' = FALSE
    /\ UNCHANGED <<now, book, nextId, updates>>

\* The clock need not advance between two readings.
Tick ==
    /\ now < MaxTime
    /\ now' = now + 1
    /\ UNCHANGED <<file, seq, link, book, nextId, busy, updates, faults>>

Next ==
    \/ \E q \in Quotes, s \in 1 .. updates + 1 : MdPublish(q, s)
    \/ StrategyOnUpdate
    \/ OmsOnSignal
    \/ GatewayOnOrder
    \/ OmsOnResponse
    \/ Tick

Spec == Init /\ [][Next]_vars

-----------------------------------------------------------------------------
(* The tools *)

\* Plausible bug: the sequence is compared before the time stamp.
Before_SequenceFirst(a, b) ==
    \/ a.seq < b.seq
    \/ a.seq = b.seq /\ a.ts < b.ts
    \/ a.seq = b.seq /\ a.ts = b.ts /\ Rank[a.role] < Rank[b.role]

\* replay_merge's comparison
Before(a, b) ==
    \/ a.ts < b.ts
    \/ a.ts = b.ts /\ a.seq < b.seq
    \/ a.ts = b.ts /\ a.seq = b.seq /\ Rank[a.role] < Rank[b.role]

Merged ==
    SortSeq(ReadAll(file["md"]) \o ReadAll(file["strategy"]) \o ReadAll(file["oms"])
               \o ReadAll(file["gateway"]), Before)

\* One iteration of replay_run's loop: market data through a fresh strategy
\* and OMS; the simulated gateway answers every order, and its answers have
\* no effect on later orders.
ReplayEvent(s, event) ==
    IF event.type # "MarketData" THEN s
    ELSE LET bk == BookApply(s.book, Quote(event.msg))
             signal == OnMarketData(bk)
         IN CASE signal = NoSignal -> [s EXCEPT !.book = bk]
              [] signal # NoSignal /\ ~RiskOk(signal, Position, Limits) ->
                    [s EXCEPT !.book = bk, !.nextId = @ + 1]
              [] OTHER ->
                    [s EXCEPT !.book = bk, !.nextId = @ + 1,
                              !.orders = Append(@, [id |-> s.nextId, terms |-> signal])]

ReplayRun(events) ==
    FoldLeft(ReplayEvent, [book |-> NoBook, nextId |-> 1, orders |-> <<>>], events).orders

-----------------------------------------------------------------------------
(* Properties *)

\* How far an event is down the chain from the update it stems from.
Stage(e) ==
    CASE e.type = "MarketData" -> 1 [] e.type = "Signal" -> 2 [] e.type = "NewOrder" -> 3
      [] e.type = "Response" /\ e.role = "gateway" -> 4 [] OTHER -> 5

\* The merged file is an audit trail: it has every readable record exactly
\* once, each node's in the order in which it wrote them, and an event comes
\* before the one that caused it only if both have the same time stamp.
MergeFaithful ==
    LET merged == Merged IN
    /\ \A r \in Role : SelectSeq(merged, LAMBDA e : e.role = r) = ReadAll(file[r])
    /\ \A j \in 1 .. Len(merged), i \in 1 .. Len(merged) :
          /\ i < j
          /\ merged[i].msg.src = merged[j].msg.src /\ Stage(merged[i]) > Stage(merged[j])
          => merged[i].ts = merged[j].ts

\* The records of this node in the merged file are numbered 1, 2, 3, ...
NoGap(r) ==
    LET mine == ReadAll(file[r]) IN \A k \in 1 .. Len(mine) : mine[k].seq = k

\* The orders the live OMS recorded, as far as its file can be read.
LiveOrders(merged) ==
    LET mine == SelectSeq(merged, LAMBDA e : e.role = "oms" /\ e.type = "NewOrder")
    IN  [k \in 1 .. Len(mine) |-> [id |-> mine[k].msg.id, terms |-> mine[k].msg.terms]]

\* Replay is deterministic: from a merged file without a hole in the numbers
\* of the market data and OMS nodes, replay_run makes the orders of the live
\* session, with the same ids and terms, as far as both go; and if every
\* update was recorded it makes all of them.  This holds at any moment, so
\* after any crash, and with repeated updates, rejected signals and ties.
ReplayReproduces ==
    NoGap("md") /\ NoGap("oms") =>
        LET merged == Merged
            live == LiveOrders(merged)
            replayed == ReplayRun(merged)
        IN /\ IsPrefix(live, replayed) \/ IsPrefix(replayed, live)
           /\ Len(ReadAll(file["md"])) = updates => IsPrefix(live, replayed)
=============================================================================

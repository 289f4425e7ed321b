-------------------------- MODULE TradingPipeline --------------------------
(***************************************************************************)
(* The in-process runtimes (apps/threaded_runtime.cpp and                  *)
(* apps/live_market_data_runtime.cpp): four threads, connected by the four *)
(* bounded queues of LocalBus.                                             *)
(*                                                                         *)
(*    market data -> strategy -> OMS -> gateway -> OMS                     *)
(*                                                                         *)
(* Each queue operation is one step, which SpscQueue justifies; between a  *)
(* thread's pop and its push the other threads move.  Everything else a    *)
(* loop iteration does touches only its own thread's state and is part of  *)
(* the step with the pop.                                                  *)
(***************************************************************************)
EXTENDS TradingCore, Sequences, FiniteSets

CONSTANTS
    Quotes,       \* <<bid, ask>> pairs the feed may publish
    Runtimes,     \* the programs to look at: "threaded", "live"
    Room,         \* usable slots of each queue (BUS_CAPACITY - 1)
    Limits,       \* RiskLimits
    MaxUpdates    \* bound: length of the run, in market data updates

ASSUME PipelineAssumption ==
    /\ Room \in Nat \ {0}
    /\ MaxUpdates \in Nat
    /\ Runtimes \subseteq {"threaded", "live"}
    /\ \A q \in Quotes : q[1] \in Int /\ q[2] \in Int

VARIABLES
    runtime,           \* the program that runs
    running,           \* g_running
    bus, dropped,      \* LocalBus: contents and dropped_ of each queue
    mdPc, mdSeq,       \* market data thread
    sPc, book, sHeld,  \* strategy thread, and the signal it is about to push
    oPc, nextId, live, oHeld,    \* OMS thread: OrderManager, order to push
    journal, journalOk,          \* records on disk, JournalWriter stream state
    gPc, available, nextExchId, gHeld,  \* gateway thread: ExchangeGateway
    exchange           \* orders the exchange holds: [id, exchId, src]

busVars == <<bus, dropped>>
mdVars  == <<mdPc, mdSeq>>
sVars   == <<sPc, book, sHeld>>
oVars   == <<oPc, nextId, live, oHeld, journal, journalOk>>
gVars   == <<gPc, available, nextExchId, gHeld, exchange>>
vars == <<runtime, running, busVars, mdVars, sVars, oVars, gVars>>

Queues == {"market_to_strategy", "strategy_to_oms", "oms_to_gateway", "gateway_to_oms"}

\* src, the update an order stems from, is carried along for the properties;
\* the code's messages do not have it.
None == [type |-> "None"]

\* RiskEngine::position_: on_fill has no caller in any runtime.
Position == 0

Init ==
    /\ runtime \in Runtimes /\ running = TRUE
    /\ bus = [q \in Queues |-> <<>>]
    /\ dropped = [q \in Queues |-> 0]
    /\ mdPc = "loop" /\ mdSeq = 0
    /\ sPc = "loop" /\ book = NoBook /\ sHeld = NoSignal
    /\ oPc = "signal" /\ nextId = 1 /\ live = {} /\ oHeld = None
    /\ journal = <<>> /\ journalOk = (runtime = "threaded")
    /\ gPc = "loop" /\ available = TRUE /\ nextExchId = 1000 /\ gHeld = None
    /\ exchange = {}

-----------------------------------------------------------------------------
(* Bounded push: a full queue refuses, counts the refusal and goes on. *)

\* Plausible bug: the full test lets one message too many in.
Push_OffByOne(q, m) ==
    IF Len(bus[q]) <= Room
    THEN bus' = [bus EXCEPT ![q] = Append(@, m)] /\ UNCHANGED dropped
    ELSE dropped' = [dropped EXCEPT ![q] = @ + 1] /\ UNCHANGED bus

\* Plausible bug: a refused message is not counted.
Push_Uncounted(q, m) ==
    /\ IF Len(bus[q]) < Room THEN bus' = [bus EXCEPT ![q] = Append(@, m)]
                             ELSE UNCHANGED bus
    /\ UNCHANGED dropped

Push(q, m) ==
    IF Len(bus[q]) < Room
    THEN bus' = [bus EXCEPT ![q] = Append(@, m)] /\ UNCHANGED dropped
    ELSE dropped' = [dropped EXCEPT ![q] = @ + 1] /\ UNCHANGED bus

\* Plausible bug: the message is read but not removed.
Pop_Peek(q) ==
    /\ bus[q] # <<>>
    /\ UNCHANGED <<bus, dropped>>

Pop(q) ==
    /\ bus[q] # <<>>
    /\ bus' = [bus EXCEPT ![q] = Tail(@)]
    /\ UNCHANGED dropped

\* Plausible bug: only what the gateway answers is journaled.
JournalAppend_OutcomesOnly(type, id) ==
    \/ /\ journalOk
       /\ journal' = IF type = "OrderIntent" THEN journal
                     ELSE Append(journal, [type |-> type, id |-> id])
       /\ UNCHANGED journalOk
    \/ journalOk' = FALSE /\ UNCHANGED journal

\* JournalWriter::append: the record is written, or the stream is or goes bad
\* and stays so.  The caller ignores the result.  The live runtime has no
\* journal, so journalOk is never TRUE there.
JournalAppend(type, id) ==
    \/ /\ journalOk
       /\ journal' = Append(journal, [type |-> type, id |-> id])
       /\ UNCHANGED journalOk
    \/ journalOk' = FALSE /\ UNCHANGED journal

-----------------------------------------------------------------------------
(* market_data_thread: one iteration.  The generator numbers its updates and
   looks at g_running; the live runtime's callback is driven by the venue,
   which numbers them as it likes, and the connector's read loop does not
   know of g_running. *)

\* TopOfBook::apply only tells a new number from one it has passed.
ExchangeSequences == IF runtime = "live" THEN {1, mdSeq + 1} ELSE {mdSeq + 1}

PublishQuote ==
    /\ mdPc = "loop" /\ (running \/ runtime = "live")
    /\ mdSeq < MaxUpdates
    /\ mdSeq' = mdSeq + 1
    /\ \E q \in Quotes, s \in ExchangeSequences :
          Push("market_to_strategy", [seq |-> s, bid |-> q[1], ask |-> q[2]])
    /\ UNCHANGED <<runtime, running, mdPc, sVars, oVars, gVars>>

\* Plausible bug: the end of the feed does not stop the other threads.
FeedEnds_Unannounced ==
    /\ runtime = "live" /\ mdPc = "loop"
    /\ mdPc' = "stopped"
    /\ UNCHANGED <<runtime, running, busVars, mdSeq, sVars, oVars, gVars>>

\* Live runtime: the connector has returned, the stream was closed or failed.
FeedEnds ==
    /\ runtime = "live" /\ mdPc = "loop"
    /\ mdPc' = "stopped"
    /\ running' = FALSE
    /\ UNCHANGED <<runtime, busVars, mdSeq, sVars, oVars, gVars>>

(* strategy_thread *)

StrategyOnUpdate ==
    /\ sPc = "loop" /\ running
    /\ Pop("market_to_strategy")
    /\ book' = BookApply(book, Head(bus["market_to_strategy"]))
    /\ LET signal == OnMarketData(book') IN
          IF signal = NoSignal
          THEN UNCHANGED <<sPc, sHeld>>
          ELSE sPc' = "send" /\ sHeld' = signal
    /\ UNCHANGED <<runtime, running, mdVars, oVars, gVars>>

StrategySend ==
    /\ sPc = "send"
    /\ Push("strategy_to_oms", [signal |-> sHeld, src |-> book.seq])
    /\ sPc' = "loop" /\ sHeld' = NoSignal
    /\ UNCHANGED <<runtime, running, mdVars, book, oVars, gVars>>

(* oms_thread: OrderManager::on_signal and the journal, then the push, then
   one gateway response *)

\* next_client_order_id_++, whatever risk then says.
ClientOrderId == nextId

OmsOnSignal ==
    /\ oPc = "signal" /\ running
    /\ Pop("strategy_to_oms")
    /\ LET m == Head(bus["strategy_to_oms"]) IN
       /\ nextId' = nextId + 1
       /\ IF RiskOk(m.signal, Position, Limits)
          THEN /\ live' = live \cup {ClientOrderId}
               /\ JournalAppend("OrderIntent", ClientOrderId)
               /\ oHeld' = [type |-> "NewOrder", id |-> ClientOrderId, src |-> m.src]
               /\ oPc' = "send"
          ELSE /\ oPc' = "response"
               /\ UNCHANGED <<live, journal, journalOk, oHeld>>
    /\ UNCHANGED <<runtime, running, mdVars, sVars, gVars>>

\* Plausible bug: `continue` when there is no signal, before the responses.
OmsNoSignal_Continue ==
    /\ oPc = "signal" /\ running
    /\ bus["strategy_to_oms"] = <<>>
    /\ UNCHANGED vars

OmsNoSignal ==
    /\ oPc = "signal" /\ running
    /\ bus["strategy_to_oms"] = <<>>
    /\ oPc' = "response"
    /\ UNCHANGED <<runtime, running, busVars, mdVars, sVars, nextId, live, oHeld, journal, journalOk, gVars>>

OmsSend ==
    /\ oPc = "send"
    /\ Push("oms_to_gateway", oHeld)
    /\ oHeld' = None
    /\ oPc' = "response"
    /\ UNCHANGED <<runtime, running, mdVars, sVars, nextId, live, journal, journalOk, gVars>>

\* Plausible bug: on_gateway_reject forgets the erase.
LiveAfter_NoErase(r) == live

\* Plausible bug: an acknowledged order is no longer tracked.
LiveAfter_AckErases(r) == live \ {r.id}

\* OrderManager::on_gateway_ack leaves live_orders_ alone,
\* on_gateway_reject erases the order.
LiveAfter(r) == IF r.type = "Ack" THEN live ELSE live \ {r.id}

OmsOnResponse ==
    /\ oPc = "response"
    /\ Pop("gateway_to_oms")
    /\ LET r == Head(bus["gateway_to_oms"]) IN
          /\ JournalAppend(IF r.type = "Ack" THEN "GatewayAck" ELSE "GatewayReject", r.id)
          /\ live' = LiveAfter(r)
    /\ oPc' = "signal"
    /\ UNCHANGED <<runtime, running, mdVars, sVars, nextId, oHeld, gVars>>

OmsNoResponse ==
    /\ oPc = "response"
    /\ bus["gateway_to_oms"] = <<>>
    /\ oPc' = "signal"
    /\ UNCHANGED <<runtime, running, busVars, mdVars, sVars, nextId, live, oHeld, journal, journalOk, gVars>>

(* gateway_thread: ExchangeGateway::send_order *)

GatewaySendOrder ==
    /\ gPc = "loop" /\ running
    /\ Pop("oms_to_gateway")
    /\ LET order == Head(bus["oms_to_gateway"]) IN
          IF available
          THEN /\ gHeld' = [type |-> "Ack", id |-> order.id]
               /\ exchange' = exchange \cup {[id |-> order.id, exchId |-> nextExchId, src |-> order.src]}
               /\ nextExchId' = nextExchId + 1
          ELSE /\ gHeld' = [type |-> "Reject", id |-> order.id]
               /\ UNCHANGED <<exchange, nextExchId>>
    /\ gPc' = "send"
    /\ UNCHANGED <<runtime, running, mdVars, sVars, oVars, available>>

GatewayRespond ==
    /\ gPc = "send"
    /\ Push("gateway_to_oms", gHeld)
    /\ gHeld' = None
    /\ gPc' = "loop"
    /\ UNCHANGED <<runtime, running, mdVars, sVars, oVars, available, nextExchId, exchange>>

SetAvailable ==
    /\ running
    /\ available' = ~available
    /\ UNCHANGED <<runtime, running, busVars, mdVars, sVars, oVars, gPc, nextExchId, gHeld, exchange>>

-----------------------------------------------------------------------------
(* Shutdown: SIGINT, SIGTERM or threaded_runtime's 30 s window.  A thread
   looks at g_running at the top of its loop only; main joins all four. *)

Stop ==
    /\ running
    /\ running' = FALSE
    /\ UNCHANGED <<runtime, busVars, mdVars, sVars, oVars, gVars>>

MdStops == /\ mdPc = "loop" /\ ~running /\ runtime = "threaded"
           /\ mdPc' = "stopped"
           /\ UNCHANGED <<runtime, running, busVars, mdSeq, sVars, oVars, gVars>>

StrategyStops == /\ sPc = "loop" /\ ~running
                 /\ sPc' = "stopped"
                 /\ UNCHANGED <<runtime, running, busVars, mdVars, book, sHeld, oVars, gVars>>

OmsStops == /\ oPc = "signal" /\ ~running
            /\ oPc' = "stopped"
            /\ UNCHANGED <<runtime, running, busVars, mdVars, sVars, nextId, live, oHeld, journal, journalOk, gVars>>

GatewayStops == /\ gPc = "loop" /\ ~running
                /\ gPc' = "stopped"
                /\ UNCHANGED <<runtime, running, busVars, mdVars, sVars, oVars, available, nextExchId, gHeld, exchange>>

AllStopped == {mdPc, sPc, oPc, gPc} = {"stopped"}

\* main has joined the threads and returned.
Joined == AllStopped /\ UNCHANGED vars

Md       == PublishQuote \/ MdStops
Strategy == StrategyOnUpdate \/ StrategySend \/ StrategyStops
Oms      == \/ OmsOnSignal \/ OmsNoSignal \/ OmsSend
            \/ OmsOnResponse \/ OmsNoResponse \/ OmsStops
Gateway  == GatewaySendOrder \/ GatewayRespond \/ GatewayStops

Next ==
    \/ Md \/ Strategy \/ Oms \/ Gateway
    \/ FeedEnds \/ SetAvailable \/ Stop \/ Joined

Spec == Init /\ [][Next]_vars

\* Every thread is pinned to its own CPU and keeps taking steps; whether a
\* venue ends its feed is not the program's to decide.
Fairness == WF_vars(Md) /\ WF_vars(Strategy) /\ WF_vars(Oms) /\ WF_vars(Gateway)

FairSpec == Spec /\ Fairness

-----------------------------------------------------------------------------
(* Properties *)

Messages(q) == {bus[q][k] : k \in 1 .. Len(bus[q])}

\* The client order ids that the journal has a record of this type for.
Journaled(type) ==
    {journal[k].id : k \in {j \in 1 .. Len(journal) : journal[j].type = type}}

AtGateway == {m.id : m \in (Messages("oms_to_gateway") \cup Messages("gateway_to_oms")
                                \cup {gHeld}) \ {None}}
AboutToSend == {m.id : m \in {oHeld} \ {None}}
AtExchange == {e.id : e \in exchange}

\* Every queue stays within its bound and every variable within its type.
TypeOK ==
    /\ running \in BOOLEAN /\ available \in BOOLEAN /\ journalOk \in BOOLEAN
    /\ \A q \in Queues : Len(bus[q]) <= Room /\ dropped[q] \in Nat
    /\ mdPc \in {"loop", "stopped"} /\ mdSeq \in 0 .. MaxUpdates
    /\ sPc \in {"loop", "send", "stopped"}
    /\ oPc \in {"signal", "send", "response", "stopped"}
    /\ gPc \in {"loop", "send", "stopped"}
    /\ live \subseteq 1 .. nextId - 1
    /\ \A k \in 1 .. Len(journal) :
          journal[k].type \in {"OrderIntent", "GatewayAck", "GatewayReject"}

\* Persist intent first, external side effect second: whatever has left the
\* OMS, and whatever the exchange holds, has an OrderIntent in the journal, as
\* long as the journal takes records.
IntentBeforeSend ==
    journalOk => AtGateway \cup AtExchange \subseteq Journaled("OrderIntent")

\* Reading the journal back gives the set live_orders_ the OMS had: the
\* intents that were not rejected.
JournalRecoversLive ==
    journalOk => live = Journaled("OrderIntent") \ Journaled("GatewayReject")

\* Life cycle of an order in the journal: one intent, then at most one
\* outcome, never an outcome of an unknown order; outcomes come in the order
\* the orders were sent.
JournalLifecycle ==
    \A j, k \in 1 .. Len(journal) :
        /\ j # k /\ journal[j].id = journal[k].id =>
              {journal[j].type, journal[k].type} \in
                 {{"OrderIntent", "GatewayAck"}, {"OrderIntent", "GatewayReject"}}
        /\ j < k /\ (journal[j].type = "OrderIntent" <=> journal[k].type = "OrderIntent")
              => journal[j].id < journal[k].id
        /\ journal[k].type # "OrderIntent" =>
              \E i \in 1 .. k - 1 : journal[i] = [type |-> "OrderIntent", id |-> journal[k].id]

\* No ghost orders: the OMS counts every order the exchange holds as live,
\* whatever was dropped, rejected or abandoned at shutdown.
NoGhostOrders == AtExchange \subseteq live

\* Accounting: an order the OMS counts as live and has no outcome for is on
\* its way, or about to be pushed, or one of those the drop counters count.
OrdersAccounted ==
    journalOk => Cardinality(live \ Journaled("GatewayAck")) =
        Cardinality(AtGateway \cup AboutToSend)
        + dropped["oms_to_gateway"] + dropped["gateway_to_oms"]

\* The exchange sees orders in the order the OMS numbered them, each once, and
\* an order is never priced from an older book than the one before it: what
\* the queues drop, and what the venue repeats or delivers late, takes no
\* order back to a price the strategy has already moved on from.
NoStalePrice ==
    \A d, e \in exchange :
        /\ d.id < e.id <=> d.exchId < e.exchId
        /\ d.id < e.id => d.src <= e.src

\* After the flag is cleared every thread leaves its loop and main's joins
\* return: no thread is left blocked on a full or an empty queue.  In the live
\* runtime it is the end of the feed that clears the flag for all.
ShutdownCompletes ==
    (IF runtime = "live" THEN mdPc = "stopped" ELSE ~running) ~> AllStopped

\* While the process runs, no order waits at the gateway for ever: over and
\* over the OMS gets back to a point where every order that was handed to the
\* gateway thread has had its response taken off the queue, or dropped.  The
\* feed is finite here (MaxUpdates), so this covers each order.
GatewayDrains == []<>(AtGateway = {} \/ ~running)
=============================================================================

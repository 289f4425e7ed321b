-------------------------- MODULE DistributedNodes --------------------------
(***************************************************************************)
(* The distributed deployment (docker-compose.yml): four processes in a    *)
(* chain of TCP connections,                                               *)
(*                                                                         *)
(*    market data node -> strategy node -> OMS node <-> gateway node       *)
(*                                                                         *)
(* Each node connects downstream with retries, then listens, accepts one   *)
(* connection, and serves it until it fails.  Nodes crash and are started  *)
(* again one by one; connections break; the OMS's journal refuses records; *)
(* what the gateway takes from Kraken's answer may be wrong.               *)
(***************************************************************************)
EXTENDS TradingCore, Sequences, FiniteSetsExt, Functions

CONSTANTS
    Quotes,       \* <<bid, ask>> pairs the venue's feed may publish
    Limits,       \* RiskLimits
    Mode,         \* LLT_GATEWAY_MODE: "kraken" or "sim"
    MaxUpdates,   \* bound: market data updates
    MaxFaults,    \* bound: crashes, broken connections, refused records
    MaxRestarts   \* bound: processes started again

ASSUME NodesAssumption ==
    /\ Mode \in {"kraken", "sim"}
    /\ MaxUpdates \in Nat /\ MaxFaults \in Nat /\ MaxRestarts \in Nat

Node   == {"md", "strategy", "oms", "gateway"}
Client == Node \ {"gateway"}

\* The node a client connects to; connections are named by their client and
\* the number of its start.
Server == [md |-> "strategy", strategy |-> "oms", oms |-> "gateway"]
Start  == 1 .. MaxRestarts + 1

VARIABLES
    pc,                \* where each node's main() is
    starts,            \* how often each node was started
    conn,              \* the TCP connections
    accepted,          \* start number of the connection a server has accepted
    book,              \* strategy node: StrategyEngine's TopOfBook
    nextId, live,      \* OMS node: OrderManager
    held,              \* OMS: order being sent; gateway: response being sent
    stream,            \* OMS: the journal's ofstream
    journal,           \* the whole records of journals/distributed_oms.bin
    missed,            \* history: OMS processes whose journal missed a record
    exchange,          \* orders the exchange holds
    answers,           \* history: the responses that the gateway has made
    updates, faults    \* what was used of the bounds

mem    == <<book, nextId, live, held, stream>>
disk   == <<journal, missed>>
market == <<exchange, answers>>
vars   == <<pc, starts, conn, accepted, mem, disk, market, updates, faults>>

None == [type |-> "None"]

\* RiskEngine::position_: on_fill has no caller.
Position == 0

\* cli, srv: the state of the two ends; up: the network between them.
NoConn == [cli |-> FALSE, srv |-> "none", up |-> TRUE, fwd |-> <<>>, back |-> <<>>]

Begin(n) == IF n = "gateway" THEN "accepting" ELSE "connecting"

Init ==
    /\ pc = [n \in Node |-> Begin(n)]
    /\ starts = [n \in Node |-> 1]
    /\ conn = [c \in Client |-> [k \in Start |-> NoConn]]
    /\ accepted = [n \in Node \ {"md"} |-> 0]
    /\ book = NoBook /\ nextId = 1 /\ live = {}
    /\ held = [n \in {"oms", "gateway"} |-> None]
    /\ stream = "closed" /\ journal = <<>> /\ missed = {}
    /\ exchange = {} /\ answers = {}
    /\ updates = 0 /\ faults = 0

-----------------------------------------------------------------------------
(* TcpConnection, TcpServer, TcpClient *)

\* A server listens from listen_on until main returns.
Listening(n) == n # "md" /\ pc[n] \notin {"connecting", "exited"}

Out(c) == conn[c][starts[c]]
Upstream(s) == CHOOSE c \in Client : Server[c] = s
In(s) == conn[Upstream(s)][accepted[s]]

\* What the two ends can notice: the peer is gone, or the network is.
ClientCut(c) == ~Out(c).up \/ Out(c).srv = "closed"
ServerCut(s) == ~In(s).up \/ ~In(s).cli

\* send_envelope into a connection that is cut still succeeds until the
\* kernel has learnt of it; the bytes are lost.
ClientSends(c, m) ==
    conn' = IF ClientCut(c) THEN conn
            ELSE [conn EXCEPT ![c][starts[c]].fwd = Append(@, m)]

ServerSends(s, m) ==
    conn' = IF ServerCut(s) THEN conn
            ELSE [conn EXCEPT ![Upstream(s)][accepted[s]].back = Append(@, m)]

ServerReceives(s) ==
    /\ In(s).fwd # <<>>
    /\ conn' = [conn EXCEPT ![Upstream(s)][accepted[s]].fwd = Tail(@)]

ClientReceives(c) ==
    /\ Out(c).back # <<>>
    /\ conn' = [conn EXCEPT ![c][starts[c]].back = Tail(@)]

\* A process that ends closes its sockets, the ones in its backlog too, and
\* loses its memory.
Close(n) ==
    conn' = [c \in Client |-> [k \in Start |->
                [conn[c][k] EXCEPT !.cli = @ /\ c # n,
                                   !.srv = IF Server[c] = n /\ @ # "none" THEN "closed" ELSE @]]]

Exit(n) ==
    /\ pc' = [pc EXCEPT ![n] = "exited"]
    /\ Close(n)
    /\ accepted' = [k \in DOMAIN accepted |-> IF k = n THEN 0 ELSE accepted[k]]
    /\ held' = [k \in DOMAIN held |-> IF k = n THEN None ELSE held[k]]
    /\ book' = IF n = "strategy" THEN NoBook ELSE book
    /\ nextId' = IF n = "oms" THEN 1 ELSE nextId
    /\ live' = IF n = "oms" THEN {} ELSE live
    /\ stream' = IF n = "oms" THEN "closed" ELSE stream
    /\ UNCHANGED <<starts, disk, market, updates>>

-----------------------------------------------------------------------------
(* Start-up: connect_retry, then listen_on and accept_one *)

Served(c) == Listening(Server[c])

\* Plausible bug: one attempt, then give up.
ConnectRetry_GivesUp(c) ==
    /\ pc[c] = "connecting" /\ ~Served(c)
    /\ Exit(c) /\ UNCHANGED faults

ConnectRetry(c) ==
    /\ pc[c] = "connecting" /\ ~Served(c)
    /\ UNCHANGED vars

Connect(c) ==
    /\ pc[c] = "connecting" /\ Served(c)
    /\ pc' = [pc EXCEPT ![c] = IF c = "md" THEN "streaming" ELSE "accepting"]
    /\ conn' = [conn EXCEPT ![c][starts[c]].cli = TRUE, ![c][starts[c]].srv = "backlog"]
    /\ UNCHANGED <<starts, accepted, mem, disk, market, updates, faults>>

\* Plausible bug: the accepted connection is not moved out of the optional.
Accept_NotKept(s) ==
    LET backlog == {k \in Start : conn[Upstream(s)][k].srv = "backlog"} IN
    /\ pc[s] = "accepting" /\ backlog # {}
    /\ conn' = [conn EXCEPT ![Upstream(s)][Min(backlog)].srv = "open"]
    /\ pc' = [pc EXCEPT ![s] = "serving"]
    /\ UNCHANGED <<starts, accepted, mem, disk, market, updates, faults>>

Accept(s) ==
    LET backlog == {k \in Start : conn[Upstream(s)][k].srv = "backlog"} IN
    /\ pc[s] = "accepting" /\ backlog # {}
    /\ accepted' = [accepted EXCEPT ![s] = Min(backlog)]
    /\ conn' = [conn EXCEPT ![Upstream(s)][Min(backlog)].srv = "open"]
    /\ pc' = [pc EXCEPT ![s] = "serving"]
    /\ UNCHANGED <<starts, mem, disk, market, updates, faults>>

\* recv_envelope returned nullopt from the connection being served.
\* Plausible bug: the node stays and waits for the next message.
UpstreamLost_Ignored(s) ==
    /\ pc[s] = "serving" /\ ServerCut(s)
    /\ UNCHANGED vars

UpstreamLost(s) ==
    /\ pc[s] = "serving" /\ ServerCut(s)
    /\ Exit(s) /\ UNCHANGED faults

-----------------------------------------------------------------------------
(* Market data node: the feed's callback; a failed send is only logged *)

MdPublish ==
    /\ pc["md"] = "streaming" /\ updates < MaxUpdates
    /\ updates' = updates + 1
    /\ \E q \in Quotes :
          ClientSends("md", [seq |-> updates + 1, bid |-> q[1], ask |-> q[2]])
    /\ UNCHANGED <<pc, starts, accepted, mem, disk, market, faults>>

\* The websocket ended: run_*_live_* returns and so does main.
MdFeedEnds ==
    /\ pc["md"] = "streaming"
    /\ Exit("md") /\ UNCHANGED faults

(* Strategy node *)

StrategyOnUpdate ==
    /\ pc["strategy"] = "serving"
    /\ In("strategy").fwd # <<>>
    /\ LET update == Head(In("strategy").fwd)
           rest   == [conn EXCEPT !["md"][accepted["strategy"]].fwd = Tail(@)]
       IN /\ book' = BookApply(book, update)
          /\ LET signal == OnMarketData(book') IN
             conn' = IF signal = NoSignal \/ ClientCut("strategy") THEN rest
                     ELSE [rest EXCEPT !["strategy"][starts["strategy"]].fwd = Append(@, signal)]
    /\ UNCHANGED <<pc, starts, accepted, nextId, live, held, stream, disk, market, updates, faults>>

\* send_envelope to the OMS failed while handling an update.
StrategySendFails ==
    /\ pc["strategy"] = "serving"
    /\ In("strategy").fwd # <<>>
    /\ OnMarketData(BookApply(book, Head(In("strategy").fwd))) # NoSignal
    /\ ClientCut("strategy")
    /\ Exit("strategy") /\ UNCHANGED faults

-----------------------------------------------------------------------------
(* OMS node: on_signal and the intent; the send; the answer and its record *)

\* run is the OMS process an order belongs to, carried along for the
\* properties; the code's messages and records do not have it.
Run == starts["oms"]

Record(type, id) == [type |-> type, id |-> id, run |-> Run]

\* JournalWriter::append, whose result nobody looks at.  It opens the stream
\* if main could not; a stream that failed to write stays bad.
JournalAppend(r) ==
    \/ /\ stream # "bad" /\ stream' = "good"
       /\ journal' = Append(journal, r)
       /\ UNCHANGED <<missed, faults>>
    \/ /\ faults < MaxFaults /\ faults' = faults + 1
       /\ stream # "bad"
       /\ stream' \in {"bad"} \cup ({stream} \ {"good"})
       /\ missed' = missed \cup {Run}
       /\ UNCHANGED journal
    \/ stream = "bad" /\ UNCHANGED <<stream, disk, faults>>

\* Plausible bug: the intent is not journaled, only the answer is.
JournalIntent_Never(id) == UNCHANGED <<stream, disk, faults>>

JournalIntent(id) == JournalAppend(Record("OrderIntent", id))

OmsOnSignal ==
    /\ pc["oms"] = "serving"
    /\ ServerReceives("oms")
    /\ nextId' = nextId + 1
    /\ IF RiskOk(Head(In("oms").fwd), Position, Limits)
       THEN /\ live' = live \cup {nextId}
            /\ JournalIntent(nextId)
            /\ held' = [held EXCEPT !["oms"] = [type |-> "NewOrder", id |-> nextId, run |-> Run]]
            /\ pc' = [pc EXCEPT !["oms"] = "sending"]
       ELSE UNCHANGED <<live, stream, disk, faults, held, pc>>
    /\ UNCHANGED <<starts, accepted, book, market, updates>>

OmsSend ==
    /\ pc["oms"] = "sending"
    /\ ClientSends("oms", held["oms"])
    /\ pc' = [pc EXCEPT !["oms"] = "awaiting"]
    /\ UNCHANGED <<starts, accepted, mem, disk, market, updates, faults>>

OmsSendFails ==
    /\ pc["oms"] = "sending" /\ ClientCut("oms")
    /\ Exit("oms") /\ UNCHANGED faults

\* The answer is taken for the order just sent; its id is not compared.
OmsOnResponse ==
    /\ pc["oms"] = "awaiting"
    /\ ClientReceives("oms")
    /\ LET r == Head(Out("oms").back) IN
       /\ JournalAppend(Record(IF r.type = "Ack" THEN "GatewayAck" ELSE "GatewayReject", r.id))
       /\ live' = IF r.type = "Ack" THEN live ELSE live \ {r.id}
    /\ held' = [held EXCEPT !["oms"] = None]
    /\ pc' = [pc EXCEPT !["oms"] = "serving"]
    /\ UNCHANGED <<starts, accepted, book, nextId, market, updates>>

\* Plausible bug: the OMS gives the order up and goes on with the next signal.
OmsResponseLost_GoesOn ==
    /\ pc["oms"] = "awaiting" /\ ClientCut("oms")
    /\ held' = [held EXCEPT !["oms"] = None]
    /\ pc' = [pc EXCEPT !["oms"] = "serving"]
    /\ UNCHANGED <<starts, conn, accepted, book, nextId, live, stream, disk, market, updates, faults>>

OmsResponseLost ==
    /\ pc["oms"] = "awaiting" /\ ClientCut("oms")
    /\ Exit("oms") /\ UNCHANGED faults

-----------------------------------------------------------------------------
(* Gateway node: the exchange, then the response *)

\* ExchangeGateway::send_order always acknowledges (set_available has no
\* caller).  What Kraken holds and what send_limit_order makes of the answer
\* are two things: the answer to an accepted order may get lost, and then
\* HttpsClient::post_form returns an empty response, taken for a failure; and
\* all that is looked at in a body is "result":"success", which says that the
\* call was processed, neither the HTTP status nor the order's own status.
PostOutcomes ==
    IF Mode = "sim" THEN {[held |-> TRUE, success |-> TRUE]}
    ELSE [held : BOOLEAN, success : BOOLEAN]

GatewayOnOrder ==
    /\ pc["gateway"] = "serving"
    /\ ServerReceives("gateway")
    /\ LET order == Head(In("gateway").fwd) IN
       \E outcome \in PostOutcomes :
          LET response == [type |-> IF outcome.success THEN "Ack" ELSE "Reject",
                           id |-> order.id, run |-> order.run]
          IN /\ exchange' = IF outcome.held THEN exchange \cup {[id |-> order.id, run |-> order.run]}
                                            ELSE exchange
             /\ held' = [held EXCEPT !["gateway"] = response]
             /\ answers' = answers \cup {response}
    /\ pc' = [pc EXCEPT !["gateway"] = "replying"]
    /\ UNCHANGED <<starts, accepted, book, nextId, live, stream, disk, updates, faults>>

GatewayReply ==
    /\ pc["gateway"] = "replying"
    /\ ServerSends("gateway", held["gateway"])
    /\ held' = [held EXCEPT !["gateway"] = None]
    /\ pc' = [pc EXCEPT !["gateway"] = "serving"]
    /\ UNCHANGED <<starts, accepted, book, nextId, live, stream, disk, market, updates, faults>>

GatewayReplyFails ==
    /\ pc["gateway"] = "replying" /\ ServerCut("gateway")
    /\ Exit("gateway") /\ UNCHANGED faults

-----------------------------------------------------------------------------
(* Faults, and the operator *)

Crash(n) ==
    /\ faults < MaxFaults /\ faults' = faults + 1
    /\ pc[n] # "exited"
    /\ Exit(n)

Break(c) ==
    /\ faults < MaxFaults /\ faults' = faults + 1
    /\ Out(c).cli /\ Out(c).up
    /\ conn' = [conn EXCEPT ![c][starts[c]].up = FALSE]
    /\ UNCHANGED <<pc, starts, accepted, mem, disk, market, updates>>

\* How often a process was started again.
Restarts ==
    (starts["md"] - 1) + (starts["strategy"] - 1) + (starts["oms"] - 1) + (starts["gateway"] - 1)

Restart(n) ==
    /\ pc[n] = "exited" /\ Restarts < MaxRestarts
    /\ starts' = [starts EXCEPT ![n] = @ + 1]
    /\ pc' = [pc EXCEPT ![n] = Begin(n)]
    /\ UNCHANGED <<conn, accepted, mem, disk, market, updates, faults>>

Md       == ConnectRetry("md") \/ Connect("md")
Strategy == \/ ConnectRetry("strategy") \/ Connect("strategy") \/ Accept("strategy")
            \/ StrategyOnUpdate \/ StrategySendFails \/ UpstreamLost("strategy")
Oms      == \/ ConnectRetry("oms") \/ Connect("oms") \/ Accept("oms")
            \/ OmsOnSignal \/ OmsSend \/ OmsSendFails
            \/ OmsOnResponse \/ OmsResponseLost \/ UpstreamLost("oms")
Gateway  == \/ Accept("gateway") \/ GatewayOnOrder \/ GatewayReply
            \/ GatewayReplyFails \/ UpstreamLost("gateway")

Next ==
    \/ Md \/ Strategy \/ Oms \/ Gateway \/ MdPublish \/ MdFeedEnds
    \/ \E n \in Node : Crash(n) \/ Restart(n)
    \/ \E c \in Client : Break(c)

Spec == Init /\ [][Next]_vars

\* The node is blocked in recv on a connection whose network is gone.
\* recv_exact has no timeout and no keepalive is set: it may never return.
HalfOpen(n) ==
    \/ pc[n] = "serving" /\ ~In(n).up
    \/ pc[n] = "awaiting" /\ ~Out(n).up

\* A process that can move does, unless it is blocked on such a connection:
\* then it may notice or not.  The feed, the faults and the operator are the
\* environment's.  Kraken's answer, or the failure of the call, comes.
Fairness ==
    /\ WF_vars(Md)
    /\ WF_vars(Strategy /\ ~HalfOpen("strategy"))
    /\ WF_vars(Oms /\ ~HalfOpen("oms"))
    /\ WF_vars(Gateway /\ ~HalfOpen("gateway"))

FairSpec == Spec /\ Fairness

-----------------------------------------------------------------------------
(* Properties *)

Order(m) == [id |-> m.id, run |-> m.run]

\* The orders the journal has a record of this type for.
Journaled(type) == {Order(r) : r \in {x \in Range(journal) : x.type = type}}

\* The orders the gateway has given an answer of this type for.
Answered(type) == {Order(m) : m \in {x \in answers : x.type = type}}

\* The orders between the two nodes, on every connection there was.
InTransit ==
    (UNION {{Order(m) : m \in Range(conn["oms"][k].fwd) \cup Range(conn["oms"][k].back)}
               : k \in Start})
    \cup {Order(m) : m \in {held["gateway"]} \ {None}}

\* Every variable has its type.
TypeOK ==
    /\ pc \in [Node -> {"connecting", "accepting", "streaming", "serving", "sending",
                        "awaiting", "replying", "exited"}]
    /\ starts \in [Node -> Start]
    /\ \A c \in Client, k \in Start :
          /\ conn[c][k].cli \in BOOLEAN /\ conn[c][k].up \in BOOLEAN
          /\ conn[c][k].srv \in {"none", "backlog", "open", "closed"}
          /\ k > starts[c] => conn[c][k] = NoConn
    /\ \A s \in Node \ {"md"} :
          accepted[s] \in (IF pc[s] \in {"serving", "sending", "awaiting", "replying"}
                           THEN Start ELSE {0})
    /\ live \subseteq 1 .. nextId - 1
    /\ stream \in {"closed", "good", "bad"} /\ missed \subseteq Start
    /\ updates \in 0 .. MaxUpdates /\ faults \in 0 .. MaxFaults

\* The journal file brackets what happens between OMS and gateway, across
\* crashes of either node and refused records.  An order on the wire, in the
\* gateway or at the exchange has its OrderIntent, unless its OMS process
\* could not write; and every outcome in the file is what the gateway answered
\* to that very order, which may have the same id as one of another process.
JournalBrackets ==
    /\ \A o \in InTransit \cup exchange : o.run \in missed \/ o \in Journaled("OrderIntent")
    /\ Journaled("GatewayAck") \subseteq Answered("Ack")
    /\ Journaled("GatewayReject") \subseteq Answered("Reject")

\* Fail closed: in the journal the records of one OMS process stand together,
\* and every intent but the last of a process has its own outcome right
\* behind it.  After an order whose fate is unknown nothing more is sent, and
\* no answer is taken for another order's.  An outcome lacks its intent only
\* as the first record of a process that could not write before.
FailsClosed ==
    \A k \in 1 .. Len(journal) :
        LET r == journal[k]  before == journal[k - 1]
            first == k = 1 \/ before.run < r.run
        IN  IF r.type = "OrderIntent"
            THEN first \/ (before.run = r.run /\ before.type # "OrderIntent")
            ELSE IF first THEN r.run \in missed ELSE before = [r EXCEPT !.type = "OrderIntent"]

\* The chain comes up in whatever order the processes are scheduled: every
\* server gets to serve its connection, unless a fault comes first.
StartsUp ==
    \A s \in Node \ {"md"} : <>(pc[s] = "serving" \/ faults > 0)

\* Nobody waits for ever for a peer that is gone, where the network tells.
\* The gateway answers, or the OMS learns that it will not, even from the
\* backlog of a gateway that still serves the connection of the previous OMS
\* process; and a node lets go of a connection that its client has closed.
\* Only a node that is blocked on a broken network can hold this up.
LossNoticed ==
    LET Blocked == \E n \in Node \ {"md"} : HalfOpen(n) IN
    /\ (pc["oms"] = "awaiting") ~> (pc["oms"] # "awaiting" \/ Blocked)
    /\ \A s \in Node \ {"md"} :
          (accepted[s] # 0 /\ ~In(s).cli) ~> (accepted[s] = 0 \/ Blocked)

-----------------------------------------------------------------------------
(* What the documentation says of the deployment and the code does not do. *)

\* README, Network Partitions: the rejection policy "prevents ghost orders".
\* An order the exchange holds is never journaled as rejected.
NoGhostOrders == exchange \cap Journaled("GatewayReject") = {}
=============================================================================

----------------------- MODULE DistributedNodesProofs -----------------------
(***************************************************************************)
(* Proofs about DistributedNodes for any quotes, limits and gateway mode,  *)
(* and any number of updates, faults and restarts.                         *)
(*                                                                         *)
(* The argument: an OMS process uses one connection, which carries its     *)
(* start number, so what is on connection k belongs to process k           *)
(* (Carried).  The OMS sends one order and waits, so that at most one      *)
(* message is under way for the running process, and it is about the order *)
(* whose intent was written last (OneOrder, JournalEnd), or was lost: a    *)
(* process that loses a record loses all that follow, except while its     *)
(* journal could not be opened at all.                                     *)
(***************************************************************************)
EXTENDS DistributedNodes, SequenceTheorems, WellFoundedInduction, TLAPS

Servers == Node \ {"md"}
Busy    == {"serving", "sending", "awaiting", "replying"}

\* What is sent on a connection, and what comes back on it.
Update   == [seq : Nat, bid : {q[1] : q \in Quotes}, ask : {q[2] : q \in Quotes}]
Book     == Update \cup {NoBook}
Signal   == {OnMarketData(b) : b \in Book}
OrderMsg == [type : {"NewOrder"}, id : Nat, run : Start]
ReplyMsg == [type : {"Ack", "Reject"}, id : Nat, run : Start]
Sends(c) == IF c = "md" THEN Update ELSE IF c = "strategy" THEN Signal ELSE OrderMsg

Connection(c) ==
    [cli : BOOLEAN, srv : {"none", "backlog", "open", "closed"}, up : BOOLEAN,
     fwd : Seq(Sends(c)), back : Seq(ReplyMsg)]

Shape(f) == f = [c \in Client |-> [k \in Start |-> f[c][k]]]

JournalRecord ==
    [type : {"OrderIntent", "GatewayAck", "GatewayReject"}, id : Nat, run : Start]

PcTyped ==
    /\ pc \in [Node -> {"connecting", "accepting", "streaming", "serving", "sending",
                        "awaiting", "replying", "exited"}]
    /\ pc["strategy"] \notin {"streaming", "sending", "awaiting", "replying"}
    /\ pc["oms"] \notin {"streaming", "replying"}
    /\ pc["gateway"] \notin {"connecting", "streaming", "sending", "awaiting"}

StartsTyped ==
    /\ starts \in [Node -> Nat] /\ \A n \in Node : starts[n] >= 1
    /\ Restarts <= MaxRestarts

ConnTyped == Shape(conn) /\ \A c \in Client, k \in Start : conn[c][k] \in Connection(c)

\* A connection that was not opened yet is blank, and a server has accepted
\* one that was opened, exactly while it is serving.
ConnUsed ==
    /\ \A c \in Client, k \in Start : k > starts[c] => conn[c][k] = NoConn
    /\ accepted \in [Servers -> Nat]
    /\ \A s \in Servers :
          IF pc[s] \in Busy
          THEN accepted[s] \in Start /\ conn[Upstream(s)][accepted[s]].srv # "none"
          ELSE accepted[s] = 0

HeldTyped ==
    /\ held = [n \in {"oms", "gateway"} |-> held[n]]
    /\ IF pc["oms"] \in {"sending", "awaiting"} THEN held["oms"] \in OrderMsg ELSE held["oms"] = None
    /\ IF pc["gateway"] = "replying" THEN held["gateway"] \in ReplyMsg ELSE held["gateway"] = None

MemTyped ==
    /\ book \in Book /\ nextId \in Nat \ {0} /\ live \subseteq 1 .. nextId - 1
    /\ stream \in {"closed", "good", "bad"}
    /\ journal \in Seq(JournalRecord) /\ missed \subseteq Start
    /\ exchange \subseteq [id : Nat, run : Start] /\ answers \subseteq ReplyMsg
    /\ updates \in 0 .. MaxUpdates /\ faults \in 0 .. MaxFaults

Types == PcTyped /\ StartsTyped /\ ConnTyped /\ ConnUsed /\ HeldTyped /\ MemTyped

USE DEF disk, market

-----------------------------------------------------------------------------
(* Constants and the shape of connections *)

\* The chain of nodes.
LEMMA Chain ==
    /\ Client = {"md", "strategy", "oms"} /\ Servers = {"strategy", "oms", "gateway"}
    /\ Server["md"] = "strategy" /\ Server["strategy"] = "oms" /\ Server["oms"] = "gateway"
    /\ Upstream("strategy") = "md" /\ Upstream("oms") = "strategy" /\ Upstream("gateway") = "oms"
<1>1. Client = {"md", "strategy", "oms"} /\ Servers = {"strategy", "oms", "gateway"}
    BY DEF Client, Servers, Node
<1>2. Server["md"] = "strategy" /\ Server["strategy"] = "oms" /\ Server["oms"] = "gateway"
    BY DEF Server
<1>3. Upstream("strategy") = "md"
    BY <1>1, <1>2 DEF Upstream
<1>4. Upstream("oms") = "strategy"
    BY <1>1, <1>2 DEF Upstream
<1>5. Upstream("gateway") = "oms"
    BY <1>1, <1>2 DEF Upstream
<1> QED  BY <1>1, <1>2, <1>3, <1>4, <1>5

\* The number of the current start is in range.
LEMMA StartInRange == ASSUME StartsTyped PROVE starts \in [Node -> Start]
<1>1. \A n \in Node : starts[n] \in Nat /\ starts[n] >= 1
    BY DEF StartsTyped
<1>2. \A n \in Node : starts[n] <= MaxRestarts + 1
    BY <1>1, NodesAssumption DEF StartsTyped, Restarts, Node
<1>3. \A n \in Node : starts[n] \in Start
    BY <1>1, <1>2, NodesAssumption DEF Start
<1> QED
    BY <1>3 DEF StartsTyped

\* Connection k of client c is r in g, and the others are as in f.
SameBut(f, g, c, k, r) ==
    \A d \in Client, j \in Start : g[d][j] = IF d = c /\ j = k THEN r ELSE f[d][j]

\* Replacing connection k of client c by r.
LEMMA ReplaceConn ==
    ASSUME NEW f, NEW g, Shape(f), NEW c \in Client, NEW k \in Start, NEW r,
           g = [f EXCEPT ![c][k] = r]
    PROVE  Shape(g) /\ SameBut(f, g, c, k, r)
<1>1. f = [d \in Client |-> f[d]] /\ \A d \in Client : f[d] = [j \in Start |-> f[d][j]]
    BY DEF Shape
<1>2. [f[c] EXCEPT ![k] = r] = [j \in Start |-> IF j = k THEN r ELSE f[c][j]]
    BY <1>1
<1>3. g = [d \in Client |-> IF d = c THEN [f[c] EXCEPT ![k] = r] ELSE f[d]]
    BY <1>1
<1>4. ASSUME NEW d \in Client, NEW j \in Start
      PROVE  g[d][j] = IF d = c /\ j = k THEN r ELSE f[d][j]
    <2>1. CASE d = c
        <3>1. g[d] = [f[c] EXCEPT ![k] = r]
            BY <1>3, <2>1
        <3> QED
            BY <1>2, <2>1, <3>1
    <2>2. CASE d # c
        BY <1>3, <2>2
    <2> QED  BY <2>1, <2>2
<1>5. g = [d \in Client |-> g[d]] /\ \A d \in Client : g[d] = [j \in Start |-> g[d][j]]
    BY <1>1, <1>2, <1>3
<1>6. g = [d \in Client |-> [j \in Start |-> g[d][j]]]
    BY <1>5
<1> QED
    BY <1>4, <1>6 DEF Shape, SameBut

\* The same for a step of the program.
LEMMA ConnStep ==
    ASSUME ConnTyped, NEW c \in Client, NEW k \in Start, NEW r \in Connection(c),
           conn' = [conn EXCEPT ![c][k] = r]
    PROVE  ConnTyped' /\ SameBut(conn, conn', c, k, r)
<1>1. Shape(conn) /\ \A d \in Client, j \in Start : conn[d][j] \in Connection(d)
    BY DEF ConnTyped
<1>2. Shape(conn') /\ SameBut(conn, conn', c, k, r)
    BY <1>1, ReplaceConn
<1>3. \A d \in Client, j \in Start : conn'[d][j] \in Connection(d)
    BY <1>1, <1>2 DEF SameBut
<1> QED
    BY <1>2, <1>3 DEF ConnTyped

\* Sending and receiving keep the fields of a connection.
LEMMA Fields ==
    ASSUME NEW c \in Client, NEW r \in Connection(c)
    PROVE  /\ \A m \in Sends(c) : [r EXCEPT !.fwd = Append(@, m)] \in Connection(c)
           /\ \A m \in ReplyMsg : [r EXCEPT !.back = Append(@, m)] \in Connection(c)
           /\ r.fwd # <<>> => /\ [r EXCEPT !.fwd = Tail(@)] \in Connection(c)
                              /\ Head(r.fwd) \in Sends(c)
           /\ r.back # <<>> => /\ [r EXCEPT !.back = Tail(@)] \in Connection(c)
                               /\ Head(r.back) \in ReplyMsg
           /\ [r EXCEPT !.up = FALSE] \in Connection(c)
           /\ \A x \in {"none", "backlog", "open", "closed"} : [r EXCEPT !.srv = x] \in Connection(c)
           /\ [r EXCEPT !.cli = TRUE, !.srv = "backlog"] \in Connection(c)
<1>1. r.fwd \in Seq(Sends(c)) /\ r.back \in Seq(ReplyMsg)
    BY DEF Connection
<1>2. \A m \in Sends(c) : Append(r.fwd, m) \in Seq(Sends(c))
    BY <1>1, AppendProperties
<1>3. \A m \in ReplyMsg : Append(r.back, m) \in Seq(ReplyMsg)
    BY <1>1, AppendProperties
<1>4. r.fwd # <<>> => Tail(r.fwd) \in Seq(Sends(c)) /\ Head(r.fwd) \in Sends(c)
    BY <1>1, HeadTailProperties
<1>5. r.back # <<>> => Tail(r.back) \in Seq(ReplyMsg) /\ Head(r.back) \in ReplyMsg
    BY <1>1, HeadTailProperties
<1>6. \A x \in Seq(Sends(c)) : [r EXCEPT !.fwd = x] \in Connection(c)
    BY DEF Connection
<1>7. \A x \in Seq(ReplyMsg) : [r EXCEPT !.back = x] \in Connection(c)
    BY DEF Connection
<1>8. /\ [r EXCEPT !.up = FALSE] \in Connection(c)
      /\ \A x \in {"none", "backlog", "open", "closed"} : [r EXCEPT !.srv = x] \in Connection(c)
      /\ [r EXCEPT !.cli = TRUE, !.srv = "backlog"] \in Connection(c)
    BY DEF Connection
<1> QED
    BY <1>2, <1>3, <1>4, <1>5, <1>6, <1>7, <1>8

\* A step that neither opens, accepts nor ends anything keeps ConnUsed.
LEMMA UsedStays ==
    ASSUME ConnUsed, UNCHANGED <<starts, accepted>>,
           \A c \in Client, k \in Start :
              /\ k > starts[c] => conn'[c][k] = conn[c][k]
              /\ conn[c][k].srv # "none" => conn'[c][k].srv # "none",
           \A s \in Servers : pc'[s] \in Busy <=> pc[s] \in Busy
    PROVE  ConnUsed'
<1>1. \A s \in Servers : Upstream(s) \in Client
    BY Chain
<1> QED
    BY <1>1 DEF ConnUsed

\* The connection a server serves was opened by its client.
LEMMA ServedConn ==
    ASSUME Types, NEW s \in Servers, pc[s] \in Busy
    PROVE  /\ Upstream(s) \in Client /\ accepted[s] \in Start
           /\ ~ (accepted[s] > starts[Upstream(s)])
           /\ In(s) \in Connection(Upstream(s))
           /\ In(s) = conn[Upstream(s)][accepted[s]]
<1>1. Upstream(s) \in Client
    BY Chain
<1>2. accepted[s] \in Start /\ conn[Upstream(s)][accepted[s]].srv # "none"
    BY DEF Types, ConnUsed
<1>3. ~ (accepted[s] > starts[Upstream(s)])
    BY <1>1, <1>2 DEF Types, ConnUsed, NoConn
<1> QED
    BY <1>1, <1>2, <1>3 DEF In, Types, ConnTyped

\* The current connection of a client.
LEMMA OwnConn ==
    ASSUME Types, NEW c \in Client
    PROVE  /\ starts[c] \in Start /\ Out(c) \in Connection(c)
           /\ Out(c) = conn[c][starts[c]] /\ ~ (starts[c] > starts[c])
<1>1. c \in Node
    BY DEF Client
<1>2. starts[c] \in Start
    BY <1>1, StartInRange DEF Types
<1> QED
    BY <1>2, NodesAssumption DEF Out, Types, ConnTyped, Start

-----------------------------------------------------------------------------
(* What each action does: types, and the messages between OMS and gateway *)

\* Nothing is sent or received between OMS and gateway.
QuietOms ==
    \A k \in Start : /\ conn'["oms"][k].fwd = conn["oms"][k].fwd
                     /\ conn'["oms"][k].back = conn["oms"][k].back

\* The states the program starts in have their types.
LEMMA InitTypes == Init => Types
<1> SUFFICES ASSUME Init PROVE Types
    OBVIOUS
<1>1. PcTyped
    BY DEF Init, PcTyped, Node, Begin
<1>2. StartsTyped
    BY NodesAssumption DEF Init, StartsTyped, Restarts, Node
<1>3. ConnTyped
    <2>1. \A c \in Client, k \in Start : conn[c][k] = NoConn
        BY DEF Init
    <2>2. Shape(conn)
        BY DEF Init, Shape
    <2>3. \A c \in Client : NoConn \in Connection(c)
        BY EmptySeq DEF NoConn, Connection
    <2> QED
        BY <2>1, <2>2, <2>3 DEF ConnTyped
<1>4. ConnUsed
    BY Chain DEF Init, ConnUsed, Servers, Node, Begin, Busy
<1>5. HeldTyped
    BY DEF Init, HeldTyped, Node, Begin
<1>6. MemTyped
    BY EmptySeq, NodesAssumption DEF Init, MemTyped, Book
<1> QED
    BY <1>1, <1>2, <1>3, <1>4, <1>5, <1>6 DEF Types

\* The end of a process closes its connections and loses its memory; what was
\* written to a connection stays.
LEMMA ExitStep ==
    ASSUME Types, NEW n \in Node, Exit(n), faults' \in 0 .. MaxFaults
    PROVE  Types' /\ QuietOms
<1> DEFINE Closed(c, k) ==
             [conn[c][k] EXCEPT !.cli = @ /\ c # n,
                                !.srv = IF Server[c] = n /\ @ # "none" THEN "closed" ELSE @]
<1>1. PcTyped'
    BY DEF Exit, Types, PcTyped, Node
<1>2. StartsTyped'
    BY DEF Exit, Types, StartsTyped, Restarts
<1>3. \A c \in Client, k \in Start : conn'[c][k] = Closed(c, k)
    BY DEF Exit, Close
<1>4. ASSUME NEW c \in Client, NEW k \in Start
      PROVE  /\ Closed(c, k) \in Connection(c)
             /\ Closed(c, k).fwd = conn[c][k].fwd /\ Closed(c, k).back = conn[c][k].back
             /\ Closed(c, k).srv = "none" <=> conn[c][k].srv = "none"
             /\ conn[c][k] = NoConn => Closed(c, k) = NoConn
    <2>1. conn[c][k] \in Connection(c)
        BY DEF Types, ConnTyped
    <2>2. conn[c][k].srv \in {"none", "backlog", "open", "closed"}
        BY <2>1 DEF Connection
    <2>3. Closed(c, k) \in Connection(c)
        BY <2>1 DEF Connection
    <2>4. ASSUME conn[c][k] = NoConn PROVE Closed(c, k) = NoConn
        <3> DEFINE cli == NoConn.cli /\ c # n
                   srv == IF Server[c] = n /\ NoConn.srv # "none" THEN "closed" ELSE NoConn.srv
        <3>1. cli = FALSE
            BY DEF NoConn
        <3>2. srv = "none"
            BY DEF NoConn
        <3>3. Closed(c, k) = [NoConn EXCEPT !.cli = cli, !.srv = srv]
            BY <2>4
        <3> HIDE DEF cli, srv, Closed
        <3>4. [NoConn EXCEPT !.cli = cli, !.srv = srv] = [NoConn EXCEPT !.cli = FALSE, !.srv = "none"]
            BY <3>1, <3>2
        <3> QED
            BY <3>3, <3>4 DEF NoConn
    <2> QED
        BY <2>1, <2>2, <2>3, <2>4 DEF Connection
<1> HIDE DEF Closed
<1>5. ConnTyped'
    <2>1. Shape(conn')
        BY DEF Exit, Close, Shape
    <2> QED
        BY <1>3, <1>4, <2>1 DEF ConnTyped
<1>6. ConnUsed'
    <2>1. \A c \in Client, k \in Start : k > starts'[c] => conn'[c][k] = NoConn
        BY <1>3, <1>4 DEF Exit, Types, ConnUsed
    <2>2. accepted' = [s \in Servers |-> IF s = n THEN 0 ELSE accepted[s]]
        BY DEF Exit, Types, ConnUsed
    <2>3. \A s \in Servers : pc'[s] = IF s = n THEN "exited" ELSE pc[s]
        BY DEF Exit, Types, PcTyped, Servers
    <2>4. accepted' \in [Servers -> Nat]
        BY <2>2 DEF Types, ConnUsed
    <2>5. \A s \in Servers : Upstream(s) \in Client
        BY Chain
    <2>6. ASSUME NEW s \in Servers
          PROVE  IF pc'[s] \in Busy
                 THEN accepted'[s] \in Start /\ conn'[Upstream(s)][accepted'[s]].srv # "none"
                 ELSE accepted'[s] = 0
        <3>1. CASE s = n
            BY <2>2, <2>3, <3>1 DEF Busy
        <3>2. CASE s # n
            BY <1>3, <1>4, <2>2, <2>3, <2>5, <3>2 DEF Types, ConnUsed
        <3> QED  BY <3>1, <3>2
    <2> QED
        BY <2>1, <2>4, <2>6 DEF ConnUsed
<1>7. HeldTyped'
    BY DEF Exit, Types, HeldTyped, PcTyped, Node
<1>8. MemTyped'
    <2>1. book' \in Book /\ nextId' \in Nat \ {0} /\ live' \subseteq 1 .. nextId' - 1
        <3>1. CASE n = "oms"
            BY <3>1 DEF Exit, Types, MemTyped
        <3>2. CASE n # "oms"
            BY <3>2 DEF Exit, Types, MemTyped, Book
        <3> QED  BY <3>1, <3>2
    <2> QED
        BY <2>1 DEF Exit, Types, MemTyped
<1>9. QuietOms
    BY <1>3, <1>4, Chain DEF QuietOms
<1> QED
    BY <1>1, <1>2, <1>5, <1>6, <1>7, <1>8, <1>9 DEF Types

\* A client opens its connection and goes on to listen, or to stream.
LEMMA ConnectStep ==
    ASSUME Types, NEW c \in Client, Connect(c)
    PROVE  Types' /\ QuietOms
<1> DEFINE r == [conn[c][starts[c]] EXCEPT !.cli = TRUE, !.srv = "backlog"]
<1>1. starts[c] \in Start /\ conn[c][starts[c]] \in Connection(c)
    BY OwnConn
<1>2. r \in Connection(c) /\ r.srv # "none"
      /\ r.fwd = conn[c][starts[c]].fwd /\ r.back = conn[c][starts[c]].back
    BY <1>1, Fields DEF Connection
<1>3. conn' = [conn EXCEPT ![c][starts[c]] = r]
    BY <1>1 DEF Connect, Types, ConnTyped, Shape
<1> HIDE DEF r
<1>4. ConnTyped' /\ SameBut(conn, conn', c, starts[c], r)
    BY <1>1, <1>2, <1>3, ConnStep DEF Types
<1>5. PcTyped'
    BY Chain DEF Connect, Types, PcTyped, Node
<1>6. \A s \in Servers : pc'[s] \in Busy <=> pc[s] \in Busy
    BY Chain DEF Connect, Types, PcTyped, Node, Busy
<1>7. \A d \in Client, j \in Start :
          /\ j > starts[d] => conn'[d][j] = conn[d][j]
          /\ conn[d][j].srv # "none" => conn'[d][j].srv # "none"
    BY <1>2, <1>4, OwnConn DEF SameBut
<1>8. ConnUsed'
    BY <1>6, <1>7, UsedStays DEF Connect, Types
<1>9. StartsTyped' /\ HeldTyped' /\ MemTyped'
    BY Chain DEF Connect, Types, StartsTyped, Restarts, HeldTyped, PcTyped, Node, MemTyped, mem
<1>10. QuietOms
    BY <1>1, <1>2, <1>4, Chain DEF SameBut, QuietOms
<1> QED
    BY <1>4, <1>5, <1>8, <1>9, <1>10 DEF Types

\* Every nonempty set of natural numbers has a least element.
LEMMA LeastElement ==
    ASSUME NEW T, T \subseteq Nat, T # {}
    PROVE  \E x \in T : \A y \in T : x <= y
<1>1. PICK x \in T : \A y \in T : ~ (<<y, x>> \in OpToRel(<, Nat))
    BY WFMin, NatLessThanWellFounded
<1>2. \A y \in T : ~ (y < x)
    BY <1>1 DEF OpToRel
<1> QED
    BY <1>2

\* A server takes the oldest connection of its backlog.
LEMMA AcceptStep ==
    ASSUME Types, NEW s \in Servers, Accept(s)
    PROVE  Types' /\ QuietOms
<1> DEFINE c == Upstream(s)
           backlog == {j \in Start : conn[c][j].srv = "backlog"}
           k == Min(backlog)
           r == [conn[c][k] EXCEPT !.srv = "open"]
<1>1. c \in Client
    BY Chain
<1>2. k \in Start /\ conn[c][k].srv = "backlog"
    <2>1. backlog \subseteq Nat /\ backlog # {}
        BY DEF Accept, Start
    <2> HIDE DEF backlog
    <2>2. k \in backlog
        BY <2>1, LeastElement DEF Min
    <2> QED
        BY <2>2 DEF backlog
<1>3. /\ pc[s] = "accepting"
      /\ accepted' = [accepted EXCEPT ![s] = k]
      /\ conn' = [conn EXCEPT ![c][k].srv = "open"]
      /\ pc' = [pc EXCEPT ![s] = "serving"]
      /\ UNCHANGED <<starts, mem, disk, market, updates, faults>>
    BY DEF Accept
<1> HIDE DEF c, k
<1>4. conn[c][k] \in Connection(c)
    BY <1>1, <1>2 DEF Types, ConnTyped
<1>5. r \in Connection(c) /\ r.srv # "none" /\ r.fwd = conn[c][k].fwd /\ r.back = conn[c][k].back
    BY <1>1, <1>4, Fields DEF Connection
<1>6. conn' = [conn EXCEPT ![c][k] = r]
    BY <1>3
<1> HIDE DEF r
<1>7. ConnTyped' /\ SameBut(conn, conn', c, k, r)
    BY <1>1, <1>2, <1>5, <1>6, ConnStep DEF Types
<1>8. PcTyped'
    BY <1>3, Chain DEF Types, PcTyped, Node
<1>9. ConnUsed'
    <2>1. ~ (k > starts[c])
        BY <1>1, <1>2 DEF Types, ConnUsed, NoConn
    <2>2. \A d \in Client, j \in Start : j > starts'[d] => conn'[d][j] = NoConn
        BY <1>3, <1>7, <2>1 DEF Types, ConnUsed, SameBut
    <2>3. accepted' \in [Servers -> Nat]
        BY <1>2, <1>3 DEF Types, ConnUsed, Start
    <2>4. \A d \in Client, j \in Start : conn[d][j].srv # "none" => conn'[d][j].srv # "none"
        BY <1>5, <1>7 DEF SameBut
    <2>5. ASSUME NEW t \in Servers
          PROVE  IF pc'[t] \in Busy
                 THEN accepted'[t] \in Start /\ conn'[Upstream(t)][accepted'[t]].srv # "none"
                 ELSE accepted'[t] = 0
        <3>1. CASE t = s
            <4>1. pc'[t] = "serving" /\ accepted'[t] = k
                BY <1>3, <3>1 DEF Types, PcTyped, ConnUsed, Servers
            <4>2. conn'[c][k].srv # "none"
                BY <1>1, <1>2, <2>4
            <4> QED
                BY <1>2, <3>1, <4>1, <4>2 DEF Busy, c
        <3>2. CASE t # s
            <4>1. pc'[t] = pc[t] /\ accepted'[t] = accepted[t] /\ Upstream(t) \in Client
                BY <1>3, <3>2, Chain DEF Types, PcTyped, ConnUsed
            <4> QED
                BY <2>4, <4>1 DEF Types, ConnUsed
        <3> QED  BY <3>1, <3>2
    <2> QED
        BY <2>2, <2>3, <2>5 DEF ConnUsed
<1>10. StartsTyped' /\ HeldTyped' /\ MemTyped'
    BY <1>3, Chain DEF Types, StartsTyped, Restarts, HeldTyped, PcTyped, Node, MemTyped, mem
<1>11. QuietOms
    BY <1>1, <1>2, <1>5, <1>7, Chain DEF SameBut, QuietOms
<1> QED
    BY <1>7, <1>8, <1>9, <1>10, <1>11 DEF Types

\* A step that uses an opened connection: something is sent or received on
\* it, or its network breaks.
LEMMA UseConn ==
    ASSUME Types, NEW c \in Client, NEW k \in Start, ~ (k > starts[c]),
           NEW r \in Connection(c), r.srv = conn[c][k].srv,
           conn' = [conn EXCEPT ![c][k] = r],
           UNCHANGED <<starts, accepted>>,
           \A s \in Servers : pc'[s] \in Busy <=> pc[s] \in Busy
    PROVE  StartsTyped' /\ ConnTyped' /\ ConnUsed' /\ SameBut(conn, conn', c, k, r)
<1>1. ConnTyped' /\ SameBut(conn, conn', c, k, r)
    BY ConnStep DEF Types
<1>2. \A d \in Client, j \in Start :
          /\ j > starts[d] => conn'[d][j] = conn[d][j]
          /\ conn[d][j].srv # "none" => conn'[d][j].srv # "none"
    BY <1>1 DEF SameBut
<1>3. ConnUsed'
    BY <1>2, UsedStays DEF Types
<1>4. StartsTyped'
    BY DEF Types, StartsTyped, Restarts
<1> QED
    BY <1>1, <1>3, <1>4

\* A step that leaves all connections alone.
LEMMA KeepConn ==
    ASSUME Types, UNCHANGED <<conn, starts, accepted>>,
           \A s \in Servers : pc'[s] \in Busy <=> pc[s] \in Busy
    PROVE  StartsTyped' /\ ConnTyped' /\ ConnUsed' /\ QuietOms
<1>1. ConnUsed'
    BY UsedStays DEF Types
<1> QED
    BY <1>1 DEF Types, ConnTyped, StartsTyped, Restarts, QuietOms

\* The market data node sends an update, which may be lost.
LEMMA MdPublishStep ==
    ASSUME Types, MdPublish
    PROVE  Types' /\ QuietOms
<1>1. PcTyped' /\ HeldTyped' /\ MemTyped'
    BY NodesAssumption DEF MdPublish, Types, PcTyped, HeldTyped, MemTyped, mem
<1>2. \A s \in Servers : pc'[s] \in Busy <=> pc[s] \in Busy
    BY DEF MdPublish
<1>3. PICK q \in Quotes : ClientSends("md", [seq |-> updates + 1, bid |-> q[1], ask |-> q[2]])
    BY DEF MdPublish
<1> DEFINE m == [seq |-> updates + 1, bid |-> q[1], ask |-> q[2]]
           k == starts["md"]
           r == [conn["md"][k] EXCEPT !.fwd = Append(@, m)]
<1>4. m \in Sends("md")
    BY DEF Types, MemTyped, Sends, Update
<1>5. CASE ClientCut("md")
    <2>1. conn' = conn
        BY <1>3, <1>5 DEF ClientSends
    <2> QED
        BY <1>1, <1>2, <2>1, KeepConn DEF MdPublish, Types
<1>6. CASE ~ ClientCut("md")
    <2>1. "md" \in Client /\ k \in Start /\ ~ (k > starts["md"]) /\ conn["md"][k] \in Connection("md")
        BY OwnConn, Chain
    <2>2. conn' = [conn EXCEPT !["md"][k] = r]
        BY <1>3, <1>6 DEF ClientSends
    <2>3. r \in Connection("md") /\ r.srv = conn["md"][k].srv
        <3>1. r \in Connection("md")
            BY <1>4, <2>1, Fields
        <3>2. r.srv = conn["md"][k].srv
            BY <2>1 DEF Connection
        <3> QED  BY <3>1, <3>2
    <2> HIDE DEF r, k
    <2>4. StartsTyped' /\ ConnTyped' /\ ConnUsed' /\ SameBut(conn, conn', "md", k, r)
        BY <1>2, <2>1, <2>2, <2>3, UseConn DEF MdPublish
    <2>5. QuietOms
        BY <2>4, Chain DEF SameBut, QuietOms
    <2> QED
        BY <1>1, <2>4, <2>5 DEF Types
<1> QED  BY <1>5, <1>6

\* The network of a connection breaks.
LEMMA BreakStep ==
    ASSUME Types, NEW c \in Client, Break(c)
    PROVE  Types' /\ QuietOms
<1> DEFINE k == starts[c]
           r == [conn[c][k] EXCEPT !.up = FALSE]
<1>1. k \in Start /\ ~ (k > starts[c]) /\ conn[c][k] \in Connection(c)
    BY OwnConn
<1>2. conn' = [conn EXCEPT ![c][k] = r]
    BY DEF Break
<1>3. r \in Connection(c) /\ r.srv = conn[c][k].srv /\ r.fwd = conn[c][k].fwd
      /\ r.back = conn[c][k].back
    BY <1>1, Fields DEF Connection
<1>4. PcTyped' /\ HeldTyped' /\ MemTyped'
    BY NodesAssumption DEF Break, Types, PcTyped, HeldTyped, MemTyped, mem
<1>5. \A s \in Servers : pc'[s] \in Busy <=> pc[s] \in Busy
    BY DEF Break
<1> HIDE DEF r, k
<1>6. StartsTyped' /\ ConnTyped' /\ ConnUsed' /\ SameBut(conn, conn', c, k, r)
    BY <1>1, <1>2, <1>3, <1>5, UseConn DEF Break
<1>7. QuietOms
    BY <1>1, <1>3, <1>6, Chain DEF SameBut, QuietOms
<1> QED
    BY <1>4, <1>6, <1>7 DEF Types

\* A process is started again and will use a connection that is blank.
LEMMA RestartStep ==
    ASSUME Types, NEW n \in Node, Restart(n)
    PROVE  Types' /\ QuietOms
<1>1. PcTyped' /\ HeldTyped' /\ MemTyped' /\ ConnTyped' /\ QuietOms
    BY DEF Restart, Begin, Types, PcTyped, HeldTyped, MemTyped, mem, Node, ConnTyped, QuietOms
<1>2. StartsTyped'
    <2>1. starts' \in [Node -> Nat] /\ \A i \in Node : starts'[i] >= 1
        BY DEF Restart, Types, StartsTyped
    <2>2. Restarts' <= MaxRestarts
        BY NodesAssumption DEF Restart, Types, StartsTyped, Restarts, Node
    <2> QED
        BY <2>1, <2>2 DEF StartsTyped
<1>3. ConnUsed'
    <2>1. \A c \in Client, k \in Start : k > starts'[c] => k > starts[c]
        BY DEF Restart, Types, StartsTyped, Client, Start
    <2>2. \A s \in Servers : pc'[s] \in Busy <=> pc[s] \in Busy
        BY DEF Restart, Begin, Types, PcTyped, Servers, Busy
    <2> QED
        BY <2>1, <2>2 DEF Restart, Types, ConnUsed
<1> QED
    BY <1>1, <1>2, <1>3 DEF Types

\* The strategy takes an update and may send a signal.
LEMMA StrategyStep ==
    ASSUME Types, StrategyOnUpdate
    PROVE  Types' /\ QuietOms
<1> DEFINE a == accepted["strategy"]
           k == starts["strategy"]
           old == conn["md"][a]
           r == [old EXCEPT !.fwd = Tail(@)]
           rest == [conn EXCEPT !["md"][a].fwd = Tail(@)]
           signal == OnMarketData(book')
           q == [conn["strategy"][k] EXCEPT !.fwd = Append(@, signal)]
<1>1. /\ "md" \in Client /\ "strategy" \in Client /\ "strategy" \in Servers
      /\ Upstream("strategy") = "md" /\ pc["strategy"] \in Busy
    BY Chain DEF StrategyOnUpdate, Busy
<1>2. a \in Start /\ ~ (a > starts["md"]) /\ old \in Connection("md") /\ In("strategy") = old
    BY <1>1, ServedConn
<1>3. k \in Start /\ ~ (k > starts["strategy"]) /\ conn["strategy"][k] \in Connection("strategy")
    BY <1>1, OwnConn
<1>4. /\ old.fwd # <<>> /\ book' = BookApply(book, Head(old.fwd))
      /\ conn' = rest \/ (signal # NoSignal /\ conn' = [rest EXCEPT !["strategy"][k].fwd = Append(@, signal)])
      /\ UNCHANGED <<pc, starts, accepted, nextId, live, held, stream, disk, market, updates, faults>>
    BY <1>2 DEF StrategyOnUpdate
<1>5. r \in Connection("md") /\ r.srv = old.srv /\ Head(old.fwd) \in Update
    <2>1. r \in Connection("md") /\ Head(old.fwd) \in Sends("md")
        BY <1>1, <1>2, <1>4, Fields
    <2>2. r.srv = old.srv
        BY <1>2 DEF Connection
    <2> QED
        BY <2>1, <2>2 DEF Sends
<1>6. book' \in Book
    BY <1>4, <1>5 DEF BookApply, Book, Types, MemTyped
<1>7. q \in Connection("strategy") /\ q.srv = conn["strategy"][k].srv
    <2>1. signal \in Sends("strategy")
        BY <1>6 DEF Sends, Signal
    <2> HIDE DEF signal
    <2>2. q \in Connection("strategy")
        BY <1>1, <1>3, <2>1, Fields
    <2>3. q.srv = conn["strategy"][k].srv
        BY <1>3 DEF Connection
    <2> QED  BY <2>2, <2>3
<1>8. rest = [conn EXCEPT !["md"][a] = r]
    OBVIOUS
<1> HIDE DEF r, a, signal, k
<1>9. Shape(rest) /\ SameBut(conn, rest, "md", a, r)
    <2> HIDE DEF rest
    <2> QED
        BY <1>1, <1>2, <1>8, ReplaceConn DEF Types, ConnTyped
<1>10. rest["strategy"][k] = conn["strategy"][k]
    BY <1>1, <1>3, <1>9 DEF SameBut
<1>11. conn' = rest \/ conn' = [rest EXCEPT !["strategy"][k] = q]
    BY <1>4, <1>10
<1> HIDE DEF rest, q
<1>12. /\ Shape(conn')
       /\ conn' = rest \/ SameBut(rest, conn', "strategy", k, q)
    BY <1>1, <1>3, <1>9, <1>11, ReplaceConn
<1>13. \A d \in Client, j \in Start :
          \/ conn'[d][j] = conn[d][j]
          \/ d = "md" /\ j = a /\ conn'[d][j] = r
          \/ d = "strategy" /\ j = k /\ conn'[d][j] = q
    BY <1>9, <1>12 DEF SameBut
<1>14. ConnTyped'
    BY <1>5, <1>7, <1>12, <1>13 DEF Types, ConnTyped
<1>15. ConnUsed'
    <2>1. \A d \in Client, j \in Start :
              /\ j > starts[d] => conn'[d][j] = conn[d][j]
              /\ conn[d][j].srv # "none" => conn'[d][j].srv # "none"
        BY <1>2, <1>3, <1>5, <1>7, <1>13 DEF a, k
    <2> QED
        BY <1>4, <2>1, UsedStays DEF Types
<1>16. PcTyped' /\ StartsTyped' /\ HeldTyped' /\ MemTyped'
    BY <1>4, <1>6 DEF Types, PcTyped, StartsTyped, Restarts, HeldTyped, MemTyped
<1>17. QuietOms
    BY <1>13, Chain DEF QuietOms
<1> QED
    BY <1>14, <1>15, <1>16, <1>17 DEF Types

\* What connection k of the OMS carries becomes f and b; the others stay.
OmsFlow(k, f, b) ==
    \A j \in Start :
        /\ conn'["oms"][j].fwd = IF j = k THEN f ELSE conn["oms"][j].fwd
        /\ conn'["oms"][j].back = IF j = k THEN b ELSE conn["oms"][j].back

\* A record is written, or it is missed: the stream is bad from then on, or
\* it could not be opened.
LEMMA Appends ==
    ASSUME Types, NEW r \in JournalRecord, JournalAppend(r)
    PROVE  /\ stream' \in {"closed", "good", "bad"} /\ faults' \in 0 .. MaxFaults
           /\ journal' \in Seq(JournalRecord) /\ missed' \subseteq Start
           /\ missed \subseteq missed'
           /\ \/ /\ journal' = Append(journal, r) /\ missed' = missed
                 /\ stream # "bad" /\ stream' = "good"
              \/ /\ journal' = journal /\ (stream # "bad" => Run \in missed')
                 /\ stream' = "bad" \/ (stream = "closed" /\ stream' = "closed")
<1>1. Run \in Start
    BY StartInRange DEF Types, Run, Node
<1>2. /\ journal \in Seq(JournalRecord) /\ missed \subseteq Start
      /\ stream \in {"closed", "good", "bad"} /\ faults \in 0 .. MaxFaults
    BY DEF Types, MemTyped
<1>3. CASE /\ stream # "bad" /\ stream' = "good" /\ journal' = Append(journal, r)
           /\ UNCHANGED <<missed, faults>>
    BY <1>2, <1>3, AppendProperties
<1>4. CASE /\ faults < MaxFaults /\ faults' = faults + 1 /\ stream # "bad"
           /\ stream' \in {"bad"} \cup ({stream} \ {"good"})
           /\ missed' = missed \cup {Run} /\ UNCHANGED journal
    <2>1. faults' \in 0 .. MaxFaults
        BY <1>2, <1>4, NodesAssumption
    <2>2. stream' = "bad" \/ (stream = "closed" /\ stream' = "closed")
        BY <1>2, <1>4
    <2> QED  BY <1>1, <1>2, <1>4, <2>1, <2>2
<1>5. CASE stream = "bad" /\ UNCHANGED <<stream, disk, faults>>
    BY <1>2, <1>5
<1> QED
    BY <1>3, <1>4, <1>5 DEF JournalAppend

\* The OMS takes a signal: risk refuses it, or the intent is written.
LEMMA OmsOnSignalStep ==
    ASSUME Types, OmsOnSignal
    PROVE  Types' /\ QuietOms
<1> DEFINE a == accepted["oms"]
           old == conn["strategy"][a]
           r == [old EXCEPT !.fwd = Tail(@)]
<1>1. /\ "strategy" \in Client /\ "oms" \in Servers
      /\ Upstream("oms") = "strategy" /\ pc["oms"] = "serving" /\ pc["oms"] \in Busy
    BY Chain DEF OmsOnSignal, Busy
<1>2. a \in Start /\ ~ (a > starts["strategy"]) /\ old \in Connection("strategy") /\ In("oms") = old
    BY <1>1, ServedConn
<1>3. old.fwd # <<>> /\ conn' = [conn EXCEPT !["strategy"][a] = r]
    BY <1>1, <1>2 DEF OmsOnSignal, ServerReceives
<1>4. r \in Connection("strategy") /\ r.srv = old.srv
    <2>1. r \in Connection("strategy")
        BY <1>1, <1>2, <1>3, Fields
    <2>2. r.srv = old.srv
        BY <1>2 DEF Connection
    <2> QED  BY <2>1, <2>2
<1>5. PcTyped' /\ HeldTyped' /\ MemTyped'
    <2>1. Run \in Start
        BY StartInRange DEF Types, Run, Node
    <2>2. CASE ~ RiskOk(Head(In("oms").fwd), Position, Limits)
        BY <2>2 DEF OmsOnSignal, Types, PcTyped, HeldTyped, MemTyped
    <2>3. CASE RiskOk(Head(In("oms").fwd), Position, Limits)
        <3>1. /\ live' = live \cup {nextId} /\ nextId' = nextId + 1
              /\ JournalAppend(Record("OrderIntent", nextId))
              /\ held' = [held EXCEPT !["oms"] = [type |-> "NewOrder", id |-> nextId, run |-> Run]]
              /\ pc' = [pc EXCEPT !["oms"] = "sending"]
              /\ UNCHANGED <<starts, accepted, book, market, updates>>
            BY <2>3 DEF OmsOnSignal, JournalIntent
        <3>2. PcTyped'
            BY <3>1 DEF Types, PcTyped, Node
        <3>3. HeldTyped'
            BY <2>1, <3>1 DEF Types, PcTyped, HeldTyped, MemTyped, OrderMsg, Node
        <3>4. live' \subseteq 1 .. nextId' - 1
            BY <3>1 DEF Types, MemTyped
        <3>5. /\ stream' \in {"closed", "good", "bad"} /\ faults' \in 0 .. MaxFaults
              /\ journal' \in Seq(JournalRecord) /\ missed' \subseteq Start
            <4>1. Record("OrderIntent", nextId) \in JournalRecord
                BY <2>1 DEF Record, JournalRecord, Types, MemTyped
            <4> QED
                BY <3>1, <4>1, Appends
        <3> QED
            BY <3>1, <3>2, <3>3, <3>4, <3>5 DEF Types, MemTyped
    <2> QED  BY <2>2, <2>3
<1>6. \A s \in Servers : pc'[s] \in Busy <=> pc[s] \in Busy
    <2>1. pc' = pc \/ pc' = [pc EXCEPT !["oms"] = "sending"]
        BY DEF OmsOnSignal
    <2>2. \A s \in Servers : pc'[s] = pc[s] \/ (s = "oms" /\ pc'[s] = "sending")
        BY <2>1 DEF Types, PcTyped, Servers
    <2> QED
        BY <1>1, <2>2 DEF Busy
<1> HIDE DEF r, a
<1>7. StartsTyped' /\ ConnTyped' /\ ConnUsed' /\ SameBut(conn, conn', "strategy", a, r)
    BY <1>1, <1>2, <1>3, <1>4, <1>6, UseConn DEF OmsOnSignal
<1>8. QuietOms
    BY <1>7, Chain DEF SameBut, QuietOms
<1> QED
    BY <1>5, <1>7, <1>8 DEF Types

\* The OMS sends its order, which may be lost.
LEMMA OmsSendStep ==
    ASSUME Types, OmsSend
    PROVE  /\ Types'
           /\ \/ QuietOms
              \/ OmsFlow(Run, Append(conn["oms"][Run].fwd, held["oms"]), conn["oms"][Run].back)
<1> DEFINE k == Run
           r == [conn["oms"][k] EXCEPT !.fwd = Append(@, held["oms"])]
<1>1. "oms" \in Client /\ pc["oms"] = "sending" /\ held["oms"] \in OrderMsg
    BY Chain DEF OmsSend, Types, HeldTyped
<1>2. k \in Start /\ ~ (k > starts["oms"]) /\ conn["oms"][k] \in Connection("oms")
    BY <1>1, OwnConn DEF Run
<1>3. PcTyped' /\ HeldTyped' /\ MemTyped'
    BY <1>1 DEF OmsSend, Types, PcTyped, HeldTyped, MemTyped, mem, Node
<1>4. \A s \in Servers : pc'[s] \in Busy <=> pc[s] \in Busy
    BY <1>1 DEF OmsSend, Types, PcTyped, Busy
<1>5. CASE ClientCut("oms")
    <2>1. conn' = conn
        BY <1>5 DEF OmsSend, ClientSends
    <2> QED
        BY <1>3, <1>4, <2>1, KeepConn DEF OmsSend, Types
<1>6. CASE ~ ClientCut("oms")
    <2>1. conn' = [conn EXCEPT !["oms"][k] = r]
        BY <1>6 DEF OmsSend, ClientSends, Run
    <2>2. r \in Connection("oms")
        <3>1. held["oms"] \in Sends("oms")
            BY <1>1 DEF Sends
        <3> QED
            BY <1>1, <1>2, <3>1, Fields
    <2>3. /\ r.srv = conn["oms"][k].srv /\ r.back = conn["oms"][k].back
          /\ r.fwd = Append(conn["oms"][k].fwd, held["oms"])
        BY <1>2 DEF Connection
    <2> HIDE DEF r, k
    <2>4. StartsTyped' /\ ConnTyped' /\ ConnUsed' /\ SameBut(conn, conn', "oms", k, r)
        BY <1>1, <1>2, <1>4, <2>1, <2>2, <2>3, UseConn DEF OmsSend
    <2>5. OmsFlow(k, Append(conn["oms"][k].fwd, held["oms"]), conn["oms"][k].back)
        BY <1>1, <2>3, <2>4 DEF SameBut, OmsFlow
    <2> QED
        BY <1>3, <2>4, <2>5 DEF Types, k
<1> QED  BY <1>5, <1>6

\* The OMS takes an answer and writes the outcome.
LEMMA OmsOnResponseStep ==
    ASSUME Types, OmsOnResponse
    PROVE  /\ Types'
           /\ conn["oms"][Run].back # <<>> /\ Head(conn["oms"][Run].back) \in ReplyMsg
           /\ OmsFlow(Run, conn["oms"][Run].fwd, Tail(conn["oms"][Run].back))
<1> DEFINE k == Run
           old == conn["oms"][k]
           r == [old EXCEPT !.back = Tail(@)]
<1>1. "oms" \in Client /\ pc["oms"] = "awaiting"
    BY Chain DEF OmsOnResponse
<1>2. k \in Start /\ ~ (k > starts["oms"]) /\ old \in Connection("oms") /\ Out("oms") = old
    BY <1>1, OwnConn DEF Run
<1>3. old.back # <<>> /\ conn' = [conn EXCEPT !["oms"][k] = r]
    BY <1>2 DEF OmsOnResponse, ClientReceives, Run
<1>4. r \in Connection("oms") /\ Head(old.back) \in ReplyMsg
    BY <1>1, <1>2, <1>3, Fields
<1>5. r.srv = old.srv /\ r.back = Tail(old.back) /\ r.fwd = old.fwd
    BY <1>2 DEF Connection
<1>6. PcTyped' /\ HeldTyped'
    BY <1>1 DEF OmsOnResponse, Types, PcTyped, HeldTyped, Node
<1>7. MemTyped'
    <2> DEFINE m == Head(old.back)
               type == IF m.type = "Ack" THEN "GatewayAck" ELSE "GatewayReject"
    <2>1. /\ JournalAppend(Record(type, m.id))
          /\ live' = IF m.type = "Ack" THEN live ELSE live \ {m.id}
        BY <1>2 DEF OmsOnResponse
    <2>2. m.id \in Nat
        BY <1>4 DEF ReplyMsg
    <2>3. type \in {"OrderIntent", "GatewayAck", "GatewayReject"}
        OBVIOUS
    <2> HIDE DEF m, type
    <2>4. Record(type, m.id) \in JournalRecord
        BY <1>2, <2>2, <2>3 DEF Record, JournalRecord
    <2>5. /\ stream' \in {"closed", "good", "bad"} /\ faults' \in 0 .. MaxFaults
          /\ journal' \in Seq(JournalRecord) /\ missed' \subseteq Start
        BY <2>1, <2>4, Appends
    <2>6. live' \subseteq 1 .. nextId - 1
        BY <2>1 DEF Types, MemTyped
    <2> QED
        BY <2>5, <2>6 DEF OmsOnResponse, Types, MemTyped
<1>8. \A s \in Servers : pc'[s] \in Busy <=> pc[s] \in Busy
    BY <1>1 DEF OmsOnResponse, Types, PcTyped, Busy
<1> HIDE DEF r, k
<1>9. StartsTyped' /\ ConnTyped' /\ ConnUsed' /\ SameBut(conn, conn', "oms", k, r)
    BY <1>1, <1>2, <1>3, <1>4, <1>5, <1>8, UseConn DEF OmsOnResponse
<1>10. OmsFlow(k, old.fwd, Tail(old.back))
    BY <1>1, <1>5, <1>9 DEF SameBut, OmsFlow
<1> QED
    BY <1>3, <1>4, <1>6, <1>7, <1>9, <1>10 DEF Types, k

\* The gateway takes an order to the exchange and has an answer.
LEMMA GatewayOnOrderStep ==
    ASSUME Types, GatewayOnOrder
    PROVE  LET a == accepted["gateway"]
               order == Head(conn["oms"][a].fwd)
           IN  /\ Types'
               /\ a \in Start /\ conn["oms"][a].fwd # <<>> /\ order \in OrderMsg
               /\ OmsFlow(a, Tail(conn["oms"][a].fwd), conn["oms"][a].back)
               /\ held'["gateway"] \in ReplyMsg /\ held'["oms"] = held["oms"]
               /\ Order(held'["gateway"]) = Order(order)
               /\ exchange \subseteq exchange' /\ exchange' \subseteq exchange \cup {Order(order)}
               /\ answers' = answers \cup {held'["gateway"]}
               /\ Mode = "sim" => Order(order) \in exchange'
<1> DEFINE a == accepted["gateway"]
           old == conn["oms"][a]
           order == Head(old.fwd)
           r == [old EXCEPT !.fwd = Tail(@)]
<1>1. /\ "oms" \in Client /\ "gateway" \in Servers
      /\ Upstream("gateway") = "oms" /\ pc["gateway"] = "serving" /\ pc["gateway"] \in Busy
    BY Chain DEF GatewayOnOrder, Busy
<1>2. a \in Start /\ ~ (a > starts["oms"]) /\ old \in Connection("oms") /\ In("gateway") = old
    BY <1>1, ServedConn
<1>3. old.fwd # <<>> /\ conn' = [conn EXCEPT !["oms"][a] = r]
    BY <1>1, <1>2 DEF GatewayOnOrder, ServerReceives
<1>4. r \in Connection("oms") /\ order \in OrderMsg
    <2>1. r \in Connection("oms") /\ order \in Sends("oms")
        BY <1>1, <1>2, <1>3, Fields
    <2> QED
        BY <2>1 DEF Sends
<1>5. r.srv = old.srv /\ r.fwd = Tail(old.fwd) /\ r.back = old.back
    BY <1>2 DEF Connection
<1> HIDE DEF r, a, order
<1>6. PICK outcome \in PostOutcomes :
          /\ exchange' = IF outcome.held THEN exchange \cup {[id |-> order.id, run |-> order.run]}
                                         ELSE exchange
          /\ held' = [held EXCEPT !["gateway"] =
                         [type |-> IF outcome.success THEN "Ack" ELSE "Reject",
                          id |-> order.id, run |-> order.run]]
          /\ answers' = answers \cup {[type |-> IF outcome.success THEN "Ack" ELSE "Reject",
                                        id |-> order.id, run |-> order.run]}
    BY <1>2 DEF GatewayOnOrder, order
<1>7. Mode = "sim" => outcome.held
    BY DEF PostOutcomes
<1>8. order.id \in Nat /\ order.run \in Start /\ Order(order) \in [id : Nat, run : Start]
      /\ Order(order) = [id |-> order.id, run |-> order.run]
    BY <1>4 DEF OrderMsg, Order
<1> DEFINE type == IF outcome.success THEN "Ack" ELSE "Reject"
<1>9. type \in {"Ack", "Reject"}
    OBVIOUS
<1>10. /\ held'["gateway"] = [type |-> type, id |-> order.id, run |-> order.run]
       /\ answers' = answers \cup {held'["gateway"]}
       /\ held'["oms"] = held["oms"] /\ held' = [n \in {"oms", "gateway"} |-> held'[n]]
    BY <1>6 DEF Types, HeldTyped
<1> HIDE DEF type
<1>11. held'["gateway"] \in ReplyMsg /\ Order(held'["gateway"]) = Order(order)
       /\ held'["gateway"].type = type
    BY <1>8, <1>9, <1>10 DEF ReplyMsg, Order
<1>12. /\ exchange \subseteq exchange' /\ exchange' \subseteq exchange \cup {Order(order)}
       /\ Mode = "sim" => Order(order) \in exchange'
    BY <1>6, <1>7, <1>8
<1>13. pc' = [pc EXCEPT !["gateway"] = "replying"]
       /\ UNCHANGED <<starts, accepted, book, nextId, live, stream, disk, updates, faults>>
    BY DEF GatewayOnOrder
<1>14. PcTyped'
    BY <1>13 DEF Types, PcTyped, Node
<1>15. HeldTyped'
    BY <1>10, <1>11, <1>13 DEF Types, HeldTyped, PcTyped, Node
<1>16. MemTyped'
    BY <1>8, <1>10, <1>11, <1>12, <1>13 DEF Types, MemTyped
<1>17. \A s \in Servers : pc'[s] \in Busy <=> pc[s] \in Busy
    BY <1>1, <1>13 DEF Types, PcTyped, Busy
<1>18. StartsTyped' /\ ConnTyped' /\ ConnUsed' /\ SameBut(conn, conn', "oms", a, r)
    BY <1>1, <1>2, <1>3, <1>4, <1>5, <1>13, <1>17, UseConn
<1>19. OmsFlow(a, Tail(old.fwd), old.back)
    BY <1>1, <1>5, <1>18 DEF SameBut, OmsFlow
<1> QED
    BY <1>2, <1>3, <1>4, <1>10, <1>11, <1>12, <1>14, <1>15, <1>16, <1>18, <1>19
       DEF Types, a, order

\* The gateway sends its answer, which may be lost.
LEMMA GatewayReplyStep ==
    ASSUME Types, GatewayReply
    PROVE  LET a == accepted["gateway"] IN
           /\ Types' /\ a \in Start /\ held["gateway"] \in ReplyMsg /\ held'["oms"] = held["oms"]
           /\ \/ QuietOms
              \/ OmsFlow(a, conn["oms"][a].fwd, Append(conn["oms"][a].back, held["gateway"]))
<1> DEFINE a == accepted["gateway"]
           old == conn["oms"][a]
           r == [old EXCEPT !.back = Append(@, held["gateway"])]
<1>1. /\ "oms" \in Client /\ "gateway" \in Servers
      /\ Upstream("gateway") = "oms" /\ pc["gateway"] = "replying" /\ pc["gateway"] \in Busy
    BY Chain DEF GatewayReply, Busy
<1>2. a \in Start /\ ~ (a > starts["oms"]) /\ old \in Connection("oms") /\ In("gateway") = old
    BY <1>1, ServedConn
<1>3. held["gateway"] \in ReplyMsg
    BY <1>1 DEF Types, HeldTyped
<1>4. PcTyped' /\ HeldTyped' /\ MemTyped' /\ held'["oms"] = held["oms"]
    BY <1>1 DEF GatewayReply, Types, PcTyped, HeldTyped, MemTyped, Node
<1>5. \A s \in Servers : pc'[s] \in Busy <=> pc[s] \in Busy
    BY <1>1 DEF GatewayReply, Types, PcTyped, Busy
<1>6. CASE ServerCut("gateway")
    <2>1. conn' = conn
        BY <1>6 DEF GatewayReply, ServerSends
    <2> QED
        BY <1>2, <1>3, <1>4, <1>5, <2>1, KeepConn DEF GatewayReply, Types
<1>7. CASE ~ ServerCut("gateway")
    <2>1. conn' = [conn EXCEPT !["oms"][a] = r]
        BY <1>1, <1>7 DEF GatewayReply, ServerSends
    <2>2. r \in Connection("oms")
        BY <1>1, <1>2, <1>3, Fields
    <2>3. /\ r.srv = old.srv /\ r.fwd = old.fwd /\ r.back = Append(old.back, held["gateway"])
        BY <1>2 DEF Connection
    <2> HIDE DEF r, a
    <2>4. StartsTyped' /\ ConnTyped' /\ ConnUsed' /\ SameBut(conn, conn', "oms", a, r)
        BY <1>1, <1>2, <1>5, <2>1, <2>2, <2>3, UseConn DEF GatewayReply
    <2>5. OmsFlow(a, old.fwd, Append(old.back, held["gateway"]))
        BY <1>1, <2>3, <2>4 DEF SameBut, OmsFlow
    <2> QED
        BY <1>2, <1>3, <1>4, <2>4, <2>5 DEF Types, a
<1> QED  BY <1>6, <1>7

\* The four nodes' steps that are the end of a process.
EndStep(n) == Exit(n) /\ faults' \in 0 .. MaxFaults

\* The steps of the system, by what they do.
LEMMA Steps ==
    ASSUME Types, Next
    PROVE  \/ UNCHANGED vars
           \/ \E n \in Node : EndStep(n) \/ Restart(n)
           \/ \E c \in Client : Connect(c) \/ Break(c)
           \/ \E s \in Servers : Accept(s)
           \/ MdPublish \/ StrategyOnUpdate
           \/ OmsOnSignal \/ OmsSend \/ OmsOnResponse
           \/ GatewayOnOrder \/ GatewayReply
<1>1. faults \in 0 .. MaxFaults /\ (faults < MaxFaults => faults + 1 \in 0 .. MaxFaults)
    BY NodesAssumption DEF Types, MemTyped
<1>2. {"md", "strategy", "oms"} = Client /\ {"strategy", "oms", "gateway"} = Servers
      /\ Client \subseteq Node /\ Servers \subseteq Node
    BY Chain DEF Client, Servers
<1>3. ASSUME Md \/ MdPublish \/ MdFeedEnds
      PROVE  \/ UNCHANGED vars \/ MdPublish
             \/ \E n \in Node : EndStep(n)
             \/ \E c \in Client : Connect(c)
    BY <1>1, <1>2, <1>3 DEF Md, ConnectRetry, MdFeedEnds, EndStep
<1>4. ASSUME Strategy
      PROVE  \/ UNCHANGED vars \/ StrategyOnUpdate
             \/ \E n \in Node : EndStep(n)
             \/ \E c \in Client : Connect(c)
             \/ \E s \in Servers : Accept(s)
    BY <1>1, <1>2, <1>4 DEF Strategy, ConnectRetry, StrategySendFails, UpstreamLost, EndStep
<1>5. ASSUME Oms
      PROVE  \/ UNCHANGED vars \/ OmsOnSignal \/ OmsSend \/ OmsOnResponse
             \/ \E n \in Node : EndStep(n)
             \/ \E c \in Client : Connect(c)
             \/ \E s \in Servers : Accept(s)
    BY <1>1, <1>2, <1>5 DEF Oms, ConnectRetry, OmsSendFails, OmsResponseLost, UpstreamLost, EndStep
<1>6. ASSUME Gateway
      PROVE  \/ GatewayOnOrder \/ GatewayReply
             \/ \E n \in Node : EndStep(n)
             \/ \E s \in Servers : Accept(s)
    BY <1>1, <1>2, <1>6 DEF Gateway, GatewayReplyFails, UpstreamLost, EndStep
<1>7. ASSUME NEW n \in Node, Crash(n)
      PROVE  EndStep(n)
    BY <1>1, <1>7 DEF Crash, EndStep
<1> QED
    BY <1>3, <1>4, <1>5, <1>6, <1>7 DEF Next

\* Every step keeps the types.
LEMMA NextTypes == Types /\ [Next]_vars => Types'
<1> SUFFICES ASSUME Types, [Next]_vars PROVE Types'
    OBVIOUS
<1>1. CASE UNCHANGED vars
    BY <1>1, KeepConn DEF vars, mem, Types, PcTyped, HeldTyped, MemTyped
<1>2. CASE Next
    BY <1>1, <1>2, Steps, ExitStep, RestartStep, ConnectStep, BreakStep, AcceptStep,
       MdPublishStep, StrategyStep, OmsOnSignalStep, OmsSendStep, OmsOnResponseStep,
       GatewayOnOrderStep, GatewayReplyStep DEF EndStep
<1> QED  BY <1>1, <1>2

\* The types hold in every reachable state.
LEMMA TypesHold == Spec => []Types
BY InitTypes, NextTypes, PTL DEF Spec

\* Every variable keeps its type however the nodes crash and come back: a
\* connection beyond the last start is blank, and a server holds an accepted
\* connection exactly while it serves.
THEOREM TypeCorrect == Spec => []TypeOK
<1>1. Types => TypeOK
    <2> SUFFICES ASSUME Types PROVE TypeOK
        OBVIOUS
    <2>1. starts \in [Node -> Start]
        BY StartInRange DEF Types
    <2>2. \A c \in Client, k \in Start :
              /\ conn[c][k].cli \in BOOLEAN /\ conn[c][k].up \in BOOLEAN
              /\ conn[c][k].srv \in {"none", "backlog", "open", "closed"}
        BY DEF Types, ConnTyped, Connection
    <2>3. \A s \in Node \ {"md"} :
              accepted[s] \in (IF pc[s] \in {"serving", "sending", "awaiting", "replying"}
                               THEN Start ELSE {0})
        BY DEF Types, ConnUsed, Servers, Busy
    <2> QED
        BY <2>1, <2>2, <2>3 DEF TypeOK, Types, PcTyped, ConnUsed, MemTyped
<1> QED
    BY <1>1, TypesHold, PTL

-----------------------------------------------------------------------------
(* The journal, the messages and the exchange *)

\* The journal has a record of this type for the order.
LoggedIn(j, type, id, run) ==
    \E i \in 1 .. Len(j) : j[i].type = type /\ j[i].id = id /\ j[i].run = run

Logged(type, id, run) == LoggedIn(journal, type, id, run)

\* The order's intent is in the journal, unless its process missed records.
IntendedIn(j, ms, id, run) == run \in ms \/ LoggedIn(j, "OrderIntent", id, run)

Intended(id, run) == IntendedIn(journal, missed, id, run)

\* A message of process k, sent after its intent was journaled; an answer is
\* one that the gateway has made.
OrderOn(k, m) == m.run = k /\ Intended(m.id, k)
ReplyOn(k, m) == OrderOn(k, m) /\ m \in answers

\* What the gateway said of the order that an outcome record is about.
AnswerOf(r) == [type |-> IF r.type = "GatewayAck" THEN "Ack" ELSE "Reject", id |-> r.id, run |-> r.run]

OnWire ==
    \A k \in Start :
        /\ \A i \in 1 .. Len(conn["oms"][k].fwd) : OrderOn(k, conn["oms"][k].fwd[i])
        /\ \A i \in 1 .. Len(conn["oms"][k].back) : ReplyOn(k, conn["oms"][k].back[i])

InHand ==
    /\ pc["gateway"] = "replying" => ReplyOn(accepted["gateway"], held["gateway"])
    /\ pc["oms"] \in {"sending", "awaiting"} => OrderOn(Run, held["oms"])

AtExchange ==
    /\ \A o \in exchange : Intended(o.id, o.run)
    /\ \A i \in 1 .. Len(journal) :
          journal[i].type # "OrderIntent" => AnswerOf(journal[i]) \in answers

Carried == OnWire /\ InHand /\ AtExchange

\* The gateway is answering process k.
Replying(k) == pc["gateway"] = "replying" /\ accepted["gateway"] = k

\* At most one message of the running OMS process is under way, about the
\* order it waits for; none is while it does not wait.
OneOrder ==
    LET fwd == conn["oms"][Run].fwd  back == conn["oms"][Run].back IN
    /\ pc["oms"] \in {"connecting", "accepting", "serving", "sending"} =>
          Len(fwd) = 0 /\ Len(back) = 0 /\ ~ Replying(Run)
    /\ pc["oms"] = "awaiting" =>
          /\ Len(fwd) + Len(back) <= 1
          /\ Replying(Run) => Len(fwd) + Len(back) = 0 /\ held["gateway"].id = held["oms"].id
          /\ \A i \in 1 .. Len(fwd) : fwd[i].id = held["oms"].id
          /\ \A i \in 1 .. Len(back) : back[i].id = held["oms"].id

\* The last record of the journal, by what became of the stream: the running
\* process has written nothing yet; or all it had to, so that the last record
\* is the intent of the order in hand, or leaves no order open; or it lost one.
Fresh == Len(journal) = 0 \/ journal[Len(journal)].run < Run

JournalEnd ==
    LET last == journal[Len(journal)] IN
    /\ \A i \in 1 .. Len(journal) : journal[i].run <= Run
    /\ pc["oms"] = "exited" => stream = "closed"
    /\ stream = "closed" /\ pc["oms"] # "exited" => Fresh
    /\ stream = "closed" /\ pc["oms"] \in {"sending", "awaiting"} => Run \in missed
    /\ stream = "good" =>
          /\ Len(journal) > 0 /\ last.run = Run
          /\ IF pc["oms"] \in {"sending", "awaiting"}
             THEN last = [type |-> "OrderIntent", id |-> held["oms"].id, run |-> Run]
             ELSE last.type # "OrderIntent"
    /\ stream = "bad" => Run \in missed

\* The simulated gateway acknowledges what it holds.
SimTrue == Mode = "sim" => \A m \in answers : Order(m) \in exchange

\* The inductive invariant.
IInv == Types /\ Carried /\ OneOrder /\ JournalEnd /\ FailsClosed /\ SimTrue

\* OMS and gateway exchange nothing and write nothing; they go on, are
\* started up, or end.
Idle ==
    /\ QuietOms /\ UNCHANGED <<disk, market>> /\ Run' = Run
    /\ \/ pc'["oms"] = pc["oms"] /\ held'["oms"] = held["oms"] /\ stream' = stream
       \/ /\ pc["oms"] \in {"connecting", "accepting"} /\ pc'["oms"] \in {"accepting", "serving"}
          /\ stream' = stream
       \/ pc'["oms"] = "exited" /\ stream' = "closed"
    /\ \/ /\ pc'["gateway"] = pc["gateway"] /\ held'["gateway"] = held["gateway"]
          /\ accepted'["gateway"] = accepted["gateway"]
       \/ pc'["gateway"] # "replying"

\* An idle step keeps the invariant.
LEMMA IdleStep ==
    ASSUME IInv, Types', Idle
    PROVE  IInv'
<1>1. Run \in Start /\ Run' = Run
    BY StartInRange DEF IInv, Types, Run, Node, Idle
<1>2. Carried'
    <2>1. OnWire'
        <3>1. \A k \in Start : conn'["oms"][k].fwd = conn["oms"][k].fwd
                               /\ conn'["oms"][k].back = conn["oms"][k].back
            BY DEF Idle, QuietOms
        <3>2. UNCHANGED <<disk, market>>
            BY DEF Idle
        <3> QED
            BY <3>1, <3>2 DEF IInv, Carried, OnWire, OrderOn, ReplyOn, Intended
    <2>2. InHand'
        BY <1>1 DEF IInv, Carried, InHand, OrderOn, ReplyOn, Intended, Idle
    <2>3. AtExchange'
        BY DEF IInv, Carried, AtExchange, Intended, Idle
    <2> QED
        BY <2>1, <2>2, <2>3 DEF Carried
<1>3. OneOrder'
    BY <1>1 DEF IInv, OneOrder, Replying, Idle, QuietOms
<1>4. JournalEnd'
    BY <1>1 DEF IInv, JournalEnd, Fresh, Idle
<1>5. FailsClosed' /\ SimTrue'
    BY DEF IInv, FailsClosed, SimTrue, Idle
<1> QED
    BY <1>2, <1>3, <1>4, <1>5 DEF IInv

\* Most steps are idle.
LEMMA IdleSteps ==
    ASSUME Types,
           \/ UNCHANGED vars
           \/ \E n \in Node : EndStep(n) \/ (n # "oms" /\ Restart(n))
           \/ \E c \in Client : Connect(c) \/ Break(c)
           \/ \E s \in Servers : Accept(s)
           \/ MdPublish \/ StrategyOnUpdate
    PROVE  Idle
<1> USE DEF Idle, Run
<1>1. CASE UNCHANGED vars
    BY <1>1 DEF vars, mem, QuietOms
<1>2. ASSUME NEW n \in Node, EndStep(n) PROVE Idle
    <2>1. QuietOms
        BY <1>2, ExitStep DEF EndStep
    <2> QED
        BY <1>2, <2>1 DEF EndStep, Exit, Types, PcTyped, HeldTyped, ConnUsed, Node, Servers
<1>3. ASSUME NEW n \in Node, n # "oms", Restart(n) PROVE Idle
    <2>1. QuietOms
        BY <1>3, RestartStep
    <2> QED
        BY <1>3, <2>1 DEF Restart, mem, Begin, Types, PcTyped, StartsTyped, Node
<1>4. ASSUME NEW c \in Client, Connect(c) PROVE Idle
    <2>1. QuietOms
        BY <1>4, ConnectStep
    <2> QED
        BY <1>4, <2>1 DEF Connect, mem, Types, PcTyped, Client, Node
<1>5. ASSUME NEW c \in Client, Break(c) PROVE Idle
    BY <1>5, BreakStep DEF Break, mem
<1>6. ASSUME NEW s \in Servers, Accept(s) PROVE Idle
    <2>1. QuietOms
        BY <1>6, AcceptStep
    <2> QED
        BY <1>6, <2>1 DEF Accept, mem, Types, PcTyped, ConnUsed, Servers, Node
<1>7. CASE MdPublish
    <2>1. QuietOms
        BY <1>7, MdPublishStep
    <2>2. UNCHANGED <<pc, starts, accepted, held, stream, disk, market>>
        BY <1>7 DEF MdPublish, mem
    <2> QED
        BY <2>1, <2>2
<1>8. CASE StrategyOnUpdate
    BY <1>8, StrategyStep DEF StrategyOnUpdate
<1> QED
    BY <1>1, <1>2, <1>3, <1>4, <1>5, <1>6, <1>7, <1>8

\* The OMS is started again: its connection is blank, its number is new.
LEMMA OmsRestarts ==
    ASSUME IInv, Types', Restart("oms")
    PROVE  IInv'
<1>1. /\ Run \in Start /\ Run' = Run + 1 /\ Run \in Nat /\ Run' \in Start
      /\ UNCHANGED <<conn, accepted, held, stream, disk, market>>
      /\ pc["oms"] = "exited"
      /\ pc'["oms"] = "connecting" /\ pc'["gateway"] = pc["gateway"]
    <2>1. \A n \in Node : starts[n] \in Nat /\ starts[n] >= 1
        BY DEF IInv, Types, StartsTyped
    <2>2. Run <= MaxRestarts /\ Run \in Nat /\ Run >= 1
        BY <2>1, NodesAssumption DEF Restart, Restarts, Run, Node
    <2>3. Run' = Run + 1
        BY DEF Restart, IInv, Types, StartsTyped, Run, Node
    <2>4. Run \in Start /\ Run' \in Start
        BY <2>2, <2>3, NodesAssumption DEF Start
    <2> QED
        BY <2>2, <2>3, <2>4 DEF Restart, mem, Begin, IInv, Types, PcTyped, Node
<1>2. Carried'
    BY <1>1 DEF IInv, Carried, OnWire, InHand, AtExchange, OrderOn, ReplyOn, Intended
<1>3. conn["oms"][Run'] = NoConn
    BY <1>1, Chain DEF IInv, Types, ConnUsed, Run
<1>4. ~ Replying(Run)'
    <2>1. CASE pc["gateway"] # "replying"
        BY <1>1, <2>1 DEF Replying
    <2>2. CASE pc["gateway"] = "replying"
        <3>1. ~ (accepted["gateway"] > starts["oms"]) /\ accepted["gateway"] \in Start
            BY <2>2, ServedConn, Chain DEF IInv, Busy
        <3> QED
            BY <1>1, <3>1, NodesAssumption DEF Replying, Run, Start
    <2> QED  BY <2>1, <2>2
<1>5. OneOrder'
    BY <1>1, <1>3, <1>4 DEF OneOrder, NoConn
<1>6. JournalEnd'
    <2>0. \A i \in 1 .. Len(journal) : journal[i] \in JournalRecord
        BY ElementOfSeq DEF IInv, Types, MemTyped
    <2>1. \A i \in 1 .. Len(journal) : journal[i].run \in Nat /\ journal[i].run <= Run
        BY <2>0 DEF IInv, JournalRecord, JournalEnd, Start
    <2>2. Len(journal) \in Nat
        BY LenProperties DEF IInv, Types, MemTyped
    <2>3. stream = "closed"
        BY <1>1 DEF IInv, JournalEnd
    <2> QED
        BY <1>1, <2>1, <2>2, <2>3 DEF JournalEnd, Fresh
<1>7. FailsClosed' /\ SimTrue'
    BY <1>1 DEF IInv, FailsClosed, SimTrue
<1> QED
    BY <1>2, <1>5, <1>6, <1>7 DEF IInv

\* What appending a record to the journal leaves as it was.
LEMMA Grows ==
    ASSUME Types, NEW r \in JournalRecord, journal' = Append(journal, r)
    PROVE  /\ Len(journal') = Len(journal) + 1 /\ Len(journal) \in Nat
           /\ journal'[Len(journal')] = r
           /\ \A i \in 1 .. Len(journal) : journal'[i] = journal[i]
           /\ \A id, run : Intended(id, run) => IntendedIn(journal', missed, id, run)
<1>1. journal \in Seq(JournalRecord)
    BY DEF Types, MemTyped
<1>2. /\ Len(journal') = Len(journal) + 1 /\ Len(journal) \in Nat
      /\ journal'[Len(journal')] = r
      /\ \A i \in 1 .. Len(journal) : journal'[i] = journal[i]
    BY <1>1, AppendProperties, LenProperties
<1>3. ASSUME NEW id, NEW run, Intended(id, run)
      PROVE  IntendedIn(journal', missed, id, run)
    BY <1>2, <1>3 DEF Intended, IntendedIn, LoggedIn
<1> QED  BY <1>2, <1>3

\* An intent once written, or missed, stays so.
LEMMA StaysIntended ==
    ASSUME Types, NEW r \in JournalRecord, JournalAppend(r)
    PROVE  \A id, run : Intended(id, run) => IntendedIn(journal', missed', id, run)
<1> SUFFICES ASSUME NEW id, NEW run, Intended(id, run)
             PROVE  IntendedIn(journal', missed', id, run)
    OBVIOUS
<1>1. missed \subseteq missed' /\ (journal' = journal \/ journal' = Append(journal, r))
    BY Appends
<1>2. CASE journal' = journal
    BY <1>1, <1>2 DEF Intended, IntendedIn
<1>3. CASE journal' = Append(journal, r)
    <2>1. IntendedIn(journal', missed, id, run)
        BY <1>3, Grows
    <2> QED
        BY <1>1, <2>1 DEF IntendedIn
<1> QED  BY <1>1, <1>2, <1>3

\* Taking a signal: the order is new, and its intent is written.
LEMMA OmsOnSignalKeeps ==
    ASSUME IInv, Types', OmsOnSignal
    PROVE  IInv'
<1>1. QuietOms /\ Types /\ Run' = Run /\ Run \in Start /\ pc["oms"] = "serving"
    BY OmsOnSignalStep, StartInRange DEF IInv, OmsOnSignal, Types, Run, Node
<1>2. CASE ~ RiskOk(Head(In("oms").fwd), Position, Limits)
    <2>1. Idle
        BY <1>1, <1>2 DEF OmsOnSignal, Idle
    <2> QED
        BY <2>1, IdleStep
<1>3. CASE RiskOk(Head(In("oms").fwd), Position, Limits)
    <2> DEFINE r == [type |-> "OrderIntent", id |-> nextId, run |-> Run]
    <2>1. /\ JournalAppend(r)
          /\ held' = [held EXCEPT !["oms"] = [type |-> "NewOrder", id |-> nextId, run |-> Run]]
          /\ pc' = [pc EXCEPT !["oms"] = "sending"]
          /\ UNCHANGED <<starts, accepted, market>>
        BY <1>3 DEF OmsOnSignal, JournalIntent, Record
    <2>2. r \in JournalRecord
        BY <1>1 DEF JournalRecord, Types, MemTyped
    <2>3. /\ missed \subseteq missed'
          /\ \/ /\ journal' = Append(journal, r) /\ missed' = missed
                /\ stream # "bad" /\ stream' = "good"
             \/ /\ journal' = journal /\ (stream # "bad" => Run \in missed')
                /\ stream' = "bad" \/ (stream = "closed" /\ stream' = "closed")
        BY <1>1, <2>1, <2>2, Appends
    <2>4. /\ pc'["oms"] = "sending" /\ pc'["gateway"] = pc["gateway"]
          /\ held'["gateway"] = held["gateway"]
          /\ held'["oms"] = [type |-> "NewOrder", id |-> nextId, run |-> Run]
        BY <1>1, <2>1 DEF Types, PcTyped, HeldTyped, Node
    <2>5. journal' = Append(journal, r) =>
          /\ Len(journal') = Len(journal) + 1 /\ Len(journal) \in Nat
          /\ journal'[Len(journal')] = r
          /\ \A i \in 1 .. Len(journal) : journal'[i] = journal[i]
        BY <1>1, <2>2, Grows
    <2>6. \A id, run : Intended(id, run) => IntendedIn(journal', missed', id, run)
        BY <1>1, <2>1, <2>2, StaysIntended
    <2>7. IntendedIn(journal', missed', nextId, Run)
        <3>1. CASE journal' = Append(journal, r)
            BY <2>5, <3>1 DEF IntendedIn, LoggedIn
        <3>2. CASE journal' = journal /\ (stream # "bad" => Run \in missed')
            BY <2>3, <3>2 DEF IntendedIn, IInv, JournalEnd
        <3> QED  BY <2>3, <3>1, <3>2
    <2>8. OnWire'
        BY <1>1, <2>1, <2>6 DEF IInv, Carried, OnWire, OrderOn, ReplyOn, QuietOms, Intended
    <2>9. InHand'
        BY <1>1, <2>1, <2>4, <2>6, <2>7 DEF IInv, Carried, InHand, OrderOn, ReplyOn, Intended
    <2> HIDE DEF r
    <2>10. r.type = "OrderIntent" /\ r.run = Run /\ r.id = nextId
           /\ r = [type |-> "OrderIntent", id |-> held'["oms"].id, run |-> Run]
        BY <2>4 DEF r
    <2>11. AtExchange'
        <3>1. \A o \in exchange' : Intended(o.id, o.run)'
            BY <2>1, <2>6 DEF IInv, Carried, AtExchange, Intended
        <3>2. \A i \in 1 .. Len(journal') :
                  journal'[i].type # "OrderIntent" => AnswerOf(journal'[i]) \in answers
            BY <2>3, <2>5, <2>10 DEF IInv, Carried, AtExchange
        <3> QED
            BY <2>1, <3>1, <3>2 DEF AtExchange, AnswerOf
    <2>12. OneOrder'
        BY <1>1, <2>1, <2>4 DEF IInv, OneOrder, Replying, QuietOms
    <2>13. JournalEnd'
        <3>1. CASE journal' = Append(journal, r) /\ stream' = "good"
            BY <1>1, <2>4, <2>5, <2>10, <3>1, NodesAssumption DEF IInv, JournalEnd, Start
        <3>2. CASE /\ journal' = journal /\ (stream # "bad" => Run \in missed')
                   /\ stream' = "bad" \/ (stream = "closed" /\ stream' = "closed")
            BY <1>1, <2>3, <2>4, <3>2 DEF IInv, JournalEnd, Fresh
        <3> QED  BY <2>3, <3>1, <3>2
    <2>14. FailsClosed'
        <3>1. CASE journal' = Append(journal, r) /\ stream # "bad"
            <4>1. Fresh \/ (Len(journal) > 0 /\ journal[Len(journal)].run = Run
                             /\ journal[Len(journal)].type # "OrderIntent")
                BY <1>1, <3>1 DEF IInv, JournalEnd, Types, MemTyped
            <4> QED
                BY <1>1, <2>3, <2>5, <2>10, <3>1, <4>1 DEF IInv, FailsClosed, Fresh
        <3>2. CASE journal' = journal
            BY <2>3, <3>2 DEF IInv, FailsClosed
        <3> QED  BY <2>3, <3>1, <3>2
    <2>15. SimTrue'
        BY <2>1 DEF IInv, SimTrue
    <2> QED
        BY <2>8, <2>9, <2>11, <2>12, <2>13, <2>14, <2>15 DEF IInv, Carried
<1> QED  BY <1>2, <1>3

\* What a queue of messages holds after a message was added or taken.
LEMMA Queues ==
    ASSUME NEW S, NEW q \in Seq(S)
    PROVE  /\ Len(q) \in Nat /\ (q = <<>> <=> Len(q) = 0)
           /\ \A i \in 1 .. Len(q) : q[i] \in S
           /\ \A m \in S : /\ Len(Append(q, m)) = Len(q) + 1
                            /\ \A i \in 1 .. Len(q) + 1 :
                                  Append(q, m)[i] = IF i = Len(q) + 1 THEN m ELSE q[i]
           /\ q # <<>> => /\ Len(q) >= 1 /\ Len(Tail(q)) = Len(q) - 1 /\ Head(q) = q[1]
                          /\ \A i \in 1 .. Len(q) - 1 : Tail(q)[i] = q[i + 1]
<1>1. Len(q) \in Nat /\ (q = <<>> <=> Len(q) = 0) /\ \A i \in 1 .. Len(q) : q[i] \in S
    BY LenProperties, ElementOfSeq, EmptySeq
<1>2. ASSUME NEW m \in S
      PROVE  /\ Len(Append(q, m)) = Len(q) + 1
             /\ \A i \in 1 .. Len(q) + 1 : Append(q, m)[i] = IF i = Len(q) + 1 THEN m ELSE q[i]
    BY <1>1, AppendProperties
<1>3. q # <<>> => /\ Len(q) >= 1 /\ Len(Tail(q)) = Len(q) - 1 /\ Head(q) = q[1]
                  /\ \A i \in 1 .. Len(q) - 1 : Tail(q)[i] = q[i + 1]
    BY <1>1, HeadTailProperties
<1> QED
    BY <1>1, <1>2, <1>3

\* The queues between OMS and gateway have their types.
LEMMA OmsQueues ==
    ASSUME Types, NEW k \in Start
    PROVE  conn["oms"][k].fwd \in Seq(OrderMsg) /\ conn["oms"][k].back \in Seq(ReplyMsg)
<1>1. conn["oms"][k] \in Connection("oms")
    BY Chain DEF Types, ConnTyped
<1> QED
    BY <1>1 DEF Connection, Sends

\* Sending the order in hand.
LEMMA OmsSendKeeps ==
    ASSUME IInv, Types', OmsSend
    PROVE  IInv'
<1> DEFINE fwd == conn["oms"][Run].fwd
           back == conn["oms"][Run].back
           m == held["oms"]
<1>1. /\ Types /\ Run' = Run /\ Run \in Start /\ pc["oms"] = "sending" /\ pc'["oms"] = "awaiting"
      /\ pc'["gateway"] = pc["gateway"] /\ m \in OrderMsg
      /\ UNCHANGED <<held, accepted, stream, disk, market>>
    BY StartInRange DEF IInv, OmsSend, mem, Types, PcTyped, HeldTyped, Run, Node
<1>2. fwd \in Seq(OrderMsg) /\ back \in Seq(ReplyMsg)
    BY <1>1, OmsQueues
<1>3. Len(fwd) = 0 /\ Len(back) = 0 /\ ~ Replying(Run)
    BY <1>1 DEF IInv, OneOrder
<1>4. OrderOn(Run, m)
    BY <1>1 DEF IInv, Carried, InHand
<1>5. QuietOms \/ OmsFlow(Run, Append(fwd, m), back)
    BY <1>1, OmsSendStep
<1>6. /\ Len(Append(fwd, m)) = 1 /\ Append(fwd, m)[1] = m
    BY <1>1, <1>2, <1>3
<1> HIDE DEF m
<1>7. OnWire'
    <2>1. CASE QuietOms
        <3>1. \A k \in Start : conn'["oms"][k].fwd = conn["oms"][k].fwd
                               /\ conn'["oms"][k].back = conn["oms"][k].back
            BY <2>1 DEF QuietOms
        <3>2. UNCHANGED <<disk, market>>
            BY <1>1
        <3> QED
            BY <3>1, <3>2 DEF IInv, Carried, OnWire, OrderOn, ReplyOn, Intended
    <2>2. CASE OmsFlow(Run, Append(fwd, m), back)
        <3>1. ASSUME NEW k \in Start, NEW i \in 1 .. Len(conn'["oms"][k].fwd)
              PROVE  OrderOn(k, conn'["oms"][k].fwd[i])
            <4>1. CASE k = Run
                <5>1. conn'["oms"][k].fwd = Append(fwd, m)
                    BY <2>2, <4>1 DEF OmsFlow
                <5>2. i = 1
                    BY <1>6, <5>1
                <5> QED
                    BY <1>4, <1>6, <4>1, <5>1, <5>2
            <4>2. CASE k # Run
                BY <2>2, <4>2 DEF OmsFlow, IInv, Carried, OnWire
            <4> QED  BY <4>1, <4>2
        <3>2. ASSUME NEW k \in Start, NEW i \in 1 .. Len(conn'["oms"][k].back)
              PROVE  ReplyOn(k, conn'["oms"][k].back[i])
            BY <2>2, <3>2 DEF OmsFlow, IInv, Carried, OnWire
        <3> QED
            BY <1>1, <3>1, <3>2 DEF OnWire, OrderOn, ReplyOn, Intended
    <2> QED  BY <1>5, <2>1, <2>2
<1>8. InHand' /\ AtExchange'
    BY <1>1 DEF IInv, Carried, InHand, AtExchange, OrderOn, ReplyOn, Intended
<1>9. OneOrder'
    <2>1. ~ Replying(Run)'
        BY <1>1, <1>3 DEF Replying
    <2>2. /\ conn'["oms"][Run'].fwd = fwd \/ conn'["oms"][Run'].fwd = Append(fwd, m)
          /\ conn'["oms"][Run'].back = back
        BY <1>1, <1>5 DEF QuietOms, OmsFlow
    <2>3. m = held'["oms"]
        BY <1>1 DEF m
    <2>4. /\ Len(conn'["oms"][Run'].fwd) \in {0, 1} /\ Len(conn'["oms"][Run'].back) = 0
          /\ \A i \in 1 .. Len(conn'["oms"][Run'].fwd) : conn'["oms"][Run'].fwd[i].id = held'["oms"].id
        <3>1. CASE conn'["oms"][Run'].fwd = fwd
            BY <1>3, <2>2, <3>1
        <3>2. CASE conn'["oms"][Run'].fwd = Append(fwd, m)
            <4>1. \A i \in 1 .. 1 : i = 1
                OBVIOUS
            <4> QED
                BY <1>3, <1>6, <2>2, <2>3, <3>2, <4>1
        <3> QED  BY <2>2, <3>1, <3>2
    <2> QED
        BY <1>1, <2>1, <2>4 DEF OneOrder
<1>10. JournalEnd' /\ FailsClosed' /\ SimTrue'
    BY <1>1 DEF IInv, JournalEnd, Fresh, FailsClosed, SimTrue
<1> QED
    BY <1>7, <1>8, <1>9, <1>10 DEF IInv, Carried

\* Two queues with at most one message between them.
LEMMA OnlyOne ==
    ASSUME NEW x \in Nat, NEW y \in Nat, x + y <= 1
    PROVE  (x >= 1 => x = 1 /\ y = 0) /\ (y >= 1 => y = 1 /\ x = 0)
OBVIOUS

\* Where the OMS can be.
LEMMA OmsPlaces ==
    ASSUME Types
    PROVE  pc["oms"] \in {"connecting", "accepting", "serving", "sending"}
                         \cup {"awaiting", "exited"}
BY DEF Types, PcTyped, Node

\* The answer is that of the order in hand, and its outcome goes right behind
\* the intent.
LEMMA OmsOnResponseKeeps ==
    ASSUME IInv, Types', OmsOnResponse
    PROVE  IInv'
<1> DEFINE fwd == conn["oms"][Run].fwd
           back == conn["oms"][Run].back
           m == Head(back)
           type == IF m.type = "Ack" THEN "GatewayAck" ELSE "GatewayReject"
           r == [type |-> type, id |-> m.id, run |-> Run]
<1>1. /\ Types /\ Run' = Run /\ Run \in Start /\ Run \in Nat
      /\ pc["oms"] = "awaiting" /\ pc'["oms"] = "serving"
      /\ pc'["gateway"] = pc["gateway"] /\ held'["gateway"] = held["gateway"]
      /\ UNCHANGED <<accepted, market>> /\ Out("oms") = conn["oms"][Run]
    <2>1. Run \in Start
        BY StartInRange DEF IInv, Types, Run, Node
    <2> QED
        BY <2>1 DEF IInv, OmsOnResponse, Types, PcTyped, HeldTyped, Run, Node, Start, Out
<1>2. fwd \in Seq(OrderMsg) /\ back \in Seq(ReplyMsg)
    BY <1>1, OmsQueues
<1>3. back # <<>> /\ m \in ReplyMsg /\ OmsFlow(Run, fwd, Tail(back))
    BY <1>1, OmsOnResponseStep
<1>4. /\ Len(back) >= 1 /\ m = back[1] /\ Len(Tail(back)) = Len(back) - 1 /\ Len(back) \in Nat
      /\ \A i \in 1 .. Len(back) - 1 : Tail(back)[i] = back[i + 1]
      /\ Len(fwd) \in Nat
    BY <1>2, <1>3, Queues
<1>5. ReplyOn(Run, m)
    BY <1>1, <1>4 DEF IInv, Carried, OnWire
<1>6. /\ m.id = held["oms"].id /\ Len(fwd) = 0 /\ Len(Tail(back)) = 0 /\ ~ Replying(Run)
    <2>1. /\ Len(fwd) + Len(back) <= 1
          /\ Replying(Run) => Len(fwd) + Len(back) = 0
          /\ \A i \in 1 .. Len(back) : back[i].id = held["oms"].id
        BY <1>1 DEF IInv, OneOrder
    <2>0. Len(back) >= 1 /\ Len(back) \in Nat /\ Len(fwd) \in Nat
        BY <1>4
    <2> HIDE DEF m, fwd, back
    <2>2. Len(back) = 1 /\ Len(fwd) = 0
        <3>1. Len(fwd) + Len(back) <= 1
            BY <2>1
        <3> QED
            BY <2>0, <3>1, OnlyOne
    <2>3. back[1].id = held["oms"].id
        BY <2>1, <2>2
    <2> QED
        BY <1>4, <2>1, <2>2, <2>3
<1>7. JournalAppend(r)
    BY <1>1 DEF OmsOnResponse, Record
<1>8. type \in {"GatewayAck", "GatewayReject"} /\ (type = "GatewayAck" <=> m.type = "Ack")
    OBVIOUS
<1> HIDE DEF type, m
<1>9. r \in JournalRecord /\ r.type = type /\ r.id = m.id /\ r.run = Run
    BY <1>1, <1>3, <1>8 DEF JournalRecord, ReplyMsg
<1>10. [r EXCEPT !.type = "OrderIntent"] = [type |-> "OrderIntent", id |-> held["oms"].id, run |-> Run]
    BY <1>6
<1> HIDE DEF r
<1>11. AnswerOf(r) \in answers
    <2>1. m \in answers /\ m.run = Run
        BY <1>5 DEF ReplyOn, OrderOn
    <2>2. m = [type |-> m.type, id |-> m.id, run |-> m.run] /\ m.type \in {"Ack", "Reject"}
        BY <1>3 DEF ReplyMsg
    <2>3. AnswerOf(r) = m
        BY <1>8, <1>9, <2>1, <2>2 DEF AnswerOf
    <2> QED  BY <2>1, <2>3
<1>a. /\ missed \subseteq missed'
      /\ \/ /\ journal' = Append(journal, r) /\ missed' = missed
            /\ stream # "bad" /\ stream' = "good"
         \/ /\ journal' = journal /\ (stream # "bad" => Run \in missed')
            /\ stream' = "bad" \/ (stream = "closed" /\ stream' = "closed")
    BY <1>1, <1>7, <1>9, Appends
<1>b. journal' = Append(journal, r) =>
       /\ Len(journal') = Len(journal) + 1 /\ Len(journal) \in Nat
       /\ journal'[Len(journal')] = r
       /\ \A i \in 1 .. Len(journal) : journal'[i] = journal[i]
    BY <1>1, <1>9, Grows
<1>c. \A id, run : Intended(id, run) => IntendedIn(journal', missed', id, run)
    BY <1>1, <1>7, <1>9, StaysIntended
<1>12. OnWire'
    <2>1. ASSUME NEW k \in Start, NEW i \in 1 .. Len(conn'["oms"][k].fwd)
          PROVE  OrderOn(k, conn'["oms"][k].fwd[i])
        BY <1>3, <2>1 DEF OmsFlow, IInv, Carried, OnWire
    <2>2. ASSUME NEW k \in Start, NEW i \in 1 .. Len(conn'["oms"][k].back)
          PROVE  ReplyOn(k, conn'["oms"][k].back[i])
        <3>1. CASE k = Run
            <4>1. conn'["oms"][k].back = Tail(back)
                BY <1>3, <3>1 DEF OmsFlow
            <4>2. Len(conn'["oms"][k].back) = 0
                BY <1>6, <4>1
            <4> HIDE DEF fwd, back
            <4>3. FALSE
                BY <2>2, <4>2
            <4> QED
                BY <4>3
        <3>2. CASE k # Run
            BY <1>3, <2>2, <3>2 DEF OmsFlow, IInv, Carried, OnWire
        <3> QED  BY <3>1, <3>2
    <2> QED
        BY <1>1, <1>c, <2>1, <2>2 DEF OnWire, OrderOn, ReplyOn, Intended
<1>13. InHand'
    BY <1>1, <1>c DEF IInv, Carried, InHand, OrderOn, ReplyOn, Intended
<1>14. AtExchange'
    <2>1. \A o \in exchange' : Intended(o.id, o.run)'
        BY <1>1, <1>c DEF IInv, Carried, AtExchange, Intended
    <2>2. \A i \in 1 .. Len(journal') :
              journal'[i].type # "OrderIntent" => AnswerOf(journal'[i]) \in answers
        BY <1>11, <1>a, <1>b DEF IInv, Carried, AtExchange
    <2> QED
        BY <1>1, <2>1, <2>2 DEF AtExchange, AnswerOf
<1>15. OneOrder'
    BY <1>1, <1>3, <1>6 DEF OneOrder, Replying, OmsFlow
<1>16. JournalEnd'
    <2>1. CASE journal' = Append(journal, r) /\ stream' = "good"
        BY <1>1, <1>8, <1>9, <1>b, <2>1 DEF IInv, JournalEnd
    <2>2. CASE /\ journal' = journal /\ (stream # "bad" => Run \in missed')
               /\ stream' = "bad" \/ (stream = "closed" /\ stream' = "closed")
        BY <1>1, <1>a, <2>2 DEF IInv, JournalEnd, Fresh
    <2> QED  BY <1>a, <2>1, <2>2
<1>17. FailsClosed'
    <2>1. CASE journal' = Append(journal, r) /\ stream # "bad" /\ missed' = missed
        <3>1. \/ Fresh /\ Run \in missed
              \/ /\ Len(journal) > 0 /\ journal[Len(journal)].run = Run
                 /\ journal[Len(journal)] = [r EXCEPT !.type = "OrderIntent"]
            BY <1>1, <1>10, <2>1 DEF IInv, JournalEnd, Types, MemTyped
        <3> DEFINE n == Len(journal)
                   Closed(j, i) ==
                       LET x == j[i]  before == j[i - 1]
                           first == i = 1 \/ before.run < x.run
                       IN  IF x.type = "OrderIntent"
                           THEN first \/ (before.run = x.run /\ before.type # "OrderIntent")
                           ELSE IF first THEN x.run \in missed
                                ELSE before = [x EXCEPT !.type = "OrderIntent"]
        <3>2. n \in Nat /\ Len(journal') = n + 1 /\ journal'[n + 1] = r
              /\ \A i \in 1 .. n : journal'[i] = journal[i]
            BY <1>b, <2>1
        <3>3. \A i \in 1 .. n : Closed(journal, i)
            BY DEF IInv, FailsClosed
        <3>4. ASSUME NEW i \in 1 .. n PROVE Closed(journal', i)
            <4>1. journal'[i] = journal[i] /\ (i # 1 => journal'[i - 1] = journal[i - 1])
                BY <3>2
            <4>2. Closed(journal, i)
                BY <3>3
            <4> QED  BY <4>1, <4>2
        <3>5. Closed(journal', n + 1)
            <4>1. CASE Fresh /\ Run \in missed
                BY <1>1, <1>8, <1>9, <3>2, <4>1 DEF Fresh
            <4>2. CASE /\ Len(journal) > 0 /\ journal[Len(journal)].run = Run
                       /\ journal[Len(journal)] = [r EXCEPT !.type = "OrderIntent"]
                <5>1. journal'[(n + 1) - 1] = journal[n] /\ n + 1 # 1
                    BY <3>2, <4>2
                <5>2. ~ (journal[n].run < r.run)
                    BY <1>1, <1>9, <4>2
                <5> QED
                    BY <1>8, <1>9, <3>2, <4>2, <5>1, <5>2
            <4> QED  BY <3>1, <4>1, <4>2
        <3>6. \A i \in 1 .. Len(journal') : Closed(journal', i)
            <4> HIDE DEF Closed
            <4> QED  BY <3>2, <3>4, <3>5
        <3> QED
            BY <2>1, <3>6 DEF FailsClosed
    <2>2. CASE journal' = journal
        BY <1>a, <2>2 DEF IInv, FailsClosed
    <2> QED  BY <1>a, <2>1, <2>2
<1>18. SimTrue'
    BY <1>1 DEF IInv, SimTrue
<1> QED
    BY <1>12, <1>13, <1>14, <1>15, <1>16, <1>17, <1>18 DEF IInv, Carried

\* The gateway takes an order: the answer it holds is about that order.
LEMMA GatewayOnOrderKeeps ==
    ASSUME IInv, Types', GatewayOnOrder
    PROVE  IInv'
<1> DEFINE a == accepted["gateway"]
           fwd == conn["oms"][a].fwd
           back == conn["oms"][a].back
           m == Head(fwd)
           h == held'["gateway"]
<1>1. /\ Types /\ Run' = Run /\ Run \in Start
      /\ pc'["oms"] = pc["oms"] /\ pc["gateway"] = "serving" /\ pc'["gateway"] = "replying"
      /\ UNCHANGED <<accepted, stream, disk>>
    BY StartInRange DEF IInv, GatewayOnOrder, Types, PcTyped, Run, Node
<1>2. /\ a \in Start /\ fwd # <<>> /\ m \in OrderMsg /\ OmsFlow(a, Tail(fwd), back)
      /\ h \in ReplyMsg /\ held'["oms"] = held["oms"] /\ Order(h) = Order(m)
      /\ exchange \subseteq exchange' /\ exchange' \subseteq exchange \cup {Order(m)}
      /\ answers' = answers \cup {h} /\ (Mode = "sim" => Order(m) \in exchange')
    BY <1>1, GatewayOnOrderStep
<1>3. fwd \in Seq(OrderMsg)
    BY <1>1, <1>2, OmsQueues
<1>4. /\ Len(fwd) >= 1 /\ m = fwd[1] /\ Len(Tail(fwd)) = Len(fwd) - 1 /\ Len(fwd) \in Nat
      /\ \A i \in 1 .. Len(fwd) - 1 : Tail(fwd)[i] = fwd[i + 1]
    BY <1>2, <1>3, Queues
<1>5. OrderOn(a, m)
    BY <1>2, <1>4 DEF IInv, Carried, OnWire
<1> HIDE DEF m, h
<1>6. h.id = m.id /\ h.run = m.run /\ Order(m) = [id |-> m.id, run |-> m.run] /\ m.run = a
    <2>1. Order(h) = [id |-> h.id, run |-> h.run] /\ Order(m) = [id |-> m.id, run |-> m.run]
        BY DEF Order
    <2>2. Order(h).id = h.id /\ Order(h).run = h.run /\ Order(m).id = m.id /\ Order(m).run = m.run
        BY <2>1
    <2> QED
        BY <1>2, <1>5, <2>1, <2>2 DEF OrderOn
<1>7. OnWire'
    <2>1. ASSUME NEW k \in Start, NEW i \in 1 .. Len(conn'["oms"][k].fwd)
          PROVE  OrderOn(k, conn'["oms"][k].fwd[i])
        <3>1. CASE k = a
            <4>1. conn'["oms"][k].fwd = Tail(fwd)
                BY <1>2, <3>1 DEF OmsFlow
            <4>2. conn'["oms"][k].fwd[i] = fwd[i + 1] /\ i + 1 \in 1 .. Len(fwd)
                BY <1>4, <2>1, <4>1
            <4> QED
                BY <1>2, <3>1, <4>2 DEF IInv, Carried, OnWire
        <3>2. CASE k # a
            BY <1>2, <2>1, <3>2 DEF OmsFlow, IInv, Carried, OnWire
        <3> QED  BY <3>1, <3>2
    <2>2. ASSUME NEW k \in Start, NEW i \in 1 .. Len(conn'["oms"][k].back)
          PROVE  ReplyOn(k, conn'["oms"][k].back[i])
        BY <1>2, <2>2 DEF OmsFlow, IInv, Carried, OnWire
    <2> QED
        BY <1>1, <1>2, <2>1, <2>2 DEF OnWire, OrderOn, ReplyOn, Intended
<1>8. InHand'
    <2>1. h.run = a /\ IntendedIn(journal', missed', h.id, a) /\ h \in answers'
        BY <1>1, <1>2, <1>5, <1>6 DEF OrderOn, Intended
    <2>2. pc'["gateway"] = "replying" => ReplyOn(accepted["gateway"], held["gateway"])'
        BY <1>1, <2>1 DEF ReplyOn, OrderOn, Intended, h
    <2>3. (pc["oms"] \in {"sending", "awaiting"} => OrderOn(Run, held["oms"]))'
        BY <1>1, <1>2 DEF IInv, Carried, InHand, OrderOn, Intended
    <2> QED
        BY <2>2, <2>3 DEF InHand
<1>9. AtExchange'
    <2>1. Intended(m.id, m.run)
        BY <1>5, <1>6 DEF OrderOn
    <2>2. \A o \in exchange' : Intended(o.id, o.run)
        BY <1>2, <1>6, <2>1 DEF IInv, Carried, AtExchange
    <2> QED
        BY <1>1, <1>2, <2>2 DEF IInv, Carried, AtExchange, Intended, AnswerOf
<1>10. OneOrder'
    <2>1. Len(conn["oms"][Run].fwd) \in Nat /\ Len(conn["oms"][Run].back) \in Nat
        BY <1>1, OmsQueues, LenProperties
    <2>2. CASE a # Run
        <3>1. ~ Replying(Run)'
            BY <1>1, <2>2 DEF Replying
        <3>2. conn'["oms"][Run'].fwd = conn["oms"][Run].fwd
              /\ conn'["oms"][Run'].back = conn["oms"][Run].back
            BY <1>1, <1>2, <2>2 DEF OmsFlow
        <3> QED
            BY <1>1, <1>2, <3>1, <3>2 DEF IInv, OneOrder
    <2>3. CASE a = Run
        <3>1. pc["oms"] \in {"awaiting", "exited"}
            <4>1. Len(conn["oms"][Run].fwd) >= 1
                BY <1>4, <2>3
            <4>2. pc["oms"] \in {"connecting", "accepting", "serving", "sending"} => Len(conn["oms"][Run].fwd) = 0
                BY DEF IInv, OneOrder
            <4> QED
                BY <2>1, <4>1, <4>2, OmsPlaces DEF IInv
        <3>2. conn'["oms"][Run'].fwd = Tail(fwd) /\ conn'["oms"][Run'].back = back
            BY <1>1, <1>2, <2>3 DEF OmsFlow
        <3>3. CASE pc["oms"] = "exited"
            BY <1>1, <3>3 DEF OneOrder
        <3>4. CASE pc["oms"] = "awaiting"
            <4>1. /\ Len(fwd) + Len(back) <= 1
                  /\ \A i \in 1 .. Len(fwd) : fwd[i].id = held["oms"].id
                BY <2>3, <3>4 DEF IInv, OneOrder
            <4>2. Len(fwd) = 1 /\ Len(back) = 0 /\ Len(Tail(fwd)) = 0
                <5>1. Len(fwd) >= 1 /\ Len(Tail(fwd)) = Len(fwd) - 1 /\ Len(fwd) \in Nat
                    BY <1>4
                <5>2. Len(back) \in Nat
                    BY <2>1, <2>3
                <5>3. Len(fwd) + Len(back) <= 1
                    BY <4>1
                <5> HIDE DEF fwd, back
                <5>4. Len(fwd) = 1 /\ Len(back) = 0
                    BY <5>1, <5>2, <5>3, OnlyOne
                <5> QED
                    BY <5>1, <5>4
            <4>3. m.id = held["oms"].id
                BY <1>4, <4>1, <4>2
            <4>4. /\ Len(conn'["oms"][Run'].fwd) = 0 /\ Len(conn'["oms"][Run'].back) = 0
                  /\ held'["gateway"].id = held'["oms"].id
                BY <1>2, <1>6, <3>2, <4>2, <4>3 DEF h
            <4> QED
                BY <1>1, <3>4, <4>4 DEF OneOrder
        <3> QED  BY <3>1, <3>3, <3>4
    <2> QED  BY <2>2, <2>3
<1>11. JournalEnd' /\ FailsClosed'
    BY <1>1, <1>2 DEF IInv, JournalEnd, Fresh, FailsClosed
<1>12. SimTrue'
    BY <1>2 DEF IInv, SimTrue
<1> QED
    BY <1>7, <1>8, <1>9, <1>10, <1>11, <1>12 DEF IInv, Carried

\* The gateway's answer goes on the connection the order came from.
LEMMA GatewayReplyKeeps ==
    ASSUME IInv, Types', GatewayReply
    PROVE  IInv'
<1> DEFINE a == accepted["gateway"]
           fwd == conn["oms"][a].fwd
           back == conn["oms"][a].back
           m == held["gateway"]
<1>1. /\ Types /\ Run' = Run /\ Run \in Start
      /\ pc'["oms"] = pc["oms"] /\ pc["gateway"] = "replying" /\ pc'["gateway"] = "serving"
      /\ UNCHANGED <<accepted, stream, disk, market>>
    BY StartInRange DEF IInv, GatewayReply, Types, PcTyped, Run, Node
<1>2. /\ a \in Start /\ m \in ReplyMsg /\ held'["oms"] = held["oms"]
      /\ QuietOms \/ OmsFlow(a, fwd, Append(back, m))
    BY <1>1, GatewayReplyStep
<1>3. fwd \in Seq(OrderMsg) /\ back \in Seq(ReplyMsg)
    BY <1>1, <1>2, OmsQueues
<1>4. /\ Len(fwd) \in Nat /\ Len(back) \in Nat /\ Len(Append(back, m)) = Len(back) + 1
      /\ \A i \in 1 .. Len(back) + 1 : Append(back, m)[i] = IF i = Len(back) + 1 THEN m ELSE back[i]
    <2>1. m \in ReplyMsg
        BY <1>2
    <2> HIDE DEF fwd, back, m
    <2> QED
        BY <1>3, <2>1, Queues
<1>5. ReplyOn(a, m)
    BY <1>1 DEF IInv, Carried, InHand
<1>6. CASE QuietOms
    <2>1. Idle
        BY <1>1, <1>2, <1>6 DEF Idle
    <2> QED
        BY <2>1, IdleStep
<1>7. CASE OmsFlow(a, fwd, Append(back, m))
    <2> HIDE DEF m
    <2>1. OnWire'
        <3>1. ASSUME NEW k \in Start, NEW i \in 1 .. Len(conn'["oms"][k].fwd)
              PROVE  OrderOn(k, conn'["oms"][k].fwd[i])
            BY <1>7, <3>1 DEF OmsFlow, IInv, Carried, OnWire
        <3>2. ASSUME NEW k \in Start, NEW i \in 1 .. Len(conn'["oms"][k].back)
              PROVE  ReplyOn(k, conn'["oms"][k].back[i])
            <4>1. CASE k = a
                <5>1. conn'["oms"][k].back = Append(back, m)
                    BY <1>7, <4>1 DEF OmsFlow
                <5>2. conn'["oms"][k].back[i] = m \/ (i \in 1 .. Len(back) /\ conn'["oms"][k].back[i] = back[i])
                    <6>1. i \in 1 .. Len(Append(back, m))
                        BY <3>2, <5>1
                    <6> HIDE DEF fwd, back
                    <6> QED
                        BY <1>4, <5>1, <6>1
                <5> QED
                    BY <1>2, <1>5, <4>1, <5>2 DEF IInv, Carried, OnWire
            <4>2. CASE k # a
                BY <1>7, <3>2, <4>2 DEF OmsFlow, IInv, Carried, OnWire
            <4> QED  BY <4>1, <4>2
        <3> QED
            BY <1>1, <3>1, <3>2 DEF OnWire, OrderOn, ReplyOn, Intended
    <2>2. InHand' /\ AtExchange'
        BY <1>1, <1>2 DEF IInv, Carried, InHand, AtExchange, OrderOn, Intended
    <2>3. OneOrder'
        <3>1. ~ Replying(Run)'
            BY <1>1 DEF Replying
        <3>2. CASE a # Run
            <4>1. conn'["oms"][Run'].fwd = conn["oms"][Run].fwd
                  /\ conn'["oms"][Run'].back = conn["oms"][Run].back
                BY <1>1, <1>7, <3>2 DEF OmsFlow
            <4> QED
                BY <1>1, <1>2, <3>1, <4>1 DEF IInv, OneOrder
        <3>3. CASE a = Run
            <4>1. Replying(Run)
                BY <1>1, <3>3 DEF Replying
            <4>2. pc["oms"] \in {"awaiting", "exited"}
                <5>1. pc["oms"] \in {"connecting", "accepting", "serving", "sending"} => ~ Replying(Run)
                    BY DEF IInv, OneOrder
                <5> QED
                    BY <4>1, <5>1, OmsPlaces DEF IInv
            <4>3. conn'["oms"][Run'].fwd = fwd /\ conn'["oms"][Run'].back = Append(back, m)
                BY <1>1, <1>7, <3>3 DEF OmsFlow
            <4>4. CASE pc["oms"] = "exited"
                BY <1>1, <4>4 DEF OneOrder
            <4>5. CASE pc["oms"] = "awaiting"
                <5>1. Len(fwd) + Len(back) = 0 /\ m.id = held["oms"].id
                    BY <3>3, <4>1, <4>5 DEF IInv, OneOrder, m
                <5>2. Len(fwd) = 0 /\ Len(Append(back, m)) = 1 /\ Append(back, m)[1] = m
                    <6> HIDE DEF fwd, back
                    <6> QED
                        BY <1>4, <5>1
                <5>3. /\ Len(conn'["oms"][Run'].fwd) = 0 /\ Len(conn'["oms"][Run'].back) = 1
                      /\ conn'["oms"][Run'].back[1].id = held'["oms"].id
                    BY <1>2, <4>3, <5>1, <5>2
                <5>4. \A i \in 1 .. 1 : i = 1
                    OBVIOUS
                <5> QED
                    BY <1>1, <3>1, <4>5, <5>3, <5>4 DEF OneOrder
            <4> QED  BY <4>2, <4>4, <4>5
        <3> QED  BY <3>2, <3>3
    <2>4. JournalEnd' /\ FailsClosed' /\ SimTrue'
        BY <1>1, <1>2 DEF IInv, JournalEnd, Fresh, FailsClosed, SimTrue
    <2> QED
        BY <2>1, <2>2, <2>3, <2>4 DEF IInv, Carried
<1> QED  BY <1>2, <1>6, <1>7

\* The invariant at the start: nothing is sent, written or held.
LEMMA InitIInv == Init => IInv
<1> SUFFICES ASSUME Init PROVE IInv
    OBVIOUS
<1>1. Types
    BY InitTypes
<1>2. Run \in Start /\ pc["oms"] = "connecting" /\ pc["gateway"] = "accepting"
      /\ stream = "closed" /\ Len(journal) = 0 /\ exchange = {} /\ answers = {}
    BY <1>1, StartInRange DEF Init, Begin, Run, Types, Node
<1>3. \A k \in Start : conn["oms"][k] = NoConn
    BY Chain DEF Init
<1>4. \A k \in Start : Len(conn["oms"][k].fwd) = 0 /\ Len(conn["oms"][k].back) = 0
    BY <1>3 DEF NoConn
<1>5. Carried
    BY <1>2, <1>4 DEF Carried, OnWire, InHand, AtExchange
<1>6. OneOrder
    BY <1>2, <1>4 DEF OneOrder, Replying
<1>7. JournalEnd /\ FailsClosed /\ SimTrue
    BY <1>2 DEF JournalEnd, Fresh, FailsClosed, SimTrue
<1> QED
    BY <1>1, <1>5, <1>6, <1>7 DEF IInv

\* Every step keeps the invariant.
LEMMA NextIInv == IInv /\ [Next]_vars => IInv'
<1> SUFFICES ASSUME IInv, [Next]_vars PROVE IInv'
    OBVIOUS
<1>1. Types /\ Types'
    BY NextTypes DEF IInv
<1>2. CASE UNCHANGED vars
    BY <1>1, <1>2, IdleSteps, IdleStep
<1>3. CASE Next
    <2>1. CASE \/ \E n \in Node : EndStep(n) \/ (n # "oms" /\ Restart(n))
               \/ \E c \in Client : Connect(c) \/ Break(c)
               \/ \E s \in Servers : Accept(s)
               \/ MdPublish \/ StrategyOnUpdate
        BY <1>1, <2>1, IdleSteps, IdleStep
    <2>2. CASE Restart("oms")
        BY <1>1, <2>2, OmsRestarts
    <2>3. CASE OmsOnSignal
        BY <1>1, <2>3, OmsOnSignalKeeps
    <2>4. CASE OmsSend
        BY <1>1, <2>4, OmsSendKeeps
    <2>5. CASE OmsOnResponse
        BY <1>1, <2>5, OmsOnResponseKeeps
    <2>6. CASE GatewayOnOrder
        BY <1>1, <2>6, GatewayOnOrderKeeps
    <2>7. CASE GatewayReply
        BY <1>1, <2>7, GatewayReplyKeeps
    <2> QED
        BY <1>1, <1>2, <1>3, <2>1, <2>2, <2>3, <2>4, <2>5, <2>6, <2>7, Steps
<1> QED  BY <1>2, <1>3

\* The invariant holds in every reachable state.
LEMMA IInvHolds == Spec => []IInv
BY InitIInv, NextIInv, PTL DEF Spec

\* The orders the journal has a record for, in terms of its records.
LEMMA JournaledIsLogged ==
    ASSUME Types, NEW type, NEW id, NEW run
    PROVE  [id |-> id, run |-> run] \in Journaled(type) <=> Logged(type, id, run)
<1>1. Range(journal) = {journal[i] : i \in 1 .. Len(journal)}
    BY DEF Types, MemTyped, Range
<1>2. \A i \in 1 .. Len(journal) : Order(journal[i]) = [id |-> journal[i].id, run |-> journal[i].run]
    BY DEF Order
<1>3. ASSUME NEW x, NEW y
      PROVE  [id |-> id, run |-> run] = [id |-> x, run |-> y] <=> (id = x /\ run = y)
    <2>1. [id |-> id, run |-> run].id = id /\ [id |-> id, run |-> run].run = run
          /\ [id |-> x, run |-> y].id = x /\ [id |-> x, run |-> y].run = y
        OBVIOUS
    <2> QED
        BY <2>1
<1>4. ASSUME [id |-> id, run |-> run] \in Journaled(type)
      PROVE  Logged(type, id, run)
    <2>1. PICK r \in Range(journal) : r.type = type /\ Order(r) = [id |-> id, run |-> run]
        BY <1>4 DEF Journaled
    <2>2. PICK i \in 1 .. Len(journal) : r = journal[i]
        BY <1>1, <2>1
    <2>3. [id |-> id, run |-> run] = [id |-> journal[i].id, run |-> journal[i].run]
        BY <1>2, <2>1, <2>2
    <2>4. id = journal[i].id /\ run = journal[i].run
        BY <1>3, <2>3
    <2> QED
        BY <2>1, <2>2, <2>4 DEF Logged, LoggedIn
<1>5. ASSUME Logged(type, id, run)
      PROVE  [id |-> id, run |-> run] \in Journaled(type)
    <2>1. PICK i \in 1 .. Len(journal) :
              journal[i].type = type /\ journal[i].id = id /\ journal[i].run = run
        BY <1>5 DEF Logged, LoggedIn
    <2>2. journal[i] \in Range(journal) /\ Order(journal[i]) = [id |-> id, run |-> run]
        BY <1>1, <1>2, <2>1
    <2> QED
        BY <2>1, <2>2 DEF Journaled
<1> QED  BY <1>4, <1>5

\* An order under way has its intent in the journal, or its process missed
\* records.
LEMMA UnderWayIsLogged ==
    ASSUME IInv
    PROVE  \A o \in InTransit : o.run \in missed \/ o \in Journaled("OrderIntent")
<1> DEFINE Fine(o) == o.run \in missed \/ o \in Journaled("OrderIntent")
<1>1. ASSUME NEW k \in Start, NEW m, OrderOn(k, m)
      PROVE  Fine(Order(m))
    <2>1. /\ Order(m) = [id |-> m.id, run |-> m.run] /\ Order(m).run = m.run
          /\ m.run \in missed \/ Logged("OrderIntent", m.id, m.run)
        BY <1>1 DEF Order, OrderOn, Intended, IntendedIn, Logged
    <2> QED
        BY <2>1, JournaledIsLogged DEF IInv
<1> HIDE DEF Fine
<1>2. ASSUME NEW k \in Start, NEW m \in Range(conn["oms"][k].fwd) \cup Range(conn["oms"][k].back)
      PROVE  Fine(Order(m))
    <2> DEFINE fwd == conn["oms"][k].fwd
               back == conn["oms"][k].back
    <2>1. fwd \in Seq(OrderMsg) /\ back \in Seq(ReplyMsg)
        BY OmsQueues DEF IInv
    <2>2. (\E i \in 1 .. Len(fwd) : m = fwd[i]) \/ (\E i \in 1 .. Len(back) : m = back[i])
        BY <1>2, <2>1 DEF Range
    <2>3. OrderOn(k, m)
        BY <2>2 DEF IInv, Carried, OnWire, ReplyOn
    <2> QED
        BY <1>1, <2>3
<1>3. ASSUME held["gateway"] # None
      PROVE  Fine(Order(held["gateway"]))
    <2>1. pc["gateway"] = "replying"
        BY <1>3 DEF IInv, Types, HeldTyped
    <2>2. OrderOn(accepted["gateway"], held["gateway"])
        BY <2>1 DEF IInv, Carried, InHand, ReplyOn
    <2>3. accepted["gateway"] \in Start
        BY <2>1, ServedConn, Chain DEF IInv, Busy
    <2> QED
        BY <1>1, <2>2, <2>3
<1>4. ASSUME NEW o \in InTransit
      PROVE  Fine(o)
    <2>1. \/ \E k \in Start :
                \E m \in Range(conn["oms"][k].fwd) \cup Range(conn["oms"][k].back) : o = Order(m)
          \/ o = Order(held["gateway"]) /\ held["gateway"] # None
        <3> DEFINE sent(k) == {Order(m) : m \in Range(conn["oms"][k].fwd) \cup Range(conn["oms"][k].back)}
                   answer == {Order(m) : m \in {held["gateway"]} \ {None}}
        <3>1. InTransit = (UNION {sent(k) : k \in Start}) \cup answer
            BY DEF InTransit
        <3>2. \A k : o \in sent(k) =>
                  \E m \in Range(conn["oms"][k].fwd) \cup Range(conn["oms"][k].back) : o = Order(m)
            OBVIOUS
        <3>3. o \in answer => o = Order(held["gateway"]) /\ held["gateway"] # None
            OBVIOUS
        <3> HIDE DEF sent, answer
        <3>4. (\E k \in Start : o \in sent(k)) \/ o \in answer
            BY <1>4, <3>1
        <3> QED
            BY <3>2, <3>3, <3>4
    <2> QED
        BY <1>2, <1>3, <2>1
<1> QED
    BY <1>4 DEF Fine

\* An outcome in the journal is an answer of the gateway.
LEMMA OutcomeAnswered ==
    ASSUME IInv, NEW type \in {"GatewayAck", "GatewayReject"}, NEW o \in Journaled(type)
    PROVE  o \in Answered(IF type = "GatewayAck" THEN "Ack" ELSE "Reject")
<1>1. PICK r \in Range(journal) : r.type = type /\ o = Order(r)
    BY DEF Journaled
<1>2. PICK i \in 1 .. Len(journal) : r = journal[i]
    BY <1>1 DEF IInv, Types, MemTyped, Range
<1> DEFINE a == AnswerOf(r)
<1>3. a \in answers
    BY <1>1, <1>2 DEF IInv, Carried, AtExchange
<1>4. a.type = (IF type = "GatewayAck" THEN "Ack" ELSE "Reject") /\ a.id = r.id /\ a.run = r.run
    BY <1>1 DEF AnswerOf
<1> HIDE DEF a
<1>5. o = Order(a)
    BY <1>1, <1>4 DEF Order
<1> QED
    BY <1>3, <1>4, <1>5 DEF Answered

\* However the two nodes crash and come back, whatever of the connections
\* between them is lost and whatever records the journal refuses, the file
\* brackets what happens between OMS and gateway: the intent is on file before
\* the order leaves, unless the process could not write, and an outcome on
\* file is the gateway's answer to that order of that process.
THEOREM JournalBracketsExchange == Spec => []JournalBrackets
<1>1. IInv => JournalBrackets
    <2> SUFFICES ASSUME IInv PROVE JournalBrackets
        OBVIOUS
    <2>1. \A o \in InTransit : o.run \in missed \/ o \in Journaled("OrderIntent")
        BY UnderWayIsLogged
    <2>2. ASSUME NEW o \in exchange
          PROVE  o.run \in missed \/ o \in Journaled("OrderIntent")
        <3>1. o \in [id : Nat, run : Start]
            BY DEF IInv, Types, MemTyped
        <3>2. o = [id |-> o.id, run |-> o.run]
            BY <3>1
        <3>3. o.run \in missed \/ Logged("OrderIntent", o.id, o.run)
            BY DEF IInv, Carried, AtExchange, Intended, IntendedIn, Logged
        <3> QED
            BY <3>2, <3>3, JournaledIsLogged DEF IInv
    <2>3. ASSUME NEW type \in {"GatewayAck", "GatewayReject"}, NEW o \in Journaled(type)
          PROVE  o \in Answered(IF type = "GatewayAck" THEN "Ack" ELSE "Reject")
        BY <2>3, OutcomeAnswered
    <2>4. /\ Journaled("GatewayAck") \subseteq Answered("Ack")
          /\ Journaled("GatewayReject") \subseteq Answered("Reject")
        BY <2>3
    <2> QED
        BY <2>1, <2>2, <2>4 DEF JournalBrackets
<1> QED
    BY <1>1, IInvHolds, PTL

\* Behind the simulated gateway, whose answers are true, an order with a
\* GatewayAck on file is one that the gateway holds.  Behind Kraken's it need
\* not be.
THEOREM SimulatedAckIsHeld ==
    ASSUME Mode = "sim"
    PROVE  Spec => [](Journaled("GatewayAck") \subseteq exchange)
<1>1. IInv => Journaled("GatewayAck") \subseteq exchange
    <2> SUFFICES ASSUME IInv, NEW o \in Journaled("GatewayAck") PROVE o \in exchange
        OBVIOUS
    <2>1. o \in Answered("Ack")
        BY OutcomeAnswered
    <2> QED
        BY <2>1 DEF Answered, IInv, SimTrue
<1> QED
    BY <1>1, IInvHolds, PTL

\* The OMS fails closed: an order whose fate is unknown is the last one of
\* its process, and the outcome recorded behind an intent is that order's
\* although the OMS does not compare the ids, and although records may be
\* refused.
THEOREM ClosedOnFailure == Spec => []FailsClosed
<1>1. IInv => FailsClosed
    BY DEF IInv
<1> QED
    BY <1>1, IInvHolds, PTL
=============================================================================

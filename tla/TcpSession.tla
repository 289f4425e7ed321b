----------------------------- MODULE TcpSession -----------------------------
(***************************************************************************)
(* One TCP connection from an OMS to a gateway at the level of             *)
(* send_envelope and recv_envelope (src/tcp_transport.cpp): a frame is a   *)
(* header and a payload, sent with two calls of send_exact, each of which  *)
(* may take several send()s; the receiver counts bytes and compares the    *)
(* checksum.                                                               *)
(*                                                                         *)
(* Two programs use such a connection.  oms_node and gateway_node: one     *)
(* thread per end, either process may die at any moment.                   *)
(* tcp_transport_demo (demo = TRUE): one process, whose OMS thread starts  *)
(* a second thread that sends heartbeats on the same TcpConnection.        *)
(*                                                                         *)
(* A direction of the connection is the sequence of cells ever written to  *)
(* it: cell 0 of a frame is its header, the others its payload.            *)
(***************************************************************************)
EXTENDS Naturals, Sequences, SequencesExt, FiniteSets

CONSTANTS
    PayloadSize,   \* payload_size_for_type, in cells
    MaxOrders,     \* bound: orders of an OMS node; the demo sends one
    MaxHeartbeats  \* bound: heartbeats before the order is answered

Types  == {"Order", "Heartbeat", "Reply"}
Thread == {"oms", "heartbeat", "gateway"}
Dir    == {"fwd", "back"}  \* to the gateway, to the OMS

ASSUME TcpAssumption ==
    /\ PayloadSize \in [Types -> Nat \ {0}]
    /\ MaxOrders \in Nat \ {0} /\ MaxHeartbeats \in Nat

VARIABLES
    demo,     \* which program
    pc,       \* where each thread is
    out,      \* per thread: payload cells still to be sent
    wire,     \* per direction: the cells written
    begins,   \* per direction: where in wire the frames begin (history)
    pos,      \* per direction: how many of them were read
    got,      \* per direction: what recv_envelope returned
    open,     \* per direction: the socket at its writing end is open
    alive,    \* connection_alive of the demo
    crashed   \* a node process has died

ends  == <<pc, out, open>>
flow  == <<wire, begins, pos, got>>
vars  == <<demo, ends, flow, alive, crashed>>

Frame(type, n) == [type |-> type, n |-> n]
Cell(frame, k) == [frame |-> frame, k |-> k]
Payload(frame) == [k \in 1 .. PayloadSize[frame.type] |-> Cell(frame, k)]

\* The envelope that a frame's bytes decode to when header and payload are
\* not of one frame.
Garbage == Frame("Reply", 0)

\* The frames of a direction, in the order of their headers.
Sent(d) == [i \in 1 .. Len(begins[d]) |-> wire[d][begins[d][i]].frame]

Count(d, type) == Cardinality({i \in 1 .. Len(begins[d]) : Sent(d)[i].type = type})

Init ==
    /\ demo \in BOOLEAN
    /\ pc = [oms |-> "send", heartbeat |-> IF demo THEN "loop" ELSE "ended", gateway |-> "loop"]
    /\ out = [t \in Thread |-> <<>>]
    /\ wire = [d \in Dir |-> <<>>] /\ begins = [d \in Dir |-> <<>>]
    /\ pos = [d \in Dir |-> 0]
    /\ got = [d \in Dir |-> <<>>]
    /\ open = [d \in Dir |-> TRUE]
    /\ alive = TRUE
    /\ crashed = FALSE

-----------------------------------------------------------------------------
(* TcpConnection *)

Writes(t) == IF t = "gateway" THEN "back" ELSE "fwd"
Reads(t)  == IF t = "gateway" THEN "fwd" ELSE "back"

Goto(t, label) == pc' = [pc EXCEPT ![t] = label]

\* send_envelope up to the first send_exact
SendHeader(t, frame) ==
    /\ wire' = [wire EXCEPT ![Writes(t)] = Append(@, Cell(frame, 0))]
    /\ begins' = [begins EXCEPT ![Writes(t)] = Append(@, Len(wire[Writes(t)]) + 1)]
    /\ out' = [out EXCEPT ![t] = Payload(frame)]
    /\ Goto(t, "sending")
    /\ UNCHANGED <<demo, pos, got, open, alive, crashed>>

\* Where the thread goes on once send_envelope has returned true.
SentLabel == [oms |-> "await", heartbeat |-> "loop", gateway |-> "loop"]

\* One send() of the second send_exact, which may take a part only.
SendPayload(t) ==
    /\ pc[t] = "sending"
    /\ \E j \in 1 .. Len(out[t]) :
          /\ wire' = [wire EXCEPT ![Writes(t)] = @ \o SubSeq(out[t], 1, j)]
          /\ out' = [out EXCEPT ![t] = SubSeq(@, j + 1, Len(@))]
          /\ Goto(t, IF j = Len(out[t]) THEN SentLabel[t] ELSE "sending")
    /\ UNCHANGED <<demo, begins, pos, got, open, alive, crashed>>

\* The other end is closed: send() and, at the end of the data or before it
\* (a reset), recv() fail.
Closed(t) == ~open[Reads(t)]

\* The header is there, and as many bytes behind it as it asks for.
Expected(d) ==
    1 + PayloadSize[wire[d][pos[d] + 1].frame.type]

Available(d) ==
    /\ pos[d] < Len(wire[d])
    /\ pos[d] + Expected(d) <= Len(wire[d])

\* Plausible bug: the checksum is not compared.
Intact_NoChecksum(d) == wire[d][pos[d] + 1].k = 0

\* recv_envelope's tests: magic and version, then the payload's checksum.
Intact(d) ==
    LET header == wire[d][pos[d] + 1] IN
    /\ header.k = 0
    /\ \A k \in 1 .. PayloadSize[header.frame.type] :
          wire[d][pos[d] + 1 + k] = Cell(header.frame, k)

Decoded(d) ==
    LET frame == wire[d][pos[d] + 1].frame IN
    IF SubSeq(wire[d], pos[d] + 2, pos[d] + Expected(d)) = Payload(frame) THEN frame ELSE Garbage

\* recv_envelope returns an envelope
Receive(t) ==
    /\ Available(Reads(t)) /\ Intact(Reads(t))
    /\ got' = [got EXCEPT ![Reads(t)] = Append(@, Decoded(Reads(t)))]
    /\ pos' = [pos EXCEPT ![Reads(t)] = @ + Expected(Reads(t))]

\* recv_envelope returns nullopt
Nothing(t) == Closed(t) \/ (Available(Reads(t)) /\ ~Intact(Reads(t)))

\* The process of the thread gives up its end of the connection.
End(t) ==
    /\ Goto(t, "ended")
    /\ out' = [out EXCEPT ![t] = <<>>]
    /\ open' = [open EXCEPT ![Writes(t)] = FALSE]
    /\ UNCHANGED <<demo, flow>>

-----------------------------------------------------------------------------
(* The OMS: oms_client_thread, or the order part of oms_node's loop *)

OmsSend ==
    /\ pc["oms"] = "send"
    /\ Count("fwd", "Order") < MaxOrders
    /\ SendHeader("oms", Frame("Order", Count("fwd", "Order") + 1))

\* Plausible bug: the demo's OMS clears connection_alive as soon as it has
\* sent its order.
OmsReceives_ClearsEarly ==
    /\ pc["oms"] = "await"
    /\ IF demo /\ alive THEN alive' = FALSE /\ UNCHANGED <<pos, got, pc>>
       ELSE Receive("oms") /\ Goto("oms", IF demo THEN "joining" ELSE "send") /\ UNCHANGED alive
    /\ UNCHANGED <<demo, out, wire, begins, open, crashed>>

\* Plausible bug: connection_alive is not cleared before the join.
OmsReceives_KeepsAlive ==
    /\ pc["oms"] = "await"
    /\ Receive("oms")
    /\ Goto("oms", IF demo THEN "joining" ELSE "send")
    /\ UNCHANGED <<demo, out, wire, begins, open, alive, crashed>>

OmsReceives ==
    /\ pc["oms"] = "await"
    /\ Receive("oms")
    /\ IF demo THEN alive' = FALSE /\ Goto("oms", "joining")
               ELSE Goto("oms", "send") /\ UNCHANGED alive
    /\ UNCHANGED <<demo, out, wire, begins, open, crashed>>

\* heartbeat.join() returns, the connection is destroyed
OmsJoins ==
    /\ pc["oms"] = "joining" /\ pc["heartbeat"] = "ended"
    /\ End("oms") /\ UNCHANGED <<alive, crashed>>

\* A failed send or receive.  The node ends; the demo's thread returns with
\* the heartbeat thread unjoined, whose destructor calls std::terminate.
OmsLost ==
    /\ \/ pc["oms"] = "sending" /\ Closed("oms")
       \/ pc["oms"] = "await" /\ Nothing("oms")
    /\ IF demo
       THEN /\ pc' = [t \in Thread |-> IF t = "oms" THEN "terminated" ELSE "ended"]
            /\ out' = [t \in Thread |-> <<>>]
            /\ open' = [d \in Dir |-> FALSE]
            /\ UNCHANGED <<demo, flow>>
       ELSE End("oms")
    /\ UNCHANGED <<alive, crashed>>

\* oms_node: the strategy has disconnected between two orders
OmsQuits ==
    /\ pc["oms"] = "send" /\ ~demo
    /\ End("oms") /\ UNCHANGED <<alive, crashed>>

(* heartbeat_sender_thread *)

Beat ==
    /\ pc["heartbeat"] = "loop" /\ alive
    /\ Count("fwd", "Heartbeat") < MaxHeartbeats
    /\ SendHeader("heartbeat", Frame("Heartbeat", Count("fwd", "Heartbeat") + 1))

\* sleep_for between two heartbeats
HeartbeatSleeps ==
    /\ pc["heartbeat"] = "loop" /\ alive
    /\ UNCHANGED vars

HeartbeatStops ==
    /\ pc["heartbeat"] = "loop" /\ ~alive
    /\ Goto("heartbeat", "ended")
    /\ UNCHANGED <<demo, out, flow, open, alive, crashed>>

\* Plausible bug: what was left of the frame is kept for the next call.
BeatFails_KeepsRest ==
    /\ pc["heartbeat"] = "sending" /\ Closed("heartbeat")
    /\ alive' = FALSE
    /\ Goto("heartbeat", "ended")
    /\ UNCHANGED <<demo, out, flow, open, crashed>>

BeatFails ==
    /\ pc["heartbeat"] = "sending" /\ Closed("heartbeat")
    /\ alive' = FALSE
    /\ out' = [out EXCEPT !["heartbeat"] = <<>>]
    /\ Goto("heartbeat", "ended")
    /\ UNCHANGED <<demo, flow, open, crashed>>

(* The gateway: gateway_server_thread, or gateway_node's loop *)

\* The demo looks at connection_alive before every receive.
GatewayLoop ==
    /\ pc["gateway"] = "loop" /\ (demo => alive)
    /\ Goto("gateway", "recv")
    /\ UNCHANGED <<demo, out, flow, open, alive, crashed>>

GatewayStops ==
    /\ pc["gateway"] = "loop" /\ demo /\ ~alive
    /\ End("gateway") /\ UNCHANGED <<alive, crashed>>

\* A heartbeat is only noted; an order goes to the exchange, which answers.
GatewayReceives ==
    /\ pc["gateway"] = "recv"
    /\ Receive("gateway")
    /\ Goto("gateway", IF Decoded("fwd").type = "Order" THEN "reply" ELSE "loop")
    /\ UNCHANGED <<demo, out, wire, begins, open, alive, crashed>>

GatewayReplies ==
    /\ pc["gateway"] = "reply"
    /\ SendHeader("gateway", Frame("Reply", Last(got["fwd"]).n))

\* The node leaves its loop; the demo ignores the result of the send.
GatewayReplyFails ==
    /\ pc["gateway"] = "sending" /\ Closed("gateway")
    /\ IF demo
       THEN /\ Goto("gateway", "loop")
            /\ out' = [out EXCEPT !["gateway"] = <<>>]
            /\ UNCHANGED <<demo, flow, open>>
       ELSE End("gateway")
    /\ UNCHANGED <<alive, crashed>>

GatewayLost ==
    /\ pc["gateway"] = "recv" /\ Nothing("gateway")
    /\ alive' = (alive /\ ~demo)
    /\ End("gateway") /\ UNCHANGED crashed

-----------------------------------------------------------------------------

Crash(t) ==
    /\ ~demo /\ t # "heartbeat" /\ pc[t] # "ended"
    /\ crashed' = TRUE
    /\ End(t) /\ UNCHANGED alive

AllEnded == \A t \in Thread : pc[t] \in {"ended", "terminated"}

Finished == AllEnded /\ UNCHANGED vars

Oms       == OmsSend \/ SendPayload("oms") \/ OmsReceives \/ OmsJoins \/ OmsLost \/ OmsQuits
Heartbeat == Beat \/ SendPayload("heartbeat") \/ HeartbeatSleeps \/ HeartbeatStops \/ BeatFails
Gateway   == \/ GatewayLoop \/ GatewayStops \/ GatewayReceives \/ GatewayReplies
             \/ SendPayload("gateway") \/ GatewayReplyFails \/ GatewayLost

Next == Oms \/ Heartbeat \/ Gateway \/ Finished \/ \E t \in Thread : Crash(t)

Spec == Init /\ [][Next]_vars

\* Each thread runs; a socket delivers what was written and reports that its
\* other end is closed.  No process is assumed to die.
Fairness == WF_vars(Oms) /\ WF_vars(Heartbeat) /\ WF_vars(Gateway)

FairSpec == Spec /\ Fairness

-----------------------------------------------------------------------------
(* Properties *)

\* Every variable has its type; a thread has bytes left to send exactly while
\* it is inside send_envelope, and nothing is read that was not written.
TypeOK ==
    /\ demo \in BOOLEAN /\ alive \in BOOLEAN /\ crashed \in BOOLEAN
    /\ open \in [Dir -> BOOLEAN]
    /\ pc \in [Thread -> {"send", "sending", "await", "joining", "loop", "recv", "reply",
                          "ended", "terminated"}]
    /\ \A t \in Thread : out[t] # <<>> <=> pc[t] = "sending"
    /\ \A d \in Dir : pos[d] \in 0 .. Len(wire[d])

Forward == INSTANCE MessageChannel
              WITH sent <- Sent("fwd"), got <- got["fwd"], failed <- (pc["gateway"] = "ended")

Back == INSTANCE MessageChannel
           WITH sent <- Sent("back"), got <- got["back"],
                failed <- (pc["oms"] \in {"joining", "ended", "terminated"})

\* send_envelope and recv_envelope implement a message channel in both
\* directions, also when two threads mix their frames on one connection, when
\* a process dies inside a frame, and however send() splits the payload: no
\* envelope is delivered that was not sent as it is, none twice, none out of
\* order, and none after a failed receive.
RefinesChannel == Forward!Spec /\ Back!Spec

\* The cells of every frame are next to each other.
Contiguous(w) ==
    \A i \in 1 .. Len(w) - 1 :
        IF w[i].k < PayloadSize[w[i].frame.type]
        THEN w[i + 1] = Cell(w[i].frame, w[i].k + 1)
        ELSE w[i + 1].k = 0

\* Frames mixed by the two threads are the only thing that keeps a session
\* without crashes from answering an order: when it is over, every order was
\* answered, by its own reply, exactly if no two frames were mixed, and only
\* if they were has the demo ended in std::terminate.
AnsweredUnlessMixed ==
    AllEnded /\ ~crashed =>
        /\ Contiguous(wire["fwd"]) <=>
              got["back"] = [n \in 1 .. Count("fwd", "Order") |-> Frame("Reply", n)]
        /\ pc["oms"] = "terminated" <=> ~Contiguous(wire["fwd"])

\* Every thread of both programs ends, whoever dies or mixes frames with
\* whom: nobody waits for bytes, for a flag or for a thread for ever.
SessionEnds == <>AllEnded
=============================================================================

----------------------- MODULE TradingPipelineProofs -----------------------
(***************************************************************************)
(* Proofs about TradingPipeline for every set of quotes, every risk limit, *)
(* every queue size and every length of the run.                           *)
(*                                                                         *)
(* The argument: an order passes four places, oHeld, the queue to the      *)
(* gateway, gHeld and the queue back, and nothing overtakes (IdOrder).  So *)
(* the order a thread takes off a queue is in no other place, is older     *)
(* than all behind it and newer than every outcome in the journal, which   *)
(* is what live_orders_ (LiveKnows), the journal (JournalKnows), the drop  *)
(* counters (OrdersAccounted) and the exchange (ExchangeOrder) need.       *)
(* Prices: each place holds sources no newer than the place before it, and *)
(* TopOfBook::apply never goes back (SrcOrder).                            *)
(***************************************************************************)
EXTENDS TradingPipeline, SequenceTheorems, FiniteSetTheorems, TLAPS

Update    == [seq : Nat, bid : Int, ask : Int]
Signal    == [side : {"Buy", "none"}, px : Int, qty : Int]
SignalMsg == [signal : Signal, src : Nat]
Order     == [type : {"NewOrder"}, id : Nat, src : Nat]
Response  == [type : {"Ack", "Reject"}, id : Nat]
Resting   == [id : Nat, exchId : Nat, src : Nat]
Entry     == [type : {"OrderIntent", "GatewayAck", "GatewayReject"}, id : Nat]

Message == Update \cup SignalMsg \cup Order \cup Response

\* The four queues, in the direction of flow.
Updates   == bus["market_to_strategy"]
Signals   == bus["strategy_to_oms"]
Orders    == bus["oms_to_gateway"]
Responses == bus["gateway_to_oms"]

\* Steps that move no message: polling, the operator, shutdown.
Idle ==
    \/ FeedEnds \/ OmsNoSignal \/ OmsNoResponse \/ SetAvailable \/ Stop
    \/ MdStops \/ StrategyStops \/ OmsStops \/ GatewayStops \/ Joined

Types ==
    /\ TypeOK
    /\ DOMAIN bus = Queues /\ dropped \in [Queues -> Nat]
    /\ Updates \in Seq(Update) /\ Signals \in Seq(SignalMsg)
    /\ Orders \in Seq(Order) /\ Responses \in Seq(Response)
    /\ book \in Update /\ sHeld \in Signal
    /\ oHeld \in Order \cup {None} /\ (oHeld # None <=> oPc = "send")
    /\ gHeld \in Response \cup {None} /\ (gHeld # None <=> gPc = "send")
    /\ nextId \in Nat \ {0} /\ nextExchId \in Nat
    /\ exchange \subseteq Resting
    /\ journal \in Seq(Entry)

-----------------------------------------------------------------------------
(* Sequences as sets of messages, and their order *)

Elem(s) == {s[k] : k \in 1 .. Len(s)}

IdsRise(s)  == \A j, k \in 1 .. Len(s) : j < k => s[j].id < s[k].id
SrcsRise(s) == \A j, k \in 1 .. Len(s) : j < k => s[j].src <= s[k].src

\* What the end of a queue does to its contents ...
LEMMA ElemAppend ==
    ASSUME NEW T, NEW s \in Seq(T), NEW m \in T
    PROVE  /\ Append(s, m) \in Seq(T)
           /\ Len(Append(s, m)) = Len(s) + 1
           /\ Elem(Append(s, m)) = Elem(s) \cup {m}
<1> DEFINE t == Append(s, m)
<1>1. /\ t \in Seq(T) /\ Len(t) = Len(s) + 1 /\ Len(s) \in Nat
      /\ \A k \in 1 .. Len(s) : t[k] = s[k]
      /\ t[Len(s) + 1] = m
    BY AppendProperties
<1> HIDE DEF t
<1>2. Elem(t) = Elem(s) \cup {m}
    BY <1>1 DEF Elem
<1> QED
    BY <1>1, <1>2 DEF t

\* ... and what its front does.
LEMMA ElemTail ==
    ASSUME NEW T, NEW s \in Seq(T), s # <<>>
    PROVE  /\ Tail(s) \in Seq(T) /\ Head(s) \in T
           /\ Len(Tail(s)) = Len(s) - 1
           /\ Elem(s) = Elem(Tail(s)) \cup {Head(s)}
<1> DEFINE t == Tail(s)
<1>1. /\ t \in Seq(T) /\ Len(t) = Len(s) - 1 /\ Len(s) \in Nat \ {0}
      /\ \A k \in 1 .. Len(t) : t[k] = s[k + 1]
      /\ Head(s) = s[1] /\ Head(s) \in T
    BY HeadTailProperties
<1> HIDE DEF t
<1>2. Elem(s) \subseteq Elem(t) \cup {Head(s)}
    <2> SUFFICES ASSUME NEW k \in 1 .. Len(s), k # 1 PROVE s[k] \in Elem(t)
        BY <1>1 DEF Elem
    <2>1. k - 1 \in 1 .. Len(t) /\ s[k] = t[k - 1]
        BY <1>1
    <2> QED
        BY <2>1 DEF Elem
<1>3. Elem(t) \cup {Head(s)} \subseteq Elem(s)
    BY <1>1 DEF Elem
<1> QED
    BY <1>1, <1>2, <1>3 DEF t

\* Appending a newer id keeps the ids of a queue rising.
LEMMA IdsAppend ==
    ASSUME NEW T, NEW s \in Seq(T), NEW m \in T, IdsRise(s),
           \A x \in Elem(s) : x.id < m.id
    PROVE  IdsRise(Append(s, m))
<1> DEFINE t == Append(s, m)
<1>1. /\ Len(t) = Len(s) + 1 /\ Len(s) \in Nat
      /\ \A k \in 1 .. Len(s) : t[k] = s[k]
      /\ t[Len(s) + 1] = m
    BY AppendProperties
<1> HIDE DEF t
<1>2. ASSUME NEW j \in 1 .. Len(t), NEW k \in 1 .. Len(t), j < k
      PROVE  t[j].id < t[k].id
    <2>1. j \in 1 .. Len(s) /\ t[j] = s[j] /\ s[j] \in Elem(s)
        BY <1>1, <1>2 DEF Elem
    <2>2. CASE k \in 1 .. Len(s)
        BY <1>1, <1>2, <2>1, <2>2 DEF IdsRise
    <2>3. CASE k = Len(s) + 1
        BY <1>1, <2>1, <2>3
    <2> QED
        BY <1>1, <2>2, <2>3
<1> QED
    BY <1>2 DEF IdsRise, t

\* Without its front the ids of a queue still rise, and the front was the
\* oldest.
LEMMA IdsTail ==
    ASSUME NEW T, NEW s \in Seq(T), s # <<>>, IdsRise(s)
    PROVE  /\ IdsRise(Tail(s))
           /\ \A x \in Elem(Tail(s)) : Head(s).id < x.id
<1> DEFINE t == Tail(s)
<1>1. /\ Len(t) = Len(s) - 1 /\ Len(s) \in Nat \ {0}
      /\ \A k \in 1 .. Len(t) : t[k] = s[k + 1]
      /\ Head(s) = s[1]
    BY HeadTailProperties
<1> HIDE DEF t
<1>2. IdsRise(t)
    BY <1>1 DEF IdsRise
<1>3. ASSUME NEW k \in 1 .. Len(t) PROVE Head(s).id < t[k].id
    BY <1>1 DEF IdsRise
<1> QED
    BY <1>2, <1>3 DEF t, Elem

\* The same for the sources of signals and orders, which may repeat.
LEMMA SrcsAppend ==
    ASSUME NEW T, NEW s \in Seq(T), NEW m \in T, SrcsRise(s),
           \A x \in Elem(s) : x.src <= m.src
    PROVE  SrcsRise(Append(s, m))
<1> DEFINE t == Append(s, m)
<1>1. /\ Len(t) = Len(s) + 1 /\ Len(s) \in Nat
      /\ \A k \in 1 .. Len(s) : t[k] = s[k]
      /\ t[Len(s) + 1] = m
    BY AppendProperties
<1> HIDE DEF t
<1>2. ASSUME NEW j \in 1 .. Len(t), NEW k \in 1 .. Len(t), j < k
      PROVE  t[j].src <= t[k].src
    <2>1. j \in 1 .. Len(s) /\ t[j] = s[j] /\ s[j] \in Elem(s)
        BY <1>1, <1>2 DEF Elem
    <2>2. CASE k \in 1 .. Len(s)
        BY <1>1, <1>2, <2>1, <2>2 DEF SrcsRise
    <2>3. CASE k = Len(s) + 1
        BY <1>1, <2>1, <2>3
    <2> QED
        BY <1>1, <2>2, <2>3
<1> QED
    BY <1>2 DEF SrcsRise, t

\* Without its front the sources still do not fall, and none is older than
\* the front's.
LEMMA SrcsTail ==
    ASSUME NEW T, NEW s \in Seq(T), s # <<>>, SrcsRise(s)
    PROVE  /\ SrcsRise(Tail(s))
           /\ \A x \in Elem(Tail(s)) : Head(s).src <= x.src
<1> DEFINE t == Tail(s)
<1>1. /\ Len(t) = Len(s) - 1 /\ Len(s) \in Nat \ {0}
      /\ \A k \in 1 .. Len(t) : t[k] = s[k + 1]
      /\ Head(s) = s[1]
    BY HeadTailProperties
<1> HIDE DEF t
<1>2. SrcsRise(t)
    BY <1>1 DEF SrcsRise
<1>3. ASSUME NEW k \in 1 .. Len(t) PROVE Head(s).src <= t[k].src
    BY <1>1 DEF SrcsRise
<1> QED
    BY <1>2, <1>3 DEF t, Elem

-----------------------------------------------------------------------------
(* Types *)

\* A bounded push touches its own queue only: the message is at its end, or
\* counted.
LEMMA PushEffect ==
    ASSUME Types, NEW q \in Queues, NEW T, bus[q] \in Seq(T), NEW m \in T,
           Push(q, m)
    PROVE  /\ DOMAIN bus' = Queues /\ dropped' \in [Queues -> Nat]
           /\ \A p \in Queues \ {q} : bus'[p] = bus[p] /\ dropped'[p] = dropped[p]
           /\ bus'[q] \in Seq(T)
           /\ \A p \in Queues : Len(bus'[p]) <= Room
           /\ \/ bus'[q] = Append(bus[q], m) /\ dropped'[q] = dropped[q]
              \/ bus'[q] = bus[q] /\ dropped'[q] = dropped[q] + 1
<1>0. /\ DOMAIN bus = Queues /\ dropped \in [Queues -> Nat] /\ Room \in Nat
      /\ \A p \in Queues : Len(bus[p]) <= Room
    BY PipelineAssumption DEF Types, TypeOK
<1>1. CASE Len(bus[q]) < Room
    <2>1. bus' = [bus EXCEPT ![q] = Append(bus[q], m)] /\ dropped' = dropped
        BY <1>1 DEF Push
    <2>2. /\ bus'[q] = Append(bus[q], m) /\ DOMAIN bus' = Queues
          /\ \A p \in Queues \ {q} : bus'[p] = bus[p]
        BY <1>0, <2>1
    <2>3. bus'[q] \in Seq(T) /\ Len(bus'[q]) = Len(bus[q]) + 1 /\ Len(bus[q]) \in Nat
        BY <2>2, ElemAppend
    <2> QED
        BY <1>0, <1>1, <2>1, <2>2, <2>3
<1>2. CASE ~ (Len(bus[q]) < Room)
    BY <1>0, <1>2 DEF Push
<1> QED
    BY <1>1, <1>2

\* A pop touches its own queue only and removes the front.
LEMMA PopEffect ==
    ASSUME Types, NEW q \in Queues, NEW T, bus[q] \in Seq(T), Pop(q)
    PROVE  /\ DOMAIN bus' = Queues /\ dropped' = dropped
           /\ \A p \in Queues \ {q} : bus'[p] = bus[p]
           /\ bus'[q] \in Seq(T)
           /\ \A p \in Queues : Len(bus'[p]) <= Room
           /\ bus[q] # <<>> /\ bus'[q] = Tail(bus[q]) /\ Head(bus[q]) \in T
<1>0. /\ DOMAIN bus = Queues /\ Room \in Nat
      /\ \A p \in Queues : Len(bus[p]) <= Room
    BY PipelineAssumption DEF Types, TypeOK
<1>1. /\ bus[q] # <<>> /\ dropped' = dropped
      /\ bus' = [bus EXCEPT ![q] = Tail(bus[q])]
    BY DEF Pop
<1>2. /\ bus'[q] = Tail(bus[q]) /\ DOMAIN bus' = Queues
      /\ \A p \in Queues \ {q} : bus'[p] = bus[p]
    BY <1>0, <1>1
<1>3. /\ bus'[q] \in Seq(T) /\ Head(bus[q]) \in T
      /\ Len(bus'[q]) = Len(bus[q]) - 1 /\ Len(bus[q]) \in Nat
    BY <1>1, <1>2, ElemTail
<1> QED
    BY <1>0, <1>1, <1>2, <1>3

\* TopOfBook and the strategy stay within their types; an update never takes
\* the book back.
LEMMA CoreTypes ==
    ASSUME NEW b \in Update, NEW u \in Update
    PROVE  /\ BookApply(b, u) \in Update
           /\ b.seq <= BookApply(b, u).seq
           /\ OnMarketData(b) \in Signal
<1>1. BookApply(b, u) \in Update
    BY DEF BookApply
<1>2. b.seq <= BookApply(b, u).seq
    <2>1. b.seq \in Nat /\ u.seq \in Nat
        BY DEF Update
    <2>2. b = NoBook => b.seq = 0
        BY DEF NoBook
    <2> QED
        BY <2>1, <2>2 DEF BookApply
<1>3. OnMarketData(b) \in Signal
    <2>1. [side |-> "Buy", px |-> b.bid + 1, qty |-> 1] \in Signal
        BY DEF Update, Signal
    <2>2. NoSignal \in Signal
        BY DEF NoSignal, Signal
    <2> QED
        BY <2>1, <2>2 DEF OnMarketData
<1> QED
    BY <1>1, <1>2, <1>3

\* JournalWriter::append leaves the journal alone or appends the record.
LEMMA JournalEffect ==
    ASSUME journal \in Seq(Entry), journalOk \in BOOLEAN,
           NEW type \in {"OrderIntent", "GatewayAck", "GatewayReject"},
           NEW id \in Nat, JournalAppend(type, id)
    PROVE  /\ journalOk' \in BOOLEAN /\ (journalOk' => journalOk)
           /\ [type |-> type, id |-> id] \in Entry
           /\ \/ /\ journal' = Append(journal, [type |-> type, id |-> id])
                 /\ journalOk /\ journalOk'
              \/ journal' = journal /\ ~journalOk'
           /\ journal' \in Seq(Entry)
<1>1. [type |-> type, id |-> id] \in Entry
    BY DEF Entry
<1>2. Append(journal, [type |-> type, id |-> id]) \in Seq(Entry)
    BY <1>1, ElemAppend
<1> QED
    BY <1>1, <1>2 DEF JournalAppend

\* A journal of entries has entries at every place.
LEMMA EntryTypes ==
    ASSUME NEW j \in Seq(Entry)
    PROVE  \A k \in 1 .. Len(j) :
              /\ j[k].type \in {"OrderIntent", "GatewayAck", "GatewayReject"}
              /\ j[k].id \in Nat
<1> SUFFICES ASSUME NEW k \in 1 .. Len(j)
             PROVE  /\ j[k].type \in {"OrderIntent", "GatewayAck", "GatewayReject"}
                    /\ j[k].id \in Nat
    OBVIOUS
<1>1. j[k] \in Entry
    OBVIOUS
<1> QED
    BY <1>1 DEF Entry

\* None is not a message.
LEMMA NoneIsNone ==
    /\ None \notin Order /\ None \notin Response
    /\ \A m \in Order \cup Response : m # None
BY DEF None, Order, Response

\* The types hold when the threads start.
LEMMA InitTypes == Init => Types
<1> SUFFICES ASSUME Init PROVE Types
    OBVIOUS
<1> USE DEF Init
<1>1. /\ DOMAIN bus = Queues /\ dropped \in [Queues -> Nat]
      /\ \A q \in Queues : bus[q] = <<>> /\ dropped[q] = 0
    OBVIOUS
<1>2. Updates = <<>> /\ Signals = <<>> /\ Orders = <<>> /\ Responses = <<>>
    BY <1>1 DEF Updates, Signals, Orders, Responses, Queues
<1>3. TypeOK
    BY <1>1, PipelineAssumption DEF TypeOK
<1>4. book \in Update /\ sHeld \in Signal
    BY DEF NoBook, NoSignal, Update, Signal
<1> QED
    BY <1>1, <1>2, <1>3, <1>4 DEF Types

\* Every step of every thread keeps the types.
LEMMA NextTypes ==
    ASSUME Types, [Next]_vars
    PROVE  Types'
<1> USE DEF Types
<1>a. /\ "market_to_strategy" \in Queues /\ "strategy_to_oms" \in Queues
      /\ "oms_to_gateway" \in Queues /\ "gateway_to_oms" \in Queues
      /\ "market_to_strategy" # "strategy_to_oms"
      /\ "market_to_strategy" # "oms_to_gateway"
      /\ "market_to_strategy" # "gateway_to_oms"
      /\ "strategy_to_oms" # "oms_to_gateway"
      /\ "strategy_to_oms" # "gateway_to_oms"
      /\ "oms_to_gateway" # "gateway_to_oms"
    BY DEF Queues
<1>1. CASE PublishQuote
    <2>1. PICK q \in Quotes, x \in ExchangeSequences :
              Push("market_to_strategy", [seq |-> x, bid |-> q[1], ask |-> q[2]])
        BY <1>1 DEF PublishQuote
    <2>2. x \in Nat
        BY DEF ExchangeSequences, TypeOK
    <2> DEFINE m == [seq |-> x, bid |-> q[1], ask |-> q[2]]
    <2>3. m \in Update
        BY <2>2, PipelineAssumption DEF Update
    <2> HIDE DEF m
    <2>4. Push("market_to_strategy", m)
        BY <2>1 DEF m
    <2>5. /\ DOMAIN bus' = Queues /\ dropped' \in [Queues -> Nat]
          /\ \A p \in Queues \ {"market_to_strategy"} : bus'[p] = bus[p]
          /\ bus'["market_to_strategy"] \in Seq(Update)
          /\ \A p \in Queues : Len(bus'[p]) <= Room
        BY <1>a, <2>3, <2>4, PushEffect DEF Updates
    <2>6. TypeOK'
        BY <1>1, <2>5, PipelineAssumption DEF TypeOK, PublishQuote, sVars, oVars, gVars
    <2> QED
        BY <1>1, <1>a, <2>5, <2>6 DEF PublishQuote, sVars, oVars, gVars,
            Updates, Signals, Orders, Responses
<1>2. CASE StrategyOnUpdate
    <2>1. /\ DOMAIN bus' = Queues /\ dropped' = dropped
          /\ \A p \in Queues \ {"market_to_strategy"} : bus'[p] = bus[p]
          /\ bus'["market_to_strategy"] \in Seq(Update)
          /\ \A p \in Queues : Len(bus'[p]) <= Room
          /\ Head(bus["market_to_strategy"]) \in Update
        BY <1>a, <1>2, PopEffect DEF Updates, StrategyOnUpdate
    <2>2. book' \in Update
        BY <1>2, <2>1, CoreTypes DEF StrategyOnUpdate
    <2>3. OnMarketData(book') \in Signal
        BY <2>2, CoreTypes
    <2>4. sHeld' \in Signal /\ sPc' \in {"loop", "send", "stopped"}
        BY <1>2, <2>3 DEF StrategyOnUpdate, TypeOK
    <2>5. TypeOK'
        BY <1>2, <2>1, <2>4 DEF TypeOK, StrategyOnUpdate, mdVars, oVars, gVars
    <2> QED
        BY <1>2, <1>a, <2>1, <2>2, <2>4, <2>5 DEF StrategyOnUpdate, mdVars, oVars,
            gVars, Updates, Signals, Orders, Responses
<1>3. CASE StrategySend
    <2> DEFINE m == [signal |-> sHeld, src |-> book.seq]
    <2>1. m \in SignalMsg
        BY DEF Update, SignalMsg
    <2> HIDE DEF m
    <2>2. Push("strategy_to_oms", m)
        BY <1>3 DEF StrategySend, m
    <2>3. /\ DOMAIN bus' = Queues /\ dropped' \in [Queues -> Nat]
          /\ \A p \in Queues \ {"strategy_to_oms"} : bus'[p] = bus[p]
          /\ bus'["strategy_to_oms"] \in Seq(SignalMsg)
          /\ \A p \in Queues : Len(bus'[p]) <= Room
        BY <1>a, <2>1, <2>2, PushEffect DEF Signals
    <2>4. sHeld' \in Signal /\ sPc' \in {"loop", "send", "stopped"}
        BY <1>3 DEF StrategySend, NoSignal, Signal
    <2>5. TypeOK'
        BY <1>3, <2>3, <2>4 DEF TypeOK, StrategySend, mdVars, oVars, gVars
    <2> QED
        BY <1>3, <1>a, <2>3, <2>4, <2>5 DEF StrategySend, mdVars, oVars,
            gVars, Updates, Signals, Orders, Responses
<1>4. CASE OmsOnSignal
    <2>1. /\ DOMAIN bus' = Queues /\ dropped' = dropped
          /\ \A p \in Queues \ {"strategy_to_oms"} : bus'[p] = bus[p]
          /\ bus'["strategy_to_oms"] \in Seq(SignalMsg)
          /\ \A p \in Queues : Len(bus'[p]) <= Room
          /\ Head(bus["strategy_to_oms"]) \in SignalMsg
        BY <1>a, <1>4, PopEffect DEF Signals, OmsOnSignal
    <2> DEFINE m == Head(bus["strategy_to_oms"])
               order == [type |-> "NewOrder", id |-> nextId, src |-> m.src]
    <2>2. order \in Order /\ order # None
        <3>1. m.src \in Nat
            BY <2>1 DEF SignalMsg
        <3> QED
            BY <3>1, NoneIsNone DEF Order
    <2>3. /\ nextId' = nextId + 1
          /\ \/ /\ live' = live \cup {nextId}
                /\ JournalAppend("OrderIntent", nextId)
                /\ oHeld' = order /\ oPc' = "send"
             \/ /\ oPc' = "response"
                /\ UNCHANGED <<live, journal, journalOk, oHeld>>
        BY <1>4 DEF OmsOnSignal, ClientOrderId
    <2> HIDE DEF order
    <2>4. journal' \in Seq(Entry) /\ journalOk' \in BOOLEAN
        BY <2>3, JournalEffect DEF TypeOK
    <2>5. oHeld = None
        BY <1>4 DEF OmsOnSignal
    <2>6. live' \subseteq 1 .. nextId' - 1
        <3>1. live' \subseteq live \cup {nextId} /\ nextId' = nextId + 1
            BY <2>3
        <3>2. live \subseteq 1 .. nextId - 1 /\ nextId \in Nat \ {0}
            BY DEF TypeOK
        <3> QED
            BY <3>1, <3>2
    <2>7. \A k \in 1 .. Len(journal') :
             journal'[k].type \in {"OrderIntent", "GatewayAck", "GatewayReject"}
        BY <2>4, EntryTypes
    <2>8. TypeOK'
        BY <1>4, <2>1, <2>3, <2>4, <2>6, <2>7 DEF TypeOK, OmsOnSignal, mdVars, sVars, gVars
    <2>9. oHeld' \in Order \cup {None} /\ (oHeld' # None <=> oPc' = "send")
        BY <2>2, <2>3, <2>5
    <2>10. nextId' \in Nat \ {0}
        BY <2>3
    <2> QED
        BY <1>4, <1>a, <2>1, <2>4, <2>8, <2>9, <2>10
           DEF OmsOnSignal, mdVars, sVars, gVars, Updates, Signals, Orders, Responses
<1>5. CASE OmsSend
    <2>1. oHeld \in Order /\ Push("oms_to_gateway", oHeld)
        BY <1>5 DEF OmsSend
    <2>2. /\ DOMAIN bus' = Queues /\ dropped' \in [Queues -> Nat]
          /\ \A p \in Queues \ {"oms_to_gateway"} : bus'[p] = bus[p]
          /\ bus'["oms_to_gateway"] \in Seq(Order)
          /\ \A p \in Queues : Len(bus'[p]) <= Room
        BY <1>a, <2>1, PushEffect DEF Orders
    <2>3. TypeOK'
        BY <1>5, <2>2 DEF TypeOK, OmsSend, mdVars, sVars, gVars
    <2> QED
        BY <1>5, <1>a, <2>2, <2>3 DEF OmsSend, mdVars, sVars, gVars,
            Updates, Signals, Orders, Responses
<1>6. CASE OmsOnResponse
    <2>1. /\ DOMAIN bus' = Queues /\ dropped' = dropped
          /\ \A p \in Queues \ {"gateway_to_oms"} : bus'[p] = bus[p]
          /\ bus'["gateway_to_oms"] \in Seq(Response)
          /\ \A p \in Queues : Len(bus'[p]) <= Room
          /\ Head(bus["gateway_to_oms"]) \in Response
        BY <1>a, <1>6, PopEffect DEF Responses, OmsOnResponse
    <2> DEFINE r == Head(bus["gateway_to_oms"])
    <2>2. r.id \in Nat
        BY <2>1 DEF Response
    <2>3. /\ \/ JournalAppend("GatewayAck", r.id) \/ JournalAppend("GatewayReject", r.id)
          /\ live' \subseteq live
        BY <1>6 DEF OmsOnResponse, LiveAfter
    <2>4. journal' \in Seq(Entry) /\ journalOk' \in BOOLEAN
        BY <2>2, <2>3, JournalEffect DEF TypeOK
    <2>5. \A k \in 1 .. Len(journal') :
             journal'[k].type \in {"OrderIntent", "GatewayAck", "GatewayReject"}
        BY <2>4, EntryTypes
    <2>6. TypeOK'
        BY <1>6, <2>1, <2>3, <2>4, <2>5 DEF TypeOK, OmsOnResponse, mdVars, sVars, gVars
    <2> QED
        BY <1>6, <1>a, <2>1, <2>4, <2>6 DEF OmsOnResponse, mdVars, sVars,
            gVars, Updates, Signals, Orders, Responses
<1>7. CASE GatewaySendOrder
    <2>1. /\ DOMAIN bus' = Queues /\ dropped' = dropped
          /\ \A p \in Queues \ {"oms_to_gateway"} : bus'[p] = bus[p]
          /\ bus'["oms_to_gateway"] \in Seq(Order)
          /\ \A p \in Queues : Len(bus'[p]) <= Room
          /\ Head(bus["oms_to_gateway"]) \in Order
        BY <1>a, <1>7, PopEffect DEF Orders, GatewaySendOrder
    <2> DEFINE order == Head(bus["oms_to_gateway"])
    <2>2. order.id \in Nat /\ order.src \in Nat
        BY <2>1 DEF Order
    <2>3. /\ [type |-> "Ack", id |-> order.id] \in Response
          /\ [type |-> "Reject", id |-> order.id] \in Response
          /\ [id |-> order.id, exchId |-> nextExchId, src |-> order.src] \in Resting
        BY <2>2 DEF Response, Resting
    <2>4. gHeld' \in Response /\ gHeld' # None
        BY <1>7, <2>3, NoneIsNone DEF GatewaySendOrder
    <2>5. exchange' \subseteq Resting /\ nextExchId' \in Nat
        BY <1>7, <2>3 DEF GatewaySendOrder
    <2>6. TypeOK'
        BY <1>7, <2>1 DEF TypeOK, GatewaySendOrder, mdVars, sVars, oVars
    <2> QED
        BY <1>7, <1>a, <2>1, <2>4, <2>5, <2>6 DEF GatewaySendOrder, mdVars, sVars,
            oVars, Updates, Signals, Orders, Responses
<1>8. CASE GatewayRespond
    <2>1. gHeld \in Response /\ Push("gateway_to_oms", gHeld)
        BY <1>8 DEF GatewayRespond
    <2>2. /\ DOMAIN bus' = Queues /\ dropped' \in [Queues -> Nat]
          /\ \A p \in Queues \ {"gateway_to_oms"} : bus'[p] = bus[p]
          /\ bus'["gateway_to_oms"] \in Seq(Response)
          /\ \A p \in Queues : Len(bus'[p]) <= Room
        BY <1>a, <2>1, PushEffect DEF Responses
    <2>3. TypeOK'
        BY <1>8, <2>2 DEF TypeOK, GatewayRespond, mdVars, sVars, oVars
    <2> QED
        BY <1>8, <1>a, <2>2, <2>3 DEF GatewayRespond, mdVars, sVars, oVars,
            Updates, Signals, Orders, Responses
<1>9. CASE Idle
    <2>1. UNCHANGED <<busVars, mdSeq, book, sHeld, nextId, live, oHeld, journal,
                      journalOk, nextExchId, gHeld, exchange>>
        BY <1>9 DEF Idle, FeedEnds, OmsNoSignal, OmsNoResponse, SetAvailable, Stop,
            MdStops, StrategyStops, OmsStops, GatewayStops, Joined, vars,
            busVars, mdVars, sVars, oVars, gVars
    <2>2. /\ running' \in BOOLEAN /\ available' \in BOOLEAN
          /\ mdPc' \in {"loop", "stopped"}
          /\ sPc' \in {"loop", "send", "stopped"}
          /\ oPc' \in {"signal", "send", "response", "stopped"}
          /\ gPc' \in {"loop", "send", "stopped"}
          /\ (oPc' = "send" <=> oPc = "send") /\ (gPc' = "send" <=> gPc = "send")
        BY <1>9 DEF Idle, FeedEnds, OmsNoSignal, OmsNoResponse, SetAvailable, Stop,
            MdStops, StrategyStops, OmsStops, GatewayStops, Joined, vars,
            busVars, mdVars, sVars, oVars, gVars, TypeOK
    <2>3. TypeOK'
        BY <2>1, <2>2 DEF TypeOK, busVars
    <2> QED
        BY <2>1, <2>2, <2>3 DEF busVars, Updates, Signals, Orders, Responses
<1>10. CASE UNCHANGED vars
    BY <1>10 DEF TypeOK, vars,
        busVars, mdVars, sVars, oVars, gVars, Updates, Signals, Orders, Responses
<1> QED
    BY <1>1, <1>2, <1>3, <1>4, <1>5, <1>6, <1>7, <1>8, <1>9, <1>10
       DEF Next, Md, Strategy, Oms, Gateway, Idle

-----------------------------------------------------------------------------
(* What each step does to the orders, their places and their records.  The *)
(* steps of the market data and strategy threads, the idle ones and a      *)
(* stutter leave all of them alone.                                        *)

orderVars == <<Orders, Responses, oHeld, gHeld, nextId, live, journal, journalOk,
               exchange, nextExchId,
               dropped["oms_to_gateway"], dropped["gateway_to_oms"]>>

\* The queues are different queues.
LEMMA QueueNames ==
    /\ {"market_to_strategy", "strategy_to_oms", "oms_to_gateway", "gateway_to_oms"}
          \subseteq Queues
    /\ "market_to_strategy" \notin {"strategy_to_oms", "oms_to_gateway", "gateway_to_oms"}
    /\ "strategy_to_oms" \notin {"oms_to_gateway", "gateway_to_oms"}
    /\ "oms_to_gateway" # "gateway_to_oms"
BY DEF Queues

\* The elements of a typed sequence have its type.
LEMMA ElemType ==
    ASSUME NEW T, NEW s \in Seq(T)
    PROVE  Elem(s) \subseteq T
BY DEF Elem

\* Publishing a quote: orders and signals stay where they are.
LEMMA PublishEffect ==
    ASSUME Types, PublishQuote
    PROVE  UNCHANGED orderVars /\ UNCHANGED <<Signals, book>>
<1>1. PICK q \in Quotes, x \in ExchangeSequences :
          Push("market_to_strategy", [seq |-> x, bid |-> q[1], ask |-> q[2]])
    BY DEF PublishQuote
<1> DEFINE m == [seq |-> x, bid |-> q[1], ask |-> q[2]]
<1>2. m \in Update
    BY PipelineAssumption DEF Update, ExchangeSequences, Types, TypeOK
<1> HIDE DEF m
<1>3. Push("market_to_strategy", m)
    BY <1>1 DEF m
<1>4. \A p \in Queues \ {"market_to_strategy"} :
          bus'[p] = bus[p] /\ dropped'[p] = dropped[p]
    BY <1>2, <1>3, QueueNames, PushEffect DEF Updates, Types
<1> QED
    BY <1>4, QueueNames DEF PublishQuote, sVars, oVars, gVars,
       orderVars, Orders, Responses, Signals

\* Taking an update: the book moves on, orders and signals stay.
LEMMA OnUpdateEffect ==
    ASSUME Types, StrategyOnUpdate
    PROVE  UNCHANGED orderVars /\ UNCHANGED Signals /\ book.seq <= book'.seq
<1>1. /\ \A p \in Queues \ {"market_to_strategy"} : bus'[p] = bus[p]
      /\ dropped' = dropped
      /\ Head(bus["market_to_strategy"]) \in Update
    BY QueueNames, PopEffect DEF StrategyOnUpdate, Updates, Types
<1>2. book.seq <= book'.seq
    BY <1>1, CoreTypes DEF StrategyOnUpdate, Types
<1> QED
    BY <1>1, <1>2, QueueNames DEF StrategyOnUpdate, mdVars, oVars, gVars,
       orderVars, Orders, Responses, Signals

\* Sending a signal: it is priced from the book of the moment.
LEMMA SendSignalEffect ==
    ASSUME Types, StrategySend
    PROVE  /\ UNCHANGED orderVars /\ UNCHANGED book
           /\ \/ UNCHANGED Signals
              \/ \E m \in SignalMsg : m.src = book.seq /\ Signals' = Append(Signals, m)
<1> DEFINE m == [signal |-> sHeld, src |-> book.seq]
<1>1. m \in SignalMsg /\ m.src = book.seq
    BY DEF Types, Update, SignalMsg
<1> HIDE DEF m
<1>2. Push("strategy_to_oms", m)
    BY DEF StrategySend, m
<1>3. /\ \A p \in Queues \ {"strategy_to_oms"} :
            bus'[p] = bus[p] /\ dropped'[p] = dropped[p]
      /\ \/ bus'["strategy_to_oms"] = Append(bus["strategy_to_oms"], m)
         \/ bus'["strategy_to_oms"] = bus["strategy_to_oms"]
    BY <1>1, <1>2, QueueNames, PushEffect DEF Signals, Types
<1> QED
    BY <1>1, <1>3, QueueNames DEF StrategySend, mdVars, oVars, gVars,
       orderVars, Orders, Responses, Signals

\* Polling, the operator and shutdown.
LEMMA IdleEffect ==
    ASSUME Idle \/ UNCHANGED vars
    PROVE  UNCHANGED orderVars /\ UNCHANGED <<Signals, book>>
<1>1. UNCHANGED <<busVars, book, nextId, live, oHeld, journal,
                  journalOk, nextExchId, gHeld, exchange>>
    BY DEF Idle, FeedEnds, OmsNoSignal, OmsNoResponse, SetAvailable, Stop,
       MdStops, StrategyStops, OmsStops, GatewayStops, Joined, vars,
       busVars, mdVars, sVars, oVars, gVars
<1> QED
    BY <1>1 DEF busVars, orderVars, Orders, Responses, Signals

\* A new order, if risk lets it pass, takes the next number into the hand of
\* the OMS, into live_orders_ and into the journal.
LEMMA OnSignalEffect ==
    ASSUME Types, OmsOnSignal
    PROVE  /\ UNCHANGED <<Orders, Responses, gHeld, exchange, nextExchId, dropped, book>>
           /\ oHeld = None /\ nextId' = nextId + 1
           /\ Signals # <<>> /\ Signals' = Tail(Signals)
           /\ \/ /\ live' = live \cup {nextId}
                 /\ JournalAppend("OrderIntent", nextId)
                 /\ oHeld' \in Order /\ oHeld'.id = nextId
                 /\ oHeld'.src = Head(Signals).src
              \/ UNCHANGED <<live, journal, journalOk, oHeld>>
<1>1. /\ \A p \in Queues \ {"strategy_to_oms"} : bus'[p] = bus[p]
      /\ dropped' = dropped
      /\ bus["strategy_to_oms"] # <<>>
      /\ bus'["strategy_to_oms"] = Tail(bus["strategy_to_oms"])
      /\ Head(bus["strategy_to_oms"]) \in SignalMsg
    BY QueueNames, PopEffect DEF OmsOnSignal, Signals, Types
<1> DEFINE m == Head(bus["strategy_to_oms"])
           order == [type |-> "NewOrder", id |-> nextId, src |-> m.src]
<1>2. order \in Order /\ order.id = nextId /\ order.src = m.src
    <2>1. m.src \in Nat
        BY <1>1 DEF SignalMsg
    <2> QED
        BY <2>1 DEF Order, Types
<1>3. /\ nextId' = nextId + 1
      /\ \/ /\ live' = live \cup {nextId}
            /\ JournalAppend("OrderIntent", nextId)
            /\ oHeld' = order
         \/ UNCHANGED <<live, journal, journalOk, oHeld>>
    BY DEF OmsOnSignal, ClientOrderId
<1> HIDE DEF order
<1>4. oHeld = None
    BY DEF OmsOnSignal, Types
<1>5. UNCHANGED <<gHeld, exchange, nextExchId, dropped, book>>
    BY <1>1 DEF OmsOnSignal, mdVars, sVars, gVars
<1>6. UNCHANGED <<Orders, Responses>>
    BY <1>1, QueueNames DEF Orders, Responses
<1> QED
    BY <1>1, <1>2, <1>3, <1>4, <1>5, <1>6 DEF Signals

\* The OMS hands its order to the gateway's queue, or the queue refuses it.
LEMMA SendOrderEffect ==
    ASSUME Types, OmsSend
    PROVE  /\ UNCHANGED <<Responses, gHeld, nextId, live, journal, journalOk, exchange,
                          nextExchId, Signals, book, dropped["gateway_to_oms"]>>
           /\ oHeld \in Order /\ oHeld' = None
           /\ \/ /\ Orders' = Append(Orders, oHeld)
                 /\ UNCHANGED dropped["oms_to_gateway"]
              \/ /\ Orders' = Orders
                 /\ dropped'["oms_to_gateway"] = dropped["oms_to_gateway"] + 1
<1>1. oHeld \in Order /\ Push("oms_to_gateway", oHeld)
    BY DEF OmsSend, Types
<1>2. /\ \A p \in Queues \ {"oms_to_gateway"} :
            bus'[p] = bus[p] /\ dropped'[p] = dropped[p]
      /\ \/ /\ bus'["oms_to_gateway"] = Append(bus["oms_to_gateway"], oHeld)
            /\ dropped'["oms_to_gateway"] = dropped["oms_to_gateway"]
         \/ /\ bus'["oms_to_gateway"] = bus["oms_to_gateway"]
            /\ dropped'["oms_to_gateway"] = dropped["oms_to_gateway"] + 1
    BY <1>1, QueueNames, PushEffect DEF Orders, Types
<1> QED
    BY <1>1, <1>2, QueueNames DEF OmsSend, mdVars, sVars, gVars, Orders,
       Responses, Signals

\* The OMS takes the oldest response and records it.
LEMMA OnResponseEffect ==
    ASSUME Types, OmsOnResponse
    PROVE  /\ UNCHANGED <<Orders, gHeld, oHeld, nextId, exchange, nextExchId,
                          Signals, book, dropped>>
           /\ Responses # <<>> /\ Responses' = Tail(Responses)
           /\ Head(Responses) \in Response /\ oHeld = None
           /\ \/ /\ Head(Responses).type = "Ack" /\ live' = live
                 /\ JournalAppend("GatewayAck", Head(Responses).id)
              \/ /\ Head(Responses).type = "Reject"
                 /\ live' = live \ {Head(Responses).id}
                 /\ JournalAppend("GatewayReject", Head(Responses).id)
<1>1. /\ \A p \in Queues \ {"gateway_to_oms"} : bus'[p] = bus[p]
      /\ dropped' = dropped
      /\ bus["gateway_to_oms"] # <<>>
      /\ bus'["gateway_to_oms"] = Tail(bus["gateway_to_oms"])
      /\ Head(bus["gateway_to_oms"]) \in Response
    BY QueueNames, PopEffect DEF OmsOnResponse, Responses, Types
<1>2. Head(bus["gateway_to_oms"]).type \in {"Ack", "Reject"}
    BY <1>1 DEF Response
<1>3. oHeld = None
    BY DEF OmsOnResponse, Types
<1>4. UNCHANGED <<gHeld, oHeld, nextId, exchange, nextExchId, book, dropped>>
    BY <1>1 DEF OmsOnResponse, sVars, gVars
<1>5. UNCHANGED <<Orders, Signals>>
    BY <1>1, QueueNames DEF Orders, Signals
<1> QED
    BY <1>1, <1>2, <1>3, <1>4, <1>5 DEF OmsOnResponse, LiveAfter, Responses

\* The gateway takes the oldest order and gives it to the exchange, or
\* refuses it.
LEMMA OnOrderEffect ==
    ASSUME Types, GatewaySendOrder
    PROVE  /\ UNCHANGED <<Responses, oHeld, nextId, live, journal, journalOk,
                          Signals, book, dropped>>
           /\ Orders # <<>> /\ Orders' = Tail(Orders)
           /\ Head(Orders) \in Order
           /\ gHeld = None /\ gHeld' \in Response /\ gHeld'.id = Head(Orders).id
           /\ \/ /\ gHeld'.type = "Ack" /\ nextExchId' = nextExchId + 1
                 /\ \E e \in Resting :
                       /\ e.id = Head(Orders).id /\ e.src = Head(Orders).src
                       /\ e.exchId = nextExchId /\ exchange' = exchange \cup {e}
              \/ gHeld'.type = "Reject" /\ UNCHANGED <<exchange, nextExchId>>
<1>1. /\ \A p \in Queues \ {"oms_to_gateway"} : bus'[p] = bus[p]
      /\ dropped' = dropped
      /\ bus["oms_to_gateway"] # <<>>
      /\ bus'["oms_to_gateway"] = Tail(bus["oms_to_gateway"])
      /\ Head(bus["oms_to_gateway"]) \in Order
    BY QueueNames, PopEffect DEF GatewaySendOrder, Orders, Types
<1> DEFINE order == Head(bus["oms_to_gateway"])
           e == [id |-> order.id, exchId |-> nextExchId, src |-> order.src]
<1>2. order.id \in Nat /\ order.src \in Nat
    BY <1>1 DEF Order
<1>3. /\ [type |-> "Ack", id |-> order.id] \in Response
      /\ [type |-> "Reject", id |-> order.id] \in Response
      /\ e \in Resting /\ e.id = order.id /\ e.src = order.src /\ e.exchId = nextExchId
    BY <1>2 DEF Response, Resting, Types
<1>4. gHeld = None
    BY DEF GatewaySendOrder, Types
<1>5. \/ /\ gHeld' = [type |-> "Ack", id |-> order.id]
         /\ exchange' = exchange \cup {e} /\ nextExchId' = nextExchId + 1
      \/ /\ gHeld' = [type |-> "Reject", id |-> order.id]
         /\ UNCHANGED <<exchange, nextExchId>>
    BY DEF GatewaySendOrder
<1>6. UNCHANGED <<oHeld, nextId, live, journal, journalOk, book, dropped>>
    BY <1>1 DEF GatewaySendOrder, sVars, oVars
<1>7. UNCHANGED <<Responses, Signals>>
    BY <1>1, QueueNames DEF Responses, Signals
<1> HIDE DEF e, order
<1>8. gHeld' \in Response /\ gHeld'.id = order.id
    BY <1>3, <1>5
<1>9. \/ /\ gHeld'.type = "Ack" /\ nextExchId' = nextExchId + 1
         /\ exchange' = exchange \cup {e}
      \/ gHeld'.type = "Reject" /\ UNCHANGED <<exchange, nextExchId>>
    BY <1>5
<1> QED
    BY <1>1, <1>3, <1>4, <1>6, <1>7, <1>8, <1>9 DEF Orders, order

\* The gateway hands its answer to the queue back, or the queue refuses it.
LEMMA RespondEffect ==
    ASSUME Types, GatewayRespond
    PROVE  /\ UNCHANGED <<Orders, oHeld, nextId, live, journal, journalOk, exchange,
                          nextExchId, Signals, book, dropped["oms_to_gateway"]>>
           /\ gHeld \in Response /\ gHeld' = None
           /\ \/ /\ Responses' = Append(Responses, gHeld)
                 /\ UNCHANGED dropped["gateway_to_oms"]
              \/ /\ Responses' = Responses
                 /\ dropped'["gateway_to_oms"] = dropped["gateway_to_oms"] + 1
<1>1. gHeld \in Response /\ Push("gateway_to_oms", gHeld)
    BY DEF GatewayRespond, Types
<1>2. /\ \A p \in Queues \ {"gateway_to_oms"} :
            bus'[p] = bus[p] /\ dropped'[p] = dropped[p]
      /\ \/ /\ bus'["gateway_to_oms"] = Append(bus["gateway_to_oms"], gHeld)
            /\ dropped'["gateway_to_oms"] = dropped["gateway_to_oms"]
         \/ /\ bus'["gateway_to_oms"] = bus["gateway_to_oms"]
            /\ dropped'["gateway_to_oms"] = dropped["gateway_to_oms"] + 1
    BY <1>1, QueueNames, PushEffect DEF Responses, Types
<1> QED
    BY <1>1, <1>2, QueueNames DEF GatewayRespond, mdVars, sVars, oVars, Orders,
       Responses, Signals

\* So a step moves an order in one of five ways, or none.
LEMMA OrderSteps ==
    ASSUME Types, [Next]_vars
    PROVE  \/ UNCHANGED orderVars
           \/ OmsOnSignal \/ OmsSend \/ OmsOnResponse
           \/ GatewaySendOrder \/ GatewayRespond
BY PublishEffect, OnUpdateEffect, SendSignalEffect, IdleEffect
   DEF Next, Md, Strategy, Oms, Gateway, Idle

-----------------------------------------------------------------------------
(* Nothing overtakes *)

InHand(m) == {m} \ {None}

\* The messages of the orders between the OMS and the gateway, both ways.
InFlight == Elem(Orders) \cup InHand(oHeld) \cup Elem(Responses) \cup InHand(gHeld)

\* From the newest number down: nextId, the OMS's hand, the queue to the
\* gateway, the gateway's hand, the queue back.
IdOrder ==
    /\ IdsRise(Orders) /\ IdsRise(Responses)
    /\ \A m \in InFlight : m.id < nextId
    /\ \A m \in InHand(oHeld) :
          \A o \in Elem(Orders) \cup InHand(gHeld) \cup Elem(Responses) : o.id < m.id
    /\ \A m \in Elem(Orders) : \A g \in InHand(gHeld) \cup Elem(Responses) : g.id < m.id
    /\ \A m \in InHand(gHeld) : \A r \in Elem(Responses) : r.id < m.id

\* Messages in flight have a number.
LEMMA InFlightIds ==
    ASSUME Types
    PROVE  /\ Elem(Orders) \subseteq Order /\ InHand(oHeld) \subseteq Order
           /\ Elem(Responses) \subseteq Response /\ InHand(gHeld) \subseteq Response
           /\ \A m \in InFlight : m.id \in Nat /\ m # None
           /\ nextId \in Nat
<1>1. /\ Elem(Orders) \subseteq Order /\ InHand(oHeld) \subseteq Order
      /\ Elem(Responses) \subseteq Response /\ InHand(gHeld) \subseteq Response
    BY ElemType DEF Types, InHand
<1>2. \A m \in Order \cup Response : m.id \in Nat /\ m # None
    BY NoneIsNone DEF Order, Response
<1> QED
    BY <1>1, <1>2 DEF InFlight, Types

\* The places after each of the five steps.
LEMMA StillPlaces ==
    ASSUME UNCHANGED orderVars
    PROVE  /\ Elem(Orders)' = Elem(Orders) /\ Elem(Responses)' = Elem(Responses)
           /\ InHand(oHeld)' = InHand(oHeld) /\ InHand(gHeld)' = InHand(gHeld)
           /\ InFlight' = InFlight
           /\ (IdsRise(Orders) => IdsRise(Orders)')
           /\ (IdsRise(Responses) => IdsRise(Responses)')
BY DEF orderVars, InFlight, InHand, IdsRise, Elem

\* OmsOnSignal: at most the hand of the OMS changes, from empty to nextId.
LEMMA OnSignalPlaces ==
    ASSUME Types, IdOrder, OmsOnSignal
    PROVE  /\ Elem(Orders)' = Elem(Orders) /\ Elem(Responses)' = Elem(Responses)
           /\ InHand(gHeld)' = InHand(gHeld) /\ InHand(oHeld) = {}
           /\ \A m \in InHand(oHeld)' : m.id = nextId
           /\ IdsRise(Orders)' /\ IdsRise(Responses)'
<1>1. /\ Elem(Orders)' = Elem(Orders) /\ Elem(Responses)' = Elem(Responses)
      /\ InHand(gHeld)' = InHand(gHeld)
      /\ IdsRise(Orders)' /\ IdsRise(Responses)'
    BY OnSignalEffect DEF Elem, InHand, IdsRise, IdOrder
<1>2. /\ InHand(oHeld) = {}
      /\ \A m \in InHand(oHeld)' : m.id = nextId
    BY OnSignalEffect DEF InHand
<1> QED
    BY <1>1, <1>2

\* OmsSend: the order in the hand goes to the end of the queue, or is lost.
LEMMA SendOrderPlaces ==
    ASSUME Types, IdOrder, OmsSend
    PROVE  /\ Elem(Responses)' = Elem(Responses) /\ InHand(gHeld)' = InHand(gHeld)
           /\ InHand(oHeld)' = {} /\ InHand(oHeld) = {oHeld}
           /\ \/ /\ Elem(Orders)' = Elem(Orders) \cup {oHeld}
                 /\ UNCHANGED dropped["oms_to_gateway"]
              \/ /\ Elem(Orders)' = Elem(Orders)
                 /\ dropped'["oms_to_gateway"] = dropped["oms_to_gateway"] + 1
           /\ IdsRise(Orders)' /\ IdsRise(Responses)'
<1>1. /\ Elem(Responses)' = Elem(Responses)
      /\ InHand(gHeld)' = InHand(gHeld)
      /\ InHand(oHeld)' = {} /\ InHand(oHeld) = {oHeld} /\ oHeld \in Order
      /\ IdsRise(Responses)'
    BY SendOrderEffect, NoneIsNone DEF Elem, InHand, IdsRise, IdOrder
<1>2. CASE Orders' = Orders
    BY <1>1, <1>2, SendOrderEffect DEF Elem, IdsRise, IdOrder
<1>3. CASE Orders' = Append(Orders, oHeld) /\ UNCHANGED dropped["oms_to_gateway"]
    <2>1. Orders \in Seq(Order)
        BY DEF Types
    <2>2. Elem(Orders') = Elem(Orders) \cup {oHeld}
        BY <1>1, <1>3, <2>1, ElemAppend
    <2>3. IdsRise(Orders')
        BY <1>1, <1>3, <2>1, IdsAppend DEF IdOrder
    <2>4. Elem(Orders)' = Elem(Orders') /\ IdsRise(Orders)'
        BY <2>3 DEF Elem, IdsRise
    <2> QED
        BY <1>1, <1>3, <2>2, <2>4
<1> QED
    BY <1>2, <1>3, SendOrderEffect

\* OmsOnResponse: the oldest response leaves; it is older than all others.
LEMMA OnResponsePlaces ==
    ASSUME Types, IdOrder, OmsOnResponse
    PROVE  /\ Elem(Orders)' = Elem(Orders) /\ InHand(gHeld)' = InHand(gHeld)
           /\ InHand(oHeld)' = {} /\ InHand(oHeld) = {}
           /\ Elem(Responses) = Elem(Responses)' \cup {Head(Responses)}
           /\ \A m \in InFlight' : Head(Responses).id < m.id
           /\ IdsRise(Orders)' /\ IdsRise(Responses)'
<1>1. /\ Elem(Orders)' = Elem(Orders) /\ InHand(oHeld)' = {} /\ InHand(oHeld) = {}
      /\ InHand(gHeld)' = InHand(gHeld)
      /\ IdsRise(Orders)'
    BY OnResponseEffect DEF Elem, InHand, IdsRise, IdOrder
<1>2. Responses # <<>> /\ Responses' = Tail(Responses) /\ Responses \in Seq(Response)
    BY OnResponseEffect DEF Types
<1>3. /\ Elem(Responses) = Elem(Responses') \cup {Head(Responses)}
      /\ IdsRise(Responses')
      /\ \A m \in Elem(Responses') : Head(Responses).id < m.id
    BY <1>2, ElemTail, IdsTail DEF IdOrder
<1>4. Elem(Responses)' = Elem(Responses') /\ IdsRise(Responses)'
    BY <1>3 DEF Elem, IdsRise
<1>5. \A m \in Elem(Orders) \cup InHand(gHeld) : Head(Responses).id < m.id
    BY <1>3 DEF IdOrder
<1>6. \A m \in InFlight' : Head(Responses).id < m.id
    BY <1>1, <1>3, <1>4, <1>5 DEF InFlight
<1> QED
    BY <1>1, <1>3, <1>4, <1>6

\* GatewaySendOrder: the oldest order moves from the queue to the hand.
LEMMA OnOrderPlaces ==
    ASSUME Types, IdOrder, GatewaySendOrder
    PROVE  /\ Elem(Responses)' = Elem(Responses) /\ InHand(oHeld)' = InHand(oHeld)
           /\ InHand(gHeld) = {} /\ InHand(gHeld)' = {gHeld'}
           /\ gHeld'.id = Head(Orders).id
           /\ Elem(Orders) = Elem(Orders)' \cup {Head(Orders)}
           /\ \A m \in Elem(Orders)' \cup InHand(oHeld) : Head(Orders).id < m.id
           /\ IdsRise(Orders)' /\ IdsRise(Responses)'
<1>1. /\ Elem(Responses)' = Elem(Responses) /\ InHand(oHeld)' = InHand(oHeld)
      /\ InHand(gHeld) = {}
      /\ InHand(gHeld)' = {gHeld'} /\ gHeld'.id = Head(Orders).id
      /\ IdsRise(Responses)'
    BY OnOrderEffect, NoneIsNone DEF Elem, InHand, IdsRise, IdOrder
<1>2. Orders # <<>> /\ Orders' = Tail(Orders) /\ Orders \in Seq(Order)
    BY OnOrderEffect DEF Types
<1>3. /\ Elem(Orders) = Elem(Orders') \cup {Head(Orders)}
      /\ IdsRise(Orders')
      /\ \A m \in Elem(Orders') : Head(Orders).id < m.id
    BY <1>2, ElemTail, IdsTail DEF IdOrder
<1>4. Elem(Orders)' = Elem(Orders') /\ IdsRise(Orders)'
    BY <1>3 DEF Elem, IdsRise
<1>5. \A m \in InHand(oHeld) : Head(Orders).id < m.id
    BY <1>3 DEF IdOrder
<1> QED
    BY <1>1, <1>3, <1>4, <1>5

\* GatewayRespond: the answer goes to the end of the queue back, or is lost.
LEMMA RespondPlaces ==
    ASSUME Types, IdOrder, GatewayRespond
    PROVE  /\ Elem(Orders)' = Elem(Orders) /\ InHand(oHeld)' = InHand(oHeld)
           /\ InHand(gHeld)' = {} /\ InHand(gHeld) = {gHeld}
           /\ \/ /\ Elem(Responses)' = Elem(Responses) \cup {gHeld}
                 /\ UNCHANGED dropped["gateway_to_oms"]
              \/ /\ Elem(Responses)' = Elem(Responses)
                 /\ dropped'["gateway_to_oms"] = dropped["gateway_to_oms"] + 1
           /\ IdsRise(Orders)' /\ IdsRise(Responses)'
<1>1. /\ Elem(Orders)' = Elem(Orders) /\ InHand(oHeld)' = InHand(oHeld)
      /\ InHand(gHeld)' = {} /\ InHand(gHeld) = {gHeld} /\ gHeld \in Response
      /\ IdsRise(Orders)'
    BY RespondEffect, NoneIsNone DEF Elem, InHand, IdsRise, IdOrder
<1>2. CASE Responses' = Responses
    BY <1>1, <1>2, RespondEffect DEF Elem, IdsRise, IdOrder
<1>3. CASE Responses' = Append(Responses, gHeld) /\ UNCHANGED dropped["gateway_to_oms"]
    <2>1. Responses \in Seq(Response)
        BY DEF Types
    <2>2. Elem(Responses') = Elem(Responses) \cup {gHeld}
        BY <1>1, <1>3, <2>1, ElemAppend
    <2>3. IdsRise(Responses')
        BY <1>1, <1>3, <2>1, IdsAppend DEF IdOrder
    <2>4. Elem(Responses)' = Elem(Responses') /\ IdsRise(Responses)'
        BY <2>3 DEF Elem, IdsRise
    <2> QED
        BY <1>1, <1>3, <2>2, <2>4
<1> QED
    BY <1>2, <1>3, RespondEffect

\* The order is kept by every step.
LEMMA NextIdOrder ==
    ASSUME Types, IdOrder, [Next]_vars
    PROVE  IdOrder'
<1>0. /\ \A m \in InFlight : m.id \in Nat
      /\ nextId \in Nat
    BY InFlightIds
<1> USE DEF IdOrder, InFlight
<1>1. CASE UNCHANGED orderVars
    BY <1>1, StillPlaces DEF orderVars
<1>2. CASE OmsOnSignal
    BY <1>0, <1>2, OnSignalPlaces, OnSignalEffect
<1>3. CASE OmsSend
    BY <1>3, SendOrderPlaces, SendOrderEffect
<1>4. CASE OmsOnResponse
    BY <1>4, OnResponsePlaces, OnResponseEffect
<1>5. CASE GatewaySendOrder
    BY <1>5, OnOrderPlaces, OnOrderEffect
<1>6. CASE GatewayRespond
    BY <1>6, RespondPlaces, RespondEffect
<1> QED
    BY <1>1, <1>2, <1>3, <1>4, <1>5, <1>6, OrderSteps

-----------------------------------------------------------------------------
(* The exchange and live_orders_ *)

\* What the exchange holds is older than what is on its way there, and was
\* numbered in the order it came.
ExchangeOrder ==
    \A e \in exchange :
        /\ e.exchId < nextExchId /\ e.id < nextId
        /\ \A m \in Elem(Orders) \cup InHand(oHeld) : e.id < m.id
        /\ \A d \in exchange : d.id < e.id <=> d.exchId < e.exchId

\* The numbers of resting orders are numbers.
LEMMA RestingTypes ==
    ASSUME Types
    PROVE  /\ \A e \in exchange : e.id \in Nat /\ e.exchId \in Nat /\ e.src \in Nat
           /\ nextExchId \in Nat
BY DEF Types, Resting

\* The exchange keeps its order in every step.
LEMMA NextExchangeOrder ==
    ASSUME Types, IdOrder, ExchangeOrder, [Next]_vars
    PROVE  ExchangeOrder'
<1>0. /\ \A m \in InFlight : m.id \in Nat
      /\ nextId \in Nat /\ nextExchId \in Nat
      /\ \A e \in exchange : e.id \in Nat /\ e.exchId \in Nat
    BY InFlightIds, RestingTypes
<1>1. CASE UNCHANGED orderVars
    BY <1>1, StillPlaces DEF orderVars, ExchangeOrder
<1>2. CASE OmsOnSignal
    BY <1>0, <1>2, OnSignalPlaces, OnSignalEffect DEF ExchangeOrder
<1>3. CASE OmsSend
    BY <1>3, SendOrderPlaces, SendOrderEffect DEF ExchangeOrder
<1>4. CASE OmsOnResponse
    BY <1>4, OnResponsePlaces, OnResponseEffect DEF ExchangeOrder
<1>5. CASE GatewaySendOrder
    <2>1. /\ UNCHANGED nextId
          /\ Elem(Orders)' \cup InHand(oHeld)' \subseteq Elem(Orders) \cup InHand(oHeld)
        BY <1>5, OnOrderEffect, OnOrderPlaces
    <2>2. CASE UNCHANGED <<exchange, nextExchId>>
        BY <2>1, <2>2 DEF ExchangeOrder
    <2>3. ASSUME NEW e \in Resting, e.id = Head(Orders).id, e.exchId = nextExchId,
                 exchange' = exchange \cup {e}, nextExchId' = nextExchId + 1
          PROVE  ExchangeOrder'
        <3>1. /\ \A d \in exchange : d.id < e.id /\ d.exchId < e.exchId
              /\ \A m \in Elem(Orders)' \cup InHand(oHeld)' : e.id < m.id
              /\ e.id < nextId
            BY <1>5, <2>3, OnOrderPlaces DEF ExchangeOrder, IdOrder, InFlight
        <3>2. e.id \in Nat /\ e.exchId \in Nat
            BY DEF Resting
        <3>3. ASSUME NEW d \in exchange, NEW x \in exchange
              PROVE  d.id < x.id <=> d.exchId < x.exchId
            BY DEF ExchangeOrder
        <3>4. ASSUME NEW d \in exchange \cup {e}, NEW x \in exchange \cup {e}
              PROVE  d.id < x.id <=> d.exchId < x.exchId
            BY <1>0, <3>1, <3>2, <3>3
        <3>5. \A d \in exchange \cup {e} : d.exchId < nextExchId + 1 /\ d.id < nextId
            BY <1>0, <2>3, <3>1, <3>2 DEF ExchangeOrder
        <3>6. \A d \in exchange \cup {e} :
                 \A m \in Elem(Orders)' \cup InHand(oHeld)' : d.id < m.id
            BY <2>1, <3>1 DEF ExchangeOrder
        <3> QED
            BY <2>1, <2>3, <3>4, <3>5, <3>6 DEF ExchangeOrder
    <2> QED
        BY <1>5, <2>2, <2>3, OnOrderEffect
<1>6. CASE GatewayRespond
    BY <1>6, RespondPlaces, RespondEffect DEF ExchangeOrder
<1> QED
    BY <1>1, <1>2, <1>3, <1>4, <1>5, <1>6, OrderSteps

\* Orders on their way and at the exchange are live, and what the gateway has
\* refused the exchange does not have.
LiveKnows ==
    /\ \A m \in InFlight : m.id \in live
    /\ \A e \in exchange : e.id \in live
    /\ \A r \in Elem(Responses) \cup InHand(gHeld) : \A e \in exchange :
          r.type = "Reject" => r.id # e.id

\* live_orders_ keeps up with every step.
LEMMA NextLiveKnows ==
    ASSUME Types, IdOrder, ExchangeOrder, LiveKnows, [Next]_vars
    PROVE  LiveKnows'
<1>0. /\ \A m \in InFlight : m.id \in Nat
      /\ \A e \in exchange : e.id \in Nat
    BY InFlightIds, RestingTypes
<1>1. CASE UNCHANGED orderVars
    BY <1>1, StillPlaces DEF orderVars, LiveKnows
<1>2. CASE OmsOnSignal
    <2>1. \A m \in InHand(oHeld)' : m.id \in live'
        BY <1>2, OnSignalPlaces, OnSignalEffect DEF InHand
    <2> QED
        BY <1>2, <2>1, OnSignalPlaces, OnSignalEffect DEF LiveKnows, InFlight
<1>3. CASE OmsSend
    BY <1>3, SendOrderPlaces, SendOrderEffect DEF LiveKnows, InFlight
<1>4. CASE OmsOnResponse
    <2> DEFINE r == Head(Responses)
    <2>1. /\ InFlight' \subseteq InFlight /\ r \in InFlight /\ exchange' = exchange
          /\ Elem(Responses)' \cup InHand(gHeld)' \subseteq Elem(Responses) \cup InHand(gHeld)
        BY <1>4, OnResponsePlaces, OnResponseEffect DEF InFlight
    <2>2. \A m \in InFlight' : m.id # r.id
        BY <1>0, <1>4, <2>1, OnResponsePlaces
    <2>3. live' = live \/ (live' = live \ {r.id} /\ r.type = "Reject")
        BY <1>4, OnResponseEffect
    <2>4. r \in Elem(Responses)
        BY <1>4, OnResponsePlaces
    <2> HIDE DEF r
    <2> QED
        BY <2>1, <2>2, <2>3, <2>4 DEF LiveKnows
<1>5. CASE GatewaySendOrder
    <2>1. /\ live' = live /\ Elem(Responses)' = Elem(Responses)
          /\ InHand(gHeld) = {} /\ InHand(gHeld)' = {gHeld'}
          /\ gHeld'.id = Head(Orders).id
          /\ Head(Orders) \in Elem(Orders)
          /\ InFlight' \subseteq InFlight \cup {gHeld'}
        BY <1>5, OnOrderPlaces, OnOrderEffect DEF InFlight
    <2>2. \A m \in InFlight' : m.id \in live'
        BY <2>1 DEF LiveKnows, InFlight
    <2>3. \A x \in exchange : x.id # Head(Orders).id
        BY <1>0, <2>1 DEF ExchangeOrder, InFlight
    <2>4. \A m \in Elem(Responses) : m.id # Head(Orders).id
        BY <1>0, <2>1 DEF IdOrder, InFlight
    <2>5. CASE UNCHANGED exchange
        BY <2>1, <2>2, <2>3, <2>5 DEF LiveKnows
    <2>6. ASSUME NEW e \in Resting, e.id = Head(Orders).id, gHeld'.type = "Ack",
                 exchange' = exchange \cup {e}
          PROVE  LiveKnows'
        <3>1. e.id \in live
            BY <2>1, <2>6 DEF LiveKnows, InFlight
        <3> QED
            BY <2>1, <2>2, <2>4, <2>6, <3>1 DEF LiveKnows
    <2> QED
        BY <1>5, <2>5, <2>6, OnOrderEffect
<1>6. CASE GatewayRespond
    BY <1>6, RespondPlaces, RespondEffect DEF LiveKnows, InFlight
<1> QED
    BY <1>1, <1>2, <1>3, <1>4, <1>5, <1>6, OrderSteps

-----------------------------------------------------------------------------
(* Prices do not go back *)

\* From the newest source down: the book, the signals, the OMS's hand, the
\* orders for the gateway, the exchange.
SrcOrder ==
    /\ SrcsRise(Signals) /\ SrcsRise(Orders)
    /\ \A m \in Elem(Signals) \cup InHand(oHeld) \cup Elem(Orders) \cup exchange :
          m.src <= book.seq
    /\ \A s \in Elem(Signals) :
          \A m \in InHand(oHeld) \cup Elem(Orders) \cup exchange : m.src <= s.src
    /\ \A h \in InHand(oHeld) : \A m \in Elem(Orders) \cup exchange : m.src <= h.src
    /\ \A o \in Elem(Orders) : \A e \in exchange : e.src <= o.src
    /\ \A d, e \in exchange : d.id < e.id => d.src <= e.src

\* Sources are numbers.
LEMMA SourceTypes ==
    ASSUME Types
    PROVE  /\ \A m \in Elem(Signals) \cup InHand(oHeld) \cup Elem(Orders) \cup exchange :
                 m.src \in Nat
           /\ book.seq \in Nat
           /\ Signals \in Seq(SignalMsg) /\ Orders \in Seq(Order)
<1>1. Elem(Signals) \subseteq SignalMsg /\ Signals \in Seq(SignalMsg)
    BY ElemType DEF Types
<1>2. Elem(Orders) \cup InHand(oHeld) \subseteq Order
    BY InFlightIds
<1>3. /\ \A m \in SignalMsg : m.src \in Nat
      /\ \A m \in Order : m.src \in Nat
      /\ \A m \in Resting : m.src \in Nat
      /\ \A m \in Update : m.seq \in Nat
    BY DEF SignalMsg, Order, Resting, Update
<1> QED
    BY <1>1, <1>2, <1>3 DEF Types

\* No step takes a source back.
LEMMA NextSrcOrder ==
    ASSUME Types, Types', IdOrder, ExchangeOrder, SrcOrder, [Next]_vars
    PROVE  SrcOrder'
<1>0. /\ \A m \in Elem(Signals) \cup InHand(oHeld) \cup Elem(Orders) \cup exchange :
            m.src \in Nat
      /\ book.seq \in Nat
      /\ Signals \in Seq(SignalMsg) /\ Orders \in Seq(Order)
      /\ book'.seq \in Nat
    <2>1. book'.seq \in Nat
        BY DEF Types, Update
    <2> QED
        BY <2>1, SourceTypes
<1>1. CASE UNCHANGED orderVars /\ UNCHANGED Signals /\ book.seq <= book'.seq
    <2>1. /\ Elem(Orders)' = Elem(Orders) /\ InHand(oHeld)' = InHand(oHeld)
          /\ exchange' = exchange /\ Elem(Signals)' = Elem(Signals)
          /\ SrcsRise(Signals)' /\ SrcsRise(Orders)'
        BY <1>1, StillPlaces DEF orderVars, SrcOrder, SrcsRise, Elem
    <2>2. \A m \in Elem(Signals) \cup InHand(oHeld) \cup Elem(Orders) \cup exchange :
              m.src <= book'.seq
        BY <1>0, <1>1 DEF SrcOrder
    <2> QED
        BY <2>1, <2>2 DEF SrcOrder
<1>2. CASE StrategySend
    <2>1. /\ Elem(Orders)' = Elem(Orders) /\ InHand(oHeld)' = InHand(oHeld)
          /\ exchange' = exchange /\ book' = book
          /\ SrcsRise(Orders)'
        BY <1>2, SendSignalEffect, StillPlaces DEF orderVars, SrcOrder, SrcsRise
    <2>2. CASE UNCHANGED Signals
        BY <2>1, <2>2 DEF SrcOrder, Elem, SrcsRise
    <2>3. ASSUME NEW m \in SignalMsg, m.src = book.seq, Signals' = Append(Signals, m)
          PROVE  SrcOrder'
        <3>1. Elem(Signals') = Elem(Signals) \cup {m} /\ SrcsRise(Signals')
            BY <1>0, <2>3, ElemAppend, SrcsAppend DEF SrcOrder
        <3>2. Elem(Signals)' = Elem(Signals') /\ SrcsRise(Signals)'
            BY <3>1 DEF Elem, SrcsRise
        <3> QED
            BY <1>0, <2>1, <2>3, <3>1, <3>2 DEF SrcOrder
    <2> QED
        BY <1>2, <2>2, <2>3, SendSignalEffect
<1>3. CASE OmsOnSignal
    <2>1. /\ Elem(Orders)' = Elem(Orders) /\ InHand(oHeld) = {}
          /\ exchange' = exchange /\ book' = book
          /\ SrcsRise(Orders)'
          /\ \A m \in InHand(oHeld)' : m.src = Head(Signals).src
        BY <1>3, OnSignalEffect DEF SrcOrder, SrcsRise, InHand, Elem
    <2>2. Signals # <<>> /\ Signals' = Tail(Signals)
        BY <1>3, OnSignalEffect
    <2>3. /\ Elem(Signals) = Elem(Signals') \cup {Head(Signals)}
          /\ SrcsRise(Signals')
          /\ \A x \in Elem(Signals') : Head(Signals).src <= x.src
        BY <1>0, <2>2, ElemTail, SrcsTail DEF SrcOrder
    <2>4. Elem(Signals)' = Elem(Signals') /\ SrcsRise(Signals)'
        BY <2>3 DEF Elem, SrcsRise
    <2> QED
        BY <2>1, <2>3, <2>4 DEF SrcOrder
<1>4. CASE OmsSend
    <2>1. /\ InHand(oHeld)' = {} /\ InHand(oHeld) = {oHeld} /\ oHeld \in Order
          /\ Elem(Signals)' = Elem(Signals) /\ SrcsRise(Signals)'
          /\ exchange' = exchange /\ book' = book
        BY <1>4, SendOrderEffect, SendOrderPlaces DEF SrcOrder, SrcsRise, Elem
    <2>2. Elem(Orders)' \subseteq Elem(Orders) \cup {oHeld}
        BY <1>4, SendOrderPlaces
    <2>3. SrcsRise(Orders)'
        <3>1. CASE Orders' = Orders
            BY <3>1 DEF SrcOrder, SrcsRise
        <3>2. CASE Orders' = Append(Orders, oHeld)
            <4>1. SrcsRise(Orders')
                BY <1>0, <2>1, <3>2, SrcsAppend DEF SrcOrder
            <4> QED
                BY <4>1 DEF SrcsRise
        <3> QED
            BY <1>4, <3>1, <3>2, SendOrderEffect
    <2> QED
        BY <2>1, <2>2, <2>3 DEF SrcOrder
<1>5. CASE OmsOnResponse
    BY <1>5, OnResponseEffect, OnResponsePlaces DEF SrcOrder, SrcsRise, Elem
<1>6. CASE GatewaySendOrder
    <2>1. /\ InHand(oHeld)' = InHand(oHeld) /\ book' = book
          /\ Elem(Signals)' = Elem(Signals) /\ SrcsRise(Signals)'
          /\ Elem(Orders) = Elem(Orders)' \cup {Head(Orders)}
        BY <1>6, OnOrderEffect, OnOrderPlaces DEF SrcOrder, SrcsRise, Elem
    <2>2. Orders # <<>> /\ Orders' = Tail(Orders)
        BY <1>6, OnOrderEffect
    <2>3. /\ SrcsRise(Orders')
          /\ \A x \in Elem(Orders') : Head(Orders).src <= x.src
        BY <1>0, <2>2, SrcsTail DEF SrcOrder
    <2>4. Elem(Orders)' = Elem(Orders') /\ SrcsRise(Orders)'
        BY <2>3 DEF Elem, SrcsRise
    <2>5. CASE UNCHANGED exchange
        BY <2>1, <2>4, <2>5 DEF SrcOrder
    <2>6. ASSUME NEW e \in Resting, e.id = Head(Orders).id, e.src = Head(Orders).src,
                 exchange' = exchange \cup {e}
          PROVE  SrcOrder'
        <3>1. \A d \in exchange : d.id < e.id /\ d.id \in Nat /\ e.id \in Nat
            BY <2>1, <2>6, RestingTypes DEF ExchangeOrder, Resting
        <3>2. \A d \in exchange : ~ (e.id < d.id)
            BY <3>1
        <3>3. ASSUME NEW d \in exchange \cup {e}, NEW x \in exchange \cup {e},
                     d.id < x.id
              PROVE  d.src <= x.src
            <4>1. CASE d = e
                <5>1. ~ (e.id < e.id)
                    BY DEF Resting
                <5> QED
                    BY <3>2, <3>3, <4>1, <5>1
            <4>2. CASE d \in exchange /\ x = e
                BY <2>1, <2>6, <4>2 DEF SrcOrder
            <4>3. CASE d \in exchange /\ x \in exchange
                BY <3>3, <4>3 DEF SrcOrder
            <4> QED
                BY <4>1, <4>2, <4>3
        <3>4. Head(Orders).src \in Nat /\ Head(Orders) \in Elem(Orders)
            BY <1>0, <2>1
        <3> QED
            BY <1>0, <2>1, <2>3, <2>4, <2>6, <3>3, <3>4 DEF SrcOrder
    <2> QED
        BY <1>6, <2>5, <2>6, OnOrderEffect
<1>7. CASE GatewayRespond
    BY <1>7, RespondEffect, RespondPlaces DEF SrcOrder, SrcsRise, Elem
<1>8. ASSUME PublishQuote \/ StrategyOnUpdate \/ Idle \/ UNCHANGED vars
      PROVE  UNCHANGED orderVars /\ UNCHANGED Signals /\ book.seq <= book'.seq
    BY <1>0, <1>8, PublishEffect, OnUpdateEffect, IdleEffect
<1> QED
    BY <1>1, <1>2, <1>3, <1>4, <1>5, <1>6, <1>7, <1>8
       DEF Next, Md, Strategy, Oms, Gateway, Idle

-----------------------------------------------------------------------------
(* The journal *)

\* A record adds its id to those of its type and to no others.
LEMMA JournaledAppend ==
    ASSUME journal \in Seq(Entry), NEW e \in Entry, journal' = Append(journal, e)
    PROVE  \A t : Journaled(t)' = IF t = e.type THEN Journaled(t) \cup {e.id}
                                                ELSE Journaled(t)
<1>1. /\ Len(journal') = Len(journal) + 1 /\ Len(journal) \in Nat
      /\ \A k \in 1 .. Len(journal) : journal'[k] = journal[k]
      /\ journal'[Len(journal) + 1] = e
    BY AppendProperties
<1> SUFFICES ASSUME NEW t
             PROVE  Journaled(t)' = IF t = e.type THEN Journaled(t) \cup {e.id}
                                                  ELSE Journaled(t)
    OBVIOUS
<1>2. ASSUME NEW x
      PROVE  x \in Journaled(t)' <=>
                \E k \in 1 .. Len(journal') : journal'[k].type = t /\ journal'[k].id = x
    BY DEF Journaled
<1>3. ASSUME NEW x
      PROVE  x \in Journaled(t) <=>
                \E k \in 1 .. Len(journal) : journal[k].type = t /\ journal[k].id = x
    BY DEF Journaled
<1>4. ASSUME NEW x
      PROVE  x \in Journaled(t)' <=>
                x \in Journaled(t) \/ (t = e.type /\ x = e.id)
    <2>1. ASSUME NEW k \in 1 .. Len(journal), journal[k].type = t, journal[k].id = x
          PROVE  x \in Journaled(t)'
        <3>1. k \in 1 .. Len(journal') /\ journal'[k] = journal[k]
            BY <1>1
        <3> QED
            BY <1>2, <2>1, <3>1
    <2>2. ASSUME t = e.type, x = e.id PROVE x \in Journaled(t)'
        <3>1. Len(journal) + 1 \in 1 .. Len(journal')
            BY <1>1
        <3> QED
            BY <1>1, <1>2, <2>2, <3>1
    <2>3. ASSUME NEW k \in 1 .. Len(journal'), journal'[k].type = t, journal'[k].id = x
          PROVE  x \in Journaled(t) \/ (t = e.type /\ x = e.id)
        <3>1. CASE k = Len(journal) + 1
            BY <1>1, <2>3, <3>1
        <3>2. CASE k \in 1 .. Len(journal)
            BY <1>1, <1>3, <2>3, <3>2
        <3> QED
            BY <1>1, <3>1, <3>2
    <2> QED
        BY <1>2, <1>3, <2>1, <2>2, <2>3
<1> QED
    BY <1>4

\* A record that opens the life of a new order, or closes that of an order
\* newer than all closed before, continues a well-formed journal.
LEMMA LifecycleAppend ==
    ASSUME journal \in Seq(Entry), JournalLifecycle, NEW e \in Entry,
           journal' = Append(journal, e),
           \A k \in 1 .. Len(journal) :
              /\ (journal[k].type = "OrderIntent" <=> e.type = "OrderIntent")
                    => journal[k].id < e.id
              /\ e.type = "OrderIntent" => journal[k].id # e.id,
           e.type # "OrderIntent" => e.id \in Journaled("OrderIntent")
    PROVE  JournalLifecycle'
<1> DEFINE n == Len(journal) + 1
           Pairs == {{"OrderIntent", "GatewayAck"}, {"OrderIntent", "GatewayReject"}}
<1>1. /\ Len(journal') = n /\ Len(journal) \in Nat
      /\ \A k \in 1 .. Len(journal) : journal'[k] = journal[k] /\ journal[k] \in Entry
      /\ journal'[n] = e
    BY AppendProperties
<1>2. \A x \in Entry : /\ x.type \in {"OrderIntent", "GatewayAck", "GatewayReject"}
                       /\ x.id \in Nat
    BY DEF Entry
<1> SUFFICES ASSUME NEW j \in 1 .. n, NEW k \in 1 .. n
             PROVE  /\ j # k /\ journal'[j].id = journal'[k].id =>
                          {journal'[j].type, journal'[k].type} \in Pairs
                    /\ j < k /\ (journal'[j].type = "OrderIntent"
                                   <=> journal'[k].type = "OrderIntent")
                          => journal'[j].id < journal'[k].id
                    /\ journal'[k].type # "OrderIntent" =>
                          \E i \in 1 .. k - 1 :
                             journal'[i] = [type |-> "OrderIntent", id |-> journal'[k].id]
    BY <1>1 DEF JournalLifecycle
<1> HIDE DEF n, Pairs
<1>n. n = Len(journal) + 1
    BY DEF n
<1>3. \A x, y \in Entry : (x.type = "OrderIntent" /\ y.type # "OrderIntent") =>
          {x.type, y.type} \in Pairs /\ {y.type, x.type} \in Pairs
    BY <1>2 DEF Pairs
<1>4. ASSUME NEW i \in 1 .. Len(journal), journal[i].id = e.id
      PROVE  {journal[i].type, e.type} \in Pairs /\ {e.type, journal[i].type} \in Pairs
    <2>1. journal[i] \in Entry /\ e.id \in Nat
        BY <1>1, <1>2
    <2>2. ~ (journal[i].type = "OrderIntent" <=> e.type = "OrderIntent")
        BY <1>4, <2>1
    <2>3. e.type # "OrderIntent" /\ journal[i].type = "OrderIntent"
        BY <1>4, <2>2
    <2> QED
        BY <1>3, <2>1, <2>3
<1>5. j # k /\ journal'[j].id = journal'[k].id =>
          {journal'[j].type, journal'[k].type} \in Pairs
    <2>1. CASE j \in 1 .. Len(journal) /\ k \in 1 .. Len(journal)
        BY <1>1, <2>1 DEF JournalLifecycle, Pairs
    <2>2. CASE j = n /\ k \in 1 .. Len(journal)
        BY <1>1, <1>4, <2>2
    <2>3. CASE j \in 1 .. Len(journal) /\ k = n
        BY <1>1, <1>4, <2>3
    <2>4. /\ j = n \/ j \in 1 .. Len(journal)
          /\ k = n \/ k \in 1 .. Len(journal)
        BY <1>1, <1>n
    <2> QED
        BY <2>1, <2>2, <2>3, <2>4
<1>6. j < k /\ (journal'[j].type = "OrderIntent" <=> journal'[k].type = "OrderIntent")
          => journal'[j].id < journal'[k].id
    <2>1. CASE j \in 1 .. Len(journal) /\ k \in 1 .. Len(journal)
        BY <1>1, <2>1 DEF JournalLifecycle
    <2>2. CASE j \in 1 .. Len(journal) /\ k = n
        BY <1>1, <2>2
    <2>3. j < k => j \in 1 .. Len(journal) /\ (k = n \/ k \in 1 .. Len(journal))
        BY <1>1, <1>n
    <2> QED
        BY <2>1, <2>2, <2>3
<1>7. ASSUME journal'[k].type # "OrderIntent"
      PROVE  \E i \in 1 .. k - 1 :
                 journal'[i] = [type |-> "OrderIntent", id |-> journal'[k].id]
    <2>1. CASE k \in 1 .. Len(journal)
        <3>1. PICK i \in 1 .. k - 1 :
                  journal[i] = [type |-> "OrderIntent", id |-> journal[k].id]
            BY <1>1, <1>7, <2>1 DEF JournalLifecycle
        <3>2. i \in 1 .. Len(journal)
            BY <1>1, <2>1
        <3> QED
            BY <1>1, <2>1, <3>1, <3>2
    <2>2. CASE k = n
        <3>1. PICK i \in 1 .. Len(journal) :
                  journal[i].type = "OrderIntent" /\ journal[i].id = e.id
            BY <1>1, <1>7, <2>2 DEF Journaled
        <3>2. journal[i] = [type |-> "OrderIntent", id |-> e.id]
            BY <1>1, <3>1 DEF Entry
        <3>3. i \in 1 .. k - 1
            BY <1>1, <1>n, <2>2
        <3> QED
            BY <1>1, <2>2, <3>2, <3>3
    <2> QED
        BY <1>1, <1>n, <2>1, <2>2
<1> QED
    BY <1>5, <1>6, <1>7

\* The ids with an outcome.
Answered == Journaled("GatewayAck") \cup Journaled("GatewayReject")

\* Whatever is in flight has its intent in the journal and no outcome yet; no
\* record runs ahead of the numbering.
JournalKnows ==
    /\ \A x \in Journaled("OrderIntent") \cup Answered : x < nextId
    /\ \A x \in Answered : \A m \in InFlight : x < m.id
    /\ journalOk => \A m \in InFlight \cup exchange : m.id \in Journaled("OrderIntent")
    /\ JournalLifecycle
    /\ JournalRecoversLive

\* Every record is one of the sets' and its id is a number.
LEMMA JournaledTypes ==
    ASSUME Types
    PROVE  /\ \A x \in Journaled("OrderIntent") \cup Answered : x \in Nat
           /\ \A k \in 1 .. Len(journal) :
                 /\ journal[k].type = "OrderIntent" => journal[k].id \in Journaled("OrderIntent")
                 /\ journal[k].type # "OrderIntent" => journal[k].id \in Answered
<1>1. \A k \in 1 .. Len(journal) :
          /\ journal[k].type \in {"OrderIntent", "GatewayAck", "GatewayReject"}
          /\ journal[k].id \in Nat
    BY EntryTypes DEF Types
<1> QED
    BY <1>1 DEF Journaled, Answered

\* The journal of a step that writes no record.
LEMMA SameJournal ==
    ASSUME UNCHANGED journal
    PROVE  /\ \A t : Journaled(t)' = Journaled(t)
           /\ Answered' = Answered
           /\ (JournalLifecycle => JournalLifecycle')
<1>1. \A t : Journaled(t)' = Journaled(t)
    BY DEF Journaled
<1> QED
    BY <1>1 DEF Answered, JournalLifecycle

\* The journal keeps up with every step.
LEMMA NextJournalKnows ==
    ASSUME Types, IdOrder, ExchangeOrder, JournalKnows, [Next]_vars
    PROVE  JournalKnows'
<1>0. /\ \A m \in InFlight : m.id \in Nat
      /\ nextId \in Nat /\ journal \in Seq(Entry) /\ journalOk \in BOOLEAN
      /\ \A x \in Journaled("OrderIntent") \cup Answered : x \in Nat
    BY InFlightIds, JournaledTypes DEF Types, TypeOK
<1>a. ASSUME UNCHANGED <<journal, journalOk, live>>, nextId' \in {nextId, nextId + 1},
             \A m \in InFlight' : \E o \in InFlight : o.id = m.id,
             \A e \in exchange' : \E o \in InFlight \cup exchange : o.id = e.id
      PROVE  JournalKnows'
    <2>1. /\ Journaled("OrderIntent")' = Journaled("OrderIntent") /\ Answered' = Answered
          /\ JournalLifecycle'
        BY <1>a, SameJournal DEF JournalKnows
    <2>2. JournalRecoversLive'
        BY <1>a, SameJournal DEF JournalKnows, JournalRecoversLive
    <2>3. \A x \in Journaled("OrderIntent") \cup Answered : x < nextId'
        BY <1>0, <1>a DEF JournalKnows
    <2>4. \A x \in Answered : \A m \in InFlight' : x < m.id
        BY <1>a DEF JournalKnows
    <2>5. journalOk' => \A m \in InFlight' \cup exchange' : m.id \in Journaled("OrderIntent")
        BY <1>a DEF JournalKnows
    <2> QED
        BY <2>1, <2>2, <2>3, <2>4, <2>5 DEF JournalKnows
<1>1. CASE UNCHANGED orderVars
    BY <1>1, <1>a, StillPlaces DEF orderVars
<1>2. CASE OmsOnSignal
    <2>1. /\ nextId' = nextId + 1 /\ exchange' = exchange
          /\ InFlight' = InFlight \cup InHand(oHeld)'
          /\ \A m \in InHand(oHeld)' : m.id = nextId
        BY <1>2, OnSignalEffect, OnSignalPlaces DEF InFlight
    <2>2. CASE UNCHANGED <<live, journal, journalOk, oHeld>>
        <3>1. InHand(oHeld)' = InHand(oHeld)
            BY <2>2 DEF InHand
        <3>2. InFlight' = InFlight
            BY <2>1, <3>1 DEF InFlight
        <3> QED
            BY <1>a, <2>1, <2>2, <3>2
    <2>3. CASE live' = live \cup {nextId} /\ JournalAppend("OrderIntent", nextId)
        <3>1. \/ /\ journal' = Append(journal, [type |-> "OrderIntent", id |-> nextId])
                 /\ journalOk /\ journalOk'
              \/ journal' = journal /\ ~journalOk'
            BY <1>0, <2>3, JournalEffect
        <3>2. CASE journal' = journal /\ ~journalOk'
            <4>1. /\ Journaled("OrderIntent")' = Journaled("OrderIntent")
                  /\ Answered' = Answered /\ JournalLifecycle'
                BY <3>2, SameJournal DEF JournalKnows
            <4> QED
                BY <1>0, <2>1, <3>2, <4>1 DEF JournalKnows, JournalRecoversLive
        <3>3. CASE /\ journal' = Append(journal, [type |-> "OrderIntent", id |-> nextId])
                   /\ journalOk /\ journalOk'
            <4> DEFINE e == [type |-> "OrderIntent", id |-> nextId]
            <4>1. e \in Entry /\ e.type = "OrderIntent" /\ e.id = nextId
                BY <1>0 DEF Entry
            <4>2. journal' = Append(journal, e)
                BY <3>3
            <4> HIDE DEF e
            <4>3. /\ Journaled("OrderIntent")' = Journaled("OrderIntent") \cup {nextId}
                  /\ Journaled("GatewayAck")' = Journaled("GatewayAck")
                  /\ Journaled("GatewayReject")' = Journaled("GatewayReject")
                  /\ Answered' = Answered
                BY <1>0, <4>1, <4>2, JournaledAppend DEF Answered
            <4>4. \A k \in 1 .. Len(journal) : journal[k].id < e.id /\ journal[k].id # e.id
                BY <1>0, <4>1, JournaledTypes DEF JournalKnows
            <4>5. JournalLifecycle'
                BY <1>0, <4>1, <4>2, <4>4, LifecycleAppend DEF JournalKnows
            <4>6. JournalRecoversLive'
                <5>1. nextId \notin Journaled("GatewayReject")
                    BY <1>0 DEF JournalKnows, Answered
                <5>2. live = Journaled("OrderIntent") \ Journaled("GatewayReject")
                    BY <3>3 DEF JournalKnows, JournalRecoversLive
                <5> QED
                    BY <2>3, <4>3, <5>1, <5>2 DEF JournalRecoversLive
            <4>7. \A x \in (Journaled("OrderIntent") \cup Answered)' : x < nextId'
                BY <1>0, <2>1, <4>3 DEF JournalKnows
            <4>8. \A x \in Answered' : \A m \in InFlight' : x < m.id
                BY <2>1, <4>3 DEF JournalKnows
            <4>9. \A m \in InFlight' \cup exchange' : m.id \in Journaled("OrderIntent")'
                BY <2>1, <3>3, <4>3 DEF JournalKnows
            <4> QED
                BY <4>5, <4>6, <4>7, <4>8, <4>9 DEF JournalKnows
        <3> QED
            BY <3>1, <3>2, <3>3
    <2> QED
        BY <1>2, <2>2, <2>3, OnSignalEffect
<1>3. CASE OmsSend
    <2>1. InFlight' \subseteq InFlight
        BY <1>3, SendOrderPlaces DEF InFlight
    <2> QED
        BY <1>3, <1>a, <2>1, SendOrderEffect
<1>4. CASE OmsOnResponse
    <2> DEFINE r == Head(Responses)
    <2>1. /\ InFlight' \subseteq InFlight /\ r \in InFlight
          /\ \A m \in InFlight' : r.id < m.id
          /\ nextId' = nextId /\ exchange' = exchange
        BY <1>4, OnResponseEffect, OnResponsePlaces DEF InFlight
    <2>2. r.id \in Nat
        BY <1>0, <2>1
    <2>3. PICK type \in {"GatewayAck", "GatewayReject"} :
              /\ JournalAppend(type, r.id)
              /\ live' = IF type = "GatewayAck" THEN live ELSE live \ {r.id}
        BY <1>4, OnResponseEffect
    <2> HIDE DEF r
    <2>4. \/ /\ journal' = Append(journal, [type |-> type, id |-> r.id])
             /\ journalOk /\ journalOk'
          \/ journal' = journal /\ ~journalOk'
        BY <1>0, <2>2, <2>3, JournalEffect
    <2>5. CASE journal' = journal /\ ~journalOk'
        <3>1. /\ Journaled("OrderIntent")' = Journaled("OrderIntent")
              /\ Answered' = Answered /\ JournalLifecycle'
            BY <2>5, SameJournal DEF JournalKnows
        <3> QED
            BY <2>1, <2>5, <3>1 DEF JournalKnows, JournalRecoversLive
    <2>6. CASE /\ journal' = Append(journal, [type |-> type, id |-> r.id])
               /\ journalOk /\ journalOk'
        <3> DEFINE e == [type |-> type, id |-> r.id]
        <3>1. e \in Entry /\ e.type = type /\ e.id = r.id
            BY <2>2 DEF Entry
        <3>2. journal' = Append(journal, e)
            BY <2>6
        <3> HIDE DEF e
        <3>3. /\ Journaled("OrderIntent")' = Journaled("OrderIntent")
              /\ type = "GatewayAck" =>
                    /\ Journaled("GatewayAck")' = Journaled("GatewayAck") \cup {r.id}
                    /\ Journaled("GatewayReject")' = Journaled("GatewayReject")
              /\ type = "GatewayReject" =>
                    /\ Journaled("GatewayAck")' = Journaled("GatewayAck")
                    /\ Journaled("GatewayReject")' = Journaled("GatewayReject") \cup {r.id}
            BY <1>0, <3>1, <3>2, JournaledAppend
        <3>4. Answered' = Answered \cup {r.id}
            BY <3>3 DEF Answered
        <3>5. /\ \A k \in 1 .. Len(journal) :
                    journal[k].type # "OrderIntent" => journal[k].id < e.id
              /\ e.id \in Journaled("OrderIntent") /\ e.type # "OrderIntent"
            BY <2>1, <2>6, <3>1, JournaledTypes DEF JournalKnows
        <3>6. JournalLifecycle'
            BY <1>0, <3>1, <3>2, <3>5, LifecycleAppend DEF JournalKnows
        <3>7. JournalRecoversLive'
            <4>1. live = Journaled("OrderIntent") \ Journaled("GatewayReject")
                BY <2>6 DEF JournalKnows, JournalRecoversLive
            <4> QED
                BY <2>3, <3>3, <4>1 DEF JournalRecoversLive
        <3>8. \A x \in (Journaled("OrderIntent") \cup Answered)' : x < nextId'
            BY <2>1, <3>3, <3>4 DEF JournalKnows, IdOrder
        <3>9. \A x \in Answered' : \A m \in InFlight' : x < m.id
            BY <2>1, <3>4 DEF JournalKnows
        <3>10. \A m \in InFlight' \cup exchange' : m.id \in Journaled("OrderIntent")'
            BY <2>1, <2>6, <3>3 DEF JournalKnows
        <3> QED
            BY <3>6, <3>7, <3>8, <3>9, <3>10 DEF JournalKnows
    <2> QED
        BY <2>4, <2>5, <2>6
<1>5. CASE GatewaySendOrder
    <2>1. /\ Head(Orders) \in InFlight
          /\ \A m \in InFlight' : \E o \in InFlight : o.id = m.id
        BY <1>5, OnOrderPlaces DEF InFlight
    <2>2. \A e \in exchange' : \E o \in InFlight \cup exchange : o.id = e.id
        BY <1>5, <2>1, OnOrderEffect
    <2> QED
        BY <1>5, <1>a, <2>1, <2>2, OnOrderEffect
<1>6. CASE GatewayRespond
    <2>1. InFlight' \subseteq InFlight
        BY <1>6, RespondPlaces DEF InFlight
    <2> QED
        BY <1>6, <1>a, <2>1, RespondEffect
<1> QED
    BY <1>1, <1>2, <1>3, <1>4, <1>5, <1>6, OrderSteps

-----------------------------------------------------------------------------
(* The drop counters *)

Pending    == {m.id : m \in InFlight}
Unanswered == live \ Journaled("GatewayAck")

\* OrdersAccounted, in the terms of the proof.
Accounted ==
    journalOk => Cardinality(Unanswered) =
        Cardinality(Pending) + dropped["oms_to_gateway"] + dropped["gateway_to_oms"]

\* Adding a new element to a set and removing one, as numbers.
LEMMA CountOne ==
    ASSUME NEW S, IsFiniteSet(S), NEW x
    PROVE  /\ Cardinality(S) \in Nat
           /\ x \notin S => Cardinality(S \cup {x}) = Cardinality(S) + 1
           /\ x \in S => Cardinality(S \ {x}) = Cardinality(S) - 1
BY FS_CardinalityType, FS_AddElement, FS_RemoveElement

\* There are finitely many live orders, and so of the others.
LEMMA CountsFinite ==
    ASSUME Types, LiveKnows
    PROVE  IsFiniteSet(Pending) /\ IsFiniteSet(Unanswered) /\ Pending \subseteq live
<1>1. IsFiniteSet(1 .. nextId - 1)
    BY FS_Interval DEF Types
<1>2. IsFiniteSet(live)
    BY <1>1, FS_Subset DEF Types, TypeOK
<1>3. Pending \subseteq live /\ Unanswered \subseteq live
    BY DEF Pending, Unanswered, LiveKnows
<1> QED
    BY <1>2, <1>3, FS_Subset

\* A refused message leaves the places and is counted; a response taken
\* leaves the places and the unanswered orders: the sum stays.
LEMMA NextAccounted ==
    ASSUME Types, IdOrder, LiveKnows, JournalKnows, Accounted, [Next]_vars
    PROVE  Accounted'
<1>0. /\ \A m \in InFlight : m.id \in Nat
      /\ nextId \in Nat /\ journal \in Seq(Entry) /\ journalOk \in BOOLEAN
      /\ \A x \in Journaled("OrderIntent") \cup Answered : x \in Nat
      /\ dropped["oms_to_gateway"] \in Nat /\ dropped["gateway_to_oms"] \in Nat
    BY InFlightIds, JournaledTypes, QueueNames DEF Types, TypeOK
<1>f. /\ IsFiniteSet(Pending) /\ IsFiniteSet(Unanswered)
      /\ Cardinality(Pending) \in Nat /\ Cardinality(Unanswered) \in Nat
    BY CountsFinite, CountOne
<1>1. CASE UNCHANGED orderVars
    <2>1. Pending' = Pending
        BY <1>1, StillPlaces DEF Pending
    <2>2. Unanswered' = Unanswered
        BY <1>1, SameJournal DEF Unanswered, orderVars
    <2> QED
        BY <1>1, <2>1, <2>2 DEF Accounted, orderVars
<1>2. CASE OmsOnSignal
    <2>1. dropped' = dropped
        BY <1>2, OnSignalEffect
    <2>2. CASE UNCHANGED <<live, journal, journalOk, oHeld>>
        <3>1. InFlight' = InFlight
            BY <1>2, <2>2, OnSignalPlaces DEF InFlight, InHand
        <3>2. Pending' = Pending /\ Unanswered' = Unanswered
            BY <2>2, <3>1, SameJournal DEF Pending, Unanswered
        <3> QED
            BY <2>1, <2>2, <3>2 DEF Accounted
    <2>3. CASE /\ live' = live \cup {nextId} /\ JournalAppend("OrderIntent", nextId)
               /\ oHeld' \in Order /\ oHeld'.id = nextId
        <3> SUFFICES ASSUME journalOk' PROVE Accounted'
            BY DEF Accounted
        <3> DEFINE e == [type |-> "OrderIntent", id |-> nextId]
        <3>1. journal' = Append(journal, e) /\ journalOk /\ e \in Entry
            BY <1>0, <2>3, JournalEffect
        <3>2. e.type # "GatewayAck"
            OBVIOUS
        <3> HIDE DEF e
        <3>3. Journaled("GatewayAck")' = Journaled("GatewayAck")
            BY <1>0, <3>1, <3>2, JournaledAppend
        <3>4. nextId \notin live /\ nextId \notin Journaled("GatewayAck")
            BY <1>0 DEF Types, TypeOK, JournalKnows, Answered
        <3>5. Unanswered' = Unanswered \cup {nextId} /\ nextId \notin Unanswered
            BY <2>3, <3>3, <3>4 DEF Unanswered
        <3>6. InHand(oHeld)' = {oHeld'}
            BY <2>3, NoneIsNone DEF InHand
        <3>7. InFlight' = InFlight \cup {oHeld'}
            BY <1>2, <3>6, OnSignalPlaces DEF InFlight
        <3>8. Pending' = Pending \cup {nextId}
            BY <2>3, <3>7 DEF Pending
        <3>9. nextId \notin Pending
            BY <1>0 DEF Pending, IdOrder
        <3>10. /\ Cardinality(Unanswered') = Cardinality(Unanswered) + 1
               /\ Cardinality(Pending') = Cardinality(Pending) + 1
            BY <1>f, <3>5, <3>8, <3>9, CountOne
        <3>11. Cardinality(Unanswered) =
                  Cardinality(Pending) + dropped["oms_to_gateway"] + dropped["gateway_to_oms"]
            BY <3>1 DEF Accounted
        <3> QED
            BY <1>0, <1>f, <2>1, <3>10, <3>11 DEF Accounted
    <2> QED
        BY <1>2, <2>2, <2>3, OnSignalEffect
<1>3. CASE OmsSend
    <2>1. /\ UNCHANGED <<journalOk, dropped["gateway_to_oms"]>>
          /\ Unanswered' = Unanswered
        BY <1>3, SendOrderEffect, SameJournal DEF Unanswered
    <2>2. CASE /\ Elem(Orders)' = Elem(Orders) \cup {oHeld}
               /\ UNCHANGED dropped["oms_to_gateway"]
        <3>1. InFlight' = InFlight
            BY <1>3, <2>2, SendOrderPlaces DEF InFlight
        <3> QED
            BY <2>1, <2>2, <3>1 DEF Accounted, Pending
    <2>3. CASE /\ Elem(Orders)' = Elem(Orders)
               /\ dropped'["oms_to_gateway"] = dropped["oms_to_gateway"] + 1
        <3>1. /\ InFlight = InFlight' \cup {oHeld}
              /\ \A m \in InFlight' : m.id < oHeld.id
            BY <1>3, <2>3, SendOrderPlaces DEF InFlight, IdOrder
        <3>2. \A m \in InFlight' : m.id # oHeld.id
            BY <1>0, <3>1
        <3>3. Pending' = Pending \ {oHeld.id} /\ oHeld.id \in Pending
            BY <3>1, <3>2 DEF Pending
        <3>4. Cardinality(Pending') = Cardinality(Pending) - 1
            BY <1>f, <3>3, CountOne
        <3> QED
            BY <1>0, <1>f, <2>1, <2>3, <3>4 DEF Accounted
    <2> QED
        BY <1>3, <2>2, <2>3, SendOrderPlaces
<1>4. CASE OmsOnResponse
    <2> DEFINE r == Head(Responses)
    <2>1. /\ InFlight = InFlight' \cup {r} /\ \A m \in InFlight' : r.id < m.id
          /\ dropped' = dropped
        BY <1>4, OnResponseEffect, OnResponsePlaces DEF InFlight
    <2>2. r.id \in Nat /\ \A m \in InFlight' : m.id # r.id
        BY <1>0, <2>1
    <2>3. PICK type \in {"GatewayAck", "GatewayReject"} :
              /\ JournalAppend(type, r.id)
              /\ live' = IF type = "GatewayAck" THEN live ELSE live \ {r.id}
        BY <1>4, OnResponseEffect
    <2> HIDE DEF r
    <2> SUFFICES ASSUME journalOk' PROVE Accounted'
        BY DEF Accounted
    <2> DEFINE e == [type |-> type, id |-> r.id]
    <2>4. journal' = Append(journal, e) /\ journalOk /\ e \in Entry
        BY <1>0, <2>2, <2>3, JournalEffect
    <2>5. e.type = type /\ e.id = r.id
        OBVIOUS
    <2> HIDE DEF e
    <2>6. /\ type = "GatewayAck" =>
                Journaled("GatewayAck")' = Journaled("GatewayAck") \cup {r.id}
          /\ type = "GatewayReject" =>
                Journaled("GatewayAck")' = Journaled("GatewayAck")
        BY <1>0, <2>4, <2>5, JournaledAppend
    <2>7. r.id \in live /\ r.id \notin Journaled("GatewayAck")
        BY <1>0, <2>1, <2>2 DEF LiveKnows, JournalKnows, Answered
    <2>8. Unanswered' = Unanswered \ {r.id} /\ r.id \in Unanswered
        BY <2>3, <2>6, <2>7 DEF Unanswered
    <2>9. Pending' = Pending \ {r.id} /\ r.id \in Pending
        BY <2>1, <2>2 DEF Pending
    <2>10. /\ Cardinality(Unanswered') = Cardinality(Unanswered) - 1
           /\ Cardinality(Pending') = Cardinality(Pending) - 1
        BY <1>f, <2>8, <2>9, CountOne
    <2>11. Cardinality(Unanswered) =
              Cardinality(Pending) + dropped["oms_to_gateway"] + dropped["gateway_to_oms"]
        BY <2>4 DEF Accounted
    <2>12. dropped' = dropped
        BY <2>1
    <2> QED
        BY <1>0, <1>f, <2>10, <2>11, <2>12 DEF Accounted
<1>5. CASE GatewaySendOrder
    <2>1. /\ UNCHANGED <<journalOk, dropped>>
          /\ Unanswered' = Unanswered
        BY <1>5, OnOrderEffect, SameJournal DEF Unanswered
    <2>2. /\ \A m \in InFlight' : \E o \in InFlight : o.id = m.id
          /\ \A o \in InFlight : \E m \in InFlight' : o.id = m.id
        BY <1>5, OnOrderPlaces DEF InFlight
    <2>3. Pending' = Pending
        BY <2>2 DEF Pending
    <2> QED
        BY <2>1, <2>3 DEF Accounted
<1>6. CASE GatewayRespond
    <2>1. /\ UNCHANGED <<journalOk, dropped["oms_to_gateway"]>>
          /\ Unanswered' = Unanswered
        BY <1>6, RespondEffect, SameJournal DEF Unanswered
    <2>2. CASE /\ Elem(Responses)' = Elem(Responses) \cup {gHeld}
               /\ UNCHANGED dropped["gateway_to_oms"]
        <3>1. InFlight' = InFlight
            BY <1>6, <2>2, RespondPlaces DEF InFlight
        <3> QED
            BY <2>1, <2>2, <3>1 DEF Accounted, Pending
    <2>3. CASE /\ Elem(Responses)' = Elem(Responses)
               /\ dropped'["gateway_to_oms"] = dropped["gateway_to_oms"] + 1
        <3>1. InFlight = InFlight' \cup {gHeld}
            BY <1>6, <2>3, RespondPlaces DEF InFlight
        <3>2. \A m \in InFlight' : m.id # gHeld.id
            BY <1>0, <1>6, <2>3, <3>1, RespondPlaces DEF InFlight, IdOrder
        <3>3. Pending' = Pending \ {gHeld.id} /\ gHeld.id \in Pending
            BY <3>1, <3>2 DEF Pending
        <3>4. Cardinality(Pending') = Cardinality(Pending) - 1
            BY <1>f, <3>3, CountOne
        <3> QED
            BY <1>0, <1>f, <2>1, <2>3, <3>4 DEF Accounted
    <2> QED
        BY <1>6, <2>2, <2>3, RespondPlaces
<1> QED
    BY <1>1, <1>2, <1>3, <1>4, <1>5, <1>6, OrderSteps

-----------------------------------------------------------------------------
(* The inductive invariant and the theorems *)

IInv == /\ Types /\ IdOrder /\ ExchangeOrder /\ SrcOrder
        /\ LiveKnows /\ JournalKnows /\ Accounted

\* The threads start with empty queues, hands, journal and exchange.
LEMMA InitIInv == Init => IInv
<1> SUFFICES ASSUME Init PROVE IInv
    OBVIOUS
<1>1. Types
    BY InitTypes
<1>2. /\ Elem(Orders) = {} /\ Elem(Responses) = {} /\ Elem(Signals) = {}
      /\ IdsRise(Orders) /\ IdsRise(Responses) /\ SrcsRise(Signals) /\ SrcsRise(Orders)
    <2>1. Orders = <<>> /\ Responses = <<>> /\ Signals = <<>>
        BY QueueNames DEF Init, Orders, Responses, Signals
    <2>2. Elem(<<>>) = {} /\ IdsRise(<<>>) /\ SrcsRise(<<>>)
        BY DEF Elem, IdsRise, SrcsRise
    <2> QED
        BY <2>1, <2>2
<1>3. InHand(oHeld) = {} /\ InHand(gHeld) = {} /\ exchange = {} /\ live = {}
    BY DEF Init, InHand
<1>4. InFlight = {}
    BY <1>2, <1>3 DEF InFlight
<1>5. IdOrder /\ ExchangeOrder /\ SrcOrder /\ LiveKnows
    BY <1>2, <1>3, <1>4 DEF IdOrder, ExchangeOrder, SrcOrder, LiveKnows
<1>6. \A t : Journaled(t) = {}
    BY DEF Init, Journaled
<1>7. JournalKnows
    <2>1. Answered = {}
        BY <1>6 DEF Answered
    <2>2. JournalLifecycle
        BY DEF Init, JournalLifecycle
    <2> QED
        BY <1>3, <1>4, <1>6, <2>1, <2>2 DEF JournalKnows, JournalRecoversLive
<1>8. Accounted
    <2>1. Pending = {} /\ Unanswered = {}
        BY <1>3, <1>4 DEF Pending, Unanswered
    <2>2. dropped["oms_to_gateway"] = 0 /\ dropped["gateway_to_oms"] = 0
        BY QueueNames DEF Init
    <2> QED
        BY <2>1, <2>2, FS_EmptySet DEF Accounted
<1> QED
    BY <1>1, <1>5, <1>7, <1>8 DEF IInv

\* Every step of every thread keeps the invariant.
LEMMA NextIInv == IInv /\ [Next]_vars => IInv'
<1> SUFFICES ASSUME IInv, [Next]_vars PROVE IInv'
    OBVIOUS
<1>1. Types'
    BY NextTypes DEF IInv
<1> QED
    BY <1>1, NextIdOrder, NextExchangeOrder, NextSrcOrder, NextLiveKnows,
       NextJournalKnows, NextAccounted DEF IInv

\* The invariant holds throughout.
LEMMA Inductive == Spec => []IInv
BY InitIInv, NextIInv, PTL DEF Spec

\* Every queue stays within BUS_CAPACITY and every thread in its loop, for
\* every size of the queues.
THEOREM TypeCorrect == Spec => []TypeOK
<1>1. IInv => TypeOK
    BY DEF IInv, Types
<1> QED
    BY <1>1, Inductive, PTL

\* The sets of ids the properties speak of are those of the messages in
\* flight.
LEMMA FlightSets ==
    ASSUME Types
    PROVE  /\ AtGateway \cup AboutToSend = Pending
           /\ AtGateway \subseteq Pending
           /\ AtExchange = {e.id : e \in exchange}
<1>1. /\ Messages("oms_to_gateway") = Elem(Orders)
      /\ Messages("gateway_to_oms") = Elem(Responses)
    BY DEF Messages, Elem, Orders, Responses
<1>2. \A m \in Elem(Orders) \cup Elem(Responses) : m # None
    BY InFlightIds DEF InFlight
<1>3. (Messages("oms_to_gateway") \cup Messages("gateway_to_oms") \cup {gHeld}) \ {None}
         = Elem(Orders) \cup Elem(Responses) \cup InHand(gHeld)
    BY <1>1, <1>2 DEF InHand
<1> QED
    BY <1>3 DEF AtGateway, AboutToSend, AtExchange, Pending, InFlight, InHand

\* Intent first, side effect second: as long as the journal takes records,
\* an order that has left the OMS or is at the exchange is in it.
THEOREM IntentFirst == Spec => []IntentBeforeSend
<1>1. IInv => IntentBeforeSend
    <2> SUFFICES ASSUME IInv, journalOk
                 PROVE  AtGateway \cup AtExchange \subseteq Journaled("OrderIntent")
        BY DEF IntentBeforeSend
    <2> QED
        BY FlightSets DEF IInv, JournalKnows, Pending
<1> QED
    BY <1>1, Inductive, PTL

\* A recovery that reads the journal finds exactly the OMS's live_orders_.
THEOREM JournalIsLive == Spec => []JournalRecoversLive
<1>1. IInv => JournalRecoversLive
    BY DEF IInv, JournalKnows
<1> QED
    BY <1>1, Inductive, PTL

\* In the journal every order has one intent, then at most one outcome, and
\* intents and outcomes are each in the order of the ids.
THEOREM LifecycleKept == Spec => []JournalLifecycle
<1>1. IInv => JournalLifecycle
    BY DEF IInv, JournalKnows
<1> QED
    BY <1>1, Inductive, PTL

\* The in-process runtimes have no ghost orders: on_gateway_reject erases no
\* order the exchange holds, whatever the queues drop.
THEOREM NoGhosts == Spec => []NoGhostOrders
<1>1. IInv => NoGhostOrders
    BY DEF IInv, LiveKnows, NoGhostOrders, AtExchange
<1> QED
    BY <1>1, Inductive, PTL

\* The drop counters of the two OMS queues explain every order that is live
\* without an acknowledgement and nowhere on its way.
THEOREM DropsExplainLoss == Spec => []OrdersAccounted
<1>1. IInv => OrdersAccounted
    <2> SUFFICES ASSUME IInv PROVE OrdersAccounted
        OBVIOUS
    <2>1. AtGateway \cup AboutToSend = Pending
        BY FlightSets DEF IInv
    <2> QED
        BY <2>1 DEF IInv, Accounted, OrdersAccounted, Unanswered
<1> QED
    BY <1>1, Inductive, PTL

\* The exchange gets the orders in the order of their ids, and never one
\* priced from an older book than the one before it.
THEOREM PricesDoNotGoBack == Spec => []NoStalePrice
<1>1. IInv => NoStalePrice
    BY DEF IInv, ExchangeOrder, SrcOrder, NoStalePrice
<1> QED
    BY <1>1, Inductive, PTL
=============================================================================

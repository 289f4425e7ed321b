-------------------------- MODULE LiveRouterProofs --------------------------
(***************************************************************************)
(* Proofs about LiveRouter for any venues, symbols, frames and limits and  *)
(* any number of refused records.                                          *)
(*                                                                         *)
(* The argument: the mutex makes the parts of process_update one critical  *)
(* section (TypeOK), so that trading is enabled until its first route is   *)
(* counted (InsideEnabled) and what an update has recorded is still the    *)
(* last event when its next record is made (RouteFollows).  The books are  *)
(* then exactly what the recorded updates add up to (BooksRecorded), and   *)
(* the best prices over the books are best prices over the record.  A file *)
(* whose numbers have no hole up to a record holds the same events up to   *)
(* it (FilesKept).  What a book holds is exact because the digits of a     *)
(* numeral are read as positional notation says (DigitsConcat), whatever   *)
(* their number.                                                           *)
(***************************************************************************)
EXTENDS LiveRouter, SequenceTheorems, FiniteSetTheorems, WellFoundedInduction, TLAPS

Update == {Normalize(f) : f \in Frames} \cup {None}
Amount == {u.ask : u \in Update} \cup {u.bid : u \in Update}
Event  == [kind : {"update", "Buy", "Sell"}, by : Stream, venue : Venue,
           px : Update \cup Amount]

\* The updates of stream t among the first k events of es, and the quote of
\* the last of them.
UpdatesOf(es, k, t) == {j \in 1 .. k : es[j].kind = "update" /\ es[j].by = t}

HasLast(S) == S = {} \/ \E m \in S : \A j \in S : m >= j

BookAt(es, k, t) ==
    IF UpdatesOf(es, k, t) = {} THEN None ELSE es[Max(UpdatesOf(es, k, t))].px

\* Max is defined for every set of updates it is applied to.
LastsExist(es) == \A k \in 0 .. Len(es), t \in Stream : HasLast(UpdatesOf(es, k, t))

\* A stream with an update in hand has not had all its updates.
InHand ==
    \A t \in Stream : pc[t] \in {"lock"} \cup Inside => received[t] < MaxUpdates

\* Trading stays enabled while a stream is inside process_update and has not
\* routed, and above the limit of routes it is off.
InsideEnabled ==
    /\ \A t \in Stream : pc[t] \in {"update", "buy"} => enabled
    /\ routes > MaxRoutes => ~ enabled

\* The limit is overrun by one route before the second one of an update.
Overrun ==
    /\ \A t \in Stream : pc[t] = "sell" => routes <= MaxRoutes + 1
    /\ routes <= MaxRoutes + 2

EventsTyped == events \in Seq(Event)

RouteFollows ==
    \A t \in Stream : pc[t] \in {"buy", "sell"} =>
        /\ Len(events) >= 1 /\ events[Len(events)].by = t
        /\ events[Len(events)].kind = IF pc[t] = "buy" THEN "update" ELSE "Buy"

BooksRecorded == \A t \in Stream : BookAt(events, Len(events), t) = books[t]

AllExplained == \A k \in 1 .. Len(events) : Explained(events, k)

\* Every record of a file is the event of its number, and numbers rise.
FilesKept ==
    /\ file \in [File -> Seq([seq : Nat, event : Event])]
    /\ \A f \in File : \A k \in 1 .. Len(file[f]) :
          /\ file[f][k].seq \in 1 .. Len(events)
          /\ file[f][k].event = events[file[f][k].seq]
          /\ file[f][k].seq >= k
          /\ \A j \in 1 .. k : file[f][k].seq - file[f][j].seq >= k - j

RoutesCounted == IsFiniteSet(RoutesMade) /\ Cardinality(RoutesMade) = routes

\* The inductive invariant.
Control  == TypeOK /\ InHand /\ InsideEnabled /\ Overrun
Recorded == /\ EventsTyped /\ RouteFollows /\ LastsExist(events) /\ BooksRecorded
            /\ AllExplained /\ FilesKept /\ RoutesCounted

-----------------------------------------------------------------------------
(* Control: the mutex and the switch *)

\* Initially no stream is inside process_update and trading is on.
LEMMA InitControl == Init => Control
<1> SUFFICES ASSUME Init PROVE Control
    OBVIOUS
<1>1. /\ pc \in [Stream -> {"read", "lock", "done"} \cup Inside]
      /\ received \in [Stream -> 0 .. MaxUpdates]
    BY RouterAssumption DEF Init
<1>2. /\ held \in [Stream -> {Normalize(f) : f \in Frames} \cup {None}]
      /\ books \in [Stream -> {Normalize(f) : f \in Frames} \cup {None}]
    BY DEF Init
<1>3. \A t \in Stream : pc[t] = "read" /\ lock # t
    BY RouterAssumption DEF Init
<1>4. /\ enabled \in BOOLEAN /\ enabled /\ halt \in BOOLEAN /\ routes = 0
      /\ cut \in [File -> BOOLEAN] /\ failures \in 0 .. MaxFailures
    <2>1. enabled \in BOOLEAN /\ enabled /\ halt \in BOOLEAN /\ cut \in [File -> BOOLEAN]
        BY Zenon DEF Init
    <2>2. routes = 0 /\ failures \in 0 .. MaxFailures
        BY RouterAssumption DEF Init
    <2> QED  BY <2>1, <2>2
<1>5. TypeOK
    BY <1>1, <1>2, <1>3, <1>4 DEF TypeOK, Inside
<1>6. InHand
    BY <1>3 DEF InHand, Inside
<1>7. InsideEnabled /\ Overrun
    BY RouterAssumption, <1>3, <1>4 DEF InsideEnabled, Overrun
<1> QED
    BY <1>5, <1>6, <1>7 DEF Control

\* What Record does to the two files' state.
LEMMA RecordTypes ==
    ASSUME TypeOK, NEW e, Record(e)
    PROVE  cut' \in [File -> BOOLEAN] /\ failures' \in 0 .. MaxFailures
<1>1. PICK refused \in SUBSET File, fragment \in BOOLEAN :
          /\ refused # {} => failures < MaxFailures
          /\ failures' = IF refused = {} THEN failures ELSE failures + 1
          /\ cut' = [f \in File |-> cut[f] \/ (f \in refused /\ (f = "journal" \/ fragment))]
    BY DEF Record
<1>2. cut' \in [File -> BOOLEAN]
    BY <1>1, Zenon DEF TypeOK
<1>3. failures' \in 0 .. MaxFailures
    BY <1>1, RouterAssumption DEF TypeOK
<1> QED  BY <1>2, <1>3

\* What OnRoute does to the switch.
LEMMA OnRouteFacts ==
    ASSUME TypeOK, InsideEnabled, OnRoute
    PROVE  /\ routes' = routes + 1 /\ routes' \in Nat /\ enabled' \in BOOLEAN
           /\ routes' > MaxRoutes => ~ enabled'
           /\ enabled => routes' <= MaxRoutes + 1
<1>1. routes' = routes + 1 /\ routes \in Nat /\ MaxRoutes \in Nat
    BY RouterAssumption DEF OnRoute, TypeOK
<1>2. enabled' = (enabled /\ routes + 1 <= MaxRoutes)
    BY DEF OnRoute
<1>3. enabled' \in BOOLEAN
    BY <1>2
<1>4. enabled' => routes + 1 <= MaxRoutes
    BY <1>2, Zenon
<1>5. enabled => routes <= MaxRoutes
    BY <1>1 DEF InsideEnabled
<1> QED  BY <1>1, <1>3, <1>4, <1>5

\* Every step keeps the types, the mutual exclusion and the switch's state.
LEMMA NextControl == Control /\ [Next]_vars => Control'
<1> SUFFICES ASSUME Control, [Next]_vars PROVE Control'
    OBVIOUS
<1> USE RouterAssumption
<1> USE DEF Control, TypeOK, InHand, InsideEnabled, Overrun, Inside
<1>1. CASE UNCHANGED vars
    BY <1>1 DEF vars, streamVars, record
<1>2. CASE OperatorTogglesHalt
    BY <1>2 DEF OperatorTogglesHalt, streamVars, record
<1>3. CASE Joined
    BY <1>3 DEF Joined, vars, streamVars, record
<1>4. ASSUME NEW t \in Stream, NEW frame \in Frames, Receive(t, frame)
      PROVE  Control'
    BY <1>4 DEF Receive, Goto, record
<1>5. ASSUME NEW t \in Stream, NEW frame \in Frames, SkipFrame(t, frame)
      PROVE  Control'
    BY <1>5 DEF SkipFrame, vars, streamVars, record
<1>6. ASSUME NEW t \in Stream, StreamEnds(t) PROVE Control'
    BY <1>6 DEF StreamEnds, Goto, record
<1>7. ASSUME NEW t \in Stream, Enter(t) PROVE Control'
    <2>1. CASE enabled'
        BY <1>7, <2>1 DEF Enter, Goto, record
    <2>2. CASE ~ enabled'
        BY <1>7, <2>2 DEF Enter, Goto, Return, record
    <2> QED  BY <2>1, <2>2
<1>8. ASSUME NEW t \in Stream, UpdateRejected(t) PROVE Control'
    BY <1>8 DEF UpdateRejected, Return, Goto, record
<1>9. ASSUME NEW t \in Stream, UpdateBook(t) PROVE Control'
    <2>1. cut' \in [File -> BOOLEAN] /\ failures' \in 0 .. MaxFailures
        BY <1>9, RecordTypes DEF UpdateBook
    <2> QED
        BY <1>9, <2>1 DEF UpdateBook, Goto
<1>10. ASSUME NEW t \in Stream, RouteBuy(t) PROVE Control'
    <2>1. cut' \in [File -> BOOLEAN] /\ failures' \in 0 .. MaxFailures
        BY <1>10, RecordTypes DEF RouteBuy
    <2>2. /\ routes' = routes + 1 /\ routes' \in Nat /\ enabled' \in BOOLEAN
          /\ routes' > MaxRoutes => ~ enabled'
          /\ routes' <= MaxRoutes + 1
        <3>1. enabled /\ OnRoute
            BY <1>10 DEF RouteBuy
        <3> QED  BY <3>1, OnRouteFacts
    <2>3. /\ pc' = [pc EXCEPT ![t] = "sell"] /\ held' = held /\ received' = received
          /\ lock' = lock /\ lock = t /\ books' = books /\ halt' = halt
        BY <1>10 DEF RouteBuy, Goto
    <2>4. TypeOK' /\ InHand'
        BY <1>10, <2>1, <2>2, <2>3 DEF RouteBuy
    <2>5. \A u \in Stream : pc'[u] \notin {"update", "buy"}
        BY <1>10, <2>3 DEF RouteBuy
    <2> QED  BY <2>2, <2>4, <2>5
<1>11. ASSUME NEW t \in Stream, RouteSell(t) PROVE Control'
    <2>1. cut' \in [File -> BOOLEAN] /\ failures' \in 0 .. MaxFailures
        BY <1>11, RecordTypes DEF RouteSell
    <2>2. /\ routes' = routes + 1 /\ routes' \in Nat /\ enabled' \in BOOLEAN
          /\ routes' > MaxRoutes => ~ enabled'
          /\ routes <= MaxRoutes + 1
        BY <1>11, OnRouteFacts DEF RouteSell
    <2>3. /\ pc' = [pc EXCEPT ![t] = "read"] /\ held' = [held EXCEPT ![t] = None]
          /\ received' = [received EXCEPT ![t] = @ + 1]
          /\ lock' = None /\ lock = t /\ books' = books /\ halt' = halt
        BY <1>11 DEF RouteSell, Return, Goto
    <2>4. TypeOK' /\ InHand'
        BY <1>11, <2>1, <2>2, <2>3 DEF RouteSell
    <2>5. \A u \in Stream : pc'[u] \notin Inside
        BY <1>11, <2>3 DEF RouteSell
    <2> QED  BY <2>2, <2>4, <2>5
<1> QED
    BY <1>1, <1>2, <1>3, <1>4, <1>5, <1>6, <1>7, <1>8, <1>9, <1>10, <1>11
    DEF Next, Step, Process

\* The control part of the invariant holds in every reachable state.
LEMMA ControlHolds == Spec => []Control
BY InitControl, NextControl, PTL DEF Spec

\* Every variable keeps its type, and the mutex is held exactly by the stream
\* that is inside process_update, for any number of venues and symbols.
THEOREM TypeCorrect == Spec => []TypeOK
<1>1. Control => TypeOK
    BY DEF Control
<1> QED
    BY <1>1, ControlHolds, PTL

-----------------------------------------------------------------------------
(* Recorded: what the recorded updates add up to *)

\* fs is es with e behind it: the books of the shorter records are as they
\* were, and that of the longer one changes for the updated stream only.
Extends(es, e, fs) ==
    /\ fs \in Seq(Event) /\ Len(fs) = Len(es) + 1 /\ fs[Len(fs)] = e
    /\ \A k \in 1 .. Len(es) : fs[k] = es[k]
    /\ LastsExist(fs)
    /\ \A k \in 0 .. Len(es), t \in Stream : BookAt(fs, k, t) = BookAt(es, k, t)
    /\ \A t \in Stream :
          BookAt(fs, Len(fs), t) =
              IF e.kind = "update" /\ e.by = t THEN e.px ELSE BookAt(es, Len(es), t)

\* Appending an event leaves the books of the shorter records as they were,
\* and the book of the longer one changes for the updated stream only.
LEMMA Extend ==
    ASSUME NEW es \in Seq(Event), NEW e \in Event, NEW fs, fs = Append(es, e),
           LastsExist(es)
    PROVE  Extends(es, e, fs)
<1> DEFINE n == Len(es)
<1>1. /\ fs \in Seq(Event) /\ Len(fs) = n + 1 /\ fs[n + 1] = e /\ n \in Nat
      /\ \A k \in 1 .. n : fs[k] = es[k]
    BY AppendProperties
<1> HIDE DEF n
<1>2. \A k \in 0 .. n, t \in Stream : UpdatesOf(fs, k, t) = UpdatesOf(es, k, t)
    BY <1>1 DEF UpdatesOf
<1>3. \A k \in 0 .. n, t \in Stream : HasLast(UpdatesOf(es, k, t))
    BY DEF LastsExist, n
<1>4. \A k \in 0 .. n, t \in Stream : BookAt(fs, k, t) = BookAt(es, k, t)
    <2> SUFFICES ASSUME NEW k \in 0 .. n, NEW t \in Stream
                 PROVE  BookAt(fs, k, t) = BookAt(es, k, t)
        OBVIOUS
    <2>1. CASE UpdatesOf(es, k, t) = {}
        BY <1>2, <2>1 DEF BookAt
    <2>2. CASE UpdatesOf(es, k, t) # {}
        <3>1. Max(UpdatesOf(es, k, t)) \in 1 .. n
            <4>1. Max(UpdatesOf(es, k, t)) \in UpdatesOf(es, k, t)
                BY <1>3, <2>2 DEF HasLast, Max
            <4> QED
                BY <1>1, <4>1 DEF UpdatesOf
        <3> QED
            BY <1>1, <1>2, <2>2, <3>1 DEF BookAt
    <2> QED  BY <2>1, <2>2
<1>5. ASSUME NEW t \in Stream
      PROVE  /\ HasLast(UpdatesOf(fs, n + 1, t))
             /\ BookAt(fs, n + 1, t) =
                   IF e.kind = "update" /\ e.by = t THEN e.px ELSE BookAt(es, n, t)
    <2>1. CASE e.kind = "update" /\ e.by = t
        <3>1. n + 1 \in UpdatesOf(fs, n + 1, t)
            BY <1>1, <2>1 DEF UpdatesOf
        <3>2. \A j \in UpdatesOf(fs, n + 1, t) : j \in Nat /\ n + 1 >= j
            BY <1>1 DEF UpdatesOf
        <3>3. Max(UpdatesOf(fs, n + 1, t)) = n + 1
            <4>1. \A m \in UpdatesOf(fs, n + 1, t) :
                      (\A j \in UpdatesOf(fs, n + 1, t) : m >= j) => m = n + 1
                BY <1>1, <3>1, <3>2
            <4> QED
                BY <3>1, <3>2, <4>1 DEF Max
        <3> QED
            BY <1>1, <2>1, <3>1, <3>2, <3>3 DEF HasLast, BookAt
    <2>2. CASE ~ (e.kind = "update" /\ e.by = t)
        <3>1. UpdatesOf(fs, n + 1, t) = UpdatesOf(es, n, t)
            BY <1>1, <2>2 DEF UpdatesOf
        <3>2. UpdatesOf(fs, n, t) = UpdatesOf(es, n, t)
            BY <1>1, <1>2
        <3>3. BookAt(fs, n + 1, t) = BookAt(fs, n, t)
            BY <3>1, <3>2 DEF BookAt
        <3> QED
            BY <1>1, <1>3, <1>4, <2>2, <3>1, <3>3
    <2> QED  BY <2>1, <2>2
<1>6. LastsExist(fs)
    BY <1>1, <1>2, <1>3, <1>5 DEF LastsExist
<1> QED
    BY <1>1, <1>4, <1>5, <1>6 DEF n, Extends

\* Sequences with the same first k events explain event k alike.
LEMMA SameEvents ==
    ASSUME NEW es, NEW fs, NEW k \in Nat \ {0}, \A j \in 1 .. k : fs[j] = es[j],
           es[k].by \in Stream, \A t \in Stream : HasLast(UpdatesOf(es, k, t)),
           Explained(es, k)
    PROVE  Explained(fs, k)
<1>1. \A t \in Stream : UpdatesOf(fs, k, t) = UpdatesOf(es, k, t)
    BY DEF UpdatesOf
<1>2. ASSUME NEW t \in Stream PROVE BookAt(fs, k, t) = BookAt(es, k, t)
    <2>1. CASE UpdatesOf(es, k, t) = {}
        BY <1>1, <2>1 DEF BookAt
    <2>2. CASE UpdatesOf(es, k, t) # {}
        <3>1. Max(UpdatesOf(es, k, t)) \in UpdatesOf(es, k, t)
            BY <2>2 DEF HasLast, Max
        <3>2. Max(UpdatesOf(es, k, t)) \in 1 .. k
            BY <3>1 DEF UpdatesOf
        <3> QED
            BY <1>1, <2>2, <3>2 DEF BookAt
    <2> QED  BY <2>1, <2>2
<1>3. fs[k] = es[k] /\ (k > 1 => fs[k - 1] = es[k - 1])
    OBVIOUS
<1>4. \A v \in Venue : <<v, es[k].by[2]>> \in Stream
    BY DEF Stream
<1>5. \A v \in Venue : /\ Latest(es, k, v) = BookAt(es, k, <<v, es[k].by[2]>>)
                       /\ Latest(fs, k, v) = BookAt(fs, k, <<v, es[k].by[2]>>)
    BY <1>3 DEF Latest, BookAt, UpdatesOf
<1>6. \A v \in Venue : Latest(fs, k, v) = Latest(es, k, v)
    BY <1>2, <1>4, <1>5
<1>7. Seen(fs, k) = Seen(es, k) /\ Seen(es, k) \subseteq Venue
    BY <1>6 DEF Seen
<1> QED
    BY <1>3, <1>6, <1>7 DEF Explained

\* Nothing is recorded initially and there are no books.
LEMMA InitRecorded == Init => Recorded
<1> SUFFICES ASSUME Init PROVE Recorded
    OBVIOUS
<1>1. events = <<>> /\ Len(events) = 0 /\ EventsTyped
    BY EmptySeq DEF Init, EventsTyped
<1>2. \A k \in 0 .. Len(events), t \in Stream : UpdatesOf(events, k, t) = {}
    BY <1>1 DEF UpdatesOf
<1>3. LastsExist(events)
    BY <1>2 DEF LastsExist, HasLast
<1>4. BooksRecorded
    BY <1>1, <1>2 DEF Init, BooksRecorded, BookAt
<1>5. RouteFollows
    BY DEF Init, RouteFollows
<1>6. AllExplained
    BY <1>1 DEF AllExplained
<1>7. FilesKept
    <2>1. \A f \in File : file[f] = <<>> /\ Len(file[f]) = 0
        BY EmptySeq DEF Init
    <2>2. file \in [File -> Seq([seq : Nat, event : Event])]
        BY EmptySeq DEF Init
    <2> QED  BY <2>1, <2>2 DEF FilesKept
<1>8. RoutesCounted
    <2>1. RoutesMade = {}
        BY <1>1 DEF RoutesMade
    <2> QED  BY <2>1, FS_EmptySet DEF RoutesCounted, Init
<1> QED
    BY <1>1, <1>3, <1>4, <1>5, <1>6, <1>7, <1>8 DEF Recorded

\* A step that records nothing and enters no routing keeps the record.
LEMMA SameRecord ==
    ASSUME Recorded, UNCHANGED record, UNCHANGED <<books, routes>>,
           \A t \in Stream : pc'[t] \in {"buy", "sell"} => pc'[t] = pc[t]
    PROVE  Recorded'
<1>0. events' = events /\ file' = file
    BY DEF record
<1>1. EventsTyped' /\ RouteFollows'
    BY <1>0 DEF Recorded, EventsTyped, RouteFollows
<1>2. LastsExist(events')
    BY <1>0 DEF Recorded
<1>3. BooksRecorded'
    BY <1>0 DEF Recorded, BooksRecorded
<1>4. AllExplained'
    BY <1>0 DEF Recorded, AllExplained
<1>5. FilesKept' /\ RoutesCounted'
    BY <1>0 DEF Recorded, FilesKept, RoutesCounted, RoutesMade
<1> QED
    BY <1>1, <1>2, <1>3, <1>4, <1>5 DEF Recorded

\* A file takes the new event under its number, or stays as it is.
LEMMA FilesStayKept ==
    ASSUME Recorded, NEW e \in Event, Record(e),
           Len(events') = Len(events) + 1, events'[Len(events')] = e,
           \A k \in 1 .. Len(events) : events'[k] = events[k]
    PROVE  FilesKept'
<1> DEFINE r == [seq |-> Len(events) + 1, event |-> e]
           n == Len(events)
<1>1. PICK refused \in SUBSET File :
          file' = [f \in File |-> IF f \in refused \/ cut[f] THEN file[f] ELSE Append(file[f], r)]
    BY DEF Record, Number
<1>2. n \in Nat /\ r \in [seq : Nat, event : Event] /\ r.seq = n + 1 /\ r.event = e
    BY LenProperties DEF Recorded, EventsTyped
<1> HIDE DEF r, n
<1>3. ASSUME NEW f \in File
      PROVE  /\ file'[f] \in Seq([seq : Nat, event : Event])
             /\ \A k \in 1 .. Len(file'[f]) :
                   /\ file'[f][k].seq \in 1 .. n + 1
                   /\ file'[f][k].event = events'[file'[f][k].seq]
                   /\ file'[f][k].seq >= k
                   /\ \A j \in 1 .. k : file'[f][k].seq - file'[f][j].seq >= k - j
    <2> DEFINE s == file[f]
    <2>1. s \in Seq([seq : Nat, event : Event])
        BY DEF Recorded, FilesKept
    <2>2. \A k \in 1 .. Len(s) :
             /\ s[k].seq \in 1 .. n /\ s[k].event = events[s[k].seq] /\ s[k].seq >= k
             /\ \A j \in 1 .. k : s[k].seq - s[j].seq >= k - j
        BY DEF Recorded, FilesKept, n
    <2>3. file'[f] = s \/ file'[f] = Append(s, r)
        BY <1>1
    <2> HIDE DEF s
    <2>4. CASE file'[f] = s
        <3>1. ASSUME NEW k \in 1 .. Len(s)
              PROVE  /\ s[k].seq \in 1 .. n + 1 /\ s[k].event = events'[s[k].seq]
                     /\ s[k].seq >= k /\ \A j \in 1 .. k : s[k].seq - s[j].seq >= k - j
            <4>1. /\ s[k].seq \in 1 .. n /\ s[k].event = events[s[k].seq] /\ s[k].seq >= k
                  /\ \A j \in 1 .. k : s[k].seq - s[j].seq >= k - j
                BY <2>2
            <4>2. events'[s[k].seq] = events[s[k].seq]
                BY <4>1 DEF n
            <4>3. s[k].seq \in 1 .. n + 1
                BY <1>2, <4>1
            <4> QED  BY <4>1, <4>2, <4>3
        <3> QED  BY <2>1, <2>4, <3>1
    <2>5. CASE file'[f] = Append(s, r)
        <3> DEFINE m == Len(s)
                   w == Append(s, r)
        <3>1. /\ m \in Nat /\ w \in Seq([seq : Nat, event : Event])
              /\ Len(w) = m + 1 /\ w[m + 1] = r /\ \A k \in 1 .. m : w[k] = s[k]
            BY <1>2, <2>1, AppendProperties
        <3> HIDE DEF m, w
        <3>2. \A k \in 1 .. m : s[k].seq \in 1 .. n
            BY <2>2 DEF m
        <3>3. m >= 1 => m \in 1 .. m /\ s[m].seq >= m /\ s[m].seq <= n
            BY <2>2, <3>1 DEF m
        <3>4. \A j \in 1 .. m : s[m].seq - s[j].seq >= m - j
            <4> SUFFICES ASSUME NEW j \in 1 .. m PROVE s[m].seq - s[j].seq >= m - j
                OBVIOUS
            <4>1. m \in 1 .. m
                BY <3>1
            <4> QED  BY <2>2, <4>1 DEF m
        <3>5. n + 1 >= m + 1 /\ \A j \in 1 .. m : (n + 1) - s[j].seq >= (m + 1) - j
            <4>1. n + 1 >= m + 1
                <5> DEFINE a == s[m].seq
                <5>1. m >= 1 => a \in 1 .. n /\ a >= m
                    BY <3>2, <3>3
                <5> HIDE DEF a
                <5> QED  BY <1>2, <3>1, <5>1
            <4>2. ASSUME NEW j \in 1 .. m PROVE (n + 1) - s[j].seq >= (m + 1) - j
                <5> DEFINE a == s[m].seq
                           b == s[j].seq
                <5>1. m >= 1
                    BY <3>1
                <5>2. a - b >= m - j /\ a <= n /\ a \in 1 .. n /\ b \in 1 .. n
                    BY <3>2, <3>3, <3>4, <5>1
                <5> HIDE DEF a, b
                <5>3. (n + 1) - b >= (m + 1) - j
                    BY <1>2, <3>1, <5>2
                <5> QED  BY <5>3 DEF b
            <4> QED  BY <4>1, <4>2
        <3>6. ASSUME NEW k \in 1 .. m + 1
              PROVE  /\ w[k].seq \in 1 .. n + 1 /\ w[k].event = events'[w[k].seq]
                     /\ w[k].seq >= k
                     /\ \A j \in 1 .. k : w[k].seq - w[j].seq >= k - j
            <4>1. CASE k = m + 1
                <5>1. \A j \in 1 .. m + 1 : j = m + 1 \/ j \in 1 .. m
                    BY <3>1
                <5>2. \A j \in 1 .. k : w[k].seq - w[j].seq >= k - j
                    <6>1. w[k].seq = n + 1 /\ k = m + 1
                        BY <1>2, <3>1, <4>1
                    <6>2. ASSUME NEW j \in 1 .. m PROVE w[k].seq - w[j].seq >= k - j
                        BY <3>1, <3>5, <6>1
                    <6>3. w[k].seq - w[k].seq >= k - k
                        BY <1>2, <3>1, <6>1
                    <6> QED  BY <5>1, <6>1, <6>2, <6>3
                <5> QED
                    BY <1>2, <3>1, <3>5, <4>1, <5>2 DEF n
            <4>2. CASE k # m + 1
                <5>1. k \in 1 .. m /\ \A j \in 1 .. k : j \in 1 .. m
                    BY <3>1, <4>2
                <5>2. w[k] = s[k] /\ \A j \in 1 .. k : w[j] = s[j]
                    BY <3>1, <5>1
                <5>3. /\ s[k].seq \in 1 .. n /\ s[k].event = events[s[k].seq] /\ s[k].seq >= k
                      /\ \A j \in 1 .. k : s[k].seq - s[j].seq >= k - j
                    BY <2>2, <5>1 DEF m
                <5>4. events'[s[k].seq] = events[s[k].seq]
                    BY <5>3 DEF n
                <5> QED
                    BY <1>2, <5>2, <5>3, <5>4
            <4> QED  BY <4>1, <4>2
        <3> QED
            BY <2>5, <3>1, <3>6 DEF w
    <2> QED  BY <2>3, <2>4, <2>5
<1>4. file' \in [File -> Seq([seq : Nat, event : Event])]
    BY <1>1, <1>3
<1> QED
    BY <1>2, <1>3, <1>4 DEF FilesKept, n

\* What holds of the record after a record of any kind: only what the new
\* event says of the books and of itself is left to show.
LEMMA RecordStep ==
    ASSUME Recorded, NEW e \in Event, Record(e)
    PROVE  /\ EventsTyped' /\ LastsExist(events') /\ FilesKept'
           /\ Extends(events, e, events')
           /\ Explained(events', Len(events')) => AllExplained'
<1>1. events \in Seq(Event) /\ LastsExist(events) /\ events' = Append(events, e)
    BY DEF Recorded, EventsTyped, Record
<1>2. Extends(events, e, events')
    BY <1>1, Extend
<1>3. /\ events' \in Seq(Event) /\ LastsExist(events') /\ Len(events') = Len(events) + 1
      /\ events'[Len(events')] = e /\ \A k \in 1 .. Len(events) : events'[k] = events[k]
    BY <1>2 DEF Extends
<1>4. FilesKept'
    BY <1>3, FilesStayKept
<1>5. ASSUME Explained(events', Len(events')) PROVE AllExplained'
    <2> SUFFICES ASSUME NEW k \in 1 .. Len(events') PROVE Explained(events', k)
        BY DEF AllExplained
    <2>0. Len(events) \in Nat
        BY <1>1, LenProperties
    <2>1. CASE k = Len(events')
        BY <1>5, <2>1
    <2>2. CASE k # Len(events')
        <3>1. k \in 1 .. Len(events) /\ k \in Nat \ {0}
            BY <1>3, <2>0, <2>2
        <3>2. Explained(events, k)
            BY <3>1 DEF Recorded, AllExplained
        <3>3. events[k].by \in Stream
            <4>1. events[k] \in Event
                BY <1>1, <3>1, ElementOfSeq
            <4> QED  BY <4>1 DEF Event
        <3>4. \A t \in Stream : HasLast(UpdatesOf(events, k, t))
            BY <1>1, <2>0, <3>1 DEF LastsExist
        <3>5. \A j \in 1 .. k : events'[j] = events[j]
            BY <1>3, <2>0, <3>1
        <3> QED
            BY <3>1, <3>2, <3>3, <3>4, <3>5, SameEvents
    <2> QED  BY <2>1, <2>2
<1> QED
    BY <1>2, <1>3, <1>4, <1>5 DEF EventsTyped

\* Recording an update changes the book and the record alike.
LEMMA UpdateRecorded ==
    ASSUME Control, Recorded, NEW t \in Stream, UpdateBook(t)
    PROVE  Recorded'
<1> DEFINE e == [kind |-> "update", by |-> t, venue |-> t[1], px |-> held[t]]
<1>1. e \in Event
    <2>1. held[t] \in Update
        BY DEF Control, TypeOK, Update
    <2>2. t[1] \in Venue
        BY DEF Stream
    <2> QED
        BY <2>1, <2>2 DEF Event
<1>2. Record(e) /\ e.kind = "update" /\ e.by = t /\ e.px = held[t]
    BY DEF UpdateBook
<1> HIDE DEF e
<1>3. /\ EventsTyped' /\ LastsExist(events') /\ FilesKept'
      /\ Extends(events, e, events')
      /\ Explained(events', Len(events')) => AllExplained'
    BY <1>1, <1>2, RecordStep
<1>4. /\ events \in Seq(Event) /\ Len(events) \in Nat
      /\ Len(events') = Len(events) + 1 /\ events'[Len(events')] = e
      /\ \A k \in 1 .. Len(events) : events'[k] = events[k]
    BY <1>3, LenProperties DEF Extends, Recorded, EventsTyped
<1>5. \A u \in Stream :
          BookAt(events', Len(events'), u) =
              IF e.kind = "update" /\ e.by = u THEN e.px ELSE BookAt(events, Len(events), u)
    BY <1>3 DEF Extends
<1>6. RouteFollows'
    <2>1. \A u \in Stream : pc'[u] \in {"buy", "sell"} => u = t /\ pc'[u] = "buy"
        BY DEF UpdateBook, Goto, Control, TypeOK, Inside
    <2> QED
        BY <1>2, <1>4, <2>1 DEF RouteFollows
<1>7. BooksRecorded'
    <2>1. \A u \in Stream : books'[u] = IF u = t THEN held[t] ELSE books[u]
        BY DEF UpdateBook, Control, TypeOK
    <2> QED
        BY <1>2, <1>5, <2>1 DEF BooksRecorded, Recorded
<1>8. AllExplained'
    BY <1>2, <1>3, <1>4 DEF Explained
<1>9. RoutesCounted'
    <2>1. RoutesMade' = RoutesMade
        BY <1>2, <1>4 DEF RoutesMade
    <2> QED  BY <2>1 DEF Recorded, RoutesCounted, UpdateBook
<1> QED
    BY <1>3, <1>6, <1>7, <1>8, <1>9 DEF Recorded

\* A route is counted, and follows in the record what its stream recorded
\* before; it is at the best price of the books, which are what the record
\* adds up to.
LEMMA RouteRecorded ==
    ASSUME Control, Recorded, NEW t \in Stream, NEW side \in {"Buy", "Sell"},
           NEW v \in Venue, books[<<v, t[2]>>] # None,
           Record(RouteEvent(t, side, v)), routes' = routes + 1, books' = books,
           pc[t] = (IF side = "Buy" THEN "buy" ELSE "sell"),
           \A u \in Stream : pc'[u] \in {"buy", "sell"} => u = t /\ pc'[u] = "sell" /\ side = "Buy",
           side = "Buy" => \A w \in Venue : books[<<w, t[2]>>] # None =>
                               books[<<v, t[2]>>].ask <= books[<<w, t[2]>>].ask,
           side = "Sell" => \A w \in Venue : books[<<w, t[2]>>] # None =>
                               books[<<v, t[2]>>].bid >= books[<<w, t[2]>>].bid
    PROVE  Recorded'
<1> DEFINE e == RouteEvent(t, side, v)
           s == t[2]
<1>1. t[1] \in Venue /\ s \in Symbol /\ \A w \in Venue : <<w, s>> \in Stream
    BY DEF Stream
<1>2. /\ e.kind = side /\ e.by = t
      /\ e.px = IF side = "Buy" THEN books[<<v, s>>].ask ELSE books[<<v, s>>].bid
    BY DEF RouteEvent
<1>3. e \in Event
    <2>1. books[<<v, s>>] \in Update
        BY <1>1 DEF Control, TypeOK, Update
    <2>2. books[<<v, s>>].ask \in Amount /\ books[<<v, s>>].bid \in Amount
        BY <2>1 DEF Amount
    <2> QED
        BY <1>1, <2>2 DEF RouteEvent, Event
<1>4. Record(e)
    OBVIOUS
<1> HIDE DEF e, s
<1>5. /\ EventsTyped' /\ LastsExist(events') /\ FilesKept'
      /\ Extends(events, e, events')
      /\ Explained(events', Len(events')) => AllExplained'
    BY <1>3, <1>4, RecordStep
<1>6. /\ events \in Seq(Event) /\ Len(events) \in Nat
      /\ Len(events') = Len(events) + 1 /\ events'[Len(events')] = e
      /\ \A k \in 1 .. Len(events) : events'[k] = events[k]
    BY <1>5, LenProperties DEF Extends, Recorded, EventsTyped
<1>7. \A u \in Stream : BookAt(events', Len(events'), u) = books[u]
    <2>1. e.kind # "update"
        BY <1>2
    <2> QED
        BY <1>5, <2>1 DEF Extends, Recorded, BooksRecorded
<1>8. BooksRecorded'
    BY <1>7 DEF BooksRecorded
<1>9. RouteFollows'
    BY <1>2, <1>6 DEF RouteFollows
<1>10. Explained(events', Len(events'))
    <2> DEFINE k == Len(events')
    <2>1. /\ k > 1 /\ events'[k] = e /\ events'[k - 1].by = t
          /\ events'[k - 1].kind = IF side = "Buy" THEN "update" ELSE "Buy"
        BY <1>6 DEF Recorded, RouteFollows
    <2>2. \A w \in Venue : Latest(events', k, w) = BookAt(events', k, <<w, s>>)
        BY <1>2, <1>6 DEF Latest, BookAt, UpdatesOf, s
    <2>3. \A w \in Venue : Latest(events', k, w) = books[<<w, s>>]
        BY <1>1, <1>7, <2>2
    <2>4. v \in Seen(events', k) /\ \A w \in Seen(events', k) : w \in Venue /\ books[<<w, s>>] # None
        BY <2>3 DEF Seen, s
    <2> HIDE DEF k
    <2>5. CASE side = "Buy"
        <3>1. e.kind = "Buy" /\ e.by = t /\ e.px = books[<<v, s>>].ask
            BY <1>2, <2>5
        <3>2. \A w \in Seen(events', k) : e.px <= Latest(events', k, w).ask
            BY <2>3, <2>4, <2>5, <3>1 DEF s
        <3> QED
            BY <2>1, <2>3, <2>4, <2>5, <3>1, <3>2 DEF Explained, k
    <2>6. CASE side = "Sell"
        <3>1. e.kind = "Sell" /\ e.by = t /\ e.px = books[<<v, s>>].bid
            BY <1>2, <2>6
        <3>2. \A w \in Seen(events', k) : e.px >= Latest(events', k, w).bid
            BY <2>3, <2>4, <2>6, <3>1 DEF s
        <3> QED
            BY <2>1, <2>3, <2>4, <2>6, <3>1, <3>2 DEF Explained, k
    <2> QED  BY <2>5, <2>6
<1>11. RoutesCounted'
    <2> DEFINE n == Len(events) + 1
    <2>1. RoutesMade' = RoutesMade \cup {n}
        BY <1>2, <1>6 DEF RoutesMade
    <2>2. n \notin RoutesMade
        BY <1>6 DEF RoutesMade
    <2>3. IsFiniteSet(RoutesMade) /\ Cardinality(RoutesMade) = routes
        BY DEF Recorded, RoutesCounted
    <2> QED
        BY <2>1, <2>2, <2>3, FS_AddElement DEF RoutesCounted
<1> QED
    BY <1>5, <1>8, <1>9, <1>10, <1>11 DEF Recorded

\* Every step keeps the record's part of the invariant.
LEMMA NextRecorded == Control /\ Recorded /\ [Next]_vars => Recorded'
<1> SUFFICES ASSUME Control, Recorded, [Next]_vars PROVE Recorded'
    OBVIOUS
<1> USE DEF Control, TypeOK, Inside
<1>1. CASE UNCHANGED vars
    BY <1>1, SameRecord DEF vars, streamVars
<1>2. CASE OperatorTogglesHalt
    BY <1>2, SameRecord DEF OperatorTogglesHalt, streamVars
<1>3. CASE Joined
    BY <1>3, SameRecord DEF Joined, vars, streamVars
<1>4. ASSUME NEW t \in Stream, NEW frame \in Frames,
             Receive(t, frame) \/ SkipFrame(t, frame)
      PROVE  Recorded'
    BY <1>4, SameRecord DEF Receive, SkipFrame, Goto, vars, streamVars
<1>5. ASSUME NEW t \in Stream, StreamEnds(t) \/ UpdateRejected(t) PROVE Recorded'
    BY <1>5, SameRecord DEF StreamEnds, UpdateRejected, Return, Goto
<1>6. ASSUME NEW t \in Stream, Enter(t) PROVE Recorded'
    <2>1. \A u \in Stream : pc'[u] \in {"buy", "sell"} => pc'[u] = pc[u]
        BY <1>6 DEF Enter, Return, Goto
    <2> QED
        BY <1>6, <2>1, SameRecord DEF Enter
<1>7. ASSUME NEW t \in Stream, UpdateBook(t) PROVE Recorded'
    BY <1>7, UpdateRecorded
<1>8. ASSUME NEW t \in Stream, RouteBuy(t) PROVE Recorded'
    <2>1. PICK v \in BestAsk(t[2]) : Record(RouteEvent(t, "Buy", v))
        BY <1>8 DEF RouteBuy
    <2>2. /\ v \in Venue /\ books[<<v, t[2]>>] # None
          /\ \A w \in Venue : books[<<w, t[2]>>] # None =>
                 books[<<v, t[2]>>].ask <= books[<<w, t[2]>>].ask
        BY DEF BestAsk, Known
    <2>3. \A u \in Stream : pc'[u] \in {"buy", "sell"} => u = t /\ pc'[u] = "sell"
        BY <1>8 DEF RouteBuy, Goto
    <2>4. routes' = routes + 1 /\ books' = books /\ pc[t] = "buy"
        BY <1>8 DEF RouteBuy, OnRoute
    <2> QED
        BY <2>1, <2>2, <2>3, <2>4, RouteRecorded
<1>9. ASSUME NEW t \in Stream, RouteSell(t) PROVE Recorded'
    <2>1. PICK v \in BestBid(t[2]) : Record(RouteEvent(t, "Sell", v))
        BY <1>9 DEF RouteSell
    <2>2. /\ v \in Venue /\ books[<<v, t[2]>>] # None
          /\ \A w \in Venue : books[<<w, t[2]>>] # None =>
                 books[<<v, t[2]>>].bid >= books[<<w, t[2]>>].bid
        BY DEF BestBid, Known
    <2>3. \A u \in Stream : pc'[u] \notin {"buy", "sell"}
        BY <1>9 DEF RouteSell, Return, Goto
    <2>4. routes' = routes + 1 /\ books' = books /\ pc[t] = "sell"
        BY <1>9 DEF RouteSell, OnRoute
    <2> QED
        BY <2>1, <2>2, <2>3, <2>4, RouteRecorded
<1> QED
    BY <1>1, <1>2, <1>3, <1>4, <1>5, <1>6, <1>7, <1>8, <1>9 DEF Next, Step, Process

\* The record's part of the invariant holds in every reachable state.
LEMMA RecordedHolds == Spec => []Recorded
BY ControlHolds, InitRecorded, NextRecorded, PTL DEF Spec

\* For any venues, symbols, quotes and refused records: in either file, as far
\* as its numbers have no hole, every route directly follows the update it was
\* made for, and its price is the lowest ask or the highest bid of the books
\* that the updates in the file up to it add up to.
THEOREM RoutesExplained == Spec => []ReplayExplainsRoutes
<1>1. Recorded => ReplayExplainsRoutes
    <2> SUFFICES ASSUME Recorded, NEW f \in File, NEW k \in 1 .. Len(file[f]), file[f][k].seq = k
                 PROVE  Explained(Contents(f), k)
        BY DEF ReplayExplainsRoutes
    <2>1. /\ file[f] \in Seq([seq : Nat, event : Event]) /\ Len(file[f]) \in Nat
          /\ Len(events) \in Nat
        BY LenProperties DEF Recorded, FilesKept, EventsTyped
    <2>2. ASSUME NEW j \in 1 .. k
          PROVE  Contents(f)[j] = events[j]
        <3>1. j \in 1 .. Len(file[f]) /\ file[f][j].seq \in Nat /\ k \in Nat
            BY <2>1 DEF Recorded, FilesKept
        <3>2. file[f][j].seq >= j /\ file[f][k].seq - file[f][j].seq >= k - j
            BY <3>1 DEF Recorded, FilesKept
        <3>3. file[f][j].seq = j
            BY <3>1, <3>2
        <3>4. file[f][j].event = events[j]
            BY <3>1, <3>3 DEF Recorded, FilesKept
        <3> QED
            BY <3>1, <3>4 DEF Contents
    <2>3. k \in 1 .. Len(events) /\ k \in Nat \ {0} /\ k \in 0 .. Len(events)
        BY <2>1 DEF Recorded, FilesKept
    <2>4. Explained(events, k) /\ \A t \in Stream : HasLast(UpdatesOf(events, k, t))
        BY <2>3 DEF Recorded, AllExplained, LastsExist
    <2>5. events[k].by \in Stream
        <3>1. events[k] \in Event
            BY <2>3, ElementOfSeq DEF Recorded, EventsTyped
        <3> QED  BY <3>1 DEF Event
    <2> QED
        BY <2>2, <2>3, <2>4, <2>5, SameEvents
<1> QED
    BY <1>1, RecordedHolds, PTL

\* For any number of streams the kill switch counts exactly the routes made,
\* trips above its limit, and lets through the routes of one update more.
THEOREM LimitHolds == Spec => []RouteLimitHolds
<1>1. Control /\ Recorded => RouteLimitHolds
    BY DEF Control, Recorded, InsideEnabled, Overrun, RoutesCounted, RouteLimitHolds
<1> QED
    BY <1>1, ControlHolds, RecordedHolds, PTL

-----------------------------------------------------------------------------
(* Numerals: what Digits computes, for every sequence of digits.  The      *)
(* induction is over the length, with the predicate as a set of numbers.   *)

\* A set with 0 that has n + 1 with every n contains all natural numbers.
LEMMA SetInduction ==
    ASSUME NEW T, 0 \in T, \A n \in Nat : n \in T => n + 1 \in T
    PROVE  Nat \subseteq T
<1> SUFFICES ASSUME Nat \ T # {} PROVE FALSE
    OBVIOUS
<1>1. PICK x \in Nat \ T : \A y \in Nat \ T : ~ (<<y, x>> \in OpToRel(<, Nat))
    BY WFMin, NatLessThanWellFounded
<1>0. \A y \in Nat \ T : ~ (y < x)
    BY <1>1 DEF OpToRel
<1>2. \A y \in Nat \ T : x <= y
    BY <1>0
<1>3. x \in Nat /\ x \notin T /\ x # 0
    BY <1>1
<1>4. x - 1 \in Nat /\ (x - 1) + 1 = x /\ ~ (x <= x - 1)
    BY <1>3
<1>5. x - 1 \in T
    BY <1>2, <1>4
<1> QED
    BY <1>3, <1>4, <1>5

\* v gives the values of the first digits of ds, up to the nth.
Values(v, ds, n) == v = [k \in 0 .. n |-> IF k = 0 THEN 0 ELSE v[k - 1] * 10 + ds[k]]

\* There are such values.
LEMMA ValuesExist ==
    ASSUME NEW ds \in Seq(Nat)
    PROVE  \A n \in Nat : n <= Len(ds) => \E v : Values(v, ds, n)
<1> DEFINE T == {n \in Nat : n <= Len(ds) => \E v : Values(v, ds, n)}
<1>1. 0 \in T
    <2>1. Values([k \in 0 .. 0 |-> 0], ds, 0)
        BY DEF Values
    <2> QED  BY <2>1
<1>2. ASSUME NEW n \in Nat, n \in T
      PROVE  n + 1 \in T
    <2> SUFFICES ASSUME n + 1 <= Len(ds)
                 PROVE  \E v : Values(v, ds, n + 1)
        OBVIOUS
    <2>1. PICK v : Values(v, ds, n)
        BY <1>2
    <2> DEFINE w == [k \in 0 .. n + 1 |-> IF k = n + 1 THEN v[n] * 10 + ds[n + 1] ELSE v[k]]
    <2>2. ASSUME NEW k \in 0 .. n + 1
          PROVE  w[k] = IF k = 0 THEN 0 ELSE w[k - 1] * 10 + ds[k]
        <3>1. CASE k = n + 1
            BY <3>1
        <3>2. CASE k # n + 1
            <4>1. k \in 0 .. n /\ w[k] = v[k] /\ (k # 0 => k - 1 \in 0 .. n + 1 /\ k - 1 # n + 1)
                BY <3>2
            <4>2. v[k] = IF k = 0 THEN 0 ELSE v[k - 1] * 10 + ds[k]
                BY <2>1, <4>1 DEF Values
            <4> QED  BY <4>1, <4>2
        <3> QED  BY <3>1, <3>2
    <2>3. Values(w, ds, n + 1)
        <3>1. w = [k \in 0 .. n + 1 |-> w[k]]
            OBVIOUS
        <3> QED  BY <2>2, <3>1 DEF Values
    <2> QED  BY <2>3
<1> HIDE DEF T
<1>3. Nat \subseteq T
    BY <1>1, <1>2, SetInduction
<1> QED  BY <1>3 DEF T

\* The last value comes from the one before.
LEMMA LastValue ==
    ASSUME NEW v, NEW ds, NEW n \in Nat, NEW k \in Nat, k = n + 1, Values(v, ds, k)
    PROVE  v[k] = v[n] * 10 + ds[k]
<1>1. k \in 0 .. k /\ k # 0 /\ k - 1 = n
    OBVIOUS
<1>2. v[k] = IF k = 0 THEN 0 ELSE v[k - 1] * 10 + ds[k]
    BY <1>1 DEF Values
<1> QED  BY <1>1, <1>2

\* The first n digits of ds and es are the same numbers.
Agree(n, ds, es) == \A k \in 1 .. n : ds[k] = es[k] /\ ds[k] \in Nat

\* Values of sequences that agree on the first n digits agree, and are numbers.
LEMMA ValuesAgree ==
    ASSUME NEW n \in Nat, NEW ds, NEW es, NEW v, NEW w,
           Agree(n, ds, es),
           NEW l \in Nat, NEW m \in Nat, n <= l, n <= m,
           Values(v, ds, l), Values(w, es, m)
    PROVE  v[n] = w[n] /\ v[n] \in Nat
<1> DEFINE T == {k \in Nat : k <= n => v[k] = w[k] /\ v[k] \in Nat}
<1>1. 0 \in T
    BY DEF Values
<1>2. ASSUME NEW k \in Nat, k \in T
      PROVE  k + 1 \in T
    <2> SUFFICES ASSUME k + 1 <= n
                 PROVE  v[k + 1] = w[k + 1] /\ v[k + 1] \in Nat
        OBVIOUS
    <2>1. v[k] = w[k] /\ v[k] \in Nat
        BY <1>2
    <2>2. k + 1 \in 0 .. l /\ k + 1 \in 0 .. m /\ k + 1 # 0 /\ k + 1 - 1 = k /\ k + 1 \in 1 .. n
        OBVIOUS
    <2>3. v[k + 1] = v[k] * 10 + ds[k + 1] /\ w[k + 1] = w[k] * 10 + es[k + 1]
        BY <2>2 DEF Values
    <2> QED  BY <2>1, <2>2, <2>3 DEF Agree
<1> HIDE DEF T
<1>3. Nat \subseteq T
    BY <1>1, <1>2, SetInduction
<1> QED  BY <1>3 DEF T

\* Digits is the last of the values.
LEMMA DigitsValue ==
    ASSUME NEW ds \in Seq(Nat)
    PROVE  \E v : Values(v, ds, Len(ds)) /\ Digits(ds) = v[Len(ds)]
<1> DEFINE v == CHOOSE v : v = [n \in 0 .. Len(ds) |->
                                   IF n = 0 THEN 0 ELSE v[n - 1] * 10 + ds[n]]
<1>1. Digits(ds) = v[Len(ds)]
    BY DEF Digits
<1>2. Values(v, ds, Len(ds))
    <2>1. \E u : Values(u, ds, Len(ds))
        BY ValuesExist
    <2> QED  BY <2>1 DEF Values
<1> QED  BY <1>1, <1>2

\* No digit is zero.
LEMMA DigitsEmpty == Digits(<<>>) = 0
<1>0. <<>> \in Seq(Nat) /\ Len(<<>>) = 0
    OBVIOUS
<1>1. PICK v : Values(v, <<>>, 0) /\ Digits(<<>>) = v[0]
    BY <1>0, DigitsValue
<1> QED  BY <1>1 DEF Values

Follows(n, m) == n \in Nat /\ m \in Nat /\ m = n + 1

\* The value after one more digit.
LEMMA NextValue ==
    ASSUME NEW n, NEW m, Follows(n, m), NEW ds, NEW es, NEW v, NEW w,
           Agree(n, ds, es), Values(v, ds, n), Values(w, es, m)
    PROVE  v[n] \in Nat /\ w[m] = v[n] * 10 + es[m]
<1>1. n \in Nat /\ m \in Nat /\ m = n + 1 /\ n <= n /\ n <= m
    BY DEF Follows
<1>2. v[n] = w[n] /\ v[n] \in Nat
    BY <1>1, ValuesAgree
<1>3. w[m] = w[n] * 10 + es[m]
    BY <1>1, LastValue
<1> QED  BY <1>2, <1>3

\* One more digit.
LEMMA DigitsAppend ==
    ASSUME NEW ds \in Seq(Nat), NEW d \in Nat
    PROVE  Digits(ds) \in Nat /\ Digits(Append(ds, d)) = Digits(ds) * 10 + d
<1> DEFINE es == Append(ds, d)
<1>0. /\ es \in Seq(Nat) /\ Len(ds) \in Nat /\ Len(es) \in Nat
      /\ Len(es) = Len(ds) + 1 /\ es[Len(es)] = d
    OBVIOUS
<1>1. Agree(Len(ds), ds, es)
    BY DEF Agree
<1> HIDE DEF es
<1>2. PICK v : Values(v, ds, Len(ds)) /\ Digits(ds) = v[Len(ds)]
    BY DigitsValue
<1>3. PICK w : Values(w, es, Len(es)) /\ Digits(es) = w[Len(es)]
    BY <1>0, DigitsValue
<1>5. Follows(Len(ds), Len(es))
    BY <1>0 DEF Follows
<1>4. v[Len(ds)] \in Nat /\ w[Len(es)] = v[Len(ds)] * 10 + es[Len(es)]
    BY <1>1, <1>2, <1>3, <1>5, NextValue
<1> QED  BY <1>0, <1>2, <1>3, <1>4 DEF es

\* A nonempty numeral is a shorter one and its last digit.
LEMMA SplitLast ==
    ASSUME NEW n \in Nat, NEW s \in Seq(Digit), Len(s) = n + 1
    PROVE  \E q \in Seq(Digit), e \in Digit :
              Len(q) = n /\ s = Append(q, e) /\ q \in Seq(Nat) /\ e \in 0 .. 9
<1> DEFINE q == [i \in 1 .. n |-> s[i]]
<1>1. q \in Seq(Digit) /\ Len(q) = n /\ s[n + 1] \in Digit
    OBVIOUS
<1>2. s = Append(q, s[n + 1])
    OBVIOUS
<1>3. q \in Seq(Nat) /\ s[n + 1] \in 0 .. 9
    BY <1>1 DEF Digit
<1> QED  BY <1>1, <1>2, <1>3

\* Digits are numbers.
LEMMA DigitsAreNumbers ==
    ASSUME NEW s \in Seq(Digit)
    PROVE  s \in Seq(Nat)
<1>1. \A i \in 1 .. Len(s) : s[i] \in Nat
    BY DEF Digit
<1>2. s = [i \in 1 .. Len(s) |-> s[i]]
    OBVIOUS
<1>3. [i \in 1 .. Len(s) |-> s[i]] \in Seq(Nat)
    BY <1>1, IsASeq
<1> QED  BY <1>2, <1>3

\* A numeral without digits.
LEMMA NoDigits ==
    ASSUME NEW s \in Seq(Digit), Len(s) = 0
    PROVE  s = <<>> /\ Digits(s) = 0
BY EmptySeq, DigitsEmpty

\* Digits is a natural number.
LEMMA DigitsType ==
    ASSUME NEW ds \in Seq(Nat)
    PROVE  Digits(ds) \in Nat
BY DigitsAppend

Zeros(n) == [k \in 1 .. n |-> 0]

\* Powers of ten.
LEMMA TenToSteps ==
    /\ TenTo(0) = 1
    /\ \A n \in Nat : TenTo(n) \in Nat /\ TenTo(n + 1) = TenTo(n) * 10
<1>1. TenTo(0) = 1
    <2>1. <<1>> \o Zeros(0) = Append(<<>>, 1) /\ <<>> \in Seq(Nat)
        BY DEF Zeros
    <2>2. Digits(Append(<<>>, 1)) = Digits(<<>>) * 10 + 1
        BY <2>1, DigitsAppend
    <2> QED  BY <2>1, <2>2, DigitsEmpty DEF TenTo, Zeros
<1>2. ASSUME NEW n \in Nat
      PROVE  TenTo(n) \in Nat /\ TenTo(n + 1) = TenTo(n) * 10
    <2> DEFINE s == <<1>> \o Zeros(n)
    <2>1. s \in Seq(Nat)
        BY DEF Zeros
    <2>2. <<1>> \o Zeros(n + 1) = Append(s, 0)
        BY DEF Zeros
    <2> HIDE DEF s
    <2>3. Digits(s) \in Nat /\ Digits(Append(s, 0)) = Digits(s) * 10 + 0
        BY <2>1, DigitsAppend
    <2>4. TenTo(n) = Digits(s) /\ TenTo(n + 1) = Digits(Append(s, 0))
        BY <2>2 DEF TenTo, Zeros, s
    <2> QED  BY <2>3, <2>4
<1> QED  BY <1>1, <1>2

\* The product of two natural numbers is one, and distributes.
LEMMA Products ==
    ASSUME NEW a \in Int, NEW b \in Int, NEW c \in Int
    PROVE  /\ a * b \in Int /\ a * b = b * a /\ (a * b) * c = a * (b * c)
           /\ (a + b) * c = a * c + b * c
           /\ a \in Nat /\ b \in Nat => a * b \in Nat
           /\ a <= b /\ c >= 0 => a * c <= b * c
           /\ a < b /\ c > 0 => a * c < b * c
OBVIOUS

\* A power of ten is positive, and powers multiply.
LEMMA TenToProduct ==
    ASSUME NEW m \in Nat
    PROVE  \A n \in Nat : TenTo(n) > 0 /\ TenTo(m + n) = TenTo(m) * TenTo(n)
<1> DEFINE T == {n \in Nat : TenTo(n) > 0 /\ TenTo(m + n) = TenTo(m) * TenTo(n)}
<1>1. 0 \in T
    BY TenToSteps
<1>2. ASSUME NEW n \in Nat, n \in T
      PROVE  n + 1 \in T
    <2>1. TenTo(n) > 0 /\ TenTo(m + n) = TenTo(m) * TenTo(n)
        BY <1>2
    <2>2. m + n \in Nat /\ m + (n + 1) = (m + n) + 1
        OBVIOUS
    <2>3. TenTo(n + 1) = TenTo(n) * 10 /\ TenTo((m + n) + 1) = TenTo(m + n) * 10
        BY <2>2, TenToSteps
    <2>4. TenTo(n) \in Nat /\ TenTo(m) \in Nat
        BY TenToSteps
    <2>5. (TenTo(m) * TenTo(n)) * 10 = TenTo(m) * (TenTo(n) * 10)
        BY <2>4, Products
    <2> QED  BY <2>1, <2>2, <2>3, <2>4, <2>5
<1> HIDE DEF T
<1>3. Nat \subseteq T
    BY <1>1, <1>2, SetInduction
<1> QED  BY <1>3 DEF T

\* The scales of quantities and of prices.
LEMMA Scales == TenTo(6) = 1000000 /\ TenTo(2) = 100
<1>1. TenTo(1) = 10
    BY TenToSteps
<1>2. TenTo(2) = 100
    BY <1>1, TenToSteps
<1>3. TenTo(3) = 1000
    BY <1>2, TenToSteps
<1>4. TenTo(4) = 10000
    BY <1>3, TenToSteps
<1>5. TenTo(5) = 100000
    BY <1>4, TenToSteps
<1> QED  BY <1>2, <1>5, TenToSteps

\* The value of a sequence of digits is below the power of ten of its length.
LEMMA DigitsBound ==
    ASSUME NEW b \in Seq(Digit)
    PROVE  Digits(b) \in Nat /\ Digits(b) < TenTo(Len(b))
<1> DEFINE T == {n \in Nat : \A s \in Seq(Digit) : Len(s) = n =>
                    Digits(s) \in Nat /\ Digits(s) < TenTo(n)}
<1>1. 0 \in T
    <2>1. TenTo(0) = 1
        BY TenToSteps
    <2>2. \A s \in Seq(Digit) : Len(s) = 0 => Digits(s) = 0
        BY NoDigits
    <2> QED  BY <2>1, <2>2
<1>2. ASSUME NEW n \in Nat, n \in T
      PROVE  n + 1 \in T
    <2> SUFFICES ASSUME NEW s \in Seq(Digit), Len(s) = n + 1
                 PROVE  Digits(s) \in Nat /\ Digits(s) < TenTo(n + 1)
        OBVIOUS
    <2>2. PICK q \in Seq(Digit), e \in Digit :
              Len(q) = n /\ s = Append(q, e) /\ q \in Seq(Nat) /\ e \in 0 .. 9
        <3> HIDE DEF T
        <3> QED  BY SplitLast
    <2>1. e \in Nat
        BY <2>2
    <2>3. Digits(q) \in Nat /\ Digits(q) < TenTo(n)
        BY <1>2, <2>2
    <2>4. Digits(s) = Digits(q) * 10 + e
        BY <2>1, <2>2, DigitsAppend
    <2>5. TenTo(n) \in Nat /\ TenTo(n + 1) = TenTo(n) * 10
        BY TenToSteps
    <2> QED  BY <2>2, <2>3, <2>4, <2>5
<1> HIDE DEF T
<1>3. Nat \subseteq T
    BY <1>1, <1>2, SetInduction
<1> QED  BY <1>3 DEF T

\* Digits of a concatenation.
LEMMA DigitsConcat ==
    ASSUME NEW a \in Seq(Digit), NEW b \in Seq(Digit)
    PROVE  Digits(a \o b) = Digits(a) * TenTo(Len(b)) + Digits(b)
<1> DEFINE T == {n \in Nat : \A s \in Seq(Digit) : Len(s) = n =>
                    Digits(a \o s) = Digits(a) * TenTo(n) + Digits(s)}
<1>0. Digits(a) \in Nat
    BY DigitsBound
<1>1. 0 \in T
    <2> SUFFICES ASSUME NEW s \in Seq(Digit), Len(s) = 0
                 PROVE  Digits(a \o s) = Digits(a) * TenTo(0) + Digits(s)
        OBVIOUS
    <2>1. s = <<>> /\ Digits(s) = 0 /\ TenTo(0) = 1
        BY NoDigits, TenToSteps
    <2>2. a \o s = a
        BY <2>1
    <2> QED  BY <1>0, <2>1, <2>2
<1>2. ASSUME NEW n \in Nat, n \in T
      PROVE  n + 1 \in T
    <2> SUFFICES ASSUME NEW s \in Seq(Digit), Len(s) = n + 1
                 PROVE  Digits(a \o s) = Digits(a) * TenTo(n + 1) + Digits(s)
        OBVIOUS
    <2>1. PICK q \in Seq(Digit), e \in Digit :
              Len(q) = n /\ s = Append(q, e) /\ q \in Seq(Nat) /\ e \in 0 .. 9
        <3> HIDE DEF T
        <3> QED  BY SplitLast
    <2>2. q \in Seq(Nat) /\ a \o q \in Seq(Nat) /\ e \in Nat
        <3>1. a \in Seq(Nat)
            BY DigitsAreNumbers
        <3> QED  BY <2>1, <3>1
    <2>3. a \o s = Append(a \o q, e)
        BY <2>1
    <2>4. Digits(a \o q) = Digits(a) * TenTo(n) + Digits(q) /\ Digits(q) \in Nat
        BY <1>2, <2>1, DigitsBound
    <2>5. Digits(s) = Digits(q) * 10 + e /\ Digits(a \o s) = Digits(a \o q) * 10 + e
        BY <2>1, <2>2, <2>3, DigitsAppend
    <2>6. TenTo(n) \in Nat /\ TenTo(n + 1) = TenTo(n) * 10
        BY TenToSteps
    <2>7. Digits(a) * (TenTo(n) * 10) = (Digits(a) * TenTo(n)) * 10 /\ Digits(a) * TenTo(n) \in Nat
        BY <1>0, <2>6, Products
    <2> QED  BY <2>2, <2>4, <2>5, <2>6, <2>7
<1> HIDE DEF T
<1>3. Nat \subseteq T
    BY <1>1, <1>2, SetInduction
<1> QED  BY <1>3 DEF T

\* The smaller of two numbers.
LEMMA MinOfTwo ==
    ASSUME NEW a \in Nat, NEW b \in Nat
    PROVE  Min({a, b}) = IF a <= b THEN a ELSE b
<1>1. CASE a <= b
    <2>1. \A x \in {a, b} : (\A y \in {a, b} : x <= y) <=> x = a
        BY <1>1
    <2> QED  BY <1>1, <2>1 DEF Min
<1>2. CASE ~ (a <= b)
    <2>1. \A x \in {a, b} : (\A y \in {a, b} : x <= y) <=> x = b
        BY <1>2
    <2> QED  BY <1>2, <2>1 DEF Min
<1> QED  BY <1>1, <1>2

\* n is v / unit rounded towards zero, for numbers that are not negative.
Quotient(n, v, unit) == n * unit <= v /\ v < (n + 1) * unit

\* A short fraction, filled up with zeros: nothing is cut.
LEMMA FilledUp ==
    ASSUME NEW W \in Nat, NEW F \in Nat, NEW unit \in Nat, NEW fill \in Nat, NEW scale \in Nat,
           unit > 0, scale = unit * fill
    PROVE  Quotient(W * scale + F * fill, (W * unit + F) * scale, unit)
<1>1. W * scale \in Nat /\ F * fill \in Nat /\ W * unit \in Nat
    BY Products
<1>2. (W * scale + F * fill) * unit = (W * scale) * unit + (F * fill) * unit
    BY <1>1, Products
<1>3. (W * unit + F) * scale = (W * unit) * scale + F * scale
    BY <1>1, Products
<1>4. (W * scale) * unit = (W * unit) * scale
    <2>1. (W * scale) * unit = W * (scale * unit) /\ (W * unit) * scale = W * (unit * scale)
        BY Products
    <2> QED  BY <2>1, Products
<1>5. (F * fill) * unit = F * scale
    <2>1. (F * fill) * unit = F * (fill * unit)
        BY Products
    <2> QED  BY <2>1, Products
<1> DEFINE n == W * scale + F * fill
<1> DEFINE v == (W * unit + F) * scale
<1>6. n * unit = v
    BY <1>2, <1>3, <1>4, <1>5
<1>7. n \in Nat /\ v \in Int
    <2>1. W * unit + F \in Nat
        BY <1>1
    <2> QED  BY <1>1, <2>1, Products
<1> HIDE DEF n, v
<1>8. (n + 1) * unit = n * unit + 1 * unit
    BY <1>7, Products
<1>9. Quotient(n, v, unit)
    BY <1>6, <1>7, <1>8 DEF Quotient
<1> QED  BY <1>9 DEF n, v

\* A long fraction K of scale and a rest R: the rest is cut.
LEMMA CutOff ==
    ASSUME NEW W \in Nat, NEW K \in Nat, NEW R \in Nat, NEW unit \in Nat, NEW rest \in Nat,
           NEW scale \in Nat, scale > 0, unit = scale * rest, R < rest
    PROVE  Quotient(W * scale + K, (W * unit + (K * rest + R)) * scale, unit)
<1>0. W * scale \in Nat /\ K * rest \in Nat /\ W * unit \in Nat /\ R * scale \in Nat
    BY Products
<1> DEFINE n == W * scale + K
<1> DEFINE v == (W * unit + (K * rest + R)) * scale
<1>1. n * unit = (W * scale) * unit + K * unit
    BY <1>0, Products
<1>2. v = (W * unit) * scale + ((K * rest) * scale + R * scale)
    <2>1. K * rest + R \in Int
        BY <1>0
    <2>2. v = (W * unit) * scale + (K * rest + R) * scale
        BY <1>0, <2>1, Products
    <2>3. (K * rest + R) * scale = (K * rest) * scale + R * scale
        BY <1>0, Products
    <2> QED  BY <2>2, <2>3
<1>3. (W * scale) * unit = (W * unit) * scale
    <2>1. (W * scale) * unit = W * (scale * unit) /\ (W * unit) * scale = W * (unit * scale)
        BY Products
    <2> QED  BY <2>1, Products
<1>4. (K * rest) * scale = K * unit
    <2>1. (K * rest) * scale = K * (rest * scale)
        BY Products
    <2> QED  BY <2>1, Products
<1>5. R * scale < unit
    <2>1. R * scale < rest * scale
        BY Products
    <2> QED  BY <2>1, Products
<1>6. n \in Nat /\ n * unit \in Int /\ (n + 1) * unit = n * unit + 1 * unit
    <2>1. n \in Nat
        BY <1>0
    <2> HIDE DEF n
    <2> QED  BY <2>1, Products
<1>7. v = n * unit + R * scale
    <2>1. (W * unit) * scale \in Int /\ K * unit \in Int
        BY <1>0, Products
    <2> HIDE DEF n, v
    <2> QED  BY <1>0, <1>1, <1>2, <1>3, <1>4, <2>1
<1> HIDE DEF n, v
<1>8. Quotient(n, v, unit)
    BY <1>0, <1>5, <1>6, <1>7 DEF Quotient
<1> QED  BY <1>8 DEF n, v

\* A fraction is a natural number.
LEMMA FractionType ==
    ASSUME NEW frac \in Seq(Digit), NEW kept \in Nat, NEW width \in Nat
    PROVE  Fraction(frac, kept, width) \in Nat
<1> DEFINE taken == Min({kept, Len(frac)})
<1> DEFINE zeros == IF taken < width THEN width - taken ELSE 0
<1>1. taken \in 0 .. Len(frac)
    BY MinOfTwo
<1>2. zeros \in Nat
    <2> HIDE DEF taken
    <2> QED  BY <1>1
<1>3. SubSeq(frac, 1, taken) \in Seq(Digit)
    <2> HIDE DEF taken
    <2> QED  BY <1>1
<1> HIDE DEF taken, zeros
<1>4. Digits(SubSeq(frac, 1, taken)) \in Nat /\ TenTo(zeros) \in Nat
    BY <1>2, <1>3, DigitsBound, TenToSteps
<1>5. Digits(SubSeq(frac, 1, taken)) * TenTo(zeros) \in Nat
    BY <1>4, Products
<1> QED  BY <1>5 DEF Fraction, taken, zeros

\* What the numerals of frames are made of, and a fraction that is not cut or
\* is cut after kept digits.
LEMMA ShortNumeral ==
    ASSUME NEW whole \in Seq(Digit), NEW frac \in Seq(Digit), NEW places \in Nat,
           NEW kept \in Nat, places <= kept, Len(frac) <= places
    PROVE  Quotient(Digits(whole) * TenTo(places) + Fraction(frac, kept, places),
                    Digits(whole \o frac) * TenTo(places), TenTo(Len(frac)))
<1> DEFINE l == Len(frac)
<1> DEFINE z == places - l
<1>1. l \in Nat /\ z \in Nat /\ l + z = places
    OBVIOUS
<1>2. Fraction(frac, kept, places) = Digits(frac) * TenTo(z)
    <2>1. Min({kept, l}) = l
        BY <1>1, MinOfTwo
    <2>2. SubSeq(frac, 1, l) = frac
        OBVIOUS
    <2>3. (IF l < places THEN places - l ELSE 0) = z
        OBVIOUS
    <2> QED  BY <2>1, <2>2, <2>3 DEF Fraction
<1>3. Digits(whole \o frac) = Digits(whole) * TenTo(l) + Digits(frac)
    BY DigitsConcat
<1>4. Digits(whole) \in Nat /\ Digits(frac) \in Nat
    BY DigitsBound
<1> HIDE DEF l, z
<1>5. /\ TenTo(l) \in Nat /\ TenTo(z) \in Nat /\ TenTo(places) \in Nat
      /\ TenTo(l) > 0 /\ TenTo(places) = TenTo(l) * TenTo(z)
    BY <1>1, TenToSteps, TenToProduct
<1>6. Quotient(Digits(whole) * TenTo(places) + Digits(frac) * TenTo(z),
               (Digits(whole) * TenTo(l) + Digits(frac)) * TenTo(places), TenTo(l))
    BY <1>4, <1>5, FilledUp
<1> QED  BY <1>2, <1>3, <1>6 DEF l

\* A fraction with more digits than are kept.
LEMMA LongNumeral ==
    ASSUME NEW whole \in Seq(Digit), NEW frac \in Seq(Digit), NEW places \in Nat,
           places < Len(frac)
    PROVE  Quotient(Digits(whole) * TenTo(places) + Fraction(frac, places, places),
                    Digits(whole \o frac) * TenTo(places), TenTo(Len(frac)))
<1> DEFINE l == Len(frac)
<1> DEFINE r == l - places
<1> DEFINE front == SubSeq(frac, 1, places)
<1> DEFINE back == SubSeq(frac, places + 1, l)
<1>1. l \in Nat /\ r \in Nat /\ places + r = l
    OBVIOUS
<1>2. front \in Seq(Digit) /\ back \in Seq(Digit) /\ frac = front \o back /\ Len(back) = r
    <2>1. \A i \in 1 .. l : frac[i] \in Digit
        OBVIOUS
    <2>2. front \in Seq(Digit)
        BY <1>1, <2>1, SubSeqProperties
    <2>3. back \in Seq(Digit) /\ Len(back) = r
        <3>1. places + 1 \in Int /\ l \in Int /\ places + 1 <= l /\ l - (places + 1) + 1 = r
            BY <1>1
        <3>2. \A i \in places + 1 .. l : frac[i] \in Digit
            BY <1>1, <2>1
        <3> QED  BY <3>1, <3>2, SubSeqProperties
    <2>4. front \o back = SubSeq(frac, 1, l)
        <3>1. 1 \in 1 .. Len(frac) + 1 /\ places \in 1 - 1 .. Len(frac) /\ l \in places .. Len(frac)
            BY <1>1
        <3> QED  BY <3>1, ConcatAdjacentSubSeq
    <2>5. SubSeq(frac, 1, l) = frac
        BY SubSeqFull
    <2> QED  BY <2>2, <2>3, <2>4, <2>5, Zenon
<1>3. Fraction(frac, places, places) = Digits(front)
    <2>1. Min({places, l}) = places
        BY <1>1, MinOfTwo
    <2>2. Fraction(frac, places, places) = Digits(front) * TenTo(0)
        BY <2>1 DEF Fraction
    <2>3. Digits(front) \in Nat /\ TenTo(0) = 1
        BY <1>2, DigitsBound, TenToSteps
    <2> QED  BY <2>2, <2>3
<1>4. Digits(whole \o frac) = Digits(whole) * TenTo(l) + Digits(frac)
    BY DigitsConcat
<1>5. Digits(frac) = Digits(front) * TenTo(r) + Digits(back)
    <2> HIDE DEF front, back, r
    <2> QED  BY <1>2, DigitsConcat
<1>6. /\ Digits(whole) \in Nat /\ Digits(front) \in Nat
      /\ Digits(back) \in Nat /\ Digits(back) < TenTo(r)
    <2> HIDE DEF front, back, r
    <2> QED  BY <1>2, DigitsBound
<1> HIDE DEF l, r, front, back
<1>7. /\ TenTo(l) \in Nat /\ TenTo(r) \in Nat /\ TenTo(places) \in Nat
      /\ TenTo(places) > 0 /\ TenTo(l) = TenTo(places) * TenTo(r)
    BY <1>1, TenToSteps, TenToProduct
<1>8. Quotient(Digits(whole) * TenTo(places) + Digits(front),
               (Digits(whole) * TenTo(l) + (Digits(front) * TenTo(r) + Digits(back)))
                   * TenTo(places), TenTo(l))
    BY <1>6, <1>7, CutOff
<1> QED  BY <1>3, <1>4, <1>5, <1>8 DEF l

\* The sign: a quotient of the magnitudes is a truncation of the signed value.
LEMMA SignedQuotient ==
    ASSUME NEW a \in Numeral, NEW n \in Nat, NEW places \in Nat,
           Quotient(n, Digits(a.whole \o a.frac) * TenTo(places), TenTo(Len(a.frac)))
    PROVE  Truncated(Signed(a, n), a, places)
<1> DEFINE d == Digits(a.whole \o a.frac)
<1> DEFINE unit == TenTo(Len(a.frac))
<1> DEFINE p == TenTo(places)
<1>1. a.whole \in Seq(Digit) /\ a.frac \in Seq(Digit) /\ a.neg \in BOOLEAN
    BY DEF Numeral
<1>2. d \in Nat /\ unit \in Nat /\ p \in Nat
    <2>1. a.whole \o a.frac \in Seq(Digit) /\ Len(a.frac) \in Nat
        BY <1>1
    <2> QED  BY <2>1, DigitsBound, TenToSteps
<1> HIDE DEF d, unit, p
<1>3. d * p \in Int /\ n * unit \in Int /\ (n + 1) * unit \in Int
    BY <1>2, Products
<1>4. CASE ~ a.neg
    <2>1. n * unit <= d * p /\ d * p < (n + 1) * unit
        BY DEF Quotient, d, unit, p
    <2> QED  BY <1>4, <2>1 DEF Truncated, Signed, Unscaled, d, unit, p
<1>5. CASE a.neg
    <2>1. n * unit <= d * p /\ d * p < (n + 1) * unit
        BY DEF Quotient, d, unit, p
    <2>2. (-d) * p = -(d * p) /\ (-n) * unit = -(n * unit)
          /\ (-n - 1) * unit = -((n + 1) * unit)
        BY <1>2
    <2>3. (-n - 1) * unit < (-d) * p /\ (-d) * p <= (-n) * unit
        BY <1>3, <2>1, <2>2
    <2> QED  BY <1>5, <2>3 DEF Truncated, Signed, Unscaled, d, unit, p
<1> QED  BY <1>1, <1>4, <1>5

\* parse_quantity_to_units cuts what the venue wrote to millionths, however
\* many digits there are.
LEMMA QuantityTruncated ==
    ASSUME NEW a \in Numeral
    PROVE  Truncated(parse_quantity_to_units(a), a, 6)
<1> DEFINE n == Digits(a.whole) * 1000000 + Fraction(a.frac, 6, 6)
<1>1. a.whole \in Seq(Digit) /\ a.frac \in Seq(Digit) /\ Len(a.frac) \in Nat
    BY DEF Numeral
<1>2. Quotient(n, Digits(a.whole \o a.frac) * TenTo(6), TenTo(Len(a.frac)))
    <2>1. CASE Len(a.frac) <= 6
        BY <1>1, <2>1, ShortNumeral, Scales
    <2>2. CASE 6 < Len(a.frac)
        BY <1>1, <2>2, LongNumeral, Scales
    <2> QED  BY <1>1, <2>1, <2>2
<1>3. n \in Nat
    <2>1. Digits(a.whole) \in Nat
        BY <1>1, DigitsBound
    <2>2. Fraction(a.frac, 6, 6) \in Nat
        BY <1>1, FractionType
    <2> QED  BY <2>1, <2>2
<1> HIDE DEF n
<1>4. Truncated(Signed(a, n), a, 6)
    BY <1>2, <1>3, SignedQuotient
<1> QED  BY <1>4 DEF n, parse_quantity_to_units

\* parse_price_to_ticks is exact in hundredths for at most two decimals.
LEMMA PriceTruncated ==
    ASSUME NEW a \in Numeral, Len(a.frac) <= 2
    PROVE  Truncated(parse_price_to_ticks(a), a, 2)
<1> DEFINE n == Digits(a.whole) * 100 + Fraction(a.frac, 9, 2)
<1>1. a.whole \in Seq(Digit) /\ a.frac \in Seq(Digit)
    BY DEF Numeral
<1>2. Quotient(n, Digits(a.whole \o a.frac) * TenTo(2), TenTo(Len(a.frac)))
    BY <1>1, ShortNumeral, Scales
<1>3. n \in Nat
    <2>1. Digits(a.whole) \in Nat
        BY <1>1, DigitsBound
    <2>2. Fraction(a.frac, 9, 2) \in Nat
        BY <1>1, FractionType
    <2> QED  BY <2>1, <2>2
<1> HIDE DEF n
<1>4. Truncated(Signed(a, n), a, 2)
    BY <1>2, <1>3, SignedQuotient
<1> QED  BY <1>4 DEF n, parse_price_to_ticks

\* A normalized frame has the venue's quantities, and its prices where it
\* writes at most two decimals.
LEMMA NormalizedExact ==
    ASSUME NEW f \in Frame, Normalize(f) # None, None \notin Numeral
    PROVE  LET u == Normalize(f) IN
           /\ u.frame = f
           /\ Truncated(u.bidQty, f.bidQty, 6) /\ Truncated(u.askQty, f.askQty, 6)
           /\ Len(f.bid.frac) <= 2 => Truncated(u.bid, f.bid, 2)
           /\ Len(f.ask.frac) <= 2 => Truncated(u.ask, f.ask, 2)
<1>1. Complete(f)
    BY DEF Normalize
<1>2. /\ f.bid \in Numeral /\ f.ask \in Numeral
      /\ f.bidQty \in Numeral /\ f.askQty \in Numeral
    BY <1>1 DEF Complete, Frame, Fields
<1>3. /\ Normalize(f).frame = f
      /\ Normalize(f).bid = parse_price_to_ticks(f.bid)
      /\ Normalize(f).ask = parse_price_to_ticks(f.ask)
      /\ Normalize(f).bidQty = parse_quantity_to_units(f.bidQty)
      /\ Normalize(f).askQty = parse_quantity_to_units(f.askQty)
    BY <1>1 DEF Normalize
<1>4. /\ Truncated(parse_quantity_to_units(f.bidQty), f.bidQty, 6)
      /\ Truncated(parse_quantity_to_units(f.askQty), f.askQty, 6)
    BY <1>2, QuantityTruncated
<1>5. /\ Len(f.bid.frac) <= 2 => Truncated(parse_price_to_ticks(f.bid), f.bid, 2)
      /\ Len(f.ask.frac) <= 2 => Truncated(parse_price_to_ticks(f.ask), f.ask, 2)
    BY <1>2, PriceTruncated
<1> QED  BY <1>3, <1>4, <1>5

\* What the router compares is what the venues sent: quantities cut to
\* millionths and prices with up to two decimals exactly, for numerals of any
\* length.
THEOREM BooksTruncated == Spec => []BooksExact
<1>1. TypeOK => BooksExact
    <2> SUFFICES ASSUME TypeOK, NEW t \in Stream, books[t] # None
                 PROVE  LET f == books[t].frame IN
                        /\ Truncated(books[t].bidQty, f.bidQty, 6)
                        /\ Truncated(books[t].askQty, f.askQty, 6)
                        /\ Len(f.bid.frac) <= 2 => Truncated(books[t].bid, f.bid, 2)
                        /\ Len(f.ask.frac) <= 2 => Truncated(books[t].ask, f.ask, 2)
        BY DEF BooksExact
    <2>1. PICK f \in Frames : books[t] = Normalize(f)
        BY DEF TypeOK
    <2>2. f \in Frame /\ None \notin Numeral
        BY RouterAssumption
    <2> QED  BY <2>1, <2>2, NormalizedExact
<1> QED  BY <1>1, TypeCorrect, PTL
=============================================================================

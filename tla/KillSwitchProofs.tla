------------------------- MODULE KillSwitchProofs -------------------------
(***************************************************************************)
(* Proofs about KillSwitch for every set of threads, every limit and every *)
(* bound on the calls.                                                     *)
(*                                                                         *)
(* The argument: the compare-exchange of trigger() elects one thread, the  *)
(* winner, and until that thread has stored both the reason and the time   *)
(* stamp nobody else can touch them (OneWinner, WinnerKnows).  Everything  *)
(* the switch promises holds because the flag is cleared before either     *)
(* store and because a call that saw a cause of a trip either is still on  *)
(* its way to the compare-exchange or has been through it (CauseNoted).    *)
(***************************************************************************)
EXTENDS KillSwitch, TLAPS

\* Between winning the compare-exchange and storing the time stamp.
Recording(p) == pc[p] \in {"reason", "stamp"}

\* Only one thread at a time records a trip.
OneWinner == \A p, q \in Proc : Recording(p) /\ Recording(q) => p = q

\* A thread in trigger() brings a reason.
HasReason == \A p \in Proc : pc[p] = "trigger" \/ Recording(p) => arg[p] # "None"

\* While a trip is recorded trading is disabled already, and the winner finds
\* the reason and the stamp as it left them.
WinnerKnows ==
    \A p \in Proc :
        /\ Recording(p) => ~enabled /\ stamped = FALSE
        /\ pc[p] = "reason" => reason = "None"
        /\ pc[p] = "stamp" => reason # "None"

\* Enabled means nothing is recorded; disabled with no winner left means that
\* everything is.
Recorded ==
    /\ enabled => reason = "None" /\ ~stamped
    /\ ~enabled /\ (\A p \in Proc : ~Recording(p)) => reason # "None" /\ stamped

\* A counter past its limit has disabled trading or has a call about to.
CauseNoted ==
    /\ \A c \in Counters : count[c] > Limit[c] =>
          ~enabled \/ \E p \in Proc : pc[p] = "trigger"
    /\ HaltHonoured

\* The inductive invariant.
IInv ==
    TypeOK /\ OneWinner /\ HasReason /\ WinnerKnows /\ Recorded /\ CauseNoted

-----------------------------------------------------------------------------
\* Every counter trips with a reason of its own.
LEMMA ReasonOfCounter ==
    \A c \in Counters : ReasonOf[c] \in Reasons \ {"None"}
BY DEF ReasonOf, Counters, Reasons

\* The switch as constructed satisfies the invariant.
LEMMA InitIInv == Init => IInv
<1> SUFFICES ASSUME Init PROVE IInv
    OBVIOUS
<1> USE DEF Init
<1>1. TypeOK
    <2>1. count \in [Counters -> 0 .. MaxCount]
        BY KillSwitchAssumption
    <2>2. "None" \in Reasons
        BY DEF Reasons
    <2> QED
        BY <2>1, <2>2 DEF TypeOK
<1>2. OneWinner /\ HasReason /\ WinnerKnows /\ Recorded
    BY DEF OneWinner, HasReason, WinnerKnows, Recorded, Recording
<1>3. CauseNoted
    BY KillSwitchAssumption DEF CauseNoted, HaltHonoured
<1> QED
    BY <1>1, <1>2, <1>3 DEF IInv

\* Every step of a call, a reset between calls and the operator keep it.
LEMMA NextIInv == IInv /\ [Next]_vars => IInv'
<1> USE KillSwitchAssumption
<1> SUFFICES ASSUME IInv, [Next]_vars PROVE IInv'
    OBVIOUS
<1> USE DEF IInv, TypeOK, OneWinner, HasReason, WinnerKnows, Recorded,
            CauseNoted, HaltHonoured, Recording, Goto, callVars
<1>1. CASE OperatorTogglesHalt
    BY <1>1 DEF OperatorTogglesHalt
<1>2. CASE Reset
    <2> USE <1>2 DEF Reset, Quiet
    <2>1. TypeOK'
        <3>1. count' \in [Counters -> 0 .. MaxCount]
            OBVIOUS
        <3>2. "None" \in Reasons
            BY DEF Reasons
        <3> QED
            BY <3>1, <3>2
    <2>2. OneWinner' /\ HasReason' /\ WinnerKnows' /\ Recorded'
        OBVIOUS
    <2>3. CauseNoted'
        OBVIOUS
    <2> QED
        BY <2>1, <2>2, <2>3
<1>3. ASSUME NEW p \in Proc, NEW c \in Counters, OnEvent(p, c) PROVE IInv'
    BY <1>3, ReasonOfCounter DEF OnEvent, Exceeds
<1>4. ASSUME NEW p \in Proc, TradingEnabled(p) PROVE IInv'
    BY <1>4 DEF TradingEnabled, Reasons
<1>5. ASSUME NEW p \in Proc, LoadEnabled(p) PROVE IInv'
    BY <1>5 DEF LoadEnabled
<1>6. ASSUME NEW p \in Proc, TriggerCas(p) PROVE IInv'
    BY <1>6 DEF TriggerCas, AfterTrigger
<1>7. ASSUME NEW p \in Proc, StoreReason(p) PROVE IInv'
    BY <1>7 DEF StoreReason
<1>8. ASSUME NEW p \in Proc, StoreStamp(p) PROVE IInv'
    BY <1>8 DEF StoreStamp, AfterTrigger
<1>9. CASE UNCHANGED vars
    BY <1>9 DEF vars
<1> QED
    BY <1>1, <1>2, <1>3, <1>4, <1>5, <1>6, <1>7, <1>8, <1>9 DEF Next, Call

\* The invariant holds throughout.
LEMMA Inductive == Spec => []IInv
BY InitIInv, NextIInv, PTL DEF Spec

-----------------------------------------------------------------------------
\* Members and locals of the kill switch keep their types in every run.
THEOREM TypeCorrect == Spec => []TypeOK
<1>1. IInv => TypeOK
    BY DEF IInv
<1> QED
    BY <1>1, Inductive, PTL

\* Whenever no call is in progress, a counter past its limit has disabled
\* trading, and flag, reason and time stamp agree: trigger() never loses a
\* trip to a race and never leaves one half recorded.
THEOREM TripsAreRecorded == Spec => []TripsRecorded
<1>1. IInv => TripsRecorded
    BY DEF IInv, TypeOK, Recorded, CauseNoted, Recording, TripsRecorded, Quiet
<1> QED
    BY <1>1, Inductive, PTL

\* trading_enabled() never returns true after it has found the halt file.
THEOREM HaltIsHonoured == Spec => []HaltHonoured
<1>1. IInv => HaltHonoured
    BY DEF IInv, CauseNoted
<1> QED
    BY <1>1, Inductive, PTL

\* The reason recorded first stays until a reset, however many threads call
\* trigger() at the same time.
THEOREM FirstReasonStays == Spec => FirstReasonWins
<1>1. IInv /\ [Next]_vars => [reason # "None" => reason' \in {reason, "None"}]_vars
    <2> SUFFICES ASSUME IInv, Next, reason # "None"
                 PROVE  reason' \in {reason, "None"}
        OBVIOUS
    <2>1. ASSUME NEW p \in Proc, StoreReason(p) PROVE FALSE
        BY <2>1 DEF StoreReason, IInv, WinnerKnows
    <2> QED
        BY <2>1 DEF Next, Call, OperatorTogglesHalt, Reset, OnEvent,
                    TradingEnabled, LoadEnabled, TriggerCas, StoreStamp
<1> QED
    BY <1>1, Inductive, PTL DEF Spec, FirstReasonWins
=============================================================================

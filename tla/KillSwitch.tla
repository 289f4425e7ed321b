----------------------------- MODULE KillSwitch -----------------------------
(***************************************************************************)
(* llt::KillSwitch (src/kill_switch.cpp), called from several threads.     *)
(* Every member is an atomic of its own, so each load, store,              *)
(* compare-exchange and fetch_add is a step and calls interleave between   *)
(* them.  The manual halt file is created and removed by the operator.     *)
(***************************************************************************)
EXTENDS Integers

CONSTANTS
    Proc,      \* threads that call the switch
    Limit,     \* KillSwitchLimits, by counter
    MaxCount   \* bound: calls of each on_... function between resets

Counters == {"routes", "rejects", "disconnects"}

\* Plausible bug: one of the counters has no reason of its own.
ReasonOf_Unknown == [c \in Counters |->
                IF c = "routes" THEN "MaxRoutesExceeded" ELSE "Unknown"]

ReasonOf == [c \in Counters |->
                CASE c = "routes"  -> "MaxRoutesExceeded"
                  [] c = "rejects" -> "MaxRejectsExceeded"
                  [] OTHER         -> "GatewayDisconnect"]
Reasons == {"None", "ManualOperatorHalt", "MaxRoutesExceeded",
            "MaxRejectsExceeded", "GatewayDisconnect"}

ASSUME KillSwitchAssumption ==
    Limit \in [Counters -> Nat] /\ MaxCount \in Nat

VARIABLES
    enabled, reason, stamped,  \* trading_enabled_, reason_, triggered_ts_ns_ # 0
    count,                     \* routes_seen_, rejects_seen_, gateway_disconnects_
    halt,                      \* the halt file exists
    pc, arg, sawHalt           \* per thread: step, reason to trigger with,
                               \* trading_enabled() found the file

callVars == <<pc, arg, sawHalt>>
vars == <<enabled, reason, stamped, count, halt, callVars>>

Init ==
    /\ enabled = TRUE /\ reason = "None" /\ stamped = FALSE
    /\ count = [c \in Counters |-> 0]
    /\ halt = FALSE
    /\ pc = [p \in Proc |-> "idle"]
    /\ arg = [p \in Proc |-> "None"]
    /\ sawHalt = [p \in Proc |-> FALSE]

Goto(p, label) == pc' = [pc EXCEPT ![p] = label]

\* Plausible bug: the switch trips one call late.
Exceeds_Late(c, n) == n > Limit[c] + 1

Exceeds(c, n) == n > Limit[c]

\* on_route, on_reject, on_gateway_disconnect: fetch_add, then the test
OnEvent(p, c) ==
    /\ pc[p] = "idle" /\ count[c] < MaxCount
    /\ count' = [count EXCEPT ![c] = @ + 1]
    /\ IF Exceeds(c, count[c] + 1)
       THEN Goto(p, "trigger") /\ arg' = [arg EXCEPT ![p] = ReasonOf[c]]
       ELSE UNCHANGED <<pc, arg>>
    /\ UNCHANGED <<enabled, reason, stamped, halt, sawHalt>>

\* Plausible bug: the halt file is noticed but nothing is triggered.
TradingEnabled_NoTrigger(p) ==
    /\ pc[p] = "idle"
    /\ sawHalt' = [sawHalt EXCEPT ![p] = halt]
    /\ Goto(p, "load")
    /\ UNCHANGED <<enabled, reason, stamped, count, halt, arg>>

\* trading_enabled: look for the halt file ...
TradingEnabled(p) ==
    /\ pc[p] = "idle"
    /\ sawHalt' = [sawHalt EXCEPT ![p] = halt]
    /\ IF halt
       THEN Goto(p, "trigger") /\ arg' = [arg EXCEPT ![p] = "ManualOperatorHalt"]
       ELSE Goto(p, "load") /\ UNCHANGED arg
    /\ UNCHANGED <<enabled, reason, stamped, count, halt>>

\* where trigger() returns to
AfterTrigger(p) == IF sawHalt[p] THEN "load" ELSE "idle"

\* ... and load the flag
LoadEnabled(p) ==
    /\ pc[p] = "load"
    /\ Goto(p, "idle")
    /\ sawHalt' = [sawHalt EXCEPT ![p] = FALSE]
    /\ UNCHANGED <<enabled, reason, stamped, count, halt, arg>>

\* Plausible bug: a load and a store instead of the compare-exchange: every
\* caller goes on to write its reason.
TriggerCas_Always(p) ==
    /\ pc[p] = "trigger"
    /\ enabled' = FALSE
    /\ Goto(p, "reason")
    /\ UNCHANGED <<reason, stamped, count, halt, arg, sawHalt>>

\* trigger(reason): compare_exchange_strong(true, false) ...
TriggerCas(p) ==
    /\ pc[p] = "trigger"
    /\ IF enabled
       THEN enabled' = FALSE /\ Goto(p, "reason")
       ELSE UNCHANGED enabled /\ Goto(p, AfterTrigger(p))
    /\ UNCHANGED <<reason, stamped, count, halt, arg, sawHalt>>

\* ... then the reason ...
StoreReason(p) ==
    /\ pc[p] = "reason"
    /\ reason' = arg[p]
    /\ Goto(p, "stamp")
    /\ UNCHANGED <<enabled, stamped, count, halt, arg, sawHalt>>

\* ... then the time stamp
StoreStamp(p) ==
    /\ pc[p] = "stamp"
    /\ stamped' = TRUE
    /\ Goto(p, AfterTrigger(p))
    /\ UNCHANGED <<enabled, reason, count, halt, arg, sawHalt>>

Quiet == \A p \in Proc : pc[p] = "idle"

\* reset(): six stores, the flag last.  No program calls it; it makes sense
\* only while no other call is in progress.
Reset ==
    /\ Quiet
    /\ enabled' = TRUE /\ reason' = "None" /\ stamped' = FALSE
    /\ count' = [c \in Counters |-> 0]
    /\ UNCHANGED <<halt, callVars>>

\* touch controls/HALT, rm controls/HALT
OperatorTogglesHalt ==
    /\ halt' = ~halt
    /\ UNCHANGED <<enabled, reason, stamped, count, callVars>>

Call(p) ==
    \/ \E c \in Counters : OnEvent(p, c)
    \/ TradingEnabled(p)
    \/ LoadEnabled(p)
    \/ TriggerCas(p)
    \/ StoreReason(p)
    \/ StoreStamp(p)

Next == OperatorTogglesHalt \/ Reset \/ \E p \in Proc : Call(p)

Spec == Init /\ [][Next]_vars

-----------------------------------------------------------------------------
(* Properties *)

\* Members and locals have their types.
TypeOK ==
    /\ enabled \in BOOLEAN /\ stamped \in BOOLEAN /\ halt \in BOOLEAN
    /\ reason \in Reasons
    /\ count \in [Counters -> 0 .. MaxCount]
    /\ pc \in [Proc -> {"idle", "load", "trigger", "reason", "stamp"}]
    /\ arg \in [Proc -> Reasons]
    /\ sawHalt \in [Proc -> BOOLEAN]

\* When no call is in progress a counter above its limit means that trading
\* is disabled, and the flag, the reason and the time stamp agree: no
\* interleaving of on_... calls loses a trip or leaves it half recorded.
TripsRecorded ==
    Quiet => /\ (\E c \in Counters : count[c] > Limit[c]) => ~enabled
             /\ enabled <=> reason = "None"
             /\ enabled <=> ~stamped

\* A trading_enabled() that found the halt file finds trading disabled when it
\* loads the flag.
HaltHonoured == \A p \in Proc : pc[p] = "load" /\ sawHalt[p] => ~enabled

\* The recorded reason is the one of the call that disabled trading: a later
\* trigger never overwrites it, and only a reset clears it.
FirstReasonWins ==
    [][reason # "None" => reason' \in {reason, "None"}]_vars
=============================================================================

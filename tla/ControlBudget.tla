--------------------------- MODULE ControlBudget ---------------------------
(***************************************************************************)
(* The budget of control events (faketcp_admit_control_event_inner and     *)
(* faketcp_take_control_budget): what keeps packets from flooding the ring *)
(* buffer and the userspace behind it.  One WireGuard interface of one     *)
(* generation has one cursor of virtual time, which the CPUs move with     *)
(* compare-and-swap, each with the time it read before.                    *)
(*                                                                         *)
(* A flow also has its last event of each type, in an LRU map that may     *)
(* forget it: two events closer than the interval are coalesced.           *)
(***************************************************************************)
EXTENDS Naturals

CONSTANTS
    CPUs, Flows,
    Interval, Burst,    \* faketcp_control_policy_value
    Attempts,           \* FAKETCP_CONTROL_CAS_ATTEMPTS
    MaxTime             \* the last tick of the clock

\* The bounds the code checks; the times are short of overflow.
BudgetAssumption == Interval \in Nat \ {0} /\ Burst \in Nat \ {0} /\ Attempts \in Nat \ {0}

VARIABLES
    clock,      \* bpf_ktime_get_ns; it starts at 1
    cursor,     \* virtual_time_nanos, 0 before the first event
    last,       \* faketcp_control_flow_map: last_event_nanos of each flow, or 0
    job,        \* what each CPU is doing
    admitted    \* the times at which events were admitted

vars == <<clock, cursor, last, job, admitted>>

Rest == [at |-> "idle", flow |-> "none", now |-> 0, old |-> 0, left |-> 0]

Init ==
    /\ clock = 1 /\ cursor = 0
    /\ last = [f \in Flows |-> 0]
    /\ job = [c \in CPUs |-> Rest]
    /\ admitted = [t \in 1 .. MaxTime |-> 0]

Tick ==
    /\ clock < MaxTime
    /\ clock' = clock + 1
    /\ UNCHANGED <<cursor, last, job, admitted>>

Is(c, at) == job[c].at = at

\* The LRU map drops an entry.
Evict ==
    /\ \E f \in Flows : last[f] # 0 /\ last' = [last EXCEPT ![f] = 0]
    /\ UNCHANGED <<clock, cursor, job, admitted>>

\* A packet that calls for an event: the time is read, and the event of a flow that
\* has had one less than an interval ago is coalesced.
Ask(c) ==
    /\ Is(c, "idle")
    /\ \E f \in Flows :
        /\ last[f] = 0 \/ (clock > last[f] /\ clock - last[f] >= Interval)
        /\ job' = [job EXCEPT ![c] = [at |-> "load", flow |-> f, now |-> clock, old |-> 0,
                                      left |-> Attempts]]
    /\ UNCHANGED <<clock, cursor, last, admitted>>

\* One attempt begins with reading the cursor.
LoadCursor(c) ==
    /\ Is(c, "load")
    /\ job' = [job EXCEPT ![c].at = "swap", ![c].old = cursor]
    /\ UNCHANGED <<clock, cursor, last, admitted>>

\* Mutant: the cursor restarts from the time the packet read.
FromNow(c) == job[c].now + Interval

\* Where the cursor goes: from now, or from where it is if that is later.
Candidate(c) ==
    (IF job[c].old > job[c].now THEN job[c].old ELSE job[c].now) + Interval

\* Mutant: one event more than the burst.
Roomy(c) == job[c].old # 0 => Candidate(c) <= job[c].now + Interval * (Burst + 1)

\* The first event of a generation needs no room.
HasRoom(c) == job[c].old # 0 => Candidate(c) <= job[c].now + Interval * Burst

Refuse(c) ==
    /\ Is(c, "swap") /\ ~HasRoom(c)
    /\ job' = [job EXCEPT ![c] = Rest]
    /\ UNCHANGED <<clock, cursor, last, admitted>>

\* Mutant: a plain store in the place of the compare-and-swap.
SwapBlind(c) == TRUE

SwapSucceeds(c) == cursor = job[c].old

\* The event is admitted, and the flow's entry written if the map takes it.
Swap(c) ==
    /\ Is(c, "swap") /\ HasRoom(c) /\ SwapSucceeds(c)
    /\ cursor' = Candidate(c)
    /\ admitted' = [admitted EXCEPT ![job[c].now] = @ + 1]
    /\ last' \in {last, [last EXCEPT ![job[c].flow] = job[c].now]}
    /\ job' = [job EXCEPT ![c] = Rest]
    /\ UNCHANGED clock

\* Another CPU was faster; after the last attempt the event is given up.
SwapFails(c) ==
    /\ Is(c, "swap") /\ HasRoom(c) /\ ~SwapSucceeds(c)
    /\ job' = [job EXCEPT ![c] = IF job[c].left = 1 THEN Rest
                                 ELSE [job[c] EXCEPT !.at = "load", !.left = @ - 1]]
    /\ UNCHANGED <<clock, cursor, last, admitted>>

Next ==
    \/ Tick \/ Evict
    \/ \E c \in CPUs : Ask(c) \/ LoadCursor(c) \/ Refuse(c) \/ Swap(c) \/ SwapFails(c)

Spec == Init /\ [][Next]_vars

-----------------------------------------------------------------------------
\* Every field keeps its range; no packet reads a time to come.
TypeOK ==
    /\ clock \in 1 .. MaxTime /\ cursor \in 0 .. MaxTime + Interval * Burst
    /\ \A f \in Flows : last[f] \in 0 .. MaxTime
    /\ \A c \in CPUs : job[c].left \in 0 .. Attempts /\ job[c].now \in 0 .. clock
    /\ \A t \in DOMAIN admitted : admitted[t] \in Nat

AdmittedBetween(s, t) ==
    LET total[u \in s - 1 .. t] == IF u < s THEN 0 ELSE total[u - 1] + admitted[u]
    IN total[t]

\* In any stretch of time no more events are admitted than the burst and one for each
\* interval of its length, counted by the times their packets read, however many CPUs
\* race for the cursor and whatever the LRU map forgets.
EventsBounded ==
    \A s, t \in 1 .. MaxTime : s <= t =>
        AdmittedBetween(s, t) <= Burst + (t - s) \div Interval
=============================================================================

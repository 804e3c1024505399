---------------------------- MODULE Supervisor ----------------------------
(***************************************************************************)
(* fakeTCPRuntimeSupervisor (internal/dataplane/faketcp_supervisor.go):    *)
(* the owner of the one FakeTCP runtime of a process and of the barrier    *)
(* that keeps its event loop quiet while the startup guard is installed.   *)
(*                                                                         *)
(* operationMu lets one of Ensure, Stop, Quiesce and Resume run at a time; *)
(* "call" is the one that runs and how far it has come.  The runtime's Run *)
(* goroutine returns, and the caller's context is cancelled, at any point  *)
(* between its steps.  The pause revision is left out: under operationMu   *)
(* it never differs from the one a rollback expects.                       *)
(***************************************************************************)
EXTENDS Naturals, FiniteSets

CONSTANTS Keys,       \* desired keys of a runtime
          Runtimes,   \* identities of built runtimes, free again once closed
          Tokens,     \* startup-guard lease tokens, minted unused
          None

VARIABLES
    current,    \* supervisor.current, or None
    live,       \* runtimes that own a collection, TC, XDP and quota
    phase,      \* startupGuardPause.Phase
    lease,      \* startupGuardLease
    released,   \* startupGuardReleased
    inner,      \* startupGuardPausedRuntime, with a nonzero inner lease
    caller,     \* the lease the last successful Quiesce gave to its caller
    call,       \* the call that holds operationMu, or None
    ret,        \* how the last call returned
    cancelled   \* the context of the call

barrier == <<phase, lease, released, inner, caller>>
supVars == <<current, live, barrier, call, ret, cancelled>>

Entry == [id : Runtimes, key : Keys, started : BOOLEAN, done : BOOLEAN,
          stopRequested : BOOLEAN, failed : BOOLEAN, paused : BOOLEAN]

Call == [op : {"ensure", "stop", "quiesce", "resume"},
         step : {"begin", "wait", "close", "build", "building", "pause", "resume"},
         key : Keys \cup {None}, built : Runtimes \cup {None}, failed : BOOLEAN]

ASSUME PoolAssumption ==
    /\ None \notin Keys \cup Runtimes \cup Tokens \cup Entry \cup Call
    /\ Cardinality(Runtimes) >= 2 /\ Cardinality(Tokens) >= 3

SupInit ==
    /\ current = None /\ live = {}
    /\ phase = "open" /\ lease = None /\ released = None /\ inner = None
    /\ caller = None /\ call = None /\ ret = "ok" /\ cancelled = FALSE

At(op, step) == call # None /\ call.op = op /\ call.step = step

Begin(op, k) == call' = [op |-> op, step |-> "begin", key |-> k, built |-> None,
                         failed |-> FALSE]

Goto(step) == call' = [call EXCEPT !.step = step] /\ UNCHANGED ret

Return(r) == call' = None /\ ret' = r

-----------------------------------------------------------------------------
(* The Run goroutine and the caller's context *)

\* A Run that returns unasked has failed (errFakeTCPRuntimeExited at least);
\* after RequestStop it returns cleanly, or with an error all the same.
RunReturns ==
    /\ current # None /\ current.started /\ ~current.done
    /\ \E failed \in IF current.stopRequested THEN BOOLEAN ELSE {TRUE} :
         current' = [current EXCEPT !.done = TRUE, !.failed = failed]
    /\ UNCHANGED <<live, barrier, call, ret, cancelled>>

Cancel ==
    /\ call # None
    /\ ~cancelled /\ cancelled' = TRUE
    /\ UNCHANGED <<current, live, barrier, call, ret>>

-----------------------------------------------------------------------------
(* Stopping and closing the current runtime *)

\* Faulty variant: a runtime that never started is waited for like any other.
RequestStopWaitsForRun == [current EXCEPT !.stopRequested = TRUE]

\* supervisedFakeTCPRuntime.requestStop: a runtime that was never started is
\* done at once.
RequestStop ==
    [current EXCEPT !.stopRequested = TRUE, !.done = @ \/ ~current.started]

\* RequestStop may report an error the first time; the call remembers it.
StopAndRetire ==
    /\ current' = RequestStop
    /\ \E failed \in IF current.stopRequested THEN {FALSE} ELSE BOOLEAN :
         call' = [call EXCEPT !.step = "wait", !.failed = failed]
    /\ UNCHANGED <<live, barrier, ret, cancelled>>

\* Faulty variant: a cancelled wait goes on to close the runtime anyway.
WaitClosesWhenCancelled ==
    /\ call # None /\ call.step = "wait"
    /\ (current.done \/ cancelled) /\ Goto("close")
    /\ UNCHANGED <<current, live, barrier, cancelled>>

\* Either channel of the select may be ready; a cancelled wait keeps the owner.
Wait ==
    /\ call # None /\ call.step = "wait"
    /\ \/ current.done /\ Goto("close")
       \/ cancelled /\ Return("error")
    /\ UNCHANGED <<current, live, barrier, cancelled>>

\* Faulty variant: the entry is dropped although Close failed.
CloseForgetsFailure ==
    /\ call # None /\ call.step = "close"
    /\ \E closed \in BOOLEAN :
         /\ live' = IF closed THEN live \ {current.id} ELSE live
         /\ current' = None
         /\ inner' = IF inner = current.id THEN None ELSE inner
         /\ IF call.op = "ensure" THEN Goto("build") ELSE Return("ok")
    /\ UNCHANGED <<phase, lease, released, caller, cancelled>>

\* Faulty variant: the inner lease outlives its runtime.
CloseKeepsLease ==
    /\ call # None /\ call.step = "close"
    /\ live' = live \ {current.id}
    /\ current' = None
    /\ IF call.op = "ensure" THEN Goto("build") ELSE Return("ok")
    /\ UNCHANGED <<phase, lease, released, inner, caller, cancelled>>

\* runtime.Close, then clearCurrent if it succeeded, which also drops the inner
\* lease of that runtime.  The joined error holds the Run's error, so a call
\* can fail although it released the owner.
Close ==
    /\ call # None /\ call.step = "close"
    /\ \/ /\ live' = live \ {current.id}
          /\ current' = None
          /\ inner' = IF inner = current.id THEN None ELSE inner
          /\ IF current.failed \/ call.failed THEN Return("error")
             ELSE IF call.op = "ensure" THEN Goto("build") ELSE Return("ok")
       \/ Return("error") /\ UNCHANGED <<current, live, inner>>
    /\ UNCHANGED <<phase, lease, released, caller, cancelled>>

StopBegin ==
    /\ At("stop", "begin")
    /\ \/ /\ cancelled /\ Return("error")
          /\ UNCHANGED <<current, live, barrier, cancelled>>
       \/ /\ ~cancelled /\ current = None /\ Return("ok")
          /\ UNCHANGED <<current, live, barrier, cancelled>>
       \/ ~cancelled /\ current # None /\ StopAndRetire

-----------------------------------------------------------------------------
(* Ensure *)

\* The health of a live owner is the environment's choice: an interface or a
\* link may have disappeared under it.
EnsureBegin ==
    /\ At("ensure", "begin")
    /\ \/ /\ cancelled /\ Return("error")
          /\ UNCHANGED <<current, live, barrier, cancelled>>
       \/ /\ ~cancelled /\ current = None /\ Goto("build")
          /\ UNCHANGED <<current, live, barrier, cancelled>>
       \/ /\ ~cancelled /\ current # None /\ current.done /\ Goto("close")
          /\ UNCHANGED <<current, live, barrier, cancelled>>
       \/ /\ ~cancelled /\ current # None /\ ~current.done /\ current.key = call.key
          /\ Return(IF current.stopRequested THEN "error" ELSE "ok")
          /\ UNCHANGED <<current, live, barrier, cancelled>>
       \/ /\ ~cancelled /\ current # None /\ ~current.done
          /\ current.key = call.key => ~current.stopRequested
          /\ StopAndRetire

StartBuild ==
    /\ At("ensure", "build")
    /\ \/ /\ cancelled /\ Return("error") /\ UNCHANGED live
       \/ /\ ~cancelled
          /\ \E r \in Runtimes \ live :
               /\ live' = live \cup {r}
               /\ call' = [call EXCEPT !.step = "building", !.built = r]
          /\ UNCHANGED ret
    /\ UNCHANGED <<current, barrier, cancelled>>

\* Faulty variant: the entry is stored without its desired key.
BuiltWithoutKey == [id |-> call.built, key |-> None, started |-> FALSE, done |-> FALSE,
                    stopRequested |-> FALSE, failed |-> FALSE, paused |-> FALSE]

Built == [id |-> call.built, key |-> call.key, started |-> FALSE, done |-> FALSE,
          stopRequested |-> FALSE, failed |-> FALSE, paused |-> FALSE]

\* The builder failed, or the context was cancelled meanwhile: what was built
\* is closed, and kept as a quarantined owner when that fails.
BuildAbandoned ==
    /\ At("ensure", "building")
    /\ \/ live' = live \ {call.built} /\ UNCHANGED current
       \/ /\ current' = [Built EXCEPT !.done = TRUE, !.stopRequested = TRUE]
          /\ UNCHANGED live
    /\ Return("error")
    /\ UNCHANGED <<barrier, cancelled>>

BarrierHeld == phase \in {"draining", "held", "resuming"}

\* Faulty variant: the replacement starts in spite of the barrier.
BuildStartsAlways ==
    /\ At("ensure", "building") /\ ~cancelled
    /\ current' = [Built EXCEPT !.started = TRUE]
    /\ Return("ok")
    /\ UNCHANGED <<live, barrier, cancelled>>

BuildStored ==
    /\ At("ensure", "building") /\ ~cancelled
    /\ current' = [Built EXCEPT !.started = ~BarrierHeld]
    /\ Return("ok")
    /\ UNCHANGED <<live, barrier, cancelled>>

-----------------------------------------------------------------------------
(* The startup-guard barrier *)

\* NewStartupGuardLease: the address of a new object, so a token nobody holds.
FreshToken == CHOOSE t \in Tokens : t \notin {lease, released, caller}

\* A held barrier is lent again; an open one is taken with a fresh token.
QuiesceBegin ==
    /\ At("quiesce", "begin")
    /\ \/ /\ phase = "held"
          /\ caller' = lease
          /\ Return("ok")
          /\ UNCHANGED <<phase, lease, released, inner>>
       \/ /\ phase # "held" /\ cancelled
          /\ Return("error")
          /\ UNCHANGED barrier
       \/ /\ phase = "open" /\ ~cancelled
          /\ phase' = "draining"
          /\ lease' = FreshToken
          /\ released' = None /\ inner' = None
          /\ Goto("pause")
          /\ UNCHANGED caller
    /\ UNCHANGED <<current, live, cancelled>>

Running == current # None /\ current.started /\ ~current.done

\* No loop to drain, the leaf drained (with or without a lease to show for it),
\* or the leaf's pause failed and the barrier opens again.
Pause ==
    /\ At("quiesce", "pause")
    /\ \/ /\ ~Running
          /\ phase' = "held" /\ caller' = lease /\ Return("ok")
          /\ UNCHANGED <<current, lease, inner>>
       \/ /\ Running
          /\ phase' = "held"
          /\ current' = [current EXCEPT !.paused = TRUE]
          /\ \/ inner' = current.id /\ caller' = lease /\ Return("ok")
             \/ Return("error") /\ UNCHANGED <<inner, caller>>
          /\ UNCHANGED lease
       \/ /\ Running
          /\ phase' = "open" /\ lease' = None /\ Return("error")
          /\ UNCHANGED <<current, inner, caller>>
    /\ UNCHANGED <<live, released, cancelled>>

ResumeBegin ==
    /\ At("resume", "begin")
    /\ \/ /\ phase = "open"
          /\ Return(IF caller = released THEN "ok" ELSE "error")
          /\ UNCHANGED phase
       \/ /\ phase = "held" /\ (caller # lease \/ cancelled)
          /\ Return("error")
          /\ UNCHANGED phase
       \/ /\ phase = "held" /\ caller = lease /\ ~cancelled
          /\ phase' = "resuming"
          /\ Goto("resume")
    /\ UNCHANGED <<current, live, lease, released, inner, caller, cancelled>>

ReleaseBarrier ==
    /\ phase' = "open" /\ released' = lease /\ lease' = None /\ inner' = None
    /\ Return("ok")

KeepBarrier ==
    /\ phase' = "held" /\ Return("error")
    /\ UNCHANGED <<current, lease, released, inner>>

Startable == current # None /\ ~current.done /\ ~current.stopRequested

\* Faulty variant: the barrier opens although the leaf refused to go on.
ResumeIgnoresLeaf ==
    /\ At("resume", "resume")
    /\ ReleaseBarrier
    /\ UNCHANGED <<current, live, caller, cancelled>>

\* A drained runtime goes on with its inner lease, a staged one starts; a
\* runtime that can do neither, or whose leaf refuses, keeps the barrier held.
Resume ==
    /\ At("resume", "resume")
    /\ \/ current = None /\ ReleaseBarrier /\ UNCHANGED current
       \/ /\ Startable /\ ~current.started
          /\ current' = [current EXCEPT !.started = TRUE]
          /\ ReleaseBarrier
       \/ /\ Startable /\ current.started /\ inner = current.id
          /\ current' = [current EXCEPT !.paused = FALSE]
          /\ ReleaseBarrier
       \/ /\ current # None
          /\ Startable => current.started
          /\ KeepBarrier
    /\ UNCHANGED <<live, caller, cancelled>>

\* One step of the call that holds operationMu.
CallStep ==
    \/ StopBegin \/ Wait \/ Close
    \/ EnsureBegin \/ StartBuild \/ BuildAbandoned \/ BuildStored
    \/ QuiesceBegin \/ Pause \/ ResumeBegin \/ Resume

-----------------------------------------------------------------------------
(* The supervisor on its own: any caller, any call *)

Enter ==
    /\ call = None
    /\ \/ \E k \in Keys : Begin("ensure", k)
       \/ \E op \in {"stop", "quiesce"} : Begin(op, None)
       \/ caller # None /\ Begin("resume", None)
    /\ cancelled' = FALSE
    /\ UNCHANGED <<current, live, barrier, ret>>

SupNext == Enter \/ Cancel \/ RunReturns \/ CallStep

SupSpec == SupInit /\ [][SupNext]_supVars

\* A call goes on, and a Run that was asked to stop returns (EventRuntime).
SupFairness ==
    /\ WF_supVars(CallStep)
    /\ WF_supVars(RunReturns /\ current.stopRequested)

SupFairSpec == SupSpec /\ SupFairness

-----------------------------------------------------------------------------
(* Properties *)

\* Every variable has its type: the current entry, the barrier and its leases,
\* and the call that holds operationMu.
SupTypeOK ==
    /\ current \in Entry \cup {None} /\ live \subseteq Runtimes
    /\ phase \in {"open", "draining", "held", "resuming"}
    /\ {lease, released, caller} \subseteq Tokens \cup {None}
    /\ inner \in Runtimes \cup {None}
    /\ call \in Call \cup {None} /\ ret \in {"ok", "error"} /\ cancelled \in BOOLEAN

\* "collection, TC, XDP, and quota ownership must never be split between two
\* runtimes": the only runtime that owns any of it is the current one or, while
\* there is none, the one that Ensure is building.
OneOwner ==
    live = IF current # None THEN {current.id}
           ELSE IF At("ensure", "building") THEN {call.built} ELSE {}

\* While the barrier is held no event loop can reinject: there is none, it has
\* ended, or it is paused.
HeldIsQuiet == phase = "held" /\ Running => current.paused

\* The inner lease is that of the current, drained runtime: clearCurrent never
\* leaves one behind that a later runtime could be resumed with.
InnerLeaseIsCurrent == inner # None => current # None /\ current.id = inner /\ current.paused

\* An open barrier leaves no live loop paused: what Quiesce drains, Resume lets
\* go on or a replacement takes away.
OpenIsRunning == phase = "open" /\ Startable => current.started /\ ~current.paused

\* Close gives a runtime's resources up only when its Run has returned or was
\* never started.
NoCloseUnderRun == [][\A r \in live \ live' : current = None \/ current.id # r \/ ~Running]_supVars

\* ensure, stopCurrent, QuiesceForStartupGuard, ResumeAfterStartupGuard: there is
\* one owner at a time and none is closed under its Run; while the barrier is held
\* the loop is quiet, and once it is open again no live loop is left paused and no
\* lease left over.
SupervisorHolds ==
    /\ [](OneOwner /\ HeldIsQuiet /\ InnerLeaseIsCurrent /\ OpenIsRunning)
    /\ NoCloseUnderRun

\* Every call returns: the waits for Run are bounded by RequestStop.
CallsReturn == call # None ~> call = None

=============================================================================

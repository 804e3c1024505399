---------------------------- MODULE Coordinator ----------------------------
(***************************************************************************)
(* fakeTCPProductionCoordinator (internal/dataplane/                       *)
(* faketcp_production_coordinator.go) on top of the supervisor: which of   *)
(* the two dataplane cores, the durable baseline or the process-owned      *)
(* FakeTCP runtime, holds the TC and XDP slots of a scope.                 *)
(*                                                                         *)
(* The shared operation lock lets one Apply, Detach, DetachStale or guard  *)
(* call run at a time ("op"); the supervisor calls it makes are those of   *)
(* module Supervisor.  A crash of the process leaves what is durable: the  *)
(* baseline, and the filters of a classic FakeTCP generation, which its    *)
(* successor retires from their journal.                                   *)
(***************************************************************************)
EXTENDS Supervisor

CONSTANTS Scopes,           \* pin path and object scopes of Loader handles
          CallsAfterCancel  \* may Apply follow a call that was cancelled?

VARIABLES
    owner,      \* shared.owner
    scope,      \* shared.scope, None while unbound
    op,         \* the call that holds shared.operationMu, or None
    baseline,   \* scopes with an attached baseline core (durable)
    stale,      \* scopes with filters of a crashed classic generation (durable)
    dying       \* a cancelled context: the daemon only detaches from now on

coordVars == <<owner, scope, op, baseline, stale, dying>>
vars == <<supVars, coordVars>>

Op == [kind : {"baseline", "experimental", "detach", "stale", "guard"},
       scope : Scopes \cup {None}, key : Keys \cup {None},
       step : {"bind", "stopping", "recover", "mutate", "ensure", "ensuring", "guarding"}]

ScopeAssumption == None \notin Scopes \cup Op /\ CallsAfterCancel \in BOOLEAN

Init ==
    /\ SupInit
    /\ owner = "unknown" /\ scope = None /\ op = None /\ dying = FALSE
    /\ baseline \in SUBSET Scopes /\ stale \in SUBSET Scopes

In(step) == op # None /\ op.step = step
Finish == op' = None
Step(step) == op' = [op EXCEPT !.step = step]
Quiet == call = None

-----------------------------------------------------------------------------
(* Calls *)

Request(kind, s, k, step) ==
    op' = [kind |-> kind, scope |-> s, key |-> k, step |-> step]

\* Apply of a state with or without FakeTCP references, Detach, DetachStale.
\* After a SIGTERM the daemon calls nothing but Detach.
Invoke ==
    /\ op = None
    /\ \E s \in Scopes :
         \/ Request("detach", s, None, "bind")
         \/ ~dying /\ \E kind \in {"baseline", "stale"} : Request(kind, s, None, "bind")
         \/ ~dying /\ \E k \in Keys : Request("experimental", s, k, "bind")
    /\ cancelled' = FALSE
    /\ UNCHANGED <<current, live, barrier, call, ret, owner, scope, baseline, stale, dying>>

\* QuiesceForStartupGuard and ResumeAfterStartupGuard hold the same lock.
InvokeGuard ==
    /\ op = None /\ ~dying
    /\ Request("guard", None, None, "guarding")
    /\ Begin("quiesce", None) \/ (caller # None /\ Begin("resume", None))
    /\ cancelled' = FALSE
    /\ UNCHANGED <<current, live, barrier, ret, owner, scope, baseline, stale, dying>>

GuardReturns ==
    /\ In("guarding") /\ Quiet
    /\ Finish
    /\ UNCHANGED <<supVars, owner, scope, baseline, stale, dying>>

CancelCall ==
    /\ op # None
    /\ ~cancelled /\ cancelled' = TRUE
    /\ dying' = ~CallsAfterCancel
    /\ UNCHANGED <<current, live, barrier, call, ret, owner, scope, op, baseline, stale>>

\* The activation gate, scope resolution or the planner refuse, or the context
\* is cancelled, before anything is changed.
Refuse ==
    /\ In("bind")
    /\ Finish
    /\ UNCHANGED <<supVars, owner, scope, baseline, stale, dying>>

MayBind ==
    IF scope = None THEN owner \in {"unknown", "none"} ELSE scope = op.scope

\* bindScopeLocked; an experimental apply that owns the runtime already leaves
\* the replacement to the supervisor.
Bind ==
    /\ In("bind") /\ ~cancelled /\ MayBind
    /\ scope' = op.scope
    /\ \/ /\ op.kind # "experimental"
          /\ Begin("stop", None) /\ Step("stopping")
          /\ UNCHANGED owner
       \/ /\ op.kind = "experimental" /\ owner # "experimental"
          /\ Step("recover")
          /\ UNCHANGED <<call, owner>>
       \/ /\ op.kind = "experimental" /\ owner = "experimental"
          /\ Step("ensure") /\ owner' = "none"
          /\ UNCHANGED call
    /\ UNCHANGED <<current, live, barrier, ret, cancelled, baseline, stale, dying>>

\* A failed bind after the scope was stored: the planner's refusal comes after it.
BindThenRefuse ==
    /\ In("bind") /\ ~cancelled /\ MayBind
    /\ op.kind = "experimental"
    /\ scope' = op.scope
    /\ Finish
    /\ UNCHANGED <<supVars, owner, baseline, stale, dying>>

\* What follows supervisor.Stop.
StopReturns ==
    /\ In("stopping") /\ Quiet
    /\ \/ ret = "error" /\ owner' = "experimental" /\ Finish
       \/ ret = "ok" /\ owner' = "none" /\ Finish /\ cancelled
       \/ ret = "ok" /\ owner' = "none" /\ Step("recover") /\ ~cancelled
    /\ UNCHANGED <<supVars, scope, baseline, stale, dying>>

\* Faulty variant: recovery is skipped.
RecoverSkipped ==
    /\ In("recover")
    /\ Step("mutate")
    /\ UNCHANGED <<supVars, owner, scope, baseline, stale, dying>>

\* recoverStaleClassicLocked: retire the journaled classic owner, or fail.
Recover ==
    /\ In("recover")
    /\ \/ stale' = stale \ {scope} /\ Step("mutate")
       \/ UNCHANGED stale /\ Finish
    /\ UNCHANGED <<supVars, owner, scope, baseline, dying>>

-----------------------------------------------------------------------------
(* The baseline loader's mutation, after recovery *)

\* Apply is transactional: an error leaves it as it was or attached.
BaselineApply ==
    /\ In("mutate") /\ op.kind = "baseline"
    /\ baseline' \in {baseline, baseline \cup {scope}}
    /\ owner' = "baseline" /\ Finish
    /\ UNCHANGED <<supVars, scope, stale, dying>>

BaselineDetachStale ==
    /\ In("mutate") /\ op.kind = "stale"
    /\ owner' = "baseline" /\ Finish
    /\ UNCHANGED <<supVars, scope, baseline, stale, dying>>

\* Faulty variant: a failed Detach unbinds the scope all the same.
DetachFailsUnbinds ==
    /\ baseline' \in {baseline, baseline \ {scope}}
    /\ owner' = "baseline" /\ Finish
    /\ scope' = None

\* What is left after a failed Detach is taken for the baseline core.
DetachFails ==
    /\ baseline' \in {baseline, baseline \ {scope}}
    /\ owner' = "baseline" /\ Finish
    /\ UNCHANGED scope

BaselineDetach ==
    /\ In("mutate") /\ op.kind = "detach"
    /\ \/ /\ baseline' = baseline \ {scope}
          /\ owner' = "none" /\ Finish /\ scope' = None
       \/ DetachFails
    /\ UNCHANGED <<supVars, stale, dying>>

\* Faulty variant: a failed detach does not stop the experimental start.
DetachForExperimentalOptional ==
    /\ In("mutate") /\ op.kind = "experimental"
    /\ baseline' \in {baseline, baseline \ {scope}}
    /\ owner' = "none" /\ Step("ensure")
    /\ UNCHANGED <<supVars, scope, stale, dying>>

DetachForExperimental ==
    /\ In("mutate") /\ op.kind = "experimental"
    /\ \/ /\ baseline' = baseline \ {scope}
          /\ owner' = "none" /\ Step("ensure")
          /\ UNCHANGED scope
       \/ DetachFails
    /\ UNCHANGED <<supVars, stale, dying>>

Ensure ==
    /\ In("ensure")
    /\ \/ cancelled /\ Finish /\ UNCHANGED call
       \/ ~cancelled /\ Step("ensuring") /\ Begin("ensure", op.key)
    /\ UNCHANGED <<current, live, barrier, ret, cancelled,
                   owner, scope, baseline, stale, dying>>

\* An error may have left a quarantined runtime: the owner is the same.
EnsureReturns ==
    /\ In("ensuring") /\ Quiet
    /\ owner' = "experimental" /\ Finish
    /\ UNCHANGED <<supVars, scope, baseline, stale, dying>>

-----------------------------------------------------------------------------
(* The process *)

\* Every FD-owned resource goes with the process; the filters of a classic
\* generation stay.  The successor starts from a fresh coordinator.
Crash ==
    /\ stale' \in {stale, IF live = {} THEN stale ELSE stale \cup {scope}}
    /\ current' = None /\ live' = {}
    /\ phase' = "open" /\ lease' = None /\ released' = None /\ inner' = None
    /\ caller' = None /\ call' = None /\ ret' = "ok" /\ cancelled' = FALSE
    /\ owner' = "unknown" /\ scope' = None /\ op' = None /\ dying' = FALSE
    /\ UNCHANGED baseline

Mutate == BaselineApply \/ BaselineDetachStale \/ BaselineDetach \/ DetachForExperimental

OpStep ==
    \/ Refuse \/ Bind \/ BindThenRefuse \/ StopReturns \/ Recover
    \/ BaselineApply \/ BaselineDetachStale \/ BaselineDetach \/ DetachForExperimental
    \/ Ensure \/ EnsureReturns \/ GuardReturns
    \/ CallStep /\ UNCHANGED coordVars

Next ==
    \/ Invoke \/ InvokeGuard \/ CancelCall \/ OpStep \/ Crash
    \/ RunReturns /\ UNCHANGED coordVars

Spec == Init /\ [][Next]_vars

-----------------------------------------------------------------------------
(* Properties *)

\* Every variable has its type: the shared state of the coordinator and the
\* durable cores of each scope.
TypeOK ==
    /\ SupTypeOK
    /\ owner \in {"unknown", "none", "baseline", "experimental"}
    /\ scope \in Scopes \cup {None} /\ op \in Op \cup {None}
    /\ baseline \subseteq Scopes /\ stale \subseteq Scopes /\ dying \in BOOLEAN

\* "Baseline and experimental cores are mutually exclusive: an experimental
\* start first detaches the baseline owner": no runtime is built or live in a
\* scope whose baseline core is attached.
CoresExclusive == live # {} => scope \notin baseline

\* The baseline loader inspects or changes TC slots only when no FakeTCP owner,
\* live or left behind by a crash, holds them.
BaselineAloneStep == Mutate => live = {} /\ scope \notin stale
BaselineAlone == [][BaselineAloneStep]_vars

\* While this process owns a runtime, or a baseline it applied or failed to
\* detach, its scope stays bound: no handle of another scope can take over.
ScopeRetained ==
    live # {} \/ owner \in {"baseline", "experimental"} => scope # None

=============================================================================

---------------------------- MODULE StartupGuard ----------------------------
(***************************************************************************)
(* The startup-guard transaction of a reload (internal/reconcile) over the *)
(* nft guard executor (internal/guard), with its owner record, and over    *)
(* the barrier of the resident FakeTCP runtime.                            *)
(*                                                                         *)
(* The guard is an nft table that drops managed flows while the dataplane  *)
(* is being replaced.  Every nft command, file operation and kernel        *)
(* inspection may fail, a failed command may have taken effect, and the    *)
(* process may be killed between any two of them; the table, the owner     *)
(* record and the dataplane survive it, the runtime and its barrier do     *)
(* not.  The lifecycle lease keeps all other mutators out, so one command  *)
(* or inspection sequence is one step.                                     *)
(***************************************************************************)
EXTENDS Naturals

\* The values the configuration takes over time: "guarded" is mode
\* nft-temporary-drop under fail_closed_for_managed_flows, "best_effort" the same
\* mode under the other policy, "none" the disabled guard.
CONSTANT Modes

ASSUME ModesAssumption == Modes \subseteq {"guarded", "best_effort", "none"} /\ Modes # {}

VARIABLES
    mode,     \* the configuration file, as one of Modes
    owner,    \* the owner record: "none", "pending" or "final"
    table,    \* the owned nft table: "absent" or "active"
    plane,    \* "none", "valid", "dirty" (its replacement began under the guard
              \* and was not validated) or "bare" (the same without the guard)
    saved,    \* is there an attach-state file
    lifted,   \* was the table removed by another operation or program since
              \* the replacement of the dataplane began
    runtime,  \* is there a resident FakeTCP runtime
    held,     \* is its barrier closed
    pc, txn   \* the operation under way and its startupGuardTxn

durable == <<owner, table, plane, saved, lifted>>
vars == <<mode, durable, runtime, held, pc, txn>>

\* startupGuardTxn; mode is the configuration this operation loaded.
NoTxn == [leased |-> FALSE, barrierFresh |-> FALSE, initialObservation |-> "unknown",
          observation |-> "unknown", guardCreated |-> FALSE, dataplaneMutationStarted |-> FALSE,
          dataplaneValidated |-> FALSE, cleanupAttempted |-> FALSE,
          cleanupProvedAbsent |-> FALSE, normalCleanup |-> FALSE, mode |-> "none"]

Init ==
    /\ mode \in Modes
    /\ owner = "none" /\ table = "absent" /\ plane = "none"
    /\ saved = FALSE /\ lifted = FALSE
    /\ runtime = FALSE /\ held = FALSE
    /\ pc = "idle" /\ txn = NoTxn

Goto(label) == pc' = label /\ UNCHANGED txn
Done == pc' = "idle" /\ txn' = NoTxn

-----------------------------------------------------------------------------
(* The executor: the table a call leaves behind, and the outcome it reports. *)

Outcome(t, observation, mutated, err) ==
    [table |-> t, observation |-> observation, mutated |-> mutated, err |-> err]

\* An inspection failed, or the tables in the kernel are not the owner's.
Refused(t) == Outcome(t, "unchanged", FALSE, TRUE)

\* CommandExecutor.Apply with its owner record in place.  A command that fails
\* may have taken effect; replacing a table is one nft transaction, so the old
\* table is there until the new one is.  The state is inspected after it.
ApplyOutcomes(t) ==
    {Refused(t)}
    \cup {Outcome("active", obs, TRUE, obs # "active") : obs \in {"active", "unknown"}}
    \cup {Outcome("active", obs, TRUE, TRUE) : obs \in {"active", "unknown"}}
    \cup {Outcome(t, obs, TRUE, TRUE) : obs \in {t, "unknown"}}

\* Mutant: the outcome is read off the command, not off the kernel.
CleanupUnverified(t) ==
    {Refused(t)} \cup {Outcome(u, "absent", TRUE, FALSE) : u \in {t, "absent"}}

\* CommandExecutor.Cleanup: success is the proof that the table is absent, with
\* a warning if the command failed.
CleanupOutcomes(t) ==
    {Refused(t)}
    \cup UNION {{Outcome(u, obs, TRUE, obs # "absent") : obs \in {u, "unknown"}} : u \in {t, "absent"}}

\* Mutant: Unchanged is taken for an observation.
EffectiveUnchanged(previous, next) == next

\* effectiveGuardObservation
Effective(previous, next) == IF next = "unchanged" THEN previous ELSE next

recordApply(o) ==
    txn' = [txn EXCEPT
        !.observation = Effective(@, o.observation),
        !.guardCreated = @ \/ (o.observation = "active" /\ o.mutated
                               /\ txn.initialObservation = "absent")]

\* recordCleanupOutcome, with recordNormalCleanup for the one after validation.
recordCleanup(o, normal) ==
    txn' = [txn EXCEPT !.cleanupAttempted = TRUE, !.normalCleanup = @ \/ normal,
                       !.observation = Effective(@, o.observation),
                       !.cleanupProvedAbsent = o.observation = "absent"]

-----------------------------------------------------------------------------
(* reloadUnlocked *)

\* The configuration is loaded and, unless it disables the guard, the kernel
\* state observed; a failed observation is Unknown.
BeginReload ==
    /\ pc = "idle"
    /\ \E obs \in IF mode = "none" THEN {"unknown"} ELSE {table, "unknown"} :
         txn' = [NoTxn EXCEPT !.initialObservation = obs, !.observation = obs, !.mode = mode]
    /\ pc' = "prepare"
    /\ UNCHANGED <<mode, durable, runtime, held>>

\* Mutant: the record alone is checked.
PreflightOwnerOnly == owner # "pending"

\* preflightNoNFTStartupGuard: no interrupted owner record, no project table.
Preflight == owner # "pending" /\ table = "absent"

\* The checks before anything is changed: the preflight of a disabled guard, the
\* guard state, FakeTCP isolation, activation and residency.
Prepare ==
    /\ pc = "prepare"
    /\ \/ txn.mode = "guarded" /\ Goto("quiesce")
       \/ txn.mode = "best_effort" /\ Goto("build")
       \/ txn.mode = "none" /\ Preflight /\ Goto("build")
       \/ Goto("fail")
    /\ UNCHANGED <<mode, durable, runtime, held>>

\* Mutant: a barrier that is closed already is an error.
QuiesceOnlyOpen ==
    /\ pc = "quiesce"
    /\ \/ /\ ~held /\ held' = TRUE /\ pc' = "guard"
          /\ txn' = [txn EXCEPT !.leased = TRUE, !.barrierFresh = TRUE]
       \/ Goto("fail") /\ UNCHANGED held
    /\ UNCHANGED <<mode, durable, runtime>>

\* QuiesceForStartupGuard and recordLease: the lease is fresh if the barrier was
\* open, borrowed if an earlier reload left it closed.
Quiesce ==
    /\ pc = "quiesce"
    /\ \/ /\ held' = TRUE /\ pc' = "guard"
          /\ txn' = [txn EXCEPT !.leased = TRUE, !.barrierFresh = ~held]
       \/ Goto("fail") /\ UNCHANGED held
    /\ UNCHANGED <<mode, durable, runtime>>

\* loadOrCreateOwner: the pending file is written and renamed to the record.
PublishOwner ==
    /\ pc = "guard" /\ owner # "final"
    /\ \/ owner' = (IF owner = "none" THEN "pending" ELSE "final") /\ Goto("guard")
       \/ Goto("fail") /\ UNCHANGED owner
    /\ UNCHANGED <<mode, table, plane, saved, lifted, runtime, held>>

\* guardTxn.apply: at first, and again where the run time shows other fwmarks.
ApplyGuard ==
    /\ pc \in {"guard", "build"} /\ owner = "final" /\ txn.mode = "guarded"
    /\ \E o \in ApplyOutcomes(table) :
         /\ table' = o.table
         /\ recordApply(o)
         /\ pc' = IF o.err THEN "fail" ELSE "build"
    /\ UNCHANGED <<mode, owner, plane, saved, lifted, runtime, held>>

\* The runtime state is built and checked, a disabled guard preflighted again,
\* and the replacement of the dataplane begins.
StartApply ==
    /\ pc = "build"
    /\ \/ /\ txn.mode = "none" => Preflight
          /\ txn' = [txn EXCEPT !.dataplaneMutationStarted = TRUE]
          /\ plane' = IF txn.mode = "guarded" THEN "dirty" ELSE "bare"
          /\ lifted' = (table = "absent")
          /\ pc' = "applying"
       \/ Goto("fail") /\ UNCHANGED <<plane, lifted>>
    /\ UNCHANGED <<mode, owner, table, saved, runtime, held>>

\* loader.Apply with the health check, DetachStale and attachstate.Save.  A
\* runtime it starts is behind the barrier; best_effort admits no FakeTCP.
FinishApply ==
    /\ pc = "applying"
    /\ \/ /\ plane' = "valid" /\ saved' = TRUE
          /\ runtime' \in (IF txn.mode = "best_effort" THEN {FALSE} ELSE BOOLEAN)
          /\ \/ /\ txn.mode = "guarded"
                /\ txn' = [txn EXCEPT !.dataplaneValidated = TRUE]
                /\ pc' = "cleanup"
             \/ txn.mode # "guarded" /\ Done
       \/ /\ runtime' \in (IF txn.mode = "best_effort" THEN {FALSE, runtime} ELSE BOOLEAN)
          /\ Goto("fail") /\ UNCHANGED <<plane, saved>>
    /\ UNCHANGED <<mode, owner, table, lifted, held>>

\* The normal cleanup, which must prove the table absent.
CleanupGuard ==
    /\ pc = "cleanup"
    /\ \E o \in CleanupOutcomes(table) :
         /\ table' = o.table
         /\ recordCleanup(o, TRUE)
         /\ pc' = IF o.err THEN "fail" ELSE "resume"
    /\ UNCHANGED <<mode, owner, plane, saved, lifted, runtime, held>>

\* txn.resume; its failure goes to the deferred handler, which tries once more.
Resume ==
    /\ pc = "resume"
    /\ \/ held' = FALSE /\ Done
       \/ Goto("fail") /\ UNCHANGED held
    /\ UNCHANGED <<mode, durable, runtime>>

-----------------------------------------------------------------------------
(* The deferred handler of a failed reload *)

shouldRollbackGuardOnFailure ==
    /\ ~txn.dataplaneMutationStarted
    /\ txn.guardCreated
    /\ ~txn.cleanupAttempted
    /\ txn.observation = "active"

\* Mutant: a borrowed barrier is reopened as if this reload had closed it.
ResumeBorrowed ==
    txn.leased
    /\ \/ txn.dataplaneValidated /\ txn.normalCleanup /\ txn.cleanupProvedAbsent
       \/ ~txn.dataplaneMutationStarted /\ txn.observation = "absent"

shouldResumeAfterFailure ==
    txn.leased
    /\ \/ txn.dataplaneValidated /\ txn.normalCleanup /\ txn.cleanupProvedAbsent
       \/ txn.barrierFresh /\ ~txn.dataplaneMutationStarted /\ txn.observation = "absent"

RollbackGuard ==
    /\ pc = "fail" /\ shouldRollbackGuardOnFailure
    /\ \E o \in CleanupOutcomes(table) : table' = o.table /\ recordCleanup(o, FALSE)
    /\ UNCHANGED <<mode, owner, plane, saved, lifted, runtime, held, pc>>

EndFailedReload ==
    /\ pc = "fail" /\ ~shouldRollbackGuardOnFailure
    /\ held' \in (IF shouldResumeAfterFailure THEN {FALSE, held} ELSE {held})
    /\ Done
    /\ UNCHANGED <<mode, durable, runtime>>

-----------------------------------------------------------------------------
(* Stop, the guard commands and the environment *)

BeginStop ==
    /\ pc = "idle"
    /\ mode = "none" => Preflight
    /\ txn' = [NoTxn EXCEPT !.mode = mode]
    /\ pc' = "detach"
    /\ UNCHANGED <<mode, durable, runtime, held>>

\* Mutant: the guard goes first.
DetachAfterGuard ==
    /\ pc = "detach"
    /\ table' = "absent"
    /\ \/ plane' = "none" /\ saved' = FALSE /\ runtime' = FALSE /\ Goto("stopped")
       \/ Done /\ UNCHANGED <<plane, saved, runtime>>
    /\ UNCHANGED <<mode, owner, lifted, held>>

\* detachUnlocked: the saved attach state and the current configuration name the
\* underlays.  If neither names one there is nothing to detach and the stop goes
\* on; if the loader or the removal of the file fails it ends.
Detach ==
    /\ pc = "detach"
    /\ LET next == IF txn.mode = "none" THEN "stopped" ELSE "unguard" IN
       \/ plane' = "none" /\ saved' = FALSE /\ runtime' = FALSE /\ Goto(next)
       \/ ~saved /\ Goto(next) /\ UNCHANGED <<plane, saved, runtime>>
       \/ /\ plane' \in {plane, IF plane = "valid" THEN "bare" ELSE plane}
          /\ Done /\ UNCHANGED <<saved, runtime>>
    /\ UNCHANGED <<mode, owner, table, lifted, held>>

\* cleanupGuardForStop
UnguardForStop ==
    /\ pc = "unguard"
    /\ \E o \in CleanupOutcomes(table) :
         /\ table' = o.table
         /\ IF o.err THEN Done ELSE Goto("stopped")
    /\ lifted' = (lifted \/ table' = "absent")
    /\ UNCHANGED <<mode, owner, plane, saved, runtime, held>>

\* The process that stopped the dataplane ends, or is killed at any other point;
\* the runtime and its barrier go with it.
Exit ==
    /\ runtime' = FALSE /\ held' = FALSE
    /\ Done
    /\ UNCHANGED <<mode, durable>>

\* guard-apply and guard-cleanup.  The lease admits them while no daemon runs, so
\* no runtime and no barrier.
GuardCommand ==
    /\ pc = "idle" /\ ~runtime /\ ~held
    /\ \E o \in CleanupOutcomes(table) \cup (IF owner = "final" THEN ApplyOutcomes(table) ELSE {}) :
         /\ table' = o.table
         /\ lifted' = (lifted \/ o.table = "absent")
    /\ UNCHANGED <<mode, owner, plane, saved, runtime, held, pc, txn>>

\* Another program flushes the nft ruleset (external).
Flush ==
    /\ table = "active"
    /\ table' = "absent" /\ lifted' = TRUE
    /\ UNCHANGED <<mode, owner, plane, saved, runtime, held, pc, txn>>

EditMode ==
    /\ pc = "idle"
    /\ mode' \in Modes \ {mode}
    /\ UNCHANGED <<durable, runtime, held, pc, txn>>

Reload ==
    \/ BeginReload \/ Prepare \/ Quiesce \/ PublishOwner \/ ApplyGuard \/ StartApply
    \/ FinishApply \/ CleanupGuard \/ Resume \/ RollbackGuard \/ EndFailedReload

Next == Reload \/ BeginStop \/ Detach \/ UnguardForStop \/ Exit \/ GuardCommand \/ Flush \/ EditMode

Spec == Init /\ [][Next]_vars

\* Operations run to their end, a failed reload is tried again, and each step
\* that can fail succeeds if it is tried often enough.
Fairness ==
    /\ WF_vars(Reload)
    /\ WF_vars(Detach \/ UnguardForStop \/ (pc = "stopped" /\ Exit))
    /\ SF_vars(Prepare /\ pc' # "fail")
    /\ SF_vars(Quiesce /\ pc' # "fail")
    /\ SF_vars(PublishOwner /\ pc' # "fail")
    /\ SF_vars(StartApply /\ pc' # "fail")
    /\ SF_vars(ApplyGuard /\ pc' # "fail" /\ pc = "guard")
    /\ SF_vars(FinishApply /\ pc' # "fail")
    /\ SF_vars(CleanupGuard /\ pc' # "fail")
    /\ SF_vars(Resume /\ pc' # "fail")

FairSpec == Spec /\ Fairness

-----------------------------------------------------------------------------
(* Properties *)

\* Every variable has its type: the guard's durable state, the runtime's barrier
\* and the startupGuardTxn of the reload under way.
TypeOK ==
    /\ mode \in Modes
    /\ owner \in {"none", "pending", "final"}
    /\ table \in {"absent", "active"}
    /\ plane \in {"none", "valid", "dirty", "bare"}
    /\ {saved, lifted, runtime, held} \subseteq BOOLEAN
    /\ pc \in {"idle", "prepare", "quiesce", "guard", "build", "applying", "cleanup",
               "resume", "fail", "detach", "unguard", "stopped"}
    /\ DOMAIN txn = DOMAIN NoTxn
    /\ txn.observation \in {"active", "absent", "unknown"}

\* A dataplane whose replacement began under the guard and was not validated
\* stays behind it, over failed reloads, kills, retries and changes of the
\* configuration, until something other than a reload lifts it
\* (reloadUnlocked, shouldRollbackGuardOnFailure).
DirtyIsGuarded == plane = "dirty" => table = "active" \/ lifted

\* The resident runtime never runs on such a dataplane, not even after the table
\* was removed from outside and a retry failed early (shouldResumeAfterFailure).
RuntimeOpenIsClean == runtime /\ ~held => plane # "dirty"

\* The runtime never runs behind an active guard, the combination the operations
\* guide calls inconsistent (resume only after Absent was proved).
OpenMeansUnguarded == runtime /\ ~held => table = "absent"

\* With the guard disabled no reload starts to replace a dataplane while the
\* guard of an earlier one is in the kernel (preflightNoNFTStartupGuard).
NoneIsInventoried ==
    [][pc = "build" /\ pc' = "applying" /\ txn.mode = "none" => table = "absent"]_vars

\* reloadUnlocked: a half-replaced dataplane stays behind its guard, over kills,
\* failures and changes of the configuration, and the resident runtime runs
\* neither on such a dataplane nor behind an active guard; and with the guard
\* disabled no reload starts behind the guard of an earlier one.
GuardHolds ==
    /\ [](DirtyIsGuarded /\ RuntimeOpenIsClean /\ OpenMeansUnguarded)
    /\ NoneIsInventoried

\* If from some time on there are only reloads of a guarded configuration, the
\* dataplane is valid, the guard gone and the barrier open again and again,
\* whatever failures and kills came before.
Recovers ==
    <>[][Reload]_vars =>
       []<>(mode = "guarded" => plane = "valid" /\ table = "absent" /\ ~held)

\* docs/architecture.md: a reload that fails after it applied the guard leaves
\* the guard in place.
GuardKeptOnFailure ==
    [][pc = "fail" /\ table = "active" => table' = "active" \/ lifted']_vars

\* docs/architecture.md: a stop detaches the dataplane.
StopDetaches == pc = "stopped" => plane = "none"
=============================================================================

------------------------------ MODULE Install -------------------------------
(***************************************************************************)
(* internal/install: install and uninstall on one host (systemd layout).   *)
(*                                                                         *)
(* The file system is reduced to the names the two commands decide about:  *)
(* the managed directories (config, run, state, pin), the declared parents *)
(* of the service artifacts (units, wants) and the entries in them.  An    *)
(* object is ours (the preflight validates its content) or foreign (it     *)
(* does not).  Somebody else may act on the public names at any moment;    *)
(* nobody else knows the random names of stages and quarantined objects.   *)
(* A cleanup plan holds identities and directory generations; here the set *)
(* stale names what others have changed since the plan was made, which is  *)
(* what every comparison of a held identity or generation finds out.       *)
(***************************************************************************)
EXTENDS Naturals, Sequences, FiniteSets, SequencesExt

CONSTANTS ExistingLimit,    \* evidence paths allowed before another rename
          MaxOps,           \* installs and uninstalls
          MaxCrash,         \* processes killed
          MaxForeign        \* acts of somebody else

\* The limit of the code is 6 = 8 - 1 - 1.
LimitsAssumption == {ExistingLimit, MaxOps, MaxCrash, MaxForeign} \subseteq Nat

VARIABLES
    at,         \* place -> what its name denotes: "none", "ours" or "foreign"
    dirAt,      \* managed directory -> the same
    junk,       \* directory -> owners of the objects under unique names in it
    kept,       \* foreign objects under unique names
    made,       \* foreign objects that were made
    evidence,   \* quarantined enable links in the wants directory
    running,    \* the daemon runs (and holds the lifecycle lease)
    pc, op,     \* the running command
    stale,      \* places and directories others changed since the last plan
    plan,       \* places of the plan
    todo,       \* directories still to remove; the head is in work
    queue,      \* entries of it still to remove; the head is in work
    held,       \* what has just been moved to a quarantine or stage name
    moved,      \* the managed directory is at its quarantine name
    outcome,    \* of the last command
    ops, crashes, acts

fsVars == <<at, dirAt, junk, kept, evidence>>
runVars == <<pc, op, stale, plan, todo, queue, held, moved, outcome>>
budget == <<ops, crashes, acts>>
vars == <<fsVars, made, running, runVars, budget>>

Managed == {"config", "run", "state", "pin"}
Service == {"units", "wants"}
Dirs == Managed \cup Service

\* The entries, in the order of their directory's plan.  Three the cleanup does
\* not know: pinlocks, the lock files of the pin path; records, what the guard
\* and the pin owner keep in the state directory; ownermap, the pinned owner_map
\* and the pinned TCX links.
Entries(d) ==
    CASE d = "config" -> <<"yaml", "manifest">>
      [] d = "run" -> <<"lock", "status", "pinlocks">>
      [] d = "state" -> <<"attach", "records">>
      [] d = "pin" -> <<"map", "ownermap">>
      [] d = "units" -> <<"unit">>
      [] d = "wants" -> <<"link">>
      [] OTHER -> << >>

PlacesOf(d) == ToSet(Entries(d))
Places == UNION {PlacesOf(d) : d \in Dirs} \cup {"binary"}
DirOf(p) == CHOOSE d \in Dirs : p \in PlacesOf(d)
Objects == {"none", "ours", "foreign"}

\* flag: purge or enable; owned: what the ownership inspection of an install
\* found; stopped: reconcile.Stop ran; last: all directories are removed now;
\* pub: the file being published.
NoOp == [flag |-> FALSE, owned |-> "none", stopped |-> FALSE, last |-> FALSE, pub |-> "none"]

\* An empty host; what a completed install with the service enabled leaves; or
\* an installation without a manifest whose maps were pinned before there was an
\* owner_map (canonicalPinsLegacy).
Installation(kind) ==
    CASE kind = "none" -> {}
      [] kind = "installed" -> {"config", "run", "state", "yaml", "manifest", "lock", "unit", "link", "binary"}
      [] OTHER -> Managed \cup {"yaml", "lock", "status", "attach", "map", "unit", "link", "binary"}

Init ==
    /\ \E kind \in {"none", "installed", "legacy"} :
           LET Thing(x) == IF x \in Installation(kind) THEN "ours" ELSE "none"
           IN  at = [p \in Places |-> Thing(p)] /\ dirAt = [d \in Managed |-> Thing(d)]
    /\ junk = [d \in Dirs |-> {}]
    /\ kept = 0 /\ made = 0
    /\ evidence \in 0..(ExistingLimit + 1)
    /\ running = FALSE
    /\ pc = "idle" /\ op = NoOp
    /\ stale = {} /\ plan = {} /\ todo = << >> /\ queue = << >>
    /\ held = "none" /\ moved = FALSE
    /\ outcome = "none"
    /\ ops = 0 /\ crashes = 0 /\ acts = 0

-----------------------------------------------------------------------------
(* What the preflights look at.                                            *)

\* openManagedCleanupDir.
Has(d) == d \in Service \/ dirAt[d] # "none"

\* snapshotManagedFile, snapshotManagedSymlink: what they refuse to hold.
Foreign(S) == {p \in S : at[p] = "foreign"}

\* runtimeCleanupResourcesExist: a run directory that holds the lifecycle lease
\* and nothing else is no resource.
RuntimeResourcesExist ==
    dirAt["run"] # "none" /\ (dirAt["run"] = "foreign" \/ junk["run"] # {} \/ \E p \in PlacesOf("run") : at[p] # "none")

\* cleanupResourcesExist.
CleanupResourcesExist ==
    \/ dirAt["state"] # "none" \/ dirAt["pin"] # "none"
    \/ \E p \in {"yaml", "unit", "link"} : at[p] # "none"
    \/ RuntimeResourcesExist

\* installOwnershipResourcesExist.
InstallResourcesExist == at["binary"] # "none" \/ CleanupResourcesExist

\* inspectInstallCleanupOwnership; "error" when the manifest is not ours.
Ownership ==
    CASE dirAt["config"] = "none" -> IF InstallResourcesExist THEN "unmarked" ELSE "absent"
      [] dirAt["config"] = "foreign" -> "error"
      [] at["manifest"] = "none" -> "unmarked"
      [] at["manifest"] = "foreign" -> "error"
      [] OTHER -> "marked"

\* prepareConfigDirectoryPlan: only a purge looks at unknown entries.
ConfigPlanOK(purge) ==
    /\ at["manifest"] = "ours" /\ at["yaml"] # "foreign"
    /\ purge => junk["config"] = {}

\* prepareRuntimeDirectoryPlan: no name of the pin locks is among those it knows.
RuntimePlanOK ==
    dirAt["run"] # "none" =>
        dirAt["run"] = "ours" /\ junk["run"] = {} /\ at["pinlocks"] = "none" /\ Foreign(PlacesOf("run")) = {}

\* prepareStateDirectoryPlan: attach-state.json is the only entry it knows.
StatePlanOK ==
    dirAt["state"] # "none" =>
        dirAt["state"] = "ours" /\ junk["state"] = {} /\ at["records"] = "none" /\ at["attach"] # "foreign"

\* preparePinDirectoryPlan: uninstallPinnedMapNames has neither owner_map nor the
\* names of pinned links.
PinPlanOK ==
    dirAt["pin"] # "none" =>
        dirAt["pin"] = "ours" /\ junk["pin"] = {} /\ at["ownermap"] = "none" /\ at["map"] # "foreign"

RoomForEvidenceOffByOne == evidence <= ExistingLimit + 1

\* systemdEnableLinkQuarantineExistingLimit.
RoomForEvidence == evidence <= ExistingLimit

\* prepareArtifactPlansForValidation: an absent artifact is planned absent; the
\* enable link may be moved only while there is room for its evidence.
ArtifactPlansOK ==
    /\ Foreign({"unit", "link"}) = {}
    /\ at["link"] = "ours" => RoomForEvidence

\* prepareUninstallCleanup, behind the check for an installation.
PlanOK(purge) ==
    /\ dirAt["config"] = "ours"
    /\ ConfigPlanOK(purge) /\ RuntimePlanOK /\ StatePlanOK /\ PinPlanOK /\ ArtifactPlansOK

BootstrapOKWithoutConfig ==
    /\ dirAt["config"] # "none" =>
           dirAt["config"] = "ours" /\ junk["config"] = {} /\ at["manifest"] = "none" /\ at["yaml"] = "none"
    /\ RuntimePlanOK /\ StatePlanOK /\ PinPlanOK /\ ArtifactPlansOK

\* validateCleanupManifestBootstrap.
BootstrapOK ==
    /\ dirAt["config"] # "none" =>
           dirAt["config"] = "ours" /\ junk["config"] = {} /\ at["manifest"] = "none" /\ at["yaml"] # "foreign"
    /\ RuntimePlanOK /\ StatePlanOK /\ PinPlanOK /\ ArtifactPlansOK

\* validateFreshRuntimeDirectory, validateFreshServiceArtifactsAbsent and the
\* rest of validateFreshCleanupManifestBootstrap.
FreshOK ==
    /\ at["binary"] = "none"
    /\ dirAt["config"] # "none" =>
           dirAt["config"] = "ours" /\ junk["config"] = {} /\ \A p \in PlacesOf("config") : at[p] = "none"
    /\ dirAt["state"] = "none" /\ dirAt["pin"] = "none"
    /\ dirAt["run"] = "ours" /\ junk["run"] = {} /\ at["lock"] = "ours"
    /\ at["status"] = "none" /\ at["pinlocks"] = "none"
    /\ at["unit"] = "none" /\ at["link"] = "none"

-----------------------------------------------------------------------------
(* The plan, its revalidation, and how a command ends.                     *)

Purge == op.flag
RemoveRoot(d) == d \in {"state", "pin"} \/ (d = "config" /\ Purge)
MayDisappear == {"attach", "map", "pin"}
Current == Head(todo)

\* revalidateManagedCleanupDir: the held directory still has its name, and its
\* generation is the one held.
Unchanged(d) == d \notin stale

\* cleanupEntryPlan.revalidateName: the same object with the same content.
SameEntry(p) == p \notin stale

\* refreshManagedCleanupDirGenerationAfterOwnedMutationAtName: behind a mutation
\* of ours, the generation before it has to be the one held.
Refreshed(d) == Unchanged(d)

\* cleanupDirectoryPlan.revalidate: held identities and generations, and in a
\* strict directory the exact set of names.
Valid(d) ==
    \/ d \in MayDisappear /\ dirAt[d] = "none" /\ ~moved
    \/ /\ Unchanged(d) /\ \A p \in PlacesOf(d) \cap plan : SameEntry(p)
       /\ d \in {"run", "state", "pin"} \/ (d = "config" /\ Purge) =>
              junk[d] = {} /\ \A p \in PlacesOf(d) \ plan : at[p] = "none"

\* uninstallCleanupPlan.revalidate.
AllValid == \A d \in Dirs \cap plan : Valid(d)

\* The command returns: its plan is closed, its locks are released.
Return(o) ==
    /\ pc' = "idle" /\ op' = NoOp /\ outcome' = o
    /\ stale' = {} /\ plan' = {} /\ todo' = << >> /\ queue' = << >>
    /\ held' = "none" /\ moved' = FALSE

Goto(step) == pc' = step /\ UNCHANGED <<op, stale, plan, todo, queue, held, moved, outcome>>

RestorableByReplacing(x) == TRUE

RestorableNever(x) == FALSE

\* cleanupRenameNoReplaceAt: the name is free.
Restorable(x) == IF x \in Managed THEN dirAt[x] = "none" ELSE at[x] = "none"

\* The entry and then the root go back to their names, or stay where they are
\* (restoreCleanupQuarantine; the rename does not replace).  back is FALSE for
\* a process that is killed.
PutBack(back) ==
    LET d == Current
        inEntry == pc \in {"entry_check", "entry_unlink"} /\ held # "none"
        p == IF inEntry THEN Head(queue) ELSE "binary"
        entryBack == inEntry /\ back /\ Restorable(p)
        at1 == IF entryBack THEN [at EXCEPT ![p] = held] ELSE at
        entryLeft == inEntry /\ ~entryBack
        foreignRoot == pc = "root_check" /\ held = "foreign"
        rootOut == moved \/ foreignRoot
        rootBack == rootOut /\ back /\ Restorable(d)
        rootLeft == rootOut /\ ~rootBack
        inside == IF moved THEN PlacesOf(d) ELSE {}
        lost == IF rootLeft THEN {x \in inside : at1[x] = "foreign"} ELSE {}
    IN  /\ at' = [x \in Places |-> IF rootLeft /\ x \in inside THEN "none" ELSE at1[x]]
        /\ dirAt' = IF rootBack THEN [dirAt EXCEPT ![d] = IF moved THEN "ours" ELSE "foreign"] ELSE dirAt
        /\ junk' = CASE rootLeft /\ moved -> [junk EXCEPT ![d] = {}]
                     [] entryLeft /\ ~rootLeft /\ d # "wants" -> [junk EXCEPT ![d] = @ \cup {held}]
                     [] OTHER -> junk
        /\ evidence' = IF entryLeft /\ d = "wants" THEN evidence + 1 ELSE evidence
        /\ kept' = kept + Cardinality(lost) + (IF entryLeft /\ held = "foreign" THEN 1 ELSE 0)
                        + (IF rootLeft /\ foreignRoot THEN 1 ELSE 0)

\* An error in the middle of a removal.
Fail == PutBack(TRUE) /\ Return("error")

\* An error before anything was moved; what a named stage holds stays there.
Refuse(o) == Return(o) /\ UNCHANGED fsVars

StageLeft ==
    /\ Return("error")
    /\ junk' = IF held = "none" THEN junk ELSE [junk EXCEPT ![DirOf(op.pub)] = @ \cup {held}]
    /\ UNCHANGED <<at, dirAt, kept, evidence>>

-----------------------------------------------------------------------------
(* Uninstall.                                                              *)

\* Nothing but the install directory can be there without a manifest.
NothingInstalled == dirAt["config"] = "none" /\ ~CleanupResourcesExist

\* The first preflight; a dry run ends here.
Uninstall(purge) ==
    /\ pc = "idle" /\ ops < MaxOps
    /\ ops' = ops + 1
    /\ CASE NothingInstalled -> Refuse("nothing")
         [] ~NothingInstalled /\ ~PlanOK(purge) -> Refuse("refused")
         [] OTHER -> /\ pc' = "maint" /\ op' = [NoOp EXCEPT !.flag = purge] /\ outcome' = "none"
                     /\ UNCHANGED <<fsVars, stale, plan, todo, queue, held, moved>>
    /\ UNCHANGED <<made, running, crashes, acts>>

\* prepareUninstallCleanup: what is there is held from now on.
Preflight ==
    \E step \in {<<"maint", "svc_stop">>, <<"pre3", "detach">>, <<"pre4", "guard">>, <<"pre5", "exec">>} :
        /\ pc = step[1]
        /\ IF NothingInstalled \/ PlanOK(Purge)
           THEN /\ plan' = IF NothingInstalled THEN {}
                           ELSE {d \in Dirs : Has(d)} \cup {p \in Places \ {"binary"} : at[p] # "none"}
                /\ stale' = {} /\ pc' = step[2]
                /\ UNCHANGED <<fsVars, op, todo, queue, held, moved, outcome>>
           ELSE Refuse("error")
        /\ UNCHANGED <<made, running, budget>>

\* The coordinator's and LinuxLoader's Detach, and the removal of attach-state:
\* both take the lock of the pin path first, which creates its file, and pins
\* without an owner record are refused.
LoaderDetach(ok) ==
    /\ ok => dirAt["pin"] = "none" \/ at["records"] = "ours"
    /\ at' = [p \in Places |-> CASE p \in {"lock", "pinlocks"} -> "ours"
                                [] p \in {"attach", "map", "ownermap"} /\ ok -> "none"
                                [] OTHER -> at[p]]
    /\ dirAt' = [dirAt EXCEPT !["run"] = "ours", !["pin"] = IF ok THEN "none" ELSE @]
    /\ UNCHANGED <<junk, kept, evidence>>

\* runSystemdServiceActions: without a unit nothing is stopped.  A daemon that is
\* stopped detaches, unless no underlay is known or an error comes first.
StopService ==
    /\ pc = "svc_stop"
    /\ \/ AllValid /\ Goto("svc_stopped")
          /\ IF "unit" \in plan /\ running
             THEN running' = FALSE /\ (UNCHANGED fsVars \/ \E ok \in BOOLEAN : LoaderDetach(ok))
             ELSE UNCHANGED <<running, fsVars>>
       \/ Refuse("error") /\ UNCHANGED running
    /\ UNCHANGED <<made, budget>>

\* The boundary check behind the command, then WaitAcquireLifecycle.
AcquireLease ==
    /\ pc = "svc_stopped"
    /\ \/ ("unit" \in plan => Valid("units") /\ Valid("wants")) /\ ~running /\ Goto("pre3") /\ UNCHANGED fsVars
       \/ Refuse("error")
    /\ UNCHANGED <<made, running, budget>>

\* reconcile.Stop without an underlay to detach from takes the operation lock and
\* removes the guard.
NothingToDetach ==
    /\ at' = [at EXCEPT !["lock"] = "ours"] /\ dirAt' = [dirAt EXCEPT !["run"] = "ours"]
    /\ UNCHANGED <<junk, kept, evidence>>

\* shouldStopForUninstall and reconcile.Stop under the operation lock; the guard
\* may not go although the dataplane did.
Detach ==
    /\ pc = "detach"
    /\ \/ at["yaml"] = "none" /\ at["attach"] = "none" /\ Goto("pre4") /\ UNCHANGED fsVars
       \/ /\ at["yaml"] # "none" \/ at["attach"] # "none"
          /\ AllValid
          /\ dirAt["run"] # "foreign" /\ Foreign({"lock", "attach"}) = {}
          /\ \E detached \in BOOLEAN, cleaned \in BOOLEAN :
                 /\ LoaderDetach(detached) \/ (detached /\ NothingToDetach)
                 /\ IF detached /\ cleaned
                    THEN /\ pc' = "pre4" /\ op' = [op EXCEPT !.stopped = TRUE]
                         /\ UNCHANGED <<stale, plan, todo, queue, held, moved, outcome>>
                    ELSE Return("error")
       \/ (at["yaml"] # "none" \/ at["attach"] # "none") /\ Refuse("error")
    /\ UNCHANGED <<made, running, budget>>

\* The guard is removed here when reconcile.Stop did not run.
CleanupGuard ==
    /\ pc = "guard"
    /\ \/ op.stopped /\ Goto("svc_exec") /\ UNCHANGED fsVars
       \/ ~op.stopped /\ AllValid /\ Goto("svc_exec") /\ UNCHANGED fsVars
       \/ ~op.stopped /\ Refuse("error")
    /\ UNCHANGED <<made, running, budget>>

RemovalOrderConfigFirst == <<"config", "run", "state", "pin", "units", "wants">>

\* prepareUninstallCleanup: the directories in the order of the plan.
RemovalOrder == <<"run", "state", "pin", "units", "wants", "config">>

\* executeServiceArtifacts, then the reload of the manager, then execute.
StartRemoval ==
    /\ pc \in {"svc_exec", "exec"}
    /\ IF AllValid
       THEN /\ todo' = SelectSeq(IF pc = "exec" THEN RemovalOrder
                                               ELSE <<"units", "wants">>, LAMBDA d : d \in plan)
            /\ pc' = "dir" /\ op' = [op EXCEPT !.last = (pc = "exec")]
            /\ UNCHANGED <<fsVars, stale, plan, queue, held, moved, outcome>>
       ELSE Refuse("error")
    /\ UNCHANGED <<made, running, budget>>

EndRemoval ==
    /\ pc = "dir" /\ todo = << >>
    /\ IF op.last THEN Refuse("ok") ELSE Goto("reload") /\ UNCHANGED fsVars
    /\ UNCHANGED <<made, running, budget>>

\* runSystemdManagerReloadAfterServiceArtifactRemoval.
ReloadManager ==
    /\ pc = "reload"
    /\ \/ ("units" \in plan => Unchanged("units") /\ at["unit"] = "none") /\ Goto("pre5") /\ UNCHANGED fsVars
       \/ Refuse("error")
    /\ UNCHANGED <<made, running, budget>>
-----------------------------------------------------------------------------
(* Removing a directory: everything is renamed to a unique name first, and *)
(* looked at again there, before it is unlinked.                           *)

Planned(d) == SelectSeq(Entries(d), LAMBDA p : p \in plan /\ (d # "config" \/ Purge))

NextDir == todo' = Tail(todo) /\ pc' = "dir" /\ queue' = << >> /\ held' = "none" /\ moved' = FALSE
           /\ UNCHANGED <<op, stale, plan, outcome>>
NextEntry == queue' = Tail(queue) /\ pc' = "entry" /\ held' = "none" /\ UNCHANGED <<op, stale, plan, todo, moved, outcome>>

\* cleanupDirectoryPlan.remove.
RemoveDir ==
    /\ pc = "dir" /\ todo # << >>
    /\ CASE ~Valid(Current) -> Fail
         [] Valid(Current) /\ Current \in MayDisappear /\ dirAt[Current] = "none" -> NextDir /\ UNCHANGED fsVars
         [] OTHER -> /\ pc' = IF RemoveRoot(Current) THEN "root_rename" ELSE "entry"
                     /\ queue' = Planned(Current)
                     /\ UNCHANGED <<fsVars, op, stale, plan, todo, held, moved, outcome>>
    /\ UNCHANGED <<made, running, budget>>

\* moveRootToQuarantine: the rename takes whatever has the name by then.
RenameRoot ==
    /\ pc = "root_rename"
    /\ \/ /\ dirAt[Current] # "none"
          /\ dirAt' = [dirAt EXCEPT ![Current] = "none"]
          /\ moved' = (dirAt[Current] = "ours")
          /\ held' = IF dirAt[Current] = "foreign" THEN "foreign" ELSE "none"
          /\ pc' = "root_check"
          /\ UNCHANGED <<at, junk, kept, evidence, op, stale, plan, todo, queue, outcome>>
       \/ dirAt[Current] = "none" /\ Current \in MayDisappear /\ NextDir /\ UNCHANGED fsVars
       \/ (dirAt[Current] = "none" => Current \notin MayDisappear) /\ Fail
    /\ UNCHANGED <<made, running, budget>>

\* revalidateRootName at the quarantine name, then the exact generations of
\* adoptManagedCleanupDirAfterOwnedRootRename.
CheckRoot ==
    /\ pc = "root_check"
    /\ IF moved /\ Valid(Current)
       THEN /\ pc' = "entry"
            /\ UNCHANGED <<fsVars, op, stale, plan, todo, queue, held, moved, outcome>>
       ELSE Fail
    /\ UNCHANGED <<made, running, budget>>

\* cleanupEntryPlan.moveToQuarantine, before the rename.
CheckEntry ==
    /\ pc = "entry" /\ queue # << >>
    /\ LET p == Head(queue)
       IN  CASE ~SameEntry(p) \/ ~Unchanged(Current) \/ (p = "link" /\ ~RoomForEvidence) -> Fail
             [] OTHER -> Goto("entry_rename") /\ UNCHANGED fsVars
    /\ UNCHANGED <<made, running, budget>>

RenameEntry ==
    /\ pc = "entry_rename"
    /\ LET p == Head(queue)
       IN  \/ /\ at[p] # "none"
              /\ held' = at[p] /\ at' = [at EXCEPT ![p] = "none"]
              /\ pc' = "entry_check"
              /\ UNCHANGED <<dirAt, junk, kept, evidence, op, stale, plan, todo, queue, moved, outcome>>
           \/ at[p] = "none" /\ p \in MayDisappear /\ NextEntry /\ UNCHANGED fsVars
           \/ (at[p] = "none" => p \notin MayDisappear) /\ Fail
    /\ UNCHANGED <<made, running, budget>>

CheckMovedByDirectory ==
    /\ pc = "entry_check"
    /\ IF Refreshed(Current) THEN Goto("entry_unlink") /\ UNCHANGED fsVars ELSE Fail
    /\ UNCHANGED <<made, running, budget>>

\* The generations behind the rename, the identity of the moved object, and
\* the last check in front of the unlink.
CheckMoved ==
    /\ pc = "entry_check"
    /\ IF Refreshed(Current) /\ SameEntry(Head(queue)) THEN Goto("entry_unlink") /\ UNCHANGED fsVars ELSE Fail
    /\ UNCHANGED <<made, running, budget>>

\* cleanupEntryPlan.unlink: the enable link is kept at its quarantine name, and
\* is not restored from there; everything else is unlinked.
UnlinkEntry ==
    /\ pc = "entry_unlink"
    /\ \/ /\ pc' = "entry_done" /\ held' = "none"
          /\ IF Head(queue) = "link"
             THEN evidence' = evidence + 1 /\ kept' = kept + (IF held = "foreign" THEN 1 ELSE 0)
             ELSE UNCHANGED <<evidence, kept>>
          /\ UNCHANGED <<at, dirAt, junk, op, stale, plan, todo, queue, moved, outcome>>
       \/ Head(queue) # "link" /\ Fail
    /\ UNCHANGED <<made, running, budget>>

\* The generations behind the unlink.
RefreshEntry ==
    /\ pc = "entry_done"
    /\ IF Refreshed(Current) THEN NextEntry /\ UNCHANGED fsVars ELSE Fail
    /\ UNCHANGED <<made, running, budget>>

\* The emptied root; rmdir fails when it is not empty.
RemoveRootDir ==
    /\ pc = "entry" /\ queue = << >>
    /\ \/ ~RemoveRoot(Current) /\ NextDir /\ UNCHANGED fsVars
       \/ /\ RemoveRoot(Current) /\ Unchanged(Current)
          /\ junk[Current] = {} /\ \A p \in PlacesOf(Current) : at[p] = "none"
          /\ NextDir /\ UNCHANGED fsVars
       \/ RemoveRoot(Current) /\ Fail
    /\ UNCHANGED <<made, running, budget>>
-----------------------------------------------------------------------------
(* Install.                                                                *)

\* The held manifest and config of a marked installation are unchanged
\* (revalidateOwnedInstallMetadata); before publication there are none.
MetadataOK == "manifest" \in plan => {"config", "yaml", "manifest"} \cap stale = {}

Step(ok, step) ==
    \/ ok /\ Goto(step) /\ UNCHANGED fsVars
    \/ Refuse("error")

\* inspectInstallCleanupOwnership and validateCleanupManifestBootstrap, in front of
\* the locks.
Installable(adopt) == Ownership \in {"absent", "marked"} \/ (Ownership = "unmarked" /\ adopt /\ BootstrapOK)

Install(enable, adopt) ==
    /\ pc = "idle" /\ ops < MaxOps
    /\ ops' = ops + 1
    /\ IF Installable(adopt)
       THEN /\ pc' = "i_lock" /\ op' = [NoOp EXCEPT !.flag = enable, !.owned = Ownership] /\ outcome' = "none"
            /\ UNCHANGED <<fsVars, stale, plan, todo, queue, held, moved>>
       ELSE Refuse("refused")
    /\ UNCHANGED <<made, running, crashes, acts>>

\* The lifecycle lease and the operation lock; both lie in the run directory.
InstallLock ==
    /\ pc = "i_lock"
    /\ \/ /\ ~running /\ dirAt["run"] # "foreign"
          /\ dirAt' = [dirAt EXCEPT !["run"] = "ours"]
          /\ at' = [at EXCEPT !["lock"] = IF @ = "none" THEN "ours" ELSE @]
          /\ Goto("i_locked") /\ UNCHANGED <<junk, kept, evidence>>
       \/ Refuse("error")
    /\ UNCHANGED <<made, running, budget>>

\* inspectLockedInstallOwnership.
InstallLocked ==
    /\ pc = "i_locked"
    /\ IF CASE op.owned = "absent" -> dirAt["config"] = "none" /\ FreshOK
            [] op.owned = "marked" -> Ownership = "marked"
            [] OTHER -> Ownership = "unmarked" /\ BootstrapOK
       THEN Goto("i_dir") /\ UNCHANGED fsVars
       ELSE Refuse("error")
    /\ UNCHANGED <<made, running, budget>>

\* applyInstall: a fresh config directory is created exclusively.
InstallDir ==
    /\ pc = "i_dir"
    /\ IF op.owned = "absent" /\ dirAt["config"] # "none"
       THEN Refuse("error")
       ELSE /\ dirAt' = [dirAt EXCEPT !["config"] = IF @ = "none" THEN "ours" ELSE @]
            /\ Goto("i_prepare") /\ UNCHANGED <<at, junk, kept, evidence>>
    /\ UNCHANGED <<made, running, budget>>

\* prepareCleanupManifestPublication; a fresh one creates the state directory.
InstallPrepare ==
    /\ pc = "i_prepare"
    /\ \/ /\ dirAt["config"] = "ours" /\ at["manifest"] = "ours" /\ at["yaml"] # "none"
          /\ plan' = {"manifest"} /\ UNCHANGED dirAt
       \/ /\ dirAt["config"] = "ours" /\ at["manifest"] = "none" /\ op.owned = "absent" /\ FreshOK
          /\ plan' = {"state"} /\ dirAt' = [dirAt EXCEPT !["state"] = "ours"]
       \/ /\ dirAt["config"] = "ours" /\ at["manifest"] = "none" /\ op.owned = "unmarked" /\ BootstrapOK
          /\ plan' = {} /\ UNCHANGED dirAt
    /\ stale' = {} /\ pc' = "i_state"
    /\ UNCHANGED <<at, junk, kept, evidence, op, todo, queue, held, moved, outcome, made, running, budget>>

InstallPrepareFails ==
    /\ pc = "i_prepare"
    /\ Refuse("error")
    /\ UNCHANGED <<made, running, budget>>

\* The state directory of an earlier installation may be gone.
InstallState ==
    /\ pc = "i_state"
    /\ \/ /\ MetadataOK /\ dirAt["state"] # "foreign" /\ dirAt["run"] = "ours"
          /\ dirAt' = [dirAt EXCEPT !["state"] = "ours"]
          /\ Goto("i_unit") /\ UNCHANGED <<at, junk, kept, evidence>>
       \/ Refuse("error")
    /\ UNCHANGED <<made, running, budget>>

\* installServiceArtifact, ensureInstallConfigArtifact and publish: an existing
\* file has to be valid, a missing one is published from a stage.
Publish(p, step) ==
    \/ at[p] = "ours" /\ Goto(step) /\ UNCHANGED fsVars
    \/ /\ at[p] = "none"
       /\ pc' = "stage" /\ op' = [op EXCEPT !.pub = p]
       /\ stale' = IF p = "unit" THEN stale \ {"units", "unit"} ELSE stale
       /\ UNCHANGED <<fsVars, plan, todo, queue, held, moved, outcome>>
    \/ Refuse("error")

InstallUnitThenReload ==
    /\ pc = "i_unit"
    /\ IF MetadataOK THEN Publish("unit", "i_publish") ELSE Refuse("error")
    /\ UNCHANGED <<made, running, budget>>

InstallUnit ==
    /\ pc = "i_unit"
    /\ IF MetadataOK THEN Publish("unit", "i_binary") ELSE Refuse("error")
    /\ UNCHANGED <<made, running, budget>>

\* installBinary: the old binary is replaced by a rename.
InstallBinary ==
    /\ pc = "i_binary"
    /\ \/ /\ MetadataOK /\ at' = [at EXCEPT !["binary"] = "ours"]
          /\ Goto("i_config") /\ UNCHANGED <<dirAt, junk, kept, evidence>>
       \/ Refuse("error")
    /\ UNCHANGED <<made, running, budget>>

InstallConfig ==
    /\ pc = "i_config"
    /\ CASE "manifest" \in plan -> Step(MetadataOK, "i_reload")
         [] "manifest" \notin plan /\ ("config" \in stale \/ (op.owned = "absent" /\ at["yaml"] # "none")) ->
                Refuse("error")
         [] OTHER -> Publish("yaml", "i_reload")
    /\ UNCHANGED <<made, running, budget>>

InstallReloadEnablesFirst ==
    /\ pc = "i_reload"
    /\ Step(MetadataOK /\ at["unit"] = "ours", "i_enable")
    /\ UNCHANGED <<made, running, budget>>

\* runInstalledSystemdServiceCommit up to the publication.
InstallReload ==
    /\ pc = "i_reload"
    /\ Step(MetadataOK /\ at["unit"] = "ours", "i_publish")
    /\ UNCHANGED <<made, running, budget>>

InstallPublish ==
    /\ pc = "i_publish"
    /\ CASE "manifest" \in plan -> Step(MetadataOK, "i_enable")
         [] "manifest" \notin plan /\ ~("config" \notin stale /\ BootstrapOK /\ (plan \cap stale = {})) ->
                Refuse("error")
         [] OTHER -> Publish("manifest", "i_enable")
    /\ UNCHANGED <<made, running, budget>>

\* createObjectBoundFreshFileStage: without O_TMPFILE the stage has a name.
Stage ==
    /\ pc = "stage"
    /\ \/ /\ Unchanged(DirOf(op.pub)) /\ at[op.pub] = "none"
          /\ held' \in {"none", "ours"} /\ pc' = "link"
          /\ UNCHANGED <<fsVars, op, stale, plan, todo, queue, moved, outcome>>
       \/ Refuse("error")
    /\ UNCHANGED <<made, running, budget>>

LinkReplacing ==
    /\ pc = "link"
    /\ \/ /\ DirOf(op.pub) \notin stale \/ at[op.pub] # "none"
          /\ at' = [at EXCEPT ![op.pub] = "ours"] /\ held' = "none" /\ pc' = "linked"
          /\ UNCHANGED <<dirAt, junk, kept, evidence, op, stale, plan, todo, queue, moved, outcome>>
       \/ StageLeft
    /\ UNCHANGED <<made, running, budget>>

\* publishObjectBoundFreshFileProduction: link or rename without replacement;
\* a named stage that was not published stays.
Link ==
    /\ pc = "link"
    /\ \/ /\ Unchanged(DirOf(op.pub)) /\ at[op.pub] = "none"
          /\ at' = [at EXCEPT ![op.pub] = "ours"] /\ held' = "none" /\ pc' = "linked"
          /\ UNCHANGED <<dirAt, junk, kept, evidence, op, stale, plan, todo, queue, moved, outcome>>
       \/ StageLeft
    /\ UNCHANGED <<made, running, budget>>

\* What is published is looked at again; the manifest and the config are held
\* from then on (holdNewlyPublishedInstallMetadata).
Linked ==
    /\ pc = "linked"
    /\ \/ /\ Refreshed(DirOf(op.pub)) /\ SameEntry(op.pub)
          /\ op.pub = "manifest" => at["yaml"] # "none" /\ plan \cap stale = {}
          /\ pc' = CASE op.pub = "unit" -> "i_binary" [] op.pub = "yaml" -> "i_reload" [] OTHER -> "i_enable"
          /\ plan' = IF op.pub = "manifest" THEN {"manifest"} ELSE plan
          /\ stale' = stale \ {"yaml"}
          /\ UNCHANGED <<fsVars, op, todo, queue, held, moved, outcome>>
       \/ Refuse("error")
    /\ UNCHANGED <<made, running, budget>>

\* beginSystemdEnableLinkTransaction.
InstallEnable ==
    /\ pc = "i_enable"
    /\ \/ ~op.flag /\ MetadataOK /\ at["unit"] = "ours" /\ Refuse("ok")
       \/ /\ op.flag /\ MetadataOK /\ at["unit"] = "ours"
          /\ at["link"] = "none" \/ (at["link"] = "ours" /\ op.owned # "absent")
          /\ at' = [at EXCEPT !["link"] = "ours"]
          /\ stale' = stale \ {"wants", "link"} /\ pc' = "i_commit"
          /\ UNCHANGED <<dirAt, junk, kept, evidence, op, plan, todo, queue, held, moved, outcome>>
       \/ Refuse("error")
    /\ UNCHANGED <<made, running, budget>>

\* systemdEnableLinkTransaction.commit; a rollback leaves the link.
InstallCommit ==
    /\ pc = "i_commit"
    /\ \/ MetadataOK /\ at["unit"] = "ours" /\ {"wants", "link"} \cap stale = {} /\ Refuse("ok")
       \/ Refuse("error")
    /\ UNCHANGED <<made, running, budget>>
-----------------------------------------------------------------------------
(* The daemon, somebody else, and the end of the process.                  *)

\* The service starts when neither command holds the lease or the maintenance
\* gate.
StartDaemon ==
    /\ ~running /\ pc \in {"idle", "i_lock", "maint"}
    /\ at["unit"] = "ours" /\ at["yaml"] = "ours" /\ at["binary"] = "ours"
    /\ dirAt["run"] # "foreign" /\ at["status"] # "foreign"
    /\ running' = TRUE
    /\ dirAt' = [dirAt EXCEPT !["run"] = "ours"] /\ at' = [at EXCEPT !["status"] = "ours"]
    /\ UNCHANGED <<junk, kept, made, evidence, runVars, budget>>

\* What a reload adds under its operation lock.  Each Apply takes the lock of the
\* pin path; attach-state follows a successful one; the guard and the baseline
\* core leave owner records, and the baseline core pins its maps with owner_map.
Reloaded ==
    {S \in SUBSET {"pinlocks", "records", "attach", "map", "ownermap"} :
        /\ "attach" \in S => "pinlocks" \in S
        /\ "map" \in S => {"pinlocks", "records"} \subseteq S
        /\ "map" \in S <=> "ownermap" \in S}

\* A reload of the running daemon; it may also give up the pins of the baseline
\* core it owns.
Reload ==
    /\ running /\ pc \in {"idle", "i_lock", "maint", "svc_stop"}
    /\ \A d \in {"run", "state", "pin"} : dirAt[d] # "foreign" /\ Foreign(PlacesOf(d)) = {}
    /\ \E new \in Reloaded, drop \in BOOLEAN :
           LET old == IF drop /\ at["ownermap"] = "ours" THEN {"map", "ownermap"} ELSE {}
               Thing(x, was) == IF x \in new \cup {"lock"} THEN "ours" ELSE IF x \in old THEN "none" ELSE was
               Holds(d) == PlacesOf(d) \cap (new \cup {"lock"}) # {}
           IN  /\ at' = [p \in Places |-> Thing(p, at[p])]
               /\ dirAt' = [d \in Managed |-> IF Holds(d) THEN "ours"
                                             ELSE IF d = "pin" /\ old # {} THEN "none" ELSE dirAt[d]]
               /\ stale' = IF pc = "idle" THEN stale
                           ELSE stale \cup new \cup old \cup {"run", "lock"} \cup {d \in Managed : Holds(d)}
    /\ UNCHANGED <<junk, kept, made, evidence, running, pc, op, plan, todo, queue, held, moved, outcome, budget>>

\* Every poll writes a new status file.
WriteStatus ==
    /\ running /\ pc # "idle" /\ dirAt["run"] = "ours" /\ at["status"] # "foreign"
    /\ at' = [at EXCEPT !["status"] = "ours"]
    /\ stale' = stale \cup {"run", "status"}
    /\ UNCHANGED <<dirAt, junk, kept, made, evidence, running, pc, op, plan, todo, queue, held, moved, outcome, budget>>

\* Between the two looks at a directory around a rename or an unlink of ours,
\* a change of somebody else goes into the generation the command adopts.
InWindow == pc \in {"root_rename", "entry_rename", "entry_unlink"} \/ (pc = "entry" /\ queue = << >>)

Marks(S, d) == \E seen \in {TRUE} \cup (IF InWindow THEN {FALSE} ELSE {}) :
                   stale' = stale \cup S \cup (IF seen THEN {d} ELSE {})

Act == /\ acts < MaxForeign /\ acts' = acts + 1
       /\ UNCHANGED <<running, evidence, pc, op, plan, todo, queue, held, moved, outcome, ops, crashes>>

\* The directory can be reached by its name.
Reachable(d) == d \in Managed => dirAt[d] = "ours"

\* Somebody puts another object at a name, or takes ours away.
PutFile(p) ==
    /\ Act /\ Reachable(DirOf(p)) /\ at[p] # "foreign"
    /\ at' = [at EXCEPT ![p] = "foreign"] /\ made' = made + 1
    /\ Marks({p}, DirOf(p))
    /\ UNCHANGED <<dirAt, junk, kept>>

TakeFile(p) ==
    /\ Act /\ Reachable(DirOf(p)) /\ at[p] = "ours"
    /\ at' = [at EXCEPT ![p] = "none"]
    /\ Marks({p}, DirOf(p))
    /\ UNCHANGED <<dirAt, junk, kept, made>>

\* An unknown name in a directory of ours.
AddUnknown(d) ==
    /\ Act /\ Reachable(d)
    /\ junk' = [junk EXCEPT ![d] = @ \cup {"foreign"}] /\ kept' = kept + 1 /\ made' = made + 1
    /\ Marks({}, d)
    /\ UNCHANGED <<at, dirAt>>

\* Another directory at the name of a managed one, or none.
PutDir(d) ==
    /\ Act
    /\ dirAt[d] = "ours" => Foreign(PlacesOf(d)) = {} /\ "foreign" \notin junk[d]
    /\ \/ dirAt[d] # "foreign" /\ dirAt' = [dirAt EXCEPT ![d] = "foreign"] /\ made' = made + 1
       \/ dirAt[d] = "ours" /\ dirAt' = [dirAt EXCEPT ![d] = "none"] /\ UNCHANGED made
    /\ at' = [p \in Places |-> IF dirAt[d] = "ours" /\ p \in PlacesOf(d) THEN "none" ELSE at[p]]
    /\ junk' = IF dirAt[d] = "ours" THEN [junk EXCEPT ![d] = {}] ELSE junk
    /\ Marks(IF dirAt[d] = "ours" THEN PlacesOf(d) ELSE {}, d)
    /\ UNCHANGED kept

\* Any change beside ours in the parent of a held directory.
Touch(d) ==
    /\ Act /\ pc # "idle" /\ d \notin stale
    /\ stale' = stale \cup {d}
    /\ UNCHANGED <<at, dirAt, junk, kept, made>>

\* The process is killed: nothing is restored.
Crash ==
    /\ pc # "idle" /\ crashes < MaxCrash
    /\ crashes' = crashes + 1
    /\ IF pc = "link" THEN StageLeft ELSE PutBack(FALSE) /\ Return("killed")
    /\ UNCHANGED <<made, running, ops, acts>>

\* The host restarts: the run and the pin directory are on file systems in memory.
Reboot ==
    /\ pc = "idle"
    /\ \A d \in {"run", "pin"} : dirAt[d] # "foreign" /\ Foreign(PlacesOf(d)) = {} /\ "foreign" \notin junk[d]
    /\ running' = FALSE
    /\ at' = [p \in Places |-> IF p \in PlacesOf("run") \cup PlacesOf("pin") THEN "none" ELSE at[p]]
    /\ dirAt' = [dirAt EXCEPT !["run"] = "none", !["pin"] = "none"]
    /\ junk' = [junk EXCEPT !["run"] = {}, !["pin"] = {}]
    /\ UNCHANGED <<kept, made, evidence, runVars, budget>>

UninstallStep ==
    \/ \E purge \in BOOLEAN : Uninstall(purge)
    \/ Preflight \/ StopService \/ AcquireLease \/ Detach \/ CleanupGuard \/ StartRemoval \/ EndRemoval
    \/ ReloadManager \/ RemoveDir \/ RenameRoot \/ CheckRoot \/ CheckEntry \/ RenameEntry \/ CheckMoved
    \/ UnlinkEntry \/ RefreshEntry \/ RemoveRootDir

InstallStep ==
    \/ \E enable \in BOOLEAN, adopt \in BOOLEAN : Install(enable, adopt)
    \/ InstallLock \/ InstallLocked \/ InstallDir \/ InstallPrepare \/ InstallPrepareFails \/ InstallState
    \/ InstallUnit \/ InstallBinary \/ InstallConfig \/ InstallReload \/ InstallPublish
    \/ Stage \/ Link \/ Linked \/ InstallEnable \/ InstallCommit

Others ==
    \/ \E p \in Places \ {"binary", "records", "pinlocks", "ownermap"} : PutFile(p) \/ TakeFile(p)
    \/ \E d \in Dirs : AddUnknown(d) \/ Touch(d)
    \/ \E d \in Managed : PutDir(d)

CommandStep == UninstallStep \/ InstallStep \/ Crash \/ StartDaemon \/ WriteStatus

Next == CommandStep \/ Reload \/ Reboot \/ Others

Spec == Init /\ [][Next]_vars

-----------------------------------------------------------------------------
(* Properties.                                                             *)

TypeOK ==
    /\ at \in [Places -> Objects] /\ dirAt \in [Managed -> Objects]
    /\ junk \in [Dirs -> SUBSET {"ours", "foreign"}]
    /\ {kept, made, evidence, ops, crashes, acts} \subseteq Nat
    /\ {running, moved} \subseteq BOOLEAN
    /\ stale \subseteq Places \cup Dirs /\ plan \subseteq Places \cup Dirs
    /\ todo \in Seq(Dirs) /\ queue \in Seq(Places) /\ held \in Objects

\* moveToQuarantine, moveRootToQuarantine, restoreCleanupQuarantine: whatever
\* somebody puts at one of our names, and whenever, neither command destroys or
\* replaces it, not with a failed restore or a crash in between either: it is at
\* its name, or under a quarantine name.
ForeignKept ==
    /\ Cardinality(Foreign(Places)) + Cardinality({d \in Managed : dirAt[d] = "foreign"}) + kept
           + (IF held = "foreign" THEN 1 ELSE 0) = made

\* systemdEnableLinkQuarantineExistingLimit: "a normal operation consumes the
\* owned reservation and stops" there; no sequence of installs, uninstalls and
\* crashes leaves more evidence links.
EvidenceBounded == evidence <= ExistingLimit + 1

\* What uninstall has to remove before the manifest.
Gone ==
    /\ \A p \in Places \ {"binary", "yaml", "manifest"} : at[p] # "ours"
    /\ dirAt["state"] # "ours" /\ dirAt["pin"] # "ours" /\ held # "ours"

\* prepareUninstallCleanup sorts the config directory last: the manifest leaves
\* its name only when nothing else of the installation is left, so whatever is
\* left after an error or a crash can be uninstalled again; an uninstall
\* that succeeds has removed everything it owns.
ManifestLastStep ==
    /\ (dirAt["config"] = "ours" /\ at["manifest"] = "ours" /\ acts' = acts
            /\ (dirAt'["config"] # "ours" \/ at'["manifest"] # "ours")) => Gone
    /\ (outcome' = "ok" /\ outcome # "ok" /\ op.last /\ acts = 0) => Gone
ManifestLast == [][ManifestLastStep]_vars

\* applyInstall: the manifest is published when everything it names is in place,
\* and the service is enabled only behind it.
PublishedLastStep ==
    /\ (at["manifest"] = "none" /\ at'["manifest"] = "ours" /\ acts = 0) =>
           \/ pc \in {"entry_check", "entry_unlink"}
           \/ at["unit"] = "ours" /\ at["binary"] = "ours" /\ at["yaml"] = "ours" /\ dirAt["state"] = "ours"
    /\ (at["link"] = "none" /\ at'["link"] = "ours" /\ acts = 0) =>
           pc \in {"entry_check", "entry_unlink"} \/ at["manifest"] = "ours"
PublishedLast == [][PublishedLastStep]_vars

\* Where a command has begun to change the installation: an uninstall behind its
\* last preflight in front of the removals, an install behind its locked inspection.
Removing == {"guard", "svc_exec", "reload", "pre5", "exec", "dir", "root_rename", "root_check", "entry",
             "entry_rename", "entry_check", "entry_unlink", "entry_done"}
Installing == {"i_dir", "i_prepare", "i_state", "i_unit", "i_binary", "i_config", "i_reload", "i_publish",
               "stage", "link", "linked", "i_enable", "i_commit"}

\* cleanupDirectoryPlan.remove, applyInstall: as long as nobody else interferes, a
\* command that fails or is killed after it began to change the installation can be
\* run again.  What an uninstall leaves is accepted by the next one, or there is no
\* manifest left and an install adopts the rest; an install is accepted again.  The
\* exception is what no preflight can tell from somebody else's: a quarantine or
\* stage name in a strict directory.  An error that is no crash leaves no such name
\* but a stage.
CanGoOnStep ==
    /\ acts' = 0 /\ crashes' = 0 => \A d \in Dirs \ {"config", "units"} : junk'[d] = {}
    /\ pc' = "idle" /\ acts' = 0 /\ junk'["run"] = {} /\ junk'["config"] = {} =>
           /\ pc \in Removing =>
                  (NothingInstalled \/ PlanOK(TRUE) \/ (at["manifest"] = "none" /\ Gone /\ Installable(TRUE)))'
           /\ pc \in Installing => Installable(TRUE)'
CanGoOn == [][CanGoOnStep]_vars

\* docs/operations.md, "Uninstall": it stops the service, removes the guard,
\* runtime, state and service artifacts of the installation.  An installation
\* that nobody else touched and whose last command was not killed is not refused.
UninstallAccepted ==
    acts = 0 /\ crashes = 0 /\ evidence <= ExistingLimit /\ pc = "idle" /\ at["manifest"] = "ours" => PlanOK(FALSE)
=============================================================================

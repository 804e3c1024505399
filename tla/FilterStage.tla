---------------------------- MODULE FilterStage -----------------------------
(***************************************************************************)
(* The classic TC filters of a FakeTCP runtime                             *)
(* (productionFakeTCPClassicStage) and the record that names them          *)
(* (fakeTCPClassicOwnerStore).  Everything else a FakeTCP runtime owns     *)
(* dies with its process; these filters do not, and the record is all that *)
(* the next process knows of them.                                         *)
(*                                                                         *)
(* One process at a time runs Apply and Detach of the coordinator, which   *)
(* are lists of steps: stop the runtime, recover a stale record, detach or *)
(* apply the plain core, stage the filters.  It may be killed at any       *)
(* moment and the host may reboot, after which program IDs are given out   *)
(* anew.  Any operation may fail, with or without having taken effect.     *)
(* Somebody else may put a filter into a slot or take one away, and a      *)
(* device may disappear.  An inspection of one slot and the request that   *)
(* follows it are one step: netlink cannot compare and delete.             *)
(***************************************************************************)
EXTENDS Naturals, Sequences, SequencesExt

CONSTANTS
    NSlots,     \* slots: an interface and a direction
    MaxBoot,    \* how often the host boots
    MaxBuild,   \* how many collections are loaded
    MaxForeign, \* how often somebody else changes a slot
    MaxFaults   \* how many operations fail

FilterAssumption == NSlots \in Nat \ {0} /\ {MaxBoot, MaxBuild, MaxForeign, MaxFaults} \subseteq Nat

Slots == 1..NSlots
NoOwner == [phase |-> "none"]
Empty == [who |-> "nobody", id |-> 0]

VARIABLES
    rec,        \* the published owner record, NoOwner without one
    next,       \* an interrupted .owner.next file lies about
    slot,       \* the filter in each slot: whose it is and its program ID
    lost,       \* slots whose device has disappeared
    boot,       \* the boot ID
    ids,        \* the last program ID of this boot
    base,       \* the plain core: "none", "filters" or "links"
    tcx,        \* the runtime is attached with TCX links
    mine,       \* stage.record: what the stage or the recovery believes
    exp,        \* shared.owner is the experimental core
    agenda,     \* the steps left of the call, <<>> between calls
    at,         \* where the first of them is
    todo,       \* slots still to attach or delete, in order
    applied,    \* slots Execute has attached
    served,     \* the generation is committed
    touched,    \* a slot was changed by others since the stage was begun
    builds, foreign, faults

files == <<rec, next>>
kernel == <<slot, lost, boot, ids>>
process == <<mine, exp, agenda, at, todo, applied, served, tcx>>
bounds == <<builds, foreign, faults>>
vars == <<files, kernel, base, process, touched, bounds>>

Init ==
    /\ rec = NoOwner /\ next = FALSE
    /\ slot = [s \in Slots |-> Empty] /\ lost = {} /\ boot = 1 /\ ids = 0
    /\ base \in {"none", "links"} /\ tcx = FALSE
    /\ mine = NoOwner /\ exp = FALSE /\ agenda = <<>> /\ at = "start"
    /\ todo = <<>> /\ applied = <<>> /\ served = FALSE /\ touched = FALSE
    /\ builds = 0 /\ foreign = 0 /\ faults = 0

Fault == faults < MaxFaults /\ faults' = faults + 1

-----------------------------------------------------------------------------
(* Calls *)

Begin(steps) == agenda = <<>> /\ agenda' = steps /\ at' = "start"

\* The first step is done: the next one, if any, starts.
Done == agenda' = Tail(agenda) /\ at' = "start"

\* The call returns an error.
Failed == agenda' = <<>> /\ at' = "start"

Step(name, place) == agenda # <<>> /\ Head(agenda) = name /\ at = place

\* inspectFakeTCPClassicOwnerEvidence: a record, or the rest of one, calls for
\* a recovery.
Evidence == rec # NoOwner \/ next

\* resolveFakeTCPProductionAttachmentBackend, on a kernel with TCX.
Backend(config) ==
    IF config # "auto" THEN config ELSE IF rec # NoOwner THEN "stageFilters" ELSE "stageLinks"

\* Faulty variant: only the coordinator recovers, the build does not.
PrepareNever == <<>>

\* experimentalFakeTCPProductionRequest.prepare, decided when the call plans.
Prepare == IF Evidence THEN <<"prepare">> ELSE <<>>

\* Apply of a configuration with FakeTCP: the plan is made before anything is
\* stopped.  A runtime of this process is replaced by its supervisor alone.
ApplyFakeTCP(config) ==
    /\ Begin((IF exp THEN <<>> ELSE <<"recover", "detach">>) \o <<"stop">> \o Prepare
             \o <<Backend(config)>>)
    /\ UNCHANGED <<files, kernel, base, mine, exp, todo, applied, served, tcx, touched, bounds>>

\* Faulty variant: only the runtime of this process is stopped.
ApplyPlainDirectly ==
    /\ Begin(<<"stop", "apply">>)
    /\ UNCHANGED <<files, kernel, base, mine, exp, todo, applied, served, tcx, touched, bounds>>

\* Apply of a configuration without FakeTCP, and Detach
ApplyPlain ==
    /\ Begin(<<"stop", "recover", "apply">>)
    /\ UNCHANGED <<files, kernel, base, mine, exp, todo, applied, served, tcx, touched, bounds>>

Detach ==
    /\ Begin(<<"stop", "recover", "detach">>)
    /\ UNCHANGED <<files, kernel, base, mine, exp, todo, applied, served, tcx, touched, bounds>>

Call ==
    \/ \E config \in {"auto", "stageLinks", "stageFilters"} : ApplyFakeTCP(config)
    \/ ApplyPlain \/ Detach

-----------------------------------------------------------------------------
(* Files *)

Advance(record, phase) == [record EXCEPT !.seq = @ + 1, !.phase = phase]

\* fakeTCPClassicOwnerStore.Persist returns nil.
Persisted(record) == rec' = record /\ next' = FALSE

\* It returns an error: before the rename or the exchange, which leaves the
\* old record and perhaps a .next file, or after it.
PersistFails(record) ==
    /\ Fault
    /\ \/ rec' = rec /\ next' \in BOOLEAN
       \/ rec' = record /\ next' \in (IF rec = NoOwner THEN {FALSE} ELSE BOOLEAN)

-----------------------------------------------------------------------------
(* Stop, recover and Close of the stage *)

Ordered(set) == SelectSeq([k \in Slots |-> k], LAMBDA s : s \in set)
Occupied(s) == s \notin lost /\ slot[s] # Empty

\* The supervisor has no runtime left.  From here the owner is what the rest of
\* the call is about.
StopDone ==
    /\ Step("stop", "start") /\ mine = NoOwner
    /\ Done
    /\ tcx' = FALSE /\ served' = FALSE
    /\ exp' = (Last(agenda) \in {"stageLinks", "stageFilters"})
    /\ UNCHANGED <<files, kernel, base, mine, todo, applied, touched, bounds>>

StopStage ==
    /\ Step("stop", "start") /\ mine # NoOwner
    /\ at' = "load" /\ served' = FALSE
    /\ UNCHANGED <<files, kernel, base, mine, exp, agenda, todo, applied, tcx, touched, bounds>>

\* recoverFakeTCPProductionClassicOwner makes a stage of what the record says
\* and closes it.
Recover ==
    /\ Step("recover", "start") \/ Step("prepare", "start")
    /\ next' = FALSE
    /\ IF rec = NoOwner
       THEN Done /\ UNCHANGED mine
       ELSE mine' = rec /\ at' = "load" /\ UNCHANGED agenda
    /\ UNCHANGED <<rec, kernel, base, exp, todo, applied, served, tcx, touched, bounds>>

RecoverFails ==
    /\ Step("recover", "start") \/ Step("prepare", "start")
    /\ Evidence /\ Fault
    /\ Failed
    /\ UNCHANGED <<files, kernel, base, mine, exp, todo, applied, served, tcx, touched, builds, foreign>>

\* Close returns an error.  A recovery lets go of the stage it made, a runtime
\* is retained for a retry.
CloseFailed ==
    /\ Failed
    /\ mine' = IF Head(agenda) \in {"recover", "prepare"} THEN NoOwner ELSE mine

CloseDone ==
    /\ mine' = NoOwner
    /\ CASE Head(agenda) = "stop" -> at' = "start" /\ UNCHANGED agenda
         [] Head(agenda) \in {"recover", "prepare"} -> Done
         [] OTHER -> Failed

\* Without a record there must be nothing in the slots; a record that is not
\* the one in memory is not touched.
Load ==
    /\ at = "load"
    /\ CASE rec = NoOwner ->
              /\ IF \E s \in mine.slots : Occupied(s) THEN CloseFailed ELSE CloseDone
              /\ UNCHANGED files
         [] rec # NoOwner /\ rec # mine -> CloseFailed /\ UNCHANGED files
         [] rec = mine /\ mine.phase = "detaching" ->
              at' = "inspect" /\ UNCHANGED <<files, mine, agenda>>
         [] rec = mine /\ mine.phase # "detaching" ->
              /\ Persisted(Advance(mine, "detaching"))
              /\ mine' = Advance(mine, "detaching") /\ at' = "inspect" /\ UNCHANGED agenda
    /\ UNCHANGED <<kernel, base, exp, todo, applied, served, tcx, touched, bounds>>

DetachIntentFails ==
    /\ at = "load" /\ rec = mine /\ mine.phase # "detaching"
    /\ PersistFails(Advance(mine, "detaching"))
    /\ CloseFailed
    /\ UNCHANGED <<kernel, base, exp, todo, applied, served, tcx, touched, builds, foreign>>

\* Faulty variant: the recorded program ID is trusted after a reboot.
NotOursById(s) == Occupied(s) /\ slot[s].id # mine.prog

\* removeFakeTCPClassicFiltersExact refuses a slot with another program, and
\* every occupied slot when the record is of another boot.
NotOurs(s) == Occupied(s) /\ (slot[s].id # mine.prog \/ boot # mine.boot)

\* Every slot is inspected before the first one is deleted.
Inspect ==
    /\ at = "inspect"
    /\ IF \E s \in mine.slots : NotOurs(s)
       THEN CloseFailed /\ UNCHANGED todo
       ELSE /\ todo' = Ordered({s \in mine.slots : Occupied(s)})
            /\ at' = "delete" /\ UNCHANGED <<mine, agenda>>
    /\ UNCHANGED <<files, kernel, base, exp, applied, served, tcx, touched, bounds>>

\* Faulty variant: a slot is not inspected again before it is deleted.
DeletableUnchecked(s) == TRUE

Deletable(s) == slot[s].id = mine.prog

Delete ==
    /\ at = "delete" /\ todo # <<>>
    /\ LET s == Head(todo) IN
       CASE s \in lost \/ (slot[s] # Empty /\ ~Deletable(s)) ->
              CloseFailed /\ UNCHANGED <<slot, todo>>
         [] OTHER ->
              /\ slot' = [slot EXCEPT ![s] = Empty]
              /\ todo' = Tail(todo) /\ UNCHANGED <<mine, agenda, at>>
    /\ UNCHANGED <<files, lost, boot, ids, base, exp, applied, served, tcx, touched, bounds>>

DeleteFails ==
    /\ at = "delete" /\ todo # <<>> /\ Head(todo) \notin lost /\ Deletable(Head(todo))
    /\ Fault
    /\ slot' \in {slot, [slot EXCEPT ![Head(todo)] = Empty]}
    /\ CloseFailed
    /\ UNCHANGED <<files, lost, boot, ids, base, exp, todo, applied, served, tcx, touched, builds, foreign>>

\* Faulty variant: the record goes before the filters.
RemovableEarly == at \in {"inspect", "delete"}

Removable == at = "delete" /\ todo = <<>>

Unpublish ==
    /\ Removable
    /\ rec' = NoOwner /\ next' = FALSE
    /\ CloseDone
    /\ UNCHANGED <<kernel, base, exp, todo, applied, served, tcx, touched, bounds>>

\* The unlink, or the sync after it, fails.
UnpublishFails ==
    /\ Removable /\ Fault
    /\ rec' \in {rec, NoOwner} /\ next' = FALSE
    /\ CloseFailed
    /\ UNCHANGED <<kernel, base, exp, todo, applied, served, tcx, touched, builds, foreign>>

-----------------------------------------------------------------------------
(* Staging *)

Fresh(live) == [phase |-> "attaching", seq |-> 1, boot |-> boot, prog |-> ids + 1, slots |-> live]
Ours == [who |-> "ours", id |-> mine.prog]

\* The programs are loaded, the slots are inspected and the intent to attach is
\* published.  A record of somebody and a filter in a slot are refusals.
Stage ==
    /\ Step("stageFilters", "start") /\ builds < MaxBuild
    /\ LET live == Slots \ lost IN
       IF rec # NoOwner \/ live = {} \/ \E s \in live : Occupied(s)
       THEN /\ next' = FALSE /\ Failed
            /\ UNCHANGED <<rec, mine, todo, applied, touched>>
       ELSE /\ Persisted(Fresh(live)) /\ mine' = Fresh(live)
            /\ todo' = Ordered(live) /\ applied' = <<>> /\ touched' = FALSE
            /\ at' = "attach" /\ UNCHANGED agenda
    /\ ids' = ids + 1 /\ builds' = builds + 1
    /\ UNCHANGED <<slot, lost, boot, base, exp, served, tcx, foreign, faults>>

\* The record may be there without a stage that knows of it.
StageFails ==
    /\ Step("stageFilters", "start") /\ builds < MaxBuild
    /\ rec = NoOwner /\ \A s \in Slots : ~Occupied(s)
    /\ PersistFails(Fresh(Slots \ lost))
    /\ Failed
    /\ ids' = ids + 1 /\ builds' = builds + 1
    /\ UNCHANGED <<slot, lost, boot, base, mine, exp, todo, applied, served, tcx, touched, foreign>>

\* tcAttachPlan.Execute: a slot is inspected again and gets its filter.
Attach ==
    /\ at = "attach" /\ todo # <<>>
    /\ LET s == Head(todo) IN
       IF s \in lost \/ slot[s] # Empty
       THEN at' = "rollback" /\ UNCHANGED <<slot, todo, applied>>
       ELSE /\ slot' = [slot EXCEPT ![s] = Ours]
            /\ todo' = Tail(todo) /\ applied' = Append(applied, s) /\ UNCHANGED at
    /\ UNCHANGED <<files, lost, boot, ids, base, mine, exp, agenda, served, tcx, touched, bounds>>

\* The request fails, perhaps after it took effect, or the check after it does.
AttachFails ==
    /\ at = "attach" /\ todo # <<>> /\ Head(todo) \notin lost /\ slot[Head(todo)] = Empty
    /\ Fault
    /\ \/ UNCHANGED <<slot, applied>>
       \/ /\ slot' = [slot EXCEPT ![Head(todo)] = Ours]
          /\ applied' \in {applied, Append(applied, Head(todo))}
    /\ at' = "rollback"
    /\ UNCHANGED <<files, lost, boot, ids, base, mine, exp, agenda, todo, served, tcx, touched,
                   builds, foreign>>

\* Faulty variant: the stage goes on with the record of the intent.
ActivateForgets ==
    /\ at = "attach" /\ todo = <<>>
    /\ Persisted(Advance(mine, "active")) /\ UNCHANGED mine
    /\ at' = "commit"
    /\ UNCHANGED <<kernel, base, exp, agenda, todo, applied, served, tcx, touched, bounds>>

\* The callback of Execute publishes the active record and commits.
Activate ==
    /\ at = "attach" /\ todo = <<>>
    /\ Persisted(Advance(mine, "active")) /\ mine' = Advance(mine, "active")
    /\ at' = "commit"
    /\ UNCHANGED <<kernel, base, exp, agenda, todo, applied, served, tcx, touched, bounds>>

ActivateFails ==
    /\ at = "attach" /\ todo = <<>>
    /\ PersistFails(Advance(mine, "active"))
    /\ at' = "rollback"
    /\ UNCHANGED <<kernel, base, mine, exp, agenda, todo, applied, served, tcx, touched, builds, foreign>>

Commit ==
    /\ at = "commit"
    /\ served' = TRUE
    /\ Done
    /\ UNCHANGED <<files, kernel, base, mine, exp, todo, applied, tcx, touched, bounds>>

CommitFails ==
    /\ at = "commit" /\ Fault
    /\ at' = "rollback"
    /\ UNCHANGED <<files, kernel, base, mine, exp, agenda, todo, applied, served, tcx, touched,
                   builds, foreign>>

\* tcAttachPlan.rollback goes on past a slot that changed or cannot be deleted.
\* The builder then closes the stage.
Rollback ==
    /\ at = "rollback"
    /\ IF applied = <<>>
       THEN at' = "load" /\ UNCHANGED <<slot, applied>>
       ELSE LET s == Last(applied) IN
            /\ slot' = IF s \notin lost /\ slot[s] = Ours THEN [slot EXCEPT ![s] = Empty] ELSE slot
            /\ applied' = Front(applied) /\ UNCHANGED at
    /\ UNCHANGED <<files, lost, boot, ids, base, mine, exp, agenda, todo, served, tcx, touched, bounds>>

RollbackFails ==
    /\ at = "rollback" /\ applied # <<>> /\ Fault
    /\ applied' = Front(applied)
    /\ UNCHANGED <<files, kernel, base, mine, exp, agenda, at, todo, served, tcx, touched, builds, foreign>>

\* stageProductionFakeTCPTCX, the other backend
StageLinks ==
    /\ Step("stageLinks", "start")
    /\ \/ Done /\ tcx' = TRUE /\ served' = TRUE
       \/ Failed /\ UNCHANGED <<tcx, served>>
    /\ UNCHANGED <<files, kernel, base, mine, exp, todo, applied, touched, bounds>>

-----------------------------------------------------------------------------
(* The plain core *)

BaseIn(s) == slot[s].who = "base"

\* What is attached is updated in place; a new plain core needs empty slots or
\* uses TCX links.
ApplyBase ==
    /\ Step("apply", "start")
    /\ \/ Done /\ base # "none" /\ UNCHANGED <<slot, base, ids, builds>>
       \/ Done /\ base = "none" /\ base' = "links" /\ UNCHANGED <<slot, ids, builds>>
       \/ /\ Done /\ base = "none" /\ builds < MaxBuild
          /\ \A s \in Slots : ~Occupied(s)
          /\ base' = "filters" /\ ids' = ids + 1 /\ builds' = builds + 1
          /\ slot' = [s \in Slots |-> IF s \in lost THEN Empty ELSE [who |-> "base", id |-> ids']]
       \/ Failed /\ UNCHANGED <<slot, base, ids, builds>>
    /\ UNCHANGED <<files, lost, boot, mine, exp, todo, applied, served, tcx, touched, foreign, faults>>

DetachBase ==
    /\ Step("detach", "start")
    /\ \/ /\ base = "filters" => \A s \in Slots : Occupied(s) => BaseIn(s)
          /\ Done /\ base' = "none"
          /\ slot' = IF base = "filters" THEN [s \in Slots |-> Empty] ELSE slot
       \/ Failed /\ UNCHANGED <<base, slot>>
    /\ UNCHANGED <<files, lost, boot, ids, mine, exp, todo, applied, served, tcx, touched, bounds>>

-----------------------------------------------------------------------------
(* The environment *)

Foreign(s) ==
    /\ foreign < MaxForeign /\ foreign' = foreign + 1
    /\ s \notin lost
    /\ \/ slot' = [slot EXCEPT ![s] = [who |-> "foreign", id |-> ids + 1]] /\ ids' = ids + 1
       \/ slot[s] # Empty /\ slot' = [slot EXCEPT ![s] = Empty] /\ UNCHANGED ids
    /\ touched' = TRUE
    /\ UNCHANGED <<files, lost, boot, base, process, builds, faults>>

Lose(s) ==
    /\ foreign < MaxForeign /\ foreign' = foreign + 1
    /\ s \notin lost /\ lost' = lost \union {s}
    /\ slot' = [slot EXCEPT ![s] = Empty]
    /\ touched' = TRUE
    /\ UNCHANGED <<files, boot, ids, base, process, builds, faults>>

ProcessEnds ==
    /\ mine' = NoOwner /\ exp' = FALSE /\ agenda' = <<>> /\ at' = "start"
    /\ todo' = <<>> /\ applied' = <<>> /\ served' = FALSE /\ tcx' = FALSE

Kill ==
    /\ ProcessEnds
    /\ UNCHANGED <<files, kernel, base, touched, bounds>>

\* The record is found again unless the path has become another resource.
Reboot ==
    /\ boot < MaxBoot /\ boot' = boot + 1
    /\ ProcessEnds
    /\ slot' = [s \in Slots |-> Empty] /\ lost' = {} /\ ids' = 0 /\ base' = "none"
    /\ \/ UNCHANGED files
       \/ rec' = NoOwner /\ next' = FALSE
    /\ UNCHANGED <<touched, bounds>>

\* Steps of the process that are taken sooner or later
Work ==
    \/ StopDone \/ StopStage \/ Recover \/ Load \/ Inspect \/ Delete \/ Unpublish
    \/ Stage \/ Attach \/ Activate \/ Commit \/ Rollback
    \/ StageLinks \/ ApplyBase \/ DetachBase

Faults ==
    \/ RecoverFails \/ DetachIntentFails \/ DeleteFails \/ UnpublishFails
    \/ StageFails \/ AttachFails \/ ActivateFails \/ CommitFails \/ RollbackFails

Next ==
    \/ Call \/ Work \/ Faults
    \/ \E s \in Slots : Foreign(s) \/ Lose(s)
    \/ Kill \/ Reboot

Spec == Init /\ [][Next]_vars

\* The process goes on with what it began, and the daemon tries again after a
\* call that failed and after a start.
Fairness == WF_vars(Work) /\ WF_vars(Call)

LiveSpec == Spec /\ Fairness

-----------------------------------------------------------------------------
(* Properties *)

TypeOK ==
    /\ rec = NoOwner \/ (rec.phase \in {"attaching", "active", "detaching"} /\ rec.seq \in 1..3)
    /\ mine = NoOwner \/ (mine.slots \subseteq Slots /\ mine.boot \in 1..MaxBoot)
    /\ next \in BOOLEAN /\ tcx \in BOOLEAN /\ exp \in BOOLEAN
    /\ at \in {"start", "load", "inspect", "delete", "attach", "commit", "rollback"}
    /\ agenda = <<>> => at = "start"
    /\ base \in {"none", "filters", "links"}

\* "This small durable intent is sufficient to remove only the exact surviving
\* filter/program identities on the next daemon start": whatever failed and
\* wherever the process died, every FakeTCP filter in the kernel is named by
\* the published record, with the program it runs and the boot it belongs to.
RecordCovers ==
    \A s \in Slots : slot[s].who = "ours" =>
        rec # NoOwner /\ s \in rec.slots /\ rec.prog = slot[s].id /\ rec.boot = boot

\* No step of the process removes or replaces a filter that somebody else put
\* into a slot, even if it runs a program with the recorded ID, as it may after
\* a reboot.
ForeignKeptStep ==
    boot' = boot /\ foreign' = foreign =>
        \A s \in Slots : slot[s].who = "foreign" => slot'[s] = slot[s]
ForeignKept == [][ForeignKeptStep]_vars

\* The filters of a FakeTCP runtime, the plain core and a FakeTCP runtime on TCX
\* links are never attached together, whatever an earlier process left behind.
Apart == (\E s \in Slots : slot[s].who = "ours") => base = "none" /\ ~tcx

\* As long as nobody else touches the slots, Healthy accepts a runtime that was
\* committed: the record on disk is the one in memory and active, and every
\* filter is there.
ServedIsExact ==
    served /\ mine # NoOwner /\ ~touched =>
        rec = mine /\ mine.phase = "active" /\ \A s \in mine.slots : slot[s] = Ours

\* Somebody else's filter, or any filter after a reboot, is where the record
\* says one of ours is.
Blocked == rec # NoOwner /\ \E s \in rec.slots :
    Occupied(s) /\ (slot[s].id # rec.prog \/ boot # rec.boot)

\* A change of the record took effect and was reported as failed: the stage of
\* this process does not recognise its own record again.
Disowned == mine # NoOwner /\ rec # NoOwner /\ rec # mine

\* A record does not stay: unless processes keep being killed, it comes to an
\* end or to a runtime committed under it.  It only remains while somebody else's filter
\* is in the way, or until the process that disowned it ends.
RecordSettles ==
    \/ []<><<Kill>>_vars
    \/ (rec # NoOwner) ~> (rec = NoOwner \/ (served /\ rec = mine) \/ Blocked \/ Disowned)
=============================================================================

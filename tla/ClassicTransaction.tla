------------------------- MODULE ClassicTransaction -------------------------
(***************************************************************************)
(* The classic TC backend of the plain dataplane loader                    *)
(* (internal/dataplane): apply and detach over clsact filters, the owner   *)
(* record that journals them, and the recovery both run first.             *)
(*                                                                         *)
(* A filter is not pinned and is not lost with the process, and netlink    *)
(* replaces it in place.  So an apply that fails in the process puts back  *)
(* what it changed, a detach that fails restores maps and filters, and a   *)
(* killed apply is always carried to its end by the recovery.  One step is *)
(* one durable effect, as in OwnerTransaction; the checks before it are    *)
(* its guards.  Filters of anybody else are not modelled: every check that *)
(* finds one is an error.                                                  *)
(***************************************************************************)
EXTENDS Naturals, FiniteSets, FiniteSetsExt

CONSTANTS
    NSlots,    \* slots (interface and direction) filters are attached to
    Maps,      \* the pinned maps; "control_map" and "owner_map" among them
    MaxGen     \* generations between two detaches

ClassicAssumption ==
    NSlots \in Nat \ {0} /\ MaxGen \in Nat \ {0} /\ {"control_map", "owner_map"} \subseteq Maps

Slots == 1 .. NSlots
Progs == 1 .. 3             \* program IDs in use at once, one per load
Gens == 0 .. MaxGen

VARIABLES
    rec,       \* the owner record, or NoRecord
    dir,       \* does the pin directory exist
    files,     \* its entries: <<kind, name>>
    filter,    \* slot -> the program of its filter, 0 for none
    clsact,    \* slots whose interface has the clsact qdisc
    gen,       \* active generation in the pinned control map
    data,      \* generation -> its entries in the pinned data maps
    bank,      \* the two XOR tail-call banks: the load whose programs they hold
    job,       \* the call under way: what for, where, the slots its rollback has
               \* still to visit, and whether it has failed to restore a map
    calm       \* no more faults from here on

disk == <<rec, dir, files>>
kernel == <<filter, clsact, gen, data, bank>>
vars == <<disk, kernel, job, calm>>

\* tcFilterBinding: slot -> program, 0 for a slot the list does not have.
NoFilters == [s \in Slots |-> 0]
NoRecord == [phase |-> "none", step |-> "none", agen |-> 0, ngen |-> 0,
             act |-> NoFilters, des |-> NoFilters]
Idle == [op |-> "none", pc |-> "idle", target |-> {}, left |-> {}, bad |-> FALSE]

Init ==
    /\ rec = NoRecord /\ dir = FALSE /\ files = {}
    /\ filter = NoFilters /\ clsact = {}
    /\ gen = 0 /\ data = [g \in Gens |-> "none"] /\ bank = [p \in {0, 1} |-> 0]
    /\ job = Idle /\ calm = FALSE

At(label) == job.pc = label
Goto(label) == [job EXCEPT !.pc = label]
In(phase, step) == rec.phase = phase /\ rec.step = step
Recovering(phase, step) == At("recover") /\ In(phase, step)

-----------------------------------------------------------------------------
(* The record *)

\* pinOwnerStore.Persist: the new record is durable and the call goes on, or it
\* is durable and the call fails behind it.  A failure before it is CallFails.
Persist(r, next) ==
    /\ rec' = r
    /\ job' = next \/ (~calm /\ job' = Idle)

Advance(phase, step) == [rec EXCEPT !.phase = phase, !.step = step]
Active(g, fs) == [phase |-> "active", step |-> "ready", agen |-> g, ngen |-> 0,
                  act |-> fs, des |-> NoFilters]

\* completeApplyingPinOwnerRecord
Completed == Active(rec.ngen, rec.des)

\* abortApplyingPinOwnerRecord, abortDetachingPinOwnerRecord
Aborted == Active(rec.agen, rec.act)

\* newDetachingPinOwnerRecord, newInitialAbortDetachingPinOwnerRecord
Detaching == [Advance("detaching", "staging") EXCEPT !.ngen = 0, !.des = NoFilters]

\* Where a call goes on once the record is active.
OnActive ==
    CASE job.op = "apply" -> Goto("journal")
      [] job.op = "detach" -> Goto("detach")
      [] job.op = "commit" -> Goto("trim")
      [] OTHER -> Idle

\* Mutant: a first generation that is undone stays, without filters.
BackToNothing(next) == Persist(Aborted, next)

\* An undone apply: the old generation goes on, a first one is torn down.
BackToOld(next) ==
    IF rec.agen = 0 THEN Persist(Detaching, Goto("recover")) ELSE Persist(Aborted, next)

-----------------------------------------------------------------------------
(* What the transactions look at *)

Have(kind) == {m \in Maps : <<kind, m>> \in files}
Programs(fs) == {fs[s] : s \in Slots} \ {0}

\* buildClassicOwnerProgramStages: the programs of either list.
StagePrograms == Programs(rec.act) \cup Programs(rec.des)

\* loadOwnerPrograms
StagedAll == \A p \in StagePrograms : <<"stage", p>> \in files

\* removeOwnerProgramStages, removeOwnerMapStages have returned.
Unstaged == \A p \in Progs : <<"stage", p>> \notin files /\ <<"retired", p>> \notin files
MapsUnstaged == Have("mapstage") \cup Have("stage-retired") = {}

\* loadOwnerMapStages
StagesLoaded == IF rec.agen = 0 THEN Have("map") \subseteq Have("mapstage")
                ELSE Have("mapstage") = Maps

\* A map under its canonical and under its retired name: a restore was interrupted.
Twice == Have("map") \cap Have("canonical-retired")

\* validateOwnerTCExact, over every slot the record names.
Exact(fs) == \A s \in Slots : rec.act[s] # 0 \/ rec.des[s] # 0 => filter[s] = fs[s]

\* inspectOwnerTCTransition, for an apply: the program of either list in every
\* slot, and no kept slot empty.
InTransition == \A s \in Slots :
    /\ filter[s] \in {0, rec.act[s], rec.des[s]}
    /\ rec.act[s] # 0 /\ rec.des[s] # 0 => filter[s] # 0

\* The program a load brings: its number is new.
FreshPrograms == Progs \ (StagePrograms \cup Programs(filter)
                          \cup {p \in Progs : <<"stage", p>> \in files})
FreshProgram == CHOOSE p \in FreshPrograms : TRUE

\* The next slot in the order of Execute.
IsNext(s, todo) == s \in todo /\ \A t \in todo : s <= t

-----------------------------------------------------------------------------
(* Apply, up to the first filter *)

\* applyClassicTC takes the pin-path lock, so calls exclude each other.
StartApply(target) ==
    /\ At("idle")
    /\ dir' = TRUE
    /\ job' = [Idle EXCEPT !.op = "apply", !.target = target,
                           !.pc = IF rec = NoRecord THEN "journal" ELSE "recover"]
    /\ UNCHANGED <<rec, files, kernel, calm>>

\* newClassicApplyingPinOwnerRecord, behind ValidatePreviousBindings and
\* AddOwnedStaleRemovals: every slot is as the record says.  Without a record the
\* maps are new.
Journal ==
    /\ At("journal") /\ rec.agen < MaxGen /\ (rec = NoRecord => files = {}) /\ Twice = {}
    /\ FreshPrograms # {}
    /\ \A s \in Slots : filter[s] = rec.act[s]
    /\ Persist([phase |-> "applying", step |-> "staging", agen |-> rec.agen, ngen |-> rec.agen + 1,
                act |-> rec.act,
                des |-> [s \in Slots |-> IF s \in job.target THEN FreshProgram ELSE 0]],
               Goto(IF rec = NoRecord THEN "maps" ELSE "data"))
    /\ IF rec = NoRecord
       THEN gen' = 0 /\ data' = [g \in Gens |-> "none"] /\ bank' = [p \in {0, 1} |-> 0]
       ELSE UNCHANGED <<gen, data, bank>>
    /\ UNCHANGED <<dir, files, filter, clsact, calm>>

\* The bound on generations: the next call can only be a detach.
JournalBound ==
    /\ At("journal") /\ rec.agen = MaxGen
    /\ job' = Idle
    /\ UNCHANGED <<disk, kernel, calm>>

\* rollbackFreshPinnedMaps: the first record could not be written, and the empty
\* directory goes again if this call made it.
JournalFails ==
    /\ At("journal") /\ rec = NoRecord /\ ~calm
    /\ job' = Idle /\ dir' \in {FALSE, TRUE}
    /\ UNCHANGED <<rec, files, kernel, calm>>

\* pinFreshCollectionMaps
PinMap(m) ==
    /\ At("maps") /\ <<"map", m>> \notin files
    /\ files' = files \cup {<<"map", m>>}
    /\ job' = IF Have("map") = Maps \ {m} THEN Goto("data") ELSE job
    /\ UNCHANGED <<rec, dir, kernel, calm>>

\* Mutant: what an earlier attempt left of the generation stays.
PopulateOver ==
    /\ At("data")
    /\ data' = [data EXCEPT ![rec.ngen] = IF @ = "none" THEN "partial" ELSE "mixed"]
    /\ job' = Goto("filled")
    /\ UNCHANGED <<disk, filter, clsact, gen, bank, calm>>

\* deleteGenerationMapEntries, and populateDataMaps up to its last entry; on an
\* error it deletes what it wrote.
Populate ==
    /\ At("data")
    /\ \/ data' = [data EXCEPT ![rec.ngen] = "partial"] /\ job' = Goto("filled")
       \/ ~calm /\ data' = [data EXCEPT ![rec.ngen] = "none"] /\ job' = Idle
    /\ UNCHANGED <<disk, filter, clsact, gen, bank, calm>>

\* The last entry, and populateXORTailCalls.
Populated ==
    /\ At("filled")
    /\ data' = [data EXCEPT ![rec.ngen] = IF @ = "partial" THEN "full" ELSE @]
    /\ bank' = [bank EXCEPT ![rec.ngen % 2] = Max(Programs(rec.des) \cup {0})]
    /\ job' = Goto("stage")
    /\ UNCHANGED <<disk, filter, clsact, gen, calm>>

\* stageOwnerPrograms
StageProgram(p) ==
    /\ At("stage") \/ (job.pc \in {"recover", "detaching"} /\ In("detaching", "staging"))
    /\ p \in StagePrograms /\ <<"stage", p>> \notin files
    /\ files' = files \cup {<<"stage", p>>}
    /\ UNCHANGED <<rec, dir, kernel, job, calm>>

\* Mutant: the filters may change before the programs are staged.
BeginMutatingUnstaged ==
    /\ At("stage")
    /\ Persist(Advance("applying", "mutating"), Goto("attach"))
    /\ UNCHANGED <<dir, files, kernel, calm>>

BeginMutating ==
    /\ At("stage") /\ StagedAll
    /\ Persist(Advance("applying", "mutating"), Goto("attach"))
    /\ UNCHANGED <<dir, files, kernel, calm>>

-----------------------------------------------------------------------------
(* tcAttachPlan.Execute: the slots of the new generation, the stale ones, the *)
(* control word *)

\* Slots in the order of Execute whose filter is not yet what it will be.
Unattached == {s \in Slots : rec.des[s] # 0 /\ filter[s] # rec.des[s]}
Stale == {s \in Slots : rec.des[s] = 0 /\ filter[s] # 0 /\ rec.act[s] # 0}

\* clsact is shared: it is added where it is missing, and never removed.
AddClsact(s) ==
    /\ At("attach") /\ IsNext(s, Unattached) /\ s \notin clsact
    /\ clsact' = clsact \cup {s}
    /\ UNCHANGED <<disk, filter, gen, data, bank, job, calm>>

\* Mutant: a filter in the slot is deleted and added anew.
AttachDeleting(s) ==
    /\ At("attach") /\ IsNext(s, Unattached) /\ s \in clsact
    /\ filter' = [filter EXCEPT ![s] = IF @ = rec.act[s] /\ @ # 0 THEN 0 ELSE rec.des[s]]
    /\ UNCHANGED <<disk, clsact, gen, data, bank, job, calm>>

\* filterReplace or filterAdd, behind recheckFilterSnapshot.
AttachFilter(s) ==
    /\ At("attach") /\ IsNext(s, Unattached) /\ s \in clsact
    /\ filter[s] = rec.act[s]
    /\ filter' = [filter EXCEPT ![s] = rec.des[s]]
    /\ UNCHANGED <<disk, clsact, gen, data, bank, job, calm>>

DeleteStale(s) ==
    /\ At("attach") /\ Unattached = {} /\ IsNext(s, Stale)
    /\ filter[s] = rec.act[s]
    /\ filter' = [filter EXCEPT ![s] = 0]
    /\ UNCHANGED <<disk, clsact, gen, data, bank, job, calm>>

\* Mutant: the generation is published before its filters are attached.
CommitControlFirst ==
    /\ At("attach") /\ gen # rec.ngen
    /\ gen' = rec.ngen
    /\ job' = job
    /\ UNCHANGED <<disk, filter, clsact, data, bank, calm>>

\* commitControl: the generation is published.
CommitControl ==
    /\ At("attach") /\ Unattached = {} /\ Stale = {}
    /\ gen' = rec.ngen
    /\ job' = [Goto("cleanup") EXCEPT !.op = "commit"]
    /\ UNCHANGED <<disk, filter, clsact, data, bank, calm>>

BeginCleanup ==
    /\ At("cleanup")
    /\ Persist(Advance("applying", "cleanup"), Goto("recover"))
    /\ UNCHANGED <<dir, files, kernel, calm>>

\* deleteStaleMapEntries
Trim ==
    /\ At("trim")
    /\ data' = [g \in Gens |-> IF g = gen THEN data[g] ELSE "none"]
    /\ job' = Idle
    /\ UNCHANGED <<disk, filter, clsact, gen, bank, calm>>

-----------------------------------------------------------------------------
(* tcAttachPlan.rollback and abortFailedOwnerApply *)

\* The slots Execute has changed: the deleted ones are restored first, either
\* kind in reverse.
Touched == {s \in Slots : filter[s] # rec.act[s]}
LastLeft == LET deleted == {s \in job.left : rec.des[s] = 0}
            IN  Max(IF deleted # {} THEN deleted ELSE job.left)

\* One slot is put back, or cannot be and the others follow.
Rollback(s) ==
    /\ At("undo") /\ job.left # {} /\ s = LastLeft
    /\ filter' = [filter EXCEPT ![s] = rec.act[s]] \/ (~calm /\ UNCHANGED filter)
    /\ job' = [job EXCEPT !.left = @ \ {s}]
    /\ UNCHANGED <<disk, clsact, gen, data, bank, calm>>

\* abortFailedOwnerApply insists on the old generation, whole.
RolledBack ==
    /\ At("undo") /\ job.left = {}
    /\ job' = IF gen = rec.agen /\ Exact(rec.act) THEN Goto("abort") ELSE Idle
    /\ UNCHANGED <<disk, kernel, calm>>

FinishAbort ==
    /\ At("abort") /\ Unstaged
    /\ BackToOld(Idle)
    /\ UNCHANGED <<dir, files, kernel, calm>>

-----------------------------------------------------------------------------
(* recoverPinOwnerTransaction: an active or an applying record *)

RecoverActive ==
    /\ Recovering("active", "ready") /\ Exact(rec.act) /\ gen = rec.agen /\ Twice = {}
    /\ job' = OnActive
    /\ UNCHANGED <<disk, kernel, calm>>

\* validateOwnerDirectoryEntries, classifyCanonicalPinDirectory: an entry beside the
\* maps of an active record.
ActiveRefused ==
    /\ Recovering("active", "ready") \/ At("journal")
    /\ Twice # {}
    /\ job' = Idle
    /\ UNCHANGED <<disk, kernel, calm>>

\* rollForwardOwnerApplyFilters: wherever the killed apply was, it is carried on.
Forward == Recovering("applying", "mutating") /\ StagedAll /\ InTransition
Behind == {s \in Slots : filter[s] # rec.des[s]}

ForwardClsact(s) ==
    /\ Forward /\ rec.des[s] # 0 /\ filter[s] = 0 /\ s \notin clsact
    /\ clsact' = clsact \cup {s}
    /\ UNCHANGED <<disk, filter, gen, data, bank, job, calm>>

ForwardFilter(s) ==
    /\ Forward /\ IsNext(s, Behind)
    /\ \A t \in Slots : rec.des[t] # 0 /\ filter[t] = 0 => t \in clsact
    /\ filter' = [filter EXCEPT ![s] = rec.des[s]]
    /\ UNCHANGED <<disk, clsact, gen, data, bank, job, calm>>

\* commitOwnerControlGeneration, unless the control word was already written.
ForwardControl ==
    /\ Forward /\ Behind = {} /\ gen = rec.agen
    /\ gen' = rec.ngen
    /\ UNCHANGED <<disk, filter, clsact, data, bank, job, calm>>

Forwarded ==
    /\ Forward /\ Behind = {} /\ gen = rec.ngen
    /\ Persist(Advance("applying", "cleanup"), job)
    /\ UNCHANGED <<dir, files, kernel, calm>>

\* loadOwnerPrograms cannot find the stages it needs.
ForwardRefused ==
    /\ Recovering("applying", "mutating") /\ ~StagedAll
    /\ job' = Idle
    /\ UNCHANGED <<disk, kernel, calm>>

\* What has to hold before the stages are dropped.
MayFinish ==
    \/ Recovering("applying", "staging") /\ gen = rec.agen /\ Exact(rec.act)
    \/ Recovering("applying", "cleanup") /\ gen = rec.ngen /\ Exact(rec.des)

FinishApplying ==
    /\ MayFinish /\ Unstaged
    /\ IF rec.step = "cleanup" THEN Persist(Completed, OnActive) ELSE BackToOld(OnActive)
    /\ UNCHANGED <<dir, files, kernel, calm>>

-----------------------------------------------------------------------------
(* Detach: executeOwnerDetachTransaction at "detaching", its recovery at "recover" *)

StartDetach ==
    /\ At("idle") /\ rec # NoRecord
    /\ job' = [Idle EXCEPT !.op = "detach", !.pc = "recover"]
    /\ UNCHANGED <<disk, kernel, calm>>

\* A directory without record and without entries is removed.
DetachEmpty ==
    /\ At("idle") /\ rec = NoRecord /\ dir /\ files = {}
    /\ dir' = FALSE
    /\ UNCHANGED <<rec, files, kernel, job, calm>>

BeginDetach ==
    /\ At("detach")
    /\ Persist(Detaching, Goto("detaching"))
    /\ UNCHANGED <<dir, files, kernel, calm>>

\* Mutant: any interrupted detach that has not yet unlinked a map is called off.
KeepPartly ==
    /\ At("recover") /\ rec.phase = "detaching" /\ rec.agen # 0
    /\ rec.step \in {"mutating_tc", "unlinking_maps"}
    /\ Have("map") = Maps /\ gen = rec.agen

\* recoverRolledBackOwnerDetach: nothing is missing of the active generation, so
\* the detach is called off.
Keep ==
    /\ At("recover") /\ rec.phase = "detaching" /\ rec.agen # 0
    /\ rec.step \in {"mutating_tc", "unlinking_maps"}
    /\ Exact(rec.act) /\ Have("map") = Maps /\ gen = rec.agen

DetachAt(step) == job.pc \in {"recover", "detaching"} /\ In("detaching", step) /\ ~Keep

\* stageOwnerMaps: a second pin of every map, behind the programs; of a first
\* generation, of those that were pinned.
StageMap(m) ==
    /\ DetachAt("staging") /\ Exact(rec.act) /\ gen = rec.agen /\ StagedAll
    /\ m \in Have("map") \ Have("mapstage")
    /\ files' = files \cup {<<"mapstage", m>>}
    /\ UNCHANGED <<rec, dir, kernel, job, calm>>

BeginDetachFilters ==
    /\ DetachAt("staging") /\ StagedAll /\ StagesLoaded
    /\ Persist(Advance("detaching", "mutating_tc"), job)
    /\ UNCHANGED <<dir, files, kernel, calm>>

\* rollForwardOwnerDetachFilters
FiltersGone == Exact(NoFilters)
DetachFilter(s) ==
    /\ DetachAt("mutating_tc") /\ StagedAll /\ StagesLoaded
    /\ filter[s] # 0 /\ filter[s] = rec.act[s]
    /\ \A t \in 1 .. s - 1 : filter[t] = 0
    /\ filter' = [filter EXCEPT ![s] = 0]
    /\ UNCHANGED <<disk, clsact, gen, data, bank, job, calm>>

BeginUnlinkMaps ==
    /\ DetachAt("mutating_tc") /\ StagedAll /\ StagesLoaded /\ FiltersGone
    /\ Persist(Advance("detaching", "unlinking_maps"), job)
    /\ UNCHANGED <<dir, files, kernel, calm>>

\* removeCanonicalOwnerMaps: renamed, then unlinked.
UnlinkMap(m) ==
    /\ DetachAt("unlinking_maps") /\ FiltersGone /\ StagesLoaded /\ Twice = {}
    /\ \/ /\ Have("canonical-retired") = {} /\ m \in Have("map")
          /\ files' = (files \ {<<"map", m>>}) \cup {<<"canonical-retired", m>>}
       \/ <<"canonical-retired", m>> \in files /\ files' = files \ {<<"canonical-retired", m>>}
    /\ UNCHANGED <<rec, dir, kernel, job, calm>>

BeginCleanupStages ==
    /\ DetachAt("unlinking_maps") /\ FiltersGone
    /\ Have("map") \cup Have("canonical-retired") = {}
    /\ Persist(Advance("detaching", "cleanup_stages"), Goto("recover"))
    /\ UNCHANGED <<dir, files, kernel, calm>>

\* recoverDetachingPinOwnerTransaction insists on no filter once maps may be gone,
\* removeCanonicalOwnerMaps on one name for a map.
UnlinkRefused ==
    /\ DetachAt("unlinking_maps")
    /\ \/ At("recover") /\ (~FiltersGone \/ Twice # {}) /\ job' = Idle
       \/ At("detaching") /\ Twice # {} /\ job' = Goto("restore")
    /\ UNCHANGED <<disk, kernel, calm>>

\* Mutant: the record goes with the stages still in the directory.
RemoveRecordEarly ==
    /\ Recovering("detaching", "cleanup_stages") /\ FiltersGone /\ Unstaged
    /\ Persist(NoRecord, Goto("rmdir"))
    /\ UNCHANGED <<dir, files, kernel, calm>>

\* The record goes before the empty directory.
RemoveRecord ==
    /\ Recovering("detaching", "cleanup_stages") /\ FiltersGone /\ files = {}
    /\ Persist(NoRecord, Goto("rmdir"))
    /\ UNCHANGED <<dir, files, kernel, calm>>

RemoveDirectory ==
    /\ At("rmdir")
    /\ dir' = FALSE /\ job' = Idle
    /\ UNCHANGED <<rec, files, kernel, calm>>

-----------------------------------------------------------------------------
(* rollbackOwnerDetachToActive: a detach that failed in the process *)

\* restoreCanonicalOwnerMaps: the canonical pin from the stage, then the retired
\* one goes.
RestoreMap(m) ==
    /\ At("restore")
    /\ \/ m \notin Have("map") /\ files' = files \cup {<<"map", m>>}
       \/ /\ m \in Have("map") \cap Have("canonical-retired")
          /\ files' = files \ {<<"canonical-retired", m>>}
    /\ UNCHANGED <<rec, dir, kernel, job, calm>>

\* The filters follow whatever became of the maps.
RestoreMapsDone ==
    /\ At("restore")
    /\ \/ Have("map") = Maps /\ Have("canonical-retired") = {} /\ job' = Goto("refilter")
       \/ ~calm /\ job' = [Goto("refilter") EXCEPT !.bad = TRUE]
    /\ UNCHANGED <<disk, kernel, calm>>

\* restoreOwnerActiveFilters
RestoreFilter(s) ==
    /\ At("refilter") /\ rec.act[s] # 0 /\ filter[s] = 0
    /\ \A t \in 1 .. s - 1 : filter[t] = rec.act[t]
    /\ filter' = [filter EXCEPT ![s] = rec.act[s]]
    /\ UNCHANGED <<disk, clsact, gen, data, bank, job, calm>>

RestoreDone ==
    /\ At("refilter") /\ Exact(rec.act)
    /\ job' = IF job.bad THEN Idle ELSE Goto("unstage")
    /\ UNCHANGED <<disk, kernel, calm>>

-----------------------------------------------------------------------------
(* The stages go *)

\* Mutant: the directory is forgotten to hold stages.
MayUnstageSeldom == At("abort") \/ MayFinish \/ Keep \/ At("unstage")

MayUnstage ==
    \/ At("abort") \/ MayFinish \/ Keep \/ At("unstage")
    \/ Recovering("detaching", "cleanup_stages") /\ FiltersGone

\* removeOwnerProgramStages: renamed to its retired name, then unlinked.
RemoveStage(p) ==
    /\ MayUnstage
    /\ \/ /\ <<"stage", p>> \in files /\ \A q \in Progs : <<"retired", q>> \notin files
          /\ files' = (files \ {<<"stage", p>>}) \cup {<<"retired", p>>}
       \/ <<"retired", p>> \in files /\ files' = files \ {<<"retired", p>>}
    /\ UNCHANGED <<rec, dir, kernel, job, calm>>

\* Mutant: in the order of the names.
OwnerMapAnyOrder(m) == TRUE

\* The owner map, which proves whose the others are, is the last to go.
OwnerMapLast(m) ==
    m = "owner_map" => Have("mapstage") \cup Have("stage-retired") = {"owner_map"}

\* removeOwnerMapStages, behind the programs.
RemoveMapStage(m) ==
    /\ MayUnstage /\ rec.phase = "detaching" /\ Unstaged /\ OwnerMapLast(m)
    /\ \/ /\ <<"mapstage", m>> \in files /\ Have("stage-retired") = {}
          /\ files' = (files \ {<<"mapstage", m>>}) \cup {<<"stage-retired", m>>}
       \/ <<"stage-retired", m>> \in files /\ files' = files \ {<<"stage-retired", m>>}
    /\ UNCHANGED <<rec, dir, kernel, job, calm>>

\* abortDetachingPinOwnerRecord
KeepActive ==
    /\ Keep \/ At("unstage")
    /\ Unstaged /\ MapsUnstaged
    /\ Persist(Aborted, IF At("unstage") THEN Idle ELSE OnActive)
    /\ UNCHANGED <<dir, files, kernel, calm>>

-----------------------------------------------------------------------------
(* Faults *)

\* An error before the next effect: Execute rolls back, a detach that has begun
\* to take things away restores them, every other call returns.
CallFails ==
    /\ ~calm /\ job # Idle
    /\ job' \in CASE At("attach") -> {[Goto("undo") EXCEPT !.left = Touched]}
                  [] At("detaching") /\ rec.step # "staging" -> {Idle, Goto("restore")}
                  [] OTHER -> {Idle}
    /\ UNCHANGED <<disk, kernel, calm>>

\* The process is killed.
Crash ==
    /\ ~calm /\ job # Idle
    /\ job' = Idle
    /\ UNCHANGED <<disk, kernel, calm>>

BecomeCalm ==
    /\ ~calm /\ calm' = TRUE
    /\ UNCHANGED <<disk, kernel, job>>

-----------------------------------------------------------------------------
Apply ==
    \/ Journal \/ JournalBound \/ JournalFails \/ Populate \/ Populated \/ BeginMutating
    \/ CommitControl \/ BeginCleanup \/ Trim \/ RolledBack \/ FinishAbort
    \/ \E m \in Maps : PinMap(m)
    \/ \E p \in Progs : StageProgram(p)
    \/ \E s \in Slots : AddClsact(s) \/ AttachFilter(s) \/ DeleteStale(s) \/ Rollback(s)

Recover ==
    \/ RecoverActive \/ ActiveRefused \/ ForwardControl \/ Forwarded \/ ForwardRefused \/ FinishApplying
    \/ \E s \in Slots : ForwardClsact(s) \/ ForwardFilter(s)
    \/ \E p \in Progs : RemoveStage(p)

Detach ==
    \/ BeginDetach \/ BeginDetachFilters \/ BeginUnlinkMaps \/ BeginCleanupStages
    \/ UnlinkRefused \/ RemoveRecord \/ RemoveDirectory
    \/ RestoreMapsDone \/ RestoreDone \/ KeepActive
    \/ \E m \in Maps : StageMap(m) \/ UnlinkMap(m) \/ RemoveMapStage(m) \/ RestoreMap(m)
    \/ \E s \in Slots : DetachFilter(s) \/ RestoreFilter(s)

Work == Apply \/ Recover \/ Detach

Next ==
    \/ Work
    \/ StartDetach \/ DetachEmpty \/ \E target \in SUBSET Slots : StartApply(target)
    \/ CallFails \/ Crash \/ BecomeCalm

Spec == Init /\ [][Next]_vars

\* A call runs on, and the daemon's reconcile loop keeps applying.
Fairness == WF_vars(Work) /\ WF_vars(StartApply(Slots))

-----------------------------------------------------------------------------
(* The promise *)

Stage ==
    CASE rec.phase \in {"none", "active"} -> "idle"
      [] rec.phase = "detaching" -> "removing"
      [] OTHER -> IF gen = rec.ngen THEN "published" ELSE "pending"

Commit == INSTANCE GenerationCommit
    WITH published <- IF rec = NoRecord THEN 0 ELSE gen, next <- rec.ngen, stage <- Stage,
         MayKeep <- TRUE

\* Apply and Detach with their recovery implement the commit of a generation: the
\* control word is the decision, and a detach is called off only whole.
CommitStep == [Commit!Next]_(Commit!vars)
CommitsOnce == Commit!Spec

\* Every variable has its type.
TypeOK ==
    /\ rec.phase \in {"none", "active", "applying", "detaching"}
    /\ rec.agen \in Gens /\ rec.ngen \in Gens
    /\ {rec.act, rec.des, filter} \subseteq [Slots -> Progs \cup {0}]
    /\ dir \in BOOLEAN /\ (files # {} => dir)
    /\ clsact \subseteq Slots /\ gen \in Gens
    /\ data \in [Gens -> {"none", "partial", "full", "mixed"}]
    /\ bank \in [{0, 1} -> Progs \cup {0}]
    /\ job.target \subseteq Slots /\ job.left \subseteq Slots /\ calm \in BOOLEAN

\* validateClassicOwnerDirectoryEntries: the entries the record accounts for.
Accepted ==
    /\ \A f \in files :
         \/ f[1] = "map"
         \/ f[1] \in {"stage", "retired"} /\ f[2] \in StagePrograms /\ rec.phase # "active"
         \/ f[1] \notin {"stage", "retired"} /\ rec.phase = "detaching"
    /\ rec.phase = "active" => files = {<<"map", m>> : m \in Maps}
    /\ rec.phase = "applying" /\ (rec.agen # 0 \/ rec.step # "staging") => Have("map") = Maps
    /\ rec.phase = "detaching" /\ rec.step \in {"staging", "mutating_tc"} /\ rec.agen # 0 =>
         Have("map") = Maps
    /\ In("detaching", "cleanup_stages") => Have("map") = {}

\* The checks recoverPinOwnerTransaction makes before it does anything.
CanGoOn ==
    LET whole == rec.agen # 0 /\ Exact(rec.act) /\ Have("map") = Maps /\ gen = rec.agen
    IN  CASE rec.phase = "active" \/ rec.step = "staging" -> Exact(rec.act) /\ gen = rec.agen
          [] In("applying", "mutating") -> StagedAll /\ InTransition /\ gen \in {rec.agen, rec.ngen}
          [] In("applying", "cleanup") -> Exact(rec.des) /\ gen = rec.ngen
          [] In("detaching", "mutating_tc") -> whole \/ (StagedAll /\ StagesLoaded /\ InTransition)
          [] In("detaching", "unlinking_maps") -> whole \/ (FiltersGone /\ StagesLoaded)
          [] In("detaching", "cleanup_stages") -> FiltersGone
          [] OTHER -> FALSE

\* The windows in which a kill, or a second failure, leaves what no recovery accepts.
\* An apply that was put back drops its stages before its record is active again.  A
\* detach that is put back restores its filters while its record says they are gone,
\* and pins a map anew before the retired name of the same map goes.
Wedged ==
    \/ In("applying", "mutating") /\ Exact(rec.act) /\ gen = rec.agen /\ ~StagedAll
    \/ In("detaching", "unlinking_maps") /\ rec.agen # 0 /\ ~FiltersGone /\ StagesLoaded
    \/ rec.agen # 0 /\ Twice # {}

\* recoverPinOwnerTransaction: wherever a call stops, outside those windows, its
\* recovery accepts directory, filters, stages and control word; no entry outlives
\* the record, and no map the owner map that proves whose it is.
Recoverable ==
    IF rec = NoRecord THEN files = {} /\ filter = NoFilters
    ELSE /\ Wedged \/ (Accepted /\ CanGoOn)
         /\ rec.phase = "detaching" /\ rec.agen # 0 /\ files # {} =>
              "owner_map" \in Have("map") \cup Have("mapstage") \cup Have("stage-retired")

\* commitControl, populateDataMaps: a published generation has all of its entries
\* and its own tail calls, and outside a detach exactly its own filters.
PublishedIsWhole ==
    rec # NoRecord /\ gen # 0 =>
        /\ data[gen] = "full"
        /\ Programs(IF gen = rec.ngen THEN rec.des ELSE rec.act) \subseteq {bank[gen % 2]}
        /\ rec.phase = "applying" /\ gen = rec.ngen => Exact(rec.des)

\* Applied means applied: an Apply that returns nil has the filters it was asked for.
AppliedIsAttached ==
    At("trim") => gen = rec.agen /\ {s \in Slots : filter[s] # 0} = job.target

\* filterReplace: a slot loses its filter only to a detach, to a generation without
\* the slot, or to the undoing of one that brought it.
HitlessStep ==
    \A s \in Slots : filter[s] # 0 /\ filter'[s] = 0 =>
        rec.phase = "detaching" \/ rec.act[s] = 0 \/ rec.des[s] = 0

\* Every interrupted transaction ends once the faults stop, outside those windows.
Settles == calm ~> (rec.phase \in {"none", "active"} /\ At("idle")) \/ Wedged
=============================================================================

-------------------------- MODULE OwnerTransaction --------------------------
(***************************************************************************)
(* The exact-TCX apply and detach transactions of the plain dataplane      *)
(* loader (internal/dataplane): the owner record that journals them, the   *)
(* bpffs directory of pinned maps, program stages and link pins, the TCX   *)
(* links in the kernel, and the recovery that every Apply and Detach runs  *)
(* first.                                                                  *)
(*                                                                         *)
(* One step is one durable effect: a record persisted, a link attached,    *)
(* pinned, updated or dropped, a file pinned, renamed or unlinked, the     *)
(* control word written.  The checks between two effects are the guards of *)
(* the second.  The process may be killed, its context cancelled or a call *)
(* fail between any two steps; a link without pin dies with its last file  *)
(* descriptor.  The loops of converge and rollback look at a slot from the *)
(* top again after each effect, which is what a restarted loop does.       *)
(***************************************************************************)
EXTENDS Naturals, FiniteSets, FiniteSetsExt

CONSTANTS
    NSlots,    \* slots (interface and direction) links attach to
    Maps,      \* the pinned maps; "control_map" and "owner_map" among them
    MaxLink,   \* link IDs in use at once
    MaxGen,    \* generations between two detaches
    MayLose    \* may a network device vanish and come back

TransactionAssumption ==
    /\ NSlots \in Nat \ {0} /\ MaxLink \in Nat \ {0} /\ MaxGen \in Nat \ {0}
    /\ {"control_map", "owner_map"} \subseteq Maps /\ MayLose \in BOOLEAN

Slots == 1 .. NSlots
Links == 1 .. MaxLink
Progs == 1 .. 5             \* program IDs in use at once, one per load
Gens == 0 .. MaxGen

VARIABLES
    rec,       \* the owner record, or NoRecord
    dir,       \* does the pin directory exist
    files,     \* its entries other than link pins: <<kind, name>>
    pin,       \* slot -> the link pinned under its name, 0 for none
    link,      \* link ID -> the kernel's link
    gen,       \* active generation in the pinned control map
    data,      \* generation -> its entries in the pinned data maps
    bank,      \* the two XOR tail-call banks: the load whose programs they hold
    dev,       \* slots whose device exists
    job,       \* the call under way: what for, where, the slot its loop is at,
               \* and whether it holds the detached link it has just journaled
    fd,        \* the link this call has attached and not yet pinned, 0 for none
    retained,  \* unpinned links whose descriptor could not be closed
    calm       \* no more faults from here on

disk == <<rec, dir, files>>
kernel == <<pin, link, gen, data, bank>>
vars == <<disk, kernel, dev, job, fd, retained, calm>>

\* exactTCXBinding; prog = 0 stands for a slot the list does not have.
NoBinding == [link |-> 0, prog |-> 0, repl |-> 0, pend |-> FALSE, ret |-> FALSE]
NoBindings == [s \in Slots |-> NoBinding]
Bound(b) == b.prog # 0
NoRecord == [phase |-> "none", step |-> "none", agen |-> 0, ngen |-> 0,
             act |-> NoBindings, des |-> NoBindings]

NoLink == [up |-> FALSE, prog |-> 0, slot |-> 0]
Idle == [op |-> "none", pc |-> "idle", target |-> {}, i |-> 1, held |-> FALSE]

Init ==
    /\ rec = NoRecord /\ dir = FALSE /\ files = {}
    /\ pin = [s \in Slots |-> 0] /\ link = [l \in Links |-> NoLink]
    /\ gen = 0 /\ data = [g \in Gens |-> "none"] /\ bank = [p \in {0, 1} |-> 0]
    /\ dev = Slots
    /\ job = Idle /\ fd = 0 /\ retained = {} /\ calm = FALSE

At(label) == job.pc = label
Goto(label) == [job EXCEPT !.pc = label, !.i = 1]
NextSlot == [job EXCEPT !.i = @ + 1]
In(phase, step) == rec.phase = phase /\ rec.step = step
Recovering(phase, step) == At("recover") /\ In(phase, step)

\* The loops over the slots.
Converging == job.pc \in {"converge", "forward"} /\ job.i \in Slots
RollingBack == Recovering("applying", "rolling_back")

\* What an error makes of the call: a converge of Apply itself is aborted, which
\* is a recovery from the record as it is; every other call returns.
Failed == IF job.pc \in {"converge", "control"}
          THEN [job EXCEPT !.op = "abort", !.pc = "recover", !.i = 1, !.held = FALSE]
          ELSE Idle

-----------------------------------------------------------------------------
(* The record *)

\* pinOwnerStore.Persist: the new record is durable and the call goes on, or it
\* is durable and the call fails behind it.  A failure before it is CallFails.
Persist(r, next) ==
    /\ rec' = r
    /\ job' = next \/ (~calm /\ job' = Idle)

\* advancePinOwnerRecord; sequence numbers and identities are OwnerRecords'.
Advance(phase, step) == [rec EXCEPT !.phase = phase, !.step = step]

\* Mutant: the new generation is entered with the old links.
CompletedOld ==
    [phase |-> "active", step |-> "ready", agen |-> rec.ngen, ngen |-> 0,
     act |-> rec.act, des |-> NoBindings]

\* completeApplyingPinOwnerRecord
Settled(b) == [b EXCEPT !.repl = 0, !.pend = FALSE, !.ret = FALSE]
Completed ==
    [phase |-> "active", step |-> "ready", agen |-> rec.ngen, ngen |-> 0,
     act |-> [s \in Slots |-> Settled(rec.des[s])], des |-> NoBindings]

\* abortApplyingPinOwnerRecord, after clearing the replacement markers
Aborted ==
    [phase |-> "active", step |-> "ready", agen |-> rec.agen, ngen |-> 0,
     act |-> [s \in Slots |-> [rec.act[s] EXCEPT !.repl = 0]], des |-> NoBindings]

\* newDetachingPinOwnerRecord, newInitialAbortDetachingPinOwnerRecord
Detaching == [Advance("detaching", "staging") EXCEPT !.ngen = 0, !.des = NoBindings]

\* Where a call goes on once the record is active, and what is left to do.
OnActive ==
    CASE job.op = "apply" -> Goto("journal")
      [] job.op = "detach" -> Goto("detach")
      [] job.op = "commit" -> Goto("trim")
      [] OTHER -> Idle

\* A rolled back or aborted transaction: the old generation goes on, and a first
\* generation is torn down.
BackToOld ==
    IF rec.agen = 0 THEN Persist(Detaching, Goto("recover"))
    ELSE Persist(Aborted, IF rec.step = "staging" THEN Goto("recover") ELSE OnActive)

-----------------------------------------------------------------------------
(* validatePinOwnerRecord, which every record passes when it is written and when *)
(* it is read back *)

Bindings(bs) == {bs[s] : s \in {t \in Slots : Bound(bs[t])}}
Backwards(r) == r.phase = "applying" /\ r.step \in {"rolling_back", "rollback_cleanup"}

\* validateOwnerLinks, for both lists.
ValidMarks(b) ==
    /\ b.pend \/ b.ret => b.link # 0
    /\ ~(b.pend /\ b.ret)
DistinctLinks(bs) == \A s, t \in Slots : bs[s].link # 0 /\ bs[s].link = bs[t].link => s = t
ValidActive(r) == \A b \in Bindings(r.act) :
    IF Backwards(r)
    THEN ~b.ret /\ (IF b.repl = 0 THEN b.link # 0 /\ ~b.pend ELSE b.link # b.repl)
    ELSE b.link # 0 /\ b.repl = 0 /\ ~b.pend /\ (b.ret => r.step = "retiring")

\* validateOwnerLinkTransition
Transition(r) == \A s \in Slots : LET a == r.act[s]  d == r.des[s] IN Bound(d) =>
    /\ Bound(a) => IF d.repl = 0 THEN d.link = a.link /\ ~d.pend
                   ELSE d.repl = a.link /\ d.link # a.link
    /\ ~Bound(a) => d.repl = 0
    /\ ~Bound(a) \/ d.repl # 0 => \A t \in Slots : d.link # 0 => d.link # r.act[t].link

\* validateRollingBackOwnerLinks
Reversal(r) == \A s \in Slots : LET a == r.act[s]  d == r.des[s] IN
    /\ Bound(a) /\ Bound(d) /\ a.repl = 0 =>
         IF d.repl = 0 THEN d.link = a.link ELSE d.repl = a.link /\ d.link # a.link
    /\ Bound(a) /\ Bound(d) /\ a.repl # 0 =>
         /\ a.link # 0 => d.link # a.link
         /\ \/ d.repl = a.repl /\ d.link # a.repl
            \/ d.repl = 0 /\ d.link = a.repl
    /\ ~Bound(a) => d.repl = 0
    /\ \A t \in Slots \ {s} :
         {a.link, a.repl, d.link} \cap {r.act[t].link, r.act[t].repl, r.des[t].link} \subseteq {0}

Valid(r) ==
    /\ \A b \in Bindings(r.act) \cup Bindings(r.des) : ValidMarks(b)
    /\ DistinctLinks(r.act) /\ DistinctLinks(r.des) /\ ValidActive(r)
    /\ IF Backwards(r) THEN Reversal(r) ELSE Transition(r)
    /\ CASE r.phase = "active" ->
              /\ r.agen # 0 /\ r.ngen = 0 /\ Bindings(r.des) = {}
              /\ r.step = "ready" \/ (r.step = "retiring" /\ \E b \in Bindings(r.act) : b.ret)
         [] r.phase = "applying" ->
              /\ r.ngen # 0 /\ (r.agen = 0 => Bindings(r.act) = {})
              /\ r.step = "cleanup" =>
                   \A b \in Bindings(r.des) : b.link # 0 /\ ~b.pend /\ ~b.ret
         [] r.phase = "detaching" ->
              r.ngen = 0 /\ Bindings(r.des) = {} /\ (r.agen = 0 => Bindings(r.act) = {})
         [] OTHER -> FALSE

-----------------------------------------------------------------------------
(* Links *)

Up(l) == l # 0 /\ link[l].up

\* observePinnedExactTCXAttachment: what is pinned under the slot's name, held
\* against the journaled link b and the programs it may run.
Observed(s, b, allowed) ==
    LET l == pin[s] IN
    CASE l = 0 -> "none"
      [] l # 0 /\ ((l # b.link /\ b.link # 0) \/ link[l].prog \notin allowed) -> "foreign"
      [] l # 0 /\ link[l].up -> "up"
      [] OTHER -> IF b.link = 0 THEN "foreign" ELSE "down"

\* exactTCXAttachment.Rollback: unpin, and close the last descriptor.
Unpin(s) == pin' = [pin EXCEPT ![s] = 0] /\ link' = [link EXCEPT ![pin[s]] = NoLink]

\* removeOwnedExactTCXLink: it can be removed, or it is gone already.
Removable(s, b) == Observed(s, b, {b.prog}) \in {"up", "down"}
Removed(s, b) == pin[s] = 0 /\ ~Up(b.link)

\* validateOwnerExactTCXLinks, validateRollbackActiveExactTCXLinks
Attached(bs) == \A s \in Slots : Bound(bs[s]) =>
    bs[s].link # 0 /\ ~bs[s].pend /\ Observed(s, bs[s], {bs[s].prog}) = "up"

\* validateJournaledAttachedOrDetachedExactTCXLinks
Journaled(bs) == \A s \in Slots : Bound(bs[s]) =>
    Observed(s, bs[s], {bs[s].prog}) \in {"up", "down"}

Have(kind) == {m \in Maps : <<kind, m>> \in files}

\* The loops over maps and stages go in the order of the record.
First(S) == CHOOSE x \in S : TRUE

Programs(bs) == {bs[s].prog : s \in Slots} \ {0}
StagePrograms == Programs(rec.act) \cup Programs(rec.des)
Staged(p) == <<"stage", p>> \in files

Used == UNION {{b.link, b.repl} : b \in {rec.act[s] : s \in Slots} \cup {rec.des[s] : s \in Slots}}
        \cup {pin[s] : s \in Slots} \cup {fd} \cup {l \in Links : link[l] # NoLink}
FreshLinks == Links \ Used
FreshPrograms == Progs \ (StagePrograms \cup {link[l].prog : l \in Links}
                          \cup {p \in Progs : Staged(p)})
FreshLink == First(FreshLinks)
FreshProgram == First(FreshPrograms)

-----------------------------------------------------------------------------
(* Apply *)

\* Apply takes the pin-path lock, so calls exclude each other.  The interfaces
\* were just queried; the directory is made if need be.
StartApply(target) ==
    /\ At("idle") /\ target # {} /\ target \subseteq dev
    /\ dir' = TRUE
    /\ job' = [op |-> "apply", pc |-> IF rec = NoRecord THEN "journal" ELSE "recover",
               target |-> target, i |-> 1, held |-> FALSE]
    /\ UNCHANGED <<rec, files, kernel, dev, fd, retained, calm>>

\* bindDesiredExactTCXLinks: a kept slot keeps its link, under the new program.
Desired(target, p) ==
    [s \in Slots |-> IF s \notin target THEN NoBinding
                     ELSE [NoBinding EXCEPT !.prog = p,
                                            !.link = rec.act[s].link]]

\* newApplyingPinOwnerRecord.  Without an owner record the maps are new.
Journal ==
    /\ At("journal") /\ rec.agen < MaxGen /\ (rec = NoRecord => files = {})
    /\ FreshPrograms # {}
    /\ Persist([phase |-> "applying", step |-> "staging", agen |-> rec.agen, ngen |-> rec.agen + 1,
                act |-> rec.act, des |-> Desired(job.target, FreshProgram)],
               Goto(IF rec = NoRecord THEN "maps" ELSE "data"))
    /\ IF rec = NoRecord
       THEN gen' = 0 /\ data' = [g \in Gens |-> "none"] /\ bank' = [p \in {0, 1} |-> 0]
       ELSE UNCHANGED <<gen, data, bank>>
    /\ UNCHANGED <<dir, files, pin, link, dev, fd, retained, calm>>

\* The bound on generations: the next call can only be a detach.
JournalBound ==
    /\ At("journal") /\ rec.agen = MaxGen
    /\ job' = Idle
    /\ UNCHANGED <<disk, kernel, dev, fd, retained, calm>>

\* The first record could not be written: an empty directory is removed again.
JournalFails ==
    /\ At("journal") /\ rec = NoRecord /\ ~calm
    /\ job' = Idle /\ dir' \in {FALSE, TRUE}
    /\ UNCHANGED <<rec, files, kernel, dev, fd, retained, calm>>

\* pinFreshCollectionMaps
PinMap(m) ==
    /\ At("maps") /\ Have("map") # Maps /\ m = First(Maps \ Have("map"))
    /\ files' = files \cup {<<"map", m>>}
    /\ job' = IF \A n \in Maps \ {m} : <<"map", n>> \in files THEN Goto("data") ELSE job
    /\ UNCHANGED <<rec, dir, kernel, dev, fd, retained, calm>>

\* Mutant: what an earlier attempt left of the generation stays.
ClearNothing ==
    /\ At("data")
    /\ job' = Goto("fill")
    /\ UNCHANGED <<disk, kernel, dev, fd, retained, calm>>

\* deleteGenerationMapEntries
ClearGeneration ==
    /\ At("data")
    /\ data' = [data EXCEPT ![rec.ngen] = "none"]
    /\ job' = Goto("fill")
    /\ UNCHANGED <<disk, pin, link, gen, bank, dev, fd, retained, calm>>

\* populateDataMaps, first and last entry; on an error it deletes what it wrote.
Fill ==
    /\ At("fill")
    /\ \/ /\ data' = [data EXCEPT ![rec.ngen] = IF @ = "none" THEN "partial" ELSE "mixed"]
          /\ job' = Goto("filled")
       \/ ~calm /\ data' = [data EXCEPT ![rec.ngen] = "none"] /\ job' = Idle
    /\ UNCHANGED <<disk, pin, link, gen, bank, dev, fd, retained, calm>>

Filled ==
    /\ At("filled")
    /\ data' = [data EXCEPT ![rec.ngen] = IF @ = "partial" THEN "full" ELSE @]
    /\ job' = Goto("bank")
    /\ UNCHANGED <<disk, pin, link, gen, bank, dev, fd, retained, calm>>

\* Mutant: both banks at once.
BankBoth(g) == {0, 1}

\* xorTailCallBankStart: the bank of the parity of the generation.
Bank(g) == {g % 2}

\* populateXORTailCalls
FillBank ==
    /\ At("bank")
    /\ bank' = [p \in {0, 1} |-> IF p \in Bank(rec.ngen)
                                 THEN Max(Programs(rec.des) \cup {0}) ELSE bank[p]]
    /\ job' = Goto("stage")
    /\ UNCHANGED <<disk, pin, link, gen, data, dev, fd, retained, calm>>

\* Mutant: intent to mutate is journaled with only the new program staged.
StagedEnough == \A p \in Programs(rec.des) : Staged(p)

StagedAll == \A p \in StagePrograms : Staged(p)

\* stageOwnerPrograms
StageProgram(p) ==
    /\ At("stage") /\ ~StagedAll /\ p = First({q \in StagePrograms : ~Staged(q)})
    /\ files' = files \cup {<<"stage", p>>}
    /\ UNCHANGED <<rec, dir, kernel, dev, job, fd, retained, calm>>

BeginMutating ==
    /\ At("stage") /\ StagedAll
    /\ Persist(Advance("applying", "mutating"), Goto("converge"))
    /\ UNCHANGED <<dir, files, kernel, dev, fd, retained, calm>>

\* commitControl: the generation is published.
CommitControl ==
    /\ At("control")
    /\ gen' = rec.ngen
    /\ job' = [Goto("cleanup") EXCEPT !.op = "commit"]
    /\ UNCHANGED <<disk, pin, link, data, bank, dev, fd, retained, calm>>

BeginCleanup ==
    /\ At("cleanup")
    /\ Persist(Advance("applying", "cleanup"), Goto("recover"))
    /\ UNCHANGED <<dir, files, kernel, dev, fd, retained, calm>>

\* deleteStaleMapEntries
Trim ==
    /\ At("trim")
    /\ data' = [g \in Gens |-> IF g = gen THEN data[g] ELSE "none"]
    /\ job' = Idle
    /\ UNCHANGED <<disk, pin, link, gen, bank, dev, fd, retained, calm>>

-----------------------------------------------------------------------------
(* stageExactTCXAttachment, for the slot the loop is at *)

\* The list the new link is journaled in, and the slot's binding in it.
Slot == job.i
List == IF RollingBack THEN "act" ELSE "des"
Binding == rec[List][Slot]
SetBinding(b) == [rec EXCEPT ![List][Slot] = b]

\* What is journaled of a link: its identity, the link it replaces, its retirement.
Identified(b, l, pending) == [b EXCEPT !.link = l, !.pend = pending]
Replacing(b, old) == [b EXCEPT !.repl = old, !.link = 0]
Retiring(b) == [b EXCEPT !.ret = TRUE]

RetainedAt(s) == {r \in retained : link[r[1]].slot = s}

\* retryRetainedUnpinnedExactTCXOwner: close what an earlier failure left open; a
\* link whose ID was never read cannot be proved gone, so it blocks the slot.
RetryRetained(s) ==
    /\ RetainedAt(s) # {}
    /\ \E closed \in SUBSET {r \in RetainedAt(s) : r[2]} :
         /\ calm => closed = {r \in RetainedAt(s) : r[2]}
         /\ retained' = retained \ closed
         /\ link' = [l \in Links |-> IF <<l, TRUE>> \in closed THEN NoLink ELSE link[l]]
         /\ job' = IF closed = RetainedAt(s) THEN job ELSE Failed
    /\ UNCHANGED <<disk, pin, gen, data, bank, dev, fd, calm>>

\* The attach itself.  When the link's identity cannot be read afterwards the
\* descriptor is kept, because nothing could prove the link gone.
Attach(s, p) ==
    /\ fd = 0 /\ s \in dev /\ FreshLinks # {}
    /\ link' = [link EXCEPT ![FreshLink] = [up |-> TRUE, prog |-> p, slot |-> s]]
    /\ \/ fd' = FreshLink /\ UNCHANGED <<job, retained>>
       \/ ~calm /\ retained' = retained \cup {<<FreshLink, FALSE>>} /\ job' = Failed /\ UNCHANGED fd
    /\ UNCHANGED <<disk, pin, gen, data, bank, dev, calm>>

\* closeUnpinnedAfterFailure: closed and proved gone, or kept for a retry.
CloseUnpinned ==
    /\ fd' = 0
    /\ IF fd = 0 THEN UNCHANGED <<link, retained>>
       ELSE \/ link' = [link EXCEPT ![fd] = NoLink] /\ UNCHANGED retained
            \/ retained' = retained \cup {<<fd, TRUE>>} /\ UNCHANGED link

\* Mutant: the link is pinned before its ID is journaled.
PinFirst ==
    /\ fd # 0 /\ Binding.link # fd
    /\ pin' = [pin EXCEPT ![Slot] = fd] /\ fd' = 0
    /\ UNCHANGED <<disk, link, gen, data, bank, dev, job, retained, calm>>

\* The link's ID is journaled before the pin exists.
PersistIdentity ==
    /\ fd # 0 /\ Binding.link # fd
    /\ rec' = SetBinding(Identified(Binding, fd, TRUE))
    /\ \/ UNCHANGED <<job, fd, link, retained>>
       \/ ~calm /\ CloseUnpinned /\ job' = Idle
    /\ UNCHANGED <<dir, files, pin, gen, data, bank, dev, calm>>

PinLink ==
    /\ fd # 0 /\ Binding.link = fd
    /\ pin' = [pin EXCEPT ![Slot] = fd] /\ fd' = 0
    /\ UNCHANGED <<disk, link, gen, data, bank, dev, job, retained, calm>>

\* The pin is there: the journaled identity is complete, and the loop goes on.
IdentityComplete ==
    IF Binding.pend \/ Binding.link # pin[Slot]
    THEN Persist(SetBinding(Identified(Binding, pin[Slot], FALSE)), NextSlot)
    ELSE job' = NextSlot /\ UNCHANGED rec

\* Mutant: the old link is detached, and left to a later converge to replace.
UpdateDetaching(s, old, new) ==
    /\ Staged(old) /\ Staged(new) /\ link[pin[s]].prog = old
    /\ link' = [link EXCEPT ![pin[s]].up = FALSE]
    /\ job' = job

\* CompareUpdateWithOld: the link changes its program in place.
CompareUpdate(s, old, new) ==
    /\ Staged(old) /\ Staged(new) /\ link[pin[s]].prog = old
    /\ link' = [link EXCEPT ![pin[s]].prog = new]
    /\ job' = NextSlot

StageAttachment ==
    /\ Converging \/ (RollingBack /\ job.i \in Slots)
    /\ PersistIdentity \/ PinLink

-----------------------------------------------------------------------------
(* convergeOwnerApplyExactTCXLinks: the slots of the new generation in turn.  A *)
(* check that cannot fail is a guard: a state that failed it would be a deadlock. *)

Quiet == UNCHANGED <<dir, files, gen, data, bank, dev, fd, retained, calm>>

ConvergeSkip ==
    /\ Converging /\ ~Bound(rec.des[Slot])
    /\ job' = NextSlot
    /\ UNCHANGED <<disk, kernel, dev, fd, retained, calm>>

\* The slot's old link is detached and journaled as replaced.
Replaced(s) == Bound(rec.act[s]) /\ rec.des[s].repl # 0
OldRetired(s) == Replaced(s) =>
    IF rec.des[s].link = 0 THEN Removed(s, rec.act[s]) ELSE ~Up(rec.act[s].link)

\* The slot is ready for the checks behind the retirement of its old link.
ConvergeAt(s) == Converging /\ fd = 0 /\ s = Slot /\ Bound(rec.des[s]) /\ OldRetired(s)

\* The call that journaled the replacement still holds the link it observed under
\* either program; a later call insists on the old one.
ConvergeRetireOld ==
    /\ Converging /\ fd = 0 /\ Bound(rec.des[Slot]) /\ ~OldRetired(Slot)
    /\ IF job.held \/ Removable(Slot, rec.act[Slot])
       THEN Unpin(Slot) /\ job' = [job EXCEPT !.held = FALSE]
       ELSE job' = Failed /\ UNCHANGED <<pin, link>>
    /\ UNCHANGED rec /\ Quiet

ConvergeRetry(s) == ConvergeAt(s) /\ RetryRetained(s)

\* ownerRecordWithoutDesiredLinkIdentity
Cleared(b) == [b EXCEPT !.link = 0, !.pend = FALSE, !.ret = FALSE]

ConvergeRetiring(s) ==
    /\ ConvergeAt(s) /\ RetainedAt(s) = {} /\ rec.des[s].ret
    /\ IF Removed(s, rec.des[s])
       THEN Persist(SetBinding(Cleared(rec.des[s])), job) /\ UNCHANGED <<pin, link>>
       ELSE Removable(s, rec.des[s]) /\ Unpin(s) /\ UNCHANGED <<rec, job>>
    /\ Quiet

\* A kept slot: its link is updated in place, unless its device went and came
\* back, which leaves a detached link to replace.
ConvergeReplace(s) ==
    LET a == rec.act[s]  d == rec.des[s]
        seen == Observed(s, a, {a.prog, d.prog})
    IN  /\ ConvergeAt(s) /\ RetainedAt(s) = {} /\ ~d.ret
        /\ Bound(a) /\ d.repl = 0
        /\ \/ /\ seen = "down"
              /\ Persist(SetBinding(Replacing(d, a.link)), [job EXCEPT !.held = TRUE])
              /\ UNCHANGED <<pin, link>>
           \/ /\ seen = "up" /\ link[pin[s]].prog = d.prog
              /\ job' = NextSlot /\ UNCHANGED <<rec, pin, link>>
           \/ /\ seen = "up" /\ CompareUpdate(s, a.prog, d.prog)
              /\ UNCHANGED <<rec, pin>>
        /\ Quiet

\* A new slot, or one whose old link was retired.
ConvergeNew(s) ==
    LET d == rec.des[s]
        seen == Observed(s, d, {d.prog})
    IN  /\ ConvergeAt(s) /\ RetainedAt(s) = {} /\ ~d.ret
        /\ Bound(rec.act[s]) => d.repl # 0
        /\ \/ seen = "up" /\ IdentityComplete /\ UNCHANGED <<pin, link>> /\ Quiet
           \/ /\ seen = "down"
              /\ IF d.pend THEN job' = Failed /\ UNCHANGED rec
                 ELSE Persist(SetBinding(Retiring(d)), job)
              /\ UNCHANGED <<pin, link>> /\ Quiet
           \/ /\ seen = "none" /\ d.link # 0 /\ ~Up(d.link)
              /\ Persist(SetBinding(Cleared(d)), job)
              /\ UNCHANGED <<pin, link>> /\ Quiet
           \/ seen = "none" /\ d.link = 0 /\ Staged(d.prog) /\ Attach(s, d.prog)
           \/ /\ seen = "none" /\ d.link = 0 /\ s \notin dev
              /\ job' = Failed /\ UNCHANGED <<rec, pin, link>> /\ Quiet

Converged ==
    /\ job.pc \in {"converge", "forward"} /\ job.i > NSlots
    /\ job' = IF ~Attached(rec.des) THEN Failed
              ELSE Goto(IF At("converge") THEN "control" ELSE "cleanup")
    /\ UNCHANGED <<disk, kernel, dev, fd, retained, calm>>

Converge ==
    \/ ConvergeSkip \/ ConvergeRetireOld \/ Converged
    \/ \E s \in Slots : ConvergeRetry(s) \/ ConvergeRetiring(s) \/ ConvergeReplace(s) \/ ConvergeNew(s)

-----------------------------------------------------------------------------
(* rollbackFailedExactOwnerApplyLinks *)

\* Links of the failed generation in slots the old one does not have go first.
TargetOnly(s) == ~Bound(rec.act[s]) /\ rec.des[s].link # 0
TargetsGone == \A s \in Slots : TargetOnly(s) => Removed(s, rec.des[s]) /\ RetainedAt(s) = {}

RollbackTarget(s) ==
    /\ RollingBack /\ fd = 0 /\ TargetOnly(s)
    /\ \/ RetryRetained(s)
       \/ /\ RetainedAt(s) = {} /\ Removable(s, rec.des[s]) /\ Unpin(s)
          /\ UNCHANGED <<rec, job>> /\ Quiet

RollbackAt(s) == RollingBack /\ fd = 0 /\ TargetsGone /\ s = Slot

RollbackSkip(s) ==
    /\ RollbackAt(s) /\ ~Bound(rec.act[s])
    /\ job' = NextSlot
    /\ UNCHANGED <<disk, kernel, dev, fd, retained, calm>>

RollbackRetry(s) == RollbackAt(s) /\ Bound(rec.act[s]) /\ RetryRetained(s)

\* The slot still has its old link, or the one the failed generation put there.
RollbackOld(s) ==
    LET a == rec.act[s]  d == rec.des[s]
        seen == Observed(s, a, {a.prog, d.prog})
        forward == d.link \notin {0, a.link}
    IN  /\ RollbackAt(s) /\ Bound(a) /\ RetainedAt(s) = {} /\ a.repl = 0
        /\ \/ /\ forward /\ ~Removed(s, d) /\ Removable(s, d) /\ Unpin(s)
              /\ UNCHANGED <<rec, job>>
           \/ /\ forward => Removed(s, d)
              /\ seen = "down" \/ (seen = "none" /\ ~Up(a.link))
              /\ Persist(SetBinding(Replacing(a, a.link)), job)
              /\ UNCHANGED <<pin, link>>
           \/ /\ ~forward /\ seen = "up" /\ link[pin[s]].prog = a.prog
              /\ job' = NextSlot /\ UNCHANGED <<rec, pin, link>>
           \/ /\ ~forward /\ seen = "up" /\ CompareUpdate(s, d.prog, a.prog)
              /\ UNCHANGED <<rec, pin>>
        /\ Quiet

\* The old link is gone for good: its detached pin is retired, and the old
\* program attached by a new link.
RollbackReplace(s) ==
    LET a == rec.act[s]  d == rec.des[s]
        old == [a EXCEPT !.link = a.repl]
    IN  /\ RollbackAt(s) /\ Bound(a) /\ RetainedAt(s) = {} /\ a.repl # 0 /\ a.link = 0
        /\ \/ /\ pin[s] # 0 /\ Observed(s, old, {a.prog, d.prog}) = "down"
              /\ Unpin(s) /\ UNCHANGED <<rec, job>> /\ Quiet
           \/ pin[s] = 0 /\ ~Up(a.repl) /\ Staged(a.prog) /\ Attach(s, a.prog)
           \/ /\ pin[s] = 0 /\ ~Up(a.repl) /\ s \notin dev
              /\ job' = Failed /\ UNCHANGED <<rec, pin, link>> /\ Quiet

\* That new link: complete, or lost again.
RollbackReplacement(s) ==
    LET a == rec.act[s]
        seen == Observed(s, a, {a.prog})
    IN  /\ RollbackAt(s) /\ Bound(a) /\ RetainedAt(s) = {} /\ a.repl # 0 /\ a.link # 0
        /\ ~Up(a.repl) /\ ~Up(rec.des[s].link)
        /\ \/ seen = "up" /\ IdentityComplete /\ UNCHANGED <<pin, link>>
           \/ seen = "down" /\ Unpin(s) /\ UNCHANGED <<rec, job>>
           \/ /\ seen = "none" /\ ~Up(a.link)
              /\ Persist(SetBinding(Cleared(a)), job) /\ UNCHANGED <<pin, link>>
        /\ Quiet

RolledBack ==
    /\ RollingBack /\ fd = 0 /\ TargetsGone /\ job.i > NSlots
    /\ IF Attached(rec.act) THEN Persist(Advance("applying", "rollback_cleanup"), Goto("recover"))
       ELSE job' = Failed /\ UNCHANGED rec
    /\ UNCHANGED <<dir, files, kernel, dev, fd, retained, calm>>

Rollback ==
    \/ RolledBack
    \/ \E s \in Slots : \/ RollbackTarget(s) \/ RollbackSkip(s) \/ RollbackRetry(s)
                        \/ RollbackOld(s) \/ RollbackReplace(s) \/ RollbackReplacement(s)

-----------------------------------------------------------------------------
(* recoverExactPinOwnerTransaction: what the record asks for *)

\* reconcileDetachedActiveExactTCXLinks: a link whose device is gone is marked,
\* its pin removed and its slot dropped.
ReconcileActive(s) ==
    LET a == rec.act[s]
        seen == Observed(s, a, {a.prog})
        rest == [rec.act EXCEPT ![s] = NoBinding]
    IN  /\ At("recover") /\ rec.phase = "active" /\ Bound(a)
        /\ \/ /\ ~a.ret /\ (seen = "down" \/ (seen = "none" /\ ~Up(a.link)))
              /\ Persist([rec EXCEPT !.step = "retiring", !.act[s] = Retiring(a)], job)
              /\ UNCHANGED <<pin, link>>
           \/ a.ret /\ Removable(s, a) /\ Unpin(s) /\ UNCHANGED <<rec, job>>
           \/ /\ a.ret /\ Removed(s, a)
              /\ Persist([rec EXCEPT !.act = rest,
                            !.step = IF \E t \in Slots : rest[t].ret THEN "retiring" ELSE "ready"], job)
              /\ UNCHANGED <<pin, link>>
        /\ Quiet

RecoverActive ==
    /\ Recovering("active", "ready") /\ Attached(rec.act) /\ gen = rec.agen
    /\ job' = OnActive
    /\ UNCHANGED <<disk, kernel, dev, fd, retained, calm>>

\* Mutant: an interrupted apply is rolled back whatever was published.
DecideBack ==
    /\ Recovering("applying", "mutating")
    /\ Persist(Advance("applying", "rolling_back"), Goto("recover"))
    /\ UNCHANGED <<dir, files, kernel, dev, fd, retained, calm>>

\* The control word decides: published goes forward, unpublished is rolled back.
Decide ==
    /\ Recovering("applying", "mutating") /\ gen \in {rec.agen, rec.ngen}
    /\ IF gen = rec.ngen THEN job' = Goto("forward") /\ UNCHANGED rec
       ELSE Persist(Advance("applying", "rolling_back"), Goto("recover"))
    /\ UNCHANGED <<dir, files, kernel, dev, fd, retained, calm>>

\* Mutant: an interrupted staging is left as it is.
MayUnstageMutated ==
    \/ In("applying", "rollback_cleanup") /\ Attached(rec.act) /\ gen = rec.agen
    \/ /\ In("applying", "cleanup") /\ Attached(rec.des) /\ gen = rec.ngen
       /\ \A s \in Slots : Bound(rec.act[s]) /\ ~Bound(rec.des[s]) => Removed(s, rec.act[s])

\* What has to hold before the stages are dropped.
MayUnstage ==
    \/ In("applying", "staging") /\ Journaled(rec.act) /\ gen = rec.agen
    \/ In("applying", "rollback_cleanup") /\ Attached(rec.act) /\ gen = rec.agen
    \/ /\ In("applying", "cleanup") /\ Attached(rec.des) /\ gen = rec.ngen
       /\ \A s \in Slots : Bound(rec.act[s]) /\ ~Bound(rec.des[s]) => Removed(s, rec.act[s])

\* removeStaleOwnerExactTCXLinks
RemoveStale(s) ==
    /\ Recovering("applying", "cleanup") /\ Attached(rec.des) /\ gen = rec.ngen
    /\ Bound(rec.act[s]) /\ ~Bound(rec.des[s]) /\ Removable(s, rec.act[s]) /\ Unpin(s)
    /\ UNCHANGED <<rec, job>> /\ Quiet

\* removeOwnerProgramStages: renamed to its retired name, then unlinked.
RemoveStage(p) ==
    /\ At("recover") /\ MayUnstage
    /\ \/ Staged(p) /\ (\A q \in Progs : <<"retired", q>> \notin files) /\ files' = (files \ {<<"stage", p>>}) \cup {<<"retired", p>>}
       \/ <<"retired", p>> \in files /\ files' = files \ {<<"retired", p>>}
    /\ UNCHANGED <<rec, dir, kernel, dev, job, fd, retained, calm>>

\* Mutant: the stages are taken for removed.
UnstagedAssumed == TRUE

\* removeOwnerProgramStages has returned.
Unstaged == \A p \in Progs : <<"stage", p>> \notin files /\ <<"retired", p>> \notin files

FinishApplying ==
    /\ At("recover") /\ rec.phase = "applying" /\ MayUnstage /\ Unstaged
    /\ IF rec.step = "cleanup" THEN Persist(Completed, OnActive) ELSE BackToOld
    /\ UNCHANGED <<dir, files, kernel, dev, fd, retained, calm>>

\* A device vanished behind the last check of its link: cleanup and rollback
\* cleanup insist on every link being attached, so the call fails.
RefuseDetached ==
    /\ \/ Recovering("applying", "cleanup") /\ ~Attached(rec.des)
       \/ Recovering("applying", "rollback_cleanup") /\ ~Attached(rec.act)
    /\ job' = Idle
    /\ UNCHANGED <<disk, kernel, dev, fd, retained, calm>>

-----------------------------------------------------------------------------
(* Detach *)

StartDetach ==
    /\ At("idle") /\ rec # NoRecord
    /\ job' = [op |-> "detach", pc |-> "recover", target |-> {}, i |-> 1, held |-> FALSE]
    /\ UNCHANGED <<disk, kernel, dev, fd, retained, calm>>

\* A directory without record and without entries is removed.
DetachEmpty ==
    /\ At("idle") /\ rec = NoRecord /\ dir /\ files = {}
    /\ dir' = FALSE
    /\ UNCHANGED <<rec, files, kernel, dev, job, fd, retained, calm>>

\* executeExactOwnerDetachTransaction
BeginDetach ==
    /\ At("detach")
    /\ Persist(Detaching, Goto("recover"))
    /\ UNCHANGED <<dir, files, kernel, dev, fd, retained, calm>>

\* stageOwnerMaps: a second pin of every map; of a first generation, of those
\* that were pinned.
StageMap(m) ==
    /\ Recovering("detaching", "staging") /\ Journaled(rec.act)
    /\ ~(Have("map") \subseteq Have("mapstage")) /\ m = First(Have("map") \ Have("mapstage"))
    /\ files' = files \cup {<<"mapstage", m>>}
    /\ UNCHANGED <<rec, dir, kernel, dev, job, fd, retained, calm>>

BeginDetachLinks ==
    /\ Recovering("detaching", "staging")
    /\ IF rec.agen = 0 THEN Have("map") \subseteq Have("mapstage") ELSE Have("mapstage") = Maps
    /\ Persist(Advance("detaching", "mutating_tc"), Goto("recover"))
    /\ UNCHANGED <<dir, files, kernel, dev, fd, retained, calm>>

\* loadOwnerMapStages
StagesLoaded == IF rec.agen = 0 THEN Have("map") \subseteq Have("mapstage")
                ELSE Have("mapstage") = Maps

\* removeAllOwnerExactTCXLinks
DetachLink(s) ==
    /\ Recovering("detaching", "mutating_tc") /\ StagesLoaded
    /\ Bound(rec.act[s]) /\ Removable(s, rec.act[s]) /\ Unpin(s)
    /\ UNCHANGED <<rec, job>> /\ Quiet

LinksGone == \A s \in Slots : Bound(rec.act[s]) => Removed(s, rec.act[s])

BeginUnlinkMaps ==
    /\ Recovering("detaching", "mutating_tc") /\ StagesLoaded /\ LinksGone
    /\ Persist(Advance("detaching", "unlinking_maps"), Goto("recover"))
    /\ UNCHANGED <<dir, files, kernel, dev, fd, retained, calm>>

\* removeCanonicalOwnerMaps: renamed, then unlinked.
UnlinkMap(m) ==
    /\ Recovering("detaching", "unlinking_maps") /\ LinksGone /\ StagesLoaded
    /\ \/ /\ Have("canonical-retired") = {} /\ Have("map") # {} /\ m = First(Have("map"))
          /\ files' = (files \ {<<"map", m>>}) \cup {<<"canonical-retired", m>>}
       \/ <<"canonical-retired", m>> \in files /\ files' = files \ {<<"canonical-retired", m>>}
    /\ UNCHANGED <<rec, dir, kernel, dev, job, fd, retained, calm>>

BeginCleanupStages ==
    /\ Recovering("detaching", "unlinking_maps") /\ LinksGone
    /\ Have("map") = {} /\ Have("canonical-retired") = {}
    /\ Persist(Advance("detaching", "cleanup_stages"), Goto("recover"))
    /\ UNCHANGED <<dir, files, kernel, dev, fd, retained, calm>>

\* Mutant: in the order of the names.
OwnerMapAnyOrder(m) == TRUE

\* The owner map, which proves whose the others are, is the last to go.
OwnerMapLast(m) ==
    m = "owner_map" => Have("mapstage") \cup Have("stage-retired") = {"owner_map"}

\* removeOwnerMapStages
UnlinkMapStage(m) ==
    /\ Recovering("detaching", "cleanup_stages") /\ LinksGone /\ OwnerMapLast(m)
    /\ \/ /\ <<"mapstage", m>> \in files
          /\ files' = (files \ {<<"mapstage", m>>}) \cup {<<"stage-retired", m>>}
       \/ <<"stage-retired", m>> \in files /\ files' = files \ {<<"stage-retired", m>>}
    /\ UNCHANGED <<rec, dir, kernel, dev, job, fd, retained, calm>>

\* Mutant: the record and the directory go with the stages still in it.
RemoveRecordEarly ==
    /\ Recovering("detaching", "cleanup_stages") /\ LinksGone
    /\ Persist(NoRecord, Goto("rmdir"))
    /\ UNCHANGED <<dir, files, kernel, dev, fd, retained, calm>>

\* The record goes before the empty directory.
RemoveRecord ==
    /\ Recovering("detaching", "cleanup_stages") /\ LinksGone /\ files = {}
    /\ Persist(NoRecord, Goto("rmdir"))
    /\ UNCHANGED <<dir, files, kernel, dev, fd, retained, calm>>

RemoveDirectory ==
    /\ At("rmdir")
    /\ dir' = FALSE /\ job' = Idle
    /\ UNCHANGED <<rec, files, kernel, dev, fd, retained, calm>>

-----------------------------------------------------------------------------
(* Faults *)

\* An error or a cancelled context before the next effect.
CallFails ==
    /\ ~calm /\ job # Idle
    /\ job' \in {Idle, Failed}
    /\ CloseUnpinned
    /\ UNCHANGED <<disk, pin, gen, data, bank, dev, calm>>

\* The process is killed; links that only it held die with it.
Crash ==
    /\ ~calm /\ (job # Idle \/ retained # {})
    /\ job' = Idle /\ fd' = 0 /\ retained' = {}
    /\ link' = [l \in Links |-> IF l = fd \/ \E r \in retained : r[1] = l THEN NoLink ELSE link[l]]
    /\ UNCHANGED <<disk, pin, gen, data, bank, dev, calm>>

\* A device goes: the kernel detaches its links, their pins stay.
DeviceGone(s) ==
    /\ MayLose /\ ~calm /\ s \in dev
    /\ dev' = dev \ {s}
    /\ link' = [l \in Links |-> IF link[l].slot = s THEN [link[l] EXCEPT !.up = FALSE] ELSE link[l]]
    /\ UNCHANGED <<disk, pin, gen, data, bank, job, fd, retained, calm>>

DeviceBack(s) ==
    /\ s \notin dev
    /\ dev' = dev \cup {s}
    /\ UNCHANGED <<disk, kernel, job, fd, retained, calm>>

BecomeCalm ==
    /\ ~calm /\ calm' = TRUE
    /\ UNCHANGED <<disk, kernel, dev, job, fd, retained>>

-----------------------------------------------------------------------------
Apply ==
    \/ Journal \/ JournalBound \/ JournalFails \/ \E m \in Maps : PinMap(m)
    \/ ClearGeneration \/ Fill \/ Filled \/ FillBank \/ \E p \in Progs : StageProgram(p)
    \/ BeginMutating \/ CommitControl \/ BeginCleanup \/ Trim

Recover ==
    \/ RecoverActive \/ Decide \/ FinishApplying \/ RefuseDetached
    \/ \E s \in Slots : ReconcileActive(s) \/ RemoveStale(s)
    \/ \E p \in Progs : RemoveStage(p)

Detach ==
    \/ BeginDetach \/ BeginDetachLinks \/ BeginUnlinkMaps \/ BeginCleanupStages
    \/ RemoveRecord \/ RemoveDirectory
    \/ \E m \in Maps : StageMap(m) \/ UnlinkMap(m) \/ UnlinkMapStage(m)
    \/ \E s \in Slots : DetachLink(s)

Work == Apply \/ Converge \/ StageAttachment \/ Rollback \/ Recover \/ Detach

Next ==
    \/ Work
    \/ StartDetach \/ DetachEmpty \/ \E target \in SUBSET Slots : StartApply(target)
    \/ CallFails \/ Crash \/ BecomeCalm
    \/ \E s \in Slots : DeviceGone(s) \/ DeviceBack(s)

Spec == Init /\ [][Next]_vars

\* A call runs on, and the daemon's reconcile loop keeps applying.
Fairness == WF_vars(Work) /\ WF_vars(StartApply(Slots))
FairSpec == Spec /\ Fairness

-----------------------------------------------------------------------------
(* The promise *)

Stage ==
    CASE rec.phase \in {"none", "active"} -> "idle"
      [] rec.phase = "detaching" -> "removing"
      [] rec.phase = "applying" /\ rec.step \in {"rolling_back", "rollback_cleanup"} -> "undoing"
      [] OTHER -> IF gen = rec.ngen THEN "published" ELSE "pending"

Commit == INSTANCE GenerationCommit
    WITH published <- IF rec = NoRecord THEN 0 ELSE gen, next <- rec.ngen, stage <- Stage,
         MayKeep <- FALSE

\* Apply and Detach with their recovery implement the commit of a generation: the
\* control word is the decision, and no crash or failure makes it twice.
CommitsOnce == Commit!Spec
CommitStep == [Commit!Next]_(Commit!vars)

BindingType == [link : 0 .. MaxLink, prog : Progs \cup {0}, repl : 0 .. MaxLink,
                pend : BOOLEAN, ret : BOOLEAN]

\* Every variable has its type.
TypeOK ==
    /\ rec.phase \in {"none", "active", "applying", "detaching"}
    /\ rec.agen \in Gens /\ rec.ngen \in Gens
    /\ rec.act \in [Slots -> BindingType] /\ rec.des \in [Slots -> BindingType]
    /\ dir \in BOOLEAN /\ (files # {} => dir)
    /\ pin \in [Slots -> 0 .. MaxLink]
    /\ link \in [Links -> [up : BOOLEAN, prog : Progs \cup {0}, slot : Slots \cup {0}]]
    /\ gen \in Gens /\ data \in [Gens -> {"none", "partial", "full", "mixed"}]
    /\ bank \in [{0, 1} -> Progs \cup {0}] /\ dev \subseteq Slots
    /\ job.i \in 1 .. NSlots + 1 /\ job.target \subseteq Slots
    /\ fd \in 0 .. MaxLink /\ retained \subseteq Links \X BOOLEAN /\ calm \in BOOLEAN

\* validateOwnerDirectoryEntries: the entries the record accounts for.
Accepted ==
    LET pinned == {s \in Slots : pin[s] # 0}
        bound(bs) == {s \in Slots : Bound(bs[s])}
        required(bs) == {s \in bound(bs) : bs[s].link # 0 /\ ~bs[s].pend /\ ~bs[s].ret}
        replaced == {s \in Slots : rec.des[s].repl # 0}
    IN  /\ \A f \in files :
             \/ f[1] = "map"
             \/ rec.phase = "applying" /\ f[1] \in {"stage", "retired"} /\ f[2] \in StagePrograms
             \/ rec.phase = "detaching" /\ f[1] \notin {"stage", "retired"}
        /\ pinned \subseteq bound(rec.act) \cup bound(rec.des)
        /\ rec.phase = "active" =>
             /\ {s \in bound(rec.act) : ~rec.act[s].ret} \subseteq pinned
             /\ Have("map") = Maps /\ files = {<<"map", m>> : m \in Maps}
             /\ rec.step = "ready" => pinned = bound(rec.act)
        /\ rec.phase = "applying" /\ (rec.agen # 0 \/ rec.step # "staging") => Have("map") = Maps
        /\ In("applying", "staging") => pinned = bound(rec.act)
        /\ In("applying", "mutating") =>
             bound(rec.act) \ replaced \subseteq pinned /\ required(rec.des) \subseteq pinned
        /\ In("applying", "cleanup") => bound(rec.des) \subseteq pinned
        /\ In("detaching", "staging") =>
             /\ bound(rec.act) \subseteq pinned
             /\ rec.agen # 0 => Have("map") \cup Have("mapstage") = Maps
        /\ In("detaching", "mutating_tc") /\ rec.agen # 0 => Have("mapstage") = Maps
        /\ In("detaching", "unlinking_maps") => pinned = {}
        /\ In("detaching", "cleanup_stages") => pinned = {} /\ Have("map") = {}

\* recoverExactPinOwnerTransaction, validatePinOwnerRecord: wherever a call stops,
\* the record on disk is valid, the directory is one that its recovery accepts, no
\* entry outlives the record, and no map the owner map that proves whose it is.
Recoverable ==
    IF rec = NoRecord THEN files = {} /\ \A s \in Slots : pin[s] = 0
    ELSE /\ Valid(rec) /\ Accepted
         /\ In("detaching", "cleanup_stages") /\ rec.agen # 0 /\ files # {} =>
               "owner_map" \in Have("mapstage") \cup Have("stage-retired")

\* stageExactTCXAttachment, rollback: a slot never has two of the project's links,
\* and an attached link is pinned and journaled, or this process still holds it.
OneLinkPerSlot ==
    /\ \A s \in Slots : Cardinality({l \in Links : link[l].up /\ link[l].slot = s}) <= 1
    /\ \A l \in Links : link[l].up =>
         \/ l = fd \/ \E r \in retained : r[1] = l
         \/ pin[link[l].slot] = l /\ l \in {rec.act[link[l].slot].link, rec.des[link[l].slot].link}

\* exactTCXProgramFromStages: what converge and rollback may have to attach is
\* staged for as long as they may run.
ProgramsStaged ==
    rec.step \in {"mutating", "rolling_back"} => \A p \in StagePrograms : Staged(p)

\* populateDataMaps, populateXORTailCalls, commitControl: the published generation
\* has all of its entries and nothing else, and its own tail calls.
PublishedIsWhole ==
    rec # NoRecord /\ gen # 0 =>
        /\ data[gen] = "full"
        /\ Programs(IF gen = rec.ngen THEN rec.des ELSE rec.act) \subseteq {bank[gen % 2]}

\* Applied means applied: in an active record the links run the programs of the
\* published generation.
ActiveIsAttached ==
    At("trim") => gen = rec.agen /\ \A s \in Slots : Bound(rec.act[s]) <=> s \in job.target

\* CompareUpdateWithOld, removeStale...: a slot whose device stays keeps a pinned
\* link, unless a failed apply is rolled back, the new generation has no such
\* slot, or everything is detached.
Covered(s) == Up(pin[s])
HitlessStep ==
    \A s \in dev \cap dev' : Covered(s) /\ ~Covered(s)' =>
        \/ In("applying", "rolling_back") \/ rec.phase = "detaching"
        \/ In("applying", "cleanup") /\ ~Bound(rec.des[s])
Hitless == [][HitlessStep]_vars

\* Every interrupted transaction is finished or undone once the faults stop, if
\* no descriptor is left whose link cannot be named.
Settles == calm /\ (\A r \in retained : r[2]) ~> rec.phase \in {"none", "active"} /\ At("idle")
=============================================================================

----------------------- MODULE OwnerTransactionProofs -----------------------
(***************************************************************************)
(* Proofs that Apply, Detach and their recovery commit every generation    *)
(* once and publish it whole, for any number of slots, maps and links.     *)
(***************************************************************************)
EXTENDS OwnerTransaction, TLAPS

Steps == {"none", "ready", "retiring", "staging", "mutating", "rolling_back", "rollback_cleanup",
          "cleanup", "mutating_tc", "unlinking_maps", "cleanup_stages"}
Labels == {"idle", "journal", "maps", "data", "fill", "filled", "bank", "stage", "converge",
           "control", "cleanup", "forward", "trim", "recover", "detach", "rmdir"}

RecordType == [phase : {"none", "active", "applying", "detaching"}, step : Steps,
               agen : Gens, ngen : Gens,
               act : [Slots -> BindingType], des : [Slots -> BindingType]]
JobType == [op : {"none", "apply", "abort", "commit", "detach"}, pc : Labels,
            target : SUBSET Slots, i : 1 .. NSlots + 1, held : BOOLEAN]

\* The types, of the record and of the call in full.
ShapeInv ==
    /\ rec \in RecordType /\ job \in JobType
    /\ pin \in [Slots -> 0 .. MaxLink] /\ fd \in 0 .. MaxLink
    /\ link \in [Links -> [up : BOOLEAN, prog : Progs \cup {0}, slot : Slots \cup {0}]]
    /\ retained \subseteq Links \X BOOLEAN
    /\ gen \in Gens /\ data \in [Gens -> {"none", "partial", "full", "mixed"}]
    /\ bank \in [{0, 1} -> Progs \cup {0}]
    /\ dev \subseteq Slots /\ dir \in BOOLEAN /\ calm \in BOOLEAN

\* What the phase and the step of the record say of the two generations it names
\* and of the one in the control map.
PhaseInv ==
    /\ rec.phase = "none" => rec = NoRecord
    /\ rec.phase = "active" =>
         /\ rec.step \in {"ready", "retiring"}
         /\ rec.agen # 0 /\ rec.ngen = 0 /\ gen = rec.agen
    /\ rec.phase = "applying" =>
         /\ rec.step \in {"staging", "mutating", "rolling_back", "rollback_cleanup", "cleanup"}
         /\ rec.ngen = rec.agen + 1
         /\ gen \in {rec.agen, rec.ngen}
         /\ rec.step \in {"staging", "rolling_back", "rollback_cleanup"} => gen = rec.agen
         /\ rec.step = "cleanup" => gen = rec.ngen
    /\ rec.phase = "detaching" =>
         /\ rec.step \in {"staging", "mutating_tc", "unlinking_maps", "cleanup_stages"}
         /\ rec.ngen = 0 /\ gen = rec.agen

\* Where a call can be for the record it has written.
CallInv ==
    /\ job.pc \in {"maps", "data", "fill", "filled", "bank", "stage"} => In("applying", "staging")
    /\ job.pc \in {"converge", "control"} => In("applying", "mutating") /\ gen = rec.agen
    /\ job.pc \in {"forward", "cleanup"} => In("applying", "mutating") /\ gen = rec.ngen
    /\ job.pc \in {"trim", "detach"} => rec.phase = "active"
    /\ job.pc = "journal" => rec.phase \in {"none", "active"} /\ dir
    /\ job.pc = "recover" => rec.phase # "none"
    /\ job.pc = "rmdir" => rec.phase = "none"

\* A record has its directory, and no entry outlives the record.
DirInv == IF rec.phase = "none" THEN files = {} ELSE dir

\* A list of bindings runs one program, that of the generation's tail-call bank.
InBank(bs, g) == \A s \in Slots : bs[s].prog \in {0, bank[g % 2]}
OneProgram(bs) == \E p \in Progs : \A s \in Slots : bs[s].prog \in {0, p}

\* The old generation stays whole, and how far the new one is.
WholeInv ==
    /\ rec.phase # "none" /\ rec.agen # 0 =>
         /\ InBank(rec.act, rec.agen)
         /\ gen = rec.agen => data[rec.agen] = "full"
    /\ rec.phase # "none" /\ rec.agen = 0 => \A s \in Slots : rec.act[s].prog = 0
    /\ rec.phase = "applying" => OneProgram(rec.des)
    /\ job.pc = "fill" => data[rec.ngen] = "none"
    /\ job.pc = "filled" => data[rec.ngen] = "partial"
    /\ job.pc \in {"bank", "stage"} \/ (rec.phase = "applying" /\ rec.step # "staging")
         => data[rec.ngen] = "full"
    /\ job.pc = "stage" \/ (rec.phase = "applying" /\ rec.step # "staging")
         => InBank(rec.des, rec.ngen)

LogicInv == PhaseInv /\ CallInv /\ DirInv /\ WholeInv
OwnerInv == ShapeInv /\ LogicInv

-----------------------------------------------------------------------------
(* The shapes of what the actions write *)

\* Advance changes the phase and the step and nothing else.
LEMMA AdvanceShape ==
    ASSUME ShapeInv, NEW p \in {"none", "active", "applying", "detaching"}, NEW s \in Steps
    PROVE  /\ Advance(p, s) \in RecordType
           /\ Advance(p, s).phase = p /\ Advance(p, s).step = s
           /\ Advance(p, s).agen = rec.agen /\ Advance(p, s).ngen = rec.ngen
           /\ Advance(p, s).act = rec.act /\ Advance(p, s).des = rec.des
<1>1. Advance(p, s) \in RecordType
  BY Zenon DEF ShapeInv, RecordType, Advance
<1>2. QED
  BY <1>1, Zenon DEF ShapeInv, RecordType, Advance

\* A list without bindings, and a binding that is none.
LEMMA NoBindingShape ==
    ASSUME TransactionAssumption
    PROVE  /\ NoBinding \in BindingType /\ NoBindings \in [Slots -> BindingType]
           /\ NoBinding.prog = 0 /\ \A s \in Slots : NoBindings[s].prog = 0
<1>1. NoBinding \in BindingType /\ NoBinding.prog = 0
  BY DEF TransactionAssumption, NoBinding, BindingType
<1>2. QED
  BY <1>1, Zenon DEF NoBindings

\* The record a detach starts from has its shape and drops the desired bindings.
LEMMA DetachingShape ==
    ASSUME TransactionAssumption, ShapeInv
    PROVE  /\ Detaching \in RecordType
           /\ Detaching.phase = "detaching" /\ Detaching.step = "staging"
           /\ Detaching.agen = rec.agen /\ Detaching.ngen = 0
           /\ Detaching.act = rec.act /\ Detaching.des = NoBindings
<1>1. Advance("detaching", "staging") \in RecordType
  BY AdvanceShape, Zenon DEF Steps
<1>2. 0 \in Gens
  BY DEF TransactionAssumption, Gens
<1>3. Detaching \in RecordType
  BY <1>1, <1>2, NoBindingShape, Zenon DEF Detaching, RecordType
<1>4. QED
  BY <1>3, Zenon DEF ShapeInv, RecordType, Advance, Detaching

\* SetBinding changes one binding of the list the loop works on.
LEMMA SetBindingShape ==
    ASSUME ShapeInv, NEW b \in BindingType, job.i \in Slots
    PROVE  /\ SetBinding(b) \in RecordType
           /\ SetBinding(b).phase = rec.phase /\ SetBinding(b).step = rec.step
           /\ SetBinding(b).agen = rec.agen /\ SetBinding(b).ngen = rec.ngen
           /\ SetBinding(b).act = IF RollingBack THEN [rec.act EXCEPT ![job.i] = b] ELSE rec.act
           /\ SetBinding(b).des = IF RollingBack THEN rec.des ELSE [rec.des EXCEPT ![job.i] = b]
<1>1. CASE RollingBack
  <2>1. List = "act"
    BY <1>1, Zenon DEF List
  <2>2. SetBinding(b) = [rec EXCEPT !["act"][job.i] = b]
    BY <2>1, Zenon DEF SetBinding, Slot
  <2>3. [rec.act EXCEPT ![job.i] = b] \in [Slots -> BindingType]
    BY Zenon DEF ShapeInv, RecordType
  <2>4. SetBinding(b) \in RecordType
    BY <2>2, <2>3, Zenon DEF ShapeInv, RecordType
  <2>5. QED
    BY <1>1, <2>2, <2>4, Zenon DEF ShapeInv, RecordType
<1>2. CASE ~RollingBack
  <2>1. List = "des"
    BY <1>2, Zenon DEF List
  <2>2. SetBinding(b) = [rec EXCEPT !["des"][job.i] = b]
    BY <2>1, Zenon DEF SetBinding, Slot
  <2>3. [rec.des EXCEPT ![job.i] = b] \in [Slots -> BindingType]
    BY Zenon DEF ShapeInv, RecordType
  <2>4. SetBinding(b) \in RecordType
    BY <2>2, <2>3, Zenon DEF ShapeInv, RecordType
  <2>5. QED
    BY <1>2, <2>2, <2>4, Zenon DEF ShapeInv, RecordType
<1>3. QED
  BY <1>1, <1>2, Zenon

\* Where a call goes on.
LEMMA JobShapes ==
    ASSUME TransactionAssumption, ShapeInv
    PROVE  /\ Idle \in JobType /\ Idle.pc = "idle"
           /\ Failed \in JobType
           /\ Failed.pc = IF job.pc \in {"converge", "control"} THEN "recover" ELSE "idle"
           /\ \A l \in Labels : Goto(l) \in JobType /\ Goto(l).pc = l
           /\ OnActive \in JobType /\ OnActive.pc \in {"idle", "journal", "detach", "trim"}
           /\ job.i \in Slots => NextSlot \in JobType /\ NextSlot.pc = job.pc
<1>1. 1 \in 1 .. NSlots + 1 /\ (job.i \in Slots => job.i + 1 \in 1 .. NSlots + 1)
  BY DEF TransactionAssumption, Slots
<1>2. Idle \in JobType /\ Idle.pc = "idle"
  BY <1>1, Zenon DEF Idle, JobType, Labels
<1>3. \A l \in Labels : Goto(l) \in JobType /\ Goto(l).pc = l
  BY <1>1, Zenon DEF ShapeInv, JobType, Goto
<1>4. Failed \in JobType /\ Failed.pc = IF job.pc \in {"converge", "control"} THEN "recover" ELSE "idle"
  BY <1>1, <1>2, ZenonT(30) DEF ShapeInv, JobType, Failed, Labels
<1>5. OnActive \in JobType /\ OnActive.pc \in {"idle", "journal", "detach", "trim"}
  BY <1>2, <1>3, Zenon DEF OnActive, Labels
<1>6. job.i \in Slots => NextSlot \in JobType /\ NextSlot.pc = job.pc
  BY <1>1, Zenon DEF ShapeInv, JobType, NextSlot
<1>7. QED
  BY <1>2, <1>3, <1>4, <1>5, <1>6, Zenon
-----------------------------------------------------------------------------
(* Kinds of steps *)

\* What packets are served under, by the phase of the record.
Published == IF rec.phase = "none" THEN 0 ELSE gen

\* The control word is what a reader of the record takes for published.
LEMMA PublishedIs ==
    ASSUME PhaseInv, PhaseInv'
    PROVE  /\ (IF rec = NoRecord THEN 0 ELSE gen) = Published
           /\ (IF rec' = NoRecord THEN 0 ELSE gen') = Published'
BY DEF PhaseInv, NoRecord, Published

\* A step that keeps phase, step and generations is no step of the commit.
LEMMA SameCommit ==
    ASSUME PhaseInv, PhaseInv', rec'.phase = rec.phase, rec'.ngen = rec.ngen, gen' = gen,
           rec'.step = rec.step \/ rec.phase \in {"active", "detaching"}
    PROVE  CommitStep
<1>1. Stage' = Stage
  BY Zenon DEF Stage
<1>2. Published' = Published
  BY Zenon DEF Published
<1>3. QED
  BY <1>1, <1>2, PublishedIs, Zenon DEF CommitStep, Commit!vars

\* The call moves on, or ends, and neither the record nor the maps change.
LEMMA CallMoves ==
    ASSUME OwnerInv, DirInv', CallInv', UNCHANGED <<rec, gen, data, bank>>,
           job'.pc = job.pc \/ job'.pc \notin {"fill", "filled", "bank", "stage"}
    PROVE  LogicInv' /\ CommitStep
<1> USE DEF OwnerInv, LogicInv
<1>1. PhaseInv'
  BY Zenon DEF PhaseInv
<1>2. WholeInv'
  BY Zenon DEF WholeInv, InBank
<1>3. CommitStep
  BY <1>1, SameCommit, Zenon
<1>4. QED
  BY <1>1, <1>2, <1>3, Zenon

\* The call stays where it is, or fails.
LEMMA CallStays ==
    ASSUME OwnerInv, DirInv', UNCHANGED <<rec, gen, data, bank>>, dir' = dir \/ dir',
           \/ job'.pc = job.pc
           \/ job'.pc = "idle"
           \/ job'.pc = "recover" /\ job.pc \in {"converge", "control", "recover"}
    PROVE  LogicInv' /\ CommitStep
<1>1. CallInv'
  BY Zenon DEF OwnerInv, LogicInv, CallInv, In
<1>2. QED
  BY <1>1, CallMoves, Zenon DEF OwnerInv, LogicInv

\* One binding changes, and not its program.
LEMMA BindingChanges ==
    ASSUME OwnerInv, UNCHANGED <<dir, files, gen, data, bank>>,
           Converging \/ (RollingBack /\ job.i \in Slots),
           NEW b \in BindingType, b.prog = Binding.prog, rec' = SetBinding(b),
           job'.pc \in {job.pc, "idle"}
    PROVE  LogicInv' /\ CommitStep /\ rec' \in RecordType
<1> USE DEF OwnerInv, LogicInv
<1>1. job.i \in Slots
  BY Zenon DEF Converging
<1>2. /\ rec' \in RecordType
      /\ rec'.phase = rec.phase /\ rec'.step = rec.step
      /\ rec'.agen = rec.agen /\ rec'.ngen = rec.ngen
      /\ rec'.act = IF RollingBack THEN [rec.act EXCEPT ![job.i] = b] ELSE rec.act
      /\ rec'.des = IF RollingBack THEN rec.des ELSE [rec.des EXCEPT ![job.i] = b]
  BY <1>1, SetBindingShape, Zenon
<1>3. \A s \in Slots : rec'.act[s].prog = rec.act[s].prog /\ rec'.des[s].prog = rec.des[s].prog
  <2>1. CASE RollingBack
    <3>1. b.prog = rec.act[job.i].prog
      BY <2>1, Zenon DEF Binding, List, Slot
    <3>2. QED
      BY <1>1, <1>2, <2>1, <3>1, Zenon DEF ShapeInv, RecordType
  <2>2. CASE ~RollingBack
    <3>1. b.prog = rec.des[job.i].prog
      BY <2>2, Zenon DEF Binding, List, Slot
    <3>2. QED
      BY <1>1, <1>2, <2>2, <3>1, Zenon DEF ShapeInv, RecordType
  <2>3. QED
    BY <2>1, <2>2, Zenon
<1>4. rec.phase = "applying"
  BY Zenon DEF Converging, RollingBack, Recovering, In, CallInv
<1>5. PhaseInv'
  BY <1>2, <1>4, Zenon DEF PhaseInv
<1>6. CallInv'
  BY <1>2, <1>4, Zenon DEF CallInv, In
<1>7. DirInv'
  BY <1>2, ZenonT(30) DEF DirInv
<1>8. WholeInv'
  BY <1>2, <1>3, <1>4 DEF WholeInv, InBank, OneProgram
<1>9. CommitStep
  BY <1>2, <1>5, SameCommit, Zenon
<1>10. QED
  BY <1>2, <1>5, <1>6, <1>7, <1>8, <1>9, Zenon
\* A step that changes no link and no map keeps their types.
LEMMA ShapeKept ==
    ASSUME ShapeInv, rec' \in RecordType, job' \in JobType, dir' \in BOOLEAN,
           UNCHANGED <<pin, link, fd, retained, gen, data, bank, dev, calm>>
    PROVE  ShapeInv'
BY Zenon DEF ShapeInv

-----------------------------------------------------------------------------
(* Apply *)

\* newApplyingPinOwnerRecord begins the next generation, whose slots all run the
\* program that was just loaded.
LEMMA JournalStep ==
    ASSUME TransactionAssumption, OwnerInv, Journal
    PROVE  OwnerInv' /\ CommitStep
<1> USE DEF OwnerInv, LogicInv
<1> DEFINE p == FreshProgram
<1>1. p \in Progs
  BY Zenon DEF Journal, FreshProgram, FreshPrograms, First
<1>2. rec.agen \in Gens /\ rec.agen + 1 \in Gens /\ 0 \in Gens
  BY DEF Journal, ShapeInv, RecordType, Gens, TransactionAssumption
<1>3. /\ Desired(job.target, p) \in [Slots -> BindingType]
      /\ \A s \in Slots : Desired(job.target, p)[s].prog \in {0, p}
  <2>1. ASSUME NEW s \in Slots
        PROVE  /\ Desired(job.target, p)[s] \in BindingType
               /\ Desired(job.target, p)[s].prog \in {0, p}
    <3>1. rec.act[s].link \in 0 .. MaxLink
      BY Zenon DEF ShapeInv, RecordType, BindingType
    <3>2. [NoBinding EXCEPT !.prog = p, !.link = rec.act[s].link] \in BindingType
      BY <1>1, <3>1, NoBindingShape, Zenon DEF BindingType
    <3>3. [NoBinding EXCEPT !.prog = p, !.link = rec.act[s].link].prog = p
      BY Zenon DEF NoBinding
    <3>4. QED
      BY <3>2, <3>3, NoBindingShape, Zenon DEF Desired
  <2>2. QED
    BY <2>1, Zenon DEF Desired
<1>4. /\ rec'.phase = "applying" /\ rec'.step = "staging"
      /\ rec'.agen = rec.agen /\ rec'.ngen = rec.agen + 1
      /\ rec'.act = rec.act /\ rec'.des = Desired(job.target, p)
      /\ rec' \in RecordType
  BY <1>2, <1>3, Zenon DEF Journal, Persist, ShapeInv, RecordType, Steps
<1>5. job' \in JobType /\ job'.pc \in {"maps", "data", "idle"}
  BY JobShapes, ZenonT(30) DEF Journal, Persist, Labels
<1>6. /\ gen' \in Gens /\ data' \in [Gens -> {"none", "partial", "full", "mixed"}]
      /\ bank' \in [{0, 1} -> Progs \cup {0}]
  <2>1. CASE rec = NoRecord
    BY <1>2, <2>1, Zenon DEF Journal
  <2>2. CASE rec # NoRecord
    BY <2>2, Zenon DEF Journal, ShapeInv
  <2>3. QED
    BY <2>1, <2>2, Zenon
<1>7. ShapeInv'
  BY <1>4, <1>5, <1>6, Zenon DEF Journal, ShapeInv
<1>8. rec.phase \in {"none", "active"} /\ dir
  BY Zenon DEF Journal, At, CallInv
<1>9. gen' = rec.agen /\ (rec.phase = "active" => UNCHANGED <<gen, data, bank>> /\ rec.agen # 0)
  <2>1. CASE rec.phase = "none"
    BY <2>1 DEF Journal, PhaseInv, NoRecord
  <2>2. CASE rec.phase = "active"
    BY <2>2 DEF Journal, PhaseInv, NoRecord
  <2>3. QED
    BY <1>8, <2>1, <2>2, Zenon
<1>10. PhaseInv'
  BY <1>4, <1>9, Zenon DEF PhaseInv
<1>11. CallInv'
  BY <1>4, <1>5, Zenon DEF CallInv, In
<1>12. DirInv'
  BY <1>4, <1>8, Zenon DEF Journal, DirInv
<1>13. WholeInv'
  <2>1. OneProgram(rec'.des)
    BY <1>1, <1>3, <1>4, Zenon DEF OneProgram
  <2>2. CASE rec.phase = "none"
    <3>1. rec.agen = 0 /\ rec.act = NoBindings
      BY <2>2 DEF PhaseInv, NoRecord
    <3>2. QED
      BY <1>4, <1>5, <2>1, <3>1, NoBindingShape, Zenon DEF WholeInv, OneProgram
  <2>3. CASE rec.phase = "active"
    BY <1>4, <1>5, <1>9, <2>1, <2>3, Zenon DEF WholeInv, InBank, OneProgram
  <2>4. QED
    BY <1>8, <2>2, <2>3, Zenon
<1>14. CommitStep
  <2>1. Stage = "idle" /\ Stage' = "pending"
    BY <1>2, <1>4, <1>8, <1>9 DEF Stage, Gens
  <2>2. Published = rec.agen /\ Published' = rec.agen
    BY <1>4, <1>8, <1>9 DEF Published, PhaseInv, NoRecord
  <2>3. QED
    BY <1>4, <1>10, <2>1, <2>2, PublishedIs, Zenon DEF CommitStep, Commit!Next, Commit!Begin
<1>15. QED
  BY <1>7, <1>10, <1>11, <1>12, <1>13, <1>14, Zenon
\* JournalBound, JournalFails and PinMap leave the record and its maps alone.
LEMMA JournalEndStep ==
    ASSUME TransactionAssumption, OwnerInv, JournalBound \/ JournalFails
    PROVE  OwnerInv' /\ CommitStep
<1> USE DEF OwnerInv, LogicInv
<1>1. job' = Idle /\ UNCHANGED <<rec, files, kernel, dev, fd, retained, calm>> /\ dir' \in BOOLEAN
  BY Zenon DEF JournalBound, JournalFails, ShapeInv, disk
<1>2. ShapeInv'
  BY <1>1, JobShapes, ShapeKept, Zenon DEF kernel, ShapeInv
<1>3. DirInv'
  <2>1. CASE JournalBound
    BY <2>1, Zenon DEF JournalBound, DirInv, disk
  <2>2. CASE JournalFails
    BY <1>1, <2>2, Zenon DEF JournalFails, DirInv, NoRecord
  <2>3. QED
    BY <2>1, <2>2, Zenon
<1>4. CallInv'
  BY <1>1, JobShapes, Zenon DEF CallInv
<1>5. QED
  BY <1>1, <1>2, <1>3, <1>4, JobShapes, CallMoves, Zenon DEF kernel

\* A map that is missing from the directory is pinned.
LEMMA PinMapStep ==
    ASSUME TransactionAssumption, OwnerInv, NEW m \in Maps, PinMap(m)
    PROVE  OwnerInv' /\ CommitStep
<1> USE DEF OwnerInv, LogicInv
<1>1. In("applying", "staging")
  BY Zenon DEF PinMap, At, CallInv
<1>2. job' \in JobType /\ job'.pc \in {"maps", "data"}
  BY JobShapes, Zenon DEF PinMap, At, ShapeInv, Labels
<1>3. ShapeInv'
  BY <1>2, ShapeKept, Zenon DEF PinMap, kernel, ShapeInv
<1>4. DirInv'
  BY <1>1, Zenon DEF PinMap, DirInv, In
<1>5. CallInv'
  BY <1>1, <1>2, Zenon DEF PinMap, kernel, CallInv, In
<1>6. QED
  BY <1>2, <1>3, <1>4, <1>5, CallMoves, Zenon DEF PinMap, kernel

\* A step of the staging that writes entries of the new generation only.
LEMMA StagingWrites ==
    ASSUME OwnerInv, job.pc \in {"data", "fill", "filled", "bank"},
           UNCHANGED <<rec, dir, files, gen>>,
           \A g \in Gens \ {rec.ngen} : data'[g] = data[g],
           \A q \in {0, 1} \ {rec.ngen % 2} : bank'[q] = bank[q],
           \/ job'.pc = "idle"
           \/ job'.pc = "fill" /\ data'[rec.ngen] = "none"
           \/ job'.pc = "filled" /\ data'[rec.ngen] = "partial"
           \/ job'.pc = "bank" /\ data'[rec.ngen] = "full"
           \/ job'.pc = "stage" /\ data'[rec.ngen] = "full" /\ InBank(rec.des, rec.ngen)'
    PROVE  LogicInv' /\ CommitStep
<1> USE DEF OwnerInv, LogicInv
<1>1. In("applying", "staging")
  BY Zenon DEF CallInv
<1>2. PhaseInv'
  BY Zenon DEF PhaseInv
<1>3. CallInv'
  BY <1>1, Zenon DEF CallInv, In
<1>4. DirInv'
  BY Zenon DEF DirInv
<1>5. gen = rec.agen /\ rec.ngen = rec.agen + 1 /\ rec.agen \in Gens /\ rec.ngen \in Gens
  BY <1>1, Zenon DEF PhaseInv, In, ShapeInv, RecordType
<1>6. rec.agen \in Nat /\ rec.ngen % 2 # rec.agen % 2 /\ rec.agen % 2 \in {0, 1}
  BY <1>5 DEF Gens
<1>7. rec.agen # 0 => data'[rec.agen] = data[rec.agen] /\ InBank(rec.act, rec.agen)'
  BY <1>5, <1>6, <1>1 DEF WholeInv, InBank, In
<1>8. WholeInv'
  BY <1>1, <1>5, <1>7, Zenon DEF WholeInv, In, OneProgram
<1>9. CommitStep
  BY <1>2, SameCommit, Zenon
<1>10. QED
  BY <1>2, <1>3, <1>4, <1>8, <1>9, Zenon

\* deleteGenerationMapEntries and populateDataMaps write the new generation, from
\* nothing to all of its entries.
LEMMA DataStep ==
    ASSUME TransactionAssumption, OwnerInv, ClearGeneration \/ Fill \/ Filled
    PROVE  OwnerInv' /\ CommitStep
<1> USE DEF OwnerInv, LogicInv
<1>1. In("applying", "staging") /\ job.pc \in {"data", "fill", "filled"}
  BY Zenon DEF ClearGeneration, Fill, Filled, At, CallInv
<1>2. rec.ngen \in Gens
  BY Zenon DEF ShapeInv, RecordType
<1>3. UNCHANGED <<disk, pin, link, gen, bank, dev, fd, retained, calm>>
  BY Zenon DEF ClearGeneration, Fill, Filled
<1>4. /\ job' \in JobType
      /\ data' \in [Gens -> {"none", "partial", "full", "mixed"}]
      /\ \A g \in Gens \ {rec.ngen} : data'[g] = data[g]
      /\ \/ job'.pc = "idle"
         \/ job'.pc = "fill" /\ data'[rec.ngen] = "none"
         \/ job'.pc = "filled" /\ data'[rec.ngen] = "partial"
         \/ job'.pc = "bank" /\ data'[rec.ngen] = "full"
  <2>1. CASE ClearGeneration
    BY <1>2, <2>1, JobShapes, Zenon DEF ClearGeneration, ShapeInv, Labels
  <2>2. CASE Fill
    <3>1. data[rec.ngen] = "none"
      BY <2>2, Zenon DEF Fill, At, WholeInv
    <3>2. QED
      BY <1>2, <2>2, <3>1, JobShapes DEF Fill, ShapeInv, Labels
  <2>3. CASE Filled
    <3>1. data[rec.ngen] = "partial"
      BY <2>3, Zenon DEF Filled, At, WholeInv
    <3>2. QED
      BY <1>2, <2>3, <3>1, JobShapes, Zenon DEF Filled, ShapeInv, Labels
  <2>4. QED
    BY <2>1, <2>2, <2>3, Zenon
<1>5. ShapeInv'
  BY <1>3, <1>4, Zenon DEF ShapeInv, disk
<1>6. QED
  BY <1>1, <1>3, <1>4, <1>5, StagingWrites, Zenon DEF disk
\* populateXORTailCalls puts the program of the new slots into the new bank.
LEMMA FillBankStep ==
    ASSUME TransactionAssumption, OwnerInv, FillBank
    PROVE  OwnerInv' /\ CommitStep
<1> USE DEF OwnerInv, LogicInv
<1> DEFINE m == Max(Programs(rec.des) \cup {0})
<1>1. In("applying", "staging") /\ job.pc = "bank"
  BY Zenon DEF FillBank, At, CallInv
<1>2. rec.ngen \in Nat /\ rec.ngen % 2 \in {0, 1}
  BY DEF ShapeInv, RecordType, Gens
<1>3. PICK p \in Progs : \A s \in Slots : rec.des[s].prog \in {0, p}
  BY <1>1, Zenon DEF WholeInv, OneProgram, In
<1>4. m \in Progs \cup {0} /\ \A s \in Slots : rec.des[s].prog \in {0, m}
  <2>1. CASE \E s \in Slots : rec.des[s].prog = p
    <3>1. Programs(rec.des) \cup {0} = {0, p}
      BY <1>3, <2>1, Zenon DEF Programs, Progs
    <3>2. m = p
      BY <3>1 DEF Max, Progs
    <3>3. QED
      BY <1>3, <3>2, Zenon
  <2>2. CASE \A s \in Slots : rec.des[s].prog # p
    <3>1. Programs(rec.des) \cup {0} = {0}
      BY <1>3, <2>2, Zenon DEF Programs
    <3>2. m = 0
      BY <3>1 DEF Max
    <3>3. QED
      BY <1>3, <2>2, <3>2, Zenon
  <2>3. QED
    BY <2>1, <2>2, Zenon
<1>5. /\ bank' \in [{0, 1} -> Progs \cup {0}]
      /\ bank'[rec.ngen % 2] = m
      /\ \A q \in {0, 1} \ {rec.ngen % 2} : bank'[q] = bank[q]
  BY <1>2, <1>4, Zenon DEF FillBank, Bank, ShapeInv
<1>6. job' \in JobType /\ job'.pc = "stage"
  BY JobShapes, Zenon DEF FillBank, Labels
<1>7. UNCHANGED <<disk, pin, link, gen, data, dev, fd, retained, calm>>
  BY Zenon DEF FillBank
<1>8. ShapeInv'
  BY <1>5, <1>6, <1>7, Zenon DEF ShapeInv, disk
<1>9. data'[rec.ngen] = "full" /\ InBank(rec.des, rec.ngen)'
  BY <1>1, <1>4, <1>5, <1>7, Zenon DEF WholeInv, InBank, disk
<1>10. QED
  BY <1>1, <1>5, <1>6, <1>7, <1>8, <1>9, StagingWrites, Zenon DEF disk

\* stageOwnerPrograms pins programs.
LEMMA StageProgramStep ==
    ASSUME TransactionAssumption, OwnerInv, NEW p \in Progs, StageProgram(p)
    PROVE  OwnerInv' /\ CommitStep
<1> USE DEF OwnerInv, LogicInv
<1>1. In("applying", "staging")
  BY Zenon DEF StageProgram, At, CallInv
<1>2. ShapeInv'
  BY ShapeKept, Zenon DEF StageProgram, kernel, ShapeInv
<1>3. DirInv'
  BY <1>1, Zenon DEF StageProgram, DirInv, In
<1>4. QED
  BY <1>2, <1>3, CallStays, Zenon DEF StageProgram, kernel

\* The record moves to another step of its phase, with the maps as they are.
LEMMA RecordAdvances ==
    ASSUME TransactionAssumption, OwnerInv, NEW s \in Steps, NEW l \in {"recover", "converge"},
           Persist(Advance(rec.phase, s), Goto(l)),
           UNCHANGED <<dir, files, kernel, dev, fd, retained, calm>>,
           \/ /\ rec.phase = "applying"
              /\ \/ s \in {"rolling_back", "rollback_cleanup"} /\ gen = rec.agen
                 \/ s = "mutating"
                 \/ s = "cleanup" /\ gen = rec.ngen
              /\ data[rec.ngen] = "full" /\ InBank(rec.des, rec.ngen)
           \/ /\ rec.phase = "detaching"
              /\ s \in {"mutating_tc", "unlinking_maps", "cleanup_stages"},
           l = "converge" => s = "mutating" /\ gen = rec.agen
    PROVE  /\ OwnerInv'
           /\ rec'.phase = rec.phase /\ rec'.step = s /\ rec'.ngen = rec.ngen /\ gen' = gen
<1> USE DEF OwnerInv, LogicInv
<1>1. /\ rec' \in RecordType
      /\ rec'.phase = rec.phase /\ rec'.step = s
      /\ rec'.agen = rec.agen /\ rec'.ngen = rec.ngen
      /\ rec'.act = rec.act /\ rec'.des = rec.des
  BY AdvanceShape DEF Persist, ShapeInv, RecordType
<1>2. job' \in JobType /\ job'.pc \in {l, "idle"}
  BY JobShapes DEF Persist, Labels
<1>3. ShapeInv'
  BY <1>1, <1>2, ShapeKept, Zenon DEF kernel, ShapeInv
<1>4. PhaseInv'
  BY <1>1, Zenon DEF PhaseInv, kernel
<1>5. CallInv'
  BY <1>1, <1>2, Zenon DEF CallInv, In, kernel
<1>6. DirInv'
  BY <1>1, Zenon DEF DirInv
<1>7. WholeInv'
  BY <1>1, <1>2, Zenon DEF WholeInv, InBank, OneProgram, kernel
<1>8. QED
  BY <1>1, <1>3, <1>4, <1>5, <1>6, <1>7, Zenon DEF kernel

\* The intent to change links is journaled.
LEMMA BeginMutatingStep ==
    ASSUME TransactionAssumption, OwnerInv, BeginMutating
    PROVE  OwnerInv' /\ CommitStep
<1> USE DEF OwnerInv, LogicInv
<1>1. In("applying", "staging") /\ job.pc = "stage"
  BY Zenon DEF BeginMutating, At, CallInv
<1>2. gen = rec.agen /\ data[rec.ngen] = "full" /\ InBank(rec.des, rec.ngen)
  BY <1>1, Zenon DEF PhaseInv, WholeInv, In
<1>3. OwnerInv' /\ rec'.phase = rec.phase /\ rec'.step = "mutating" /\ rec'.ngen = rec.ngen /\ gen' = gen
  BY <1>1, <1>2, RecordAdvances, Zenon DEF BeginMutating, In, Steps
<1>4. Stage' = Stage /\ Published' = Published
  BY <1>1, <1>3, Zenon DEF Stage, Published, In
<1>5. QED
  BY <1>3, <1>4, PublishedIs, Zenon DEF CommitStep, Commit!vars

\* commitControl publishes the new generation: its one step.
LEMMA CommitControlStep ==
    ASSUME TransactionAssumption, OwnerInv, CommitControl
    PROVE  OwnerInv' /\ CommitStep
<1> USE DEF OwnerInv, LogicInv
<1>1. In("applying", "mutating") /\ gen = rec.agen
  BY Zenon DEF CommitControl, At, CallInv
<1>2. rec.ngen = rec.agen + 1 /\ rec.agen \in Nat /\ rec.ngen \in Gens
  BY <1>1 DEF PhaseInv, In, ShapeInv, RecordType, Gens
<1>3. job' \in JobType /\ job'.pc = "cleanup"
  <2>1. Goto("cleanup") \in JobType /\ Goto("cleanup").pc = "cleanup"
    BY JobShapes, Zenon DEF Labels
  <2>2. QED
    BY <2>1, Zenon DEF CommitControl, JobType
<1>4. UNCHANGED <<disk, pin, link, data, bank, dev, fd, retained, calm>> /\ gen' = rec.ngen
  BY Zenon DEF CommitControl
<1>5. ShapeInv'
  BY <1>2, <1>3, <1>4, Zenon DEF ShapeInv, disk
<1>6. PhaseInv'
  BY <1>1, <1>4, Zenon DEF PhaseInv, In, disk
<1>7. CallInv'
  BY <1>1, <1>3, <1>4, Zenon DEF CallInv, In, disk
<1>8. DirInv'
  BY <1>4, Zenon DEF DirInv, disk
<1>9. WholeInv'
  BY <1>1, <1>2, <1>3, <1>4, Zenon DEF WholeInv, InBank, OneProgram, In, disk
<1>10. CommitStep
  <2>1. Stage = "pending" /\ Stage' = "published"
    BY <1>1, <1>2, <1>4 DEF Stage, In, disk
  <2>2. Published' = rec.ngen /\ rec'.ngen = rec.ngen
    BY <1>1, <1>4, Zenon DEF Published, In, disk
  <2>3. QED
    BY <1>6, <2>1, <2>2, PublishedIs, Zenon DEF CommitStep, Commit!Next, Commit!Publish
<1>11. QED
  BY <1>5, <1>6, <1>7, <1>8, <1>9, <1>10, Zenon

\* After the commit the record says that only cleaning up is left.
LEMMA BeginCleanupStep ==
    ASSUME TransactionAssumption, OwnerInv, BeginCleanup
    PROVE  OwnerInv' /\ CommitStep
<1> USE DEF OwnerInv, LogicInv
<1>1. In("applying", "mutating") /\ gen = rec.ngen
  BY Zenon DEF BeginCleanup, At, CallInv
<1>2. data[rec.ngen] = "full" /\ InBank(rec.des, rec.ngen)
  BY <1>1, Zenon DEF WholeInv, In
<1>3. OwnerInv' /\ rec'.phase = rec.phase /\ rec'.step = "cleanup" /\ rec'.ngen = rec.ngen /\ gen' = gen
  BY <1>1, <1>2, RecordAdvances, Zenon DEF BeginCleanup, In, Steps
<1>4. Stage' = Stage /\ Published' = Published
  BY <1>1, <1>3, Zenon DEF Stage, Published, In
<1>5. QED
  BY <1>3, <1>4, PublishedIs, Zenon DEF CommitStep, Commit!vars

\* deleteStaleMapEntries keeps the generation that is published.
LEMMA TrimStep ==
    ASSUME TransactionAssumption, OwnerInv, Trim
    PROVE  OwnerInv' /\ CommitStep
<1> USE DEF OwnerInv, LogicInv
<1>1. rec.phase = "active" /\ gen = rec.agen
  BY Zenon DEF Trim, At, CallInv, PhaseInv
<1>2. job' \in JobType /\ job'.pc = "idle"
  BY JobShapes, Zenon DEF Trim
<1>3. UNCHANGED <<disk, pin, link, gen, bank, dev, fd, retained, calm>>
  BY Zenon DEF Trim
<1>4. data' \in [Gens -> {"none", "partial", "full", "mixed"}] /\ data'[gen] = data[gen]
  BY Zenon DEF Trim, ShapeInv
<1>5. ShapeInv'
  BY <1>2, <1>3, <1>4, Zenon DEF ShapeInv, disk
<1>6. PhaseInv'
  BY <1>3, Zenon DEF PhaseInv, disk
<1>7. CallInv'
  BY <1>2, Zenon DEF CallInv
<1>8. DirInv'
  BY <1>3, Zenon DEF DirInv, disk
<1>9. WholeInv'
  BY <1>1, <1>2, <1>3, <1>4, Zenon DEF WholeInv, InBank, disk
<1>10. CommitStep
  BY <1>3, <1>6, SameCommit, Zenon DEF disk
<1>11. QED
  BY <1>5, <1>6, <1>7, <1>8, <1>9, <1>10, Zenon
-----------------------------------------------------------------------------
(* Links *)

LinkType == [up : BOOLEAN, prog : Progs \cup {0}, slot : Slots \cup {0}]

\* What the operations on links write has its type.
LEMMA LinkShapes ==
    ASSUME TransactionAssumption, ShapeInv
    PROVE  /\ link \in [Links -> LinkType] /\ NoLink \in LinkType
           /\ \A s \in Slots : Unpin(s) => /\ pin' \in [Slots -> 0 .. MaxLink]
                                           /\ link' \in [Links -> LinkType]
           /\ \A s \in Slots, old, new \in Progs \cup {0} :
                CompareUpdate(s, old, new) => link' \in [Links -> LinkType]
           /\ CloseUnpinned => /\ fd' = 0 /\ link' \in [Links -> LinkType]
                               /\ retained' \subseteq Links \X BOOLEAN
<1>1. link \in [Links -> LinkType]
  BY Zenon DEF ShapeInv, LinkType
<1>2. NoLink \in LinkType
  BY Zenon DEF NoLink, LinkType
<1>3. ASSUME NEW s \in Slots, Unpin(s)
      PROVE  pin' \in [Slots -> 0 .. MaxLink] /\ link' \in [Links -> LinkType]
  <2>1. 0 \in 0 .. MaxLink
    BY DEF TransactionAssumption
  <2>2. QED
    BY <1>1, <1>2, <1>3, <2>1, Zenon DEF Unpin, ShapeInv
<1>4. ASSUME NEW s \in Slots, NEW old \in Progs \cup {0}, NEW new \in Progs \cup {0},
             CompareUpdate(s, old, new)
      PROVE  link' \in [Links -> LinkType]
  <2>1. CASE pin[s] \in Links
    <3>1. [link[pin[s]] EXCEPT !.prog = new] \in LinkType
      BY <1>1, <2>1, Zenon DEF LinkType
    <3>2. QED
      BY <1>1, <1>4, <2>1, <3>1, Zenon DEF CompareUpdate
  <2>2. CASE pin[s] \notin Links
    BY <1>1, <1>4, <2>2, Zenon DEF CompareUpdate
  <2>3. QED
    BY <2>1, <2>2, Zenon
<1>5. ASSUME CloseUnpinned
      PROVE  fd' = 0 /\ link' \in [Links -> LinkType] /\ retained' \subseteq Links \X BOOLEAN
  <2>1. CASE fd = 0
    BY <1>1, <1>5, <2>1, Zenon DEF CloseUnpinned, ShapeInv
  <2>2. CASE fd # 0
    <3>1. fd \in Links
      BY <2>2 DEF ShapeInv, Links
    <3>2. <<fd, TRUE>> \in Links \X BOOLEAN
      BY <3>1, Zenon
    <3>3. CASE link' = [link EXCEPT ![fd] = NoLink] /\ UNCHANGED retained
      BY <1>1, <1>2, <1>5, <3>3, Zenon DEF CloseUnpinned, ShapeInv
    <3>4. CASE retained' = retained \cup {<<fd, TRUE>>} /\ UNCHANGED link
      BY <1>1, <1>5, <3>2, <3>4, Zenon DEF CloseUnpinned, ShapeInv
    <3>5. QED
      BY <1>5, <2>2, <3>3, <3>4, Zenon DEF CloseUnpinned
  <2>3. QED
    BY <2>1, <2>2, Zenon
<1>6. QED
  BY <1>1, <1>2, <1>3, <1>4, <1>5, Zenon

\* The same for the two that also decide how the call goes on.
LEMMA RetryShape ==
    ASSUME TransactionAssumption, ShapeInv, NEW s \in Slots, RetryRetained(s)
    PROVE  /\ link' \in [Links -> LinkType] /\ retained' \subseteq Links \X BOOLEAN
           /\ job' \in {job, Failed}
           /\ UNCHANGED <<disk, pin, gen, data, bank, dev, fd, calm>>
<1>1. PICK closed \in SUBSET {r \in RetainedAt(s) : r[2]} :
         /\ retained' = retained \ closed
         /\ link' = [l \in Links |-> IF <<l, TRUE>> \in closed THEN NoLink ELSE link[l]]
         /\ job' = IF closed = RetainedAt(s) THEN job ELSE Failed
  BY Zenon DEF RetryRetained
<1>2. link' \in [Links -> LinkType]
  BY <1>1, LinkShapes, Zenon
<1>3. retained' \subseteq Links \X BOOLEAN
  BY <1>1, Zenon DEF ShapeInv
<1>4. QED
  BY <1>1, <1>2, <1>3, Zenon DEF RetryRetained

\* Attaching takes the first free link and leaves the record and its pins alone.
LEMMA AttachShape ==
    ASSUME TransactionAssumption, ShapeInv, NEW s \in Slots, NEW p \in Progs \cup {0}, Attach(s, p)
    PROVE  /\ link' \in [Links -> LinkType] /\ retained' \subseteq Links \X BOOLEAN
           /\ fd' \in 0 .. MaxLink /\ job' \in {job, Failed}
           /\ UNCHANGED <<disk, pin, gen, data, bank, dev, calm>>
<1>1. FreshLink \in Links
  BY Zenon DEF Attach, FreshLink, FreshLinks, First
<1>2. FreshLink \in 0 .. MaxLink
  BY <1>1 DEF Links
<1>3. [up |-> TRUE, prog |-> p, slot |-> s] \in LinkType
  BY Zenon DEF LinkType
<1>4. link' \in [Links -> LinkType]
  BY <1>1, <1>3, LinkShapes, Zenon DEF Attach
<1>5. <<FreshLink, FALSE>> \in Links \X BOOLEAN
  BY <1>1, Zenon
<1>6. retained' \subseteq Links \X BOOLEAN
  BY <1>5, Zenon DEF Attach, ShapeInv
<1>7. fd' \in 0 .. MaxLink /\ job' \in {job, Failed}
  BY <1>2, Zenon DEF Attach, ShapeInv
<1>8. QED
  BY <1>4, <1>6, <1>7, Zenon DEF Attach

\* The changes converge and rollback make to a binding keep its program.
LEMMA BindingShapes ==
    ASSUME TransactionAssumption, NEW b \in BindingType
    PROVE  /\ b.link \in 0 .. MaxLink /\ b.prog \in Progs \cup {0}
           /\ Cleared(b) \in BindingType /\ Cleared(b).prog = b.prog
           /\ Settled(b) \in BindingType /\ Settled(b).prog = b.prog
           /\ Retiring(b) \in BindingType /\ Retiring(b).prog = b.prog
           /\ \A l \in 0 .. MaxLink :
                /\ Replacing(b, l) \in BindingType /\ Replacing(b, l).prog = b.prog
                /\ \A x \in BOOLEAN : /\ Identified(b, l, x) \in BindingType
                                      /\ Identified(b, l, x).prog = b.prog
<1>1. 0 \in 0 .. MaxLink
  BY DEF TransactionAssumption
<1>2. Cleared(b) \in BindingType /\ Settled(b) \in BindingType /\ Retiring(b) \in BindingType
  BY <1>1, Zenon DEF Cleared, Settled, Retiring, BindingType
<1>3. ASSUME NEW l \in 0 .. MaxLink
      PROVE  /\ Replacing(b, l) \in BindingType /\ Replacing(b, l).prog = b.prog
             /\ \A x \in BOOLEAN : /\ Identified(b, l, x) \in BindingType
                                   /\ Identified(b, l, x).prog = b.prog
  BY <1>1, Zenon DEF Replacing, Identified, BindingType
<1>4. /\ Cleared(b).prog = b.prog /\ Settled(b).prog = b.prog /\ Retiring(b).prog = b.prog
      /\ b.link \in 0 .. MaxLink /\ b.prog \in Progs \cup {0}
  BY Zenon DEF Cleared, Settled, Retiring, BindingType
<1>5. QED
  BY <1>2, <1>3, <1>4, Zenon

\* A step that changes links only, and where the call is by staying or failing.
LEMMA LinksChange ==
    ASSUME TransactionAssumption, OwnerInv,
           pin' \in [Slots -> 0 .. MaxLink], link' \in [Links -> LinkType], fd' \in 0 .. MaxLink,
           retained' \subseteq Links \X BOOLEAN, dev' \subseteq Slots, calm' \in BOOLEAN,
           UNCHANGED <<disk, gen, data, bank>>,
           job' \in JobType,
           \/ job'.pc \in {job.pc, "idle"}
           \/ job'.pc = "recover" /\ job.pc \in {"converge", "control", "recover"}
    PROVE  OwnerInv' /\ CommitStep
<1>1. ShapeInv'
  BY Zenon DEF OwnerInv, ShapeInv, disk, LinkType
<1>2. DirInv'
  BY Zenon DEF OwnerInv, LogicInv, DirInv, disk
<1>3. QED
  BY <1>1, <1>2, CallStays, Zenon DEF OwnerInv, disk

\* The call fails, stays, or goes on to the next slot.
LEMMA JobGoesOn ==
    ASSUME TransactionAssumption, OwnerInv,
           \/ job' \in {job, Failed, Idle, [job EXCEPT !.held = FALSE]}
           \/ job' = NextSlot /\ job.i \in Slots
    PROVE  /\ job' \in JobType
           /\ \/ job'.pc \in {job.pc, "idle"}
              \/ job'.pc = "recover" /\ job.pc \in {"converge", "control"}
<1>1. [job EXCEPT !.held = FALSE] \in JobType /\ [job EXCEPT !.held = FALSE].pc = job.pc
  BY Zenon DEF OwnerInv, ShapeInv, JobType
<1>2. QED
  BY <1>1, JobShapes, Zenon DEF OwnerInv, ShapeInv

\* One binding changes and the links do not.
LEMMA BindingStep ==
    ASSUME TransactionAssumption, OwnerInv,
           Converging \/ (RollingBack /\ job.i \in Slots),
           NEW b \in BindingType, b.prog = Binding.prog, rec' = SetBinding(b),
           job' \in {job, Idle, NextSlot, [job EXCEPT !.held = TRUE]},
           UNCHANGED <<dir, files, kernel, dev, fd, retained, calm>>
    PROVE  OwnerInv' /\ CommitStep
<1>1. job.i \in Slots
  BY Zenon DEF Converging
<1>2. job' \in JobType /\ job'.pc \in {job.pc, "idle"}
  <2>1. [job EXCEPT !.held = TRUE] \in JobType /\ [job EXCEPT !.held = TRUE].pc = job.pc
    BY Zenon DEF OwnerInv, ShapeInv, JobType
  <2>2. QED
    BY <1>1, <2>1, JobShapes, Zenon DEF OwnerInv, ShapeInv
<1>3. LogicInv' /\ CommitStep /\ rec' \in RecordType
  BY <1>2, BindingChanges, Zenon DEF kernel
<1>4. ShapeInv'
  BY <1>2, <1>3, ShapeKept, Zenon DEF OwnerInv, ShapeInv, kernel
<1>5. QED
  BY <1>3, <1>4, Zenon DEF OwnerInv

\* stageExactTCXAttachment: the identity is journaled, then the link is pinned.
LEMMA StageAttachmentStep ==
    ASSUME TransactionAssumption, OwnerInv, StageAttachment
    PROVE  OwnerInv' /\ CommitStep
<1>1. job.i \in Slots
  BY Zenon DEF StageAttachment, Converging
<1>2. fd \in 0 .. MaxLink /\ ShapeInv
  BY Zenon DEF OwnerInv, ShapeInv
<1>3. CASE PersistIdentity
  <2>1. Binding \in BindingType
    <3>1. List \in {"act", "des"}
      BY Zenon DEF List
    <3>2. QED
      BY <1>1, <3>1, Zenon DEF OwnerInv, ShapeInv, RecordType, Binding, Slot
  <2> DEFINE b == Identified(Binding, fd, TRUE)
  <2>2. b \in BindingType /\ b.prog = Binding.prog
    BY <1>2, <2>1, BindingShapes, Zenon
  <2>3. rec' = SetBinding(b) /\ UNCHANGED <<dir, files, pin, gen, data, bank, dev, calm>>
    BY <1>3, Zenon DEF PersistIdentity
  <2>4. job' \in JobType /\ job'.pc \in {job.pc, "idle"}
    BY <1>2, <1>3, JobShapes, Zenon DEF PersistIdentity, ShapeInv
  <2>5. /\ fd' \in 0 .. MaxLink /\ link' \in [Links -> LinkType]
        /\ retained' \subseteq Links \X BOOLEAN
    <3>1. CASE UNCHANGED <<job, fd, link, retained>>
      BY <1>2, <3>1, LinkShapes, Zenon DEF ShapeInv
    <3>2. CASE CloseUnpinned
      BY <1>2, <3>2, LinkShapes DEF TransactionAssumption
    <3>3. QED
      BY <1>3, <3>1, <3>2, Zenon DEF PersistIdentity
  <2>6. LogicInv' /\ CommitStep /\ rec' \in RecordType
    BY <2>2, <2>3, <2>4, BindingChanges, Zenon DEF StageAttachment
  <2>7. ShapeInv'
    BY <1>2, <2>3, <2>4, <2>5, <2>6, Zenon DEF ShapeInv, LinkType
  <2>8. QED
    BY <2>6, <2>7, Zenon DEF OwnerInv
<1>4. CASE PinLink
  <2>1. pin' \in [Slots -> 0 .. MaxLink] /\ fd' \in 0 .. MaxLink
    BY <1>1, <1>2, <1>4 DEF PinLink, Slot, ShapeInv, TransactionAssumption
  <2>2. UNCHANGED <<disk, link, gen, data, bank, dev, job, retained, calm>>
    BY <1>4, Zenon DEF PinLink
  <2>3. QED
    BY <1>2, <2>1, <2>2, LinksChange, LinkShapes, Zenon DEF ShapeInv
<1>5. QED
  BY <1>3, <1>4, Zenon DEF StageAttachment
-----------------------------------------------------------------------------
(* Converge *)

\* ConvergeSkip, ConvergeRetireOld and the retry change links at most.
LEMMA ConvergeLinksStep ==
    ASSUME TransactionAssumption, OwnerInv, NEW s \in Slots,
           ConvergeSkip \/ ConvergeRetireOld \/ ConvergeRetry(s)
    PROVE  OwnerInv' /\ CommitStep
<1>1. ShapeInv
  BY Zenon DEF OwnerInv
<1>2. CASE ConvergeSkip
  <2>1. job' = NextSlot /\ job.i \in Slots /\ UNCHANGED <<disk, kernel, dev, fd, retained, calm>>
    BY <1>2, Zenon DEF ConvergeSkip, Converging
  <2>2. QED
    BY <1>1, <2>1, JobGoesOn, LinksChange, LinkShapes, Zenon DEF kernel, ShapeInv
<1>3. CASE ConvergeRetireOld
  <2>1. job' \in {[job EXCEPT !.held = FALSE], Failed} /\ job.i \in Slots /\ UNCHANGED rec /\ Quiet
    BY <1>3, Zenon DEF ConvergeRetireOld, Converging
  <2>2. pin' \in [Slots -> 0 .. MaxLink] /\ link' \in [Links -> LinkType]
    <3>1. CASE Unpin(Slot)
      BY <1>1, <2>1, <3>1, LinkShapes, Zenon DEF Slot
    <3>2. CASE UNCHANGED <<pin, link>>
      BY <1>1, <3>2, LinkShapes, Zenon DEF ShapeInv
    <3>3. QED
      BY <1>3, <3>1, <3>2, Zenon DEF ConvergeRetireOld
  <2>3. QED
    BY <1>1, <2>1, <2>2, JobGoesOn, LinksChange, Zenon DEF Quiet, ShapeInv, disk
<1>4. CASE ConvergeRetry(s)
  BY <1>1, <1>4, RetryShape, JobGoesOn, LinksChange, Zenon DEF ConvergeRetry, ShapeInv
<1>5. QED
  BY <1>2, <1>3, <1>4, Zenon

\* The binding converge is at is the slot's in the new list.
LEMMA ConvergeBinding ==
    ASSUME TransactionAssumption, OwnerInv, NEW s \in Slots, ConvergeAt(s)
    PROVE  /\ s = job.i /\ Slot = s /\ Binding = rec.des[s] /\ Converging
           /\ rec.des[s] \in BindingType /\ rec.act[s] \in BindingType
           /\ pin[s] \in 0 .. MaxLink
BY Zenon DEF ConvergeAt, Converging, Binding, List, Slot, RollingBack, Recovering, At,
       OwnerInv, ShapeInv, RecordType

\* A binding on its way out is removed before its slot is used again.
LEMMA ConvergeRetiringStep ==
    ASSUME TransactionAssumption, OwnerInv, NEW s \in Slots, ConvergeRetiring(s)
    PROVE  OwnerInv' /\ CommitStep
<1>1. ConvergeAt(s) /\ Quiet /\ ShapeInv
  BY Zenon DEF ConvergeRetiring, OwnerInv
<1>2. CASE Removed(s, rec.des[s])
  <2>1. Persist(SetBinding(Cleared(rec.des[s])), job) /\ UNCHANGED <<pin, link>>
    BY <1>2, Zenon DEF ConvergeRetiring
  <2>2. Cleared(rec.des[s]) \in BindingType /\ Cleared(rec.des[s]).prog = Binding.prog
    BY <1>1, ConvergeBinding, BindingShapes, Zenon
  <2>3. QED
    BY <1>1, <2>1, <2>2, ConvergeBinding, BindingStep, Zenon DEF Persist, Quiet, kernel
<1>3. CASE ~Removed(s, rec.des[s])
  BY <1>1, <1>3, LinkShapes, JobGoesOn, LinksChange, Zenon DEF ConvergeRetiring, Quiet, ShapeInv,
       disk
<1>4. QED
  BY <1>2, <1>3, Zenon

\* A slot that has a link gets the new program, in place or in a replacement.
LEMMA ConvergeReplaceStep ==
    ASSUME TransactionAssumption, OwnerInv, NEW s \in Slots, ConvergeReplace(s)
    PROVE  OwnerInv' /\ CommitStep
<1> DEFINE a == rec.act[s]
           d == rec.des[s]
           seen == Observed(s, a, {a.prog, d.prog})
<1>1. ConvergeAt(s) /\ Quiet /\ ShapeInv
  BY Zenon DEF ConvergeReplace, OwnerInv
<1>2. /\ d \in BindingType /\ a \in BindingType /\ Binding = d /\ Converging /\ job.i = s
      /\ a.link \in 0 .. MaxLink /\ a.prog \in Progs \cup {0} /\ d.prog \in Progs \cup {0}
  BY <1>1, ConvergeBinding, BindingShapes, Zenon
<1>3. CASE /\ Persist(SetBinding(Replacing(d, a.link)), [job EXCEPT !.held = TRUE])
           /\ UNCHANGED <<pin, link>>
  <2>1. Replacing(d, a.link) \in BindingType /\ Replacing(d, a.link).prog = Binding.prog
    BY <1>2, BindingShapes, Zenon
  <2>2. QED
    BY <1>1, <1>2, <1>3, <2>1, BindingStep, Zenon DEF Persist, Quiet, kernel
<1>4. CASE job' = NextSlot /\ UNCHANGED <<rec, pin, link>>
  BY <1>1, <1>2, <1>4, LinkShapes, JobGoesOn, LinksChange, Zenon DEF Quiet, ShapeInv, disk
<1>5. CASE CompareUpdate(s, a.prog, d.prog) /\ UNCHANGED <<rec, pin>>
  <2>1. job' = NextSlot
    BY <1>5, Zenon DEF CompareUpdate
  <2>2. link' \in [Links -> LinkType]
    BY <1>1, <1>2, <1>5, LinkShapes, Zenon
  <2>3. QED
    BY <1>1, <1>2, <1>5, <2>1, <2>2, JobGoesOn, LinksChange, Zenon DEF Quiet, ShapeInv, disk
<1>6. QED
  BY <1>3, <1>4, <1>5, Zenon DEF ConvergeReplace

\* A slot that has no link gets one.
LEMMA ConvergeNewStep ==
    ASSUME TransactionAssumption, OwnerInv, NEW s \in Slots, ConvergeNew(s)
    PROVE  OwnerInv' /\ CommitStep
<1> DEFINE d == rec.des[s]
           seen == Observed(s, d, {d.prog})
<1>1. ConvergeAt(s) /\ ShapeInv
  BY Zenon DEF ConvergeNew, OwnerInv
<1>2. /\ d \in BindingType /\ Binding = d /\ Converging /\ job.i = s /\ Slot = s
      /\ pin[s] \in 0 .. MaxLink /\ d.prog \in Progs \cup {0}
  BY <1>1, ConvergeBinding, BindingShapes, Zenon
<1>3. CASE IdentityComplete /\ UNCHANGED <<pin, link>> /\ Quiet
  <2>1. CASE Binding.pend \/ Binding.link # pin[Slot]
    <3>1. Identified(d, pin[s], FALSE) \in BindingType /\ Identified(d, pin[s], FALSE).prog = Binding.prog
      BY <1>2, BindingShapes, Zenon
    <3>2. Persist(SetBinding(Identified(d, pin[s], FALSE)), NextSlot)
      BY <1>2, <1>3, <2>1, Zenon DEF IdentityComplete
    <3>3. QED
      BY <1>2, <1>3, <3>1, <3>2, BindingStep, Zenon DEF Persist, Quiet, kernel
  <2>2. CASE ~(Binding.pend \/ Binding.link # pin[Slot])
    <3>1. job' = NextSlot /\ UNCHANGED rec
      BY <1>3, <2>2, Zenon DEF IdentityComplete
    <3>2. QED
      BY <1>1, <1>2, <1>3, <3>1, LinkShapes, JobGoesOn, LinksChange, Zenon DEF Quiet, ShapeInv, disk
  <2>3. QED
    BY <2>1, <2>2, Zenon
<1>4. CASE job' = Failed /\ UNCHANGED <<rec, pin, link>> /\ Quiet
  BY <1>1, <1>4, LinkShapes, JobGoesOn, LinksChange, Zenon DEF Quiet, ShapeInv, disk
<1>5. CASE /\ Persist(SetBinding(Retiring(d)), job) \/ Persist(SetBinding(Cleared(d)), job)
           /\ UNCHANGED <<pin, link>> /\ Quiet
  <2>1. /\ Retiring(d) \in BindingType /\ Retiring(d).prog = Binding.prog
        /\ Cleared(d) \in BindingType /\ Cleared(d).prog = Binding.prog
    BY <1>2, BindingShapes, Zenon
  <2>2. QED
    BY <1>2, <1>5, <2>1, BindingStep, Zenon DEF Persist, Quiet, kernel
<1>6. CASE Attach(s, d.prog)
  BY <1>1, <1>2, <1>6, AttachShape, JobGoesOn, LinksChange, Zenon DEF ShapeInv
<1>7. QED
  BY <1>3, <1>4, <1>5, <1>6, Zenon DEF ConvergeNew

\* Behind the last slot the call publishes, or fails.
LEMMA ConvergedStep ==
    ASSUME TransactionAssumption, OwnerInv, Converged
    PROVE  OwnerInv' /\ CommitStep
<1> USE DEF OwnerInv, LogicInv
<1>1. /\ UNCHANGED <<disk, kernel, dev, fd, retained, calm>>
      /\ job.pc \in {"converge", "forward"}
      /\ job' \in {Failed, Goto("control"), Goto("cleanup")}
      /\ job' = Goto("control") => job.pc = "converge"
      /\ job' = Goto("cleanup") => job.pc = "forward"
  <2>1. Failed.pc \in {"recover", "idle"} /\ Goto("control").pc = "control" /\ Goto("cleanup").pc = "cleanup"
    BY JobShapes, Zenon DEF Labels
  <2>2. QED
    BY <2>1, Zenon DEF Converged, At
<1>2. job' \in JobType /\ job'.pc \in {"recover", "idle", "control", "cleanup"}
  BY <1>1, JobShapes DEF Labels
<1>3. ShapeInv'
  BY <1>1, <1>2, ShapeKept, Zenon DEF kernel, disk, ShapeInv
<1>4. DirInv'
  BY <1>1, Zenon DEF DirInv, disk
<1>5. CallInv'
  <2>1. job'.pc = "control" => job.pc = "converge"
    BY <1>1, JobShapes, Zenon DEF Labels
  <2>2. job'.pc = "cleanup" => job.pc = "forward"
    BY <1>1, JobShapes, Zenon DEF Labels
  <2>3. QED
    BY <1>1, <1>2, <2>1, <2>2, Zenon DEF CallInv, In, disk, kernel
<1>6. QED
  BY <1>1, <1>2, <1>3, <1>4, <1>5, CallMoves, Zenon DEF disk, kernel

\* Whatever convergence does to a slot keeps the invariant.
LEMMA ConvergeStep ==
    ASSUME TransactionAssumption, OwnerInv, Converge
    PROVE  OwnerInv' /\ CommitStep
<1>1. 1 \in Slots
  BY DEF TransactionAssumption, Slots
<1>2. QED
  BY <1>1, ConvergeLinksStep, ConvergeRetiringStep, ConvergeReplaceStep, ConvergeNewStep,
       ConvergedStep, Zenon
     DEF Converge
-----------------------------------------------------------------------------
(* Rollback *)

\* The binding rollback is at is the slot's in the old list.
LEMMA RollbackBinding ==
    ASSUME TransactionAssumption, OwnerInv, NEW s \in Slots, RollbackAt(s)
    PROVE  /\ s = job.i /\ Slot = s /\ Binding = rec.act[s] /\ RollingBack
           /\ rec.des[s] \in BindingType /\ rec.act[s] \in BindingType
           /\ pin[s] \in 0 .. MaxLink
BY Zenon DEF RollbackAt, Binding, List, Slot, OwnerInv, ShapeInv, RecordType

\* A slot the rollback finds as it was, or retries, keeps its binding.
LEMMA RollbackLinksStep ==
    ASSUME TransactionAssumption, OwnerInv, NEW s \in Slots,
           RollbackTarget(s) \/ RollbackSkip(s) \/ RollbackRetry(s)
    PROVE  OwnerInv' /\ CommitStep
<1>1. ShapeInv
  BY Zenon DEF OwnerInv
<1>2. CASE RetryRetained(s)
  BY <1>1, <1>2, RetryShape, JobGoesOn, LinksChange, Zenon DEF ShapeInv
<1>3. CASE Unpin(s) /\ UNCHANGED <<rec, job>> /\ Quiet
  BY <1>1, <1>3, LinkShapes, JobGoesOn, LinksChange, Zenon DEF Quiet, ShapeInv, disk
<1>4. CASE RollbackSkip(s)
  <2>1. job' = NextSlot /\ job.i \in Slots /\ UNCHANGED <<disk, kernel, dev, fd, retained, calm>>
    BY <1>4, RollbackBinding, Zenon DEF RollbackSkip
  <2>2. QED
    BY <1>1, <2>1, JobGoesOn, LinksChange, LinkShapes, Zenon DEF kernel, ShapeInv
<1>5. QED
  BY <1>2, <1>3, <1>4, Zenon DEF RollbackTarget, RollbackRetry

\* The rollback puts the old program of a slot back.
LEMMA RollbackOldStep ==
    ASSUME TransactionAssumption, OwnerInv, NEW s \in Slots, RollbackOld(s)
    PROVE  OwnerInv' /\ CommitStep
<1> DEFINE a == rec.act[s]
           d == rec.des[s]
<1>1. RollbackAt(s) /\ Quiet /\ ShapeInv
  BY Zenon DEF RollbackOld, OwnerInv
<1>2. /\ a \in BindingType /\ d \in BindingType /\ Binding = a /\ RollingBack /\ job.i = s
      /\ a.link \in 0 .. MaxLink /\ a.prog \in Progs \cup {0} /\ d.prog \in Progs \cup {0}
  BY <1>1, RollbackBinding, BindingShapes, Zenon
<1>3. CASE Unpin(s) /\ UNCHANGED <<rec, job>>
  BY <1>1, <1>3, LinkShapes, JobGoesOn, LinksChange, Zenon DEF Quiet, ShapeInv, disk
<1>4. CASE Persist(SetBinding(Replacing(a, a.link)), job) /\ UNCHANGED <<pin, link>>
  <2>1. Replacing(a, a.link) \in BindingType /\ Replacing(a, a.link).prog = Binding.prog
    BY <1>2, BindingShapes, Zenon
  <2>2. QED
    BY <1>1, <1>2, <1>4, <2>1, BindingStep, Zenon DEF Persist, Quiet, kernel
<1>5. CASE job' = NextSlot /\ UNCHANGED <<rec, pin, link>>
  BY <1>1, <1>2, <1>5, LinkShapes, JobGoesOn, LinksChange, Zenon DEF Quiet, ShapeInv, disk
<1>6. CASE CompareUpdate(s, d.prog, a.prog) /\ UNCHANGED <<rec, pin>>
  <2>1. job' = NextSlot
    BY <1>6, Zenon DEF CompareUpdate
  <2>2. link' \in [Links -> LinkType]
    BY <1>1, <1>2, <1>6, LinkShapes, Zenon
  <2>3. QED
    BY <1>1, <1>2, <1>6, <2>1, <2>2, JobGoesOn, LinksChange, Zenon DEF Quiet, ShapeInv, disk
<1>7. QED
  BY <1>3, <1>4, <1>5, <1>6, Zenon DEF RollbackOld

\* A replacement that the rollback needs, or undoes, is journaled.
LEMMA RollbackReplaceStep ==
    ASSUME TransactionAssumption, OwnerInv, NEW s \in Slots,
           RollbackReplace(s) \/ RollbackReplacement(s)
    PROVE  OwnerInv' /\ CommitStep
<1> DEFINE a == rec.act[s]
<1>1. RollbackAt(s) /\ ShapeInv
  BY Zenon DEF RollbackReplace, RollbackReplacement, OwnerInv
<1>2. /\ a \in BindingType /\ Binding = a /\ RollingBack /\ job.i = s /\ Slot = s
      /\ pin[s] \in 0 .. MaxLink /\ a.prog \in Progs \cup {0}
  BY <1>1, RollbackBinding, BindingShapes, Zenon
<1>3. CASE Unpin(s) /\ UNCHANGED <<rec, job>> /\ Quiet
  BY <1>1, <1>3, LinkShapes, JobGoesOn, LinksChange, Zenon DEF Quiet, ShapeInv, disk
<1>4. CASE Attach(s, a.prog)
  BY <1>1, <1>2, <1>4, AttachShape, JobGoesOn, LinksChange, Zenon DEF ShapeInv
<1>5. CASE job' = Failed /\ UNCHANGED <<rec, pin, link>> /\ Quiet
  BY <1>1, <1>5, LinkShapes, JobGoesOn, LinksChange, Zenon DEF Quiet, ShapeInv, disk
<1>6. CASE Persist(SetBinding(Cleared(a)), job) /\ UNCHANGED <<pin, link>> /\ Quiet
  <2>1. Cleared(a) \in BindingType /\ Cleared(a).prog = Binding.prog
    BY <1>2, BindingShapes, Zenon
  <2>2. QED
    BY <1>2, <1>6, <2>1, BindingStep, Zenon DEF Persist, Quiet, kernel
<1>7. CASE IdentityComplete /\ UNCHANGED <<pin, link>> /\ Quiet
  <2>1. CASE Binding.pend \/ Binding.link # pin[Slot]
    <3>1. Identified(a, pin[s], FALSE) \in BindingType /\ Identified(a, pin[s], FALSE).prog = Binding.prog
      BY <1>2, BindingShapes, Zenon
    <3>2. Persist(SetBinding(Identified(a, pin[s], FALSE)), NextSlot)
      BY <1>2, <1>7, <2>1, Zenon DEF IdentityComplete
    <3>3. QED
      BY <1>2, <1>7, <3>1, <3>2, BindingStep, Zenon DEF Persist, Quiet, kernel
  <2>2. CASE ~(Binding.pend \/ Binding.link # pin[Slot])
    <3>1. job' = NextSlot /\ UNCHANGED rec
      BY <1>7, <2>2, Zenon DEF IdentityComplete
    <3>2. QED
      BY <1>1, <1>2, <1>7, <3>1, LinkShapes, JobGoesOn, LinksChange, Zenon DEF Quiet, ShapeInv, disk
  <2>3. QED
    BY <2>1, <2>2, Zenon
<1>8. QED
  BY <1>3, <1>4, <1>5, <1>6, <1>7, Zenon DEF RollbackReplace, RollbackReplacement

\* Behind the last slot the rollback is entered as done, or fails.
LEMMA RolledBackStep ==
    ASSUME TransactionAssumption, OwnerInv, RolledBack
    PROVE  OwnerInv' /\ CommitStep
<1>1. In("applying", "rolling_back") /\ ShapeInv
  BY Zenon DEF RolledBack, RollingBack, Recovering, OwnerInv
<1>2. CASE Attached(rec.act)
  <2>1. gen = rec.agen /\ data[rec.ngen] = "full" /\ InBank(rec.des, rec.ngen)
    BY <1>1, Zenon DEF OwnerInv, LogicInv, PhaseInv, WholeInv, In
  <2>2. /\ OwnerInv' /\ rec'.phase = rec.phase /\ rec'.step = "rollback_cleanup"
        /\ rec'.ngen = rec.ngen /\ gen' = gen
    BY <1>1, <1>2, <2>1, RecordAdvances, Zenon DEF RolledBack, In, Steps
  <2>3. Stage' = Stage /\ Published' = Published
    BY <1>1, <2>2, Zenon DEF Stage, Published, In
  <2>4. QED
    BY <2>2, <2>3, PublishedIs, Zenon DEF OwnerInv, LogicInv, CommitStep, Commit!vars
<1>3. CASE ~Attached(rec.act)
  BY <1>1, <1>3, LinkShapes, JobGoesOn, LinksChange, Zenon DEF RolledBack, kernel, ShapeInv, disk
<1>4. QED
  BY <1>2, <1>3, Zenon

\* Whatever the rollback does to a slot keeps the invariant.
LEMMA RollbackStep ==
    ASSUME TransactionAssumption, OwnerInv, Rollback
    PROVE  OwnerInv' /\ CommitStep
BY RollbackLinksStep, RollbackOldStep, RollbackReplaceStep, RolledBackStep, Zenon DEF Rollback
-----------------------------------------------------------------------------
(* Recovery *)

\* reconcileDetachedActiveExactTCXLinks marks or drops bindings of the active list.
LEMMA ActiveChanges ==
    ASSUME TransactionAssumption, OwnerInv, rec.phase = "active", NEW st \in {"ready", "retiring"},
           NEW act \in [Slots -> BindingType], \A t \in Slots : act[t].prog \in {0, rec.act[t].prog},
           Persist([rec EXCEPT !.step = st, !.act = act], job), job.pc = "recover",
           UNCHANGED <<dir, files, kernel, dev, fd, retained, calm>>
    PROVE  OwnerInv' /\ CommitStep
<1> USE DEF OwnerInv, LogicInv
<1>1. rec' \in RecordType
  BY Zenon DEF Persist, ShapeInv, RecordType, Steps
<1>2. /\ rec'.phase = "active" /\ rec'.step = st /\ rec'.agen = rec.agen /\ rec'.ngen = rec.ngen
      /\ rec'.act = act
  BY Zenon DEF Persist, ShapeInv, RecordType
<1>3. job' \in JobType /\ job'.pc \in {"recover", "idle"}
  BY JobShapes, Zenon DEF Persist, ShapeInv
<1>4. ShapeInv'
  BY <1>1, <1>3, ShapeKept, Zenon DEF kernel, ShapeInv
<1>5. PhaseInv'
  BY <1>2, Zenon DEF PhaseInv, kernel
<1>6. CallInv'
  BY <1>2, <1>3, Zenon DEF CallInv
<1>7. DirInv'
  BY <1>2, Zenon DEF DirInv
<1>8. WholeInv'
  BY <1>2, <1>3, Zenon DEF WholeInv, InBank, PhaseInv, kernel
<1>9. CommitStep
  BY <1>2, <1>5, SameCommit, Zenon DEF kernel
<1>10. QED
  BY <1>4, <1>5, <1>6, <1>7, <1>8, <1>9, Zenon

\* Recovery of an active record drops the bindings of devices that are gone.
LEMMA ReconcileActiveStep ==
    ASSUME TransactionAssumption, OwnerInv, NEW s \in Slots, ReconcileActive(s)
    PROVE  OwnerInv' /\ CommitStep
<1> DEFINE a == rec.act[s]
           rest == [rec.act EXCEPT ![s] = NoBinding]
           st == IF \E t \in Slots : rest[t].ret THEN "retiring" ELSE "ready"
           marked == [rec.act EXCEPT ![s] = Retiring(a)]
<1>1. job.pc = "recover" /\ rec.phase = "active" /\ Quiet /\ ShapeInv
  BY Zenon DEF ReconcileActive, At, OwnerInv
<1>2. rec.act \in [Slots -> BindingType] /\ a \in BindingType /\ rec \in RecordType
  BY <1>1, Zenon DEF ShapeInv, RecordType
<1>3. CASE /\ Persist([rec EXCEPT !.step = "retiring", !.act[s] = Retiring(a)], job)
           /\ UNCHANGED <<pin, link>>
  <2>1. Retiring(a) \in BindingType /\ Retiring(a).prog = a.prog
    BY <1>2, BindingShapes, Zenon
  <2>2. marked \in [Slots -> BindingType] /\ \A t \in Slots : marked[t].prog \in {0, rec.act[t].prog}
    BY <1>2, <2>1, Zenon
  <2>3. [rec EXCEPT !.step = "retiring", !.act[s] = Retiring(a)] = [rec EXCEPT !.step = "retiring", !.act = marked]
    BY <1>2, Zenon DEF RecordType
  <2>4. Persist([rec EXCEPT !.step = "retiring", !.act = marked], job)
    BY <1>3, <2>3, Zenon
  <2>5. QED
    BY <1>1, <1>3, <2>2, <2>4, ActiveChanges, Zenon DEF Quiet, kernel
<1>4. CASE Unpin(s) /\ UNCHANGED <<rec, job>>
  BY <1>1, <1>4, LinkShapes, JobGoesOn, LinksChange, Zenon DEF Quiet, ShapeInv, disk
<1>5. CASE Persist([rec EXCEPT !.act = rest, !.step = st], job) /\ UNCHANGED <<pin, link>>
  <2>1. rest \in [Slots -> BindingType] /\ \A t \in Slots : rest[t].prog \in {0, rec.act[t].prog}
    BY <1>2, NoBindingShape, Zenon
  <2>2. [rec EXCEPT !.act = rest, !.step = st] = [rec EXCEPT !.step = st, !.act = rest]
    BY <1>2, Zenon DEF RecordType
  <2>3. QED
    BY <1>1, <1>5, <2>1, <2>2, ActiveChanges, Zenon DEF Quiet, kernel
<1>6. QED
  BY <1>3, <1>4, <1>5, Zenon DEF ReconcileActive

\* Nothing is left to recover, or a device is gone for good: the call goes on or ends.
LEMMA RecoveredStep ==
    ASSUME TransactionAssumption, OwnerInv, RecoverActive \/ RefuseDetached
    PROVE  OwnerInv' /\ CommitStep
<1> USE DEF OwnerInv, LogicInv
<1>1. UNCHANGED <<disk, kernel, dev, fd, retained, calm>>
  BY Zenon DEF RecoverActive, RefuseDetached
<1>2. /\ job' \in JobType
      /\ job'.pc = "idle" \/ (rec.phase = "active" /\ job'.pc \in {"journal", "detach", "trim"})
  BY JobShapes, Zenon DEF RecoverActive, RefuseDetached, Recovering, In
<1>3. ShapeInv'
  BY <1>1, <1>2, ShapeKept, Zenon DEF kernel, disk, ShapeInv
<1>4. DirInv'
  BY <1>1, Zenon DEF DirInv, disk
<1>5. CallInv'
  BY <1>1, <1>2, Zenon DEF CallInv, DirInv, disk
<1>6. QED
  BY <1>1, <1>2, <1>3, <1>4, <1>5, CallMoves, Zenon DEF disk, kernel

\* The control word decides what becomes of an interrupted transaction.
LEMMA DecideStep ==
    ASSUME TransactionAssumption, OwnerInv, Decide
    PROVE  OwnerInv' /\ CommitStep
<1> USE DEF OwnerInv, LogicInv
<1>1. In("applying", "mutating") /\ data[rec.ngen] = "full" /\ InBank(rec.des, rec.ngen)
  BY Zenon DEF Decide, Recovering, In, WholeInv
<1>2. CASE gen = rec.ngen
  <2>1. job' = Goto("forward") /\ UNCHANGED <<disk, kernel, dev, fd, retained, calm>>
    BY <1>2, Zenon DEF Decide, disk
  <2>2. job' \in JobType /\ job'.pc = "forward"
    BY <2>1, JobShapes, Zenon DEF Labels
  <2>3. ShapeInv'
    BY <2>1, <2>2, ShapeKept, Zenon DEF kernel, disk, ShapeInv
  <2>4. DirInv'
    BY <2>1, Zenon DEF DirInv, disk
  <2>5. CallInv'
    BY <1>1, <1>2, <2>1, <2>2, Zenon DEF CallInv, In, disk, kernel
  <2>6. QED
    BY <2>1, <2>2, <2>3, <2>4, <2>5, CallMoves, Zenon DEF disk, kernel
<1>3. CASE gen # rec.ngen
  <2>1. gen = rec.agen
    BY <1>1, <1>3, Zenon DEF PhaseInv, In
  <2>2. /\ OwnerInv' /\ rec'.phase = rec.phase /\ rec'.step = "rolling_back"
        /\ rec'.ngen = rec.ngen /\ gen' = gen
    BY <1>1, <1>3, <2>1, RecordAdvances, Zenon DEF Decide, In, Steps
  <2>3. Stage = "pending" /\ Stage' = "undoing" /\ Published' = Published
    BY <1>1, <1>3, <2>2, Zenon DEF Stage, Published, In
  <2>4. QED
    BY <2>2, <2>3, PublishedIs, Zenon DEF CommitStep, Commit!Next, Commit!Undo
<1>4. QED
  BY <1>2, <1>3, Zenon
\* removeStaleOwnerExactTCXLinks and removeOwnerProgramStages.
LEMMA RemoveStep ==
    ASSUME TransactionAssumption, OwnerInv,
           (\E s \in Slots : RemoveStale(s)) \/ (\E p \in Progs : RemoveStage(p))
    PROVE  OwnerInv' /\ CommitStep
<1>1. ShapeInv
  BY Zenon DEF OwnerInv
<1>2. ASSUME NEW s \in Slots, RemoveStale(s) PROVE OwnerInv' /\ CommitStep
  BY <1>1, <1>2, LinkShapes, JobGoesOn, LinksChange, Zenon DEF RemoveStale, Quiet, ShapeInv, disk
<1>3. ASSUME NEW p \in Progs, RemoveStage(p) PROVE OwnerInv' /\ CommitStep
  <2>1. UNCHANGED <<rec, dir, kernel, dev, job, fd, retained, calm>> /\ rec.phase # "none"
    BY <1>3, Zenon DEF RemoveStage, At, OwnerInv, LogicInv, CallInv
  <2>2. ShapeInv'
    BY <1>1, <2>1, ShapeKept, Zenon DEF kernel, ShapeInv
  <2>3. DirInv'
    BY <2>1, Zenon DEF OwnerInv, LogicInv, DirInv
  <2>4. QED
    BY <2>1, <2>2, <2>3, CallStays, Zenon DEF OwnerInv, kernel
<1>4. QED
  BY <1>2, <1>3, Zenon

\* A transaction that is over: the record is active, or a first generation is
\* taken down.
LEMMA FinishApplyingStep ==
    ASSUME TransactionAssumption, OwnerInv, FinishApplying
    PROVE  OwnerInv' /\ CommitStep
<1> USE DEF OwnerInv, LogicInv
<1>1. /\ rec.phase = "applying" /\ MayUnstage /\ 0 \in Gens
      /\ UNCHANGED <<dir, files, kernel, dev, fd, retained, calm>>
  BY DEF FinishApplying, TransactionAssumption, Gens
<1>2. /\ rec.agen \in Gens /\ rec.ngen \in Gens /\ rec.ngen = rec.agen + 1 /\ rec.agen \in Nat
      /\ rec.act \in [Slots -> BindingType] /\ rec.des \in [Slots -> BindingType]
  BY <1>1 DEF PhaseInv, ShapeInv, RecordType, Gens
<1>3. CASE rec.step = "cleanup"
  <2> DEFINE act == [s \in Slots |-> Settled(rec.des[s])]
  <2>1. act \in [Slots -> BindingType] /\ \A s \in Slots : act[s].prog = rec.des[s].prog
    BY <1>2, BindingShapes, Zenon
  <2>2. gen = rec.ngen /\ data[rec.ngen] = "full" /\ InBank(rec.des, rec.ngen)
    BY <1>1, <1>3, ZenonT(30) DEF PhaseInv, WholeInv
  <2>3. /\ rec'.phase = "active" /\ rec'.step = "ready" /\ rec'.agen = rec.ngen /\ rec'.ngen = 0
        /\ rec'.act = act /\ rec' \in RecordType
    BY <1>1, <1>2, <1>3, <2>1, NoBindingShape DEF FinishApplying, Persist, Completed, RecordType,
         Steps
  <2>4. job' \in JobType /\ job'.pc \in {"idle", "journal", "detach", "trim"}
    BY <1>3, JobShapes, Zenon DEF FinishApplying, Persist
  <2>5. ShapeInv'
    BY <1>1, <2>3, <2>4, ShapeKept, Zenon DEF kernel, ShapeInv
  <2>6. PhaseInv'
    <3>1. gen' = gen /\ rec'.agen # 0 /\ rec'.phase = "active" /\ rec'.step = "ready" /\ rec'.ngen = 0
      BY <1>1, <1>2, <2>3 DEF kernel
    <3>2. gen' = rec'.agen
      BY <2>2, <2>3, <3>1, Zenon
    <3>3. QED
      BY <3>1, <3>2, Zenon DEF PhaseInv
  <2>7. CallInv' /\ DirInv'
    BY <1>1, <2>3, <2>4, Zenon DEF CallInv, DirInv
  <2>8. WholeInv'
    <3>1. /\ rec'.phase = "active" /\ rec'.step = "ready" /\ rec'.agen = rec.ngen /\ rec'.agen # 0
          /\ data' = data /\ bank' = bank /\ data'[rec'.agen] = "full"
          /\ job'.pc \notin {"fill", "filled", "bank", "stage"}
      BY <1>1, <1>2, <2>2, <2>3, <2>4 DEF kernel
    <3>2. InBank(rec.act, rec.agen)'
      BY <2>1, <2>2, <2>3, <3>1, Zenon DEF InBank
    <3>3. QED
      BY <3>1, <3>2, Zenon DEF WholeInv
  <2>9. Stage = "published" /\ Stage' = "idle" /\ Published' = Published
    BY <1>1, <1>3, <2>2, <2>3, Zenon DEF Stage, Published, kernel
  <2>10. CommitStep
    BY <2>3, <2>6, <2>9, PublishedIs, Zenon DEF CommitStep, Commit!Next, Commit!Finish
  <2>11. QED
    BY <2>5, <2>6, <2>7, <2>8, <2>10, Zenon
<1>4. CASE rec.step # "cleanup"
  <2>1. rec.step \in {"staging", "rollback_cleanup"} /\ gen = rec.agen /\ BackToOld
    BY <1>1, <1>4, Zenon DEF FinishApplying, MayUnstage, In
  <2>2. Stage \in {"pending", "undoing"} /\ Published = rec.agen
    BY <1>1, <1>2, <2>1 DEF Stage, Published
  <2>3. CASE rec.agen = 0
    <3>1. /\ rec' \in RecordType /\ rec'.phase = "detaching" /\ rec'.step = "staging"
          /\ rec'.agen = rec.agen /\ rec'.ngen = 0 /\ rec'.act = rec.act /\ rec'.des = NoBindings
      BY <2>1, <2>3, DetachingShape, Zenon DEF BackToOld, Persist
    <3>2. job' \in JobType /\ job'.pc \in {"idle", "recover"}
      BY <2>1, <2>3, JobShapes, Zenon DEF BackToOld, Persist, Labels
    <3>3. ShapeInv'
      BY <1>1, <3>1, <3>2, ShapeKept, Zenon DEF kernel, ShapeInv
    <3>4. PhaseInv'
      BY <1>1, <2>1, <3>1, Zenon DEF PhaseInv, kernel
    <3>5. CallInv' /\ DirInv'
      BY <1>1, <3>1, <3>2 DEF CallInv, DirInv
    <3>6. WholeInv'
      BY <1>1, <2>3, <3>1, <3>2, Zenon DEF WholeInv, kernel
    <3>7. Stage' = "removing" /\ Published' = Published
      BY <1>1, <2>1, <2>2, <3>1 DEF Stage, Published, kernel
    <3>8. CommitStep
      BY <2>2, <2>3, <3>1, <3>4, <3>7, PublishedIs DEF CommitStep, Commit!Next, Commit!Undone
    <3>9. QED
      BY <3>3, <3>4, <3>5, <3>6, <3>8, Zenon
  <2>4. CASE rec.agen # 0
    <3> DEFINE act == [s \in Slots |-> [rec.act[s] EXCEPT !.repl = 0]]
    <3>1. act \in [Slots -> BindingType] /\ \A s \in Slots : act[s].prog = rec.act[s].prog
      <4>1. 0 \in 0 .. MaxLink
        BY DEF TransactionAssumption
      <4>2. ASSUME NEW b \in BindingType
            PROVE  [b EXCEPT !.repl = 0] \in BindingType /\ [b EXCEPT !.repl = 0].prog = b.prog
        BY <4>1, Zenon DEF BindingType
      <4>3. QED
        BY <1>2, <4>2, Zenon
    <3>2. /\ rec'.phase = "active" /\ rec'.step = "ready" /\ rec'.agen = rec.agen /\ rec'.ngen = 0
          /\ rec'.act = act /\ rec' \in RecordType
      BY <1>1, <1>2, <2>1, <2>4, <3>1, NoBindingShape DEF BackToOld, Persist, Aborted,
           RecordType, Steps
    <3>3. job' \in JobType /\ job'.pc \in {"idle", "recover", "journal", "detach", "trim"}
      BY <2>1, <2>4, JobShapes DEF BackToOld, Persist, Labels
    <3>4. ShapeInv'
      BY <1>1, <3>2, <3>3, ShapeKept, Zenon DEF kernel, ShapeInv
    <3>5. PhaseInv'
      BY <1>1, <2>1, <2>4, <3>2 DEF PhaseInv, kernel
    <3>6. CallInv' /\ DirInv'
      BY <1>1, <3>2, <3>3, ZenonT(30) DEF CallInv, DirInv
    <3>7. WholeInv'
      BY <1>1, <2>1, <2>4, <3>1, <3>2, <3>3 DEF WholeInv, InBank, kernel
    <3>8. Stage' = "idle" /\ Published' = Published
      BY <1>1, <2>1, <2>2, <3>2, Zenon DEF Stage, Published, kernel
    <3>9. CommitStep
      BY <2>2, <2>4, <3>2, <3>5, <3>8, PublishedIs DEF CommitStep, Commit!Next, Commit!Undone
    <3>10. QED
      BY <3>4, <3>5, <3>6, <3>7, <3>9, Zenon
  <2>5. QED
    BY <2>3, <2>4, Zenon
<1>5. QED
  BY <1>3, <1>4, Zenon
-----------------------------------------------------------------------------
(* Detach *)

\* newDetachingPinOwnerRecord: from here on the generation is taken away.
LEMMA BeginDetachStep ==
    ASSUME TransactionAssumption, OwnerInv, BeginDetach
    PROVE  OwnerInv' /\ CommitStep
<1> USE DEF OwnerInv, LogicInv
<1>1. /\ rec.phase = "active" /\ gen = rec.agen /\ rec.agen # 0 /\ rec.ngen = 0
      /\ UNCHANGED <<dir, files, kernel, dev, fd, retained, calm>>
  BY Zenon DEF BeginDetach, At, CallInv, PhaseInv
<1>2. /\ rec' \in RecordType /\ rec'.phase = "detaching" /\ rec'.step = "staging"
      /\ rec'.agen = rec.agen /\ rec'.ngen = 0 /\ rec'.act = rec.act /\ rec'.des = NoBindings
  BY DetachingShape, Zenon DEF BeginDetach, Persist
<1>3. job' \in JobType /\ job'.pc \in {"idle", "recover"}
  BY JobShapes, Zenon DEF BeginDetach, Persist, Labels
<1>4. ShapeInv'
  BY <1>1, <1>2, <1>3, ShapeKept, Zenon DEF kernel, ShapeInv
<1>5. PhaseInv'
  BY <1>1, <1>2, Zenon DEF PhaseInv, kernel
<1>6. CallInv' /\ DirInv'
  BY <1>1, <1>2, <1>3, Zenon DEF CallInv, DirInv
<1>7. WholeInv'
  BY <1>1, <1>2, <1>3, Zenon DEF WholeInv, InBank, kernel
<1>8. Stage = "idle" /\ Stage' = "removing" /\ Published' = Published
  BY <1>1, <1>2, Zenon DEF Stage, Published, kernel
<1>9. CommitStep
  BY <1>1, <1>2, <1>5, <1>8, PublishedIs, Zenon DEF CommitStep, Commit!Next, Commit!Remove
<1>10. QED
  BY <1>4, <1>5, <1>6, <1>7, <1>9, Zenon

\* The steps of a detach are journaled one by one.
LEMMA DetachAdvances ==
    ASSUME TransactionAssumption, OwnerInv, BeginDetachLinks \/ BeginUnlinkMaps \/ BeginCleanupStages
    PROVE  OwnerInv' /\ CommitStep
<1>1. rec.phase = "detaching" /\ UNCHANGED <<dir, files, kernel, dev, fd, retained, calm>>
  BY Zenon DEF BeginDetachLinks, BeginUnlinkMaps, BeginCleanupStages, Recovering, In
<1>2. PICK s \in {"mutating_tc", "unlinking_maps", "cleanup_stages"} :
        Persist(Advance("detaching", s), Goto("recover"))
  BY Zenon DEF BeginDetachLinks, BeginUnlinkMaps, BeginCleanupStages
<1>3. OwnerInv' /\ rec'.phase = rec.phase /\ rec'.step = s /\ rec'.ngen = rec.ngen /\ gen' = gen
  BY <1>1, <1>2, RecordAdvances, Zenon DEF Steps
<1>4. CommitStep
  BY <1>1, <1>3, SameCommit, Zenon DEF OwnerInv, LogicInv
<1>5. QED
  BY <1>3, <1>4, Zenon

\* Maps and their stages come and go while the record says so.
LEMMA DetachFilesStep ==
    ASSUME TransactionAssumption, OwnerInv, NEW m \in Maps,
           StageMap(m) \/ UnlinkMap(m) \/ UnlinkMapStage(m)
    PROVE  OwnerInv' /\ CommitStep
<1> USE DEF OwnerInv, LogicInv
<1>1. rec.phase = "detaching" /\ UNCHANGED <<rec, dir, kernel, dev, job, fd, retained, calm>>
  BY Zenon DEF StageMap, UnlinkMap, UnlinkMapStage, Recovering, In
<1>2. ShapeInv'
  BY <1>1, ShapeKept, Zenon DEF kernel, ShapeInv
<1>3. DirInv'
  BY <1>1, ZenonT(30) DEF DirInv
<1>4. QED
  BY <1>1, <1>2, <1>3, CallStays, Zenon DEF kernel

\* The record goes with the last entry.
LEMMA RemoveRecordStep ==
    ASSUME TransactionAssumption, OwnerInv, RemoveRecord
    PROVE  OwnerInv' /\ CommitStep
<1> USE DEF OwnerInv, LogicInv
<1>1. /\ rec.phase = "detaching" /\ rec.ngen = 0 /\ files = {} /\ rec' = NoRecord /\ 0 \in Gens
      /\ UNCHANGED <<dir, files, kernel, dev, fd, retained, calm>>
  BY DEF RemoveRecord, Recovering, In, PhaseInv, Persist, TransactionAssumption, Gens
<1>2. NoRecord \in RecordType /\ NoRecord.phase = "none" /\ NoRecord.ngen = 0
  BY <1>1, NoBindingShape, Zenon DEF NoRecord, RecordType, Steps
<1>3. job' \in JobType /\ job'.pc \in {"idle", "rmdir"}
  BY JobShapes, Zenon DEF RemoveRecord, Persist, Labels
<1>4. ShapeInv'
  BY <1>1, <1>2, <1>3, ShapeKept, Zenon DEF kernel, ShapeInv
<1>5. PhaseInv'
  BY <1>1, <1>2, Zenon DEF PhaseInv
<1>6. CallInv' /\ DirInv'
  BY <1>1, <1>2, <1>3, Zenon DEF CallInv, DirInv
<1>7. WholeInv'
  BY <1>1, <1>2, <1>3, Zenon DEF WholeInv
<1>8. Stage = "removing" /\ Stage' = "idle" /\ Published' = 0
  BY <1>1, <1>2, Zenon DEF Stage, Published
<1>9. CommitStep
  BY <1>1, <1>2, <1>5, <1>8, PublishedIs, Zenon DEF CommitStep, Commit!Next, Commit!Removed
<1>10. QED
  BY <1>4, <1>5, <1>6, <1>7, <1>9, Zenon

\* The directory goes after its record.
LEMMA RemoveDirectoryStep ==
    ASSUME TransactionAssumption, OwnerInv, RemoveDirectory \/ DetachEmpty
    PROVE  OwnerInv' /\ CommitStep
<1> USE DEF OwnerInv, LogicInv
<1>1. /\ rec.phase = "none" /\ dir' = FALSE /\ job'.pc = "idle" /\ job' \in JobType
      /\ UNCHANGED <<rec, files, kernel, dev, fd, retained, calm>>
  BY JobShapes DEF RemoveDirectory, DetachEmpty, At, CallInv, NoRecord, ShapeInv
<1>2. ShapeInv'
  BY <1>1, ShapeKept, Zenon DEF kernel, ShapeInv
<1>3. DirInv' /\ CallInv'
  BY <1>1, Zenon DEF DirInv, CallInv
<1>4. QED
  BY <1>1, <1>2, <1>3, CallMoves, ZenonT(30) DEF kernel

\* Every step of a detach keeps the invariant.
LEMMA DetachStep ==
    ASSUME TransactionAssumption, OwnerInv, Detach
    PROVE  OwnerInv' /\ CommitStep
<1>1. ASSUME NEW s \in Slots, DetachLink(s) PROVE OwnerInv' /\ CommitStep
  BY <1>1, LinkShapes, JobGoesOn, LinksChange, Zenon DEF OwnerInv, DetachLink, Quiet, ShapeInv, disk
<1>2. QED
  BY <1>1, BeginDetachStep, DetachAdvances, DetachFilesStep, RemoveRecordStep,
       RemoveDirectoryStep, Zenon
     DEF Detach
-----------------------------------------------------------------------------
(* Starts and faults *)

\* A call begins with the record as it is.
LEMMA StartStep ==
    ASSUME TransactionAssumption, OwnerInv,
           StartDetach \/ \E target \in SUBSET Slots : StartApply(target)
    PROVE  OwnerInv' /\ CommitStep
<1> USE DEF OwnerInv, LogicInv
<1>1. /\ UNCHANGED <<rec, files, kernel, dev, fd, retained, calm>> /\ dir' \in BOOLEAN /\ (dir => dir')
      /\ job' \in JobType /\ job'.pc \in {"journal", "recover"}
      /\ job'.pc = "journal" => rec.phase = "none" /\ dir'
      /\ job'.pc = "recover" => rec.phase # "none"
  <2>1. 1 \in 1 .. NSlots + 1
    BY DEF TransactionAssumption
  <2>2. rec = NoRecord <=> rec.phase = "none"
    BY DEF PhaseInv, NoRecord
  <2>3. CASE StartDetach
    BY <2>1, <2>2, <2>3, Zenon DEF StartDetach, disk, ShapeInv, JobType, Labels
  <2>4. CASE \E target \in SUBSET Slots : StartApply(target)
    BY <2>1, <2>2, <2>4 DEF StartApply, JobType, Labels
  <2>5. QED
    BY <2>3, <2>4, Zenon
<1>2. ShapeInv'
  BY <1>1, ShapeKept, Zenon DEF kernel, ShapeInv
<1>3. DirInv' /\ CallInv'
  BY <1>1, Zenon DEF DirInv, CallInv
<1>4. QED
  BY <1>1, <1>2, <1>3, CallMoves, Zenon DEF kernel

\* A failed call, a kill, and devices that come and go leave the record alone.
LEMMA FaultStep ==
    ASSUME TransactionAssumption, OwnerInv,
           \/ CallFails \/ Crash \/ BecomeCalm
           \/ \E s \in Slots : DeviceGone(s) \/ DeviceBack(s)
    PROVE  OwnerInv' /\ CommitStep
<1>1. ShapeInv
  BY Zenon DEF OwnerInv
<1>2. CASE CallFails
  BY <1>1, <1>2, LinkShapes, JobGoesOn, LinksChange DEF CallFails, ShapeInv, TransactionAssumption
<1>3. CASE Crash
  <2>1. link' \in [Links -> LinkType]
    BY <1>1, <1>3, LinkShapes, Zenon DEF Crash
  <2>2. QED
    BY <1>1, <1>3, <2>1, JobGoesOn, LinksChange DEF Crash, ShapeInv, TransactionAssumption
<1>4. CASE BecomeCalm
  BY <1>1, <1>4, LinkShapes, JobGoesOn, LinksChange, Zenon DEF BecomeCalm, kernel, ShapeInv
<1>5. ASSUME NEW s \in Slots, DeviceGone(s) PROVE OwnerInv' /\ CommitStep
  <2>1. \A x \in LinkType : [x EXCEPT !.up = FALSE] \in LinkType
    BY Zenon DEF LinkType
  <2>2. link' \in [Links -> LinkType]
    BY <1>1, <1>5, <2>1, LinkShapes, Zenon DEF DeviceGone
  <2>3. QED
    BY <1>1, <1>5, <2>2, JobGoesOn, LinksChange, Zenon DEF DeviceGone, ShapeInv
<1>6. ASSUME NEW s \in Slots, DeviceBack(s) PROVE OwnerInv' /\ CommitStep
  BY <1>1, <1>6, LinkShapes, JobGoesOn, LinksChange DEF DeviceBack, kernel, ShapeInv
<1>7. QED
  BY <1>2, <1>3, <1>4, <1>5, <1>6, Zenon

-----------------------------------------------------------------------------
(* The theorems *)

\* An empty directory satisfies the invariant.
LEMMA OwnerInvInit ==
    ASSUME TransactionAssumption, Init
    PROVE  OwnerInv /\ Commit!Init
<1>1. 0 \in Gens /\ 0 \in 0 .. MaxLink /\ 1 \in 1 .. NSlots + 1
  BY DEF TransactionAssumption, Gens
<1>2. rec \in RecordType /\ rec.phase = "none" /\ rec.ngen = 0 /\ rec = NoRecord
  BY <1>1, NoBindingShape, Zenon DEF Init, NoRecord, RecordType, Steps
<1>3. job \in JobType /\ job.pc = "idle"
  BY <1>1, Zenon DEF Init, Idle, JobType, Labels
<1>4. ShapeInv
  <2>1. link \in [Links -> LinkType]
    BY Zenon DEF Init, NoLink, LinkType
  <2>2. QED
    BY <1>1, <1>2, <1>3, <2>1, Zenon DEF Init, ShapeInv, LinkType
<1>5. LogicInv
  BY <1>2, <1>3, Zenon DEF Init, LogicInv, PhaseInv, CallInv, DirInv, WholeInv
<1>6. Stage = "idle"
  BY <1>2, Zenon DEF Stage
<1>7. QED
  BY <1>2, <1>4, <1>5, <1>6, Zenon DEF OwnerInv, Commit!Init

\* Every step keeps the invariant and commits at most one generation.
LEMMA OwnerInvNext ==
    ASSUME TransactionAssumption, OwnerInv, [Next]_vars
    PROVE  OwnerInv' /\ CommitStep
<1>1. CASE Apply
  BY <1>1, JournalStep, JournalEndStep, PinMapStep, DataStep, FillBankStep, StageProgramStep,
     BeginMutatingStep, CommitControlStep, BeginCleanupStep, TrimStep DEF Apply
<1>2. CASE Converge \/ StageAttachment \/ Rollback \/ Detach
  BY <1>2, ConvergeStep, StageAttachmentStep, RollbackStep, DetachStep, Zenon
<1>3. CASE Recover
  BY <1>3, RecoveredStep, DecideStep, FinishApplyingStep, ReconcileActiveStep, RemoveStep,
       ZenonT(30) DEF Recover
<1>4. CASE UNCHANGED vars
  <2>1. UNCHANGED <<disk, kernel, dev, job, fd, retained, calm>>
    BY <1>4, Zenon DEF vars
  <2>2. QED
    BY <2>1, LinkShapes, JobGoesOn, LinksChange, Zenon DEF OwnerInv, ShapeInv, kernel
<1>5. QED
  BY <1>1, <1>2, <1>3, <1>4, StartStep, FaultStep, RemoveDirectoryStep DEF Next, Work

\* The invariant holds in every reachable state of Apply, Detach and recovery.
THEOREM OwnerInvariant ==
    ASSUME TransactionAssumption
    PROVE  Spec => []OwnerInv
<1>1. Init => OwnerInv
  BY OwnerInvInit, Zenon
<1>2. OwnerInv /\ [Next]_vars => OwnerInv'
  BY OwnerInvNext, Zenon
<1>3. QED
  BY <1>1, <1>2, PTL DEF Spec

\* Apply and Detach with their recovery commit generations as GenerationCommit
\* says: commitControl is the one step that publishes, and no crash, failure or
\* lost device makes recovery undo what is published or publish what it undoes.
THEOREM OwnerCommitsOnce ==
    ASSUME TransactionAssumption
    PROVE  Spec => CommitsOnce
<1>1. Init => OwnerInv /\ Commit!Init
  BY OwnerInvInit, Zenon
<1>2. OwnerInv /\ [Next]_vars => OwnerInv' /\ CommitStep
  BY OwnerInvNext, Zenon
<1>3. QED
  BY <1>1, <1>2, PTL DEF Spec, CommitsOnce, CommitStep, Commit!Spec

\* populateDataMaps, populateXORTailCalls, commitControl: what is published has
\* all of its entries and its own tail calls.
THEOREM OwnerPublishesWhole ==
    ASSUME TransactionAssumption
    PROVE  Spec => []PublishedIsWhole
<1>1. OwnerInv => PublishedIsWhole
  <2> SUFFICES ASSUME OwnerInv, rec # NoRecord, gen # 0
               PROVE  /\ data[gen] = "full"
                      /\ Programs(IF gen = rec.ngen THEN rec.des ELSE rec.act) \subseteq {bank[gen % 2]}
    BY Zenon DEF PublishedIsWhole
  <2> USE DEF OwnerInv, LogicInv
  <2>1. rec.phase \in {"active", "applying", "detaching"}
    BY Zenon DEF ShapeInv, RecordType, PhaseInv
  <2>2. CASE rec.phase = "applying" /\ gen = rec.ngen
    <3>1. rec.step \in {"mutating", "cleanup"}
      <4>1. rec.ngen # rec.agen
        BY <2>2 DEF PhaseInv, ShapeInv, RecordType, Gens
      <4>2. QED
        BY <2>2, <4>1, Zenon DEF PhaseInv
    <3>2. QED
      BY <2>2, <3>1, Zenon DEF WholeInv, InBank, Programs
  <2>3. CASE ~(rec.phase = "applying" /\ gen = rec.ngen)
    <3>1. gen = rec.agen /\ gen # rec.ngen
      BY <2>1, <2>3, Zenon DEF PhaseInv
    <3>2. QED
      BY <2>1, <3>1, Zenon DEF WholeInv, InBank, Programs
  <2>4. QED
    BY <2>2, <2>3, Zenon
<1>2. QED
  BY <1>1, OwnerInvariant, PTL

\* Every variable keeps its type, and no directory entry is without its directory.
THEOREM OwnerTypeCorrect ==
    ASSUME TransactionAssumption
    PROVE  Spec => []TypeOK
<1>1. OwnerInv => TypeOK
  BY Zenon DEF OwnerInv, LogicInv, ShapeInv, DirInv, RecordType, JobType, TypeOK
<1>2. QED
  BY <1>1, OwnerInvariant, PTL
=============================================================================

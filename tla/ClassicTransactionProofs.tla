---------------------- MODULE ClassicTransactionProofs ----------------------
(***************************************************************************)
(* Proofs about the classic TC backend, for any number of slots, maps and  *)
(* generations: every generation is committed once and published whole, a  *)
(* slot that is kept is never without its filter, and outside the windows  *)
(* of Wedged a recovery accepts whatever an interrupted call left behind.  *)
(***************************************************************************)
EXTENDS ClassicTransaction, TLAPS

Phases == {"none", "active", "applying", "detaching"}
Steps == {"none", "ready", "staging", "mutating", "cleanup", "mutating_tc", "unlinking_maps",
          "cleanup_stages"}
Labels == {"idle", "journal", "maps", "data", "filled", "stage", "attach", "cleanup", "trim",
           "undo", "abort", "recover", "detach", "detaching", "restore", "refilter", "unstage",
           "rmdir"}
FilterType == [Slots -> Progs \cup {0}]
RecordType == [phase : Phases, step : Steps, agen : Gens, ngen : Gens,
               act : FilterType, des : FilterType]
JobType == [op : {"none", "apply", "commit", "detach"}, pc : Labels,
            target : SUBSET Slots, left : SUBSET Slots, bad : BOOLEAN]

\* The types, of the record and of the call in full.
ShapeInv ==
    /\ rec \in RecordType /\ job \in JobType
    /\ filter \in FilterType /\ clsact \subseteq Slots
    /\ gen \in Gens /\ data \in [Gens -> {"none", "partial", "full", "mixed"}]
    /\ bank \in [{0, 1} -> Progs \cup {0}]
    /\ dir \in BOOLEAN /\ calm \in BOOLEAN

\* What the phase and the step of the record say of the two generations it names
\* and of the one in the control map.
PhaseInv ==
    /\ rec.phase = "none" => rec = NoRecord
    /\ rec.phase = "active" =>
         rec.step = "ready" /\ rec.agen # 0 /\ rec.ngen = 0 /\ gen = rec.agen
    /\ rec.phase = "applying" =>
         /\ rec.step \in {"staging", "mutating", "cleanup"}
         /\ rec.ngen = rec.agen + 1 /\ gen \in {rec.agen, rec.ngen}
         /\ rec.step = "staging" => gen = rec.agen
         /\ rec.step = "cleanup" => gen = rec.ngen
    /\ rec.phase = "detaching" =>
         /\ rec.step \in {"staging", "mutating_tc", "unlinking_maps", "cleanup_stages"}
         /\ rec.ngen = 0 /\ gen = rec.agen
    /\ rec.phase # "applying" => \A s \in Slots : rec.des[s] = 0

\* Where a call can be for the record it has written.
CallInv ==
    /\ job.pc \in {"maps", "data", "filled", "stage"} => In("applying", "staging")
    /\ job.pc \in {"attach", "undo", "abort"} => In("applying", "mutating") /\ gen = rec.agen
    /\ job.pc = "cleanup" => In("applying", "mutating") /\ gen = rec.ngen
    /\ job.pc \in {"trim", "detach"} => rec.phase = "active"
    /\ job.pc \in {"detaching", "restore", "refilter", "unstage"} =>
         rec.phase = "detaching" /\ rec.agen # 0 /\ rec.step # "cleanup_stages"
    /\ job.pc \in {"restore", "refilter", "unstage"} => rec.step # "staging"
    /\ job.pc = "journal" => rec.phase \in {"none", "active"} /\ dir
    /\ job.pc = "recover" => rec.phase # "none"
    /\ job.pc = "rmdir" => rec.phase = "none"

\* A record has its directory, and no entry outlives the record.
DirInv == IF rec.phase = "none" THEN files = {} ELSE dir

\* A list of filters runs one program, that of the generation's tail-call bank.
InBank(fs, g) == \A s \in Slots : fs[s] \in {0, bank[g % 2]}
OneProgram(fs) == \E p \in Progs : \A s \in Slots : fs[s] \in {0, p}

\* The old generation stays whole, and how far the new one is.
WholeInv ==
    /\ rec.agen # 0 => InBank(rec.act, rec.agen) /\ (gen = rec.agen => data[gen] = "full")
    /\ rec.agen = 0 => \A s \in Slots : rec.act[s] = 0
    /\ rec.phase = "applying" => OneProgram(rec.des)
    /\ job.pc = "filled" => data[rec.ngen] = "partial"
    /\ job.pc = "stage" \/ (rec.phase = "applying" /\ rec.step # "staging") =>
         data[rec.ngen] = "full" /\ InBank(rec.des, rec.ngen)

\* Every slot runs its program of the list.
Running(fs) == \A s \in Slots : filter[s] = fs[s]

\* What a slot runs, by the step of the record and by the call.
FilterInv ==
    /\ \A s \in Slots : filter[s] \in {0, rec.act[s], rec.des[s]}
    /\ rec.phase \in {"none", "active"} \/ rec.step = "staging" => Running(rec.act)
    /\ In("applying", "mutating") =>
         \A s \in Slots : rec.act[s] # 0 /\ rec.des[s] # 0 => filter[s] # 0
    /\ rec.phase = "applying" /\ gen = rec.ngen => Running(rec.des)
    /\ job.pc \in {"abort", "unstage"} => Running(rec.act)
    /\ In("detaching", "cleanup_stages") => \A s \in Slots : filter[s] = 0

\* The list has the slots the call was asked for, and no other.
Wanted(fs) == \A s \in Slots : fs[s] # 0 <=> s \in job.target

\* What the call was asked for, until it has returned.
TargetInv ==
    /\ job.pc \in {"maps", "data", "filled", "stage", "attach", "cleanup"} => Wanted(rec.des)
    /\ job.op = "commit" /\ job.pc = "recover" =>
         \/ In("applying", "cleanup") /\ Wanted(rec.des)
         \/ rec.phase = "active" /\ Wanted(rec.act)
    /\ job.pc = "trim" => Wanted(rec.act)
    /\ job.pc \in {"journal", "maps", "data", "filled", "stage", "attach", "undo", "abort",
                  "detach", "detaching"} => job.op # "commit"

LogicInv == PhaseInv /\ CallInv /\ DirInv /\ WholeInv /\ FilterInv /\ TargetInv
ClassicInv == ShapeInv /\ LogicInv

-----------------------------------------------------------------------------
(* The directory *)

EntryType == ({"map", "mapstage", "canonical-retired", "stage-retired"} \X Maps)
             \cup ({"stage", "retired"} \X Progs)

\* Everything of the active generation is in place.
Intact == Running(rec.act) /\ Have("map") = Maps

\* What the directory holds, by the step of the record and by the call.
EntryInv ==
    /\ files \subseteq EntryType
    /\ \A p \in Progs : <<"stage", p>> \in files \/ <<"retired", p>> \in files =>
         p \in StagePrograms /\ rec.phase \in {"applying", "detaching"}
    /\ rec.phase # "detaching" => MapsUnstaged
    /\ Have("canonical-retired") # {} =>
         /\ rec.phase \in {"active", "detaching"} /\ rec.step # "cleanup_stages"
         /\ rec.step = "unlinking_maps" \/ (Have("map") = Maps /\ rec.agen # 0)
    /\ job.pc = "unstage" \/ (job.pc = "refilter" /\ ~job.bad) =>
         Have("map") = Maps /\ Have("canonical-retired") = {}

\* Which steps need every map where it was.
MapsInv ==
    /\ rec.phase = "active" => Have("map") = Maps
    /\ rec.phase = "applying" /\ (rec.agen # 0 \/ rec.step # "staging") => Have("map") = Maps
    /\ job.pc \in {"data", "filled", "stage"} => Have("map") = Maps
    /\ rec.phase = "detaching" /\ rec.step \in {"staging", "mutating_tc"} /\ rec.agen # 0 =>
         Have("map") = Maps
    /\ In("detaching", "cleanup_stages") => Have("map") = {}

\* Which steps need the stages, or else have put everything back.
StagesInv ==
    /\ In("applying", "mutating") =>
         StagedAll \/ (gen = rec.agen /\ Running(rec.act) /\ job.pc \in {"idle", "recover", "abort"})
    /\ rec.phase = "detaching" /\ rec.step \in {"mutating_tc", "unlinking_maps"} =>
         \/ StagesLoaded /\ (rec.step = "mutating_tc" => StagedAll)
         \/ rec.agen # 0 /\ Intact /\ job.pc \in {"idle", "recover", "unstage"}
    /\ In("detaching", "cleanup_stages") /\ rec.agen # 0 /\ files # {} =>
         "owner_map" \in Have("mapstage") \cup Have("stage-retired")

FilesInv == EntryInv /\ MapsInv /\ StagesInv
RecoverInv == ClassicInv /\ FilesInv

-----------------------------------------------------------------------------
(* The shapes of what the actions write *)

\* Advance changes the phase and the step and nothing else.
LEMMA AdvanceShape ==
    ASSUME ShapeInv, NEW p \in Phases, NEW s \in Steps
    PROVE  /\ Advance(p, s) \in RecordType
           /\ Advance(p, s).phase = p /\ Advance(p, s).step = s
           /\ Advance(p, s).agen = rec.agen /\ Advance(p, s).ngen = rec.ngen
           /\ Advance(p, s).act = rec.act /\ Advance(p, s).des = rec.des
<1>1. Advance(p, s) \in RecordType
  BY Zenon DEF ShapeInv, RecordType, Advance
<1>2. QED
  BY <1>1, Zenon DEF ShapeInv, RecordType, Advance

\* No filters is a list, and 0 a generation.
LEMMA NoFiltersShape ==
    ASSUME ClassicAssumption
    PROVE  /\ NoFilters \in FilterType /\ 0 \in Gens
           /\ \A s \in Slots : NoFilters[s] = 0
BY DEF NoFilters, FilterType, ClassicAssumption, Gens

\* A record that is active again names one generation.
LEMMA ActiveShape ==
    ASSUME ClassicAssumption, NEW g \in Gens, NEW fs \in FilterType
    PROVE  /\ Active(g, fs) \in RecordType
           /\ Active(g, fs).phase = "active" /\ Active(g, fs).step = "ready"
           /\ Active(g, fs).agen = g /\ Active(g, fs).ngen = 0
           /\ Active(g, fs).act = fs /\ Active(g, fs).des = NoFilters
BY NoFiltersShape, Zenon DEF Active, RecordType, Phases, Steps

\* A detach keeps the active generation and drops what was wanted beside it.
LEMMA DetachingShape ==
    ASSUME ClassicAssumption, ShapeInv
    PROVE  /\ Detaching \in RecordType
           /\ Detaching.phase = "detaching" /\ Detaching.step = "staging"
           /\ Detaching.agen = rec.agen /\ Detaching.ngen = 0
           /\ Detaching.act = rec.act /\ Detaching.des = NoFilters
<1>1. Advance("detaching", "staging") \in RecordType
  BY AdvanceShape, Zenon DEF Steps, Phases
<1>2. Detaching \in RecordType
  BY <1>1, NoFiltersShape, Zenon DEF Detaching, RecordType
<1>3. QED
  BY <1>2, Zenon DEF ShapeInv, RecordType, Advance, Detaching

\* Where a call goes on.
LEMMA JobShapes ==
    ASSUME ShapeInv
    PROVE  /\ Idle \in JobType /\ Idle.pc = "idle"
           /\ \A l \in Labels : /\ Goto(l) \in JobType /\ Goto(l).pc = l
                                /\ Goto(l).op = job.op /\ Goto(l).target = job.target
                                /\ Goto(l).bad = job.bad
           /\ OnActive \in JobType /\ OnActive.pc \in {"idle", "journal", "detach", "trim"}
           /\ OnActive.pc = "trim" => job.op = "commit" /\ OnActive.target = job.target
           /\ OnActive.pc \in {"journal", "detach"} => OnActive.op # "commit"
<1>1. Idle \in JobType /\ Idle.pc = "idle"
  BY Zenon DEF Idle, JobType, Labels
<1>2. \A l \in Labels : /\ Goto(l) \in JobType /\ Goto(l).pc = l
                        /\ Goto(l).op = job.op /\ Goto(l).target = job.target
                        /\ Goto(l).bad = job.bad
  BY Zenon DEF ShapeInv, JobType, Goto
<1>3. /\ OnActive \in JobType /\ OnActive.pc \in {"idle", "journal", "detach", "trim"}
      /\ OnActive.pc = "trim" => job.op = "commit" /\ OnActive.target = job.target
      /\ OnActive.pc \in {"journal", "detach"} => OnActive.op # "commit"
  BY <1>1, <1>2 DEF OnActive, Labels
<1>4. QED
  BY <1>1, <1>2, <1>3, Zenon

\* A list that every named slot runs is run by every slot.
LEMMA ExactIsRunning ==
    ASSUME FilterInv, NEW fs, Exact(fs), \A s \in Slots : fs[s] \in {0, rec.act[s], rec.des[s]}
    PROVE  Running(fs)
BY Zenon DEF FilterInv, Exact, Running

-----------------------------------------------------------------------------
(* Kinds of steps *)

\* What packets are served under, by the phase of the record.
Published == IF rec.phase = "none" THEN 0 ELSE gen

\* What every step promises besides the invariant.
StepOK == CommitStep /\ HitlessStep

\* Only NoRecord has the phase "none".
LEMMA PublishedIs ==
    ASSUME PhaseInv, PhaseInv'
    PROVE  /\ (IF rec = NoRecord THEN 0 ELSE gen) = Published
           /\ (IF rec' = NoRecord THEN 0 ELSE gen') = Published'
BY DEF PhaseInv, NoRecord, Published

\* A step that keeps phase and generations is no step of the commit.
LEMMA SameCommit ==
    ASSUME PhaseInv, PhaseInv', rec'.phase = rec.phase, rec'.ngen = rec.ngen, gen' = gen
    PROVE  CommitStep
<1>1. Stage' = Stage
  BY Zenon DEF Stage
<1>2. Published' = Published
  BY Zenon DEF Published
<1>3. QED
  BY <1>1, <1>2, PublishedIs, Zenon DEF CommitStep, Commit!vars

\* The call moves on or ends: neither the record nor the kernel's maps and filters
\* change.
LEMMA CallMoves ==
    ASSUME ClassicInv, DirInv', CallInv', TargetInv',
           UNCHANGED <<rec, filter, gen, data, bank>>,
           job'.pc \in {"filled", "stage"} => job'.pc = job.pc,
           job'.pc \in {"abort", "unstage"} => Running(rec.act)
    PROVE  LogicInv' /\ StepOK
<1> USE DEF ClassicInv, LogicInv
<1>1. PhaseInv'
  BY Zenon DEF PhaseInv
<1>2. WholeInv'
  BY Zenon DEF WholeInv, InBank, OneProgram
<1>3. FilterInv'
  BY Zenon DEF FilterInv, Running, In
<1>4. CommitStep
  BY <1>1, SameCommit, Zenon
<1>5. HitlessStep
  BY Zenon DEF HitlessStep
<1>6. QED
  BY <1>1, <1>2, <1>3, <1>4, <1>5, Zenon DEF StepOK

\* The call ends where it is.
LEMMA CallEnds ==
    ASSUME ClassicInv, job' = Idle, UNCHANGED <<rec, kernel, calm>>, dir' \in BOOLEAN, DirInv'
    PROVE  ClassicInv' /\ StepOK
<1> USE DEF ClassicInv, LogicInv
<1>1. job' \in JobType /\ job'.pc = "idle"
  BY JobShapes, Zenon
<1>2. ShapeInv'
  BY <1>1, Zenon DEF ShapeInv, kernel
<1>3. CallInv' /\ TargetInv'
  BY <1>1, Zenon DEF CallInv, TargetInv
<1>4. QED
  BY <1>1, <1>2, <1>3, CallMoves, Zenon DEF kernel

\* Entries of the directory, or a qdisc, come and go under a record.
LEMMA EntriesMove ==
    ASSUME ClassicInv, UNCHANGED <<rec, dir, filter, gen, data, bank, job>>,
           files' = files \/ rec.phase # "none", clsact' \subseteq Slots, calm' \in BOOLEAN
    PROVE  ClassicInv' /\ StepOK
<1> USE DEF ClassicInv, LogicInv
<1>1. ShapeInv'
  BY Zenon DEF ShapeInv
<1>2. CallInv'
  BY Zenon DEF CallInv, In
<1>3. TargetInv'
  BY Zenon DEF TargetInv, In, Wanted
<1>4. DirInv'
  BY Zenon DEF DirInv
<1>5. job'.pc \in {"abort", "unstage"} => Running(rec.act)
  BY Zenon DEF FilterInv
<1>6. QED
  BY <1>1, <1>2, <1>3, <1>4, <1>5, CallMoves, Zenon

\* Filters change, and nothing else but how far the call is.
LEMMA FiltersMove ==
    ASSUME ClassicInv, UNCHANGED <<disk, clsact, gen, data, bank, calm>>,
           job' \in JobType, job'.pc = job.pc, job'.op = job.op, job'.target = job.target,
           filter' \in FilterType, FilterInv', HitlessStep
    PROVE  ClassicInv' /\ StepOK
<1> USE DEF ClassicInv, LogicInv, disk
<1>1. ShapeInv'
  BY Zenon DEF ShapeInv
<1>2. PhaseInv'
  BY Zenon DEF PhaseInv
<1>3. CallInv'
  BY Zenon DEF CallInv, In
<1>4. TargetInv'
  BY Zenon DEF TargetInv, In, Wanted
<1>5. DirInv'
  BY Zenon DEF DirInv
<1>6. WholeInv'
  BY Zenon DEF WholeInv, InBank, OneProgram
<1>7. CommitStep
  BY <1>2, SameCommit, Zenon
<1>8. QED
  BY <1>1, <1>2, <1>3, <1>4, <1>5, <1>6, <1>7, Zenon DEF StepOK

-----------------------------------------------------------------------------
(* Apply, up to the first filter *)

\* newClassicApplyingPinOwnerRecord begins the next generation, whose slots all run
\* the program that was just loaded.
LEMMA JournalStep ==
    ASSUME ClassicAssumption, ClassicInv, Journal
    PROVE  ClassicInv' /\ StepOK
<1> USE DEF ClassicInv, LogicInv
<1> DEFINE p == FreshProgram
           fs == [s \in Slots |-> IF s \in job.target THEN p ELSE 0]
<1>1. p \in Progs /\ p # 0
  <2>1. FreshPrograms # {} /\ FreshPrograms \subseteq Progs
    BY Zenon DEF Journal, FreshPrograms
  <2>2. p \in Progs
    BY <2>1, Zenon DEF FreshProgram
  <2>3. QED
    BY <2>2 DEF Progs
<1>2. fs \in FilterType /\ \A s \in Slots : fs[s] = IF s \in job.target THEN p ELSE 0
  BY <1>1, Zenon DEF FilterType
<1>3. rec.agen \in Gens /\ rec.agen + 1 \in Gens /\ 0 \in Gens
  BY DEF Journal, ShapeInv, RecordType, Gens, ClassicAssumption
<1>4. /\ rec'.phase = "applying" /\ rec'.step = "staging"
      /\ rec'.agen = rec.agen /\ rec'.ngen = rec.agen + 1
      /\ rec'.act = rec.act /\ rec'.des = fs /\ rec' \in RecordType
  BY <1>2, <1>3, Zenon DEF Journal, Persist, ShapeInv, RecordType, Steps, Phases
<1>5. /\ job' \in JobType /\ job'.pc \in {"maps", "data", "idle"}
      /\ job'.pc # "idle" => job'.target = job.target /\ job'.op = job.op
  BY JobShapes DEF Journal, Persist, Labels
<1>6. rec.phase \in {"none", "active"} /\ dir
  BY Zenon DEF Journal, At, CallInv
<1>7. gen' = rec.agen /\ (rec.phase = "active" => UNCHANGED <<gen, data, bank>> /\ rec.agen # 0)
  <2>1. CASE rec.phase = "none"
    BY <2>1 DEF Journal, PhaseInv, NoRecord
  <2>2. CASE rec.phase = "active"
    BY <2>2 DEF Journal, PhaseInv, NoRecord
  <2>3. QED
    BY <1>6, <2>1, <2>2, Zenon
<1>8. /\ gen' \in Gens /\ data' \in [Gens -> {"none", "partial", "full", "mixed"}]
      /\ bank' \in [{0, 1} -> Progs \cup {0}]
  <2>1. CASE rec = NoRecord
    BY <1>3, <2>1, Zenon DEF Journal
  <2>2. CASE rec # NoRecord
    BY <2>2, Zenon DEF Journal, ShapeInv
  <2>3. QED
    BY <2>1, <2>2, Zenon
<1>9. ShapeInv'
  BY <1>4, <1>5, <1>8, Zenon DEF Journal, ShapeInv
<1>10. PhaseInv'
  BY <1>4, <1>7, Zenon DEF PhaseInv
<1>11. CallInv'
  BY <1>4, <1>5, Zenon DEF CallInv, In
<1>12. DirInv'
  BY <1>4, <1>6, Zenon DEF Journal, DirInv
<1>13. WholeInv'
  <2>1. OneProgram(rec'.des)
    BY <1>1, <1>2, <1>4, Zenon DEF OneProgram
  <2>2. CASE rec.phase = "none"
    <3>1. rec.agen = 0
      BY <2>2 DEF PhaseInv, NoRecord
    <3>2. QED
      BY <1>4, <1>5, <2>1, <3>1, Zenon DEF WholeInv, OneProgram
  <2>3. CASE rec.phase = "active"
    BY <1>4, <1>5, <1>7, <2>1, <2>3, Zenon DEF WholeInv, InBank, OneProgram, PhaseInv
  <2>4. QED
    BY <1>6, <2>2, <2>3, Zenon
<1>14. filter' = filter /\ \A s \in Slots : filter[s] = rec.act[s]
  BY Zenon DEF Journal
<1>15. FilterInv'
  BY <1>3, <1>4, <1>5, <1>7, <1>14 DEF FilterInv, Running, In, Gens
<1>16. TargetInv'
  BY <1>1, <1>2, <1>4, <1>5, Zenon DEF Journal, At, TargetInv, Wanted, In
<1>17. CommitStep
  <2>1. Stage = "idle" /\ Stage' = "pending"
    BY <1>3, <1>4, <1>6, <1>7 DEF Stage, Gens
  <2>2. Published = rec.agen /\ Published' = rec.agen
    BY <1>4, <1>6, <1>7 DEF Published, PhaseInv, NoRecord
  <2>3. QED
    BY <1>4, <1>10, <2>1, <2>2, PublishedIs, Zenon DEF CommitStep, Commit!Next, Commit!Begin
<1>18. HitlessStep
  BY <1>14, Zenon DEF HitlessStep
<1>19. QED
  BY <1>9, <1>10, <1>11, <1>12, <1>13, <1>15, <1>16, <1>17, <1>18, Zenon DEF StepOK

\* An Apply that cannot begin leaves the record as it is.
LEMMA JournalEndStep ==
    ASSUME ClassicInv, JournalBound \/ JournalFails
    PROVE  ClassicInv' /\ StepOK
<1>1. DirInv'
  <2>1. CASE JournalBound
    BY <2>1, Zenon DEF JournalBound, ClassicInv, LogicInv, DirInv, disk
  <2>2. CASE JournalFails
    BY <2>2, Zenon DEF JournalFails, ClassicInv, LogicInv, DirInv, NoRecord
  <2>3. QED
    BY <2>1, <2>2, Zenon
<1>2. job' = Idle /\ UNCHANGED <<rec, kernel, calm>> /\ dir' \in BOOLEAN
  BY Zenon DEF JournalBound, JournalFails, ClassicInv, ShapeInv, disk
<1>3. QED
  BY <1>1, <1>2, CallEnds, Zenon

\* pinFreshCollectionMaps pins the maps of a first generation.
LEMMA PinMapStep ==
    ASSUME ClassicInv, NEW m \in Maps, PinMap(m)
    PROVE  ClassicInv' /\ StepOK
<1> USE DEF ClassicInv, LogicInv
<1>1. In("applying", "staging") /\ job.pc = "maps"
  BY Zenon DEF PinMap, At, CallInv
<1>2. /\ job' \in JobType /\ job'.pc \in {"maps", "data"} /\ job'.target = job.target
      /\ job'.op = job.op
  BY <1>1, JobShapes DEF PinMap, ShapeInv, Labels
<1>3. ShapeInv'
  BY <1>2, Zenon DEF PinMap, kernel, ShapeInv
<1>4. DirInv'
  BY <1>1, Zenon DEF PinMap, DirInv, In
<1>5. CallInv'
  BY <1>1, <1>2, Zenon DEF PinMap, kernel, CallInv, In
<1>6. TargetInv'
  BY <1>1, <1>2, Zenon DEF PinMap, kernel, TargetInv, Wanted
<1>7. QED
  BY <1>2, <1>3, <1>4, <1>5, <1>6, CallMoves, Zenon DEF PinMap, kernel

\* A step of the staging that writes entries of the new generation only.
LEMMA StagingWrites ==
    ASSUME ClassicInv, job.pc \in {"data", "filled"},
           UNCHANGED <<disk, filter, clsact, gen, calm>>,
           job' \in JobType, job'.pc # "idle" => job'.target = job.target /\ job'.op = job.op,
           data' \in [Gens -> {"none", "partial", "full", "mixed"}],
           bank' \in [{0, 1} -> Progs \cup {0}],
           \A g \in Gens \ {rec.ngen} : data'[g] = data[g],
           \A q \in {0, 1} \ {rec.ngen % 2} : bank'[q] = bank[q],
           \/ job'.pc = "idle"
           \/ job'.pc = "filled" /\ data'[rec.ngen] = "partial"
           \/ job'.pc = "stage" /\ data'[rec.ngen] = "full" /\ InBank(rec.des, rec.ngen)'
    PROVE  ClassicInv' /\ StepOK
<1> USE DEF ClassicInv, LogicInv, disk
<1>1. In("applying", "staging") /\ Wanted(rec.des)
  BY Zenon DEF CallInv, TargetInv
<1>2. ShapeInv'
  BY Zenon DEF ShapeInv
<1>3. PhaseInv'
  BY Zenon DEF PhaseInv
<1>4. CallInv'
  BY <1>1, Zenon DEF CallInv, In
<1>5. DirInv'
  BY Zenon DEF DirInv
<1>6. gen = rec.agen /\ rec.ngen = rec.agen + 1 /\ rec.agen \in Gens /\ rec.ngen \in Gens
  BY <1>1, Zenon DEF PhaseInv, In, ShapeInv, RecordType
<1>7. rec.agen \in Nat /\ rec.ngen % 2 # rec.agen % 2 /\ rec.agen % 2 \in {0, 1}
  BY <1>6 DEF Gens
<1>8. rec.agen # 0 => data'[rec.agen] = data[rec.agen] /\ InBank(rec.act, rec.agen)'
  BY <1>6, <1>7, <1>1 DEF WholeInv, InBank, In
<1>9. WholeInv'
  BY <1>1, <1>6, <1>8, Zenon DEF WholeInv, In, OneProgram
<1>10. FilterInv'
  BY Zenon DEF FilterInv, Running, In
<1>11. TargetInv'
  BY <1>1, Zenon DEF TargetInv, Wanted
<1>12. CommitStep
  BY <1>3, SameCommit, Zenon
<1>13. HitlessStep
  BY Zenon DEF HitlessStep
<1>14. QED
  BY <1>2, <1>3, <1>4, <1>5, <1>9, <1>10, <1>11, <1>12, <1>13, Zenon DEF StepOK

\* populateDataMaps writes the new generation up to its last entry.
LEMMA PopulateStep ==
    ASSUME ClassicInv, Populate
    PROVE  ClassicInv' /\ StepOK
<1> USE DEF ClassicInv, LogicInv
<1>1. job.pc = "data" /\ rec.ngen \in Gens
  BY Zenon DEF Populate, At, ShapeInv, RecordType
<1>2. /\ job' \in JobType /\ (job'.pc # "idle" => job'.target = job.target /\ job'.op = job.op)
      /\ data' \in [Gens -> {"none", "partial", "full", "mixed"}]
      /\ \A g \in Gens \ {rec.ngen} : data'[g] = data[g]
      /\ job'.pc = "idle" \/ (job'.pc = "filled" /\ data'[rec.ngen] = "partial")
  BY <1>1, JobShapes DEF Populate, ShapeInv, Labels
<1>3. UNCHANGED <<disk, filter, clsact, gen, bank, calm>>
  BY Zenon DEF Populate
<1>4. bank' \in [{0, 1} -> Progs \cup {0}]
  BY <1>3, Zenon DEF ShapeInv
<1>5. QED
  BY <1>1, <1>2, <1>3, <1>4, StagingWrites, Zenon

\* The last entry, and populateXORTailCalls: the bank of the new generation holds the
\* program of its slots.
LEMMA PopulatedStep ==
    ASSUME ClassicInv, Populated
    PROVE  ClassicInv' /\ StepOK
<1> USE DEF ClassicInv, LogicInv
<1> DEFINE m == Max(Programs(rec.des) \cup {0})
<1>1. In("applying", "staging") /\ job.pc = "filled" /\ data[rec.ngen] = "partial"
  BY Zenon DEF Populated, At, CallInv, WholeInv
<1>2. rec.ngen \in Gens /\ rec.ngen \in Nat /\ rec.ngen % 2 \in {0, 1}
  BY DEF ShapeInv, RecordType, Gens
<1>3. PICK p \in Progs : \A s \in Slots : rec.des[s] \in {0, p}
  BY <1>1, Zenon DEF WholeInv, OneProgram, In
<1>4. m \in Progs \cup {0} /\ \A s \in Slots : rec.des[s] \in {0, m}
  <2>1. CASE \E s \in Slots : rec.des[s] = p
    <3>1. Programs(rec.des) \cup {0} = {0, p}
      BY <1>3, <2>1, Zenon DEF Programs, Progs
    <3>2. m = p
      BY <3>1 DEF Max, Progs
    <3>3. QED
      BY <1>3, <3>2, Zenon
  <2>2. CASE \A s \in Slots : rec.des[s] # p
    <3>1. Programs(rec.des) \cup {0} = {0}
      BY <1>3, <2>2, Zenon DEF Programs
    <3>2. m = 0
      BY <3>1 DEF Max
    <3>3. QED
      BY <1>3, <2>2, <3>2, Zenon
  <2>3. QED
    BY <2>1, <2>2, Zenon
<1>5. /\ bank' \in [{0, 1} -> Progs \cup {0}]
      /\ bank'[rec.ngen % 2] = m
      /\ \A q \in {0, 1} \ {rec.ngen % 2} : bank'[q] = bank[q]
  BY <1>2, <1>4, Zenon DEF Populated, ShapeInv
<1>6. /\ data' \in [Gens -> {"none", "partial", "full", "mixed"}]
      /\ data'[rec.ngen] = "full"
      /\ \A g \in Gens \ {rec.ngen} : data'[g] = data[g]
  BY <1>1, <1>2, Zenon DEF Populated, ShapeInv
<1>7. job' \in JobType /\ job'.pc = "stage" /\ job'.target = job.target /\ job'.op = job.op
  BY JobShapes, Zenon DEF Populated, Labels
<1>8. UNCHANGED <<disk, filter, clsact, gen, calm>>
  BY Zenon DEF Populated
<1>9. InBank(rec.des, rec.ngen)'
  BY <1>4, <1>5, <1>8, Zenon DEF InBank, disk
<1>10. QED
  BY <1>1, <1>5, <1>6, <1>7, <1>8, <1>9, StagingWrites, Zenon

-----------------------------------------------------------------------------
(* Filters and control word *)

\* The record goes to its next step within the phase; the call follows or fails.
LEMMA StepMoves ==
    ASSUME ClassicInv, NEW s \in Steps, rec' = Advance(rec.phase, s),
           UNCHANGED <<dir, files, kernel, calm>>, job' \in JobType,
           rec.phase = "applying" \/ rec.phase = "detaching",
           PhaseInv', CallInv', FilterInv', TargetInv',
           rec.phase = "applying" /\ s # "staging" =>
               data[rec.ngen] = "full" /\ InBank(rec.des, rec.ngen),
           job'.pc \notin {"filled", "stage"}
    PROVE  ClassicInv' /\ StepOK
<1> USE DEF ClassicInv, LogicInv, kernel
<1>1. /\ rec' \in RecordType /\ rec'.phase = rec.phase /\ rec'.step = s
      /\ rec'.agen = rec.agen /\ rec'.ngen = rec.ngen
      /\ rec'.act = rec.act /\ rec'.des = rec.des
  BY AdvanceShape DEF ShapeInv, RecordType
<1>2. ShapeInv'
  BY <1>1, Zenon DEF ShapeInv
<1>3. DirInv'
  BY <1>1, Zenon DEF DirInv
<1>4. WholeInv'
  BY <1>1, Zenon DEF WholeInv, InBank, OneProgram
<1>5. CommitStep
  BY <1>1, SameCommit, Zenon
<1>6. HitlessStep
  BY Zenon DEF HitlessStep
<1>7. QED
  BY <1>2, <1>3, <1>4, <1>5, <1>6, Zenon DEF StepOK

\* stageOwnerPrograms pins programs, behind an apply's maps or before a detach.
LEMMA StageProgramStep ==
    ASSUME ClassicInv, NEW p \in Progs, StageProgram(p)
    PROVE  ClassicInv' /\ StepOK
<1>1. rec.phase # "none"
  BY Zenon DEF StageProgram, At, In, ClassicInv, LogicInv, CallInv
<1>2. QED
  BY <1>1, EntriesMove, Zenon DEF StageProgram, kernel, ClassicInv, ShapeInv

\* An apply whose programs are staged may change filters.
LEMMA BeginMutatingStep ==
    ASSUME ClassicInv, BeginMutating
    PROVE  ClassicInv' /\ StepOK
<1> USE DEF ClassicInv, LogicInv
<1>1. job.pc = "stage" /\ In("applying", "staging")
  BY Zenon DEF BeginMutating, At, CallInv
<1>2. UNCHANGED <<dir, files, kernel, calm>> /\ rec' = Advance("applying", "mutating")
  BY Zenon DEF BeginMutating, Persist
<1>3. /\ job' \in JobType /\ job'.pc \in {"attach", "idle"}
      /\ job'.pc = "attach" => job'.target = job.target /\ job'.op = job.op
  BY JobShapes DEF BeginMutating, Persist, Labels
<1>4. /\ rec'.phase = "applying" /\ rec'.step = "mutating"
      /\ rec'.agen = rec.agen /\ rec'.ngen = rec.ngen
      /\ rec'.act = rec.act /\ rec'.des = rec.des
  BY <1>2, AdvanceShape DEF Steps, Phases
<1>5. gen = rec.agen /\ rec.ngen = rec.agen + 1 /\ rec.agen \in Gens
  BY <1>1, Zenon DEF PhaseInv, In, ShapeInv, RecordType
<1>6. PhaseInv'
  BY <1>2, <1>4, <1>5, Zenon DEF PhaseInv, kernel
<1>7. CallInv'
  BY <1>2, <1>3, <1>4, <1>5, Zenon DEF CallInv, In, kernel
<1>8. FilterInv'
  <2>1. Running(rec.act)
    BY <1>1, Zenon DEF FilterInv, In
  <2>2. gen' # rec'.ngen
    BY <1>2, <1>4, <1>5 DEF kernel, Gens
  <2>3. QED
    BY <1>2, <1>3, <1>4, <2>1, <2>2, Zenon DEF FilterInv, Running, In, kernel
<1>9. TargetInv'
  BY <1>1, <1>3, <1>4, Zenon DEF TargetInv, Wanted
<1>10. data[rec.ngen] = "full" /\ InBank(rec.des, rec.ngen)
  BY <1>1, Zenon DEF WholeInv
<1>11. QED
  BY <1>1, <1>2, <1>3, <1>6, <1>7, <1>8, <1>9, <1>10, StepMoves, Zenon DEF In, Steps

\* clsact is added where it is missing.
LEMMA ClsactStep ==
    ASSUME ClassicInv, NEW s \in Slots, AddClsact(s) \/ ForwardClsact(s)
    PROVE  ClassicInv' /\ StepOK
<1>1. /\ clsact' \subseteq Slots /\ calm' \in BOOLEAN
      /\ UNCHANGED <<rec, dir, files, filter, gen, data, bank, job>>
  BY Zenon DEF AddClsact, ForwardClsact, disk, ClassicInv, ShapeInv
<1>2. QED
  BY <1>1, EntriesMove, Zenon

\* filterReplace, filterAdd and filterDel of Execute: the slot goes from its old
\* program to its new one, and no kept slot is without a program.
LEMMA ExecuteStep ==
    ASSUME ClassicInv, NEW s \in Slots, AttachFilter(s) \/ DeleteStale(s)
    PROVE  ClassicInv' /\ StepOK
<1> USE DEF ClassicInv, LogicInv
<1>1. In("applying", "mutating") /\ gen = rec.agen /\ job.pc = "attach"
  BY Zenon DEF AttachFilter, DeleteStale, At, CallInv
<1>2. filter' = [filter EXCEPT ![s] = rec.des[s]]
  BY Zenon DEF AttachFilter, DeleteStale, IsNext, Stale
<1>3. UNCHANGED <<disk, clsact, gen, data, bank, job, calm>>
  BY Zenon DEF AttachFilter, DeleteStale
<1>4. /\ filter' \in FilterType /\ filter'[s] = rec.des[s]
      /\ \A t \in Slots \ {s} : filter'[t] = filter[t]
  BY <1>2, Zenon DEF ShapeInv, RecordType, FilterType
<1>5. rec.ngen # gen
  BY <1>1 DEF PhaseInv, In, ShapeInv, RecordType, Gens
<1>6. FilterInv'
  BY <1>1, <1>3, <1>4, <1>5, Zenon DEF FilterInv, In, disk
<1>7. HitlessStep
  BY <1>4, Zenon DEF HitlessStep
<1>8. QED
  BY <1>3, <1>4, <1>6, <1>7, FiltersMove, Zenon DEF ShapeInv

\* tcAttachPlan.rollback puts a slot back, or leaves it.
LEMMA RollbackStep ==
    ASSUME ClassicInv, NEW s \in Slots, Rollback(s)
    PROVE  ClassicInv' /\ StepOK
<1> USE DEF ClassicInv, LogicInv
<1>1. In("applying", "mutating") /\ gen = rec.agen /\ job.pc = "undo"
  BY Zenon DEF Rollback, At, CallInv
<1>2. filter' \in {filter, [filter EXCEPT ![s] = rec.act[s]]}
  BY Zenon DEF Rollback
<1>3. UNCHANGED <<disk, clsact, gen, data, bank, calm>>
  BY Zenon DEF Rollback
<1>4. /\ filter' \in FilterType /\ filter'[s] \in {filter[s], rec.act[s]}
      /\ \A t \in Slots \ {s} : filter'[t] = filter[t]
  BY <1>2, Zenon DEF ShapeInv, RecordType, FilterType
<1>5. rec.ngen # gen
  BY <1>1 DEF PhaseInv, In, ShapeInv, RecordType, Gens
<1>6. /\ job' \in JobType /\ job'.pc = job.pc
      /\ job'.op = job.op /\ job'.target = job.target
  BY Zenon DEF Rollback, ShapeInv, JobType
<1>7. FilterInv'
  BY <1>1, <1>3, <1>4, <1>5, <1>6 DEF FilterInv, In, disk
<1>8. HitlessStep
  BY <1>4, Zenon DEF HitlessStep
<1>9. QED
  BY <1>3, <1>4, <1>6, <1>7, <1>8, FiltersMove, Zenon

\* rollForwardOwnerApplyFilters gives a slot its new program.
LEMMA ForwardFilterStep ==
    ASSUME ClassicInv, NEW s \in Slots, ForwardFilter(s)
    PROVE  ClassicInv' /\ StepOK
<1> USE DEF ClassicInv, LogicInv
<1>1. In("applying", "mutating") /\ job.pc = "recover" /\ filter[s] # rec.des[s]
  BY Zenon DEF ForwardFilter, Forward, Recovering, At, IsNext, Behind
<1>2. UNCHANGED <<disk, clsact, gen, data, bank, job, calm>>
  BY Zenon DEF ForwardFilter
<1>3. /\ filter' \in FilterType /\ filter'[s] = rec.des[s]
      /\ \A t \in Slots \ {s} : filter'[t] = filter[t]
  BY Zenon DEF ForwardFilter, ShapeInv, RecordType, FilterType
<1>4. rec.ngen # gen
  BY <1>1, Zenon DEF FilterInv, Running, In
<1>5. FilterInv'
  BY <1>1, <1>2, <1>3, <1>4, Zenon DEF FilterInv, In, disk
<1>6. HitlessStep
  BY <1>3, Zenon DEF HitlessStep
<1>7. QED
  BY <1>2, <1>3, <1>5, <1>6, FiltersMove, Zenon DEF ShapeInv

\* commitControl and commitOwnerControlGeneration publish the generation once every
\* slot runs its program.
LEMMA ControlStep ==
    ASSUME ClassicInv, CommitControl \/ ForwardControl
    PROVE  ClassicInv' /\ StepOK
<1> USE DEF ClassicInv, LogicInv, disk
<1>1. In("applying", "mutating") /\ gen = rec.agen /\ job.pc \in {"attach", "recover"}
  BY Zenon DEF CommitControl, ForwardControl, Forward, Recovering, At, CallInv
<1>2. gen' = rec.ngen /\ UNCHANGED <<disk, filter, clsact, data, bank, calm>>
  BY Zenon DEF CommitControl, ForwardControl
<1>3. /\ job' \in JobType /\ job'.target = job.target
      /\ (job.pc = "attach" /\ job'.pc = "cleanup") \/ (job.pc = "recover" /\ job' = job)
  <2>1. CASE CommitControl
    <3>1. job.pc = "attach" /\ Goto("cleanup") \in JobType
      BY <2>1, JobShapes, Zenon DEF CommitControl, At, Labels
    <3>2. /\ job' \in JobType /\ job'.pc = Goto("cleanup").pc
          /\ job'.target = Goto("cleanup").target
      BY <2>1, <3>1, Zenon DEF CommitControl, JobType
    <3>3. QED
      BY <3>1, <3>2, JobShapes, Zenon DEF Labels
  <2>2. CASE ForwardControl
    BY <2>2, Zenon DEF ForwardControl, Forward, Recovering, At, ShapeInv
  <2>3. QED
    BY <2>1, <2>2, Zenon
<1>4. Running(rec.des)
  <2>1. CASE CommitControl
    <3>1. \A s \in Slots : rec.des[s] # 0 => filter[s] = rec.des[s]
      BY <2>1, Zenon DEF CommitControl, Unattached
    <3>2. \A s \in Slots : rec.des[s] = 0 /\ rec.act[s] # 0 => filter[s] = 0
      BY <2>1, Zenon DEF CommitControl, Stale
    <3>3. QED
      BY <3>1, <3>2, Zenon DEF Running, FilterInv
  <2>2. CASE ForwardControl
    BY <2>2, Zenon DEF ForwardControl, Behind, Running
  <2>3. QED
    BY <2>1, <2>2, Zenon
<1>5. rec.ngen = rec.agen + 1 /\ rec.agen \in Gens /\ rec.ngen \in Gens
  BY <1>1, Zenon DEF PhaseInv, In, ShapeInv, RecordType
<1>6. ShapeInv'
  BY <1>2, <1>3, <1>5, Zenon DEF ShapeInv
<1>7. PhaseInv'
  BY <1>1, <1>2, <1>5, Zenon DEF PhaseInv, In
<1>8. CallInv'
  BY <1>1, <1>2, <1>3, Zenon DEF CallInv, In
<1>9. DirInv'
  BY <1>2, Zenon DEF DirInv
<1>10. WholeInv'
  BY <1>1, <1>2, <1>3, <1>5, Zenon DEF WholeInv, InBank, OneProgram, In, Gens
<1>11. FilterInv'
  BY <1>1, <1>2, <1>3, <1>4, Zenon DEF FilterInv, Running, In
<1>12. TargetInv'
  BY <1>1, <1>2, <1>3, Zenon DEF TargetInv, Wanted, In
<1>13. CommitStep
  <2>1. Stage = "pending" /\ Stage' = "published"
    BY <1>1, <1>2, <1>5 DEF Stage, In, Gens
  <2>2. Published' = rec.ngen
    BY <1>1, <1>2, Zenon DEF Published, In
  <2>3. QED
    BY <1>2, <1>7, <2>1, <2>2, PublishedIs, Zenon DEF CommitStep, Commit!Next, Commit!Publish
<1>14. HitlessStep
  BY <1>2, Zenon DEF HitlessStep
<1>15. QED
  BY <1>6, <1>7, <1>8, <1>9, <1>10, <1>11, <1>12, <1>13, <1>14, Zenon DEF StepOK

\* A published generation goes to its cleanup.
LEMMA CleanupStep ==
    ASSUME ClassicInv, BeginCleanup \/ Forwarded
    PROVE  ClassicInv' /\ StepOK
<1> USE DEF ClassicInv, LogicInv
<1>1. In("applying", "mutating") /\ gen = rec.ngen
  BY Zenon DEF BeginCleanup, Forwarded, Forward, Recovering, At, CallInv
<1>2. UNCHANGED <<dir, files, kernel, calm>> /\ rec' = Advance("applying", "cleanup")
  BY Zenon DEF BeginCleanup, Forwarded, Persist
<1>3. /\ job' \in JobType /\ job'.pc \in {"recover", "idle"}
      /\ job'.pc = "recover" /\ job'.op = "commit" => Wanted(rec.des) /\ job'.target = job.target
  <2>1. CASE BeginCleanup
    <3>1. Wanted(rec.des)
      BY <2>1, Zenon DEF BeginCleanup, At, TargetInv
    <3>2. QED
      BY <2>1, <3>1, JobShapes DEF BeginCleanup, Persist, Labels
  <2>2. CASE Forwarded
    <3>1. job.pc = "recover" /\ job' \in {job, Idle}
      BY <2>2, Zenon DEF Forwarded, Forward, Recovering, At, Persist
    <3>2. job.op # "commit"
      BY <1>1, <3>1, Zenon DEF TargetInv, In
    <3>3. QED
      BY <3>1, <3>2, JobShapes, Zenon DEF ShapeInv
  <2>3. QED
    BY <2>1, <2>2, Zenon
<1>4. /\ rec'.phase = "applying" /\ rec'.step = "cleanup"
      /\ rec'.agen = rec.agen /\ rec'.ngen = rec.ngen
      /\ rec'.act = rec.act /\ rec'.des = rec.des
  BY <1>2, AdvanceShape DEF Steps, Phases
<1>5. PhaseInv'
  BY <1>1, <1>2, <1>4, Zenon DEF PhaseInv, In, kernel
<1>6. CallInv'
  BY <1>3, <1>4, Zenon DEF CallInv
<1>7. FilterInv'
  BY <1>1, <1>2, <1>3, <1>4, Zenon DEF FilterInv, Running, In, kernel
<1>8. TargetInv'
  BY <1>3, <1>4, Zenon DEF TargetInv, Wanted, In
<1>9. data[rec.ngen] = "full" /\ InBank(rec.des, rec.ngen)
  BY <1>1, Zenon DEF WholeInv, In
<1>10. QED
  BY <1>1, <1>2, <1>3, <1>5, <1>6, <1>7, <1>8, <1>9, StepMoves, Zenon DEF In, Steps

\* deleteStaleMapEntries keeps the entries of the published generation.
LEMMA TrimStep ==
    ASSUME ClassicInv, Trim
    PROVE  ClassicInv' /\ StepOK
<1> USE DEF ClassicInv, LogicInv, disk
<1>1. rec.phase = "active" /\ gen = rec.agen /\ gen \in Gens
  BY Zenon DEF Trim, At, CallInv, PhaseInv, ShapeInv
<1>2. /\ job' \in JobType /\ job'.pc = "idle"
      /\ UNCHANGED <<disk, filter, clsact, gen, bank, calm>>
  BY JobShapes, Zenon DEF Trim
<1>3. data' \in [Gens -> {"none", "partial", "full", "mixed"}] /\ data'[gen] = data[gen]
  BY <1>1, Zenon DEF Trim, ShapeInv
<1>4. ShapeInv'
  BY <1>2, <1>3, Zenon DEF ShapeInv
<1>5. PhaseInv' /\ DirInv'
  BY <1>2, Zenon DEF PhaseInv, DirInv
<1>6. CallInv' /\ TargetInv'
  BY <1>2, Zenon DEF CallInv, TargetInv
<1>7. WholeInv'
  BY <1>1, <1>2, <1>3, Zenon DEF WholeInv, InBank
<1>8. FilterInv'
  BY <1>1, <1>2, Zenon DEF FilterInv, Running, In
<1>9. CommitStep
  BY <1>2, <1>5, SameCommit, Zenon
<1>10. HitlessStep
  BY <1>2, Zenon DEF HitlessStep
<1>11. QED
  BY <1>4, <1>5, <1>6, <1>7, <1>8, <1>9, <1>10, Zenon DEF StepOK

-----------------------------------------------------------------------------
(* The record becomes active again, or a detach *)

\* abortApplyingPinOwnerRecord and abortDetachingPinOwnerRecord: the old generation
\* goes on, of which nothing is missing.
LEMMA AbortedStep ==
    ASSUME ClassicAssumption, ClassicInv, rec' = Aborted, UNCHANGED <<dir, files, kernel, calm>>,
           job' \in JobType, job'.pc \in {"idle", "journal", "detach"},
           job'.pc \in {"journal", "detach"} => job'.op # "commit",
           In("applying", "staging") \/ In("applying", "mutating") \/ rec.phase = "detaching",
           gen = rec.agen, rec.agen # 0, Running(rec.act)
    PROVE  ClassicInv' /\ StepOK
<1> USE DEF ClassicInv, LogicInv, kernel
<1>1. /\ rec'.phase = "active" /\ rec'.step = "ready" /\ rec'.agen = rec.agen /\ rec'.ngen = 0
      /\ rec'.act = rec.act /\ rec'.des = NoFilters /\ rec' \in RecordType
  BY ActiveShape DEF Aborted, ShapeInv, RecordType
<1>2. ShapeInv'
  BY <1>1, Zenon DEF ShapeInv
<1>3. PhaseInv'
  BY <1>1, NoFiltersShape, Zenon DEF PhaseInv
<1>4. rec.phase \in {"applying", "detaching"} /\ dir
  BY Zenon DEF In, DirInv
<1>5. CallInv' /\ DirInv'
  BY <1>1, <1>4, Zenon DEF CallInv, DirInv
<1>6. WholeInv'
  BY <1>1, Zenon DEF WholeInv, InBank
<1>7. FilterInv'
  BY <1>1, NoFiltersShape DEF FilterInv, Running, In
<1>8. TargetInv'
  BY Zenon DEF TargetInv
<1>9. CommitStep
  <2>1. Published = gen /\ Published' = gen /\ gen # 0 /\ Stage' = "idle"
    BY <1>1, <1>4, Zenon DEF Published, Stage
  <2>2. CASE rec.phase = "applying"
    <3>1. Stage = "pending"
      BY <2>2 DEF Stage, PhaseInv, ShapeInv, RecordType, Gens
    <3>2. QED
      BY <1>1, <1>3, <2>1, <3>1, PublishedIs, Zenon DEF CommitStep, Commit!Next, Commit!Undone
  <2>3. CASE rec.phase = "detaching"
    <3>1. Stage = "removing" /\ rec.ngen = 0
      BY <2>3, Zenon DEF Stage, PhaseInv
    <3>2. QED
      BY <1>1, <1>3, <2>1, <3>1, PublishedIs, Zenon DEF CommitStep, Commit!Next, Commit!Keep
  <2>4. QED
    BY <1>4, <2>2, <2>3, Zenon
<1>10. HitlessStep
  BY Zenon DEF HitlessStep
<1>11. QED
  BY <1>2, <1>3, <1>5, <1>6, <1>7, <1>8, <1>9, <1>10, Zenon DEF StepOK

\* newDetachingPinOwnerRecord, and newInitialAbortDetachingPinOwnerRecord for a first
\* generation that is undone: the record is a detach of what runs.
LEMMA DetachingStep ==
    ASSUME ClassicAssumption, ClassicInv, rec' = Detaching, UNCHANGED <<dir, files, kernel, calm>>,
           job' \in JobType,
           \/ rec.phase = "active" /\ job'.pc \in {"idle", "detaching"}
              /\ (job'.pc = "detaching" => job'.op # "commit")
           \/ rec.phase = "applying" /\ rec.agen = 0 /\ job'.pc \in {"idle", "recover"}
              /\ (job'.pc = "recover" => job'.op # "commit"),
           gen = rec.agen, Running(rec.act)
    PROVE  ClassicInv' /\ StepOK
<1> USE DEF ClassicInv, LogicInv, kernel
<1>1. /\ rec'.phase = "detaching" /\ rec'.step = "staging" /\ rec'.agen = rec.agen
      /\ rec'.ngen = 0 /\ rec'.act = rec.act /\ rec'.des = NoFilters /\ rec' \in RecordType
  BY DetachingShape, Zenon
<1>2. ShapeInv'
  BY <1>1, Zenon DEF ShapeInv
<1>3. PhaseInv'
  BY <1>1, NoFiltersShape, Zenon DEF PhaseInv
<1>4. rec.phase = "active" => rec.agen # 0
  BY Zenon DEF PhaseInv
<1>5. CallInv' /\ DirInv'
  BY <1>1, <1>4, Zenon DEF CallInv, DirInv
<1>6. WholeInv'
  BY <1>1, Zenon DEF WholeInv, InBank
<1>7. FilterInv'
  BY <1>1, NoFiltersShape DEF FilterInv, Running, In
<1>8. TargetInv'
  BY Zenon DEF TargetInv
<1>9. CommitStep
  <2>1. Published = gen /\ Published' = gen /\ Stage' = "removing"
    BY <1>1, Zenon DEF Published, Stage
  <2>2. CASE rec.phase = "applying"
    <3>1. Stage = "pending" /\ gen = 0
      BY <2>2 DEF Stage, PhaseInv, ShapeInv, RecordType, Gens
    <3>2. QED
      BY <1>1, <1>3, <2>1, <3>1, PublishedIs, Zenon DEF CommitStep, Commit!Next, Commit!Undone
  <2>3. CASE rec.phase = "active"
    <3>1. Stage = "idle" /\ rec.ngen = 0
      BY <2>3, Zenon DEF Stage, PhaseInv
    <3>2. QED
      BY <1>1, <1>3, <2>1, <3>1, PublishedIs, Zenon DEF CommitStep, Commit!Next, Commit!Remove
  <2>4. QED
    BY <2>2, <2>3, Zenon
<1>10. HitlessStep
  BY Zenon DEF HitlessStep
<1>11. QED
  BY <1>2, <1>3, <1>5, <1>6, <1>7, <1>8, <1>9, <1>10, Zenon DEF StepOK

\* abortFailedOwnerApply goes on once the old generation is whole again.
LEMMA RolledBackStep ==
    ASSUME ClassicInv, RolledBack
    PROVE  ClassicInv' /\ StepOK
<1> USE DEF ClassicInv, LogicInv, disk
<1>1. In("applying", "mutating") /\ gen = rec.agen /\ job.op # "commit"
  BY Zenon DEF RolledBack, At, CallInv, TargetInv
<1>2. UNCHANGED <<disk, kernel, calm>> /\ job' \in JobType
      /\ (job'.pc = "idle" \/ (job'.pc = "abort" /\ Exact(rec.act) /\ job'.op = job.op))
  BY JobShapes DEF RolledBack, Labels
<1>3. job'.pc = "abort" => Running(rec.act)
  BY <1>2, ExactIsRunning, Zenon
<1>4. ShapeInv' /\ DirInv'
  BY <1>2, Zenon DEF ShapeInv, DirInv, kernel
<1>5. CallInv' /\ TargetInv'
  BY <1>1, <1>2, Zenon DEF CallInv, TargetInv, In, kernel
<1>6. QED
  BY <1>2, <1>3, <1>4, <1>5, CallMoves, Zenon DEF kernel

\* The apply that was put back is undone: the old generation goes on, a first one is
\* torn down.
LEMMA BackToOldStep ==
    ASSUME ClassicAssumption, ClassicInv, NEW next \in JobType, BackToOld(next),
           UNCHANGED <<dir, files, kernel, calm>>,
           next.pc \in {"idle", "journal", "detach"},
           next.pc \in {"journal", "detach"} => next.op # "commit", job.op # "commit",
           In("applying", "staging") \/ In("applying", "mutating"),
           gen = rec.agen, Running(rec.act)
    PROVE  ClassicInv' /\ StepOK
<1>1. CASE rec.agen = 0
  <2>1. /\ rec' = Detaching /\ job' \in JobType /\ job'.pc \in {"idle", "recover"}
        /\ job'.pc = "recover" => job'.op # "commit"
    BY <1>1, JobShapes DEF BackToOld, Persist, ClassicInv, Labels
  <2>2. QED
    BY <1>1, <2>1, DetachingStep, Zenon DEF In
<1>2. CASE rec.agen # 0
  <2>1. /\ rec' = Aborted /\ job' \in JobType /\ job'.pc \in {"idle", "journal", "detach"}
        /\ job'.pc \in {"journal", "detach"} => job'.op # "commit"
    BY <1>2, JobShapes, Zenon DEF BackToOld, Persist, ClassicInv
  <2>2. QED
    BY <1>2, <2>1, AbortedStep, Zenon
<1>3. QED
  BY <1>1, <1>2, Zenon

\* abortFailedOwnerApply
LEMMA FinishAbortStep ==
    ASSUME ClassicAssumption, ClassicInv, FinishAbort
    PROVE  ClassicInv' /\ StepOK
<1>1. /\ In("applying", "mutating") /\ gen = rec.agen /\ Running(rec.act)
      /\ job.op # "commit"
  BY Zenon DEF FinishAbort, At, ClassicInv, LogicInv, CallInv, FilterInv, TargetInv
<1>2. Idle \in JobType /\ Idle.pc = "idle"
  BY JobShapes, Zenon DEF ClassicInv
<1>3. BackToOld(Idle) /\ UNCHANGED <<dir, files, kernel, calm>>
  BY Zenon DEF FinishAbort
<1>4. QED
  BY <1>1, <1>2, <1>3, BackToOldStep, Zenon

\* completeApplyingPinOwnerRecord: the published generation is the active one.
LEMMA CompletedStep ==
    ASSUME ClassicAssumption, ClassicInv, Recovering("applying", "cleanup"),
           Persist(Completed, OnActive), UNCHANGED <<dir, files, kernel, calm>>
    PROVE  ClassicInv' /\ StepOK
<1> USE DEF ClassicInv, LogicInv, kernel
<1>1. /\ In("applying", "cleanup") /\ job.pc = "recover" /\ gen = rec.ngen
      /\ rec.ngen = rec.agen + 1 /\ rec.agen \in Gens /\ rec.ngen \in Gens
  BY Zenon DEF Recovering, At, PhaseInv, In, ShapeInv, RecordType
<1>2. /\ rec'.phase = "active" /\ rec'.step = "ready" /\ rec'.agen = rec.ngen /\ rec'.ngen = 0
      /\ rec'.act = rec.des /\ rec'.des = NoFilters /\ rec' \in RecordType
  BY ActiveShape DEF Persist, Completed, ShapeInv, RecordType
<1>3. /\ job' \in JobType /\ job'.pc \in {"idle", "journal", "detach", "trim"}
      /\ job'.pc = "trim" => job.op = "commit" /\ job'.target = job.target
      /\ job'.pc \in {"journal", "detach"} => job'.op # "commit"
  BY JobShapes, Zenon DEF Persist
<1>4. rec.ngen # 0
  BY <1>1 DEF Gens
<1>5. ShapeInv'
  BY <1>2, <1>3, Zenon DEF ShapeInv
<1>6. PhaseInv'
  BY <1>1, <1>2, <1>4, NoFiltersShape, Zenon DEF PhaseInv
<1>7. CallInv' /\ DirInv'
  BY <1>1, <1>2, <1>3, Zenon DEF CallInv, DirInv, In
<1>8. WholeInv'
  BY <1>1, <1>2, <1>3, <1>4, Zenon DEF WholeInv, InBank, In
<1>9. FilterInv'
  BY <1>1, <1>2, <1>3, NoFiltersShape, Zenon DEF FilterInv, Running, In
<1>10. TargetInv'
  BY <1>1, <1>2, <1>3, Zenon DEF TargetInv, Wanted, In
<1>11. CommitStep
  <2>1. Stage = "published" /\ Stage' = "idle" /\ Published' = Published
    BY <1>1, <1>2, Zenon DEF Stage, Published, In
  <2>2. QED
    BY <1>2, <1>6, <2>1, PublishedIs, Zenon DEF CommitStep, Commit!Next, Commit!Finish
<1>12. HitlessStep
  BY Zenon DEF HitlessStep
<1>13. QED
  BY <1>5, <1>6, <1>7, <1>8, <1>9, <1>10, <1>11, <1>12, Zenon DEF StepOK

\* The recovery of an apply ends with the generation it decided for.
LEMMA FinishApplyingStep ==
    ASSUME ClassicAssumption, ClassicInv, FinishApplying
    PROVE  ClassicInv' /\ StepOK
<1> USE DEF ClassicInv, LogicInv
<1>1. UNCHANGED <<dir, files, kernel, calm>>
  BY Zenon DEF FinishApplying
<1>2. CASE rec.step = "cleanup"
  BY <1>1, <1>2, CompletedStep, Zenon DEF FinishApplying, MayFinish, Recovering, In
<1>3. CASE rec.step # "cleanup"
  <2>1. /\ In("applying", "staging") /\ job.pc = "recover" /\ gen = rec.agen
        /\ Exact(rec.act) /\ BackToOld(OnActive)
    BY <1>3, Zenon DEF FinishApplying, MayFinish, Recovering, In, At
  <2>2. job.op # "commit"
    BY <2>1, Zenon DEF TargetInv, In
  <2>3. Running(rec.act)
    BY <2>1, ExactIsRunning, Zenon
  <2>4. /\ OnActive \in JobType /\ OnActive.pc \in {"idle", "journal", "detach"}
        /\ OnActive.pc \in {"journal", "detach"} => OnActive.op # "commit"
    BY <2>2, JobShapes, Zenon
  <2>5. QED
    BY <1>1, <2>1, <2>2, <2>3, <2>4, BackToOldStep, Zenon
<1>4. QED
  BY <1>2, <1>3, Zenon

\* An active record is accepted, and the call goes on with what it is for.
LEMMA RecoverActiveStep ==
    ASSUME ClassicInv, RecoverActive
    PROVE  ClassicInv' /\ StepOK
<1> USE DEF ClassicInv, LogicInv, disk
<1>1. rec.phase = "active" /\ job.pc = "recover" /\ dir
  BY Zenon DEF RecoverActive, Recovering, In, At, DirInv
<1>2. UNCHANGED <<disk, kernel, calm>> /\ job' = OnActive
  BY Zenon DEF RecoverActive
<1>3. /\ job' \in JobType /\ job'.pc \in {"idle", "journal", "detach", "trim"}
      /\ job'.pc = "trim" => job.op = "commit" /\ job'.target = job.target
      /\ job'.pc \in {"journal", "detach"} => job'.op # "commit"
  BY <1>2, JobShapes, Zenon
<1>4. ShapeInv' /\ DirInv'
  BY <1>2, <1>3, Zenon DEF ShapeInv, DirInv, kernel
<1>5. CallInv'
  BY <1>1, <1>2, <1>3, Zenon DEF CallInv
<1>6. TargetInv'
  BY <1>1, <1>2, <1>3, Zenon DEF TargetInv, Wanted, In
<1>7. QED
  BY <1>2, <1>3, <1>4, <1>5, <1>6, CallMoves, Zenon DEF kernel

\* A recovery that refuses what it finds.
LEMMA RefusedStep ==
    ASSUME ClassicInv, ActiveRefused \/ ForwardRefused \/ Crash
    PROVE  ClassicInv' /\ StepOK
<1>1. job' = Idle /\ UNCHANGED <<disk, kernel, calm>>
  BY Zenon DEF ActiveRefused, ForwardRefused, Crash
<1>2. dir' \in BOOLEAN /\ DirInv'
  BY <1>1, Zenon DEF ClassicInv, LogicInv, ShapeInv, DirInv, disk
<1>3. QED
  BY <1>1, <1>2, CallEnds, Zenon DEF disk

-----------------------------------------------------------------------------
(* Detach *)

\* newDetachingPinOwnerRecord
LEMMA BeginDetachStep ==
    ASSUME ClassicAssumption, ClassicInv, BeginDetach
    PROVE  ClassicInv' /\ StepOK
<1>1. rec.phase = "active" /\ gen = rec.agen /\ Running(rec.act) /\ job.op # "commit"
  BY Zenon DEF BeginDetach, At, ClassicInv, LogicInv, CallInv, PhaseInv, FilterInv, TargetInv
<1>2. /\ rec' = Detaching /\ UNCHANGED <<dir, files, kernel, calm>>
      /\ job' \in JobType /\ job'.pc \in {"idle", "detaching"}
      /\ job'.pc = "detaching" => job'.op = job.op
  BY JobShapes DEF BeginDetach, Persist, ClassicInv, Labels
<1>3. QED
  BY <1>1, <1>2, DetachingStep, Zenon

\* A detach goes on to filters, to maps and to stages.
LEMMA DetachAdvances ==
    ASSUME ClassicAssumption, ClassicInv, BeginDetachFilters \/ BeginUnlinkMaps \/ BeginCleanupStages
    PROVE  ClassicInv' /\ StepOK
<1> USE DEF ClassicInv, LogicInv
<1>1. rec.phase = "detaching" /\ job.pc \in {"recover", "detaching"}
  BY Zenon DEF BeginDetachFilters, BeginUnlinkMaps, BeginCleanupStages, DetachAt, In
<1>2. PICK s \in {"mutating_tc", "unlinking_maps", "cleanup_stages"} :
        /\ rec' = Advance("detaching", s)
        /\ job' \in {job, Idle} \/ (s = "cleanup_stages" /\ job' \in {Goto("recover"), Idle})
        /\ s = "cleanup_stages" => FiltersGone /\ job' \in {Goto("recover"), Idle}
  BY Zenon DEF BeginDetachFilters, BeginUnlinkMaps, BeginCleanupStages, Persist
<1>3. UNCHANGED <<dir, files, kernel, calm>>
  BY Zenon DEF BeginDetachFilters, BeginUnlinkMaps, BeginCleanupStages
<1>4. /\ rec'.phase = "detaching" /\ rec'.step = s
      /\ rec'.agen = rec.agen /\ rec'.ngen = rec.ngen
      /\ rec'.act = rec.act /\ rec'.des = rec.des
  BY <1>2, AdvanceShape DEF Steps, Phases
<1>5. /\ job' \in JobType /\ job'.pc \in {"idle", "recover", "detaching"}
      /\ job'.pc # "idle" => job'.op = job.op
      /\ job'.pc = "detaching" => job.pc = "detaching" /\ s # "cleanup_stages"
  BY <1>1, <1>2, JobShapes DEF ShapeInv, Labels
<1>6. PhaseInv'
  BY <1>1, <1>3, <1>4, Zenon DEF PhaseInv, kernel
<1>7. CallInv'
  BY <1>1, <1>4, <1>5, Zenon DEF CallInv
<1>8. s = "cleanup_stages" => \A t \in Slots : filter[t] = 0
  <2>1. s = "cleanup_stages" => Running(NoFilters)
    BY <1>2, ExactIsRunning, NoFiltersShape, Zenon DEF FiltersGone
  <2>2. QED
    BY <2>1, NoFiltersShape, Zenon DEF Running
<1>9. FilterInv'
  BY <1>3, <1>4, <1>5, <1>8, Zenon DEF FilterInv, Running, In, kernel
<1>10. TargetInv'
  <2>1. job'.pc = "recover" => job'.op # "commit"
    <3>1. CASE job.pc = "recover"
      BY <1>1, <1>5, <3>1, Zenon DEF TargetInv, In
    <3>2. CASE job.pc = "detaching"
      BY <1>2, <1>5, <3>2, Zenon DEF TargetInv, ClassicInv
    <3>3. QED
      BY <1>1, <3>1, <3>2, Zenon
  <2>2. QED
    BY <1>5, <2>1, Zenon DEF TargetInv
<1>11. QED
  BY <1>1, <1>2, <1>3, <1>4, <1>5, <1>6, <1>7, <1>9, <1>10, StepMoves, Zenon DEF Steps

\* Entries that are staged, unlinked, restored or dropped under a record.
LEMMA DetachFilesStep ==
    ASSUME ClassicInv, NEW m \in Maps,
           StageMap(m) \/ UnlinkMap(m) \/ RestoreMap(m) \/ RemoveMapStage(m)
    PROVE  ClassicInv' /\ StepOK
<1>1. rec.phase # "none"
  BY Zenon DEF StageMap, UnlinkMap, RestoreMap, RemoveMapStage, DetachAt, In, At, ClassicInv,
         LogicInv, CallInv
<1>2. UNCHANGED <<rec, dir, filter, gen, data, bank, job, clsact, calm>>
  BY Zenon DEF StageMap, UnlinkMap, RestoreMap, RemoveMapStage, kernel
<1>3. QED
  BY <1>1, <1>2, EntriesMove, Zenon DEF ClassicInv, ShapeInv

\* removeOwnerProgramStages
LEMMA RemoveStageStep ==
    ASSUME ClassicInv, NEW p \in Progs, RemoveStage(p)
    PROVE  ClassicInv' /\ StepOK
<1>1. rec.phase # "none"
  BY Zenon DEF RemoveStage, MayUnstage, MayFinish, Keep, Recovering, In, At, ClassicInv,
         LogicInv, CallInv
<1>2. UNCHANGED <<rec, dir, filter, gen, data, bank, job, clsact, calm>>
  BY Zenon DEF RemoveStage, kernel
<1>3. QED
  BY <1>1, <1>2, EntriesMove, Zenon DEF ClassicInv, ShapeInv

\* A detach takes a filter away, or puts it back.
LEMMA DetachFilterStep ==
    ASSUME ClassicInv, NEW s \in Slots, DetachFilter(s) \/ RestoreFilter(s)
    PROVE  ClassicInv' /\ StepOK
<1> USE DEF ClassicInv, LogicInv
<1>1. /\ rec.phase = "detaching" /\ rec.step \notin {"staging", "cleanup_stages"}
      /\ job.pc \in {"recover", "detaching", "refilter"}
  BY Zenon DEF DetachFilter, RestoreFilter, DetachAt, In, At, CallInv
<1>2. UNCHANGED <<disk, clsact, gen, data, bank, job, calm>>
  BY Zenon DEF DetachFilter, RestoreFilter
<1>3. /\ filter' \in FilterType /\ filter'[s] \in {0, rec.act[s]}
      /\ \A t \in Slots \ {s} : filter'[t] = filter[t]
  BY Zenon DEF DetachFilter, RestoreFilter, ShapeInv, RecordType, FilterType
<1>4. FilterInv'
  BY <1>1, <1>2, <1>3, Zenon DEF FilterInv, In, disk
<1>5. HitlessStep
  BY <1>1, Zenon DEF HitlessStep
<1>6. QED
  BY <1>2, <1>3, <1>4, <1>5, FiltersMove, Zenon DEF ShapeInv

\* recoverDetachingPinOwnerTransaction refuses, and a detach that failed restores.
LEMMA DetachTurnsStep ==
    ASSUME ClassicInv, UnlinkRefused \/ RestoreMapsDone \/ RestoreDone
    PROVE  ClassicInv' /\ StepOK
<1> USE DEF ClassicInv, LogicInv, disk
<1>1. /\ job' \in JobType /\ UNCHANGED <<disk, kernel, calm>>
      /\ \/ job'.pc = "idle"
         \/ /\ job.pc = "detaching" /\ job'.pc = "restore" /\ In("detaching", "unlinking_maps")
         \/ job.pc = "restore" /\ job'.pc = "refilter"
         \/ job.pc = "refilter" /\ job'.pc = "unstage" /\ Exact(rec.act)
  <2>1. CASE UnlinkRefused
    BY <2>1, JobShapes DEF UnlinkRefused, DetachAt, At, Labels
  <2>2. CASE RestoreMapsDone
    <3>1. Goto("refilter") \in JobType /\ Goto("refilter").pc = "refilter"
      BY JobShapes, Zenon DEF Labels
    <3>2. /\ [Goto("refilter") EXCEPT !.bad = TRUE] \in JobType
          /\ [Goto("refilter") EXCEPT !.bad = TRUE].pc = "refilter"
      BY <3>1, Zenon DEF JobType
    <3>3. QED
      BY <2>2, <3>1, <3>2, Zenon DEF RestoreMapsDone, At
  <2>3. CASE RestoreDone
    BY <2>3, JobShapes DEF RestoreDone, At, Labels
  <2>4. QED
    BY <2>1, <2>2, <2>3, Zenon
<1>2. job'.pc = "unstage" => Running(rec.act)
  BY <1>1, ExactIsRunning, Zenon
<1>3. ShapeInv' /\ DirInv'
  BY <1>1, Zenon DEF ShapeInv, DirInv, kernel
<1>4. CallInv' /\ TargetInv'
  BY <1>1, Zenon DEF CallInv, TargetInv, In
<1>5. QED
  BY <1>1, <1>2, <1>3, <1>4, CallMoves, Zenon DEF kernel

\* abortDetachingPinOwnerRecord
LEMMA KeepActiveStep ==
    ASSUME ClassicAssumption, ClassicInv, KeepActive
    PROVE  ClassicInv' /\ StepOK
<1> USE DEF ClassicInv, LogicInv
<1>1. rec.phase = "detaching" /\ rec.agen # 0 /\ gen = rec.agen
  BY Zenon DEF KeepActive, Keep, At, CallInv, PhaseInv
<1>2. Running(rec.act)
  <2>1. CASE Keep
    BY <2>1, ExactIsRunning, Zenon DEF Keep
  <2>2. CASE At("unstage")
    BY <2>2, Zenon DEF At, FilterInv
  <2>3. QED
    BY <2>1, <2>2, Zenon DEF KeepActive
<1>3. /\ job' \in JobType /\ job'.pc \in {"idle", "journal", "detach"}
      /\ job'.pc \in {"journal", "detach"} => job'.op # "commit"
  <2>1. CASE At("unstage")
    BY <2>1, JobShapes, Zenon DEF KeepActive, Persist
  <2>2. CASE ~At("unstage")
    <3>1. job.op # "commit"
      BY <1>1, <2>2, Zenon DEF KeepActive, Keep, At, TargetInv, In
    <3>2. QED
      BY <2>2, <3>1, JobShapes, Zenon DEF KeepActive, Persist
  <2>3. QED
    BY <2>1, <2>2, Zenon
<1>4. rec' = Aborted /\ UNCHANGED <<dir, files, kernel, calm>>
  BY Zenon DEF KeepActive, Persist
<1>5. QED
  BY <1>1, <1>2, <1>3, <1>4, AbortedStep, Zenon

\* The record goes once nothing is left of what it owned.
LEMMA RemoveRecordStep ==
    ASSUME ClassicAssumption, ClassicInv, RemoveRecord
    PROVE  ClassicInv' /\ StepOK
<1> USE DEF ClassicInv, LogicInv, kernel
<1>1. In("detaching", "cleanup_stages") /\ files = {}
  BY Zenon DEF RemoveRecord, Recovering
<1>2. /\ rec' = NoRecord /\ UNCHANGED <<dir, files, kernel, calm>>
      /\ job' \in JobType /\ job'.pc \in {"idle", "rmdir"}
  BY JobShapes DEF RemoveRecord, Persist, Labels
<1>3. /\ rec' \in RecordType /\ rec'.phase = "none" /\ rec'.step = "none" /\ rec'.agen = 0
      /\ rec'.ngen = 0 /\ rec'.act = NoFilters /\ rec'.des = NoFilters
  BY <1>2, NoFiltersShape, Zenon DEF NoRecord, RecordType, Phases, Steps
<1>4. ShapeInv'
  BY <1>2, <1>3, Zenon DEF ShapeInv
<1>5. PhaseInv'
  BY <1>2, <1>3, NoFiltersShape, Zenon DEF PhaseInv
<1>6. CallInv' /\ TargetInv'
  BY <1>2, <1>3, Zenon DEF CallInv, TargetInv
<1>7. DirInv'
  BY <1>1, <1>2, <1>3, Zenon DEF DirInv
<1>8. WholeInv'
  BY <1>2, <1>3, NoFiltersShape, Zenon DEF WholeInv
<1>9. FilterInv'
  BY <1>1, <1>2, <1>3, NoFiltersShape, Zenon DEF FilterInv, Running, In
<1>10. CommitStep
  <2>1. Stage = "removing" /\ Stage' = "idle" /\ Published' = 0 /\ rec.ngen = 0
    BY <1>1, <1>3, Zenon DEF Stage, Published, PhaseInv, In
  <2>2. QED
    BY <1>3, <1>5, <2>1, PublishedIs, Zenon DEF CommitStep, Commit!Next, Commit!Removed
<1>11. HitlessStep
  BY <1>2, Zenon DEF HitlessStep
<1>12. QED
  BY <1>4, <1>5, <1>6, <1>7, <1>8, <1>9, <1>10, <1>11, Zenon DEF StepOK

\* The empty directory goes behind the record.
LEMMA RemoveDirectoryStep ==
    ASSUME ClassicInv, RemoveDirectory
    PROVE  ClassicInv' /\ StepOK
<1>1. rec.phase = "none"
  BY Zenon DEF RemoveDirectory, At, ClassicInv, LogicInv, CallInv
<1>2. job' = Idle /\ dir' \in BOOLEAN /\ UNCHANGED <<rec, kernel, calm>> /\ DirInv'
  BY <1>1, Zenon DEF RemoveDirectory, ClassicInv, LogicInv, DirInv
<1>3. QED
  BY <1>2, CallEnds, Zenon

-----------------------------------------------------------------------------
(* Calls begin, and fail *)

\* A call begins with the recovery if there is a record.
LEMMA StartStep ==
    ASSUME ClassicInv, StartDetach \/ \E target \in SUBSET Slots : StartApply(target)
    PROVE  ClassicInv' /\ StepOK
<1> USE DEF ClassicInv, LogicInv
<1>1. rec.phase = "none" <=> rec = NoRecord
  BY DEF PhaseInv, NoRecord
<1>2. UNCHANGED <<rec, files, kernel, calm>> /\ dir' \in BOOLEAN /\ (dir => dir')
  BY Zenon DEF StartDetach, StartApply, disk, ShapeInv
<1>3. /\ job' \in JobType /\ job'.op # "commit"
      /\ \/ job'.pc = "recover" /\ rec.phase # "none"
         \/ job'.pc = "journal" /\ rec.phase = "none" /\ dir'
  <2>1. CASE StartDetach
    BY <1>1, <2>1, Zenon DEF StartDetach, Idle, JobType, Labels
  <2>2. CASE \E target \in SUBSET Slots : StartApply(target)
    <3>1. PICK target \in SUBSET Slots : StartApply(target)
      BY <2>2, Zenon
    <3>2. job' \in JobType /\ job'.op = "apply" /\ dir'
      BY <3>1, Zenon DEF StartApply, Idle, JobType, Labels
    <3>3. job'.pc = IF rec = NoRecord THEN "journal" ELSE "recover"
      BY <3>1, Zenon DEF StartApply, Idle
    <3>4. QED
      BY <1>1, <3>2, <3>3, Zenon
  <2>3. QED
    BY <2>1, <2>2, Zenon
<1>4. ShapeInv' /\ DirInv'
  BY <1>2, <1>3, Zenon DEF ShapeInv, DirInv, kernel
<1>5. CallInv' /\ TargetInv'
  BY <1>2, <1>3, Zenon DEF CallInv, TargetInv
<1>6. QED
  BY <1>2, <1>3, <1>4, <1>5, CallMoves, Zenon DEF kernel

\* An empty directory goes, and faults may end.
LEMMA IdleStep ==
    ASSUME ClassicInv, DetachEmpty \/ BecomeCalm
    PROVE  ClassicInv' /\ StepOK
<1> USE DEF ClassicInv, LogicInv
<1>1. CASE BecomeCalm
  BY <1>1, EntriesMove, Zenon DEF BecomeCalm, disk, kernel, ShapeInv
<1>2. CASE DetachEmpty
  <2>1. /\ rec.phase = "none" /\ job.pc = "idle" /\ dir' \in BOOLEAN
        /\ UNCHANGED <<rec, files, kernel, job, calm>>
    BY <1>2, Zenon DEF DetachEmpty, NoRecord, At
  <2>2. ShapeInv' /\ DirInv'
    BY <2>1, Zenon DEF ShapeInv, DirInv, kernel
  <2>3. CallInv' /\ TargetInv'
    BY <2>1, Zenon DEF CallInv, TargetInv
  <2>4. QED
    BY <2>1, <2>2, <2>3, CallMoves, Zenon DEF kernel
<1>3. QED
  BY <1>1, <1>2, Zenon

\* An error makes Execute roll back and a detach restore; other calls return.
LEMMA CallFailsStep ==
    ASSUME ClassicInv, CallFails
    PROVE  ClassicInv' /\ StepOK
<1> USE DEF ClassicInv, LogicInv, disk
<1>1. UNCHANGED <<disk, kernel, calm>>
  BY Zenon DEF CallFails
<1>2. /\ job' \in JobType
      /\ \/ job'.pc = "idle"
         \/ job.pc = "attach" /\ job'.pc = "undo" /\ job'.op = job.op
         \/ job.pc = "detaching" /\ rec.step # "staging" /\ job'.pc = "restore"
  <2>1. CASE At("attach")
    <3>1. Goto("undo") \in JobType /\ Goto("undo").pc = "undo" /\ Goto("undo").op = job.op
      BY JobShapes, Zenon DEF Labels
    <3>2. Touched \subseteq Slots
      BY Zenon DEF Touched
    <3>3. job' = [Goto("undo") EXCEPT !.left = Touched]
      BY <2>1, Zenon DEF CallFails, At
    <3>4. job' \in JobType /\ job'.pc = "undo" /\ job'.op = job.op
      BY <3>1, <3>2, <3>3, Zenon DEF JobType
    <3>5. QED
      BY <2>1, <3>4, Zenon DEF At
  <2>2. CASE ~At("attach") /\ At("detaching") /\ rec.step # "staging"
    <3>1. job' \in {Idle, Goto("restore")}
      BY <2>2, Zenon DEF CallFails
    <3>2. QED
      BY <2>2, <3>1, JobShapes DEF At, Labels
  <2>3. CASE ~At("attach") /\ ~(At("detaching") /\ rec.step # "staging")
    <3>1. job' = Idle
      BY <2>3, Zenon DEF CallFails
    <3>2. QED
      BY <3>1, JobShapes, Zenon
  <2>4. QED
    BY <2>1, <2>2, <2>3, Zenon
<1>3. ShapeInv' /\ DirInv'
  BY <1>1, <1>2, Zenon DEF ShapeInv, DirInv, kernel
<1>4. CallInv' /\ TargetInv'
  BY <1>1, <1>2, Zenon DEF CallInv, TargetInv, In, kernel
<1>5. QED
  BY <1>1, <1>2, <1>3, <1>4, CallMoves, Zenon DEF kernel

-----------------------------------------------------------------------------
(* Theorems *)

\* Before the first call there is no record, no entry and no filter.
LEMMA ClassicInvInit ==
    ASSUME ClassicAssumption, Init
    PROVE  ClassicInv /\ Commit!Init
<1>1. rec \in RecordType
  BY NoFiltersShape, Zenon DEF Init, NoRecord, RecordType, Phases, Steps
<1>2. job \in JobType /\ job.pc = "idle" /\ job.op = "none"
  BY Zenon DEF Init, Idle, JobType, Labels
<1>3. ShapeInv
  BY <1>1, <1>2, NoFiltersShape, Zenon DEF Init, ShapeInv
<1>4. PhaseInv /\ CallInv /\ DirInv /\ TargetInv
  BY <1>2, NoFiltersShape, Zenon DEF Init, PhaseInv, CallInv, DirInv, TargetInv, NoRecord
<1>5. WholeInv /\ FilterInv
  BY <1>2, NoFiltersShape, Zenon DEF Init, WholeInv, FilterInv, Running, In, NoRecord
<1>6. Commit!Init
  BY Zenon DEF Init, Commit!Init, Stage, NoRecord
<1>7. QED
  BY <1>3, <1>4, <1>5, <1>6, Zenon DEF ClassicInv, LogicInv

\* Every step keeps the invariant, commits at most once and leaves no kept slot
\* without a filter.
LEMMA ClassicInvNext ==
    ASSUME ClassicAssumption, ClassicInv, [Next]_vars
    PROVE  ClassicInv' /\ StepOK
<1>1. CASE UNCHANGED vars
  BY <1>1, EntriesMove, Zenon DEF vars, disk, kernel, ClassicInv, ShapeInv
<1>2. CASE Apply
  BY <1>2, JournalStep, JournalEndStep, PopulateStep, PopulatedStep, BeginMutatingStep,
     ControlStep, CleanupStep, TrimStep, RolledBackStep, FinishAbortStep, PinMapStep,
     StageProgramStep, ClsactStep, ExecuteStep, RollbackStep DEF Apply
<1>3. CASE Recover
  BY <1>3, RecoverActiveStep, RefusedStep, ControlStep, CleanupStep, FinishApplyingStep,
     ClsactStep, ForwardFilterStep, RemoveStageStep, Zenon DEF Recover
<1>4. CASE Detach
  BY <1>4, BeginDetachStep, DetachAdvances, DetachTurnsStep, RemoveRecordStep,
     RemoveDirectoryStep, KeepActiveStep, DetachFilesStep, DetachFilterStep, Zenon DEF Detach
<1>5. CASE ~Work /\ Next
  BY <1>5, StartStep, IdleStep, CallFailsStep, RefusedStep, Zenon DEF Next
<1>6. QED
  BY <1>1, <1>2, <1>3, <1>4, <1>5, Zenon DEF Next, Work

\* The inductive invariant of the classic TC transactions.
THEOREM ClassicInvariant ==
    ASSUME ClassicAssumption
    PROVE  Spec => []ClassicInv
<1>1. Init => ClassicInv
  BY ClassicInvInit, Zenon
<1>2. ClassicInv /\ [Next]_vars => ClassicInv'
  BY ClassicInvNext, Zenon
<1>3. QED
  BY <1>1, <1>2, PTL DEF Spec

\* applyClassicTC, detachClassicTC and recoverPinOwnerTransaction implement the commit
\* of a generation, whatever fails and wherever the process is killed.
THEOREM ClassicCommitsOnce ==
    ASSUME ClassicAssumption
    PROVE  Spec => CommitsOnce
<1>1. Init => Commit!Init
  BY ClassicInvInit, Zenon
<1>2. ClassicInv /\ [Next]_vars => [Commit!Next]_(Commit!vars)
  BY ClassicInvNext, Zenon DEF StepOK, CommitStep
<1>3. QED
  BY <1>1, <1>2, ClassicInvariant, PTL DEF Spec, CommitsOnce, Commit!Spec

\* filterReplace: a slot that both generations have is never without a filter while
\* one replaces the other.
THEOREM ClassicHitless ==
    ASSUME ClassicAssumption
    PROVE  Spec => [][HitlessStep]_vars
<1>1. ClassicInv /\ [Next]_vars => [HitlessStep]_vars
  BY ClassicInvNext, Zenon DEF StepOK
<1>2. QED
  BY <1>1, ClassicInvariant, PTL DEF Spec

\* commitControl, populateDataMaps: the generation the control word names has all its
\* entries and its own tail calls, and outside a detach exactly its own filters.
THEOREM ClassicPublishesWhole ==
    ASSUME ClassicAssumption
    PROVE  Spec => []PublishedIsWhole
<1>1. ClassicInv => PublishedIsWhole
  <2> SUFFICES ASSUME ClassicInv, rec # NoRecord, gen # 0
               PROVE  /\ data[gen] = "full"
                      /\ Programs(IF gen = rec.ngen THEN rec.des ELSE rec.act) \subseteq {bank[gen % 2]}
                      /\ rec.phase = "applying" /\ gen = rec.ngen => Exact(rec.des)
    BY Zenon DEF PublishedIsWhole
  <2> USE DEF ClassicInv, LogicInv
  <2>1. CASE rec.phase = "applying" /\ gen = rec.ngen
    <3>1. rec.step # "staging"
      BY <2>1 DEF PhaseInv, ShapeInv, RecordType, Gens
    <3>2. data[rec.ngen] = "full" /\ InBank(rec.des, rec.ngen) /\ Running(rec.des)
      BY <2>1, <3>1, Zenon DEF WholeInv, FilterInv
    <3>3. QED
      BY <2>1, <3>2, Zenon DEF InBank, Programs, Exact, Running
  <2>2. CASE ~(rec.phase = "applying" /\ gen = rec.ngen)
    <3>1. gen = rec.agen /\ gen # rec.ngen
      BY <2>2, Zenon DEF PhaseInv, ShapeInv, RecordType, Phases
    <3>2. data[gen] = "full" /\ InBank(rec.act, gen)
      BY <3>1, ZenonT(30) DEF WholeInv
    <3>3. QED
      BY <2>2, <3>1, <3>2, Zenon DEF InBank, Programs
  <2>3. QED
    BY <2>1, <2>2, Zenon
<1>2. QED
  BY <1>1, ClassicInvariant, PTL

\* An Apply that returns nil has the filters it was asked for, and no other.
THEOREM ClassicAppliedIsAttached ==
    ASSUME ClassicAssumption
    PROVE  Spec => []AppliedIsAttached
<1>1. ClassicInv => AppliedIsAttached
  BY SMTT(30) DEF ClassicInv, LogicInv, CallInv, PhaseInv, FilterInv, TargetInv, Running, Wanted,
         AppliedIsAttached, At, ShapeInv, JobType
<1>2. QED
  BY <1>1, ClassicInvariant, PTL

\* Every variable of the classic TC transactions has its type.
THEOREM ClassicTypeCorrect ==
    ASSUME ClassicAssumption
    PROVE  Spec => []TypeOK
<1>1. ClassicInv => TypeOK
  BY Zenon DEF ClassicInv, LogicInv, ShapeInv, DirInv, TypeOK, RecordType, JobType, FilterType,
       Phases
<1>2. QED
  BY <1>1, ClassicInvariant, PTL

-----------------------------------------------------------------------------
(* The directory: kinds of steps *)

\* The entries a step does not touch are there after it.
LEMMA SameEntries ==
    ASSUME files' = files
    PROVE  /\ Have("map")' = Have("map") /\ Have("mapstage")' = Have("mapstage")
           /\ Have("canonical-retired")' = Have("canonical-retired")
           /\ Have("stage-retired")' = Have("stage-retired")
           /\ (MapsUnstaged)' = MapsUnstaged /\ (Unstaged)' = Unstaged
BY Zenon DEF Have, MapsUnstaged, Unstaged

\* What is staged, and for which programs, under the same record.
LEMMA SameStages ==
    ASSUME UNCHANGED <<rec, files>>
    PROVE  /\ StagePrograms' = StagePrograms /\ StagedAll' = StagedAll
           /\ StagesLoaded' = StagesLoaded
BY Zenon DEF StagePrograms, Programs, StagedAll, StagesLoaded, Have

\* Neither the record nor its directory changes, and the call goes where it may.
LEMMA DirectoryStays ==
    ASSUME RecoverInv, UNCHANGED <<rec, files>>, StagesInv',
           \/ job'.pc = job.pc /\ job'.bad = job.bad
           \/ job'.pc \notin {"data", "filled", "stage", "refilter", "unstage"}
           \/ job'.pc \in {"data", "filled", "stage"} /\ Have("map") = Maps
           \/ job'.pc = "refilter" /\ job'.bad
           \/ /\ job'.pc \in {"refilter", "unstage"}
              /\ Have("map") = Maps /\ Have("canonical-retired") = {}
    PROVE  FilesInv'
<1> USE DEF RecoverInv, FilesInv
<1>1. EntryInv'
  BY SameEntries, SameStages, Zenon DEF EntryInv
<1>2. MapsInv'
  BY SameEntries, Zenon DEF MapsInv, In
<1>3. QED
  BY <1>1, <1>2, Zenon

\* A call that stays where it is, ends, or goes on to what needs no stage.
LEMMA StagesStay ==
    ASSUME RecoverInv, UNCHANGED <<rec, files, filter, gen>>,
           job'.pc \in {job.pc, "idle"} \/ (job.pc \notin {"idle", "recover", "abort", "unstage"})
    PROVE  StagesInv'
BY SameEntries, SameStages, Zenon DEF RecoverInv, FilesInv, StagesInv, In, Running, Intact

\* A call ends.
LEMMA EndsSafely ==
    ASSUME RecoverInv, UNCHANGED <<rec, files, filter, gen>>, job' = Idle
    PROVE  FilesInv'
<1>1. job'.pc = "idle"
  BY Zenon DEF Idle
<1>2. StagesInv'
  BY <1>1, StagesStay, Zenon
<1>3. QED
  BY <1>1, <1>2, DirectoryStays, Zenon

-----------------------------------------------------------------------------
(* The directory: Apply *)

\* A new apply finds the maps of the active generation, or makes its own.
LEMMA JournalFiles ==
    ASSUME ClassicAssumption, RecoverInv, ClassicInv', Journal
    PROVE  FilesInv'
<1> USE DEF RecoverInv, FilesInv, ClassicInv, LogicInv
<1>1. /\ rec'.phase = "applying" /\ rec'.step = "staging" /\ rec'.agen = rec.agen
      /\ files' = files
  BY Zenon DEF Journal, Persist
<1>2. /\ job'.pc \in {"maps", "data", "idle"}
      /\ job'.pc = "data" => rec # NoRecord
  BY JobShapes, SMTT(30) DEF Journal, Persist, Labels
<1>3. rec.phase \in {"none", "active"} /\ (rec.phase = "none" <=> rec = NoRecord)
  BY SMTT(30) DEF Journal, At, CallInv, PhaseInv, NoRecord
<1>4. rec.phase = "active" => Have("map") = Maps /\ Have("canonical-retired") = {}
  BY Zenon DEF Journal, Twice, MapsInv, EntryInv, Have
<1>5. rec.phase = "none" => files = {} /\ rec.agen = 0
  BY SMTT(30) DEF DirInv, PhaseInv, NoRecord
<1>6. Have("canonical-retired") = {} /\ MapsUnstaged
  BY <1>3, <1>4, <1>5, Zenon DEF Have, EntryInv
<1>7. \A p \in Progs : <<"stage", p>> \notin files /\ <<"retired", p>> \notin files
  BY <1>3, Zenon DEF EntryInv
<1>8. EntryInv'
  BY <1>1, <1>2, <1>6, <1>7, SameEntries, Zenon DEF EntryInv
<1>9. MapsInv'
  BY <1>1, <1>2, <1>3, <1>4, <1>5, SameEntries, Zenon DEF MapsInv, In
<1>10. StagesInv'
  BY <1>1, Zenon DEF StagesInv, In
<1>11. QED
  BY <1>8, <1>9, <1>10, Zenon

\* pinFreshCollectionMaps pins a map.
LEMMA PinMapFiles ==
    ASSUME RecoverInv, NEW m \in Maps, PinMap(m)
    PROVE  FilesInv'
<1> USE DEF RecoverInv, FilesInv, ClassicInv, LogicInv
<1>1. In("applying", "staging") /\ job.pc = "maps" /\ rec' = rec
  BY Zenon DEF PinMap, At, CallInv
<1>2. files' = files \cup {<<"map", m>>}
  BY Zenon DEF PinMap
<1>3. /\ Have("map")' = Have("map") \cup {m} /\ Have("mapstage")' = Have("mapstage")
      /\ Have("canonical-retired")' = Have("canonical-retired")
      /\ Have("stage-retired")' = Have("stage-retired")
      /\ \A p \in Progs : /\ <<"stage", p>> \in files' <=> <<"stage", p>> \in files
                          /\ <<"retired", p>> \in files' <=> <<"retired", p>> \in files
  BY <1>2, Zenon DEF Have
<1>4. \/ job'.pc = "maps"
      \/ job'.pc = "data" /\ Have("map") = Maps \ {m}
  BY <1>1, JobShapes, ZenonT(30) DEF PinMap, Labels
<1>5. files' \subseteq EntryType
  BY <1>2 DEF EntryInv, EntryType
<1>6. Have("canonical-retired") = {}
  BY <1>1, Zenon DEF EntryInv, In
<1>7. EntryInv'
  BY <1>1, <1>3, <1>4, <1>5, <1>6, Zenon DEF EntryInv, In, MapsUnstaged, StagePrograms, Programs
<1>8. Have("map") \subseteq Maps
  BY Zenon DEF Have
<1>9. MapsInv'
  BY <1>1, <1>3, <1>4, <1>8, Zenon DEF MapsInv, In
<1>10. StagesInv'
  BY <1>1, Zenon DEF StagesInv, In
<1>11. QED
  BY <1>7, <1>9, <1>10, Zenon

\* stageOwnerPrograms pins a program the record names.
LEMMA StageProgramFiles ==
    ASSUME RecoverInv, NEW p \in Progs, StageProgram(p)
    PROVE  FilesInv'
<1> USE DEF RecoverInv, FilesInv, ClassicInv, LogicInv
<1>1. rec.phase \in {"applying", "detaching"} /\ rec.step = "staging" /\ UNCHANGED <<rec, job>>
  BY Zenon DEF StageProgram, At, In, CallInv
<1>2. files' = files \cup {<<"stage", p>>} /\ p \in StagePrograms
  BY Zenon DEF StageProgram
<1>3. /\ Have("map")' = Have("map") /\ Have("mapstage")' = Have("mapstage")
      /\ Have("canonical-retired")' = Have("canonical-retired")
      /\ Have("stage-retired")' = Have("stage-retired")
      /\ \A q \in Progs : /\ <<"stage", q>> \in files' => <<"stage", q>> \in files \/ q = p
                          /\ <<"retired", q>> \in files' => <<"retired", q>> \in files
  BY <1>2, Zenon DEF Have
<1>4. files' \subseteq EntryType
  BY <1>2 DEF EntryInv, EntryType
<1>5. EntryInv'
  BY <1>1, <1>2, <1>3, <1>4, Zenon DEF EntryInv, In, MapsUnstaged, StagePrograms, Programs
<1>6. MapsInv'
  BY <1>1, <1>3, Zenon DEF MapsInv, In
<1>7. StagesInv'
  BY <1>1, Zenon DEF StagesInv, In
<1>8. QED
  BY <1>5, <1>6, <1>7, Zenon

\* The programs are staged before the first filter changes.
LEMMA BeginMutatingFiles ==
    ASSUME RecoverInv, BeginMutating
    PROVE  FilesInv'
<1> USE DEF RecoverInv, FilesInv, ClassicInv, LogicInv
<1>1. In("applying", "staging") /\ job.pc = "stage" /\ StagedAll /\ files' = files
  BY Zenon DEF BeginMutating, At, CallInv
<1>2. /\ rec'.phase = "applying" /\ rec'.step = "mutating" /\ rec'.agen = rec.agen
      /\ rec'.act = rec.act /\ rec'.des = rec.des
  BY AdvanceShape, SMTT(30) DEF BeginMutating, Persist, Steps, Phases
<1>3. job'.pc \in {"attach", "idle"}
  BY JobShapes, SMTT(30) DEF BeginMutating, Persist, Labels
<1>4. StagePrograms' = StagePrograms /\ StagedAll'
  BY <1>1, <1>2, Zenon DEF StagePrograms, Programs, StagedAll
<1>5. Have("map") = Maps
  BY <1>1, Zenon DEF MapsInv
<1>6. EntryInv'
  BY <1>1, <1>2, <1>3, <1>4, SameEntries, Zenon DEF EntryInv, In
<1>7. MapsInv'
  BY <1>1, <1>2, <1>3, <1>5, SameEntries, Zenon DEF MapsInv, In
<1>8. StagesInv'
  BY <1>2, <1>4, Zenon DEF StagesInv, In
<1>9. QED
  BY <1>6, <1>7, <1>8, Zenon

\* While filters change or the control word is written, the stages are there.
LEMMA FiltersFiles ==
    ASSUME RecoverInv, UNCHANGED <<rec, files>>,
           (job'.pc = job.pc /\ job'.bad = job.bad) \/ job'.pc = "cleanup",
           \/ In("applying", "mutating") /\ StagedAll
           \/ /\ rec.phase = "detaching" /\ rec.step \in {"mutating_tc", "unlinking_maps"}
              /\ StagesLoaded /\ (rec.step = "mutating_tc" => StagedAll)
    PROVE  FilesInv'
<1>1. StagesInv'
  BY SameStages, Zenon DEF StagesInv, In
<1>2. QED
  BY <1>1, DirectoryStays, Zenon

\* Execute, its rollback, its recovery, a detach and its restore change a filter.
LEMMA OneFilterFiles ==
    ASSUME RecoverInv, NEW s \in Slots,
           \/ AttachFilter(s) \/ DeleteStale(s) \/ Rollback(s) \/ ForwardFilter(s)
           \/ DetachFilter(s) \/ RestoreFilter(s)
    PROVE  FilesInv'
<1> USE DEF RecoverInv, FilesInv, ClassicInv, LogicInv
<1>1. UNCHANGED <<rec, files>>
  BY Zenon DEF AttachFilter, DeleteStale, Rollback, ForwardFilter, DetachFilter, RestoreFilter, disk
<1>2. job'.pc = job.pc /\ job'.bad = job.bad
  BY Zenon DEF AttachFilter, DeleteStale, Rollback, ForwardFilter, DetachFilter, RestoreFilter,
         ShapeInv, JobType
<1>3. CASE AttachFilter(s) \/ DeleteStale(s) \/ Rollback(s)
  <2>1. job.pc \in {"attach", "undo"} /\ In("applying", "mutating")
    BY <1>3, Zenon DEF AttachFilter, DeleteStale, Rollback, At, CallInv
  <2>2. StagedAll
    BY <2>1, Zenon DEF StagesInv
  <2>3. QED
    BY <1>1, <1>2, <2>1, <2>2, FiltersFiles, Zenon
<1>4. CASE ForwardFilter(s)
  BY <1>1, <1>2, <1>4, FiltersFiles, Zenon DEF ForwardFilter, Forward, Recovering
<1>5. CASE DetachFilter(s)
  BY <1>1, <1>2, <1>5, FiltersFiles, Zenon DEF DetachFilter, DetachAt, In
<1>6. CASE RestoreFilter(s)
  <2>1. /\ job.pc = "refilter" /\ rec.phase = "detaching"
        /\ rec.step \in {"mutating_tc", "unlinking_maps"}
    BY <1>6, Zenon DEF RestoreFilter, At, CallInv, PhaseInv
  <2>2. StagesLoaded /\ (rec.step = "mutating_tc" => StagedAll)
    BY <2>1, Zenon DEF StagesInv
  <2>3. QED
    BY <1>1, <1>2, <2>1, <2>2, FiltersFiles, Zenon
<1>7. QED
  BY <1>3, <1>4, <1>5, <1>6, Zenon

\* The control word is written.
LEMMA ControlFiles ==
    ASSUME RecoverInv, CommitControl \/ ForwardControl
    PROVE  FilesInv'
<1> USE DEF RecoverInv, FilesInv, ClassicInv, LogicInv
<1>1. CASE CommitControl
  <2>1. job.pc = "attach" /\ In("applying", "mutating")
    BY <1>1, Zenon DEF CommitControl, At, CallInv
  <2>2. StagedAll
    BY <2>1, Zenon DEF StagesInv
  <2>3. Goto("cleanup") \in JobType /\ Goto("cleanup").pc = "cleanup"
    BY JobShapes, Zenon DEF Labels
  <2>4. job'.pc = "cleanup" /\ UNCHANGED <<rec, files>>
    BY <1>1, <2>3, Zenon DEF CommitControl, disk, JobType
  <2>5. QED
    BY <2>1, <2>2, <2>4, FiltersFiles, Zenon
<1>2. CASE ForwardControl
  BY <1>2, FiltersFiles, Zenon DEF ForwardControl, Forward, Recovering, disk
<1>3. QED
  BY <1>1, <1>2, Zenon

\* A published generation goes to its cleanup.
LEMMA CleanupFiles ==
    ASSUME RecoverInv, BeginCleanup \/ Forwarded
    PROVE  FilesInv'
<1> USE DEF RecoverInv, FilesInv, ClassicInv, LogicInv
<1>1. In("applying", "mutating") /\ files' = files
  BY Zenon DEF BeginCleanup, Forwarded, Forward, Recovering, At, CallInv
<1>2. rec' = Advance("applying", "cleanup")
  BY Zenon DEF BeginCleanup, Forwarded, Persist
<1>3. /\ rec'.phase = "applying" /\ rec'.step = "cleanup" /\ rec'.agen = rec.agen
      /\ rec'.act = rec.act /\ rec'.des = rec.des
  BY <1>2, AdvanceShape DEF Steps, Phases
<1>4. job'.pc \in {"recover", "idle"}
  <2>1. job.pc = "recover" \/ BeginCleanup
    BY Zenon DEF Forwarded, Forward, Recovering, At
  <2>2. QED
    BY <2>1, JobShapes DEF BeginCleanup, Forwarded, Persist, Labels
<1>5. StagePrograms' = StagePrograms
  BY <1>3, Zenon DEF StagePrograms, Programs
<1>6. EntryInv'
  BY <1>1, <1>3, <1>4, <1>5, SameEntries, Zenon DEF EntryInv, In
<1>7. MapsInv'
  BY <1>1, <1>3, <1>4, SameEntries, Zenon DEF MapsInv, In
<1>8. StagesInv'
  BY <1>3, Zenon DEF StagesInv, In
<1>9. QED
  BY <1>6, <1>7, <1>8, Zenon

\* Steps that only move the call within an apply, or end it.
LEMMA CallFiles ==
    ASSUME RecoverInv,
           \/ Populate \/ Populated \/ JournalBound \/ JournalFails \/ Trim \/ RolledBack
           \/ RecoverActive \/ ActiveRefused \/ ForwardRefused \/ Crash \/ DetachEmpty
           \/ BecomeCalm \/ RemoveDirectory \/ StartDetach
           \/ \E target \in SUBSET Slots : StartApply(target)
           \/ \E s \in Slots : AddClsact(s) \/ ForwardClsact(s)
    PROVE  FilesInv'
<1> USE DEF RecoverInv, FilesInv, ClassicInv, LogicInv
<1>1. UNCHANGED <<rec, files, filter, gen>>
  BY Zenon DEF Populate, Populated, JournalBound, JournalFails, Trim, RolledBack, RecoverActive,
         ActiveRefused, ForwardRefused, Crash, DetachEmpty, BecomeCalm, RemoveDirectory,
         StartDetach, StartApply, AddClsact, ForwardClsact, disk, kernel
<1>2. CASE Populate \/ Populated
  <2>1. job.pc \in {"data", "filled"} /\ In("applying", "staging") /\ Have("map") = Maps
    BY <1>2, ZenonT(30) DEF Populate, Populated, At, CallInv, MapsInv
  <2>2. job'.pc \in {"filled", "stage", "idle"}
    BY <1>2, JobShapes, SMTT(30) DEF Populate, Populated, Labels
  <2>3. StagesInv'
    BY <1>1, <2>1, Zenon DEF StagesInv, In
  <2>4. QED
    BY <1>1, <2>1, <2>2, <2>3, DirectoryStays
<1>3. CASE RolledBack
  <2>1. job.pc = "undo" /\ job'.pc \in {"abort", "idle"}
    BY <1>3, JobShapes, Zenon DEF RolledBack, At, Labels
  <2>2. QED
    BY <1>1, <2>1, StagesStay, DirectoryStays, Zenon
<1>4. CASE RecoverActive
  <2>1. rec.phase = "active" /\ job'.pc \in {"idle", "journal", "detach", "trim"}
    BY <1>4, JobShapes, Zenon DEF RecoverActive, Recovering, In
  <2>2. StagesInv'
    BY <1>1, <2>1, Zenon DEF StagesInv, In
  <2>3. QED
    BY <1>1, <2>1, <2>2, DirectoryStays, Zenon
<1>5. CASE StartDetach \/ \E target \in SUBSET Slots : StartApply(target)
  <2>1. job.pc = "idle" /\ job'.pc \in {"journal", "recover"}
        /\ (job'.pc = "journal" => rec = NoRecord)
    BY <1>5, Zenon DEF StartDetach, StartApply, At, Idle
  <2>2. StagesInv'
    BY <1>1, <2>1, SameEntries, SameStages, SMTT(30) DEF StagesInv, In, Running, Intact, NoRecord
  <2>3. QED
    BY <1>1, <2>1, <2>2, DirectoryStays, Zenon
<1>6. CASE DetachEmpty \/ BecomeCalm \/ \E s \in Slots : AddClsact(s) \/ ForwardClsact(s)
  <2>1. job' = job
    BY <1>6, Zenon DEF DetachEmpty, BecomeCalm, AddClsact, ForwardClsact
  <2>2. QED
    BY <1>1, <2>1, StagesStay, DirectoryStays, Zenon
<1>7. CASE JournalBound \/ JournalFails \/ Trim \/ ActiveRefused \/ ForwardRefused \/ Crash
           \/ RemoveDirectory
  BY <1>1, <1>7, EndsSafely, Zenon DEF JournalBound, JournalFails, Trim, ActiveRefused,
     ForwardRefused, Crash, RemoveDirectory
<1>8. QED
  BY <1>2, <1>3, <1>4, <1>5, <1>6, <1>7, Zenon

-----------------------------------------------------------------------------
(* The directory: the stages go, and the record becomes active *)

\* Where stages may be dropped, nothing but the stages is missing.
LEMMA UnstageWhere ==
    ASSUME RecoverInv, MayUnstage
    PROVE  \/ In("applying", "mutating") /\ gen = rec.agen /\ Running(rec.act) /\ job.pc = "abort"
           \/ In("applying", "staging") \/ In("applying", "cleanup")
           \/ /\ rec.phase = "detaching" /\ rec.step \in {"mutating_tc", "unlinking_maps"}
              /\ rec.agen # 0 /\ Intact /\ job.pc \in {"recover", "unstage"}
           \/ In("detaching", "cleanup_stages")
<1> USE DEF RecoverInv, FilesInv, ClassicInv, LogicInv
<1>1. CASE At("abort")
  BY <1>1, Zenon DEF At, CallInv, FilterInv
<1>2. CASE MayFinish
  BY <1>2, Zenon DEF MayFinish, Recovering
<1>3. CASE Keep
  BY <1>3, ExactIsRunning, Zenon DEF Keep, At, Intact
<1>4. CASE At("unstage")
  BY <1>4, ZenonT(30) DEF At, CallInv, PhaseInv, FilterInv, EntryInv, Intact
<1>5. CASE Recovering("detaching", "cleanup_stages")
  BY <1>5, Zenon DEF Recovering
<1>6. QED
  BY <1>1, <1>2, <1>3, <1>4, <1>5, Zenon DEF MayUnstage

\* removeOwnerProgramStages drops a program's stage.
LEMMA RemoveStageFiles ==
    ASSUME RecoverInv, NEW p \in Progs, RemoveStage(p)
    PROVE  FilesInv'
<1> USE DEF RecoverInv, FilesInv
<1>1. UNCHANGED <<rec, job, filter, gen>>
  BY Zenon DEF RemoveStage, kernel
<1>2. <<"stage", p>> \in files \/ <<"retired", p>> \in files
  BY Zenon DEF RemoveStage
<1>3. /\ files' \subseteq files \cup {<<"retired", p>>}
      /\ \A m \in Maps, k \in {"map", "mapstage", "canonical-retired", "stage-retired"} :
           <<k, m>> \in files' <=> <<k, m>> \in files
      /\ \A q \in Progs : <<"stage", q>> \in files' \/ <<"retired", q>> \in files' =>
           <<"stage", q>> \in files \/ <<"retired", q>> \in files
  BY Zenon DEF RemoveStage
<1>4. /\ Have("map")' = Have("map") /\ Have("mapstage")' = Have("mapstage")
      /\ Have("canonical-retired")' = Have("canonical-retired")
      /\ Have("stage-retired")' = Have("stage-retired")
  BY <1>3, Zenon DEF Have
<1>5. files' \subseteq EntryType
  BY <1>3 DEF EntryInv, EntryType
<1>6. EntryInv'
  BY <1>1, <1>3, <1>4, <1>5, Zenon DEF EntryInv, MapsUnstaged, StagePrograms, Programs
<1>7. MapsInv'
  BY <1>1, <1>4, Zenon DEF MapsInv, In
<1>8. MayUnstage
  BY Zenon DEF RemoveStage
<1>9. files # {}
  BY <1>2, Zenon
<1>10. StagesInv'
  BY <1>1, <1>4, <1>8, <1>9, UnstageWhere, Zenon DEF StagesInv, In, Running, Intact
<1>11. QED
  BY <1>6, <1>7, <1>10, Zenon

\* removeOwnerMapStages drops a map's stage, the owner map's last.
LEMMA RemoveMapStageFiles ==
    ASSUME ClassicAssumption, RecoverInv, NEW m \in Maps, RemoveMapStage(m)
    PROVE  FilesInv'
<1> USE DEF RecoverInv, FilesInv
<1>1. UNCHANGED <<rec, job, filter, gen>> /\ rec.phase = "detaching" /\ Unstaged /\ OwnerMapLast(m)
  BY Zenon DEF RemoveMapStage, kernel
<1>2. /\ files' \subseteq files \cup {<<"stage-retired", m>>}
      /\ \A n \in Maps, k \in {"map", "canonical-retired"} : <<k, n>> \in files' <=> <<k, n>> \in files
      /\ \A q \in Progs : <<"stage", q>> \notin files' /\ <<"retired", q>> \notin files'
  BY <1>1, Zenon DEF RemoveMapStage, Unstaged
<1>3. /\ Have("map")' = Have("map") /\ Have("canonical-retired")' = Have("canonical-retired")
      /\ Have("mapstage") \cup Have("stage-retired") # {}
  BY <1>2, Zenon DEF Have, RemoveMapStage
<1>4. files' \subseteq EntryType
  BY <1>2 DEF EntryInv, EntryType
<1>5. EntryInv'
  BY <1>1, <1>2, <1>3, <1>4, Zenon DEF EntryInv, MapsUnstaged
<1>6. MapsInv'
  BY <1>1, <1>3, Zenon DEF MapsInv, In
<1>7. MayUnstage
  BY Zenon DEF RemoveMapStage
<1>8. ASSUME In("detaching", "cleanup_stages")
      PROVE  StagesInv'
  <2> SUFFICES ASSUME rec.agen # 0, files' # {}
               PROVE  "owner_map" \in (Have("mapstage") \cup Have("stage-retired"))'
    BY <1>1, <1>8, Zenon DEF StagesInv, In
  <2>1. "owner_map" \in Have("mapstage") \cup Have("stage-retired")
    <3>1. files # {}
      BY <1>3, Zenon DEF Have
    <3>2. QED
      BY <1>8, <3>1, Zenon DEF StagesInv
  <2>2. CASE <<"stage-retired", m>> \in files /\ files' = files \ {<<"stage-retired", m>>}
    <3>1. CASE m # "owner_map"
      BY <2>1, <2>2, <3>1, Zenon DEF Have
    <3>2. CASE m = "owner_map" /\ <<"mapstage", m>> \in files
      BY <2>2, <3>2, Zenon DEF Have
    <3>3. CASE m = "owner_map" /\ <<"mapstage", m>> \notin files
      <4>1. /\ \A n \in Maps : <<"map", n>> \notin files /\ <<"canonical-retired", n>> \notin files
            /\ \A n \in Maps : <<"mapstage", n>> \notin files
            /\ \A n \in Maps : <<"stage-retired", n>> \in files => n = m
        <5>1. Have("map") = {} /\ Have("canonical-retired") = {}
          BY <1>8, Zenon DEF MapsInv, EntryInv, In
        <5>2. Have("mapstage") \cup Have("stage-retired") = {m}
          BY <1>1, <3>3, Zenon DEF OwnerMapLast
        <5>3. QED
          BY <3>3, <5>1, <5>2, Zenon DEF Have
      <4>2. ASSUME NEW f \in files'
            PROVE  FALSE
        <5>1. f \in EntryType /\ f \in files /\ f # <<"stage-retired", m>>
          BY <1>4, <2>2, <4>2, Zenon
        <5>2. CASE f \in {"map", "mapstage", "canonical-retired", "stage-retired"} \X Maps
          <6>1. PICK k \in {"map", "mapstage", "canonical-retired", "stage-retired"}, n \in Maps :
                  f = <<k, n>>
            BY <5>2
          <6>2. QED
            BY <4>1, <5>1, <6>1, Zenon
        <5>3. CASE f \in {"stage", "retired"} \X Progs
          <6>1. PICK k \in {"stage", "retired"}, q \in Progs : f = <<k, q>>
            BY <5>3
          <6>2. QED
            BY <1>2, <4>2, <6>1, Zenon
        <5>4. QED
          BY <5>1, <5>2, <5>3, Zenon DEF EntryType
      <4>3. QED
        BY <4>2, Zenon
    <3>4. QED
      BY <3>1, <3>2, <3>3, Zenon
  <2>3. CASE files' = (files \ {<<"mapstage", m>>}) \cup {<<"stage-retired", m>>}
    BY <2>1, <2>3, Zenon DEF Have
  <2>4. QED
    BY <2>2, <2>3, Zenon DEF RemoveMapStage
<1>9. ASSUME ~In("detaching", "cleanup_stages")
      PROVE  StagesInv'
  <2>1. rec.agen # 0 /\ Intact /\ job.pc \in {"recover", "unstage"}
    BY <1>1, <1>7, <1>9, UnstageWhere, Zenon DEF In
  <2>2. Intact'
    BY <1>1, <1>3, <2>1, Zenon DEF Intact, Running
  <2>3. QED
    BY <1>1, <1>9, <2>1, <2>2, Zenon DEF StagesInv, In
<1>10. StagesInv'
  BY <1>8, <1>9, Zenon
<1>11. QED
  BY <1>5, <1>6, <1>10, Zenon

\* A record that becomes active has all its maps and no stage.
LEMMA ActiveFiles ==
    ASSUME RecoverInv, ClassicInv', rec'.phase = "active", files' = files,
           Unstaged, MapsUnstaged, Have("map") = Maps,
           job'.pc \in {"idle", "journal", "detach", "trim"}
    PROVE  FilesInv'
<1> USE DEF RecoverInv, FilesInv
<1>1. rec'.step = "ready" /\ rec'.agen # 0
  BY Zenon DEF ClassicInv, LogicInv, PhaseInv
<1>2. EntryInv'
  BY <1>1, SameEntries, Zenon DEF EntryInv, Unstaged
<1>3. MapsInv'
  BY SameEntries, Zenon DEF MapsInv, In
<1>4. StagesInv'
  BY Zenon DEF StagesInv, In
<1>5. QED
  BY <1>2, <1>3, <1>4, Zenon

\* A record that becomes a detach has no stage yet.
LEMMA DetachingFiles ==
    ASSUME RecoverInv, ClassicInv', rec'.phase = "detaching", rec'.step = "staging",
           rec'.agen = rec.agen, files' = files, Unstaged,
           rec.phase = "active" \/ (rec.phase = "applying" /\ rec.agen = 0),
           job'.pc \in {"idle", "recover", "detaching"}
    PROVE  FilesInv'
<1> USE DEF RecoverInv, FilesInv
<1>1. rec.phase = "active" => rec.step = "ready"
  BY Zenon DEF ClassicInv, LogicInv, PhaseInv
<1>2. EntryInv'
  BY <1>1, SameEntries, Zenon DEF EntryInv, Unstaged
<1>3. MapsInv'
  BY SameEntries, Zenon DEF MapsInv, In
<1>4. StagesInv'
  BY Zenon DEF StagesInv, In
<1>5. QED
  BY <1>2, <1>3, <1>4, Zenon

\* FinishAbort, FinishApplying, BeginDetach and KeepActive write such records.
LEMMA EndsApplyFiles ==
    ASSUME ClassicAssumption, RecoverInv, ClassicInv',
           FinishAbort \/ FinishApplying \/ BeginDetach \/ KeepActive
    PROVE  FilesInv'
<1> USE DEF RecoverInv, FilesInv, ClassicInv, LogicInv
<1>1. files' = files
  BY Zenon DEF FinishAbort, FinishApplying, BeginDetach, KeepActive
<1>2. ASSUME NEW next \in JobType, BackToOld(next), Unstaged, rec.phase = "applying",
             next.pc \in {"idle", "journal", "detach", "trim"}
      PROVE  FilesInv'
  <2>1. CASE rec.agen = 0
    <3>1. rec' = Detaching /\ job'.pc \in {"idle", "recover"}
      BY <1>2, <2>1, JobShapes DEF BackToOld, Persist, Labels
    <3>2. QED
      BY <1>1, <1>2, <2>1, <3>1, DetachingShape, DetachingFiles, Zenon
  <2>2. CASE rec.agen # 0
    <3>1. rec' = Aborted /\ job'.pc \in {"idle", "journal", "detach", "trim"}
      BY <1>2, <2>2, JobShapes, Zenon DEF BackToOld, Persist
    <3>2. rec'.phase = "active"
      BY <3>1, Zenon DEF Aborted, Active
    <3>3. Have("map") = Maps /\ MapsUnstaged
      BY <1>2, <2>2, Zenon DEF MapsInv, EntryInv
    <3>4. QED
      BY <1>1, <1>2, <3>1, <3>2, <3>3, ActiveFiles, Zenon
  <2>3. QED
    BY <2>1, <2>2, Zenon
<1>3. CASE FinishAbort
  <2>1. rec.phase = "applying"
    BY <1>3, Zenon DEF FinishAbort, At, CallInv, In
  <2>2. QED
    BY <1>2, <1>3, <2>1, JobShapes, Zenon DEF FinishAbort
<1>4. CASE FinishApplying /\ rec.step # "cleanup"
  <2>1. rec.phase = "applying" /\ BackToOld(OnActive) /\ Unstaged
    BY <1>4, Zenon DEF FinishApplying, MayFinish, Recovering, In
  <2>2. QED
    BY <1>2, <2>1, JobShapes, Zenon
<1>5. CASE FinishApplying /\ rec.step = "cleanup"
  <2>1. /\ In("applying", "cleanup") /\ rec' = Completed /\ Unstaged
        /\ job'.pc \in {"idle", "journal", "detach", "trim"}
    BY <1>5, JobShapes, Zenon DEF FinishApplying, MayFinish, Recovering, In, Persist
  <2>2. rec'.phase = "active"
    BY <2>1, Zenon DEF Completed, Active
  <2>3. Have("map") = Maps /\ MapsUnstaged
    BY <2>1, Zenon DEF MapsInv, EntryInv, In
  <2>4. QED
    BY <1>1, <2>1, <2>2, <2>3, ActiveFiles, Zenon
<1>6. CASE BeginDetach
  <2>1. /\ rec.phase = "active" /\ rec' = Detaching /\ job'.pc \in {"idle", "detaching"}
    BY <1>6, JobShapes DEF BeginDetach, At, CallInv, Persist, Labels
  <2>2. Unstaged
    BY <2>1, Zenon DEF EntryInv, Unstaged
  <2>3. QED
    BY <1>1, <2>1, <2>2, DetachingShape, DetachingFiles, ZenonT(30)
<1>7. CASE KeepActive
  <2>1. /\ rec' = Aborted /\ Unstaged /\ MapsUnstaged
        /\ job'.pc \in {"idle", "journal", "detach", "trim"}
    BY <1>7, JobShapes, Zenon DEF KeepActive, Persist
  <2>2. rec'.phase = "active"
    BY <2>1, Zenon DEF Aborted, Active
  <2>3. Have("map") = Maps
    BY <1>7, Zenon DEF KeepActive, Keep, At, EntryInv
  <2>4. QED
    BY <1>1, <2>1, <2>2, <2>3, ActiveFiles, Zenon
<1>8. QED
  BY <1>3, <1>4, <1>5, <1>6, <1>7, Zenon

-----------------------------------------------------------------------------
(* The directory: Detach *)

\* stageOwnerMaps, removeCanonicalOwnerMaps and restoreCanonicalOwnerMaps.
LEMMA DetachMapFiles ==
    ASSUME RecoverInv, NEW m \in Maps, StageMap(m) \/ UnlinkMap(m) \/ RestoreMap(m)
    PROVE  FilesInv'
<1> USE DEF RecoverInv, FilesInv, ClassicInv, LogicInv
<1>1. rec.phase = "detaching" /\ UNCHANGED <<rec, job, filter, gen>>
  BY Zenon DEF StageMap, UnlinkMap, RestoreMap, DetachAt, In, At, CallInv, kernel
<1>2. /\ files' \subseteq files \cup {<<"mapstage", m>>, <<"canonical-retired", m>>, <<"map", m>>}
      /\ \A q \in Progs : /\ <<"stage", q>> \in files' <=> <<"stage", q>> \in files
                          /\ <<"retired", q>> \in files' <=> <<"retired", q>> \in files
  BY Zenon DEF StageMap, UnlinkMap, RestoreMap
<1>3. files' \subseteq EntryType
  BY <1>2 DEF EntryInv, EntryType
<1>4. StagePrograms' = StagePrograms /\ (StagedAll => StagedAll')
  <2>1. StagePrograms' = StagePrograms
    BY <1>1, Zenon DEF StagePrograms, Programs
  <2>2. StagePrograms \subseteq Progs
    BY DEF StagePrograms, Programs, ShapeInv, RecordType, FilterType
  <2>3. QED
    BY <1>2, <2>1, <2>2, Zenon DEF StagedAll
<1>5. CASE StageMap(m)
  <2>1. rec.step = "staging" /\ job.pc \in {"recover", "detaching"}
    BY <1>5, Zenon DEF StageMap, DetachAt, In
  <2>2. Have("map")' = Have("map") /\ Have("canonical-retired")' = Have("canonical-retired")
    BY <1>5, Zenon DEF StageMap, Have
  <2>3. EntryInv'
    BY <1>1, <1>2, <1>3, <1>4, <2>2, Zenon DEF EntryInv
  <2>4. MapsInv'
    BY <1>1, <2>2, Zenon DEF MapsInv, In
  <2>5. StagesInv'
    BY <1>1, <2>1, Zenon DEF StagesInv, In
  <2>6. QED
    BY <2>3, <2>4, <2>5, Zenon
<1>6. CASE UnlinkMap(m)
  <2>1. /\ rec.step = "unlinking_maps" /\ job.pc \in {"recover", "detaching"} /\ StagesLoaded
    BY <1>6, Zenon DEF UnlinkMap, DetachAt, In
  <2>2. Have("mapstage")' = Have("mapstage") /\ Have("map")' \subseteq Have("map")
    BY <1>6, Zenon DEF UnlinkMap, Have
  <2>3. EntryInv'
    BY <1>1, <1>2, <1>3, <1>4, <2>1 DEF EntryInv
  <2>4. MapsInv'
    BY <1>1, <2>1, Zenon DEF MapsInv, In
  <2>5. StagesLoaded'
    BY <1>1, <2>1, <2>2, Zenon DEF StagesLoaded
  <2>6. StagesInv'
    BY <1>1, <2>1, <2>5 DEF StagesInv, In
  <2>7. QED
    BY <2>3, <2>4, <2>6, Zenon
<1>7. CASE RestoreMap(m)
  <2>1. /\ job.pc = "restore" /\ rec.agen # 0 /\ rec.step \in {"mutating_tc", "unlinking_maps"}
    BY <1>7, Zenon DEF RestoreMap, At, CallInv, PhaseInv
  <2>2. /\ Have("mapstage")' = Have("mapstage") /\ Have("map") \subseteq Have("map")'
        /\ Have("canonical-retired")' \subseteq Have("canonical-retired")
        /\ Have("map")' \subseteq Maps
    BY <1>7, Zenon DEF RestoreMap, Have
  <2>3. EntryInv'
    BY <1>1, <1>2, <1>3, <1>4, <2>1, <2>2 DEF EntryInv
  <2>4. MapsInv'
    BY <1>1, <2>1, <2>2, Zenon DEF MapsInv, In
  <2>5. StagesLoaded /\ (rec.step = "mutating_tc" => StagedAll)
    BY <1>1, <2>1, Zenon DEF StagesInv
  <2>6. StagesLoaded'
    BY <1>1, <2>1, <2>2, <2>5, Zenon DEF StagesLoaded
  <2>7. StagesInv'
    BY <1>1, <1>4, <2>1, <2>5, <2>6, ZenonT(30) DEF StagesInv, In
  <2>8. QED
    BY <2>3, <2>4, <2>7, Zenon
<1>8. QED
  BY <1>5, <1>6, <1>7, Zenon

\* A detach goes on only with the stages it needs, and drops them last.
LEMMA DetachAdvancesFiles ==
    ASSUME ClassicAssumption, RecoverInv, BeginDetachFilters \/ BeginUnlinkMaps \/ BeginCleanupStages
    PROVE  FilesInv'
<1> USE DEF RecoverInv, FilesInv, ClassicInv, LogicInv
<1>1. rec.phase = "detaching" /\ job.pc \in {"recover", "detaching"} /\ files' = files
  BY Zenon DEF BeginDetachFilters, BeginUnlinkMaps, BeginCleanupStages, DetachAt, In
<1>2. PICK s \in {"mutating_tc", "unlinking_maps", "cleanup_stages"} :
        /\ rec' = Advance("detaching", s)
        /\ job' \in {job, Goto("recover"), Idle}
        /\ s = "mutating_tc" => BeginDetachFilters
        /\ s = "unlinking_maps" => BeginUnlinkMaps
        /\ s = "cleanup_stages" => BeginCleanupStages
  BY Zenon DEF BeginDetachFilters, BeginUnlinkMaps, BeginCleanupStages, Persist
<1>3. /\ rec'.phase = "detaching" /\ rec'.step = s /\ rec'.agen = rec.agen
      /\ rec'.act = rec.act /\ rec'.des = rec.des
  BY <1>2, AdvanceShape DEF Steps, Phases
<1>4. job'.pc \in {"idle", "recover", "detaching"}
  BY <1>1, <1>2, JobShapes DEF Labels
<1>5. /\ StagePrograms' = StagePrograms /\ StagedAll' = StagedAll /\ StagesLoaded' = StagesLoaded
  BY <1>1, <1>3 DEF StagePrograms, Programs, StagedAll, StagesLoaded, Have
<1>6. CASE s = "mutating_tc"
  <2>1. rec.step = "staging" /\ StagedAll /\ StagesLoaded
    BY <1>2, <1>6, Zenon DEF BeginDetachFilters, DetachAt, In
  <2>2. EntryInv'
    BY <1>1, <1>3, <1>4, <1>5, <1>6, <2>1, SameEntries DEF EntryInv
  <2>3. MapsInv'
    BY <1>1, <1>3, <1>4, <1>6, <2>1, SameEntries, ZenonT(30) DEF MapsInv, In
  <2>4. StagesInv'
    BY <1>3, <1>5, <1>6, <2>1, ZenonT(30) DEF StagesInv, In
  <2>5. QED
    BY <2>2, <2>3, <2>4, Zenon
<1>7. CASE s = "unlinking_maps"
  <2>1. StagesLoaded
    BY <1>2, <1>7, Zenon DEF BeginUnlinkMaps
  <2>2. EntryInv'
    BY <1>1, <1>3, <1>4, <1>5, <1>7, SameEntries DEF EntryInv
  <2>3. MapsInv'
    BY <1>3, <1>4, <1>7, ZenonT(30) DEF MapsInv, In
  <2>4. StagesInv'
    BY <1>3, <1>5, <1>7, <2>1 DEF StagesInv, In
  <2>5. QED
    BY <2>2, <2>3, <2>4, Zenon
<1>8. CASE s = "cleanup_stages"
  <2>1. /\ rec.step = "unlinking_maps" /\ Have("map") = {} /\ Have("canonical-retired") = {}
    BY <1>2, <1>8, Zenon DEF BeginCleanupStages, DetachAt, In
  <2>2. "owner_map" \in Maps
    BY Zenon DEF ClassicAssumption
  <2>3. StagesLoaded
    BY <1>1, <2>1, <2>2, Zenon DEF StagesInv, Intact
  <2>4. rec.agen # 0 => "owner_map" \in Have("mapstage")
    BY <2>2, <2>3, ZenonT(30) DEF StagesLoaded
  <2>5. EntryInv'
    BY <1>1, <1>3, <1>4, <1>5, <1>8, <2>1, SameEntries, ZenonT(30) DEF EntryInv
  <2>6. MapsInv'
    BY <1>1, <1>3, <1>4, <1>8, <2>1, SameEntries DEF MapsInv, In
  <2>7. StagesInv'
    BY <1>1, <1>3, <1>8, <2>4, SameEntries, Zenon DEF StagesInv, In
  <2>8. QED
    BY <2>5, <2>6, <2>7, Zenon
<1>9. QED
  BY <1>6, <1>7, <1>8, Zenon

\* A detach turns back, with its stages, and its restore ends with every map in place.
LEMMA DetachTurnsFiles ==
    ASSUME RecoverInv, UnlinkRefused \/ RestoreMapsDone \/ RestoreDone \/ CallFails
    PROVE  FilesInv'
<1> USE DEF RecoverInv, FilesInv, ClassicInv, LogicInv
<1>1. UNCHANGED <<rec, files, filter, gen>>
  BY Zenon DEF UnlinkRefused, RestoreMapsDone, RestoreDone, CallFails, disk, kernel
<1>2. \/ job' = Idle
      \/ job.pc = "detaching" /\ job'.pc = "restore"
      \/ job.pc = "attach" /\ job'.pc = "undo"
      \/ /\ job.pc = "restore" /\ job'.pc = "refilter"
         /\ job'.bad \/ (Have("map") = Maps /\ Have("canonical-retired") = {})
      \/ job.pc = "refilter" /\ job'.pc = "unstage" /\ ~job.bad
  <2>1. CASE UnlinkRefused
    BY <2>1, JobShapes DEF UnlinkRefused, DetachAt, At, Labels
  <2>2. CASE RestoreMapsDone
    <3>1. Goto("refilter") \in JobType /\ Goto("refilter").pc = "refilter"
      BY JobShapes, Zenon DEF Labels
    <3>2. /\ [Goto("refilter") EXCEPT !.bad = TRUE].pc = "refilter"
          /\ [Goto("refilter") EXCEPT !.bad = TRUE].bad
      BY <3>1, Zenon DEF JobType
    <3>3. QED
      BY <2>2, <3>1, <3>2, Zenon DEF RestoreMapsDone, At
  <2>3. CASE RestoreDone
    BY <2>3, JobShapes DEF RestoreDone, At, Labels
  <2>4. CASE CallFails
    <3>1. CASE At("attach")
      <4>1. Goto("undo") \in JobType /\ Goto("undo").pc = "undo"
        BY JobShapes, Zenon DEF Labels
      <4>2. job' = [Goto("undo") EXCEPT !.left = Touched]
        BY <2>4, <3>1, Zenon DEF CallFails, At
      <4>3. QED
        BY <3>1, <4>1, <4>2, Zenon DEF JobType, At
    <3>2. CASE ~At("attach")
      <4>1. job' = Idle \/ (At("detaching") /\ job' = Goto("restore"))
        BY <2>4, <3>2, Zenon DEF CallFails
      <4>2. QED
        BY <4>1, JobShapes DEF At, Labels
    <3>3. QED
      BY <3>1, <3>2, Zenon
  <2>5. QED
    BY <2>1, <2>2, <2>3, <2>4, ZenonT(30)
<1>3. CASE job' = Idle
  BY <1>1, <1>3, EndsSafely, Zenon
<1>4. CASE job' # Idle
  <2>1. StagesInv'
    BY <1>1, <1>2, <1>4, StagesStay, Zenon
  <2>2. job'.pc = "unstage" => Have("map") = Maps /\ Have("canonical-retired") = {}
    BY <1>2, <1>4, Zenon DEF EntryInv
  <2>3. QED
    BY <1>1, <1>2, <1>4, <2>1, <2>2, DirectoryStays, Zenon
<1>5. QED
  BY <1>3, <1>4, Zenon

\* Nothing is left when the record goes.
LEMMA RemoveRecordFiles ==
    ASSUME RecoverInv, RemoveRecord
    PROVE  FilesInv'
<1> USE DEF RecoverInv, FilesInv, ClassicInv, LogicInv
<1>1. files' = {} /\ rec' = NoRecord
  BY Zenon DEF RemoveRecord, Persist
<1>2. rec'.phase = "none" /\ job'.pc \in {"idle", "rmdir"}
  BY <1>1, JobShapes, SMTT(30) DEF RemoveRecord, Persist, NoRecord, Labels
<1>3. EntryInv'
  BY <1>1, <1>2, Zenon DEF EntryInv, Have, MapsUnstaged
<1>4. MapsInv' /\ StagesInv'
  BY <1>2, Zenon DEF MapsInv, StagesInv, In
<1>5. QED
  BY <1>3, <1>4, Zenon

-----------------------------------------------------------------------------
(* A recovery accepts what an interrupted call left *)

\* The invariant of the directory holds at first and is kept by every step.
LEMMA FilesInvInit ==
    ASSUME ClassicAssumption, Init
    PROVE  RecoverInv
<1>1. files = {} /\ rec.phase = "none" /\ job.pc = "idle"
  BY Zenon DEF Init, NoRecord, Idle
<1>2. FilesInv
  BY <1>1, Zenon DEF FilesInv, EntryInv, MapsInv, StagesInv, Have, MapsUnstaged, In
<1>3. QED
  BY <1>2, ClassicInvInit, Zenon DEF RecoverInv

\* Every step keeps what recovery needs of the record, the pins and the filters.
LEMMA FilesInvNext ==
    ASSUME ClassicAssumption, RecoverInv, [Next]_vars
    PROVE  RecoverInv'
<1>1. ClassicInv'
  BY ClassicInvNext, Zenon DEF RecoverInv
<1>2. CASE UNCHANGED vars
  <2>1. UNCHANGED <<rec, files, filter, gen, job>>
    BY <1>2, Zenon DEF vars, disk, kernel
  <2>2. QED
    BY <1>1, <2>1, StagesStay, DirectoryStays, Zenon DEF RecoverInv
<1>3. CASE Apply
  BY <1>1, <1>3, JournalFiles, CallFiles, BeginMutatingFiles, ControlFiles, CleanupFiles,
     EndsApplyFiles, PinMapFiles, StageProgramFiles, OneFilterFiles DEF Apply, RecoverInv
<1>4. CASE Recover
  BY <1>1, <1>4, CallFiles, ControlFiles, CleanupFiles, EndsApplyFiles, OneFilterFiles,
     RemoveStageFiles, ZenonT(30) DEF Recover, RecoverInv
<1>5. CASE Detach
  BY <1>1, <1>5, EndsApplyFiles, DetachAdvancesFiles, DetachTurnsFiles, RemoveRecordFiles,
     CallFiles, DetachMapFiles, RemoveMapStageFiles, OneFilterFiles DEF Detach, RecoverInv
<1>6. CASE ~Work /\ Next
  BY <1>1, <1>6, CallFiles, DetachTurnsFiles, Zenon DEF Next, RecoverInv
<1>7. QED
  BY <1>2, <1>3, <1>4, <1>5, <1>6, Zenon DEF Next, Work

\* The invariant with the directory in it.
THEOREM ClassicRecoverInvariant ==
    ASSUME ClassicAssumption
    PROVE  Spec => []RecoverInv
<1>1. Init => RecoverInv
  BY FilesInvInit, Zenon
<1>2. RecoverInv /\ [Next]_vars => RecoverInv'
  BY FilesInvNext, Zenon
<1>3. QED
  BY <1>1, <1>2, PTL DEF Spec

\* validateClassicOwnerDirectoryEntries accepts every entry.
LEMMA EntriesAccepted ==
    ASSUME ClassicAssumption, RecoverInv, rec # NoRecord, ~(rec.agen # 0 /\ Twice # {})
    PROVE  Accepted
<1> USE DEF RecoverInv, FilesInv, ClassicInv, LogicInv
<1>1. rec.phase \in {"active", "applying", "detaching"}
  BY Zenon DEF PhaseInv, ShapeInv, RecordType, Phases
<1>2. rec.phase # "detaching" => Have("canonical-retired") = {}
  BY Zenon DEF EntryInv, MapsInv, PhaseInv, Twice, Have
<1>3. ASSUME NEW f \in files
      PROVE  \/ f[1] = "map"
             \/ f[1] \in {"stage", "retired"} /\ f[2] \in StagePrograms /\ rec.phase # "active"
             \/ f[1] \notin {"stage", "retired"} /\ rec.phase = "detaching"
  <2>1. CASE f \in {"map", "mapstage", "canonical-retired", "stage-retired"} \X Maps
    <3>1. PICK k \in {"map", "mapstage", "canonical-retired", "stage-retired"}, n \in Maps :
            f = <<k, n>>
      BY <2>1
    <3>2. f[1] = k /\ <<k, n>> \in files
      BY <3>1, Zenon
    <3>3. CASE rec.phase = "detaching"
      BY <3>1, <3>2, <3>3, Zenon
    <3>4. CASE rec.phase # "detaching"
      <4>1. Have("canonical-retired") = {} /\ Have("mapstage") = {} /\ Have("stage-retired") = {}
        BY <1>2, <3>4, Zenon DEF EntryInv, MapsUnstaged
      <4>2. QED
        BY <3>1, <3>2, <4>1, Zenon DEF Have
    <3>5. QED
      BY <3>3, <3>4, Zenon
  <2>2. CASE f \in {"stage", "retired"} \X Progs
    <3>1. PICK k \in {"stage", "retired"}, q \in Progs : f = <<k, q>>
      BY <2>2
    <3>2. f[1] = k /\ f[2] = q /\ <<k, q>> \in files
      BY <3>1, Zenon
    <3>3. q \in StagePrograms /\ rec.phase \in {"applying", "detaching"}
      BY <3>1, <3>2, Zenon DEF EntryInv
    <3>4. QED
      BY <3>2, <3>3, Zenon
  <2>3. QED
    BY <2>1, <2>2, Zenon DEF EntryInv, EntryType
<1>4. rec.phase = "active" => files = {<<"map", m>> : m \in Maps}
  <2> SUFFICES ASSUME rec.phase = "active"
               PROVE  files = {<<"map", m>> : m \in Maps}
    BY Zenon
  <2>1. \A m \in Maps : <<"map", m>> \in files
    BY Zenon DEF MapsInv, Have
  <2>2. ASSUME NEW f \in files
        PROVE  \E m \in Maps : f = <<"map", m>>
    <3>1. f[1] = "map"
      BY <1>3, Zenon
    <3>2. CASE f \in {"map", "mapstage", "canonical-retired", "stage-retired"} \X Maps
      BY <3>1, <3>2
    <3>3. CASE f \in {"stage", "retired"} \X Progs
      BY <3>1, <3>3, Zenon
    <3>4. QED
      BY <3>2, <3>3, Zenon DEF EntryInv, EntryType
  <2>3. QED
    BY <2>1, <2>2, Zenon
<1>5. QED
  BY <1>3, <1>4, Zenon DEF Accepted, MapsInv

\* recoverPinOwnerTransaction's checks pass, outside the windows of Wedged.
LEMMA RecoveryGoesOn ==
    ASSUME ClassicAssumption, RecoverInv, rec # NoRecord
    PROVE  Wedged \/ CanGoOn
<1> USE DEF RecoverInv, FilesInv, ClassicInv, LogicInv
<1>1. \A fs : Running(fs) => Exact(fs)
  BY Zenon DEF Running, Exact
<1>2. CASE rec.phase = "active" \/ rec.step = "staging"
  <2>1. Running(rec.act) /\ gen = rec.agen
    BY <1>2, Zenon DEF FilterInv, PhaseInv, ShapeInv, RecordType, Phases
  <2>2. Exact(rec.act)
    BY <1>1, <2>1, Zenon
  <2>3. QED
    BY <1>2, <2>1, <2>2, Zenon DEF CanGoOn, In
<1>3. CASE In("applying", "mutating")
  <2>1. InTransition /\ gen \in {rec.agen, rec.ngen}
    BY <1>3, Zenon DEF InTransition, FilterInv, PhaseInv, In
  <2>2. StagedAll \/ (gen = rec.agen /\ Exact(rec.act) /\ ~StagedAll)
    BY <1>1, <1>3, Zenon DEF StagesInv
  <2>3. QED
    BY <1>3, <2>1, <2>2, Zenon DEF CanGoOn, Wedged, In
<1>4. CASE In("applying", "cleanup")
  <2>1. Running(rec.des) /\ gen = rec.ngen
    BY <1>4, Zenon DEF FilterInv, PhaseInv, In
  <2>2. QED
    BY <1>1, <1>4, <2>1, Zenon DEF CanGoOn, In
<1>5. CASE In("detaching", "mutating_tc")
  <2>1. InTransition /\ gen = rec.agen
    BY <1>5, Zenon DEF InTransition, FilterInv, PhaseInv, In
  <2>2. \/ StagesLoaded /\ StagedAll
        \/ rec.agen # 0 /\ Exact(rec.act) /\ Have("map") = Maps
    BY <1>1, <1>5, Zenon DEF StagesInv, Intact, In
  <2>3. QED
    BY <1>5, <2>1, <2>2, Zenon DEF CanGoOn, In
<1>6. CASE In("detaching", "unlinking_maps")
  <2>1. gen = rec.agen
    BY <1>6, Zenon DEF PhaseInv, In
  <2>2. \/ StagesLoaded
        \/ rec.agen # 0 /\ Exact(rec.act) /\ Have("map") = Maps
    BY <1>1, <1>6, ZenonT(30) DEF StagesInv, Intact, In
  <2>3. rec.agen = 0 => FiltersGone
    BY <1>6, NoFiltersShape DEF WholeInv, PhaseInv, FiltersGone, Exact, FilterInv, In
  <2>4. QED
    BY <1>6, <2>1, <2>2, <2>3, Zenon DEF CanGoOn, Wedged, In
<1>7. CASE In("detaching", "cleanup_stages")
  <2>1. FiltersGone
    BY <1>7, NoFiltersShape, Zenon DEF FilterInv, FiltersGone, Exact
  <2>2. QED
    BY <1>7, <2>1, Zenon DEF CanGoOn, In
<1>8. QED
  BY <1>2, <1>3, <1>4, <1>5, <1>6, <1>7 DEF PhaseInv, ShapeInv, RecordType, Phases, In

\* recoverPinOwnerTransaction: wherever a call fails or is killed, outside the windows
\* of Wedged, the next call's recovery accepts the directory, the filters, the stages
\* and the control word; nothing outlives the record, and no map the owner map.
THEOREM ClassicRecoverable ==
    ASSUME ClassicAssumption
    PROVE  Spec => []Recoverable
<1>1. RecoverInv => Recoverable
  <2> SUFFICES ASSUME RecoverInv
               PROVE  Recoverable
    BY Zenon
  <2> USE DEF RecoverInv, FilesInv, ClassicInv, LogicInv
  <2>1. CASE rec = NoRecord
    <3>1. rec.phase = "none" /\ rec.act = NoFilters
      BY <2>1, Zenon DEF NoRecord
    <3>2. files = {} /\ Running(NoFilters)
      BY <3>1, Zenon DEF DirInv, FilterInv
    <3>3. filter = NoFilters
      BY <3>2, NoFiltersShape DEF Running, ShapeInv, FilterType
    <3>4. QED
      BY <2>1, <3>2, <3>3, Zenon DEF Recoverable
  <2>2. CASE rec # NoRecord
    <3>1. Wedged \/ (Accepted /\ CanGoOn)
      BY <2>2, EntriesAccepted, RecoveryGoesOn, ZenonT(30) DEF Wedged
    <3>2. ASSUME rec.phase = "detaching", rec.agen # 0, files # {}
          PROVE  "owner_map" \in Have("map") \cup Have("mapstage") \cup Have("stage-retired")
      <4>1. "owner_map" \in Maps
        BY Zenon DEF ClassicAssumption
      <4>2. CASE rec.step \in {"staging", "mutating_tc"}
        BY <3>2, <4>1, <4>2, Zenon DEF MapsInv
      <4>3. CASE rec.step = "unlinking_maps"
        BY <3>2, <4>1, <4>3, Zenon DEF StagesInv, StagesLoaded, Intact
      <4>4. CASE rec.step = "cleanup_stages"
        BY <3>2, <4>4, Zenon DEF StagesInv, In
      <4>5. QED
        BY <3>2, <4>2, <4>3, <4>4 DEF PhaseInv
    <3>3. QED
      BY <2>2, <3>1, <3>2, Zenon DEF Recoverable
  <2>3. QED
    BY <2>1, <2>2, Zenon
<1>2. QED
  BY <1>1, ClassicRecoverInvariant, PTL
=============================================================================

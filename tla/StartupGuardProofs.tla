------------------------- MODULE StartupGuardProofs -------------------------
(***************************************************************************)
(* Proofs about StartupGuard, for any set of configurations: GuardHolds    *)
(* after every interleaving of failures, kills, edits of the configuration *)
(* and acts of others on the nft table.                                    *)
(*                                                                         *)
(* The three state properties are not inductive: whether a reload may roll *)
(* its guard back or reopen the barrier is decided from startupGuardTxn,   *)
(* so the invariant says what each field of it proves about the kernel     *)
(* (TxnInv) and what holds at each place of reloadUnlocked (PlaceInv).     *)
(***************************************************************************)
EXTENDS StartupGuard, TLAPS

Observations == {"active", "absent", "unknown"}
GuardModes == {"guarded", "best_effort", "none"}
Places == {"idle", "prepare", "quiesce", "guard", "build", "applying", "cleanup",
           "resume", "fail", "detach", "unguard", "stopped"}

Txn == [leased : BOOLEAN, barrierFresh : BOOLEAN, initialObservation : Observations,
        observation : Observations, guardCreated : BOOLEAN,
        dataplaneMutationStarted : BOOLEAN, dataplaneValidated : BOOLEAN,
        cleanupAttempted : BOOLEAN, cleanupProvedAbsent : BOOLEAN,
        normalCleanup : BOOLEAN, mode : GuardModes]

GuardType ==
    /\ mode \in Modes
    /\ owner \in {"none", "pending", "final"}
    /\ table \in {"absent", "active"}
    /\ plane \in {"none", "valid", "dirty", "bare"}
    /\ saved \in BOOLEAN /\ lifted \in BOOLEAN /\ runtime \in BOOLEAN /\ held \in BOOLEAN
    /\ pc \in Places
    /\ txn \in Txn

\* What the fields of startupGuardTxn prove.  An observed absence still holds; a
\* guard that was absent at first had been lifted from a dirty dataplane; a fresh
\* barrier was open, so its runtime ran on no dirty dataplane.
TxnInv ==
    /\ txn.observation = "absent" => table = "absent"
    /\ txn.cleanupProvedAbsent => table = "absent" /\ pc \in {"fail", "resume"}
    /\ txn.dataplaneValidated => plane = "valid" /\ pc \in {"cleanup", "resume", "fail"}
    /\ txn.initialObservation = "absent" /\ ~txn.dataplaneMutationStarted =>
         (plane = "dirty" => lifted)
    /\ txn.barrierFresh /\ ~txn.dataplaneMutationStarted /\ runtime => plane # "dirty"
    /\ txn.guardCreated => txn.initialObservation = "absent"
    /\ txn.barrierFresh => pc \in {"guard", "build", "applying", "cleanup", "resume", "fail"}

\* What holds at the places of reloadUnlocked.
PlaceInv ==
    /\ pc = "idle" => txn = NoTxn
    /\ pc \in {"quiesce", "guard", "cleanup", "resume"} => txn.mode = "guarded"
    /\ pc \in {"guard", "build", "applying", "cleanup", "resume"} /\ txn.mode = "guarded" => held
    /\ pc \in {"applying", "cleanup", "resume"} => txn.dataplaneMutationStarted
    /\ pc \in {"cleanup", "resume"} => plane = "valid"
    /\ pc = "applying" => plane = IF txn.mode = "guarded" THEN "dirty" ELSE "bare"
    /\ pc = "applying" /\ txn.mode = "none" => table = "absent"
    /\ pc = "resume" => table = "absent"

GuardInv ==
    /\ GuardType
    /\ DirtyIsGuarded /\ RuntimeOpenIsClean /\ OpenMeansUnguarded
    /\ TxnInv /\ PlaceInv

-----------------------------------------------------------------------------
(* The executor's outcomes *)

\* Cleanup removes the table or leaves it, sees an absence only where there is
\* one, and succeeds only with that proof.
LEMMA CleanupFacts ==
    ASSUME NEW t \in {"absent", "active"}, NEW o \in CleanupOutcomes(t)
    PROVE  /\ o.table \in {t, "absent"}
           /\ o.observation \in Observations \cup {"unchanged"}
           /\ o.observation = "absent" => o.table = "absent"
           /\ o.observation = "unchanged" => o.table = t
           /\ o.err \/ o.observation = "absent"
<1>1. CASE o = Refused(t)
  BY <1>1, Zenon DEF Outcome, Refused, Observations
<1>2. ASSUME NEW u \in {t, "absent"}, NEW obs \in {u, "unknown"},
             o = Outcome(u, obs, TRUE, obs # "absent")
      PROVE  /\ o.table \in {t, "absent"}
             /\ o.observation \in Observations \cup {"unchanged"}
             /\ o.observation = "absent" => o.table = "absent"
             /\ o.observation = "unchanged" => o.table = t
             /\ o.err \/ o.observation = "absent"
  BY <1>2, Zenon DEF Outcome, Observations
<1>3. QED
  BY <1>1, <1>2, Zenon DEF CleanupOutcomes

\* Apply installs the table or leaves it, and sees an absence only where there is one.
LEMMA ApplyFacts ==
    ASSUME NEW t \in {"absent", "active"}, NEW o \in ApplyOutcomes(t)
    PROVE  /\ o.table \in {t, "active"}
           /\ o.observation \in Observations \cup {"unchanged"}
           /\ o.observation = "absent" => o.table = "absent"
           /\ o.observation = "unchanged" => o.table = t
  BY DEF ApplyOutcomes, Outcome, Refused, Observations

\* The startupGuardTxn of no operation has the type.
LEMMA NoTxnType == NoTxn \in Txn
  BY Zenon DEF NoTxn, Txn, Observations, GuardModes

\* A startupGuardTxn that begins with an observation has the type.
LEMMA TxnBegins ==
    ASSUME NEW x \in Observations, NEW m \in GuardModes
    PROVE  [NoTxn EXCEPT !.initialObservation = x, !.observation = x, !.mode = m] \in Txn
  BY NoTxnType, Zenon DEF Txn

\* recordApplyOutcome keeps the type.
LEMMA TxnObserves ==
    ASSUME NEW x \in Observations, NEW b \in BOOLEAN, GuardType
    PROVE  [txn EXCEPT !.observation = x, !.guardCreated = b] \in Txn
  BY Zenon DEF Txn, GuardType

\* recordCleanupOutcome keeps the type.
LEMMA TxnCleans ==
    ASSUME NEW x \in Observations, NEW b \in BOOLEAN, NEW c \in BOOLEAN, GuardType
    PROVE  [txn EXCEPT !.cleanupAttempted = TRUE, !.normalCleanup = b, !.observation = x,
                       !.cleanupProvedAbsent = c] \in Txn
  BY Zenon DEF Txn, GuardType

-----------------------------------------------------------------------------
(* The steps *)

\* A reload begins with what it observed: a guard that is absent from a dirty
\* dataplane has been lifted.
LEMMA BeginReloadKeeps ==
    ASSUME GuardInv, BeginReload
    PROVE  GuardInv'
<1>1. GuardType'
  <2>1. txn' \in Txn
    <3>1. PICK obs \in Observations :
              txn' = [NoTxn EXCEPT !.initialObservation = obs, !.observation = obs, !.mode = mode]
      BY Zenon DEF GuardInv, GuardType, Observations, BeginReload
    <3>2. QED
      BY <3>1, TxnBegins, ModesAssumption, Zenon DEF GuardInv, GuardType, GuardModes
  <2>2. QED
    BY <2>1 DEF GuardInv, GuardType, Places, BeginReload, durable
<1>2. DirtyIsGuarded' /\ RuntimeOpenIsClean' /\ OpenMeansUnguarded'
  BY Zenon DEF GuardInv, GuardType, TxnInv, PlaceInv, DirtyIsGuarded, RuntimeOpenIsClean,
      OpenMeansUnguarded, Txn, Observations, BeginReload, durable, NoTxn
<1>3. TxnInv'
  BY DEF GuardInv, GuardType, TxnInv, PlaceInv, DirtyIsGuarded, RuntimeOpenIsClean,
      OpenMeansUnguarded, Txn, Observations, BeginReload, durable, NoTxn
<1>4. PlaceInv'
  BY Zenon DEF GuardInv, GuardType, PlaceInv, TxnInv, Txn, BeginReload, durable, NoTxn
<1>5. QED
  BY <1>1, <1>2, <1>3, <1>4, Zenon DEF GuardInv

\* The checks before the barrier change nothing.
LEMMA PrepareKeeps ==
    ASSUME GuardInv, Prepare
    PROVE  GuardInv'
<1>1. GuardType'
  BY DEF GuardInv, GuardType, Txn, Observations, GuardModes, Places, Prepare, Goto, durable
<1>2. DirtyIsGuarded' /\ RuntimeOpenIsClean' /\ OpenMeansUnguarded'
  BY Zenon DEF GuardInv, GuardType, TxnInv, PlaceInv, DirtyIsGuarded, RuntimeOpenIsClean,
      OpenMeansUnguarded, Txn, Observations, Prepare, Goto, durable
<1>3. TxnInv'
  BY Zenon DEF GuardInv, GuardType, TxnInv, PlaceInv, DirtyIsGuarded, RuntimeOpenIsClean,
      OpenMeansUnguarded, Txn, Observations, Prepare, Goto, durable
<1>4. PlaceInv'
  BY Zenon DEF GuardInv, GuardType, PlaceInv, TxnInv, Txn, Prepare, Goto, durable
<1>5. QED
  BY <1>1, <1>2, <1>3, <1>4, Zenon DEF GuardInv

\* A barrier that was open is fresh, and its runtime ran on no dirty dataplane.
LEMMA QuiesceKeeps ==
    ASSUME GuardInv, Quiesce
    PROVE  GuardInv'
<1>1. GuardType'
  <2>1. txn' \in Txn
    BY Zenon DEF GuardInv, GuardType, Txn, Quiesce, Goto
  <2>2. QED
    BY <2>1, ZenonT(30) DEF GuardInv, GuardType, Places, Quiesce, Goto, durable
<1>2. DirtyIsGuarded' /\ RuntimeOpenIsClean' /\ OpenMeansUnguarded'
  BY Zenon DEF GuardInv, GuardType, TxnInv, PlaceInv, DirtyIsGuarded, RuntimeOpenIsClean,
      OpenMeansUnguarded, Txn, Observations, Quiesce, Goto, durable
<1>3. TxnInv'
  BY ZenonT(30) DEF GuardInv, GuardType, TxnInv, PlaceInv, DirtyIsGuarded, RuntimeOpenIsClean,
      OpenMeansUnguarded, Txn, Observations, Quiesce, Goto, durable
<1>4. PlaceInv'
  BY Zenon DEF GuardInv, GuardType, PlaceInv, TxnInv, Txn, Quiesce, Goto, durable
<1>5. QED
  BY <1>1, <1>2, <1>3, <1>4, Zenon DEF GuardInv

\* The owner record is no part of the argument.
LEMMA PublishOwnerKeeps ==
    ASSUME GuardInv, PublishOwner
    PROVE  GuardInv'
<1>1. GuardType'
  BY DEF GuardInv, GuardType, Txn, Observations, GuardModes, Places, PublishOwner, Goto
<1>2. DirtyIsGuarded' /\ RuntimeOpenIsClean' /\ OpenMeansUnguarded'
  BY Zenon DEF GuardInv, GuardType, TxnInv, PlaceInv, DirtyIsGuarded, RuntimeOpenIsClean,
      OpenMeansUnguarded, Txn, Observations, PublishOwner, Goto
<1>3. TxnInv'
  BY DEF GuardInv, GuardType, TxnInv, PlaceInv, DirtyIsGuarded, RuntimeOpenIsClean,
      OpenMeansUnguarded, Txn, Observations, PublishOwner, Goto
<1>4. PlaceInv'
  BY Zenon DEF GuardInv, GuardType, PlaceInv, TxnInv, Txn, PublishOwner, Goto
<1>5. QED
  BY <1>1, <1>2, <1>3, <1>4, Zenon DEF GuardInv

\* The guard is applied behind the closed barrier, and an observed absence is one.
LEMMA ApplyGuardKeeps ==
    ASSUME GuardInv, ApplyGuard
    PROVE  GuardInv'
<1>1. GuardType'
  <2>1. txn' \in Txn
    <3>1. PICK o \in ApplyOutcomes(table) : recordApply(o)
      BY Zenon DEF ApplyGuard
    <3>2. Effective(txn.observation, o.observation) \in Observations
      BY ApplyFacts, Zenon DEF Effective, GuardInv, GuardType, Txn
    <3> DEFINE created == txn.guardCreated \/ (o.observation = "active" /\ o.mutated
                                               /\ txn.initialObservation = "absent")
    <3>3. created \in BOOLEAN /\ GuardType
      BY Zenon DEF GuardInv
    <3>4. txn' = [txn EXCEPT !.observation = Effective(txn.observation, o.observation),
                             !.guardCreated = created]
      BY <3>1, Zenon DEF recordApply
    <3> HIDE DEF created
    <3>5. QED
      BY <3>2, <3>3, <3>4, TxnObserves, Zenon
  <2>2. QED
    BY <2>1, ApplyFacts, Zenon DEF GuardInv, GuardType, Places, ApplyGuard
<1>2. DirtyIsGuarded' /\ RuntimeOpenIsClean' /\ OpenMeansUnguarded'
  BY ApplyFacts DEF GuardInv, GuardType, TxnInv, PlaceInv, DirtyIsGuarded, RuntimeOpenIsClean,
      OpenMeansUnguarded, Txn, Observations, ApplyGuard, recordApply, Effective
<1>3. TxnInv'
  BY ApplyFacts DEF GuardInv, GuardType, TxnInv, PlaceInv, DirtyIsGuarded, RuntimeOpenIsClean,
      OpenMeansUnguarded, Txn, Observations, ApplyGuard, recordApply, Effective
<1>4. PlaceInv'
  BY ApplyFacts, Zenon DEF GuardInv, GuardType, PlaceInv, TxnInv, Txn, ApplyGuard, recordApply,
       Effective
<1>5. QED
  BY <1>1, <1>2, <1>3, <1>4, Zenon DEF GuardInv

\* The replacement begins under the guard, or is marked bare.
LEMMA StartApplyKeeps ==
    ASSUME GuardInv, StartApply
    PROVE  GuardInv'
<1>1. GuardType'
  BY ZenonT(30) DEF GuardInv, GuardType, Txn, Observations, GuardModes, Places, StartApply, Goto,
       Preflight
<1>2. DirtyIsGuarded' /\ RuntimeOpenIsClean' /\ OpenMeansUnguarded'
  BY Zenon DEF GuardInv, GuardType, TxnInv, PlaceInv, DirtyIsGuarded, RuntimeOpenIsClean,
      OpenMeansUnguarded, Txn, Observations, StartApply, Goto, Preflight
<1>3. TxnInv'
  BY DEF GuardInv, GuardType, TxnInv, PlaceInv, DirtyIsGuarded, RuntimeOpenIsClean,
      OpenMeansUnguarded, Txn, Observations, StartApply, Goto, Preflight
<1>4. PlaceInv'
  BY Zenon DEF GuardInv, GuardType, PlaceInv, TxnInv, Txn, StartApply, Goto, Preflight
<1>5. QED
  BY <1>1, <1>2, <1>3, <1>4, Zenon DEF GuardInv

\* A runtime that is started is behind the barrier, or there is no guard.
LEMMA FinishApplyKeeps ==
    ASSUME GuardInv, FinishApply
    PROVE  GuardInv'
<1>1. GuardType'
  <2>1. txn' \in Txn
    <3>1. ASSUME txn' = [txn EXCEPT !.dataplaneValidated = TRUE] PROVE txn' \in Txn
      BY <3>1, Zenon DEF GuardInv, GuardType, Txn
    <3>2. QED
      BY <3>1, NoTxnType, Zenon DEF GuardInv, GuardType, FinishApply, Goto, Done
  <2>2. QED
    BY <2>1, Zenon DEF GuardInv, GuardType, Places, FinishApply, Goto, Done
<1>2. DirtyIsGuarded' /\ RuntimeOpenIsClean' /\ OpenMeansUnguarded'
  <2>1. /\ table' = table /\ lifted' = lifted /\ held' = held
        /\ plane' = "valid" \/ plane' = plane
        /\ txn.mode = "best_effort" => runtime' = FALSE \/ runtime' = runtime
    BY Zenon DEF FinishApply
  <2>2. CASE txn.mode = "guarded"
    <3>1. held'
      BY <2>1, <2>2 DEF FinishApply, GuardInv, PlaceInv
    <3>2. QED
      BY <2>1, <3>1, Zenon DEF GuardInv, DirtyIsGuarded, RuntimeOpenIsClean, OpenMeansUnguarded
  <2>3. CASE txn.mode = "none"
    <3>1. table = "absent" /\ plane = "bare"
      BY <2>3, Zenon DEF FinishApply, GuardInv, PlaceInv
    <3>2. QED
      BY <2>1, <3>1, Zenon DEF DirtyIsGuarded, RuntimeOpenIsClean, OpenMeansUnguarded
  <2>4. CASE txn.mode = "best_effort"
    BY <2>1, <2>4 DEF GuardInv, DirtyIsGuarded, RuntimeOpenIsClean, OpenMeansUnguarded
  <2>5. QED
    BY <2>2, <2>3, <2>4, Zenon DEF GuardInv, GuardType, Txn, GuardModes
<1>3. TxnInv'
  <2>1. /\ pc = "applying" /\ table' = table /\ lifted' = lifted
        /\ plane' = "valid" \/ plane' = plane
        /\ txn.dataplaneMutationStarted /\ TxnInv /\ txn \in Txn
    BY Zenon DEF FinishApply, GuardInv, GuardType, PlaceInv
  <2>2. CASE Done
    BY <2>2, Zenon DEF Done, NoTxn, TxnInv
  <2>3. CASE Goto("fail")
    BY <2>1, <2>3, Zenon DEF Goto, TxnInv
  <2>4. CASE /\ plane' = "valid" /\ pc' = "cleanup"
             /\ txn' = [txn EXCEPT !.dataplaneValidated = TRUE]
    BY <2>1, <2>4, Zenon DEF TxnInv, Txn
  <2>5. QED
    BY <2>2, <2>3, <2>4, Zenon DEF FinishApply
<1>4. PlaceInv'
  BY NoTxnType, Zenon DEF GuardInv, GuardType, PlaceInv, TxnInv, Txn, FinishApply, Goto, Done, NoTxn
<1>5. QED
  BY <1>1, <1>2, <1>3, <1>4, Zenon DEF GuardInv

\* The guard of a validated dataplane goes, with a proof of its absence.
LEMMA CleanupGuardKeeps ==
    ASSUME GuardInv, CleanupGuard
    PROVE  GuardInv'
<1>1. GuardType'
  <2>1. txn' \in Txn
    <3>1. PICK o \in CleanupOutcomes(table), b \in BOOLEAN : recordCleanup(o, b)
      BY Zenon DEF CleanupGuard
    <3>2. Effective(txn.observation, o.observation) \in Observations
      BY CleanupFacts, Zenon DEF Effective, GuardInv, GuardType, Txn
    <3> DEFINE normal == txn.normalCleanup \/ b
               absent == o.observation = "absent"
    <3>3. normal \in BOOLEAN /\ absent \in BOOLEAN /\ GuardType
      BY Zenon DEF GuardInv
    <3>4. txn' = [txn EXCEPT !.cleanupAttempted = TRUE, !.normalCleanup = normal,
                             !.observation = Effective(txn.observation, o.observation),
                             !.cleanupProvedAbsent = absent]
      BY <3>1, Zenon DEF recordCleanup
    <3> HIDE DEF normal, absent
    <3>5. QED
      BY <3>2, <3>3, <3>4, TxnCleans, Zenon
  <2>2. QED
    BY <2>1, CleanupFacts DEF GuardInv, GuardType, Places, CleanupGuard
<1>2. DirtyIsGuarded' /\ RuntimeOpenIsClean' /\ OpenMeansUnguarded'
  BY CleanupFacts, Zenon DEF GuardInv, GuardType, TxnInv, PlaceInv, DirtyIsGuarded,
       RuntimeOpenIsClean,
      OpenMeansUnguarded, Txn, Observations, CleanupGuard, recordCleanup, Effective
<1>3. TxnInv'
  BY CleanupFacts DEF GuardInv, GuardType, TxnInv, PlaceInv, DirtyIsGuarded, RuntimeOpenIsClean,
      OpenMeansUnguarded, Txn, Observations, CleanupGuard, recordCleanup, Effective
<1>4. PlaceInv'
  BY CleanupFacts DEF GuardInv, GuardType, PlaceInv, TxnInv, Txn, CleanupGuard, recordCleanup,
      Effective
<1>5. QED
  BY <1>1, <1>2, <1>3, <1>4, Zenon DEF GuardInv

\* The barrier opens behind that proof.
LEMMA ResumeKeeps ==
    ASSUME GuardInv, Resume
    PROVE  GuardInv'
<1>1. GuardType'
  <2>1. txn' \in Txn
    BY NoTxnType, Zenon DEF GuardInv, GuardType, Resume, Goto, Done
  <2>2. QED
    BY <2>1, ZenonT(30) DEF GuardInv, GuardType, Places, Resume, Goto, Done, durable
<1>2. DirtyIsGuarded' /\ RuntimeOpenIsClean' /\ OpenMeansUnguarded'
  BY NoTxnType, Zenon DEF GuardInv, GuardType, TxnInv, PlaceInv, DirtyIsGuarded, RuntimeOpenIsClean,
      OpenMeansUnguarded, Txn, Observations, Resume, Goto, Done, durable, NoTxn
<1>3. TxnInv'
  BY NoTxnType, Zenon DEF GuardInv, GuardType, TxnInv, PlaceInv, DirtyIsGuarded, RuntimeOpenIsClean,
      OpenMeansUnguarded, Txn, Observations, Resume, Goto, Done, durable, NoTxn
<1>4. PlaceInv'
  BY NoTxnType, Zenon DEF GuardInv, GuardType, PlaceInv, TxnInv, Txn, Resume, Goto, Done,
       durable, NoTxn
<1>5. QED
  BY <1>1, <1>2, <1>3, <1>4, Zenon DEF GuardInv

\* A guard that is rolled back was absent when the reload began.
LEMMA RollbackGuardKeeps ==
    ASSUME GuardInv, RollbackGuard
    PROVE  GuardInv'
<1>1. GuardType'
  <2>1. txn' \in Txn
    <3>1. PICK o \in CleanupOutcomes(table), b \in BOOLEAN : recordCleanup(o, b)
      BY Zenon DEF RollbackGuard
    <3>2. Effective(txn.observation, o.observation) \in Observations
      BY CleanupFacts, Zenon DEF Effective, GuardInv, GuardType, Txn
    <3> DEFINE normal == txn.normalCleanup \/ b
               absent == o.observation = "absent"
    <3>3. normal \in BOOLEAN /\ absent \in BOOLEAN /\ GuardType
      BY Zenon DEF GuardInv
    <3>4. txn' = [txn EXCEPT !.cleanupAttempted = TRUE, !.normalCleanup = normal,
                             !.observation = Effective(txn.observation, o.observation),
                             !.cleanupProvedAbsent = absent]
      BY <3>1, Zenon DEF recordCleanup
    <3> HIDE DEF normal, absent
    <3>5. QED
      BY <3>2, <3>3, <3>4, TxnCleans, Zenon
  <2>2. QED
    BY <2>1, CleanupFacts DEF GuardInv, GuardType, Places, RollbackGuard
<1>2. DirtyIsGuarded' /\ RuntimeOpenIsClean' /\ OpenMeansUnguarded'
  BY CleanupFacts DEF GuardInv, GuardType, TxnInv, PlaceInv, DirtyIsGuarded, RuntimeOpenIsClean,
      OpenMeansUnguarded, Txn, Observations, RollbackGuard, recordCleanup, Effective,
      shouldRollbackGuardOnFailure
<1>3. TxnInv'
  BY CleanupFacts DEF GuardInv, GuardType, TxnInv, PlaceInv, DirtyIsGuarded, RuntimeOpenIsClean,
      OpenMeansUnguarded, Txn, Observations, RollbackGuard, recordCleanup, Effective,
      shouldRollbackGuardOnFailure
<1>4. PlaceInv'
  BY CleanupFacts, Zenon DEF GuardInv, GuardType, PlaceInv, TxnInv, Txn, RollbackGuard,
       recordCleanup,
      Effective, shouldRollbackGuardOnFailure
<1>5. QED
  BY <1>1, <1>2, <1>3, <1>4, Zenon DEF GuardInv

\* A failed reload reopens the barrier only on a clean or untouched dataplane
\* without a guard.
LEMMA EndFailedReloadKeeps ==
    ASSUME GuardInv, EndFailedReload
    PROVE  GuardInv'
<1>1. GuardType'
  <2>1. txn' \in Txn
    BY NoTxnType, Zenon DEF EndFailedReload, Done
  <2>2. QED
    BY <2>1, Zenon DEF GuardInv, GuardType, Places, EndFailedReload, Done, durable
<1>2. DirtyIsGuarded' /\ RuntimeOpenIsClean' /\ OpenMeansUnguarded'
  BY NoTxnType, Zenon DEF GuardInv, GuardType, TxnInv, PlaceInv, DirtyIsGuarded, RuntimeOpenIsClean,
      OpenMeansUnguarded, Txn, Observations, EndFailedReload, Done, durable, NoTxn,
      shouldResumeAfterFailure
<1>3. TxnInv'
  BY NoTxnType, Zenon DEF GuardInv, GuardType, TxnInv, PlaceInv, DirtyIsGuarded, RuntimeOpenIsClean,
      OpenMeansUnguarded, Txn, Observations, EndFailedReload, Done, durable, NoTxn,
      shouldResumeAfterFailure
<1>4. PlaceInv'
  BY NoTxnType, Zenon DEF GuardInv, GuardType, PlaceInv, TxnInv, Txn, EndFailedReload, Done,
       durable,
      NoTxn, shouldResumeAfterFailure
<1>5. QED
  BY <1>1, <1>2, <1>3, <1>4, Zenon DEF GuardInv

\* A stop begins with an empty startupGuardTxn.
LEMMA BeginStopKeeps ==
    ASSUME GuardInv, BeginStop
    PROVE  GuardInv'
<1>1. GuardType'
  <2>1. txn' \in Txn
    BY ModesAssumption, ZenonT(30) DEF GuardInv, GuardType, Txn, Observations, GuardModes,
         BeginStop, NoTxn
  <2>2. QED
    BY <2>1, Zenon DEF GuardInv, GuardType, Places, BeginStop, durable
<1>2. DirtyIsGuarded' /\ RuntimeOpenIsClean' /\ OpenMeansUnguarded'
  BY Zenon DEF GuardInv, GuardType, TxnInv, PlaceInv, DirtyIsGuarded, RuntimeOpenIsClean,
      OpenMeansUnguarded, Txn, Observations, BeginStop, durable, NoTxn
<1>3. TxnInv'
  BY Zenon DEF GuardInv, GuardType, TxnInv, PlaceInv, DirtyIsGuarded, RuntimeOpenIsClean,
      OpenMeansUnguarded, Txn, Observations, BeginStop, durable, NoTxn
<1>4. PlaceInv'
  BY Zenon DEF GuardInv, GuardType, PlaceInv, TxnInv, Txn, BeginStop, durable, NoTxn
<1>5. QED
  BY <1>1, <1>2, <1>3, <1>4, Zenon DEF GuardInv

\* The stop detaches before it lifts the guard.
LEMMA DetachKeeps ==
    ASSUME GuardInv, Detach
    PROVE  GuardInv'
<1>1. GuardType'
  <2>1. txn' \in Txn
    BY NoTxnType, Zenon DEF GuardInv, GuardType, Detach, Goto, Done
  <2>2. QED
    BY <2>1, Zenon DEF GuardInv, GuardType, Places, Detach, Goto, Done
<1>2. DirtyIsGuarded' /\ RuntimeOpenIsClean' /\ OpenMeansUnguarded'
  BY NoTxnType DEF GuardInv, GuardType, TxnInv, PlaceInv, DirtyIsGuarded, RuntimeOpenIsClean,
      OpenMeansUnguarded, Txn, Observations, Detach, Goto, Done, NoTxn
<1>3. TxnInv'
  BY NoTxnType DEF GuardInv, GuardType, TxnInv, PlaceInv, DirtyIsGuarded, RuntimeOpenIsClean,
      OpenMeansUnguarded, Txn, Observations, Detach, Goto, Done, NoTxn
<1>4. PlaceInv'
  BY NoTxnType, Zenon DEF GuardInv, GuardType, PlaceInv, TxnInv, Txn, Detach, Goto, Done, NoTxn
<1>5. QED
  BY <1>1, <1>2, <1>3, <1>4, Zenon DEF GuardInv

\* A guard lifted by a stop is recorded as lifted.
LEMMA UnguardForStopKeeps ==
    ASSUME GuardInv, UnguardForStop
    PROVE  GuardInv'
<1>1. GuardType'
  <2>1. txn' \in Txn
    BY NoTxnType, Zenon DEF GuardInv, GuardType, UnguardForStop, Goto, Done
  <2>2. QED
    BY <2>1, CleanupFacts, Zenon DEF GuardInv, GuardType, Places, UnguardForStop, Goto, Done
<1>2. DirtyIsGuarded' /\ RuntimeOpenIsClean' /\ OpenMeansUnguarded'
  BY CleanupFacts, NoTxnType, ZenonT(30) DEF GuardInv, GuardType, TxnInv, PlaceInv, DirtyIsGuarded,
      RuntimeOpenIsClean,
      OpenMeansUnguarded, Txn, Observations, UnguardForStop, Goto, Done, NoTxn
<1>3. TxnInv'
  BY CleanupFacts, NoTxnType DEF GuardInv, GuardType, TxnInv, PlaceInv, DirtyIsGuarded,
      RuntimeOpenIsClean,
      OpenMeansUnguarded, Txn, Observations, UnguardForStop, Goto, Done, NoTxn
<1>4. PlaceInv'
  BY CleanupFacts, NoTxnType, Zenon DEF GuardInv, GuardType, PlaceInv, TxnInv, Txn, UnguardForStop,
      Goto, Done, NoTxn
<1>5. QED
  BY <1>1, <1>2, <1>3, <1>4, Zenon DEF GuardInv

\* The runtime and its barrier go with the process.
LEMMA ExitKeeps ==
    ASSUME GuardInv, Exit
    PROVE  GuardInv'
<1>1. GuardType'
  <2>1. txn' \in Txn
    BY NoTxnType, Zenon DEF Exit, Done
  <2>2. QED
    BY <2>1, Zenon DEF GuardInv, GuardType, Places, Exit, Done, durable
<1>2. DirtyIsGuarded' /\ RuntimeOpenIsClean' /\ OpenMeansUnguarded'
  BY NoTxnType, Zenon DEF GuardInv, GuardType, TxnInv, PlaceInv, DirtyIsGuarded, RuntimeOpenIsClean,
      OpenMeansUnguarded, Txn, Observations, Exit, Done, durable, NoTxn
<1>3. TxnInv'
  BY NoTxnType, Zenon DEF GuardInv, GuardType, TxnInv, PlaceInv, DirtyIsGuarded, RuntimeOpenIsClean,
      OpenMeansUnguarded, Txn, Observations, Exit, Done, durable, NoTxn
<1>4. PlaceInv'
  BY NoTxnType, Zenon DEF GuardInv, GuardType, PlaceInv, TxnInv, Txn, Exit, Done, durable, NoTxn
<1>5. QED
  BY <1>1, <1>2, <1>3, <1>4, Zenon DEF GuardInv

\* The guard commands run without a resident runtime.
LEMMA GuardCommandKeeps ==
    ASSUME GuardInv, GuardCommand
    PROVE  GuardInv'
<1>1. PICK o \in CleanupOutcomes(table) \cup ApplyOutcomes(table) :
          table' = o.table /\ lifted' = (lifted \/ o.table = "absent")
  BY Zenon DEF GuardCommand
<1>2. /\ table' \in {"absent", "active"} /\ lifted' \in BOOLEAN
      /\ table' = "absent" => lifted'
  BY <1>1, CleanupFacts, ApplyFacts, Zenon DEF GuardInv, GuardType
<1>3. /\ ~runtime /\ pc = "idle" /\ txn = NoTxn
      /\ UNCHANGED <<mode, owner, plane, saved, runtime, held, pc, txn>>
  BY Zenon DEF GuardCommand, GuardInv, PlaceInv
<1>4. GuardType'
  BY <1>2, <1>3, Zenon DEF GuardInv, GuardType
<1>5. DirtyIsGuarded' /\ RuntimeOpenIsClean' /\ OpenMeansUnguarded'
  BY <1>2, <1>3, Zenon DEF DirtyIsGuarded, RuntimeOpenIsClean, OpenMeansUnguarded
<1>6. TxnInv' /\ PlaceInv'
  BY <1>3, Zenon DEF TxnInv, PlaceInv, NoTxn
<1>7. QED
  BY <1>4, <1>5, <1>6, Zenon DEF GuardInv

\* A flush from outside lifts the guard.
LEMMA FlushKeeps ==
    ASSUME GuardInv, Flush
    PROVE  GuardInv'
<1>1. GuardType'
  BY DEF GuardInv, GuardType, Txn, Observations, GuardModes, Places, Flush
<1>2. DirtyIsGuarded' /\ RuntimeOpenIsClean' /\ OpenMeansUnguarded'
  BY Zenon DEF GuardInv, GuardType, TxnInv, PlaceInv, DirtyIsGuarded, RuntimeOpenIsClean,
      OpenMeansUnguarded, Txn, Observations, Flush
<1>3. TxnInv'
  BY Zenon DEF GuardInv, GuardType, TxnInv, PlaceInv, DirtyIsGuarded, RuntimeOpenIsClean,
      OpenMeansUnguarded, Txn, Observations, Flush
<1>4. PlaceInv'
  BY Zenon DEF GuardInv, GuardType, PlaceInv, TxnInv, Txn, Flush
<1>5. QED
  BY <1>1, <1>2, <1>3, <1>4, Zenon DEF GuardInv

\* A new configuration changes no operation that is under way.
LEMMA EditModeKeeps ==
    ASSUME GuardInv, EditMode
    PROVE  GuardInv'
<1>1. GuardType'
  BY DEF GuardInv, GuardType, Txn, Observations, GuardModes, Places, EditMode, durable
<1>2. DirtyIsGuarded' /\ RuntimeOpenIsClean' /\ OpenMeansUnguarded'
  BY Zenon DEF GuardInv, GuardType, TxnInv, PlaceInv, DirtyIsGuarded, RuntimeOpenIsClean,
      OpenMeansUnguarded, Txn, Observations, EditMode, durable
<1>3. TxnInv'
  BY Zenon DEF GuardInv, GuardType, TxnInv, PlaceInv, DirtyIsGuarded, RuntimeOpenIsClean,
      OpenMeansUnguarded, Txn, Observations, EditMode, durable
<1>4. PlaceInv'
  BY Zenon DEF GuardInv, GuardType, PlaceInv, TxnInv, Txn, EditMode, durable
<1>5. QED
  BY <1>1, <1>2, <1>3, <1>4, Zenon DEF GuardInv

-----------------------------------------------------------------------------
(* The invariant and the theorems *)

\* The invariant holds when the daemon first starts.
LEMMA GuardInit == Init => GuardInv
<1> SUFFICES ASSUME Init PROVE GuardInv
  BY Zenon
<1>1. GuardType
  BY NoTxnType, Zenon DEF Init, GuardType, Places
<1>2. QED
  BY <1>1, Zenon DEF Init, GuardInv, TxnInv, PlaceInv, NoTxn, DirtyIsGuarded, RuntimeOpenIsClean,
      OpenMeansUnguarded

\* Every step keeps the invariant.
LEMMA GuardStep ==
    ASSUME GuardInv, [Next]_vars
    PROVE  GuardInv'
<1>1. CASE Reload
  BY <1>1, BeginReloadKeeps, PrepareKeeps, QuiesceKeeps, PublishOwnerKeeps, ApplyGuardKeeps,
     StartApplyKeeps, FinishApplyKeeps, CleanupGuardKeeps, ResumeKeeps, RollbackGuardKeeps,
     EndFailedReloadKeeps, Zenon DEF Reload
<1>2. CASE BeginStop \/ Detach \/ UnguardForStop \/ Exit \/ GuardCommand \/ Flush \/ EditMode
  BY <1>2, BeginStopKeeps, DetachKeeps, UnguardForStopKeeps, ExitKeeps, GuardCommandKeeps,
     FlushKeeps, EditModeKeeps, Zenon
<1>3. CASE UNCHANGED vars
  BY <1>3 DEF vars, durable, GuardInv, GuardType, TxnInv, PlaceInv, DirtyIsGuarded,
      RuntimeOpenIsClean, OpenMeansUnguarded
<1>4. QED
  BY <1>1, <1>2, <1>3, Zenon DEF Next

\* The invariant behind all that follows: startupGuardTxn tells the truth about
\* the table, the dataplane and the barrier, at every place of reloadUnlocked.
THEOREM GuardInvariant == Spec => []GuardInv
<1>1. GuardInv /\ [Next]_vars => GuardInv'
  BY GuardStep, Zenon
<1>2. QED
  BY GuardInit, <1>1, PTL DEF Spec

\* The types the comments of startupGuardTxn and the executor give their fields.
THEOREM GuardTypeCorrect == Spec => []TypeOK
<1>1. GuardInv => TypeOK
  <2> SUFFICES ASSUME GuardInv PROVE TypeOK
    BY Zenon
  <2>1. DOMAIN txn = DOMAIN NoTxn /\ txn.observation \in Observations
    BY Zenon DEF GuardInv, GuardType, Txn, NoTxn
  <2>2. QED
    BY <2>1, Zenon DEF TypeOK, GuardInv, GuardType, Places, Observations
<1>2. QED
  BY GuardInvariant, <1>1, PTL

\* reloadUnlocked, shouldRollbackGuardOnFailure, shouldResumeAfterFailure,
\* preflightNoNFTStartupGuard: whatever fails and whenever the daemon is killed, a
\* half-replaced dataplane stays behind its guard until something other than a
\* reload lifts it, the resident runtime runs neither on such a dataplane nor
\* behind an active guard, and no reload without the guard starts behind one.
THEOREM GuardAlwaysHolds == Spec => GuardHolds
<1>1. GuardInv => DirtyIsGuarded /\ RuntimeOpenIsClean /\ OpenMeansUnguarded
  BY Zenon DEF GuardInv
<1>2. ASSUME Next, pc = "build", pc' = "applying", txn.mode = "none"
      PROVE  table = "absent"
  <2>1. StartApply
    BY <1>2, Zenon DEF Next, Reload, BeginReload, Prepare, Quiesce, PublishOwner, ApplyGuard,
        FinishApply,
        CleanupGuard, Resume, RollbackGuard, EndFailedReload, BeginStop, Detach, UnguardForStop,
        Exit, GuardCommand, Flush, EditMode, Goto, Done
  <2>2. QED
    BY <1>2, <2>1, Zenon DEF StartApply, Preflight, Goto
<1>3. [Next]_vars =>
        [pc = "build" /\ pc' = "applying" /\ txn.mode = "none" => table = "absent"]_vars
  BY <1>2, Zenon
<1>4. QED
  BY GuardInvariant, <1>1, <1>3, PTL DEF Spec, GuardHolds, NoneIsInventoried
=============================================================================

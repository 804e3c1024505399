---------------------------- MODULE RuntimeBuild ----------------------------
(***************************************************************************)
(* How one FakeTCP runtime is assembled, published and taken apart:        *)
(* acquireAndBuildFakeTCPRuntimeWithManifestAndBuilder (the factory),      *)
(* buildExperimentalFakeTCPRuntime, the policy generation transaction and  *)
(* ExperimentalFakeTCPRuntime.Close.  The programs are attached to TC with *)
(* either stage of the production factory, TCX links or classic filters.   *)
(*                                                                         *)
(* The runtime is a stack of owners, each of which stands for something    *)
(* real: kernel map entries, program array slots, attachments, open file   *)
(* descriptors or goroutines.  `have` is the set of owners the build or    *)
(* the runtime still points to, `live` is what exists.  Any step of the    *)
(* construction and any step of a teardown may fail, a failed step may     *)
(* have done part of its work, and the caller's context may be cancelled   *)
(* at any moment, while packets of the generation are being processed,     *)
(* health polls look at the owners and several callers call Close.         *)
(***************************************************************************)
EXTENDS Naturals, FiniteSets, SequencesExt

CONSTANTS
    Closers,    \* goroutines that may call Close on the runtime they got
    MaxFaults   \* how many operations fail in one behaviour

MaxFaultsAssumption == MaxFaults \in Nat

VARIABLES
    have,       \* the owners somebody still points to
    live,       \* what exists in the kernel and in the process
    ops,        \* the policy entries in the maps, by phase
    policy,     \* fakeTCPPolicyStage.state, "none" without a stage
    control,    \* control_map selects the generation
    marked,     \* experimentalCoreStage.controlCommitted
    gate,       \* the generation barrier: "closed", "open" or "sealed"
    lease,      \* the transaction retains the lifecycle lease
    claim,      \* experimentalRuntimeBuild.claim: "none", "held", "spent"
    cancelled,  \* the caller's context is cancelled
    pc,         \* where the factory and the builder are
    pass,       \* the teardown in progress
    rt,         \* the ExperimentalFakeTCPRuntime and its state
    closers,    \* where each caller of Close is
    checking,   \* Healthy is looking at the owners and holds state.mu
    inflight,   \* a packet is between the gate's enter and exit
    backend,    \* what attaches to TC: "tcx" or "classic"; never changes
    dropped,    \* the factory lost an owner it could not close
    faults

ownerVars == <<have, live, ops, policy, control, marked, gate, lease, claim>>
vars == <<ownerVars, cancelled, pc, pass, rt, closers, checking, inflight,
          backend, dropped, faults>>

-----------------------------------------------------------------------------
(* Owners and orders *)

\* The owners that are made one after the other, in the order of prepare and
\* makeReachable.  The events fence is made with the slow path.
Parts == {"collection", "checksum", "sessions", "events", "slow", "core",
          "program", "xdp", "tc"}

\* fakeTCPPolicyOperations: the interface latch comes last
Phases == <<"control", "port", "interface">>
AllOps == Range(Phases)
Prefix(n) == {Phases[i] : i \in 1..n}

\* The builder's program: each pc with the one that follows it.
Program == <<"acquire", "claim", "checksum", "sessions", "bind", "slow", "seed",
             "core", "program", "xdp", "tc", "policy", "activate",
             "commitControl", "release">>
NextPc(at) == Program[1 + CHOOSE i \in 1..(Len(Program) - 1) : Program[i] = at]

\* The order of cleanupUncommitted, which goes through the claim, and of the
\* Close of a committed runtime, which never does.
Order(kind) ==
    IF kind = "uncommitted"
    THEN <<"slow", "control", "policy", "xdp", "tc", "program", "core",
           "sessions", "events", "checksum", "collection", "claim">>
    ELSE <<"slow", "control", "gate", "xdp", "tc", "core",
           "sessions", "events", "checksum", "collection">>

\* Faulty variant: the attachments are released before the packets are drained.
DrainStepIsFence(kind) == "slow"

\* The step that seals the gate and waits for the last packet: the rollback of
\* the policy stage quiesces by itself, a committed Close calls Quiesce.
DrainStep(kind) == IF kind = "uncommitted" THEN "policy" ELSE "gate"

\* Faulty variant: the control map is deactivated under a running slow path.
FencedByNothing == {}

\* The slow path is closed before anything becomes unreachable.
Fenced == {"slow"}

\* Faulty variant: the claim is closed whatever became of the stages under it.
LeaseAfterFence == {"slow"}

\* The claim, and with it the lifecycle lease, is closed last.
LeaseAfter == {"collection"}

\* The steps of a pass that must have succeeded before this one is tried: a
\* step whose needs are not met is skipped, its owner is kept for a retry.
Needs(kind, step) ==
    CASE step = "slow" -> {}
      [] step = "control" -> Fenced
      [] step \in {"policy", "gate"} -> {"control"}
      [] step \in {"xdp", "tc"} -> {DrainStep(kind)}
      [] step = "program" -> {"xdp", "tc"}
      [] step = "core" ->
             IF kind = "uncommitted" THEN {"program"} ELSE {"xdp", "tc"}
      [] step \in {"sessions", "events"} -> {"core"}
      [] step = "checksum" -> {"sessions", "events"}
      [] step = "collection" -> {"checksum"}
      [] step = "claim" -> LeaseAfter

NoPass == [kind |-> "none", at |-> 0, done |-> {}, by |-> "none"]
BeginPass(kind, by) == pass' = [kind |-> kind, at |-> 1, done |-> {}, by |-> by]

NoRuntime == [exists |-> FALSE, failedBuild |-> FALSE, shutdown |-> FALSE,
              closing |-> FALSE, closed |-> FALSE, err |-> FALSE]

\* The production factory stages TC with TCX links or with classic filters.
tcStageFactory == {"tcx", "classic"}

Init ==
    /\ have = {} /\ live = {} /\ ops = {} /\ policy = "none"
    /\ control = FALSE /\ marked = FALSE /\ gate = "closed"
    /\ lease = TRUE /\ claim = "none"
    /\ cancelled = FALSE /\ pc = "acquire" /\ pass = NoPass /\ rt = NoRuntime
    /\ closers = [c \in Closers |-> "idle"]
    /\ checking = FALSE /\ inflight = FALSE /\ dropped = FALSE /\ faults = 0
    /\ backend \in tcStageFactory

MayFail == faults < MaxFaults
Fault == MayFail /\ faults' = faults + 1

-----------------------------------------------------------------------------
(* The builder *)

\* buildExperimentalFakeTCPRuntime gives up before the commit: fail runs one
\* pass of cleanupUncommitted.
Abandon ==
    /\ pc' = "failing"
    /\ BeginPass("uncommitted", "builder")

\* The last steps run in the callback with which the TC stage commits.  When it
\* fails, TCX links stay with the stage; the classic transaction takes its
\* filters back at once, as far as it can, and keeps the stage.
Committing == {"policy", "activate", "commitControl", "release"}
tcRollback == IF backend = "classic" /\ pc \in Committing THEN {live, live \ {"tc"}} ELSE {live}

\* Every stage starts with a check of the caller's context.
CancelledStep ==
    /\ cancelled
    /\ pc \in Range(Program) \ {"acquire", "claim", "release"}
    /\ live' \in tcRollback
    /\ Abandon
    /\ UNCHANGED <<have, ops, policy, control, marked, gate, lease, claim, cancelled, rt, closers, checking, inflight, backend, dropped, faults>>

\* What a failed constructor leaves behind: nothing, an owner of part of the
\* work that the build records, an owner whose work was already undone, or
\* entries of a fresh map nobody points to.
\* The core stage rolls itself back and returns no stage, even when that fails.
checksumLeaves == {"nothing", "owned"}
slowPathLeaves == {"nothing", "owned"}
coreLeaves == {"nothing", "orphan"}
programLeaves == {"nothing", "owned"}
xdpLeaves == {"nothing", "owned"}
tcxLeaves == {"nothing", "owned"}
classicLeaves == {"nothing", "owned", "undone"}
sessionsLeave == {"nothing"}
bindLeaves == {"nothing"}
seedLeaves == {"nothing"}

Leaves(p) ==
    CASE p = "checksum" -> checksumLeaves
      [] p = "sessions" -> sessionsLeave
      [] p = "bind" -> bindLeaves
      [] p = "slow" -> slowPathLeaves
      [] p = "seed" -> seedLeaves
      [] p = "core" -> coreLeaves
      [] p = "program" -> programLeaves
      [] p = "xdp" -> xdpLeaves
      [] p = "tc" -> IF backend = "tcx" THEN tcxLeaves ELSE classicLeaves

\* Faulty variant: the identity seed is treated as an owner.
MakesSeed(p) == CASE p = "bind" -> {}
                  [] p = "slow" -> {"events", "slow"}
                  [] OTHER -> {p}

\* The owners a stage records.
Makes(p) == CASE p \in {"bind", "seed"} -> {}
              [] p = "slow" -> {"events", "slow"}
              [] OTHER -> {p}

Stages == {"checksum", "sessions", "bind", "slow", "seed", "core", "program", "xdp", "tc"}

\* One stage of prepare or makeReachable succeeds.
StageDone ==
    /\ pc \in Stages
    /\ ~cancelled
    /\ have' = have \cup Makes(pc)
    /\ live' = live \cup Makes(pc)
    /\ pc' = NextPc(pc)
    /\ UNCHANGED <<ops, policy, control, marked, gate, lease, claim, cancelled, pass,
                   rt, closers, checking, inflight, backend, dropped, faults>>

\* Faulty variant: the error of a constructor is inspected before the partial
\* owner it returned is recorded.
RecordedNot(p, left) == {}

\* The owners of a failed stage that are recorded before its error is looked at.
Recorded(p, left) ==
    IF p = "slow" THEN {"events"} \cup (IF left = "owned" THEN {"slow"} ELSE {})
    ELSE IF left \in {"owned", "undone"} THEN Makes(p) ELSE {}

\* One stage fails, possibly after doing part of its work.
StageFails ==
    /\ pc \in Stages
    /\ Fault
    /\ \E left \in Leaves(pc) :
          /\ have' = have \cup Recorded(pc, left)
          /\ live' = live \cup (IF left \in {"nothing", "undone"}
                               THEN Makes(pc) \ {pc} ELSE Makes(pc))
    /\ Abandon
    /\ UNCHANGED <<ops, policy, control, marked, gate, lease, claim, cancelled,
                   rt, closers, checking, inflight, backend, dropped>>

\* A rollback of policy entries: seal and drain the gate, then remove the
\* interface latches, the ports and the control policies; a failed phase
\* leaves it and the earlier phases of the plan in the maps.
RollbackDone == ~inflight /\ gate' = "sealed"
RollbackFails(applied, left) ==
    \/ left = applied /\ gate' \in {gate, "sealed"}
    \/ /\ ~inflight
       /\ gate' = "sealed"
       /\ \E n \in 0..Len(Phases) : left = applied \cap Prefix(n)
       /\ left # {}

\* Stage writes every entry and verifies it; the stage is bound to its
\* collection owner.
StagePolicy ==
    /\ pc = "policy"
    /\ ~cancelled
    /\ gate = "closed"
    /\ ops' = AllOps
    /\ policy' = "active"
    /\ have' = have \cup {"policy"}
    /\ pc' = NextPc(pc)
    /\ UNCHANGED <<live, control, marked, gate, lease, claim, cancelled, pass, rt, closers,
                   checking, inflight, backend, dropped, faults>>

\* stageForRuntimeClaim fails before its first write or after n phases of them.
\* failStageLocked rolls back with the same context: a cancelled one makes the
\* rollback fail before it starts, and the stage is kept as pending.  When only
\* the binding fails the stage is whole.
StagePolicyFails ==
    /\ pc = "policy"
    /\ IF cancelled THEN UNCHANGED faults ELSE Fault
    /\ \/ UNCHANGED <<ops, policy, have, gate>>
       \/ /\ ~cancelled
          /\ ops' = AllOps
          /\ policy' = "active"
          /\ have' = have \cup {"policy"}
          /\ UNCHANGED gate
       \/ \E n \in 1..Len(Phases) :
             \/ /\ ~cancelled
                /\ ops' = {}
                /\ RollbackDone
                /\ UNCHANGED <<policy, have>>
             \/ /\ \E left \in SUBSET Prefix(n) :
                      /\ ops' = left
                      /\ IF cancelled THEN left = Prefix(n) /\ UNCHANGED gate
                         ELSE RollbackFails(Prefix(n), left)
                /\ policy' = "pending"
                /\ have' = have \cup {"policy"}
    /\ live' \in tcRollback
    /\ Abandon
    /\ UNCHANGED <<control, marked, lease, claim, cancelled, rt, closers, checking,
                   inflight, backend, dropped>>

\* acquireFakeTCPCollection: the collection is loaded and has one owner.
Acquire ==
    /\ pc = "acquire"
    /\ ~cancelled
    /\ have' = {"collection"}
    /\ live' = {"collection"}
    /\ pc' = NextPc(pc)
    /\ UNCHANGED <<ops, policy, control, marked, gate, lease, claim, cancelled, pass, rt,
                   closers, checking, inflight, backend, dropped, faults>>

\* The factory returns an error before there is a claim: its deferred function
\* closes the collection it acquired and the transaction.  A collection that
\* does not close here has no owner left.
FactoryFails ==
    /\ pc \in {"acquire", "claim"}
    /\ \/ /\ IF cancelled THEN UNCHANGED faults ELSE Fault
          /\ live' = {}
          /\ UNCHANGED dropped
       \/ /\ cancelled
          /\ Fault
          /\ live' = {"collection"}
          /\ dropped' = TRUE
    /\ have' = {}
    /\ lease' = FALSE
    /\ pc' = "returned"
    /\ UNCHANGED <<ops, policy, control, marked, gate, claim, cancelled, pass, rt, closers,
                   checking, inflight, backend>>

\* claimRuntimeBuild
ClaimRuntimeBuild ==
    /\ pc = "claim"
    /\ ~cancelled
    /\ claim' = "held"
    /\ pc' = NextPc(pc)
    /\ UNCHANGED <<have, live, ops, policy, control, marked, gate, lease, cancelled, pass,
                   rt, closers, checking, inflight, backend, dropped, faults>>

\* Activate opens the generation barrier.
Activate ==
    /\ pc = "activate"
    /\ ~cancelled
    /\ gate' = "open"
    /\ pc' = NextPc(pc)
    /\ UNCHANGED <<have, live, ops, policy, control, marked, lease, claim, cancelled, pass,
                   rt, closers, checking, inflight, backend, dropped, faults>>

\* CommitControl writes the selector of the generation; from then on packets
\* find it.
CommitControl ==
    /\ pc = "commitControl"
    /\ ~cancelled
    /\ control' = TRUE
    /\ marked' = TRUE
    /\ pc' = NextPc(pc)
    /\ UNCHANGED <<have, live, ops, policy, gate, lease, claim, cancelled, pass, rt,
                   closers, checking, inflight, backend, dropped, faults>>

\* The barrier refuses, the selector is not written or cannot be read back, or
\* release finds that the claim no longer owns the lease.
ActivationFails ==
    /\ pc \in {"activate", "commitControl", "release"}
    /\ Fault
    /\ \/ UNCHANGED <<control, marked>>
       \/ pc = "commitControl" /\ control' = TRUE /\ marked' = TRUE
    /\ live' \in tcRollback
    /\ Abandon
    /\ UNCHANGED <<have, ops, policy, gate, lease, claim, cancelled, rt, closers,
                   checking, inflight, backend, dropped>>

\* commitRuntimeBuild disarms both stages and consumes the claim and the lease;
\* it does not look at the caller's context.  An error in closing the lease
\* comes after the commit: failCommitted closes the runtime it made.
CommitRuntimeBuild ==
    /\ pc = "release"
    /\ policy' = "disarmed"
    /\ have' = have \ {"policy", "program"}
    /\ lease' = FALSE
    /\ claim' = "spent"
    /\ \/ /\ pc' = "returned"
          /\ rt' = [NoRuntime EXCEPT !.exists = TRUE]
          /\ UNCHANGED <<live, pass, faults>>
       \/ /\ Fault
          /\ live' \in tcRollback
          /\ pc' = "failing"
          /\ rt' = [NoRuntime EXCEPT !.exists = TRUE, !.shutdown = TRUE, !.closing = TRUE]
          /\ BeginPass("committed", "builder")
    /\ UNCHANGED <<ops, control, marked, gate, cancelled, closers, checking, inflight, backend,
                   dropped>>

-----------------------------------------------------------------------------
(* One pass of a teardown: cleanupUncommitted or the committed Close *)

Running == pass.kind # "none" /\ pass.at <= Len(Order(pass.kind))
Step == Order(pass.kind)[pass.at]
Ready == Needs(pass.kind, Step) \subseteq pass.done
Absent == CASE Step = "control" -> "core" \notin have
            [] Step = "gate" -> FALSE
            [] Step = "claim" -> claim = "none"
            [] OTHER -> Step \notin have

Advance(ok) ==
    pass' = [pass EXCEPT !.at = @ + 1,
                         !.done = IF ok THEN @ \cup {Step} ELSE @]

\* A step whose needs are not met is skipped; an owner that is gone counts as
\* closed.
StepOver ==
    /\ Running
    /\ ~Ready \/ Absent
    /\ Advance(Ready)
    /\ UNCHANGED <<ownerVars, cancelled, pc, rt, closers, checking, inflight, backend, dropped, faults>>

\* rollbackForRuntimeClaim removes every entry before the stage is forgotten.
Rollback ==
    \/ Step # "policy" /\ UNCHANGED <<policy, ops>>
    \/ /\ Step = "policy"
       /\ policy' = "rolledback"
       /\ ops' = {}

\* The unpinned collection takes with it what its maps and arrays still hold.
CollectionTakes == {"collection", "core", "program"}

\* The step succeeds and its owner is forgotten.
StepDone ==
    /\ Running /\ Ready /\ ~Absent
    /\ IF Step \in {"gate", "policy"} THEN RollbackDone ELSE UNCHANGED gate
    /\ Step \in {"policy", "program"} => lease /\ claim = "held"
    /\ Step = "claim" => policy \notin {"active", "pending"}
    /\ have' = have \ {Step}
    /\ IF Step = "collection"
       THEN live' = live \ CollectionTakes /\ ops' = {} /\ UNCHANGED policy
       ELSE live' = live \ {Step} /\ Rollback
    /\ control' = (control /\ Step # "control")
    /\ marked' = (marked /\ Step # "control")
    /\ lease' = (lease /\ Step # "claim")
    /\ claim' = IF Step = "claim" THEN "none" ELSE claim
    /\ Advance(TRUE)
    /\ UNCHANGED <<cancelled, pc, rt, closers, checking, inflight, backend, dropped, faults>>

\* What is live after a failed Close or Rollback of a part: the program slot or
\* the last XDP link may be gone although that could not be confirmed, and the
\* classic filters although their record is not; TCX links, core entries and
\* the session backend stay until a Close succeeds.
programRollbackFails == {live, live \ {"program"}}
xdpCloseFails == {live, live \ {"xdp"}}
tcxCloseFails == {live}
classicCloseFails == {live, live \ {"tc"}}
coreCloseFails == {live}
sessionsCloseFails == {live}

\* Deactivate fails before the zero is written or when it is not read back.
deactivateFails == {control, FALSE}

LiveAfterFailure ==
    CASE Step = "program" -> programRollbackFails
      [] Step = "xdp" -> xdpCloseFails
      [] Step = "tc" -> IF backend = "tcx" THEN tcxCloseFails ELSE classicCloseFails
      [] Step = "core" -> coreCloseFails
      [] Step = "sessions" -> sessionsCloseFails
      [] OTHER -> {live}

\* The step fails and keeps its owner for the next pass, after doing none or
\* part of its work.  Closing the event fence cannot fail, nor can deactivating
\* a core that was not committed or closing a transaction that is closed.
StepFails ==
    /\ Running /\ Ready /\ ~Absent
    /\ Step # "events"
    /\ Step = "control" => marked
    /\ Step = "claim" => lease
    /\ Fault
    /\ IF Step = "policy"
       THEN \E left \in SUBSET ops :
                ops' = left /\ RollbackFails(ops, left) /\ policy' = "pending"
       ELSE /\ IF Step = "gate" THEN gate' \in {gate, "sealed"} ELSE UNCHANGED gate
            /\ UNCHANGED <<ops, policy>>
    /\ live' \in LiveAfterFailure
    /\ control' \in (IF Step = "control" THEN deactivateFails ELSE {control})
    /\ lease' = (lease /\ Step # "claim")
    /\ Advance(FALSE)
    /\ UNCHANGED <<have, marked, claim, cancelled, pc, rt, closers, checking, inflight, backend, dropped>>

Ended == pass.kind # "none" /\ pass.at > Len(Order(pass.kind))

\* Faulty variant: a detached generation counts as closed.
CompleteOnceDetached == {"xdp", "tc"} \subseteq pass.done

\* Every owner is gone.
Complete == pass.done = Range(Order(pass.kind))

\* fail got an incomplete cleanup: the build becomes a shut down runtime that
\* only serves to retry it, and the factory retries at once.  A complete one
\* leaves nothing to return.
BuilderPassEnds ==
    /\ Ended
    /\ pass.by = "builder"
    /\ IF Complete
       THEN pc' = "returned" /\ rt' = NoRuntime /\ pass' = NoPass
       ELSE IF pc = "failing"
            THEN /\ pc' = "retrying"
                 /\ rt' = [NoRuntime EXCEPT !.exists = TRUE, !.shutdown = TRUE,
                                            !.closing = TRUE,
                                            !.failedBuild = (pass.kind = "uncommitted")]
                 /\ BeginPass(pass.kind, "builder")
            ELSE /\ pc' = "returned"
                 /\ rt' = [rt EXCEPT !.closing = FALSE, !.err = TRUE]
                 /\ pass' = NoPass
    /\ UNCHANGED <<ownerVars, cancelled, closers, checking, inflight, backend, dropped, faults>>

-----------------------------------------------------------------------------
(* Callers of Close and Healthy, and packets *)

\* Faulty variant: a runtime that is shut down is not torn down again.
CallCloseOnce(c) ==
    /\ pc = "returned" /\ rt.exists /\ ~checking
    /\ closers[c] = "idle"
    /\ IF rt.shutdown
       THEN /\ closers' = [closers EXCEPT ![c] = "err"]
            /\ UNCHANGED <<rt, pass>>
       ELSE /\ closers' = [closers EXCEPT ![c] = "closing"]
            /\ rt' = [rt EXCEPT !.closing = TRUE, !.shutdown = TRUE]
            /\ BeginPass("committed", c)
    /\ UNCHANGED <<ownerVars, cancelled, pc, checking, inflight, backend, dropped, faults>>

\* Close takes state.mu: it reports a finished teardown, waits for one in
\* progress, or starts one.
CallClose(c) ==
    /\ pc = "returned" /\ rt.exists /\ ~checking
    /\ closers[c] \in {"idle", "err"}
    /\ \/ /\ rt.closed
          /\ closers' = [closers EXCEPT ![c] = IF rt.err THEN "err" ELSE "nil"]
          /\ UNCHANGED <<rt, pass>>
       \/ /\ ~rt.closed /\ rt.closing
          /\ closers' = [closers EXCEPT ![c] = "waiting"]
          /\ UNCHANGED <<rt, pass>>
       \/ /\ ~rt.closed /\ ~rt.closing
          /\ closers' = [closers EXCEPT ![c] = "closing"]
          /\ rt' = [rt EXCEPT !.closing = TRUE, !.shutdown = TRUE]
          /\ BeginPass(IF rt.failedBuild THEN "uncommitted" ELSE "committed", c)
    /\ UNCHANGED <<ownerVars, cancelled, pc, checking, inflight, backend, dropped, faults>>

\* Faulty variant: the error of a pass is forgotten.
CloserPassEndsQuietly ==
    /\ Ended
    /\ pass.by \in Closers
    /\ ~checking
    /\ rt' = [rt EXCEPT !.closing = FALSE, !.closed = Complete, !.err = FALSE]
    /\ closers' = [c \in Closers |->
                     CASE c = pass.by -> IF Complete THEN "nil" ELSE "err"
                       [] closers[c] = "waiting" -> "woken"
                       [] OTHER -> closers[c]]
    /\ pass' = NoPass
    /\ UNCHANGED <<ownerVars, cancelled, pc, checking, inflight, backend, dropped, faults>>

\* The end of Close: the result is recorded under state.mu and closeDone wakes
\* the callers that waited for this pass.
CloserPassEnds ==
    /\ Ended
    /\ pass.by \in Closers
    /\ ~checking
    /\ rt' = [rt EXCEPT !.closing = FALSE, !.closed = Complete, !.err = ~Complete]
    /\ closers' = [c \in Closers |->
                     CASE c = pass.by -> IF Complete THEN "nil" ELSE "err"
                       [] closers[c] = "waiting" -> "woken"
                       [] OTHER -> closers[c]]
    /\ pass' = NoPass
    /\ UNCHANGED <<ownerVars, cancelled, pc, checking, inflight, backend, dropped, faults>>

\* A woken caller returns the recorded error, which a later pass may have set.
Woken(c) ==
    /\ closers[c] = "woken" /\ ~checking
    /\ closers' = [closers EXCEPT ![c] = IF rt.err THEN "err" ELSE "nil"]
    /\ UNCHANGED <<ownerVars, cancelled, pc, pass, rt, checking, inflight, backend, dropped, faults>>

\* Faulty variant: Healthy looks at the slow path only.
HealthyUnguarded ==
    /\ pc = "returned" /\ rt.exists /\ ~checking
    /\ "slow" \in have \/ rt.closing
    /\ ~rt.closed
    /\ checking' = TRUE
    /\ UNCHANGED <<ownerVars, cancelled, pc, pass, rt, closers, inflight, backend, dropped, faults>>

\* Healthy holds state.mu while it looks at the owners one after the other.
Healthy ==
    /\ pc = "returned" /\ rt.exists /\ ~checking
    /\ ~rt.shutdown /\ ~rt.closing /\ ~rt.closed
    /\ "slow" \in have
    /\ checking' = TRUE
    /\ UNCHANGED <<ownerVars, cancelled, pc, pass, rt, closers, inflight, backend, dropped, faults>>

HealthyReturns ==
    /\ checking
    /\ checking' = FALSE
    /\ UNCHANGED <<ownerVars, cancelled, pc, pass, rt, closers, inflight, backend, dropped, faults>>

\* A program attached to XDP or TC selects the generation and enters the gate.
PacketEnters ==
    /\ ~inflight
    /\ control /\ gate = "open" /\ live \cap {"xdp", "tc"} # {}
    /\ inflight' = TRUE
    /\ UNCHANGED <<ownerVars, cancelled, pc, pass, rt, closers, checking, backend, dropped, faults>>

PacketLeaves ==
    /\ inflight
    /\ inflight' = FALSE
    /\ UNCHANGED <<ownerVars, cancelled, pc, pass, rt, closers, checking, backend, dropped, faults>>

\* The caller gives up while the build is going on.
Cancel ==
    /\ ~cancelled /\ pc # "returned"
    /\ cancelled' = TRUE
    /\ UNCHANGED <<ownerVars, pc, pass, rt, closers, checking, inflight, backend, dropped, faults>>

BuilderStep ==
    \/ CancelledStep \/ StageDone \/ StageFails \/ StagePolicy \/ StagePolicyFails
    \/ Acquire \/ FactoryFails \/ ClaimRuntimeBuild \/ Activate \/ CommitControl
    \/ ActivationFails \/ CommitRuntimeBuild \/ BuilderPassEnds

PassStep == StepOver \/ StepDone \/ StepFails

Next ==
    \/ BuilderStep \/ PassStep \/ CloserPassEnds
    \/ \E c \in Closers : CallClose(c) \/ Woken(c)
    \/ Healthy \/ HealthyReturns
    \/ PacketEnters \/ PacketLeaves \/ Cancel

Spec == Init /\ [][Next]_vars

\* Fairness: goroutines run, a packet leaves the program it is in, and whoever
\* holds a runtime that is shut down calls Close until it succeeds, as the
\* supervisor does with the owner it quarantines.  Faults are finite.
Fairness ==
    /\ WF_vars(BuilderStep) /\ WF_vars(PassStep) /\ WF_vars(CloserPassEnds)
    /\ WF_vars(PacketLeaves) /\ WF_vars(HealthyReturns)
    /\ \A c \in Closers : WF_vars(rt.shutdown /\ CallClose(c)) /\ WF_vars(Woken(c))

FairSpec == Spec /\ Fairness

-----------------------------------------------------------------------------
(* Properties *)

\* Every variable has its type: the owners and flags of experimentalRuntimeBuild,
\* fakeTCPPolicyStage and ExperimentalFakeTCPRuntime.
TypeOK ==
    /\ have \subseteq Parts \cup {"policy"} /\ live \subseteq Parts
    /\ ops \subseteq AllOps
    /\ policy \in {"none", "active", "pending", "rolledback", "disarmed"}
    /\ {control, marked, lease, cancelled, checking, inflight, dropped} \subseteq BOOLEAN
    /\ gate \in {"closed", "open", "sealed"} /\ backend \in tcStageFactory
    /\ claim \in {"none", "held", "spent"}
    /\ pc \in Range(Program) \cup {"failing", "retrying", "returned"}
    /\ closers \in [Closers -> {"idle", "closing", "waiting", "woken", "nil", "err"}]
    /\ faults \in 0..MaxFaults

\* While a packet is inside the generation every policy entry, the program it
\* tail-calls, the core maps and the collection are there, whichever step of a
\* construction or a teardown failed and was retried around it.
PacketSeesGeneration ==
    inflight => ops = AllOps /\ {"collection", "core", "program"} \subseteq live

\* "No dataplane owner may be detached while a write could still complete
\* against that generation" (Close), and cleanupUncommitted says the same: the
\* selector, the attachments, the session and event handles and the collection
\* go only after the slow path is closed.  One step of the code does not keep to
\* it, and is all that is exempt: the classic TC transaction takes its filters
\* back when the commit inside of it fails (tcAttachPlan.Execute), before
\* cleanupUncommitted closes the slow path, whose Run nobody has called yet.
SlowPathFencedFirst ==
    [][ LET takenBack == IF backend = "classic" /\ pc \in Committing THEN {"tc"} ELSE {}
            detached == (live \ live') \cap {"xdp", "tc", "sessions", "events", "collection"}
        IN (control /\ ~control') \/ detached \ takenBack # {} => "slow" \notin live ]_vars

\* A build that returns no runtime and a Close that reports success leave
\* nothing behind, in the kernel or in the process, and no lease; unless the
\* factory could not close a collection that no build had taken over.
NoLeak ==
    (pc = "returned" /\ ~rt.exists) \/ rt.closed =>
        (live = {} \/ dropped) /\ ops = {} /\ ~control /\ ~lease

\* What exists can still be reached by a retry: every live part has its owner,
\* or lives in the maps of a collection that has one.
LiveIsOwned ==
    dropped \/ /\ live \ {"core", "program"} \subseteq have
               /\ live # {} \/ ops # {} => "collection" \in have

\* The lifecycle lease is retained as long as policy entries or a program slot
\* may have to be rolled back.
LeaseCoversRollback ==
    \/ policy \in {"active", "pending"}
    \/ claim = "held" /\ "program" \in live
    => lease

\* A health poll that got past its checks never looks at an owner that a
\* concurrent Close has retired.
HealthySeesOwners == checking => live = Parts

\* A Close that returns no error means that the runtime is closed, also for a
\* caller that only waited for another one.
NilMeansClosed == \A c \in Closers : closers[c] = "nil" => rt.closed

\* A build ends, and a runtime that is shut down is eventually closed.
TeardownCompletes ==
    /\ <>(pc = "returned")
    /\ (rt.exists /\ rt.shutdown) ~> (rt.closed \/ ~rt.exists)
=============================================================================

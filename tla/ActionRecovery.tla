--------------------------- MODULE ActionRecovery ---------------------------
(***************************************************************************)
(* The write-ahead execution of the side effects that the FakeTCP Engine   *)
(* selects (internal/faketcp/action_recovery.go), as a recoverable         *)
(* Controller uses it (internal/faketcp/controller.go).                    *)
(*                                                                         *)
(* One store holds at most one checkpoint: the steps of one operation, how *)
(* far they got, and whether the next one is being attempted.  Every       *)
(* change of it is a compare-and-swap on its revision, so that several     *)
(* Controller instances (an old one, and the one that replaces it) may     *)
(* share the store.  An instance marks a step attempting, runs it, and     *)
(* marks it completed; these are three actions here, and an instance may   *)
(* crash, a context may be cancelled and a store or backend call may fail  *)
(* between any two of them.                                                *)
(***************************************************************************)
EXTENDS Integers, Sequences, SequencesExt

CONSTANTS
    Instances,    \* the Controllers that share the checkpoint store
    Identities,   \* the runtime identities an instance may be built with
    Packets,      \* the captured packets an operation may release
    Batches,      \* the action lists the Engine may select
    MaxOps,       \* bound: operations that reach the checkpoint store
    MaxRevision,  \* the last revision of the store; 2^64 - 1 in the code
    MaxFaults     \* bound: crashes, store faults and backend errors

BatchesAssumption ==
    /\ "control" \notin Packets
    /\ Batches \subseteq Seq({"control"} \cup Packets)

VARIABLES
    slot,     \* the stored checkpoint, or NoCheckpoint
    nextRev,  \* MemoryActionCheckpointStore.nextRevision
    inst,     \* the instances: what each is doing with which checkpoint
    ops,      \* history: the steps of each operation, and what was run
    faults    \* faults so far

vars == <<slot, nextRev, inst, ops, faults>>

NoCheckpoint == [op |-> 0]

Pcs == {"off", "idle", "create", "loop", "run", "complete", "resume",
        "pending", "failed"}

Init ==
    /\ slot = NoCheckpoint
    /\ nextRev = 1
    /\ inst = [i \in Instances |->
                  [pc |-> "off", id |-> CHOOSE d \in Identities : TRUE,
                   fenced |-> FALSE, recovering |-> FALSE,
                   steps |-> <<>>, ckpt |-> NoCheckpoint]]
    /\ ops = <<>>
    /\ faults = 0

Pending == slot # NoCheckpoint

(***************************************************************************)
(* The steps of an action list: controls and captured packets in order,    *)
(* a packet identity that occurs again being left out.                     *)
(***************************************************************************)
actionSteps(actions) ==
    LET first(k) == \/ actions[k] = "control"
                    \/ \A j \in 1 .. k - 1 : actions[j] # actions[k]
        kept == {k \in DOMAIN actions : first(k)}
    IN  [n \in 1 .. Len(SetToSortSeq(kept, <)) |->
            actions[SetToSortSeq(kept, <)[n]]]

(***************************************************************************)
(* How an instance leaves an operation.  Execute gives its error to        *)
(* handleActionExecutionError, which fences the Controller; Recover asks   *)
(* Pending whether to keep the fence.                                      *)
(***************************************************************************)
Return(i, fenced) ==
    [inst EXCEPT ![i].pc = "idle", ![i].fenced = fenced,
                 ![i].ckpt = NoCheckpoint, ![i].steps = <<>>,
                 ![i].recovering = FALSE]

RequireRecovery(i) ==
    IF inst[i].recovering
    THEN [inst EXCEPT ![i].pc = "pending", ![i].ckpt = NoCheckpoint]
    ELSE Return(i, TRUE)

MayFail == faults < MaxFaults

(***************************************************************************)
(* The compare-and-swap of the store.                                      *)
(***************************************************************************)
MatchesAny(i) == slot # NoCheckpoint

Matches(i) == slot # NoCheckpoint /\ slot.rev = inst[i].ckpt.rev

Written(value) == [value EXCEPT !.rev = nextRev]

CommitUpdate(i, value, then) ==
    /\ Matches(i) /\ nextRev <= MaxRevision
    /\ slot' = Written(value)
    /\ nextRev' = nextRev + 1
    /\ inst' = [inst EXCEPT ![i].pc = then, ![i].ckpt = Written(value)]
    /\ UNCHANGED <<ops, faults>>

RefuseUpdate(i) ==
    /\ \/ ~Matches(i)
       \/ nextRev > MaxRevision
    /\ inst' = RequireRecovery(i)
    /\ UNCHANGED <<slot, nextRev, ops, faults>>

\* Any other write error: whether the value was stored is not known.
FaultUpdate(i, value) ==
    /\ MayFail /\ Matches(i) /\ nextRev <= MaxRevision
    /\ \/ slot' = slot /\ nextRev' = nextRev
       \/ slot' = Written(value) /\ nextRev' = nextRev + 1
    /\ faults' = faults + 1
    /\ inst' = RequireRecovery(i)
    /\ UNCHANGED ops

Update(i, value, then) ==
    \/ CommitUpdate(i, value, then)
    \/ RefuseUpdate(i)
    \/ FaultUpdate(i, value)

(***************************************************************************)
(* Construction: the new Controller is fenced when a checkpoint is found.  *)
(***************************************************************************)
NewRecoverableController(i) ==
    /\ inst[i].pc = "off"
    /\ \E d \in Identities :
          inst' = [inst EXCEPT ![i].pc = "idle", ![i].id = d,
                               ![i].fenced = Pending]
    /\ UNCHANGED <<slot, nextRev, ops, faults>>

\* The process of an instance ends anywhere; the store stays.
Crash(i) ==
    /\ MayFail /\ inst[i].pc # "off"
    /\ faults' = faults + 1
    /\ inst' = [inst EXCEPT ![i] = [@ EXCEPT
                    !.pc = "off", !.fenced = FALSE, !.recovering = FALSE,
                    !.steps = <<>>, !.ckpt = NoCheckpoint]]
    /\ UNCHANGED <<slot, nextRev, ops>>

\* Close ends an instance that runs nothing; another may be built.
Close(i) ==
    /\ inst[i].pc \in {"idle", "failed"}
    /\ inst' = [inst EXCEPT ![i].pc = "off", ![i].fenced = FALSE]
    /\ UNCHANGED <<slot, nextRev, ops, faults>>

(***************************************************************************)
(* Execute: an empty step list returns at once; a checkpoint found by the  *)
(* load means that recovery is required.                                   *)
(***************************************************************************)
Execute(i, actions) ==
    /\ inst[i].pc = "idle" /\ ~inst[i].fenced
    /\ actionSteps(actions) # <<>> /\ Len(ops) < MaxOps
    /\ inst' = IF Pending THEN Return(i, TRUE)
               ELSE [inst EXCEPT ![i].pc = "create",
                                 ![i].steps = actionSteps(actions)]
    /\ UNCHANGED <<slot, nextRev, ops, faults>>

\* A context that is cancelled, a load error or actions that are refused:
\* the Engine has moved on, so the Controller fails for good.
ExecuteFails(i) ==
    /\ inst[i].pc = "idle" /\ ~inst[i].fenced
    /\ inst' = [inst EXCEPT ![i].pc = "failed"]
    /\ UNCHANGED <<slot, nextRev, ops, faults>>

Opened(i) ==
    [op |-> Len(ops) + 1, id |-> inst[i].id, rev |-> nextRev,
     phase |-> "prepared", next |-> 1]

Recorded(i) ==
    Append(ops, [steps |-> inst[i].steps, id |-> inst[i].id,
                 tried |-> [n \in DOMAIN inst[i].steps |-> 0],
                 ok |-> {}])

Create(i) ==
    /\ inst[i].pc = "create" /\ ~Pending
    /\ nextRev <= MaxRevision /\ Len(ops) < MaxOps
    /\ slot' = Opened(i)
    /\ nextRev' = nextRev + 1
    /\ ops' = Recorded(i)
    /\ inst' = [inst EXCEPT ![i].pc = "loop", ![i].ckpt = Opened(i)]
    /\ UNCHANGED faults

CreateConflict(i) ==
    /\ inst[i].pc = "create" /\ Pending
    /\ inst' = Return(i, TRUE)
    /\ UNCHANGED <<slot, nextRev, ops, faults>>

\* A create error that is no conflict makes the Controller fail for good.
CreateFault(i) ==
    /\ inst[i].pc = "create" /\ ~Pending
    /\ \/ nextRev > MaxRevision /\ UNCHANGED <<slot, nextRev, ops, faults>>
       \/ /\ MayFail
          /\ faults' = faults + 1
          /\ UNCHANGED <<slot, nextRev, ops>>
       \/ /\ MayFail /\ nextRev <= MaxRevision /\ Len(ops) < MaxOps
          /\ faults' = faults + 1
          /\ slot' = Opened(i) /\ nextRev' = nextRev + 1
          /\ ops' = Recorded(i)
    /\ inst' = [inst EXCEPT ![i].pc = "failed", ![i].steps = <<>>]

(***************************************************************************)
(* Recover: load the checkpoint, refuse a foreign identity, settle an      *)
(* attempt that was interrupted, and go on with the rest.                  *)
(***************************************************************************)
AcceptsAny(i) == TRUE

AcceptsPrepared(i) == slot.id = inst[i].id /\ slot.phase = "prepared"

Accepts(i) == slot.id = inst[i].id

Recover(i) ==
    /\ inst[i].pc = "idle"
    /\ inst' =
          IF Pending /\ Accepts(i)
          THEN [inst EXCEPT ![i].recovering = TRUE, ![i].ckpt = slot,
                            ![i].pc = IF slot.phase = "attempting"
                                      THEN "resume" ELSE "loop"]
          ELSE [inst EXCEPT ![i].recovering = TRUE, ![i].pc = "pending"]
    /\ UNCHANGED <<slot, nextRev, ops, faults>>

\* A context that is cancelled, or a load error, before anything is done.
RecoverCancelled(i) ==
    /\ inst[i].pc = "idle"
    /\ inst' = [inst EXCEPT ![i].recovering = TRUE, ![i].pc = "pending"]
    /\ UNCHANGED <<slot, nextRev, ops, faults>>

Steps(c) == ops[c.op].steps

Step(c) == Steps(c)[c.next]

SettledAttempting(c) ==
    IF Step(c) # "control" THEN [c EXCEPT !.next = @ + 1]
    ELSE [c EXCEPT !.phase = "prepared"]

SettledBySkip(c) == [c EXCEPT !.phase = "prepared", !.next = @ + 1]

\* An interrupted reinjection is skipped, an interrupted control is run again.
Settled(c) ==
    IF Step(c) # "control"
    THEN [c EXCEPT !.phase = "prepared", !.next = @ + 1]
    ELSE [c EXCEPT !.phase = "prepared"]

Resume(i) ==
    /\ inst[i].pc = "resume"
    /\ Update(i, Settled(inst[i].ckpt), "loop")

Unfenced(i) == FALSE

\* Controller.Recover ends with Pending: the fence stays while it holds.
Fenced(i) == Pending

RecoverReturns(i) ==
    /\ inst[i].pc = "pending"
    /\ \/ inst' = Return(i, Fenced(i)) /\ UNCHANGED faults
       \/ MayFail /\ inst' = Return(i, TRUE) /\ faults' = faults + 1
    /\ UNCHANGED <<slot, nextRev, ops>>

(***************************************************************************)
(* continueLocked.                                                         *)
(***************************************************************************)
MarkedAttempting(c) == [c EXCEPT !.phase = "attempting"]

MarkAttempting(i) ==
    /\ inst[i].pc = "loop"
    /\ inst[i].ckpt.next <= Len(Steps(inst[i].ckpt))
    /\ Update(i, MarkedAttempting(inst[i].ckpt), "run")

\* ctx.Err at the head of the loop; the checkpoint stays.
Cancelled(i) ==
    /\ inst[i].pc = "loop"
    /\ inst[i].ckpt.next <= Len(Steps(inst[i].ckpt))
    /\ inst' = RequireRecovery(i)
    /\ UNCHANGED <<slot, nextRev, ops, faults>>

Attempted(c) ==
    [ops EXCEPT ![c.op].tried[c.next] = IF @ = 2 THEN 2 ELSE @ + 1]

executeActionStep(i) ==
    /\ inst[i].pc = "run"
    /\ LET c == inst[i].ckpt IN
       \/ /\ ops' = [Attempted(c) EXCEPT ![c.op].ok = @ \cup {c.next}]
          /\ inst' = [inst EXCEPT ![i].pc = "complete"]
          /\ UNCHANGED faults
       \/ /\ MayFail
          /\ faults' = faults + 1
          /\ ops' = Attempted(c)
          /\ inst' = RequireRecovery(i)
    /\ UNCHANGED <<slot, nextRev>>

Completed(c) == [c EXCEPT !.phase = "prepared", !.next = @ + 1]

CompleteStep(i) ==
    /\ inst[i].pc = "complete"
    /\ Update(i, Completed(inst[i].ckpt), "loop")

(***************************************************************************)
(* DeleteActionCheckpoint, also a compare-and-swap.                        *)
(***************************************************************************)
FinishedEarly(i) == inst[i].ckpt.next >= Len(Steps(inst[i].ckpt))

Finished(i) == inst[i].ckpt.next > Len(Steps(inst[i].ckpt))

Delete(i) ==
    /\ inst[i].pc = "loop" /\ Finished(i)
    /\ \/ /\ Matches(i)
          /\ slot' = NoCheckpoint
          /\ inst' = IF inst[i].recovering
                     THEN [inst EXCEPT ![i].pc = "pending"]
                     ELSE Return(i, FALSE)
          /\ UNCHANGED faults
       \/ /\ ~Matches(i)
          /\ inst' = RequireRecovery(i)
          /\ UNCHANGED <<slot, faults>>
       \/ /\ MayFail /\ Matches(i)
          /\ faults' = faults + 1
          /\ slot' \in {slot, NoCheckpoint}
          /\ inst' = RequireRecovery(i)
    /\ UNCHANGED <<nextRev, ops>>

Next ==
    \E i \in Instances :
       \/ NewRecoverableController(i) \/ Crash(i) \/ Close(i)
       \/ \E actions \in Batches : Execute(i, actions)
       \/ ExecuteFails(i)
       \/ Create(i) \/ CreateConflict(i) \/ CreateFault(i)
       \/ Recover(i) \/ RecoverCancelled(i) \/ RecoverReturns(i)
       \/ Resume(i)
       \/ MarkAttempting(i) \/ Cancelled(i) \/ executeActionStep(i)
       \/ CompleteStep(i) \/ Delete(i)

Spec == Init /\ [][Next]_vars

(***************************************************************************)
(* An operation that is running goes on; a Controller that was closed or   *)
(* crashed is built again and Recover is called on it; a context is not    *)
(* cancelled for ever.                                                     *)
(***************************************************************************)
Fairness ==
    /\ \A i \in Instances :
          /\ WF_vars(NewRecoverableController(i))
          /\ WF_vars(inst[i].pc = "failed" /\ Close(i))
          /\ WF_vars(Create(i) \/ CreateConflict(i))
          /\ SF_vars(Recover(i)) /\ WF_vars(RecoverReturns(i))
          /\ WF_vars(Resume(i)) /\ SF_vars(MarkAttempting(i))
          /\ WF_vars(executeActionStep(i)) /\ WF_vars(CompleteStep(i))
          /\ WF_vars(Delete(i))

FairSpec == Spec /\ Fairness

-----------------------------------------------------------------------------
(***************************************************************************)
(* The checkpoint that is stored, or in an instance's hands, is one of the *)
(* operations recorded so far, at a position that                          *)
(* validateActionCheckpointPosition accepts.                               *)
(***************************************************************************)
IsCheckpoint(c) ==
    \/ c = NoCheckpoint
    \/ /\ DOMAIN c = {"op", "id", "rev", "phase", "next"}
       /\ c.op \in 1 .. Len(ops) /\ c.id \in Identities
       /\ c.rev \in 1 .. MaxRevision
       /\ c.phase \in {"prepared", "attempting"}
       /\ c.next \in 1 .. Len(Steps(c)) + 1
       /\ c.phase = "attempting" => c.next <= Len(Steps(c))

\* Every variable has its type: the stored checkpoint and the one an instance
\* works on are positions of recorded operations, and revisions are bounded.
TypeOK ==
    /\ IsCheckpoint(slot)
    /\ nextRev \in 1 .. MaxRevision + 1
    /\ faults \in 0 .. MaxFaults
    /\ \A i \in Instances :
          /\ inst[i].pc \in Pcs /\ inst[i].id \in Identities
          /\ inst[i].fenced \in BOOLEAN /\ inst[i].recovering \in BOOLEAN
          /\ IsCheckpoint(inst[i].ckpt)

(***************************************************************************)
(* A captured packet is given to Reinject at most once, whatever crashes,  *)
(* store faults and overlaps of two Controllers happen: "An attempting     *)
(* reinjection is never replayed" (action_recovery.go:237).                *)
(***************************************************************************)
AtMostOnce ==
    \A o \in DOMAIN ops : \A p \in Packets :
       LET tries == {n \in DOMAIN ops[o].steps :
                        ops[o].steps[n] = p /\ ops[o].tried[n] > 0}
       IN  \A m, n \in tries : m = n /\ ops[o].tried[n] = 1

(***************************************************************************)
(* A step is attempted only when every control packet before it in its     *)
(* operation has been sent: a first packet never overtakes the handshake   *)
(* packet that it waited for.                                              *)
(***************************************************************************)
ControlsFirst ==
    \A o \in DOMAIN ops : \A n \in DOMAIN ops[o].steps :
       ops[o].tried[n] > 0 =>
          \A k \in 1 .. n - 1 :
             ops[o].steps[k] = "control" => k \in ops[o].ok

(***************************************************************************)
(* A checkpoint leaves the store only when every control packet of its     *)
(* operation has been sent, by whichever instance finished it.             *)
(***************************************************************************)
ControlsNotLost ==
    \A o \in DOMAIN ops : slot.op # o =>
       \A n \in DOMAIN ops[o].steps :
          ops[o].steps[n] = "control" => n \in ops[o].ok

(***************************************************************************)
(* No instance works on the checkpoint of another runtime identity, which  *)
(* Recover refuses with ErrActionCheckpointIdentityMismatch.               *)
(***************************************************************************)
OwnCheckpoint ==
    \A i \in Instances :
       inst[i].ckpt # NoCheckpoint => ops[inst[i].ckpt.op].id = inst[i].id

(***************************************************************************)
(* With one Controller, a checkpoint that is left behind keeps it fenced:  *)
(* HandleSample and Tick do not reach the Engine while an operation is     *)
(* unfinished, across restarts and failed recoveries too.                  *)
(***************************************************************************)
UnfencedIsClean ==
    \A i \in Instances : inst[i].pc = "idle" /\ ~inst[i].fenced => ~Pending

(***************************************************************************)
(* A checkpoint of the identity that the Controllers are built with is     *)
(* finished and removed, if Recover is called again after each fault.      *)
(***************************************************************************)
Recovers == Pending ~> ~Pending
=============================================================================

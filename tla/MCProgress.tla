----------------------------- MODULE MCProgress -----------------------------
(***************************************************************************)
(* What must come to an end, for TLC: the event loop with its engine, the  *)
(* Controller, the raw backend, the recovery of unfinished actions, the    *)
(* closing of a generation and both owner transactions, in instances small *)
(* enough for progress.  Only the one that part names moves, and each      *)
(* property has the fairness of its own instance as its hypothesis.  The   *)
(* gate is extended, so that its assumption is evaluated and its           *)
(* invariants are checked by name.                                         *)
(***************************************************************************)
EXTENDS GenerationGate

CONSTANTS Flows, r1, c1, c2, k1, k2, f1, u1, u2, d1, p1, p2

VARIABLES
    part,
    sessions, halfOpen, sourceOpen, pendingFlows, pendingBytes, nextID, fast, fate, call, ticking,
    loop,
    caller, opMu, inflight, life, failed, closer, flow, captured, ledger, faults, acked, early,
    bCaller, bLedger, result, bInflight, bLife, refusing, owned, bCloser, written, bFaults,
    slot, nextRev, inst, ops, rFaults,
    rec, dir, files, pin, link, gen, data, bank, dev, job, fd, retained, calm,
    journal, task, filter, clsact

engineVars == <<sessions, halfOpen, sourceOpen, pendingFlows, pendingBytes, nextID, fast, fate,
                call, ticking, loop>>
controlledVars == <<caller, opMu, inflight, life, failed, closer, flow, captured, ledger, faults,
                    acked, early>>
backendVars == <<bCaller, bLedger, result, bInflight, bLife, refusing, owned, bCloser, written,
                 bFaults>>
recoveryVars == <<slot, nextRev, inst, ops, rFaults>>
exactVars == <<rec, pin, link, dev, job, fd, retained>>
classicVars == <<journal, task, filter, clsact>>
transactionVars == <<dir, files, gen, data, bank, calm, exactVars, classicVars>>
otherVars == <<engineVars, controlledVars, backendVars, recoveryVars, transactionVars>>
progressVars == <<part, vars, otherVars>>

Engine == INSTANCE EngineLoop
    WITH Packets <- {p1}, Sources <- {r1}, SourceOf <- [f \in Flows |-> r1],
         SessionCapacity <- 2, MaxHalfOpenSessions <- 1, MaxHalfOpenPerSource <- 1,
         MaxPendingFlows <- 1, MaxPendingPacketsPerFlow <- 1, MaxPendingBytes <- 1,
         HandshakeRetries <- 1, MaxSessionID <- 1, MaxRevision <- 2

Controlled == INSTANCE Controller
    WITH Callers <- {c1, c2}, Closers <- {k1, k2}, Flows <- {f1}, Cpus <- {u1},
         MaxCaptures <- 2, MaxStreams <- 1, MaxFaults <- 1

Backend == INSTANCE RawBackend
    WITH Callers <- {c1, c2}, Closers <- {k1}, Cpus <- {u1, u2},
         MaxSeq <- 2, MaxStreams <- 1, MaxFaults <- 1,
         caller <- bCaller, ledger <- bLedger, inflight <- bInflight, life <- bLife,
         closer <- bCloser, faults <- bFaults

Recovery == INSTANCE ActionRecovery
    WITH Instances <- {c1}, Identities <- {d1}, Packets <- {p1, p2},
         Batches <- {<<"control", p1, p1, p2>>, <<"control">>},
         MaxOps <- 2, MaxRevision <- 20, MaxFaults <- 2, faults <- rFaults

Transaction == INSTANCE OwnerTransaction
    WITH NSlots <- 1, Maps <- {"control_map", "owner_map"}, MaxLink <- 5, MaxGen <- 2,
         MayLose <- FALSE

Classic == INSTANCE ClassicTransaction
    WITH NSlots <- 1, Maps <- {"control_map", "owner_map"}, MaxGen <- 2, rec <- journal, job <- task

ASSUME InstancesAssumption ==
    /\ Engine!OptionsAssumption /\ Recovery!BatchesAssumption
    /\ Transaction!TransactionAssumption /\ Classic!ClassicAssumption

ProgressInit ==
    /\ part \in {"gate", "engine", "controller", "backend", "recovery", "transaction", "classic"}
    /\ Init
    /\ Engine!LoopInit
    /\ Controlled!Init
    /\ Backend!Init
    /\ Recovery!Init
    /\ Transaction!Init /\ Classic!Init

ProgressNext ==
    \/ /\ part = "gate" /\ Next
       /\ UNCHANGED <<part, otherVars>>
    \/ /\ part = "engine" /\ Engine!LoopNext
       /\ UNCHANGED <<part, vars, controlledVars, backendVars, recoveryVars, transactionVars>>
    \/ /\ part = "controller" /\ Controlled!Next
       /\ UNCHANGED <<part, vars, engineVars, backendVars, recoveryVars, transactionVars>>
    \/ /\ part = "backend" /\ Backend!Next
       /\ UNCHANGED <<part, vars, engineVars, controlledVars, recoveryVars, transactionVars>>
    \/ /\ part = "recovery" /\ Recovery!Next
       /\ UNCHANGED <<part, vars, engineVars, controlledVars, backendVars, transactionVars>>
    \/ /\ part = "transaction" /\ Transaction!Next
       /\ UNCHANGED <<part, vars, engineVars, controlledVars, backendVars, recoveryVars, classicVars>>
    \/ /\ part = "classic" /\ Classic!Next
       /\ UNCHANGED <<part, vars, engineVars, controlledVars, backendVars, recoveryVars, exactVars>>

ProgressSpec == ProgressInit /\ [][ProgressNext]_progressVars

-----------------------------------------------------------------------------
\* Run, Tick, Ensure: every half-open session is established, given up or gone with
\* its runtime, and an uncertain delete with what it claimed is settled; the loop
\* has ended before it would serve a session whose delete is uncertain.
SessionsSettle ==
    /\ [](part = "engine" => Engine!UncertainEndsRun)
    /\ part = "engine" /\ Engine!LoopFairness => Engine!HalfOpenEnds /\ Engine!DeleteResolves

\* faketcpGenerationOwner.Close, Controller.Close, RawBackend.Reinject,
\* RawBackend.Close: every call returns, those that joined another call or wait
\* for another write or for packets to leave the generation included.
CallsEnd ==
    /\ part = "gate" /\ GateFairness => CloseCompletes
    /\ part = "controller" /\ Controlled!Fairness => Controlled!CloseEnds
    /\ part = "backend" /\ Backend!Fairness => Backend!CallsEnd

\* Recover, HandleSample, Tick: a checkpoint is finished and removed if Recover is
\* called again, and until then the Controller does not reach the Engine, across
\* restarts and failed recoveries too.  Apply, Detach: once faults stop, the owner
\* transaction they left is finished, whatever it was, with either TC backend.
RecoveryFinishes ==
    /\ part = "recovery" /\ Recovery!Fairness => Recovery!Recovers
    /\ part = "transaction" /\ Transaction!Fairness => Transaction!Settles
    /\ part = "classic" /\ Classic!Fairness => Classic!Settles
    /\ [](part = "recovery" => Recovery!UnfencedIsClean)
=============================================================================

------------------------------ MODULE MCEngine ------------------------------
(***************************************************************************)
(* The FakeTCP engine for TLC, extended so that its properties are checked *)
(* by name, with session identities and revisions that reach their last    *)
(* value; and beside it, as instances, the engine at its quotas, its SYN   *)
(* admission, the packet programs behind its session map, the budget of    *)
(* the events they send it and the kernel module that prepares their       *)
(* packets.  They share no variable, except the first two instances, and   *)
(* only the one that part names moves.                                     *)
(*                                                                         *)
(* Quotas has more packets than the limits admit, and all flows come from  *)
(* one remote, so the limit per source is met before the global one;       *)
(* Crowded has more flows than sessions.                                   *)
(* Admission has more sources than the ledger has room for, a pruning      *)
(* budget smaller than the ledger, and a clock that lets a source expire   *)
(* and return.  Programs is one CPU, with as few elements as flows, so     *)
(* that a deleted session's element is used again.  Budget has two CPUs    *)
(* that race for the cursor, over two intervals.  Bridge has two runtimes  *)
(* and a diagnosis over two lease slots.                                   *)
(***************************************************************************)
EXTENDS FakeTCPEngine

CONSTANTS QFlows, QPackets, CFlows, r1,     \* of the engines at their quotas
          SYNSources, Runtimes, Doctor

VARIABLES
    part,
    qSessions, qHalfOpen, qSourceOpen, qPendingFlows, qPendingBytes, qNextID, qFast, qFate,
    qCall, qTicking,
    now, globalSYNs, synSources, lru, counted, held, spent, passed,
    live, map, elem, nextSession, cpu, token, nonce, decoded,
    clock, cursor, last, job, admitted,
    loaded, cookies, errors, missed, lease, minted, backend, stage, seeded, attached, active, waits,
    packet, kills, faults

quotaVars == <<qSessions, qHalfOpen, qSourceOpen, qPendingFlows, qPendingBytes, qNextID, qFast,
               qFate, qCall, qTicking>>
admissionVars == <<now, globalSYNs, synSources, lru, counted, held, spent, passed>>
programVars == <<live, map, elem, nextSession, cpu, token, nonce, decoded>>
budgetVars == <<clock, cursor, last, job, admitted>>
bridgeVars == <<loaded, cookies, errors, missed, lease, minted, backend, stage, seeded, attached,
                active, waits, packet, kills, faults>>
allVars == <<part, vars, quotaVars, admissionVars, programVars, budgetVars, bridgeVars>>

\* All flows of the engine that is extended come from one remote.
OneSource == [f \in Flows |-> r1]

Quotas == INSTANCE FakeTCPEngine
    WITH Flows <- QFlows, Packets <- QPackets,
         Sources <- {r1}, SourceOf <- [f \in QFlows |-> r1],
         SessionCapacity <- 3, MaxHalfOpenSessions <- 2, MaxHalfOpenPerSource <- 1,
         MaxPendingFlows <- 2, MaxPendingPacketsPerFlow <- 2, MaxPendingBytes <- 2,
         HandshakeRetries <- 1, MaxSessionID <- 1, MaxRevision <- 1,
         sessions <- qSessions, halfOpen <- qHalfOpen, sourceOpen <- qSourceOpen,
         pendingFlows <- qPendingFlows, pendingBytes <- qPendingBytes, nextID <- qNextID,
         fast <- qFast, fate <- qFate, call <- qCall, ticking <- qTicking

Crowded == INSTANCE FakeTCPEngine
    WITH Flows <- CFlows, Packets <- {r1},
         Sources <- {r1}, SourceOf <- [f \in CFlows |-> r1],
         SessionCapacity <- 2, MaxHalfOpenSessions <- 1, MaxHalfOpenPerSource <- 1,
         MaxPendingFlows <- 1, MaxPendingPacketsPerFlow <- 1, MaxPendingBytes <- 1,
         HandshakeRetries <- 1, MaxSessionID <- 1, MaxRevision <- 1,
         sessions <- qSessions, halfOpen <- qHalfOpen, sourceOpen <- qSourceOpen,
         pendingFlows <- qPendingFlows, pendingBytes <- qPendingBytes, nextID <- qNextID,
         fast <- qFast, fate <- qFate, call <- qCall, ticking <- qTicking

Admission == INSTANCE SynAdmission
    WITH Sources <- SYNSources, SYNRateInterval <- 2, SYNBurst <- 3, SYNBurstPerSource <- 1,
         SYNSourceLedgerCapacity <- 2, SYNSourceLedgerTTL <- 2, PruneBudget <- 1,
         MaxHalfOpenSessions <- 2, MaxHalfOpenPerSource <- 1, MaxTime <- 7,
         halfOpen <- counted

Programs == INSTANCE FakeTCPPath
    WITH CPUs <- {r1}, Elements <- {1, 2}, none <- 0,
         MaxSession <- 3, MaxNonce <- 2, MaxDecoded <- 1, nextID <- nextSession

Budget == INSTANCE ControlBudget
    WITH CPUs <- {1, 2}, Flows <- {1}, Interval <- 2, Burst <- 2, Attempts <- 2, MaxTime <- 5

Bridge == INSTANCE ChecksumBridge
    WITH Packets <- {r1}, MaxLeases <- 2, MaxOpens <- 3, MaxFaults <- 1

ASSUME InstancesAssumption ==
    /\ Quotas!OptionsAssumption
    /\ Crowded!OptionsAssumption
    /\ OptionsAssumption
    /\ Admission!LimitsAssumption
    /\ Budget!BudgetAssumption

AllInit ==
    /\ part \in {"quotas", "crowded", "fast path", "admission", "programs", "budget", "bridge"}
    /\ Init
    /\ IF part = "crowded" THEN Crowded!Init ELSE Quotas!Init
    /\ Admission!Init
    /\ Programs!Init
    /\ Budget!Init
    /\ Bridge!Init
    /\ part # "bridge" => waits

AllNext ==
    \/ /\ part = "fast path" /\ Next
       /\ UNCHANGED <<part, quotaVars, admissionVars, programVars, budgetVars, bridgeVars>>
    \/ /\ \/ part = "quotas" /\ Quotas!Next
          \/ part = "crowded" /\ Crowded!Next
       /\ UNCHANGED <<part, vars, admissionVars, programVars, budgetVars, bridgeVars>>
    \/ /\ part = "admission" /\ Admission!Next
       /\ UNCHANGED <<part, vars, quotaVars, programVars, budgetVars, bridgeVars>>
    \/ /\ part = "programs" /\ Programs!Next
       /\ UNCHANGED <<part, vars, quotaVars, admissionVars, budgetVars, bridgeVars>>
    \/ /\ part = "budget" /\ Budget!Next
       /\ UNCHANGED <<part, vars, quotaVars, admissionVars, programVars, bridgeVars>>
    \/ /\ part = "bridge" /\ Bridge!Next
       /\ UNCHANGED <<part, vars, quotaVars, admissionVars, programVars, budgetVars>>

AllSpec == AllInit /\ [][AllNext]_allVars

-----------------------------------------------------------------------------
\* Every variable of every instance has its type: the counters keep within the
\* limits of the Options.
AllTypeOK ==
    CASE part = "fast path" -> TypeOK
      [] part = "quotas" -> Quotas!TypeOK
      [] part = "crowded" -> Crowded!TypeOK
      [] part = "admission" -> Admission!TypeOK
      [] part = "programs" -> Programs!TypeOK
      [] part = "budget" -> Budget!TypeOK
      [] part = "bridge" -> Bridge!TypeOK

\* canOpenSession, canQueue, observeSYN: an engine with more packets or more flows
\* than its limits admit counts them exactly and releases packets only with their
\* session in the map; SYNs pass at the configured rate, all together and those of
\* each source, evicted from the ledger or not, and each that passes retires expired
\* sources, also from behind one that has to stay.  faketcp_take_control_budget:
\* events reach userspace at the configured rate.
LimitsHold ==
    /\ [](part = "quotas" => Quotas!CountersExact)
    /\ [](part = "crowded" => Crowded!CountersExact)
    /\ [](part = "admission" => /\ Admission!HeldIsCounted /\ Admission!OrderIsActivity
                                /\ Admission!GlobalRate /\ Admission!SourceRate)
    /\ [](part = "budget" => Budget!EventsBounded)
    /\ [][ /\ part = "quotas" => Quotas!ReleaseMeansEstablished
           /\ part = "admission" => Admission!CleanupAdvances ]_allVars

\* The programs let a packet through only for the session of its own flow that its
\* admission saw (faketcp_session_mutate, faketcp_consume_ingress_admission), and a
\* token serves only the packet it was armed for.  Every lease of the kernel module
\* has an owner and outlives the programs that name it (closeChecksumSelection,
\* productionFakeTCPRuntime.Close, device_release), and a packet without the
\* module's service is never sent (change_type_return).
ServedByOwner ==
    /\ [](part = "programs" => Programs!TokenServesItsPacket)
    /\ [](part = "bridge" =>
            Bridge!LeasesOwned /\ Bridge!FailsClosed /\ Bridge!LeaseOutlivesPrograms)
    /\ [][ /\ part = "programs" => Programs!GrantedByOwnSession
           /\ part = "bridge" => Bridge!ServedUnderLeaseStep ]_allVars
=============================================================================

----------------------------- MODULE MCRuntime ------------------------------
(***************************************************************************)
(* The life of one FakeTCP runtime for TLC: its construction and teardown, *)
(* its event loop, its supervisor, its XDP or TCX links and its classic TC *)
(* filters, side by side.  They share no variable, and only the one that   *)
(* part names moves: of the event loop, with two callers that pause it and *)
(* one that closes it, one and two, or one and one beside a supervisor     *)
(* that asks for a stop.  Each progress property has the fairness of its   *)
(* own component as its hypothesis.  The supervisor is the module's own,   *)
(* so that what is proved of it is checked here under the same name,       *)
(* SupervisorHolds.                                                        *)
(***************************************************************************)
EXTENDS Supervisor

CONSTANTS p1, p2, k1, k2    \* callers that pause and close the loop

VARIABLES
    part,
    have, exists, ops, policy, control, marked, gate, retained, claim, gone, pc, pass, rt, closers,
    checking, inflight, backend, dropped, faults,
    guardPhase, guardRevision, guardLease, guardReleased, minted, activeWork, stopAsked, shutdown,
    closing, closed, reader, controller, run, ppc, acquired, acquiredRevision, held, kpc, spc, awaiting, asleep,
    kind, hook, fd, changed, links, planned, stage, k, keep, disturbed, acts, mishaps,
    rec, next, slot, lost, boot, ids, base, tcx, mine, exp, agenda, place, todo, applied, served,
    touched, builds, foreign, failures

buildVars == <<have, exists, ops, policy, control, marked, gate, retained, claim, gone, pc, pass,
               rt, closers, checking, inflight, backend, dropped, faults>>
loopVars == <<guardPhase, guardRevision, guardLease, guardReleased, minted, activeWork, stopAsked,
              shutdown, closing, closed, reader, controller, run, ppc, acquired, acquiredRevision,
              held, kpc, spc, awaiting, asleep>>
linkVars == <<kind, hook, fd, changed, links, planned, stage, k, keep, disturbed, acts, mishaps>>
filterVars == <<rec, next, slot, lost, boot, ids, base, tcx, mine, exp, agenda, place, todo,
                applied, served, touched, builds, foreign, failures>>
vars == <<part, buildVars, loopVars, supVars, linkVars, filterVars>>

Build == INSTANCE RuntimeBuild
    WITH Closers <- {k1, k2}, MaxFaults <- 3, live <- exists, lease <- retained,
         cancelled <- gone

Loop == INSTANCE EventRuntime
    WITH Pausers <- {p1, p2}, Closers <- {k1, k2}, MaxTokens <- 2, lease <- held

Links == INSTANCE LinkStage
    WITH NHooks <- 2, MaxActs <- 2, MaxFaults <- 1, held <- links, at <- stage, faults <- mishaps

Filters == INSTANCE FilterStage
    WITH NSlots <- 2, MaxBoot <- 2, MaxBuild <- 2, MaxForeign <- 1, MaxFaults <- 1,
         at <- place, faults <- failures

ASSUME InstancesAssumption ==
    /\ Build!MaxFaultsAssumption /\ Loop!EventRuntimeAssumption
    /\ Links!LinkAssumption /\ Filters!FilterAssumption

InLoop == part \in {"pauses", "closes", "stops"}

Init ==
    /\ part \in {"build", "pauses", "closes", "stops", "supervisor", "links", "filters"}
    /\ Build!Init /\ (part # "build" => backend = "tcx")
    /\ Loop!Init
    /\ SupInit
    /\ Links!Init /\ (part # "links" => kind = "xdp")
    /\ Filters!Init /\ (part # "filters" => base = "none")

Next ==
    \/ /\ part = "build" /\ Build!Next
       /\ UNCHANGED <<part, loopVars, supVars, linkVars, filterVars>>
    \/ /\ InLoop /\ Loop!Next
       /\ part # "closes" => kpc'[k2] = kpc[k2]
       /\ part # "pauses" => ppc'[p2] = ppc[p2]
       /\ part # "stops" => spc' = spc
       /\ UNCHANGED <<part, buildVars, supVars, linkVars, filterVars>>
    \/ /\ part = "supervisor" /\ SupNext
       /\ UNCHANGED <<part, buildVars, loopVars, linkVars, filterVars>>
    \/ /\ part = "links" /\ Links!Next
       /\ UNCHANGED <<part, buildVars, loopVars, supVars, filterVars>>
    \/ /\ part = "filters" /\ Filters!Next
       /\ UNCHANGED <<part, buildVars, loopVars, supVars, linkVars>>

Spec == Init /\ [][Next]_vars

-----------------------------------------------------------------------------
\* Every variable of every instance has its type.
TypeOK ==
    CASE part = "build" -> Build!TypeOK
      [] InLoop -> Loop!TypeOK
      [] part = "supervisor" -> SupTypeOK
      [] part = "links" -> Links!TypeOK
      [] part = "filters" -> Filters!TypeOK

\* experimentalRuntimeBuild.close, ensure: a failed build and a closed runtime
\* leave nothing; what exists can be reached by a retry, under the lease while a
\* rollback may be due.
\* fakeTCPXDPStage, productionFakeTCPTCXStage: no open link is forgotten.
\* fakeTCPClassicOwnerStore: every filter of ours on this host is named by the
\* owner record, whatever was killed or failed, a generation that is served has
\* all its filters in place, and the plain core never runs beside them.
OwnedOnce ==
    /\ part = "build" => /\ Build!NoLeak
                         /\ Build!LiveIsOwned
                         /\ Build!LeaseCoversRollback
                         /\ Build!NilMeansClosed
    /\ part = "links" => Links!NoLinkLost
    /\ part = "filters" => Filters!RecordCovers /\ Filters!ServedIsExact /\ Filters!Apart

\* ExperimentalFakeTCPRuntime.Close, EventRuntime.Close, PauseForStartupGuard: no dataplane
\* owner goes before the slow path, and no controller is closed under its loop; a
\* loop that was stopped never admits work again, one whose barrier is held runs no
\* callback, and only the lease of who holds it, or the end, opens it again; a
\* packet inside the generation finds all of it, and a health poll never looks at
\* an owner that Close has retired.  validateAttachments, release, removeExact: links
\* are proven once more before the commit, and neither a link that runs another
\* program nor a filter of somebody else is ever taken away.
ClosedInOrder ==
    /\ [](part = "build" => Build!PacketSeesGeneration /\ Build!HealthySeesOwners)
    /\ Build!SlowPathFencedFirst
    /\ [](InLoop => Loop!ControllerUnused /\ Loop!HeldIsQuiet /\ Loop!LeaseOfPhase)
    /\ Loop!StoppedIsFinal /\ Loop!LeaseHolds
    /\ [][part = "links" => Links!CommitProvenStep /\ Links!QuarantineStep]_vars
    /\ [][part = "filters" => Filters!ForeignKeptStep]_vars

\* Close, PauseForStartupGuard, Ensure, Stop: a build ends and a runtime that is
\* shut down is closed; every call to the loop and to the supervisor returns.  A
\* failed set of links is released, and an owner record that is left over is
\* cleared, except where the code refuses for good.
TeardownEnds ==
    /\ part = "build" /\ Build!Fairness => Build!TeardownCompletes
    /\ InLoop /\ Loop!Fairness => Loop!PauseEnds /\ Loop!CloseEnds
    /\ part = "supervisor" /\ SupFairness => CallsReturn
    /\ part = "links" /\ Links!Fairness => Links!FailedCloses
    /\ part = "filters" /\ Filters!Fairness => Filters!RecordSettles
=============================================================================

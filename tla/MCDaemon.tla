------------------------------ MODULE MCDaemon ------------------------------
(***************************************************************************)
(* The daemon's control plane for TLC: four components side by side.  They  *)
(* share no variable, and the one that part names moves while the others   *)
(* stay in their initial state, so the states of a run are the sum of the  *)
(* states of the components.  Each progress property has the fairness of    *)
(* its own instance as its hypothesis.  The startup guard is the module's  *)
(* own, so that what is proved of it is checked here under the same name.  *)
(***************************************************************************)
EXTENDS StartupGuard

CONSTANTS a, b, none, f1, f2,     \* contents of the file, and system facts
          d, c, u,                \* processes that take the locks
          s1                      \* a client

VARIABLES
    part,
    env, file, facts, carried, lastFingerprint, lastConfigHash, reported, rpc, reason, hash,
    named, open, locked, lpc, lock, retained, torn,
    lease, dpc, work, worker, status, requests, acks, older, cpc, target, answer, ran

reconcileVars == <<env, file, facts, carried, lastFingerprint, lastConfigHash, reported,
                   rpc, reason, hash>>
handoffVars == <<named, open, locked, lpc, lock, retained, torn>>
requestsVars == <<lease, dpc, work, worker, status, requests, acks, older, cpc, target, answer, ran>>
allVars == <<part, vars, reconcileVars, handoffVars, requestsVars>>

Reconcile == INSTANCE DaemonReconcile
    WITH Contents <- {a, b}, NoFile <- none, Facts <- {f1, f2},
         Environments <- {{}, {"edits", "late"}},
         plane <- carried, status <- reported, pc <- rpc

\* The uninstall that waits for the service's daemon, without failures.
Handoff == INSTANCE LifecycleLocks
    WITH Service <- {d}, Daemons <- {}, Commands <- {c}, Installs <- {},
         Uninstalls <- {u}, MayFail <- FALSE, MaxInode <- 0,
         pc <- lpc, worker <- retained

\* One client that stops the daemon.
Requests == INSTANCE DaemonRequests
    WITH Clients <- {s1}, Stoppers <- {s1}, MaxInstances <- 2,
         maxPendingRequestFiles <- 2, maxRetainedAckFiles <- 2, pc <- dpc

ASSUME InstancesAssumption ==
    /\ Reconcile!ConstantsAssumption
    /\ Handoff!ProcsAssumption

AllInit ==
    /\ part \in {"reconcile", "guard", "handoff", "requests"}
    /\ Reconcile!Init
    /\ part # "reconcile" => env = {} /\ file = a /\ facts = f1
    /\ Init
    /\ part # "guard" => mode = "none"
    /\ Handoff!Init
    /\ Requests!Init

AllNext ==
    \/ /\ part = "reconcile" /\ Reconcile!Next
       /\ UNCHANGED <<part, vars, handoffVars, requestsVars>>
    \/ /\ part = "guard" /\ Next
       /\ UNCHANGED <<part, reconcileVars, handoffVars, requestsVars>>
    \/ /\ part = "handoff" /\ Handoff!Next
       /\ UNCHANGED <<part, reconcileVars, vars, requestsVars>>
    \/ /\ part = "requests" /\ Requests!Next
       /\ UNCHANGED <<part, reconcileVars, vars, handoffVars>>

AllSpec == AllInit /\ [][AllNext]_allVars

-----------------------------------------------------------------------------
\* Every variable of every instance has its type.
AllTypeOK ==
    CASE part = "reconcile" -> Reconcile!TypeOK
      [] part = "guard" -> TypeOK
      [] part = "handoff" -> Handoff!TypeOK
      [] part = "requests" -> Requests!TypeOK

\* runOnce: "active" is only reported of a dataplane that carries what is
\* desired, need_reload is set and cleared when it is true and false, and a poll
\* never gives the dataplane another configuration file.
StatusIsTrue ==
    /\ Reconcile!ActiveMeansAppliedQuietly
    /\ Reconcile!NeedReloadIsTrue
    /\ Reconcile!PollKeepsConfig

\* runOnce, reloadUnlocked: the dataplane follows the running system while the
\* file stays, a lost attachment is put back, and repeated guarded reloads end
\* with a valid, open dataplane, whatever fails in between.  WaitAcquireLifecycle,
\* writeRequestAndWait: an uninstall gets the lease of the service it stopped, and
\* a client that waits is answered or withdraws.
Converges ==
    /\ part = "reconcile" /\ Reconcile!Fairness => Reconcile!RuntimeFollowed /\ Reconcile!Healed
    /\ part = "guard" /\ Fairness => Recovers
    /\ part = "handoff" /\ Handoff!Fairness => Handoff!HandoffCompletes
    /\ part = "requests" /\ Requests!Fairness => Requests!WaitEnds
=============================================================================

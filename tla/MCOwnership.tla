---------------------------- MODULE MCOwnership -----------------------------
(***************************************************************************)
(* Who may change the host and what is kept of it, for TLC: the two        *)
(* dataplane cores under the coordinator of one process; the lifecycle     *)
(* locks between processes; install and uninstall, among the acts of       *)
(* others and beside a daemon that reloads; the exact-TCX transaction with *)
(* two slots and a live network, the same transaction with one slot whose  *)
(* device comes and goes; the classic TC transaction; the files owner      *)
(* records are kept in over several boots, and over boots that move the    *)
(* path to another resource.  Only the one that part names moves.          *)
(***************************************************************************)
EXTENDS ClassicTransaction

CONSTANTS d1, d2, i, u,     \* processes that take the locks
          None

VARIABLES
    part,
    named, open, locked, pc, lock, worker, torn,
    at, dirAt, junk, kept, made, evidence, running, step, command, changed, plan,
    todo, queue, held, rootMoved, outcome, ops, crashes, acts,
    journal, home, entries, word, tables, tails, pin, link, dev, task, fd, retained,
    current, live, phase, lease, released, inner, caller, call, ret, cancelled,
    owner, scope, op, baseline, stale, dying,
    file, boot, key, pins, sent, moved, storeCall

coreVars == <<current, live, phase, lease, released, inner, caller, call, ret, cancelled,
              owner, scope, op, baseline, stale, dying>>

locksVars == <<named, open, locked, pc, lock, worker, torn>>
installVars == <<at, dirAt, junk, kept, made, evidence, running, step, command, changed, plan,
                 todo, queue, held, rootMoved, outcome, ops, crashes, acts>>
classicVars == <<rec, dir, files, filter, clsact, gen, data, bank, job>>
exactVars == <<journal, home, entries, word, tables, tails, pin, link, dev, task, fd, retained>>
recordVars == <<file, boot, key, pins, sent, moved, storeCall>>
allVars == <<part, vars, coreVars, locksVars, installVars, exactVars, recordVars>>

Cores == INSTANCE Coordinator
    WITH Keys <- {"key"}, Runtimes <- {"r1", "r2"}, Tokens <- {"t1", "t2", "t3"},
         Scopes <- {"s1", "s2"}, CallsAfterCancel <- FALSE

\* Everybody who takes the locks, or fewer of them and one replaced file.
Locks == INSTANCE LifecycleLocks
    WITH Service <- {d1}, Daemons <- {d2}, Commands <- {}, Installs <- {i},
         Uninstalls <- {u}, MayFail <- TRUE, MaxInode <- 0

Replaced == INSTANCE LifecycleLocks
    WITH Service <- {d1}, Daemons <- {}, Commands <- {}, Installs <- {i},
         Uninstalls <- {u}, MayFail <- TRUE, MaxInode <- 1

\* Two commands and a crash; an act of somebody else, or reloads and reboots.
Host == INSTANCE Install
    WITH ExistingLimit <- 0, MaxOps <- 2, MaxCrash <- 1, MaxForeign <- 1,
         pc <- step, op <- command, stale <- changed, moved <- rootMoved

Transaction == INSTANCE OwnerTransaction
    WITH MaxLink <- 6, MayLose <- TRUE, rec <- journal, job <- task, dir <- home,
         files <- entries, gen <- word, data <- tables, bank <- tails

Records == INSTANCE OwnerRecords
    WITH Keys <- {1, 2}, MaxBoot <- 4, MaxSeq <- 2, MaxIndexSeq <- 9, MaxHistory <- 2, job <- storeCall

ASSUME InstancesAssumption ==
    /\ Locks!ProcsAssumption /\ Replaced!ProcsAssumption /\ Host!LimitsAssumption
    /\ Transaction!TransactionAssumption /\ ClassicAssumption /\ Records!RecordsAssumption
    /\ Cores!PoolAssumption /\ Cores!ScopeAssumption

InTransaction == part \in {"updates", "losses"}
InInstall == part \in {"install", "daemon"}
InRecords == part \in {"reboots", "moves"}

AllInit ==
    /\ part \in {"cores", "locks", "replaced", "install", "daemon", "updates", "losses", "classic", "reboots", "moves"}
    /\ Init /\ Transaction!Init /\ Cores!Init
    /\ part # "cores" => baseline = {} /\ stale = {}
    /\ IF part = "replaced" THEN Replaced!Init ELSE Locks!Init
    /\ Host!Init
    /\ ~InInstall => evidence = 0 /\ at["binary"] = "none"
    /\ Records!Init /\ key = 1

CoresNext == Cores!Next /\ UNCHANGED <<vars, locksVars, installVars, exactVars, recordVars>>
LocksNext ==
    /\ \/ part = "locks" /\ Locks!Next
       \/ part = "replaced" /\ Replaced!Next
    /\ UNCHANGED <<vars, coreVars, installVars, exactVars, recordVars>>
InstallNext ==
    /\ \/ Host!CommandStep
       \/ part = "install" /\ Host!Others
       \/ part = "daemon" /\ (Host!Reload \/ Host!Reboot)
    /\ UNCHANGED <<vars, coreVars, locksVars, exactVars, recordVars>>
TransactionNext ==
    Transaction!Next /\ UNCHANGED <<classicVars, coreVars, locksVars, installVars, recordVars>>
ClassicNext == Next /\ UNCHANGED <<coreVars, locksVars, installVars, exactVars, recordVars>>
RecordsNext == Records!Next /\ UNCHANGED <<vars, coreVars, locksVars, installVars, exactVars>>

AllNext ==
    /\ UNCHANGED part
    /\ \/ part = "cores" /\ CoresNext
       \/ LocksNext
       \/ InInstall /\ InstallNext
       \/ part = "updates" /\ TransactionNext /\ ~calm' /\ dev' = dev /\ retained' = {}
       \/ part = "losses" /\ TransactionNext /\ ~calm' /\ 2 \in dev' /\ task'.target \subseteq {1}
       \/ part = "classic" /\ ClassicNext /\ ~calm'
       \/ part = "reboots" /\ RecordsNext /\ key' = key
       \/ part = "moves" /\ RecordsNext /\ boot' <= 2
       \/ InInstall /\ step = "idle" /\ ops = 2 /\ UNCHANGED allVars

AllSpec == AllInit /\ [][AllNext]_allVars

-----------------------------------------------------------------------------
\* What the classic transaction promises, whose theorems are proved, is checked
\* under the names ClassicTransaction gives it: Recoverable, PublishedIsWhole and
\* CommitsOnce.

\* Every variable of the instances has its type.
AllTypeOK ==
    CASE part = "cores" -> Cores!TypeOK
      [] part = "locks" -> Locks!TypeOK
      [] part = "replaced" -> Replaced!TypeOK
      [] InInstall -> Host!TypeOK
      [] InTransaction -> Transaction!TypeOK
      [] part = "classic" -> TypeOK
      [] OTHER -> Records!TypeOK

\* AcquireLifecycle, AcquireMaintenance, BeginLifecycleMaintenance: at most one
\* process mutates the host, and nobody starts to under an uninstall.
\* applyExperimental, bindScopeLocked: within a process, baseline and FakeTCP core
\* never share a scope, the scope of what the process owns stays bound, and the
\* baseline core changes only while the FakeTCP one is stopped.
Exclusive ==
    /\ [](part = "locks" => Locks!Exclusive)
    /\ [](part = "replaced" => Replaced!Exclusive)
    /\ [](part = "cores" => Cores!CoresExclusive /\ Cores!ScopeRetained)
    /\ [][part = "locks" => Locks!HandoffClosedStep]_allVars
    /\ [][part = "replaced" => Replaced!HandoffClosedStep]_allVars
    /\ [][part = "cores" => Cores!BaselineAloneStep]_allVars

\* moveToQuarantine, moveRootToQuarantine, restoreCleanupQuarantine: whatever
\* somebody puts at one of the names of the installation, and whenever, neither
\* install nor uninstall destroys or replaces it.
ForeignKept == InInstall => Host!ForeignKept

\* cleanupDirectoryPlan.remove, applyInstall: a command that failed or was killed
\* after it began to change the installation can be run again, and the evidence in
\* the wants directory stays within its limit.
MayRunAgain ==
    /\ [](InInstall => Host!EvidenceBounded)
    /\ [][InInstall => Host!CanGoOnStep]_allVars

\* applyInstall, execute: the manifest is published behind all it names and
\* removed behind it, and the service is enabled behind the manifest.
ManifestInOrder ==
    [][InInstall => Host!ManifestLastStep /\ Host!PublishedLastStep]_allVars

\* stageExactTCXAttachment, rollback, recoverExactPinOwnerTransaction: a slot never
\* has two of the project's links, an attached link is pinned and journaled or this
\* process still holds it; wherever a call stops, recovery accepts the directory
\* and finds the programs it may have to attach; and the published generation has
\* all of its entries and its own tail calls.
LinksAccounted == InTransaction =>
    /\ Transaction!OneLinkPerSlot /\ Transaction!Recoverable
    /\ Transaction!ProgramsStaged /\ Transaction!PublishedIsWhole

\* Apply, Detach: the exact-TCX transaction implements the commit of a generation
\* as well; with both backends an Apply that returns has attached what it was asked
\* to, and a slot whose device stays keeps its link, or its filter, across a commit.
AppliedIsServed ==
    /\ Transaction!Commit!Init
    /\ [](InTransaction => Transaction!ActiveIsAttached)
    /\ [](part = "classic" => AppliedIsAttached)
    /\ [][InTransaction => (Transaction!CommitStep /\ Transaction!HitlessStep)]_allVars
    /\ [][part = "classic" => HitlessStep]_allVars

\* openPinOwnerStoreWithPolicy, Persist, recoverDescriptorTransaction: whatever
\* file operation a crash interrupts, the store opens again, what the read-only
\* inspection calls ready is settled, and no committed record is rolled back.
\* syncIndexRecord, archivePriorBootOwner, rekey: the index names the owner on
\* disk, what an earlier boot left is kept exactly once, and a record taken over
\* goes with the token in the pinned owner map.
RecordsSurvive ==
    /\ [](InRecords =>
            /\ Records!StoreReopens /\ Records!ReadyIsSettled
            /\ Records!IndexNamesOwner /\ Records!EvidenceOnce /\ Records!SentinelMatches)
    /\ [][InRecords => Records!NeverRollsBackStep]_allVars
=============================================================================

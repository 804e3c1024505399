--------------------------- MODULE LifecycleLocks ---------------------------
(***************************************************************************)
(* The two locks every mutation of the host goes through                   *)
(* (internal/lockfile): the maintenance gate and, inside it, the lifecycle *)
(* lease.  Each is an exclusive flock on a file found by name, so a lock   *)
(* counts only while the name still refers to the file that was locked.    *)
(*                                                                         *)
(* A daemon or a command passes through the gate to the lease and leaves   *)
(* the gate at once; install keeps the gate while it works; uninstall      *)
(* keeps it while it stops the service and waits for the daemon's lease.   *)
(* A file that is removed and made again is a new inode of its name.       *)
(***************************************************************************)
EXTENDS Naturals, FiniteSets

CONSTANTS Service,           \* daemons the service manager runs
          Daemons,           \* daemons started by hand
          Commands, Installs, Uninstalls,
          MayFail,           \* whether a wait may reach its limit or a write fail
          MaxInode           \* bound on how often the two files are replaced

Procs == Service \cup Daemons \cup Commands \cup Installs \cup Uninstalls

KindOf == [p \in Procs |-> CASE p \in Service \cup Daemons -> "daemon"
                             [] p \in Commands -> "command"
                             [] p \in Installs -> "install"
                             [] p \in Uninstalls -> "uninstall"]

ProcsAssumption ==
    /\ (Service \cup Daemons) \cap (Commands \cup Installs \cup Uninstalls) = {}
    /\ Commands \cap (Installs \cup Uninstalls) = {} /\ Installs \cap Uninstalls = {}
    /\ MayFail \in BOOLEAN
    /\ MaxInode \in Nat

VARIABLES
    named,    \* the inode each name refers to
    open,     \* the inode each process has open for each lock
    locked,   \* whether that open file holds the flock
    pc,       \* where each process is
    lock,     \* the lock a process at "flock" or "check" is acquiring
    worker,   \* processes whose bounded stop outlived them with a retained lease
    torn      \* a file was replaced while an acquired lock on it was in use

vars == <<named, open, locked, pc, lock, worker, torn>>

Gate == "gate"
Lease == "lease"
Locks == {Gate, Lease}
Inodes == 0 .. MaxInode
Closed == MaxInode + 1

\* The places where a process mutates the host, and those where it has what it
\* waited for.
Working == {"run", "mutate", "install", "clean"}

Init ==
    /\ named = [l \in Locks |-> 0]
    /\ open = [p \in Procs |-> [l \in Locks |-> Closed]]
    /\ locked = [p \in Procs |-> [l \in Locks |-> FALSE]]
    /\ pc = [p \in Procs |-> "idle"]
    /\ lock = [p \in Procs |-> Gate]
    /\ worker = {}
    /\ torn = FALSE

Holds(p, l) == locked[p][l]
Free(p, l) == \A q \in Procs \ {p} : ~(Holds(q, l) /\ open[q][l] = open[p][l])

validateNothing(p, l) == TRUE

\* The opened file is still the one its name refers to.
validate(p, l) == open[p][l] = named[l]

Close(p, ls) ==
    /\ open' = [open EXCEPT ![p] = [l \in Locks |-> IF l \in ls THEN Closed ELSE @[l]]]
    /\ locked' = [locked EXCEPT ![p] = [l \in Locks |-> l \notin ls /\ @[l]]]

Goto(p, at) == pc' = [pc EXCEPT ![p] = at]

Waits(p) == (lock[p] = Gate /\ KindOf[p] \in {"install", "uninstall"})
         \/ (lock[p] = Lease /\ KindOf[p] = "uninstall")

BeginAtLease(p) ==
    /\ pc[p] = "idle"
    /\ p \notin worker
    /\ Goto(p, "open")
    /\ lock' = [lock EXCEPT ![p] = IF KindOf[p] = "command" THEN Lease ELSE Gate]
    /\ UNCHANGED <<named, open, locked, worker, torn>>

\* A process begins with the gate.  A retained lease belongs to a stop that is
\* still running in the same process.
Begin(p) ==
    /\ pc[p] = "idle"
    /\ p \notin worker
    /\ Goto(p, "open")
    /\ lock' = [lock EXCEPT ![p] = Gate]
    /\ UNCHANGED <<named, open, locked, worker, torn>>

openAnchoredLifecycleLock(p) ==
    /\ pc[p] = "open"
    /\ open' = [open EXCEPT ![p][lock[p]] = named[lock[p]]]
    /\ Goto(p, "flock")
    /\ UNCHANGED <<named, locked, lock, worker, torn>>

\* flock(LOCK_EX|LOCK_NB) succeeds.
Flock(p) ==
    /\ pc[p] = "flock"
    /\ Free(p, lock[p])
    /\ locked' = [locked EXCEPT ![p][lock[p]] = TRUE]
    /\ Goto(p, "check")
    /\ UNCHANGED <<named, open, lock, worker, torn>>

\* The lock is held elsewhere: a caller that waits closes the file and tries
\* again from the name, any other gives up.
Busy(p) ==
    /\ pc[p] = "flock"
    /\ ~Free(p, lock[p])
    /\ IF Waits(p) THEN Goto(p, "open") /\ Close(p, {lock[p]})
       ELSE Goto(p, "idle") /\ Close(p, Locks)
    /\ UNCHANGED <<named, lock, worker, torn>>

\* The bounded wait ends, or its context does.
GiveUp(p) ==
    /\ MayFail
    /\ pc[p] \in {"open", "stop"} /\ (pc[p] = "open" => Waits(p))
    /\ Goto(p, "idle")
    /\ Close(p, Locks)
    /\ UNCHANGED <<named, lock, worker, torn>>

\* Where an acquired lock leads.
AfterAcquire(p) ==
    IF lock[p] = Gate THEN (IF KindOf[p] = "uninstall" THEN "stop" ELSE "open")
    ELSE CASE KindOf[p] \in {"daemon", "command"} -> "release"
           [] KindOf[p] = "install" -> "install"
           [] OTHER -> "clean"

Need(p) == IF lock[p] = Gate THEN {Gate} ELSE Locks

\* The lock is validated, the owner recorded, and the lock, with the gate around
\* it, validated again.
Check(p) ==
    /\ pc[p] = "check"
    /\ \A l \in Need(p) : validate(p, l)
    /\ Goto(p, AfterAcquire(p))
    /\ lock' = [lock EXCEPT ![p] = Lease]
    /\ UNCHANGED <<named, open, locked, worker, torn>>

\* A validation fails.  Recording the owner may fail as well, with the same end.
CheckFails(p) ==
    /\ pc[p] = "check"
    /\ \/ MayFail
       \/ \E l \in Need(p) : ~validate(p, l)
    /\ Goto(p, "idle")
    /\ Close(p, Locks)
    /\ UNCHANGED <<named, lock, worker, torn>>

\* AcquireLifecycleAt closes the gate before it returns the lease; a gate that no
\* longer is the named one costs the lease too.
ReleaseGate(p) ==
    /\ pc[p] = "release"
    /\ IF validate(p, Gate)
       THEN Close(p, {Gate}) /\ Goto(p, IF KindOf[p] = "daemon" THEN "run" ELSE "mutate")
       ELSE Close(p, Locks) /\ Goto(p, "idle")
    /\ UNCHANGED <<named, lock, worker, torn>>

ServiceStoppedGateClosed(p) ==
    /\ pc[p] = "stop"
    /\ \A q \in Service : pc[q] = "idle" /\ q \notin worker
    /\ Goto(p, "open")
    /\ Close(p, {Gate})
    /\ UNCHANGED <<named, lock, worker, torn>>

\* uninstall's stop of the service returns once no daemon of the service runs.
ServiceStopped(p) ==
    /\ pc[p] = "stop"
    /\ \A q \in Service : pc[q] = "idle" /\ q \notin worker
    /\ Goto(p, "open")
    /\ UNCHANGED <<named, open, locked, lock, worker, torn>>

\* The work is done or has failed: the lease goes first, then the gate.
Finish(p) ==
    /\ pc[p] \in {"mutate", "install", "clean"}
    /\ Goto(p, "idle")
    /\ Close(p, Locks)
    /\ UNCHANGED <<named, lock, worker, torn>>

\* A daemon ends, its stop finished.
DaemonEnds(p) ==
    /\ pc[p] = "run"
    /\ Goto(p, "idle")
    /\ Close(p, Locks)
    /\ UNCHANGED <<named, lock, worker, torn>>

RetainDropped(p) == UNCHANGED locked /\ open' = [open EXCEPT ![p] = [l \in Locks |-> Closed]]

\* Closing one of two descriptions of the same open file keeps the flock.
Retain(p) == UNCHANGED <<open, locked>>

\* A daemon ends while its bounded stop is still at work on a retained lease.
DaemonLeavesWorker(p) ==
    /\ pc[p] = "run"
    /\ Goto(p, "idle")
    /\ worker' = worker \cup {p}
    /\ Retain(p)
    /\ UNCHANGED <<named, lock, torn>>

WorkerEnds(p) ==
    /\ p \in worker
    /\ worker' = worker \ {p}
    /\ Close(p, Locks)
    /\ UNCHANGED <<named, pc, lock, torn>>

\* A crash closes every file of the process.
Crash(p) ==
    /\ pc[p] # "idle" \/ p \in worker
    /\ Goto(p, "idle")
    /\ worker' = worker \ {p}
    /\ Close(p, Locks)
    /\ UNCHANGED <<named, lock, torn>>

InUse(l) == \E p \in Procs : /\ Holds(p, l) /\ open[p][l] = named[l]
                             /\ (p \in worker \/ lock[p] # l \/ pc[p] \notin {"open", "flock", "check"})

\* Something outside the program removes the file and it is made again.
Replace(l) ==
    /\ named[l] < MaxInode
    /\ named' = [named EXCEPT ![l] = @ + 1]
    /\ torn' = (torn \/ InUse(l))
    /\ UNCHANGED <<open, locked, pc, lock, worker>>

Step(p) ==
    \/ openAnchoredLifecycleLock(p) \/ Flock(p) \/ Busy(p) \/ GiveUp(p) \/ Check(p) \/ CheckFails(p)
    \/ ReleaseGate(p) \/ ServiceStopped(p) \/ Finish(p) \/ WorkerEnds(p)

Next ==
    \/ \E p \in Procs : Begin(p) \/ Step(p) \/ DaemonEnds(p) \/ DaemonLeavesWorker(p) \/ Crash(p)
    \/ \E l \in Locks : Replace(l)

Spec == Init /\ [][Next]_vars

\* A process does not stop half way; a daemon may run for ever.
Fairness == \A p \in Procs : WF_vars(Step(p))

FairSpec == Spec /\ Fairness

-----------------------------------------------------------------------------

\* Every variable keeps its type, and a process at rest holds nothing unless a
\* stop of its outlived it.
TypeOK ==
    /\ named \in [Locks -> Inodes]
    /\ open \in [Procs -> [Locks -> Inodes \cup {Closed}]]
    /\ locked \in [Procs -> [Locks -> BOOLEAN]]
    /\ pc \in [Procs -> {"idle", "open", "flock", "check", "release", "stop"} \cup Working]
    /\ lock \in [Procs -> Locks]
    /\ worker \subseteq Procs
    /\ \A p \in Procs, l \in Locks :
          /\ Holds(p, l) => open[p][l] # Closed
          /\ pc[p] = "idle" /\ p \notin worker => open[p][l] = Closed

Mutators == {p \in Procs : pc[p] \in Working} \cup worker

\* At most one process mutates the host, whatever order the processes open, lock
\* and validate in, also when the file is replaced while one of them is between
\* opening and validating it (acquireAnchoredLifecycleLock), and also while a
\* bounded stop is all that is left of a daemon (Retain).  A file replaced under
\* a lock already in use is beyond what the locks can promise.
Exclusive == ~torn => Cardinality(Mutators) <= 1

Handoff(u) == /\ KindOf[u] = "uninstall" /\ lock[u] = Lease
              /\ pc[u] \in {"stop", "open", "flock", "check", "clean"}

\* "without opening a race for a new daemon" (BeginLifecycleMaintenance): from
\* the moment uninstall has the gate until it is done, no other process starts to
\* mutate the host.
HandoffClosedStep == \A u \in Procs : Handoff(u) /\ ~torn => Mutators' \ {u} \subseteq Mutators
HandoffClosed == [][HandoffClosedStep]_vars

\* An uninstall that has stopped the service gets to clean up, or ends because it
\* crashed: no daemon or command that comes and goes can keep the lease from it
\* (WaitAcquireLifecycle).
HandoffCompletes ==
    \A u \in Procs : Handoff(u) /\ pc[u] # "stop" ~> pc[u] \in {"clean", "idle"}
=============================================================================

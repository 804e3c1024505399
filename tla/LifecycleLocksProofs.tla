------------------------ MODULE LifecycleLocksProofs ------------------------
(***************************************************************************)
(* Proofs about LifecycleLocks, for any set of processes and any number of *)
(* times the two files are replaced.                                       *)
(*                                                                         *)
(* Where a process is says which locks it holds (Owned).  Two processes    *)
(* may hold locks of one name only on different files (Apart), and while   *)
(* no file was replaced under a lock in use, a lock that has been          *)
(* validated is on the file of its name (Row), so only one process has it. *)
(***************************************************************************)
EXTENDS LifecycleLocks, FiniteSetTheorems, TLAPS

Places == {"idle", "open", "flock", "check", "release", "stop"} \cup Working

\* The locks a process holds at its place.
Owned(p) ==
    {l \in Locks :
        \/ pc[p] = "idle" /\ p \in worker /\ l = Lease
        \/ pc[p] \in {"open", "flock"} /\ lock[p] = Lease /\ l = Gate
        \/ pc[p] = "check" /\ (lock[p] = Lease \/ l = Gate)
        \/ pc[p] = "stop" /\ l = Gate
        \/ pc[p] \in {"run", "mutate"} /\ l = Lease
        \/ pc[p] \in {"release", "install", "clean"}}

\* The process is past the validation of the lock.
Acquired(p, l) ==
    Holds(p, l) /\ (p \in worker \/ lock[p] # l \/ pc[p] \notin {"open", "flock", "check"})

LocksType ==
    /\ named \in [Locks -> Inodes]
    /\ open \in [Procs -> [Locks -> Inodes \cup {Closed}]]
    /\ locked \in [Procs -> [Locks -> BOOLEAN]]
    /\ pc \in [Procs -> Places]
    /\ lock \in [Procs -> Locks]
    /\ worker \subseteq Procs
    /\ torn \in BOOLEAN

\* What holds of one process: it holds the locks of its place, on files it has
\* open, has open what it is about to lock and nothing else, and has validated
\* what it went past.
Row(p) ==
    /\ p \in worker => pc[p] = "idle"
    /\ pc[p] \in {"release", "stop"} \cup Working => lock[p] = Lease
    /\ \A l \in Locks : /\ Holds(p, l) <=> l \in Owned(p)
                        /\ open[p][l] # Closed <=> Holds(p, l) \/ (pc[p] = "flock" /\ lock[p] = l)
                        /\ ~torn /\ Acquired(p, l) => open[p][l] = named[l]

\* flock(LOCK_EX): no file is locked by two processes.
Apart ==
    \A p, q \in Procs, l \in Locks :
        p # q /\ Holds(p, l) /\ Holds(q, l) => open[p][l] # open[q][l]

LocksInv == LocksType /\ (\A p \in Procs : Row(p)) /\ Apart

-----------------------------------------------------------------------------
\* What closing some locks of a process leaves.
LEMMA CloseRow ==
    ASSUME LocksType, NEW p \in Procs, NEW ls \in SUBSET Locks, Close(p, ls)
    PROVE  /\ open' \in [Procs -> [Locks -> Inodes \cup {Closed}]]
           /\ locked' \in [Procs -> [Locks -> BOOLEAN]]
           /\ \A q \in Procs \ {p} : open'[q] = open[q] /\ locked'[q] = locked[q]
           /\ \A l \in Locks : /\ open'[p][l] = IF l \in ls THEN Closed ELSE open[p][l]
                               /\ locked'[p][l] = (l \notin ls /\ locked[p][l])
  BY Zenon DEF LocksType, Close

\* A step that moves one process, whose row holds afterwards and which locks no
\* file that another process has locked, keeps the invariant.
LEMMA MovesOne ==
    ASSUME LocksInv, NEW p \in Procs, LocksType', named' = named, torn' = torn,
           \A q \in Procs \ {p} : /\ open'[q] = open[q] /\ locked'[q] = locked[q]
                                  /\ pc'[q] = pc[q] /\ lock'[q] = lock[q]
                                  /\ q \in worker' <=> q \in worker,
           Row(p)',
           \A l \in Locks : Holds(p, l)' =>
               \/ Holds(p, l) /\ open'[p][l] = open[p][l]
               \/ \A q \in Procs \ {p} : ~(Holds(q, l) /\ open[q][l] = open'[p][l])
    PROVE  LocksInv'
<1>1. ASSUME NEW q \in Procs PROVE Row(q)'
  <2>1. CASE q = p
    BY <2>1, Zenon
  <2>2. CASE q # p
    <3>1. Row(q)
      BY Zenon DEF LocksInv
    <3> QED
      BY <2>2, <3>1 DEF Row, Owned, Acquired, Holds
  <2> QED
    BY <2>1, <2>2, Zenon
<1>2. Apart'
  BY DEF LocksInv, Apart, Holds
<1> QED
  BY <1>1, <1>2, Zenon DEF LocksInv

-----------------------------------------------------------------------------
\* What the proofs use of the constants: a closed file has no inode.
LEMMA ClosedIsNoInode ==
    ASSUME ProcsAssumption
    PROVE  Closed \notin Inodes
  BY DEF ProcsAssumption, Closed, Inodes

\* Begin: a process at rest sets out for the gate.
LEMMA BeginKeeps ==
    ASSUME LocksInv, NEW p \in Procs, Begin(p)
    PROVE  LocksInv'
<1>1. LocksType'
  BY Zenon DEF Begin, Goto, LocksInv, LocksType, Places, Locks
<1>2. Row(p)'
  BY DEF Begin, Goto, LocksInv, LocksType, Places, Locks, Row, Owned, Acquired, Holds, Gate,
       Lease, Working
<1> QED
  BY <1>1, <1>2, MovesOne, Zenon DEF Begin, Goto, LocksInv, LocksType, Holds

\* openAnchoredLifecycleLock: the file the name refers to now.
LEMMA OpenKeeps ==
    ASSUME ProcsAssumption, LocksInv, NEW p \in Procs, openAnchoredLifecycleLock(p)
    PROVE  LocksInv'
<1>1. LocksType'
  BY Zenon DEF openAnchoredLifecycleLock, Goto, LocksInv, LocksType, Places
<1>2. Row(p)'
  BY ClosedIsNoInode
     DEF openAnchoredLifecycleLock, Goto, LocksInv, LocksType, Places, Locks, Row, Owned, Acquired, Holds,
         Gate, Lease, Working
<1> QED
  BY <1>1, <1>2, MovesOne DEF openAnchoredLifecycleLock, Goto, LocksInv, LocksType, Holds, Row,
       Owned, Gate, Lease, Locks

\* Flock: the file is locked by nobody else.
LEMMA FlockKeeps ==
    ASSUME LocksInv, NEW p \in Procs, Flock(p)
    PROVE  LocksInv'
<1>1. LocksType'
  BY Zenon DEF Flock, Goto, LocksInv, LocksType, Places
<1>2. Row(p)'
  BY DEF Flock, Goto, LocksInv, LocksType, Places, Locks, Row, Owned, Acquired, Holds,
         Gate, Lease, Working
<1> QED
  BY <1>1, <1>2, MovesOne DEF Flock, Goto, LocksInv, LocksType, Holds, Free

\* A process that closes everything and goes to rest keeps the invariant.
LEMMA RestKeeps ==
    ASSUME LocksInv, NEW p \in Procs, Goto(p, "idle"), Close(p, Locks),
           worker' = worker \ {p}, UNCHANGED <<named, lock, torn>>
    PROVE  LocksInv'
<1>0. /\ open' \in [Procs -> [Locks -> Inodes \cup {Closed}]]
      /\ locked' \in [Procs -> [Locks -> BOOLEAN]]
      /\ \A q \in Procs \ {p} : open'[q] = open[q] /\ locked'[q] = locked[q]
      /\ \A l \in Locks : open'[p][l] = Closed /\ locked'[p][l] = FALSE
  BY CloseRow, Zenon DEF LocksInv
<1>1. LocksType'
  BY <1>0, Zenon DEF Goto, LocksInv, LocksType, Places
<1>2. Row(p)'
  BY <1>0 DEF Goto, LocksInv, LocksType, Places, Locks, Row, Owned, Acquired, Holds, Gate, Lease,
       Working
<1> QED
  BY <1>0, <1>1, <1>2, MovesOne, Zenon DEF Goto, LocksInv, LocksType, Holds

\* A process that is somewhere has no worker.
LEMMA BusyIsNoWorker ==
    ASSUME LocksInv, NEW p \in Procs, pc[p] # "idle"
    PROVE  worker \ {p} = worker
  BY Zenon DEF LocksInv, Row

\* Busy: the caller starts over from the name, or gives up.
LEMMA BusyKeeps ==
    ASSUME LocksInv, NEW p \in Procs, Busy(p)
    PROVE  LocksInv'
<1>1. CASE Waits(p)
  <2>1. /\ lock[p] \in Locks
        /\ Goto(p, "open") /\ Close(p, {lock[p]})
        /\ pc[p] = "flock" /\ UNCHANGED <<named, lock, worker, torn>>
    BY <1>1, Zenon DEF Busy, LocksInv, LocksType
  <2>2. /\ open' \in [Procs -> [Locks -> Inodes \cup {Closed}]]
        /\ locked' \in [Procs -> [Locks -> BOOLEAN]]
        /\ \A q \in Procs \ {p} : open'[q] = open[q] /\ locked'[q] = locked[q]
        /\ \A l \in Locks : /\ open'[p][l] = IF l = lock[p] THEN Closed ELSE open[p][l]
                            /\ locked'[p][l] = (l # lock[p] /\ locked[p][l])
    BY <2>1, CloseRow DEF LocksInv
  <2>3. LocksType'
    BY <2>1, <2>2, Zenon DEF Goto, LocksInv, LocksType, Places
  <2>4. Row(p)'
    BY <2>1, <2>2 DEF Goto, LocksInv, LocksType, Places, Locks, Row, Owned, Acquired, Holds,
         Gate, Lease, Working
  <2> QED
    BY <2>1, <2>2, <2>3, <2>4, MovesOne, Zenon DEF Goto, LocksInv, LocksType, Holds
<1>2. CASE ~Waits(p)
  BY <1>2, BusyIsNoWorker, RestKeeps, Zenon DEF Busy
<1> QED
  BY <1>1, <1>2, Zenon

\* Check: what is acquired has just been validated.
LEMMA CheckKeeps ==
    ASSUME LocksInv, NEW p \in Procs, Check(p)
    PROVE  LocksInv'
<1>0. AfterAcquire(p) \in Places
  BY Zenon DEF AfterAcquire, Places, Working
<1>1. LocksType'
  BY <1>0, Zenon DEF Check, Goto, LocksInv, LocksType, Locks
<1>2. Row(p)'
  <2>1. lock[p] = Gate \/ lock[p] = Lease
    BY Zenon DEF LocksInv, LocksType, Locks
  <2>2. CASE lock[p] = Gate
    <3>1. AfterAcquire(p) \in {"stop", "open"} /\ validate(p, Gate)
      BY <2>2, Zenon DEF AfterAcquire, Check, Need
    <3> QED
      BY <2>2, <3>1 DEF Check, Goto, LocksInv, LocksType, Places, Locks, Row, Owned, Acquired,
           Holds,
                        Gate, Lease, Working, validate
  <2>3. CASE lock[p] = Lease
    <3>1. /\ AfterAcquire(p) \in {"release", "install", "clean"}
          /\ validate(p, Gate) /\ validate(p, Lease)
      BY <2>3, Zenon DEF AfterAcquire, Check, Need, Gate, Lease, Locks
    <3> QED
      BY <2>3, <3>1 DEF Check, Goto, LocksInv, LocksType, Places, Locks, Row, Owned, Acquired,
           Holds,
                        Gate, Lease, Working, validate
  <2> QED
    BY <2>1, <2>2, <2>3, Zenon
<1> QED
  BY <1>1, <1>2, MovesOne, Zenon DEF Check, Goto, LocksInv, LocksType, Holds

\* ReleaseGate: the lease alone is kept, or nothing.
LEMMA ReleaseGateKeeps ==
    ASSUME LocksInv, NEW p \in Procs, ReleaseGate(p)
    PROVE  LocksInv'
<1>1. CASE validate(p, Gate)
  <2> DEFINE at == IF KindOf[p] = "daemon" THEN "run" ELSE "mutate"
  <2>1. /\ Goto(p, at) /\ Close(p, {Gate}) /\ {Gate} \in SUBSET Locks
        /\ pc[p] = "release" /\ UNCHANGED <<named, lock, worker, torn>>
    BY <1>1, Zenon DEF ReleaseGate, Locks
  <2>2. /\ open' \in [Procs -> [Locks -> Inodes \cup {Closed}]]
        /\ locked' \in [Procs -> [Locks -> BOOLEAN]]
        /\ \A q \in Procs \ {p} : open'[q] = open[q] /\ locked'[q] = locked[q]
        /\ \A l \in Locks : /\ open'[p][l] = IF l = Gate THEN Closed ELSE open[p][l]
                            /\ locked'[p][l] = (l # Gate /\ locked[p][l])
    BY <2>1, CloseRow DEF LocksInv
  <2>3. at \in {"run", "mutate"}
    BY Zenon
  <2> HIDE DEF at
  <2>4. LocksType'
    BY <2>1, <2>2, <2>3, Zenon DEF Goto, LocksInv, LocksType, Places, Working
  <2>5. Row(p) /\ pc'[p] \in {"run", "mutate"} /\ lock'[p] = lock[p]
    BY <2>1, <2>3, Zenon DEF Goto, LocksInv, LocksType
  <2>6. p \notin worker' /\ torn' = torn /\ named' = named
    BY <2>1, <2>5, Zenon DEF Row
  <2>7. Row(p)'
    BY <2>1, <2>2, <2>5, <2>6 DEF Locks, Row, Owned, Acquired, Holds, Gate, Lease, Working
  <2> QED
    BY <2>1, <2>2, <2>4, <2>7, MovesOne, Zenon DEF Goto, LocksInv, LocksType, Holds
<1>2. CASE ~validate(p, Gate)
  BY <1>2, BusyIsNoWorker, RestKeeps, Zenon DEF ReleaseGate
<1> QED
  BY <1>1, <1>2, Zenon

\* ServiceStopped: on to the lease, with the gate in hand.
LEMMA ServiceStoppedKeeps ==
    ASSUME LocksInv, NEW p \in Procs, ServiceStopped(p)
    PROVE  LocksInv'
<1>1. LocksType'
  BY Zenon DEF ServiceStopped, Goto, LocksInv, LocksType, Places
<1>2. Row(p)'
  BY DEF ServiceStopped, Goto, LocksInv, LocksType, Places, Locks, Row, Owned, Acquired, Holds,
         Gate, Lease, Working
<1> QED
  BY <1>1, <1>2, MovesOne, Zenon DEF ServiceStopped, Goto, LocksInv, LocksType, Holds

\* DaemonLeavesWorker: the lease stays with the stop that is still at work.
LEMMA LeavesWorkerKeeps ==
    ASSUME LocksInv, NEW p \in Procs, DaemonLeavesWorker(p)
    PROVE  LocksInv'
<1>1. LocksType'
  BY Zenon DEF DaemonLeavesWorker, Retain, Goto, LocksInv, LocksType, Places
<1>2. Row(p)'
  BY DEF DaemonLeavesWorker, Retain, Goto, LocksInv, LocksType, Places, Locks, Row, Owned,
       Acquired, Holds,
         Gate, Lease, Working
<1> QED
  BY <1>1, <1>2, MovesOne, Zenon DEF DaemonLeavesWorker, Retain, Goto, LocksInv, LocksType, Holds

\* WorkerEnds: a process with a worker is at rest.
LEMMA WorkerEndsKeeps ==
    ASSUME LocksInv, NEW p \in Procs, WorkerEnds(p)
    PROVE  LocksInv'
<1>1. Goto(p, "idle")
  BY Zenon DEF WorkerEnds, Goto, LocksInv, LocksType, Row
<1> QED
  BY <1>1, RestKeeps, Zenon DEF WorkerEnds

\* Replace: a file replaced under a lock in use is remembered in torn.
LEMMA ReplaceKeeps ==
    ASSUME ProcsAssumption, LocksInv, NEW l \in Locks, Replace(l)
    PROVE  LocksInv'
<1>1. LocksType'
  BY DEF ProcsAssumption, Replace, LocksInv, LocksType, InUse, Inodes
<1>2. ASSUME NEW p \in Procs PROVE Row(p)'
  <2>1. Row(p)
    BY Zenon DEF LocksInv
  <2>2. ASSUME NEW k \in Locks, ~torn', Acquired(p, k)'
        PROVE  open'[p][k] = named'[k]
    <3>1. ~torn /\ ~InUse(l) /\ Acquired(p, k)
      BY <2>2, Zenon DEF Replace, Acquired, Holds
    <3>2. open[p][k] = named[k]
      BY <2>1, <2>2, <3>1, Zenon DEF Row
    <3>3. k # l
      BY <3>1, <3>2, Zenon DEF InUse, Acquired
    <3> QED
      BY <3>2, <3>3, <2>2, Zenon DEF Replace, LocksInv, LocksType
  <2> QED
    BY <2>1, <2>2 DEF Replace, Row, Owned, Acquired, Holds
<1>3. Apart'
  BY Zenon DEF Replace, LocksInv, Apart, Holds
<1> QED
  BY <1>1, <1>2, <1>3, Zenon DEF LocksInv

\* Every step keeps the invariant.
LEMMA LocksInvNext ==
    ASSUME ProcsAssumption, LocksInv, [Next]_vars
    PROVE  LocksInv'
<1>1. ASSUME NEW p \in Procs, Begin(p) PROVE LocksInv'
  BY <1>1, BeginKeeps, Zenon
<1>2. ASSUME NEW p \in Procs, Step(p) PROVE LocksInv'
  <2>1. CASE openAnchoredLifecycleLock(p)
    BY <2>1, OpenKeeps, Zenon
  <2>2. CASE Flock(p)
    BY <2>2, FlockKeeps, Zenon
  <2>3. CASE Busy(p)
    BY <2>3, BusyKeeps, Zenon
  <2>4. CASE GiveUp(p)
    BY <2>4, BusyIsNoWorker, RestKeeps, Zenon DEF GiveUp
  <2>5. CASE Check(p)
    BY <2>5, CheckKeeps, Zenon
  <2>6. CASE CheckFails(p)
    BY <2>6, BusyIsNoWorker, RestKeeps, Zenon DEF CheckFails
  <2>7. CASE ReleaseGate(p)
    BY <2>7, ReleaseGateKeeps, Zenon
  <2>8. CASE ServiceStopped(p)
    BY <2>8, ServiceStoppedKeeps, Zenon
  <2>9. CASE Finish(p)
    BY <2>9, BusyIsNoWorker, RestKeeps, Zenon DEF Finish
  <2>10. CASE WorkerEnds(p)
    BY <2>10, WorkerEndsKeeps, Zenon
  <2> QED
    BY <1>2, <2>1, <2>2, <2>3, <2>4, <2>5, <2>6, <2>7, <2>8, <2>9, <2>10, Zenon DEF Step
<1>3. ASSUME NEW p \in Procs, DaemonEnds(p) PROVE LocksInv'
  BY <1>3, BusyIsNoWorker, RestKeeps, Zenon DEF DaemonEnds
<1>4. ASSUME NEW p \in Procs, DaemonLeavesWorker(p) PROVE LocksInv'
  BY <1>4, LeavesWorkerKeeps, Zenon
<1>5. ASSUME NEW p \in Procs, Crash(p) PROVE LocksInv'
  BY <1>5, RestKeeps, Zenon DEF Crash
<1>6. ASSUME NEW l \in Locks, Replace(l) PROVE LocksInv'
  BY <1>6, ReplaceKeeps, Zenon
<1>7. CASE UNCHANGED vars
  BY <1>7 DEF vars, LocksInv, LocksType, Row, Owned, Acquired, Holds, Apart
<1> QED
  BY <1>1, <1>2, <1>3, <1>4, <1>5, <1>6, <1>7, Zenon DEF Next

\* At first every process rests with nothing open.
LEMMA LocksInvInit ==
    ASSUME ProcsAssumption
    PROVE  Init => LocksInv
<1> SUFFICES ASSUME Init PROVE LocksInv
  BY Zenon
<1>0. 0 \in Inodes /\ Gate \in Locks
  BY DEF ProcsAssumption, Inodes, Locks
<1>1. LocksType
  BY <1>0, Zenon DEF Init, LocksType, Places
<1>2. \A p \in Procs, l \in Locks : ~Holds(p, l) /\ open[p][l] = Closed
  BY Zenon DEF Init, Holds
<1>3. ASSUME NEW p \in Procs PROVE Row(p)
  BY <1>2, Zenon DEF Init, Row, Owned, Acquired, Working
<1> QED
  BY <1>1, <1>2, <1>3, Zenon DEF LocksInv, Apart

-----------------------------------------------------------------------------
\* The inductive invariant holds in every behaviour: a process holds the locks of
\* its place, on different files, and what it has validated is still the file of
\* its name unless a file was replaced under a lock in use
\* (acquireAnchoredLifecycleLock, Retain).
THEOREM LocksInvariant ==
    ASSUME ProcsAssumption
    PROVE  Spec => []LocksInv
<1>1. LocksInv /\ [Next]_vars => LocksInv'
  BY LocksInvNext, Zenon
<1> QED
  BY <1>1, LocksInvInit, PTL DEF Spec

\* A process that mutates the host has acquired the lease.
LEMMA MutatorHasLease ==
    ASSUME LocksInv, NEW p \in Mutators
    PROVE  p \in Procs /\ Acquired(p, Lease)
  BY Zenon DEF LocksInv, LocksType, Row, Owned, Acquired, Mutators, Working, Lease, Locks, Gate

\* AcquireLifecycle, AcquireMaintenance, Retain: at most one process mutates the
\* host, for any number of daemons, commands, installs and uninstalls, crashes and
\* replaced files, unless a file was replaced under a lock in use.
THEOREM LocksExclusive ==
    ASSUME ProcsAssumption
    PROVE  Spec => []Exclusive
<1>1. ASSUME LocksInv PROVE Exclusive
  <2> SUFFICES ASSUME ~torn PROVE Cardinality(Mutators) <= 1
    BY Zenon DEF Exclusive
  <2>1. ASSUME NEW p \in Mutators, NEW q \in Mutators PROVE p = q
    <3>1. p \in Procs /\ q \in Procs /\ Acquired(p, Lease) /\ Acquired(q, Lease)
      BY <1>1, <2>1, MutatorHasLease, Zenon
    <3>2. open[p][Lease] = named[Lease] /\ open[q][Lease] = named[Lease]
      BY <1>1, <3>1, Zenon DEF LocksInv, Row, Locks
    <3> QED
      BY <1>1, <3>1, <3>2, Zenon DEF LocksInv, Apart, Acquired, Locks
  <2>2. CASE Mutators = {}
    BY <2>2, FS_EmptySet
  <2>3. CASE Mutators # {}
    <3>1. PICK p \in Mutators : TRUE
      BY <2>3, Zenon
    <3>2. Mutators = {p}
      BY <2>1, <3>1, Zenon
    <3>3. Cardinality({p}) = 1
      BY FS_Singleton, Zenon
    <3>4. Cardinality(Mutators) = 1
      BY <3>2, <3>3, Zenon
    <3> QED
      BY <3>4
  <2> QED
    BY <2>2, <2>3, Zenon
<1> QED
  BY <1>1, LocksInvariant, PTL

\* A process that starts to mutate the host has both locks, the gate on the file of
\* its name.
LEMMA StartsUnderGate ==
    ASSUME LocksInv, LocksInv', [Next]_vars, NEW q \in Mutators', q \notin Mutators
    PROVE  q \in Procs /\ Holds(q, Gate) /\ open[q][Gate] = named[Gate]
<1>0. q \in Procs
  BY MutatorHasLease, Zenon DEF LocksInv, LocksType, Mutators
<1>1. ASSUME NEW p \in Procs,
             \/ Begin(p) \/ openAnchoredLifecycleLock(p) \/ Flock(p) \/ Busy(p) \/ GiveUp(p)
             \/ CheckFails(p) \/ ServiceStopped(p) \/ Finish(p) \/ WorkerEnds(p) \/ DaemonEnds(p)
             \/ DaemonLeavesWorker(p) \/ Crash(p)
      PROVE  Mutators' \subseteq Mutators
  BY <1>1 DEF LocksInv, LocksType, Mutators, Working, Begin, openAnchoredLifecycleLock, Flock,
       Busy, GiveUp,
              CheckFails, ServiceStopped, Finish, WorkerEnds, DaemonEnds, DaemonLeavesWorker, Crash, Goto
<1>2. ASSUME NEW p \in Procs, Check(p)
      PROVE  Holds(q, Gate) /\ open[q][Gate] = named[Gate]
  <2>1. q = p /\ AfterAcquire(p) \in Working
    BY <1>2, <1>0, Zenon DEF LocksInv, LocksType, Mutators, Check, Goto
  <2>2. lock[p] = Lease /\ pc[p] = "check"
    BY <1>2, <2>1, Zenon DEF AfterAcquire, LocksInv, LocksType, Locks, Working, Check
  <2> QED
    BY <1>2, <2>1, <2>2, Zenon DEF Check, Need, validate, Locks, Gate, Lease, LocksInv, Row, Owned
<1>3. ASSUME NEW p \in Procs, ReleaseGate(p)
      PROVE  Holds(q, Gate) /\ open[q][Gate] = named[Gate]
  <2>1. q = p /\ validate(p, Gate) /\ pc[p] = "release"
    BY <1>3, <1>0, Zenon DEF LocksInv, LocksType, Mutators, ReleaseGate, Goto, Working
  <2> QED
    BY <2>1, Zenon DEF validate, Locks, Gate, Lease, LocksInv, Row, Owned
<1>4. ASSUME NEW l \in Locks, Replace(l) PROVE Mutators' = Mutators
  BY <1>4, Zenon DEF Replace, Mutators
<1>5. CASE UNCHANGED vars
  BY <1>5, Zenon DEF vars, Mutators
<1> QED
  BY <1>0, <1>1, <1>2, <1>3, <1>4, <1>5, Zenon DEF Next, Step

\* BeginLifecycleMaintenance, WaitAcquireLifecycle: from the moment uninstall has
\* the gate until it is done, no other process starts to mutate the host, however
\* many wait for it.
THEOREM LocksHandoffClosed ==
    ASSUME ProcsAssumption
    PROVE  Spec => HandoffClosed
<1>1. ASSUME LocksInv, LocksInv', [Next]_vars PROVE HandoffClosedStep
  <2> SUFFICES ASSUME NEW u \in Procs, Handoff(u), ~torn,
                      NEW q \in Mutators', q # u, q \notin Mutators
               PROVE  FALSE
    BY Zenon DEF HandoffClosedStep
  <2>1. q \in Procs /\ Holds(q, Gate) /\ open[q][Gate] = named[Gate]
    BY <1>1, StartsUnderGate, Zenon
  <2>2. Acquired(u, Gate)
    BY <1>1, Zenon DEF Handoff, Acquired, LocksInv, Row, Owned, Locks, Gate, Lease
  <2>3. open[u][Gate] = named[Gate]
    BY <1>1, <2>2, Zenon DEF LocksInv, Row, Locks
  <2> QED
    BY <1>1, <2>1, <2>2, <2>3, Zenon DEF LocksInv, Apart, Acquired, Locks
<1>2. LocksInv /\ LocksInv' /\ [Next]_vars => [HandoffClosedStep]_vars
  BY <1>1, Zenon
<1> QED
  BY <1>2, LocksInvariant, PTL DEF Spec, HandoffClosed

\* The declared types hold, and a process at rest holds nothing unless a stop of
\* its outlived it.
THEOREM LocksTypeCorrect ==
    ASSUME ProcsAssumption
    PROVE  Spec => []TypeOK
<1>1. LocksInv => TypeOK
  BY DEF LocksInv, LocksType, Row, Owned, Places, TypeOK, Holds, Locks, Gate, Lease, Working
<1> QED
  BY <1>1, LocksInvariant, PTL
=============================================================================

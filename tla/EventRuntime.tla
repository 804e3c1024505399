---------------------------- MODULE EventRuntime ----------------------------
(***************************************************************************)
(* The FakeTCP event loop and its startup-guard barrier                    *)
(* (internal/faketcp/event_runtime.go, startup_guard_pause.go).            *)
(*                                                                         *)
(* One goroutine runs the loop; callers pause and resume it; others close  *)
(* it, and both a callback inside the loop and the supervisor outside of   *)
(* it may ask it to stop.  Each critical section of the mutex is one       *)
(* action.  A goroutine that waits on the stateChanged channel it read in  *)
(* such a section is in asleep until the channel is closed; it may be      *)
(* cancelled at any time.  A caller uses the lease its last Pause          *)
(* returned, which may have gone stale since.                              *)
(***************************************************************************)
EXTENDS Naturals, FiniteSets

CONSTANTS
    Pausers, Closers,   \* goroutines that call Pause and Resume, and Close
    MaxTokens           \* bound: leases minted

EventRuntimeAssumption == MaxTokens \in Nat \ {0} /\ Pausers \cap Closers = {}

VARIABLES
    guardPhase, guardRevision,
    guardLease, guardReleased,   \* tokens; 0 is none
    minted,                      \* tokens issued so far
    activeWork,
    stopAsked, shutdown, closing, closed,
    reader, controller,          \* "open"/"closing"/"nil" and "open"/"nil"
    run,                         \* where the loop is
    ppc, acquired, acquiredRevision, lease,   \* Pause and Resume, per caller
    kpc,                         \* Close, per caller
    spc,                         \* RequestStop of the supervisor
    awaiting,                    \* goroutines that wait for another one's reader.Close
    asleep                       \* waiters on the current stateChanged channel

guard == <<guardPhase, guardRevision, guardLease, guardReleased, minted>>
flags == <<stopAsked, shutdown, closing, closed>>
owners == <<reader, awaiting, controller>>
pausing == <<ppc, acquired, acquiredRevision, lease>>
vars == <<guard, activeWork, flags, owners, run, pausing, kpc, spc, asleep>>

Loop == "run"   \* the loop among the waiters
Stopper == "stop"

Init ==
    /\ guardPhase = "open" /\ guardRevision = 0
    /\ guardLease = 0 /\ guardReleased = 0 /\ minted = 0
    /\ activeWork = 0
    /\ stopAsked = FALSE /\ shutdown = FALSE /\ closing = FALSE /\ closed = FALSE
    /\ reader = "open" /\ controller = "open"
    /\ run = "new"
    /\ ppc = [p \in Pausers |-> "idle"]
    /\ acquired = [p \in Pausers |-> 0]
    /\ acquiredRevision = [p \in Pausers |-> 0]
    /\ lease = [p \in Pausers |-> 0]
    /\ kpc = [k \in Closers |-> "idle"]
    /\ spc = "idle"
    /\ awaiting = {}
    /\ asleep = {}

stopRequested == stopAsked \/ shutdown \/ closing \/ closed

\* Mutant: the channel is replaced and not closed.
SignalNobody == UNCHANGED asleep

\* signalStateChangedLocked closes the channel and makes a new one.
Signal == asleep' = asleep \ (Pausers \cup {Loop})

\* setStartupGuardPauseStateLocked
SetPhase(phase) ==
    /\ guardPhase' = phase
    /\ guardRevision' = IF guardPhase = phase THEN guardRevision ELSE guardRevision + 1
    /\ Signal

\* invalidateStartupGuardLeasesLocked with the transition to Stopped
Stopped ==
    /\ guardLease' = 0 /\ guardReleased' = 0
    /\ SetPhase("stopped")
    /\ UNCHANGED minted

\* Mutant: a failed close leaves readerClosing set.
ReaderDoneStuck == reader' \in {reader, "nil"} /\ UNCHANGED awaiting

\* reader.Close has returned: a failed one leaves the reader to a later attempt.
ReaderDone == reader' \in {"open", "nil"} /\ awaiting' = {}

\* closeReader of goroutine g goes from place at to place to: one caller closes the
\* reader, those that meet it closing wait for that attempt and return with its
\* result.
ReaderStep(g, at, to) ==
    \/ /\ at = "closeReader" /\ to = "readerIO" /\ reader = "open"
       /\ reader' = "closing" /\ UNCHANGED awaiting
    \/ /\ at = "closeReader" /\ to = "readerWait" /\ reader = "closing"
       /\ awaiting' = awaiting \cup {g} /\ UNCHANGED reader
    \/ at = "closeReader" /\ to = "return" /\ reader = "nil" /\ UNCHANGED <<reader, awaiting>>
    \/ at = "readerIO" /\ to = "return" /\ ReaderDone
    \/ at = "readerWait" /\ to = "return" /\ g \notin awaiting /\ UNCHANGED <<reader, awaiting>>

ReaderPlaces == {"readerIO", "readerWait", "return"}

-----------------------------------------------------------------------------
(* The loop *)

\* finishRun
FinishRun ==
    /\ run' = "done"
    /\ IF guardPhase # "stopped" THEN Stopped ELSE Signal /\ UNCHANGED guard

StartRun ==
    /\ run = "new"
    /\ \/ shutdown /\ run' = "refused" /\ UNCHANGED <<guard, asleep>>
       \/ ~shutdown /\ stopAsked /\ FinishRun
       \/ ~shutdown /\ ~stopAsked /\ run' = "read" /\ UNCHANGED <<guard, asleep>>
    /\ UNCHANGED <<activeWork, flags, owners, pausing, kpc, spc>>

\* Read returns a sample, a deadline, or an error that ends the loop: lost
\* samples, a closed reader, a cancelled context.
Read ==
    /\ run = "read"
    /\ \/ reader # "nil" /\ run' \in {"begin", "check"} /\ UNCHANGED <<guard, asleep>>
       \/ FinishRun
    /\ UNCHANGED <<activeWork, flags, owners, pausing, kpc, spc>>

Admits == guardPhase = "open"

\* beginGuardableWork
BeginWork ==
    /\ run = "begin" \/ (run = "wait" /\ Loop \notin asleep)
    /\ \/ /\ stopRequested \/ guardPhase = "stopped"
          /\ FinishRun /\ UNCHANGED activeWork
       \/ /\ ~stopRequested /\ Admits
          /\ activeWork' = activeWork + 1 /\ run' = "work"
          /\ UNCHANGED <<guard, asleep>>
       \/ /\ ~stopRequested /\ guardPhase # "stopped" /\ ~Admits
          /\ run' = "wait" /\ asleep' = asleep \cup {Loop}
          /\ UNCHANGED <<guard, activeWork>>
    /\ UNCHANGED <<flags, owners, pausing, kpc, spc>>

\* The context of a waiting loop is cancelled.
CancelWork ==
    /\ run = "wait"
    /\ FinishRun
    /\ UNCHANGED <<activeWork, flags, owners, pausing, kpc, spc>>

\* Mutant: the work is never counted off.
FinishWorkForgets ==
    /\ run = "work"
    /\ Signal
    /\ run' \in {"check", "failed"}
    /\ UNCHANGED <<guard, activeWork, flags, owners, pausing, kpc, spc>>

\* HandleSample or Tick returns: finishGuardableWork.
FinishWork ==
    /\ run = "work"
    /\ activeWork' = activeWork - 1
    /\ Signal
    /\ run' \in {"check", "failed"}
    /\ UNCHANGED <<guard, flags, owners, pausing, kpc, spc>>

\* After a pass: stop, tick, or read again; a failed callback ends the loop.
Check ==
    /\ \/ run = "failed" /\ FinishRun
       \/ run = "check" /\ stopRequested /\ FinishRun
       \/ run = "check" /\ ~stopRequested /\ run' \in {"begin", "read"} /\ UNCHANGED <<guard, asleep>>
    /\ UNCHANGED <<activeWork, flags, owners, pausing, kpc, spc>>

\* RequestStop under the mutex.  After a Close it is an error that changes nothing.
AskStop ==
    /\ ~shutdown /\ ~closed
    /\ IF stopAsked THEN UNCHANGED <<guard, stopAsked, asleep>>
                    ELSE stopAsked' = TRUE /\ Stopped

\* RequestStop from a callback, then its closeReader.
RequestStop ==
    /\ run = "work" /\ AskStop
    /\ run' = "closeReader"
    /\ UNCHANGED <<activeWork, shutdown, closing, closed, owners, pausing, kpc, spc>>

CallbackReader ==
    /\ \E to \in ReaderPlaces : ReaderStep(Loop, run, to) /\ run' = IF to = "return" THEN "work" ELSE to
    /\ UNCHANGED <<guard, activeWork, flags, controller, pausing, kpc, asleep, spc>>

-----------------------------------------------------------------------------
(* RequestStop from another goroutine *)

\* requestStop of the supervisor, once per runtime: wherever the loop is, before
\* its first step and at the barrier included.
SupervisorStop ==
    /\ spc = "idle"
    /\ \/ AskStop /\ spc' = "closeReader"
       \/ (shutdown \/ closed) /\ spc' = "done" /\ UNCHANGED <<guard, stopAsked, asleep>>
    /\ UNCHANGED <<activeWork, shutdown, closing, closed, owners, run, pausing, kpc>>

SupervisorReader ==
    /\ \E to \in ReaderPlaces : ReaderStep(Stopper, spc, to) /\ spc' = IF to = "return" THEN "done" ELSE to
    /\ UNCHANGED <<guard, activeWork, flags, controller, run, pausing, kpc, asleep>>

-----------------------------------------------------------------------------
(* Pause *)

ReturnLease(p) ==
    /\ lease' = [lease EXCEPT ![p] = guardLease']
    /\ ppc' = [ppc EXCEPT ![p] = "idle"]
    /\ acquired' = [acquired EXCEPT ![p] = 0]
    /\ acquiredRevision' = [acquiredRevision EXCEPT ![p] = 0]

ReturnError(p) ==
    /\ ppc' = [ppc EXCEPT ![p] = "idle"]
    /\ acquired' = [acquired EXCEPT ![p] = 0]
    /\ acquiredRevision' = [acquiredRevision EXCEPT ![p] = 0]
    /\ UNCHANGED lease

StartPause(p) ==
    /\ ppc[p] = "idle"
    /\ ppc' = [ppc EXCEPT ![p] = "pause"]
    /\ lease' = [lease EXCEPT ![p] = 0]
    /\ UNCHANGED <<guard, activeWork, flags, owners, run, acquired, acquiredRevision, kpc, asleep, spc>>

Sleep(p) ==
    /\ asleep' = asleep \cup {p}
    /\ ppc' = [ppc EXCEPT ![p] = "wait"]

\* Mutant: admitted work is not waited for.
DrainedAtOnce == TRUE

Drained == activeWork = 0

PauseFinds(p) == ppc[p] = "pause" \/ (ppc[p] = "wait" /\ p \notin asleep)

PauseClosed(p) ==
    /\ PauseFinds(p) /\ (stopRequested \/ guardPhase = "stopped")
    /\ ReturnError(p)
    /\ UNCHANGED <<guard, activeWork, flags, owners, run, kpc, asleep, spc>>

PauseHeld(p) ==
    /\ PauseFinds(p) /\ ~stopRequested /\ guardPhase = "held"
    /\ UNCHANGED guard
    /\ ReturnLease(p)
    /\ UNCHANGED <<activeWork, flags, owners, run, kpc, asleep, spc>>

\* Open becomes Draining with a new lease, and Held at once if nothing runs.
PauseOpen(p) ==
    /\ PauseFinds(p) /\ ~stopRequested /\ guardPhase = "open" /\ minted < MaxTokens
    /\ minted' = minted + 1
    /\ guardLease' = minted + 1 /\ guardReleased' = 0
    /\ \/ /\ Drained
          /\ guardPhase' = "held" /\ guardRevision' = guardRevision + 2
          /\ Signal
          /\ ReturnLease(p)
       \/ /\ ~Drained
          /\ guardPhase' = "draining" /\ guardRevision' = guardRevision + 1
          /\ asleep' = {p} \cup (asleep \cap Closers)
          /\ ppc' = [ppc EXCEPT ![p] = "wait"]
          /\ acquired' = [acquired EXCEPT ![p] = minted + 1]
          /\ acquiredRevision' = [acquiredRevision EXCEPT ![p] = guardRevision + 1]
          /\ UNCHANGED lease
    /\ UNCHANGED <<activeWork, flags, owners, run, kpc, spc>>

PauseDraining(p) ==
    /\ PauseFinds(p) /\ ~stopRequested /\ guardPhase = "draining"
    /\ \/ /\ Drained
          /\ SetPhase("held") /\ UNCHANGED <<guardLease, guardReleased, minted>>
          /\ ReturnLease(p)
       \/ /\ ~Drained
          /\ Sleep(p)
          /\ UNCHANGED <<guard, acquired, acquiredRevision, lease>>
    /\ UNCHANGED <<activeWork, flags, owners, run, kpc, spc>>

\* Mutants: the transition is left behind, or undone whatever became of it.
RollsBackNever(p) == FALSE
RollsBackAlways(p) == acquiredRevision[p] # 0

RollsBack(p) ==
    /\ acquiredRevision[p] # 0
    /\ guardPhase = "draining"
    /\ guardRevision = acquiredRevision[p]
    /\ guardLease = acquired[p]

\* The context of a waiting Pause is cancelled: a completed barrier wins, and
\* only the caller that began the transition undoes it.
CancelPause(p) ==
    /\ ppc[p] = "wait"
    /\ \/ /\ RollsBack(p)
          /\ guardLease' = 0 /\ SetPhase("open") /\ UNCHANGED <<guardReleased, minted>>
          /\ ReturnError(p)
       \/ /\ ~RollsBack(p) /\ guardPhase = "held"
          /\ UNCHANGED guard
          /\ ReturnLease(p) /\ asleep' = asleep \ {p}
       \/ /\ ~RollsBack(p) /\ guardPhase # "held"
          /\ ReturnError(p) /\ asleep' = asleep \ {p}
          /\ UNCHANGED guard
    /\ UNCHANGED <<activeWork, flags, owners, run, kpc, spc>>

-----------------------------------------------------------------------------
(* Resume *)

\* Mutant: any lease will do.
MatchesAny(p) == lease[p] # 0

Matches(p) == lease[p] # 0 /\ lease[p] = guardLease

\* ResumeAfterStartupGuard: the held barrier opens for its own lease.  In every
\* other phase nothing changes: releasing the same lease again is a success, a
\* stale one a mismatch, a stopped runtime an error.
Resume(p) ==
    /\ ppc[p] = "idle" /\ lease[p] # 0
    /\ ~stopRequested /\ guardPhase = "held" /\ Matches(p)
    /\ guardPhase' = "open" /\ guardRevision' = guardRevision + 2
    /\ guardReleased' = guardLease /\ guardLease' = 0
    /\ lease' = [lease EXCEPT ![p] = 0]
    /\ Signal
    /\ UNCHANGED <<minted, activeWork, flags, owners, run, ppc, acquired, acquiredRevision, kpc, spc>>

\* The second holder of a released lease releases it again.
ResumeAgain(p) ==
    /\ ppc[p] = "idle" /\ lease[p] # 0
    /\ ~stopRequested /\ guardPhase = "open" /\ guardReleased = lease[p]
    /\ lease' = [lease EXCEPT ![p] = 0]
    /\ UNCHANGED <<guard, activeWork, flags, owners, run, ppc, acquired, acquiredRevision, kpc, asleep, spc>>

-----------------------------------------------------------------------------
(* Close *)

KGoto(k, label) == kpc' = [kpc EXCEPT ![k] = label]

\* The fence: flags, leases and phase.
Fence(k) ==
    /\ kpc[k] = "idle" /\ ~closed /\ ~closing
    /\ shutdown' = TRUE /\ stopAsked' = TRUE /\ closing' = TRUE
    /\ Stopped
    /\ KGoto(k, "closeReader")
    /\ UNCHANGED <<activeWork, closed, owners, run, pausing, spc>>

\* A second Close waits for the first and returns its result.
JoinClose(k) ==
    /\ \/ kpc[k] = "idle" /\ closing /\ KGoto(k, "join") /\ asleep' = asleep \cup {k}
       \/ kpc[k] = "join" /\ k \notin asleep /\ KGoto(k, "idle") /\ UNCHANGED asleep
    /\ UNCHANGED <<guard, activeWork, flags, owners, run, pausing, spc>>

CloseReader(k) ==
    /\ \E to \in ReaderPlaces :
           ReaderStep(k, kpc[k], to) /\ KGoto(k, IF to = "return" THEN "waitRun" ELSE to)
    /\ UNCHANGED <<guard, activeWork, flags, controller, run, pausing, asleep, spc>>

\* Mutant: the controller is closed under the loop.
SkipRun(k) ==
    /\ kpc[k] = "waitRun"
    /\ KGoto(k, "controller")
    /\ UNCHANGED <<guard, activeWork, flags, owners, run, pausing, asleep, spc>>

\* runDone.  A Run that had not started at the fence is not waited for: it will
\* be refused.
WaitRun(k) ==
    /\ kpc[k] = "waitRun" /\ run \in {"new", "refused", "done"}
    /\ KGoto(k, "controller")
    /\ UNCHANGED <<guard, activeWork, flags, owners, run, pausing, asleep, spc>>

\* controller.Close; an owner whose close failed is kept for a later Close.
CloseController(k) ==
    /\ kpc[k] = "controller"
    /\ controller' \in {"nil", controller}
    /\ closed' = (reader = "nil" /\ controller' = "nil")
    /\ closing' = FALSE
    /\ KGoto(k, "idle") /\ asleep' = asleep \ Closers
    /\ UNCHANGED <<guard, activeWork, stopAsked, shutdown, reader, awaiting, run, pausing, spc>>

-----------------------------------------------------------------------------
LoopStep ==
    \/ StartRun \/ Read \/ BeginWork \/ CancelWork \/ FinishWork \/ Check
    \/ RequestStop \/ CallbackReader
PauseStep(p) == PauseClosed(p) \/ PauseHeld(p) \/ PauseOpen(p) \/ PauseDraining(p)
CloseStep(k) == CloseReader(k) \/ WaitRun(k) \/ CloseController(k)

Next ==
    \/ LoopStep \/ SupervisorStop \/ SupervisorReader
    \/ \E p \in Pausers : StartPause(p) \/ PauseStep(p) \/ CancelPause(p) \/ Resume(p) \/ ResumeAgain(p)
    \/ \E k \in Closers : Fence(k) \/ JoinClose(k) \/ CloseStep(k)

Spec == Init /\ [][Next]_vars

\* Goroutines that can run do, callbacks return and system calls end; nothing is
\* assumed of the callers' contexts, of new calls, or of the reader.
Fairness ==
    /\ WF_vars(Read) /\ WF_vars(BeginWork) /\ SF_vars(FinishWork)
    /\ WF_vars(Check) /\ WF_vars(CallbackReader) /\ WF_vars(SupervisorReader)
    /\ \A p \in Pausers : WF_vars(PauseStep(p))
    /\ \A k \in Closers : WF_vars(CloseStep(k)) /\ WF_vars(kpc[k] = "join" /\ JoinClose(k))

FairSpec == Spec /\ Fairness

-----------------------------------------------------------------------------
(* Properties *)

\* Every variable has its type: the guard phase, the leases and the flags that
\* EventRuntime.mu protects, and the position of every caller.
TypeOK ==
    /\ guardPhase \in {"open", "draining", "held", "stopped"}
    /\ guardLease \in 0..minted /\ guardReleased \in 0..minted /\ minted \in 0..MaxTokens
    /\ guardRevision \in 0..(4 * MaxTokens + 1)
    /\ activeWork \in {0, 1}
    /\ {stopAsked, shutdown, closing, closed} \subseteq BOOLEAN
    /\ reader \in {"open", "closing", "nil"} /\ controller \in {"open", "nil"}
    /\ run \in {"new", "refused", "read", "begin", "wait", "work", "check", "failed",
                "closeReader", "readerIO", "readerWait", "done"}
    /\ ppc \in [Pausers -> {"idle", "pause", "wait"}]
    /\ acquired \in [Pausers -> 0..minted] /\ lease \in [Pausers -> 0..minted]
    /\ acquiredRevision \in [Pausers -> 0..guardRevision]
    /\ kpc \in [Closers -> {"idle", "join", "closeReader", "readerIO", "readerWait",
                            "waitRun", "controller"}]
    /\ spc \in {"idle", "closeReader", "readerIO", "readerWait", "done"}
    /\ awaiting \subseteq Closers \cup {Loop, Stopper}
    /\ asleep \subseteq Pausers \cup Closers \cup {Loop}

\* While the barrier is held no callback runs, so nothing is reinjected between
\* the guard and the release (PauseForStartupGuard, beginGuardableWork).
HeldIsQuiet == guardPhase = "held" => run \notin {"work", "closeReader", "readerIO", "readerWait"}

\* A barrier that is held stays held until a caller releases it with the lease
\* Pause returned for it, or the runtime stops: neither a cancelled caller nor
\* one with the lease of an earlier barrier opens it (ResumeAfterStartupGuard,
\* the cancellation branch of PauseForStartupGuard).
LeaseHolds ==
    [][guardPhase = "held" /\ guardPhase' # "held" =>
         \/ guardPhase' = "stopped"
         \/ \E p \in Pausers : lease[p] = guardLease /\ lease'[p] = 0]_vars

\* A barrier that is not open has the newest lease, and while it drains the
\* caller that began the transition is there to complete or to undo it
\* (guardRevision, guardLease).
LeaseOfPhase ==
    /\ guardPhase \in {"open", "stopped"} <=> guardLease = 0
    /\ guardLease # 0 => guardLease = minted
    /\ guardPhase = "draining" => \E p \in Pausers : acquired[p] = guardLease /\ ppc[p] = "wait"

\* The controller is closed only when the loop is outside of it, and stays
\* closed (Close waits for runDone; Run refuses after the fence).
ControllerUnused ==
    (controller = "nil" \/ \E k \in Closers : kpc[k] = "controller") =>
        run \in {"new", "refused", "done"}

\* Stopped is final: no pause, resume or late callback reopens admission.
StoppedIsFinal == [][guardPhase = "stopped" => guardPhase' = "stopped"]_vars

\* A Pause returns, also when the caller that began the transition gave up or the
\* runtime stopped while it waited: no wake-up is lost (signalStateChangedLocked).
PauseEnds == \A p \in Pausers : ppc[p] # "idle" ~> ppc[p] = "idle" \/ minted = MaxTokens

\* A Close and a RequestStop return, also when two run at once and a callback and
\* the supervisor ask for a stop (closeReader).
CloseEnds ==
    /\ \A k \in Closers : kpc[k] # "idle" ~> kpc[k] = "idle"
    /\ spc # "idle" ~> spc = "done"
=============================================================================

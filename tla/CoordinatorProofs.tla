------------------------- MODULE CoordinatorProofs --------------------------
(***************************************************************************)
(* Proofs about Supervisor and about Coordinator on top of it, for any     *)
(* sets of keys, runtimes, lease tokens and scopes.                        *)
(*                                                                         *)
(* The supervisor's promises rest on where the call is that holds          *)
(* operationMu (CallInv) and on what the barrier says about the loop of    *)
(* the current runtime in each of its phases (BarrierInv).  Those of the   *)
(* coordinator rest on which supervisor call an operation has under way    *)
(* (LinkInv), on who may own a runtime (OwnedInv) and on what was checked  *)
(* of the scope before (ScopeInv).                                         *)
(***************************************************************************)
EXTENDS Coordinator, FiniteSetTheorems, TLAPS

SupShape ==
    /\ current \in Entry \cup {None} /\ live \in SUBSET Runtimes
    /\ phase \in {"open", "draining", "held", "resuming"}
    /\ lease \in Tokens \cup {None} /\ released \in Tokens \cup {None}
    /\ caller \in Tokens \cup {None} /\ inner \in Runtimes \cup {None}
    /\ call \in Call \cup {None} /\ ret \in {"ok", "error"} /\ cancelled \in BOOLEAN

\* Where the call is says whether there is a current runtime, and whether its Run
\* has returned.
CallInv ==
    call # None =>
        /\ call.step \in {"wait", "close"} => call.op \in {"ensure", "stop"} /\ current # None
        /\ call.step = "close" => current.done
        /\ call.step \in {"build", "building"} => call.op = "ensure" /\ current = None
        /\ call.step = "building" => call.built \in Runtimes
        /\ call.op = "ensure" => call.key \in Keys
        /\ call.step = "pause" => call.op = "quiesce"
        /\ call.step = "resume" => call.op = "resume"

\* A barrier is only between two phases while its call is; a closed one has
\* paused the loop, an open one has not, and the inner lease is the paused one's.
BarrierInv ==
    /\ phase = "draining" <=> call # None /\ call.step = "pause"
    /\ phase = "resuming" <=> call # None /\ call.step = "resume"
    /\ phase = "open" => lease = None
    /\ phase \in {"held", "resuming"} /\ Running => current.paused
    /\ phase \in {"open", "draining"} /\ Startable => current.started /\ ~current.paused
    /\ current # None /\ current.paused => current.started
    /\ InnerLeaseIsCurrent

SupInv == SupShape /\ OneOwner /\ CallInv /\ BarrierInv

-----------------------------------------------------------------------------
(* The supervisor's steps *)

\* NewStartupGuardLease: there is a token that nobody holds.
LEMMA FreshTokenIsToken ==
    ASSUME lease = None
    PROVE  FreshToken \in Tokens
<1>1. ASSUME Tokens \subseteq {released, caller}
      PROVE  FALSE
  <2>1. IsFiniteSet({released}) /\ Cardinality({released}) = 1
    BY FS_Singleton, Zenon
  <2>2. IsFiniteSet({released} \cup {caller}) /\ Cardinality({released} \cup {caller}) <= 2
    BY <2>1, FS_AddElement
  <2>3. {released} \cup {caller} = {released, caller}
    BY Zenon
  <2>4. Cardinality(Tokens) <= Cardinality({released, caller})
    BY <1>1, <2>2, <2>3, FS_Subset, Zenon
  <2>5. IsFiniteSet(Tokens)
    BY <1>1, <2>2, <2>3, FS_Subset, Zenon
  <2>6. Cardinality(Tokens) \in Nat /\ Cardinality({released, caller}) \in Nat
    BY <2>2, <2>3, <2>5, FS_CardinalityType, Zenon
  <2>7. QED
    BY <2>2, <2>3, <2>4, <2>6, PoolAssumption
<1>2. PICK t \in Tokens : t \notin {lease, released, caller}
  BY <1>1, PoolAssumption, Zenon
<1>3. QED
  BY <1>2, Zenon DEF FreshToken

\* An entry and a call are records, and neither is nil.
LEMMA SomeAreRecords ==
    ASSUME SupShape
    PROVE  /\ current # None => current \in Entry
           /\ call # None => call \in Call
           /\ current \in Entry => current # None
           /\ call \in Call => call # None
  BY PoolAssumption, Zenon DEF SupShape

\* Only the step of a call changes as it goes on.
LEMMA GotoFacts ==
    ASSUME SupShape, call # None,
           NEW step \in {"begin", "wait", "close", "build", "building", "pause", "resume"},
           Goto(step)
    PROVE  /\ call' \in Call /\ call' # None /\ call'.step = step /\ call'.op = call.op
           /\ call'.key = call.key /\ call'.built = call.built /\ ret' = ret
<1>1. call \in Call
  BY SomeAreRecords, Zenon
<1>2. call' \in Call
  BY <1>1, Zenon DEF Goto, Call
<1>3. QED
  BY <1>1, <1>2, PoolAssumption, Zenon DEF Goto, Call

\* requestStop marks the entry stopped, and done when it never ran.
LEMMA StopAndRetireFacts ==
    ASSUME SupShape, call # None, current # None, StopAndRetire
    PROVE  /\ current' \in Entry /\ current' # None /\ current'.id = current.id
           /\ current'.started = current.started /\ current'.paused = current.paused
           /\ current'.stopRequested /\ (current'.done <=> current.done \/ ~current.started)
           /\ call' \in Call /\ call' # None /\ call'.step = "wait" /\ call'.op = call.op
           /\ call'.key = call.key /\ call'.built = call.built
           /\ UNCHANGED <<live, barrier, ret, cancelled>>
<1>1. current \in Entry /\ call \in Call
  BY SomeAreRecords, Zenon
<1> DEFINE over == current.done \/ ~current.started
<1>2. over \in BOOLEAN
  BY <1>1, Zenon DEF Entry
<1>3. current' = [current EXCEPT !.stopRequested = TRUE, !.done = over]
  BY Zenon DEF StopAndRetire, RequestStop
<1> HIDE DEF over
<1>4. current' \in Entry
  BY <1>1, <1>2, <1>3, Zenon DEF Entry
<1>5. /\ current'.id = current.id /\ current'.started = current.started
      /\ current'.paused = current.paused /\ current'.stopRequested /\ current'.done = over
  BY <1>1, <1>3, Zenon DEF Entry
<1>6. current.stopRequested \in BOOLEAN
  BY <1>1, Zenon DEF Entry
<1>7. PICK failed \in BOOLEAN : call' = [call EXCEPT !.step = "wait", !.failed = failed]
  BY <1>6, Zenon DEF StopAndRetire
<1>8. call' \in Call
  BY <1>1, <1>7, Zenon DEF Call
<1>9. call'.step = "wait" /\ call'.op = call.op /\ call'.key = call.key /\ call'.built = call.built
  BY <1>1, <1>7, Zenon DEF Call
<1>10. current' # None /\ call' # None
  BY <1>4, <1>8, PoolAssumption, Zenon
<1>11. current'.done <=> current.done \/ ~current.started
  BY <1>5, Zenon DEF over
<1>12. QED
  BY <1>4, <1>5, <1>8, <1>9, <1>10, <1>11, Zenon DEF StopAndRetire

\* A call that returns where it is neither building nor between two phases.
LEMMA ReturnKeeps ==
    ASSUME SupInv, call # None, call.step \in {"begin", "wait", "close", "build"},
           call' = None, ret' \in {"ok", "error"}, UNCHANGED <<current, live, barrier, cancelled>>
    PROVE  SupInv'
<1> USE DEF SupInv
<1>1. SupShape'
  BY Zenon DEF SupShape, barrier
<1>2. OneOwner'
  BY Zenon DEF OneOwner, At
<1>3. CallInv'
  BY Zenon DEF CallInv
<1>4. BarrierInv'
  BY Zenon DEF BarrierInv, Running, Startable, InnerLeaseIsCurrent, barrier
<1>5. QED
  BY <1>1, <1>2, <1>3, <1>4, Zenon

\* Ensure goes on to build without a current runtime, or to close one that is done.
LEMMA GoesOnKeeps ==
    ASSUME SupInv, call # None, call.op = "ensure", call.step = "begin",
           call' \in Call, call' # None, call'.op = call.op, call'.key = call.key,
           \/ call'.step = "build" /\ current = None
           \/ call'.step = "close" /\ current # None /\ current.done,
           ret' = ret, UNCHANGED <<current, live, barrier, cancelled>>
    PROVE  SupInv'
<1> USE DEF SupInv
<1>1. SupShape'
  BY Zenon DEF SupShape, barrier
<1>2. OneOwner'
  BY Zenon DEF OneOwner, At
<1>3. CallInv'
  BY Zenon DEF CallInv
<1>4. BarrierInv'
  BY Zenon DEF BarrierInv, Running, Startable, InnerLeaseIsCurrent, barrier
<1>5. QED
  BY <1>1, <1>2, <1>3, <1>4, Zenon

\* The invariant only reads the fields of the entry and of the call, so a step that
\* replaces them by others keeps it when the fields do.
LEMMA StopAndRetireKeeps ==
    ASSUME SupInv, call # None, current # None, call.op \in {"ensure", "stop"},
           call.step = "begin", StopAndRetire
    PROVE  SupInv'
<1> USE DEF SupInv
<1>1. /\ current' \in Entry /\ current' # None /\ current'.id = current.id
      /\ current'.started = current.started /\ current'.paused = current.paused
      /\ current'.stopRequested /\ (current'.done <=> current.done \/ ~current.started)
      /\ call' \in Call /\ call' # None /\ call'.step = "wait" /\ call'.op = call.op
      /\ call'.key = call.key /\ call'.built = call.built
      /\ UNCHANGED <<live, barrier, ret, cancelled>>
  BY StopAndRetireFacts, Zenon
<1>2. SupShape'
  BY <1>1, Zenon DEF SupShape, barrier
<1>3. OneOwner'
  BY <1>1, Zenon DEF OneOwner
<1>4. CallInv'
  BY <1>1, Zenon DEF CallInv
<1>5. BarrierInv'
  BY <1>1, Zenon DEF BarrierInv, Running, Startable, InnerLeaseIsCurrent, barrier
<1>6. QED
  BY <1>2, <1>3, <1>4, <1>5, Zenon

\* A Run that returns ends the loop and nothing else.
LEMMA RunReturnsKeeps ==
    ASSUME SupInv, RunReturns
    PROVE  SupInv'
<1> USE DEF SupInv
<1>1. current # None /\ current.started /\ ~current.done
      /\ UNCHANGED <<live, barrier, call, ret, cancelled>>
  BY Zenon DEF RunReturns
<1>2. current \in Entry
  BY <1>1, SomeAreRecords, Zenon
<1>3. PICK failed \in BOOLEAN : current' = [current EXCEPT !.done = TRUE, !.failed = failed]
  BY <1>2, Zenon DEF RunReturns, Entry
<1>4. /\ current' \in Entry /\ current'.id = current.id /\ current'.done
      /\ current'.started = current.started /\ current'.paused = current.paused
  BY <1>2, <1>3, Zenon DEF Entry
<1>5. current' # None
  BY <1>4, PoolAssumption, Zenon
<1>6. SupShape'
  BY <1>1, <1>4, Zenon DEF SupShape, barrier
<1>7. OneOwner'
  BY <1>1, <1>4, <1>5, Zenon DEF OneOwner, At
<1>8. CallInv'
  BY <1>1, <1>4, <1>5, Zenon DEF CallInv
<1>9. BarrierInv'
  BY <1>1, <1>4, <1>5, Zenon DEF BarrierInv, Running, Startable, InnerLeaseIsCurrent, barrier
<1>10. QED
  BY <1>6, <1>7, <1>8, <1>9, Zenon

\* supervisor.Stop asks the runtime to stop and keeps it.
LEMMA StopBeginKeeps ==
    ASSUME SupInv, StopBegin
    PROVE  SupInv'
<1>1. call # None /\ call.op = "stop" /\ call.step = "begin"
  BY Zenon DEF StopBegin, At
<1>2. CASE call' = None /\ ret' \in {"ok", "error"} /\ UNCHANGED <<current, live, barrier, cancelled>>
  BY <1>1, <1>2, ReturnKeeps, Zenon
<1>3. CASE current # None /\ StopAndRetire
  BY <1>1, <1>3, StopAndRetireKeeps, Zenon
<1>4. QED
  BY <1>2, <1>3, Zenon DEF StopBegin, Return

\* A wait ends with the Run or with the context.
LEMMA WaitKeeps ==
    ASSUME SupInv, Wait
    PROVE  SupInv'
<1> USE PoolAssumption DEF SupInv
<1>1. SupShape'
  BY DEF SupShape, CallInv, Entry, Call, Wait, Goto, Return, barrier
<1>2. OneOwner'
  BY Zenon DEF SupShape, OneOwner, CallInv, Entry, Call, At, Wait, Goto, Return, barrier
<1>3. CallInv'
  BY Zenon DEF SupShape, CallInv, Entry, Call, Wait, Goto, Return, barrier
<1>4. BarrierInv'
  BY ZenonT(30) DEF SupShape, CallInv, BarrierInv, Entry, Call, Running, Startable,
       InnerLeaseIsCurrent,
         Wait, Goto, Return, barrier
<1>5. QED
  BY <1>1, <1>2, <1>3, <1>4, Zenon

\* clearCurrent drops the entry with its inner lease.
LEMMA CloseKeeps ==
    ASSUME SupInv, Close
    PROVE  SupInv'
<1> USE PoolAssumption DEF SupInv
<1>1. SupShape'
  BY DEF SupShape, CallInv, Entry, Call, Close, Goto, Return
<1>2. OneOwner'
  BY DEF SupShape, OneOwner, CallInv, Entry, Call, At, Close, Goto, Return
<1>3. CallInv'
  BY DEF SupShape, CallInv, Entry, Call, Close, Goto, Return
<1>4. BarrierInv'
  BY DEF SupShape, CallInv, BarrierInv, Entry, Call, Running, Startable, InnerLeaseIsCurrent,
         Close, Goto, Return
<1>5. QED
  BY <1>1, <1>2, <1>3, <1>4, Zenon

\* Ensure closes an entry whose Run is over and stops one it cannot keep.
LEMMA EnsureBeginKeeps ==
    ASSUME SupInv, EnsureBegin
    PROVE  SupInv'
<1> USE DEF SupInv
<1>1. call # None /\ call.op = "ensure" /\ call.step = "begin"
  BY Zenon DEF EnsureBegin, At
<1>2. CASE call' = None /\ ret' \in {"ok", "error"} /\ UNCHANGED <<current, live, barrier, cancelled>>
  BY <1>1, <1>2, ReturnKeeps, Zenon
<1>3. CASE current # None /\ StopAndRetire
  BY <1>1, <1>3, StopAndRetireKeeps, Zenon
<1>4. CASE current = None /\ Goto("build") /\ UNCHANGED <<current, live, barrier, cancelled>>
  <2>1. /\ call' \in Call /\ call' # None /\ call'.step = "build" /\ call'.op = call.op
        /\ call'.key = call.key /\ ret' = ret
    BY <1>1, <1>4, GotoFacts, Zenon
  <2>2. QED
    BY <1>1, <1>4, <2>1, GoesOnKeeps, Zenon
<1>5. CASE /\ current # None /\ current.done
           /\ Goto("close") /\ UNCHANGED <<current, live, barrier, cancelled>>
  <2>1. /\ call' \in Call /\ call' # None /\ call'.step = "close" /\ call'.op = call.op
        /\ call'.key = call.key /\ ret' = ret
    BY <1>1, <1>5, GotoFacts, Zenon
  <2>2. QED
    BY <1>1, <1>5, <2>1, GoesOnKeeps, Zenon
<1>6. QED
  BY <1>1, <1>2, <1>3, <1>4, <1>5, Zenon DEF EnsureBegin, Return

\* Ensure builds only without a current runtime.
LEMMA StartBuildKeeps ==
    ASSUME SupInv, StartBuild
    PROVE  SupInv'
<1> USE DEF SupInv
<1>1. /\ call # None /\ call.op = "ensure" /\ call.step = "build" /\ call.key \in Keys
      /\ current = None /\ UNCHANGED <<current, barrier, cancelled>>
  BY Zenon DEF StartBuild, At, CallInv
<1>2. CASE cancelled /\ Return("error") /\ UNCHANGED live
  BY <1>1, <1>2, ReturnKeeps, Zenon DEF Return
<1>3. CASE ~cancelled /\ ~(Return("error") /\ UNCHANGED live)
  <2>1. PICK r \in Runtimes \ live :
          /\ live' = live \cup {r} /\ ret' = ret
          /\ call' = [call EXCEPT !.step = "building", !.built = r]
    BY <1>3, Zenon DEF StartBuild
  <2>2. call \in Call
    BY <1>1, SomeAreRecords, Zenon
  <2>3. /\ call' \in Call /\ call'.op = "ensure" /\ call'.step = "building" /\ call'.built = r
        /\ call'.key \in Keys
    BY <1>1, <2>1, <2>2, Zenon DEF Call
  <2>4. call' # None
    BY <2>3, PoolAssumption, Zenon
  <2>5. live = {}
    BY <1>1, Zenon DEF OneOwner, At
  <2>6. SupShape'
    BY <1>1, <2>1, <2>3, Zenon DEF SupShape, barrier
  <2>7. OneOwner'
    BY <1>1, <2>1, <2>3, <2>4, <2>5, Zenon DEF OneOwner, At
  <2>8. CallInv'
    BY <1>1, <2>3, Zenon DEF CallInv
  <2>9. BarrierInv'
    BY <1>1, <2>3, <2>4, Zenon DEF BarrierInv, Running, Startable, InnerLeaseIsCurrent, barrier
  <2>10. QED
    BY <2>6, <2>7, <2>8, <2>9, Zenon
<1>4. QED
  BY <1>2, <1>3, Zenon DEF StartBuild

\* What was built for nothing is closed, or kept as a stopped owner.
LEMMA BuildAbandonedKeeps ==
    ASSUME SupInv, BuildAbandoned
    PROVE  SupInv'
<1> USE PoolAssumption DEF SupInv
<1>1. SupShape'
  BY ZenonT(30) DEF SupShape, CallInv, Entry, Call, BuildAbandoned, Built, Return, barrier, At
<1>2. OneOwner'
  <2>1. call # None /\ call.op = "ensure" /\ call.step = "building" /\ current = None /\ call' = None
    BY Zenon DEF BuildAbandoned, At, CallInv, Return
  <2>2. live = {call.built}
    BY <2>1, Zenon DEF OneOwner, At
  <2>3. CASE live' = live \ {call.built} /\ UNCHANGED current
    BY <2>1, <2>2, <2>3, Zenon DEF OneOwner, At
  <2>4. CASE current' = [Built EXCEPT !.done = TRUE, !.stopRequested = TRUE] /\ UNCHANGED live
    <3>1. current'.id = call.built
      BY <2>4, Zenon DEF Built
    <3>2. current' \in Entry
      BY <2>1, <2>4, Zenon DEF Built, Entry, CallInv
    <3>3. current' # None
      BY <3>2, PoolAssumption, Zenon
    <3>4. QED
      BY <2>1, <2>2, <2>4, <3>1, <3>3, Zenon DEF OneOwner, At
  <2>5. QED
    BY <2>3, <2>4, Zenon DEF BuildAbandoned
<1>3. CallInv'
  BY Zenon DEF SupShape, CallInv, Entry, Call, BuildAbandoned, Built, Return, barrier, At
<1>4. BarrierInv'
  BY Zenon DEF SupShape, CallInv, BarrierInv, Entry, Call, Running, Startable, InnerLeaseIsCurrent,
         BuildAbandoned, Built, Return, barrier, At
<1>5. QED
  BY <1>1, <1>2, <1>3, <1>4, Zenon

\* A replacement starts only behind an open barrier.
LEMMA BuildStoredKeeps ==
    ASSUME SupInv, BuildStored
    PROVE  SupInv'
<1> USE PoolAssumption DEF SupInv
<1>1. SupShape'
  BY Zenon DEF SupShape, CallInv, Entry, Call, BuildStored, Built, BarrierHeld, Return, barrier, At
<1>2. OneOwner'
  BY ZenonT(30) DEF SupShape, OneOwner, CallInv, Entry, Call, At, BuildStored, Built,
       BarrierHeld, Return,
         barrier
<1>3. CallInv'
  BY Zenon DEF SupShape, CallInv, Entry, Call, BuildStored, Built, BarrierHeld, Return, barrier, At
<1>4. BarrierInv'
  BY Zenon DEF SupShape, CallInv, BarrierInv, Entry, Call, Running, Startable, InnerLeaseIsCurrent,
         BuildStored, Built, BarrierHeld, Return, barrier, At
<1>5. QED
  BY <1>1, <1>2, <1>3, <1>4, Zenon

\* Quiesce takes an open barrier with a fresh token.
LEMMA QuiesceBeginKeeps ==
    ASSUME SupInv, QuiesceBegin
    PROVE  SupInv'
<1> USE PoolAssumption DEF SupInv
<1>1. SupShape'
  <2>1. call # None
    BY Zenon DEF QuiesceBegin, At
  <2>2. CASE call' = None /\ ret' \in {"ok", "error"} /\ caller' \in {lease, caller}
             /\ UNCHANGED <<current, live, cancelled, phase, lease, released, inner>>
    BY <2>2, Zenon DEF SupShape
  <2>3. CASE /\ phase = "open" /\ phase' = "draining" /\ lease' = FreshToken /\ released' = None
             /\ inner' = None /\ Goto("pause") /\ UNCHANGED <<caller, current, live, cancelled>>
    <3>1. FreshToken \in Tokens
      BY <2>3, FreshTokenIsToken, Zenon DEF BarrierInv
    <3>2. call' \in Call /\ ret' = ret
      BY <2>1, <2>3, GotoFacts, Zenon
    <3>3. QED
      BY <2>3, <3>1, <3>2, Zenon DEF SupShape
  <2>4. QED
    BY <2>2, <2>3, Zenon DEF QuiesceBegin, Return, barrier
<1>2. OneOwner'
  BY FreshTokenIsToken, Zenon
     DEF SupShape, OneOwner, CallInv, Entry, Call, At, QuiesceBegin, Goto, Return, barrier
<1>3. CallInv'
  BY FreshTokenIsToken, Zenon DEF SupShape, CallInv, Entry, Call, QuiesceBegin, Goto, Return,
       barrier, At
<1>4. BarrierInv'
  BY FreshTokenIsToken
     DEF SupShape, CallInv, BarrierInv, Entry, Call, Running, Startable, InnerLeaseIsCurrent,
         QuiesceBegin, Goto, Return, barrier, At
<1>5. QED
  BY <1>1, <1>2, <1>3, <1>4, Zenon

\* The barrier is held once the loop is paused, or there is none.
LEMMA PauseKeeps ==
    ASSUME SupInv, Pause
    PROVE  SupInv'
<1> USE DEF SupInv
<1>1. /\ call # None /\ call.op = "quiesce" /\ call.step = "pause" /\ phase = "draining"
      /\ UNCHANGED <<live, released, cancelled>> /\ call' = None /\ ret' \in {"ok", "error"}
  BY Zenon DEF Pause, Return, At, BarrierInv
<1>2. CASE ~Running /\ phase' = "held" /\ caller' = lease /\ UNCHANGED <<current, lease, inner>>
  <2>1. SupShape'
    BY <1>1, <1>2, Zenon DEF SupShape
  <2>2. OneOwner' /\ CallInv'
    BY <1>1, <1>2, Zenon DEF OneOwner, CallInv, At
  <2>3. BarrierInv'
    BY <1>1, <1>2, Zenon DEF BarrierInv, Running, Startable, InnerLeaseIsCurrent
  <2>4. QED
    BY <2>1, <2>2, <2>3, Zenon
<1>3. CASE /\ Running /\ phase' = "held" /\ current' = [current EXCEPT !.paused = TRUE]
           /\ UNCHANGED lease
           /\ \/ inner' = current.id /\ caller' = lease
              \/ UNCHANGED <<inner, caller>>
  <2>1. current \in Entry
    BY <1>3, SomeAreRecords, Zenon DEF Running
  <2>2. /\ current' \in Entry /\ current'.id = current.id /\ current'.paused
        /\ current'.started = current.started /\ current'.done = current.done
        /\ current.id \in Runtimes
    BY <1>3, <2>1, Zenon DEF Entry
  <2>3. current' # None
    BY <2>2, PoolAssumption, Zenon
  <2>4. SupShape'
    BY <1>1, <1>3, <2>2, Zenon DEF SupShape
  <2>5. OneOwner' /\ CallInv'
    BY <1>1, <1>3, <2>2, <2>3, Zenon DEF OneOwner, CallInv, At, Running
  <2>6. BarrierInv'
    BY <1>1, <1>3, <2>2, <2>3, Zenon DEF BarrierInv, Running, Startable, InnerLeaseIsCurrent
  <2>7. QED
    BY <2>4, <2>5, <2>6, Zenon
<1>4. CASE Running /\ phase' = "open" /\ lease' = None /\ UNCHANGED <<current, inner, caller>>
  <2>1. SupShape'
    BY <1>1, <1>4, Zenon DEF SupShape
  <2>2. OneOwner' /\ CallInv'
    BY <1>1, <1>4, Zenon DEF OneOwner, CallInv, At
  <2>3. BarrierInv'
    BY <1>1, <1>4, Zenon DEF BarrierInv, Running, Startable, InnerLeaseIsCurrent
  <2>4. QED
    BY <2>1, <2>2, <2>3, Zenon
<1>5. QED
  BY <1>2, <1>3, <1>4, Zenon DEF Pause

\* Resume needs the lease of the barrier.
LEMMA ResumeBeginKeeps ==
    ASSUME SupInv, ResumeBegin
    PROVE  SupInv'
<1> USE PoolAssumption DEF SupInv
<1>1. SupShape'
  BY DEF SupShape, CallInv, Entry, Call, ResumeBegin, Goto, Return, At
<1>2. OneOwner'
  BY Zenon DEF SupShape, OneOwner, CallInv, Entry, Call, At, ResumeBegin, Goto, Return, At
<1>3. CallInv'
  BY Zenon DEF SupShape, CallInv, Entry, Call, ResumeBegin, Goto, Return, At
<1>4. BarrierInv'
  BY DEF SupShape, CallInv, BarrierInv, Entry, Call, Running, Startable, InnerLeaseIsCurrent,
         ResumeBegin, Goto, Return, At
<1>5. QED
  BY <1>1, <1>2, <1>3, <1>4, Zenon

\* A barrier opens when its runtime goes on or starts.
LEMMA ResumeKeeps ==
    ASSUME SupInv, Resume
    PROVE  SupInv'
<1> USE DEF SupInv
<1>1. /\ call # None /\ call.op = "resume" /\ call.step = "resume" /\ phase = "resuming"
      /\ UNCHANGED <<live, caller, cancelled>> /\ call' = None /\ ret' \in {"ok", "error"}
  BY Zenon DEF Resume, ReleaseBarrier, KeepBarrier, Return, At, BarrierInv
<1>2. CASE current = None /\ ReleaseBarrier /\ UNCHANGED current
  <2>1. SupShape'
    BY <1>1, <1>2, Zenon DEF SupShape, ReleaseBarrier
  <2>2. OneOwner' /\ CallInv'
    BY <1>1, <1>2, Zenon DEF OneOwner, CallInv, At
  <2>3. BarrierInv'
    BY <1>1, <1>2, Zenon DEF BarrierInv, Running, Startable, InnerLeaseIsCurrent, ReleaseBarrier
  <2>4. QED
    BY <2>1, <2>2, <2>3, Zenon
<1>3. CASE current # None /\ KeepBarrier
  <2>1. SupShape'
    BY <1>1, <1>3, Zenon DEF SupShape, KeepBarrier
  <2>2. OneOwner' /\ CallInv'
    BY <1>1, <1>3, Zenon DEF OneOwner, CallInv, At, KeepBarrier
  <2>3. BarrierInv'
    BY <1>1, <1>3, Zenon DEF BarrierInv, Running, Startable, InnerLeaseIsCurrent, KeepBarrier
  <2>4. QED
    BY <2>1, <2>2, <2>3, Zenon
<1>4. CASE /\ Startable /\ ReleaseBarrier
           /\ \/ ~current.started /\ current' = [current EXCEPT !.started = TRUE]
              \/ current.started /\ current' = [current EXCEPT !.paused = FALSE]
  <2>1. current \in Entry
    BY <1>4, SomeAreRecords, Zenon DEF Startable
  <2>2. ~current.started => ~current.paused
    BY <1>4, Zenon DEF BarrierInv, Startable
  <2>3. current' \in Entry /\ current'.id = current.id /\ current'.done = current.done
    BY <1>4, <2>1, Zenon DEF Entry
  <2>4. current'.started /\ ~current'.paused
    BY <1>4, <2>1, <2>2, Zenon DEF Entry
  <2>5. current' # None
    BY <2>3, PoolAssumption, Zenon
  <2>6. SupShape'
    BY <1>1, <1>4, <2>3, Zenon DEF SupShape, ReleaseBarrier
  <2>7. OneOwner' /\ CallInv'
    BY <1>1, <1>4, <2>3, <2>5, Zenon DEF OneOwner, CallInv, At, Startable
  <2>8. BarrierInv'
    BY <1>1, <1>4, <2>3, <2>4, <2>5, Zenon
       DEF BarrierInv, Running, Startable, InnerLeaseIsCurrent, ReleaseBarrier
  <2>9. QED
    BY <2>6, <2>7, <2>8, Zenon
<1>5. QED
  BY <1>2, <1>3, <1>4, Zenon DEF Resume

-----------------------------------------------------------------------------
(* The supervisor for ever *)

\* A new call starts from its beginning.
LEMMA BeginFacts ==
    ASSUME NEW o \in {"ensure", "stop", "quiesce", "resume"}, NEW k \in Keys \cup {None}, Begin(o, k)
    PROVE  call' \in Call /\ call' # None /\ call'.op = o /\ call'.step = "begin" /\ call'.key = k
<1>1. call' \in Call /\ call'.op = o /\ call'.step = "begin" /\ call'.key = k
  BY Zenon DEF Begin, Call
<1>2. QED
  BY <1>1, PoolAssumption, Zenon

\* A call begins with nothing changed.
LEMMA BeginKeeps ==
    ASSUME SupInv, call = None, call' \in Call, call' # None, call'.step = "begin",
           call'.op = "ensure" => call'.key \in Keys, cancelled' \in BOOLEAN,
           UNCHANGED <<current, live, barrier, ret>>
    PROVE  SupInv'
<1> USE DEF SupInv
<1>1. SupShape'
  BY Zenon DEF SupShape, barrier
<1>2. OneOwner'
  BY Zenon DEF OneOwner, At
<1>3. CallInv'
  BY Zenon DEF CallInv
<1>4. BarrierInv'
  BY Zenon DEF BarrierInv, Running, Startable, InnerLeaseIsCurrent, barrier
<1>5. QED
  BY <1>1, <1>2, <1>3, <1>4, Zenon

\* The context is not read by the invariant.
LEMMA ContextKeeps ==
    ASSUME SupInv, cancelled' \in BOOLEAN, UNCHANGED <<current, live, barrier, call, ret>>
    PROVE  SupInv'
  BY DEF SupInv, SupShape, OneOwner, At, CallInv, BarrierInv, Running, Startable,
         InnerLeaseIsCurrent, barrier

\* Every step of a call keeps the invariant.
LEMMA CallStepKeeps ==
    ASSUME SupInv, CallStep
    PROVE  SupInv'
  BY StopBeginKeeps, WaitKeeps, CloseKeeps, EnsureBeginKeeps, StartBuildKeeps, BuildAbandonedKeeps,
     BuildStoredKeeps, QuiesceBeginKeeps, PauseKeeps, ResumeBeginKeeps, ResumeKeeps, Zenon DEF CallStep

\* A new supervisor owns nothing.
LEMMA SupInitKeeps ==
    ASSUME SupInit
    PROVE  SupInv
  BY Zenon DEF SupInit, SupInv, SupShape, OneOwner, At, CallInv, BarrierInv, Running, Startable,
         InnerLeaseIsCurrent

\* Whoever calls, the invariant is kept.
LEMMA SupStep ==
    ASSUME SupInv, [SupNext]_supVars
    PROVE  SupInv'
<1>1. CASE Enter
  <2>1. PICK o \in {"ensure", "stop", "quiesce", "resume"}, k \in Keys \cup {None} :
          Begin(o, k) /\ (o = "ensure" => k \in Keys)
    BY <1>1, Zenon DEF Enter
  <2>2. call' \in Call /\ call' # None /\ call'.op = o /\ call'.step = "begin" /\ call'.key = k
    BY <2>1, BeginFacts, Zenon
  <2>3. QED
    BY <1>1, <2>1, <2>2, BeginKeeps, Zenon DEF Enter
<1>2. CASE Cancel
  BY <1>2, ContextKeeps, Zenon DEF Cancel
<1>3. CASE RunReturns
  BY <1>3, RunReturnsKeeps, Zenon
<1>4. CASE CallStep
  BY <1>4, CallStepKeeps, Zenon
<1>5. CASE UNCHANGED supVars
  BY <1>5, ContextKeeps, Zenon DEF supVars, SupInv, SupShape
<1>6. QED
  BY <1>1, <1>2, <1>3, <1>4, <1>5, Zenon DEF SupNext

\* A runtime is only given up after its Run, or before it was anyone's.
LEMMA GivenUpAfterRun ==
    ASSUME SupInv, SupNext
    PROVE  \A r \in live \ live' : current = None \/ current.id # r \/ ~Running
<1> USE DEF SupInv
<1>1. CASE Enter \/ Cancel \/ RunReturns \/ Wait \/ StopBegin \/ EnsureBegin
  BY <1>1, Zenon DEF Enter, Cancel, RunReturns, Wait, StopBegin, EnsureBegin, StopAndRetire
<1>2. CASE BuildStored \/ QuiesceBegin \/ Pause \/ ResumeBegin \/ Resume
  BY <1>2, Zenon DEF BuildStored, QuiesceBegin, Pause, ResumeBegin, Resume
<1>3. CASE StartBuild
  BY <1>3, Zenon DEF StartBuild
<1>4. CASE Close
  BY <1>4, Zenon DEF Close, CallInv, Running
<1>5. CASE BuildAbandoned
  BY <1>5, Zenon DEF BuildAbandoned, At, CallInv
<1>6. QED
  BY <1>1, <1>2, <1>3, <1>4, <1>5, Zenon DEF SupNext, CallStep

\* ensure, stopCurrent, QuiesceForStartupGuard, ResumeAfterStartupGuard: the
\* inductive invariant of the supervisor holds in every reachable state.
THEOREM SupervisorInvariant == SupSpec => []SupInv
<1>1. SupInit => SupInv
  BY SupInitKeeps, Zenon
<1>2. SupInv /\ [SupNext]_supVars => SupInv'
  BY SupStep, Zenon
<1>3. QED
  BY <1>1, <1>2, PTL DEF SupSpec

\* Every variable of the supervisor has its type.
THEOREM SupervisorTypeCorrect == SupSpec => []SupTypeOK
<1>1. SupInv => SupTypeOK
  BY Zenon DEF SupInv, SupShape, SupTypeOK
<1>2. QED
  BY <1>1, SupervisorInvariant, PTL

\* "collection, TC, XDP, and quota ownership must never be split between two
\* runtimes": with any keys, runtimes and lease tokens there is one owner at a time
\* and none is closed under its Run; a held barrier keeps the loop quiet, and an open
\* one leaves no live loop paused and no inner lease over.
THEOREM SupervisorAlwaysHolds == SupSpec => SupervisorHolds
<1> DEFINE Holds == OneOwner /\ HeldIsQuiet /\ InnerLeaseIsCurrent /\ OpenIsRunning
<1> DEFINE Kept == \A r \in live \ live' : current = None \/ current.id # r \/ ~Running
<1>1. SupInv => Holds
  BY Zenon DEF SupInv, BarrierInv, HeldIsQuiet, OpenIsRunning
<1>2. SupInv /\ [SupNext]_supVars => [Kept]_supVars
  BY GivenUpAfterRun, Zenon
<1> HIDE DEF Holds, Kept
<1>3. SupSpec => []Holds /\ [][Kept]_supVars
  BY <1>1, <1>2, SupervisorInvariant, PTL DEF SupSpec
<1>4. QED
  BY <1>3, Zenon DEF Holds, Kept, SupervisorHolds, NoCloseUnderRun
-----------------------------------------------------------------------------
(* The coordinator *)

\* The types, what each kind of operation may be doing, and which supervisor call it
\* has under way.
LinkInv ==
    /\ owner \in {"unknown", "none", "baseline", "experimental"}
    /\ scope \in Scopes \cup {None} /\ op \in Op \cup {None}
    /\ baseline \in SUBSET Scopes /\ stale \in SUBSET Scopes /\ dying \in BOOLEAN
    /\ op # None =>
         /\ op.kind = "guard" <=> op.step = "guarding"
         /\ op.kind # "guard" => op.scope \in Scopes
         /\ op.kind = "experimental" => op.key \in Keys /\ op.step # "stopping"
         /\ op.step \in {"ensure", "ensuring"} => op.kind = "experimental"
    /\ call # None =>
         /\ op # None
         /\ \/ op.step = "stopping" /\ call.op = "stop"
            \/ op.step = "ensuring" /\ call.op = "ensure"
            \/ op.step = "guarding" /\ call.op \in {"quiesce", "resume"}

\* Who may own a runtime: a coordinator that says so, an operation that is stopping or
\* ensuring it, or a daemon that can do nothing but detach any more.
OwnedInv ==
    /\ cancelled => dying
    /\ dying /\ ~cancelled /\ op # None => op.kind = "detach"
    /\ In("stopping") /\ call = None /\ ret = "ok" => current = None
    /\ op # None /\ op.step \in {"recover", "mutate"} => current = None
    /\ current # None =>
         \/ owner = "experimental" \/ dying
         \/ op # None /\ op.step \in {"stopping", "ensure", "ensuring"}

\* What was bound, detached and recovered before.
ScopeInv ==
    /\ live # {} \/ owner \in {"baseline", "experimental"} => scope # None
    /\ op # None /\ op.step \in {"stopping", "recover", "mutate", "ensure", "ensuring"}
         => scope = op.scope
    /\ \/ live # {}
       \/ op # None /\ op.step \in {"ensure", "ensuring"}
       \/ owner = "experimental" /\ ~dying
       \/ In("stopping") /\ call = None /\ ret = "error" /\ ~dying
       => scope \notin baseline
    /\ In("mutate") => scope \notin stale

CoordInv == SupInv /\ LinkInv /\ OwnedInv /\ ScopeInv
\* How a call of the supervisor may go on: it stays the same call; a Stop that
\* succeeds leaves no runtime, and one that fails had one or was cancelled.
LEMMA CallStepKinds ==
    ASSUME SupInv, CallStep
    PROVE  /\ call # None /\ cancelled' = cancelled
           /\ call' # None => call'.op = call.op
           /\ call.op = "stop" =>
                /\ current = None => current' = None
                /\ call' = None /\ ret' = "ok" => current' = None
                /\ call' = None /\ ret' = "error" => cancelled \/ current # None
           /\ call.op \in {"quiesce", "resume"} => (current' = None <=> current = None)
<1> USE DEF SupInv
<1>1. CASE StopBegin
  <2>1. call # None /\ call.op = "stop"
    BY <1>1, Zenon DEF StopBegin, At
  <2>2. CASE StopAndRetire /\ current # None
    BY <2>1, <2>2, StopAndRetireFacts, Zenon
  <2>3. QED
    BY <1>1, <2>1, <2>2, Zenon DEF StopBegin, Return
<1>2. CASE Wait
  <2>1. /\ call # None /\ current # None
        /\ call.op \in {"ensure", "stop"} /\ UNCHANGED <<current, cancelled>>
    BY <1>2, Zenon DEF Wait, CallInv
  <2>2. CASE Goto("close")
    BY <2>1, <2>2, GotoFacts, Zenon
  <2>3. QED
    BY <1>2, <2>1, <2>2, Zenon DEF Wait, Return
<1>3. CASE Close
  <2>1. call # None /\ current # None /\ call.op \in {"ensure", "stop"} /\ UNCHANGED cancelled
    BY <1>3, Zenon DEF Close, CallInv
  <2>2. CASE Goto("build") /\ call.op = "ensure"
    BY <2>1, <2>2, GotoFacts, Zenon
  <2>3. QED
    BY <1>3, <2>1, <2>2, Zenon DEF Close, Return
<1>4. CASE EnsureBegin
  <2>1. call # None /\ call.op = "ensure"
    BY <1>4, Zenon DEF EnsureBegin, At
  <2>2. CASE StopAndRetire /\ current # None
    BY <2>1, <2>2, StopAndRetireFacts, Zenon
  <2>3. CASE Goto("build") /\ UNCHANGED cancelled
    BY <2>1, <2>3, GotoFacts, Zenon
  <2>4. CASE Goto("close") /\ UNCHANGED cancelled
    BY <2>1, <2>4, GotoFacts, Zenon
  <2>5. QED
    BY <1>4, <2>1, <2>2, <2>3, <2>4, Zenon DEF EnsureBegin, Return
<1>5. CASE StartBuild
  <2>1. call # None /\ call.op = "ensure" /\ UNCHANGED cancelled /\ call \in Call
    BY <1>5, SomeAreRecords, Zenon DEF StartBuild, At
  <2>2. call' # None => call'.op = call.op
    BY <1>5, <2>1, Zenon DEF StartBuild, Return, Call
  <2>3. QED
    BY <2>1, <2>2, Zenon
<1>6. CASE BuildAbandoned \/ BuildStored
  BY <1>6, Zenon DEF BuildAbandoned, BuildStored, At, Return
<1>7. CASE QuiesceBegin
  <2>1. call # None /\ call.op = "quiesce" /\ UNCHANGED <<current, cancelled>>
    BY <1>7, Zenon DEF QuiesceBegin, At
  <2>2. CASE Goto("pause")
    BY <2>1, <2>2, GotoFacts, Zenon
  <2>3. QED
    BY <1>7, <2>1, <2>2, Zenon DEF QuiesceBegin, Return
<1>8. CASE Pause
  <2>1. call # None /\ call.op = "quiesce" /\ UNCHANGED cancelled /\ call' = None
    BY <1>8, Zenon DEF Pause, At, Return
  <2>2. CASE current' = [current EXCEPT !.paused = TRUE] /\ Running
    <3>1. current \in Entry
      BY <2>2, SomeAreRecords, Zenon DEF Running
    <3>2. current' \in Entry
      BY <2>2, <3>1, Zenon DEF Entry
    <3>3. current' # None
      BY <3>2, PoolAssumption, Zenon
    <3>4. QED
      BY <2>1, <2>2, <3>3, Zenon DEF Running
  <2>3. QED
    BY <1>8, <2>1, <2>2, Zenon DEF Pause
<1>9. CASE ResumeBegin
  <2>1. call # None /\ call.op = "resume" /\ UNCHANGED <<current, cancelled>>
    BY <1>9, Zenon DEF ResumeBegin, At
  <2>2. CASE Goto("resume")
    BY <2>1, <2>2, GotoFacts, Zenon
  <2>3. QED
    BY <1>9, <2>1, <2>2, Zenon DEF ResumeBegin, Return
<1>10. CASE Resume
  <2>1. call # None /\ call.op = "resume" /\ UNCHANGED cancelled /\ call' = None
    BY <1>10, Zenon DEF Resume, ReleaseBarrier, KeepBarrier, At, Return
  <2>2. CASE current # None /\ (\/ current' = [current EXCEPT !.started = TRUE]
                                \/ current' = [current EXCEPT !.paused = FALSE])
    <3>1. current \in Entry
      BY <2>2, SomeAreRecords, Zenon
    <3>2. current' \in Entry
      BY <2>2, <3>1, Zenon DEF Entry
    <3>3. current' # None
      BY <3>2, PoolAssumption, Zenon
    <3>4. QED
      BY <2>1, <2>2, <3>3, Zenon
  <2>3. QED
    BY <1>10, <2>1, <2>2, Zenon DEF Resume, KeepBarrier, Startable
<1>11. QED
  BY <1>1, <1>2, <1>3, <1>4, <1>5, <1>6, <1>7, <1>8, <1>9, <1>10, Zenon DEF CallStep

\* Outside Ensure the runtime with resources is the current one.
LEMMA LiveIsCurrent ==
    ASSUME SupInv, call = None \/ call.op # "ensure"
    PROVE  live = {} <=> current = None
  BY Zenon DEF SupInv, OneOwner, At

\* Only the step of an operation changes as it goes on.
LEMMA StepFacts ==
    ASSUME ScopeAssumption, LinkInv, op # None,
           NEW step \in {"bind", "stopping", "recover", "mutate", "ensure", "ensuring", "guarding"},
           Step(step)
    PROVE  /\ op' \in Op /\ op' # None /\ op'.step = step /\ op'.kind = op.kind
           /\ op'.scope = op.scope /\ op'.key = op.key
<1>1. op \in Op
  BY Zenon DEF LinkInv
<1>2. op' \in Op /\ op'.step = step /\ op'.kind = op.kind /\ op'.scope = op.scope /\ op'.key = op.key
  BY <1>1, Zenon DEF Step, Op
<1>3. QED
  BY <1>2, Zenon DEF ScopeAssumption

\* A new operation is what was asked for.
LEMMA RequestFacts ==
    ASSUME ScopeAssumption, NEW s \in Scopes \cup {None}, NEW k \in Keys \cup {None},
           NEW kind \in {"baseline", "experimental", "detach", "stale", "guard"},
           NEW step \in {"bind", "guarding"}, Request(kind, s, k, step)
    PROVE  /\ op' \in Op /\ op' # None /\ op'.step = step /\ op'.kind = kind
           /\ op'.scope = s /\ op'.key = k
<1>1. op' \in Op /\ op'.step = step /\ op'.kind = kind /\ op'.scope = s /\ op'.key = k
  BY Zenon DEF Request, Op
<1>2. QED
  BY <1>1, Zenon DEF ScopeAssumption

\* Without a step of the supervisor its invariant stays.
LEMMA SupUnchanged ==
    ASSUME SupInv, UNCHANGED supVars
    PROVE  SupInv'
  BY ContextKeeps, Zenon DEF supVars, SupInv, SupShape
\* A new Apply, Detach or DetachStale has done nothing yet.
LEMMA InvokeKeeps ==
    ASSUME ScopeAssumption, ~CallsAfterCancel, CoordInv, Invoke
    PROVE  CoordInv'
<1> USE DEF CoordInv
<1>1. op = None /\ call = None /\ cancelled' = FALSE
      /\ UNCHANGED <<current, live, barrier, call, ret, owner, scope, baseline, stale, dying>>
  BY Zenon DEF Invoke, LinkInv
<1>2. /\ op' \in Op /\ op' # None /\ op'.step = "bind" /\ op'.kind # "guard" /\ op'.scope \in Scopes
      /\ op'.kind = "experimental" => op'.key \in Keys
      /\ dying => op'.kind = "detach"
  BY RequestFacts DEF Invoke
<1>3. SupInv'
  BY <1>1, ContextKeeps, Zenon
<1>4. LinkInv'
  BY <1>1, <1>2, Zenon DEF LinkInv, Op
<1>5. OwnedInv'
  BY <1>1, <1>2, Zenon DEF LinkInv, OwnedInv, In
<1>6. ScopeInv'
  BY <1>1, <1>2, Zenon DEF LinkInv, OwnedInv, ScopeInv, In
<1>7. QED
  BY <1>3, <1>4, <1>5, <1>6, Zenon

\* An operation that is refused, and a guard call that returned, leave everything.
LEMMA RefuseKeeps ==
    ASSUME ScopeAssumption, ~CallsAfterCancel, CoordInv, Refuse \/ GuardReturns
    PROVE  CoordInv'
<1> USE DEF CoordInv
<1>1. /\ op # None /\ op.step \in {"bind", "guarding"} /\ op' = None /\ call = None
      /\ UNCHANGED <<supVars, owner, scope, baseline, stale, dying>>
  BY Zenon DEF Refuse, GuardReturns, In, Finish, Quiet, LinkInv
<1>2. SupInv'
  BY <1>1, SupUnchanged, Zenon
<1>3. LinkInv'
  BY <1>1, Zenon DEF LinkInv, Op, supVars
<1>4. OwnedInv'
  BY <1>1, Zenon DEF LinkInv, OwnedInv, In, supVars
<1>5. ScopeInv'
  BY <1>1, Zenon DEF LinkInv, OwnedInv, ScopeInv, In, supVars
<1>6. QED
  BY <1>2, <1>3, <1>4, <1>5, Zenon

\* A scope is bound where nothing is owned, or is the one that was bound.
LEMMA BindThenRefuseKeeps ==
    ASSUME ScopeAssumption, ~CallsAfterCancel, CoordInv, BindThenRefuse
    PROVE  CoordInv'
<1> USE DEF CoordInv
<1>1. /\ op # None /\ op.step = "bind" /\ op.kind = "experimental"
      /\ ~cancelled /\ call = None /\ op.scope \in Scopes
      /\ scope' = op.scope /\ op' = None /\ UNCHANGED <<supVars, owner, baseline, stale, dying>>
  BY Zenon DEF BindThenRefuse, In, Finish, LinkInv
<1>2. scope' = scope \/ (live = {} /\ owner \in {"unknown", "none"})
  BY <1>1, Zenon DEF BindThenRefuse, MayBind, ScopeInv
<1>3. scope' # None
  BY <1>1, Zenon DEF ScopeAssumption
<1>4. SupInv'
  BY <1>1, SupUnchanged, Zenon
<1>5. LinkInv'
  BY <1>1, <1>2, <1>3, Zenon DEF LinkInv, Op, supVars
<1>6. OwnedInv'
  BY <1>1, <1>2, <1>3, Zenon DEF LinkInv, OwnedInv, In, supVars
<1>7. ScopeInv'
  BY <1>1, <1>2, <1>3, Zenon DEF LinkInv, OwnedInv, ScopeInv, In, supVars
<1>8. QED
  BY <1>4, <1>5, <1>6, <1>7, Zenon

\* A cancelled context makes the daemon end with a Detach.
LEMMA CancelCallKeeps ==
    ASSUME ScopeAssumption, ~CallsAfterCancel, CoordInv, CancelCall
    PROVE  CoordInv'
<1> USE DEF CoordInv
<1>1. /\ op # None /\ cancelled' = TRUE /\ dying' = TRUE
      /\ UNCHANGED <<current, live, barrier, call, ret, owner, scope, op, baseline, stale>>
  BY Zenon DEF CancelCall
<1>2. SupInv'
  BY <1>1, ContextKeeps, Zenon
<1>3. LinkInv'
  BY <1>1 DEF LinkInv, Op
<1>4. OwnedInv'
  BY <1>1, Zenon DEF LinkInv, OwnedInv, In
<1>5. ScopeInv'
  BY <1>1, Zenon DEF LinkInv, OwnedInv, ScopeInv, In
<1>6. QED
  BY <1>2, <1>3, <1>4, <1>5, Zenon

\* After a Stop there is no runtime, or the coordinator says whose it is.
LEMMA StopReturnsKeeps ==
    ASSUME ScopeAssumption, ~CallsAfterCancel, CoordInv, StopReturns
    PROVE  CoordInv'
<1> USE DEF CoordInv
<1>1. /\ op # None /\ op.step = "stopping" /\ call = None
      /\ op.kind # "experimental" /\ scope = op.scope /\ op.scope \in Scopes
      /\ UNCHANGED <<supVars, scope, baseline, stale, dying>>
  BY Zenon DEF StopReturns, In, Quiet, LinkInv, ScopeInv
<1>2. \/ ret = "error" /\ owner' = "experimental" /\ op' = None
      \/ ret = "ok" /\ owner' = "none" /\ op' = None
      \/ /\ ret = "ok" /\ owner' = "none" /\ op' \in Op /\ op' # None /\ op'.step = "recover"
         /\ op'.kind = op.kind /\ op'.scope = op.scope
  BY <1>1, StepFacts, Zenon DEF StopReturns, Finish
<1>3. ret = "ok" => current = None
  BY <1>1, Zenon DEF OwnedInv, In
<1>4. scope # None
  BY <1>1, Zenon DEF ScopeAssumption
<1>5. SupInv'
  BY <1>1, SupUnchanged, Zenon
<1>6. LinkInv'
  BY <1>1, <1>2, <1>3, <1>4, Zenon DEF LinkInv, Op, supVars
<1>7. OwnedInv'
  BY <1>1, <1>2, <1>3, <1>4, Zenon DEF LinkInv, OwnedInv, In, supVars
<1>8. ScopeInv'
  BY <1>1, <1>2, <1>3, <1>4, Zenon DEF LinkInv, OwnedInv, ScopeInv, In, supVars
<1>9. QED
  BY <1>5, <1>6, <1>7, <1>8, Zenon

\* Recovery retires what a crash left in the scope, or the operation ends.
LEMMA RecoverKeeps ==
    ASSUME ScopeAssumption, ~CallsAfterCancel, CoordInv, Recover
    PROVE  CoordInv'
<1> USE DEF CoordInv
<1>1. /\ op # None /\ op.step = "recover" /\ call = None /\ scope = op.scope
      /\ UNCHANGED <<supVars, owner, scope, baseline, dying>>
  BY Zenon DEF Recover, In, LinkInv, ScopeInv
<1>2. \/ stale' = stale /\ op' = None
      \/ /\ stale' = stale \ {scope} /\ op' \in Op /\ op' # None /\ op'.step = "mutate"
         /\ op'.kind = op.kind /\ op'.scope = op.scope /\ op'.key = op.key
  BY <1>1, StepFacts, Zenon DEF Recover, Finish
<1>3. current = None
  BY <1>1, Zenon DEF OwnedInv
<1>4. SupInv'
  BY <1>1, SupUnchanged, Zenon
<1>5. LinkInv'
  BY <1>1, <1>2, <1>3 DEF LinkInv, Op, supVars
<1>6. OwnedInv'
  BY <1>1, <1>2, <1>3, Zenon DEF LinkInv, OwnedInv, In, supVars
<1>7. ScopeInv'
  BY <1>1, <1>2, <1>3, Zenon DEF LinkInv, OwnedInv, ScopeInv, In, supVars
<1>8. QED
  BY <1>4, <1>5, <1>6, <1>7, Zenon

\* The baseline loader changes slots that no runtime holds.
LEMMA BaselineKeeps ==
    ASSUME ScopeAssumption, ~CallsAfterCancel, CoordInv,
           BaselineApply \/ BaselineDetachStale \/ BaselineDetach \/ DetachForExperimental
    PROVE  CoordInv'
<1> USE DEF CoordInv
<1>1. /\ op # None /\ op.step = "mutate" /\ call = None
      /\ current = None /\ scope = op.scope /\ op.scope \in Scopes
      /\ UNCHANGED <<supVars, stale, dying>>
  BY Zenon DEF BaselineApply, BaselineDetachStale, BaselineDetach, DetachForExperimental, In,
       LinkInv,
         OwnedInv, ScopeInv
<1>2. live = {} /\ scope # None
  BY <1>1, LiveIsCurrent, Zenon DEF ScopeAssumption
<1>3. \/ op' = None /\ owner' = "baseline" /\ scope' = scope
         /\ baseline' \in {baseline, baseline \cup {scope}, baseline \ {scope}}
      \/ op' = None /\ owner' = "none" /\ scope' = None /\ baseline' = baseline \ {scope}
      \/ /\ op' \in Op /\ op' # None
         /\ op'.step = "ensure" /\ op'.kind = "experimental" /\ op'.kind = op.kind
         /\ op'.scope = op.scope /\ op'.key = op.key
         /\ owner' = "none" /\ scope' = scope /\ baseline' = baseline \ {scope}
  BY <1>1, StepFacts, Zenon
     DEF BaselineApply, BaselineDetachStale, BaselineDetach, DetachForExperimental, DetachFails,
         Finish
<1>4. SupInv'
  BY <1>1, SupUnchanged, Zenon
<1>5. LinkInv'
  BY <1>1, <1>2, <1>3, Zenon DEF LinkInv, Op, supVars
<1>6. OwnedInv'
  BY <1>1, <1>2, <1>3, Zenon DEF LinkInv, OwnedInv, In, supVars
<1>7. ScopeInv'
  BY <1>1, <1>2, <1>3, Zenon DEF LinkInv, OwnedInv, ScopeInv, In, supVars
<1>8. QED
  BY <1>4, <1>5, <1>6, <1>7, Zenon

\* An Ensure that returned leaves a runtime or none to the experimental owner.
LEMMA EnsureReturnsKeeps ==
    ASSUME ScopeAssumption, ~CallsAfterCancel, CoordInv, EnsureReturns
    PROVE  CoordInv'
<1> USE DEF CoordInv
<1>1. /\ op # None /\ op.step = "ensuring" /\ call = None
      /\ scope = op.scope /\ op.scope \in Scopes /\ op' = None /\ owner' = "experimental"
      /\ UNCHANGED <<supVars, scope, baseline, stale, dying>>
  BY Zenon DEF EnsureReturns, In, Quiet, Finish, LinkInv, ScopeInv
<1>2. scope # None
  BY <1>1, Zenon DEF ScopeAssumption
<1>3. SupInv'
  BY <1>1, SupUnchanged, Zenon
<1>4. LinkInv'
  BY <1>1, <1>2, Zenon DEF LinkInv, Op, supVars
<1>5. OwnedInv'
  BY <1>1, <1>2, Zenon DEF LinkInv, OwnedInv, In, supVars
<1>6. ScopeInv'
  BY <1>1, <1>2, Zenon DEF LinkInv, OwnedInv, ScopeInv, In, supVars
<1>7. QED
  BY <1>3, <1>4, <1>5, <1>6, Zenon
\* A guard call begins with a call of the supervisor.
LEMMA InvokeGuardKeeps ==
    ASSUME ScopeAssumption, ~CallsAfterCancel, CoordInv, InvokeGuard
    PROVE  CoordInv'
<1> USE DEF CoordInv
<1>1. op = None /\ ~dying /\ call = None /\ cancelled' = FALSE
      /\ UNCHANGED <<current, live, barrier, ret, owner, scope, baseline, stale, dying>>
  BY Zenon DEF InvokeGuard, LinkInv
<1>2. op' \in Op /\ op' # None /\ op'.step = "guarding" /\ op'.kind = "guard"
  BY RequestFacts, Zenon DEF InvokeGuard
<1>3. PICK o \in {"quiesce", "resume"} : Begin(o, None)
  BY Zenon DEF InvokeGuard
<1>4. call' \in Call /\ call' # None /\ call'.op = o /\ call'.step = "begin"
  BY <1>3, BeginFacts, Zenon
<1>5. SupInv'
  BY <1>1, <1>4, BeginKeeps, Zenon
<1>6. LinkInv'
  BY <1>1, <1>2, <1>4, Zenon DEF LinkInv
<1>7. OwnedInv'
  BY <1>1, <1>2, Zenon DEF OwnedInv, In
<1>8. ScopeInv'
  BY <1>1, <1>2, Zenon DEF ScopeInv, In
<1>9. QED
  BY <1>5, <1>6, <1>7, <1>8, Zenon

\* bindScopeLocked: an experimental apply recovers only where there is no runtime.
LEMMA BindKeeps ==
    ASSUME ScopeAssumption, ~CallsAfterCancel, CoordInv, Bind
    PROVE  CoordInv'
<1> USE DEF CoordInv
<1>1. /\ op # None /\ op.step = "bind" /\ ~cancelled /\ call = None /\ op.kind # "guard"
      /\ op.scope \in Scopes /\ scope' = op.scope /\ scope' # None
      /\ UNCHANGED <<current, live, barrier, ret, cancelled, baseline, stale, dying>>
  BY Zenon DEF Bind, In, LinkInv, ScopeAssumption
<1>2. scope' = scope \/ (live = {} /\ scope = None /\ owner \in {"unknown", "none"})
  BY <1>1, Zenon DEF Bind, MayBind, ScopeInv
<1>3. CASE op.kind # "experimental" /\ Begin("stop", None) /\ Step("stopping") /\ UNCHANGED owner
  <2>1. /\ op' \in Op /\ op' # None /\ op'.step = "stopping" /\ op'.kind = op.kind
        /\ op'.scope = op.scope
    BY <1>1, <1>3, StepFacts, Zenon
  <2>2. call' \in Call /\ call' # None /\ call'.op = "stop" /\ call'.step = "begin"
    BY <1>3, BeginFacts, Zenon
  <2>3. cancelled' \in BOOLEAN
    BY <1>1, Zenon DEF SupInv, SupShape
  <2>4. SupInv'
    BY <1>1, <2>2, <2>3, BeginKeeps, Zenon
  <2>5. LinkInv'
    BY <1>1, <1>3, <2>1, <2>2, Zenon DEF LinkInv
  <2>6. OwnedInv'
    BY <1>1, <1>3, <2>1, <2>2, Zenon DEF OwnedInv, In
  <2>7. ScopeInv'
    BY <1>1, <1>2, <1>3, <2>1, <2>2, Zenon DEF ScopeInv, In
  <2>8. QED
    BY <2>4, <2>5, <2>6, <2>7, Zenon
<1>4. CASE /\ op.kind = "experimental" /\ owner # "experimental"
           /\ Step("recover") /\ UNCHANGED <<call, owner>>
  <2>1. /\ op' \in Op /\ op' # None /\ op'.step = "recover" /\ op'.kind = op.kind
        /\ op'.scope = op.scope /\ op'.key = op.key
    BY <1>1, <1>4, StepFacts, Zenon
  <2>2. current = None
    BY <1>1, <1>4, Zenon DEF OwnedInv
  <2>3. SupInv'
    BY <1>1, <1>4, SupUnchanged, Zenon DEF supVars
  <2>4. LinkInv'
    BY <1>1, <1>4, <2>1, Zenon DEF LinkInv
  <2>5. OwnedInv'
    BY <1>1, <1>4, <2>1, <2>2, Zenon DEF OwnedInv, In
  <2>6. ScopeInv'
    BY <1>1, <1>2, <1>4, <2>1, Zenon DEF ScopeInv, In
  <2>7. QED
    BY <2>3, <2>4, <2>5, <2>6, Zenon
<1>5. CASE /\ op.kind = "experimental" /\ owner = "experimental"
           /\ Step("ensure") /\ owner' = "none" /\ UNCHANGED call
  <2>1. /\ op' \in Op /\ op' # None /\ op'.step = "ensure" /\ op'.kind = op.kind
        /\ op'.scope = op.scope /\ op'.key = op.key
    BY <1>1, <1>5, StepFacts, Zenon
  <2>2. ~dying /\ scope' = scope /\ scope \notin baseline
    BY <1>1, <1>2, <1>5, Zenon DEF OwnedInv, ScopeInv
  <2>3. SupInv'
    BY <1>1, <1>5, SupUnchanged, Zenon DEF supVars
  <2>4. LinkInv'
    BY <1>1, <1>5, <2>1, Zenon DEF LinkInv
  <2>5. OwnedInv'
    BY <1>1, <1>5, <2>1, Zenon DEF OwnedInv, In
  <2>6. ScopeInv'
    BY <1>1, <1>5, <2>1, <2>2, Zenon DEF ScopeInv, In
  <2>7. QED
    BY <2>3, <2>4, <2>5, <2>6, Zenon
<1>6. QED
  BY <1>3, <1>4, <1>5, Zenon DEF Bind

\* Ensure is called for a scope without a baseline core.
LEMMA EnsureKeeps ==
    ASSUME ScopeAssumption, ~CallsAfterCancel, CoordInv, Ensure
    PROVE  CoordInv'
<1> USE DEF CoordInv
<1>1. /\ op # None /\ op.step = "ensure" /\ call = None /\ op.kind = "experimental" /\ op.key \in Keys
      /\ UNCHANGED <<current, live, barrier, ret, cancelled, owner, scope, baseline, stale, dying>>
  BY Zenon DEF Ensure, In, LinkInv
<1>2. CASE cancelled /\ op' = None /\ UNCHANGED call
  <2>1. SupInv'
    BY <1>1, <1>2, SupUnchanged, Zenon DEF supVars
  <2>2. LinkInv' /\ OwnedInv' /\ ScopeInv'
    BY <1>1, <1>2, Zenon DEF LinkInv, OwnedInv, ScopeInv, In
  <2>3. QED
    BY <2>1, <2>2, Zenon
<1>3. CASE Step("ensuring") /\ Begin("ensure", op.key)
  <2>1. /\ op' \in Op /\ op' # None /\ op'.step = "ensuring" /\ op'.kind = op.kind
        /\ op'.scope = op.scope /\ op'.key = op.key
    BY <1>1, <1>3, StepFacts, Zenon
  <2>2. /\ call' \in Call /\ call' # None /\ call'.op = "ensure" /\ call'.step = "begin"
        /\ call'.key = op.key
    BY <1>1, <1>3, BeginFacts, Zenon
  <2>3. cancelled' \in BOOLEAN
    BY <1>1, Zenon DEF SupInv, SupShape
  <2>4. SupInv'
    BY <1>1, <2>2, <2>3, BeginKeeps, Zenon
  <2>5. LinkInv' /\ OwnedInv' /\ ScopeInv'
    BY <1>1, <2>1, <2>2, Zenon DEF LinkInv, OwnedInv, ScopeInv, In
  <2>6. QED
    BY <2>4, <2>5, Zenon
<1>4. QED
  BY <1>2, <1>3, Zenon DEF Ensure, Finish

\* A call goes on under the operation that made it.
LEMMA CoordCallKeeps ==
    ASSUME ScopeAssumption, ~CallsAfterCancel, CoordInv, CallStep, UNCHANGED coordVars
    PROVE  CoordInv'
<1> USE DEF CoordInv
<1>1. SupInv'
  BY CallStepKeeps, Zenon
<1>2. /\ call # None /\ op # None /\ UNCHANGED <<cancelled, owner, scope, op, baseline, stale, dying>>
      /\ \/ op.step = "stopping" /\ call.op = "stop"
         \/ op.step = "ensuring" /\ call.op = "ensure"
         \/ op.step = "guarding" /\ call.op \in {"quiesce", "resume"}
  BY CallStepKinds, Zenon DEF LinkInv, coordVars
<1>3. LinkInv'
  BY <1>2, CallStepKinds, Zenon DEF LinkInv
<1>4. CASE op.step = "stopping" /\ call.op = "stop"
  <2>1. /\ current = None => current' = None
        /\ call' = None /\ ret' = "ok" => current' = None
        /\ call' = None /\ ret' = "error" => cancelled \/ current # None
        /\ call' = None \/ call'.op # "ensure"
    BY <1>4, CallStepKinds, Zenon
  <2>2. live = {} <=> current = None
    BY <1>4, LiveIsCurrent, Zenon
  <2>3. live' = {} <=> current' = None
    BY <1>1, <2>1, Zenon DEF SupInv, OneOwner, At
  <2>4. OwnedInv'
    BY <1>2, <1>4, <2>1, Zenon DEF OwnedInv, In
  <2>5. ScopeInv'
    BY <1>2, <1>4, <2>1, <2>2, <2>3, Zenon DEF ScopeInv, OwnedInv, In
  <2>6. QED
    BY <1>1, <1>3, <2>4, <2>5, Zenon
<1>5. CASE op.step = "ensuring" /\ call.op = "ensure"
  <2>1. op.scope \in Scopes /\ scope = op.scope /\ scope # None
    BY <1>2, <1>5, Zenon DEF LinkInv, ScopeInv, ScopeAssumption
  <2>2. OwnedInv'
    BY <1>2, <1>5, Zenon DEF OwnedInv, In
  <2>3. ScopeInv'
    BY <1>2, <1>5, <2>1, Zenon DEF ScopeInv, In
  <2>4. QED
    BY <1>1, <1>3, <2>2, <2>3, Zenon
<1>6. CASE op.step = "guarding" /\ call.op \in {"quiesce", "resume"}
  <2>1. (current' = None <=> current = None) /\ (call' = None \/ call'.op # "ensure")
    BY <1>6, CallStepKinds, Zenon
  <2>2. live = {} <=> current = None
    BY <1>6, LiveIsCurrent, Zenon
  <2>3. live' = {} <=> current' = None
    BY <1>1, <2>1, Zenon DEF SupInv, OneOwner, At
  <2>4. OwnedInv'
    BY <1>2, <1>6, <2>1, Zenon DEF OwnedInv, In
  <2>5. ScopeInv'
    BY <1>2, <1>6, <2>1, <2>2, <2>3 DEF ScopeInv, In
  <2>6. QED
    BY <1>1, <1>3, <2>4, <2>5, Zenon
<1>7. QED
  BY <1>2, <1>4, <1>5, <1>6, Zenon

\* A Run that returns leaves the runtime where it is.
LEMMA CoordRunKeeps ==
    ASSUME ScopeAssumption, ~CallsAfterCancel, CoordInv, RunReturns, UNCHANGED coordVars
    PROVE  CoordInv'
<1> USE DEF CoordInv
<1>1. SupInv'
  BY RunReturnsKeeps, Zenon
<1>2. /\ current # None
      /\ UNCHANGED <<live, call, ret, cancelled, owner, scope, op, baseline, stale, dying>>
  BY Zenon DEF RunReturns, coordVars
<1>3. LinkInv'
  BY <1>2, Zenon DEF LinkInv
<1>4. OwnedInv'
  BY <1>2, Zenon DEF OwnedInv, In
<1>5. ScopeInv'
  BY <1>2, Zenon DEF ScopeInv, In
<1>6. QED
  BY <1>1, <1>3, <1>4, <1>5, Zenon

\* The successor of a killed process starts from the durable cores alone.
LEMMA CrashKeeps ==
    ASSUME ScopeAssumption, ~CallsAfterCancel, CoordInv, Crash
    PROVE  CoordInv'
<1> USE DEF CoordInv
<1>1. SupInv'
  BY Zenon DEF Crash, SupInv, SupShape, OneOwner, At, CallInv, BarrierInv, Running, Startable,
         InnerLeaseIsCurrent
<1>2. stale' \in SUBSET Scopes
  BY Zenon DEF Crash, LinkInv, ScopeInv
<1>3. LinkInv' /\ OwnedInv' /\ ScopeInv'
  BY <1>2, Zenon DEF Crash, LinkInv, OwnedInv, ScopeInv, In
<1>4. QED
  BY <1>1, <1>3, Zenon

\* Every step keeps the invariant.
LEMMA CoordStep ==
    ASSUME ScopeAssumption, ~CallsAfterCancel, CoordInv, [Next]_vars
    PROVE  CoordInv'
<1>1. CASE UNCHANGED vars
  <2>1. SupInv'
    BY <1>1, SupUnchanged, Zenon DEF vars, CoordInv
  <2>2. LinkInv' /\ OwnedInv' /\ ScopeInv'
    BY <1>1 DEF vars, supVars, coordVars, CoordInv, LinkInv, OwnedInv, ScopeInv, In
  <2>3. QED
    BY <2>1, <2>2, Zenon DEF CoordInv
<1>2. CASE Invoke \/ InvokeGuard \/ CancelCall \/ Crash \/ (RunReturns /\ UNCHANGED coordVars)
  BY <1>2, InvokeKeeps, InvokeGuardKeeps, CancelCallKeeps, CrashKeeps, CoordRunKeeps, Zenon
<1>3. CASE OpStep
  BY <1>3, RefuseKeeps, BindKeeps, BindThenRefuseKeeps, StopReturnsKeeps, RecoverKeeps,
       BaselineKeeps,
     EnsureKeeps, EnsureReturnsKeeps, CoordCallKeeps, Zenon DEF OpStep
<1>4. QED
  BY <1>1, <1>2, <1>3, Zenon DEF Next

\* A process starts unbound, whatever cores are attached or left behind.
LEMMA CoordInit ==
    ASSUME ScopeAssumption, Init
    PROVE  CoordInv
<1>1. SupInv
  BY SupInitKeeps, Zenon DEF Init
<1>2. LinkInv /\ OwnedInv /\ ScopeInv
  BY Zenon DEF Init, SupInit, LinkInv, OwnedInv, ScopeInv, In
<1>3. QED
  BY <1>1, <1>2, Zenon DEF CoordInv

\* fakeTCPProductionCoordinator on top of the supervisor: the inductive invariant
\* holds in every reachable state when a daemon whose context was cancelled does
\* nothing but detach.
THEOREM CoordinatorInvariant ==
    ASSUME ScopeAssumption, ~CallsAfterCancel
    PROVE  Spec => []CoordInv
<1>1. Init => CoordInv
  BY CoordInit, Zenon
<1>2. CoordInv /\ [Next]_vars => CoordInv'
  BY CoordStep, Zenon
<1>3. QED
  BY <1>1, <1>2, PTL DEF Spec

\* "Baseline and experimental cores are mutually exclusive": with any scopes, keys and
\* crashes no runtime is built or live in a scope whose baseline core is attached.
THEOREM CoordinatorExclusive ==
    ASSUME ScopeAssumption, ~CallsAfterCancel
    PROVE  Spec => []CoresExclusive
<1>1. CoordInv => CoresExclusive
  BY Zenon DEF CoordInv, ScopeInv, CoresExclusive
<1>2. QED
  BY <1>1, CoordinatorInvariant, PTL

\* bindScopeLocked and Detach: while the process owns a runtime, or a baseline it
\* applied or failed to detach, its scope stays bound.
THEOREM CoordinatorRetainsScope ==
    ASSUME ScopeAssumption, ~CallsAfterCancel
    PROVE  Spec => []ScopeRetained
<1>1. CoordInv => ScopeRetained
  BY Zenon DEF CoordInv, ScopeInv, ScopeRetained
<1>2. QED
  BY <1>1, CoordinatorInvariant, PTL

\* Apply, Detach and DetachStale: the baseline loader changes TC slots only when no
\* FakeTCP owner, live or left behind by a crash, holds them.
THEOREM CoordinatorBaselineAlone ==
    ASSUME ScopeAssumption, ~CallsAfterCancel
    PROVE  Spec => BaselineAlone
<1>1. CoordInv => BaselineAloneStep
  <2> SUFFICES ASSUME CoordInv, Mutate
               PROVE  live = {} /\ scope \notin stale
    BY Zenon DEF BaselineAloneStep
  <2>1. op # None /\ op.step = "mutate"
    BY Zenon DEF Mutate, BaselineApply, BaselineDetachStale, BaselineDetach,
         DetachForExperimental, In
  <2>2. call = None /\ current = None /\ scope \notin stale
    BY <2>1, Zenon DEF CoordInv, LinkInv, OwnedInv, ScopeInv, In
  <2>3. QED
    BY <2>2, LiveIsCurrent, Zenon DEF CoordInv
<1>2. QED
  BY <1>1, CoordinatorInvariant, PTL DEF BaselineAlone
=============================================================================

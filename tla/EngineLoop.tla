---------------------------- MODULE EngineLoop ------------------------------
(***************************************************************************)
(* The engine as the event loop drives it (EventRuntime.Run, Controller):  *)
(* the loop hands it one captured event or one Tick at a time, and the     *)
(* first error that comes back ends the loop for good.  No later Tick of   *)
(* that engine retries anything: what it left is settled when the daemon   *)
(* finds the runtime finished and closes it, with its engine and its       *)
(* session map.  Module FakeTCPEngine is what the engine does with any     *)
(* caller; what comes to an end depends on this one.                       *)
(***************************************************************************)
EXTENDS FakeTCPEngine

VARIABLE loop    \* "run", "failing" (an error is on its way to Run), "ended", "closed"

loopVars == <<vars, loop>>

LoopInit == Init /\ loop = "run"

-----------------------------------------------------------------------------
\* Run, handleOwnedDecodedEvent: an event of flow f, handled without an error.
Handled(f) ==
    /\ loop = "run"
    /\ \/ \E p \in Packets :
             \/ OutboundNew(f, p) \/ OutboundHalfOpen(f, p) \/ OutboundRetryDelete(f, p)
             \/ OutboundEstablished(f, p) /\ (fate'[p] = "released" \/ sessions' # sessions)
       \/ InboundSYN(f) \/ InboundSimultaneousSYN(f) \/ InboundReset(f)
       \/ InboundHandshakeACK(f) /\ sessions' # sessions
       \/ InboundEstablished(f) \/ InboundCapturedControl(f) \/ InboundRetryDelete(f)
    /\ UNCHANGED loop

\* The engine returns an error instead: a session that could not be inserted,
\* or one whose value could not be read.
HandleFails(f) ==
    /\ loop = "run"
    /\ \/ InboundHandshakeACK(f) /\ sessions' = sessions
       \/ \E p \in Packets :
             OutboundEstablished(f, p) /\ fate'[p] = "dropped" /\ sessions' = sessions
       \/ /\ Free /\ sessions[f].state = "established" /\ sessions[f].delete = None
          /\ UNCHANGED vars
    /\ loop' = "failing"

\* Run, Controller.Tick: the ticker is due.
LoopTick == loop = "run" /\ Tick /\ UNCHANGED loop

\* Engine.Tick visits every session and joins the errors of those it met: a
\* value that could not be read does not keep it from the next session.
TickVisit(f) ==
    \/ /\ TickHalfOpen(f) \/ TickMissing(f) \/ TickIdle(f) \/ TickRetryDelete(f)
       /\ UNCHANGED loop
    \/ TickSkip(f) /\ (HalfOpen(f) \/ "found" \in Lookup(f)) /\ UNCHANGED loop
    \/ TickSkip(f) /\ sessions[f].state = "established" /\ loop' = "failing"

\* Faulty variant: an uncertain delete is not reported to the caller.
DeleteStepQuiet ==
    /\ Claim \/ DeleteSession
    /\ UNCHANGED loop

\* compareDeleteEstablished, retryPendingDelete: an uncertain delete is an error
\* of the call that asked for it.
DeleteStep ==
    /\ Claim \/ DeleteSession
    /\ loop' = IF call' = None /\ sessions'[call.flow].delete # None THEN "failing" ELSE loop

\* The call returns with its error, and Run with it.
RunReturns ==
    /\ loop = "failing" /\ Free
    /\ loop' = "ended"
    /\ UNCHANGED vars

\* Run ends on something else: lost samples, an error of the reader or of an
\* action, an unreadable clock, a stop request, a cancelled context.
RunFails ==
    /\ loop = "run" /\ Free
    /\ loop' = "ended"
    /\ UNCHANGED vars

\* Faulty variant: the runtime is closed, its sessions stay in the map.
RetireKeepsSessions ==
    /\ loop = "ended"
    /\ loop' = "closed"
    /\ UNCHANGED vars

\* ProductionFakeTCPHealthy is false of a runtime that finished, so the daemon
\* reloads, and Ensure closes it: engine, queued packets and session map go.
Retire ==
    /\ loop = "ended"
    /\ loop' = "closed"
    /\ sessions' = [f \in Flows |-> Closed]
    /\ halfOpen' = 0 /\ pendingFlows' = 0 /\ pendingBytes' = 0 /\ nextID' = 0
    /\ sourceOpen' = [s \in Sources |-> 0]
    /\ fast' = [f \in Flows |-> Absent]
    /\ fate' = [p \in Packets |-> IF fate[p] = "queued" THEN "dropped" ELSE fate[p]]
    /\ UNCHANGED <<call, ticking>>

\* A later Ensure builds another runtime, if it can.
Rebuild ==
    /\ loop = "closed"
    /\ loop' = "run"
    /\ UNCHANGED vars

\* The packet programs go on until the map is gone.
FastPath(f) ==
    /\ FastTX(f) \/ FastRX(f) \/ Idle(f) \/ ForeignDelete(f)
    /\ UNCHANGED loop

LoopNext ==
    \/ \E f \in Flows : Handled(f) \/ HandleFails(f) \/ TickVisit(f) \/ FastPath(f)
    \/ LoopTick \/ DeleteStep \/ RunReturns \/ RunFails \/ Retire \/ Rebuild

LoopSpec == LoopInit /\ [][LoopNext]_loopVars

\* Run looks at its ticker after every read, and its reads have a deadline: a
\* loop that goes on ticks again and again.  A call that has begun finishes, a
\* retry that is waited for becomes due, Run returns with its error, and the
\* daemon's health poll closes a runtime that finished.  Nothing is assumed of
\* the store: it may fail whenever it is asked, and nobody need build again.
LoopFairness ==
    /\ SF_loopVars(LoopTick)
    /\ WF_loopVars(DeleteStep)
    /\ WF_loopVars(RunReturns)
    /\ WF_loopVars(Retire)
    /\ \A f \in Flows : WF_loopVars(TickVisit(f)) /\ SF_loopVars(TickHalfOpen(f) /\ UNCHANGED loop)

-----------------------------------------------------------------------------
(* Properties *)

\* Run: the loop never serves a session whose delete is uncertain.  The error
\* ends it first, so that the engine's retries of such a delete are for other
\* callers than Run, and a tombstone refuses packets only of a runtime that ends.
UncertainEndsRun ==
    loop = "run" /\ Free =>
        \A f \in Flows : sessions[f].delete = None /\ ~fast[f].claimed

\* Tick: a handshake ends, in spite of any number of failing calls: every
\* half-open session is established or given up, or goes with its runtime.
HalfOpenEnds == \A f \in Flows : HalfOpen(f) ~> ~HalfOpen(f)

\* compareDeleteEstablished: neither an uncertain delete nor a claimed entry of
\* the session map stays: what Run does not finish goes with its runtime.
DeleteResolves ==
    \A f \in Flows : (sessions[f].delete # None \/ fast[f].claimed)
                        ~> (sessions[f].delete = None /\ ~fast[f].claimed)
=============================================================================

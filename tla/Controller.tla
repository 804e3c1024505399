----------------------------- MODULE Controller -----------------------------
(***************************************************************************)
(* The production Controller (internal/faketcp/controller.go, built by     *)
(* NewController or NewRoutedController): callers of HandleSample and Tick *)
(* that move the Engine and then run the side effects it selects, and      *)
(* callers of Close.  The Engine is reduced to what the Controller can     *)
(* tell apart: a flow that has no session, waits for its peer's answer, or *)
(* is established, and the captured packets it holds back meanwhile.  The  *)
(* backend is the raw one: control packets, and reinjection through the    *)
(* ledger of onceReinjector (internal/faketcp/raw_backend.go), which keeps *)
(* the newest capture sequence of every CPU.                               *)
(*                                                                         *)
(* stateMu makes each admission, failure mark and close transition atomic; *)
(* opMu is held from the admission of an operation to its end, and every   *)
(* backend call in between is a step of its own.                           *)
(***************************************************************************)
EXTENDS Integers, Sequences, FiniteSets

CONSTANTS
    Callers,       \* goroutines that call HandleSample and Tick
    Closers,       \* goroutines that call Close
    Flows,         \* the flows of all routed Engines
    Cpus,          \* capture CPUs; each numbers its captures 1, 2, ...
    MaxCaptures,   \* bound: captures on one CPU
    MaxStreams,    \* MaxReinjectStreams
    MaxFaults      \* bound: failed sends and cancelled contexts

VARIABLES
    caller,    \* what each caller is doing, and the effects it has to run
    opMu,      \* the caller that holds opMu, or Nobody
    inflight,  \* admitted operations
    life,      \* shutdown, closing and closed of Controller
    failed,    \* failureErr is set
    closer,    \* what each caller of Close is doing
    flow,      \* the Engines: state and pending packets of every flow
    captured,  \* the last capture sequence of every CPU
    ledger,    \* onceReinjector.lastByCPU, 0 for a CPU without a stream
    faults,    \* faults so far
    acked,     \* history: the flows whose handshake answer was acknowledged
    early      \* history: a packet was reinjected before that

engineVars == <<flow, captured>>
backendVars == <<ledger, faults, acked, early>>
vars == <<caller, opMu, inflight, life, failed, closer, engineVars,
          backendVars>>

Nobody == "nobody"

Packet == [flow : Flows, cpu : Cpus, seq : 1 .. MaxCaptures]
Control == [control : {"syn", "ack"}, flow : Flows]
Idle == [pc |-> "idle", todo |-> <<>>, err |-> FALSE]

Init ==
    /\ caller = [c \in Callers |-> Idle]
    /\ opMu = Nobody
    /\ inflight = 0
    /\ life = [shutdown |-> FALSE, closing |-> FALSE, closed |-> FALSE]
    /\ failed = FALSE
    /\ closer = [k \in Closers |-> "idle"]
    /\ flow = [f \in Flows |-> [state |-> "none", pending |-> <<>>]]
    /\ captured = [u \in Cpus |-> 0]
    /\ ledger = [u \in Cpus |-> 0]
    /\ faults = 0
    /\ acked = {}
    /\ early = FALSE

(***************************************************************************)
(* beginSerializedOperation: admission under stateMu, then opMu, then the  *)
(* failure is looked at again.                                             *)
(***************************************************************************)
Admits == ~life.shutdown /\ ~life.closing /\ ~life.closed /\ ~failed

Begin(c) ==
    /\ caller[c].pc = "idle" /\ Admits
    /\ inflight' = inflight + 1
    /\ caller' = [caller EXCEPT ![c].pc = "wait"]
    /\ UNCHANGED <<opMu, life, failed, closer, engineVars, backendVars>>

ForgetsToFinish == inflight

finishOperation == inflight - 1

RefusesNever == FALSE

Refuses == failed

LockOperation(c) ==
    /\ caller[c].pc = "wait" /\ opMu = Nobody
    /\ IF Refuses
       THEN /\ inflight' = finishOperation
            /\ caller' = [caller EXCEPT ![c] = Idle]
            /\ UNCHANGED opMu
       ELSE /\ opMu' = c
            /\ caller' = [caller EXCEPT ![c].pc = "engine"]
            /\ UNCHANGED inflight
    /\ UNCHANGED <<life, failed, closer, engineVars, backendVars>>

(***************************************************************************)
(* The Engine's transitions; each commits before its effects are run.      *)
(***************************************************************************)
DropsLock == Nobody

KeepsLock == opMu

Selected(c, todo) ==
    /\ caller' = [caller EXCEPT ![c].pc = "effects", ![c].todo = todo]
    /\ opMu' = KeepsLock
    /\ UNCHANGED <<inflight, life, failed, closer, backendVars>>

AtEngine(c) == caller[c].pc = "engine"

syn(f) == [control |-> "syn", flow |-> f]
ack(f) == [control |-> "ack", flow |-> f]

\* A packet that the fast path dropped and handed over: it starts a
\* handshake, joins the packets that wait, or is released at once.
HandleCapture(c, f, u) ==
    /\ AtEngine(c) /\ captured[u] < MaxCaptures
    /\ captured' = [captured EXCEPT ![u] = @ + 1]
    /\ LET p == [flow |-> f, cpu |-> u, seq |-> captured[u] + 1]
           state == flow[f].state IN
       /\ flow' = IF state = "established" THEN flow
                  ELSE [flow EXCEPT ![f].state = "waiting",
                                    ![f].pending = Append(@, p)]
       /\ Selected(c, CASE state = "none" -> <<syn(f)>>
                        [] state = "waiting" -> <<>>
                        [] state = "established" -> <<p>>)

\* The peer's SYNACK: acknowledge it, then release what waited.
HandleSYNACK(c, f) ==
    /\ AtEngine(c) /\ flow[f].state = "waiting"
    /\ flow' = [flow EXCEPT ![f] = [state |-> "established",
                                    pending |-> <<>>]]
    /\ Selected(c, <<ack(f)>> \o flow[f].pending)
    /\ UNCHANGED captured

\* Tick sends a SYN again, or gives up and drops what waited.
TickRetry(c, f) ==
    /\ AtEngine(c) /\ flow[f].state = "waiting"
    /\ Selected(c, <<syn(f)>>)
    /\ UNCHANGED engineVars

TickGivesUp(c, f) ==
    /\ AtEngine(c) /\ flow[f].state = "waiting"
    /\ flow' = [flow EXCEPT ![f] = [state |-> "none", pending |-> <<>>]]
    /\ Selected(c, <<>>)
    /\ UNCHANGED captured

\* An event that is refused or selects nothing, or an engine error.
HandleNothing(c) ==
    /\ AtEngine(c)
    /\ Selected(c, <<>>)
    /\ UNCHANGED engineVars

(***************************************************************************)
(* executeActions: a control that fails ends the list; the packets of one  *)
(* release are all tried, and an error among them ends the list after it.  *)
(***************************************************************************)
IsControl(a) == "control" \in DOMAIN a

MayFail == faults < MaxFaults

Running(c) == caller[c].pc = "effects" /\ caller[c].todo # <<>>

SendControl(c) ==
    /\ Running(c) /\ IsControl(Head(caller[c].todo))
    /\ LET a == Head(caller[c].todo) IN
       \/ /\ caller' = [caller EXCEPT ![c].todo = Tail(@)]
          /\ acked' = IF a.control = "ack" THEN acked \cup {a.flow}
                      ELSE acked
          /\ UNCHANGED faults
       \/ /\ MayFail
          /\ faults' = faults + 1
          /\ caller' = [caller EXCEPT ![c].todo = <<>>, ![c].err = TRUE]
          /\ UNCHANGED acked
    /\ UNCHANGED <<opMu, inflight, life, failed, closer, engineVars, ledger,
                   early>>

\* ctx.Err between two effects.
CancelEffects(c) ==
    /\ Running(c) /\ MayFail
    /\ faults' = faults + 1
    /\ caller' = [caller EXCEPT ![c].todo = <<>>, ![c].err = TRUE]
    /\ UNCHANGED <<opMu, inflight, life, failed, closer, engineVars, ledger,
                   acked, early>>

Streams == {u \in Cpus : ledger[u] > 0}

\* onceReinjector.Reinject for one caller at a time: a sequence below the
\* newest one of its CPU, or a stream too many, is refused without a write.
Refused(p) ==
    \/ p.seq < ledger[p.cpu]
    \/ ledger[p.cpu] = 0 /\ Cardinality(Streams) >= MaxStreams

Reinject(c) ==
    /\ Running(c) /\ ~IsControl(Head(caller[c].todo))
    /\ LET p == Head(caller[c].todo) IN
       /\ early' = (early \/ p.flow \notin acked)
       /\ \/ /\ Refused(p)
             /\ caller' = [caller EXCEPT ![c].todo = Tail(@),
                                         ![c].err = TRUE]
             /\ UNCHANGED <<ledger, faults>>
          \/ /\ ~Refused(p)
             /\ ledger' = [ledger EXCEPT ![p.cpu] = p.seq]
             /\ \/ /\ caller' = [caller EXCEPT ![c].todo = Tail(@)]
                   /\ UNCHANGED faults
                \/ /\ MayFail
                   /\ faults' = faults + 1
                   /\ caller' = [caller EXCEPT ![c].todo = Tail(@),
                                               ![c].err = TRUE]
    /\ UNCHANGED <<opMu, inflight, life, failed, closer, engineVars, acked>>

\* handleActionExecutionError and endSerializedOperation.
EndOperation(c) ==
    /\ caller[c].pc = "effects" /\ caller[c].todo = <<>>
    /\ failed' = (failed \/ caller[c].err)
    /\ opMu' = Nobody
    /\ inflight' = finishOperation
    /\ caller' = [caller EXCEPT ![c] = Idle]
    /\ UNCHANGED <<life, closer, engineVars, backendVars>>

(***************************************************************************)
(* Close.                                                                  *)
(***************************************************************************)
Close(k) ==
    /\ closer[k] = "idle" /\ ~life.closed
    /\ IF life.closing
       THEN /\ closer' = [closer EXCEPT ![k] = "join"]
            /\ UNCHANGED life
       ELSE /\ closer' = [closer EXCEPT ![k] = "drain"]
            /\ life' = [life EXCEPT !.shutdown = TRUE, !.closing = TRUE]
    /\ UNCHANGED <<caller, opMu, inflight, failed, engineVars, backendVars>>

DrainedOfLock == opMu = Nobody

Drained == inflight = 0

CloseBackend(k) ==
    /\ closer[k] = "drain" /\ Drained
    /\ closer' = [closer EXCEPT ![k] = "backend"]
    /\ UNCHANGED <<caller, opMu, inflight, life, failed, engineVars,
                   backendVars>>

ReturnedAlone(k) == [closer EXCEPT ![k] = "idle"]

\* backend.Close returns; closing closeDone wakes every caller that joined.
Returned(k) ==
    [x \in Closers |-> IF x = k \/ closer[x] = "join" THEN "idle"
                       ELSE closer[x]]

FinishClose(k) ==
    /\ closer[k] = "backend"
    /\ \/ /\ life' = [life EXCEPT !.closing = FALSE, !.closed = TRUE]
          /\ UNCHANGED faults
       \/ /\ MayFail
          /\ faults' = faults + 1
          /\ life' = [life EXCEPT !.closing = FALSE]
    /\ closer' = Returned(k)
    /\ UNCHANGED <<caller, opMu, inflight, failed, engineVars, ledger, acked,
                   early>>

CallerNext(c) ==
    \/ Begin(c) \/ LockOperation(c) \/ HandleNothing(c)
    \/ \E f \in Flows :
          \/ \E u \in Cpus : HandleCapture(c, f, u)
          \/ HandleSYNACK(c, f) \/ TickRetry(c, f) \/ TickGivesUp(c, f)
    \/ SendControl(c) \/ CancelEffects(c) \/ Reinject(c) \/ EndOperation(c)

CloserNext(k) == Close(k) \/ CloseBackend(k) \/ FinishClose(k)

Next ==
    \/ \E c \in Callers : CallerNext(c)
    \/ \E k \in Closers : CloserNext(k)

Spec == Init /\ [][Next]_vars

(***************************************************************************)
(* Every goroutine that can take its next step takes it; the Go mutex      *)
(* hands opMu to every waiter in turn.                                     *)
(***************************************************************************)
Fairness ==
    /\ \A c \in Callers :
          /\ WF_vars(caller[c].pc # "idle" /\ CallerNext(c))
          /\ SF_vars(LockOperation(c))
    /\ \A k \in Closers : WF_vars(CloseBackend(k) \/ FinishClose(k))

FairSpec == Spec /\ Fairness

-----------------------------------------------------------------------------
\* Every variable has its type; inflight counts the admitted callers.
TypeOK ==
    /\ opMu \in Callers \cup {Nobody}
    /\ inflight = Cardinality({c \in Callers : caller[c].pc # "idle"})
    /\ life \in [shutdown : BOOLEAN, closing : BOOLEAN, closed : BOOLEAN]
    /\ failed \in BOOLEAN /\ early \in BOOLEAN
    /\ closer \in [Closers -> {"idle", "join", "drain", "backend"}]
    /\ captured \in [Cpus -> 0 .. MaxCaptures]
    /\ ledger \in [Cpus -> 0 .. MaxCaptures]
    /\ faults \in 0 .. MaxFaults
    /\ acked \subseteq Flows
    /\ \A f \in Flows :
          /\ flow[f].state \in {"none", "waiting", "established"}
          /\ flow[f].pending \in Seq(Packet)
    /\ \A c \in Callers :
          /\ caller[c].pc \in {"idle", "wait", "engine", "effects"}
          /\ caller[c].todo \in Seq(Packet \cup Control)
          /\ caller[c].err \in BOOLEAN

(***************************************************************************)
(* No packet of a flow is reinjected before the acknowledgement that ends  *)
(* the flow's handshake was sent: neither by the operation that completes  *)
(* the handshake, nor by a later capture that finds the flow established,  *)
(* nor after the send of the acknowledgement failed.                       *)
(***************************************************************************)
AckFirst == ~early

(***************************************************************************)
(* "later operations return it without touching Engine or the backend"     *)
(* (controller.go:267): once an action has failed, no step moves the       *)
(* Engine or the backend's ledger, operations that were admitted before    *)
(* the failure included.                                                   *)
(***************************************************************************)
FailedIsFinal == failed => UNCHANGED <<flow, captured, ledger, acked>>

(***************************************************************************)
(* While the backend is being closed, and after it was, no operation is    *)
(* admitted or uses it: "Close is called after admitted operations drain"  *)
(* (controller.go:252).                                                    *)
(***************************************************************************)
BackendUnused ==
    life.closed \/ (\E k \in Closers : closer[k] = "backend")
       => \A c \in Callers : caller[c].pc = "idle"

(***************************************************************************)
(* A call of Close returns, those that joined another call included.       *)
(***************************************************************************)
CloseEnds == \A k \in Closers : closer[k] # "idle" ~> closer[k] = "idle"

(***************************************************************************)
(* Flows do not disturb each other (the test                               *)
(* TestRoutedControllerKeepsPerWGQuotaAndPendingStateIndependent): while   *)
(* every send succeeds and no context is cancelled, no operation makes the *)
(* Controller fail.                                                        *)
(***************************************************************************)
FlowsIndependent == faults = 0 => ~failed
=============================================================================

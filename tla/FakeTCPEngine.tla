--------------------------- MODULE FakeTCPEngine ---------------------------
(***************************************************************************)
(* The FakeTCP slow path (internal/faketcp/engine.go) and the fast path it *)
(* hands established sessions to: the BPF session map, its store           *)
(* (session_store.go), the kernel compare-claim and the exact delete       *)
(* (session_compare_delete.go, bpf/wg_mix_faketcp.h).                      *)
(*                                                                         *)
(* Engine.mu makes one engine call run at a time, so a call is one step,   *)
(* except that BPF programs on other CPUs go on changing session values:   *)
(* between the lookup, the claim and the delete of one compare-delete, and *)
(* between the flows of one Tick, their steps interleave.                  *)
(*                                                                         *)
(* Sequence numbers appear as "the acknowledgement matches or does not",   *)
(* time as a nondeterministic due or idle, packet lengths as one byte, and *)
(* the SYN rate limiter as its verdict (module SynAdmission has it whole). *)
(***************************************************************************)
EXTENDS Naturals, Sequences, FiniteSets, Functions

CONSTANTS Flows, Sources, SourceOf,   \* flows and the remote each comes from
          Packets,                    \* outbound packets BPF may capture
          SessionCapacity, MaxHalfOpenSessions, MaxHalfOpenPerSource,
          MaxPendingFlows, MaxPendingPacketsPerFlow, MaxPendingBytes,
          HandshakeRetries,
          MaxSessionID,               \* ^uint64(0) of sessionIDAllocator
          MaxRevision                 \* ~0ULL of faketcp_session_mutate

\* The limits newEngine insists on.
OptionsAssumption ==
    /\ SourceOf \in [Flows -> Sources] /\ "none" \notin Sources
    /\ {SessionCapacity, MaxHalfOpenSessions, MaxHalfOpenPerSource, MaxPendingFlows,
        MaxPendingPacketsPerFlow, MaxPendingBytes, HandshakeRetries} \subseteq Nat \ {0}
    /\ MaxPendingFlows <= SessionCapacity
    /\ MaxHalfOpenSessions < SessionCapacity
    /\ MaxHalfOpenPerSource <= MaxHalfOpenSessions
    /\ {MaxSessionID, MaxRevision} \subseteq Nat \ {0}

VARIABLES
    sessions,      \* Engine.sessions, "closed" where the map has no entry
    halfOpen,      \* Engine.halfOpen
    sourceOpen,    \* synSourceState.halfOpen of each source
    pendingFlows,  \* Engine.pendingFlows
    pendingBytes,  \* Engine.pendingBytes
    nextID,        \* sessionIDAllocator.next
    fast,          \* faketcp_session_map
    fate,          \* what has become of each outbound packet
    call,          \* the compare-delete under way
    ticking        \* flows the running Tick has yet to visit

engineVars == <<sessions, halfOpen, sourceOpen, pendingFlows, pendingBytes, nextID>>
vars == <<engineVars, fast, fate, call, ticking>>

None == [flow |-> "none"]
States == {"closed", "syn-sent", "syn-received", "established"}
Reasons == {"peer-close", "idle-timeout"}
Values == [id : 1 .. MaxSessionID, revision : 1 .. MaxRevision]
Deletes == [expected : Values, reason : Reasons]
Calls == [flow : Flows, request : Deletes, step : {"claim", "delete"}]

Session == [state : States, retries : 0 .. HandshakeRetries, pending : Seq(Packets),
            held : BOOLEAN, source : Sources \cup {"none"}, id : 0 .. MaxSessionID,
            delete : Deletes \cup {None}]

Closed == [state |-> "closed", retries |-> 0, pending |-> << >>, held |-> FALSE,
           source |-> "none", id |-> 0, delete |-> None]

HalfOpen(f) == sessions[f].state \in {"syn-sent", "syn-received"}
Known == {f \in Flows : sessions[f].state # "closed"}
Waiting == {f \in Flows : sessions[f].pending # << >>}

Absent == [id |-> 0, revision |-> 0, active |-> FALSE, claimed |-> FALSE]
Present(f) == fast[f] # Absent

\* The value a lookup returns.  Its sequence numbers and last_seen_nanos change
\* only together with the revision.
Value(f) == [id |-> fast[f].id, revision |-> fast[f].revision]

Init ==
    /\ sessions = [f \in Flows |-> Closed]
    /\ halfOpen = 0
    /\ sourceOpen = [s \in Sources |-> 0]
    /\ pendingFlows = 0
    /\ pendingBytes = 0
    /\ nextID = 0
    /\ fast = [f \in Flows |-> Absent]
    /\ fate = [p \in Packets |-> "wire"]
    /\ call = None
    /\ ticking = {}

-----------------------------------------------------------------------------
(* Helpers of the engine *)

\* releaseHalfOpen: the counters go down together with the session's hold.
ReleaseHalfOpen(f) ==
    LET held == sessions[f].held
        source == sessions[f].source
    IN /\ halfOpen' = IF held /\ halfOpen > 0 THEN halfOpen - 1 ELSE halfOpen
       /\ sourceOpen' = [s \in Sources |->
                            IF held /\ s = source /\ sourceOpen[s] > 0
                            THEN sourceOpen[s] - 1 ELSE sourceOpen[s]]

\* Take the session's queue off the two pending counters; the packets meet
\* the given fate.
Unqueue(f, end) ==
    /\ pendingFlows' = IF f \in Waiting THEN pendingFlows - 1 ELSE pendingFlows
    /\ pendingBytes' = pendingBytes - Len(sessions[f].pending)
    /\ fate' = [p \in Packets |->
                   IF p \in Range(sessions[f].pending) THEN end ELSE fate[p]]

\* Faulty variant: the half-open hold survives the session.
CloseKeepsHold(f) ==
    /\ Unqueue(f, "dropped")
    /\ sessions' = [sessions EXCEPT ![f] = Closed]
    /\ UNCHANGED <<halfOpen, sourceOpen, nextID>>

\* remove
RemoveSession(f) ==
    /\ ReleaseHalfOpen(f)
    /\ Unqueue(f, "dropped")
    /\ sessions' = [sessions EXCEPT ![f] = Closed]
    /\ UNCHANGED nextID

\* What lookupEstablished may answer.  A failing store and a value of another
\* lifetime are the same error to the caller.
Lookup(f) ==
    {"error"} \cup (IF ~Present(f) THEN {"missing"}
                   ELSE IF fast[f].claimed \/ fast[f].id # sessions[f].id THEN {}
                   ELSE {"found"})

\* compareDeleteEstablished starts: the store is about to run the claim.
BeginDelete(f, request) ==
    /\ call' = [flow |-> f, request |-> request, step |-> "claim"]
    /\ UNCHANGED <<engineVars, fast, fate>>

\* Engine.mu is free.
Free == call = None /\ ticking = {}

-----------------------------------------------------------------------------
(* Outbound packets captured by BPF: handleOwnedCapturedPacket, outbound *)

\* Faulty variant: the byte limit is not checked.
QueueIgnoresBytes(f) ==
    /\ Len(sessions[f].pending) < MaxPendingPacketsPerFlow
    /\ f \in Waiting \/ pendingFlows < MaxPendingFlows

\* enqueue, in the session that the flow has after the call.
MayQueue(f) ==
    /\ Len(sessions[f].pending) < MaxPendingPacketsPerFlow
    /\ pendingBytes < MaxPendingBytes
    /\ f \in Waiting \/ pendingFlows < MaxPendingFlows

\* Faulty variant: every queued packet counts as a flow.
EnqueueCountsPackets(f, p, session) ==
    /\ sessions' = [sessions EXCEPT ![f] =
          IF MayQueue(f) THEN [session EXCEPT !.pending = Append(@, p)] ELSE session]
    /\ pendingFlows' = IF MayQueue(f) THEN pendingFlows + 1 ELSE pendingFlows
    /\ pendingBytes' = IF MayQueue(f) THEN pendingBytes + 1 ELSE pendingBytes
    /\ fate' = [fate EXCEPT ![p] = IF MayQueue(f) THEN "queued" ELSE "dropped"]

\* The packet joins the session's queue, or the session has no room for it.
Enqueue(f, p, session) ==
    IF MayQueue(f)
    THEN /\ sessions' = [sessions EXCEPT ![f] = [session EXCEPT !.pending = Append(@, p)]]
         /\ pendingFlows' = IF f \in Waiting THEN pendingFlows ELSE pendingFlows + 1
         /\ pendingBytes' = pendingBytes + 1
         /\ fate' = [fate EXCEPT ![p] = "queued"]
    ELSE /\ sessions' = [sessions EXCEPT ![f] = session]
         /\ fate' = [fate EXCEPT ![p] = "dropped"]
         /\ UNCHANGED <<pendingFlows, pendingBytes>>

\* The first packet of a flow starts the handshake, within the capacities.
OutboundNew(f, p) ==
    /\ Free /\ fate[p] = "wire" /\ f \notin Known
    /\ IF Cardinality(Known) >= SessionCapacity \/ halfOpen >= MaxHalfOpenSessions
       THEN /\ fate' = [fate EXCEPT ![p] = "dropped"]
            /\ UNCHANGED engineVars
       ELSE /\ halfOpen' = halfOpen + 1
            /\ Enqueue(f, p, [Closed EXCEPT !.state = "syn-sent", !.retries = 1, !.held = TRUE])
            /\ UNCHANGED <<sourceOpen, nextID>>
    /\ UNCHANGED <<fast, call, ticking>>

OutboundHalfOpen(f, p) ==
    /\ Free /\ fate[p] = "wire" /\ HalfOpen(f)
    /\ Enqueue(f, p, sessions[f])
    /\ UNCHANGED <<halfOpen, sourceOpen, nextID, fast, call, ticking>>

\* The capture was queued before the session was established: the packet is
\* handed back at once, provided the fast session is still there.
OutboundEstablished(f, p) ==
    /\ Free /\ fate[p] = "wire" /\ sessions[f].state = "established"
    /\ sessions[f].delete = None
    /\ \/ /\ "found" \in Lookup(f)
          /\ fate' = [fate EXCEPT ![p] = "released"]
          /\ UNCHANGED engineVars
       \/ /\ "error" \in Lookup(f)
          /\ fate' = [fate EXCEPT ![p] = "dropped"]
          /\ UNCHANGED engineVars
       \/ /\ "missing" \in Lookup(f)
          /\ ReleaseHalfOpen(f)
          /\ sessions' = [sessions EXCEPT ![f] = Closed]
          /\ fate' = [fate EXCEPT ![p] = "dropped"]
          /\ UNCHANGED <<pendingFlows, pendingBytes, nextID>>
    /\ UNCHANGED <<fast, call, ticking>>

\* An established session with an unfinished delete: the packet is spent, and
\* the call does nothing but retry the delete.
OutboundRetryDelete(f, p) ==
    /\ Free /\ fate[p] = "wire" /\ sessions[f].delete # None
    /\ fate' = [fate EXCEPT ![p] = "dropped"]
    /\ call' = [flow |-> f, request |-> sessions[f].delete, step |-> "claim"]
    /\ UNCHANGED <<engineVars, fast, ticking>>

-----------------------------------------------------------------------------
(* Segments of the peer: inbound *)

\* A bare SYN of an unknown flow that the rate limiter has admitted.
InboundSYN(f) ==
    /\ Free /\ f \notin Known
    /\ Cardinality(Known) < SessionCapacity
    /\ halfOpen < MaxHalfOpenSessions
    /\ sourceOpen[SourceOf[f]] < MaxHalfOpenPerSource
    /\ halfOpen' = halfOpen + 1
    /\ sourceOpen' = [sourceOpen EXCEPT ![SourceOf[f]] = @ + 1]
    /\ sessions' = [sessions EXCEPT ![f] =
          [Closed EXCEPT !.state = "syn-received", !.retries = 1, !.held = TRUE,
                         !.source = SourceOf[f]]]
    /\ UNCHANGED <<pendingFlows, pendingBytes, nextID, fast, fate, call, ticking>>

\* Simultaneous open.  The session keeps the hold its outbound SYN took, which
\* no source pays for.
InboundSimultaneousSYN(f) ==
    /\ Free /\ sessions[f].state = "syn-sent"
    /\ sessions' = [sessions EXCEPT ![f].state = "syn-received"]
    /\ UNCHANGED <<halfOpen, sourceOpen, pendingFlows, pendingBytes, nextID, fast, fate,
                   call, ticking>>

\* insertEstablished succeeded: releaseHalfOpen, and the queue is released.
Establish(f) ==
    /\ nextID' = nextID + 1
    /\ fast' = [fast EXCEPT ![f] =
          [id |-> nextID', revision |-> 1, active |-> TRUE, claimed |-> FALSE]]
    /\ ReleaseHalfOpen(f)
    /\ Unqueue(f, "released")
    /\ sessions' = [sessions EXCEPT ![f].state = "established", ![f].held = FALSE,
                                    ![f].pending = << >>, ![f].id = nextID']

\* Faulty variant: the failed insertion forgets to put the queue back.
RestoreWithoutQueue(f) ==
    /\ nextID' \in {nextID} \cup (IF nextID < MaxSessionID THEN {nextID + 1} ELSE {})
    /\ Unqueue(f, "released")
    /\ sessions' = [sessions EXCEPT ![f].pending = << >>]
    /\ UNCHANGED <<halfOpen, sourceOpen, fast>>

\* Faulty variant: the release action goes out although the insertion failed.
RestoreButRelease(f) ==
    /\ fate' = [p \in Packets |->
                   IF p \in Range(sessions[f].pending) THEN "released" ELSE fate[p]]
    /\ UNCHANGED <<engineVars, fast>>

\* insertEstablished failed: no clock, no identifier left, a store that does
\* not answer, or an entry that already exists.  restore puts the checkpoint
\* back, queue and counters included; an identifier already drawn is lost.
RestoreCheckpoint(f) ==
    /\ nextID' \in {nextID} \cup (IF nextID < MaxSessionID THEN {nextID + 1} ELSE {})
    /\ UNCHANGED <<sessions, halfOpen, sourceOpen, pendingFlows, pendingBytes, fast, fate>>

\* The acknowledgement that completes the handshake: SYN|ACK in syn-sent, any
\* ACK in syn-received.
InboundHandshakeACK(f) ==
    /\ Free /\ HalfOpen(f)
    /\ \/ /\ nextID < MaxSessionID /\ ~Present(f)
          /\ Establish(f)
       \/ RestoreCheckpoint(f)
    /\ UNCHANGED <<call, ticking>>

\* RST or FIN on a half-open session.  On an established one inbound drops it:
\* only InboundCapturedControl may close those.
InboundReset(f) ==
    /\ Free /\ HalfOpen(f)
    /\ RemoveSession(f)
    /\ UNCHANGED <<fast, call, ticking>>

\* A data segment on an established session refreshes nothing the engine keeps,
\* but notices that the fast session has gone.
InboundEstablished(f) ==
    /\ Free /\ sessions[f].state = "established" /\ sessions[f].delete = None
    /\ "missing" \in Lookup(f)
    /\ RemoveSession(f)
    /\ UNCHANGED <<fast, call, ticking>>

\* Any segment for a session with an unfinished delete retries the delete.
InboundRetryDelete(f) ==
    /\ Free /\ sessions[f].delete # None
    /\ BeginDelete(f, sessions[f].delete)
    /\ UNCHANGED ticking

\* InboundCapturedControl: RST or FIN of an established session, checked
\* against the value just looked up and then deleted by comparison with it.
InboundCapturedControl(f) ==
    /\ Free /\ sessions[f].state = "established" /\ sessions[f].delete = None
    /\ "found" \in Lookup(f)
    /\ BeginDelete(f, [expected |-> Value(f), reason |-> "peer-close"])
    /\ UNCHANGED ticking

-----------------------------------------------------------------------------
(* Tick: visits every session, in no particular order *)

Tick ==
    /\ Free /\ Known # {}
    /\ ticking' = Known
    /\ UNCHANGED <<engineVars, fast, fate, call>>

\* Not due yet, a keepalive, or a store that does not answer: nothing changes.
TickSkip(f) ==
    /\ call = None /\ f \in ticking
    /\ sessions[f].delete = None
    /\ ticking' = ticking \ {f}
    /\ UNCHANGED <<engineVars, fast, fate, call>>

\* Faulty variant: the retry counter is not advanced.
TickResends(f) ==
    /\ call = None /\ f \in ticking /\ HalfOpen(f)
    /\ UNCHANGED <<engineVars, fate>>
    /\ ticking' = ticking \ {f}
    /\ UNCHANGED <<fast, call>>

\* A half-open session whose retry is due is retried or given up.
TickHalfOpen(f) ==
    /\ call = None /\ f \in ticking /\ HalfOpen(f)
    /\ IF sessions[f].retries >= HandshakeRetries
       THEN RemoveSession(f)
       ELSE /\ sessions' = [sessions EXCEPT ![f].retries = @ + 1]
            /\ UNCHANGED <<halfOpen, sourceOpen, pendingFlows, pendingBytes, nextID, fate>>
    /\ ticking' = ticking \ {f}
    /\ UNCHANGED <<fast, call>>

TickMissing(f) ==
    /\ call = None /\ f \in ticking
    /\ sessions[f].state = "established" /\ sessions[f].delete = None
    /\ "missing" \in Lookup(f)
    /\ RemoveSession(f)
    /\ ticking' = ticking \ {f}
    /\ UNCHANGED <<fast, call>>

\* The value just read has been idle for IdleTimeout.
TickIdle(f) ==
    /\ call = None /\ f \in ticking
    /\ sessions[f].state = "established" /\ sessions[f].delete = None
    /\ "found" \in Lookup(f) /\ ~fast[f].active
    /\ BeginDelete(f, [expected |-> Value(f), reason |-> "idle-timeout"])
    /\ ticking' = ticking \ {f}

TickRetryDelete(f) ==
    /\ call = None /\ f \in ticking /\ sessions[f].delete # None
    /\ BeginDelete(f, sessions[f].delete)
    /\ ticking' = ticking \ {f}

-----------------------------------------------------------------------------
(* The compare-delete: kernel claim, then exact delete *)

\* Faulty variant: a failed delete ends the session all the same.
DeleteErrorRemoves ==
    /\ RemoveSession(call.flow)
    /\ call' = None

\* An error anywhere: the request is retained for the next event of the flow.
DeleteUncertain ==
    /\ sessions' = [sessions EXCEPT ![call.flow].delete = call.request]
    /\ call' = None
    /\ UNCHANGED <<halfOpen, sourceOpen, pendingFlows, pendingBytes, nextID, fate>>

\* Absent or Removed: the session goes.
DeleteDone ==
    /\ RemoveSession(call.flow)
    /\ call' = None

\* Different: the claim authority is stale, the session stays.
DeleteRefused ==
    /\ sessions' = [sessions EXCEPT ![call.flow].delete = None]
    /\ call' = None
    /\ UNCHANGED <<halfOpen, sourceOpen, pendingFlows, pendingBytes, nextID, fate>>

\* Faulty variant: the claim compares the lifetime but not the revision.
MatchesLifetime(f, expected) == Present(f) /\ fast[f].id = expected.id

\* faketcp_session_matches_expected_locked: the whole value, claimed or not.
MatchesExpected(f, expected) == Present(f) /\ Value(f) = expected

\* wg_faketcp_session_claim, run by CompareDeleteEstablished.  The error paths:
\* a binding check before it, a failed test run before or after the program
\* has changed the state.
Claim ==
    /\ call # None /\ call.step = "claim"
    /\ LET f == call.flow
           claimed == [fast EXCEPT ![f].claimed = TRUE]
       IN \/ DeleteUncertain /\ UNCHANGED fast
          \/ ~Present(f) /\ DeleteDone /\ UNCHANGED fast
          \/ Present(f) /\ ~MatchesExpected(f, call.request.expected)
             /\ DeleteRefused /\ UNCHANGED fast
          \/ /\ MatchesExpected(f, call.request.expected)
             /\ fast' = claimed
             /\ \/ DeleteUncertain
                \/ call' = [call EXCEPT !.step = "delete"] /\ UNCHANGED <<engineVars, fate>>
    /\ UNCHANGED ticking

\* DeleteSession of the claimed key, after both bindings have been checked
\* again.  An entry that somebody else removed is an error here.
DeleteSession ==
    /\ call # None /\ call.step = "delete"
    /\ \/ DeleteUncertain /\ UNCHANGED fast
       \/ /\ Present(call.flow)
          /\ fast' = [fast EXCEPT ![call.flow] = Absent]
          /\ DeleteDone
    /\ UNCHANGED ticking

-----------------------------------------------------------------------------
(* The fast path on other CPUs *)

\* Faulty variant: the mutation does not look at the claim.
MutatesClaimed(f) == Present(f) /\ fast[f].revision < MaxRevision

\* What faketcp_session_mutate admits.
Mutable(f) == Present(f) /\ ~fast[f].claimed /\ fast[f].revision < MaxRevision

\* MUTATE_TX: traffic of this host counts as a revision, not as peer activity.
FastTX(f) ==
    /\ Mutable(f)
    /\ fast' = [fast EXCEPT ![f].revision = @ + 1]
    /\ UNCHANGED <<engineVars, fate, call, ticking>>

\* MUTATE_RX and MUTATE_TOUCH: the peer is alive.
FastRX(f) ==
    /\ Mutable(f)
    /\ fast' = [fast EXCEPT ![f].revision = @ + 1, ![f].active = TRUE]
    /\ UNCHANGED <<engineVars, fate, call, ticking>>

\* IdleTimeout passes without a packet of the peer.  "active" stands for
\* now - last_seen_nanos < IdleTimeout; the map does not change.
Idle(f) ==
    /\ Present(f) /\ fast[f].active
    /\ fast' = [fast EXCEPT ![f].active = FALSE]
    /\ UNCHANGED <<engineVars, fate, call, ticking>>

\* Somebody other than the daemon (an operator's bpftool) removes the entry;
\* the engine's "fast-session-missing" paths expect it.
ForeignDelete(f) ==
    /\ Present(f)
    /\ fast' = [fast EXCEPT ![f] = Absent]
    /\ UNCHANGED <<engineVars, fate, call, ticking>>

-----------------------------------------------------------------------------

Next ==
    \/ \E f \in Flows, p \in Packets :
          OutboundNew(f, p) \/ OutboundHalfOpen(f, p) \/ OutboundEstablished(f, p)
          \/ OutboundRetryDelete(f, p)
    \/ \E f \in Flows :
          \/ InboundSYN(f) \/ InboundSimultaneousSYN(f) \/ InboundHandshakeACK(f)
          \/ InboundReset(f) \/ InboundEstablished(f) \/ InboundRetryDelete(f)
          \/ InboundCapturedControl(f)
          \/ TickSkip(f) \/ TickHalfOpen(f) \/ TickMissing(f) \/ TickIdle(f)
          \/ TickRetryDelete(f)
          \/ FastTX(f) \/ FastRX(f) \/ Idle(f) \/ ForeignDelete(f)
    \/ Tick \/ Claim \/ DeleteSession

Spec == Init /\ [][Next]_vars

-----------------------------------------------------------------------------
(* Properties *)

\* Every variable has its type: the engine's counters never leave the limits of
\* its Options, on any path that opens, moves or removes a session.
TypeOK ==
    /\ sessions \in [Flows -> Session]
    /\ halfOpen \in 0 .. MaxHalfOpenSessions
    /\ sourceOpen \in [Sources -> 0 .. MaxHalfOpenPerSource]
    /\ pendingFlows \in 0 .. MaxPendingFlows
    /\ pendingBytes \in 0 .. MaxPendingBytes
    /\ nextID \in 0 .. MaxSessionID
    /\ fast \in [Flows -> [id : 0 .. MaxSessionID, revision : 0 .. MaxRevision,
                           active : BOOLEAN, claimed : BOOLEAN]]
    /\ fate \in [Packets -> {"wire", "queued", "released", "dropped"}]
    /\ call \in Calls \cup {None}
    /\ ticking \subseteq Flows

\* The half-open counters are exact: every session that is still shaking hands
\* is counted once, globally and for its source, and no other session is.
\* They gate admission, so a leak would lock new flows out for good.
HalfOpenExact ==
    LET holders == {f \in Flows : sessions[f].held}
    IN /\ holders = {f \in Flows : HalfOpen(f)}
       /\ halfOpen = Cardinality(holders)
       /\ \A s \in Sources :
             sourceOpen[s] = Cardinality({f \in holders : sessions[f].source = s})

\* The pending counters are exact across enqueue, release, remove and the
\* restored checkpoint, and only half-open sessions queue packets.
PendingExact ==
    /\ pendingFlows = Cardinality(Waiting)
    /\ pendingBytes = Cardinality({p \in Packets : fate[p] = "queued"})
    /\ \A f \in Waiting : HalfOpen(f)

\* The queues a packet is in, and where in them.
Places(p) ==
    {x \in Flows \X (1 .. MaxPendingPacketsPerFlow) :
        /\ x[2] <= Len(sessions[x[1]].pending)
        /\ sessions[x[1]].pending[x[2]] = p}

\* A captured packet is in one queue once, or out of all queues for good.  In
\* particular a failed insertEstablished never leaves a packet both released
\* and queued.
PacketInOnePlace ==
    \A p \in Packets : Cardinality(Places(p)) = IF fate[p] = "queued" THEN 1 ELSE 0

\* The counters of the engine are exact.
CountersExact == HalfOpenExact /\ PendingExact /\ PacketInOnePlace

\* Every entry of the BPF map belongs to the engine's established session of
\* the same lifetime: no orphan keeps forwarding or blocks a new handshake.
FastSessionOwned ==
    \A f \in Flows : Present(f) =>
        sessions[f].state = "established" /\ sessions[f].id = fast[f].id

\* A tombstone always has a retry that matches it: the uncertain delete is kept
\* with exactly the value that was claimed, for whoever calls the engine next.
TombstoneOwned ==
    \A f \in Flows : fast[f].claimed =>
        \/ sessions[f].delete # None /\ sessions[f].delete.expected = Value(f)
        \/ call # None /\ call.flow = f /\ call.request.expected = Value(f)

\* Of every step: queued packets are released only by the step that hands their flow to the
\* fast path, which will encode them when they are injected again.
ReleaseMeansEstablished ==
    \A f \in Flows : \A p \in Range(sessions[f].pending) :
        fate'[p] = "released" => fast'[f] # Absent /\ fast'[f].id = sessions'[f].id

\* Of every step: a session is claimed for idleness only if its peer has not been heard since
\* the lookup that found it idle, however long ago that was.
IdleClaimsIdle ==
    \A f \in Flows :
        ~fast[f].claimed /\ fast'[f].claimed /\ call.request.reason = "idle-timeout"
          => ~fast[f].active

\* The fast path belongs to the engine: its entries, its tombstones, what is
\* claimed and what is released to it.
FastPathOwned ==
    /\ [](FastSessionOwned /\ TombstoneOwned)
    /\ [][IdleClaimsIdle /\ ReleaseMeansEstablished]_vars
=============================================================================

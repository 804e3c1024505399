------------------------ MODULE FakeTCPEngineProofs ------------------------
(***************************************************************************)
(* Proofs about the FakeTCP engine, for every number of flows, packets and *)
(* sources and every limit that newEngine accepts: its counters are exact, *)
(* and the fast path belongs to it.                                        *)
(***************************************************************************)
EXTENDS FakeTCPEngine, TLAPS

(* The inductive invariant *)

Holders == {f \in Flows : sessions[f].held}
HoldersOf(s) == {f \in Flows : sessions[f].held /\ sessions[f].source = s}
Queued == {p \in Packets : fate[p] = "queued"}
Queue(f) == sessions[f].pending

\* The type invariant in two parts: Engine.mu's state, and the rest.
EngineTyped ==
    /\ sessions \in [Flows -> Session]
    /\ halfOpen \in 0 .. MaxHalfOpenSessions
    /\ sourceOpen \in [Sources -> 0 .. MaxHalfOpenPerSource]
    /\ pendingFlows \in 0 .. MaxPendingFlows
    /\ pendingBytes \in 0 .. MaxPendingBytes
    /\ nextID \in 0 .. MaxSessionID
    /\ fate \in [Packets -> {"wire", "queued", "released", "dropped"}]

FastTyped ==
    /\ fast \in [Flows -> [id : 0 .. MaxSessionID, revision : 0 .. MaxRevision,
                           active : BOOLEAN, claimed : BOOLEAN]]
    /\ call \in Calls \cup {None}
    /\ ticking \subseteq Flows

\* A session holds a place among the half-open ones exactly while it shakes
\* hands, and the counters count the holders.
HoldInv ==
    /\ \A f \in Flows : sessions[f].held <=> HalfOpen(f)
    /\ IsFiniteSet(Holders)
    /\ halfOpen = Cardinality(Holders)
    /\ \A s \in Sources : sourceOpen[s] = Cardinality(HoldersOf(s))

\* The queued packets are those in the queues, each in one place of one queue.
QueueInv ==
    /\ \A f \in Flows : Len(Queue(f)) <= MaxPendingPacketsPerFlow
    /\ \A f \in Flows : Queue(f) # << >> => HalfOpen(f)
    /\ \A p \in Packets :
          fate[p] = "queued" <=> \E f \in Flows : \E i \in 1 .. Len(Queue(f)) : Queue(f)[i] = p
    /\ \A f, g \in Flows : \A i \in 1 .. Len(Queue(f)), j \in 1 .. Len(Queue(g)) :
          Queue(f)[i] = Queue(g)[j] => f = g /\ i = j

\* The pending counters count the flows that wait and the packets they queue.
PendingInv ==
    /\ IsFiniteSet(Waiting) /\ pendingFlows = Cardinality(Waiting)
    /\ IsFiniteSet(Queued) /\ pendingBytes = Cardinality(Queued)

\* The delete d is under way for the flow, or retained for it.
Asked(f, d) ==
    \/ sessions[f].delete = d
    \/ call # None /\ call.flow = f /\ call.request = d

\* Only established sessions are deleted, one request at a time for each.
DeleteInv ==
    /\ \A f \in Flows : sessions[f].delete # None => sessions[f].state = "established"
    /\ call # None => /\ sessions[call.flow].state = "established"
                      /\ sessions[call.flow].delete \in {None, call.request}

\* An entry of the session map is the established session of its flow, and its
\* identity has been drawn.
EntryInv ==
    /\ FastSessionOwned
    /\ \A f \in Flows : fast[f].id <= nextID
    /\ \A f \in Flows : fast[f] = Absent \/ (fast[f].id > 0 /\ fast[f].revision > 0)

\* A delete was asked for a value the map has had: of this lifetime or an older
\* one, of this revision or an older one; and if the map still has that value
\* and it was found idle, its peer has not been heard since.
RequestInv ==
    \A f \in Flows : \A d \in Deletes : Asked(f, d) =>
        /\ d.expected.id <= nextID
        /\ fast[f].id = d.expected.id => d.expected.revision <= fast[f].revision
        /\ d.reason = "idle-timeout" /\ Value(f) = d.expected => ~fast[f].active

CountInv == EngineTyped /\ HoldInv /\ QueueInv /\ PendingInv

FastInv == FastTyped /\ DeleteInv /\ EntryInv /\ RequestInv /\ TombstoneOwned

EngineInv == CountInv /\ FastInv

-----------------------------------------------------------------------------
(* What the counters use of finite sets. The lemmas below take these facts as a
   hypothesis; FiniteFactsHold proves them from the library's theorems, where the
   theorems of this module are put together. *)

FiniteFacts ==
    /\ \A S : IsFiniteSet(S) => Cardinality(S) \in Nat /\ (Cardinality(S) = 0 <=> S = {})
    /\ \A S : \A T \in SUBSET S : IsFiniteSet(S) => IsFiniteSet(T)
    /\ \A S, x : IsFiniteSet(S) =>
          /\ IsFiniteSet(S \cup {x})
          /\ Cardinality(S \cup {x}) =
                IF x \in S THEN Cardinality(S) ELSE Cardinality(S) + 1
    /\ \A S, x : IsFiniteSet(S) =>
          /\ IsFiniteSet(S \ {x})
          /\ Cardinality(S \ {x}) =
                IF x \in S THEN Cardinality(S) - 1 ELSE Cardinality(S)
    /\ \A S : \A T \in SUBSET S : IsFiniteSet(S) =>
          IsFiniteSet(S \ T) /\ Cardinality(S \ T) = Cardinality(S) - Cardinality(T)
    /\ \A S : \A q \in Seq(S) :
          (\A i, j \in 1 .. Len(q) : q[i] = q[j] => i = j)
            => IsFiniteSet(Range(q)) /\ Cardinality(Range(q)) = Len(q)

\* The number of members of a finite set.
LEMMA CardinalityIsNat ==
    ASSUME FiniteFacts, NEW S, IsFiniteSet(S)
    PROVE  Cardinality(S) \in Nat /\ (Cardinality(S) = 0 <=> S = {})
BY Zenon DEF FiniteFacts

\* A subset of a finite set is finite.
LEMMA SubsetIsFinite ==
    ASSUME FiniteFacts, NEW S, IsFiniteSet(S), NEW T \in SUBSET S
    PROVE  IsFiniteSet(T)
BY Zenon DEF FiniteFacts

\* A finite set with one more member.
LEMMA OneMore ==
    ASSUME FiniteFacts, NEW S, NEW x, IsFiniteSet(S)
    PROVE  /\ IsFiniteSet(S \cup {x})
           /\ Cardinality(S \cup {x}) =
                 IF x \in S THEN Cardinality(S) ELSE Cardinality(S) + 1
BY Zenon DEF FiniteFacts

\* A finite set with one member less.
LEMMA OneLess ==
    ASSUME FiniteFacts, NEW S, NEW x, IsFiniteSet(S)
    PROVE  /\ IsFiniteSet(S \ {x})
           /\ Cardinality(S \ {x}) =
                 IF x \in S THEN Cardinality(S) - 1 ELSE Cardinality(S)
BY Zenon DEF FiniteFacts

\* A finite set without some of its members.
LEMMA SomeLess ==
    ASSUME FiniteFacts, NEW S, IsFiniteSet(S), NEW T \in SUBSET S
    PROVE  IsFiniteSet(S \ T) /\ Cardinality(S \ T) = Cardinality(S) - Cardinality(T)
BY Zenon DEF FiniteFacts

\* An injective sequence has as many values as places.
LEMMA ValuesOfQueue ==
    ASSUME FiniteFacts, NEW S, NEW q \in Seq(S),
           \A i, j \in 1 .. Len(q) : q[i] = q[j] => i = j
    PROVE  IsFiniteSet(Range(q)) /\ Cardinality(Range(q)) = Len(q)
BY Zenon DEF FiniteFacts

-----------------------------------------------------------------------------
(* Constants and types *)

\* The limits of the Options are positive numbers.
LEMMA Limits ==
    ASSUME OptionsAssumption
    PROVE  /\ SessionCapacity \in Nat /\ MaxHalfOpenSessions \in Nat \ {0}
           /\ MaxHalfOpenPerSource \in Nat \ {0} /\ MaxPendingFlows \in Nat \ {0}
           /\ MaxPendingPacketsPerFlow \in Nat \ {0} /\ MaxPendingBytes \in Nat \ {0}
           /\ HandshakeRetries \in Nat \ {0}
           /\ MaxSessionID \in Nat \ {0} /\ MaxRevision \in Nat \ {0}
           /\ SourceOf \in [Flows -> Sources] /\ "none" \notin Sources
BY Zenon DEF OptionsAssumption

\* Requests and calls are told apart from their absence.
LEMMA RequestsAreThere ==
    /\ \A d \in Deletes : d # None
    /\ \A c \in Calls : c # None
<1>1. DOMAIN None = {"flow"}
  BY Zenon DEF None
<1>2. ASSUME NEW d \in Deletes PROVE d # None
  <2>1. DOMAIN d = {"expected", "reason"}
    BY Zenon DEF Deletes
  <2> QED BY <1>1, <2>1, Zenon
<1>3. ASSUME NEW c \in Calls PROVE c # None
  <2>1. DOMAIN c = {"flow", "request", "step"}
    BY Zenon DEF Calls
  <2> QED BY <1>1, <2>1
<1> QED BY <1>2, <1>3, Zenon

\* A call under way is one of the calls, and a retained request is a request.
LEMMA CallTyped ==
    ASSUME EngineTyped, FastTyped
    PROVE  /\ call # None => /\ call \in Calls /\ call.flow \in Flows
                             /\ call.request \in Deletes /\ call.step \in {"claim", "delete"}
           /\ \A f \in Flows : sessions[f].delete # None => sessions[f].delete \in Deletes
BY Zenon DEF EngineTyped, FastTyped, Calls, Session

\* The closed session is a session.
LEMMA ClosedTyped ==
    ASSUME OptionsAssumption
    PROVE  Closed \in Session
BY Limits DEF Closed, Session, States

-----------------------------------------------------------------------------
(* Half-open sessions: no step changes them but one that takes a hold and one *)
(* that gives a hold up *)

HoldsSame(g) ==
    /\ sessions'[g].held = sessions[g].held
    /\ sessions'[g].source = sessions[g].source
    /\ HalfOpen(g)' = HalfOpen(g)

HoldsStay ==
    /\ \A g \in Flows : HoldsSame(g)
    /\ UNCHANGED <<halfOpen, sourceOpen>>

HoldTaken(f, source) ==
    /\ \A g \in Flows \ {f} : HoldsSame(g)
    /\ ~sessions[f].held
    /\ sessions'[f].held /\ HalfOpen(f)' /\ sessions'[f].source = source
    /\ halfOpen' = halfOpen + 1
    /\ \A s \in Sources :
          sourceOpen'[s] = IF s = source THEN sourceOpen[s] + 1 ELSE sourceOpen[s]

HoldGivenUp(f) ==
    /\ \A g \in Flows \ {f} : HoldsSame(g)
    /\ ~sessions'[f].held /\ ~HalfOpen(f)'
    /\ ReleaseHalfOpen(f)

\* A step that leaves every hold alone keeps the counters exact.
LEMMA HoldsStayInv ==
    ASSUME HoldInv, HoldsStay
    PROVE  HoldInv'
<1>1. Holders' = Holders
  BY Zenon DEF Holders, HoldsStay, HoldsSame
<1>2. \A s \in Sources : HoldersOf(s)' = HoldersOf(s)
  BY Zenon DEF HoldersOf, HoldsStay, HoldsSame
<1> QED BY <1>1, <1>2, Zenon DEF HoldInv, HoldsStay, HoldsSame

\* holdHalfOpen counts the new session once, and once for the source it names.
LEMMA HoldTakenInv ==
    ASSUME FiniteFacts, HoldInv, NEW f \in Flows, NEW source, HoldTaken(f, source)
    PROVE  HoldInv'
<1>1. Holders' = Holders \cup {f} /\ f \notin Holders
  BY Zenon DEF Holders, HoldTaken, HoldsSame
<1>2. IsFiniteSet(Holders') /\ halfOpen' = Cardinality(Holders')
  BY <1>1, OneMore, Zenon DEF HoldInv, HoldTaken
<1>3. ASSUME NEW s \in Sources PROVE sourceOpen'[s] = Cardinality(HoldersOf(s)')
  <2>1. IsFiniteSet(HoldersOf(s))
    BY SubsetIsFinite, HoldersOf(s) \subseteq Holders, Zenon DEF HoldInv, Holders, HoldersOf
  <2>2. CASE s = source
    <3>1. HoldersOf(s)' = HoldersOf(s) \cup {f} /\ f \notin HoldersOf(s)
      BY <2>2 DEF HoldersOf, HoldTaken, HoldsSame
    <3>2. Cardinality(HoldersOf(s)') = Cardinality(HoldersOf(s)) + 1
      BY <2>1, <3>1, OneMore, Zenon
    <3> QED BY <2>2, <3>2, Zenon DEF HoldInv, HoldTaken
  <2>3. CASE s # source
    <3>1. HoldersOf(s)' = HoldersOf(s)
      BY <2>3, Zenon DEF HoldersOf, HoldTaken, HoldsSame
    <3> QED BY <2>3, <3>1, Zenon DEF HoldInv, HoldTaken
  <2> QED BY <2>2, <2>3, Zenon
<1>4. \A g \in Flows : sessions'[g].held <=> HalfOpen(g)'
  BY Zenon DEF HoldInv, HoldTaken, HoldsSame
<1> QED BY <1>2, <1>3, <1>4, Zenon DEF HoldInv

\* releaseHalfOpen takes off what holdHalfOpen counted, and nothing for a
\* session that holds nothing.
LEMMA HoldGivenUpInv ==
    ASSUME FiniteFacts, EngineTyped, HoldInv, NEW f \in Flows, HoldGivenUp(f)
    PROVE  HoldInv'
<1>1. Holders' = Holders \ {f}
  BY Zenon DEF Holders, HoldGivenUp, HoldsSame
<1>2. IsFiniteSet(Holders) /\ Cardinality(Holders) \in Nat
  BY CardinalityIsNat, Zenon DEF HoldInv
<1>3. IsFiniteSet(Holders') /\ halfOpen' = Cardinality(Holders')
  <2>1. CASE sessions[f].held
    <3>1. f \in Holders
      BY <2>1, Zenon DEF Holders
    <3>2. Cardinality(Holders) > 0
      BY <1>2, <3>1, CardinalityIsNat
    <3> QED BY <1>1, <1>2, <2>1, <3>1, <3>2, OneLess, Zenon
            DEF HoldInv, HoldGivenUp, ReleaseHalfOpen
  <2>2. CASE ~sessions[f].held
    <3>1. Holders' = Holders
      BY <1>1, <2>2, Zenon DEF Holders
    <3> QED BY <1>2, <2>2, <3>1, Zenon DEF HoldInv, HoldGivenUp, ReleaseHalfOpen
  <2> QED BY <2>1, <2>2, Zenon
<1>4. ASSUME NEW s \in Sources PROVE sourceOpen'[s] = Cardinality(HoldersOf(s)')
  <2>1. IsFiniteSet(HoldersOf(s)) /\ Cardinality(HoldersOf(s)) \in Nat
    <3>1. IsFiniteSet(HoldersOf(s))
      BY SubsetIsFinite, HoldersOf(s) \subseteq Holders, Zenon DEF HoldInv, Holders, HoldersOf
    <3> QED BY <3>1, CardinalityIsNat, Zenon
  <2>2. HoldersOf(s)' = HoldersOf(s) \ {f}
    BY Zenon DEF HoldersOf, HoldGivenUp, HoldsSame
  <2>3. CASE f \in HoldersOf(s)
    <3>1. Cardinality(HoldersOf(s)) > 0
      BY <2>1, <2>3, CardinalityIsNat
    <3>2. Cardinality(HoldersOf(s)') = Cardinality(HoldersOf(s)) - 1
      BY <2>1, <2>2, <2>3, OneLess, ZenonT(30)
    <3>3. sessions[f].held /\ sessions[f].source = s /\ sourceOpen[s] > 0
      BY <2>3, <3>1, Zenon DEF HoldInv, HoldersOf
    <3>4. sourceOpen'[s] = sourceOpen[s] - 1
      BY <3>3, Zenon DEF HoldGivenUp, ReleaseHalfOpen
    <3> QED BY <3>2, <3>4, Zenon DEF HoldInv
  <2>4. CASE f \notin HoldersOf(s)
    <3>1. HoldersOf(s)' = HoldersOf(s)
      BY <2>2, <2>4, Zenon
    <3> QED BY <2>4, <3>1, Zenon DEF HoldInv, HoldGivenUp, ReleaseHalfOpen, HoldersOf
  <2> QED BY <2>3, <2>4, Zenon
<1>5. \A g \in Flows : sessions'[g].held <=> HalfOpen(g)'
  BY Zenon DEF HoldInv, HoldGivenUp, HoldsSame
<1> QED BY <1>3, <1>4, <1>5, Zenon DEF HoldInv

-----------------------------------------------------------------------------
(* Queues: no step changes them but one that appends a packet to one of them *)
(* and one that empties one of them *)

QueueSame(g) == Queue(g)' = Queue(g)

QueuesStay ==
    /\ \A g \in Flows : QueueSame(g)
    /\ \A g \in Flows : Queue(g) # << >> => (HalfOpen(g) => HalfOpen(g)')
    /\ \A p \in Packets : fate'[p] = "queued" <=> fate[p] = "queued"
    /\ UNCHANGED <<pendingFlows, pendingBytes>>

PacketJoins(f, p) ==
    /\ \A g \in Flows \ {f} : QueueSame(g) /\ HalfOpen(g)' = HalfOpen(g)
    /\ Queue(f)' = Append(Queue(f), p) /\ HalfOpen(f)'
    /\ Len(Queue(f)) < MaxPendingPacketsPerFlow
    /\ fate[p] # "queued"
    /\ fate' = [fate EXCEPT ![p] = "queued"]
    /\ pendingFlows' = IF f \in Waiting THEN pendingFlows ELSE pendingFlows + 1
    /\ pendingBytes' = pendingBytes + 1

QueueLeaves(f, end) ==
    /\ \A g \in Flows \ {f} : QueueSame(g) /\ HalfOpen(g)' = HalfOpen(g)
    /\ Queue(f)' = << >>
    /\ Unqueue(f, end)

\* The queues are sequences of packets.
LEMMA QueueTyped ==
    ASSUME EngineTyped, NEW f \in Flows
    PROVE  Queue(f) \in Seq(Packets) /\ Len(Queue(f)) \in Nat
BY DEF EngineTyped, Session, Queue

\* A step that leaves every queue alone keeps the pending counters exact.
LEMMA QueuesStayInv ==
    ASSUME QueueInv, PendingInv, QueuesStay
    PROVE  QueueInv' /\ PendingInv'
<1>1. Waiting' = Waiting
  BY Zenon DEF Waiting, QueuesStay, QueueSame, Queue
<1>2. Queued' = Queued
  BY Zenon DEF Queued, QueuesStay
<1>3. PendingInv'
  BY <1>1, <1>2, Zenon DEF PendingInv, QueuesStay
<1>4. \A f \in Flows : Queue(f)' = Queue(f)
  BY Zenon DEF QueuesStay, QueueSame
<1>5. \A f \in Flows : Queue(f)' # << >> => HalfOpen(f)'
  BY <1>4, Zenon DEF QueueInv, QueuesStay
<1>6. \A p \in Packets : fate'[p] = "queued"
        <=> \E f \in Flows : \E i \in 1 .. Len(Queue(f)') : Queue(f)'[i] = p
  BY <1>4 DEF QueueInv, QueuesStay
<1> QED BY <1>3, <1>4, <1>5, <1>6 DEF QueueInv

\* A queued packet is in one place.
LEMMA PlacesDiffer ==
    ASSUME QueueInv, NEW g \in Flows, NEW h \in Flows,
           NEW i \in 1 .. Len(Queue(g)), NEW j \in 1 .. Len(Queue(h)),
           Queue(g)[i] = Queue(h)[j]
    PROVE  g = h /\ i = j
BY DEF QueueInv

\* enqueue: the packet is in its new place only.
LEMMA PacketJoinsInv ==
    ASSUME FiniteFacts, OptionsAssumption, EngineTyped, QueueInv, PendingInv,
           NEW f \in Flows, NEW p \in Packets, PacketJoins(f, p)
    PROVE  QueueInv' /\ PendingInv'
<1> DEFINE n == Len(Queue(f))
<1>1. /\ Queue(f) \in Seq(Packets) /\ n \in Nat
      /\ Len(Queue(f)') = n + 1 /\ Queue(f)'[n + 1] = p
      /\ \A i \in 1 .. n : Queue(f)'[i] = Queue(f)[i]
  BY QueueTyped DEF PacketJoins
<1>2. \A g \in Flows : g # f => Queue(g)' = Queue(g)
  BY Zenon DEF PacketJoins, QueueSame
<1>3. \A g \in Flows : Queue(g) \in Seq(Packets) /\ Len(Queue(g)) \in Nat
  BY QueueTyped, Zenon
<1>4. \A g \in Flows : \A i \in 1 .. Len(Queue(g)) : Queue(g)[i] # p
  BY Zenon DEF QueueInv, PacketJoins
<1>5. \A g \in Flows : \A i \in 1 .. Len(Queue(g)') :
         \/ i \in 1 .. Len(Queue(g)) /\ Queue(g)'[i] = Queue(g)[i]
         \/ g = f /\ i = n + 1 /\ Queue(g)'[i] = p
  BY <1>1, <1>2, <1>3
<1>6. \A g \in Flows : \A i \in 1 .. Len(Queue(g)) :
         i \in 1 .. Len(Queue(g)') /\ Queue(g)'[i] = Queue(g)[i]
  BY <1>1, <1>2, <1>3
<1>7. QueueInv'
  <2>1. \A g \in Flows : Len(Queue(g)') <= MaxPendingPacketsPerFlow
    <3>1. n + 1 <= MaxPendingPacketsPerFlow
      BY <1>1, Limits DEF PacketJoins
    <3> QED BY <1>1, <1>2, <3>1, Limits, Zenon DEF QueueInv
  <2>2. \A g \in Flows : Queue(g)' # << >> => HalfOpen(g)'
    BY <1>2, Zenon DEF QueueInv, PacketJoins
  <2>3. ASSUME NEW q \in Packets
        PROVE  fate'[q] = "queued"
                 <=> \E g \in Flows : \E i \in 1 .. Len(Queue(g)') : Queue(g)'[i] = q
    <3>1. CASE q = p
      <4>1. n + 1 \in 1 .. Len(Queue(f)')
        BY <1>1
      <4>2. fate'[q] = "queued"
        BY <3>1, Zenon DEF PacketJoins, EngineTyped
      <4> QED BY <1>1, <3>1, <4>1, <4>2, Zenon
    <3>2. CASE q # p
      <4>1. fate'[q] = fate[q]
        BY <3>2, Zenon DEF PacketJoins, EngineTyped
      <4> QED BY <1>5, <1>6, <3>2, <4>1 DEF QueueInv
    <3> QED BY <3>1, <3>2, Zenon
  <2>4. ASSUME NEW g \in Flows, NEW h \in Flows, NEW i \in 1 .. Len(Queue(g)'),
               NEW j \in 1 .. Len(Queue(h)'), Queue(g)'[i] = Queue(h)'[j]
        PROVE  g = h /\ i = j
    <3>1. CASE i \in 1 .. Len(Queue(g)) /\ Queue(g)'[i] = Queue(g)[i]
      <4>1. j \in 1 .. Len(Queue(h)) /\ Queue(h)'[j] = Queue(h)[j]
        BY <1>4, <1>5, <2>4, <3>1, Zenon
      <4>2. Queue(g)[i] = Queue(h)[j]
        BY <2>4, <3>1, <4>1, Zenon
      <4> QED BY <3>1, <4>1, <4>2, PlacesDiffer
    <3>2. CASE g = f /\ i = n + 1 /\ Queue(g)'[i] = p
      <4>1. h = f /\ j = n + 1
        BY <1>4, <1>5, <2>4, <3>2, Zenon
      <4> QED BY <3>2, <4>1, Zenon
    <3> QED BY <1>5, <3>1, <3>2, Zenon
  <2> QED BY <2>1, <2>2, <2>3, <2>4, Zenon DEF QueueInv
<1>8. PendingInv'
  <2>1. Queued' = Queued \cup {p} /\ p \notin Queued
    BY Zenon DEF Queued, PacketJoins, EngineTyped
  <2>2. IsFiniteSet(Queued') /\ pendingBytes' = Cardinality(Queued')
    BY <2>1, OneMore, Zenon DEF PendingInv, PacketJoins
  <2>3. Queue(f)' # << >>
    BY <1>1
  <2>4. Waiting' = Waiting \cup {f}
    BY <1>2, <2>3, Zenon DEF Waiting, Queue
  <2>5. IsFiniteSet(Waiting')
    BY <2>4, OneMore, Zenon DEF PendingInv
  <2>6. Cardinality(Waiting') = IF f \in Waiting THEN Cardinality(Waiting)
                                                 ELSE Cardinality(Waiting) + 1
    BY <2>4, OneMore, Zenon DEF PendingInv
  <2> QED BY <2>2, <2>5, <2>6, Zenon DEF PendingInv, PacketJoins
<1> QED BY <1>7, <1>8, Zenon

\* remove and the release of an established session: the queue leaves whole.
LEMMA QueueLeavesInv ==
    ASSUME FiniteFacts, OptionsAssumption, EngineTyped, QueueInv, PendingInv,
           NEW f \in Flows, NEW end, end # "queued", QueueLeaves(f, end)
    PROVE  QueueInv' /\ PendingInv'
<1> DEFINE gone == Range(Queue(f))
<1>1. /\ \A g \in Flows : Queue(g) \in Seq(Packets) /\ Len(Queue(g)) \in Nat
      /\ Queue(f)' = << >> /\ Len(Queue(f)') = 0
  BY QueueTyped, Zenon DEF QueueLeaves
<1>2. \A g \in Flows : g # f => Queue(g)' = Queue(g)
  BY Zenon DEF QueueLeaves, QueueSame
<1>3. gone = {Queue(f)[i] : i \in 1 .. Len(Queue(f))}
  BY <1>1 DEF Range
<1>4. fate' = [p \in Packets |-> IF p \in gone THEN end ELSE fate[p]]
  BY Zenon DEF QueueLeaves, Unqueue, Queue
<1>5. \A g \in Flows : \A i \in 1 .. Len(Queue(g)) : Queue(g)[i] \in gone <=> g = f
  <2>1. ASSUME NEW g \in Flows, NEW i \in 1 .. Len(Queue(g))
        PROVE  Queue(g)[i] \in gone <=> g = f
    <3>1. ASSUME Queue(g)[i] \in gone PROVE g = f
      <4>1. PICK k \in 1 .. Len(Queue(f)) : Queue(g)[i] = Queue(f)[k]
        BY <1>3, <3>1, Zenon
      <4> QED BY <4>1, PlacesDiffer, Zenon
    <3>2. ASSUME g = f PROVE Queue(g)[i] \in gone
      BY <1>3, <3>2, Zenon
    <3> QED BY <3>1, <3>2, Zenon
  <2> QED BY <2>1, Zenon
<1>6. QueueInv'
  <2>1. ASSUME NEW g \in Flows PROVE Len(Queue(g)') <= MaxPendingPacketsPerFlow
    <3>1. 0 <= MaxPendingPacketsPerFlow
      BY Limits
    <3>2. CASE g = f
      BY <1>1, <3>1, <3>2, Zenon
    <3>3. CASE g # f
      BY <1>2, <3>3, Zenon DEF QueueInv
    <3> QED BY <3>2, <3>3, Zenon
  <2>2. \A g \in Flows : Queue(g)' # << >> => HalfOpen(g)'
    BY <1>1, <1>2, Zenon DEF QueueInv, QueueLeaves
  <2>3. ASSUME NEW q \in Packets
        PROVE  fate'[q] = "queued"
                 <=> \E g \in Flows : \E i \in 1 .. Len(Queue(g)') : Queue(g)'[i] = q
    <3>1. CASE q \in gone
      <4>1. fate'[q] # "queued"
        BY <1>4, <3>1, Zenon
      <4>2. \A g \in Flows : \A i \in 1 .. Len(Queue(g)') : Queue(g)'[i] # q
        BY <1>1, <1>2, <1>5, <3>1
      <4> QED BY <4>1, <4>2, Zenon
    <3>2. CASE q \notin gone
      <4>1. fate'[q] = fate[q]
        BY <1>4, <3>2, Zenon
      <4>2. \A g \in Flows : \A i \in 1 .. Len(Queue(g)) : Queue(g)[i] = q => g # f
        BY <1>5, <3>2, Zenon
      <4>3. ASSUME NEW g \in Flows, NEW i \in 1 .. Len(Queue(g)), Queue(g)[i] = q
            PROVE  \E h \in Flows : \E j \in 1 .. Len(Queue(h)') : Queue(h)'[j] = q
        BY <1>2, <4>2, <4>3, Zenon
      <4>4. ASSUME NEW g \in Flows, NEW i \in 1 .. Len(Queue(g)'), Queue(g)'[i] = q
            PROVE  \E h \in Flows : \E j \in 1 .. Len(Queue(h)) : Queue(h)[j] = q
        BY <1>1, <1>2, <4>4
      <4> QED BY <4>1, <4>3, <4>4 DEF QueueInv
    <3> QED BY <3>1, <3>2, Zenon
  <2>4. \A g, h \in Flows : \A i \in 1 .. Len(Queue(g)'), j \in 1 .. Len(Queue(h)') :
           Queue(g)'[i] = Queue(h)'[j] => g = h /\ i = j
    BY <1>1, <1>2 DEF QueueInv
  <2> QED BY <2>1, <2>2, <2>3, <2>4, Zenon DEF QueueInv
<1>7. PendingInv'
  <2>1. \A i, j \in 1 .. Len(Queue(f)) : Queue(f)[i] = Queue(f)[j] => i = j
    BY DEF QueueInv
  <2>2. IsFiniteSet(gone) /\ Cardinality(gone) = Len(Queue(f))
    BY <1>1, <2>1, ValuesOfQueue, Zenon
  <2>3. gone \subseteq Queued
    <3>1. \A i \in 1 .. Len(Queue(f)) : Queue(f)[i] \in Packets
      BY <1>1
    <3>2. \A i \in 1 .. Len(Queue(f)) : fate[Queue(f)[i]] = "queued"
      BY <3>1, Zenon DEF QueueInv
    <3> QED BY <1>3, <3>1, <3>2, Zenon DEF Queued
  <2>4. Queued' = Queued \ gone
    BY <1>4, Zenon DEF Queued
  <2>5. IsFiniteSet(Queued')
    BY <2>3, <2>4, SomeLess, Zenon DEF PendingInv
  <2>6. Cardinality(Queued') = Cardinality(Queued) - Cardinality(gone)
    BY <2>3, <2>4, SomeLess, Zenon DEF PendingInv
  <2>7. pendingBytes' = Cardinality(Queued')
    BY <2>2, <2>6, Zenon DEF PendingInv, QueueLeaves, Unqueue, Queue
  <2>8. Waiting' = Waiting \ {f}
    BY <1>1, <1>2, Zenon DEF Waiting, Queue
  <2>9. IsFiniteSet(Waiting')
    BY <2>8, OneLess, Zenon DEF PendingInv
  <2>10. Cardinality(Waiting') = IF f \in Waiting THEN Cardinality(Waiting) - 1
                                                  ELSE Cardinality(Waiting)
    BY <2>8, OneLess, Zenon DEF PendingInv
  <2>11. pendingFlows' = Cardinality(Waiting')
    BY <2>10, Zenon DEF PendingInv, QueueLeaves, Unqueue
  <2> QED BY <2>5, <2>7, <2>9, <2>11, Zenon DEF PendingInv
<1> QED BY <1>6, <1>7, Zenon

-----------------------------------------------------------------------------
(* What a step does to the engine's counters *)

\* The pending counters are within their limits when the queues only shrink.
LEMMA PendingTyped ==
    ASSUME FiniteFacts, OptionsAssumption, CountInv, PendingInv',
           pendingFlows' <= pendingFlows, pendingBytes' <= pendingBytes
    PROVE  pendingFlows' \in 0 .. MaxPendingFlows /\ pendingBytes' \in 0 .. MaxPendingBytes
<1>1. pendingFlows' \in Nat /\ pendingBytes' \in Nat
  BY CardinalityIsNat, Zenon DEF PendingInv
<1> QED BY <1>1, Limits DEF CountInv, EngineTyped

\* releaseHalfOpen keeps the counters within their limits.
LEMMA ReleaseTyped ==
    ASSUME OptionsAssumption, CountInv, NEW f \in Flows, ReleaseHalfOpen(f)
    PROVE  /\ halfOpen' \in 0 .. MaxHalfOpenSessions
           /\ sourceOpen' \in [Sources -> 0 .. MaxHalfOpenPerSource]
BY Limits DEF CountInv, EngineTyped, ReleaseHalfOpen

\* remove.
LEMMA RemoveCount ==
    ASSUME FiniteFacts, OptionsAssumption, CountInv, NEW f \in Flows, RemoveSession(f)
    PROVE  CountInv'
<1>1. /\ \A g \in Flows \ {f} : sessions'[g] = sessions[g]
      /\ sessions'[f] = Closed
      /\ sessions' \in [Flows -> Session]
  BY ClosedTyped, Zenon DEF CountInv, EngineTyped, RemoveSession
<1>2. ~sessions'[f].held /\ ~HalfOpen(f)' /\ Queue(f)' = << >>
  BY <1>1 DEF Closed, HalfOpen, Queue
<1>3. \A g \in Flows \ {f} : HoldsSame(g) /\ QueueSame(g) /\ HalfOpen(g)' = HalfOpen(g)
  BY <1>1, Zenon DEF HoldsSame, QueueSame, Queue, HalfOpen
<1>4. HoldGivenUp(f) /\ QueueLeaves(f, "dropped")
  BY <1>2, <1>3, Zenon DEF HoldGivenUp, QueueLeaves, RemoveSession
<1>5. HoldInv' /\ QueueInv' /\ PendingInv'
  BY <1>4, HoldGivenUpInv, QueueLeavesInv, Zenon DEF CountInv
<1>6. Len(sessions[f].pending) \in Nat /\ pendingFlows \in Nat /\ pendingBytes \in Nat
  <2>1. /\ Queue(f) \in Seq(Packets) /\ pendingFlows \in 0 .. MaxPendingFlows
        /\ pendingBytes \in 0 .. MaxPendingBytes
    BY QueueTyped, Zenon DEF CountInv, EngineTyped
  <2>2. Len(Queue(f)) \in Nat /\ pendingFlows \in Nat /\ pendingBytes \in Nat
    BY <2>1, Limits
  <2> QED BY <2>2, Zenon DEF Queue
<1>7. pendingFlows' <= pendingFlows /\ pendingBytes' <= pendingBytes
  BY <1>6 DEF RemoveSession, Unqueue
<1>8. fate' \in [Packets -> {"wire", "queued", "released", "dropped"}]
  BY Zenon DEF RemoveSession, Unqueue, CountInv, EngineTyped
<1>9. nextID' \in 0 .. MaxSessionID
  BY Zenon DEF RemoveSession, CountInv, EngineTyped
<1>10. ReleaseHalfOpen(f)
  BY Zenon DEF RemoveSession
<1>11. EngineTyped'
  BY <1>1, <1>5, <1>7, <1>8, <1>9, <1>10, PendingTyped, ReleaseTyped, Zenon DEF EngineTyped
<1> QED BY <1>5, <1>11, Zenon DEF CountInv

\* A packet that never was in a queue meets its end.
LEMMA FateCount ==
    ASSUME CountInv, NEW p \in Packets, NEW end \in {"released", "dropped"},
           fate[p] = "wire", fate' = [fate EXCEPT ![p] = end], UNCHANGED engineVars
    PROVE  CountInv'
<1>1. EngineTyped' /\ sessions' = sessions
  BY Zenon DEF CountInv, EngineTyped, engineVars
<1>2. \A q \in Packets : fate'[q] = "queued" <=> fate[q] = "queued"
  BY Zenon DEF CountInv, EngineTyped
<1>3. HoldsStay /\ QueuesStay
  BY <1>1, <1>2, Zenon DEF HoldsStay, HoldsSame, HalfOpen, QueuesStay, QueueSame, Queue, engineVars
<1> QED BY <1>1, <1>3, HoldsStayInv, QueuesStayInv, Zenon DEF CountInv

\* A session changes in what no counter looks at.
LEMMA SessionCount ==
    ASSUME CountInv, NEW f \in Flows, NEW x \in Session,
           sessions' = [sessions EXCEPT ![f] = x],
           x.held = sessions[f].held, x.source = sessions[f].source,
           x.pending = sessions[f].pending,
           x.state \in {"syn-sent", "syn-received"} <=> HalfOpen(f),
           UNCHANGED <<halfOpen, sourceOpen, pendingFlows, pendingBytes, nextID, fate>>
    PROVE  CountInv'
<1>1. EngineTyped'
  BY Zenon DEF CountInv, EngineTyped
<1>2. /\ \A g \in Flows \ {f} : sessions'[g] = sessions[g]
      /\ sessions'[f] = x
  BY Zenon DEF CountInv, EngineTyped
<1>3. \A g \in Flows : HoldsSame(g) /\ QueueSame(g) /\ HalfOpen(g)' = HalfOpen(g)
  BY <1>2 DEF HoldsSame, QueueSame, Queue, HalfOpen
<1>4. HoldsStay /\ QueuesStay
  BY <1>3, Zenon DEF HoldsStay, QueuesStay
<1> QED BY <1>1, <1>4, HoldsStayInv, QueuesStayInv, Zenon DEF CountInv

\* Nothing of the engine changes, except that an identity may be drawn.
LEMMA StayCount ==
    ASSUME CountInv, UNCHANGED <<sessions, halfOpen, sourceOpen, pendingFlows, pendingBytes, fate>>,
           nextID' \in 0 .. MaxSessionID
    PROVE  CountInv'
<1>1. EngineTyped'
  BY Zenon DEF CountInv, EngineTyped
<1>2. HoldsStay /\ QueuesStay
  BY Zenon DEF HoldsStay, HoldsSame, HalfOpen, QueuesStay, QueueSame, Queue
<1> QED BY <1>1, <1>2, HoldsStayInv, QueuesStayInv, Zenon DEF CountInv

\* enqueue into the session x that the flow has after the call.
LEMMA EnqueueCount ==
    ASSUME FiniteFacts, OptionsAssumption, CountInv, NEW f \in Flows, NEW p \in Packets,
           NEW x \in Session,
           fate[p] = "wire", Enqueue(f, p, x), x.pending = sessions[f].pending,
           x.state \in {"syn-sent", "syn-received"}
    PROVE  /\ sessions' \in [Flows -> Session]
           /\ \A g \in Flows \ {f} : sessions'[g] = sessions[g]
           /\ /\ sessions'[f].held = x.held
              /\ sessions'[f].source = x.source
              /\ sessions'[f].state = x.state
           /\ pendingFlows' \in 0 .. MaxPendingFlows
           /\ pendingBytes' \in 0 .. MaxPendingBytes
           /\ fate' \in [Packets -> {"wire", "queued", "released", "dropped"}]
           /\ QueueInv' /\ PendingInv'
<1> USE DEF CountInv
<1>1. CASE MayQueue(f)
  <2> DEFINE y == [x EXCEPT !.pending = Append(@, p)]
  <2>1. sessions' = [sessions EXCEPT ![f] = y]
    BY <1>1, Zenon DEF Enqueue
  <2>2. /\ y.held = x.held /\ y.source = x.source /\ y.state = x.state
        /\ y.pending = Append(x.pending, p)
    BY Zenon DEF Session
  <2>3. y \in Session
    <3>1. Append(x.pending, p) \in Seq(Packets)
      BY DEF Session
    <3> QED BY <3>1, Zenon DEF Session
  <2>4. /\ sessions' \in [Flows -> Session]
        /\ \A g \in Flows \ {f} : sessions'[g] = sessions[g]
        /\ sessions'[f] = y
    BY <2>1, <2>3, Zenon DEF EngineTyped
  <2> HIDE DEF y
  <2>5. \A g \in Flows \ {f} : QueueSame(g) /\ HalfOpen(g)' = HalfOpen(g)
    BY <2>4, Zenon DEF QueueSame, Queue, HalfOpen
  <2>6. Queue(f)' = Append(Queue(f), p) /\ HalfOpen(f)'
    BY <2>2, <2>4, Zenon DEF Queue, HalfOpen
  <2>7. PacketJoins(f, p)
    BY <1>1, <2>5, <2>6, Zenon DEF PacketJoins, Enqueue, MayQueue, Queue
  <2>8. QueueInv' /\ PendingInv'
    BY <2>7, PacketJoinsInv, Zenon
  <2>9. pendingFlows' \in 0 .. MaxPendingFlows /\ pendingBytes' \in 0 .. MaxPendingBytes
    <3>1. pendingFlows \in 0 .. MaxPendingFlows /\ pendingBytes \in 0 .. MaxPendingBytes
      BY Zenon DEF EngineTyped
    <3>2. /\ pendingBytes < MaxPendingBytes /\ pendingBytes' = pendingBytes + 1
          /\ \/ pendingFlows' = pendingFlows
             \/ pendingFlows < MaxPendingFlows /\ pendingFlows' = pendingFlows + 1
      BY <1>1, Zenon DEF Enqueue, MayQueue
    <3> QED BY <3>1, <3>2, Limits
  <2>10. fate' \in [Packets -> {"wire", "queued", "released", "dropped"}]
    BY <1>1, Zenon DEF Enqueue, EngineTyped
  <2> QED BY <2>2, <2>4, <2>8, <2>9, <2>10, Zenon
<1>2. CASE ~MayQueue(f)
  <2>1. /\ sessions' = [sessions EXCEPT ![f] = x]
        /\ fate' = [fate EXCEPT ![p] = "dropped"]
        /\ UNCHANGED <<pendingFlows, pendingBytes>>
    BY <1>2, Zenon DEF Enqueue
  <2>2. /\ sessions' \in [Flows -> Session]
        /\ \A g \in Flows \ {f} : sessions'[g] = sessions[g]
        /\ sessions'[f] = x
    BY <2>1, Zenon DEF EngineTyped
  <2>3. \A g \in Flows : QueueSame(g) /\ (HalfOpen(g) => HalfOpen(g)')
    BY <2>2, Zenon DEF QueueSame, Queue, HalfOpen
  <2>4. /\ fate' \in [Packets -> {"wire", "queued", "released", "dropped"}]
        /\ \A q \in Packets : fate'[q] = "queued" <=> fate[q] = "queued"
    BY <2>1, Zenon DEF EngineTyped
  <2>5. QueuesStay
    BY <2>1, <2>3, <2>4, Zenon DEF QueuesStay
  <2>6. QueueInv' /\ PendingInv'
    BY <2>5, QueuesStayInv, Zenon
  <2> QED BY <2>1, <2>2, <2>4, <2>6, Zenon DEF EngineTyped
<1> QED BY <1>1, <1>2, Zenon

\* A flow without a session has nothing that a counter counts.
LEMMA UnknownIsEmpty ==
    ASSUME CountInv, NEW f \in Flows, f \notin Known
    PROVE  ~sessions[f].held /\ sessions[f].pending = << >>
BY Zenon DEF CountInv, HoldInv, QueueInv, HalfOpen, Known, Queue

\* outbound, for a flow without a session.
LEMMA OutboundNewCount ==
    ASSUME FiniteFacts, OptionsAssumption, CountInv, NEW f \in Flows, NEW p \in Packets,
           OutboundNew(f, p)
    PROVE  CountInv'
<1>1. CASE Cardinality(Known) >= SessionCapacity \/ halfOpen >= MaxHalfOpenSessions
  BY <1>1, FateCount, Zenon DEF OutboundNew
<1>2. CASE ~(Cardinality(Known) >= SessionCapacity \/ halfOpen >= MaxHalfOpenSessions)
  <2> DEFINE x == [Closed EXCEPT !.state = "syn-sent", !.retries = 1, !.held = TRUE]
  <2>1. /\ x.held /\ x.source = "none" /\ x.pending = << >> /\ x.state = "syn-sent"
        /\ x \in Session
    <3>1. Closed \in Session /\ 1 \in 0 .. HandshakeRetries
      BY ClosedTyped, Limits
    <3>2. x \in Session
      BY <3>1, Zenon DEF Session, States
    <3> QED BY <3>2, Zenon DEF Closed
  <2>2. /\ Enqueue(f, p, x) /\ halfOpen' = halfOpen + 1 /\ fate[p] = "wire"
        /\ sourceOpen' = sourceOpen /\ nextID' = nextID
    BY <1>2, Zenon DEF OutboundNew
  <2> HIDE DEF x
  <2>3. ~sessions[f].held /\ sessions[f].pending = << >>
    BY UnknownIsEmpty, Zenon DEF OutboundNew
  <2>4. /\ sessions' \in [Flows -> Session]
        /\ \A g \in Flows \ {f} : sessions'[g] = sessions[g]
        /\ sessions'[f].held /\ sessions'[f].source = "none" /\ sessions'[f].state = "syn-sent"
        /\ pendingFlows' \in 0 .. MaxPendingFlows /\ pendingBytes' \in 0 .. MaxPendingBytes
        /\ fate' \in [Packets -> {"wire", "queued", "released", "dropped"}]
        /\ QueueInv' /\ PendingInv'
    BY <2>1, <2>2, <2>3, EnqueueCount, Zenon
  <2>5. HoldTaken(f, "none")
    BY <2>2, <2>3, <2>4, Limits, Zenon DEF HoldTaken, HoldsSame, HalfOpen
  <2>6. HoldInv'
    BY <2>5, HoldTakenInv, Zenon DEF CountInv
  <2>7. halfOpen' \in 0 .. MaxHalfOpenSessions
    BY <1>2, <2>2, Limits DEF CountInv, EngineTyped
  <2>8. EngineTyped'
    BY <2>2, <2>4, <2>7, Zenon DEF CountInv, EngineTyped
  <2> QED BY <2>4, <2>6, <2>8, Zenon DEF CountInv
<1> QED BY <1>1, <1>2, Zenon

\* outbound, for a session that shakes hands.
LEMMA OutboundHalfOpenCount ==
    ASSUME FiniteFacts, OptionsAssumption, CountInv, NEW f \in Flows, NEW p \in Packets,
           OutboundHalfOpen(f, p)
    PROVE  CountInv'
<1>1. sessions[f] \in Session /\ sessions[f].state \in {"syn-sent", "syn-received"}
  BY Zenon DEF CountInv, EngineTyped, OutboundHalfOpen, HalfOpen
<1>2. /\ sessions' \in [Flows -> Session]
      /\ \A g \in Flows \ {f} : sessions'[g] = sessions[g]
      /\ sessions'[f].held = sessions[f].held
      /\ sessions'[f].source = sessions[f].source
      /\ sessions'[f].state = sessions[f].state
      /\ pendingFlows' \in 0 .. MaxPendingFlows /\ pendingBytes' \in 0 .. MaxPendingBytes
      /\ fate' \in [Packets -> {"wire", "queued", "released", "dropped"}]
      /\ QueueInv' /\ PendingInv'
  BY <1>1, EnqueueCount, Zenon DEF OutboundHalfOpen
<1>3. HoldsStay
  BY <1>2, Zenon DEF HoldsStay, HoldsSame, HalfOpen, OutboundHalfOpen
<1>4. HoldInv'
  BY <1>3, HoldsStayInv, Zenon DEF CountInv
<1>5. EngineTyped'
  BY <1>2, Zenon DEF CountInv, EngineTyped, OutboundHalfOpen
<1> QED BY <1>2, <1>4, <1>5, Zenon DEF CountInv

\* outbound, for a session that was established meanwhile.
LEMMA OutboundEstablishedCount ==
    ASSUME FiniteFacts, OptionsAssumption, CountInv, NEW f \in Flows, NEW p \in Packets,
           OutboundEstablished(f, p)
    PROVE  CountInv'
<1>1. CASE fate' = [fate EXCEPT ![p] = "released"] /\ UNCHANGED engineVars
  BY <1>1, FateCount, Zenon DEF OutboundEstablished
<1>2. CASE fate' = [fate EXCEPT ![p] = "dropped"] /\ UNCHANGED engineVars
  BY <1>2, FateCount, Zenon DEF OutboundEstablished
<1>3. CASE /\ ReleaseHalfOpen(f)
           /\ sessions' = [sessions EXCEPT ![f] = Closed]
           /\ fate' = [fate EXCEPT ![p] = "dropped"]
           /\ UNCHANGED <<pendingFlows, pendingBytes, nextID>>
  <2>1. /\ \A g \in Flows \ {f} : sessions'[g] = sessions[g]
        /\ sessions'[f] = Closed
        /\ sessions' \in [Flows -> Session]
    BY <1>3, ClosedTyped, Zenon DEF CountInv, EngineTyped
  <2>2. ~HalfOpen(f) /\ sessions[f].pending = << >>
    BY Zenon DEF CountInv, QueueInv, Queue, HalfOpen, OutboundEstablished
  <2>3. ~sessions'[f].held /\ ~HalfOpen(f)' /\ sessions'[f].pending = << >>
    BY <2>1 DEF Closed, HalfOpen
  <2>4. \A g \in Flows \ {f} : HoldsSame(g) /\ HalfOpen(g)' = HalfOpen(g)
    BY <2>1, Zenon DEF HoldsSame, HalfOpen
  <2>5. HoldGivenUp(f)
    BY <1>3, <2>3, <2>4, Zenon DEF HoldGivenUp
  <2>6. /\ fate' \in [Packets -> {"wire", "queued", "released", "dropped"}]
        /\ \A q \in Packets : fate'[q] = "queued" <=> fate[q] = "queued"
    BY <1>3, Zenon DEF CountInv, EngineTyped, OutboundEstablished
  <2>7. \A g \in Flows : QueueSame(g)
    BY <2>1, <2>2, <2>3, Zenon DEF QueueSame, Queue
  <2>8. QueuesStay
    BY <1>3, <2>2, <2>4, <2>6, <2>7, Zenon DEF QueuesStay
  <2>9. HoldInv' /\ QueueInv' /\ PendingInv'
    BY <2>5, <2>8, HoldGivenUpInv, QueuesStayInv, Zenon DEF CountInv
  <2>10. EngineTyped'
    BY <1>3, <2>1, <2>6, ReleaseTyped, Zenon DEF CountInv, EngineTyped
  <2> QED BY <2>9, <2>10, Zenon DEF CountInv
<1> QED BY <1>1, <1>2, <1>3, Zenon DEF OutboundEstablished

\* inbound, for a SYN that the rate limiter has admitted.
LEMMA InboundSYNCount ==
    ASSUME FiniteFacts, OptionsAssumption, CountInv, NEW f \in Flows, InboundSYN(f)
    PROVE  CountInv'
<1> DEFINE x == [Closed EXCEPT !.state = "syn-received", !.retries = 1, !.held = TRUE,
                               !.source = SourceOf[f]]
<1>1. /\ x.held /\ x.source = SourceOf[f] /\ x.pending = << >> /\ x.state = "syn-received"
      /\ x \in Session
  <2>1. Closed \in Session /\ 1 \in 0 .. HandshakeRetries /\ SourceOf[f] \in Sources
    BY ClosedTyped, Limits
  <2>2. x \in Session
    BY <2>1, Zenon DEF Session, States
  <2> QED BY <2>2, Zenon DEF Closed
<1>2. sessions' = [sessions EXCEPT ![f] = x]
  BY Zenon DEF InboundSYN
<1> HIDE DEF x
<1>3. /\ sessions' \in [Flows -> Session]
      /\ \A g \in Flows \ {f} : sessions'[g] = sessions[g]
      /\ sessions'[f] = x
  BY <1>1, <1>2, Zenon DEF CountInv, EngineTyped
<1>4. ~sessions[f].held /\ sessions[f].pending = << >>
  BY UnknownIsEmpty, Zenon DEF InboundSYN
<1>5. \A s \in Sources :
         sourceOpen'[s] = IF s = SourceOf[f] THEN sourceOpen[s] + 1 ELSE sourceOpen[s]
  BY Zenon DEF InboundSYN, CountInv, EngineTyped
<1>6. HoldTaken(f, SourceOf[f])
  BY <1>1, <1>3, <1>4, <1>5, Zenon DEF HoldTaken, HoldsSame, HalfOpen, InboundSYN
<1>7. QueuesStay
  BY <1>1, <1>3, <1>4, Zenon DEF QueuesStay, QueueSame, Queue, HalfOpen, InboundSYN
<1>8. HoldInv' /\ QueueInv' /\ PendingInv'
  BY <1>6, <1>7, HoldTakenInv, QueuesStayInv, Zenon DEF CountInv
<1>9. halfOpen' \in 0 .. MaxHalfOpenSessions
  BY Limits DEF InboundSYN, CountInv, EngineTyped
<1>10. sourceOpen' \in [Sources -> 0 .. MaxHalfOpenPerSource]
  <2>1. SourceOf[f] \in Sources
    BY Limits, Zenon
  <2>2. sourceOpen[SourceOf[f]] + 1 \in 0 .. MaxHalfOpenPerSource
    BY <2>1, Limits DEF InboundSYN, CountInv, EngineTyped
  <2> QED BY <2>1, <2>2, Zenon DEF InboundSYN, CountInv, EngineTyped
<1>11. EngineTyped'
  BY <1>3, <1>9, <1>10, Zenon DEF InboundSYN, CountInv, EngineTyped
<1> QED BY <1>8, <1>11, Zenon DEF CountInv

\* The fields of a session that has just been established.
LEMMA EstablishSession ==
    ASSUME OptionsAssumption, CountInv, NEW f \in Flows, nextID < MaxSessionID, Establish(f)
    PROVE  /\ sessions' \in [Flows -> Session]
           /\ \A g \in Flows \ {f} : sessions'[g] = sessions[g]
           /\ sessions'[f].state = "established" /\ ~sessions'[f].held
           /\ sessions'[f].pending = << >> /\ sessions'[f].id = nextID + 1
           /\ sessions'[f].delete = sessions[f].delete
           /\ nextID' = nextID + 1 /\ nextID + 1 \in 0 .. MaxSessionID
<1>1. nextID' = nextID + 1 /\ nextID + 1 \in 0 .. MaxSessionID
  <2>1. nextID' = nextID + 1
    BY Zenon DEF Establish
  <2>2. nextID \in 0 .. MaxSessionID
    BY Zenon DEF CountInv, EngineTyped
  <2>3. nextID + 1 \in 0 .. MaxSessionID
    BY <2>2, Limits
  <2> QED BY <2>1, <2>3, Zenon
<1> DEFINE s1 == [sessions[f] EXCEPT !.state = "established"]
           s2 == [s1 EXCEPT !.held = FALSE]
           s3 == [s2 EXCEPT !.pending = << >>]
           s4 == [s3 EXCEPT !.id = nextID + 1]
<1>2. sessions \in [Flows -> Session] /\ sessions[f] \in Session
  BY Zenon DEF CountInv, EngineTyped
<1>3. sessions' = [sessions EXCEPT ![f] = s4]
  BY <1>1, <1>2, Zenon DEF Establish
<1>4. s1 \in Session /\ s1.state = "established" /\ s1.delete = sessions[f].delete
  BY <1>2, Zenon DEF Session, States
<1> HIDE DEF s1
<1>5. s2 \in Session /\ s2.state = "established" /\ s2.delete = sessions[f].delete /\ ~s2.held
  BY <1>4, Zenon DEF Session
<1> HIDE DEF s2
<1>6. /\ s3 \in Session /\ s3.state = "established" /\ s3.delete = sessions[f].delete
      /\ ~s3.held /\ s3.pending = << >>
  <2>1. << >> \in Seq(Packets)
    OBVIOUS
  <2> QED BY <1>5, <2>1, Zenon DEF Session
<1> HIDE DEF s3
<1>7. /\ s4 \in Session /\ s4.state = "established" /\ s4.delete = sessions[f].delete
      /\ ~s4.held /\ s4.pending = << >> /\ s4.id = nextID + 1
  BY <1>1, <1>6, Zenon DEF Session
<1> HIDE DEF s4
<1> QED BY <1>1, <1>2, <1>3, <1>7, Zenon

\* insertEstablished succeeded.
LEMMA EstablishCount ==
    ASSUME FiniteFacts, OptionsAssumption, CountInv, NEW f \in Flows, nextID < MaxSessionID,
           Establish(f)
    PROVE  CountInv'
<1>1. /\ sessions' \in [Flows -> Session]
      /\ \A g \in Flows \ {f} : sessions'[g] = sessions[g]
      /\ sessions'[f].state = "established" /\ ~sessions'[f].held
      /\ sessions'[f].pending = << >>
      /\ nextID' \in 0 .. MaxSessionID
  BY EstablishSession, Zenon
<1>2. \A g \in Flows \ {f} : HoldsSame(g) /\ QueueSame(g) /\ HalfOpen(g)' = HalfOpen(g)
  BY <1>1, Zenon DEF HoldsSame, QueueSame, Queue, HalfOpen
<1>3. ~HalfOpen(f)' /\ Queue(f)' = << >>
  BY <1>1, Zenon DEF HalfOpen, Queue
<1>4. HoldGivenUp(f) /\ QueueLeaves(f, "released")
  BY <1>1, <1>2, <1>3, Zenon DEF HoldGivenUp, QueueLeaves, Establish
<1>5. HoldInv' /\ QueueInv' /\ PendingInv'
  BY <1>4, HoldGivenUpInv, QueueLeavesInv, Zenon DEF CountInv
<1>6. Len(sessions[f].pending) \in Nat /\ pendingFlows \in Nat /\ pendingBytes \in Nat
  <2>1. /\ Queue(f) \in Seq(Packets) /\ pendingFlows \in 0 .. MaxPendingFlows
        /\ pendingBytes \in 0 .. MaxPendingBytes
    BY QueueTyped, Zenon DEF CountInv, EngineTyped
  <2>2. Len(Queue(f)) \in Nat /\ pendingFlows \in Nat /\ pendingBytes \in Nat
    BY <2>1, Limits
  <2> QED BY <2>2, Zenon DEF Queue
<1>7. pendingFlows' <= pendingFlows /\ pendingBytes' <= pendingBytes
  BY <1>6 DEF Establish, Unqueue
<1>8. fate' \in [Packets -> {"wire", "queued", "released", "dropped"}]
  BY Zenon DEF Establish, Unqueue, CountInv, EngineTyped
<1>9. ReleaseHalfOpen(f)
  BY Zenon DEF Establish
<1>10. EngineTyped'
  BY <1>1, <1>5, <1>7, <1>8, <1>9, PendingTyped, ReleaseTyped, Zenon DEF EngineTyped
<1> QED BY <1>5, <1>10, Zenon DEF CountInv

\* One field that no counter looks at changes, or the state of a session that
\* goes on shaking hands.
LEMMA MoveCount ==
    ASSUME OptionsAssumption, CountInv, NEW f \in Flows,
           UNCHANGED <<halfOpen, sourceOpen, pendingFlows, pendingBytes, nextID, fate>>,
           \/ HalfOpen(f) /\ sessions' = [sessions EXCEPT ![f].state = "syn-received"]
           \/ /\ sessions[f].retries < HandshakeRetries
              /\ sessions' = [sessions EXCEPT ![f].retries = @ + 1]
           \/ \E d \in Deletes \cup {None} : sessions' = [sessions EXCEPT ![f].delete = d]
    PROVE  CountInv'
<1>1. sessions[f] \in Session /\ sessions \in [Flows -> Session]
  BY Zenon DEF CountInv, EngineTyped
<1>2. CASE HalfOpen(f) /\ sessions' = [sessions EXCEPT ![f].state = "syn-received"]
  <2> DEFINE x == [sessions[f] EXCEPT !.state = "syn-received"]
  <2>1. /\ sessions' = [sessions EXCEPT ![f] = x]
        /\ x \in Session /\ x.state = "syn-received" /\ x.held = sessions[f].held
        /\ x.source = sessions[f].source /\ x.pending = sessions[f].pending
    BY <1>1, <1>2, Zenon DEF Session, States
  <2> QED BY <1>2, <2>1, SessionCount, Zenon DEF HalfOpen
<1>3. CASE /\ sessions[f].retries < HandshakeRetries
           /\ sessions' = [sessions EXCEPT ![f].retries = @ + 1]
  <2> DEFINE x == [sessions[f] EXCEPT !.retries = sessions[f].retries + 1]
  <2>1. sessions[f].retries + 1 \in 0 .. HandshakeRetries
    BY <1>1, <1>3, Limits DEF Session
  <2>2. /\ sessions' = [sessions EXCEPT ![f] = x]
        /\ x \in Session /\ x.state = sessions[f].state /\ x.held = sessions[f].held
        /\ x.source = sessions[f].source /\ x.pending = sessions[f].pending
    BY <1>1, <1>3, <2>1, Zenon DEF Session
  <2> QED BY <2>2, SessionCount, Zenon DEF HalfOpen
<1>4. CASE \E d \in Deletes \cup {None} : sessions' = [sessions EXCEPT ![f].delete = d]
  <2>1. PICK d \in Deletes \cup {None} : sessions' = [sessions EXCEPT ![f].delete = d]
    BY <1>4, Zenon
  <2> DEFINE x == [sessions[f] EXCEPT !.delete = d]
  <2>2. /\ sessions' = [sessions EXCEPT ![f] = x]
        /\ x \in Session /\ x.state = sessions[f].state /\ x.held = sessions[f].held
        /\ x.source = sessions[f].source /\ x.pending = sessions[f].pending
    BY <1>1, <2>1, Zenon DEF Session
  <2> QED BY <2>2, SessionCount, Zenon DEF HalfOpen
<1> QED BY <1>2, <1>3, <1>4, Zenon

\* Claim and DeleteSession end the compare-delete or change the map only.
LEMMA DeleteMoves ==
    ASSUME Claim \/ DeleteSession
    PROVE  \/ DeleteUncertain
           \/ DeleteRefused
           \/ DeleteDone
           \/ UNCHANGED <<engineVars, fate>>
BY Zenon DEF Claim, DeleteSession

\* The counters stay exact and within their limits on every step.
LEMMA CountNext ==
    ASSUME FiniteFacts, OptionsAssumption, CountInv, FastTyped, [Next]_vars
    PROVE  CountInv'
<1>1. ASSUME UNCHANGED <<engineVars, fate>> PROVE CountInv'
  BY <1>1, StayCount, Zenon DEF engineVars, CountInv, EngineTyped
<1>2. ASSUME NEW f \in Flows, NEW p \in Packets,
             OutboundNew(f, p) \/ OutboundHalfOpen(f, p) \/ OutboundEstablished(f, p)
             \/ OutboundRetryDelete(f, p)
      PROVE  CountInv'
  <2>1. CASE OutboundNew(f, p)
    BY <2>1, OutboundNewCount, Zenon
  <2>2. CASE OutboundHalfOpen(f, p)
    BY <2>2, OutboundHalfOpenCount, Zenon
  <2>3. CASE OutboundEstablished(f, p)
    BY <2>3, OutboundEstablishedCount, Zenon
  <2>4. CASE OutboundRetryDelete(f, p)
    BY <2>4, FateCount, Zenon DEF OutboundRetryDelete
  <2> QED BY <1>2, <2>1, <2>2, <2>3, <2>4, Zenon
<1>3. ASSUME NEW f \in Flows,
             \/ InboundSYN(f) \/ InboundSimultaneousSYN(f) \/ InboundHandshakeACK(f)
             \/ InboundReset(f) \/ InboundEstablished(f)
      PROVE  CountInv'
  <2>1. CASE InboundSYN(f)
    BY <2>1, InboundSYNCount, Zenon
  <2>2. CASE InboundSimultaneousSYN(f)
    BY <2>2, MoveCount, Zenon DEF InboundSimultaneousSYN, HalfOpen
  <2>3. CASE InboundHandshakeACK(f)
    <3>1. CASE nextID < MaxSessionID /\ Establish(f)
      BY <3>1, EstablishCount, Zenon
    <3>2. CASE RestoreCheckpoint(f)
      <4>1. nextID' \in 0 .. MaxSessionID
        BY <3>2, Limits DEF RestoreCheckpoint, CountInv, EngineTyped
      <4> QED BY <3>2, <4>1, StayCount, Zenon DEF RestoreCheckpoint
    <3> QED BY <2>3, <3>1, <3>2, Zenon DEF InboundHandshakeACK
  <2>4. CASE InboundReset(f) \/ InboundEstablished(f)
    BY <2>4, RemoveCount, Zenon DEF InboundReset, InboundEstablished
  <2> QED BY <1>3, <2>1, <2>2, <2>3, <2>4, Zenon
<1>4. ASSUME NEW f \in Flows, TickHalfOpen(f) \/ TickMissing(f)
      PROVE  CountInv'
  <2>1. CASE RemoveSession(f)
    BY <2>1, RemoveCount, Zenon
  <2>2. CASE ~RemoveSession(f)
    <3>1. sessions[f].retries \in Nat /\ HandshakeRetries \in Nat
      <4>1. sessions[f] \in Session
        BY Zenon DEF CountInv, EngineTyped
      <4> QED BY <4>1, Limits DEF Session
    <3>2. /\ ~(sessions[f].retries >= HandshakeRetries)
          /\ sessions' = [sessions EXCEPT ![f].retries = @ + 1]
          /\ UNCHANGED <<halfOpen, sourceOpen, pendingFlows, pendingBytes, nextID, fate>>
      BY <1>4, <2>2, Zenon DEF TickHalfOpen, TickMissing
    <3>3. sessions[f].retries < HandshakeRetries
      BY <3>1, <3>2
    <3> QED BY <3>2, <3>3, MoveCount, Zenon
  <2> QED BY <2>1, <2>2, Zenon
<1>5. ASSUME Claim \/ DeleteSession PROVE CountInv'
  <2>1. /\ call.flow \in Flows /\ call.request \in Deletes
    BY <1>5, CallTyped, Zenon DEF Claim, DeleteSession, CountInv
  <2>2. CASE DeleteUncertain \/ DeleteRefused
    <3>1. \E d \in Deletes \cup {None} : sessions' = [sessions EXCEPT ![call.flow].delete = d]
      BY <2>1, <2>2, Zenon DEF DeleteUncertain, DeleteRefused
    <3> QED BY <2>1, <2>2, <3>1, MoveCount, Zenon DEF DeleteUncertain, DeleteRefused
  <2>3. CASE DeleteDone
    BY <2>1, <2>3, RemoveCount, Zenon DEF DeleteDone
  <2> QED BY <1>1, <1>5, <2>2, <2>3, DeleteMoves, Zenon
<1>6. CASE UNCHANGED vars
  BY <1>1, <1>6, Zenon DEF vars
<1>7. CASE Tick
  BY <1>1, <1>7, Zenon DEF Tick
<1>8. ASSUME NEW f \in Flows,
             \/ InboundRetryDelete(f) \/ InboundCapturedControl(f)
             \/ TickSkip(f) \/ TickIdle(f) \/ TickRetryDelete(f)
             \/ FastTX(f) \/ FastRX(f) \/ Idle(f) \/ ForeignDelete(f)
      PROVE  CountInv'
  BY <1>1, <1>8, Zenon DEF InboundRetryDelete, InboundCapturedControl, TickSkip, TickIdle,
     TickRetryDelete, BeginDelete, FastTX, FastRX, Idle, ForeignDelete
<1> QED BY <1>2, <1>3, <1>4, <1>5, <1>6, <1>7, <1>8, Zenon DEF Next

-----------------------------------------------------------------------------
(* The fast path: what a step does to the session map and to the deletes *)

\* As far as the map and the deletes go, the flow's session is what it was.
SessionSeen(g) ==
    /\ sessions'[g].delete = sessions[g].delete
    /\ sessions[g].state = "established" =>
          sessions'[g].state = "established" /\ sessions'[g].id = sessions[g].id

\* A step that touches neither the map nor a delete nor an established session.
LEMMA FastStays ==
    ASSUME OptionsAssumption, EngineInv, \A g \in Flows : SessionSeen(g),
           fast' = fast, call' = call, ticking' \subseteq Flows, nextID' >= nextID,
           nextID' \in Nat
    PROVE  FastInv'
<1> USE DEF EngineInv, CountInv, FastInv
<1>1. FastTyped'
  BY Zenon DEF FastTyped
<1>2. call # None => call.flow \in Flows
  BY CallTyped, Zenon
<1>3. DeleteInv'
  BY <1>2, Zenon DEF DeleteInv, SessionSeen
<1>4. nextID \in Nat /\ \A f \in Flows : fast[f].id \in Nat
  BY Limits DEF EngineTyped, FastTyped
<1>5. EntryInv'
  BY <1>4 DEF EntryInv, FastSessionOwned, SessionSeen, Present
<1>6. \A f \in Flows : \A d \in Deletes : Asked(f, d)' => Asked(f, d)
  BY Zenon DEF Asked, SessionSeen
<1>7. \A d \in Deletes : d.expected.id \in Nat
  BY Limits DEF Deletes, Values
<1>8. RequestInv'
  BY <1>4, <1>6, <1>7 DEF RequestInv, Value
<1>9. TombstoneOwned'
  BY DEF TombstoneOwned, SessionSeen, Value
<1> QED BY <1>1, <1>3, <1>5, <1>8, <1>9, Zenon

\* A session ends with no entry in the map, and with it the delete of its flow.
LEMMA SessionEnds ==
    ASSUME OptionsAssumption, EngineInv, NEW f \in Flows,
           sessions' = [sessions EXCEPT ![f] = Closed],
           fast' = [fast EXCEPT ![f] = Absent],
           call = None \/ call.flow = f, call' = None,
           ticking' \subseteq Flows, nextID' = nextID
    PROVE  FastInv'
<1> USE DEF EngineInv, CountInv, FastInv
<1>1. /\ \A g \in Flows \ {f} : sessions'[g] = sessions[g] /\ fast'[g] = fast[g]
      /\ sessions'[f].delete = None /\ fast'[f] = Absent
  BY Zenon DEF EngineTyped, FastTyped, Closed
<1>2. Absent \in [id : 0 .. MaxSessionID, revision : 0 .. MaxRevision,
                  active : BOOLEAN, claimed : BOOLEAN]
      /\ Absent.id = 0 /\ ~Absent.claimed
  BY Limits DEF Absent
<1>3. FastTyped'
  BY <1>2, Zenon DEF FastTyped
<1>4. DeleteInv'
  BY <1>1, Zenon DEF DeleteInv
<1>5. EntryInv'
  BY <1>1, <1>2, Limits DEF EntryInv, FastSessionOwned, Present, EngineTyped
<1>6. \A g \in Flows : \A d \in Deletes : Asked(g, d)' => g # f /\ Asked(g, d)
  BY <1>1, RequestsAreThere, Zenon DEF Asked
<1>7. RequestInv'
  BY <1>1, <1>6 DEF RequestInv, Value
<1>8. TombstoneOwned'
  BY <1>1, <1>2 DEF TombstoneOwned, Value
<1> QED BY <1>3, <1>4, <1>5, <1>7, <1>8, Zenon

\* insertEstablished: the new entry has an identity that no delete names.
LEMMA EstablishFast ==
    ASSUME OptionsAssumption, EngineInv, NEW f \in Flows, nextID < MaxSessionID,
           HalfOpen(f), ~Present(f), Establish(f), call = None, call' = None, ticking' = ticking
    PROVE  FastInv'
<1> USE DEF EngineInv, CountInv, FastInv
<1> DEFINE e == [id |-> nextID + 1, revision |-> 1, active |-> TRUE, claimed |-> FALSE]
<1>1. /\ \A g \in Flows \ {f} : sessions'[g] = sessions[g]
      /\ sessions'[f].state = "established" /\ sessions'[f].id = nextID + 1
      /\ sessions'[f].delete = sessions[f].delete
      /\ nextID' = nextID + 1 /\ nextID + 1 \in 0 .. MaxSessionID
  BY EstablishSession, Zenon
<1>2. sessions[f].delete = None
  BY Zenon DEF DeleteInv, HalfOpen
<1>3. fast' = [fast EXCEPT ![f] = e]
  BY <1>1, Zenon DEF Establish
<1>4. e \in [id : 0 .. MaxSessionID, revision : 0 .. MaxRevision,
             active : BOOLEAN, claimed : BOOLEAN]
  BY <1>1, Limits
<1>5. e.id = nextID + 1 /\ e.revision = 1 /\ ~e.claimed
  BY Zenon
<1> HIDE DEF e
<1>6. FastTyped'
  BY <1>3, <1>4, Zenon DEF FastTyped
<1>7. (\A g \in Flows \ {f} : fast'[g] = fast[g]) /\ fast'[f] = e
  BY <1>3, Zenon DEF FastTyped
<1>8. DeleteInv'
  BY <1>1, <1>2, Zenon DEF DeleteInv
<1>9. nextID \in Nat /\ \A g \in Flows : fast[g].id \in Nat
  BY Limits DEF EngineTyped, FastTyped
<1>10. EntryInv'
  BY <1>1, <1>5, <1>7, <1>9 DEF EntryInv, FastSessionOwned, Present
<1>11. \A g \in Flows : \A d \in Deletes : Asked(g, d)' => g # f /\ Asked(g, d)
  BY <1>1, <1>2, RequestsAreThere, Zenon DEF Asked
<1>12. \A d \in Deletes : d.expected.id \in Nat
  BY Limits DEF Deletes, Values
<1>13. RequestInv'
  BY <1>1, <1>7, <1>9, <1>11, <1>12 DEF RequestInv, Value
<1>14. TombstoneOwned'
  <2> SUFFICES ASSUME NEW g \in Flows, fast'[g].claimed
               PROVE  sessions'[g].delete # None /\ sessions'[g].delete.expected = Value(g)'
    BY Zenon DEF TombstoneOwned
  <2>1. fast'[g] = fast[g] /\ sessions'[g] = sessions[g]
    BY <1>1, <1>5, <1>7, Zenon
  <2>2. sessions[g].delete # None /\ sessions[g].delete.expected = Value(g)
    BY <2>1, Zenon DEF TombstoneOwned
  <2> QED BY <2>1, <2>2, Zenon DEF Value
<1> QED BY <1>6, <1>8, <1>10, <1>13, <1>14, Zenon

\* compareDeleteEstablished starts, with a value just looked up or with the
\* request retained.
LEMMA BeginFast ==
    ASSUME OptionsAssumption, EngineInv, NEW f \in Flows, NEW d \in Deletes,
           sessions[f].state = "established", sessions[f].delete \in {None, d},
           \/ sessions[f].delete = d
           \/ /\ d.expected = Value(f) /\ Present(f)
              /\ d.reason = "idle-timeout" => ~fast[f].active,
           call = None, call' = [flow |-> f, request |-> d, step |-> "claim"],
           UNCHANGED <<sessions, nextID, fast>>, ticking' \subseteq Flows
    PROVE  FastInv'
<1> USE DEF EngineInv, CountInv, FastInv
<1>1. /\ call' \in Calls /\ call'.flow = f /\ call'.request = d
  BY Zenon DEF Calls
<1>2. FastTyped'
  BY <1>1, Zenon DEF FastTyped
<1>3. DeleteInv'
  BY <1>1, Zenon DEF DeleteInv
<1>4. EntryInv'
  BY Zenon DEF EntryInv, FastSessionOwned, Present
<1>5. \A g \in Flows : \A r \in Deletes : Asked(g, r)' => Asked(g, r) \/ (g = f /\ r = d)
  BY <1>1, Zenon DEF Asked
<1>6. /\ d.expected.id <= nextID
      /\ fast[f].id = d.expected.id => d.expected.revision <= fast[f].revision
      /\ d.reason = "idle-timeout" /\ Value(f) = d.expected => ~fast[f].active
  <2>1. CASE sessions[f].delete = d
    BY <2>1, Zenon DEF RequestInv, Asked
  <2>2. CASE /\ d.expected = Value(f) /\ Present(f)
             /\ d.reason = "idle-timeout" => ~fast[f].active
    BY <2>2, Limits DEF EntryInv, Value, FastTyped
  <2> QED BY <2>1, <2>2, Zenon
<1>7. RequestInv'
  BY <1>5, <1>6, Zenon DEF RequestInv, Value
<1>8. TombstoneOwned'
  BY Zenon DEF TombstoneOwned, Value
<1> QED BY <1>2, <1>3, <1>4, <1>7, <1>8, Zenon

\* What a packet program, the clock or an operator does to one entry: it goes,
\* or it keeps its identity, and nothing is heard or claimed without a new
\* revision.
EntryGoesOn(f, e) ==
    /\ e.id = fast[f].id /\ e.id > 0 /\ e.revision >= fast[f].revision /\ e.revision > 0
    /\ e.revision = fast[f].revision => (e.active => fast[f].active)
    /\ e.claimed => fast[f].claimed /\ e.revision = fast[f].revision

\* Such a change keeps what the engine asked of the map true.
LEMMA EntryFast ==
    ASSUME OptionsAssumption, EngineInv, NEW f \in Flows,
           NEW e \in [id : 0 .. MaxSessionID, revision : 0 .. MaxRevision,
                      active : BOOLEAN, claimed : BOOLEAN],
           Present(f), e = Absent \/ EntryGoesOn(f, e),
           fast' = [fast EXCEPT ![f] = e],
           UNCHANGED <<sessions, nextID, call, ticking>>
    PROVE  FastInv'
<1> USE DEF EngineInv, CountInv, FastInv
<1>1. FastTyped'
  BY Zenon DEF FastTyped
<1>2. (\A g \in Flows \ {f} : fast'[g] = fast[g]) /\ fast'[f] = e
  BY Zenon DEF FastTyped
<1>3. DeleteInv'
  BY Zenon DEF DeleteInv
<1>4. Absent.id = 0 /\ Absent.revision = 0 /\ ~Absent.claimed
  BY Zenon DEF Absent
<1>5. /\ fast[f].id \in Nat /\ fast[f].revision \in Nat /\ nextID \in Nat
      /\ e.id \in Nat /\ e.revision \in Nat
  BY Limits DEF FastTyped, EngineTyped
<1>6. EntryInv'
  BY <1>2, <1>4, <1>5 DEF EntryInv, FastSessionOwned, Present, EntryGoesOn
<1>7. \A g \in Flows : \A d \in Deletes : Asked(g, d)' <=> Asked(g, d)
  BY Zenon DEF Asked
<1>8. \A d \in Deletes : d.expected.id \in Nat \ {0} /\ d.expected.revision \in Nat \ {0}
  BY Limits DEF Deletes, Values
<1>9. ASSUME NEW d \in Deletes, Asked(f, d)
      PROVE  /\ e.id = d.expected.id => d.expected.revision <= e.revision
             /\ /\ d.reason = "idle-timeout"
                /\ [id |-> e.id, revision |-> e.revision] = d.expected
                => ~e.active
  <2>1. CASE e = Absent
    BY <1>4, <1>8, <2>1
  <2>2. CASE EntryGoesOn(f, e)
    <3>1. /\ fast[f].id = d.expected.id => d.expected.revision <= fast[f].revision
          /\ d.reason = "idle-timeout" /\ Value(f) = d.expected => ~fast[f].active
      BY <1>9, Zenon DEF RequestInv
    <3>2. e.id = d.expected.id => d.expected.revision <= e.revision
      BY <1>5, <1>8, <2>2, <3>1 DEF EntryGoesOn
    <3>3. ASSUME d.reason = "idle-timeout", [id |-> e.id, revision |-> e.revision] = d.expected
          PROVE  ~e.active
      <4>1. e.id = d.expected.id /\ e.revision = d.expected.revision
        BY <3>3
      <4>2. e.revision = fast[f].revision
        BY <1>5, <2>2, <3>1, <4>1 DEF EntryGoesOn
      <4>3. Value(f) = d.expected
        BY <2>2, <3>3, <4>2, Zenon DEF Value, EntryGoesOn
      <4> QED BY <2>2, <3>1, <3>3, <4>2, <4>3, Zenon DEF EntryGoesOn
    <3> QED BY <3>2, <3>3, Zenon
  <2> QED BY <2>1, <2>2, Zenon
<1>10. RequestInv'
  <2> SUFFICES ASSUME NEW g \in Flows, NEW d \in Deletes, Asked(g, d)
               PROVE  /\ d.expected.id <= nextID
                      /\ fast'[g].id = d.expected.id => d.expected.revision <= fast'[g].revision
                      /\ d.reason = "idle-timeout" /\ Value(g)' = d.expected
                         => ~fast'[g].active
    BY <1>7, Zenon DEF RequestInv
  <2>1. CASE g = f
    BY <1>2, <1>9, <2>1, Zenon DEF RequestInv, Value
  <2>2. CASE g # f
    BY <1>2, <2>2, Zenon DEF RequestInv, Value
  <2> QED BY <2>1, <2>2, Zenon
<1>11. TombstoneOwned'
  <2> SUFFICES ASSUME NEW g \in Flows, fast'[g].claimed
               PROVE  fast[g].claimed /\ Value(g)' = Value(g)
    BY Zenon DEF TombstoneOwned
  <2>1. CASE g = f
    <3>1. e.claimed /\ EntryGoesOn(f, e)
      BY <1>2, <1>4, <2>1, Zenon
    <3> QED BY <1>2, <2>1, <3>1, Zenon DEF Value, EntryGoesOn
  <2>2. CASE g # f
    BY <1>2, <2>2, Zenon DEF Value
  <2> QED BY <2>1, <2>2, Zenon
<1> QED BY <1>1, <1>3, <1>6, <1>10, <1>11, Zenon

\* Claim and DeleteSession while the request lives on, in the call or retained:
\* the entry is what it was, or it is the value asked for, now claimed.
LEMMA RequestKept ==
    ASSUME OptionsAssumption, EngineInv, call # None, NEW f \in Flows, f = call.flow,
           \/ fast' = fast
           \/ /\ MatchesExpected(f, call.request.expected)
              /\ fast' = [fast EXCEPT ![f].claimed = TRUE],
           \/ sessions' = [sessions EXCEPT ![f].delete = call.request] /\ call' = None
           \/ sessions' = sessions /\ call' = [call EXCEPT !.step = "delete"],
           nextID' = nextID, ticking' = ticking
    PROVE  FastInv'
<1> USE DEF EngineInv, CountInv, FastInv
<1> DEFINE d == call.request
<1>1. /\ call \in Calls /\ d \in Deletes /\ d # None
      /\ sessions[f].state = "established" /\ sessions[f].delete \in {None, d}
  BY CallTyped, RequestsAreThere, Zenon DEF DeleteInv
<1>2. /\ \A g \in Flows \ {f} : sessions'[g] = sessions[g]
      /\ sessions'[f].state = "established" /\ sessions'[f].id = sessions[f].id
      /\ \/ sessions'[f].delete = d /\ call' = None
         \/ /\ sessions'[f].delete = sessions[f].delete
            /\ call' # None /\ call' \in Calls /\ call'.flow = f /\ call'.request = d
  <2>1. CASE sessions' = [sessions EXCEPT ![f].delete = d] /\ call' = None
    BY <1>1, <2>1 DEF EngineTyped, Session
  <2>2. CASE sessions' = sessions /\ call' = [call EXCEPT !.step = "delete"]
    <3>1. call' \in Calls /\ call'.flow = f /\ call'.request = d
      BY <1>1, <2>2, Zenon DEF Calls
    <3> QED BY <1>1, <2>2, <3>1, RequestsAreThere, Zenon
  <2> QED BY <2>1, <2>2, Zenon
<1>3. /\ \A g \in Flows : /\ fast'[g].id = fast[g].id /\ fast'[g].revision = fast[g].revision
                          /\ fast'[g].active = fast[g].active
                          /\ (fast'[g] = Absent) = (fast[g] = Absent)
      /\ \A g \in Flows \ {f} : fast'[g] = fast[g]
      /\ fast'[f].claimed => fast[f].claimed \/ Value(f) = d.expected
      /\ fast' \in [Flows -> [id : 0 .. MaxSessionID, revision : 0 .. MaxRevision,
                              active : BOOLEAN, claimed : BOOLEAN]]
  <2>1. CASE fast' = fast
    BY <2>1, Zenon DEF FastTyped
  <2>2. CASE /\ MatchesExpected(f, d.expected)
             /\ fast' = [fast EXCEPT ![f].claimed = TRUE]
    <3>1. /\ fast' \in [Flows -> [id : 0 .. MaxSessionID, revision : 0 .. MaxRevision,
                                  active : BOOLEAN, claimed : BOOLEAN]]
          /\ \A g \in Flows \ {f} : fast'[g] = fast[g]
          /\ fast'[f].id = fast[f].id /\ fast'[f].revision = fast[f].revision
          /\ fast'[f].active = fast[f].active
      <4> DEFINE e == [fast[f] EXCEPT !.claimed = TRUE]
      <4>1. fast[f] \in [id : 0 .. MaxSessionID, revision : 0 .. MaxRevision,
                         active : BOOLEAN, claimed : BOOLEAN]
        BY Zenon DEF FastTyped
      <4>2. /\ e \in [id : 0 .. MaxSessionID, revision : 0 .. MaxRevision,
                      active : BOOLEAN, claimed : BOOLEAN]
            /\ e.id = fast[f].id /\ e.revision = fast[f].revision
        BY <4>1, Zenon
      <4>3. e.active = fast[f].active
        BY <4>1, Zenon
      <4>4. fast' = [fast EXCEPT ![f] = e]
        BY <2>2, Zenon
      <4> QED BY <4>2, <4>3, <4>4, Zenon DEF FastTyped
    <3>2. fast[f] # Absent /\ fast[f].id > 0 /\ Value(f) = d.expected
      BY <2>2, Zenon DEF EntryInv, MatchesExpected, Present
    <3>3. Absent.id = 0 /\ fast[f].id \in Nat
      BY Limits DEF Absent, FastTyped
    <3>4. fast'[f] # Absent
      BY <3>1, <3>2, <3>3
    <3> QED BY <3>1, <3>2, <3>4, Zenon
  <2> QED BY <2>1, <2>2, Zenon
<1>4. FastTyped'
  BY <1>2, <1>3, Zenon DEF FastTyped
<1>5. DeleteInv'
  BY <1>1, <1>2 DEF DeleteInv
<1>6. EntryInv'
  BY <1>2, <1>3 DEF EntryInv, FastSessionOwned, Present
<1>7. \A g \in Flows : \A r \in Deletes : Asked(g, r)' => Asked(g, r)
  BY <1>1, <1>2, Zenon DEF Asked
<1>8. \A g \in Flows : Value(g)' = Value(g)
  BY <1>3, Zenon DEF Value
<1>9. RequestInv'
  BY <1>3, <1>7, <1>8 DEF RequestInv
<1>10. TombstoneOwned'
  <2> SUFFICES ASSUME NEW g \in Flows, fast'[g].claimed
               PROVE  \/ sessions'[g].delete # None /\ sessions'[g].delete.expected = Value(g)'
                      \/ call' # None /\ call'.flow = g /\ call'.request.expected = Value(g)'
    BY Zenon DEF TombstoneOwned
  <2>1. CASE g = f
    <3>1. Value(f) = d.expected
      BY <1>1, <1>3, <2>1, Zenon DEF TombstoneOwned
    <3> QED BY <1>1, <1>2, <1>8, <2>1, <3>1, Zenon
  <2>2. CASE g # f
    <3>1. sessions[g].delete # None /\ sessions[g].delete.expected = Value(g)
      BY <1>3, <2>2, Zenon DEF TombstoneOwned
    <3> QED BY <1>2, <1>8, <2>2, <3>1, Zenon
  <2> QED BY <2>1, <2>2, Zenon
<1> QED BY <1>4, <1>5, <1>6, <1>9, <1>10, Zenon

\* The claim found another value: the request is dropped, and nothing was claimed
\* for it.
LEMMA RequestRefused ==
    ASSUME OptionsAssumption, EngineInv, call # None, NEW f \in Flows, f = call.flow,
           Present(f), ~MatchesExpected(f, call.request.expected),
           sessions' = [sessions EXCEPT ![f].delete = None], call' = None,
           UNCHANGED <<fast, nextID, ticking>>
    PROVE  FastInv'
<1> USE DEF EngineInv, CountInv, FastInv
<1>1. /\ call.request # None /\ sessions[f].delete \in {None, call.request}
  BY CallTyped, RequestsAreThere, Zenon DEF DeleteInv
<1>2. /\ \A g \in Flows \ {f} : sessions'[g] = sessions[g]
      /\ sessions'[f].delete = None /\ sessions'[f].state = sessions[f].state
      /\ sessions'[f].id = sessions[f].id
  BY DEF EngineTyped, Session
<1>3. FastTyped'
  BY Zenon DEF FastTyped
<1>4. DeleteInv'
  BY <1>2, Zenon DEF DeleteInv
<1>5. EntryInv'
  BY <1>2 DEF EntryInv, FastSessionOwned, Present
<1>6. \A g \in Flows : \A r \in Deletes : Asked(g, r)' => Asked(g, r)
  BY <1>2, RequestsAreThere, Zenon DEF Asked
<1>7. RequestInv'
  BY <1>6, Zenon DEF RequestInv, Value
<1>8. ~fast[f].claimed
  BY <1>1, Zenon DEF TombstoneOwned, MatchesExpected
<1>9. TombstoneOwned'
  BY <1>2, <1>8 DEF TombstoneOwned, Value
<1> QED BY <1>3, <1>4, <1>5, <1>7, <1>9, Zenon

\* The packet programs, the clock and an operator change one entry each.
LEMMA EntryMoves ==
    ASSUME OptionsAssumption, EngineInv, NEW f \in Flows,
           FastTX(f) \/ FastRX(f) \/ Idle(f) \/ ForeignDelete(f)
    PROVE  \E e \in [id : 0 .. MaxSessionID, revision : 0 .. MaxRevision,
                     active : BOOLEAN, claimed : BOOLEAN] :
              fast' = [fast EXCEPT ![f] = e] /\ (e = Absent \/ EntryGoesOn(f, e))
<1> DEFINE E == [id : 0 .. MaxSessionID, revision : 0 .. MaxRevision,
                 active : BOOLEAN, claimed : BOOLEAN]
<1>1. /\ fast[f] \in E /\ fast[f].id \in Nat /\ fast[f].revision \in Nat
      /\ fast[f].id > 0 /\ fast[f].revision > 0
  BY Limits DEF EngineInv, FastInv, FastTyped, EntryInv, FastTX, FastRX, Idle, ForeignDelete,
     Mutable, Present
<1>2. CASE FastTX(f)
  <2> DEFINE e == [fast[f] EXCEPT !.revision = fast[f].revision + 1]
  <2>1. fast[f].revision + 1 \in 0 .. MaxRevision /\ ~fast[f].claimed
    BY <1>1, <1>2, Limits DEF FastTX, Mutable
  <2>2. e \in E /\ e.id = fast[f].id /\ e.revision = fast[f].revision + 1
    BY <1>1, <2>1, Zenon
  <2>3. ~e.claimed
    BY <1>1, <2>1, Zenon
  <2>4. EntryGoesOn(f, e)
    BY <1>1, <2>2, <2>3 DEF EntryGoesOn
  <2>5. fast' = [fast EXCEPT ![f] = e]
    BY <1>2, Zenon DEF FastTX
  <2> QED BY <2>2, <2>4, <2>5, Zenon
<1>3. CASE FastRX(f)
  <2> DEFINE a == [fast[f] EXCEPT !.revision = fast[f].revision + 1]
             e == [a EXCEPT !.active = TRUE]
  <2>1. fast[f].revision + 1 \in 0 .. MaxRevision /\ ~fast[f].claimed
    BY <1>1, <1>3, Limits DEF FastRX, Mutable
  <2>2. a \in E /\ a.id = fast[f].id /\ a.revision = fast[f].revision + 1
    BY <1>1, <2>1, Zenon
  <2>3. ~a.claimed
    BY <1>1, <2>1, Zenon
  <2>4. fast' = [fast EXCEPT ![f] = e]
    BY <1>3, Zenon DEF FastRX, EngineInv, FastInv, FastTyped
  <2> HIDE DEF a
  <2>5. e \in E /\ e.id = fast[f].id /\ e.revision = fast[f].revision + 1
    BY <2>2, Zenon
  <2>6. ~e.claimed
    BY <2>2, <2>3, Zenon
  <2>7. EntryGoesOn(f, e)
    BY <1>1, <2>5, <2>6 DEF EntryGoesOn
  <2> QED BY <2>4, <2>5, <2>7, Zenon
<1>4. CASE Idle(f)
  <2> DEFINE e == [fast[f] EXCEPT !.active = FALSE]
  <2>1. e \in E /\ e.id = fast[f].id /\ e.revision = fast[f].revision
    BY <1>1, Zenon
  <2>2. ~e.active /\ e.claimed = fast[f].claimed
    BY <1>1, Zenon
  <2>3. fast' = [fast EXCEPT ![f] = e]
    BY <1>4, Zenon DEF Idle
  <2> HIDE DEF e
  <2>4. EntryGoesOn(f, e)
    BY <1>1, <2>1, <2>2 DEF EntryGoesOn
  <2> QED BY <2>1, <2>3, <2>4, Zenon
<1>5. CASE ForeignDelete(f)
  <2>1. Absent \in E
    BY Limits DEF Absent
  <2> QED BY <1>5, <2>1, Zenon DEF ForeignDelete
<1> QED BY <1>2, <1>3, <1>4, <1>5, Zenon

\* remove without an entry in the map, for any session.
LEMMA RemoveFast ==
    ASSUME OptionsAssumption, EngineInv, NEW f \in Flows,
           sessions' = [sessions EXCEPT ![f] = Closed], ~Present(f), fast' = fast,
           call = None \/ call.flow = f, call' = None, ticking' \subseteq Flows,
           nextID' = nextID
    PROVE  FastInv'
<1>1. fast' = [fast EXCEPT ![f] = Absent]
  BY Zenon DEF EngineInv, FastInv, FastTyped, Present
<1> QED BY <1>1, SessionEnds, Zenon

\* Only an established session has an entry.
LEMMA HalfOpenIsAbsent ==
    ASSUME EngineInv, NEW f \in Flows, sessions[f].state # "established"
    PROVE  ~Present(f) /\ sessions[f].delete = None
BY Zenon DEF EngineInv, FastInv, EntryInv, FastSessionOwned, DeleteInv

\* The value just looked up makes a request.
LEMMA ValueTyped ==
    ASSUME OptionsAssumption, EngineInv, NEW f \in Flows, Present(f), NEW r \in Reasons
    PROVE  [expected |-> Value(f), reason |-> r] \in Deletes
<1>1. fast[f].id \in 1 .. MaxSessionID /\ fast[f].revision \in 1 .. MaxRevision
  BY Limits DEF EngineInv, FastInv, FastTyped, EntryInv, Present
<1>2. Value(f) \in Values
  BY <1>1, Zenon DEF Value, Values
<1> QED BY <1>2, Zenon DEF Deletes

\* A lookup that finds the entry found one that is there, and one that misses
\* it found none.
LEMMA LookupMeans ==
    ASSUME NEW f \in Flows
    PROVE  /\ "found" \in Lookup(f) => Present(f)
           /\ "missing" \in Lookup(f) => ~Present(f)
BY Zenon DEF Lookup

\* The step of a compare-delete keeps the fast path owned.
LEMMA DeleteFast ==
    ASSUME OptionsAssumption, EngineInv, Claim \/ DeleteSession
    PROVE  FastInv'
<1>1. call # None /\ call.flow \in Flows
  BY CallTyped, Zenon DEF Claim, DeleteSession, EngineInv, CountInv, FastInv
<1>2. CASE Claim
  <2>1. CASE DeleteUncertain /\ UNCHANGED fast
    BY <1>1, <1>2, <2>1, RequestKept, Zenon DEF DeleteUncertain, Claim
  <2>2. CASE ~Present(call.flow) /\ DeleteDone /\ UNCHANGED fast
    <3>1. ticking' \subseteq Flows
      BY <1>2, Zenon DEF Claim, EngineInv, FastInv, FastTyped
    <3> QED BY <1>1, <2>2, <3>1, RemoveFast, Zenon DEF DeleteDone, RemoveSession
  <2>3. CASE /\ Present(call.flow) /\ ~MatchesExpected(call.flow, call.request.expected)
             /\ DeleteRefused /\ UNCHANGED fast
    BY <1>1, <1>2, <2>3, RequestRefused, Zenon DEF DeleteRefused, Claim
  <2>4. CASE /\ MatchesExpected(call.flow, call.request.expected)
             /\ fast' = [fast EXCEPT ![call.flow].claimed = TRUE]
             /\ \/ DeleteUncertain
                \/ call' = [call EXCEPT !.step = "delete"] /\ UNCHANGED <<engineVars, fate>>
    BY <1>1, <1>2, <2>4, RequestKept, Zenon DEF DeleteUncertain, Claim, engineVars
  <2> QED BY <1>2, <2>1, <2>2, <2>3, <2>4, Zenon DEF Claim
<1>3. CASE DeleteSession
  <2>1. CASE DeleteUncertain /\ UNCHANGED fast
    BY <1>1, <1>3, <2>1, RequestKept, Zenon DEF DeleteUncertain, DeleteSession
  <2>2. CASE fast' = [fast EXCEPT ![call.flow] = Absent] /\ DeleteDone
    <3>1. ticking' \subseteq Flows
      BY <1>3, Zenon DEF DeleteSession, EngineInv, FastInv, FastTyped
    <3> QED BY <1>1, <2>2, <3>1, SessionEnds, Zenon DEF DeleteDone, RemoveSession
  <2> QED BY <1>3, <2>1, <2>2, Zenon DEF DeleteSession
<1> QED BY <1>2, <1>3, Zenon

\* Captured packets leave the fast path owned.
LEMMA OutboundFast ==
    ASSUME OptionsAssumption, EngineInv, NEW f \in Flows, NEW p \in Packets,
           OutboundNew(f, p) \/ OutboundHalfOpen(f, p) \/ OutboundEstablished(f, p)
           \/ OutboundRetryDelete(f, p)
    PROVE  FastInv'
<1>1. /\ sessions \in [Flows -> Session] /\ nextID \in Nat /\ ticking \subseteq Flows
      /\ nextID <= nextID
  BY Limits DEF EngineInv, CountInv, EngineTyped, FastInv, FastTyped
<1>2. ASSUME UNCHANGED engineVars, fast' = fast, call' = call, ticking' = ticking
      PROVE  FastInv'
  <2>1. \A g \in Flows : SessionSeen(g)
    BY <1>2, Zenon DEF SessionSeen, engineVars
  <2> QED BY <1>1, <1>2, <2>1, FastStays, Zenon DEF engineVars
<1>3. ASSUME NEW x \in Session, Enqueue(f, p, x), x.delete = None,
             sessions[f].state # "established",
             fast' = fast, call' = call, ticking' = ticking, nextID' = nextID
      PROVE  FastInv'
  <2>1. sessions[f].delete = None
    BY <1>3, HalfOpenIsAbsent, Zenon
  <2>2. \A g \in Flows \ {f} : sessions'[g] = sessions[g]
    BY <1>1, <1>3, Zenon DEF Enqueue
  <2>3. sessions'[f].delete = None
    <3>1. [x EXCEPT !.pending = Append(@, p)].delete = x.delete
      BY Zenon DEF Session
    <3> QED BY <1>1, <1>3, <3>1, Zenon DEF Enqueue
  <2>4. \A g \in Flows : SessionSeen(g)
    BY <1>3, <2>1, <2>2, <2>3, Zenon DEF SessionSeen
  <2> QED BY <1>1, <1>3, <2>4, FastStays, Zenon
<1>4. CASE OutboundNew(f, p)
  <2>1. sessions[f].state # "established"
    BY <1>4, Zenon DEF OutboundNew, Known
  <2>2. CASE Cardinality(Known) >= SessionCapacity \/ halfOpen >= MaxHalfOpenSessions
    BY <1>2, <1>4, <2>2, Zenon DEF OutboundNew
  <2>3. CASE ~(Cardinality(Known) >= SessionCapacity \/ halfOpen >= MaxHalfOpenSessions)
    <3> DEFINE x == [Closed EXCEPT !.state = "syn-sent", !.retries = 1, !.held = TRUE]
    <3>1. Closed \in Session /\ 1 \in 0 .. HandshakeRetries
      BY ClosedTyped, Limits
    <3>2. x \in Session /\ x.delete = None
      <4>1. x \in Session
        BY <3>1, Zenon DEF Session, States
      <4> QED BY <4>1, Zenon DEF Closed
    <3>3. Enqueue(f, p, x) /\ fast' = fast /\ call' = call /\ ticking' = ticking
          /\ nextID' = nextID
      BY <1>4, <2>3, Zenon DEF OutboundNew
    <3> HIDE DEF x
    <3> QED BY <1>3, <2>1, <3>2, <3>3, Zenon
  <2> QED BY <2>2, <2>3, Zenon
<1>5. CASE OutboundHalfOpen(f, p)
  <2>1. sessions[f] \in Session /\ sessions[f].state # "established"
    BY <1>1, <1>5, Zenon DEF OutboundHalfOpen, HalfOpen
  <2>2. sessions[f].delete = None
    BY <2>1, HalfOpenIsAbsent, Zenon
  <2> QED BY <1>3, <1>5, <2>1, <2>2, Zenon DEF OutboundHalfOpen
<1>6. CASE OutboundEstablished(f, p)
  <2>1. CASE UNCHANGED engineVars
    BY <1>2, <1>6, <2>1, Zenon DEF OutboundEstablished
  <2>2. CASE /\ "missing" \in Lookup(f)
             /\ sessions' = [sessions EXCEPT ![f] = Closed] /\ nextID' = nextID
    BY <1>1, <1>6, <2>2, RemoveFast, LookupMeans, Zenon DEF OutboundEstablished, Free
  <2> QED BY <1>6, <2>1, <2>2, Zenon DEF OutboundEstablished
<1>7. CASE OutboundRetryDelete(f, p)
  <2>1. /\ sessions[f].delete \in Deletes /\ sessions[f].state = "established"
        /\ sessions[f].delete \in {None, sessions[f].delete}
    BY <1>7, CallTyped, Zenon
       DEF OutboundRetryDelete, EngineInv, CountInv, FastInv, DeleteInv
  <2> QED BY <1>1, <1>7, <2>1, BeginFast, Zenon DEF OutboundRetryDelete, Free, engineVars
<1> QED BY <1>4, <1>5, <1>6, <1>7, Zenon

\* Segments of the peer leave the fast path owned.
LEMMA InboundFast ==
    ASSUME OptionsAssumption, EngineInv, NEW f \in Flows,
           \/ InboundSYN(f) \/ InboundSimultaneousSYN(f) \/ InboundHandshakeACK(f)
           \/ InboundReset(f) \/ InboundEstablished(f) \/ InboundRetryDelete(f)
           \/ InboundCapturedControl(f)
    PROVE  FastInv'
<1>1. /\ sessions \in [Flows -> Session] /\ nextID \in Nat /\ ticking \subseteq Flows
      /\ nextID <= nextID /\ nextID + 1 >= nextID /\ nextID + 1 \in Nat
  BY Limits DEF EngineInv, CountInv, EngineTyped, FastInv, FastTyped
<1>2. CASE InboundSYN(f)
  <2>1. sessions[f].state # "established"
    BY <1>2, Zenon DEF InboundSYN, Known
  <2>2. sessions[f].delete = None /\ sessions'[f].delete = None
    BY <1>1, <1>2, <2>1, HalfOpenIsAbsent, Zenon DEF InboundSYN, Closed
  <2>3. \A g \in Flows : SessionSeen(g)
    BY <1>1, <1>2, <2>1, <2>2, Zenon DEF SessionSeen, InboundSYN
  <2> QED BY <1>1, <1>2, <2>3, FastStays, Zenon DEF InboundSYN
<1>3. CASE InboundSimultaneousSYN(f)
  <2>1. \A g \in Flows : SessionSeen(g)
    BY <1>1, <1>3, Zenon DEF SessionSeen, InboundSimultaneousSYN, Session
  <2> QED BY <1>1, <1>3, <2>1, FastStays, Zenon DEF InboundSimultaneousSYN
<1>4. CASE InboundHandshakeACK(f)
  <2>1. CASE nextID < MaxSessionID /\ ~Present(f) /\ Establish(f)
    BY <1>4, <2>1, EstablishFast, Zenon DEF InboundHandshakeACK, Free
  <2>2. CASE RestoreCheckpoint(f)
    <3>1. \A g \in Flows : SessionSeen(g)
      BY <2>2, Zenon DEF SessionSeen, RestoreCheckpoint
    <3>2. nextID' \in Nat /\ nextID' >= nextID
      BY <1>1, <2>2, Zenon DEF RestoreCheckpoint
    <3> QED BY <1>1, <1>4, <2>2, <3>1, <3>2, FastStays, Zenon
            DEF RestoreCheckpoint, InboundHandshakeACK
  <2> QED BY <1>4, <2>1, <2>2, Zenon DEF InboundHandshakeACK
<1>5. CASE InboundReset(f)
  <2>1. ~Present(f)
    BY <1>5, HalfOpenIsAbsent, Zenon DEF InboundReset, HalfOpen
  <2> QED BY <1>1, <1>5, <2>1, RemoveFast, Zenon DEF InboundReset, RemoveSession, Free
<1>6. CASE InboundEstablished(f)
  BY <1>1, <1>6, RemoveFast, LookupMeans, Zenon DEF InboundEstablished, RemoveSession, Free
<1>7. CASE InboundRetryDelete(f)
  <2>1. /\ sessions[f].delete \in Deletes /\ sessions[f].state = "established"
        /\ sessions[f].delete \in {None, sessions[f].delete}
    BY <1>7, CallTyped, Zenon
       DEF InboundRetryDelete, EngineInv, CountInv, FastInv, DeleteInv
  <2> QED BY <1>1, <1>7, <2>1, BeginFast, Zenon DEF InboundRetryDelete, BeginDelete, Free,
               engineVars
<1>8. CASE InboundCapturedControl(f)
  <2> DEFINE d == [expected |-> Value(f), reason |-> "peer-close"]
  <2>1. Present(f) /\ d \in Deletes
    BY <1>8, LookupMeans, ValueTyped, Zenon DEF InboundCapturedControl, Reasons
  <2>2. d.expected = Value(f) /\ d.reason # "idle-timeout"
    BY Zenon
  <2>3. /\ call = None /\ call' = [flow |-> f, request |-> d, step |-> "claim"]
        /\ UNCHANGED <<sessions, nextID, fast>> /\ ticking' = ticking
        /\ sessions[f].state = "established" /\ sessions[f].delete \in {None, d}
    BY <1>8, Zenon DEF InboundCapturedControl, BeginDelete, Free, engineVars
  <2> HIDE DEF d
  <2> QED BY <1>1, <2>1, <2>2, <2>3, BeginFast, Zenon
<1> QED BY <1>2, <1>3, <1>4, <1>5, <1>6, <1>7, <1>8, Zenon

\* Tick leaves the fast path owned.
LEMMA TickFast ==
    ASSUME OptionsAssumption, EngineInv, NEW f \in Flows,
           TickSkip(f) \/ TickHalfOpen(f) \/ TickMissing(f) \/ TickIdle(f) \/ TickRetryDelete(f)
    PROVE  FastInv'
<1>1. /\ sessions \in [Flows -> Session] /\ nextID \in Nat /\ ticking \ {f} \subseteq Flows
      /\ nextID <= nextID
  BY Limits DEF EngineInv, CountInv, EngineTyped, FastInv, FastTyped
<1>2. CASE TickSkip(f)
  <2>1. \A g \in Flows : SessionSeen(g)
    BY <1>2, Zenon DEF SessionSeen, TickSkip, engineVars
  <2> QED BY <1>1, <1>2, <2>1, FastStays, Zenon DEF TickSkip, engineVars
<1>3. CASE TickHalfOpen(f)
  <2>1. CASE RemoveSession(f)
    <3>1. ~Present(f)
      BY <1>3, HalfOpenIsAbsent, Zenon DEF TickHalfOpen, HalfOpen
    <3> QED BY <1>1, <1>3, <2>1, <3>1, RemoveFast, Zenon DEF TickHalfOpen, RemoveSession
  <2>2. CASE /\ sessions' = [sessions EXCEPT ![f].retries = @ + 1]
             /\ nextID' = nextID
    <3>1. \A g \in Flows : SessionSeen(g)
      BY <1>1, <2>2, Zenon DEF SessionSeen, Session
    <3> QED BY <1>1, <1>3, <2>2, <3>1, FastStays, Zenon DEF TickHalfOpen
  <2> QED BY <1>3, <2>1, <2>2, Zenon DEF TickHalfOpen
<1>4. CASE TickMissing(f)
  BY <1>1, <1>4, RemoveFast, LookupMeans, Zenon DEF TickMissing, RemoveSession
<1>5. CASE TickIdle(f)
  <2> DEFINE d == [expected |-> Value(f), reason |-> "idle-timeout"]
  <2>1. Present(f) /\ d \in Deletes
    BY <1>5, LookupMeans, ValueTyped, Zenon DEF TickIdle, Reasons
  <2>2. d.expected = Value(f) /\ ~fast[f].active
    BY <1>5, Zenon DEF TickIdle
  <2>3. /\ call = None /\ call' = [flow |-> f, request |-> d, step |-> "claim"]
        /\ UNCHANGED <<sessions, nextID, fast>> /\ ticking' = ticking \ {f}
        /\ sessions[f].state = "established" /\ sessions[f].delete \in {None, d}
    BY <1>5, Zenon DEF TickIdle, BeginDelete, engineVars
  <2> HIDE DEF d
  <2> QED BY <1>1, <2>1, <2>2, <2>3, BeginFast, Zenon
<1>6. CASE TickRetryDelete(f)
  <2>1. /\ sessions[f].delete \in Deletes /\ sessions[f].state = "established"
        /\ sessions[f].delete \in {None, sessions[f].delete}
    BY <1>6, CallTyped, Zenon
       DEF TickRetryDelete, EngineInv, CountInv, FastInv, DeleteInv
  <2> QED BY <1>1, <1>6, <2>1, BeginFast, Zenon DEF TickRetryDelete, BeginDelete, engineVars
<1> QED BY <1>2, <1>3, <1>4, <1>5, <1>6, Zenon

\* The fast path stays owned on every step.
LEMMA FastNext ==
    ASSUME OptionsAssumption, EngineInv, [Next]_vars
    PROVE  FastInv'
<1>1. ASSUME NEW f \in Flows, FastTX(f) \/ FastRX(f) \/ Idle(f) \/ ForeignDelete(f)
      PROVE  FastInv'
  <2>1. Present(f) /\ UNCHANGED <<sessions, nextID, call, ticking>>
    BY <1>1, Zenon DEF FastTX, FastRX, Idle, ForeignDelete, Mutable, engineVars
  <2>2. PICK e \in [id : 0 .. MaxSessionID, revision : 0 .. MaxRevision,
                    active : BOOLEAN, claimed : BOOLEAN] :
           fast' = [fast EXCEPT ![f] = e] /\ (e = Absent \/ EntryGoesOn(f, e))
    BY <1>1, EntryMoves, Zenon
  <2> QED BY <2>1, <2>2, EntryFast, Zenon
<1>2. CASE Tick \/ UNCHANGED vars
  <2>1. /\ nextID \in Nat /\ nextID <= nextID /\ ticking \subseteq Flows /\ Known \subseteq Flows
    BY Limits DEF EngineInv, CountInv, EngineTyped, FastInv, FastTyped, Known
  <2>2. UNCHANGED <<sessions, nextID, fast, call>> /\ ticking' \in {ticking, Known}
    BY <1>2, Zenon DEF Tick, vars, engineVars
  <2>3. \A g \in Flows : SessionSeen(g)
    BY <2>2, Zenon DEF SessionSeen
  <2> QED BY <2>1, <2>2, <2>3, FastStays, Zenon
<1>3. CASE Claim \/ DeleteSession
  BY <1>3, DeleteFast, Zenon
<1> QED BY <1>1, <1>2, <1>3, OutboundFast, InboundFast, TickFast, Zenon DEF Next

\* Every step of the engine, of the packet programs and of the store preserves
\* the inductive invariant.
LEMMA EngineInvNext ==
    ASSUME FiniteFacts, OptionsAssumption, EngineInv, [Next]_vars
    PROVE  EngineInv'
<1>1. CountInv'
  BY CountNext, Zenon DEF EngineInv, FastInv
<1> QED BY <1>1, FastNext, Zenon DEF EngineInv

\* Nothing but wg_faketcp_session_claim sets a tombstone, on the value it was
\* asked for.
LEMMA ClaimedByClaim ==
    ASSUME OptionsAssumption, EngineInv, [Next]_vars, NEW f \in Flows,
           ~fast[f].claimed, fast'[f].claimed
    PROVE  call # None /\ call.flow = f /\ MatchesExpected(f, call.request.expected)
<1>1. fast \in [Flows -> [id : 0 .. MaxSessionID, revision : 0 .. MaxRevision,
                          active : BOOLEAN, claimed : BOOLEAN]]
  BY Zenon DEF EngineInv, FastInv, FastTyped
<1>2. ~Absent.claimed
  BY Zenon DEF Absent
<1>3. fast' # fast
  BY Zenon
<1>4. CASE Claim
  <2>1. /\ MatchesExpected(call.flow, call.request.expected)
        /\ fast' = [fast EXCEPT ![call.flow].claimed = TRUE]
        /\ call # None
    BY <1>3, <1>4, Zenon DEF Claim
  <2>2. call.flow = f
    BY <1>1, <2>1, Zenon
  <2> QED BY <2>1, <2>2, Zenon
<1>5. CASE DeleteSession
  BY <1>1, <1>2, <1>3, <1>5, Zenon DEF DeleteSession
<1>6. ASSUME NEW g \in Flows, FastTX(g) \/ FastRX(g) \/ Idle(g) \/ ForeignDelete(g)
      PROVE  FALSE
  <2>1. PICK e \in [id : 0 .. MaxSessionID, revision : 0 .. MaxRevision,
                    active : BOOLEAN, claimed : BOOLEAN] :
           fast' = [fast EXCEPT ![g] = e] /\ (e = Absent \/ EntryGoesOn(g, e))
    BY <1>6, EntryMoves, Zenon
  <2> QED BY <1>1, <1>2, <2>1, Zenon DEF EntryGoesOn
<1>7. ASSUME NEW g \in Flows, InboundHandshakeACK(g) PROVE FALSE
  <2>1. fast' = [fast EXCEPT ![g] =
                   [id |-> nextID', revision |-> 1, active |-> TRUE, claimed |-> FALSE]]
    BY <1>3, <1>7, Zenon DEF InboundHandshakeACK, Establish, RestoreCheckpoint
  <2> QED BY <1>1, <2>1, Zenon
<1>8. ASSUME NEW g \in Flows, NEW p \in Packets,
             OutboundNew(g, p) \/ OutboundHalfOpen(g, p) \/ OutboundEstablished(g, p)
             \/ OutboundRetryDelete(g, p)
      PROVE  FALSE
  BY <1>3, <1>8, Zenon DEF OutboundNew, OutboundHalfOpen, OutboundEstablished, OutboundRetryDelete
<1>9. ASSUME NEW g \in Flows,
             \/ InboundSYN(g) \/ InboundSimultaneousSYN(g) \/ InboundReset(g)
             \/ InboundEstablished(g) \/ InboundRetryDelete(g) \/ InboundCapturedControl(g)
      PROVE  FALSE
  BY <1>3, <1>9, Zenon DEF InboundSYN, InboundSimultaneousSYN, InboundReset, InboundEstablished,
     InboundRetryDelete, InboundCapturedControl, BeginDelete
<1>10. ASSUME NEW g \in Flows,
              TickSkip(g) \/ TickHalfOpen(g) \/ TickMissing(g) \/ TickIdle(g)
              \/ TickRetryDelete(g)
       PROVE  FALSE
  BY <1>3, <1>10, Zenon DEF TickSkip, TickHalfOpen, TickMissing, TickIdle, TickRetryDelete,
       BeginDelete
<1>11. CASE Tick \/ UNCHANGED vars
  BY <1>3, <1>11, Zenon DEF Tick, vars
<1> QED BY <1>4, <1>5, <1>6, <1>7, <1>8, <1>9, <1>10, <1>11, Zenon DEF Next

\* A step that releases a queued packet is the one that establishes its flow.
LEMMA ReleasedByEstablish ==
    ASSUME OptionsAssumption, EngineInv, [Next]_vars, NEW p \in Packets,
           fate[p] = "queued", fate'[p] = "released"
    PROVE  \E f \in Flows : /\ nextID < MaxSessionID /\ Establish(f)
                            /\ p \in Range(sessions[f].pending)
<1>1. fate \in [Packets -> {"wire", "queued", "released", "dropped"}] /\ fate' # fate
  BY Zenon DEF EngineInv, CountInv, EngineTyped
<1>2. ASSUME NEW f \in Flows, RemoveSession(f) PROVE FALSE
  BY <1>1, <1>2, Zenon DEF RemoveSession, Unqueue
<1>3. ASSUME NEW q \in Packets, NEW end, fate[q] = "wire", fate' = [fate EXCEPT ![q] = end]
      PROVE  FALSE
  BY <1>1, <1>3, Zenon
<1>4. ASSUME NEW f \in Flows, NEW q \in Packets,
             OutboundNew(f, q) \/ OutboundHalfOpen(f, q) \/ OutboundEstablished(f, q)
             \/ OutboundRetryDelete(f, q)
      PROVE  FALSE
  BY <1>3, <1>4, Zenon DEF OutboundNew, OutboundHalfOpen, OutboundEstablished, OutboundRetryDelete,
     Enqueue
<1>5. ASSUME NEW f \in Flows, InboundHandshakeACK(f)
      PROVE  nextID < MaxSessionID /\ Establish(f) /\ p \in Range(sessions[f].pending)
  BY <1>1, <1>5, Zenon DEF InboundHandshakeACK, RestoreCheckpoint, Establish, Unqueue
<1>6. ASSUME NEW f \in Flows,
             \/ InboundSYN(f) \/ InboundSimultaneousSYN(f) \/ InboundReset(f)
             \/ InboundEstablished(f) \/ InboundRetryDelete(f) \/ InboundCapturedControl(f)
      PROVE  FALSE
  BY <1>1, <1>2, <1>6, Zenon DEF InboundSYN, InboundSimultaneousSYN, InboundReset,
       InboundEstablished,
     InboundRetryDelete, InboundCapturedControl, BeginDelete
<1>7. ASSUME NEW f \in Flows,
             TickSkip(f) \/ TickHalfOpen(f) \/ TickMissing(f) \/ TickIdle(f)
             \/ TickRetryDelete(f)
      PROVE  FALSE
  BY <1>1, <1>2, <1>7, Zenon DEF TickSkip, TickHalfOpen, TickMissing, TickIdle, TickRetryDelete,
     BeginDelete
<1>8. ASSUME NEW f \in Flows, FastTX(f) \/ FastRX(f) \/ Idle(f) \/ ForeignDelete(f)
      PROVE  FALSE
  BY <1>1, <1>8, Zenon DEF FastTX, FastRX, Idle, ForeignDelete
<1>9. ASSUME Claim \/ DeleteSession PROVE FALSE
  <2>1. call.flow \in Flows
    BY <1>9, CallTyped, Zenon DEF Claim, DeleteSession, EngineInv, CountInv, FastInv
  <2> QED BY <1>1, <1>2, <1>9, <2>1, DeleteMoves, Zenon
          DEF DeleteUncertain, DeleteRefused, DeleteDone
<1>10. CASE Tick \/ UNCHANGED vars
  BY <1>1, <1>10, Zenon DEF Tick, vars
<1> QED BY <1>4, <1>5, <1>6, <1>7, <1>8, <1>9, <1>10, Zenon DEF Next

\* A session claimed as idle has been idle since the lookup.
LEMMA IdleIsIdle ==
    ASSUME OptionsAssumption, EngineInv, [Next]_vars
    PROVE  IdleClaimsIdle
<1> SUFFICES ASSUME NEW f \in Flows,
                    ~fast[f].claimed, fast'[f].claimed, call.request.reason = "idle-timeout"
             PROVE  ~fast[f].active
  BY Zenon DEF IdleClaimsIdle
<1>1. call # None /\ call.flow = f /\ MatchesExpected(f, call.request.expected)
  BY ClaimedByClaim, Zenon
<1>2. call.request \in Deletes /\ Asked(f, call.request)
  BY <1>1, CallTyped, Zenon DEF Asked, EngineInv, CountInv, FastInv
<1> QED BY <1>1, <1>2, Zenon DEF EngineInv, FastInv, RequestInv, MatchesExpected

\* Queued packets are released with their session in the map.
LEMMA ReleasedIsEstablished ==
    ASSUME OptionsAssumption, EngineInv, [Next]_vars
    PROVE  ReleaseMeansEstablished
<1> SUFFICES ASSUME NEW f \in Flows,
                    NEW p \in Range(sessions[f].pending), fate'[p] = "released"
             PROVE  fast'[f] # Absent /\ fast'[f].id = sessions'[f].id
  BY Zenon DEF ReleaseMeansEstablished
<1>1. PICK i \in 1 .. Len(Queue(f)) : Queue(f)[i] = p
  BY QueueTyped DEF Range, Queue, EngineInv, CountInv
<1>2. p \in Packets /\ fate[p] = "queued"
  BY <1>1, QueueTyped DEF EngineInv, CountInv, QueueInv
<1>3. PICK g \in Flows : /\ nextID < MaxSessionID /\ Establish(g)
                         /\ p \in Range(sessions[g].pending)
  BY <1>2, ReleasedByEstablish, Zenon
<1>4. PICK j \in 1 .. Len(Queue(g)) : Queue(g)[j] = p
  BY <1>3, QueueTyped DEF Range, Queue, EngineInv, CountInv
<1>5. g = f
  <2>1. QueueInv
    BY Zenon DEF EngineInv, CountInv
  <2>2. Queue(g)[j] = Queue(f)[i]
    BY <1>1, <1>4, Zenon
  <2> QED BY <2>1, <2>2, PlacesDiffer, Zenon
<1>6. sessions'[f].id = nextID + 1 /\ nextID' = nextID + 1 /\ nextID \in Nat
  <2>1. CountInv /\ nextID \in 0 .. MaxSessionID
    BY Zenon DEF EngineInv, CountInv, EngineTyped
  <2>2. sessions'[f].id = nextID + 1 /\ nextID' = nextID + 1
    BY <1>3, <1>5, <2>1, EstablishSession, Zenon
  <2>3. nextID \in Nat
    BY <2>1
  <2> QED BY <2>2, <2>3, Zenon
<1>7. fast'[f].id = nextID + 1
  BY <1>3, <1>5, <1>6, Zenon DEF Establish, EngineInv, FastInv, FastTyped
<1> QED BY <1>6, <1>7 DEF Absent

-----------------------------------------------------------------------------
(* The theorems *)

INSTANCE FiniteSetTheorems

\* An injective sequence is a bijection of its places and its values.
LEMMA InjectiveValues ==
    ASSUME NEW S, NEW q \in Seq(S),
           \A i, j \in 1 .. Len(q) : q[i] = q[j] => i = j
    PROVE  /\ IsFiniteSet(Range(q))
           /\ Cardinality(Range(q)) = Len(q)
<1>1. Len(q) \in Nat /\ DOMAIN q = 1 .. Len(q)
  OBVIOUS
<1>2. Range(q) = {q[i] : i \in 1 .. Len(q)}
  BY <1>1, Zenon DEF Range
<1>3. q \in Bijection(1 .. Len(q), Range(q))
  <2>1. q \in [1 .. Len(q) -> Range(q)]
    BY <1>1, <1>2
  <2>2. q \in Injection(1 .. Len(q), Range(q))
    BY <2>1, Zenon DEF Injection, IsInjective
  <2>3. q \in Surjection(1 .. Len(q), Range(q))
    BY <1>2, <2>1, Zenon DEF Surjection
  <2> QED BY <2>2, <2>3, Zenon DEF Bijection
<1>4. ExistsBijection(1 .. Len(q), Range(q))
  BY <1>3, Zenon DEF ExistsBijection
<1>5. IsFiniteSet(1 .. Len(q)) /\ Cardinality(1 .. Len(q)) = Len(q)
  <2> DEFINE n == Len(q)
             size == IF 1 > n THEN 0 ELSE n - 1 + 1
  <2>1. 1 \in Int /\ n \in Int /\ size = n
    BY <1>1
  <2>2. IsFiniteSet(1 .. n) /\ Cardinality(1 .. n) = size
    BY <2>1, FS_Interval, Zenon
  <2> HIDE DEF size
  <2> QED BY <2>1, <2>2, Zenon
<1> QED BY <1>4, <1>5, FS_Bijection, ZenonT(30)

\* The library proves what the steps took as a hypothesis.
LEMMA FiniteFactsHold == FiniteFacts
<1>1. \A S : IsFiniteSet(S) => Cardinality(S) \in Nat /\ (Cardinality(S) = 0 <=> S = {})
  BY FS_CardinalityType, FS_EmptySet, Zenon
<1>2. \A S : \A T \in SUBSET S : IsFiniteSet(S) => IsFiniteSet(T)
  BY FS_Subset, Zenon
<1>3. \A S, x : IsFiniteSet(S) =>
          /\ IsFiniteSet(S \cup {x})
          /\ Cardinality(S \cup {x}) =
                IF x \in S THEN Cardinality(S) ELSE Cardinality(S) + 1
  BY FS_AddElement, Zenon
<1>4. \A S, x : IsFiniteSet(S) =>
          /\ IsFiniteSet(S \ {x})
          /\ Cardinality(S \ {x}) =
                IF x \in S THEN Cardinality(S) - 1 ELSE Cardinality(S)
  BY FS_RemoveElement, Zenon
<1>5. ASSUME NEW S, NEW T \in SUBSET S, IsFiniteSet(S)
      PROVE  IsFiniteSet(S \ T) /\ Cardinality(S \ T) = Cardinality(S) - Cardinality(T)
  <2>1. S \cap T = T
    BY Zenon
  <2> QED BY <1>5, <2>1, FS_Difference, Zenon
<1>6. \A S : \A q \in Seq(S) :
          (\A i, j \in 1 .. Len(q) : q[i] = q[j] => i = j)
            => IsFiniteSet(Range(q)) /\ Cardinality(Range(q)) = Len(q)
  BY InjectiveValues, Zenon
<1> QED BY <1>1, <1>2, <1>3, <1>4, <1>5, <1>6, Zenon DEF FiniteFacts

\* newEngine starts with empty maps and counters at zero.
LEMMA EngineInvInit ==
    ASSUME OptionsAssumption, Init
    PROVE  EngineInv
<1>1. EngineTyped
  BY ClosedTyped, Limits DEF Init, EngineTyped
<1>2. FastTyped
  BY Limits DEF Init, FastTyped, Absent
<1>3. \A f \in Flows : /\ ~sessions[f].held /\ ~HalfOpen(f) /\ Queue(f) = << >>
                       /\ sessions[f].delete = None
  BY Zenon DEF Init, Closed, HalfOpen, Queue
<1>4. Holders = {} /\ Waiting = {} /\ Queued = {} /\ \A s \in Sources : HoldersOf(s) = {}
  BY <1>3, Zenon DEF Holders, HoldersOf, Waiting, Queued, Queue, Init
<1>5. HoldInv
  BY <1>3, <1>4, FS_EmptySet, Zenon DEF HoldInv, Init
<1>6. \A f \in Flows : Len(Queue(f)) = 0
  BY <1>3
<1>7. QueueInv
  BY <1>3, <1>6, Limits DEF QueueInv, Init
<1>8. PendingInv
  BY <1>4, FS_EmptySet, Zenon DEF PendingInv, Init
<1>9. DeleteInv /\ EntryInv /\ TombstoneOwned
  BY <1>3, Limits DEF DeleteInv, EntryInv, FastSessionOwned, Present, TombstoneOwned, Init, Absent
<1>10. RequestInv
  BY <1>3, RequestsAreThere, Zenon DEF RequestInv, Asked, Init
<1> QED BY <1>1, <1>2, <1>5, <1>7, <1>8, <1>9, <1>10 DEF EngineInv, CountInv, FastInv

\* The inductive invariant holds in every behaviour of the engine.
THEOREM EngineInvariant ==
    ASSUME OptionsAssumption
    PROVE  Spec => []EngineInv
<1>1. Init => EngineInv
  BY EngineInvInit, Zenon
<1>2. EngineInv /\ [Next]_vars => EngineInv'
  BY EngineInvNext, FiniteFactsHold, Zenon
<1> QED BY <1>1, <1>2, PTL DEF Spec

\* A queued packet has one place, and any other packet none.
LEMMA OnePlace ==
    ASSUME OptionsAssumption, CountInv, NEW p \in Packets
    PROVE  Cardinality(Places(p)) = IF fate[p] = "queued" THEN 1 ELSE 0
<1>1. \A f \in Flows : Len(Queue(f)) \in Nat /\ Len(Queue(f)) <= MaxPendingPacketsPerFlow
  BY QueueTyped, ZenonT(30) DEF CountInv, QueueInv
<1>2. \A x \in Places(p) : /\ x[1] \in Flows /\ x[2] \in 1 .. Len(Queue(x[1]))
                           /\ Queue(x[1])[x[2]] = p /\ x = <<x[1], x[2]>>
  BY <1>1, Limits DEF Places, Queue
<1>3. CASE fate[p] = "queued"
  <2>a. PICK f \in Flows : \E i \in 1 .. Len(Queue(f)) : Queue(f)[i] = p
    BY <1>3, Zenon DEF CountInv, QueueInv
  <2>1. PICK i \in 1 .. Len(Queue(f)) : Queue(f)[i] = p
    BY <2>a, Zenon
  <2>2. <<f, i>> \in Places(p)
    <3>1. i \in 1 .. MaxPendingPacketsPerFlow /\ i <= Len(Queue(f))
      BY <1>1, <2>1, Limits
    <3> QED BY <2>1, <3>1, Zenon DEF Places, Queue
  <2>3. \A x \in Places(p) : x[1] = f /\ x[2] = i
    BY <1>2, <2>1 DEF CountInv, QueueInv
  <2>4. Places(p) = {<<f, i>>}
    BY <1>2, <2>2, <2>3, Zenon
  <2> QED BY <1>3, <2>4, FS_Singleton, Zenon
<1>4. CASE fate[p] # "queued"
  <2>1. Places(p) = {}
    BY <1>2, <1>4 DEF CountInv, QueueInv
  <2> QED BY <1>4, <2>1, FS_EmptySet, ZenonT(30)
<1> QED BY <1>3, <1>4, ZenonT(30)

\* The counters that gate admission are exact, whatever the interleaving of
\* captured packets, segments, ticks, failing stores and packet programs: each
\* half-open session counts once, globally and for its source (holdHalfOpen,
\* releaseHalfOpen), each waiting flow and queued packet once (enqueue, remove,
\* restore), and a packet is in one queue or in none.
THEOREM EngineCountersExact ==
    ASSUME OptionsAssumption
    PROVE  Spec => []CountersExact
<1>1. EngineInv => CountersExact
  <2> SUFFICES ASSUME EngineInv PROVE CountersExact
    BY Zenon
  <2>1. CountInv
    BY Zenon DEF EngineInv
  <2>2. HalfOpenExact
    <3>1. {f \in Flows : sessions[f].held} = {f \in Flows : HalfOpen(f)}
      BY <2>1, Zenon DEF CountInv, HoldInv
    <3>2. \A s \in Sources : {f \in {g \in Flows : sessions[g].held} : sessions[f].source = s}
                               = HoldersOf(s)
      BY Zenon DEF HoldersOf
    <3> QED BY <2>1, <3>1, <3>2, Zenon DEF CountInv, HoldInv, HalfOpenExact, Holders
  <2>3. PendingExact
    BY <2>1, Zenon DEF CountInv, PendingInv, QueueInv, PendingExact, Queued, Queue, Waiting
  <2>4. PacketInOnePlace
    BY <2>1, OnePlace, ZenonT(30) DEF PacketInOnePlace
  <2> QED BY <2>2, <2>3, <2>4, Zenon DEF CountersExact
<1> QED BY <1>1, EngineInvariant, PTL

\* Every variable has its type: the counters never leave the limits of Options.
THEOREM EngineTypeCorrect ==
    ASSUME OptionsAssumption
    PROVE  Spec => []TypeOK
<1>1. EngineInv => TypeOK
  BY Zenon DEF EngineInv, CountInv, FastInv, EngineTyped, FastTyped, TypeOK
<1> QED BY <1>1, EngineInvariant, PTL

\* The fast path belongs to the engine: an entry of the session map is the
\* established session of its lifetime, a tombstone has the retry that reclaims
\* it, a session heard since the lookup is never claimed as idle
\* (compareDeleteEstablished, wg_faketcp_session_claim), and queued packets are
\* released only with their session in the map (insertEstablished).
THEOREM EngineFastPathOwned ==
    ASSUME OptionsAssumption
    PROVE  Spec => FastPathOwned
<1>1. EngineInv => FastSessionOwned /\ TombstoneOwned
  BY Zenon DEF EngineInv, FastInv, EntryInv
<1>2. EngineInv /\ [Next]_vars => IdleClaimsIdle /\ ReleaseMeansEstablished
  BY IdleIsIdle, ReleasedIsEstablished, Zenon
<1> QED BY <1>1, <1>2, EngineInvariant, PTL DEF FastPathOwned, Spec
=============================================================================

---------------------------- MODULE SynAdmission ----------------------------
(***************************************************************************)
(* Admission of inbound SYNs by the FakeTCP engine                         *)
(* (internal/faketcp/engine.go): a global token bucket, then a bounded     *)
(* ledger of sources kept in least-recently-used order, each with a bucket *)
(* and a count of half-open sessions of its own.  Every call runs under    *)
(* Engine.mu and is one step.  Time is a natural number of clock ticks     *)
(* since the engine's admission epoch.                                     *)
(***************************************************************************)
EXTENDS Naturals, Sequences, SequencesExt, FiniteSets, FiniteSetsExt

CONSTANTS Sources,                 \* remote address and underlay of a SYN
          SYNRateInterval, SYNBurst, SYNBurstPerSource,
          SYNSourceLedgerCapacity, SYNSourceLedgerTTL, PruneBudget,
          MaxHalfOpenSessions, MaxHalfOpenPerSource,
          MaxTime                  \* bound on the clock

\* The limits newEngine insists on.  The TTL is at least the time one source
\* bucket takes to fill, which newEngine does not ask for and the defaults of
\* config.go (five minutes against 8 * 100 ms) exceed by far.
LimitsAssumption ==
    /\ {SYNRateInterval, SYNBurst, SYNBurstPerSource, SYNSourceLedgerCapacity, SYNSourceLedgerTTL,
        PruneBudget, MaxHalfOpenSessions, MaxHalfOpenPerSource} \subseteq Nat \ {0}
    /\ MaxHalfOpenPerSource <= MaxHalfOpenSessions
    /\ SYNBurstPerSource <= SYNBurst
    /\ SYNSourceLedgerCapacity >= MaxHalfOpenSessions
    /\ SYNSourceLedgerTTL >= SYNBurstPerSource * SYNRateInterval

VARIABLES
    now,        \* Options.Now
    globalSYNs, \* Engine.globalSYNs
    synSources, \* Engine.synSources, Absent where the map has no entry
    lru,        \* Engine.synSourceLRU, front first
    halfOpen,   \* Engine.halfOpen
    held,       \* half-open sessions that exist, by source; Outbound for our own
    spent,      \* when each global token was spent
    passed      \* when each SYN passed both limiters, by source

vars == <<now, globalSYNs, synSources, lru, halfOpen, held, spent, passed>>

Outbound == "outbound"
Absent == [known |-> FALSE]
Known == {s \in Sources : synSources[s].known}

Bucket == [tokens |-> 0, lastRefill |-> 0]

Init ==
    /\ now = 0
    /\ globalSYNs = Bucket
    /\ synSources = [s \in Sources |-> Absent]
    /\ lru = << >>
    /\ halfOpen = 0
    /\ held = [s \in Sources \cup {Outbound} |-> 0]
    /\ spent = << >>
    /\ passed = [s \in Sources |-> << >>]

refillTokenBucketForgets(b, burst) ==
    LET steps == (now - b.lastRefill) \div SYNRateInterval
    IN  IF steps >= burst THEN [tokens |-> burst, lastRefill |-> now]
        ELSE [b EXCEPT !.tokens = Min({burst, @ + steps})]

\* Whole intervals since the last refill become tokens, up to the burst.
refillTokenBucket(b, burst) ==
    LET steps == (now - b.lastRefill) \div SYNRateInterval
    IN  IF steps >= burst THEN [tokens |-> burst, lastRefill |-> now]
        ELSE [tokens     |-> Min({burst, b.tokens + steps}),
              lastRefill |-> b.lastRefill + steps * SYNRateInterval]

Spend(b) == [b EXCEPT !.tokens = @ - 1]

MoveToFront(order, s) == <<s>> \o SelectSeq(order, LAMBDA t : t # s)

\* The ledger as a pair of the map and its order, so that one step can change it
\* several times over.
Ledger == [map |-> synSources, order |-> lru]

touchInPlace(l, s) == [l EXCEPT !.map[s].lastActivity = now]

touch(l, s) ==
    [map   |-> [l.map EXCEPT ![s].lastActivity = now],
     order |-> MoveToFront(l.order, s)]

ExpiredEarly(e) == now > e.lastActivity

Expired(e) == now >= e.lastActivity + SYNSourceLedgerTTL

VisitEvictsActive(l) ==
    LET s == Last(l.order)
    IN  IF l.order = << >> \/ ~Expired(l.map[s]) THEN l
        ELSE [map |-> [l.map EXCEPT ![s] = Absent], order |-> Front(l.order)]

VisitStopsAtActive(l) ==
    LET s == Last(l.order)
    IN  IF l.order = << >> \/ ~Expired(l.map[s]) \/ l.map[s].halfOpen > 0 THEN l
        ELSE [map |-> [l.map EXCEPT ![s] = Absent], order |-> Front(l.order)]

\* One turn of the pruning loop: the oldest source goes, or is refreshed when it
\* still has half-open sessions.  A source that is not expired ends the loop, and
\* further turns leave the ledger as it is.
Visit(l) ==
    LET s == Last(l.order)
    IN  IF l.order = << >> \/ ~Expired(l.map[s]) THEN l
        ELSE IF l.map[s].halfOpen = 0
             THEN [map |-> [l.map EXCEPT ![s] = Absent], order |-> Front(l.order)]
             ELSE touch(l, s)

pruneExpiredSYNSources(l) == FoldLeft(LAMBDA acc, i : Visit(acc), l, [i \in 1 .. PruneBudget |-> i])

\* A new source has the whole uptime of the engine as its budget.
NewSource == [known |-> TRUE, bucket |-> Bucket, halfOpen |-> 0, lastActivity |-> now]

\* The ledger with s in it, or the pruned ledger when there is no room for s.
lookupOrCreateSYNSource(l, s) ==
    LET pruned == pruneExpiredSYNSources(l)
    IN  IF pruned.map[s].known THEN touch(pruned, s)
        ELSE IF Len(pruned.order) >= SYNSourceLedgerCapacity THEN pruned
             ELSE [map |-> [pruned.map EXCEPT ![s] = NewSource], order |-> <<s>> \o pruned.order]

SetLedger(l) == synSources' = l.map /\ lru' = l.order

\* observeSYN stops at the global limiter: nothing but the bucket changes.
RejectGlobal ==
    LET global == refillTokenBucket(globalSYNs, SYNBurst)
    IN  /\ global.tokens = 0
        /\ globalSYNs' = global
        /\ UNCHANGED <<now, synSources, lru, halfOpen, held, spent, passed>>

\* The global token is spent and never given back.
SpendGlobal ==
    LET global == refillTokenBucket(globalSYNs, SYNBurst)
    IN  /\ global.tokens > 0
        /\ globalSYNs' = Spend(global)
        /\ spent' = Append(spent, now)

\* The ledger is full of sources that may not go.
RejectLedger(s) ==
    LET l == lookupOrCreateSYNSource(Ledger, s)
    IN  /\ SpendGlobal
        /\ ~l.map[s].known
        /\ SetLedger(l)
        /\ UNCHANGED <<now, halfOpen, held, passed>>

RejectSource(s) ==
    LET l == lookupOrCreateSYNSource(Ledger, s)
        b == refillTokenBucket(l.map[s].bucket, SYNBurstPerSource)
    IN  /\ SpendGlobal
        /\ l.map[s].known
        /\ b.tokens = 0
        /\ SetLedger([l EXCEPT !.map[s].bucket = b])
        /\ UNCHANGED <<now, halfOpen, held, passed>>

MayReserveAnyway(e) == halfOpen < MaxHalfOpenSessions

MayReserve(e) == halfOpen < MaxHalfOpenSessions /\ e.halfOpen < MaxHalfOpenPerSource

\* A SYN that passes both limiters.  One for a flow without a session, when the
\* session map has room ("fresh"), takes a half-open place if there is one.
Admit(s, fresh) ==
    LET l == lookupOrCreateSYNSource(Ledger, s)
        b == refillTokenBucket(l.map[s].bucket, SYNBurstPerSource)
        n == IF fresh /\ MayReserve(l.map[s]) THEN 1 ELSE 0
    IN  /\ SpendGlobal
        /\ l.map[s].known
        /\ b.tokens > 0
        /\ SetLedger([l EXCEPT !.map[s].bucket = Spend(b), !.map[s].halfOpen = @ + n])
        /\ halfOpen' = halfOpen + n
        /\ held' = [held EXCEPT ![s] = @ + n]
        /\ passed' = [passed EXCEPT ![s] = Append(@, now)]
        /\ UNCHANGED now

\* An outbound packet opens a session of our own.
OpenOutbound ==
    /\ halfOpen < MaxHalfOpenSessions
    /\ halfOpen' = halfOpen + 1
    /\ held' = [held EXCEPT ![Outbound] = @ + 1]
    /\ UNCHANGED <<now, globalSYNs, synSources, lru, spent, passed>>

ReleaseSource(s) == SetLedger([touch(Ledger, s) EXCEPT !.map[s].halfOpen = @ - 1])

\* A half-open session is established, reset, or out of retries.
releaseHalfOpen(s) ==
    /\ held[s] > 0
    /\ held' = [held EXCEPT ![s] = @ - 1]
    /\ halfOpen' = halfOpen - 1
    /\ IF s \in Sources /\ synSources[s].known THEN ReleaseSource(s)
       ELSE UNCHANGED <<synSources, lru>>
    /\ UNCHANGED <<now, globalSYNs, spent, passed>>

ClockTick ==
    /\ now < MaxTime
    /\ now' = now + 1
    /\ UNCHANGED <<globalSYNs, synSources, lru, halfOpen, held, spent, passed>>

Next ==
    \/ RejectGlobal
    \/ \E s \in Sources : RejectLedger(s)
    \/ \E s \in Sources : RejectSource(s)
    \/ \E s \in Sources, fresh \in BOOLEAN : Admit(s, fresh)
    \/ OpenOutbound
    \/ \E s \in Sources \cup {Outbound} : releaseHalfOpen(s)
    \/ ClockTick

Spec == Init /\ [][Next]_vars

-----------------------------------------------------------------------------

Buckets(burst) == [tokens : 0 .. burst, lastRefill : 0 .. MaxTime]

\* Every field keeps its range: no bucket exceeds its burst, no counter its
\* limit, and the ledger its capacity.
TypeOK ==
    /\ now \in 0 .. MaxTime
    /\ globalSYNs \in Buckets(SYNBurst)
    /\ synSources \in [Sources -> {Absent} \cup
          [known : {TRUE}, bucket : Buckets(SYNBurstPerSource),
           halfOpen : 0 .. MaxHalfOpenPerSource, lastActivity : 0 .. MaxTime]]
    /\ Cardinality(Known) <= SYNSourceLedgerCapacity
    /\ halfOpen \in 0 .. MaxHalfOpenSessions
    /\ held \in [Sources \cup {Outbound} -> 0 .. MaxHalfOpenSessions]

\* No window of the times ts holds more than a burst and one more for every
\* interval begun in it, and no more than the uptime has earned.
WithinRate(ts, burst) ==
    /\ Len(ts) <= now \div SYNRateInterval
    /\ \A i, j \in DOMAIN ts : i <= j =>
          j - i + 1 <= burst + (ts[j] - ts[i] + SYNRateInterval - 1) \div SYNRateInterval

\* However many sources send, and whatever becomes of their SYNs after the global
\* limiter, the ledger and the sessions see SYNs at no more than the configured
\* rate, and a new engine grants no immediate burst (observeSYN).
GlobalRate == WithinRate(spent, SYNBurst)

\* The same for each source, although its ledger entry may be evicted and made
\* anew with a bucket that has the engine's whole uptime to its credit
\* (lookupOrCreateSYNSource, releaseHalfOpen).
SourceRate == \A s \in Sources : WithinRate(passed[s], SYNBurstPerSource)

\* A source with half-open sessions is never forgotten, its count is the number
\* of its sessions, and the engine's count that of all (reserveInboundHalfOpen,
\* pruneExpiredSYNSources, releaseHalfOpen).
HeldIsCounted ==
    /\ halfOpen = MapThenSumSet(LAMBDA s : held[s], Sources \cup {Outbound})
    /\ \A s \in Sources : held[s] > 0 => s \in Known
    /\ \A s \in Known : synSources[s].halfOpen = held[s]

\* "LRU order is also last-activity order" (pruneExpiredSYNSources): the list has
\* each known source once, the most recently active first.
OrderIsActivity ==
    /\ ToSet(lru) = Known /\ Len(lru) = Cardinality(Known)
    /\ \A i, j \in DOMAIN lru : i < j => synSources[lru[i]].lastActivity >= synSources[lru[j]].lastActivity

ExpiredSources == {s \in Known : Expired(synSources[s])}

\* Of every step: a SYN that passes the global limiter retires as many expired sources as its
\* budget allows, evicted or refreshed: an expired source that cannot go yet does
\* not obstruct those behind it (pruneExpiredSYNSources).
CleanupAdvances ==
    spent' # spent =>
        Cardinality(ExpiredSources') + PruneBudget <= Max({PruneBudget, Cardinality(ExpiredSources)})
=============================================================================

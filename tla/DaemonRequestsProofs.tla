----------------------- MODULE DaemonRequestsProofs -----------------------
(***************************************************************************)
(* Proofs about the request protocol, for any number of clients and daemon *)
(* instances and any limits: mutations are serialized, the queues keep to  *)
(* their limits, answers are true, and decisions are final.                *)
(***************************************************************************)
EXTENDS DaemonRequests, TLAPS

(* The inductive invariant *)

\* Run has its lease.
Holds(i) == pc[i] \notin {"off", "returned", "exited"}

\* Run has given its lease back, for good.
Ended(i) == pc[i] \in {"returned", "exited"}

\* processRequests has a batch that it has not decided to answer and leave.
Looping(i) == \/ pc[i] \in {"serve", "reload", "reloaded"}
              \/ pc[i] = "unlink" /\ work[i].then = "serve"

\* shutdown has its outcome, and the answers go out.
Stopped(i) == \/ pc[i] \in {"answer", "close", "returned", "exited"}
              \/ pc[i] = "unlink" /\ work[i].then = "answer"

Ending(i) == Stopped(i) \/ pc[i] \in {"retain", "cleanup"}

\* The batch is to be answered when shutdown has its outcome.
Answering(i) == \/ pc[i] \in {"retain", "cleanup"} /\ work[i].why \in {"stop", "reload"}
                \/ pc[i] = "answer"
                \/ pc[i] = "unlink" /\ work[i].then = "answer"

\* The lease: who runs holds it, and its holders are one process.
LeaseInv ==
    /\ \A i \in Instances : Main(i) \in lease <=> Holds(i)
    /\ \A i \in Instances : Worker(i) \in lease <=> worker[i] = "running"
    /\ \A c \in Clients : OneShot(c) \in lease <=> cpc[c] = "mutate"
    /\ \A i, j \in Instances : i # j /\ (Holds(i) \/ worker[i] = "running")
                                 => ~Holds(j) /\ worker[j] # "running"
    /\ \A c \in Clients : cpc[c] = "mutate" =>
          /\ \A i \in Instances : ~Holds(i) /\ worker[i] # "running"
          /\ \A d \in Clients : cpc[d] = "mutate" => d = c

\* A daemon that has not started has nothing to do, and the cleanup worker exists
\* only once its daemon shuts down.
WorkerInv ==
    \A i \in Instances :
        /\ pc[i] = "off" => work[i] = Idle
        /\ worker[i] # "none" => Ending(i) /\ pc[i] # "retain"

Sent(c) == cpc[c] \notin {"start", "enqueue"}

\* The batch of the daemon that holds the lease.
BatchInv(i) ==
    /\ \A c \in work[i].names \cup work[i].batch : Sent(c) /\ target[c] # 0
    /\ pc[i] = "unlink" =>
          work[i].then \in {"serve", "answer"} /\ work[i].cur \in Clients
    /\ ~Ending(i) => \A c \in Clients : target[c] = i /\ ran[c] # << >> =>
          \/ c \notin requests
          \/ Acked(c)
          \/ pc[i] \in {"reload", "reloaded"} /\ c = work[i].cur
    /\ Looping(i) => \A c \in work[i].batch :
          target[c] = i /\ ran[c] # << >> => c = work[i].cur /\ pc[i] # "serve"
    /\ pc[i] \in {"reload", "reloaded"} =>
          /\ work[i].cur \in work[i].batch
          /\ Kind[work[i].cur] = "reload" /\ ran[work[i].cur] = <<i>>
          /\ \A c \in work[i].batch : target[c] = i
    /\ Answering(i) => \A c \in work[i].batch :
          target[c] = i /\ (Kind[c] = "stop" => ran[c] = <<i>>)
    /\ pc[i] \in {"answer", "unlink"} /\ Stopped(i) /\ ~work[i].failed => worker[i] = "ok"
    /\ Looping(i) \/ Answering(i) => \A c \in work[i].batch :
          Acked(c) => pc[i] = "unlink" /\ c = work[i].cur

\* The request of c was carried out by the daemon it named, and a stop is over.
Done(c) ==
    /\ ran[c] = <<target[c]>>
    /\ Kind[c] = "stop" => worker[target[c]] = "ok" /\ Stopped(target[c])

\* What an acknowledgement says is true.
AckInv(c) ==
    Acked(c) =>
        /\ acks[c].verdict = "changed" => acks[c].inst # target[c] /\ Ended(target[c])
        /\ acks[c].verdict # "changed" => acks[c].inst = target[c]
        /\ acks[c].verdict = "ok" => Done(c)

ClientInv(c) ==
    /\ ~Sent(c) => c \notin requests /\ ~Acked(c) /\ ran[c] = << >> /\ answer[c] = "none"
    /\ cpc[c] \in {"enqueue", "wait", "absent", "gone", "consume"} => target[c] # 0
    /\ c \in requests \/ Acked(c) \/ ran[c] # << >> => target[c] # 0
    /\ target[c] # 0 => /\ pc[target[c]] \notin {"off", "starting"}
                        /\ Ended(target[c]) \/ status = target[c]
    /\ cpc[c] = "gone" \/ answer[c] = "withdrawn" => target[c] # 0 /\ Ended(target[c])
    /\ ran[c] \in {<< >>, <<target[c]>>}
    /\ AckInv(c)
    /\ answer[c] \in {"ok", "changed"} => target[c] # 0
    /\ answer[c] = "ok" => Done(c)
    /\ answer[c] = "changed" => Ended(target[c])
    /\ answer[c] # "invalid"

\* The queue and the history keep to their limits.
BoundInv ==
    /\ IsFiniteSet(requests) /\ Cardinality(requests) <= maxPendingRequestFiles
    /\ IsFiniteSet(Answers)
    /\ \A i \in Instances :
          pc[i] \in {"select", "poll"} => Cardinality(Answers) <= maxRetainedAckFiles

RequestsInv ==
    /\ TypeOK
    /\ LeaseInv
    /\ WorkerInv
    /\ status # 0 => pc[status] \notin {"off", "starting"}
    /\ \A i \in Instances : Holds(i) => BatchInv(i)
    /\ \A c \in Clients : ClientInv(c)
    /\ BoundInv
-----------------------------------------------------------------------------
(* What the bounds use of finite sets. The lemmas below take these facts as a
   hypothesis; FiniteFactsHold proves them from the library's theorems, where the
   theorems of this module are put together. *)

FiniteFacts ==
    /\ \A S : IsFiniteSet(S) => Cardinality(S) \in Nat
    /\ \A S : \A T \in SUBSET S :
          IsFiniteSet(S) => IsFiniteSet(T) /\ Cardinality(T) <= Cardinality(S)
    /\ \A S, x : IsFiniteSet(S) =>
          /\ IsFiniteSet(S \cup {x})
          /\ Cardinality(S \cup {x}) =
                IF x \in S THEN Cardinality(S) ELSE Cardinality(S) + 1

\* The number of members of a finite set is a natural number.
LEMMA CardinalityIsNat ==
    ASSUME FiniteFacts, NEW S, IsFiniteSet(S)
    PROVE  Cardinality(S) \in Nat
  BY Zenon DEF FiniteFacts

\* A subset of a finite set is finite, and no larger.
LEMMA SubsetFacts ==
    ASSUME FiniteFacts, NEW S, IsFiniteSet(S), NEW T \in SUBSET S
    PROVE  IsFiniteSet(T) /\ Cardinality(T) <= Cardinality(S)
  BY Zenon DEF FiniteFacts

\* A finite set with one more member.
LEMMA AddFacts ==
    ASSUME FiniteFacts, NEW S, NEW x, IsFiniteSet(S)
    PROVE  /\ IsFiniteSet(S \cup {x})
           /\ Cardinality(S \cup {x}) =
                 IF x \in S THEN Cardinality(S) ELSE Cardinality(S) + 1
  BY Zenon DEF FiniteFacts
-----------------------------------------------------------------------------
(* What the pieces of a step do *)

Locals == [names : SUBSET Clients, batch : SUBSET Clients, cur : Clients \cup {"none"},
           then : Labels \cup {"none"},
           why : {"none", "stop", "signal", "status", "error", "reload"}, failed : BOOLEAN]

\* Everything about the daemons has its type.
DaemonTyped ==
    /\ pc \in [Instances -> Labels]
    /\ work \in [Instances -> Locals]

\* Descriptors of different holders are different.
LEMMA HoldersApart ==
    /\ \A i, j \in Instances : Main(i) # Worker(j)
    /\ \A i, j \in Instances : Main(i) = Main(j) => i = j
    /\ \A i, j \in Instances : Worker(i) = Worker(j) => i = j
    /\ \A i \in Instances, c \in Clients : Main(i) # OneShot(c) /\ Worker(i) # OneShot(c)
    /\ \A c, d \in Clients : OneShot(c) = OneShot(d) => c = d
BY Zenon DEF Main, Worker, OneShot

\* A program counter moves.
LEMMA GotoFacts ==
    ASSUME DaemonTyped, NEW i \in Instances, NEW label \in Labels, Goto(i, label)
    PROVE  /\ pc' \in [Instances -> Labels]
           /\ pc'[i] = label
           /\ \A j \in Instances \ {i} : pc'[j] = pc[j]
BY Zenon DEF Goto, DaemonTyped

\* Run leaves its loop: only the reason is noted.
LEMMA StopFacts ==
    ASSUME DaemonTyped, NEW i \in Instances,
           NEW why \in {"stop", "signal", "status", "error"}, Stop(i, why)
    PROVE  /\ DaemonTyped'
           /\ pc'[i] = "retain"
           /\ \A j \in Instances \ {i} : pc'[j] = pc[j] /\ work'[j] = work[j]
           /\ work'[i].why = why
           /\ work'[i].names = work[i].names
           /\ work'[i].batch = work[i].batch
<1> "retain" \in Labels
  BY Zenon DEF Labels
<1>1. pc' \in [Instances -> Labels] /\ pc'[i] = "retain"
      /\ \A j \in Instances \ {i} : pc'[j] = pc[j]
  BY GotoFacts, Zenon DEF Stop
<1> DEFINE f == (why # "stop" /\ why # "signal")
<1>2. f \in BOOLEAN
  BY Zenon
<1>3. work' = [work EXCEPT ![i].why = why, ![i].failed = f]
  BY Zenon DEF Stop
<1> HIDE DEF f
<1>4. work' \in [Instances -> Locals]
  <2> DEFINE w == [work EXCEPT ![i].why = why]
  <2>1. w \in [Instances -> Locals]
    BY DEF DaemonTyped, Locals
  <2>2. work' = [w EXCEPT ![i].failed = f]
    BY <1>3, Zenon
  <2> HIDE DEF w
  <2> QED
    BY <1>2, <2>1, <2>2 DEF Locals
<1>5. /\ \A j \in Instances \ {i} : work'[j] = work[j]
      /\ work'[i].why = why
      /\ work'[i].names = work[i].names
      /\ work'[i].batch = work[i].batch
  BY <1>2, <1>3 DEF DaemonTyped, Locals
<1> QED
  BY <1>1, <1>4, <1>5, Zenon DEF DaemonTyped

\* An acknowledgement is written.
LEMMA WriteAckFacts ==
    ASSUME TypeOK, NEW i \in Instances, NEW c \in Clients,
           NEW verdict \in {"ok", "error", "changed"}, NEW then \in Labels,
           WriteAck(i, c, verdict, then)
    PROVE  /\ DaemonTyped'
           /\ pc'[i] = "unlink"
           /\ \A j \in Instances \ {i} : pc'[j] = pc[j] /\ work'[j] = work[j]
           /\ work'[i].cur = c /\ work'[i].then = then
           /\ work'[i].names = work[i].names
           /\ work'[i].batch = work[i].batch
           /\ work'[i].failed = work[i].failed
           /\ acks' \in [Clients -> Ack \cup {NoAck}]
           /\ acks'[c] = [inst |-> i, verdict |-> verdict]
           /\ Acked(c)'
           /\ \A d \in Clients \ {c} : acks'[d] = acks[d] /\ (Acked(d)' <=> Acked(d))
           /\ Answers' = Answers \cup {c}
           /\ older' \in [Clients -> SUBSET Answers']
<1> "unlink" \in Labels
  BY Zenon DEF Labels
<1>0. DaemonTyped
  BY Zenon DEF TypeOK, DaemonTyped, Locals
<1>1. pc' \in [Instances -> Labels] /\ pc'[i] = "unlink"
      /\ \A j \in Instances \ {i} : pc'[j] = pc[j]
  BY <1>0, GotoFacts, Zenon DEF WriteAck
<1>2. work' = [work EXCEPT ![i].cur = c, ![i].then = then]
  BY Zenon DEF WriteAck
<1>3. work' \in [Instances -> Locals]
  <2> DEFINE w == [work EXCEPT ![i].cur = c]
  <2>1. w \in [Instances -> Locals]
    BY <1>0 DEF DaemonTyped, Locals
  <2>2. work' = [w EXCEPT ![i].then = then]
    BY <1>2, Zenon
  <2> HIDE DEF w
  <2> QED
    BY <2>1, <2>2 DEF Locals
<1>4. /\ \A j \in Instances \ {i} : work'[j] = work[j]
      /\ work'[i].cur = c /\ work'[i].then = then
      /\ work'[i].names = work[i].names
      /\ work'[i].batch = work[i].batch
      /\ work'[i].failed = work[i].failed
  BY <1>0, <1>2 DEF DaemonTyped, Locals
<1> DEFINE a == [inst |-> i, verdict |-> verdict]
<1>5. a \in Ack /\ a.inst = i
  BY Zenon DEF Ack
<1>6. a # NoAck
  <2>1. i # 0
    BY ConstantsAssumption DEF Instances
  <2> QED
    BY <2>1, <1>5, Zenon DEF NoAck
<1>7. acks' = [acks EXCEPT ![c] = a]
  BY Zenon DEF WriteAck
<1> HIDE DEF a
<1>8. /\ acks' \in [Clients -> Ack \cup {NoAck}]
      /\ acks'[c] = a
      /\ \A d \in Clients \ {c} : acks'[d] = acks[d]
  BY <1>5, <1>7, Zenon DEF TypeOK
<1>9. Acked(c)' /\ \A d \in Clients \ {c} : Acked(d)' <=> Acked(d)
  BY <1>6, <1>8, Zenon DEF Acked
<1>10. Answers' = Answers \cup {c}
  BY <1>9, Zenon DEF Answers
<1>11. older' \in [Clients -> SUBSET Answers']
  BY <1>10, Zenon DEF WriteAck, TypeOK
<1> QED
  BY <1>1, <1>3, <1>4, <1>8, <1>9, <1>10, <1>11, Zenon DEF DaemonTyped, a

\* Acknowledgements are removed.
LEMMA DiscardFacts ==
    ASSUME TypeOK, NEW gone \in SUBSET Clients, Discard(gone)
    PROVE  /\ acks' \in [Clients -> Ack \cup {NoAck}]
           /\ \A c \in Clients : acks'[c] = IF c \in gone THEN NoAck ELSE acks[c]
           /\ \A c \in Clients : Acked(c)' <=> Acked(c) /\ c \notin gone
           /\ Answers' = Answers \ gone
           /\ older' \in [Clients -> SUBSET Answers']
<1>1. acks' \in [Clients -> Ack \cup {NoAck}]
      /\ \A c \in Clients : acks'[c] = IF c \in gone THEN NoAck ELSE acks[c]
  BY Zenon DEF Discard, TypeOK
<1>2. \A c \in Clients : Acked(c)' <=> Acked(c) /\ c \notin gone
  BY <1>1, Zenon DEF Acked
<1>3. Answers' = Answers \ gone
  BY <1>2, Zenon DEF Answers
<1>4. older' \in [Clients -> SUBSET Answers']
  BY <1>3, Zenon DEF Discard, TypeOK
<1> QED
  BY <1>1, <1>2, <1>3, <1>4, Zenon
-----------------------------------------------------------------------------
(* Kinds of steps *)

\* What the request and acknowledgement files, and the history, may be.
FilesTyped ==
    /\ requests \subseteq Clients
    /\ acks \in [Clients -> Ack \cup {NoAck}]
    /\ older \in [Clients -> SUBSET Answers]
    /\ ran \in [Clients -> Seq(Instances)]

\* A daemon that holds the lease goes on in Run, on its own.
Moves(i) ==
    /\ Holds(i) /\ Holds(i)'
    /\ \A j \in Instances \ {i} : pc'[j] = pc[j] /\ work'[j] = work[j]
    /\ UNCHANGED <<lease, worker, clientVars>>
    /\ status' \in {status, i}
    /\ pc'[i] # "starting"
    /\ worker[i] # "none" => Ending(i)' /\ pc'[i] # "retain"

\* While one daemon holds the lease no other does, and no one-shot command.
LEMMA HolderAlone ==
    ASSUME RequestsInv, NEW i \in Instances, Holds(i)
    PROVE  /\ \A j \in Instances \ {i} : ~Holds(j) /\ worker[j] # "running"
           /\ \A c \in Clients : cpc[c] # "mutate"
           /\ \A c \in Clients : target[c] # 0 /\ target[c] # i => Ended(target[c])
           /\ \A c \in Clients : target[c] = i => status = i
<1>1. /\ \A j \in Instances \ {i} : ~Holds(j) /\ worker[j] # "running"
      /\ \A c \in Clients : cpc[c] # "mutate"
  BY Zenon DEF RequestsInv, LeaseInv
<1>2. ASSUME NEW c \in Clients, target[c] # 0
      PROVE  /\ target[c] # i => Ended(target[c])
             /\ target[c] = i => status = i
  <2>1. target[c] \in Instances
    BY <1>2, ConstantsAssumption DEF RequestsInv, TypeOK, Instances
  <2>2. ClientInv(c)
    BY Zenon DEF RequestsInv
  <2> QED
    BY <1>1, <1>2, <2>1, <2>2, Zenon DEF ClientInv, Holds, Ended
<1>3. i # 0
  BY ConstantsAssumption DEF Instances
<1> QED
  BY <1>1, <1>2, <1>3, Zenon

\* A move leaves the lease where it is.
LEMMA MoveKeepsLease ==
    ASSUME RequestsInv, NEW i \in Instances, Moves(i)
    PROVE  /\ LeaseInv'
           /\ WorkerInv'
           /\ status' # 0 => pc'[status'] \notin {"off", "starting"}
           /\ \A j \in Instances \ {i} : ~Holds(j)'
<1>1. /\ \A j \in Instances \ {i} : ~Holds(j) /\ worker[j] # "running"
      /\ \A c \in Clients : cpc[c] # "mutate"
  BY HolderAlone, Zenon DEF Moves
<1>2. \A j \in Instances : Holds(j)' <=> Holds(j)
  BY Zenon DEF Moves, Holds
<1>3. LeaseInv'
  <2>1. \A j \in Instances : Main(j)' = Main(j) /\ Worker(j)' = Worker(j)
    BY Zenon DEF Main, Worker
  <2>2. \A c \in Clients : OneShot(c)' = OneShot(c)
    BY Zenon DEF OneShot
  <2>3. LeaseInv /\ UNCHANGED <<lease, worker, cpc>>
    BY Zenon DEF RequestsInv, Moves, clientVars
  <2> QED
    BY <1>2, <2>1, <2>2, <2>3, Zenon DEF LeaseInv
<1>4. WorkerInv'
  BY Zenon DEF WorkerInv, Moves, RequestsInv, Ending, Stopped, Holds
<1>5. status' # 0 => pc'[status'] \notin {"off", "starting"}
  <2>1. status \in 0 .. MaxInstances
    BY Zenon DEF RequestsInv, TypeOK
  <2>2. status # 0 => status \in Instances
    BY <2>1, ConstantsAssumption DEF Instances
  <2> QED
    BY <2>2, Zenon DEF Moves, Holds, RequestsInv
<1> QED
  BY <1>1, <1>2, <1>3, <1>4, <1>5, Zenon

\* What is left to show of a move.
LEMMA MoveStep ==
    ASSUME RequestsInv, NEW i \in Instances, Moves(i), DaemonTyped', FilesTyped',
           BatchInv(i)', \A c \in Clients : ClientInv(c)',
           IsFiniteSet(requests') /\ Cardinality(requests') <= maxPendingRequestFiles,
           IsFiniteSet(Answers'),
           pc'[i] \in {"select", "poll"} => Cardinality(Answers') <= maxRetainedAckFiles
    PROVE  RequestsInv'
<1>1. TypeOK'
  <2>1. i \in 0 .. MaxInstances
    BY ConstantsAssumption DEF Instances
  <2> QED
    BY <2>1, Zenon DEF RequestsInv, TypeOK, Moves, DaemonTyped, FilesTyped, Locals, clientVars,
                Main, Worker, OneShot
<1>2. /\ LeaseInv' /\ WorkerInv'
      /\ status' # 0 => pc'[status'] \notin {"off", "starting"}
      /\ \A j \in Instances \ {i} : ~Holds(j)'
  BY MoveKeepsLease, Zenon
<1>3. \A j \in Instances : Holds(j)' => BatchInv(j)'
  BY <1>2, Zenon
<1>4. BoundInv'
  BY <1>2, Zenon DEF BoundInv, Holds
<1> QED
  BY <1>1, <1>2, <1>3, <1>4, Zenon DEF RequestsInv

\* A client sees a move only in what is carried out or acknowledged for it.
LEMMA MoveClient ==
    ASSUME RequestsInv, NEW i \in Instances, Moves(i), Stopped(i) => Stopped(i)',
           NEW c \in Clients, c \in requests' => c \in requests,
           \/ ran'[c] = ran[c]
           \/ ran[c] = << >> /\ ran'[c] = <<target[c]>> /\ Sent(c) /\ target[c] # 0,
           Acked(c)' => acks'[c] = acks[c] \/ (Sent(c) /\ target[c] # 0 /\ AckInv(c)')
    PROVE  ClientInv(c)'
<1>1. UNCHANGED <<cpc, target, answer, worker>>
  BY Zenon DEF Moves, clientVars
<1>2. ClientInv(c)
  BY Zenon DEF RequestsInv
<1>3. target[c] \in Instances \/ target[c] = 0
  BY ConstantsAssumption DEF RequestsInv, TypeOK, Instances
<1>4. target[c] # 0 => /\ Ended(target[c])' <=> Ended(target[c])
                       /\ Stopped(target[c]) => Stopped(target[c])'
                       /\ pc'[target[c]] \notin {"off", "starting"}
  <2>1. CASE target[c] = i
    BY <1>1, <2>1, Zenon DEF Moves, Ended, Holds
  <2>2. CASE target[c] \in Instances \ {i}
    BY <1>1, <1>2, <2>2, Zenon DEF Moves, Ended, Stopped, ClientInv
  <2> QED
    BY <1>3, <2>1, <2>2, Zenon
<1>5. target[c] # 0 => Ended(target[c])' \/ status' = target[c]
  BY <1>2, <1>3, <1>4, HolderAlone DEF Moves
<1>6. target[c] # 0 /\ Done(c) => Done(c)'
  BY <1>1, <1>4, Zenon DEF Done
<1>7. AckInv(c)'
  <2>1. CASE Acked(c)' /\ acks'[c] = acks[c]
    <3>1. Acked(c)
      BY <2>1, Zenon DEF Acked
    <3> QED
      BY <1>1, <1>2, <1>4, <1>6, <2>1, <3>1, Zenon DEF AckInv, ClientInv
  <2>2. CASE ~Acked(c)'
    BY <2>2, Zenon DEF AckInv
  <2> QED
    BY <2>1, <2>2, Zenon
<1>8. Sent(c)' <=> Sent(c)
  BY <1>1, Zenon DEF Sent
<1>9. Acked(c)' => Sent(c) /\ target[c] # 0
  BY <1>2, Zenon DEF Acked, ClientInv
<1>10. ran'[c] # << >> => Sent(c) /\ target[c] # 0
  BY <1>2, Zenon DEF ClientInv
<1> QED
  BY <1>1, <1>2, <1>4, <1>5, <1>6, <1>7, <1>8, <1>9, <1>10, Zenon DEF ClientInv

\* A move that writes no acknowledgement: all that is left to show is its batch.
LEMMA QuietStep ==
    ASSUME FiniteFacts, RequestsInv, NEW i \in Instances, Moves(i), DaemonTyped',
           UNCHANGED <<ackFiles, ran>>, requests' \subseteq requests,
           Stopped(i) => Stopped(i)',
           pc'[i] \in {"select", "poll"} => pc[i] \in {"select", "poll"},
           BatchInv(i)'
    PROVE  RequestsInv'
<1>1. UNCHANGED <<acks, older, ran, cpc, target, answer, worker>>
  BY Zenon DEF ackFiles, Moves, clientVars
<1>2. Answers' = Answers /\ \A c \in Clients : Acked(c)' <=> Acked(c)
  BY <1>1, Zenon DEF Answers, Acked
<1>3. FilesTyped'
  BY <1>1, <1>2, Zenon DEF FilesTyped, RequestsInv, TypeOK
<1>4. IsFiniteSet(requests') /\ Cardinality(requests') <= maxPendingRequestFiles
  <2>1. IsFiniteSet(requests) /\ Cardinality(requests) <= maxPendingRequestFiles
    BY Zenon DEF RequestsInv, BoundInv
  <2>2. IsFiniteSet(requests') /\ Cardinality(requests') <= Cardinality(requests)
    BY <2>1, SubsetFacts, Zenon
  <2>3. Cardinality(requests) \in Nat /\ Cardinality(requests') \in Nat
    BY <2>1, <2>2, CardinalityIsNat, Zenon
  <2> QED
    BY <2>1, <2>2, <2>3, ConstantsAssumption
<1>5. \A c \in Clients : ClientInv(c)'
  BY <1>1, MoveClient, Zenon
<1>6. /\ IsFiniteSet(Answers')
      /\ pc'[i] \in {"select", "poll"} => Cardinality(Answers') <= maxRetainedAckFiles
  BY <1>2, Zenon DEF RequestsInv, BoundInv
<1> QED
  BY <1>3, <1>4, <1>5, <1>6, MoveStep, Zenon
-----------------------------------------------------------------------------
(* Decisions *)

\* The types of the daemons, and of the batch of the one that holds the lease.
LEMMA Typed ==
    ASSUME RequestsInv
    PROVE  /\ DaemonTyped
           /\ \A i \in Instances : work[i] \in Locals /\ work[i].names \subseteq Clients
                                   /\ work[i].batch \subseteq Clients
           /\ \A i \in Instances : Holds(i) /\ (~Ending(i) \/ pc[i] = "retain")
                                     => worker[i] = "none"
<1>1. DaemonTyped
  BY Zenon DEF RequestsInv, TypeOK, DaemonTyped, Locals
<1>2. \A i \in Instances : work[i] \in Locals /\ work[i].names \subseteq Clients
                           /\ work[i].batch \subseteq Clients
  BY <1>1, Zenon DEF DaemonTyped, Locals
<1>3. \A i \in Instances : Holds(i) /\ (~Ending(i) \/ pc[i] = "retain")
                             => worker[i] = "none"
  BY Zenon DEF RequestsInv, WorkerInv
<1> QED
  BY <1>1, <1>2, <1>3, Zenon

\* The batch a daemon acts on is its own, and nothing in it was carried out or
\* answered before.
LEMMA OwnBatch ==
    ASSUME RequestsInv, NEW i \in Instances, BatchRead(i), Foreign(i) = {}
    PROVE  /\ pc[i] = "serve" /\ Holds(i) /\ ~Ending(i) /\ BatchInv(i) /\ worker[i] = "none"
           /\ \A c \in work[i].batch : /\ c \in Clients /\ Sent(c)
                                       /\ target[c] = i /\ target[c] # 0
                                       /\ ran[c] = << >> /\ ~Acked(c)
<1>1. pc[i] = "serve" /\ Holds(i) /\ ~Ending(i) /\ Looping(i)
  BY Zenon DEF BatchRead, Holds, Ending, Stopped, Looping
<1>2. BatchInv(i) /\ worker[i] = "none" /\ work[i].batch \subseteq Clients
  BY <1>1, Typed, Zenon DEF RequestsInv
<1>3. \A c \in work[i].batch : target[c] = i
  BY Zenon DEF Foreign
<1> QED
  BY <1>1, <1>2, <1>3, Zenon DEF BatchInv

\* Only acknowledgements whose request is gone are pruned.
LEMMA PruneKeepsPaired ==
    Pruned \in SUBSET Clients /\ \A c \in Pruned : c \notin requests /\ Acked(c)
BY Zenon DEF Pruned, Unpaired, Answers

\* A verdict stays as it is while its request is queued, and goes away only with it.
LEMMA VerdictStays ==
    ASSUME RequestsInv, [Next]_vars, NEW c \in Clients, Acked(c)
    PROVE  acks'[c] = acks[c] \/ (~Acked(c)' /\ c \notin requests)
<1>1. TypeOK
  BY Zenon DEF RequestsInv
<1>2. ASSUME Discard(Pruned)
      PROVE  acks'[c] = acks[c] \/ (~Acked(c)' /\ c \notin requests)
  BY <1>1, <1>2, DiscardFacts, PruneKeepsPaired, Zenon
<1>3. ASSUME NEW i \in Instances, NEW d \in work[i].batch,
             acks' = acks \/ \E v \in {"ok", "error", "changed"}, t \in Labels :
                                WriteAck(i, d, v, t),
             pc[i] \in {"serve", "reloaded", "answer"}
      PROVE  acks'[c] = acks[c]
  <2>1. d \in Clients /\ ~Acked(d)
    <3>1. BatchInv(i) /\ d \in Clients
      BY <1>3, Typed, Zenon DEF RequestsInv, Holds
    <3> QED
      BY <1>3, <3>1, Zenon DEF BatchInv, Looping, Answering
  <2> QED
    BY <1>1, <1>3, <2>1 DEF WriteAck, TypeOK
<1>4. ASSUME NEW i \in Instances, Daemon(i)
      PROVE  acks'[c] = acks[c] \/ (~Acked(c)' /\ c \notin requests)
  <2> "serve" \in Labels /\ "answer" \in Labels
    BY Zenon DEF Labels
  <2>1. CASE Refuse(i)
    <3>1. PICK d \in Foreign(i) : WriteAck(i, d, "changed", "serve") \/ AckFails(i, d)
      BY <2>1, Zenon DEF Refuse
    <3>2. d \in work[i].batch /\ pc[i] = "serve"
      BY <2>1, Zenon DEF Foreign, Refuse, BatchRead
    <3> QED
      BY <1>3, <3>1, <3>2, Zenon DEF AckFails, ackFiles
  <2>2. CASE AckReload(i)
    <3>1. pc[i] = "reloaded" /\ work[i].cur \in work[i].batch
      <4>1. pc[i] = "reloaded" /\ BatchInv(i)
        BY <2>2, Zenon DEF AckReload, RequestsInv, Holds
      <4> QED
        BY <4>1, Zenon DEF BatchInv
    <3>2. \/ \E v \in {"ok", "error", "changed"} : WriteAck(i, work[i].cur, v, "serve")
          \/ AckFails(i, work[i].cur)
      BY <2>2, Zenon DEF AckReload
    <3> QED
      BY <1>3, <3>1, <3>2, Zenon DEF AckFails, ackFiles
  <2>3. CASE Answer(i)
    <3>1. PICK d \in work[i].batch :
              \/ \E v \in {"ok", "error", "changed"} : WriteAck(i, d, v, "answer")
              \/ AckFails(i, d)
      BY <2>3, Zenon DEF Answer
    <3> QED
      BY <1>3, <2>3, <3>1, Zenon DEF AckFails, ackFiles, Answer
  <2>4. CASE Prune(i) \/ AnswerDone(i)
    BY <1>2, <2>4, Zenon DEF Prune, AnswerDone, ackFiles
  <2>5. CASE ~(Refuse(i) \/ AckReload(i) \/ Answer(i) \/ Prune(i) \/ AnswerDone(i))
    BY <1>4, <2>5, Zenon DEF Daemon, Start, WriteStarting, RunOnce, PollTick, Signal, Enumerate,
       ReadPending, BeginStop, BeginReload, EndReload, Unlink, SpawnWorker, WorkerDone, Shutdown,
       CloseLease, Exit, Kill, ProcessEnds, ackFiles
  <2> QED
    BY <2>1, <2>2, <2>3, <2>4, <2>5, Zenon
<1>5. ASSUME NEW d \in Clients, Client(d)
      PROVE  acks'[c] = acks[c] \/ (~Acked(c)' /\ c \notin requests)
  <2>1. CASE Consume(d)
    <3>1. {d} \in SUBSET Clients
      BY Zenon
    <3> QED
      BY <1>1, <2>1, <3>1, DiscardFacts, ZenonT(30) DEF Consume, ackFiles
  <2>2. CASE ~Consume(d)
    BY <1>5, <2>2, Zenon DEF Client, ReadStatus, enqueueRequest, PollAck, CheckInstance, Withdraw,
       Timeout, AcquireDirect, DirectDone, ackFiles
  <2> QED
    BY <2>1, <2>2, Zenon
<1> QED
  BY <1>4, <1>5, Zenon DEF Next, vars, ackFiles

\* A request its client withdrew is not carried out any more: its daemon is over.
LEMMA WithdrawnStays ==
    ASSUME RequestsInv, [Next]_vars, NEW c \in Clients, answer[c] = "withdrawn"
    PROVE  ran'[c] = ran[c]
<1>1. target[c] # 0 /\ Ended(target[c])
  BY Zenon DEF RequestsInv, ClientInv
<1>2. \A i \in Instances : pc[i] = "serve" => target[c] # i
  BY <1>1, Zenon DEF Ended
<1>3. ran \in [Clients -> Seq(Instances)]
  BY Zenon DEF RequestsInv, TypeOK
<1>4. ASSUME NEW i \in Instances, Daemon(i)
      PROVE  ran'[c] = ran[c]
  <2>1. CASE BeginStop(i)
    BY <1>2, <2>1, OwnBatch DEF BeginStop, OfKind, BatchRead
  <2>2. CASE BeginReload(i)
    <3>1. PICK r \in OfKind(i, "reload") : ran' = [ran EXCEPT ![r] = Append(@, i)]
      BY <2>2, Zenon DEF BeginReload
    <3>2. r # c
      BY <1>2, <2>2, OwnBatch DEF BeginReload, OfKind, BatchRead
    <3> QED
      BY <1>3, <3>1, <3>2, Zenon
  <2>3. CASE ~(BeginStop(i) \/ BeginReload(i))
    BY <1>4, <2>3, Zenon DEF Daemon, Start, WriteStarting, RunOnce, PollTick, Signal, Enumerate,
       ReadPending, Refuse, EndReload, AckReload, Unlink, Prune, SpawnWorker, WorkerDone,
       Shutdown, Answer, AnswerDone, CloseLease, Exit, Kill, ProcessEnds
  <2> QED
    BY <2>1, <2>2, <2>3, Zenon
<1>5. ASSUME NEW d \in Clients, Client(d)
      PROVE  ran'[c] = ran[c]
  BY <1>5, Zenon DEF Client, ReadStatus, enqueueRequest, PollAck, Consume, CheckInstance, Withdraw,
     Timeout, AcquireDirect, DirectDone
<1> QED
  BY <1>4, <1>5, Zenon DEF Next, vars
-----------------------------------------------------------------------------
(* The daemon polls and reads the queue *)

\* Run leaves its loop without answering its batch.
LEMMA StopStep ==
    ASSUME FiniteFacts, RequestsInv, NEW i \in Instances, Holds(i), ~Ending(i),
           NEW why \in {"signal", "status", "error"}, Stop(i, why),
           UNCHANGED <<lease, worker, status, clientVars, ackFiles, ran>>,
           requests' \subseteq requests
    PROVE  RequestsInv'
<1>1. DaemonTyped /\ worker[i] = "none"
  BY Typed, Zenon
<1>2. /\ DaemonTyped'
      /\ pc'[i] = "retain"
      /\ \A j \in Instances \ {i} : pc'[j] = pc[j] /\ work'[j] = work[j]
      /\ work'[i].why = why
      /\ work'[i].names = work[i].names
      /\ work'[i].batch = work[i].batch
  BY <1>1, StopFacts, Zenon
<1>3. Moves(i)
  BY <1>1, <1>2, Zenon DEF Moves, Holds
<1>4. BatchInv(i)
  BY Zenon DEF RequestsInv
<1>5. ~Looping(i)' /\ ~Answering(i)' /\ Ending(i)'
  BY <1>2, Zenon DEF Looping, Answering, Ending
<1>6. BatchInv(i)'
  BY <1>2, <1>4, <1>5, Zenon DEF BatchInv, Sent, clientVars
<1> QED
  BY <1>2, <1>3, <1>6, QuietStep, Zenon DEF Ending

\* Run goes from one place to another before or after its loop has a batch.
LEMMA PassStep ==
    ASSUME FiniteFacts, RequestsInv, NEW i \in Instances, Holds(i), ~Ending(i),
           NEW label \in {"startup", "first", "select", "poll", "close"}, Goto(i, label),
           label \in {"select", "poll"} => pc[i] \in {"select", "poll"},
           pc[i] \in {"starting", "startup", "first", "select", "poll"},
           UNCHANGED <<lease, work, worker, clientVars, ackFiles, ran, requests>>,
           status' \in {status, i}
    PROVE  RequestsInv'
<1>1. DaemonTyped /\ worker[i] = "none"
  BY Typed, Zenon
<1>2. /\ pc' \in [Instances -> Labels]
      /\ pc'[i] = label
      /\ \A j \in Instances \ {i} : pc'[j] = pc[j]
  <2>1. label \in Labels
    BY Zenon DEF Labels
  <2> QED
    BY <1>1, <2>1, GotoFacts, Zenon
<1>3. Moves(i)
  BY <1>1, <1>2, Zenon DEF Moves, Holds
<1>4. BatchInv(i)
  BY Zenon DEF RequestsInv
<1>5. ~Looping(i)' /\ ~Answering(i)'
  BY <1>2, Zenon DEF Looping, Answering
<1>6. BatchInv(i)'
  BY <1>2, <1>4, <1>5, Zenon DEF BatchInv, Sent, clientVars, Acked, ackFiles
<1>7. DaemonTyped'
  BY <1>1, <1>2, Zenon DEF DaemonTyped
<1>8. ~Stopped(i)
  BY Zenon DEF Ending
<1> QED
  BY <1>2, <1>3, <1>6, <1>7, <1>8, QuietStep, Zenon

\* WriteStarting keeps the invariant: the status file names the one daemon that
\* holds the lease.
LEMMA WriteStartingStep ==
    ASSUME FiniteFacts, RequestsInv, NEW i \in Instances, WriteStarting(i)
    PROVE  RequestsInv'
<1>1. Holds(i) /\ ~Ending(i)
  BY Zenon DEF WriteStarting, Holds, Ending, Stopped
<1>2. Goto(i, "startup") \/ Goto(i, "close")
  BY Zenon DEF WriteStarting
<1> QED
  BY <1>1, <1>2, PassStep, Zenon DEF WriteStarting

\* A reconciliation, a tick and a signal keep the invariant.
LEMMA RunOnceStep ==
    ASSUME FiniteFacts, RequestsInv, NEW i \in Instances, RunOnce(i) \/ PollTick(i) \/ Signal(i)
    PROVE  RequestsInv'
<1>1. Holds(i) /\ ~Ending(i)
  BY Zenon DEF RunOnce, PollTick, Signal, Holds, Ending, Stopped
<1>2. CASE RunOnce(i) /\ UNCHANGED work
           /\ Goto(i, IF pc[i] = "startup" THEN "first" ELSE "select")
  BY <1>1, <1>2, PassStep, Zenon DEF RunOnce
<1>3. CASE RunOnce(i) /\ Stop(i, "status")
  BY <1>1, <1>3, StopStep, Zenon DEF RunOnce
<1>4. CASE PollTick(i)
  BY <1>1, <1>4, PassStep, Zenon DEF PollTick
<1>5. CASE Signal(i)
  BY <1>1, <1>5, StopStep, Zenon DEF Signal
<1> QED
  BY <1>2, <1>3, <1>4, <1>5, Zenon DEF RunOnce

\* The queue is listed: a new batch begins.
LEMMA EnumerateStep ==
    ASSUME FiniteFacts, RequestsInv, NEW i \in Instances, Enumerate(i)
    PROVE  RequestsInv'
<1>1. Holds(i) /\ ~Ending(i)
  BY Zenon DEF Enumerate, Holds, Ending, Stopped
<1>2. CASE Stop(i, "error")
  BY <1>1, <1>2, StopStep, Zenon DEF Enumerate
<1>3. CASE Goto(i, "serve") /\ work' = [work EXCEPT ![i] = [Idle EXCEPT !.names = requests]]
  <2>1. DaemonTyped /\ worker[i] = "none"
    BY <1>1, Typed, Zenon
  <2>2. /\ pc' \in [Instances -> Labels]
        /\ pc'[i] = "serve"
        /\ \A j \in Instances \ {i} : pc'[j] = pc[j]
    <3>1. "serve" \in Labels
      BY Zenon DEF Labels
    <3> QED
      BY <1>3, <2>1, <3>1, GotoFacts, Zenon
  <2>3. work'[i].names = requests /\ work'[i].batch = {}
        /\ \A j \in Instances \ {i} : work'[j] = work[j]
    BY <1>3, <2>1, Zenon DEF Idle, DaemonTyped
  <2>4. work' \in [Instances -> Locals]
    <3> DEFINE w == [Idle EXCEPT !.names = requests]
    <3>1. w \in Locals
      BY Zenon DEF Idle, Locals, RequestsInv, TypeOK
    <3> HIDE DEF w
    <3> QED
      BY <1>3, <2>1, <3>1, Zenon DEF DaemonTyped, w
  <2>5. Moves(i)
    BY <1>1, <2>1, <2>2, <2>3, Zenon DEF Moves, Holds, Enumerate
  <2>6. BatchInv(i)
    BY <1>1, Zenon DEF RequestsInv
  <2>7. \A c \in requests : Sent(c) /\ target[c] # 0
    BY Zenon DEF RequestsInv, ClientInv, TypeOK
  <2>8. ~Answering(i)' /\ ~Stopped(i)
    BY <1>1, <2>2, Zenon DEF Answering, Ending
  <2>9. BatchInv(i)'
    BY <1>1, <2>2, <2>3, <2>6, <2>7, <2>8, Zenon
       DEF BatchInv, Sent, clientVars, Acked, ackFiles, Enumerate
  <2> QED
    BY <2>2, <2>4, <2>5, <2>8, <2>9, QuietStep, Zenon DEF DaemonTyped, Enumerate
<1> QED
  BY <1>2, <1>3, Zenon DEF Enumerate

\* A request joins the batch unless it has been answered, and none that has been
\* carried out does.
LEMMA ReadPendingStep ==
    ASSUME FiniteFacts, RequestsInv, NEW i \in Instances, ReadPending(i)
    PROVE  RequestsInv'
<1>1. Holds(i) /\ ~Ending(i) /\ pc'[i] = "serve" /\ pc[i] = "serve"
  BY Zenon DEF ReadPending, Holds, Ending, Stopped
<1>2. PICK c \in work[i].names : ReadFile(i, c)
  BY Zenon DEF ReadPending
<1>3. DaemonTyped /\ worker[i] = "none" /\ c \in Clients
  BY <1>1, Typed, Zenon
<1> DEFINE b == IF c \in requests /\ ~Acked(c) THEN work[i].batch \cup {c} ELSE work[i].batch
<1>4. work' = [work EXCEPT ![i].names = @ \ {c}, ![i].batch = b]
  BY <1>2, <1>3, Zenon DEF ReadFile, DaemonTyped, Locals
<1>5. b \subseteq Clients
  BY <1>3, Typed, Zenon
<1>6. \A d \in b : d \in work[i].batch \/ (d = c /\ c \in requests /\ ~Acked(c))
  BY Zenon
<1> HIDE DEF b
<1>7. work' \in [Instances -> Locals]
  <2> DEFINE w == [work EXCEPT ![i].names = @ \ {c}]
  <2>1. w \in [Instances -> Locals]
    BY <1>3 DEF DaemonTyped, Locals
  <2>2. work' = [w EXCEPT ![i].batch = b]
    BY <1>4, Zenon
  <2> HIDE DEF w
  <2> QED
    BY <1>5, <2>1, <2>2 DEF Locals
<1>8. /\ work'[i].names = work[i].names \ {c} /\ work'[i].batch = b
      /\ work'[i].cur = work[i].cur
      /\ \A j \in Instances \ {i} : work'[j] = work[j]
  BY <1>3, <1>4, Zenon DEF DaemonTyped, Locals
<1>9. Moves(i)
  BY <1>1, <1>3, <1>8, Zenon DEF Moves, Holds, ReadPending
<1>10. BatchInv(i) /\ Looping(i)
  BY <1>1, Zenon DEF RequestsInv, Looping
<1>11. requests' \subseteq requests
  BY <1>2, Zenon DEF ReadFile
<1>12. ~Answering(i)' /\ ~Stopped(i)
  BY <1>1, Zenon DEF Answering, Ending
<1>13. \A d \in Clients : Sent(d)' = Sent(d) /\ Acked(d)' = Acked(d)
  BY Zenon DEF Sent, Acked, ReadPending, clientVars, ackFiles
<1>14. UNCHANGED <<target, ran, worker, pc>>
  BY Zenon DEF ReadPending, clientVars
<1>15. BatchInv(i)'
  <2>1. \A d \in work'[i].names \cup work'[i].batch : Sent(d)' /\ target'[d] # 0
    BY <1>2, <1>3, <1>5, <1>6, <1>8, <1>10, <1>13, <1>14, Typed, Zenon DEF BatchInv
  <2>2. \A d \in Clients : target'[d] = i /\ ran'[d] # << >> => d \notin requests' \/ Acked(d)'
    BY <1>1, <1>10, <1>11, <1>13, <1>14, Zenon DEF BatchInv
  <2>3. \A d \in work'[i].batch : ~(target'[d] = i /\ ran'[d] # << >>)
    BY <1>1, <1>3, <1>6, <1>8, <1>10, <1>14, Zenon DEF BatchInv
  <2>4. \A d \in work'[i].batch : ~Acked(d)'
    BY <1>1, <1>3, <1>5, <1>6, <1>8, <1>10, <1>13, Zenon DEF BatchInv
  <2> QED
    BY <1>1, <1>12, <2>1, <2>2, <2>3, <2>4, Zenon DEF BatchInv
<1> QED
  BY <1>1, <1>3, <1>7, <1>9, <1>11, <1>12, <1>14, <1>15, QuietStep, Zenon DEF DaemonTyped,
       ReadPending
-----------------------------------------------------------------------------
(* The daemon acknowledges *)

\* The answer to a request that the batch still has to answer is written.
LEMMA WriteAckStep ==
    ASSUME FiniteFacts, RequestsInv, NEW i \in Instances, NEW c \in work[i].batch,
           NEW verdict \in {"ok", "error", "changed"}, NEW then \in {"serve", "answer"},
           WriteAck(i, c, verdict, then),
           pc[i] \in {"serve", "reloaded", "answer"}, then = "answer" <=> pc[i] = "answer",
           pc[i] = "reloaded" => c = work[i].cur,
           verdict = "changed" <=> target[c] # i,
           verdict = "ok" => /\ ran[c] = <<i>>
                             /\ Kind[c] = "stop" => worker[i] = "ok" /\ then = "answer",
           UNCHANGED <<lease, worker, status, clientVars, ran>>
    PROVE  RequestsInv'
<1>1. TypeOK /\ c \in Clients /\ then \in Labels
  BY Typed, Zenon DEF RequestsInv, Labels
<1>2. /\ DaemonTyped'
      /\ pc'[i] = "unlink"
      /\ \A j \in Instances \ {i} : pc'[j] = pc[j] /\ work'[j] = work[j]
      /\ work'[i].cur = c /\ work'[i].then = then
      /\ work'[i].names = work[i].names
      /\ work'[i].batch = work[i].batch
      /\ work'[i].failed = work[i].failed
      /\ acks' \in [Clients -> Ack \cup {NoAck}]
      /\ acks'[c] = [inst |-> i, verdict |-> verdict]
      /\ Acked(c)'
      /\ \A d \in Clients \ {c} : acks'[d] = acks[d] /\ (Acked(d)' <=> Acked(d))
      /\ Answers' = Answers \cup {c}
      /\ older' \in [Clients -> SUBSET Answers']
  BY <1>1, WriteAckFacts, Zenon
<1>3. /\ acks' \in [Clients -> Ack \cup {NoAck}]
      /\ acks'[c] = [inst |-> i, verdict |-> verdict]
      /\ Acked(c)'
      /\ \A d \in Clients \ {c} : acks'[d] = acks[d] /\ (Acked(d)' <=> Acked(d))
      /\ Answers' = Answers \cup {c}
      /\ older' \in [Clients -> SUBSET Answers']
  BY <1>2, Zenon
<1>4. Holds(i) /\ BatchInv(i) /\ (Stopped(i) <=> pc[i] = "answer")
  BY Zenon DEF RequestsInv, Holds, Stopped
<1>5. Moves(i)
  <2>1. worker[i] # "none" => pc[i] = "answer"
    BY Typed, <1>4, Zenon DEF Ending
  <2> QED
    BY <1>2, <1>4, <2>1, Zenon DEF Moves, Holds, Ending, Stopped
<1>6. UNCHANGED <<requests, ran, target, cpc, worker>>
  BY Zenon DEF WriteAck, clientVars
<1>7. \A d \in work[i].batch : Acked(d)' => d = c
  BY <1>3, <1>4, Typed, Zenon DEF BatchInv, Looping, Answering
<1>8. BatchInv(i)'
  <2>1. \A d \in Clients : Sent(d)' <=> Sent(d)
    BY <1>6, Zenon DEF Sent
  <2>2. \A d \in work'[i].names \cup work'[i].batch : Sent(d)' /\ target'[d] # 0
    BY <1>2, <1>4, <1>6, <2>1, Typed, Zenon DEF BatchInv
  <2>3. CASE then = "serve"
    <3>1. ~Ending(i) /\ Looping(i) /\ Looping(i)' /\ ~Answering(i)' /\ ~Stopped(i)'
      BY <1>2, <2>3, Zenon DEF Ending, Stopped, Looping, Answering
    <3>2. \A d \in Clients : target'[d] = i /\ ran'[d] # << >> => d \notin requests' \/ Acked(d)'
      BY <1>3, <1>4, <1>6, <3>1, ZenonT(30) DEF BatchInv
    <3>3. \A d \in work'[i].batch : target'[d] = i /\ ran'[d] # << >> => d = c
      BY <1>2, <1>4, <1>6, <2>3, <3>1 DEF BatchInv
    <3> QED
      BY <1>1, <1>2, <1>3, <1>7, <2>2, <2>3, <3>1, <3>2, <3>3, Zenon DEF BatchInv
  <2>4. CASE then = "answer"
    <3>1. Ending(i)' /\ Answering(i) /\ ~Looping(i)' /\ Stopped(i)
      BY <1>2, <2>4, Zenon DEF Ending, Stopped, Looping, Answering
    <3>2. \A d \in work'[i].batch : target'[d] = i /\ (Kind[d] = "stop" => ran'[d] = <<i>>)
      BY <1>2, <1>4, <1>6, <3>1 DEF BatchInv
    <3>3. ~work'[i].failed => worker'[i] = "ok"
      BY <1>2, <1>4, <1>6, <2>4, <3>1, Zenon DEF BatchInv
    <3> QED
      BY <1>1, <1>2, <1>3, <1>7, <2>2, <2>4, <3>1, <3>2, <3>3, Zenon DEF BatchInv
  <2> QED
    BY <2>3, <2>4, Zenon
<1>9. Stopped(i) => Stopped(i)'
  BY <1>2, <1>4, Zenon DEF Stopped
<1>10. \A d \in Clients : ClientInv(d)'
  <2>1. Sent(c) /\ target[c] # 0
    BY <1>4, Zenon DEF BatchInv
  <2>2. AckInv(c)'
    <3>1. acks'[c].inst = i /\ acks'[c].verdict = verdict
      BY <1>3
    <3>2. verdict = "changed" => Ended(target[c])'
      <4>1. verdict = "changed" => Ended(target[c]) /\ target[c] \in Instances \ {i}
        BY <1>1, <1>4, <2>1, HolderAlone, ConstantsAssumption DEF TypeOK, Instances
      <4> QED
        BY <1>2, <1>6, <4>1, Zenon DEF Ended
    <3>3. verdict = "ok" => Done(c)'
      <4>1. verdict = "ok" => target[c] = i
        BY Zenon
      <4> QED
        BY <1>2, <1>6, <4>1, Zenon DEF Done, Stopped
    <3> QED
      BY <1>6, <3>1, <3>2, <3>3, Zenon DEF AckInv
  <2>3. ASSUME NEW d \in Clients
        PROVE  /\ ran'[d] = ran[d]
               /\ d \in requests' => d \in requests
               /\ Acked(d)' => acks'[d] = acks[d] \/ (Sent(d) /\ target[d] # 0 /\ AckInv(d)')
    BY <1>3, <1>6, <2>1, <2>2, Zenon
  <2> QED
    BY <1>5, <1>9, <2>3, MoveClient, Zenon
<1>11. FilesTyped'
  BY <1>1, <1>3, <1>6, Zenon DEF FilesTyped, TypeOK
<1>12. IsFiniteSet(requests') /\ Cardinality(requests') <= maxPendingRequestFiles
  BY <1>6, Zenon DEF RequestsInv, BoundInv
<1>13. IsFiniteSet(Answers')
  BY <1>3, AddFacts, Zenon DEF RequestsInv, BoundInv
<1>14. pc'[i] \notin {"select", "poll"}
  BY <1>2, Zenon
<1> QED
  BY <1>2, <1>5, <1>8, <1>10, <1>11, <1>12, <1>13, <1>14, MoveStep, Zenon

\* An acknowledgement that cannot be written leaves the request as it was.
LEMMA AckFailsStep ==
    ASSUME FiniteFacts, RequestsInv, NEW i \in Instances, NEW c \in Clients,
           pc[i] \in {"serve", "reloaded", "answer"}, AckFails(i, c),
           UNCHANGED <<lease, worker, status, clientVars, ran>>
    PROVE  RequestsInv'
<1>1. Holds(i)
  BY Zenon DEF Holds
<1>2. CASE pc[i] # "answer" /\ Stop(i, "error")
  <2>1. ~Ending(i)
    BY <1>2, Zenon DEF Ending, Stopped
  <2> QED
    BY <1>1, <1>2, <2>1, StopStep, Zenon DEF AckFails
<1>3. CASE pc[i] = "answer" /\ work' = [work EXCEPT ![i].batch = @ \ {c}] /\ UNCHANGED pc
  <2>1. DaemonTyped /\ BatchInv(i)
    BY <1>1, Typed, Zenon DEF RequestsInv
  <2>2. work' \in [Instances -> Locals]
    BY <1>3, <2>1 DEF DaemonTyped, Locals
  <2>3. /\ work'[i].names = work[i].names /\ work'[i].batch = work[i].batch \ {c}
        /\ work'[i].failed = work[i].failed
        /\ \A j \in Instances \ {i} : work'[j] = work[j]
    BY <1>3, <2>1, Zenon DEF DaemonTyped, Locals
  <2>4. Answering(i) /\ Ending(i)' /\ ~Looping(i)' /\ Stopped(i) /\ Stopped(i)'
    BY <1>3, Zenon DEF Answering, Ending, Looping, Stopped
  <2>5. Moves(i)
    BY <1>1, <1>3, <2>3, <2>4, Zenon DEF Moves, Holds
  <2>6. \A d \in Clients : (Sent(d)' <=> Sent(d)) /\ (Acked(d)' <=> Acked(d))
    BY Zenon DEF Sent, Acked, AckFails, clientVars, ackFiles
  <2>7. UNCHANGED <<target, ran, worker>>
    BY Zenon DEF clientVars
  <2>8. BatchInv(i)'
    BY <1>3, <2>1, <2>3, <2>4, <2>6, <2>7, Typed DEF BatchInv
  <2> QED
    BY <1>3, <2>1, <2>2, <2>4, <2>5, <2>8, QuietStep, Zenon DEF DaemonTyped, AckFails
<1> QED
  BY <1>2, <1>3, Zenon DEF AckFails

\* A request for another instance is answered "changed": that instance is over.
LEMMA RefuseStep ==
    ASSUME FiniteFacts, RequestsInv, NEW i \in Instances, Refuse(i)
    PROVE  RequestsInv'
<1>1. PICK c \in Foreign(i) : WriteAck(i, c, "changed", "serve") \/ AckFails(i, c)
  BY Zenon DEF Refuse
<1>2. c \in work[i].batch /\ target[c] # i /\ pc[i] = "serve" /\ c \in Clients
  BY Typed, Zenon DEF Foreign, Refuse, BatchRead
<1>3. CASE WriteAck(i, c, "changed", "serve")
  BY <1>2, <1>3, WriteAckStep, Zenon DEF Refuse
<1>4. CASE AckFails(i, c)
  BY <1>2, <1>4, AckFailsStep, Zenon DEF Refuse
<1> QED
  BY <1>1, <1>3, <1>4, Zenon

\* The answer to a reload that was carried out.
LEMMA AckReloadStep ==
    ASSUME FiniteFacts, RequestsInv, NEW i \in Instances, AckReload(i)
    PROVE  RequestsInv'
<1> DEFINE verdict == IF work[i].failed THEN "error" ELSE "ok"
<1>1. pc[i] = "reloaded" /\ Holds(i)
  BY Zenon DEF AckReload, Holds
<1>2. /\ work[i].cur \in work[i].batch /\ work[i].cur \in Clients
      /\ Kind[work[i].cur] = "reload" /\ ran[work[i].cur] = <<i>> /\ target[work[i].cur] = i
  <2>1. BatchInv(i) /\ work[i].batch \subseteq Clients
    BY <1>1, Typed, Zenon DEF RequestsInv
  <2> QED
    BY <1>1, <2>1, Zenon DEF BatchInv
<1>3. verdict \in {"ok", "error"}
  BY Zenon
<1>4. CASE WriteAck(i, work[i].cur, verdict, "serve")
  <2> HIDE DEF verdict
  <2> QED
    BY <1>1, <1>2, <1>3, <1>4, WriteAckStep, Zenon DEF AckReload
<1>5. CASE AckFails(i, work[i].cur)
  BY <1>1, <1>2, <1>5, AckFailsStep, Zenon DEF AckReload
<1> QED
  BY <1>4, <1>5, Zenon DEF AckReload

\* An answer of the shutdown: a stop is acknowledged after its cleanup succeeded.
LEMMA AnswerStep ==
    ASSUME FiniteFacts, RequestsInv, NEW i \in Instances, Answer(i)
    PROVE  RequestsInv'
<1>1. PICK c \in work[i].batch :
          \/ WriteAck(i, c, IF Kind[c] = "reload" \/ work[i].failed THEN "error" ELSE "ok",
                      "answer")
          \/ AckFails(i, c)
  BY Zenon DEF Answer
<1> DEFINE verdict == IF Kind[c] = "reload" \/ work[i].failed THEN "error" ELSE "ok"
<1>2. pc[i] = "answer" /\ Holds(i) /\ c \in Clients /\ Stopped(i) /\ Answering(i)
  BY Typed, Zenon DEF Answer, Holds, Stopped, Answering
<1>3. /\ target[c] = i
      /\ Kind[c] = "stop" => ran[c] = <<i>>
      /\ ~work[i].failed => worker[i] = "ok"
  BY <1>2 DEF RequestsInv, BatchInv
<1>4. Kind[c] \in {"stop", "reload"}
  BY <1>2, Zenon DEF Kind
<1>5. verdict \in {"ok", "error"} /\ (verdict = "ok" => ran[c] = <<i>> /\ worker[i] = "ok")
  BY <1>3, <1>4, Zenon
<1>6. CASE WriteAck(i, c, verdict, "answer")
  <2> HIDE DEF verdict
  <2> QED
    BY <1>2, <1>3, <1>5, <1>6, WriteAckStep, Zenon DEF Answer
<1>7. CASE AckFails(i, c)
  BY <1>2, <1>7, AckFailsStep, Zenon DEF Answer
<1> QED
  BY <1>1, <1>6, <1>7, Zenon

\* The request file goes once its answer is there.
LEMMA UnlinkStep ==
    ASSUME FiniteFacts, RequestsInv, NEW i \in Instances, Unlink(i)
    PROVE  RequestsInv'
<1>1. DaemonTyped /\ pc[i] = "unlink" /\ Holds(i) /\ BatchInv(i)
  BY Typed, Zenon DEF Unlink, Holds, RequestsInv
<1>2. work[i].then \in {"serve", "answer"} /\ work[i].cur \in Clients
  BY <1>1, Zenon DEF BatchInv
<1>3. CASE work[i].then # "answer" /\ Stop(i, "error") /\ UNCHANGED requests
  <2>1. ~Ending(i)
    BY <1>1, <1>3, Zenon DEF Ending, Stopped
  <2> QED
    BY <1>1, <1>3, <2>1, StopStep, Zenon DEF Unlink
<1>4. CASE /\ requests' \in {requests, requests \ {work[i].cur}}
           /\ work[i].then = "serve" => requests' = requests \ {work[i].cur}
           /\ Goto(i, work[i].then)
           /\ work' = [work EXCEPT ![i] = NextAnswer(i)]
  <2>1. /\ pc' \in [Instances -> Labels]
        /\ pc'[i] = work[i].then
        /\ \A j \in Instances \ {i} : pc'[j] = pc[j]
    <3>1. work[i].then \in Labels
      BY <1>2, Zenon DEF Labels
    <3> QED
      BY <1>1, <1>4, <3>1, GotoFacts, Zenon
  <2> DEFINE n == NextAnswer(i)
  <2>2. /\ n.names = work[i].names /\ n.batch = work[i].batch \ {work[i].cur}
        /\ n.failed = work[i].failed
    BY <1>1, Zenon DEF NextAnswer, DaemonTyped, Locals
  <2>3. n \in Locals
    <3> DEFINE u == [work[i] EXCEPT !.batch = @ \ {work[i].cur}]
               v == [u EXCEPT !.cur = "none"]
    <3>1. u \in Locals
      BY <1>1, Zenon DEF DaemonTyped, Locals
    <3>2. n = [v EXCEPT !.then = "none"]
      BY Zenon DEF NextAnswer
    <3> HIDE DEF u
    <3>3. v \in Locals
      BY <3>1, Zenon DEF Locals
    <3> HIDE DEF v, n
    <3> QED
      BY <3>2, <3>3, Zenon DEF Locals
  <2>4. work' = [work EXCEPT ![i] = n]
    BY <1>4, Zenon
  <2> HIDE DEF n
  <2>5. /\ work' \in [Instances -> Locals] /\ work'[i] = n
        /\ \A j \in Instances \ {i} : work'[j] = work[j]
    BY <1>1, <2>3, <2>4, Zenon DEF DaemonTyped
  <2>6. Looping(i)' \/ pc'[i] = "answer"
    BY <1>2, <2>1, Zenon DEF Looping
  <2>7. \A d \in Clients : (Sent(d)' <=> Sent(d)) /\ (Acked(d)' <=> Acked(d))
    BY Zenon DEF Sent, Acked, Unlink, clientVars, ackFiles
  <2>8. UNCHANGED <<target, ran, worker>>
    BY Zenon DEF Unlink, clientVars
  <2>9. \A d \in work'[i].names \cup work'[i].batch : Sent(d)' /\ target'[d] # 0
    BY <1>1, <2>2, <2>5, <2>7, <2>8, Typed, Zenon DEF BatchInv
  <2>10. CASE work[i].then = "serve"
    <3>1. ~Ending(i) /\ Looping(i) /\ pc'[i] = "serve" /\ ~Stopped(i)
      BY <1>1, <2>1, <2>10, Zenon DEF Ending, Stopped, Looping
    <3>2. Moves(i)
      <4>1. worker[i] = "none"
        BY <1>1, <3>1, Typed, Zenon
      <4> QED
        BY <1>1, <2>1, <2>5, <3>1, <4>1, Zenon DEF Moves, Holds, Unlink
    <3>3. \A d \in Clients : target'[d] = i /\ ran'[d] # << >> => d \notin requests' \/ Acked(d)'
      BY <1>1, <1>4, <2>7, <2>8, <3>1, Zenon DEF BatchInv
    <3>4. \A d \in work'[i].batch : ~(target'[d] = i /\ ran'[d] # << >>) /\ ~Acked(d)'
      BY <1>1, <2>2, <2>5, <2>7, <2>8, <3>1, Typed DEF BatchInv
    <3>5. BatchInv(i)'
      BY <2>9, <3>1, <3>3, <3>4, Zenon DEF BatchInv, Answering
    <3> QED
      BY <1>4, <2>1, <2>5, <3>1, <3>2, <3>5, QuietStep, Zenon DEF DaemonTyped, Unlink
  <2>11. CASE work[i].then = "answer"
    <3>1. Stopped(i) /\ Answering(i) /\ pc'[i] = "answer"
      BY <1>1, <2>1, <2>11, Zenon DEF Stopped, Answering
    <3>2. Ending(i)' /\ ~Looping(i)' /\ Stopped(i)'
      BY <3>1, Zenon DEF Ending, Stopped, Looping
    <3>3. Moves(i)
      BY <1>1, <2>1, <2>5, <3>1, <3>2, Zenon DEF Moves, Holds, Unlink
    <3>4. \A d \in work'[i].batch :
             /\ target'[d] = i /\ (Kind[d] = "stop" => ran'[d] = <<i>>)
             /\ ~Acked(d)'
      BY <1>1, <2>2, <2>5, <2>7, <2>8, <3>1, Typed, Zenon DEF BatchInv
    <3>5. ~work'[i].failed => worker'[i] = "ok"
      BY <1>1, <2>2, <2>5, <2>8, <3>1, Zenon DEF BatchInv
    <3>6. BatchInv(i)'
      BY <2>9, <3>1, <3>2, <3>4, <3>5, Zenon DEF BatchInv
    <3> QED
      BY <1>4, <2>1, <2>5, <3>1, <3>2, <3>3, <3>6, QuietStep, Zenon DEF DaemonTyped, Unlink
  <2> QED
    BY <1>2, <2>10, <2>11, Zenon
<1> QED
  BY <1>2, <1>3, <1>4, Zenon DEF Unlink
-----------------------------------------------------------------------------
(* The daemon carries requests out *)

\* A stop begins: it is carried out once, whatever else the batch holds.
LEMMA BeginStopStep ==
    ASSUME RequestsInv, NEW i \in Instances, BeginStop(i)
    PROVE  RequestsInv'
<1>1. /\ pc[i] = "serve" /\ Holds(i) /\ ~Ending(i) /\ BatchInv(i) /\ worker[i] = "none"
      /\ \A c \in work[i].batch : /\ c \in Clients /\ Sent(c)
                                  /\ target[c] = i /\ target[c] # 0
                                  /\ ran[c] = << >> /\ ~Acked(c)
  BY OwnBatch, Zenon DEF BeginStop
<1>2. /\ DaemonTyped'
      /\ pc'[i] = "retain"
      /\ \A j \in Instances \ {i} : pc'[j] = pc[j] /\ work'[j] = work[j]
      /\ work'[i].names = work[i].names
      /\ work'[i].batch = work[i].batch
  BY Typed, StopFacts, Zenon DEF BeginStop
<1>3. Moves(i)
  BY <1>1, <1>2, Zenon DEF Moves, Holds, BeginStop
<1>4. UNCHANGED <<requests, acks, older, target, cpc, worker>>
  BY Zenon DEF BeginStop, clientVars, ackFiles
<1>5. \A c \in Clients : (Sent(c)' <=> Sent(c)) /\ (Acked(c)' <=> Acked(c))
  BY <1>4, Zenon DEF Sent, Acked
<1>6. \A c \in OfKind(i, "stop") : c \in work[i].batch /\ Kind[c] = "stop" /\ ran'[c] = <<i>>
  <2> SUFFICES ASSUME NEW c \in OfKind(i, "stop")
               PROVE  c \in work[i].batch /\ Kind[c] = "stop" /\ ran'[c] = <<i>>
    BY Zenon
  <2>1. c \in work[i].batch /\ Kind[c] = "stop"
    BY Zenon DEF OfKind
  <2>2. ran'[c] = Append(ran[c], i) /\ ran[c] = << >>
    BY <1>1, <2>1, Zenon DEF BeginStop
  <2> QED
    BY <2>1, <2>2
<1>7. \A c \in Clients \ OfKind(i, "stop") : ran'[c] = ran[c]
  BY Zenon DEF BeginStop
<1>8. ran' \in [Clients -> Seq(Instances)]
  <2>1. ran \in [Clients -> Seq(Instances)]
    BY Zenon DEF RequestsInv, TypeOK
  <2>2. \A c \in Clients : Append(ran[c], i) \in Seq(Instances)
    BY <2>1
  <2> QED
    BY <2>1, <2>2, Zenon DEF BeginStop
<1>9. BatchInv(i)'
  <2>1. ~Looping(i)' /\ Ending(i)'
    BY <1>2, Zenon DEF Looping, Ending
  <2>2. \A c \in work'[i].batch : Kind[c] = "stop" => ran'[c] = <<i>>
    BY <1>2, <1>6, Zenon DEF OfKind
  <2> QED
    BY <1>1, <1>2, <1>4, <1>5, <2>1, <2>2, Typed, Zenon DEF BatchInv
<1>10. \A c \in Clients : ClientInv(c)'
  <2> SUFFICES ASSUME NEW c \in Clients PROVE ClientInv(c)'
    BY Zenon
  <2>1. \/ ran'[c] = ran[c]
        \/ ran[c] = << >> /\ ran'[c] = <<target[c]>> /\ Sent(c) /\ target[c] # 0
    BY <1>1, <1>6, <1>7, Zenon
  <2>2. ~Stopped(i)
    BY <1>1, Zenon DEF Ending
  <2> QED
    BY <1>3, <1>4, <2>1, <2>2, MoveClient, Zenon
<1>11. FilesTyped' /\ Answers' = Answers
  BY <1>4, <1>5, <1>8, Zenon DEF FilesTyped, RequestsInv, TypeOK, Answers
<1> QED
  BY <1>2, <1>3, <1>4, <1>9, <1>10, <1>11, MoveStep, Zenon DEF RequestsInv, BoundInv

\* A reload begins: it is carried out once.
LEMMA BeginReloadStep ==
    ASSUME RequestsInv, NEW i \in Instances, BeginReload(i)
    PROVE  RequestsInv'
<1>1. /\ pc[i] = "serve" /\ Holds(i) /\ ~Ending(i) /\ BatchInv(i) /\ worker[i] = "none"
      /\ \A c \in work[i].batch : /\ c \in Clients /\ Sent(c)
                                  /\ target[c] = i /\ target[c] # 0
                                  /\ ran[c] = << >> /\ ~Acked(c)
  BY OwnBatch, Zenon DEF BeginReload
<1>2. PICK r \in OfKind(i, "reload") : /\ work' = [work EXCEPT ![i].cur = r]
                                       /\ ran' = [ran EXCEPT ![r] = Append(@, i)]
  BY Zenon DEF BeginReload
<1>3. r \in work[i].batch /\ Kind[r] = "reload" /\ r \in Clients
  BY <1>1, Zenon DEF OfKind
<1>4. /\ pc' \in [Instances -> Labels]
      /\ pc'[i] = "reload"
      /\ \A j \in Instances \ {i} : pc'[j] = pc[j]
  <2>1. "reload" \in Labels
    BY Zenon DEF Labels
  <2> QED
    BY <2>1, Typed, GotoFacts, Zenon DEF BeginReload
<1>5. work' \in [Instances -> Locals]
  BY <1>2, <1>3, Typed DEF DaemonTyped, Locals
<1>6. /\ work'[i].names = work[i].names /\ work'[i].batch = work[i].batch
      /\ work'[i].cur = r
      /\ \A j \in Instances \ {i} : work'[j] = work[j]
  BY <1>2, Typed, Zenon DEF DaemonTyped, Locals
<1>7. Moves(i)
  BY <1>1, <1>4, <1>6, Zenon DEF Moves, Holds, BeginReload
<1>8. UNCHANGED <<requests, acks, older, target, cpc, worker>>
  BY Zenon DEF BeginReload, clientVars, ackFiles
<1>9. \A c \in Clients : (Sent(c)' <=> Sent(c)) /\ (Acked(c)' <=> Acked(c))
  BY <1>8, Zenon DEF Sent, Acked
<1>10. /\ ran' \in [Clients -> Seq(Instances)]
       /\ ran'[r] = <<i>>
       /\ \A c \in Clients \ {r} : ran'[c] = ran[c]
  <2>1. ran \in [Clients -> Seq(Instances)] /\ ran[r] = << >>
    BY <1>1, <1>3, Zenon DEF RequestsInv, TypeOK
  <2>2. Append(ran[r], i) \in Seq(Instances) /\ Append(ran[r], i) = <<i>>
    BY <2>1, <1>3
  <2> QED
    BY <1>2, <1>3, <2>1, <2>2, Zenon
<1>11. BatchInv(i)'
  <2>1. Looping(i)' /\ ~Answering(i)' /\ ~Ending(i)' /\ ~Stopped(i)'
    BY <1>4, Zenon DEF Looping, Answering, Ending, Stopped
  <2>2. \A c \in work'[i].names \cup work'[i].batch : Sent(c)' /\ target'[c] # 0
    BY <1>1, <1>6, <1>8, <1>9, Typed, Zenon DEF BatchInv
  <2>3. \A c \in Clients : target'[c] = i /\ ran'[c] # << >> =>
            c \notin requests' \/ Acked(c)' \/ c = r
    BY <1>1, <1>8, <1>9, <1>10, Zenon DEF BatchInv
  <2>4. \A c \in work'[i].batch : target'[c] = i /\ ~Acked(c)' /\ (ran'[c] # << >> => c = r)
    BY <1>1, <1>6, <1>8, <1>9, <1>10, Zenon
  <2> QED
    BY <1>3, <1>4, <1>6, <1>10, <2>1, <2>2, <2>3, <2>4, Zenon DEF BatchInv
<1>12. \A c \in Clients : ClientInv(c)'
  <2> SUFFICES ASSUME NEW c \in Clients PROVE ClientInv(c)'
    BY Zenon
  <2>1. \/ ran'[c] = ran[c]
        \/ ran[c] = << >> /\ ran'[c] = <<target[c]>> /\ Sent(c) /\ target[c] # 0
    BY <1>1, <1>3, <1>10, Zenon
  <2>2. ~Stopped(i)
    BY <1>1, Zenon DEF Ending
  <2> QED
    BY <1>7, <1>8, <2>1, <2>2, MoveClient, Zenon
<1>13. FilesTyped' /\ Answers' = Answers
  BY <1>8, <1>9, <1>10, Zenon DEF FilesTyped, RequestsInv, TypeOK, Answers
<1>14. DaemonTyped' /\ pc'[i] \notin {"select", "poll"}
  BY <1>4, <1>5, Zenon DEF DaemonTyped
<1> QED
  BY <1>7, <1>8, <1>11, <1>12, <1>13, <1>14, MoveStep, Zenon DEF RequestsInv, BoundInv

\* A reload ends: it is answered, or the daemon shuts down and answers it then.
LEMMA EndReloadStep ==
    ASSUME FiniteFacts, RequestsInv, NEW i \in Instances, EndReload(i)
    PROVE  RequestsInv'
<1>1. pc[i] = "reload" /\ Holds(i) /\ ~Ending(i) /\ ~Stopped(i) /\ Looping(i)
  BY Zenon DEF EndReload, Holds, Ending, Stopped, Looping
<1>2. BatchInv(i) /\ worker[i] = "none" /\ DaemonTyped /\ work[i].batch \subseteq Clients
  BY <1>1, Typed, Zenon DEF RequestsInv
<1>3. UNCHANGED <<target, ran, worker, requests>>
      /\ \A d \in Clients : (Sent(d)' <=> Sent(d)) /\ (Acked(d)' <=> Acked(d))
  BY Zenon DEF EndReload, clientVars, ackFiles, Sent, Acked
<1>4. /\ work[i].cur \in work[i].batch /\ target[work[i].cur] = i
      /\ Kind[work[i].cur] = "reload"
      /\ \A c \in work[i].batch : ~Acked(c)
  BY <1>1, <1>2, Zenon DEF BatchInv
<1>5. CASE Goto(i, "reloaded")
           /\ \E degraded \in BOOLEAN : work' = [work EXCEPT ![i].failed = degraded]
  <2>1. PICK degraded \in BOOLEAN : work' = [work EXCEPT ![i].failed = degraded]
    BY <1>5, Zenon
  <2>2. /\ pc' \in [Instances -> Labels]
        /\ pc'[i] = "reloaded"
        /\ \A j \in Instances \ {i} : pc'[j] = pc[j]
    <3>1. "reloaded" \in Labels
      BY Zenon DEF Labels
    <3> QED
      BY <1>2, <1>5, <3>1, GotoFacts, Zenon
  <2>3. work' \in [Instances -> Locals]
    BY <1>2, <2>1 DEF DaemonTyped, Locals
  <2>4. /\ work'[i].names = work[i].names /\ work'[i].batch = work[i].batch
        /\ work'[i].cur = work[i].cur
        /\ \A j \in Instances \ {i} : work'[j] = work[j]
    BY <1>2, <2>1, Zenon DEF DaemonTyped, Locals
  <2>5. Moves(i)
    BY <1>1, <1>2, <2>2, <2>4, Zenon DEF Moves, Holds, EndReload
  <2>6. BatchInv(i)'
    <3>1. ~Answering(i)' /\ ~Stopped(i)'
      BY <2>2, Zenon DEF Answering, Stopped
    <3> QED
      BY <1>1, <1>2, <1>3, <1>4, <2>2, <2>4, <3>1, Typed, Zenon DEF BatchInv
  <2> QED
    BY <1>1, <2>2, <2>3, <2>5, <2>6, QuietStep, Zenon DEF DaemonTyped, EndReload
<1>6. CASE /\ Goto(i, "retain")
           /\ work' = [work EXCEPT ![i].why = "reload", ![i].failed = TRUE,
                                   ![i].batch = {work[i].cur}]
  <2>1. /\ pc' \in [Instances -> Labels]
        /\ pc'[i] = "retain"
        /\ \A j \in Instances \ {i} : pc'[j] = pc[j]
    <3>1. "retain" \in Labels
      BY Zenon DEF Labels
    <3> QED
      BY <1>2, <1>6, <3>1, GotoFacts, Zenon
  <2>2. work' \in [Instances -> Locals]
    <3> DEFINE u == [work EXCEPT ![i].why = "reload"]
               v == [u EXCEPT ![i].failed = TRUE]
    <3>1. u \in [Instances -> Locals]
      BY <1>2 DEF DaemonTyped, Locals
    <3>2. u[i].cur = work[i].cur
      BY <1>2, Zenon DEF DaemonTyped, Locals
    <3>3. work' = [v EXCEPT ![i].batch = {work[i].cur}]
      BY <1>6, Zenon
    <3> HIDE DEF u
    <3>4. v \in [Instances -> Locals]
      BY <3>1, ZenonT(30) DEF Locals
    <3>5. {work[i].cur} \subseteq Clients
      BY <1>2, <1>4, Zenon
    <3> HIDE DEF v
    <3> QED
      BY <3>3, <3>4, <3>5 DEF Locals
  <2>3. /\ work'[i].names = work[i].names /\ work'[i].batch = {work[i].cur}
        /\ \A j \in Instances \ {i} : work'[j] = work[j]
    BY <1>2, <1>6 DEF DaemonTyped, Locals
  <2>4. Moves(i)
    BY <1>1, <1>2, <2>1, <2>3, Zenon DEF Moves, Holds, EndReload
  <2>5. BatchInv(i)'
    <3>1. ~Looping(i)' /\ Ending(i)'
      BY <2>1, Zenon DEF Looping, Ending
    <3>2. \A c \in work'[i].names \cup work'[i].batch : Sent(c)' /\ target'[c] # 0
      BY <1>2, <1>3, <1>4, <2>3, Typed, Zenon DEF BatchInv
    <3>3. \A c \in work'[i].batch : target'[c] = i /\ Kind[c] # "stop" /\ ~Acked(c)'
      BY <1>2, <1>3, <1>4, <2>3, Zenon
    <3> QED
      BY <2>1, <3>1, <3>2, <3>3, Zenon DEF BatchInv
  <2> QED
    BY <1>1, <2>1, <2>2, <2>4, <2>5, QuietStep, Zenon DEF DaemonTyped, EndReload
<1> QED
  BY <1>5, <1>6, Zenon DEF EndReload
-----------------------------------------------------------------------------
(* The daemon prunes the history and shuts down *)

\* A move that prunes the history.
LEMMA DiscardStep ==
    ASSUME FiniteFacts, RequestsInv, NEW i \in Instances, Moves(i), DaemonTyped',
           Discard(Pruned), UNCHANGED <<requests, ran>>,
           Stopped(i) => Stopped(i)', work'[i].names = work[i].names, work'[i].batch = {},
           pc'[i] \in {"select", "retain", "close"},
           pc'[i] = "select" => ~Ending(i) /\ pc[i] = "serve" /\ Retained <= maxRetainedAckFiles
    PROVE  RequestsInv'
<1>1. TypeOK /\ BatchInv(i)
  BY Zenon DEF RequestsInv, Moves
<1>2. /\ acks' \in [Clients -> Ack \cup {NoAck}]
      /\ \A c \in Clients : acks'[c] = IF c \in Pruned THEN NoAck ELSE acks[c]
      /\ \A c \in Clients : Acked(c)' <=> Acked(c) /\ c \notin Pruned
      /\ Answers' = Answers \ Pruned
      /\ older' \in [Clients -> SUBSET Answers']
  BY <1>1, PruneKeepsPaired, DiscardFacts, Zenon
<1>3. FilesTyped'
  BY <1>1, <1>2, Zenon DEF FilesTyped, TypeOK
<1>4. UNCHANGED <<target, cpc>>
  BY Zenon DEF Moves, clientVars
<1>5. BatchInv(i)'
  <2>1. ~Looping(i)'
    BY Zenon DEF Looping
  <2>2. pc'[i] # "select" => Ending(i)'
    BY Zenon DEF Ending, Stopped
  <2>3. pc'[i] = "select" => \A c \in Clients :
            target'[c] = i /\ ran'[c] # << >> => c \notin requests' \/ Acked(c)'
    BY <1>1, <1>2, <1>4, PruneKeepsPaired, Zenon DEF BatchInv
  <2>4. \A c \in work'[i].names : Sent(c)' /\ target'[c] # 0
    BY <1>1, <1>4, Zenon DEF BatchInv, Sent
  <2> QED
    BY <2>1, <2>2, <2>3, <2>4, Zenon DEF BatchInv
<1>6. \A c \in Clients : ClientInv(c)'
  <2> SUFFICES ASSUME NEW c \in Clients PROVE ClientInv(c)'
    BY Zenon
  <2>1. Acked(c)' => acks'[c] = acks[c]
    BY <1>2, Zenon
  <2> QED
    BY <2>1, MoveClient, Zenon
<1>7. IsFiniteSet(Answers')
  BY <1>2, SubsetFacts, Zenon DEF RequestsInv, BoundInv
<1>8. pc'[i] \in {"select", "poll"} => Cardinality(Answers') <= maxRetainedAckFiles
  BY <1>2, Zenon DEF Retained
<1> QED
  BY <1>3, <1>5, <1>6, <1>7, <1>8, MoveStep, Zenon DEF RequestsInv, BoundInv

\* The end of a scan.
LEMMA PruneStep ==
    ASSUME FiniteFacts, RequestsInv, NEW i \in Instances, Prune(i)
    PROVE  RequestsInv'
<1>1. /\ pc[i] = "serve" /\ Holds(i) /\ ~Ending(i) /\ ~Stopped(i)
      /\ work[i].names = {} /\ work[i].batch = {}
  BY Zenon DEF Prune, BatchRead, Holds, Ending, Stopped
<1>2. DaemonTyped /\ worker[i] = "none"
  BY <1>1, Typed, Zenon
<1>3. CASE Retained <= maxRetainedAckFiles /\ Goto(i, "select") /\ UNCHANGED work
  <2>1. /\ pc' \in [Instances -> Labels]
        /\ pc'[i] = "select"
        /\ \A j \in Instances \ {i} : pc'[j] = pc[j]
    <3>1. "select" \in Labels
      BY Zenon DEF Labels
    <3> QED
      BY <1>2, <1>3, <3>1, GotoFacts, Zenon
  <2>2. Moves(i)
    BY <1>1, <1>2, <1>3, <2>1, Zenon DEF Moves, Holds, Prune
  <2> QED
    BY <1>1, <1>2, <1>3, <2>1, <2>2, DiscardStep, Zenon DEF DaemonTyped, Prune
<1>4. CASE Stop(i, "error")
  <2>1. /\ DaemonTyped'
        /\ pc'[i] = "retain"
        /\ \A j \in Instances \ {i} : pc'[j] = pc[j] /\ work'[j] = work[j]
        /\ work'[i].names = work[i].names
        /\ work'[i].batch = work[i].batch
    BY <1>2, <1>4, StopFacts, Zenon
  <2>2. Moves(i)
    BY <1>1, <1>2, <2>1, Zenon DEF Moves, Holds, Prune
  <2> QED
    BY <1>1, <2>1, <2>2, DiscardStep, Zenon DEF Prune
<1> QED
  BY <1>3, <1>4, Zenon DEF Prune

\* A batch is not disturbed by what clients do, nor by other daemons.
LEMMA BatchKept ==
    ASSUME RequestsInv, NEW i \in Instances, Holds(i),
           pc'[i] = pc[i], work'[i] = work[i], worker'[i] = worker[i], ran' = ran,
           \A d \in Clients : /\ Sent(d) => Sent(d)' /\ target'[d] = target[d]
                              /\ Acked(d)' => Acked(d)
                              /\ Acked(d) => Acked(d)' \/ d \notin requests'
                              /\ d \in requests' => d \in requests \/ ran[d] = << >>
    PROVE  BatchInv(i)'
<1>1. /\ Ending(i)' <=> Ending(i)
      /\ Looping(i)' <=> Looping(i)
      /\ Answering(i)' <=> Answering(i)
      /\ Stopped(i)' <=> Stopped(i)
  BY Zenon DEF Ending, Looping, Answering, Stopped
<1>2. BatchInv(i) /\ work[i].names \subseteq Clients /\ work[i].batch \subseteq Clients
  BY Typed, Zenon DEF RequestsInv
<1>3. \A d \in Clients : ~Sent(d) => ran[d] = << >>
  BY Zenon DEF RequestsInv, ClientInv
<1>4. \A d \in work[i].names \cup work[i].batch :
          d \in Clients /\ Sent(d)' /\ target'[d] = target[d] /\ target[d] # 0
  BY <1>2, Zenon DEF BatchInv
<1>5. ~Ending(i)' => \A d \in Clients : target'[d] = i /\ ran'[d] # << >> =>
        \/ d \notin requests'
        \/ Acked(d)'
        \/ pc'[i] \in {"reload", "reloaded"} /\ d = work'[i].cur
  BY <1>1, <1>2, <1>3, Zenon DEF BatchInv
<1>6. Looping(i)' => \A d \in work'[i].batch :
        target'[d] = i /\ ran'[d] # << >> => d = work'[i].cur /\ pc'[i] # "serve"
  BY <1>1, <1>2, <1>4 DEF BatchInv
<1>7. pc'[i] \in {"reload", "reloaded"} =>
        /\ work'[i].cur \in work'[i].batch
        /\ Kind[work'[i].cur] = "reload" /\ ran'[work'[i].cur] = <<i>>
        /\ \A d \in work'[i].batch : target'[d] = i
  BY <1>2, <1>4, Zenon DEF BatchInv
<1>8. Answering(i)' => \A d \in work'[i].batch :
        target'[d] = i /\ (Kind[d] = "stop" => ran'[d] = <<i>>)
  BY <1>1, <1>2, <1>4, Zenon DEF BatchInv
<1>9. Looping(i)' \/ Answering(i)' => \A d \in work'[i].batch :
        Acked(d)' => pc'[i] = "unlink" /\ d = work'[i].cur
  BY <1>1, <1>2, <1>4, Zenon DEF BatchInv
<1>10. /\ pc'[i] = "unlink" => work'[i].then \in {"serve", "answer"} /\ work'[i].cur \in Clients
       /\ pc'[i] \in {"answer", "unlink"} /\ Stopped(i)' /\ ~work'[i].failed
            => worker'[i] = "ok"
  BY <1>1, <1>2, Zenon DEF BatchInv
<1>11. \A d \in work'[i].names \cup work'[i].batch : Sent(d)' /\ target'[d] # 0
  BY <1>4, Zenon
<1> QED
  BY <1>5, <1>6, <1>7, <1>8, <1>9, <1>10, <1>11, Zenon DEF BatchInv

\* A step that begins or ends something and touches no file.
LEMMA ChangeStep ==
    ASSUME RequestsInv, NEW i \in Instances, TypeOK', LeaseInv', WorkerInv',
           UNCHANGED <<status, requests, ackFiles, clientVars, ran>>,
           \A j \in Instances \ {i} : pc'[j] = pc[j] /\ work'[j] = work[j]
                                      /\ worker'[j] = worker[j],
           Stopped(i) => Stopped(i)', Ended(i) => Ended(i)',
           worker[i] = "ok" => worker'[i] = "ok",
           pc'[i] \in {"off", "starting"} => pc[i] \in {"off", "starting"},
           pc'[i] \in {"select", "poll"} => pc[i] \in {"select", "poll"},
           Holds(i)' => BatchInv(i)'
    PROVE  RequestsInv'
<1>1. UNCHANGED <<acks, older, cpc, target, answer>>
      /\ \A c \in Clients : (Sent(c)' <=> Sent(c)) /\ (Acked(c)' <=> Acked(c))
  BY Zenon DEF ackFiles, clientVars, Sent, Acked
<1>2. status' # 0 => pc'[status'] \notin {"off", "starting"}
  <2>1. status # 0 => status \in Instances
    BY ConstantsAssumption DEF RequestsInv, TypeOK, Instances
  <2> QED
    BY <2>1, Zenon DEF RequestsInv
<1>3. \A j \in Instances : Holds(j)' => BatchInv(j)'
  <2> SUFFICES ASSUME NEW j \in Instances \ {i}, Holds(j)' PROVE BatchInv(j)'
    BY Zenon
  <2>1. Holds(j)
    BY Zenon DEF Holds
  <2> QED
    BY <1>1, <2>1, BatchKept, Zenon
<1>4. \A c \in Clients : ClientInv(c)'
  <2> SUFFICES ASSUME NEW c \in Clients PROVE ClientInv(c)'
    BY Zenon
  <2>1. ClientInv(c)
    BY Zenon DEF RequestsInv
  <2>2. target[c] \in Instances \/ target[c] = 0
    BY ConstantsAssumption DEF RequestsInv, TypeOK, Instances
  <2>3. target[c] # 0 => /\ Ended(target[c]) => Ended(target[c])'
                         /\ Stopped(target[c]) => Stopped(target[c])'
                         /\ worker[target[c]] = "ok" => worker'[target[c]] = "ok"
                         /\ pc'[target[c]] \notin {"off", "starting"}
    <3>1. CASE target[c] = i
      BY <1>1, <2>1, <3>1, Zenon DEF ClientInv
    <3>2. CASE target[c] \in Instances \ {i}
      BY <1>1, <2>1, <3>2, Zenon DEF Ended, Stopped, ClientInv
    <3> QED
      BY <2>2, <3>1, <3>2, Zenon
  <2>4. target[c] # 0 /\ Done(c) => Done(c)'
    BY <1>1, <2>3, Zenon DEF Done
  <2>5. AckInv(c)'
    BY <1>1, <2>1, <2>3, <2>4, Zenon DEF AckInv, ClientInv
  <2> QED
    BY <1>1, <2>1, <2>3, <2>4, <2>5, Zenon DEF ClientInv
<1>5. BoundInv'
  <2>1. Answers' = Answers
    BY <1>1, Zenon DEF Answers
  <2>2. IsFiniteSet(Answers')
    BY <2>1, Zenon DEF RequestsInv, BoundInv
  <2>3. \A j \in Instances : pc'[j] \in {"select", "poll"} => pc[j] \in {"select", "poll"}
    BY Zenon
  <2> QED
    BY <2>1, <2>2, <2>3, Zenon DEF RequestsInv, BoundInv
<1> QED
  BY <1>2, <1>3, <1>4, <1>5, Zenon DEF RequestsInv

\* The cleanup worker is started, with a descriptor of the lease of its own.
LEMMA SpawnWorkerStep ==
    ASSUME FiniteFacts, RequestsInv, NEW i \in Instances, SpawnWorker(i)
    PROVE  RequestsInv'
<1>1. pc[i] = "retain" /\ Holds(i) /\ ~Stopped(i)
  BY Zenon DEF SpawnWorker, Holds, Stopped
<1>2. DaemonTyped /\ worker[i] = "none" /\ BatchInv(i)
      /\ work[i].names \subseteq Clients /\ work[i].batch \subseteq Clients
  BY <1>1, Typed, Zenon DEF RequestsInv
<1>3. /\ pc' \in [Instances -> Labels]
      /\ pc'[i] = "cleanup"
      /\ \A j \in Instances \ {i} : pc'[j] = pc[j]
  <2>1. "cleanup" \in Labels
    BY Zenon DEF Labels
  <2> QED
    BY <1>2, <2>1, GotoFacts, Zenon DEF SpawnWorker
<1>4. BatchInv(i)'
  <2>1. /\ ~Looping(i)' /\ Ending(i)' /\ ~Looping(i)
        /\ Answering(i)' <=> Answering(i)
    BY <1>1, <1>3, Zenon DEF Looping, Ending, Answering, SpawnWorker
  <2>2. UNCHANGED <<work, target, ran, requests>>
        /\ \A c \in Clients : (Sent(c)' <=> Sent(c)) /\ (Acked(c)' <=> Acked(c))
    BY Zenon DEF SpawnWorker, clientVars, ackFiles, Sent, Acked
  <2> QED
    BY <1>1, <1>2, <1>3, <2>1, <2>2, Zenon DEF BatchInv
<1>5. DaemonTyped'
  BY <1>2, <1>3, Zenon DEF DaemonTyped, SpawnWorker
<1>6. CASE UNCHANGED <<lease, worker>>
  <2>1. Moves(i)
    BY <1>1, <1>2, <1>3, <1>6, Zenon DEF Moves, Holds, SpawnWorker
  <2> QED
    BY <1>1, <1>3, <1>4, <1>5, <2>1, QuietStep, Zenon DEF SpawnWorker
<1>7. CASE Retain(i) /\ worker' = [worker EXCEPT ![i] = "running"]
  <2>1. TypeOK /\ LeaseInv /\ WorkerInv
    BY Zenon DEF RequestsInv
  <2>2. worker' \in [Instances -> {"none", "running", "ok", "failed"}]
        /\ worker'[i] = "running" /\ \A j \in Instances \ {i} : worker'[j] = worker[j]
    BY <1>7, <2>1, Zenon DEF TypeOK
  <2>3. UNCHANGED <<work, status, requests, acks, older, cpc, target, answer, ran>>
    BY Zenon DEF SpawnWorker, clientVars, ackFiles
  <2>4. lease' = lease \cup {Worker(i)}
    BY <1>7, Zenon DEF Retain
  <2>5. TypeOK'
    BY <1>5, <2>1, <2>2, <2>3, <2>4 DEF TypeOK, DaemonTyped, Locals, Main, Worker, OneShot,
                                       Answers, Acked
  <2>6. LeaseInv'
    <3>1. \A j \in Instances : Holds(j)' <=> Holds(j)
      BY <1>1, <1>3, Zenon DEF Holds
    <3>2. \A j \in Instances : Main(j)' = Main(j) /\ Worker(j)' = Worker(j)
      BY Zenon DEF Main, Worker
    <3>3. \A c \in Clients : OneShot(c)' = OneShot(c)
      BY Zenon DEF OneShot
    <3> QED
      BY <1>1, <2>1, <2>2, <2>3, <2>4, <3>1, <3>2, <3>3, HoldersApart DEF LeaseInv
  <2>7. WorkerInv'
    BY <1>3, <2>1, <2>2, <2>3, Zenon DEF WorkerInv, Ending, Stopped
  <2> QED
    BY <1>1, <1>2, <1>3, <1>4, <2>2, <2>3, <2>5, <2>6, <2>7, ChangeStep, Zenon
       DEF SpawnWorker, Ended
<1> QED
  BY <1>6, <1>7, Zenon DEF SpawnWorker

\* The worker ends, with or without its daemon, and lets go of the lease.
LEMMA WorkerDoneStep ==
    ASSUME RequestsInv, NEW i \in Instances, WorkerDone(i)
    PROVE  RequestsInv'
<1>1. TypeOK /\ LeaseInv /\ WorkerInv /\ worker[i] = "running"
  BY Zenon DEF RequestsInv, WorkerDone
<1>2. PICK outcome \in {"ok", "failed"} : worker' = [worker EXCEPT ![i] = outcome]
  BY Zenon DEF WorkerDone
<1>3. /\ worker' \in [Instances -> {"none", "running", "ok", "failed"}]
      /\ worker'[i] \in {"ok", "failed"} /\ \A j \in Instances \ {i} : worker'[j] = worker[j]
  BY <1>1, <1>2, Zenon DEF TypeOK
<1>4. UNCHANGED <<pc, work, status, requests, acks, older, cpc, target, answer, ran>>
      /\ lease' = lease \ {Worker(i)}
  BY Zenon DEF WorkerDone, clientVars, ackFiles
<1>5. TypeOK'
  BY <1>1, <1>3, <1>4, Zenon DEF TypeOK, Main, Worker, OneShot, Answers, Acked
<1>6. /\ \A j \in Instances : Holds(j)' <=> Holds(j)
      /\ \A j \in Instances : Ending(j)' <=> Ending(j)
      /\ Looping(i)' <=> Looping(i)
      /\ Answering(i)' <=> Answering(i)
      /\ Stopped(i)' <=> Stopped(i)
  BY <1>4, Zenon DEF Holds, Ending, Looping, Answering, Stopped
<1>7. LeaseInv'
  <2>1. \A j \in Instances : Main(j)' = Main(j) /\ Worker(j)' = Worker(j)
    BY Zenon DEF Main, Worker
  <2>2. \A c \in Clients : OneShot(c)' = OneShot(c)
    BY Zenon DEF OneShot
  <2> QED
    BY <1>1, <1>3, <1>4, <1>6, <2>1, <2>2, HoldersApart DEF LeaseInv
<1>8. WorkerInv'
  BY <1>1, <1>3, <1>4, <1>6, ZenonT(30) DEF WorkerInv
<1>9. Holds(i)' => BatchInv(i)'
  <2> SUFFICES ASSUME Holds(i)' PROVE BatchInv(i)'
    BY Zenon
  <2>1. BatchInv(i)
    BY <1>6, Zenon DEF RequestsInv
  <2>2. \A c \in Clients : (Sent(c)' <=> Sent(c)) /\ (Acked(c)' <=> Acked(c))
    BY <1>4, Zenon DEF Sent, Acked
  <2>3. work[i].names \subseteq Clients /\ work[i].batch \subseteq Clients
    BY Typed, Zenon
  <2>4. worker'[i] = "ok" \/ ~(pc[i] \in {"answer", "unlink"} /\ Stopped(i) /\ ~work[i].failed)
    BY <1>1, <2>1, Zenon DEF BatchInv
  <2> QED
    BY <1>4, <1>6, <2>1, <2>2, <2>3, <2>4 DEF BatchInv
<1> QED
  BY <1>1, <1>3, <1>4, <1>5, <1>6, <1>7, <1>8, <1>9, ChangeStep, Zenon DEF Ended, WorkerDone

\* The outcome of the cleanup, or none: without it every answer is an error.
LEMMA ShutdownStep ==
    ASSUME FiniteFacts, RequestsInv, NEW i \in Instances, Shutdown(i)
    PROVE  RequestsInv'
<1>1. pc[i] = "cleanup" /\ Holds(i) /\ ~Stopped(i)
  BY Zenon DEF Shutdown, Holds, Stopped
<1>2. DaemonTyped /\ BatchInv(i)
      /\ work[i].names \subseteq Clients /\ work[i].batch \subseteq Clients
  BY <1>1, Typed, Zenon DEF RequestsInv
<1>3. PICK statusErr \in BOOLEAN :
          work' = [work EXCEPT ![i].batch = Answered(i),
                               ![i].failed = @ \/ worker[i] # "ok" \/ statusErr]
  BY Zenon DEF Shutdown
<1> DEFINE f == work[i].failed \/ worker[i] # "ok" \/ statusErr
<1>4. work' = [work EXCEPT ![i].batch = Answered(i), ![i].failed = f]
  BY <1>2, <1>3, Zenon DEF DaemonTyped, Locals
<1>5. f \in BOOLEAN /\ (~f => worker[i] = "ok")
  BY Zenon
<1>6. Answered(i) \subseteq work[i].batch /\ (Answered(i) # {} => Answering(i))
  BY <1>1, Zenon DEF Answered, Answering
<1> HIDE DEF f
<1>7. work' \in [Instances -> Locals]
  <2> DEFINE w == [work EXCEPT ![i].batch = Answered(i)]
  <2>1. w \in [Instances -> Locals]
    BY <1>2, <1>6 DEF DaemonTyped, Locals
  <2>2. work' = [w EXCEPT ![i].failed = f]
    BY <1>4, Zenon
  <2> HIDE DEF w
  <2> QED
    BY <1>5, <2>1, <2>2 DEF Locals
<1>8. /\ work'[i].names = work[i].names /\ work'[i].batch = Answered(i)
      /\ work'[i].failed = f
      /\ \A j \in Instances \ {i} : work'[j] = work[j]
  BY <1>2, <1>4, Zenon DEF DaemonTyped, Locals
<1>9. /\ pc' \in [Instances -> Labels]
      /\ pc'[i] = "answer"
      /\ \A j \in Instances \ {i} : pc'[j] = pc[j]
  <2>1. "answer" \in Labels
    BY Zenon DEF Labels
  <2> QED
    BY <1>2, <2>1, GotoFacts, Zenon DEF Shutdown
<1>10. ~Looping(i)' /\ Ending(i)' /\ Stopped(i)'
  BY <1>9, Zenon DEF Looping, Ending, Stopped
<1>11. Moves(i)
  BY <1>1, <1>8, <1>9, <1>10, Zenon DEF Moves, Holds, Shutdown
<1>12. UNCHANGED <<target, ran, worker, requests>>
       /\ \A c \in Clients : (Sent(c)' <=> Sent(c)) /\ (Acked(c)' <=> Acked(c))
  BY Zenon DEF Shutdown, clientVars, ackFiles, Sent, Acked
<1>13. BatchInv(i)'
  <2>1. \A c \in work'[i].names \cup work'[i].batch : Sent(c)' /\ target'[c] # 0
    BY <1>2, <1>6, <1>8, <1>12, Zenon DEF BatchInv
  <2>2. \A c \in work'[i].batch : /\ target'[c] = i /\ (Kind[c] = "stop" => ran'[c] = <<i>>)
                                  /\ ~Acked(c)'
    BY <1>1, <1>2, <1>6, <1>8, <1>12, Zenon DEF BatchInv
  <2>3. ~work'[i].failed => worker'[i] = "ok"
    BY <1>5, <1>8, <1>12, Zenon
  <2> QED
    BY <1>9, <1>10, <2>1, <2>2, <2>3, Zenon DEF BatchInv
<1> QED
  BY <1>1, <1>7, <1>9, <1>11, <1>13, QuietStep, Zenon DEF DaemonTyped, Shutdown

\* Every request of the batch has been answered.
LEMMA AnswerDoneStep ==
    ASSUME FiniteFacts, RequestsInv, NEW i \in Instances, AnswerDone(i)
    PROVE  RequestsInv'
<1>1. pc[i] = "answer" /\ Holds(i) /\ Stopped(i) /\ work[i].batch = {}
  BY Zenon DEF AnswerDone, Holds, Stopped
<1>2. DaemonTyped /\ BatchInv(i) /\ work[i].names \subseteq Clients
  BY <1>1, Typed, Zenon DEF RequestsInv
<1>3. /\ pc' \in [Instances -> Labels]
      /\ pc'[i] = "close"
      /\ \A j \in Instances \ {i} : pc'[j] = pc[j]
  <2>1. "close" \in Labels
    BY Zenon DEF Labels
  <2> QED
    BY <1>2, <2>1, GotoFacts, Zenon DEF AnswerDone
<1>4. DaemonTyped' /\ Stopped(i)' /\ Ending(i)' /\ ~Looping(i)' /\ ~Answering(i)'
  BY <1>2, <1>3, Zenon DEF DaemonTyped, AnswerDone, Stopped, Ending, Looping, Answering
<1>5. Moves(i)
  BY <1>1, <1>3, <1>4, Zenon DEF Moves, Holds, AnswerDone
<1>6. CASE UNCHANGED ackFiles
  <2>1. BatchInv(i)'
    BY <1>2, <1>3, <1>4, Zenon DEF BatchInv, AnswerDone, clientVars, Sent
  <2> QED
    BY <1>3, <1>4, <1>5, <1>6, <2>1, QuietStep, Zenon DEF AnswerDone
<1>7. CASE Discard(Pruned)
  <2>1. UNCHANGED <<work, requests, ran>>
    BY Zenon DEF AnswerDone
  <2> QED
    BY <1>1, <1>3, <1>4, <1>5, <1>7, <2>1, DiscardStep, Zenon
<1> QED
  BY <1>6, <1>7, Zenon DEF AnswerDone

\* Run returns, and the lease is free unless the worker goes on.
LEMMA CloseLeaseStep ==
    ASSUME RequestsInv, NEW i \in Instances, CloseLease(i)
    PROVE  RequestsInv'
<1>1. TypeOK /\ LeaseInv /\ WorkerInv /\ DaemonTyped /\ pc[i] = "close"
  BY Typed, Zenon DEF RequestsInv, CloseLease
<1>2. /\ pc' \in [Instances -> Labels]
      /\ pc'[i] = "returned"
      /\ \A j \in Instances \ {i} : pc'[j] = pc[j]
  <2>1. "returned" \in Labels
    BY Zenon DEF Labels
  <2> QED
    BY <1>1, <2>1, GotoFacts, Zenon DEF CloseLease
<1>3. UNCHANGED <<work, worker, status, requests, acks, older, cpc, target, answer, ran>>
      /\ lease' = lease \ {Main(i)}
  BY Zenon DEF CloseLease, clientVars, ackFiles
<1>4. TypeOK'
  BY <1>1, <1>2, <1>3, Zenon DEF TypeOK, Main, Worker, OneShot, Answers, Acked
<1>5. LeaseInv'
  <2>1. Holds(i) /\ ~Holds(i)' /\ \A j \in Instances \ {i} : Holds(j)' <=> Holds(j)
    BY <1>1, <1>2, Zenon DEF Holds
  <2>2. \A j \in Instances : Main(j)' = Main(j) /\ Worker(j)' = Worker(j)
    BY Zenon DEF Main, Worker
  <2>3. \A c \in Clients : OneShot(c)' = OneShot(c)
    BY Zenon DEF OneShot
  <2> QED
    BY <1>1, <1>3, <2>1, <2>2, <2>3, HoldersApart, Zenon DEF LeaseInv
<1>6. WorkerInv'
  BY <1>1, <1>2, <1>3, Zenon DEF WorkerInv, Ending, Stopped
<1>7. Stopped(i)' /\ Ended(i)' /\ ~Holds(i)'
  BY <1>2, Zenon DEF Stopped, Ended, Holds
<1> QED
  BY <1>2, <1>3, <1>4, <1>5, <1>6, <1>7, ChangeStep, Zenon DEF CloseLease

\* The process is gone: its descriptors are closed, its worker with it.
LEMMA ProcessEndsStep ==
    ASSUME RequestsInv, NEW i \in Instances, Exit(i) \/ Kill(i)
    PROVE  RequestsInv'
<1>1. TypeOK /\ LeaseInv /\ WorkerInv /\ DaemonTyped /\ ProcessEnds(i) /\ pc[i] # "off"
  BY Typed, Zenon DEF RequestsInv, Exit, Kill, Alive
<1>2. /\ pc' \in [Instances -> Labels]
      /\ pc'[i] = "exited"
      /\ \A j \in Instances \ {i} : pc'[j] = pc[j]
  <2>1. "exited" \in Labels
    BY Zenon DEF Labels
  <2> QED
    BY <1>1, <2>1, GotoFacts, Zenon DEF ProcessEnds
<1>3. /\ worker' \in [Instances -> {"none", "running", "ok", "failed"}]
      /\ worker'[i] = IF worker[i] = "ok" THEN "ok" ELSE "none"
      /\ \A j \in Instances \ {i} : worker'[j] = worker[j]
  BY <1>1, Zenon DEF ProcessEnds, TypeOK
<1>4. UNCHANGED <<status, requests, acks, older, cpc, target, answer, ran>>
      /\ lease' = lease \ {Main(i), Worker(i)}
  BY <1>1, Zenon DEF ProcessEnds, clientVars, ackFiles
<1>5. work' \in [Instances -> Locals] /\ \A j \in Instances \ {i} : work'[j] = work[j]
  <2>1. Idle \in Locals
    BY Zenon DEF Idle, Locals
  <2> QED
    BY <1>1, <2>1, Zenon DEF ProcessEnds, DaemonTyped
<1>6. TypeOK'
  BY <1>1, <1>2, <1>3, <1>4, <1>5, ZenonT(30)
     DEF TypeOK, Locals, Main, Worker, OneShot, Answers, Acked
<1>7. LeaseInv'
  <2>1. ~Holds(i)' /\ \A j \in Instances \ {i} : Holds(j)' <=> Holds(j)
    BY <1>2, Zenon DEF Holds
  <2>2. \A j \in Instances : Main(j)' = Main(j) /\ Worker(j)' = Worker(j)
    BY Zenon DEF Main, Worker
  <2>3. \A c \in Clients : OneShot(c)' = OneShot(c)
    BY Zenon DEF OneShot
  <2> QED
    BY <1>1, <1>3, <1>4, <2>1, <2>2, <2>3, HoldersApart DEF LeaseInv
<1>8. WorkerInv'
  BY <1>1, <1>2, <1>3, <1>5, Zenon DEF WorkerInv, Ending, Stopped
<1>9. Stopped(i)' /\ Ended(i)' /\ ~Holds(i)'
  BY <1>2, Zenon DEF Stopped, Ended, Holds
<1> QED
  BY <1>1, <1>2, <1>3, <1>4, <1>5, <1>6, <1>7, <1>8, <1>9, ChangeStep, ZenonT(30) DEF ProcessEnds

\* A daemon starts only when nobody holds the lease.
LEMMA StartStep ==
    ASSUME RequestsInv, NEW i \in Instances, Start(i)
    PROVE  RequestsInv'
<1>1. TypeOK /\ LeaseInv /\ WorkerInv /\ DaemonTyped /\ pc[i] = "off" /\ lease = {}
  BY Typed, Zenon DEF RequestsInv, Start, LeaseFree
<1>2. /\ pc' \in [Instances -> Labels]
      /\ pc'[i] = "starting"
      /\ \A j \in Instances \ {i} : pc'[j] = pc[j]
  <2>1. "starting" \in Labels
    BY Zenon DEF Labels
  <2> QED
    BY <1>1, <2>1, GotoFacts, Zenon DEF Start
<1>3. UNCHANGED <<work, worker, status, requests, acks, older, cpc, target, answer, ran>>
      /\ lease' = {Main(i)}
  BY <1>1, Zenon DEF Start, clientVars, ackFiles
<1>4. TypeOK'
  BY <1>1, <1>2, <1>3 DEF TypeOK, Main, Worker, OneShot, Answers, Acked
<1>5. /\ \A j \in Instances : ~Holds(j) /\ worker[j] # "running"
      /\ \A c \in Clients : cpc[c] # "mutate"
  BY <1>1, Zenon DEF LeaseInv
<1>6. LeaseInv'
  <2>1. Holds(i)' /\ \A j \in Instances \ {i} : Holds(j)' <=> Holds(j)
    BY <1>2, Zenon DEF Holds
  <2>2. \A j \in Instances : Main(j)' = Main(j) /\ Worker(j)' = Worker(j)
    BY Zenon DEF Main, Worker
  <2>3. \A c \in Clients : OneShot(c)' = OneShot(c)
    BY Zenon DEF OneShot
  <2> QED
    BY <1>3, <1>5, <2>1, <2>2, <2>3, HoldersApart, Zenon DEF LeaseInv
<1>7. WorkerInv'
  BY <1>1, <1>2, <1>3, Zenon DEF WorkerInv, Ending, Stopped
<1>8. BatchInv(i)'
  <2>1. work'[i].names = {} /\ work'[i].batch = {}
    BY <1>1, <1>3 DEF WorkerInv, Idle
  <2>2. \A c \in Clients : target'[c] # i
    <3> SUFFICES ASSUME NEW c \in Clients, target[c] = i PROVE FALSE
      BY <1>3, Zenon
    <3>1. i # 0
      BY ConstantsAssumption DEF Instances
    <3> QED
      BY <1>1, <3>1, Zenon DEF RequestsInv, ClientInv
  <2>3. ~Looping(i)' /\ ~Answering(i)'
    BY <1>2, Zenon DEF Looping, Answering
  <2> QED
    BY <1>2, <2>1, <2>2, <2>3, ZenonT(30) DEF BatchInv
<1> QED
  BY <1>1, <1>2, <1>3, <1>4, <1>6, <1>7, <1>8, ChangeStep, Zenon DEF Start, Stopped, Ended
-----------------------------------------------------------------------------
(* The clients *)

\* What is left to show of a step of a client.
LEMMA ClientStep ==
    ASSUME FiniteFacts, RequestsInv, NEW c \in Clients, UNCHANGED <<daemonVars, ran>>,
           TypeOK', LeaseInv',
           \A d \in Clients \ {c} :
              /\ cpc'[d] = cpc[d] /\ target'[d] = target[d] /\ answer'[d] = answer[d]
              /\ acks'[d] = acks[d] /\ (d \in requests' <=> d \in requests),
           Sent(c) => Sent(c)' /\ target'[c] = target[c],
           c \in requests' => c \in requests \/ ran[c] = << >>,
           acks'[c] = acks[c] \/ (~Acked(c)' /\ c \notin requests'),
           ClientInv(c)',
           IsFiniteSet(requests') /\ Cardinality(requests') <= maxPendingRequestFiles
    PROVE  RequestsInv'
<1>1. UNCHANGED <<pc, work, worker, status, ran>>
  BY Zenon DEF daemonVars
<1>2. \A i \in Instances : /\ Holds(i)' <=> Holds(i)
                           /\ Ending(i)' <=> Ending(i)
                           /\ Looping(i)' <=> Looping(i)
                           /\ Answering(i)' <=> Answering(i)
                           /\ Stopped(i)' <=> Stopped(i)
                           /\ Ended(i)' <=> Ended(i)
  BY <1>1, Zenon DEF Holds, Ending, Looping, Answering, Stopped, Ended
<1>3. WorkerInv' /\ (status' # 0 => pc'[status'] \notin {"off", "starting"})
  BY <1>1, <1>2, Zenon DEF RequestsInv, WorkerInv
<1>4. \A d \in Clients : /\ Sent(d) => Sent(d)' /\ target'[d] = target[d]
                         /\ Acked(d)' => Acked(d)
                         /\ Acked(d) => Acked(d)' \/ d \notin requests'
                         /\ d \in requests' => d \in requests \/ ran[d] = << >>
  BY Zenon DEF Sent, Acked
<1>6. \A i \in Instances : Holds(i)' => BatchInv(i)'
  BY <1>1, <1>2, <1>4, BatchKept, Zenon
<1>7. \A d \in Clients : ClientInv(d)'
  <2> SUFFICES ASSUME NEW d \in Clients \ {c} PROVE ClientInv(d)'
    BY Zenon
  <2>1. ClientInv(d)
    BY Zenon DEF RequestsInv
  <2>2. /\ Sent(d)' <=> Sent(d)
        /\ Acked(d)' <=> Acked(d)
        /\ Done(d)' <=> Done(d)
        /\ Ended(target[d])' <=> Ended(target[d])
    BY <1>1, Zenon DEF Sent, Acked, Done, Ended, Stopped
  <2>3. AckInv(d)'
    BY <1>1, <2>1, <2>2, Zenon DEF AckInv, ClientInv
  <2> QED
    BY <1>1, <2>1, <2>2, <2>3, Zenon DEF ClientInv
<1>8. BoundInv'
  <2>1. Answers' \in SUBSET Answers
    BY <1>4, Zenon DEF Answers
  <2>2. IsFiniteSet(Answers)
    BY Zenon DEF RequestsInv, BoundInv
  <2>3. IsFiniteSet(Answers') /\ Cardinality(Answers') <= Cardinality(Answers)
    BY <2>1, <2>2, SubsetFacts, Zenon
  <2>4. Cardinality(Answers') \in Nat /\ Cardinality(Answers) \in Nat
    BY <2>2, <2>3, CardinalityIsNat, Zenon
  <2>5. \A i \in Instances :
            pc'[i] \in {"select", "poll"} => Cardinality(Answers') <= maxRetainedAckFiles
    <3>1. \A i \in Instances :
              pc'[i] \in {"select", "poll"} => Cardinality(Answers) <= maxRetainedAckFiles
      BY <1>1, Zenon DEF RequestsInv, BoundInv
    <3> QED
      BY <2>3, <2>4, <3>1, ConstantsAssumption
  <2> QED
    BY <2>3, <2>5, Zenon DEF BoundInv
<1> QED
  BY <1>3, <1>6, <1>7, <1>8, Zenon DEF RequestsInv

\* The label and the answer of a client.
LEMMA AtFacts ==
    ASSUME TypeOK, NEW c \in Clients,
           NEW label \in {"start", "enqueue", "wait", "absent", "gone", "consume",
                          "direct", "mutate", "done"}, At(c, label)
    PROVE  /\ cpc' \in [Clients -> {"start", "enqueue", "wait", "absent", "gone", "consume",
                                    "direct", "mutate", "done"}]
           /\ cpc'[c] = label
           /\ \A d \in Clients \ {c} : cpc'[d] = cpc[d]
BY Zenon DEF At, TypeOK

\* A client that neither takes nor gives back the lease leaves it alone.
LEMMA LeaseStays ==
    ASSUME RequestsInv, UNCHANGED <<daemonVars, lease>>,
           \A d \in Clients : cpc'[d] = "mutate" <=> cpc[d] = "mutate"
    PROVE  LeaseInv'
<1>1. \A i \in Instances : Main(i)' = Main(i) /\ Worker(i)' = Worker(i)
  BY Zenon DEF Main, Worker
<1>2. \A d \in Clients : OneShot(d)' = OneShot(d)
  BY Zenon DEF OneShot
<1>3. (\A i \in Instances : Holds(i)' <=> Holds(i)) /\ worker' = worker
  BY Zenon DEF Holds, daemonVars
<1> QED
  BY <1>1, <1>2, <1>3, Zenon DEF RequestsInv, LeaseInv

\* A client reads the status file: it asks the daemon that runs, or goes alone.
LEMMA ReadStatusStep ==
    ASSUME FiniteFacts, RequestsInv, NEW c \in Clients, ReadStatus(c)
    PROVE  RequestsInv'
<1>1. TypeOK /\ ClientInv(c) /\ cpc[c] = "start" /\ ~Sent(c)
  BY Zenon DEF RequestsInv, ReadStatus, Sent
<1>2. UNCHANGED <<lease, pc, work, worker, status, requests, acks, older, ran>>
      /\ UNCHANGED daemonVars
  BY Zenon DEF ReadStatus, daemonVars, ackFiles
<1>3. CASE IsRunning /\ target' = [target EXCEPT ![c] = status] /\ At(c, "enqueue")
           /\ UNCHANGED answer
  <2>1. /\ cpc' \in [Clients -> {"start", "enqueue", "wait", "absent", "gone", "consume",
                                 "direct", "mutate", "done"}]
        /\ cpc'[c] = "enqueue" /\ \A d \in Clients \ {c} : cpc'[d] = cpc[d]
    BY <1>1, <1>3, AtFacts, Zenon
  <2>2. /\ target' \in [Clients -> 0 .. MaxInstances] /\ target'[c] = status
        /\ \A d \in Clients \ {c} : target'[d] = target[d]
    BY <1>1, <1>3, Zenon DEF TypeOK
  <2>3. TypeOK'
    BY <1>1, <1>2, <1>3, <2>1, <2>2, Zenon DEF TypeOK, Main, Worker, OneShot, Answers, Acked
  <2>4. LeaseInv'
    BY <1>1, <1>2, <2>1, LeaseStays, Zenon
  <2>5. status # 0 /\ pc[status] \notin {"off", "starting"}
    BY <1>3, Zenon DEF RequestsInv, IsRunning
  <2>6. ClientInv(c)'
    BY <1>1, <1>2, <1>3, <2>1, <2>2, <2>5, Zenon DEF ClientInv, Sent, Acked, AckInv
  <2> QED
    BY <1>1, <1>2, <1>3, <2>1, <2>2, <2>3, <2>4, <2>6, ClientStep, Zenon DEF RequestsInv, BoundInv
<1>4. CASE RunDirectly(c, "error") /\ UNCHANGED target
  <2>1. /\ cpc' \in [Clients -> {"start", "enqueue", "wait", "absent", "gone", "consume",
                                 "direct", "mutate", "done"}]
        /\ cpc'[c] = "direct" /\ \A d \in Clients \ {c} : cpc'[d] = cpc[d]
    BY <1>1, <1>4, AtFacts, Zenon DEF RunDirectly
  <2>2. /\ answer' \in [Clients -> {"none", "ok", "error", "changed", "withdrawn", "invalid"}]
        /\ answer'[c] = "error" /\ \A d \in Clients \ {c} : answer'[d] = answer[d]
    BY <1>1, <1>4, Zenon DEF TypeOK, RunDirectly
  <2>3. TypeOK'
    BY <1>1, <1>2, <1>4, <2>1, <2>2, Zenon DEF TypeOK, Main, Worker, OneShot, Answers, Acked
  <2>4. LeaseInv'
    BY <1>1, <1>2, <2>1, LeaseStays, Zenon
  <2>5. ClientInv(c)'
    BY <1>1, <1>2, <1>4, <2>1, <2>2, Zenon DEF ClientInv, Sent, Acked, AckInv, Ended
  <2> QED
    BY <1>1, <1>2, <1>4, <2>1, <2>2, <2>3, <2>4, <2>5, ClientStep, Zenon DEF RequestsInv, BoundInv
<1> QED
  BY <1>3, <1>4, Zenon DEF ReadStatus

\* A step of a client that has sent its request, and writes no file.
LEMMA WaitStep ==
    ASSUME FiniteFacts, RequestsInv, NEW c \in Clients, Sent(c), cpc[c] # "mutate",
           NEW label \in {"wait", "absent", "gone", "consume", "direct", "done"}, At(c, label),
           NEW what \in {"none", "ok", "error", "changed", "withdrawn"},
           answer' = [answer EXCEPT ![c] = what],
           UNCHANGED <<lease, daemonVars, ackFiles, target, ran>>,
           requests' = requests \/ requests' = requests \ {c},
           label \in {"wait", "absent", "gone", "consume"} \/ what \in {"ok", "changed"}
              => target[c] # 0,
           label = "gone" \/ what = "withdrawn" => target[c] # 0 /\ Ended(target[c]),
           what = "ok" => Done(c),
           what = "changed" => Ended(target[c])
    PROVE  RequestsInv'
<1>1. TypeOK /\ ClientInv(c)
  BY Zenon DEF RequestsInv
<1>2. UNCHANGED <<pc, work, worker, status, acks, older>>
  BY Zenon DEF daemonVars, ackFiles
<1>3. /\ cpc' \in [Clients -> {"start", "enqueue", "wait", "absent", "gone", "consume",
                               "direct", "mutate", "done"}]
      /\ cpc'[c] = label /\ \A d \in Clients \ {c} : cpc'[d] = cpc[d]
  BY <1>1, AtFacts, Zenon
<1>4. /\ answer' \in [Clients -> {"none", "ok", "error", "changed", "withdrawn", "invalid"}]
      /\ answer'[c] = what /\ \A d \in Clients \ {c} : answer'[d] = answer[d]
  BY <1>1, ZenonT(30) DEF TypeOK
<1>5. TypeOK'
  BY <1>1, <1>2, <1>3, <1>4 DEF TypeOK, Main, Worker, OneShot, Answers, Acked
<1>6. LeaseInv'
  BY <1>3, LeaseStays, Zenon
<1>7. /\ Sent(c)'
      /\ Acked(c)' <=> Acked(c)
      /\ Done(c)' <=> Done(c)
      /\ Ended(target[c])' <=> Ended(target[c])
  BY <1>2, <1>3, Zenon DEF Sent, Acked, Done, Ended, Stopped
<1>8. ClientInv(c)'
  <2>1. AckInv(c)'
    BY <1>1, <1>2, <1>7, ZenonT(30) DEF AckInv, ClientInv
  <2> QED
    BY <1>1, <1>2, <1>3, <1>4, <1>7, <2>1, Zenon DEF ClientInv
<1>9. IsFiniteSet(requests') /\ Cardinality(requests') <= maxPendingRequestFiles
  <2>1. IsFiniteSet(requests) /\ Cardinality(requests) <= maxPendingRequestFiles
    BY Zenon DEF RequestsInv, BoundInv
  <2>2. IsFiniteSet(requests') /\ Cardinality(requests') <= Cardinality(requests)
    BY <2>1, SubsetFacts, Zenon
  <2>3. Cardinality(requests) \in Nat /\ Cardinality(requests') \in Nat
    BY <2>1, <2>2, CardinalityIsNat, Zenon
  <2> QED
    BY <2>1, <2>2, <2>3, ConstantsAssumption
<1> QED
  BY <1>2, <1>3, <1>4, <1>5, <1>6, <1>7, <1>8, <1>9, ClientStep, Zenon

\* A request is queued while the queue has room.
LEMMA EnqueueStep ==
    ASSUME FiniteFacts, RequestsInv, NEW c \in Clients, enqueueRequest(c)
    PROVE  RequestsInv'
<1>1. TypeOK /\ ClientInv(c) /\ cpc[c] = "enqueue" /\ ~Sent(c)
  BY Zenon DEF RequestsInv, enqueueRequest, Sent
<1>2. UNCHANGED <<lease, pc, work, worker, status, acks, older, target, ran>>
      /\ UNCHANGED daemonVars
  BY Zenon DEF enqueueRequest, daemonVars, ackFiles
<1>3. PICK label \in {"wait", "done"} :
          /\ At(c, label)
          /\ \/ /\ label = "wait" /\ ~QueueFull /\ requests' = requests \cup {c}
                /\ UNCHANGED answer
             \/ /\ label = "done" /\ answer' = [answer EXCEPT ![c] = "error"]
                /\ UNCHANGED requests
  BY Zenon DEF enqueueRequest, Told
<1>4. /\ cpc' \in [Clients -> {"start", "enqueue", "wait", "absent", "gone", "consume",
                               "direct", "mutate", "done"}]
      /\ cpc'[c] = label /\ \A d \in Clients \ {c} : cpc'[d] = cpc[d]
  BY <1>1, <1>3, AtFacts, Zenon
<1>5. /\ answer' \in [Clients -> {"none", "ok", "error", "changed", "withdrawn", "invalid"}]
      /\ answer'[c] \in {"none", "error"} /\ \A d \in Clients \ {c} : answer'[d] = answer[d]
  <2>1. answer[c] = "none"
    BY <1>1, Zenon DEF ClientInv
  <2>2. CASE UNCHANGED answer
    BY <1>1, <2>1, <2>2, Zenon DEF TypeOK
  <2>3. CASE answer' = [answer EXCEPT ![c] = "error"]
    BY <1>1, <2>3, ZenonT(30) DEF TypeOK
  <2> QED
    BY <1>3, <2>2, <2>3, Zenon
<1>6. TypeOK'
  BY <1>1, <1>2, <1>3, <1>4, <1>5 DEF TypeOK, Main, Worker, OneShot, Answers, Acked
<1>7. LeaseInv'
  BY <1>1, <1>2, <1>4, LeaseStays, Zenon
<1>8. Sent(c)' /\ (Acked(c)' <=> Acked(c)) /\ (Ended(target[c])' <=> Ended(target[c]))
  BY <1>2, <1>4, Zenon DEF Sent, Acked, Ended
<1>9. ClientInv(c)'
  BY <1>1, <1>2, <1>3, <1>4, <1>5, <1>8, Zenon DEF ClientInv, AckInv
<1>10. IsFiniteSet(requests') /\ Cardinality(requests') <= maxPendingRequestFiles
  <2>1. IsFiniteSet(requests) /\ Cardinality(requests) <= maxPendingRequestFiles
    BY Zenon DEF RequestsInv, BoundInv
  <2>2. CASE ~QueueFull /\ requests' = requests \cup {c}
    <3>1. Cardinality(requests) \in Nat
      BY <2>1, CardinalityIsNat, Zenon
    <3>2. IsFiniteSet(requests') /\ Cardinality(requests') <= Cardinality(requests) + 1
      <4>1. /\ IsFiniteSet(requests \cup {c})
            /\ Cardinality(requests \cup {c}) =
                  IF c \in requests THEN Cardinality(requests) ELSE Cardinality(requests) + 1
        BY <2>1, AddFacts, Zenon
      <4> QED
        BY <2>2, <3>1, <4>1
    <3>3. Cardinality(requests') \in Nat
      BY <3>2, CardinalityIsNat, Zenon
    <3> QED
      BY <2>2, <3>1, <3>2, <3>3, ConstantsAssumption DEF QueueFull
  <2> QED
    BY <1>3, <2>1, <2>2, Zenon
<1> QED
  BY <1>1, <1>2, <1>3, <1>4, <1>5, <1>6, <1>7, <1>8, <1>9, <1>10, ClientStep, ZenonT(30)
       DEF ClientInv

\* What a client reads in an acknowledgement is valid, and true.
LEMMA PollAckStep ==
    ASSUME FiniteFacts, RequestsInv, NEW c \in Clients, PollAck(c)
    PROVE  RequestsInv'
<1>1. TypeOK /\ ClientInv(c) /\ cpc[c] = "wait" /\ Sent(c) /\ target[c] # 0
  BY Zenon DEF RequestsInv, PollAck, Sent, ClientInv
<1>2. CASE ~Acked(c) /\ At(c, "absent") /\ UNCHANGED answer
  <2>1. answer' = [answer EXCEPT ![c] = answer[c]]
        /\ answer[c] \in {"none", "ok", "error", "changed", "withdrawn"}
    BY <1>1, <1>2, Zenon DEF TypeOK, ClientInv
  <2> QED
    BY <1>1, <1>2, <2>1, WaitStep, Zenon DEF PollAck, ClientInv
<1>3. CASE Acked(c)
  <2>1. acks[c] \in Ack
    BY <1>1, <1>3, Zenon DEF TypeOK, Acked
  <2>2. acks[c].verdict \in {"ok", "error", "changed"}
    BY <2>1, Zenon DEF Ack
  <2>3. /\ acks[c].verdict = "changed" => acks[c].inst # target[c] /\ Ended(target[c])
        /\ acks[c].verdict # "changed" => acks[c].inst = target[c]
        /\ acks[c].verdict = "ok" => Done(c)
    BY <1>1, <1>3, Zenon DEF ClientInv, AckInv
  <2>4. ValidAck(c)
    BY <2>3, Zenon DEF ValidAck
  <2>5. At(c, "consume") /\ answer' = [answer EXCEPT ![c] = acks[c].verdict]
    BY <1>3, <2>4, Zenon DEF PollAck
  <2> QED
    BY <1>1, <2>2, <2>3, <2>5, WaitStep, Zenon DEF PollAck
<1> QED
  BY <1>2, <1>3, Zenon DEF PollAck

\* The acknowledgement is consumed once the request is gone.
LEMMA ConsumeStep ==
    ASSUME FiniteFacts, RequestsInv, NEW c \in Clients, Consume(c)
    PROVE  RequestsInv'
<1>1. TypeOK /\ ClientInv(c) /\ cpc[c] = "consume" /\ Sent(c)
  BY Zenon DEF RequestsInv, Consume, Sent
<1>2. UNCHANGED <<lease, pc, work, worker, status, requests, target, answer, ran>>
      /\ UNCHANGED daemonVars
  BY Zenon DEF Consume, daemonVars
<1>3. PICK label \in {"direct", "done"} : At(c, label)
  BY Zenon DEF Consume
<1>4. /\ cpc' \in [Clients -> {"start", "enqueue", "wait", "absent", "gone", "consume",
                               "direct", "mutate", "done"}]
      /\ cpc'[c] = label /\ \A d \in Clients \ {c} : cpc'[d] = cpc[d]
  BY <1>1, <1>3, AtFacts, Zenon
<1>5. /\ acks' \in [Clients -> Ack \cup {NoAck}] /\ older' \in [Clients -> SUBSET Answers']
      /\ \A d \in Clients \ {c} : acks'[d] = acks[d]
      /\ acks'[c] = acks[c] \/ (~Acked(c)' /\ c \notin requests)
  <2>1. CASE UNCHANGED ackFiles
    BY <1>1, <2>1, Zenon DEF TypeOK, ackFiles, Answers, Acked
  <2>2. CASE Discard({c}) /\ c \notin requests
    <3>1. {c} \in SUBSET Clients
      BY Zenon
    <3> QED
      BY <1>1, <2>2, <3>1, DiscardFacts, Zenon
  <2> QED
    BY <2>1, <2>2, Zenon DEF Consume
<1>6. TypeOK'
  BY <1>1, <1>2, <1>4, <1>5, Zenon DEF TypeOK, Main, Worker, OneShot
<1>7. LeaseInv'
  BY <1>1, <1>2, <1>4, LeaseStays, Zenon
<1>8. /\ Sent(c)'
      /\ Acked(c)' => Acked(c) /\ acks'[c] = acks[c]
      /\ Done(c)' <=> Done(c)
      /\ Ended(target[c])' <=> Ended(target[c])
  BY <1>2, <1>4, <1>5, Zenon DEF Sent, Acked, Done, Ended, Stopped
<1>9. ClientInv(c)'
  <2>1. AckInv(c)'
    BY <1>1, <1>2, <1>8, Zenon DEF AckInv, ClientInv
  <2> QED
    BY <1>1, <1>2, <1>4, <1>8, <2>1, Zenon DEF ClientInv
<1> QED
  BY <1>2, <1>4, <1>5, <1>6, <1>7, <1>8, <1>9, ClientStep, ZenonT(30) DEF RequestsInv, BoundInv

\* A client gives up on its daemon only when that is over.
LEMMA CheckInstanceStep ==
    ASSUME FiniteFacts, RequestsInv, NEW c \in Clients, CheckInstance(c)
    PROVE  RequestsInv'
<1>1. TypeOK /\ ClientInv(c) /\ cpc[c] = "absent" /\ Sent(c) /\ target[c] # 0
  BY Zenon DEF RequestsInv, CheckInstance, Sent, ClientInv
<1>2. PICK label \in {"wait", "gone"} : At(c, label) /\ (label = "gone" => ~TargetRuns(c))
  BY Zenon DEF CheckInstance
<1>3. ~TargetRuns(c) => Ended(target[c])
  BY <1>1, Zenon DEF TargetRuns, IsRunning, Alive, ClientInv, Ended
<1>4. answer' = [answer EXCEPT ![c] = answer[c]]
      /\ answer[c] \in {"none", "ok", "error", "changed", "withdrawn"}
  BY <1>1, Zenon DEF TypeOK, ClientInv, CheckInstance
<1> QED
  BY <1>1, <1>2, <1>3, <1>4, WaitStep, Zenon DEF CheckInstance, ClientInv

\* A withdrawal and a timeout keep the invariant.
LEMMA LeaveStep ==
    ASSUME FiniteFacts, RequestsInv, NEW c \in Clients, Withdraw(c) \/ Timeout(c)
    PROVE  RequestsInv'
<1>1. TypeOK /\ ClientInv(c) /\ Sent(c) /\ target[c] # 0 /\ cpc[c] \in {"gone", "wait"}
  BY Zenon DEF RequestsInv, Withdraw, Timeout, Sent, ClientInv
<1>2. answer[c] \in {"none", "ok", "error", "changed", "withdrawn"}
  BY <1>1, Zenon DEF TypeOK, ClientInv
<1>3. CASE Withdraw(c) /\ requests' = requests \ {c} /\ RunDirectly(c, "withdrawn")
  <2>1. Ended(target[c])
    BY <1>1, <1>3, Zenon DEF Withdraw, ClientInv
  <2> QED
    BY <1>1, <1>3, <2>1, WaitStep, Zenon DEF Withdraw, RunDirectly
<1>4. CASE Withdraw(c) /\ At(c, "wait") /\ UNCHANGED <<requests, answer>>
  <2>1. answer' = [answer EXCEPT ![c] = answer[c]]
    BY <1>1, <1>4, Zenon DEF TypeOK
  <2> QED
    BY <1>1, <1>2, <1>4, <2>1, WaitStep, Zenon DEF Withdraw, ClientInv
<1>5. CASE Timeout(c)
  BY <1>1, <1>5, WaitStep, Zenon DEF Timeout, Told
<1> QED
  BY <1>3, <1>4, <1>5, Zenon DEF Withdraw

\* A one-shot command needs the lease for itself.
LEMMA AcquireDirectStep ==
    ASSUME FiniteFacts, RequestsInv, NEW c \in Clients, AcquireDirect(c)
    PROVE  RequestsInv'
<1>1. TypeOK /\ LeaseInv /\ ClientInv(c) /\ cpc[c] = "direct" /\ Sent(c)
  BY Zenon DEF RequestsInv, AcquireDirect, Sent
<1>2. CASE ~LeaseFree /\ Told(c, "error") /\ UNCHANGED lease
  BY <1>1, <1>2, WaitStep, Zenon DEF AcquireDirect, Told
<1>3. CASE LeaseFree /\ lease' = lease \cup {OneShot(c)} /\ At(c, "mutate") /\ UNCHANGED answer
  <2>1. UNCHANGED <<pc, work, worker, status, requests, acks, older, target, answer, ran>>
        /\ UNCHANGED daemonVars
    BY <1>3, Zenon DEF AcquireDirect, daemonVars, ackFiles
  <2>2. /\ cpc' \in [Clients -> {"start", "enqueue", "wait", "absent", "gone", "consume",
                                 "direct", "mutate", "done"}]
        /\ cpc'[c] = "mutate" /\ \A d \in Clients \ {c} : cpc'[d] = cpc[d]
    BY <1>1, <1>3, AtFacts, Zenon
  <2>3. lease = {} /\ lease' = {OneShot(c)}
    BY <1>3, Zenon DEF LeaseFree
  <2>4. TypeOK'
    BY <1>1, <2>1, <2>2, <2>3 DEF TypeOK, Main, Worker, OneShot, Answers, Acked
  <2>5. LeaseInv'
    <3>1. /\ \A j \in Instances : ~Holds(j) /\ worker[j] # "running"
          /\ \A d \in Clients : cpc[d] # "mutate"
      BY <1>1, <2>3, Zenon DEF LeaseInv
    <3>2. \A j \in Instances : ~Holds(j)' /\ worker'[j] # "running"
      BY <2>1, <3>1, Zenon DEF Holds
    <3>3. \A j \in Instances : Main(j)' = Main(j) /\ Worker(j)' = Worker(j)
      BY Zenon DEF Main, Worker
    <3>4. \A d \in Clients : OneShot(d)' = OneShot(d)
      BY Zenon DEF OneShot
    <3> QED
      BY <2>2, <2>3, <3>1, <3>2, <3>3, <3>4, HoldersApart, Zenon DEF LeaseInv
  <2>6. ClientInv(c)'
    BY <1>1, <2>1, <2>2, Zenon DEF ClientInv, Sent, Acked, AckInv, Done, Ended, Stopped
  <2> QED
    BY <1>1, <2>1, <2>2, <2>4, <2>5, <2>6, ClientStep, Zenon DEF RequestsInv, BoundInv, Sent
<1> QED
  BY <1>2, <1>3, Zenon DEF AcquireDirect

\* The command is over and gives the lease back.
LEMMA DirectDoneStep ==
    ASSUME FiniteFacts, RequestsInv, NEW c \in Clients, DirectDone(c)
    PROVE  RequestsInv'
<1>1. TypeOK /\ LeaseInv /\ ClientInv(c) /\ cpc[c] = "mutate" /\ Sent(c)
  BY Zenon DEF RequestsInv, DirectDone, Sent
<1>2. UNCHANGED <<pc, work, worker, status, requests, acks, older, target, answer, ran>>
      /\ UNCHANGED daemonVars /\ lease' = lease \ {OneShot(c)}
  BY Zenon DEF DirectDone, daemonVars, ackFiles
<1>3. /\ cpc' \in [Clients -> {"start", "enqueue", "wait", "absent", "gone", "consume",
                               "direct", "mutate", "done"}]
      /\ cpc'[c] = "done" /\ \A d \in Clients \ {c} : cpc'[d] = cpc[d]
  BY <1>1, AtFacts, Zenon DEF DirectDone
<1>4. TypeOK'
  BY <1>1, <1>2, <1>3, Zenon DEF TypeOK, Main, Worker, OneShot, Answers, Acked
<1>5. LeaseInv'
  <2>1. \A j \in Instances : Holds(j)' <=> Holds(j)
    BY <1>2, Zenon DEF Holds
  <2>2. \A j \in Instances : Main(j)' = Main(j) /\ Worker(j)' = Worker(j)
    BY Zenon DEF Main, Worker
  <2>3. \A d \in Clients : OneShot(d)' = OneShot(d)
    BY Zenon DEF OneShot
  <2> QED
    BY <1>1, <1>2, <1>3, <2>1, <2>2, <2>3, HoldersApart, Zenon DEF LeaseInv
<1>6. ClientInv(c)'
  BY <1>1, <1>2, <1>3, Zenon DEF ClientInv, Sent, Acked, AckInv, Done, Ended, Stopped
<1> QED
  BY <1>1, <1>2, <1>3, <1>4, <1>5, <1>6, ClientStep, Zenon DEF RequestsInv, BoundInv, Sent

\* Every step keeps the invariant.
LEMMA RequestsInvNext ==
    ASSUME FiniteFacts, RequestsInv, [Next]_vars
    PROVE  RequestsInv'
<1>1. CASE UNCHANGED vars
  <2>1. UNCHANGED <<lease, pc, work, worker, status, requests, acks, older, cpc, target,
                    answer, ran>>
    BY <1>1, ZenonT(30) DEF vars, daemonVars, clientVars, ackFiles
  <2>2. /\ \A i \in Instances : /\ Holds(i)' = Holds(i) /\ Ended(i)' = Ended(i)
                                 /\ Stopped(i)' = Stopped(i) /\ Ending(i)' = Ending(i)
                                 /\ BatchInv(i)' = BatchInv(i)
        /\ \A c \in Clients : ClientInv(c)' = ClientInv(c)
    <3>1. \A i \in Instances : /\ Holds(i)' = Holds(i) /\ Ended(i)' = Ended(i)
                               /\ Stopped(i)' = Stopped(i) /\ Ending(i)' = Ending(i)
      BY <2>1, ZenonT(30) DEF Holds, Ended, Looping, Stopped, Ending, Answering
    <3>2. \A i \in Instances : BatchInv(i)' = BatchInv(i)
      BY <2>1 DEF BatchInv, Looping, Stopped, Ending, Answering, Sent, Acked
    <3>3. \A c \in Clients : ClientInv(c)' = ClientInv(c)
      BY <2>1 DEF ClientInv, Sent, Done, AckInv, Acked, Ended, Stopped
    <3> QED
      BY <3>1, <3>2, <3>3, Zenon
  <2>3. TypeOK' /\ BoundInv'
    BY <2>1, Zenon DEF RequestsInv, TypeOK, BoundInv, Answers, Acked, Main, Worker, OneShot
  <2>4. LeaseInv' /\ WorkerInv'
    BY <2>1, <2>2, LeaseStays, Zenon DEF RequestsInv, WorkerInv, daemonVars
  <2> QED
    BY <2>1, <2>2, <2>3, <2>4, Zenon DEF RequestsInv
<1>2. ASSUME NEW i \in Instances, Daemon(i)
      PROVE  RequestsInv'
  BY <1>2, StartStep, WriteStartingStep, RunOnceStep, EnumerateStep, ReadPendingStep,
     RefuseStep, BeginStopStep, BeginReloadStep, EndReloadStep, AckReloadStep, UnlinkStep,
     PruneStep, SpawnWorkerStep, WorkerDoneStep, ShutdownStep, AnswerStep, AnswerDoneStep,
     CloseLeaseStep, ProcessEndsStep, ZenonT(30) DEF Daemon
<1>3. ASSUME NEW c \in Clients, Client(c)
      PROVE  RequestsInv'
  BY <1>3, ReadStatusStep, EnqueueStep, PollAckStep, ConsumeStep, CheckInstanceStep,
     LeaveStep, AcquireDirectStep, DirectDoneStep, Zenon DEF Client
<1> QED
  BY <1>1, <1>2, <1>3, Zenon DEF Next
-----------------------------------------------------------------------------
(* The theorems *)

INSTANCE FiniteSetTheorems

\* The library proves what the steps took as a hypothesis.
LEMMA FiniteFactsHold == FiniteFacts
<1>1. \A S : IsFiniteSet(S) => Cardinality(S) \in Nat
  BY FS_CardinalityType, Zenon
<1>2. \A S : \A T \in SUBSET S :
          IsFiniteSet(S) => IsFiniteSet(T) /\ Cardinality(T) <= Cardinality(S)
  BY FS_Subset, Zenon
<1>3. \A S, x : IsFiniteSet(S) =>
          /\ IsFiniteSet(S \cup {x})
          /\ Cardinality(S \cup {x}) =
                IF x \in S THEN Cardinality(S) ELSE Cardinality(S) + 1
  BY FS_AddElement, Zenon
<1> QED
  BY <1>1, <1>2, <1>3, Zenon DEF FiniteFacts

\* Before the first daemon and the first command there is nothing.
LEMMA RequestsInvInit ==
    ASSUME Init
    PROVE  RequestsInv
<1>1. TypeOK
  <2>1. << >> \in Seq(Instances)
    OBVIOUS
  <2>2. Idle \in Locals
    BY Zenon DEF Idle, Locals
  <2> QED
    BY <2>1, <2>2, ConstantsAssumption DEF Init, TypeOK, Locals, Labels, Main, Worker, OneShot
<1>2. \A c \in Clients : ~Acked(c)
  BY Zenon DEF Init, Acked
<1>3. LeaseInv
  BY Zenon DEF Init, LeaseInv, Holds
<1>4. WorkerInv /\ status = 0 /\ \A i \in Instances : ~Holds(i)
  BY Zenon DEF Init, WorkerInv, Holds
<1>5. \A c \in Clients : ClientInv(c)
  BY <1>2, ZenonT(30) DEF Init, ClientInv, Sent, AckInv
<1>6. BoundInv
  <2>1. Answers = {} /\ requests = {}
    BY <1>2, Zenon DEF Answers, Init
  <2>2. IsFiniteSet({}) /\ Cardinality({}) = 0
    BY FS_EmptySet, Zenon
  <2> QED
    BY <2>1, <2>2, ConstantsAssumption DEF BoundInv
<1> QED
  BY <1>1, <1>3, <1>4, <1>5, <1>6, ZenonT(30) DEF RequestsInv

\* The inductive invariant of the request protocol holds throughout, whatever is
\* killed, restarted, timed out or withdrawn in between (daemon.go, request.go).
THEOREM RequestsInvariant == Spec => []RequestsInv
<1>1. Init => RequestsInv
  BY RequestsInvInit, Zenon
<1>2. RequestsInv /\ [Next]_vars => RequestsInv'
  BY RequestsInvNext, FiniteFactsHold, Zenon
<1> QED
  BY <1>1, <1>2, PTL DEF Spec

\* Every variable keeps its type (daemon.go, request.go).
THEOREM RequestsTypeCorrect == Spec => []TypeOK
<1>1. RequestsInv => TypeOK
  BY Zenon DEF RequestsInv
<1> QED
  BY <1>1, RequestsInvariant, PTL

\* Whoever changes the dataplane holds the lease, and does so alone.
LEMMA MutatorAlone ==
    ASSUME RequestsInv
    PROVE  OneMutator
<1>1. ASSUME NEW x \in Mutators, NEW y \in Mutators
      PROVE  x = y
  <2>1. \A i \in Instances : pc[i] \in {"startup", "poll", "reload"} =>
            Holds(i) /\ worker[i] # "running"
    BY Zenon DEF RequestsInv, WorkerInv, Holds, Ending, Stopped
  <2>2. LeaseInv
    BY Zenon DEF RequestsInv
  <2>3. \/ \E i \in Instances : x = Main(i) /\ Holds(i) /\ worker[i] # "running"
        \/ \E i \in Instances : x = Worker(i) /\ worker[i] = "running"
        \/ \E c \in Clients : x = OneShot(c) /\ cpc[c] = "mutate"
    BY <2>1, Zenon DEF Mutators
  <2>4. \/ \E i \in Instances : y = Main(i) /\ Holds(i) /\ worker[i] # "running"
        \/ \E i \in Instances : y = Worker(i) /\ worker[i] = "running"
        \/ \E c \in Clients : y = OneShot(c) /\ cpc[c] = "mutate"
    BY <2>1, Zenon DEF Mutators
  <2> QED
    BY <2>2, <2>3, <2>4 DEF LeaseInv
<1>2. CASE Mutators = {}
  <2>1. Cardinality(Mutators) = 0
    BY <1>2, FS_EmptySet, ZenonT(30)
  <2> QED
    BY <2>1 DEF OneMutator
<1>3. CASE Mutators # {}
  <2>1. PICK x : x \in Mutators
    BY <1>3, Zenon
  <2>2. Mutators = {x}
    BY <1>1, <2>1, ZenonT(30)
  <2>3. Cardinality({x}) = 1
    BY FS_Singleton, Zenon
  <2> QED
    BY <2>2, <2>3 DEF OneMutator
<1> QED
  BY <1>2, <1>3, Zenon

\* Mutations are serialized: a daemon's reconciliation, a cleanup worker that
\* outlives its daemon's loop and a one-shot command exclude each other through
\* the duplicated lease, and the queue and the history keep to their limits
\* (withMutationOwnership, runStopBounded, enqueueRequest, pruneAcknowledgements).
THEOREM RequestsSerialized == Spec => []Serialized
<1>1. ASSUME RequestsInv
      PROVE  Serialized
  <2>1. OneMutator
    BY <1>1, MutatorAlone, Zenon
  <2>2. QueueBounded
    BY <1>1, ZenonT(30) DEF RequestsInv, BoundInv, QueueBounded
  <2> QED
    BY <2>1, <2>2, Zenon DEF Serialized
<1> QED
  BY <1>1, RequestsInvariant, PTL

\* A request is carried out at most once and by the daemon it names, and what a
\* client is told is true: "ok" means done, "changed" that nobody will do it
\* (processRequests, shutdown, writeRequestAndWait).
THEOREM RequestsAnswersHold == Spec => []AnswersHold
<1>1. ASSUME RequestsInv
      PROVE  AnswersHold
  <2> SUFFICES ASSUME NEW c \in Clients
               PROVE  /\ ran[c] \in {<< >>, <<target[c]>>}
                      /\ answer[c] = "ok" =>
                          /\ ran[c] = <<target[c]>>
                          /\ Kind[c] = "stop" =>
                               /\ worker[target[c]] = "ok"
                               /\ pc[target[c]] \in {"answer", "unlink", "close",
                                                     "returned", "exited"}
                      /\ answer[c] = "changed" =>
                            ~Alive(target[c]) \/ pc[target[c]] = "returned"
                      /\ answer[c] # "invalid"
    BY Zenon DEF AnswersHold, RunsOnceWhereSent, OkMeansDone
  <2>1. ClientInv(c)
    BY <1>1, ZenonT(30) DEF RequestsInv
  <2> QED
    BY <2>1, Zenon DEF ClientInv, Done, Stopped, Ended, Alive
<1> QED
  BY <1>1, RequestsInvariant, PTL

\* What is decided about a request is final: its verdict stays as long as the
\* request is queued, and after a withdrawal nobody carries it out
\* (readPendingRequest, pruneAcknowledgements, writeRequestAndWait).
THEOREM RequestsDecisionIsFinal == Spec => DecisionIsFinal
<1>1. RequestsInv /\ [Next]_vars =>
        [\A c \in Clients :
            /\ Acked(c) => acks'[c] = acks[c] \/ (~Acked(c)' /\ c \notin requests)
            /\ answer[c] = "withdrawn" => ran'[c] = ran[c]]_vars
  BY VerdictStays, WithdrawnStays, Zenon
<1> QED
  BY <1>1, RequestsInvariant, PTL DEF Spec, DecisionIsFinal
=============================================================================

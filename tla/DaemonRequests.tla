--------------------------- MODULE DaemonRequests ---------------------------
(***************************************************************************)
(* The request protocol between the command line and the daemon            *)
(* (internal/daemon/daemon.go and request.go) under the lifecycle lease    *)
(* (internal/lockfile): one file per request, one per acknowledgement, a   *)
(* status file, and a flock that the daemon, its cleanup worker and the    *)
(* one-shot commands contend for.                                          *)
(*                                                                         *)
(* Every file operation is a step of its own, so that clients, a daemon,   *)
(* the timed-out cleanup worker of the daemon before it and kills          *)
(* interleave as separate processes do; only pruning, which looks at every *)
(* acknowledgement, is one step.  Requests of one batch are served         *)
(* in CreatedAt order, which each client takes from its own clock before   *)
(* it has the queue lock: any order.  Configuration paths agree: a client  *)
(* that names another one is refused before it enqueues anything.          *)
(***************************************************************************)
EXTENDS Naturals, Sequences, FiniteSets

CONSTANTS Clients, Stoppers,          \* one request each, a stop or a reload
          MaxInstances,               \* daemons started, a bound of the model
          maxPendingRequestFiles, maxRetainedAckFiles

ASSUME ConstantsAssumption ==
    /\ Stoppers \subseteq Clients
    /\ {MaxInstances, maxPendingRequestFiles, maxRetainedAckFiles} \subseteq Nat \ {0}

Instances == 1 .. MaxInstances

Kind == [c \in Clients |-> IF c \in Stoppers THEN "stop" ELSE "reload"]

VARIABLES
    lease,      \* open descriptors of the flocked lease file, by holder
    pc,         \* where each daemon instance is in Run
    work,       \* the locals of Run: names, batch, cur, then, why, failed
    worker,     \* the cleanup goroutine of runStopBounded
    status,     \* the instance the status file names, 0 without a file
    requests,   \* clients whose request file exists
    acks,       \* the acknowledgement file of each client, or NoAck
    older,      \* the clients whose acknowledgement is older than a client's
    cpc,        \* where each client is in writeRequestAndWait
    target,     \* ExpectedInstanceID of its request
    answer,     \* what writeRequestAndWait returned; any other error is "error"
    ran         \* history: the instances that carried each request out

daemonVars == <<pc, work, worker, status>>
clientVars == <<cpc, target, answer>>
ackFiles == <<acks, older>>
vars == <<lease, daemonVars, requests, ackFiles, clientVars, ran>>

Main(i) == <<i, "main">>
Worker(i) == <<i, "worker">>
OneShot(c) == <<c, "command">>

Ack == [inst : Instances, verdict : {"ok", "error", "changed"}]
NoAck == [inst |-> 0, verdict |-> "none"]
Acked(c) == acks[c] # NoAck
Answers == {c \in Clients : Acked(c)}

\* The acknowledgement files of some clients are removed.
Discard(gone) ==
    /\ acks' = [c \in Clients |-> IF c \in gone THEN NoAck ELSE acks[c]]
    /\ older' = [c \in Clients |-> IF c \in gone THEN {} ELSE older[c] \ gone]

Idle == [names |-> {}, batch |-> {}, cur |-> "none", then |-> "none", why |-> "none",
         failed |-> FALSE]

Alive(i) == pc[i] \notin {"off", "exited"}

\* IsRunning: the process of the instance the status file names is in /proc.
IsRunning == status # 0 /\ Alive(status)

Init ==
    /\ lease = {}
    /\ pc = [i \in Instances |-> "off"]
    /\ work = [i \in Instances |-> Idle]
    /\ worker = [i \in Instances |-> "none"]
    /\ status = 0
    /\ requests = {}
    /\ acks = [c \in Clients |-> NoAck]
    /\ older = [c \in Clients |-> {}]
    /\ cpc = [c \in Clients |-> "start"]
    /\ target = [c \in Clients |-> 0]
    /\ answer = [c \in Clients |-> "none"]
    /\ ran = [c \in Clients |-> << >>]

-----------------------------------------------------------------------------
(* The daemon: starting, polling, scanning *)

Goto(i, label) == pc' = [pc EXCEPT ![i] = label]
Stop(i, why) ==
    /\ Goto(i, "retain")
    /\ work' = [work EXCEPT ![i].why = why, ![i].failed = (why # "stop" /\ why # "signal")]

\* The lease is taken without waiting and before anything else.
LeaseUnchecked == TRUE
LeaseFree == lease = {}

Start(i) ==
    /\ pc[i] = "off" /\ \A j \in 1 .. i - 1 : pc[j] # "off"
    /\ LeaseFree
    /\ lease' = lease \cup {Main(i)}
    /\ Goto(i, "starting")
    /\ UNCHANGED <<work, worker, status, requests, ackFiles, clientVars, ran>>

\* Write the "starting" status; without it Run returns at once.
WriteStarting(i) ==
    /\ pc[i] = "starting"
    /\ \/ Goto(i, "startup") /\ status' = i
       \/ Goto(i, "close") /\ UNCHANGED status
    /\ UNCHANGED <<lease, work, worker, requests, ackFiles, clientVars, ran>>

\* runOnce for the startup (after which the queue is scanned at once), a poll
\* tick or a legacy notification.  Only a failed status write ends the loop.
RunOnce(i) ==
    /\ pc[i] \in {"startup", "poll"}
    /\ \/ Goto(i, IF pc[i] = "startup" THEN "first" ELSE "select") /\ UNCHANGED work
       \/ Stop(i, "status")
    /\ UNCHANGED <<lease, worker, status, requests, ackFiles, clientVars, ran>>

PollTick(i) ==
    /\ pc[i] = "select"
    /\ Goto(i, "poll")
    /\ UNCHANGED <<lease, work, worker, status, requests, ackFiles, clientVars, ran>>

Signal(i) ==
    /\ pc[i] = "select"
    /\ Stop(i, "signal")
    /\ UNCHANGED <<lease, worker, status, requests, ackFiles, clientVars, ran>>

\* pendingRequests: the directory is listed once, its files are read one by one.
Enumerate(i) ==
    /\ pc[i] \in {"first", "select"}
    /\ \/ Goto(i, "serve") /\ work' = [work EXCEPT ![i] = [Idle EXCEPT !.names = requests]]
       \/ Stop(i, "error")
    /\ UNCHANGED <<lease, worker, status, requests, ackFiles, clientVars, ran>>

ReadIgnoresAck(i, c) ==
    /\ work' = [work EXCEPT ![i].names = @ \ {c}, ![i].batch = @ \cup ({c} \cap requests)]
    /\ UNCHANGED requests

\* readPendingRequest: a withdrawn file is skipped, an acknowledged one is only
\* removed, any other joins the batch.
ReadFile(i, c) ==
    /\ work' = [work EXCEPT ![i].names = @ \ {c},
                            ![i].batch = IF c \in requests /\ ~Acked(c) THEN @ \cup {c} ELSE @]
    /\ requests' = IF Acked(c) THEN requests \ {c} ELSE requests

ReadPending(i) ==
    /\ pc[i] = "serve"
    /\ \E c \in work[i].names : ReadFile(i, c)
    /\ UNCHANGED <<lease, pc, worker, status, ackFiles, clientVars, ran>>

BatchRead(i) == pc[i] = "serve" /\ work[i].names = {}

-----------------------------------------------------------------------------
(* The daemon: acknowledging *)

\* acknowledgeRequest renames the acknowledgement into place, then unlinks the
\* request; a kill can fall between the two.
WriteAck(i, c, verdict, then) ==
    /\ acks' = [acks EXCEPT ![c] = [inst |-> i, verdict |-> verdict]]
    /\ older' = [d \in Clients |-> IF d = c THEN Answers \ {c} ELSE older[d] \ {c}]
    /\ work' = [work EXCEPT ![i].cur = c, ![i].then = then]
    /\ Goto(i, "unlink")
    /\ UNCHANGED requests

UnlinkLosesReturn(i) ==
    /\ pc[i] = "unlink"
    /\ requests' = requests \ {work[i].cur}
    /\ Goto(i, Idle.then)
    /\ work' = [work EXCEPT ![i].batch = @ \ {work[i].cur}, ![i].cur = "none", ![i].then = "none"]
    /\ UNCHANGED <<lease, worker, status, ackFiles, clientVars, ran>>

NextAnswer(i) == [work[i] EXCEPT !.batch = @ \ {work[i].cur}, !.cur = "none", !.then = "none"]

\* Only then is the request file removed; when that fails the loop ends with the
\* request acknowledged and still queued, unless the daemon is stopping anyway.
Unlink(i) ==
    /\ pc[i] = "unlink"
    /\ \/ /\ requests' = requests \ {work[i].cur}
          /\ Goto(i, work[i].then) /\ work' = [work EXCEPT ![i] = NextAnswer(i)]
       \/ /\ UNCHANGED requests
          /\ work[i].then = "answer"
          /\ Goto(i, "answer") /\ work' = [work EXCEPT ![i] = NextAnswer(i)]
       \/ /\ UNCHANGED requests
          /\ work[i].then # "answer"
          /\ Stop(i, "error")
    /\ UNCHANGED <<lease, worker, status, ackFiles, clientVars, ran>>

\* An acknowledgement that cannot be written ends the loop; once the
\* daemon is stopping the error is only collected.
AckFails(i, c) ==
    /\ UNCHANGED <<requests, ackFiles>>
    /\ \/ pc[i] # "answer" /\ Stop(i, "error")
       \/ pc[i] = "answer" /\ work' = [work EXCEPT ![i].batch = @ \ {c}] /\ UNCHANGED pc

NoneForeign(i) == {}
Foreign(i) == {c \in work[i].batch : target[c] # i}

\* A request for another instance is acknowledged and never carried out.
Refuse(i) ==
    /\ BatchRead(i)
    /\ \E c \in Foreign(i) : WriteAck(i, c, "changed", "serve") \/ AckFails(i, c)
    /\ UNCHANGED <<lease, worker, status, clientVars, ran>>

OfKind(i, kind) == {c \in work[i].batch : Kind[c] = kind}

\* A stop in the batch is carried out first and supersedes its reloads.
BeginStop(i) ==
    /\ BatchRead(i) /\ Foreign(i) = {} /\ OfKind(i, "stop") # {}
    /\ Stop(i, "stop")
    /\ ran' = [c \in Clients |-> IF c \in OfKind(i, "stop") THEN Append(ran[c], i) ELSE ran[c]]
    /\ UNCHANGED <<lease, worker, status, requests, ackFiles, clientVars>>

BeginReload(i) ==
    /\ BatchRead(i) /\ Foreign(i) = {} /\ OfKind(i, "stop") = {}
    /\ \E c \in OfKind(i, "reload") :
        /\ work' = [work EXCEPT ![i].cur = c]
        /\ ran' = [ran EXCEPT ![c] = Append(@, i)]
    /\ Goto(i, "reload")
    /\ UNCHANGED <<lease, worker, status, requests, ackFiles, clientVars>>

\* runOnce("reload-request"): after a failed status write the daemon shuts down
\* and answers this request only.
EndReload(i) ==
    /\ pc[i] = "reload"
    /\ \/ /\ Goto(i, "reloaded")
          /\ \E degraded \in BOOLEAN : work' = [work EXCEPT ![i].failed = degraded]
       \/ /\ Goto(i, "retain")
          /\ work' = [work EXCEPT ![i].why = "reload", ![i].failed = TRUE, ![i].batch = {work[i].cur}]
    /\ UNCHANGED <<lease, worker, status, requests, ackFiles, clientVars, ran>>

AckReload(i) ==
    /\ pc[i] = "reloaded"
    /\ \/ WriteAck(i, work[i].cur, IF work[i].failed THEN "error" ELSE "ok", "serve")
       \/ AckFails(i, work[i].cur)
    /\ UNCHANGED <<lease, worker, status, clientVars, ran>>

\* pruneAcknowledgements drops the oldest acknowledgements whose request file
\* is gone until maxRetainedAckFiles are left.
Unpaired == Answers \ requests
Excess == IF Cardinality(Answers) > maxRetainedAckFiles
          THEN Cardinality(Answers) - maxRetainedAckFiles ELSE 0

Pruned == {c \in Unpaired : Cardinality(older[c] \cap Unpaired) < Excess}
Retained == Cardinality(Answers \ Pruned)

\* The end of processRequests, where the history may still be too long.
Prune(i) ==
    /\ BatchRead(i) /\ work[i].batch = {}
    /\ Discard(Pruned)
    /\ \/ Retained <= maxRetainedAckFiles /\ Goto(i, "select") /\ UNCHANGED work
       \/ Retained > maxRetainedAckFiles /\ Stop(i, "error")
    /\ UNCHANGED <<lease, worker, status, requests, clientVars, ran>>

-----------------------------------------------------------------------------
(* The daemon: shutting down *)

\* runStopBounded duplicates the lease descriptor for its worker, which runs
\* reconcile.Stop on its own.
RetainNothing(i) == UNCHANGED lease
Retain(i) == lease' = lease \cup {Worker(i)}

SpawnWorker(i) ==
    /\ pc[i] = "retain"
    /\ Goto(i, "cleanup")
    /\ \/ Retain(i) /\ worker' = [worker EXCEPT ![i] = "running"]
       \/ UNCHANGED <<lease, worker>>
    /\ UNCHANGED <<work, status, requests, ackFiles, clientVars, ran>>

WorkerDone(i) ==
    /\ worker[i] = "running"
    /\ \E outcome \in {"ok", "failed"} : worker' = [worker EXCEPT ![i] = outcome]
    /\ lease' = lease \ {Worker(i)}
    /\ UNCHANGED <<pc, work, status, requests, ackFiles, clientVars, ran>>

Answered(i) == IF work[i].why \in {"stop", "reload"} THEN work[i].batch ELSE {}

ShutdownForgetsDeadline(i) ==
    /\ pc[i] = "cleanup"
    /\ Goto(i, "answer")
    /\ \E statusErr \in BOOLEAN :
         work' = [work EXCEPT ![i].batch = Answered(i),
                              ![i].failed = @ \/ worker[i] = "failed" \/ statusErr]
    /\ UNCHANGED <<lease, worker, status, requests, ackFiles, clientVars, ran>>

\* The outcome arrives, or the deadline and its grace period pass without it;
\* then the final status is written, or is not.
Shutdown(i) ==
    /\ pc[i] = "cleanup"
    /\ Goto(i, "answer")
    /\ \E statusErr \in BOOLEAN :
         work' = [work EXCEPT ![i].batch = Answered(i),
                              ![i].failed = @ \/ worker[i] # "ok" \/ statusErr]
    /\ UNCHANGED <<lease, worker, status, requests, ackFiles, clientVars, ran>>

\* Superseded reloads are answered before the stops; a reload whose status write
\* failed gets the error of the shutdown it caused.
Answer(i) ==
    /\ pc[i] = "answer"
    /\ \E c \in work[i].batch :
        /\ Kind[c] = "stop" => OfKind(i, "reload") = {}
        /\ \/ WriteAck(i, c, IF Kind[c] = "reload" \/ work[i].failed THEN "error" ELSE "ok",
                       "answer")
           \/ AckFails(i, c)
    /\ UNCHANGED <<lease, worker, status, clientVars, ran>>

AnswerDone(i) ==
    /\ pc[i] = "answer" /\ work[i].batch = {}
    /\ IF work[i].why \in {"stop", "reload"} THEN Discard(Pruned) ELSE UNCHANGED ackFiles
    /\ Goto(i, "close")
    /\ UNCHANGED <<lease, work, worker, status, requests, clientVars, ran>>

\* Run closes its own descriptor; a worker that timed out keeps its duplicate
\* until it ends or the process does.
CloseLease(i) ==
    /\ pc[i] = "close"
    /\ lease' = lease \ {Main(i)}
    /\ Goto(i, "returned")
    /\ UNCHANGED <<work, worker, status, requests, ackFiles, clientVars, ran>>

ProcessEnds(i) ==
    /\ lease' = lease \ {Main(i), Worker(i)}
    /\ worker' = [worker EXCEPT ![i] = IF @ = "ok" THEN @ ELSE "none"]
    /\ work' = [work EXCEPT ![i] = Idle]
    /\ Goto(i, "exited")
    /\ UNCHANGED <<status, requests, ackFiles, clientVars, ran>>

Exit(i) == pc[i] = "returned" /\ ProcessEnds(i)
Kill(i) == Alive(i) /\ pc[i] # "returned" /\ ProcessEnds(i)

-----------------------------------------------------------------------------
(* The clients *)

At(c, label) == cpc' = [cpc EXCEPT ![c] = label]
Told(c, what) == At(c, "done") /\ answer' = [answer EXCEPT ![c] = what]
RunDirectly(c, why) == At(c, "direct") /\ answer' = [answer EXCEPT ![c] = why]

ReadStatus(c) ==
    /\ cpc[c] = "start"
    /\ \/ IsRunning /\ target' = [target EXCEPT ![c] = status] /\ At(c, "enqueue")
          /\ UNCHANGED answer
       \/ ~IsRunning /\ RunDirectly(c, "error") /\ UNCHANGED target
    /\ UNCHANGED <<lease, daemonVars, requests, ackFiles, ran>>

\* Counting and writing happen under the queue lock.
QueueFullLate == Cardinality(requests) > maxPendingRequestFiles
QueueFull == Cardinality(requests) >= maxPendingRequestFiles

enqueueRequest(c) ==
    /\ cpc[c] = "enqueue"
    /\ \/ ~QueueFull /\ requests' = requests \cup {c} /\ At(c, "wait") /\ UNCHANGED answer
       \/ QueueFull /\ Told(c, "error") /\ UNCHANGED requests
    /\ UNCHANGED <<lease, daemonVars, ackFiles, target, ran>>

\* validateAckForRequest: "changed" comes from another instance, anything else
\* from the one the request names.
ValidAck(c) == (acks[c].verdict = "changed") # (acks[c].inst = target[c])

PollAck(c) ==
    /\ cpc[c] = "wait"
    /\ \/ ~Acked(c) /\ At(c, "absent") /\ UNCHANGED answer
       \/ Acked(c) /\ ValidAck(c) /\ At(c, "consume")
          /\ answer' = [answer EXCEPT ![c] = acks[c].verdict]
       \/ Acked(c) /\ ~ValidAck(c) /\ Told(c, "invalid")
    /\ UNCHANGED <<lease, daemonVars, requests, ackFiles, target, ran>>

\* consumeAckIfRequestRemoved, then the answer; a changed daemon sends the
\* command down the one-shot path.
Consume(c) ==
    /\ cpc[c] = "consume"
    /\ IF c \in requests THEN UNCHANGED ackFiles ELSE Discard({c})
    /\ IF answer[c] = "changed" THEN At(c, "direct") ELSE At(c, "done")
    /\ UNCHANGED <<lease, daemonVars, requests, target, answer, ran>>

\* daemonInstanceIsRunning
TargetAssumedGone(c) == FALSE
TargetAssumedThere(c) == TRUE
TargetRuns(c) == status = target[c] /\ IsRunning

CheckInstance(c) ==
    /\ cpc[c] = "absent"
    /\ IF TargetRuns(c) THEN At(c, "wait") ELSE At(c, "gone")
    /\ UNCHANGED <<lease, daemonVars, requests, ackFiles, target, answer, ran>>

\* The unlink decides: who removes the file owns the request.
Withdraw(c) ==
    /\ cpc[c] = "gone"
    /\ \/ c \in requests /\ requests' = requests \ {c} /\ RunDirectly(c, "withdrawn")
       \/ c \notin requests /\ At(c, "wait") /\ UNCHANGED <<requests, answer>>
    /\ UNCHANGED <<lease, daemonVars, ackFiles, target, ran>>

Timeout(c) ==
    /\ cpc[c] = "wait"
    /\ Told(c, "error")
    /\ UNCHANGED <<lease, daemonVars, requests, ackFiles, target, ran>>

\* reconcile.Reload or Stop of the command itself, under the same lease.
AcquireDirect(c) ==
    /\ cpc[c] = "direct"
    /\ \/ LeaseFree /\ lease' = lease \cup {OneShot(c)} /\ At(c, "mutate") /\ UNCHANGED answer
       \/ ~LeaseFree /\ Told(c, "error") /\ UNCHANGED lease
    /\ UNCHANGED <<daemonVars, requests, ackFiles, target, ran>>

DirectDone(c) ==
    /\ cpc[c] = "mutate"
    /\ lease' = lease \ {OneShot(c)}
    /\ At(c, "done")
    /\ UNCHANGED <<daemonVars, requests, ackFiles, target, answer, ran>>

-----------------------------------------------------------------------------
Daemon(i) ==
    \/ Start(i) \/ WriteStarting(i) \/ RunOnce(i) \/ PollTick(i) \/ Signal(i)
    \/ Enumerate(i) \/ ReadPending(i)
    \/ Refuse(i) \/ BeginStop(i) \/ BeginReload(i) \/ EndReload(i) \/ AckReload(i)
    \/ Unlink(i) \/ Prune(i)
    \/ SpawnWorker(i) \/ WorkerDone(i) \/ Shutdown(i) \/ Answer(i) \/ AnswerDone(i) \/ CloseLease(i)
    \/ Exit(i) \/ Kill(i)

Client(c) ==
    \/ ReadStatus(c) \/ enqueueRequest(c) \/ PollAck(c) \/ Consume(c)
    \/ CheckInstance(c) \/ Withdraw(c) \/ Timeout(c)
    \/ AcquireDirect(c) \/ DirectDone(c)

Next == (\E i \in Instances : Daemon(i)) \/ (\E c \in Clients : Client(c))

Spec == Init /\ [][Next]_vars

\* A daemon that runs keeps going: its calls return, and select does not
\* neglect the request ticker for ever.  The cleanup worker may hang; kills,
\* signals, polls and timeouts need not happen.
RunsOn(i) ==
    \/ WriteStarting(i) \/ RunOnce(i) \/ ReadPending(i) \/ Refuse(i)
    \/ BeginStop(i) \/ BeginReload(i) \/ EndReload(i) \/ AckReload(i) \/ Unlink(i)
    \/ Prune(i) \/ SpawnWorker(i) \/ Shutdown(i) \/ Answer(i)
    \/ AnswerDone(i) \/ CloseLease(i) \/ Exit(i)

\* A waiting client polls on a ticker of its own.
Waits(c) ==
    \/ ReadStatus(c) \/ enqueueRequest(c) \/ PollAck(c) \/ Consume(c)
    \/ CheckInstance(c) \/ Withdraw(c) \/ AcquireDirect(c) \/ DirectDone(c)

Fairness ==
    /\ \A i \in Instances : WF_vars(RunsOn(i)) /\ SF_vars(Enumerate(i))
    /\ \A c \in Clients : WF_vars(Waits(c))

FairSpec == Spec /\ Fairness

-----------------------------------------------------------------------------
(* Properties *)

Labels == {"off", "starting", "startup", "poll", "first", "select", "serve", "reload",
           "reloaded", "unlink", "retain", "cleanup", "answer", "close",
           "returned", "exited"}

\* Every variable has its type, and the age of an acknowledgement is compared with
\* those of existing files only: what request.go and daemon.go keep under the run
\* directory.
TypeOK ==
    /\ lease \subseteq {Main(i) : i \in Instances} \cup {Worker(i) : i \in Instances}
                       \cup {OneShot(c) : c \in Clients}
    /\ pc \in [Instances -> Labels]
    /\ work \in [Instances -> [names : SUBSET Clients, batch : SUBSET Clients,
                               cur : Clients \cup {"none"}, then : Labels \cup {"none"},
                               why : {"none", "stop", "signal", "status", "error", "reload"},
                               failed : BOOLEAN]]
    /\ worker \in [Instances -> {"none", "running", "ok", "failed"}]
    /\ status \in 0 .. MaxInstances
    /\ requests \subseteq Clients
    /\ acks \in [Clients -> Ack \cup {NoAck}]
    /\ older \in [Clients -> SUBSET Answers]
    /\ cpc \in [Clients -> {"start", "enqueue", "wait", "absent", "gone", "consume",
                            "direct", "mutate", "done"}]
    /\ target \in [Clients -> 0 .. MaxInstances]
    /\ answer \in [Clients -> {"none", "ok", "error", "changed", "withdrawn", "invalid"}]
    /\ ran \in [Clients -> Seq(Instances)]

Mutators ==
    {Main(i) : i \in {j \in Instances : pc[j] \in {"startup", "poll", "reload"}}}
    \cup {Worker(i) : i \in {j \in Instances : worker[j] = "running"}}
    \cup {OneShot(c) : c \in {d \in Clients : cpc[d] = "mutate"}}

\* At most one process changes the dataplane at a time: a daemon's reconcile,
\* a cleanup worker that outlives its daemon's main loop (runStopBounded), or a
\* one-shot command (withMutationOwnership).
OneMutator == Cardinality(Mutators) <= 1

\* A request is carried out at most once, and only by the instance its client
\* read from the status file, whatever is killed and restarted in between
\* (processRequests, readPendingRequest).
RunsOnceWhereSent == \A c \in Clients : ran[c] \in {<< >>, <<target[c]>>}

\* A client told "ok" had its request carried out by the daemon it asked; for a
\* stop that daemon has finished its cleanup and will change nothing any more
\* (RequestStop, shutdown).  One told that the daemon changed may run the
\* command itself, since nobody can run its request later, and what a client
\* reads always passes validateAckForRequest.
OkMeansDone ==
    \A c \in Clients :
        /\ answer[c] = "ok" =>
            /\ ran[c] = <<target[c]>>
            /\ Kind[c] = "stop" => /\ worker[target[c]] = "ok"
                                   /\ pc[target[c]] \in {"answer", "unlink", "close",
                                                         "returned", "exited"}
        /\ answer[c] = "changed" => ~Alive(target[c]) \/ pc[target[c]] = "returned"
        /\ answer[c] # "invalid"

\* What is decided about a request is final: nobody replaces the verdict of an
\* acknowledgement or removes it while its request is still in the queue, since
\* the next scan takes it for crash deduplication (readPendingRequest,
\* pruneAcknowledgements); and a request its client withdrew, to go on to the
\* one-shot path, is not carried out afterwards (writeRequestAndWait).
DecisionIsFinal ==
    [][\A c \in Clients :
        /\ Acked(c) => acks'[c] = acks[c] \/ (~Acked(c)' /\ c \notin requests)
        /\ answer[c] = "withdrawn" => ran'[c] = ran[c]]_vars

\* The queue never holds more files than its limit (enqueueRequest), and a
\* daemon that polls, having scanned the queue at least once, has cut the history
\* of its predecessors and its own to maxRetainedAckFiles (pruneAcknowledgements).
QueueBounded ==
    /\ Cardinality(requests) <= maxPendingRequestFiles
    /\ \A i \in Instances : pc[i] = "poll" => Cardinality(Answers) <= maxRetainedAckFiles

\* withMutationOwnership, enqueueRequest, pruneAcknowledgements: mutations happen
\* one at a time, and what piles up in between keeps to its limits.
Serialized == OneMutator /\ QueueBounded

\* writeRequestAndWait, processRequests: an answer is true of what was done, and
\* what was done was done once, by the daemon that was asked.
AnswersHold == RunsOnceWhereSent /\ OkMeansDone

\* A client that waits is answered even if it never times out: by the daemon,
\* by the next one, or by its own withdrawal (writeRequestAndWait).
WaitEnds == \A c \in Clients : cpc[c] = "wait" ~> cpc[c] = "done"
=============================================================================

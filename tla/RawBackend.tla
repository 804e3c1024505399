----------------------------- MODULE RawBackend -----------------------------
(***************************************************************************)
(* RawControllerBackend and its onceReinjector                             *)
(* (internal/faketcp/raw_backend.go) under concurrent callers: SendControl *)
(* and Reinject, which may be called again with the same capture, and      *)
(* Close.  A capture is one number of the sequence of its CPU.  The        *)
(* ledger keeps the newest attempt of every CPU; a claim is put there      *)
(* before the write and its result is filled in after it, so that          *)
(* duplicates wait for that result and newer captures for their turn.      *)
(***************************************************************************)
EXTENDS Integers, FiniteSets

CONSTANTS
    Callers,     \* goroutines that call SendControl and Reinject
    Closers,     \* goroutines that call Close
    Cpus,        \* the capture CPUs
    MaxSeq,      \* bound: captures on one CPU
    MaxStreams,  \* MaxReinjectStreams
    MaxFaults    \* bound: failed writes, cancelled waits, failed closes

VARIABLES
    caller,      \* what each caller is doing with which capture
    ledger,      \* lastByCPU: the sequence of the newest claim, or 0
    result,      \* history: the result of every claimed capture
    inflight,    \* admitted calls
    life,        \* shutdown, closing and closed of the backend
    refusing,    \* onceReinjector.closed
    owned,       \* which of reinjector and writer is not closed yet
    closer,      \* what each caller of Close is doing
    written,     \* history: how often each capture was given to WriteIPv4
    faults       \* faults so far

closeVars == <<life, refusing, owned, closer>>
vars == <<caller, ledger, result, inflight, closeVars, written, faults>>

Captures == Cpus \X (1 .. MaxSeq)
Cpu(p) == p[1]
Sequence(p) == p[2]
Nothing == <<>>
Idle == [pc |-> "idle", packet |-> Nothing]

Init ==
    /\ caller = [c \in Callers |-> Idle]
    /\ ledger = [u \in Cpus |-> 0]
    /\ result = [p \in Captures |-> "none"]
    /\ inflight = 0
    /\ life = [shutdown |-> FALSE, closing |-> FALSE, closed |-> FALSE]
    /\ refusing = FALSE
    /\ owned = {"reinjector", "writer"}
    /\ closer = [k \in Closers |-> "idle"]
    /\ written = [p \in Captures |-> 0]
    /\ faults = 0

MayFail == faults < MaxFaults
Fault == MayFail /\ faults' = faults + 1

(***************************************************************************)
(* beginOperation and endOperation.                                        *)
(***************************************************************************)
Admits ==
    /\ owned = {"reinjector", "writer"}
    /\ ~life.shutdown /\ ~life.closing /\ ~life.closed

Begin(c, pc, packet) ==
    /\ caller[c].pc = "idle" /\ Admits
    /\ inflight' = inflight + 1
    /\ caller' = [caller EXCEPT ![c] = [pc |-> pc, packet |-> packet]]
    /\ UNCHANGED <<ledger, result, closeVars, written, faults>>

ForgetsToEnd == inflight

endOperation == inflight - 1

Return(c) ==
    /\ inflight' = endOperation
    /\ caller' = [caller EXCEPT ![c] = Idle]

BeginControl(c) == Begin(c, "control", Nothing)

\* The control mark is resolved and the packet marshalled and written.
SendControl(c) ==
    /\ caller[c].pc = "control"
    /\ Return(c)
    /\ UNCHANGED <<ledger, result, closeVars, written, faults>>

BeginReinject(c, p) == Begin(c, "claim", p)

(***************************************************************************)
(* The ledger, under its mutex.                                            *)
(***************************************************************************)
Previous(c) == <<Cpu(caller[c].packet), ledger[Cpu(caller[c].packet)]>>

HasPrevious(c) == Sequence(Previous(c)) > 0

PreviousIgnored(c) == TRUE

PreviousDone(c) == result[Previous(c)] # "none"

Streams == {u \in Cpus : ledger[u] > 0}

IsLowerNever(c) == FALSE

IsLower(c) == Sequence(caller[c].packet) < Sequence(Previous(c))

\* A closed reinjector, a full ledger and a lower sequence refuse the
\* packet without a write.
RefuseReinject(c) ==
    /\ caller[c].pc = "claim"
    /\ \/ refusing
       \/ ~HasPrevious(c) /\ Cardinality(Streams) >= MaxStreams
       \/ HasPrevious(c) /\ IsLower(c)
    /\ Return(c)
    /\ UNCHANGED <<ledger, result, closeVars, written, faults>>

IsEqual(c) == HasPrevious(c) /\ caller[c].packet = Previous(c)

FollowDuplicate(c) ==
    /\ caller[c].pc = "claim" /\ ~refusing /\ IsEqual(c)
    /\ caller' = [caller EXCEPT ![c].pc = "follow"]
    /\ UNCHANGED <<ledger, result, inflight, closeVars, written, faults>>

\* A newer capture waits for the attempt that is in flight.
Queue(c) ==
    /\ caller[c].pc = "claim" /\ ~refusing /\ HasPrevious(c)
    /\ ~IsLower(c) /\ ~IsEqual(c) /\ ~PreviousDone(c)
    /\ caller' = [caller EXCEPT ![c] =
                    [pc |-> "queue", packet |-> @.packet, behind |-> Previous(c)]]
    /\ UNCHANGED <<ledger, result, inflight, closeVars, written, faults>>

Claim(c) ==
    /\ caller[c].pc = "claim" /\ ~refusing
    /\ \/ ~HasPrevious(c) /\ Cardinality(Streams) < MaxStreams
       \/ HasPrevious(c) /\ ~IsLower(c) /\ ~IsEqual(c) /\ PreviousDone(c)
    /\ ledger' = [ledger EXCEPT ![Cpu(caller[c].packet)] =
                     Sequence(caller[c].packet)]
    /\ caller' = [caller EXCEPT ![c].pc = "write"]
    /\ UNCHANGED <<result, inflight, closeVars, written, faults>>

\* The select on done and ctx.Done of a duplicate ...
EndFollow(c) ==
    /\ caller[c].pc = "follow"
    /\ \/ result[caller[c].packet] # "none" /\ UNCHANGED faults
       \/ Fault
    /\ Return(c)
    /\ UNCHANGED <<ledger, result, closeVars, written>>

\* ... and of a capture that waits for its turn, which looks again.
EndQueue(c) ==
    /\ caller[c].pc = "queue"
    /\ result[caller[c].behind] # "none"
    /\ caller' = [caller EXCEPT ![c] =
                    [pc |-> "claim", packet |-> @.packet]]
    /\ UNCHANGED <<ledger, result, inflight, closeVars, written, faults>>

CancelQueue(c) ==
    /\ caller[c].pc = "queue"
    /\ Fault
    /\ Return(c)
    /\ UNCHANGED <<ledger, result, closeVars, written>>

\* writer.WriteIPv4 is called, and later returns.
StartWrite(c) ==
    /\ caller[c].pc = "write"
    /\ written' = [written EXCEPT ![caller[c].packet] = @ + 1]
    /\ caller' = [caller EXCEPT ![c].pc = "writing"]
    /\ UNCHANGED <<ledger, result, inflight, closeVars, faults>>

PublishesSuccess(p, outcome) ==
    IF outcome = "ok" THEN [result EXCEPT ![p] = outcome] ELSE result

Publishes(p, outcome) == [result EXCEPT ![p] = outcome]

FinishWrite(c) ==
    /\ caller[c].pc = "writing"
    /\ \/ /\ result' = Publishes(caller[c].packet, "ok")
          /\ UNCHANGED faults
       \/ /\ Fault
          /\ result' = Publishes(caller[c].packet, "failed")
    /\ Return(c)
    /\ UNCHANGED <<ledger, closeVars, written>>

(***************************************************************************)
(* Close: drain, close the reinjector and then the writer, and keep what   *)
(* could not be closed for a later call.                                   *)
(***************************************************************************)
Close(k) ==
    /\ closer[k] = "idle" /\ ~life.closed
    /\ IF life.closing
       THEN /\ closer' = [closer EXCEPT ![k] = "join"]
            /\ UNCHANGED life
       ELSE /\ closer' = [closer EXCEPT ![k] = "drain"]
            /\ life' = [life EXCEPT !.shutdown = TRUE, !.closing = TRUE]
    /\ UNCHANGED <<caller, ledger, result, inflight, refusing, owned, written,
                   faults>>

DrainedOfWrites == \A c \in Callers : caller[c].pc # "writing"

Drained == inflight = 0

CloseReinjector(k) ==
    /\ closer[k] = "drain" /\ Drained
    /\ refusing' = TRUE
    /\ closer' = [closer EXCEPT ![k] = "writer"]
    /\ UNCHANGED <<caller, ledger, result, inflight, life, owned, written,
                   faults>>

Returned(k) ==
    [x \in Closers |-> IF x = k \/ closer[x] = "join" THEN "idle"
                       ELSE closer[x]]

FinishClose(k) ==
    /\ closer[k] = "writer"
    /\ \/ /\ owned' = {}
          /\ life' = [life EXCEPT !.closing = FALSE, !.closed = TRUE]
          /\ UNCHANGED faults
       \/ /\ Fault
          /\ owned' = owned \ {"reinjector"}
          /\ life' = [life EXCEPT !.closing = FALSE]
    /\ closer' = Returned(k)
    /\ UNCHANGED <<caller, ledger, result, inflight, refusing, written>>

Next ==
    \/ \E c \in Callers :
          \/ BeginControl(c) \/ SendControl(c)
          \/ \E p \in Captures : BeginReinject(c, p)
          \/ RefuseReinject(c) \/ FollowDuplicate(c) \/ Queue(c) \/ Claim(c)
          \/ EndFollow(c) \/ EndQueue(c) \/ CancelQueue(c)
          \/ StartWrite(c) \/ FinishWrite(c)
    \/ \E k \in Closers : Close(k) \/ CloseReinjector(k) \/ FinishClose(k)

Spec == Init /\ [][Next]_vars

(***************************************************************************)
(* Every goroutine that can take its next step takes it: WriteIPv4 and     *)
(* Close of the writer return.                                             *)
(***************************************************************************)
Fairness ==
    /\ \A c \in Callers :
          /\ WF_vars(SendControl(c)) /\ WF_vars(RefuseReinject(c))
          /\ WF_vars(FollowDuplicate(c) \/ Queue(c) \/ Claim(c))
          /\ WF_vars(EndFollow(c)) /\ WF_vars(EndQueue(c))
          /\ WF_vars(StartWrite(c)) /\ WF_vars(FinishWrite(c))
    /\ \A k \in Closers : WF_vars(CloseReinjector(k) \/ FinishClose(k))

FairSpec == Spec /\ Fairness

-----------------------------------------------------------------------------
\* Every variable has its type; a claim is in the ledger of its CPU.
TypeOK ==
    /\ ledger \in [Cpus -> 0 .. MaxSeq]
    /\ result \in [Captures -> {"none", "ok", "failed"}]
    /\ inflight = Cardinality({c \in Callers : caller[c].pc # "idle"})
    /\ life \in [shutdown : BOOLEAN, closing : BOOLEAN, closed : BOOLEAN]
    /\ refusing \in BOOLEAN
    /\ owned \in {{}, {"writer"}, {"reinjector", "writer"}}
    /\ closer \in [Closers -> {"idle", "join", "drain", "writer"}]
    /\ Cardinality(Streams) <= MaxStreams
    /\ \A c \in Callers :
          /\ caller[c].pc \in {"idle", "control", "claim", "follow", "queue",
                               "write", "writing"}
          /\ caller[c].packet \in Captures \cup {Nothing}

(***************************************************************************)
(* A capture is given to WriteIPv4 at most once, however many callers      *)
(* bring it and whether or not the write succeeds: "an ambiguous write     *)
(* result is never retried" (raw_backend.go:344).                          *)
(***************************************************************************)
WrittenOnce == \A p \in Captures : written[p] <= 1

(***************************************************************************)
(* Of every step: on one CPU, captures are written in the order of their   *)
(* sequence, and never two at a time: "Preserve per-CPU write order"       *)
(* (raw_backend.go:468).                                                   *)
(***************************************************************************)
WritesInOrder ==
    \A p \in Captures : written'[p] > written[p] =>
        /\ \A s \in Sequence(p) + 1 .. MaxSeq : written[<<Cpu(p), s>>] = 0
        /\ \A c \in Callers : ~(caller[c].pc = "writing" /\ Cpu(caller[c].packet) = Cpu(p))

(***************************************************************************)
(* The writer is closed when no admitted call is left, and a closed        *)
(* backend admits none.                                                    *)
(***************************************************************************)
WriterUnused ==
    (\/ "writer" \notin owned
     \/ \E k \in Closers : closer[k] = "writer")
       => \A c \in Callers : caller[c].pc = "idle"

(***************************************************************************)
(* Every call ends: no wait for another attempt, or of Close for the       *)
(* admitted calls, lasts for ever.                                         *)
(***************************************************************************)
CallsEnd ==
    /\ \A c \in Callers : caller[c].pc # "idle" ~> caller[c].pc = "idle"
    /\ \A k \in Closers : closer[k] # "idle" ~> closer[k] = "idle"
=============================================================================

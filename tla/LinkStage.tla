----------------------------- MODULE LinkStage ------------------------------
(***************************************************************************)
(* The links of a FakeTCP runtime, which live as long as its process holds *)
(* their file descriptors: fakeTCPXDPStage (one XDP link per interface)    *)
(* and productionFakeTCPTCXStage (one TCX link per interface and           *)
(* direction).  Both probe every hook before the first change, attach one  *)
(* hook after the other, prove the whole set again before the commit and   *)
(* release in reverse order, keeping what they could not release.          *)
(*                                                                         *)
(* Somebody else may attach to a hook, leave it, or give one of our links  *)
(* another program, and a device may disappear, between any two steps.     *)
(***************************************************************************)
EXTENDS Naturals, Sequences, SequencesExt

CONSTANTS
    NHooks,
    MaxActs,    \* how often somebody else acts
    MaxFaults   \* how many operations fail

LinkAssumption == NHooks \in Nat \ {0} /\ {MaxActs, MaxFaults} \subseteq Nat

Hooks == 1..NHooks

VARIABLES
    kind,       \* the stage: "xdp" or "tcx"
    hook,       \* each hook: other programs, revision, whether its device is gone
    fd,         \* the hooks our open links are for
    changed,    \* the hooks whose link somebody gave another program
    held,       \* stage.attachments
    planned,    \* the revisions the probes saw
    at,         \* where the stage is
    k,          \* the hook or the attachment it is at
    keep,       \* the attachments a Close could not release
    disturbed,  \* somebody acted since the last attach
    acts, faults

vars == <<kind, hook, fd, changed, held, planned, at, k, keep, disturbed, acts, faults>>

Init ==
    /\ kind \in {"xdp", "tcx"}
    /\ hook = [h \in Hooks |-> [others |-> {}, rev |-> 0, gone |-> FALSE]]
    /\ fd = {} /\ changed = {} /\ held = <<>> /\ planned = [h \in Hooks |-> 0]
    /\ at = "idle" /\ k = 1 /\ keep = <<>> /\ disturbed = FALSE
    /\ acts = 0 /\ faults = 0

Fault == faults < MaxFaults /\ faults' = faults + 1
Outside == <<kind, hook, changed, disturbed, acts>>

\* On to the next hook, or from the last one to another place
Onward(place) == IF k < NHooks THEN k' = k + 1 /\ at' = at ELSE k' = 1 /\ at' = place

\* Faulty variant: a failed build returns no stage.
GiveUpEmpty == at' = "over" /\ k' = 1

\* An error: without attachments there is no stage to close.
GiveUp == at' = (IF held = <<>> THEN "over" ELSE "failed") /\ k' = 1

-----------------------------------------------------------------------------
(* Staging *)

\* Every hook must be empty: what is there is not ours to replace or chain.
Probe ==
    /\ at \in {"idle", "probe"}
    /\ IF hook[k].gone \/ hook[k].others # {}
       THEN GiveUp /\ UNCHANGED planned
       ELSE /\ planned' = [planned EXCEPT ![k] = hook[k].rev]
            /\ IF k < NHooks THEN k' = k + 1 /\ at' = "probe" ELSE k' = 1 /\ at' = "attach"
    /\ UNCHANGED <<fd, held, keep, Outside, faults>>

\* The kernel refuses a second program in the mode of the link; a TCX attach is
\* fenced by the revision.
Accepts(h) ==
    /\ ~hook[h].gone
    /\ IF kind = "xdp" THEN "same" \notin hook[h].others ELSE hook[h].rev = planned[h]

Attach ==
    /\ at = "attach"
    /\ IF Accepts(k)
       THEN /\ fd' = fd \union {k}
            /\ hook' = [hook EXCEPT ![k].rev = @ + 1]
            /\ held' = Append(held, [hook |-> k, state |-> "unverified"])
            /\ at' = "adopt" /\ disturbed' = FALSE /\ UNCHANGED k
       ELSE GiveUp /\ UNCHANGED <<fd, hook, held, disturbed>>
    /\ UNCHANGED <<kind, changed, planned, keep, acts, faults>>

AttachFails ==
    /\ at = "attach" /\ Fault
    /\ GiveUp
    /\ UNCHANGED <<fd, held, planned, keep, Outside>>

\* The descriptor says what it says.
Identified(h) == ~hook[h].gone /\ h \notin changed

\* Nothing but our link is on the hook.
Exact(h) == Identified(h) /\ hook[h].others = {}

\* The identity of the new link, and what the interface as a whole reports
Adopt ==
    /\ at = "adopt"
    /\ held' = IF Identified(k) THEN [held EXCEPT ![Len(held)].state = "adopted"] ELSE held
    /\ IF ~Exact(k) THEN GiveUp
       ELSE IF k < NHooks THEN k' = k + 1 /\ at' = "attach"
       ELSE k' = 1 /\ at' = "recheck"
    /\ UNCHANGED <<fd, planned, keep, Outside, faults>>

AdoptFails ==
    /\ at = "adopt" /\ Fault
    /\ held' \in {held, [held EXCEPT ![Len(held)].state = "adopted"]}
    /\ GiveUp
    /\ UNCHANGED <<fd, planned, keep, Outside>>

\* Faulty variant: the owner set is not proven again after the last attach.
RecheckNothing ==
    /\ at = "recheck"
    /\ Onward("commit")
    /\ UNCHANGED <<fd, held, planned, keep, Outside, faults>>

\* Every attachment is proven again after the last attach.
Recheck ==
    /\ at = "recheck"
    /\ IF Exact(k) THEN Onward("commit") ELSE GiveUp
    /\ UNCHANGED <<fd, held, planned, keep, Outside, faults>>

Commit ==
    /\ at = "commit"
    /\ at' = "running"
    /\ UNCHANGED <<fd, held, planned, k, keep, Outside, faults>>

CommitFails ==
    /\ at \in {"recheck", "commit"} /\ Fault
    /\ GiveUp
    /\ UNCHANGED <<fd, held, planned, keep, Outside>>

-----------------------------------------------------------------------------
(* Close *)

Close ==
    /\ at \in {"running", "failed"}
    /\ at' = "closing" /\ k' = Len(held) /\ keep' = <<>>
    /\ UNCHANGED <<fd, held, planned, Outside, faults>>

Att == held[k]
Released == fd' = fd \ {Att.hook} /\ UNCHANGED keep
Kept(state) == keep' = <<[Att EXCEPT !.state = state]>> \o keep /\ UNCHANGED fd

\* Faulty variant: whatever the descriptor has become is released.
ReleaseAny ==
    /\ at = "closing" /\ k > 0
    /\ Released
    /\ k' = k - 1
    /\ UNCHANGED <<held, planned, at, Outside, faults>>

\* Faulty variant: an identity that could not be read is never read again.
ReleaseVerified ==
    /\ at = "closing" /\ k > 0
    /\ IF kind = "tcx" \/ (Att.state = "adopted" /\ Att.hook \notin changed)
       THEN Released ELSE Kept(Att.state)
    /\ k' = k - 1
    /\ UNCHANGED <<held, planned, at, Outside, faults>>

\* fakeTCPXDPAttachment.release: an identity that was never read is read now;
\* another program on the link is never released; a link whose device is gone
\* has detached itself and is.
Release ==
    /\ at = "closing" /\ k > 0
    /\ CASE kind = "tcx" -> Released
         [] kind = "xdp" /\ Att.state = "stale" -> Kept("stale")
         [] kind = "xdp" /\ Att.state = "unverified" ->
              IF Identified(Att.hook) THEN Released ELSE Kept("unverified")
         [] kind = "xdp" /\ Att.state = "adopted" ->
              IF Att.hook \in changed THEN Kept("stale") ELSE Released
    /\ k' = k - 1
    /\ UNCHANGED <<held, planned, at, Outside, faults>>

\* A failed inspection gives no identity, which is taken for another one: an
\* adopted XDP link becomes stale.  A failed close has consumed the descriptor,
\* which only the TCX stage has to find out by another Close.
ReleaseFails ==
    /\ at = "closing" /\ k > 0 /\ Att.state # "stale" /\ Fault
    /\ CASE kind = "tcx" ->
              keep' = <<Att>> \o keep /\ fd' = fd \ {Att.hook}
         [] kind = "xdp" /\ Att.state = "unverified" -> Kept("unverified") \/ Kept("stale")
         [] kind = "xdp" /\ Att.state = "adopted" -> Kept("stale")
    /\ k' = k - 1
    /\ UNCHANGED <<held, planned, at, Outside>>

\* What was not released remains for a retry.
Closed ==
    /\ at = "closing" /\ k = 0
    /\ held' = keep /\ keep' = <<>>
    /\ at' = (IF keep = <<>> THEN "over" ELSE "failed") /\ k' = 1
    /\ UNCHANGED <<fd, planned, Outside, faults>>

-----------------------------------------------------------------------------
(* The environment *)

\* Programs of others: an XDP program in the mode of our link excludes it, one
\* in another mode does not; TCX programs form a chain.
Modes == IF kind = "xdp" THEN {"same", "other"} ELSE {"other"}

Act(h, new) ==
    /\ acts < MaxActs /\ acts' = acts + 1
    /\ ~hook[h].gone /\ hook' = [hook EXCEPT ![h] = new]
    /\ disturbed' = TRUE
    /\ UNCHANGED <<kind, fd, held, planned, at, k, keep, faults>>

ForeignAttach(h, mode) ==
    /\ hook[h].others = {} /\ (mode = "same" => h \notin fd)
    /\ Act(h, [hook[h] EXCEPT !.others = {mode}, !.rev = @ + 1])
    /\ UNCHANGED changed

ForeignDetach(h) ==
    /\ hook[h].others # {}
    /\ Act(h, [hook[h] EXCEPT !.others = {}, !.rev = @ + 1])
    /\ UNCHANGED changed

ForeignUpdate(h) ==
    /\ h \in fd
    /\ Act(h, [hook[h] EXCEPT !.rev = @ + 1])
    /\ changed' = changed \union {h}

Lose(h) ==
    /\ Act(h, [others |-> {}, rev |-> 0, gone |-> TRUE])
    /\ UNCHANGED changed

Work == Probe \/ Attach \/ Adopt \/ Recheck \/ Commit \/ Release \/ Closed

Next ==
    \/ Work \/ Close
    \/ AttachFails \/ AdoptFails \/ CommitFails \/ ReleaseFails
    \/ \E h \in Hooks :
          \/ \E mode \in Modes : ForeignAttach(h, mode)
          \/ ForeignDetach(h) \/ ForeignUpdate(h) \/ Lose(h)

\* A call that began goes on; a stage that failed is closed again and again.
Fairness == WF_vars(Work) /\ WF_vars(at = "failed" /\ Close)

Spec == Init /\ [][Next]_vars
LiveSpec == Spec /\ Fairness

-----------------------------------------------------------------------------
(* Properties *)

TypeOK ==
    /\ kind \in {"xdp", "tcx"}
    /\ fd \subseteq Hooks /\ changed \subseteq Hooks
    /\ \A i \in 1..Len(held) : held[i].hook \in Hooks /\ held[i].state \in {"unverified", "adopted", "stale"}
    /\ at \in {"idle", "probe", "attach", "adopt", "recheck", "commit", "running", "failed",
               "closing", "over"}
    /\ k \in 0..NHooks

\* No link is forgotten: whatever failed, every link that is open is one the
\* stage can still close, and a stage that reported success has none left.
NoLinkLost ==
    /\ \A h \in fd : \E i \in 1..Len(held) : held[i].hook = h
    /\ at = "over" => fd = {}

\* A generation is committed only if every hook carried nothing but our link
\* at some moment after the last of them was attached: with nobody acting since
\* then, all of them still do.
CommitProvenStep ==
    at = "commit" /\ at' = "running" /\ ~disturbed => \A h \in Hooks : h \in fd /\ Exact(h)
CommitProven == [][CommitProvenStep]_vars

\* "Unverified or stale identities are quarantined and never passed to a
\* destructive backend call": an XDP link that runs somebody else's program is
\* never released.
QuarantineStep == kind = "xdp" => \A h \in fd \ fd' : h \notin changed
Quarantine == [][QuarantineStep]_vars

\* A failed stage gets closed, unless an identity is no longer what it was, or
\* could not be read when it mattered.
Quarantined == kind = "xdp" /\ \E i \in 1..Len(held) :
    \/ held[i].state = "stale" \/ held[i].hook \in changed
    \/ held[i].state = "unverified" /\ hook[held[i].hook].gone
FailedCloses == (at = "failed") ~> (at = "over" \/ Quarantined)
=============================================================================

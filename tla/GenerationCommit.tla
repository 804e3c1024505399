-------------------------- MODULE GenerationCommit --------------------------
(***************************************************************************)
(* What an owner transaction promises: generations are published one at a  *)
(* time and whole.  One that is being undone is never published, one that  *)
(* is published is never undone, and only a detach takes the published     *)
(* generation away.                                                        *)
(***************************************************************************)
EXTENDS Naturals

CONSTANT MayKeep    \* may a detach be called off

VARIABLES
    published,  \* the generation packets are served under, 0 for none
    next,       \* the generation a transaction works on, 0 for none
    stage       \* "idle", "pending", "published", "undoing" or "removing"

vars == <<published, next, stage>>

Init == published = 0 /\ next = 0 /\ stage = "idle"

Begin ==
    /\ stage = "idle"
    /\ next' = published + 1 /\ stage' = "pending"
    /\ UNCHANGED published

Publish ==
    /\ stage = "pending"
    /\ published' = next /\ stage' = "published"
    /\ UNCHANGED next

Finish ==
    /\ stage = "published"
    /\ next' = 0 /\ stage' = "idle"
    /\ UNCHANGED published

Undo ==
    /\ stage = "pending"
    /\ stage' = "undoing"
    /\ UNCHANGED <<published, next>>

\* The old generation goes on; a transaction without one is removed.
Undone ==
    /\ stage \in {"pending", "undoing"}
    /\ next' = 0 /\ stage' = IF published = 0 THEN "removing" ELSE "idle"
    /\ UNCHANGED published

Remove ==
    /\ stage = "idle"
    /\ stage' = "removing"
    /\ UNCHANGED <<published, next>>

Removed ==
    /\ stage = "removing"
    /\ published' = 0 /\ stage' = "idle"
    /\ UNCHANGED next

\* A detach is called off with everything it had taken away put back.
Keep ==
    /\ MayKeep /\ stage = "removing" /\ published # 0
    /\ stage' = "idle"
    /\ UNCHANGED <<published, next>>

Next == Begin \/ Publish \/ Finish \/ Undo \/ Undone \/ Remove \/ Removed \/ Keep

Spec == Init /\ [][Next]_vars
=============================================================================

--------------------------- MODULE GenerationGate ---------------------------
(***************************************************************************)
(* The FakeTCP generation gate: one 64-bit word in the BPF map             *)
(* faketcp_gen_gt that packet programs enter and leave with atomic         *)
(* instructions, and that userspace opens once and closes before it takes  *)
(* the generation's policy away (bpf/wg_mix_faketcp.h,                     *)
(* faketcp_generation_*; internal/dataplane/                               *)
(* faketcp_generation_barrier_linux.go).                                   *)
(*                                                                         *)
(* A packet enters through the XDP program and, while it is inside, may    *)
(* enter a second time when it admits a control event; the TC egress       *)
(* program admits an event without the outer entry.  Each packet therefore *)
(* has two contexts, "xdp" and "event".  Loads, compare-and-swaps and      *)
(* fetch-and-subs of the word are separate steps, as on the CPU.           *)
(***************************************************************************)
EXTENDS Integers, FiniteSets

CONSTANTS Packets,       \* packets in flight on different CPUs
          MaxInflight,   \* FAKETCP_GENERATION_INFLIGHT_MASK (2^60 - 1)
          CasAttempts,   \* FAKETCP_GENERATION_CAS_ATTEMPTS
          RingCapacity   \* wake records the 4096-byte ring holds

Contexts == Packets \X {"xdp", "event"}

\* The in-flight field is far wider than the number of programs that can run
\* at the same time.
ASSUME GateAssumption ==
    /\ IsFiniteSet(Packets)
    /\ MaxInflight \in Nat
    /\ Cardinality(Contexts) < MaxInflight
    /\ CasAttempts \in Nat \ {0}
    /\ RingCapacity \in Nat

VARIABLES
    active,    \* control_map publishes this generation to packet programs
    bound,     \* gate->generation is this generation (FALSE: still zero)
    word,      \* gate->state: flag set and in-flight count
    ring,      \* wake records not yet read from faketcp_gen_wk
    pc,        \* where each packet context stands
    old,       \* the value a context loaded for its compare-and-swap (Zero: none)
    tries,     \* failed compare-and-swaps of a context
    owner,     \* stage of the userspace generation owner
    ctl,       \* step of the control program or of the barrier call
    ctlOld,    \* the value the control program loaded
    ctlTries,  \* its failed compare-and-swaps
    policy     \* the generation's policy entries are in the maps

packetVars == <<pc, old, tries>>
ctlVars == <<ctl, ctlOld, ctlTries>>
vars == <<active, bound, word, ring, packetVars, owner, ctlVars, policy>>

Flags == {"OPEN", "SEALED", "POISON", "WAKE_ARMED"}
Word == [flags : SUBSET Flags, count : 0 .. MaxInflight]
Zero == [flags |-> {}, count |-> 0]
Opened(n) == [flags |-> {"OPEN"}, count |-> n]
Sealed == [flags |-> {"SEALED"}, count |-> 0]
Armed(n) == [flags |-> {"SEALED", "WAKE_ARMED"}, count |-> n]

PacketPcs == {"outside", "generation", "mismatch", "poison", "load", "cas",
              "inside", "admitted", "wake", "disarm"}
OwnerStages == {"fresh", "staged", "opening", "opened", "running", "closing",
                "quiescing", "confirming", "quiesced", "retired"}
CtlPcs == {"idle", "bind", "load", "cas", "wait", "verify"}

Init ==
    /\ active = FALSE
    /\ bound = FALSE
    /\ word = Zero
    /\ ring = 0
    /\ pc = [c \in Contexts |-> "outside"]
    /\ old = [c \in Contexts |-> Zero]
    /\ tries = [c \in Contexts |-> 0]
    /\ owner = "fresh"
    /\ ctl = "idle"
    /\ ctlOld = Zero
    /\ ctlTries = 0
    /\ policy = FALSE

-----------------------------------------------------------------------------
(* Packet programs *)

\* faketcp_generation_poison
Poisoned(w) == [w EXCEPT !.flags = @ \cup {"POISON"}]

\* Contexts that have entered and not yet left: the ones that may use policy.
\* "admitted" is an outer entry whose packet has had its one control event.
Inside == {c \in Contexts : pc[c] \in {"inside", "admitted"}}

Outer(c) == <<c[1], "xdp">>
Nested(c) == <<c[1], "event">>

\* active_generation() found the generation: a packet starts in the XDP
\* program, or on TC egress with the admission of an event.
Arrive(c) ==
    /\ active
    /\ pc[Outer(c)] = "outside"
    /\ pc[Nested(c)] = "outside"
    /\ pc' = [pc EXCEPT ![c] = "generation"]
    /\ UNCHANGED <<active, bound, word, ring, old, tries, owner, ctlVars, policy>>

\* The XDP program admits the packet's control event under the generation it
\* entered with.
AdmitNested(c) ==
    /\ c = Outer(c)
    /\ pc[c] = "inside"
    /\ pc' = [pc EXCEPT ![c] = "admitted", ![Nested(c)] = "generation"]
    /\ UNCHANGED <<active, bound, word, ring, old, tries, owner, ctlVars, policy>>

\* First read of gate->generation, then "gate->generation != 0 || gate->state
\* != 0" on the mismatch path.  The compiler may reuse the first read of the
\* generation or repeat it.
CheckGeneration(c) ==
    /\ pc[c] \in {"generation", "mismatch"}
    /\ \E reread \in {FALSE, bound} :
         pc' = [pc EXCEPT ![c] =
                   IF @ = "generation" THEN (IF bound THEN "load" ELSE "mismatch")
                   ELSE IF reread \/ word # Zero THEN "poison" ELSE "outside"]
    /\ UNCHANGED <<active, bound, word, ring, old, tries, owner, ctlVars, policy>>

\* What faketcp_generation_enter decides from the word it loaded.
EnterVerdict(w) ==
    IF \/ "POISON" \in w.flags
       \/ w \in {Zero, Sealed}
       \/ w.flags = {"SEALED", "WAKE_ARMED"}
    THEN "outside"
    ELSE IF w.flags # {"OPEN"} \/ w.count = MaxInflight THEN "poison" ELSE "cas"

LoadWord(c) ==
    /\ pc[c] = "load"
    /\ pc' = [pc EXCEPT ![c] = EnterVerdict(word)]
    /\ old' = [old EXCEPT ![c] = IF EnterVerdict(word) = "cas" THEN word ELSE Zero]
    /\ tries' = [tries EXCEPT ![c] = IF EnterVerdict(word) = "cas" THEN @ ELSE 0]
    /\ UNCHANGED <<active, bound, word, ring, owner, ctlVars, policy>>

EnterSwap(c) ==
    /\ pc[c] = "cas"
    /\ word = old[c]
    /\ word' = [word EXCEPT !.count = @ + 1]
    /\ pc' = [pc EXCEPT ![c] = "inside"]
    /\ old' = [old EXCEPT ![c] = Zero]
    /\ tries' = [tries EXCEPT ![c] = 0]
    /\ UNCHANGED <<active, bound, ring, owner, ctlVars, policy>>

\* Faulty variant: the retry loop forgets its bound.
EnterSwapRetriesForever(c) ==
    /\ pc[c] = "cas"
    /\ word # old[c]
    /\ tries' = [tries EXCEPT ![c] = @ + 1]
    /\ pc' = [pc EXCEPT ![c] = "load"]
    /\ old' = [old EXCEPT ![c] = Zero]
    /\ UNCHANGED <<active, bound, word, ring, owner, ctlVars, policy>>

EnterSwapLost(c) ==
    /\ pc[c] = "cas"
    /\ word # old[c]
    /\ LET again == tries[c] + 1 < CasAttempts
       IN /\ tries' = [tries EXCEPT ![c] = IF again THEN @ + 1 ELSE 0]
          /\ pc' = [pc EXCEPT ![c] = IF again THEN "load" ELSE "outside"]
    /\ old' = [old EXCEPT ![c] = Zero]
    /\ UNCHANGED <<active, bound, word, ring, owner, ctlVars, policy>>

\* 64-bit subtraction of one: with a zero count the borrow runs into the flags.
Borrow(flags) ==
    IF "WAKE_ARMED" \in flags THEN flags \ {"WAKE_ARMED"}
    ELSE IF "POISON" \in flags THEN (flags \ {"POISON"}) \cup {"WAKE_ARMED"}
    ELSE IF "SEALED" \in flags THEN (flags \ {"SEALED"}) \cup {"POISON", "WAKE_ARMED"}
    ELSE (Flags \ {"OPEN"}) \cup ({"OPEN"} \ flags)

FetchSub(w) ==
    IF w.count > 0 THEN [w EXCEPT !.count = @ - 1]
    ELSE [flags |-> Borrow(w.flags), count |-> MaxInflight]

\* What faketcp_generation_exit does with the word it subtracted from.
ExitVerdict(w) ==
    IF w.count = 0 \/ ~bound THEN "poison"
    ELSE IF "POISON" \in w.flags THEN "outside"
    ELSE IF w.flags \notin {{"OPEN"}, {"SEALED", "WAKE_ARMED"}} THEN "poison"
    ELSE IF w = Armed(1) THEN "wake" ELSE "outside"

\* The outer entry leaves after the nested one has returned.
Exit(c) ==
    /\ c \in Inside
    /\ c = Outer(c) => pc[Nested(c)] = "outside"
    /\ word' = FetchSub(word)
    /\ pc' = [pc EXCEPT ![c] = ExitVerdict(word)]
    /\ UNCHANGED <<active, bound, ring, old, tries, owner, ctlVars, policy>>

\* bpf_ringbuf_output of the wake record; it fails when the ring is full or
\* its lock is not available.
EmitWake(c) ==
    /\ pc[c] = "wake"
    /\ \/ /\ ring < RingCapacity
          /\ ring' = ring + 1
          /\ pc' = [pc EXCEPT ![c] = "disarm"]
       \/ /\ pc' = [pc EXCEPT ![c] = "outside"]
          /\ UNCHANGED ring
    /\ UNCHANGED <<active, bound, word, old, tries, owner, ctlVars, policy>>

\* The last write of a program that does not enter or has left: the swap that
\* disarms the wake, or the fetch-and-or of faketcp_generation_poison.
LastWrite(c) ==
    /\ pc[c] \in {"disarm", "poison"}
    /\ word' = IF pc[c] = "poison" THEN Poisoned(word)
               ELSE IF word = Armed(0) THEN Sealed ELSE word
    /\ pc' = [pc EXCEPT ![c] = "outside"]
    /\ UNCHANGED <<active, bound, ring, old, tries, owner, ctlVars, policy>>

-----------------------------------------------------------------------------
(* The generation owner: barrier calls under barrier.mu, one at a time *)

\* Stage: AssertInactive (ASSERT_CLOSED answers IDLE only for the zero word),
\* then the policy entries go in.  A failed insertion leaves some of them in
\* and rolls back, which starts with Quiesce.
Stage ==
    /\ owner = "fresh"
    /\ word = Zero
    /\ policy' = TRUE
    /\ owner' \in {"staged", "closing"}
    /\ UNCHANGED <<active, bound, word, ring, packetVars, ctlVars>>

\* The build is cancelled before any policy exists: nothing to quiesce.
AbandonFresh ==
    /\ owner = "fresh"
    /\ owner' = "retired"
    /\ UNCHANGED <<active, bound, word, ring, packetVars, ctlVars, policy>>

\* Faulty variant: the generation is published before the gate is open.
ActivatePublished ==
    /\ owner = "staged"
    /\ active' = TRUE
    /\ owner' = "opening"
    /\ ctl' = "bind"
    /\ UNCHANGED <<bound, word, ring, packetVars, ctlOld, ctlTries, policy>>

\* Activate runs the control program with OPEN.
Activate ==
    /\ owner = "staged"
    /\ owner' = "opening"
    /\ ctl' = "bind"
    /\ UNCHANGED <<active, bound, word, ring, packetVars, ctlOld, ctlTries, policy>>

\* CommitControl publishes the generation in control_map.
CommitControl ==
    /\ owner = "opened"
    /\ active' = TRUE
    /\ owner' = "running"
    /\ UNCHANGED <<bound, word, ring, packetVars, ctlVars, policy>>

\* A cancelled build or a Close of the running runtime starts the teardown.
BeginClose ==
    /\ owner \in {"staged", "opened", "running"}
    /\ owner' = "closing"
    /\ UNCHANGED <<active, bound, word, ring, packetVars, ctlVars, policy>>

\* Faulty variant: Quiesce starts while packets still find the generation.
QuiesceWithoutDeactivate ==
    /\ owner = "closing"
    /\ owner' = "quiescing"
    /\ ctl' = "bind"
    /\ UNCHANGED <<active, bound, word, ring, packetVars, ctlOld, ctlTries, policy>>

\* core.Deactivate withdraws the generation from control_map; only then does
\* Quiesce run the control program with CLOSE.
DeactivateThenQuiesce ==
    /\ owner = "closing"
    /\ active' = FALSE
    /\ owner' = "quiescing"
    /\ ctl' = "bind"
    /\ UNCHANGED <<bound, word, ring, packetVars, ctlOld, ctlTries, policy>>

\* compare-and-swap of gate->generation from zero, at the head of OPEN and CLOSE
BindGeneration ==
    /\ ctl = "bind"
    /\ bound' = TRUE
    /\ ctl' = "load"
    /\ ctlTries' = 0
    /\ UNCHANGED <<active, word, ring, packetVars, owner, ctlOld, policy>>

\* The barrier call that ran the control program failed: a failed OPEN aborts
\* the build, a failed CLOSE leaves the owner to retry the whole Close.
CallFailed ==
    /\ owner' = "closing"
    /\ ctl' = "idle"

\* What faketcp_generation_open decides from the word it loaded.
OpenVerdict(w) ==
    IF "POISON" \in w.flags THEN "failed"
    ELSE IF w.flags = {"OPEN"} THEN "done"
    ELSE IF w = Sealed \/ w.flags = {"SEALED", "WAKE_ARMED"} THEN "failed"
    ELSE IF w # Zero THEN "poison" ELSE "cas"

\* What faketcp_generation_close decides from the word it loaded: IDLE, WAIT,
\* a failure, an unknown word to poison, or a word to swap.
CloseVerdict(w) ==
    IF "POISON" \in w.flags THEN "failed"
    ELSE IF w \in {Zero, Armed(0)} \/ w.flags = {"OPEN"} THEN "cas"
    ELSE IF w = Sealed THEN "done"
    ELSE IF w.flags = {"SEALED", "WAKE_ARMED"} THEN "wait" ELSE "poison"

Verdict(w) == IF owner = "opening" THEN OpenVerdict(w) ELSE CloseVerdict(w)

\* Faulty variant: sealing throws the in-flight count away.
SwapDropsCount(w) == IF owner = "opening" THEN Opened(0) ELSE Sealed

\* The word the swap installs: OPEN opens the zero word; CLOSE seals, and arms
\* the wake when programs are still inside.
SwapTo(w) ==
    IF owner = "opening" THEN Opened(0)
    ELSE IF w.count = 0 THEN Sealed ELSE Armed(w.count)

\* Activate succeeded; CLOSE answered IDLE, which Quiesce verifies.
CallDone ==
    IF owner = "opening"
    THEN owner' = "opened" /\ ctl' = "idle"
    ELSE UNCHANGED owner /\ ctl' = "verify"

\* CLOSE answered WAIT: Quiesce waits for the wake record, but the confirming
\* CLOSE accepts nothing except IDLE.
CallWaits ==
    IF owner = "quiescing"
    THEN UNCHANGED owner /\ ctl' = "wait"
    ELSE CallFailed

ControlLoad ==
    /\ ctl = "load"
    /\ ctlOld' = IF Verdict(word) = "cas" THEN word ELSE Zero
    /\ word' = IF Verdict(word) = "poison" THEN Poisoned(word) ELSE word
    /\ CASE Verdict(word) = "cas"  -> UNCHANGED owner /\ ctl' = "cas"
         [] Verdict(word) = "done" -> CallDone
         [] Verdict(word) = "wait" -> CallWaits
         [] OTHER                  -> CallFailed
    /\ UNCHANGED <<active, bound, ring, packetVars, ctlTries, policy>>

\* Faulty variant: a plain store instead of the compare-and-swap.
ControlStore ==
    /\ ctl = "cas"
    /\ word' = SwapTo(ctlOld)
    /\ IF ctlOld.count = 0 THEN CallDone ELSE CallWaits
    /\ ctlOld' = Zero
    /\ UNCHANGED <<active, bound, ring, packetVars, ctlTries, policy>>

ControlSwap ==
    /\ ctl = "cas"
    /\ word = ctlOld
    /\ word' = SwapTo(word)
    /\ IF word.count = 0 THEN CallDone ELSE CallWaits
    /\ ctlOld' = Zero
    /\ UNCHANGED <<active, bound, ring, packetVars, ctlTries, policy>>

\* A lost swap is retried; after the last attempt the program answers MISMATCH.
ControlSwapLost ==
    /\ ctl = "cas"
    /\ word # ctlOld
    /\ ctlOld' = Zero
    /\ \/ /\ ctlTries + 1 < CasAttempts
          /\ ctlTries' = ctlTries + 1
          /\ ctl' = "load"
          /\ UNCHANGED owner
       \/ /\ ctlTries + 1 = CasAttempts
          /\ ctlTries' = 0
          /\ CallFailed
    /\ UNCHANGED <<active, bound, word, ring, packetVars, policy>>

\* readWakeLocked: a record is consumed, and either the context has been
\* cancelled meanwhile or a second CLOSE confirms that the word is idle.
ReadWake ==
    /\ ctl = "wait"
    /\ ring > 0
    /\ ring' = ring - 1
    /\ \/ owner' = "confirming" /\ ctl' = "bind"
       \/ CallFailed
    /\ UNCHANGED <<active, bound, word, packetVars, ctlOld, ctlTries, policy>>

\* Faulty variant: running out of time counts as having drained.
TimeoutIsSuccess ==
    /\ ctl = "wait"
    /\ owner' = "quiesced"
    /\ ctl' = "idle"
    /\ UNCHANGED <<active, bound, word, ring, packetVars, ctlOld, ctlTries, policy>>

\* The five second wait, or the caller's deadline, runs out first.
WakeTimeout ==
    /\ ctl = "wait"
    /\ CallFailed
    /\ UNCHANGED <<active, bound, word, ring, packetVars, ctlOld, ctlTries, policy>>

\* verifyIdleLocked rereads the gate and accepts the sealed idle word only.
VerifyIdle ==
    /\ ctl = "verify"
    /\ IF bound /\ word = Sealed
       THEN owner' = "quiesced" /\ ctl' = "idle"
       ELSE CallFailed
    /\ UNCHANGED <<active, bound, word, ring, packetVars, ctlOld, ctlTries, policy>>

\* Only a quiesced owner removes the policy entries and goes on to close the
\* collection.
RemovePolicy ==
    /\ owner = "quiesced"
    /\ policy' = FALSE
    /\ owner' = "retired"
    /\ UNCHANGED <<active, bound, word, ring, packetVars, ctlVars>>

-----------------------------------------------------------------------------

\* One step of a program that has already started on a context.
Running(c) ==
    \/ AdmitNested(c) \/ CheckGeneration(c) \/ LoadWord(c) \/ EnterSwap(c)
    \/ EnterSwapLost(c) \/ Exit(c) \/ EmitWake(c) \/ LastWrite(c)

\* Steps of a teardown that has started.
Closing ==
    \/ DeactivateThenQuiesce \/ BindGeneration \/ ControlLoad \/ ControlSwap
    \/ ControlSwapLost \/ ReadWake \/ WakeTimeout \/ VerifyIdle \/ RemovePolicy

Next ==
    \/ \E c \in Contexts : Arrive(c) \/ Running(c)
    \/ Stage \/ AbandonFresh \/ Activate \/ CommitControl \/ BeginClose
    \/ Closing

Spec == Init /\ [][Next]_vars

\* BPF programs run to completion, and the daemon retries a failed Close on
\* every reconcile.
GateFairness == WF_vars(Closing) /\ \A c \in Contexts : WF_vars(Running(c))

FairSpec == Spec /\ GateFairness

-----------------------------------------------------------------------------
(* Properties *)

\* Every variable has its type; in particular the in-flight count of gate->state
\* stays within its field and every retry count below CasAttempts.
TypeOK ==
    /\ active \in BOOLEAN
    /\ bound \in BOOLEAN
    /\ word \in Word
    /\ ring \in 0 .. RingCapacity
    /\ pc \in [Contexts -> PacketPcs]
    /\ old \in [Contexts -> Word]
    /\ tries \in [Contexts -> 0 .. CasAttempts - 1]
    /\ owner \in OwnerStages
    /\ ctl \in CtlPcs
    /\ ctlOld \in Word
    /\ ctlTries \in 0 .. CasAttempts - 1
    /\ policy \in BOOLEAN

\* A packet program inside the generation always finds its policy: the entries
\* are inserted before the gate can open and removed only after Quiesce has
\* proved that nobody is inside (rollbackFakeTCPPolicyOperationsLocked).
PolicyWhileInside == Inside # {} => policy

\* Once Quiesce has returned, nobody is inside and nobody can get in any more.
QuiescedIsDrained ==
    owner \in {"quiesced", "retired"} =>
        /\ Inside = {}
        /\ \A c \in Contexts : pc[c] = "cas" => old[c] # word

\* The gate never poisons itself: no interleaving of packets with OPEN, CLOSE,
\* the wake and the retries of Close looks like corruption to any of them.  In
\* particular a packet that read a zero generation never sees an open word.
NeverPoisoned ==
    /\ "POISON" \notin word.flags
    /\ \A c \in Contexts : pc[c] # "poison"

\* A wake record in the ring is proof that the sealed generation has drained,
\* also when the Quiesce that armed it has timed out long ago.
WakeMeansDrained ==
    ring > 0 => Inside = {} /\ "SEALED" \in word.flags

\* Sealing is final: no step of a packet, of OPEN or of a retried CLOSE opens a
\* sealed gate again.
SealIsFinal ==
    [][ "SEALED" \in word.flags => word'.flags \in {{"SEALED"}, {"SEALED", "WAKE_ARMED"}} ]_vars

\* A teardown that has started ends with the generation quiesced and retired,
\* through lost swaps, lost wake records and timeouts.
CloseCompletes == owner = "closing" ~> owner = "retired"
=============================================================================

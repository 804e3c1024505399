------------------------ MODULE GenerationGateProofs ------------------------
(***************************************************************************)
(* Proofs that the generation gate counts exactly the programs inside,     *)
(* never poisons itself, and that Quiesce returns only when the generation *)
(* has drained, for any number of packets.                                 *)
(***************************************************************************)
EXTENDS GenerationGate, FiniteSetTheorems, TLAPS

\* The words the gate can hold, and what the rest of the state says of them.
WordInv ==
    /\ word.flags \in {{}, {"OPEN"}, {"SEALED"}, {"SEALED", "WAKE_ARMED"}}
    /\ word.flags = {} => word.count = 0
    /\ word.flags = {"SEALED"} => word.count = 0
    /\ word.flags # {} => bound
    /\ word.flags = {} => ~active /\ \A c \in Contexts : pc[c] = "outside"

\* The in-flight field is the number of programs inside.
CountInv == word.count = Cardinality(Inside)

PacketInv ==
    /\ \A c \in Contexts : pc[c] \notin {"mismatch", "poison"}
    /\ \A c \in Contexts : pc[c] = "cas" => old[c].flags = {"OPEN"}
    /\ \A c \in Contexts : pc[c] \in {"wake", "disarm"} =>
            "SEALED" \in word.flags /\ word.count = 0
    /\ ring > 0 => "SEALED" \in word.flags /\ word.count = 0

\* A packet runs one program at a time: its outer entry waits in "admitted"
\* while the nested one runs.
NestInv ==
    \A c \in Contexts :
        pc[Outer(c)] \notin {"outside", "admitted"} => pc[Nested(c)] = "outside"

OwnerInv ==
    /\ owner \in {"fresh", "staged", "opening"} => word.flags = {}
    /\ owner \in {"opened", "running"} => word.flags = {"OPEN"}
    /\ active => owner \in {"running", "closing"}
    /\ owner = "quiesced" => word = Sealed
    /\ owner = "retired" => word \in {Zero, Sealed}
    /\ owner \notin {"fresh", "retired"} => policy
    /\ ctl = "idle" <=> owner \notin {"opening", "quiescing", "confirming"}
    /\ owner = "opening" => ctl \in {"bind", "load", "cas"}
    /\ owner = "confirming" => ctl # "wait"
    /\ ctl \in {"load", "cas"} => bound
    /\ ctl = "cas" => \/ ctlOld \in {Zero, Armed(0)}
                      \/ owner # "opening" /\ ctlOld.flags = {"OPEN"}

GateInv == TypeOK /\ WordInv /\ CountInv /\ PacketInv /\ NestInv /\ OwnerInv

-----------------------------------------------------------------------------

\* There are finitely many contexts, and fewer than the in-flight field holds.
LEMMA FiniteContexts ==
    /\ IsFiniteSet(Contexts)
    /\ Cardinality(Contexts) \in Nat
<1>1. IsFiniteSet({"xdp", "event"})
  <2>1. {"xdp", "event"} = {"xdp"} \cup {"event"}
    BY Zenon
  <2>2. IsFiniteSet({"xdp"})
    BY FS_Singleton, Zenon
  <2>3. QED
    BY <2>1, <2>2, FS_AddElement, Zenon
<1>2. IsFiniteSet(Contexts)
  BY <1>1, FS_Product, GateAssumption, Zenon DEF Contexts
<1>3. QED
  BY <1>2, FS_CardinalityType, Zenon

\* The programs inside form a finite set that never fills the in-flight field.
LEMMA InsideBounded ==
    /\ IsFiniteSet(Inside)
    /\ Cardinality(Inside) \in Nat
    /\ Cardinality(Inside) < MaxInflight
<1>1. Inside \subseteq Contexts
  BY Zenon DEF Inside
<1>2. /\ IsFiniteSet(Inside)
      /\ Cardinality(Inside) <= Cardinality(Contexts)
  BY <1>1, FiniteContexts, FS_Subset, Zenon
<1>3. Cardinality(Inside) \in Nat
  BY <1>2, FS_CardinalityType, Zenon
<1>4. QED
  BY <1>2, <1>3, FiniteContexts, GateAssumption

\* A step that moves one context in, or one out, changes the cardinality by one.
LEMMA InsideGrows ==
    ASSUME NEW c \in Contexts, c \notin Inside, Inside' = Inside \cup {c}
    PROVE  Cardinality(Inside') = Cardinality(Inside) + 1
BY InsideBounded, FS_AddElement, Zenon

\* The same for a context that leaves: faketcp_generation_exit takes one away.
LEMMA InsideShrinks ==
    ASSUME NEW c \in Contexts, c \in Inside, Inside' = Inside \ {c}
    PROVE  /\ Cardinality(Inside') = Cardinality(Inside) - 1
           /\ Cardinality(Inside) > 0
<1>1. Cardinality(Inside') = Cardinality(Inside) - 1
  BY InsideBounded, FS_RemoveElement, Zenon
<1>2. Cardinality(Inside) # 0
  BY InsideBounded, FS_EmptySet, Zenon
<1>3. QED
  BY <1>1, <1>2, InsideBounded

\* The outer and the nested context of a packet are contexts, and every context
\* is one of the two.
LEMMA PacketContexts ==
    ASSUME NEW c \in Contexts
    PROVE  /\ Outer(c) \in Contexts
           /\ Nested(c) \in Contexts
           /\ Outer(c) # Nested(c)
           /\ c = Outer(c) \/ c = Nested(c)
           /\ Outer(Outer(c)) = Outer(c) /\ Nested(Outer(c)) = Nested(c)
           /\ Outer(Nested(c)) = Outer(c) /\ Nested(Nested(c)) = Nested(c)
BY DEF Contexts, Outer, Nested

\* A context that is running keeps the packet's programs nested, whatever it
\* does next.
LEMMA NestPreserved ==
    ASSUME TypeOK, NestInv, NEW c \in Contexts, NEW x \in PacketPcs,
           pc[c] # "outside",
           c = Outer(c) => pc[Nested(c)] = "outside",
           pc' = [pc EXCEPT ![c] = x]
    PROVE  NestInv'
<1> SUFFICES ASSUME NEW d \in Contexts, pc'[Outer(d)] \notin {"outside", "admitted"}
             PROVE  pc'[Nested(d)] = "outside"
  BY Zenon DEF NestInv
<1>1. CASE c = Outer(d)
  BY <1>1, PacketContexts, Zenon DEF TypeOK, NestInv
<1>2. CASE c = Nested(d)
  BY <1>2, PacketContexts, Zenon DEF TypeOK, NestInv
<1>3. CASE c # Outer(d) /\ c # Nested(d)
  BY <1>3, PacketContexts, Zenon DEF TypeOK, NestInv
<1>4. QED
  BY <1>1, <1>2, <1>3, Zenon

\* The words the code writes are words of the gate.
LEMMA WordTypes ==
    /\ Zero \in Word /\ Sealed \in Word
    /\ \A n \in 0 .. MaxInflight : Opened(n) \in Word /\ Armed(n) \in Word
    /\ \A w \in Word : /\ w = [flags |-> w.flags, count |-> w.count]
                       /\ Poisoned(w) \in Word
                       /\ \A n \in 0 .. MaxInflight : [w EXCEPT !.count = n] \in Word
BY GateAssumption DEF Word, Flags, Zero, Sealed, Opened, Armed, Poisoned

\* The zeroed gate map and an owner that has not staged anything satisfy the
\* invariant.
THEOREM GateInvInit == Init => GateInv
<1> SUFFICES ASSUME Init PROVE GateInv
  BY Zenon
<1>1. TypeOK
  <2>1. active \in BOOLEAN /\ bound \in BOOLEAN /\ policy \in BOOLEAN
    BY Zenon DEF Init
  <2>2. 0 \in 0 .. RingCapacity /\ 0 \in 0 .. CasAttempts - 1
    BY GateAssumption
  <2>3. QED
    BY <2>1, <2>2, WordTypes, Zenon DEF Init, TypeOK, PacketPcs, OwnerStages, CtlPcs
<1>2. Inside = {}
  BY Zenon DEF Init, Inside
<1>3. CountInv
  BY <1>2, FS_EmptySet, Zenon DEF Init, CountInv, Zero
<1>4. NestInv
  BY PacketContexts, Zenon DEF Init, NestInv
<1>5. QED
  BY <1>1, <1>3, <1>4 DEF Init, GateInv, WordInv, PacketInv, OwnerInv, Zero

-----------------------------------------------------------------------------
(* The steps of a packet *)

\* A packet that finds the published generation keeps the invariant: the word
\* is not the zero word any more.
LEMMA ArriveStep ==
    ASSUME GateInv, NEW c \in Contexts, Arrive(c)
    PROVE  GateInv'
<1> USE DEF GateInv
<1>1. TypeOK'
  BY Zenon DEF Arrive, TypeOK, PacketPcs, ctlVars
<1>2. Inside' = Inside
  BY PacketContexts, Zenon DEF Arrive, Inside, TypeOK
<1>3. NestInv'
  <2> SUFFICES ASSUME NEW d \in Contexts, pc'[Outer(d)] \notin {"outside", "admitted"}
               PROVE  pc'[Nested(d)] = "outside"
    BY Zenon DEF NestInv
  <2>1. CASE c = Outer(d) \/ c = Nested(d)
    BY <2>1, PacketContexts, Zenon DEF Arrive, TypeOK, NestInv
  <2>2. CASE c # Outer(d) /\ c # Nested(d)
    BY <2>2, PacketContexts, Zenon DEF Arrive, TypeOK, NestInv
  <2>3. QED
    BY <2>1, <2>2, Zenon
<1>4. WordInv' /\ CountInv' /\ PacketInv' /\ OwnerInv'
  BY <1>2, Zenon DEF Arrive, TypeOK, WordInv, CountInv, PacketInv, OwnerInv, ctlVars
<1>5. QED
  BY <1>1, <1>3, <1>4, Zenon

\* Admitting the nested control event keeps the invariant.
LEMMA AdmitNestedStep ==
    ASSUME GateInv, NEW c \in Contexts, AdmitNested(c)
    PROVE  GateInv'
<1> USE DEF GateInv
<1>1. TypeOK'
  BY PacketContexts, Zenon DEF AdmitNested, TypeOK, PacketPcs, ctlVars
<1>2. pc[Nested(c)] = "outside"
  BY PacketContexts, Zenon DEF AdmitNested, NestInv
<1>3. Inside' = Inside
  BY <1>2, PacketContexts, Zenon DEF AdmitNested, Inside, TypeOK
<1>4. NestInv'
  <2> SUFFICES ASSUME NEW d \in Contexts, pc'[Outer(d)] \notin {"outside", "admitted"}
               PROVE  pc'[Nested(d)] = "outside"
    BY Zenon DEF NestInv
  <2>1. CASE c = Outer(d)
    BY <2>1, PacketContexts, Zenon DEF AdmitNested, TypeOK, NestInv
  <2>2. CASE c # Outer(d)
    BY <2>2, PacketContexts, Zenon DEF AdmitNested, TypeOK, NestInv
  <2>3. QED
    BY <2>1, <2>2, Zenon
<1>5. WordInv' /\ CountInv' /\ PacketInv' /\ OwnerInv'
  BY <1>3, PacketContexts DEF AdmitNested, TypeOK, WordInv, CountInv, PacketInv, OwnerInv, ctlVars
<1>6. QED
  BY <1>1, <1>4, <1>5, Zenon

\* The generation check always succeeds: a packet that has arrived finds the
\* gate bound.
LEMMA CheckGenerationStep ==
    ASSUME GateInv, NEW c \in Contexts, CheckGeneration(c)
    PROVE  GateInv'
<1> USE DEF GateInv
<1>1. bound /\ pc[c] = "generation"
  BY Zenon DEF CheckGeneration, WordInv, PacketInv
<1>2. pc' = [pc EXCEPT ![c] = "load"]
  BY <1>1, Zenon DEF CheckGeneration, TypeOK
<1>3. TypeOK'
  BY <1>2, Zenon DEF CheckGeneration, TypeOK, PacketPcs, ctlVars
<1>4. Inside' = Inside
  BY <1>2, Zenon DEF CheckGeneration, Inside, TypeOK
<1>5. NestInv'
  BY <1>2, NestPreserved, PacketContexts, Zenon DEF CheckGeneration, NestInv, PacketPcs
<1>6. WordInv' /\ CountInv' /\ PacketInv' /\ OwnerInv'
  BY <1>2, <1>4 DEF CheckGeneration, TypeOK, WordInv, CountInv, PacketInv, OwnerInv, ctlVars
<1>7. QED
  BY <1>3, <1>5, <1>6, Zenon

\* Loading the word ends in a refusal or in a swap of an open word, never in
\* poison.
LEMMA LoadWordStep ==
    ASSUME GateInv, NEW c \in Contexts, LoadWord(c)
    PROVE  GateInv'
<1> USE DEF GateInv
<1>1. /\ EnterVerdict(word) \in {"outside", "cas"}
      /\ EnterVerdict(word) = "cas" => word.flags = {"OPEN"}
  <2>1. word = [flags |-> word.flags, count |-> word.count]
    BY WordTypes, Zenon DEF TypeOK
  <2>2. word.count < MaxInflight
    BY InsideBounded, Zenon DEF CountInv
  <2>3. CASE word.flags = {}
    BY <2>1, <2>3, Zenon DEF EnterVerdict, WordInv, Zero
  <2>4. CASE word.flags = {"SEALED"}
    BY <2>1, <2>4, Zenon DEF EnterVerdict, WordInv, Sealed
  <2>5. CASE word.flags = {"SEALED", "WAKE_ARMED"}
    BY <2>5, Zenon DEF EnterVerdict
  <2>6. CASE word.flags = {"OPEN"}
    <3>1. word # Zero /\ word # Sealed
      BY <2>6 DEF Zero, Sealed
    <3>2. QED
      BY <2>2, <2>6, <3>1, InsideBounded DEF EnterVerdict, CountInv
  <2>7. QED
    BY <2>3, <2>4, <2>5, <2>6, Zenon DEF WordInv
<1>2. TypeOK'
  <2>1. tries' \in [Contexts -> 0 .. CasAttempts - 1]
    BY GateAssumption DEF LoadWord, TypeOK
  <2>2. old' \in [Contexts -> Word]
    BY WordTypes, Zenon DEF LoadWord, TypeOK
  <2>3. pc' \in [Contexts -> PacketPcs]
    BY <1>1, Zenon DEF LoadWord, TypeOK, PacketPcs
  <2>4. QED
    BY <2>1, <2>2, <2>3, Zenon DEF LoadWord, TypeOK, ctlVars
<1>3. Inside' = Inside
  BY <1>1, Zenon DEF LoadWord, Inside, TypeOK
<1>4. NestInv'
  BY <1>1, NestPreserved, PacketContexts, Zenon DEF LoadWord, NestInv, PacketPcs
<1>5. PacketInv'
  BY <1>1, Zenon DEF LoadWord, TypeOK, PacketInv
<1>6. WordInv' /\ CountInv' /\ OwnerInv'
  BY <1>1, <1>3, Zenon DEF LoadWord, TypeOK, WordInv, CountInv, OwnerInv, ctlVars
<1>7. QED
  BY <1>2, <1>4, <1>5, <1>6, Zenon

\* The swap of faketcp_generation_enter adds one context and one to the count.
LEMMA EnterSwapStep ==
    ASSUME GateInv, NEW c \in Contexts, EnterSwap(c)
    PROVE  GateInv'
<1> USE DEF GateInv
<1>1. word.flags = {"OPEN"}
  BY Zenon DEF EnterSwap, PacketInv
<1>2. Inside' = Inside \cup {c} /\ c \notin Inside
  BY Zenon DEF EnterSwap, Inside, TypeOK
<1>3. word.count \in Nat /\ word.count < MaxInflight
  BY InsideBounded, Zenon DEF CountInv
<1>4. word'.flags = {"OPEN"} /\ word'.count = word.count + 1
  BY <1>1, WordTypes DEF EnterSwap, TypeOK
<1>5. TypeOK'
  <2>1. word.count + 1 \in 0 .. MaxInflight
    BY <1>3, GateAssumption
  <2>2. word' \in Word
    BY <2>1, WordTypes, Zenon DEF EnterSwap, TypeOK
  <2>3. tries' \in [Contexts -> 0 .. CasAttempts - 1]
    BY GateAssumption DEF EnterSwap, TypeOK
  <2>4. old' \in [Contexts -> Word]
    BY WordTypes, Zenon DEF EnterSwap, TypeOK
  <2>5. QED
    BY <2>2, <2>3, <2>4, Zenon DEF EnterSwap, TypeOK, PacketPcs, ctlVars
<1>6. CountInv'
  BY <1>2, <1>4, InsideGrows, Zenon DEF CountInv
<1>7. NestInv'
  BY NestPreserved, PacketContexts, Zenon DEF EnterSwap, NestInv, PacketPcs
<1>8. PacketInv' /\ WordInv'
  BY <1>1, <1>4, Zenon DEF EnterSwap, TypeOK, PacketInv, WordInv
<1>9. OwnerInv'
  <2>1. owner \notin {"fresh", "staged", "opening", "quiesced", "retired"}
    BY <1>1 DEF OwnerInv, Zero, Sealed
  <2>2. QED
    BY <1>4, <2>1, Zenon DEF EnterSwap, OwnerInv, ctlVars
<1>10. QED
  BY <1>5, <1>6, <1>7, <1>8, <1>9, Zenon

\* A lost swap changes nothing that others see.
LEMMA EnterSwapLostStep ==
    ASSUME GateInv, NEW c \in Contexts, EnterSwapLost(c)
    PROVE  GateInv'
<1> USE DEF GateInv
<1>1. PICK x \in {"load", "outside"} : pc' = [pc EXCEPT ![c] = x]
  BY Zenon DEF EnterSwapLost
<1>2. TypeOK'
  <2>1. tries' \in [Contexts -> 0 .. CasAttempts - 1]
    BY GateAssumption DEF EnterSwapLost, TypeOK
  <2>2. old' \in [Contexts -> Word]
    BY WordTypes, Zenon DEF EnterSwapLost, TypeOK
  <2>3. QED
    BY <1>1, <2>1, <2>2, Zenon DEF EnterSwapLost, TypeOK, PacketPcs, ctlVars
<1>3. Inside' = Inside
  BY <1>1, Zenon DEF EnterSwapLost, Inside, TypeOK
<1>4. NestInv'
  BY <1>1, NestPreserved, PacketContexts, Zenon DEF EnterSwapLost, NestInv, PacketPcs
<1>5. PacketInv' /\ WordInv' /\ CountInv' /\ OwnerInv'
  BY <1>1, <1>3 DEF EnterSwapLost, TypeOK, PacketInv, WordInv, CountInv, OwnerInv, ctlVars
<1>6. QED
  BY <1>2, <1>4, <1>5, Zenon

\* The fetch-and-sub of faketcp_generation_exit never borrows from the flags.
LEMMA ExitStep ==
    ASSUME GateInv, NEW c \in Contexts, Exit(c)
    PROVE  GateInv'
<1> USE DEF GateInv
<1>1. c \in Inside /\ pc[c] \in {"inside", "admitted"}
  BY Zenon DEF Exit, Inside
<1>2. word.count \in Nat /\ word.count > 0 /\ word.count = Cardinality(Inside)
  <2>1. Inside # {}
    BY <1>1, Zenon
  <2>2. QED
    BY <2>1, InsideBounded, FS_EmptySet DEF CountInv
<1>3. word.flags \in {{"OPEN"}, {"SEALED", "WAKE_ARMED"}}
  BY <1>2 DEF WordInv
<1>4. /\ ExitVerdict(word) \in {"outside", "wake"}
      /\ ExitVerdict(word) = "wake" => "SEALED" \in word.flags /\ word.count = 1
  <2>1. bound /\ "POISON" \notin word.flags
    BY <1>3, Zenon DEF WordInv
  <2>2. word = Armed(1) => "SEALED" \in word.flags /\ word.count = 1
    BY DEF Armed
  <2>3. QED
    BY <1>2, <1>3, <2>1, <2>2 DEF ExitVerdict
<1>5. word'.flags = word.flags /\ word'.count = word.count - 1 /\ word' \in Word
  <2>1. word' = [word EXCEPT !.count = word.count - 1]
    BY <1>2, Zenon DEF Exit, FetchSub
  <2>2. word.count - 1 \in 0 .. MaxInflight
    BY <1>2, InsideBounded, GateAssumption
  <2>3. QED
    BY <2>1, <2>2, WordTypes DEF TypeOK
<1>6. TypeOK'
  <2>1. pc' \in [Contexts -> PacketPcs]
    BY <1>4, Zenon DEF Exit, TypeOK, PacketPcs
  <2>2. QED
    BY <1>5, <2>1, Zenon DEF Exit, TypeOK, ctlVars
<1>7. Inside' = Inside \ {c}
  BY <1>1, <1>4, Zenon DEF Exit, Inside, TypeOK
<1>8. CountInv'
  BY <1>1, <1>2, <1>5, <1>7, InsideShrinks, Zenon DEF CountInv
<1>9. NestInv'
  BY <1>1, <1>4, NestPreserved, Zenon DEF Exit, PacketPcs
<1>10. WordInv'
  BY <1>2, <1>3, <1>5 DEF Exit, TypeOK, WordInv
<1>11. PacketInv'
  BY <1>2, <1>4, <1>5 DEF Exit, TypeOK, PacketInv
<1>12. OwnerInv'
  <2>1. owner \notin {"fresh", "staged", "opening", "quiesced", "retired"}
    BY <1>3 DEF OwnerInv, Zero, Sealed
  <2>2. QED
    BY <1>5, <2>1, Zenon DEF Exit, OwnerInv, ctlVars
<1>13. QED
  BY <1>6, <1>8, <1>9, <1>10, <1>11, <1>12, Zenon

\* A wake record is only sent for a sealed, empty gate.
LEMMA EmitWakeStep ==
    ASSUME GateInv, NEW c \in Contexts, EmitWake(c)
    PROVE  GateInv'
<1> USE DEF GateInv
<1>1. PICK x \in {"disarm", "outside"} : pc' = [pc EXCEPT ![c] = x]
  BY Zenon DEF EmitWake
<1>2. TypeOK'
  <2>1. ring' \in 0 .. RingCapacity
    BY GateAssumption DEF EmitWake, TypeOK
  <2>2. QED
    BY <1>1, <2>1, Zenon DEF EmitWake, TypeOK, PacketPcs, ctlVars
<1>3. Inside' = Inside
  BY <1>1, Zenon DEF EmitWake, Inside, TypeOK
<1>4. NestInv'
  BY <1>1, NestPreserved, PacketContexts, Zenon DEF EmitWake, NestInv, PacketPcs
<1>5. PacketInv'
  BY <1>1, Zenon DEF EmitWake, TypeOK, PacketInv
<1>6. WordInv' /\ CountInv' /\ OwnerInv'
  BY <1>1, <1>3 DEF EmitWake, TypeOK, WordInv, CountInv, OwnerInv, ctlVars
<1>7. QED
  BY <1>2, <1>4, <1>5, <1>6, Zenon

\* The last write disarms a sealed, empty gate; it is never the poison.
LEMMA LastWriteStep ==
    ASSUME GateInv, NEW c \in Contexts, LastWrite(c)
    PROVE  GateInv'
<1> USE DEF GateInv
<1>1. /\ word'.count = 0 /\ word.count = 0
      /\ "SEALED" \in word.flags
      /\ word' = word \/ word' = Sealed
  BY Zenon DEF LastWrite, PacketInv, Sealed
<1>2. TypeOK'
  BY <1>1, WordTypes, Zenon DEF LastWrite, TypeOK, PacketPcs, ctlVars
<1>3. Inside' = Inside
  BY Zenon DEF LastWrite, Inside, TypeOK
<1>4. NestInv'
  BY NestPreserved, PacketContexts, Zenon DEF LastWrite, NestInv, PacketPcs
<1>5. CountInv'
  BY <1>1, <1>3, Zenon DEF CountInv
<1>6. WordInv' /\ PacketInv'
  BY <1>1, Zenon DEF LastWrite, TypeOK, WordInv, PacketInv, Sealed
<1>7. OwnerInv'
  <2>1. owner \notin {"fresh", "staged", "opening", "opened", "running"}
    BY <1>1 DEF OwnerInv
  <2>2. QED
    BY <1>1, <2>1, Zenon DEF LastWrite, OwnerInv, ctlVars
<1>8. QED
  BY <1>2, <1>4, <1>5, <1>6, <1>7, Zenon

\* Every step of a packet program keeps the invariant.
LEMMA PacketStep ==
    ASSUME GateInv, NEW c \in Contexts, Arrive(c) \/ Running(c)
    PROVE  GateInv'
  BY ArriveStep, AdmitNestedStep, CheckGenerationStep, LoadWordStep, EnterSwapStep,
     EnterSwapLostStep, ExitStep, EmitWakeStep, LastWriteStep, Zenon DEF Running

-----------------------------------------------------------------------------
(* The steps of the owner.  None of them moves a packet. *)

\* What an owner step that leaves the packets alone cannot disturb.
LEMMA OwnerFrame ==
    ASSUME GateInv, UNCHANGED pc
    PROVE  Inside' = Inside /\ NestInv'
BY Zenon DEF GateInv, Inside, NestInv

\* The owner steps before the teardown keep the invariant.
LEMMA BuildStep ==
    ASSUME GateInv,
           Stage \/ AbandonFresh \/ Activate \/ CommitControl \/ BeginClose
    PROVE  GateInv'
<1> USE DEF GateInv
<1>1. UNCHANGED <<pc, old, tries, word, bound, ring>>
  BY Zenon DEF Stage, AbandonFresh, Activate, CommitControl, BeginClose, packetVars
<1>2. Inside' = Inside /\ NestInv'
  BY <1>1, OwnerFrame, Zenon
<1>3. CountInv' /\ PacketInv'
  BY <1>1, <1>2, Zenon DEF CountInv, PacketInv
<1>4. CASE Stage
  <2>1. TypeOK'
    BY <1>4, Zenon DEF Stage, TypeOK, OwnerStages, packetVars, ctlVars
  <2>2. WordInv' /\ OwnerInv'
    BY <1>4, Zenon DEF Stage, TypeOK, WordInv, OwnerInv, packetVars, ctlVars
  <2>3. QED
    BY <1>2, <1>3, <2>1, <2>2, Zenon
<1>5. CASE AbandonFresh
  <2>1. TypeOK'
    BY <1>5, Zenon DEF AbandonFresh, TypeOK, OwnerStages, packetVars, ctlVars
  <2>2. word = Zero
    BY <1>5, WordTypes, Zenon DEF AbandonFresh, TypeOK, OwnerInv, WordInv, Zero
  <2>3. WordInv' /\ OwnerInv'
    BY <1>5, <2>2, Zenon DEF AbandonFresh, TypeOK, WordInv, OwnerInv, packetVars, ctlVars
  <2>4. QED
    BY <1>2, <1>3, <2>1, <2>3, Zenon
<1>6. CASE Activate
  <2>1. TypeOK'
    BY <1>6, Zenon DEF Activate, TypeOK, OwnerStages, CtlPcs, packetVars, ctlVars
  <2>2. WordInv' /\ OwnerInv'
    BY <1>6, Zenon DEF Activate, TypeOK, WordInv, OwnerInv, packetVars, ctlVars
  <2>3. QED
    BY <1>2, <1>3, <2>1, <2>2, Zenon
<1>7. CASE CommitControl
  <2>1. TypeOK'
    BY <1>7, Zenon DEF CommitControl, TypeOK, OwnerStages, packetVars, ctlVars
  <2>2. WordInv' /\ OwnerInv'
    BY <1>7, Zenon DEF CommitControl, TypeOK, WordInv, OwnerInv, packetVars, ctlVars
  <2>3. QED
    BY <1>2, <1>3, <2>1, <2>2, Zenon
<1>8. CASE BeginClose
  <2>1. TypeOK'
    BY <1>8, Zenon DEF BeginClose, TypeOK, OwnerStages, packetVars, ctlVars
  <2>2. WordInv' /\ OwnerInv'
    BY <1>8, Zenon DEF BeginClose, TypeOK, WordInv, OwnerInv, packetVars, ctlVars
  <2>3. QED
    BY <1>2, <1>3, <2>1, <2>2, Zenon
<1>9. QED
  BY <1>4, <1>5, <1>6, <1>7, <1>8, Zenon

\* The verdicts of the control program on a word the gate can hold: it is never
\* told to poison, and swaps exactly the words it knows how to replace.
LEMMA ControlVerdicts ==
    ASSUME GateInv, ctl \in {"load", "cas"}
    PROVE  /\ Verdict(word) \in {"cas", "done", "wait", "failed"}
           /\ owner = "opening" => Verdict(word) = "cas" /\ word = Zero
           /\ Verdict(word) = "cas" =>
                 \/ word \in {Zero, Armed(0)}
                 \/ owner # "opening" /\ word.flags = {"OPEN"}
           /\ Verdict(word) = "done" => word = Sealed
<1> USE DEF GateInv
<1>1. word = [flags |-> word.flags, count |-> word.count]
  BY WordTypes, Zenon DEF TypeOK
<1>2. owner = "opening" => word = Zero
  BY <1>1, Zenon DEF OwnerInv, WordInv, Zero
<1>3. owner = "opening" => Verdict(word) = "cas"
  BY <1>2 DEF Verdict, OpenVerdict, Zero, Sealed
<1>4. CASE owner # "opening"
  <2>1. Verdict(word) = CloseVerdict(word)
    BY <1>4, Zenon DEF Verdict
  <2>2. CASE word.flags = {"SEALED"}
    <3>1. word = Sealed /\ word # Zero /\ word # Armed(0)
      BY <1>1, <2>2 DEF WordInv, Sealed, Zero, Armed
    <3>2. QED
      BY <1>4, <2>1, <2>2, <3>1, Zenon DEF CloseVerdict
  <2>3. CASE word.flags # {"SEALED"}
    BY <1>1, <1>4, <2>1, <2>3, Zenon DEF CloseVerdict, WordInv, Zero, Sealed
  <2>4. QED
    BY <2>2, <2>3, Zenon
<1>5. QED
  BY <1>2, <1>3, <1>4, Zenon

\* The load of the control program and the answer it gives keep the invariant.
LEMMA ControlLoadStep ==
    ASSUME GateInv, ControlLoad
    PROVE  GateInv'
<1> USE DEF GateInv
<1>1. ctl = "load" /\ UNCHANGED <<active, bound, ring, pc, old, tries, ctlTries, policy>>
  BY Zenon DEF ControlLoad, packetVars
<1>2. word' = word
  BY <1>1, ControlVerdicts, Zenon DEF ControlLoad
<1>3. Inside' = Inside /\ NestInv'
  BY <1>1, OwnerFrame, Zenon
<1>4. CountInv' /\ PacketInv'
  BY <1>1, <1>2, <1>3, Zenon DEF CountInv, PacketInv
<1>5. ctlOld' = IF Verdict(word) = "cas" THEN word ELSE Zero
  BY Zenon DEF ControlLoad
<1>6. owner \in {"opening", "quiescing", "confirming"}
  BY <1>1, Zenon DEF OwnerInv
<1>7. \/ /\ Verdict(word) = "cas" /\ owner' = owner /\ ctl' = "cas"
      \/ /\ Verdict(word) = "done" /\ owner # "opening" /\ owner' = owner /\ ctl' = "verify"
      \/ /\ owner = "quiescing" /\ owner' = owner /\ ctl' = "wait"
      \/ /\ owner # "opening" /\ owner' = "closing" /\ ctl' = "idle"
  <2>1. CASE Verdict(word) = "cas"
    BY <2>1, Zenon DEF ControlLoad
  <2>2. CASE Verdict(word) = "done"
    BY <1>1, <2>2, ControlVerdicts, Zenon DEF ControlLoad, CallDone
  <2>3. CASE Verdict(word) = "wait"
    BY <1>1, <2>3, ControlVerdicts, Zenon DEF ControlLoad, CallWaits, CallFailed
  <2>4. CASE Verdict(word) = "failed"
    BY <1>1, <2>4, ControlVerdicts, Zenon DEF ControlLoad, CallFailed
  <2>5. QED
    BY <1>1, <2>1, <2>2, <2>3, <2>4, ControlVerdicts, Zenon
<1>8. TypeOK'
  BY <1>1, <1>2, <1>5, <1>7, WordTypes DEF TypeOK, OwnerStages, CtlPcs
<1>9. WordInv'
  BY <1>1, <1>2, Zenon DEF WordInv
<1>10. OwnerInv'
  BY <1>1, <1>2, <1>5, <1>6, <1>7, ControlVerdicts, Zenon DEF OwnerInv
<1>11. QED
  BY <1>3, <1>4, <1>8, <1>9, <1>10, Zenon

\* The swap of OPEN or CLOSE keeps the invariant.
LEMMA ControlSwapStep ==
    ASSUME GateInv, ControlSwap
    PROVE  GateInv'
<1> USE DEF GateInv
<1>1. /\ ctl = "cas" /\ word = ctlOld /\ bound
      /\ UNCHANGED <<active, bound, ring, pc, old, tries, ctlTries, policy>>
  BY Zenon DEF ControlSwap, packetVars, OwnerInv
<1>2. Inside' = Inside /\ NestInv'
  BY <1>1, OwnerFrame, Zenon
<1>3. owner \in {"opening", "quiescing", "confirming"}
  BY <1>1, Zenon DEF OwnerInv
<1>4. word.count \in 0 .. MaxInflight /\ word.count = Cardinality(Inside)
  BY InsideBounded, GateAssumption DEF CountInv
<1>5. CASE owner = "opening"
  <2>1. word = Zero /\ word' = Opened(0) /\ owner' = "opened" /\ ctl' = "idle"
    BY <1>1, <1>5, ControlVerdicts DEF ControlSwap, SwapTo, CallDone, Zero
  <2>2. word'.flags = {"OPEN"} /\ word'.count = 0 /\ word.count = 0 /\ word.flags = {}
    BY <2>1, Zenon DEF Opened, Zero
  <2>3. TypeOK'
    BY <1>1, <2>1, WordTypes, GateAssumption DEF ControlSwap, TypeOK, OwnerStages, CtlPcs
  <2>4. WordInv' /\ CountInv' /\ PacketInv'
    BY <1>1, <1>2, <2>2, Zenon DEF WordInv, CountInv, PacketInv
  <2>5. OwnerInv'
    BY <1>1, <1>5, <2>1, <2>2, Zenon DEF OwnerInv, WordInv
  <2>6. QED
    BY <1>2, <2>3, <2>4, <2>5, Zenon
<1>6. CASE owner # "opening"
  <2>1. word' = IF word.count = 0 THEN Sealed ELSE Armed(word.count)
    BY <1>6, Zenon DEF ControlSwap, SwapTo
  <2>2. /\ word'.flags = IF word.count = 0 THEN {"SEALED"} ELSE {"SEALED", "WAKE_ARMED"}
        /\ word'.count = word.count
        /\ word' \in Word
    BY <1>4, <2>1, WordTypes, Zenon DEF Sealed, Armed
  <2>3. \/ owner' = owner /\ ctl' = "verify"
        \/ owner = "quiescing" /\ owner' = owner /\ ctl' = "wait"
        \/ owner' = "closing" /\ ctl' = "idle"
    BY <1>6, Zenon DEF ControlSwap, CallDone, CallWaits, CallFailed
  <2>4. TypeOK'
    BY <1>1, <2>2, <2>3, WordTypes, Zenon DEF ControlSwap, TypeOK, OwnerStages, CtlPcs
  <2>5. WordInv' /\ CountInv'
    BY <1>1, <1>2, <2>2 DEF WordInv, CountInv
  <2>6. PacketInv'
    BY <1>1, <2>2, Zenon DEF PacketInv
  <2>7. OwnerInv'
    BY <1>1, <1>3, <1>6, <2>3, Zenon DEF OwnerInv
  <2>8. QED
    BY <1>2, <2>4, <2>5, <2>6, <2>7, Zenon
<1>7. QED
  BY <1>5, <1>6, Zenon

\* The other steps of a teardown keep the invariant.
LEMMA OtherClosingStep ==
    ASSUME GateInv,
           \/ DeactivateThenQuiesce \/ BindGeneration \/ ControlSwapLost
           \/ ReadWake \/ WakeTimeout \/ VerifyIdle \/ RemovePolicy
    PROVE  GateInv'
<1> USE DEF GateInv
<1>1. UNCHANGED <<pc, old, tries, word>>
  BY Zenon DEF DeactivateThenQuiesce, BindGeneration, ControlSwapLost, ReadWake, WakeTimeout,
         VerifyIdle, RemovePolicy, packetVars
<1>2. Inside' = Inside /\ NestInv'
  BY <1>1, OwnerFrame, Zenon
<1>3. CountInv'
  BY <1>1, <1>2, Zenon DEF CountInv
<1>4. CASE DeactivateThenQuiesce
  <2>1. TypeOK'
    BY <1>1, <1>4, Zenon DEF DeactivateThenQuiesce, TypeOK, OwnerStages, CtlPcs
  <2>2. WordInv' /\ PacketInv' /\ OwnerInv'
    BY <1>1, <1>4, Zenon DEF DeactivateThenQuiesce, WordInv, PacketInv, OwnerInv
  <2>3. QED
    BY <1>2, <1>3, <2>1, <2>2, Zenon
<1>5. CASE BindGeneration
  <2>1. TypeOK'
    BY <1>1, <1>5, GateAssumption DEF BindGeneration, TypeOK, CtlPcs
  <2>2. WordInv' /\ PacketInv' /\ OwnerInv'
    BY <1>1, <1>5, Zenon DEF BindGeneration, WordInv, PacketInv, OwnerInv
  <2>3. QED
    BY <1>2, <1>3, <2>1, <2>2, Zenon
<1>6. CASE ControlSwapLost
  <2>1. ctlTries' \in 0 .. CasAttempts - 1
    BY <1>6, GateAssumption DEF ControlSwapLost, TypeOK
  <2>2. \/ owner' = owner /\ ctl' = "load"
        \/ owner' = "closing" /\ ctl' = "idle"
    BY <1>6, Zenon DEF ControlSwapLost, CallFailed
  <2>3. TypeOK'
    BY <1>1, <1>6, <2>1, <2>2, WordTypes, Zenon DEF ControlSwapLost, TypeOK, OwnerStages, CtlPcs
  <2>4. WordInv' /\ PacketInv'
    BY <1>1, <1>6, Zenon DEF ControlSwapLost, WordInv, PacketInv
  <2>5. OwnerInv'
    BY <1>1, <1>6, <2>2, Zenon DEF ControlSwapLost, OwnerInv
  <2>6. QED
    BY <1>2, <1>3, <2>3, <2>4, <2>5, Zenon
<1>7. CASE ReadWake \/ WakeTimeout
  <2>1. ring' \in 0 .. RingCapacity /\ (ring' > 0 => ring > 0)
    BY <1>7, GateAssumption DEF ReadWake, WakeTimeout, TypeOK
  <2>2. \/ owner' = "confirming" /\ ctl' = "bind"
        \/ owner' = "closing" /\ ctl' = "idle"
    BY <1>7, Zenon DEF ReadWake, WakeTimeout, CallFailed
  <2>3. UNCHANGED <<active, bound, ctlOld, ctlTries, policy>> /\ ctl = "wait"
    BY <1>7, Zenon DEF ReadWake, WakeTimeout
  <2>4. TypeOK'
    BY <1>1, <2>1, <2>2, <2>3, Zenon DEF TypeOK, OwnerStages, CtlPcs
  <2>5. WordInv' /\ PacketInv'
    BY <1>1, <2>1, <2>3, Zenon DEF WordInv, PacketInv
  <2>6. OwnerInv'
    BY <1>1, <2>2, <2>3, Zenon DEF OwnerInv
  <2>7. QED
    BY <1>2, <1>3, <2>4, <2>5, <2>6, Zenon
<1>8. CASE VerifyIdle
  <2>1. \/ owner' = "quiesced" /\ ctl' = "idle" /\ word = Sealed
        \/ owner' = "closing" /\ ctl' = "idle"
    BY <1>8, Zenon DEF VerifyIdle, CallFailed
  <2>2. TypeOK'
    BY <1>1, <1>8, <2>1, Zenon DEF VerifyIdle, TypeOK, OwnerStages, CtlPcs
  <2>3. WordInv' /\ PacketInv'
    BY <1>1, <1>8, Zenon DEF VerifyIdle, WordInv, PacketInv
  <2>4. OwnerInv'
    BY <1>1, <1>8, <2>1, Zenon DEF VerifyIdle, OwnerInv
  <2>5. QED
    BY <1>2, <1>3, <2>2, <2>3, <2>4, Zenon
<1>9. CASE RemovePolicy
  <2>1. TypeOK'
    BY <1>1, <1>9, Zenon DEF RemovePolicy, TypeOK, OwnerStages, ctlVars
  <2>2. WordInv' /\ PacketInv' /\ OwnerInv'
    BY <1>1, <1>9, Zenon DEF RemovePolicy, WordInv, PacketInv, OwnerInv, ctlVars
  <2>3. QED
    BY <1>2, <1>3, <2>1, <2>2, Zenon
<1>10. QED
  BY <1>4, <1>5, <1>6, <1>7, <1>8, <1>9, Zenon

-----------------------------------------------------------------------------

\* Every step of packets, control program and owner keeps the invariant.
THEOREM GateInvNext == GateInv /\ [Next]_vars => GateInv'
<1> SUFFICES ASSUME GateInv, [Next]_vars PROVE GateInv'
  BY Zenon
<1>1. CASE \E c \in Contexts : Arrive(c) \/ Running(c)
  BY <1>1, PacketStep, Zenon
<1>2. CASE Stage \/ AbandonFresh \/ Activate \/ CommitControl \/ BeginClose
  BY <1>2, BuildStep, Zenon
<1>3. CASE Closing
  BY <1>3, ControlLoadStep, ControlSwapStep, OtherClosingStep, Zenon DEF Closing
<1>4. CASE UNCHANGED vars
  <2>1. Inside' = Inside
    BY <1>4, Zenon DEF vars, packetVars, Inside
  <2>2. QED
    BY <1>4, <2>1 DEF vars, packetVars, ctlVars, GateInv, TypeOK, WordInv, CountInv,
                      PacketInv, NestInv, OwnerInv
<1>5. QED
  BY <1>1, <1>2, <1>3, <1>4, Zenon DEF Next

\* The inductive invariant holds in every reachable state.
THEOREM GateInvariant == Spec => []GateInv
BY GateInvInit, GateInvNext, PTL DEF Spec

\* Types of the gate, the packets and the owner.
THEOREM TypeCorrect == Spec => []TypeOK
<1>1. GateInv => TypeOK
  BY Zenon DEF GateInv
<1>2. QED
  BY <1>1, GateInvariant, PTL

\* No interleaving of any number of packets with OPEN, CLOSE, wakes and retries
\* poisons the gate.
THEOREM GateNeverPoisoned == Spec => []NeverPoisoned
<1>1. GateInv => NeverPoisoned
  BY Zenon DEF GateInv, WordInv, PacketInv, NeverPoisoned
<1>2. QED
  BY <1>1, GateInvariant, PTL

\* Whoever is inside the generation finds the policy in the maps.
THEOREM GateProtectsPolicy == Spec => []PolicyWhileInside
<1>1. GateInv => PolicyWhileInside
  <2> SUFFICES ASSUME GateInv, Inside # {} PROVE policy
    BY Zenon DEF PolicyWhileInside
  <2>1. word.count # 0
    BY InsideBounded, FS_EmptySet, Zenon DEF GateInv, CountInv
  <2>2. owner \notin {"fresh", "retired"}
    BY <2>1 DEF GateInv, OwnerInv, WordInv, Zero, Sealed
  <2>3. QED
    BY <2>2, Zenon DEF GateInv, OwnerInv
<1>2. QED
  BY <1>1, GateInvariant, PTL

\* When Quiesce has returned, the generation is empty and stays empty.
THEOREM GateQuiesces == Spec => []QuiescedIsDrained
<1>1. GateInv => QuiescedIsDrained
  <2> SUFFICES ASSUME GateInv, owner \in {"quiesced", "retired"}
               PROVE  /\ Inside = {}
                      /\ \A c \in Contexts : pc[c] = "cas" => old[c] # word
    BY Zenon DEF QuiescedIsDrained
  <2>1. word.count = 0 /\ word.flags # {"OPEN"}
    BY DEF GateInv, OwnerInv, Zero, Sealed
  <2>2. Inside = {}
    BY <2>1, InsideBounded, FS_EmptySet, Zenon DEF GateInv, CountInv
  <2>3. QED
    BY <2>1, <2>2, Zenon DEF GateInv, PacketInv
<1>2. QED
  BY <1>1, GateInvariant, PTL

\* A wake record is proof of a drained, sealed generation.
THEOREM GateWakeIsProof == Spec => []WakeMeansDrained
<1>1. GateInv => WakeMeansDrained
  BY InsideBounded, FS_EmptySet, Zenon DEF GateInv, PacketInv, CountInv, WakeMeansDrained
<1>2. QED
  BY <1>1, GateInvariant, PTL

\* No step opens a sealed gate again.
THEOREM GateSealIsFinal == Spec => SealIsFinal
<1> DEFINE StaysSealed == "SEALED" \in word.flags =>
                              word'.flags \in {{"SEALED"}, {"SEALED", "WAKE_ARMED"}}
<1>1. ASSUME GateInv, [Next]_vars, "SEALED" \in word.flags
      PROVE  word'.flags \in {{"SEALED"}, {"SEALED", "WAKE_ARMED"}}
  <2>1. word.flags \in {{"SEALED"}, {"SEALED", "WAKE_ARMED"}}
    BY <1>1, Zenon DEF GateInv, WordInv
  <2>2. CASE word' = word
    BY <2>1, <2>2, Zenon
  <2>3. CASE \E c \in Contexts : EnterSwap(c)
    BY <1>1, <2>3 DEF GateInv, PacketInv, EnterSwap
  <2>4. CASE \E c \in Contexts : Exit(c)
    <3>1. PICK c \in Contexts : Exit(c)
      BY <2>4, Zenon
    <3>2. c \in Inside /\ word.count \in Nat /\ word.count > 0
      <4>1. c \in Inside
        BY <3>1, Zenon DEF Exit
      <4>2. QED
        BY <4>1, <1>1, InsideBounded, FS_EmptySet DEF GateInv, CountInv
    <3>3. word'.flags = word.flags
      BY <1>1, <3>1, <3>2, WordTypes, Zenon DEF Exit, FetchSub, GateInv, TypeOK, Word
    <3>4. QED
      BY <2>1, <3>3, Zenon
  <2>5. CASE \E c \in Contexts : LastWrite(c)
    BY <1>1, <2>1, <2>5 DEF LastWrite, Sealed, GateInv, PacketInv
  <2>6. CASE ControlSwap
    <3>1. owner # "opening"
      BY <1>1, <2>6, Zenon DEF GateInv, OwnerInv, ControlSwap
    <3>2. QED
      BY <2>6, <3>1, Zenon DEF ControlSwap, SwapTo, Sealed, Armed
  <2>7. CASE ControlLoad
    BY <1>1, <2>1, <2>7, ControlVerdicts, Zenon DEF ControlLoad
  <2>8. QED
    BY <1>1, <2>2, <2>3, <2>4, <2>5, <2>6, <2>7, Zenon
    DEF Next, vars, Arrive, Running, AdmitNested, CheckGeneration, LoadWord,
        EnterSwapLost, EmitWake, Stage, AbandonFresh, Activate, CommitControl, BeginClose,
        Closing, DeactivateThenQuiesce, BindGeneration, ControlSwapLost, ReadWake,
        WakeTimeout, VerifyIdle, RemovePolicy
<1>2. GateInv /\ [Next]_vars => [StaysSealed]_vars
  BY <1>1, Zenon
<1>3. QED
  BY <1>2, GateInvariant, PTL DEF Spec, SealIsFinal
=============================================================================

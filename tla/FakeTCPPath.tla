---------------------------- MODULE FakeTCPPath ----------------------------
(***************************************************************************)
(* The FakeTCP packet path (wg_mix_faketcp.h and the FakeTCP branches of   *)
(* wg_mix_tc.c): TC egress with its three transforms, the XDP program, and *)
(* TC ingress, on several CPUs, against the userspace that inserts, claims *)
(* and deletes sessions and deactivates the generation.                    *)
(*                                                                         *)
(* A program runs to completion on its CPU, but what it reads of a session *)
(* it reads in several steps: a lookup that returns a pointer into the     *)
(* session map, a snapshot under the session's lock, and much later a      *)
(* mutation under that lock.  The map is preallocated, so an element that  *)
(* was deleted meanwhile may already hold another flow's session when the  *)
(* pointer is used.                                                        *)
(*                                                                         *)
(* A session id is never used twice; here it also stands for the runtime   *)
(* incarnation and the immutable projection that are compared with it.     *)
(***************************************************************************)
EXTENDS Naturals, FiniteSets

CONSTANTS
    CPUs, Flows,
    Elements,       \* the preallocated elements of faketcp_session_map
    MaxSession,     \* the sessions userspace inserts
    MaxNonce,       \* the last nonce of a CPU's token slot
    MaxDecoded,     \* packets on their way from XDP to TC ingress
    none            \* no element

VARIABLES
    live,       \* control_map names this generation
    map,        \* faketcp_session_map: the element of each flow
    elem,       \* what each element holds, or last held
    nextID,
    cpu,        \* the program each CPU runs
    token,      \* faketcp_egress_admission_map: each CPU's active admission
    nonce,      \* and its next_nonce
    decoded     \* packets XDP has passed, with the authority in their metadata

vars == <<live, map, elem, nextID, cpu, token, nonce, decoded>>

sessions == <<live, map, elem, nextID>>

NoToken == [nonce |-> 0, state |-> "free", auth |-> 0, kind |-> "xor"]

Quiet == [prog |-> "none", at |-> "idle", flow |-> none, kind |-> "none",
          ptr |-> none, auth |-> 0, cb |-> 0]

Unused == [id |-> 0, state |-> "claimed"]

Init ==
    /\ live = TRUE
    /\ map = [f \in Flows |-> none]
    /\ elem = [e \in Elements |-> Unused]
    /\ nextID = 1
    /\ cpu = [c \in CPUs |-> Quiet]
    /\ token = [c \in CPUs |-> NoToken]
    /\ nonce = [c \in CPUs |-> 0]
    /\ decoded = {}

-----------------------------------------------------------------------------
(* Userspace *)

\* The session map adapter inserts an established session under a fresh id.
Insert ==
    /\ nextID <= MaxSession
    /\ \E f \in Flows, e \in Elements :
        /\ map[f] = none
        /\ \A g \in Flows : map[g] # e
        /\ map' = [map EXCEPT ![f] = e]
        /\ elem' = [elem EXCEPT ![e] = [id |-> nextID, state |-> "established"]]
    /\ nextID' = nextID + 1
    /\ UNCHANGED <<live, cpu, token, nonce, decoded>>

\* wg_faketcp_session_claim: ESTABLISHED to DELETE_CLAIMED under the lock.
Claim ==
    /\ \E f \in Flows :
        /\ map[f] # none /\ elem[map[f]].state = "established"
        /\ elem' = [elem EXCEPT ![map[f]].state = "claimed"]
    /\ UNCHANGED <<live, map, nextID, cpu, token, nonce, decoded>>

\* Mutant: a session is deleted without being claimed.
DeleteUnclaimed ==
    /\ \E f \in Flows : map[f] # none /\ map' = [map EXCEPT ![f] = none]
    /\ UNCHANGED <<live, elem, nextID, cpu, token, nonce, decoded>>

\* The delete after the claim.  The element keeps its bytes until it is used again,
\* but a claimed value is as good as none to every reader.
Delete ==
    /\ \E f \in Flows :
        /\ map[f] # none /\ elem[map[f]].state = "claimed"
        /\ map' = [map EXCEPT ![f] = none]
        /\ elem' = [elem EXCEPT ![map[f]] = Unused]
    /\ UNCHANGED <<live, nextID, cpu, token, nonce, decoded>>

\* core.Deactivate: control_map no longer names the generation.
Deactivate ==
    /\ live
    /\ live' = FALSE
    /\ UNCHANGED <<map, elem, nextID, cpu, token, nonce, decoded>>

-----------------------------------------------------------------------------
(* One program on one CPU *)

Running(c, prog, at) == cpu[c].prog = prog /\ cpu[c].at = at

Step(c, at) == cpu' = [cpu EXCEPT ![c].at = at]

Done(c) == cpu' = [cpu EXCEPT ![c] = Quiet]

Start(c, prog, f, auth) ==
    cpu' = [cpu EXCEPT ![c] = [prog |-> prog, at |-> "lookup", flow |-> f, kind |-> "none",
                               ptr |-> none, auth |-> auth, cb |-> 0]]

\* faketcp_consume_egress_admission clears the slot whatever nonce it is given.
Consume(c) == token' = [token EXCEPT ![c] = NoToken]

\* bpf_map_lookup_elem.
Lookup(c) ==
    /\ cpu[c].at = "lookup"
    /\ cpu' = [cpu EXCEPT ![c].ptr = map[cpu[c].flow], ![c].at = "snapshot"]
    /\ UNCHANGED <<sessions, token, nonce, decoded>>

\* faketcp_session_snapshot_established, through the pointer.
Established(c) == cpu[c].ptr # none /\ elem[cpu[c].ptr].state = "established"

\* Mutant: an established session is enough.
MatchesState(c) == Established(c)

\* faketcp_session_authority_matches_locked, through the pointer.
Matches(c) == Established(c) /\ elem[cpu[c].ptr].id = cpu[c].auth

Seen(c) == elem[cpu[c].ptr].id

-----------------------------------------------------------------------------
(* TC egress *)

\* A managed WireGuard packet.  Without an active generation every program lets its
\* packet pass as it is.
StartEgress(c) ==
    /\ cpu[c] = Quiet /\ live
    /\ \E f \in Flows : Start(c, "egress", f, 0)
    /\ UNCHANGED <<sessions, token, nonce, decoded>>

\* faketcp_direct_egress_admission_checkpoint, for a packet without a cipher.
AdmitDirect(c) ==
    /\ Running(c, "egress", "snapshot") /\ Established(c)
    /\ cpu' = [cpu EXCEPT ![c].auth = Seen(c), ![c].at = "encode"]
    /\ UNCHANGED <<sessions, token, nonce, decoded>>

\* faketcp_egress_admission_checkpoint, for a packet with a cipher and for an
\* aggregate: one token, under a nonce of its own.  A token somebody left behind is
\* cleared, at the price of this packet.
AdmitToken(c) ==
    /\ Running(c, "egress", "snapshot") /\ Established(c)
    /\ IF token[c] # NoToken \/ nonce[c] = MaxNonce
       THEN Consume(c) /\ Done(c) /\ UNCHANGED nonce
       ELSE \E kind \in {"xor", "gso"} :
            /\ nonce' = [nonce EXCEPT ![c] = @ + 1]
            /\ token' = [token EXCEPT ![c] = [nonce |-> nonce[c] + 1, state |-> "armed",
                                              auth |-> Seen(c), kind |-> kind]]
            /\ cpu' = [cpu EXCEPT ![c].kind = kind, ![c].cb = nonce[c] + 1, ![c].at = kind]
    /\ UNCHANGED <<sessions, decoded>>

\* No session: the first packet is captured as it is, unless it is an aggregate, and
\* dropped.  A session that is not established drops it without a capture.
NotAdmitted(c) ==
    /\ Running(c, "egress", "snapshot") /\ ~Established(c)
    /\ Done(c)
    /\ UNCHANGED <<sessions, token, nonce, decoded>>

\* Mutant: a failed XOR program leaves the token behind.
XORKeepsToken(c) ==
    /\ Running(c, "egress", "xor")
    /\ Done(c)
    /\ UNCHANGED <<sessions, token, nonce, decoded>>

\* The type word, a tail call, a cipher lookup or a store fails, or the token is not
\* this packet's.
XORFails(c) ==
    /\ Running(c, "egress", "xor")
    /\ Consume(c) /\ Done(c)
    /\ UNCHANGED <<sessions, nonce, decoded>>

\* The XOR programs: each binds its progress to the token, the last completes it.
XORCompletes(c) ==
    /\ Running(c, "egress", "xor")
    /\ token[c].nonce = cpu[c].cb /\ token[c].state = "armed"
    /\ token' = [token EXCEPT ![c].state = "complete"]
    /\ Step(c, "continue")
    /\ UNCHANGED <<sessions, nonce, decoded>>

\* faketcp_continue_egress consumes first, then asks for the active generation and
\* compares packet and policy with the consumed copy.
Continue(c) ==
    /\ Running(c, "egress", "continue")
    /\ Consume(c)
    /\ IF live /\ token[c].nonce = cpu[c].cb /\ token[c].state = "complete"
       THEN cpu' \in {[cpu EXCEPT ![c].at = "encode", ![c].auth = token[c].auth],
                      [cpu EXCEPT ![c] = Quiet]}
       ELSE Done(c)
    /\ UNCHANGED <<sessions, nonce, decoded>>

\* faketcp_encode_gso_segments refuses its own admission; the token stays.
GSORefused(c) ==
    /\ Running(c, "egress", "gso")
    /\ Done(c)
    /\ UNCHANGED <<sessions, token, nonce, decoded>>

GSOFails(c) ==
    /\ Running(c, "egress", "gso")
    /\ Consume(c) /\ Done(c)
    /\ UNCHANGED <<sessions, nonce, decoded>>

\* Every segment is rewritten and the token is still the packet's.
GSORewritten(c) ==
    /\ Running(c, "egress", "gso")
    /\ token[c].nonce = cpu[c].cb
    /\ cpu' = [cpu EXCEPT ![c].at = "encode", ![c].auth = token[c].auth]
    /\ UNCHANGED <<sessions, token, nonce, decoded>>

\* An aggregate holds its token until it is done.
Release(c) == IF cpu[c].kind = "gso" THEN Consume(c) ELSE UNCHANGED token

\* faketcp_encode_established_authorized looks the session up again, by key.
Encode(c) ==
    /\ Running(c, "egress", "encode")
    /\ IF map[cpu[c].flow] = none THEN Done(c) /\ Release(c)
       ELSE /\ cpu' = [cpu EXCEPT ![c].ptr = map[cpu[c].flow], ![c].at = "commit"]
            /\ UNCHANGED token
    /\ UNCHANGED <<sessions, nonce, decoded>>

\* faketcp_session_mutate(TX) decides.  The packet is changed already; if it is
\* refused here, or a helper fails before, it is dropped.
CommitTX(c) ==
    /\ Running(c, "egress", "commit")
    /\ \/ Matches(c) /\ Step(c, "send") /\ UNCHANGED token
       \/ Done(c) /\ Release(c)
    /\ UNCHANGED <<sessions, nonce, decoded>>

\* The header is written and the packet leaves, or a helper fails.
Send(c) ==
    /\ cpu[c].at = "send"
    /\ Done(c) /\ Release(c)
    /\ UNCHANGED <<sessions, nonce, decoded>>

\* faketcp_authorize_userspace_control: an ACK needs an established session.
StartControl(c) ==
    /\ cpu[c] = Quiet /\ live
    /\ \E f \in Flows : Start(c, "control", f, 0)
    /\ UNCHANGED <<sessions, token, nonce, decoded>>

AuthorizeControl(c) ==
    /\ Running(c, "control", "snapshot")
    /\ IF Established(c) THEN Step(c, "send") ELSE Done(c)
    /\ UNCHANGED <<sessions, token, nonce, decoded>>

-----------------------------------------------------------------------------
(* XDP and TC ingress *)

\* A TCP segment for a managed port.
StartXDP(c) ==
    /\ cpu[c] = Quiet /\ live
    /\ \E f \in Flows : Start(c, "xdp", f, 0)
    /\ UNCHANGED <<sessions, token, nonce, decoded>>

\* faketcp_xdp_admission_checkpoint.  Without an established session everything but a
\* close becomes an event; with one, a SYN does, and a close that fits the snapshot.
\* All of these packets end here.
AdmitXDP(c) ==
    /\ Running(c, "xdp", "snapshot")
    /\ \E kind \in {"data", "keepalive", "syn", "close"} :
        IF Established(c) /\ kind \in {"data", "keepalive"}
        THEN cpu' = [cpu EXCEPT ![c].kind = kind, ![c].auth = Seen(c), ![c].at = "commit"]
        ELSE Done(c)
    /\ UNCHANGED <<sessions, token, nonce, decoded>>

\* faketcp_session_mutate(TOUCH or RX), through the pointer of the checkpoint.  Only a
\* data packet goes on, with the session's identity in its metadata.
CommitRX(c) ==
    /\ Running(c, "xdp", "commit")
    /\ \/ /\ Matches(c) /\ cpu[c].kind = "data" /\ Cardinality(decoded) < MaxDecoded
          /\ decoded' = decoded \cup {[flow |-> cpu[c].flow, auth |-> cpu[c].auth]}
       \/ UNCHANGED decoded
    /\ Done(c)
    /\ UNCHANGED <<sessions, token, nonce>>

\* GRO, a queue or an earlier filter loses the packet.
LoseDecoded ==
    /\ \E d \in decoded : decoded' = decoded \ {d}
    /\ UNCHANGED <<sessions, cpu, token, nonce>>

\* TC ingress, perhaps on another CPU; metadata is good for one packet, and a packet
\* without any is refused.
StartTC(c) ==
    /\ cpu[c] = Quiet /\ live
    /\ \E d \in decoded :
        /\ decoded' = decoded \ {d}
        /\ Start(c, "tc", d.flow, d.auth)
    /\ UNCHANGED <<sessions, token, nonce>>

\* faketcp_consume_ingress_admission: the session of the packet's own key still has
\* the identity XDP saw.
AdmitTC(c) ==
    /\ Running(c, "tc", "snapshot")
    /\ IF Matches(c) THEN Step(c, "deliver") ELSE Done(c)
    /\ UNCHANGED <<sessions, token, nonce, decoded>>

\* The type word and the XOR programs, then WireGuard.
Deliver(c) ==
    /\ Running(c, "tc", "deliver")
    /\ Done(c)
    /\ UNCHANGED <<sessions, token, nonce, decoded>>

-----------------------------------------------------------------------------

Userspace == Insert \/ Claim \/ Delete \/ Deactivate

Egress(c) ==
    \/ StartEgress(c) \/ AdmitDirect(c) \/ AdmitToken(c) \/ NotAdmitted(c)
    \/ XORFails(c) \/ XORCompletes(c) \/ Continue(c)
    \/ GSORefused(c) \/ GSOFails(c) \/ GSORewritten(c)
    \/ Encode(c) \/ CommitTX(c) \/ Send(c) \/ StartControl(c) \/ AuthorizeControl(c)

Ingress(c) ==
    StartXDP(c) \/ AdmitXDP(c) \/ CommitRX(c) \/ StartTC(c) \/ AdmitTC(c) \/ Deliver(c)

Next ==
    \/ Userspace \/ LoseDecoded
    \/ \E c \in CPUs : Lookup(c) \/ Egress(c) \/ Ingress(c)

Spec == Init /\ [][Next]_vars

-----------------------------------------------------------------------------
(* Properties *)

\* Every field has its type, and no token carries a nonce its CPU has not given out.
TypeOK ==
    /\ live \in BOOLEAN
    /\ map \in [Flows -> Elements \cup {none}]
    /\ \A e \in Elements : elem[e].id \in 0 .. MaxSession
    /\ nextID \in 1 .. MaxSession + 1
    /\ \A c \in CPUs :
        /\ cpu[c].at \in {"idle", "lookup", "snapshot", "xor", "gso", "continue", "encode",
                          "commit", "send", "deliver"}
        /\ token[c].nonce \in 0 .. nonce[c] /\ nonce[c] \in 0 .. MaxNonce

\* The flow has an established session with this identity.
Holds(f, id) == map[f] # none /\ elem[map[f]].id = id /\ elem[map[f]].state = "established"

\* Of every step: a data packet is let out or delivered only when, at that moment,
\* the session its admission saw is the established session of the packet's own
\* flow: never on the strength of a session that was claimed, deleted or replaced
\* since, and never on another flow's, although the pointers the programs hold may
\* by then lead there.
GrantedByOwnSession ==
    \A c \in CPUs :
        cpu[c].at # cpu'[c].at /\ cpu'[c].at \in {"send", "deliver"}
        /\ cpu[c].prog \in {"egress", "tc"} => Holds(cpu[c].flow, cpu[c].auth)

NeedsToken(c) ==
    \/ cpu[c].at \in {"xor", "gso", "continue"}
    \/ cpu[c].kind = "gso" /\ cpu[c].at \in {"encode", "commit", "send"}

\* An admission token serves the packet it was armed for and no other: while the
\* packet needs it, it is in the slot of the packet's CPU, and when no packet of that
\* CPU needs it, it has been cleared, or it is the untouched token of an aggregate
\* that was refused, which the next admission clears.
TokenServesItsPacket ==
    \A c \in CPUs :
        /\ NeedsToken(c) => token[c].nonce = cpu[c].cb
        /\ token[c] # NoToken /\ token[c].nonce # cpu[c].cb =>
            token[c].kind = "gso" /\ token[c].state = "armed"
=============================================================================

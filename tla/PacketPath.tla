----------------------------- MODULE PacketPath -----------------------------
(***************************************************************************)
(* The packet path of the plain BPF object (wg_mix_tc.c): wg_mix_egress,   *)
(* wg_mix_ingress and the XOR programs they tail-call, against the loader  *)
(* that publishes one generation of the policy maps after another          *)
(* (populateDataMaps, populateXORTailCalls, commitControl,                 *)
(* deleteStaleMapEntries).                                                 *)
(*                                                                         *)
(* A program reads control_map once and then one map at a time, each under *)
(* the generation it read; the loader may publish the next generation, and *)
(* delete this one, between any two of those lookups and between two       *)
(* programs of a tail-call chain.                                          *)
(*                                                                         *)
(* A payload is a row of units, the first of them the type word.  For each *)
(* unit the model keeps the ciphers that are XORed onto it, so that a      *)
(* second XOR with the same cipher takes the first away.                   *)
(***************************************************************************)
EXTENDS Naturals, Sequences

CONSTANTS
    MaxGen,         \* the last generation the loader publishes
    Policy,         \* what each generation configures
    Kinds,          \* the WireGuard message types
    Lengths,        \* the payload lengths, in units
    SegmentUnits,   \* XOR_SEGMENT_BYTES
    SegmentCount,   \* XOR_SEGMENT_COUNT
    MaxAbandons     \* how often an apply or the pruning of a map is left unfinished

Gens == 1 .. MaxGen

NoCipher == "no cipher"

\* validate_len refuses a payload shorter than a type word, and the limits of a
\* cipher are within MAX_XOR_BYTES.
PolicyAssumption ==
    /\ 0 \notin Lengths
    /\ \A g \in Gens :
        /\ Policy[g].profile # "standard"
        /\ Policy[g].cipher # NoCipher =>
            Policy[g].max \in 1 .. SegmentUnits * SegmentCount

\* The static maps, in the order in which the loader fills and prunes them.
Maps == <<"profile", "cipher", "underlay", "managed", "rule", "listener", "icmp">>

\* What parse_packet and the checks of the type word and the length can see.
Shapes == {"good", "first fragment", "late fragment", "ipv6 ext", "bad checksum", "not udp",
           "bad type", "bad length"}

VARIABLES
    active,     \* control_map: the generation packets are served under, 0 for none
    entries,    \* for each map the generations it has entries of
    banks,      \* the parities whose XOR tail-call bank is filled
    loader,     \* the apply in progress: [at, gen, i]
    abandons,   \* how often something was left unfinished so far
    p,          \* the packet a CPU works on, or the last one
    echoed      \* icmp_seq_map: the sequence each generation remembers, 0 for none

vars == <<active, entries, banks, loader, abandons, p, echoed>>

control == <<active, entries, banks, loader, abandons>>

Standard(k) == [profile |-> "standard", kind |-> k]

Plain(n) == [u \in 1 .. n |-> {}]

NoContext == [gen |-> 0, target |-> 0]

Packet(form, seq, word, keys) == [form |-> form, seq |-> seq, word |-> word, keys |-> keys]

Nothing == Packet("udp", 0, Standard(CHOOSE k \in Kinds : TRUE), Plain(1))

Init ==
    /\ active = 0
    /\ entries = [m \in {Maps[i] : i \in DOMAIN Maps} |-> {}]
    /\ banks = {}
    /\ loader = [at |-> "idle", gen |-> 0, i |-> 1]
    /\ abandons = 0
    /\ p = [hook |-> "egress", at |-> "idle", gen |-> 0, shape |-> "good",
            was |-> Nothing, now |-> Nothing, cb |-> NoContext, seg |-> 0,
            out |-> "drop", why |-> "shape"]
    /\ echoed = [g \in Gens |-> 0]

-----------------------------------------------------------------------------
(* The loader *)

Load(at, g, i) == loader' = [at |-> at, gen |-> g, i |-> i]

Forget(g) == entries' = [m \in DOMAIN entries |-> entries[m] \ {g}]

\* applyExactTCX: the entries an earlier attempt left under this number go first.
BeginApply ==
    /\ loader.at = "idle" /\ active < MaxGen
    /\ Forget(active + 1)
    /\ Load("fill", active + 1, 1)
    /\ UNCHANGED <<active, banks, abandons, p, echoed>>

FillMap ==
    /\ loader.at = "fill" /\ loader.i \in DOMAIN Maps
    /\ entries' = [entries EXCEPT ![Maps[loader.i]] = @ \cup {loader.gen}]
    /\ Load(IF loader.i = Len(Maps) THEN "bank" ELSE "fill", loader.gen, loader.i + 1)
    /\ UNCHANGED <<active, banks, abandons, p, echoed>>

\* An update fails: the entries of the new generation are taken back.
FillFails ==
    /\ loader.at = "fill"
    /\ Forget(loader.gen)
    /\ Load("idle", 0, 1)
    /\ UNCHANGED <<active, banks, abandons, p, echoed>>

\* xorTailCallBankStart: the bank of the parity of the generation.
FillBank ==
    /\ loader.at = "bank"
    /\ banks' = banks \cup {loader.gen % 2}
    /\ Load("commit", loader.gen, 1)
    /\ UNCHANGED <<active, entries, abandons, p, echoed>>

\* A later step of the apply fails; the entries stay for the next attempt to delete.
ApplyFails ==
    /\ loader.at \in {"bank", "commit"}
    /\ Load("idle", 0, 1)
    /\ UNCHANGED <<active, entries, banks, abandons, p, echoed>>

\* Mutant: the new generation is published before its maps are filled.
EarlyCommit ==
    /\ loader.at \in {"fill", "commit"}
    /\ active' = loader.gen
    /\ Load(IF loader.at = "fill" THEN "fill" ELSE "stale", loader.gen, loader.i)
    /\ UNCHANGED <<entries, banks, abandons, p, echoed>>

Commit ==
    /\ loader.at = "commit"
    /\ active' = loader.gen
    /\ Load("stale", loader.gen, 1)
    /\ UNCHANGED <<entries, banks, abandons, p, echoed>>

\* Mutant: stale entries are pruned as soon as the new ones are in.
PruneEarly ==
    /\ loader.at \in {"commit", "stale"} /\ loader.i \in DOMAIN Maps
    /\ entries' = [entries EXCEPT ![Maps[loader.i]] = {loader.gen}]
    /\ Load(IF loader.i < Len(Maps) THEN loader.at
            ELSE IF loader.at = "commit" THEN "commit" ELSE "idle", loader.gen, loader.i + 1)
    /\ UNCHANGED <<active, banks, abandons, p, echoed>>

NextStale == IF loader.i < Len(Maps) THEN Load("stale", loader.gen, loader.i + 1) ELSE Load("idle", 0, 1)

DeleteStale ==
    /\ loader.at = "stale"
    /\ entries' = [entries EXCEPT ![Maps[loader.i]] = {loader.gen}]
    /\ NextStale
    /\ UNCHANGED <<active, banks, abandons, p, echoed>>

\* A map that cannot be pruned does not keep the others from being pruned.
DeleteFails ==
    /\ loader.at = "stale" /\ abandons < MaxAbandons
    /\ abandons' = abandons + 1
    /\ NextStale
    /\ UNCHANGED <<active, entries, banks, p, echoed>>

\* The agent dies, or gives the apply up after the commit; what is in the kernel
\* stays there.
Abandon ==
    /\ loader.at # "idle" /\ abandons < MaxAbandons
    /\ abandons' = abandons + 1
    /\ Load("idle", 0, 1)
    /\ UNCHANGED <<active, entries, banks, p, echoed>>

-----------------------------------------------------------------------------
(* Packets arrive and leave *)

Idle == p.at = "idle"

At(hook, at) == p.hook = hook /\ p.at = at

Arrive(hook, packet) ==
    p' = [hook |-> hook, at |-> "generation", gen |-> 0, shape |-> "good",
          was |-> packet, now |-> packet, cb |-> NoContext, seg |-> 0, out |-> "", why |-> ""]

\* WireGuard sends a message: UDP, a standard type word, no cipher.
Send ==
    /\ Idle
    /\ \E k \in Kinds, n \in Lengths :
        Arrive("egress", Packet("udp", 0, Standard(k), Plain(n)))
    /\ UNCHANGED <<control, echoed>>

\* xor_payload_target: the units the cipher of a generation covers, 0 for none or
\* for a payload that is too long.
Target(g, n) ==
    IF Policy[g].cipher = NoCipher THEN 0
    ELSE IF n <= Policy[g].max THEN n
    ELSE IF Policy[g].prefix THEN Policy[g].max ELSE 0

\* What the rules of generation g make of a message of n units: the packet that
\* leaves here, and with the other ICMP role the packet the peer sends.
Encoded(g, role, seq, k, n) ==
    Packet(IF Policy[g].transport = "udp" THEN "udp"
           ELSE IF role = "server" THEN "reply" ELSE "request",
           seq,
           [profile |-> Policy[g].profile, kind |-> k],
           [u \in 1 .. n |-> IF u <= Target(g, n) THEN {Policy[g].cipher} ELSE {}])

\* The peer's message.  The peer may be some generations ahead or behind.
Receive ==
    /\ Idle
    /\ \E g \in Gens, k \in Kinds, n \in Lengths :
        /\ Policy[g].cipher = NoCipher \/ Target(g, n) > 0
        /\ Arrive("ingress",
                  Encoded(g, IF Policy[g].role = "server" THEN "client" ELSE "server",
                          IF Policy[g].transport = "udp" THEN 0 ELSE 1, k, n))
    /\ UNCHANGED <<control, echoed>>

\* Somebody else's packet.
ReceiveOther ==
    /\ Idle
    /\ \E form \in {"udp", "request", "reply"}, k \in Kinds :
        Arrive("ingress", Packet(form, 0, Standard(k), Plain(1)))
    /\ UNCHANGED <<control, echoed>>

Go(at) == p' = [p EXCEPT !.at = at]

\* The program returns.  The XOR context does not outlive it.
Finish(out, why, was, now) ==
    p' = [p EXCEPT !.at = "idle", !.shape = "good", !.cb = NoContext, !.seg = 0,
                   !.was = was, !.now = now, !.out = out, !.why = why]

\* TC_ACT_OK, TC_ACT_SHOT, and TC_ACT_OK for a packet that was changed.
Pass(why) == Finish("pass", why, p.was, p.now)

Drop(why) == Finish("drop", why, Nothing, Nothing)

Rewritten(packet) == Finish("pass", "rewritten", p.was, packet)

Rule == Policy[p.gen]

\* Every key holds the generation, and every value is compared with it again.
Found(m) == p.gen \in entries[m]

-----------------------------------------------------------------------------
(* Both hooks *)

\* active_generation: the only time a program looks at control_map.
ReadGeneration ==
    /\ p.at = "generation"
    /\ IF active = 0 THEN Pass("inactive")
       ELSE p' = [p EXCEPT !.gen = active,
                           !.at = IF p.hook = "egress" THEN "managed" ELSE "parse"]
    /\ UNCHANGED <<control, echoed>>

\* What parse_packet makes of a packet.  Without the entry lookup_parser_mode asks for
\* the link is parsed by guessing, which may not find the headers.
Parsed(shape, seen) == (seen = shape) \/ (seen = "not udp" /\ ~Found("underlay"))

GoAs(at, shape) == p' = [p EXCEPT !.at = at, !.shape = shape]

LookupProfile ==
    /\ p.at = "profile"
    /\ IF ~Found("profile") THEN Drop("missing")
       ELSE IF p.hook = "egress" /\ Rule.cipher # NoCipher /\ Rule.transport # "udp"
            THEN Drop("policy")
            ELSE Go("rewrite")
    /\ UNCHANGED <<control, echoed>>

XOR(keys, key) == IF key \in keys THEN keys \ {key} ELSE keys \cup {key}

\* Mutant: the last unit of a segment that ends with the target is left out.
ShortSegment(target, segment, start) ==
    {u \in 1 .. target : u > start /\ u > segment * SegmentUnits
                                   /\ u < (segment + 1) * SegmentUnits}

\* Mutant: ingress XORs the type word again, which it has already replaced.
WholeSegment(target, segment, start) ==
    {u \in 1 .. target : u > segment * SegmentUnits /\ u <= (segment + 1) * SegmentUnits}

\* xor_segment_bounds: the units of one segment, from the first after start.
SegmentBounds(target, segment, start) ==
    {u \in 1 .. target : u > start /\ u > segment * SegmentUnits
                                   /\ u <= (segment + 1) * SegmentUnits}

\* Mutant: a target that fills its segment starts one more.
MoreAtBoundary(target, segment) == target >= (segment + 1) * SegmentUnits

HasMore(target, segment) == target > (segment + 1) * SegmentUnits

\* prepare_xor_context_by_id, then the type word, then the first XOR program.
Prepare(packet) ==
    LET target == Target(p.gen, Len(p.now.keys)) IN
    IF ~Found("cipher") THEN Drop("missing")
    ELSE IF target = 0 THEN Drop("overflow")
    ELSE p' = [p EXCEPT !.at = "tail", !.seg = 0, !.now = packet,
                        !.cb = [gen |-> p.gen, target |-> target]]

\* bpf_tail_call through the bank of the generation in the context; a call that
\* finds no program returns, and the packet is dropped.
TailCall ==
    /\ p.at = "tail"
    /\ IF p.cb.gen % 2 \in banks /\ p.seg < SegmentCount
       THEN Go("segment")
       ELSE Drop("missing")
    /\ UNCHANGED <<control, echoed>>

\* Mutant: a segment takes the cipher of the generation that is active now.
ActiveCipher == active

\* lookup_cipher(context.cipher_id, context.generation).
SegmentCipher == p.cb.gen

\* run_xor_egress_segment, run_xor_ingress_segment.  Ingress starts behind the
\* type word.
Segment ==
    /\ p.at = "segment"
    /\ LET g == SegmentCipher
           start == IF p.hook = "egress" THEN 0 ELSE 1
           units == SegmentBounds(p.cb.target, p.seg, start)
           keys == [u \in DOMAIN p.now.keys |->
                        IF u \in units THEN XOR(p.now.keys[u], Policy[g].cipher)
                        ELSE p.now.keys[u]]
           packet == [p.now EXCEPT !.keys = keys]
       IN IF g \notin entries["cipher"] THEN Drop("missing")
          ELSE IF p.cb.target <= p.seg * SegmentUnits THEN Drop("overflow")
          ELSE IF HasMore(p.cb.target, p.seg)
          THEN p' = [p EXCEPT !.at = "tail", !.seg = @ + 1, !.now = packet]
          ELSE Rewritten(packet)
    /\ UNCHANGED <<control, echoed>>

\* remember_icmp_sequence: a server remembers an echo request, before it rewrites it.
Remember ==
    echoed' = IF Rule.role = "server" /\ p.now.form = "request"
              THEN [echoed EXCEPT ![p.gen] = p.now.seq] ELSE echoed

\* A helper that loads, stores or sums bytes of the packet fails.
HelperFails ==
    /\ p.at \in {"rule", "rewrite", "segment", "icmp profile", "icmp rewrite"}
    /\ Drop("helper")
    /\ IF p.at = "icmp rewrite" THEN Remember ELSE UNCHANGED echoed
    /\ UNCHANGED control

-----------------------------------------------------------------------------
(* wg_mix_egress *)

\* managed_miss_action.
Miss(why) == IF Rule.miss = "drop" THEN Drop(why) ELSE Pass(why)

LookupManaged ==
    /\ At("egress", "managed")
    /\ \E mark \in BOOLEAN :
        IF ~mark THEN Pass("unmanaged")
        ELSE IF Found("managed") THEN Go("parse") ELSE Pass("missing")
    /\ UNCHANGED <<control, echoed>>

ParseEgress ==
    /\ At("egress", "parse")
    /\ \E shape, seen \in Shapes :
        /\ Parsed(shape, seen)
        /\ IF seen \in {"first fragment", "late fragment", "ipv6 ext"} THEN Drop("shape")
           ELSE IF seen \in {"bad checksum", "not udp"} THEN Miss(IF seen = shape THEN "shape" ELSE "missing")
           ELSE GoAs("rule", shape)
    /\ UNCHANGED <<control, echoed>>

\* The rule, its action, the kind of the type word and the length.
LookupRule ==
    /\ At("egress", "rule")
    /\ IF ~Found("rule") THEN Miss("missing")
       ELSE IF Rule.action = "drop" THEN Drop("policy")
       ELSE IF Rule.action # "rewrite" THEN Pass("policy")
       ELSE IF p.shape \in {"bad type", "bad length"} THEN Drop("shape")
       ELSE Go("profile")
    /\ UNCHANGED <<control, echoed>>

\* profile_mixed_from_kind, update_type_word.
Mixed == [profile |-> Rule.profile, kind |-> p.now.word.kind]

\* rewrite_udp_to_icmp: a client sends echo requests, a server answers with echo
\* replies, under the sequence lookup_icmp_sequence finds.
AsICMP ==
    Packet(IF Rule.role = "server" THEN "reply" ELSE "request",
           IF Rule.role = "server" THEN echoed[p.gen] ELSE 0, Mixed, p.now.keys)

RewriteEgress ==
    /\ At("egress", "rewrite")
    /\ IF Rule.transport = "icmp" THEN Rewritten(AsICMP)
       ELSE IF Rule.cipher # NoCipher THEN Prepare([p.now EXCEPT !.word = Mixed])
       ELSE Rewritten([p.now EXCEPT !.word = Mixed])
    /\ UNCHANGED <<control, echoed>>

-----------------------------------------------------------------------------
(* wg_mix_ingress *)

\* parse_icmp_packet, then parse_packet and parse_result_has_ingress_port.
ParseIngress ==
    /\ At("ingress", "parse")
    /\ IF p.now.form # "udp" THEN Go("icmp listener")
       ELSE \E shape, seen \in Shapes :
            /\ Parsed(shape, seen)
            /\ IF seen \in {"late fragment", "not udp"}
               THEN Pass(IF seen = shape THEN "unmanaged" ELSE "missing")
               ELSE GoAs("listener", shape)
    /\ UNCHANGED <<control, echoed>>

LookupListener ==
    /\ At("ingress", "listener")
    /\ IF Rule.transport = "icmp" THEN Pass("unmanaged")
       ELSE IF ~Found("listener") THEN Pass("missing")
       ELSE IF p.shape \in {"first fragment", "ipv6 ext", "bad checksum"} THEN Drop("shape")
       ELSE IF Rule.action = "drop" THEN Drop("policy")
       ELSE IF Rule.action # "rewrite" THEN Pass("policy")
       ELSE Go("profile")
    /\ UNCHANGED <<control, echoed>>

\* Mutant: the profile is not asked whether it knows the type word.
AnyWord(keys) == keys = {}

\* profile_decode_mixed of the type word, with these ciphers still on it.
Decodes(keys) == keys = {} /\ p.now.word.profile = Rule.profile

Decoded == [p.now EXCEPT !.word = Standard(p.now.word.kind)]

\* load_xor_ingress_metadata decrypts a copy of the type word; the word written
\* back is the standard one, and only the rest is left to the XOR programs.
RewriteIngress ==
    /\ At("ingress", "rewrite")
    /\ LET word == IF Rule.cipher = NoCipher THEN p.now.keys[1]
                   ELSE XOR(p.now.keys[1], Rule.cipher)
       IN IF Rule.cipher # NoCipher /\ ~Found("cipher") THEN Drop("missing")
          ELSE IF ~Decodes(word) \/ p.shape # "good" THEN Drop("shape")
          ELSE IF Rule.cipher = NoCipher THEN Rewritten(Decoded)
          ELSE Prepare([Decoded EXCEPT !.keys[1] = {}])
    /\ UNCHANGED <<control, echoed>>

\* The type in the listener's key: a server takes requests, a client replies.
PeerForm == IF Rule.role = "server" THEN "request" ELSE "reply"

LookupICMP ==
    /\ At("ingress", "icmp listener")
    /\ IF Rule.transport # "icmp" \/ p.now.form # PeerForm THEN Pass("unmanaged")
       ELSE IF ~Found("icmp") THEN Pass("missing")
       ELSE IF Rule.action = "drop" THEN Drop("policy")
       ELSE IF Rule.action # "rewrite" THEN Pass("policy")
       ELSE Go("icmp profile")
    /\ UNCHANGED <<control, echoed>>

\* icmp_bad_ingress_action: behind a wildcard listener a packet with another type
\* word is an ordinary ping.
DecodeICMP ==
    /\ At("ingress", "icmp profile")
    /\ \E shape \in {"good", "bad length"} :
        IF ~Found("profile") THEN Drop("missing")
        ELSE IF Decodes(p.now.keys[1]) /\ shape = "good" THEN Go("icmp rewrite")
        ELSE IF Rule.wildcard THEN Pass("shape") ELSE Drop("shape")
    /\ UNCHANGED <<control, echoed>>

\* rewrite_icmp_to_udp.
RewriteICMP ==
    /\ At("ingress", "icmp rewrite")
    /\ Rewritten([Decoded EXCEPT !.form = "udp", !.seq = 0])
    /\ Remember
    /\ UNCHANGED control

-----------------------------------------------------------------------------

Loader ==
    \/ BeginApply \/ FillMap \/ FillFails \/ FillBank \/ ApplyFails \/ Commit \/ DeleteStale
    \/ DeleteFails \/ Abandon

Arrivals == Send \/ Receive \/ ReceiveOther

Egress == LookupManaged \/ ParseEgress \/ LookupRule \/ RewriteEgress

Ingress ==
    \/ ParseIngress \/ LookupListener \/ RewriteIngress
    \/ LookupICMP \/ DecodeICMP \/ RewriteICMP

Program == ReadGeneration \/ LookupProfile \/ TailCall \/ Segment \/ HelperFails

Next == Loader \/ Arrivals \/ Egress \/ Ingress \/ Program

Spec == Init /\ [][Next]_vars

-----------------------------------------------------------------------------
(* Properties *)

\* Every field has its type; a program has an outcome exactly when it has returned.
TypeOK ==
    /\ active \in 0 .. MaxGen
    /\ \A m \in DOMAIN entries : entries[m] \subseteq Gens
    /\ banks \subseteq {0, 1}
    /\ loader.at \in {"idle", "fill", "bank", "commit", "stale"}
    /\ loader.gen \in 0 .. MaxGen /\ loader.i \in 1 .. Len(Maps) + 1
    /\ abandons \in 0 .. MaxAbandons
    /\ p.gen \in 0 .. MaxGen /\ p.seg \in 0 .. SegmentCount
    /\ DOMAIN p.now.keys = DOMAIN p.was.keys
    /\ p.out \in {"", "pass", "drop"} /\ (p.out = "" <=> p.at # "idle")
    /\ echoed \in [Gens -> 0 .. 1]

Done(out) == p.at = "idle" /\ p.out = out

\* A packet leaves as it came, or wholly rewritten under the rules of one
\* generation: an egress packet is what those rules make of the message, and an
\* ingress packet that those rules made is the message again.  No packet leaves with
\* some segments of its payload XORed and others not, or with the type word of one
\* generation and the cipher of another, however the loader moves in between.
PacketWhole ==
    Done("pass") =>
        IF p.why # "rewritten" THEN p.now = p.was
        ELSE LET k == p.was.word.kind
                 n == Len(p.was.keys)
             IN IF p.hook = "egress"
                THEN /\ p.was = Packet("udp", 0, Standard(k), Plain(n))
                     /\ p.now = Encoded(p.gen, Policy[p.gen].role,
                                        IF Policy[p.gen].transport = "udp" THEN 0
                                        ELSE echoed[p.gen], k, n)
                ELSE /\ p.was.word.profile = Policy[p.gen].profile
                     /\ (\E role \in {"server", "client"}, seq \in 0 .. 1 :
                            p.was = Encoded(p.gen, role, seq, k, n))
                        => p.now = Packet("udp", 0, Standard(k), Plain(n))

\* The rules of the active generation are complete: an entry or an XOR program is
\* missing, and the packet dropped or let through untouched for that, only when the
\* generation the packet was read under has been replaced meanwhile.
ServedByActive ==
    p.why = "missing" => p.gen # active
=============================================================================

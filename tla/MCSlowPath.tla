----------------------------- MODULE MCSlowPath -----------------------------
(***************************************************************************)
(* What carries packets, for TLC: the Controller, the raw backend and the  *)
(* recovery of unfinished actions, which carry the engine's actions out,   *)
(* the programs of the plain dataplane under reloads, and what FakeTCP     *)
(* does to the bytes of a segment, as instances side by side.  They share  *)
(* no variable, except those of one module with one another, and only the  *)
(* one that part names moves.                                              *)
(*                                                                         *)
(* Controlled has two callers of two flows on two CPUs with room for one   *)
(* stream in the ledger; Backend three callers, Closing two of them and    *)
(* two closers; Recovery two Controllers of two identities on one checkpoint   *)
(* store, releasing a packet after a handshake answer, or one capture      *)
(* twice.  Packets has four policies: two ciphers of different limits that *)
(* share a bank of tail calls, each followed by a policy without one, over *)
(* ICMP and with a rule that drops.  Bytes sends many datagrams, one       *)
(* packet at a time, Stream few of them in two packets of up to three      *)
(* segments across the wrap of the sequence number, and Noisy damages a    *)
(* byte.                                                                   *)
(***************************************************************************)
EXTENDS Integers, Sequences

CONSTANTS c1, c2, c3, k1, k2, f1, f2, u1, u2, d1, d2, p1, p2

VARIABLES
    part,
    caller, opMu, inflight, life, failed, closer, flow, captured, ledger, faults, acked, early,
    bCaller, bLedger, result, bInflight, bLife, refusing, owned, bCloser, written, bFaults,
    slot, nextRev, inst, ops, rFaults,
    active, entries, banks, loader, abandons, p, echoed,
    cipher, tx, offset, wire, rx, high, got, sends, damaged

controlledVars == <<caller, opMu, inflight, life, failed, closer, flow, captured, ledger, faults,
                    acked, early>>
backendVars == <<bCaller, bLedger, result, bInflight, bLife, refusing, owned, bCloser, written,
                 bFaults>>
recoveryVars == <<slot, nextRev, inst, ops, rFaults>>
packetVars == <<active, entries, banks, loader, abandons, p, echoed>>
codecVars == <<cipher, tx, offset, wire, rx, high, got, sends, damaged>>
vars == <<part, controlledVars, backendVars, recoveryVars, packetVars, codecVars>>

Controlled == INSTANCE Controller
    WITH Callers <- {c1, c2}, Closers <- {k1, k2}, Flows <- {f1, f2}, Cpus <- {u1, u2},
         MaxCaptures <- 2, MaxStreams <- 1, MaxFaults <- 2

Backend == INSTANCE RawBackend
    WITH Callers <- {c1, c2, c3}, Closers <- {}, Cpus <- {u1, u2},
         MaxSeq <- 2, MaxStreams <- 2, MaxFaults <- 1,
         caller <- bCaller, ledger <- bLedger, inflight <- bInflight, life <- bLife,
         closer <- bCloser, faults <- bFaults

Closing == INSTANCE RawBackend
    WITH Callers <- {c1, c2}, Closers <- {k1, k2}, Cpus <- {u1, u2},
         MaxSeq <- 2, MaxStreams <- 2, MaxFaults <- 2,
         caller <- bCaller, ledger <- bLedger, inflight <- bInflight, life <- bLife,
         closer <- bCloser, faults <- bFaults

Recovery == INSTANCE ActionRecovery
    WITH Instances <- {c1, c2}, Identities <- {d1, d2}, Packets <- {p1, p2},
         Batches <- {<<"control", p1>>, <<p1, p1, "control">>},
         MaxOps <- 2, MaxRevision <- 6, MaxFaults <- 1, faults <- rFaults

Reload(profile, key, max, prefix, transport, miss, action, role) ==
    [profile |-> profile, cipher |-> key, max |-> max, prefix |-> prefix,
     transport |-> transport, miss |-> miss, action |-> action,
     role |-> role, wildcard |-> role = "server"]

Packets == INSTANCE PacketPath
    WITH MaxGen <- 4, Kinds <- {1}, Lengths <- {5}, SegmentUnits <- 2, SegmentCount <- 2,
         MaxAbandons <- 1,
         Policy <- << Reload("a", "x", 4, TRUE, "udp", "drop", "rewrite", "client"),
                      Reload("b", "no cipher", 1, FALSE, "icmp", "pass", "rewrite", "server"),
                      Reload("a", "y", 3, FALSE, "udp", "pass", "rewrite", "client"),
                      Reload("b", "no cipher", 1, FALSE, "udp", "drop", "drop", "client") >>

\* The geometry of the codec: a payload of 7 fits the MTU, one of 8 does not.
Base == 8
HandshakeLength == 6
MinSegment == 5
CheckChunk == 4
XORChunk == 4
XORSegment == 4
MTU == 21
MaxSingle == 17
MaxTotal == 63
FirstSequence == 4090
Noise == {0, 7}
Mixed == << <<6, 1>>, <<2, 5>> >>
Cipher(max, prefix) == [key |-> <<3, 5, 6, 1, 7, 2, 4, 3>>, max |-> max, prefix |-> prefix]
Ciphers == {Cipher(0, FALSE), Cipher(6, FALSE), Cipher(5, TRUE)}
Datagram(kind, rest) == <<kind, 0>> \o rest
Datagrams == {Datagram(1, <<7, 0, 3, 1>>), Datagram(2, <<1, 6, 2>>), Datagram(2, <<0, 7, 7, 5, 1>>),
              Datagram(2, <<4, 4>>), Datagram(3, <<1, 1, 2, 2>>), Datagram(2, <<1, 2, 3, 4, 5, 6>>)}

Bytes == INSTANCE SegmentCodec
    WITH Messages <- {Datagram(2, rest) : rest \in [1 .. 3 -> {0, 7}] \cup [1 .. 4 -> {0, 7}]},
         MaxMessages <- 2, MaxSends <- 1, MaxDamaged <- 0

Stream == INSTANCE SegmentCodec
    WITH Messages <- Datagrams, MaxMessages <- 3, MaxSends <- 2, MaxDamaged <- 0

Noisy == INSTANCE SegmentCodec
    WITH Messages <- Datagrams, MaxMessages <- 3, MaxSends <- 1, MaxDamaged <- 1

ASSUME InstancesAssumption ==
    Recovery!BatchesAssumption /\ Packets!PolicyAssumption /\ Stream!CodecAssumption

Init ==
    /\ part \in {"controller", "backend", "closing", "recovery", "packets", "bytes", "stream", "noise"}
    /\ Controlled!Init
    /\ IF part = "closing" THEN Closing!Init ELSE Backend!Init
    /\ Recovery!Init
    /\ Packets!Init
    /\ Stream!Init
    /\ part \in {"bytes", "stream", "noise"} \/ cipher = Cipher(0, FALSE)

Next ==
    \/ /\ part = "controller" /\ Controlled!Next
       /\ UNCHANGED <<part, backendVars, recoveryVars, packetVars, codecVars>>
    \/ /\ \/ part = "backend" /\ Backend!Next
          \/ part = "closing" /\ Closing!Next
       /\ UNCHANGED <<part, controlledVars, recoveryVars, packetVars, codecVars>>
    \/ /\ part = "recovery" /\ Recovery!Next
       /\ UNCHANGED <<part, controlledVars, backendVars, packetVars, codecVars>>
    \/ /\ part = "packets" /\ Packets!Next
       /\ UNCHANGED <<part, controlledVars, backendVars, recoveryVars, codecVars>>
    \/ /\ \/ part = "bytes" /\ Bytes!Next
          \/ part = "stream" /\ Stream!Next
          \/ part = "noise" /\ Noisy!Next
       /\ UNCHANGED <<part, controlledVars, backendVars, recoveryVars, packetVars>>

Spec == Init /\ [][Next]_vars

-----------------------------------------------------------------------------
\* Every variable of every instance has its type.
TypeOK ==
    CASE part = "controller" -> Controlled!TypeOK
      [] part = "backend" -> Backend!TypeOK
      [] part = "closing" -> Closing!TypeOK
      [] part = "recovery" -> Recovery!TypeOK
      [] part = "packets" -> Packets!TypeOK
      [] part = "bytes" -> Bytes!TypeOK
      [] part = "stream" -> Stream!TypeOK
      [] part = "noise" -> Noisy!TypeOK

\* Controller.Close, RawBackend.Close: what is being closed, or was, is used by no
\* admitted operation.
ClosedIsUnused ==
    /\ part = "controller" => Controlled!BackendUnused
    /\ part = "closing" => Closing!WriterUnused

\* onceReinjector.Reinject, executeActionStep, Recover: a captured packet is
\* written at most once, over duplicates, failed writes, crashes and overlapping
\* Controllers, and captures of one CPU are written in their order.
WrittenOnce ==
    /\ [](part \in {"backend", "closing"} => Backend!WrittenOnce)
    /\ [](part = "recovery" => Recovery!AtMostOnce)
    /\ [][part = "backend" => Backend!WritesInOrder]_vars
    /\ [][part = "closing" => Closing!WritesInOrder]_vars

\* executeActions: no packet of a flow overtakes the flow's acknowledgement, and
\* once an action has failed nothing moves the Engine or the backend.
\* resumeCheckpoint, Delete: no step is attempted before the control packets ahead
\* of it, a checkpoint goes only when its control packets were sent, and only an
\* instance of its identity works on it.
ActionsInOrder ==
    /\ [](part = "controller" => Controlled!AckFirst)
    /\ [][part = "controller" => Controlled!FailedIsFinal]_vars
    /\ [](part = "recovery" => /\ Recovery!ControlsFirst
                               /\ Recovery!ControlsNotLost
                               /\ Recovery!OwnCheckpoint)

\* wg_mix_egress, wg_mix_ingress, run_xor_*_segment, populateDataMaps: over reloads
\* at any point a packet leaves the programs untouched, dropped or rewritten and
\* enciphered whole by one generation, and what its peer sent comes back as it was;
\* and the maps always hold what the active generation serves packets with.
\* faketcp_encode_*, faketcp_xdp_ingress_body: a datagram or an aggregate sent as TCP
\* segments the peer accepts comes out as it was with a checksum that verifies, or, if
\* damaged on the way, with one that does not; and the segments number one stream.
PacketsWhole ==
    /\ part = "packets" => Packets!PacketWhole /\ Packets!ServedByActive
    /\ part \in {"bytes", "stream", "noise"} =>
          /\ Stream!DatagramWhole
          /\ Stream!SegmentsAccepted
          /\ Stream!StreamContiguous
=============================================================================

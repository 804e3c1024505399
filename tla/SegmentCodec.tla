---------------------------- MODULE SegmentCodec ----------------------------
(***************************************************************************)
(* What FakeTCP does to the bytes: the admission of a UDP packet or of an  *)
(* aggregate by the kernel module, the type word and the XOR of every      *)
(* segment, the rotation of the payload that makes room for the longer     *)
(* header, the TCP checksum and sequence numbers; and at the peer the XDP  *)
(* program and TC ingress, which undo all of it and carry the checksum     *)
(* over by differences.  Between them a network that loses, duplicates,    *)
(* reorders and damages segments.                                          *)
(*                                                                         *)
(* The model is a scaled one.  A byte has Base values, a checksum word two *)
(* bytes and a sequence number two words.  Headers keep what decides: the  *)
(* ports are one word, as are acknowledgement and window, so that a TCP    *)
(* header is HeaderDelta = 4 bytes longer than a UDP header (12 in the     *)
(* code) and a type word is half of that.                                  *)
(***************************************************************************)
EXTENDS Integers, SequencesExt, Bitwise

CONSTANTS
    Base,           \* values of a byte
    Messages,       \* the datagrams WireGuard sends
    MaxMessages,    \* datagrams in one aggregate
    MaxSends,       \* packets sent
    MaxDamaged,     \* segments the network damages
    Noise,          \* what a damaged byte may become
    Ciphers,        \* what cipher a rule may name: [key, max, prefix]
    Mixed,          \* standard_to_mixed, for the two message types
    HandshakeLength,\* the length of the first, of fixed size
    MinSegment,     \* the least length of the second, 32 in the code
    CheckChunk,     \* FAKETCP_CHECKSUM_CHUNK_BYTES
    XORChunk,       \* FAKETCP_GSO_XOR_CHUNK_BYTES
    XORSegment,     \* XOR_SEGMENT_BYTES, the share of one tail call
    MTU,            \* the lesser of the device's and the route's
    MaxSingle,      \* FAKETCP_MAX_IPV4_TOTAL_LEN
    MaxTotal,       \* U16_MAX
    FirstSequence   \* tx_sequence of the session, rx_sequence of the peer's

VARIABLES
    cipher,     \* of the rule and of the peer's listener; max is 0 for none
    tx,         \* session->tx_sequence
    offset,     \* the bytes that number stands for since FirstSequence
    wire,       \* segments in the network
    rx,         \* the peer's session->rx_sequence
    high,       \* the highest offset a segment reached the peer with
    got,        \* the datagram the peer handed on last
    sends, damaged

vars == <<cipher, tx, offset, wire, rx, high, got, sends, damaged>>

Word == Base * Base
SequenceMod == Word * Word

IPLength == 4
UDPLength == 6
TCPLength == 10
HeaderDelta == TCPLength - UDPLength
TypeLength == HeaderDelta \div 2

CodecAssumption ==
    /\ HeaderDelta < MinSegment /\ MinSegment <= HandshakeLength
    /\ CheckChunk % 2 = 0 /\ XORSegment % 2 = 0
    /\ MTU <= MaxSingle + HeaderDelta /\ MaxTotal < Word
    /\ Mixed[1] # Mixed[2]
    /\ \A c \in Ciphers : c.max = 0 \/ c.max >= TypeLength

NoDatagram == [bytes |-> <<>>, check |-> 0, sent |-> <<>>, damaged |-> FALSE]

Init ==
    /\ cipher \in Ciphers
    /\ tx = FirstSequence /\ offset = 0
    /\ rx = FirstSequence /\ high = 0
    /\ wire = {}
    /\ got = NoDatagram
    /\ sends = 0 /\ damaged = 0

-----------------------------------------------------------------------------
(* The Internet checksum *)

Total(words) ==
    LET upTo[i \in 0 .. Len(words)] == IF i = 0 THEN 0 ELSE upTo[i - 1] + words[i]
    IN  upTo[Len(words)]

\* Bytes as checksum words, an odd one padded with zero.
WordsOf(b) ==
    [i \in 1 .. (Len(b) + 1) \div 2 |->
        Base * b[2 * i - 1] + (IF 2 * i <= Len(b) THEN b[2 * i] ELSE 0)]

\* Words that include their checksum add up.
Verifies(words) == Total(words) % (Word - 1) = 0

\* bpf_csum_diff: the seed, plus what to adds and from takes away, in a sum of twice
\* a word's width with the carry brought around.
CsumDiff(from, to, seed) ==
    LET sum == seed + Total(to) + Total([i \in DOMAIN from |-> Word - 1 - from[i]])
    IN  (sum % SequenceMod) + (sum \div SequenceMod)

\* Mutant: the carry of the first fold is lost.
FoldOnce(sum) == Word - 1 - (((sum % Word) + (sum \div Word)) % Word)

FoldCsum(sum) ==
    LET fold(x) == (x % Word) + (x \div Word)
    IN  Word - 1 - (fold(fold(fold(fold(sum)))) % Word)

\* Mutant: zero, which in UDP says that there is no checksum, is sent.
AsComputed(check) == check

NotZero(check) == IF check = 0 THEN Word - 1 ELSE check

\* bpf_l4_csum_replace with BPF_F_MARK_MANGLED_0.
L4CsumReplace(check, diff) ==
    IF check = 0 THEN 0 ELSE NotZero(FoldCsum(diff + Word - 1 - check))

Addresses == 9
Ports == 5
AckWindow == 11

Pseudo(protocol, length) == <<Addresses, IF protocol = "tcp" THEN 6 ELSE 17, length>>

TCPHeader(sequence, check) == <<Ports, sequence \div Word, sequence % Word, AckWindow, check>>

UDPHeader(n, check) == <<Ports, UDPLength + n, check>>

-----------------------------------------------------------------------------
(* Types, lengths and the cipher *)

Standard(kind) == <<kind>> \o [i \in 1 .. TypeLength - 1 |-> 0]

StandardTypes == [k \in 1 .. 2 |-> Standard(k)]

TypeWord(b) == SubSeq(b, 1, TypeLength)

WithType(b, word) == word \o SubSeq(b, TypeLength + 1, Len(b))

\* The message a type word stands for in a table, 0 for none.
KindIn(table, word) ==
    IF \E k \in 1 .. 2 : table[k] = word THEN CHOOSE k \in 1 .. 2 : table[k] = word ELSE 0

ValidateLen(kind, n) ==
    \/ kind = 1 /\ n = HandshakeLength
    \/ kind = 2 /\ n >= MinSegment

AtMost(n, bound) == IF n < bound THEN n ELSE bound

KeyByte(off) == cipher.key[(off % Len(cipher.key)) + 1]

\* xor_payload_target: the bytes of a payload that are enciphered.  One longer than
\* the cipher reaches is refused unless the cipher is for a prefix.
Target(n) == AtMost(n, cipher.max)
TargetValid(n) == cipher.max = 0 \/ n <= cipher.max \/ cipher.prefix

\* The bytes at these offsets are enciphered.
XORAt(b, offsets) == [i \in DOMAIN b |-> IF i - 1 \in offsets THEN b[i] ^^ KeyByte(i - 1) ELSE b[i]]

\* xor_type_word_copy
Deciphered(word) == IF cipher.max = 0 THEN word ELSE XORAt(word, 0 .. TypeLength - 1)

\* Mutant: a tail call begins with the last byte of the one before it.
OverlappingOffsets(target, k, start) ==
    {i \in 0 .. target - 1 : i >= start /\ k * XORSegment - 1 <= i /\ i < (k + 1) * XORSegment}

\* xor_segment_bounds: what tail call k covers.
SegmentOffsets(target, k, start) ==
    {i \in 0 .. target - 1 : i >= start /\ k * XORSegment <= i /\ i < (k + 1) * XORSegment}

Calls(target) == (target + XORSegment - 1) \div XORSegment

\* A payload enciphered by the chain of tail calls.
XORPayload(b) ==
    FoldLeft(LAMBDA x, k : XORAt(x, SegmentOffsets(Target(Len(b)), k - 1, 0)), b,
             [k \in 1 .. Calls(Target(Len(b))) |-> k])

\* Mutant: a segment whose length is not a multiple of the chunk keeps its last bytes.
WholeChunks(n, size) ==
    {i \in 0 .. Target(n) - 1 : i \div XORChunk < Target(size) \div XORChunk}

\* faketcp_gso_xor_chunk: as many chunks for every segment as the longest needs.
ChunkOffsets(n, size) ==
    {i \in 0 .. Target(n) - 1 : i \div XORChunk < (Target(size) + XORChunk - 1) \div XORChunk}

-----------------------------------------------------------------------------
(* Egress *)

Segments(n, size) == (n + size - 1) \div size

\* faketcp_gso_segment_length
SegmentLength(n, size, k) == AtMost(n - k * size, size)

Segment(b, size, k) == SubSeq(b, k * size + 1, k * size + SegmentLength(Len(b), size, k))

\* wg_mix_faketcp_validate_udp_gso
Geometry(n, skb) ==
    /\ n > skb.size /\ skb.size >= MinSegment
    /\ skb.segs = Segments(n, skb.size) \/ (skb.segs = 0 /\ skb.dodgy)
    /\ n - (Segments(n, skb.size) - 1) * skb.size >= MinSegment
    /\ skb.summed = "partial"

\* wg_mix_faketcp_validate_udp_checksum: bytes that are summed, or left to be.
ChecksumKnown(skb) == skb.summed \in {"none", "partial"}

\* wg_mix_faketcp_admit_pmtu
AdmitPMTU(n) == n <= MTU

\* Mutant: the length before the header grows is held against the MTU.
PrepareUnplanned(n, skb) ==
    /\ IPLength + UDPLength + n <= MaxTotal - HeaderDelta
    /\ IF skb.size = 0
       THEN ChecksumKnown(skb) /\ AdmitPMTU(IPLength + UDPLength + n)
       ELSE Geometry(n, skb) /\ AdmitPMTU(IPLength + UDPLength + skb.size)

\* wg_mix_faketcp_prepare_udp accepts a payload of n bytes.
Prepare(n, skb) ==
    /\ IPLength + UDPLength + n <= MaxTotal - HeaderDelta
    /\ IF skb.size = 0
       THEN ChecksumKnown(skb) /\ AdmitPMTU(IPLength + UDPLength + n + HeaderDelta)
       ELSE Geometry(n, skb) /\ AdmitPMTU(IPLength + TCPLength + skb.size)

\* Mutant: the checksum is left for the device, which writes where UDP has it.
SummedKept(skb) == skb.summed

\* What becomes of CHECKSUM_PARTIAL without GSO.
SummedAfter(skb) == "none"

\* Mutant: a message of a known type may have any length.
EveryTyped(b, size) ==
    \A k \in 0 .. Segments(Len(b), size) - 1 :
        LET one == Segment(b, size, k)
        IN  KindIn(StandardTypes, TypeWord(one)) # 0 /\ TargetValid(Len(one))

\* kind_from_standard, validate_len and the cipher's reach, for every message.
EveryValid(b, size) ==
    \A k \in 0 .. Segments(Len(b), size) - 1 :
        LET one == Segment(b, size, k)
            kind == KindIn(StandardTypes, TypeWord(one))
        IN  kind # 0 /\ ValidateLen(kind, Len(one)) /\ TargetValid(Len(one))

Retyped(b) == WithType(b, Mixed[KindIn(StandardTypes, TypeWord(b))])

\* The first bytes make room for the longer header and go to the end.
Rotated(b) == SubSeq(b, HeaderDelta + 1, Len(b)) \o SubSeq(b, 1, HeaderDelta)

\* Mutant: the last chunk is not padded with zero but keeps the bytes of the one
\* before it.
MaterializeStale(header, b) ==
    LET chunk(k) == [i \in 1 .. CheckChunk |->
                        IF (k - 1) * CheckChunk + i <= Len(b) THEN b[(k - 1) * CheckChunk + i]
                        ELSE IF k = 1 THEN 0 ELSE b[(k - 2) * CheckChunk + i]]
        seed == CsumDiff(<<>>, header, CsumDiff(<<>>, Pseudo("tcp", TCPLength + Len(b)), 0))
    IN  NotZero(FoldCsum(FoldLeft(LAMBDA sum, k : CsumDiff(<<>>, WordsOf(chunk(k)), sum), seed,
                                  [k \in 1 .. (Len(b) + CheckChunk - 1) \div CheckChunk |-> k])))

\* faketcp_materialize_tcp_checksum, over the payload in chunks, the last padded.
Materialize(header, b) ==
    LET chunk(k) == SubSeq(b, (k - 1) * CheckChunk + 1, AtMost(Len(b), k * CheckChunk))
        seed == CsumDiff(<<>>, header, CsumDiff(<<>>, Pseudo("tcp", TCPLength + Len(b)), 0))
    IN  NotZero(FoldCsum(FoldLeft(LAMBDA sum, k : CsumDiff(<<>>, WordsOf(chunk(k)), sum), seed,
                                  [k \in 1 .. (Len(b) + CheckChunk - 1) \div CheckChunk |-> k])))

\* A device that finds CHECKSUM_PARTIAL sums from the transport header and writes
\* where the UDP checksum was.
Device(summed, header, b) ==
    IF summed = "partial"
    THEN [header EXCEPT ![3] = NotZero(FoldCsum(Total(header \o WordsOf(b))))]
    ELSE header

\* A packet that is not an aggregate on the wire.
SingleWire(b, summed) ==
    LET payload == Rotated(XORPayload(Retyped(b)))
        header == TCPHeader(tx, Materialize(TCPHeader(tx, 0), payload))
    IN  {[header |-> Device(summed, header, payload), bytes |-> payload,
          at |-> offset, sent |-> b, damaged |-> FALSE]}

\* Mutant: the payload is rotated once, as if it were one segment.
RotatedOnce(b, size) == Rotated(b)

\* wg_mix_faketcp_rotate_gso_payload
RotatedSegments(b, size) ==
    FlattenSeq([k \in 1 .. Segments(Len(b), size) |-> Rotated(Segment(b, size, k - 1))])

\* An aggregate on the wire, after the TCP segmentation of the kernel or the device.
AggregateWire(b, size) ==
    LET segments == 0 .. Segments(Len(b), size) - 1
        enciphered == FlattenSeq([k \in 1 .. Segments(Len(b), size) |->
                          LET one == Retyped(Segment(b, size, k - 1))
                          IN  XORAt(one, ChunkOffsets(Len(one), size))])
        rotated == RotatedSegments(enciphered, size)
        header(k, check) == TCPHeader((tx + k * size) % SequenceMod, check)
        check(k) ==
            LET one == Segment(rotated, size, k)
            IN  FoldCsum(Total(Pseudo("tcp", TCPLength + Len(one)) \o header(k, 0) \o WordsOf(one)))
    IN  {[header |-> header(k, check(k)), bytes |-> Segment(rotated, size, k),
          at |-> offset + k * size, sent |-> Segment(b, size, k), damaged |-> FALSE] :
         k \in segments}

\* Mutant: the sequence number advances by one segment of an aggregate.
AdvancedByOne(b, size) == IF size = 0 THEN Len(b) ELSE size

Advanced(b, size) == Len(b)

\* The TC egress program has WireGuard's packet b, an aggregate when skb.size is not
\* zero.  A refused one is dropped, and nothing changes.  The sequence number has
\* advanced when one of the last stores, or the commit of an aggregate, fails.
Egress(b, skb, stored) ==
    /\ Prepare(Len(b), skb)
    /\ EveryValid(b, IF skb.size = 0 THEN Len(b) ELSE skb.size)
    /\ skb.size = 0 => IPLength + UDPLength + Len(b) <= MaxSingle
    /\ tx' = (tx + Advanced(b, skb.size)) % SequenceMod
    /\ offset' = offset + Len(b)
    /\ wire' = wire \cup (IF ~stored THEN {}
                          ELSE IF skb.size = 0 THEN SingleWire(b, SummedAfter(skb))
                          ELSE AggregateWire(b, skb.size))
    /\ sends' = sends + 1
    /\ UNCHANGED <<cipher, rx, high, got, damaged>>

\* What the stack may say of the checksum of a packet that is not an aggregate.
Metadata == [size : {0}, segs : {0}, dodgy : {FALSE}, summed : {"none", "partial", "complete"}]

\* A message alone, or several of the same length with a last one no longer; the
\* number of segments of an aggregate may be unknown.
Send ==
    /\ sends < MaxSends
    /\ \E stored \in BOOLEAN :
          \/ \E m \in Messages, skb \in Metadata : Egress(m, skb, stored)
          \/ \E n \in 2 .. MaxMessages : \E ms \in [1 .. n -> Messages] :
                /\ \A i \in 1 .. n - 1 : Len(ms[i]) = Len(ms[1])
                /\ Len(ms[n]) <= Len(ms[1])
                /\ \E counted \in {<<n, FALSE>>, <<0, TRUE>>, <<0, FALSE>>} :
                      Egress(FlattenSeq(ms), [size |-> Len(ms[1]), segs |-> counted[1],
                                              dodgy |-> counted[2], summed |-> "partial"], stored)

-----------------------------------------------------------------------------
(* The network and ingress *)

\* A byte of a payload arrives as another.
Damage(s, i, byte) ==
    /\ damaged < MaxDamaged
    /\ ~s.damaged /\ s.bytes[i] # byte
    /\ wire' = (wire \ {s}) \cup {[s EXCEPT !.bytes[i] = byte, !.damaged = TRUE]}
    /\ damaged' = damaged + 1
    /\ UNCHANGED <<cipher, tx, offset, rx, high, got, sends>>

\* The bytes that go back to the front.
WireTail(b) == SubSeq(b, Len(b) - HeaderDelta + 1, Len(b))

\* What the XDP program admits for the transform.
Admits(s) ==
    /\ IPLength + TCPLength + Len(s.bytes) <= MaxSingle + HeaderDelta
    /\ TargetValid(Len(s.bytes))
    /\ Len(s.bytes) >= HeaderDelta
    /\ LET kind == KindIn(Mixed, Deciphered(TypeWord(WireTail(s.bytes))))
       IN  kind # 0 /\ ValidateLen(kind, Len(s.bytes))

Restored(b) == WireTail(b) \o SubSeq(b, 1, Len(b) - HeaderDelta)

\* Mutant: the rotation of a payload of odd length moves no byte within its word.
NoRotation(b, sum) == sum

\* faketcp_rotation_checksum: at the end of an odd payload the bytes stood one further.
RotationChecksum(b, sum) ==
    IF Len(b) % 2 = 0 THEN sum
    ELSE CsumDiff(WordsOf(<<0>> \o WireTail(b) \o <<0>>), WordsOf(WireTail(b) \o <<0, 0>>), sum)

\* The UDP checksum from that of TCP.
DecodedCheck(s) ==
    LET b == s.bytes
        n == Len(b)
        header == [s.header EXCEPT ![5] = 0]
        pseudo == CsumDiff(Pseudo("tcp", TCPLength + n), Pseudo("udp", UDPLength + n),
                           Word - 1 - s.header[5])
        headers == CsumDiff(header, UDPHeader(n, 0), pseudo)
    IN  NotZero(FoldCsum(RotationChecksum(b, headers)))

\* Mutant: the type word is taken out of the checksum as it was before XOR.
DecipheredDiff(word, new) == CsumDiff(WordsOf(Deciphered(word)), WordsOf(new), 0)

TypeDiff(word, new) == CsumDiff(WordsOf(word), WordsOf(new), 0)

\* xor_segment_manual_diff: tail call k deciphers its share and corrects the checksum.
ManualDiff(d, k) ==
    LET new == XORAt(d.bytes, SegmentOffsets(Target(Len(d.bytes)), k, TypeLength))
    IN  [bytes |-> new,
         check |-> L4CsumReplace(d.check, CsumDiff(WordsOf(d.bytes), WordsOf(new), 0))]

\* TC ingress: the standard type, then the rest.
TCIngress(b, check) ==
    LET word == TypeWord(b)
        new == Standard(KindIn(Mixed, Deciphered(word)))
        typed == [bytes |-> WithType(b, new), check |-> L4CsumReplace(check, TypeDiff(word, new))]
    IN  FoldLeft(LAMBDA d, k : ManualDiff(d, k - 1), typed, [k \in 1 .. Calls(Target(Len(b))) |-> k])

\* Mutant: sequence numbers are compared as if they never wrapped.
LaterUnsigned(next) == next > rx

\* (__s32)(argument - session->rx_sequence) > 0
Later(next) == LET d == (next - rx + SequenceMod) % SequenceMod IN 0 < d /\ d < SequenceMod \div 2

\* The peer has segment s, the first time or again: XDP, the RX mutation of the
\* session and TC ingress.  What is not admitted is dropped.
Deliver(s) ==
    /\ Admits(s)
    /\ LET next == (s.header[2] * Word + s.header[3] + Len(s.bytes)) % SequenceMod
           udp == TCIngress(Restored(s.bytes), DecodedCheck(s))
       IN  /\ rx' = IF Later(next) THEN next ELSE rx
           /\ got' = [bytes |-> udp.bytes, check |-> udp.check, sent |-> s.sent, damaged |-> s.damaged]
    /\ high' = Max({high, s.at + Len(s.bytes)})
    /\ UNCHANGED <<cipher, tx, offset, wire, sends, damaged>>

Next ==
    \/ Send
    \/ \E s \in wire :
          \/ \E i \in DOMAIN s.bytes, byte \in Noise : Damage(s, i, byte)
          \/ Deliver(s)

Spec == Init /\ [][Next]_vars

-----------------------------------------------------------------------------

\* Sequence numbers, checksums and bytes keep their widths.
TypeOK ==
    /\ cipher \in Ciphers
    /\ {tx, rx} \subseteq 0 .. SequenceMod - 1
    /\ high <= offset
    /\ \A s \in wire : \A i \in DOMAIN s.header : s.header[i] \in 0 .. Word - 1
    /\ \A s \in wire : \A i \in DOMAIN s.bytes : s.bytes[i] \in 0 .. Base - 1
    /\ got.check \in 0 .. Word - 1
    /\ sends \in 0 .. MaxSends /\ damaged \in 0 .. MaxDamaged

\* A datagram that reached the peer undamaged is the one WireGuard sent, byte for byte,
\* and carries a UDP checksum that verifies; one that was damaged carries a checksum
\* that does not, although neither the XDP program nor TC ingress looked at it: every
\* rewrite only adds its own difference.  A checksum is never zero, which would tell
\* the peer's UDP not to look.
DatagramWhole ==
    got # NoDatagram =>
        /\ got.check # 0
        /\ ~got.damaged <=> Verifies(Pseudo("udp", UDPLength + Len(got.bytes))
                                     \o UDPHeader(Len(got.bytes), got.check) \o WordsOf(got.bytes))
        /\ ~got.damaged => got.bytes = got.sent

\* What egress lets out the path carries and the peer takes: every segment fits the
\* MTU, an aggregate's too, whose last segment the kernel module never measured by
\* itself; its TCP checksum verifies; and the peer's XDP program admits it.
SegmentsAccepted ==
    \A s \in wire :
        /\ IPLength + TCPLength + Len(s.bytes) <= MTU
        /\ ~s.damaged => /\ Verifies(Pseudo("tcp", TCPLength + Len(s.bytes)) \o s.header \o WordsOf(s.bytes))
                         /\ Admits(s)

\* The segments of all packets make one stream across the wrap of the sequence number:
\* each has the number of its first byte, no two share a byte, and the peer
\* acknowledges the end of the highest it has seen, in whatever order they came.
StreamContiguous ==
    /\ tx = (FirstSequence + offset) % SequenceMod
    /\ rx = (FirstSequence + high) % SequenceMod
    /\ \A s \in wire :
          /\ s.header[2] * Word + s.header[3] = (FirstSequence + s.at) % SequenceMod
          /\ s.at + Len(s.bytes) <= offset
          /\ \A t \in wire \ {s} : s.at + Len(s.bytes) <= t.at \/ t.at + Len(t.bytes) <= s.at
=============================================================================

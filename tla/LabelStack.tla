----------------------------- MODULE LabelStack -----------------------------
(***************************************************************************)
(* The MPLS headers of src/internal/mpls/label.go, byte by byte, and the   *)
(* guess router.detectPacketType makes about what a popped label uncovers. *)
(* A packet is a sequence of bytes: headers of four bytes, then a payload. *)
(***************************************************************************)
EXTENDS Integers, Sequences

CONSTANTS Labels,    \* labels that routes and LFIB entries carry (uint32)
          Payloads,  \* IP packets: their first byte is 16 * version + ...
          MaxDepth   \* bound on the labels on a packet

Byte == 0..255

ASSUME LabelsAssumption == Labels \subseteq Nat
ASSUME PayloadsAssumption ==
    \A ip \in Payloads : ip \in Seq(Byte) /\ ip # <<>> /\ ip[1] \div 16 \in {4, 6}
ASSUME MaxDepthAssumption == MaxDepth \in Nat

LabelMax == 1048575          \* 0xFFFFF
LabelEntrySize == 4

VARIABLES data,   \* the bytes of the packet
          todo,   \* the labels PushLabels has not reached; it starts with the last
          stack,  \* ghost: the labels put on the packet, the top first
          inner   \* ghost: the IP packet underneath

vars == <<data, todo, stack, inner>>

-----------------------------------------------------------------------------
\* Mutant: the label is not cut to 20 bits.
ClampMissing(label) == label

Clamp(label) == IF label > LabelMax THEN LabelMax ELSE label

EncodeLabel(label, tc, bottom, ttl) ==
    LET v == 16 * Clamp(label) + 2 * tc + (IF bottom THEN 1 ELSE 0)
    IN  <<v \div 65536, (v \div 256) % 256, v % 256, ttl>>

ParseLabel(bytes) ==
    LET v == 65536 * bytes[1] + 256 * bytes[2] + bytes[3]
    IN  [label |-> v \div 16, tc |-> (v \div 2) % 8, bottom |-> v % 2 = 1,
         ttl |-> bytes[4]]

\* Every header that is pushed or swapped in claims to be the bottom one.
Header(label) == EncodeLabel(label, 0, TRUE, 64)

PushLabel(bytes, label) == Header(label) \o bytes

HasLabel(bytes) == Len(bytes) >= LabelEntrySize

Rest(bytes) == SubSeq(bytes, LabelEntrySize + 1, Len(bytes))

SwapLabel(bytes, label) == Header(label) \o Rest(bytes)

\* Mutant: IPv6 is not recognised.
DetectPacketTypeV4(bytes) ==
    IF bytes # <<>> /\ bytes[1] \div 16 # 4 /\ HasLabel(bytes)
    THEN "mpls" ELSE "ip"

DetectPacketType(bytes) ==
    IF bytes # <<>> /\ bytes[1] \div 16 \notin {4, 6} /\ HasLabel(bytes)
    THEN "mpls" ELSE "ip"

-----------------------------------------------------------------------------
Init == /\ inner \in Payloads
        /\ data = inner /\ todo = <<>> /\ stack = <<>>

Clamped(labels) == [n \in DOMAIN labels |-> Clamp(labels[n])]

\* Mutant: PushLabels works from the first label to the last.
PushLabelsForward == /\ todo # <<>>
                     /\ data' = PushLabel(data, Head(todo))
                     /\ todo' = Tail(todo)
                     /\ UNCHANGED <<stack, inner>>

\* One round of the loop of PushLabels, which works from the last label to the
\* first.
PushLabels == /\ todo # <<>>
              /\ data' = PushLabel(data, todo[Len(todo)])
              /\ todo' = SubSeq(todo, 1, Len(todo) - 1)
              /\ UNCHANGED <<stack, inner>>

\* forwardByFIB with ActionPush enters the loop.
Push(labels) == /\ todo = <<>>
                /\ Len(stack) + Len(labels) <= MaxDepth
                /\ todo' = labels
                /\ stack' = Clamped(labels) \o stack
                /\ UNCHANGED <<data, inner>>

\* handleMPLSPacket with OpPop or OpPHP: the caller knows the packet is labelled
Pop == /\ todo = <<>> /\ stack # <<>> /\ HasLabel(data)
       /\ data' = Rest(data)
       /\ stack' = Tail(stack)
       /\ UNCHANGED <<todo, inner>>

\* handleMPLSPacket with OpSwap
Swap(label) == /\ todo = <<>> /\ stack # <<>> /\ HasLabel(data)
               /\ data' = SwapLabel(data, label)
               /\ stack' = <<Clamp(label)>> \o Tail(stack)
               /\ UNCHANGED <<todo, inner>>

\* handleMPLSPacket with OpPush pops the top label and enters the loop.
Replace(labels) == /\ todo = <<>> /\ stack # <<>> /\ HasLabel(data)
                   /\ Len(stack) + Len(labels) <= MaxDepth + 1
                   /\ data' = Rest(data)
                   /\ todo' = labels
                   /\ stack' = Clamped(labels) \o Tail(stack)
                   /\ UNCHANGED inner

LabelLists == UNION {[1..n -> Labels] : n \in 0..MaxDepth}

Next == \/ PushLabels \/ Pop
        \/ \E l \in Labels : Swap(l)
        \/ \E ls \in LabelLists : Push(ls) \/ Replace(ls)

Spec == Init /\ [][Next]_vars

-----------------------------------------------------------------------------
(* Properties.                                                             *)

HeaderAt(n) == ParseLabel(SubSeq(data, 4 * n - 3, 4 * n))

\* The labels that are on the packet by now: the loop has yet to push the others.
OnPacket == SubSeq(stack, Len(todo) + 1, Len(stack))

\* The bytes of the packet are bytes.
TypeOK == data \in Seq(Byte) /\ Len(stack) <= MaxDepth

\* The headers on the wire, read by the next router, are the labels that were
\* put on, top label first, with the IP packet intact below them; after every
\* round of PushLabels they are the labels it has reached.
StackOnWire == /\ \A n \in DOMAIN OnPacket : HeaderAt(n).label = OnPacket[n]
               /\ SubSeq(data, 4 * Len(OnPacket) + 1, Len(data)) = inner

\* detectPacketType tells labels from IP, except for a top label that begins
\* with the nibble 4 or 6, which it takes for an IP version.
DetectExact == LET nibble == OnPacket[1] \div 65536
               IN  DetectPacketType(data) = "mpls"
                       <=> OnPacket # <<>> /\ nibble \notin {4, 6}

\* The bottom-of-stack bit is set in the bottom header and in no other, as the
\* comments of TestPushLabelsOrder name them and NonBottomOfStack provides for.
BottomMarksBottom == todo = <<>> =>
    \A n \in DOMAIN stack : HeaderAt(n).bottom <=> n = Len(stack)
=============================================================================

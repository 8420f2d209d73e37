----------------------------- MODULE LinksProofs -----------------------------
(***************************************************************************)
(* The safety of Links for every capacity of the channels, every number of *)
(* goroutines and every set of NICs.                                       *)
(***************************************************************************)
EXTENDS Links, TLAPS

\* The device closes itself only after its Read failed, so it never finds the
\* channel open.
ClosingOrder == /\ dev = "ended" => closed
                /\ closing["device"] \in {"no", "wait", "done"}
                /\ closing["device"] # "no" => closed
                /\ closing["app"] = "close" => ~closed /\ closing["device"] = "no"
                /\ closes = IF closed THEN 1 ELSE 0

\* Every packet that MemTUN's Write accepted is on its way to the router, once and
\* in order, in Inbound, in readLoop's hand or in the reader channel.
NothingLost ==
    Wg!Pipeline = [k \in 1..(given - taken) |-> [from |-> "peer", num |-> taken + k]]

WgInv == Wg!TypeOK /\ NothingLost /\ taken <= given /\ ClosingOrder

-----------------------------------------------------------------------------
(* Sequences.                                                              *)

\* Appending to the last of three sequences appends to the whole.
LEMMA AppendToLast ==
  ASSUME NEW S, NEW a \in Seq(S), NEW c \in Seq(S), NEW x \in S
  PROVE  a \o Append(c, x) = Append(a \o c, x)
OBVIOUS

\* Moving the head of the second sequence to the end of the first.
LEMMA MoveHead ==
  ASSUME NEW S, NEW a \in Seq(S), NEW c \in Seq(S), c # <<>>
  PROVE  (a \o <<Head(c)>>) \o Tail(c) = a \o c
OBVIOUS

LEMMA AppendIsConcat ==
  ASSUME NEW S, NEW a \in Seq(S), NEW x \in S
  PROVE  Append(a, x) = a \o <<x>>
OBVIOUS

\* The tail of a whole whose first part is not empty.
LEMMA TailOfFirst ==
  ASSUME NEW S, NEW a \in Seq(S), NEW c \in Seq(S), a # <<>>
  PROVE  Tail(a) \o c = Tail(a \o c) /\ a \o c # <<>>
OBVIOUS

\* The order of concatenation does not matter.
LEMMA ConcatAssociates ==
  ASSUME NEW S, NEW a \in Seq(S), NEW b \in Seq(S), NEW c \in Seq(S)
  PROVE  (a \o b) \o c = a \o (b \o c)
OBVIOUS

\* The empty sequence is neutral.
LEMMA EmptyNeutral ==
  ASSUME NEW S, NEW a \in Seq(S)
  PROVE  a \o <<>> = a /\ <<>> \o a = a
OBVIOUS

\* Packets m+1 to n, in order.
Numbered(m, n) == [k \in 1..(n - m) |-> [from |-> "peer", num |-> m + k]]

LEMMA NumberedGrows ==
  ASSUME NEW m \in Nat, NEW n \in Nat, NEW S, NEW q \in Seq(S), q = Numbered(m, n),
         [from |-> "peer", num |-> n + 1] \in S, m <= n
  PROVE  Append(q, [from |-> "peer", num |-> n + 1]) = Numbered(m, n + 1)
BY DEF Numbered

LEMMA NumberedShrinks ==
  ASSUME NEW m \in Nat, NEW n \in Nat, NEW S, NEW q \in Seq(S), q = Numbered(m, n), q # <<>>
  PROVE  Tail(q) = Numbered(m + 1, n) /\ m + 1 <= n
BY DEF Numbered
-----------------------------------------------------------------------------
(* The WireGuard transport.                                                *)

\* What readLoop and the router have of the packets, ahead of Inbound.
Front == reader \o (IF held = NoPacket THEN <<>> ELSE <<held>>)

LEMMA PipelineType ==
  ASSUME Wg!TypeOK
  PROVE  /\ reader \in Seq(Wg!Packet) /\ inbound \in Seq(Wg!Packet) /\ Front \in Seq(Wg!Packet)
         /\ Wg!Pipeline = Front \o inbound /\ Wg!Pipeline \in Seq(Wg!Packet)
         /\ loop = "push" => held \in Wg!Packet /\ Front = reader \o <<held>>
         /\ loop # "push" => held = NoPacket /\ Front = reader
<1>1. reader \in Seq(Wg!Packet) /\ inbound \in Seq(Wg!Packet)
  BY DEF Wg!TypeOK
<1>2. loop = "push" => held \in Wg!Packet /\ Front = reader \o <<held>>
  BY DEF Wg!TypeOK, Front
<1>3. loop # "push" => held = NoPacket /\ Front = reader
  BY <1>1, EmptyNeutral DEF Wg!TypeOK, Front
<1>4. Front \in Seq(Wg!Packet)
  BY <1>1, <1>2, <1>3
<1>5. QED
  BY <1>1, <1>2, <1>3, <1>4 DEF Front, Wg!Pipeline

\* The packets on their way stay the same where none comes in and none goes out.
LEMMA PipelineKept ==
  ASSUME NothingLost, taken <= given, Wg!Pipeline' = Wg!Pipeline, UNCHANGED <<given, taken>>
  PROVE  NothingLost' /\ (taken <= given)'
BY DEF NothingLost

LEMMA PutInv ==
  ASSUME WgInv, Wg!Put
  PROVE  WgInv'
<1> USE DEF WgInv, Wg!looping, Wg!outward, Wg!closure
<1> DEFINE pkt == [from |-> "peer", num |-> given + 1]
<1>1. /\ recv = "put" /\ Len(inbound) < Cap /\ recv' \in {"idle", "put"}
      /\ inbound' = Append(inbound, pkt) /\ given' = given + 1
      /\ UNCHANGED <<loop, held, reader, taken, outbound, dev, writing, closed, closes, closing>>
  BY DEF Wg!Put
<1>2. given \in Nat /\ taken \in Nat /\ inbound \in Seq(Wg!Packet) /\ pkt \in Wg!Packet
  BY DEF Wg!TypeOK, Wg!Packet
<1>3. Wg!TypeOK'
  <2>1. inbound' \in Seq(Wg!Packet) /\ Len(inbound') <= Cap
    BY <1>1, <1>2, CapAssumption
  <2>2. QED
    BY <1>1, <1>2, <2>1 DEF Wg!TypeOK, Wg!Packet
<1>4. NothingLost' /\ (taken <= given)'
  <2>1. Wg!Pipeline' = Front \o inbound'
    BY <1>1 DEF Wg!Pipeline, Front
  <2>2. Wg!Pipeline' = Append(Wg!Pipeline, pkt)
    <3> HIDE DEF pkt
    <3>1. Front \in Seq(Wg!Packet) /\ Wg!Pipeline = Front \o inbound
      BY PipelineType
    <3>2. Front \o Append(inbound, pkt) = Append(Front \o inbound, pkt)
      BY <1>2, <3>1, AppendToLast
    <3>3. QED
      BY <1>1, <2>1, <3>1, <3>2
  <2>3. Wg!Pipeline = Numbered(taken, given)
    BY DEF NothingLost, Numbered
  <2>4. Wg!Pipeline' = Numbered(taken, given + 1)
    BY <1>2, <2>2, <2>3, PipelineType, NumberedGrows
  <2>5. QED
    BY <1>1, <1>2, <2>4 DEF NothingLost, Numbered
<1>5. ClosingOrder'
  BY <1>1 DEF ClosingOrder
<1>6. QED
  BY <1>3, <1>4, <1>5

LEMMA LoopTakeInv ==
  ASSUME WgInv, Wg!LoopTake
  PROVE  WgInv'
<1> USE DEF WgInv, Wg!looping, Wg!outward, Wg!closure
<1>1. /\ loop = "select" /\ loop' = "push" /\ inbound # <<>>
      /\ held' = Head(inbound) /\ inbound' = Tail(inbound)
      /\ UNCHANGED <<reader, recv, given, taken, outbound, dev, writing, closed, closes, closing>>
  BY DEF Wg!LoopTake
<1>2. /\ inbound \in Seq(Wg!Packet) /\ Head(inbound) \in Wg!Packet
      /\ Tail(inbound) \in Seq(Wg!Packet) /\ Len(Tail(inbound)) <= Cap
  BY <1>1, CapAssumption DEF Wg!TypeOK
<1>3. Wg!TypeOK'
  BY <1>1, <1>2, PacketAssumption DEF Wg!TypeOK, Wg!Packet
<1>4. Wg!Pipeline' = (reader \o <<Head(inbound)>>) \o Tail(inbound)
  BY <1>1, <1>2, PacketAssumption DEF Wg!Pipeline
<1>5. Wg!Pipeline' = Wg!Pipeline
  BY <1>1, <1>2, <1>4, PipelineType, MoveHead
<1>6. QED
  BY <1>1, <1>3, <1>5, PipelineKept DEF ClosingOrder

LEMMA LoopPushInv ==
  ASSUME WgInv, Wg!LoopPush
  PROVE  WgInv'
<1> USE DEF WgInv, Wg!inward, Wg!outward, Wg!closure
<1>1. /\ loop = "push" /\ loop' = "select" /\ Len(reader) < Cap
      /\ reader' = Append(reader, held) /\ held' = NoPacket
      /\ UNCHANGED <<inbound, recv, given, taken, outbound, dev, writing, closed, closes, closing>>
  BY DEF Wg!LoopPush
<1>2. held \in Wg!Packet /\ reader \in Seq(Wg!Packet)
  BY <1>1, PipelineType
<1>3. reader' \in Seq(Wg!Packet) /\ Len(reader') <= Cap
  BY <1>1, <1>2, CapAssumption
<1>4. Wg!TypeOK'
  BY <1>1, <1>3 DEF Wg!TypeOK, Wg!Packet
<1>5. Wg!Pipeline' = Wg!Pipeline
  <2>1. Front = reader'
    BY <1>1, <1>2, PipelineType, AppendIsConcat
  <2>2. Front' = reader'
    BY <1>1, <1>3, EmptyNeutral DEF Front
  <2>3. QED
    BY <1>1, <2>1, <2>2 DEF Wg!Pipeline, Front
<1>6. QED
  BY <1>1, <1>4, <1>5, PipelineKept DEF ClosingOrder

LEMMA TakeInv ==
  ASSUME WgInv, Wg!Take
  PROVE  WgInv'
<1> USE DEF WgInv, Wg!inward, Wg!outward, Wg!closure
<1>1. /\ reader # <<>> /\ reader' = Tail(reader) /\ taken' = taken + 1
      /\ UNCHANGED <<inbound, recv, given, loop, held, outbound, dev, writing, closed, closes, closing>>
  BY DEF Wg!Take
<1>2. given \in Nat /\ taken \in Nat /\ reader \in Seq(Wg!Packet)
  BY DEF Wg!TypeOK
<1>3. Wg!TypeOK'
  <2>1. reader' \in Seq(Wg!Packet) /\ Len(reader') <= Cap
    BY <1>1, <1>2, CapAssumption DEF Wg!TypeOK
  <2>2. QED
    BY <1>1, <1>2, <2>1 DEF Wg!TypeOK, Wg!Packet
<1>4. NothingLost' /\ (taken <= given)'
  <2> DEFINE mid == IF held = NoPacket THEN <<>> ELSE <<held>>
             rest == mid \o inbound
  <2>1. mid \in Seq(Wg!Packet) /\ inbound \in Seq(Wg!Packet) /\ reader' \in Seq(Wg!Packet)
    BY <1>1, <1>2 DEF Wg!TypeOK
  <2>2. Wg!Pipeline = (reader \o mid) \o inbound /\ Wg!Pipeline' = (reader' \o mid) \o inbound
    BY <1>1 DEF Wg!Pipeline
  <2> HIDE DEF mid
  <2>3. rest \in Seq(Wg!Packet) /\ Wg!Pipeline = reader \o rest
    BY <1>2, <2>1, <2>2, ConcatAssociates
  <2>4. Wg!Pipeline' = reader' \o rest
    BY <2>1, <2>2, ConcatAssociates
  <2> HIDE DEF rest
  <2>5. Wg!Pipeline' = Tail(Wg!Pipeline) /\ Wg!Pipeline # <<>>
    BY <1>1, <1>2, <2>3, <2>4, TailOfFirst
  <2>6. Wg!Pipeline = Numbered(taken, given)
    BY DEF NothingLost, Numbered
  <2>7. Wg!Pipeline' = Numbered(taken + 1, given) /\ taken + 1 <= given
    BY <1>2, <2>5, <2>6, PipelineType, NumberedShrinks
  <2>8. QED
    BY <1>1, <2>7 DEF NothingLost, Numbered
<1>5. ClosingOrder'
  BY <1>1 DEF ClosingOrder
<1>6. QED
  BY <1>3, <1>4, <1>5
\* The steps that touch no packet on its way to the router.
Quiet == UNCHANGED <<reader, held, inbound, given, taken>>

LEMMA QuietInv ==
  ASSUME WgInv, Quiet
  PROVE  NothingLost' /\ (taken <= given)'
BY PipelineKept DEF WgInv, Quiet, Wg!Pipeline

LEMMA GoroutinesInv ==
  ASSUME WgInv, Wg!Up \/ Wg!Give \/ Wg!PutRefused \/ Wg!LoopEnd \/ Wg!DevStep
  PROVE  WgInv'
<1> USE DEF Wg!inward, Wg!looping, Wg!outward, Wg!closure
<1>1. Quiet /\ UNCHANGED <<closed, closes, closing, writing>>
  BY DEF Quiet, Wg!Up, Wg!Give, Wg!PutRefused, Wg!LoopEnd, Wg!DevStep, Wg!DevRead,
         Wg!DevReadFails
<1>2. /\ outbound' \in Seq(Wg!Packet) /\ Len(outbound') <= Cap
      /\ dev' \in {"reading", "ended"} /\ (dev' = "ended" => closed)
  <2>1. outbound \in Seq(Wg!Packet) /\ Len(outbound) <= Cap
    BY DEF WgInv, Wg!TypeOK
  <2>2. CASE Wg!DevRead
    BY <2>1, <2>2, CapAssumption DEF Wg!DevRead, WgInv, Wg!TypeOK, ClosingOrder
  <2>3. CASE ~Wg!DevRead
    BY <2>1, <2>3 DEF Wg!Up, Wg!Give, Wg!PutRefused, Wg!LoopEnd, Wg!DevStep,
                      Wg!DevReadFails, WgInv, Wg!TypeOK, ClosingOrder
  <2>4. QED
    BY <2>2, <2>3
<1>3. loop' \in {"off", "select", "ended"} \/ (loop' = loop)
  BY DEF Wg!Up, Wg!Give, Wg!PutRefused, Wg!LoopEnd, Wg!DevStep, Wg!DevRead, Wg!DevReadFails
<1>4. loop # "push" \/ loop' = loop
  BY DEF Wg!Up, Wg!Give, Wg!PutRefused, Wg!LoopEnd, Wg!DevStep, Wg!DevRead, Wg!DevReadFails
<1>5. recv' \in {"idle", "put"}
  BY DEF Wg!Up, Wg!Give, Wg!PutRefused, Wg!LoopEnd, Wg!DevStep, Wg!DevRead, Wg!DevReadFails,
         WgInv, Wg!TypeOK
<1>6. Wg!TypeOK'
  BY <1>1, <1>2, <1>3, <1>4, <1>5 DEF Quiet, WgInv, Wg!TypeOK, Wg!Packet
<1>7. ClosingOrder'
  BY <1>1, <1>2 DEF WgInv, ClosingOrder
<1>8. QED
  BY <1>1, <1>6, <1>7, QuietInv DEF WgInv

LEMMA WriteInv ==
  ASSUME WgInv, NEW w \in Writer, NEW pkt \in Wg!Packet,
         Wg!WriteCall(w, pkt) \/ Wg!WriteStep(w)
  PROVE  WgInv' /\ (Wg!WriteCall(w, pkt) => writing' = [writing EXCEPT ![w] = pkt])
                /\ (Wg!WriteStep(w) => writing' = [writing EXCEPT ![w] = NoPacket])
<1> USE DEF Wg!inward, Wg!looping, Wg!outward, Wg!closure
<1>1. /\ Quiet /\ UNCHANGED <<recv, loop, dev, closed, closes, closing>>
      /\ writing' \in [Writer -> Wg!Packet \cup {NoPacket}]
  BY DEF Quiet, Wg!WriteCall, Wg!WriteStep, Wg!WriteSend, Wg!WriteRefused, WgInv, Wg!TypeOK
<1>2. outbound' \in Seq(Wg!Packet) /\ Len(outbound') <= Cap
  <2>1. outbound \in Seq(Wg!Packet) /\ Len(outbound) <= Cap
    BY DEF WgInv, Wg!TypeOK
  <2>2. CASE Wg!WriteSend(w)
    <3>1. writing[w] \in Wg!Packet
      BY <2>2 DEF Wg!WriteSend, WgInv, Wg!TypeOK
    <3>2. QED
      BY <2>1, <2>2, <3>1, CapAssumption DEF Wg!WriteSend
  <2>3. QED
    BY <2>1, <2>2 DEF Wg!WriteCall, Wg!WriteStep, Wg!WriteRefused
<1>3. Wg!TypeOK'
  BY <1>1, <1>2 DEF Quiet, WgInv, Wg!TypeOK, Wg!Packet
<1>4. QED
  BY <1>1, <1>3, QuietInv DEF WgInv, ClosingOrder, Wg!WriteCall, Wg!WriteStep,
                              Wg!WriteSend, Wg!WriteRefused

\* Close, called by the application and by the device.
LEMMA CloseInv ==
  ASSUME WgInv, NEW c \in Wg!Closer, Wg!CheckClosed(c) \/ Wg!CloseClosed(c) \/ Wg!CloseDevice(c)
  PROVE  WgInv'
<1> USE DEF Wg!inward, Wg!looping, Wg!outward, Wg!Closer
<1>1. Quiet /\ UNCHANGED <<recv, loop, dev, outbound, writing>>
  BY DEF Quiet, Wg!CheckClosed, Wg!CloseClosed, Wg!CloseDevice
<1>2. /\ closing \in [{"app", "device"} -> {"no", "close", "wait", "done"}]
      /\ closed \in BOOLEAN /\ closes \in Nat
  BY DEF WgInv, Wg!TypeOK
<1>3. CASE Wg!CheckClosed(c)
  <2>1. UNCHANGED <<closed, closes>> /\ ClosingOrder'
    BY <1>1, <1>2, <1>3 DEF Wg!CheckClosed, WgInv, ClosingOrder
  <2>2. Wg!TypeOK'
    BY <1>1, <1>2, <1>3, <2>1 DEF Wg!CheckClosed, Quiet, WgInv, Wg!TypeOK, Wg!Packet
  <2>3. QED
    BY <1>1, <2>1, <2>2, QuietInv DEF WgInv
<1>4. CASE Wg!CloseClosed(c)
  <2>1. /\ closed' = TRUE /\ closes' = closes + 1 /\ closing[c] = "close"
        /\ closing' = [closing EXCEPT ![c] = "wait"]
    BY <1>4 DEF Wg!CloseClosed
  <2>2. c = "app" /\ ~closed
    BY <1>2, <2>1 DEF WgInv, ClosingOrder
  <2>3. ClosingOrder'
    BY <1>1, <1>2, <2>1, <2>2 DEF WgInv, ClosingOrder
  <2>4. Wg!TypeOK'
    BY <1>1, <1>2, <2>1 DEF Quiet, WgInv, Wg!TypeOK, Wg!Packet
  <2>5. QED
    BY <1>1, <2>3, <2>4, QuietInv DEF WgInv
<1>5. CASE Wg!CloseDevice(c)
  <2>1. UNCHANGED <<closed, closes>> /\ closing[c] = "wait" /\ closing' = [closing EXCEPT ![c] = "done"]
    BY <1>5 DEF Wg!CloseDevice
  <2>2. ClosingOrder'
    BY <1>1, <1>2, <2>1 DEF WgInv, ClosingOrder
  <2>3. Wg!TypeOK'
    BY <1>1, <1>2, <2>1 DEF Quiet, WgInv, Wg!TypeOK, Wg!Packet
  <2>4. QED
    BY <1>1, <2>2, <2>3, QuietInv DEF WgInv
<1>6. QED
  BY <1>3, <1>4, <1>5

LEMMA WgOwnInv ==
  ASSUME WgInv, Wg!Own
  PROVE  WgInv' /\ writing' = writing
<1>1. WgInv'
  BY PutInv, LoopTakeInv, LoopPushInv, GoroutinesInv, CloseInv
     DEF Wg!Own, Wg!LoopStep, Wg!RecvStep
<1>2. writing' = writing
  BY DEF Wg!Own, Wg!LoopStep, Wg!RecvStep, Wg!DevStep, Wg!Up, Wg!Give, Wg!Put, Wg!PutRefused,
         Wg!LoopTake, Wg!LoopPush, Wg!LoopEnd, Wg!DevRead, Wg!DevReadFails, Wg!CheckClosed,
         Wg!CloseClosed, Wg!CloseDevice, Wg!outward
<1>3. QED
  BY <1>1, <1>2
-----------------------------------------------------------------------------
(* The UDP transport.                                                      *)

\* Close closes closeCh first.
UdpInv == Udp!TypeOK /\ (~conn => closeCh)

LEMMA UdpStepInv ==
  ASSUME UdpInv, Udp!Own \/ Udp!Take
  PROVE  UdpInv'
<1>1. /\ sock \in Seq(Udp!Packet) /\ Len(sock) <= SockCap
      /\ ureader \in Seq(Udp!Packet) /\ Len(ureader) <= Cap
  BY DEF UdpInv, Udp!TypeOK
<1>2. CASE Udp!Arrive
  <2>1. arrived + 1 \in 1..MaxPackets /\ [from |-> "udp", num |-> arrived + 1] \in Udp!Packet
    BY <1>2, BoundAssumption DEF Udp!Arrive, Udp!Packet, UdpInv, Udp!TypeOK
  <2>2. sock' \in Seq(Udp!Packet) /\ Len(sock') <= SockCap
    BY <1>1, <1>2, <2>1, CapAssumption DEF Udp!Arrive
  <2>3. QED
    BY <1>2, <2>1, <2>2 DEF Udp!Arrive, Udp!Packet, UdpInv, Udp!TypeOK
<1>3. CASE Udp!LoopCheck \/ Udp!LoopError \/ Udp!CloseCh
  BY <1>3 DEF Udp!LoopCheck, Udp!LoopError, Udp!CloseCh, Udp!Packet, UdpInv, Udp!TypeOK
<1>4. CASE Udp!LoopRead
  <2>1. sock' \in Seq(Udp!Packet) /\ Len(sock') <= SockCap /\ Head(sock) \in Udp!Packet
    BY <1>1, <1>4, CapAssumption DEF Udp!LoopRead
  <2>2. Head(sock) # NoPacket
    BY <2>1, PacketAssumption
  <2>3. QED
    BY <1>4, <2>1, <2>2 DEF Udp!LoopRead, Udp!Packet, UdpInv, Udp!TypeOK
<1>5. CASE Udp!LoopPush
  <2>1. uheld \in Udp!Packet
    BY <1>5 DEF Udp!LoopPush, UdpInv, Udp!TypeOK
  <2>2. ureader' \in Seq(Udp!Packet) /\ Len(ureader') <= Cap
    BY <1>1, <1>5, <2>1, CapAssumption DEF Udp!LoopPush
  <2>3. QED
    BY <1>5, <2>2 DEF Udp!LoopPush, Udp!Packet, UdpInv, Udp!TypeOK
<1>6. CASE Udp!CloseConn
  <2>1. sock' \in Seq(Udp!Packet) /\ Len(sock') <= SockCap
    BY <1>6, CapAssumption DEF Udp!CloseConn
  <2>2. QED
    BY <1>6, <2>1 DEF Udp!CloseConn, Udp!Packet, UdpInv, Udp!TypeOK
<1>7. CASE Udp!Take
  <2>1. ureader' \in Seq(Udp!Packet) /\ Len(ureader') <= Cap
    BY <1>1, <1>7, CapAssumption DEF Udp!Take
  <2>2. QED
    BY <1>7, <2>1 DEF Udp!Take, Udp!Packet, UdpInv, Udp!TypeOK
<1>8. QED
  BY <1>2, <1>3, <1>4, <1>5, <1>6, <1>7 DEF Udp!Own, Udp!LoopStep

-----------------------------------------------------------------------------
(* The netstack.                                                           *)

\* The ids that were not given out belong to nothing.
FreshIds == \A i \in Stack!Id : i >= nextNICID => i \notin DOMAIN stack /\ nicNames[i] = None

\* Some prefix of a NIC in the stack covers the host.
CoveredBy(i, h) == i \in DOMAIN stack /\ stack[i] # None /\ h \in Covers(stack[i])

\* How far a packet for a local address has come, while no NIC was removed and no
\* prefix is shared: the name and the endpoint it has are those of a NIC that is
\* there and covers it.
OnItsWay(d) ==
    /\ way[d].at = "local" => \E i \in Stack!Id : CoveredBy(i, way[d].dst)
    /\ way[d].at = "named" => \E p \in Prefix : /\ nicByAddr[p] # None /\ nicByAddr[p] = way[d].nic
                                                /\ way[d].dst \in Covers(p)
    /\ way[d].at = "inject" => CoveredBy(way[d].nic, way[d].dst)
NoneStray == \A d \in Writer : ~shared /\ ~disturbed[d] => OnItsWay(d)

StackInv == Stack!TypeOK /\ FreshIds /\ TablesAgree /\ NoneStray

LEMMA StackFacts ==
  ASSUME StackInv
  PROVE  /\ nics \in [Name -> 0..MaxNIC] /\ nicNames \in [Stack!Id -> Name \cup {None}]
         /\ nicByAddr \in [Prefix -> Name \cup {None}] /\ nextNICID \in 1..(MaxNIC + 1)
         /\ DOMAIN stack \in SUBSET Stack!Id
         /\ \A i \in DOMAIN stack : stack[i] \in Supported \cup {None}
         /\ None \notin Name \cup Prefix /\ MaxNIC \in Nat /\ Stack!Id = 1..MaxNIC
BY NameAssumption, BoundAssumption DEF StackInv, Stack!TypeOK, Stack!Id

\* AddNIC, for a prefix of the stack's own or of another NIC's.
LEMMA AddNICInv ==
  ASSUME StackInv, NEW n \in Name, NEW p \in Prefix, Stack!AddNIC(n, p)
  PROVE  StackInv'
<1> DEFINE id == nextNICID
           dup == nicByAddr[p] # None
<1> USE StackFacts
<1>1. /\ nics[n] = 0 /\ id \in Stack!Id /\ (dup \/ p \in Supported)
      /\ nextNICID' = id + 1
      /\ DOMAIN stack' = DOMAIN stack \cup {id}
      /\ stack'[id] = IF dup THEN None ELSE p
      /\ \A i \in DOMAIN stack : i # id => stack'[i] = stack[i]
      /\ routes' = routes \cup (IF dup THEN {} ELSE {[dest |-> p, nic |-> id]})
      /\ nics' = [nics EXCEPT ![n] = id]
      /\ nicNames' = [nicNames EXCEPT ![id] = n]
      /\ nicByAddr' = [nicByAddr EXCEPT ![p] = n]
      /\ shared' = (shared \/ dup)
      /\ way' = way /\ disturbed' = disturbed
  BY DEF Stack!AddNIC, Stack!WithNIC
<1>2. id \notin DOMAIN stack /\ nicNames[id] = None
  BY <1>1 DEF StackInv, FreshIds
<1>3. Stack!TypeOK'
  <2>1. routes' \subseteq [dest : Prefix \cup {PeerPrefix}, nic : Stack!Id]
    BY <1>1 DEF StackInv, Stack!TypeOK
  <2>2. shared' \in BOOLEAN
    BY <1>1 DEF StackInv, Stack!TypeOK
  <2>3. QED
    BY <1>1, <2>1, <2>2 DEF StackInv, Stack!TypeOK
<1>4. FreshIds'
  BY <1>1, <1>2 DEF StackInv, FreshIds
<1>5. Stack!NamesAgree'
  BY <1>1, <1>2 DEF StackInv, Stack!TypeOK, TablesAgree, Stack!TablesAgree, Stack!NamesAgree
<1>6. Stack!AddressesAgree'
  <2> SUFFICES ASSUME ~shared, ~dup, NEW q \in Prefix, NEW i \in Stack!Id
               PROVE  (i \in DOMAIN stack' /\ stack'[i] = q)
                          <=> (nicNames'[i] # None /\ nicByAddr'[q] = nicNames'[i])
    BY <1>1 DEF Stack!AddressesAgree
  <2>1. \A r \in Prefix : nicByAddr[r] # n
    BY <1>1 DEF StackInv, TablesAgree, Stack!TablesAgree, Stack!NamesAgree
  <2>2. nicNames[i] # n
    BY <1>1 DEF StackInv, TablesAgree, Stack!TablesAgree, Stack!NamesAgree
  <2>3. CASE i = id
    BY <1>1, <2>1, <2>3
  <2>4. CASE i # id
    <3>1. (i \in DOMAIN stack /\ stack[i] = q) <=> (nicNames[i] # None /\ nicByAddr[q] = nicNames[i])
      BY DEF StackInv, TablesAgree, Stack!TablesAgree, Stack!AddressesAgree
    <3>2. (i \in DOMAIN stack' <=> i \in DOMAIN stack) /\ nicNames'[i] = nicNames[i]
          /\ (i \in DOMAIN stack => stack'[i] = stack[i])
      BY <1>1, <2>4
    <3>3. QED
      BY <1>1, <2>2, <3>1, <3>2
  <2>5. QED
    BY <2>3, <2>4
<1>7. NoneStray'
  <2> SUFFICES ASSUME NEW d \in Writer, ~shared, ~dup, ~disturbed[d]
               PROVE  OnItsWay(d)'
    BY <1>1 DEF NoneStray
  <2>1. OnItsWay(d)
    BY DEF StackInv, NoneStray
  <2>2. \A i, h : CoveredBy(i, h) => i \in DOMAIN stack' /\ stack'[i] = stack[i]
    BY <1>1, <1>2 DEF CoveredBy
  <2>3. \A q \in Prefix : nicByAddr[q] # None => nicByAddr'[q] = nicByAddr[q]
    BY <1>1
  <2>4. QED
    BY <1>1, <2>1, <2>2, <2>3 DEF OnItsWay, CoveredBy
<1>8. QED
  BY <1>3, <1>4, <1>5, <1>6, <1>7 DEF StackInv, TablesAgree, Stack!TablesAgree
\* A failed AddNIC leaves a NIC that nothing leads to.
LEMMA AddNICFailsInv ==
  ASSUME StackInv, NEW n \in Name, NEW p \in Prefix, Stack!AddNICFails(n, p)
  PROVE  StackInv'
<1> DEFINE id == nextNICID
<1> USE StackFacts
<1>1. /\ id \in Stack!Id /\ nextNICID' = id + 1
      /\ DOMAIN stack' = DOMAIN stack \cup {id} /\ stack'[id] = None
      /\ \A i \in DOMAIN stack : i # id => stack'[i] = stack[i]
      /\ UNCHANGED <<nics, nicNames, nicByAddr, routes, way, shared, disturbed>>
  BY DEF Stack!AddNICFails, Stack!WithNIC
<1>2. id \notin DOMAIN stack /\ nicNames[id] = None
  BY <1>1 DEF StackInv, FreshIds
<1>3. Stack!TypeOK' /\ FreshIds'
  BY <1>1, <1>2 DEF StackInv, Stack!TypeOK, FreshIds
<1>4. Stack!NamesAgree'
  BY <1>1, <1>2 DEF StackInv, TablesAgree, Stack!TablesAgree, Stack!NamesAgree
<1>5. Stack!AddressesAgree'
  <2> SUFFICES ASSUME ~shared, NEW q \in Prefix, NEW i \in Stack!Id
               PROVE  (i \in DOMAIN stack' /\ stack'[i] = q)
                          <=> (nicNames[i] # None /\ nicByAddr[q] = nicNames[i])
    BY <1>1 DEF Stack!AddressesAgree
  <2>1. (i \in DOMAIN stack /\ stack[i] = q) <=> (nicNames[i] # None /\ nicByAddr[q] = nicNames[i])
    BY DEF StackInv, TablesAgree, Stack!TablesAgree, Stack!AddressesAgree
  <2>2. q # None
    OBVIOUS
  <2>3. QED
    BY <1>1, <1>2, <2>1, <2>2
<1>6. NoneStray'
  <2> SUFFICES ASSUME NEW d \in Writer, ~shared, ~disturbed[d]
               PROVE  OnItsWay(d)'
    BY <1>1 DEF NoneStray
  <2>1. OnItsWay(d)
    BY DEF StackInv, NoneStray
  <2>2. \A i, h : CoveredBy(i, h) => i \in DOMAIN stack' /\ stack'[i] = stack[i]
    BY <1>1, <1>2 DEF CoveredBy
  <2>3. QED
    BY <1>1, <2>1, <2>2 DEF OnItsWay, CoveredBy
<1>7. QED
  BY <1>3, <1>4, <1>5, <1>6 DEF StackInv, TablesAgree, Stack!TablesAgree

LEMMA AddRouteInv ==
  ASSUME StackInv, NEW n \in Name, Stack!AddRoute(n)
  PROVE  StackInv'
<1> USE StackFacts
<1>1. PICK id \in Stack!Id : /\ nicNames[id] = n
                             /\ routes' = routes \cup {[dest |-> PeerPrefix, nic |-> id]}
                             /\ UNCHANGED <<nics, nicNames, nicByAddr, nextNICID, stack, way,
                                            shared, disturbed>>
  BY DEF Stack!AddRoute
<1>2. Stack!TypeOK' /\ FreshIds'
  BY <1>1 DEF StackInv, Stack!TypeOK, FreshIds
<1>3. Stack!NamesAgree' /\ Stack!AddressesAgree'
  BY <1>1 DEF StackInv, TablesAgree, Stack!TablesAgree, Stack!NamesAgree, Stack!AddressesAgree
<1>4. NoneStray'
  BY <1>1 DEF StackInv, NoneStray, OnItsWay, CoveredBy
<1>5. QED
  BY <1>2, <1>3, <1>4 DEF StackInv, TablesAgree, Stack!TablesAgree

\* RemoveNIC: the name, the NIC, its address and its routes go together.
LEMMA RemoveNICInv ==
  ASSUME StackInv, NEW n \in Name, Stack!RemoveNIC(n)
  PROVE  StackInv'
<1> USE StackFacts
<1>1. PICK id \in Stack!Id :
         /\ nics[n] # 0 /\ nicNames[id] = n
         /\ nicNames' = [nicNames EXCEPT ![id] = None]
         /\ DOMAIN stack' = DOMAIN stack \ {id}
         /\ \A i \in DOMAIN stack' : stack'[i] = stack[i]
         /\ routes' = {r \in routes : r.nic # id}
         /\ nicByAddr' = [p \in Prefix |-> IF nicByAddr[p] = n THEN None ELSE nicByAddr[p]]
         /\ nics' = [nics EXCEPT ![n] = 0]
         /\ disturbed' = [d \in Writer |-> disturbed[d] \/ way[d].at # "idle"]
         /\ UNCHANGED <<nextNICID, way, shared>>
  BY DEF Stack!RemoveNIC, Stack!Without, Stack!Disturb
<1>2. nics[n] = id /\ \A i \in Stack!Id : nicNames[i] = n => i = id
  BY <1>1 DEF StackInv, TablesAgree, Stack!TablesAgree, Stack!NamesAgree
<1>3. Stack!TypeOK'
  <2>1. disturbed' \in [Writer -> BOOLEAN]
    BY <1>1 DEF StackInv, Stack!TypeOK
  <2>2. QED
    BY <1>1, <2>1 DEF StackInv, Stack!TypeOK
<1>4. FreshIds'
  BY <1>1 DEF StackInv, FreshIds
<1>5. Stack!NamesAgree'
  <2>1. \A m \in Name : m # n /\ nics[m] # 0 => nics[m] # id
    BY <1>1 DEF StackInv, TablesAgree, Stack!TablesAgree, Stack!NamesAgree
  <2>2. QED
    BY <1>1, <1>2, <2>1 DEF StackInv, Stack!TypeOK, TablesAgree, Stack!TablesAgree, Stack!NamesAgree
<1>6. Stack!AddressesAgree'
  <2> SUFFICES ASSUME ~shared, NEW q \in Prefix, NEW i \in Stack!Id
               PROVE  (i \in DOMAIN stack' /\ stack'[i] = q)
                          <=> (nicNames'[i] # None /\ nicByAddr'[q] = nicNames'[i])
    BY <1>1 DEF Stack!AddressesAgree
  <2>1. (i \in DOMAIN stack /\ stack[i] = q) <=> (nicNames[i] # None /\ nicByAddr[q] = nicNames[i])
    BY DEF StackInv, TablesAgree, Stack!TablesAgree, Stack!AddressesAgree
  <2>2. CASE i = id
    BY <1>1, <2>2
  <2>3. CASE i # id
    BY <1>1, <1>2, <2>1, <2>3
  <2>4. QED
    BY <2>2, <2>3
<1>7. NoneStray'
  <2> SUFFICES ASSUME NEW d \in Writer, ~disturbed'[d]
               PROVE  OnItsWay(d)'
    BY DEF NoneStray
  <2>1. way[d].at = "idle"
    BY <1>1
  <2>2. QED
    BY <1>1, <2>1 DEF OnItsWay
<1>8. QED
  BY <1>3, <1>4, <1>5, <1>6, <1>7 DEF StackInv, TablesAgree, Stack!TablesAgree
\* A packet on its way: each step finds in its own tables what the step before it
\* left there.
LEMMA DeliverInv ==
  ASSUME StackInv, NEW d \in Writer, Stack!Deliver(d)
  PROVE  StackInv' /\ (\A w \in Writer : Stack!Lost(w) => shared \/ disturbed[w])
<1> USE StackFacts
<1>1. /\ UNCHANGED <<nics, nicNames, nicByAddr, nextNICID, stack, routes, shared>>
      /\ DOMAIN way' = Writer /\ way'[d].at \in {"idle", "local", "named", "inject"}
      /\ \A w \in Writer : w # d => way'[w] = way[w] /\ disturbed'[w] = disturbed[w]
      /\ disturbed' \in [Writer -> BOOLEAN]
  <2>1. DOMAIN way = Writer /\ disturbed \in [Writer -> BOOLEAN]
    BY DEF StackInv, Stack!TypeOK
  <2>2. ASSUME NEW from, NEW at \in {"local", "named", "inject"}, NEW dst, NEW nic,
               \/ Stack!Moves(d, from, Stack!On(at, dst, nic))
               \/ Stack!Moves(d, from, Stack!Idle)
        PROVE  /\ UNCHANGED <<nics, nicNames, nicByAddr, nextNICID, stack, routes, shared>>
               /\ DOMAIN way' = Writer /\ way'[d].at \in {"idle", "local", "named", "inject"}
               /\ \A w \in Writer : w # d => way'[w] = way[w]
    <3>1. CASE Stack!Moves(d, from, Stack!On(at, dst, nic))
      BY <2>1, <3>1 DEF Stack!Moves, Stack!On, Stack!tables
    <3>2. CASE Stack!Moves(d, from, Stack!Idle)
      BY <2>1, <3>2 DEF Stack!Moves, Stack!Idle, Stack!tables
    <3>3. QED
      BY <2>2, <3>1, <3>2
  <2>3. CASE \E h \in Host : Stack!Arrives(d, h)
    <3>1. PICK h \in Host : /\ Stack!Moves(d, "idle", Stack!On("local", h, None))
                            /\ disturbed' = [disturbed EXCEPT ![d] = FALSE]
      BY <2>3 DEF Stack!Arrives
    <3>2. QED
      BY <2>1, <2>2, <3>1
  <2>4. CASE Stack!Named(d)
    <3>1. PICK n : /\ Stack!Moves(d, "local", Stack!On("named", way[d].dst, n))
                   /\ disturbed' = disturbed
      BY <2>4 DEF Stack!Named
    <3>2. QED
      BY <2>1, <2>2, <3>1
  <2>5. CASE Stack!EndpointFound(d)
    <3>1. /\ Stack!Moves(d, "named", Stack!On("inject", way[d].dst, nics[way[d].nic]))
          /\ disturbed' = disturbed
      BY <2>5 DEF Stack!EndpointFound
    <3>2. QED
      BY <2>1, <2>2, <3>1
  <2>6. CASE Stack!Unnamed(d) \/ Stack!EndpointGone(d) \/ Stack!Injected(d)
    <3>1. /\ \E from : Stack!Moves(d, from, Stack!Idle)
          /\ disturbed' = disturbed
      BY <2>6 DEF Stack!Unnamed, Stack!EndpointGone, Stack!Injected
    <3>2. QED
      BY <2>1, <2>2, <3>1
  <2>7. QED
    BY <2>3, <2>4, <2>5, <2>6 DEF Stack!Deliver
<1>2. Stack!TypeOK' /\ FreshIds' /\ TablesAgree'
  <2>1. Stack!TypeOK'
    BY <1>1 DEF StackInv, Stack!TypeOK
  <2>2. FreshIds' /\ Stack!NamesAgree' /\ Stack!AddressesAgree'
    BY <1>1 DEF StackInv, FreshIds, TablesAgree, Stack!TablesAgree, Stack!NamesAgree,
                Stack!AddressesAgree
  <2>3. QED
    BY <2>1, <2>2 DEF TablesAgree, Stack!TablesAgree
<1>3. ~shared /\ ~disturbed[d] => OnItsWay(d)
  BY DEF StackInv, NoneStray
<1>4. ASSUME ~shared /\ ~disturbed'[d] => OnItsWay(d)', Stack!Lost(d) => shared \/ disturbed[d]
      PROVE  StackInv' /\ (\A w \in Writer : Stack!Lost(w) => shared \/ disturbed[w])
  <2>1. ASSUME NEW w \in Writer, w # d
        PROVE  (~shared /\ ~disturbed'[w] => OnItsWay(w)') /\ ~Stack!Lost(w)
    <3>1. ~shared /\ ~disturbed'[w] => OnItsWay(w)
      BY <1>1, <2>1 DEF StackInv, NoneStray
    <3>2. way'[w] = way[w]
      BY <1>1, <2>1
    <3>3. OnItsWay(w) => OnItsWay(w)'
      BY <1>1, <3>2 DEF OnItsWay, CoveredBy
    <3>4. ~Stack!Lost(w)
      BY <3>2 DEF Stack!Lost
    <3>5. QED
      BY <3>1, <3>3, <3>4
  <2>2. NoneStray'
    BY <1>1, <1>4, <2>1 DEF NoneStray
  <2>3. \A w \in Writer : Stack!Lost(w) => shared \/ disturbed[w]
    BY <1>4, <2>1
  <2>4. QED
    BY <1>2, <2>2, <2>3 DEF StackInv
<1>5. CASE \E h \in Host : Stack!Arrives(d, h)
  <2>1. PICK h \in Host : Stack!Arrives(d, h)
    BY <1>5
  <2>2. /\ way'[d].at = "local" /\ way'[d].dst = h /\ way[d].at = "idle"
        /\ \E i \in Stack!Id : CoveredBy(i, h)
    BY <2>1 DEF Stack!Arrives, Stack!Moves, Stack!On, Stack!IsLocalAddress, CoveredBy,
                StackInv, Stack!TypeOK
  <2>3. OnItsWay(d)'
    BY <1>1, <2>2 DEF OnItsWay, CoveredBy
  <2>4. ~Stack!Lost(d)
    BY <2>2 DEF Stack!Lost
  <2>5. QED
    BY <1>4, <2>3, <2>4
<1>6. CASE Stack!Named(d) \/ Stack!Unnamed(d)
  <2>1. way[d].at = "local" /\ disturbed' = disturbed
    BY <1>6 DEF Stack!Named, Stack!Unnamed, Stack!Moves
  <2>2. ~shared /\ ~disturbed[d] =>
           \E p \in Prefix : nicByAddr[p] # None /\ way[d].dst \in Covers(p)
    <3> SUFFICES ASSUME ~shared, ~disturbed[d]
                 PROVE  \E p \in Prefix : nicByAddr[p] # None /\ way[d].dst \in Covers(p)
      OBVIOUS
    <3>1. PICK i \in Stack!Id : CoveredBy(i, way[d].dst)
      BY <1>3, <2>1 DEF OnItsWay
    <3>2. stack[i] \in Prefix /\ nicNames[i] # None /\ nicByAddr[stack[i]] = nicNames[i]
      BY <3>1, NameAssumption DEF CoveredBy, StackInv, TablesAgree, Stack!TablesAgree,
                                  Stack!AddressesAgree
    <3>3. QED
      BY <3>1, <3>2 DEF CoveredBy
  <2>3. CASE Stack!Named(d)
    <3>1. PICK p \in Prefix : /\ nicByAddr[p] # None /\ way[d].dst \in Covers(p)
                              /\ way' = [way EXCEPT ![d] = Stack!On("named", way[d].dst, nicByAddr[p])]
      BY <2>3 DEF Stack!Named, Stack!Naming, Stack!Moves
    <3>2. way'[d].at = "named" /\ way'[d].dst = way[d].dst /\ way'[d].nic = nicByAddr[p]
      BY <3>1 DEF Stack!On, StackInv, Stack!TypeOK
    <3>3. OnItsWay(d)' /\ ~Stack!Lost(d)
      BY <1>1, <3>1, <3>2 DEF OnItsWay, Stack!Lost
    <3>4. QED
      BY <1>1, <1>4, <2>1, <3>3
  <2>4. CASE Stack!Unnamed(d)
    <3>1. ~\E p \in Prefix : nicByAddr[p] # None /\ way[d].dst \in Covers(p)
      BY <2>4 DEF Stack!Unnamed, Stack!Naming
    <3>2. way'[d].at = "idle"
      BY <2>4 DEF Stack!Unnamed, Stack!Moves, Stack!Idle, StackInv, Stack!TypeOK
    <3>3. OnItsWay(d)' /\ (shared \/ disturbed[d])
      BY <2>2, <3>1, <3>2 DEF OnItsWay
    <3>4. QED
      BY <1>1, <1>4, <2>1, <3>3
  <2>5. QED
    BY <1>6, <2>3, <2>4
<1>7. CASE Stack!EndpointFound(d) \/ Stack!EndpointGone(d)
  <2>1. way[d].at = "named" /\ disturbed' = disturbed
    BY <1>7 DEF Stack!EndpointFound, Stack!EndpointGone
  <2>2. ~shared /\ ~disturbed[d] => nics[way[d].nic] # 0 /\ CoveredBy(nics[way[d].nic], way[d].dst)
    <3> SUFFICES ASSUME ~shared, ~disturbed[d]
                 PROVE  nics[way[d].nic] # 0 /\ CoveredBy(nics[way[d].nic], way[d].dst)
      OBVIOUS
    <3>1. PICK p \in Prefix : /\ nicByAddr[p] # None /\ nicByAddr[p] = way[d].nic
                              /\ way[d].dst \in Covers(p)
      BY <1>3, <2>1 DEF OnItsWay
    <3> DEFINE n == way[d].nic
    <3>2. n \in Name /\ nics[n] # 0 /\ nics[n] \in Stack!Id /\ nicNames[nics[n]] = n
      BY <3>1 DEF StackInv, TablesAgree, Stack!TablesAgree, Stack!NamesAgree
    <3>3. nics[n] \in DOMAIN stack /\ stack[nics[n]] = p
      BY <3>1, <3>2 DEF StackInv, TablesAgree, Stack!TablesAgree, Stack!AddressesAgree
    <3>4. QED
      BY <3>1, <3>2, <3>3 DEF CoveredBy
  <2>3. CASE Stack!EndpointFound(d)
    <3>1. /\ way'[d].at = "inject" /\ way'[d].dst = way[d].dst /\ way'[d].nic = nics[way[d].nic]
      BY <2>3 DEF Stack!EndpointFound, Stack!Moves, Stack!On, StackInv, Stack!TypeOK
    <3>2. ~shared /\ ~disturbed[d] => OnItsWay(d)'
      BY <1>1, <2>2, <3>1 DEF OnItsWay, CoveredBy
    <3>3. ~Stack!Lost(d)
      BY <3>1 DEF Stack!Lost
    <3>4. QED
      BY <1>1, <1>4, <2>1, <3>2, <3>3
  <2>4. CASE Stack!EndpointGone(d)
    <3>1. way'[d].at = "idle" /\ nics[way[d].nic] = 0
      BY <2>4 DEF Stack!EndpointGone, Stack!Moves, Stack!Idle, StackInv, Stack!TypeOK
    <3>2. OnItsWay(d)' /\ (shared \/ disturbed[d])
      BY <2>2, <3>1 DEF OnItsWay
    <3>3. QED
      BY <1>1, <1>4, <2>1, <3>2
  <2>5. QED
    BY <1>7, <2>3, <2>4
<1>8. CASE Stack!Injected(d)
  <2>1. way[d].at = "inject" /\ way'[d].at = "idle" /\ disturbed' = disturbed
    BY <1>8 DEF Stack!Injected, Stack!Moves, Stack!Idle, StackInv, Stack!TypeOK
  <2>2. Stack!Lost(d) => shared \/ disturbed[d]
    BY <1>3, <2>1 DEF OnItsWay, CoveredBy, Stack!Lost, Stack!Accepted
  <2>3. OnItsWay(d)'
    BY <2>1 DEF OnItsWay
  <2>4. QED
    BY <1>1, <1>4, <2>1, <2>2, <2>3
<1>9. QED
  BY <1>5, <1>6, <1>7, <1>8 DEF Stack!Deliver

LEMMA StackNextInv ==
  ASSUME StackInv, Stack!Next
  PROVE  StackInv' /\ (\A w \in Writer : Stack!Lost(w) => shared \/ disturbed[w])
<1>1. CASE Stack!Table
  <2>1. PICK n \in Name : \/ \E p \in Prefix : Stack!AddNIC(n, p) \/ Stack!AddNICFails(n, p)
                          \/ Stack!AddRoute(n) \/ Stack!RemoveNIC(n)
    BY <1>1 DEF Stack!Table
  <2>2. StackInv'
    BY <2>1, AddNICInv, AddNICFailsInv, AddRouteInv, RemoveNICInv
  <2>3. way' = way
    BY <2>1 DEF Stack!AddNIC, Stack!AddNICFails, Stack!AddRoute, Stack!RemoveNIC
  <2>4. QED
    BY <2>2, <2>3 DEF Stack!Lost
<1>2. CASE \E d \in Writer : Stack!Deliver(d)
  BY <1>2, DeliverInv
<1>3. QED
  BY <1>1, <1>2 DEF Stack!Next

-----------------------------------------------------------------------------
(* The parts together.                                                     *)

\* Links' own variables, and the calls of Write that are under way.
Own == /\ kind \in {"wg", "udp", "stack"} /\ present \in BOOLEAN /\ ctx \in BOOLEAN
       /\ rd \in {"none", "start", "take", "handle", "ended"}
       /\ wr \in [Writer -> {"idle", "found", "blocked"}] /\ written \in [Writer -> Nat]
       /\ \A w \in Writer : writing[w] # NoPacket <=> wr[w] = "blocked"

IInv == WgInv /\ UdpInv /\ StackInv /\ Own

LEMMA WgKept ==
  ASSUME WgInv, UNCHANGED wgvars
  PROVE  WgInv' /\ writing' = writing
BY DEF WgInv, wgvars, Wg!TypeOK, NothingLost, Wg!Pipeline, ClosingOrder

LEMMA UdpKept ==
  ASSUME UdpInv, UNCHANGED udpvars
  PROVE  UdpInv'
BY DEF UdpInv, udpvars, Udp!TypeOK

LEMMA StackKept ==
  ASSUME StackInv, UNCHANGED stackvars
  PROVE  StackInv' /\ way' = way
<1>1. /\ nics' = nics /\ nicNames' = nicNames /\ nicByAddr' = nicByAddr /\ nextNICID' = nextNICID
      /\ stack' = stack /\ routes' = routes /\ way' = way /\ shared' = shared
      /\ disturbed' = disturbed
  BY DEF stackvars
<1>2. Stack!TypeOK' /\ FreshIds'
  BY <1>1 DEF StackInv, Stack!TypeOK, FreshIds
<1>3. TablesAgree'
  BY <1>1 DEF StackInv, TablesAgree, Stack!TablesAgree, Stack!NamesAgree, Stack!AddressesAgree
<1>4. NoneStray'
  BY <1>1 DEF StackInv, NoneStray, OnItsWay, CoveredBy
<1>5. QED
  BY <1>1, <1>2, <1>3, <1>4 DEF StackInv

LEMMA InitInv ==
  ASSUME Init
  PROVE  IInv
<1>1. WgInv
  <2>1. Wg!Pipeline = [k \in 1..(given - taken) |-> [from |-> "peer", num |-> taken + k]]
    BY DEF Init, Wg!Init, Wg!Pipeline
  <2>2. Wg!TypeOK
    <3>1. /\ inbound = <<>> /\ outbound = <<>> /\ reader = <<>>
          /\ inbound \in Seq(Wg!Packet) /\ Len(inbound) <= Cap
      BY CapAssumption DEF Init, Wg!Init
    <3>2. closing \in [Wg!Closer -> {"no", "close", "wait", "done"}]
      BY DEF Init, Wg!Init
    <3>3. writing \in [Writer -> Wg!Packet \cup {NoPacket}]
      BY DEF Init, Wg!Init
    <3>4. QED
      BY <3>1, <3>2, <3>3 DEF Init, Wg!Init, Wg!TypeOK
  <2>3. taken <= given /\ ClosingOrder
    BY DEF Init, Wg!Init, ClosingOrder, Wg!Closer
  <2>4. QED
    BY <2>1, <2>2, <2>3 DEF WgInv, NothingLost
<1>2. UdpInv
  <2>1. sock \in Seq(Udp!Packet) /\ Len(sock) <= SockCap /\ ureader = sock /\ Len(ureader) <= Cap
    BY CapAssumption DEF Init, Udp!Init
  <2>2. arrived \in 0..MaxPackets
    BY BoundAssumption DEF Init, Udp!Init
  <2>3. QED
    BY <2>1, <2>2 DEF Init, Udp!Init, UdpInv, Udp!TypeOK
<1>3. StackInv
  <2>1. nextNICID \in 1..(MaxNIC + 1) /\ nics \in [Name -> 0..MaxNIC]
    BY BoundAssumption DEF Init, Stack!Init
  <2>2. DOMAIN stack = {} /\ routes = {} /\ way = [d \in Writer |-> Stack!Idle]
    BY DEF Init, Stack!Init
  <2>3. Stack!TypeOK /\ FreshIds
    <3>1. /\ nicNames \in [Stack!Id -> Name \cup {None}]
          /\ nicByAddr \in [Prefix -> Name \cup {None}]
          /\ shared \in BOOLEAN /\ disturbed \in [Writer -> BOOLEAN]
          /\ \A i \in Stack!Id : nicNames[i] = None
      BY DEF Init, Stack!Init
    <3>2. DOMAIN way = Writer /\ \A d \in Writer : way[d].at = "idle"
      BY <2>2 DEF Stack!Idle
    <3>3. Stack!TypeOK
      BY <2>1, <2>2, <3>1, <3>2 DEF Stack!TypeOK
    <3>4. FreshIds
      BY <2>2, <3>1 DEF FreshIds
    <3>5. QED
      BY <3>3, <3>4
  <2>4. TablesAgree
    BY <2>2 DEF Init, Stack!Init, TablesAgree, Stack!TablesAgree, Stack!NamesAgree,
                Stack!AddressesAgree
  <2>5. NoneStray
    BY <2>2 DEF NoneStray, OnItsWay, Stack!Idle
  <2>6. QED
    BY <2>3, <2>4, <2>5 DEF StackInv
<1>4. Own
  BY DEF Init, Wg!Init, Own
<1>5. QED
  BY <1>1, <1>2, <1>3, <1>4 DEF IInv

\* One step: the invariant, and what is said of a packet for a local address.
LEMMA NextInv ==
  ASSUME IInv, Next
  PROVE  IInv' /\ (\A w \in Writer : Stack!Lost(w) => shared \/ disturbed[w])
<1> USE DEF IInv
<1>1. CASE UNCHANGED <<wgvars, udpvars, stackvars>> /\ Own'
  BY <1>1, WgKept, UdpKept, StackKept DEF Stack!Lost
<1>2. CASE Router
  <2>1. UdpInv /\ UNCHANGED udpvars => UdpInv'
    BY UdpKept
  <2>2. StackInv /\ UNCHANGED stackvars => StackInv' /\ way' = way
    BY StackKept
  <2>3. UNCHANGED wgvars => WgInv' /\ writing' = writing
    BY WgKept
  <2>4. CASE AddTransport \/ RemoveTransport \/ Cancel
    <3>1. UNCHANGED <<wgvars, udpvars, stackvars>>
      BY <2>4 DEF AddTransport, RemoveTransport, Cancel, links
    <3>2. Own'
      BY <2>3, <2>4, <3>1 DEF AddTransport, RemoveTransport, Cancel, Own
    <3>3. QED
      BY <1>1, <3>1, <3>2
  <2>5. CASE ReaderStart \/ ReaderStops \/ Handled
    <3>1. UNCHANGED <<wgvars, udpvars, stackvars>>
      BY <2>5 DEF ReaderStart, ReaderStops, Handled, links
    <3>2. Own'
      BY <2>3, <2>5, <3>1 DEF ReaderStart, ReaderStops, Handled, Reads, Own
    <3>3. QED
      BY <1>1, <3>1, <3>2
  <2>6. CASE Takes
    <3>1. CASE kind = "wg" /\ Wg!Take /\ UNCHANGED <<udpvars, stackvars>>
      <4>1. WgInv' /\ writing' = writing
        BY <3>1, TakeInv DEF Wg!Take, Wg!outward
      <4>2. Own'
        BY <2>6, <4>1 DEF Takes, Reads, Own
      <4>3. QED
        BY <2>1, <2>2, <3>1, <4>1, <4>2 DEF Stack!Lost
    <3>2. CASE kind = "udp" /\ Udp!Take /\ UNCHANGED <<wgvars, stackvars>>
      <4>1. UdpInv'
        BY <3>2, UdpStepInv
      <4>2. Own'
        BY <2>3, <2>6, <3>2 DEF Takes, Reads, Own
      <4>3. QED
        BY <2>2, <2>3, <3>2, <4>1, <4>2 DEF Stack!Lost
    <3>3. QED
      BY <2>6, <3>1, <3>2 DEF Takes
  <2>7. CASE \E w \in Writer : Finds(w) \/ WriteUDP(w)
    <3>1. UNCHANGED <<wgvars, udpvars, stackvars>>
      BY <2>7 DEF Finds, WriteUDP, links
    <3>2. Own'
      BY <2>3, <2>7, <3>1 DEF Finds, WriteUDP, Writes, Own
    <3>3. QED
      BY <1>1, <3>1, <3>2
  <2>8. ASSUME NEW w \in Writer, WriteWg(w)
        PROVE  IInv' /\ (\A x \in Writer : Stack!Lost(x) => shared \/ disturbed[x])
    <3>1. Pkt(w) \in Wg!Packet
      BY DEF Pkt, Wg!Packet, Own
    <3>2. WgInv' /\ writing' = [writing EXCEPT ![w] = Pkt(w)]
      BY <2>8, <3>1, WriteInv DEF WriteWg
    <3>3. Pkt(w) # NoPacket /\ writing \in [Writer -> Wg!Packet \cup {NoPacket}]
      BY <3>1, PacketAssumption DEF WgInv, Wg!TypeOK
    <3>4. Own'
      BY <2>8, <3>2, <3>3 DEF WriteWg, Writes, Own
    <3>5. QED
      BY <2>1, <2>2, <2>8, <3>2, <3>4 DEF WriteWg, Stack!Lost
  <2>9. ASSUME NEW w \in Writer, WgReturns(w)
        PROVE  IInv' /\ (\A x \in Writer : Stack!Lost(x) => shared \/ disturbed[x])
    <3>1. PICK pkt \in Wg!Packet : TRUE
      <4>1. Pkt(w) \in Wg!Packet
        BY DEF Pkt, Wg!Packet, Own
      <4>2. QED
        BY <4>1
    <3>2. WgInv'
      BY <2>9, <3>1, WriteInv DEF WgReturns
    <3>3. writing' = [writing EXCEPT ![w] = NoPacket]
      BY <2>9 DEF WgReturns, Wg!WriteStep, Wg!WriteSend, Wg!WriteRefused
    <3>4. writing \in [Writer -> Wg!Packet \cup {NoPacket}]
      BY DEF WgInv, Wg!TypeOK
    <3>5. Own'
      BY <2>9, <3>3, <3>4 DEF WgReturns, Writes, Own
    <3>6. QED
      BY <2>1, <2>2, <2>9, <3>2, <3>5 DEF WgReturns, Stack!Lost
  <2>10. QED
    BY <1>2, <2>4, <2>5, <2>6, <2>7, <2>8, <2>9 DEF Router, Reader, WriterStep
<1>3. CASE WgAlone(Wg!Own)
  <2>1. WgInv' /\ writing' = writing
    BY <1>3, WgOwnInv DEF WgAlone
  <2>2. Own'
    BY <1>3, <2>1 DEF WgAlone, router, Own
  <2>3. QED
    BY <1>3, <2>1, <2>2, UdpKept, StackKept DEF WgAlone, Stack!Lost
<1>4. CASE UdpAlone(Udp!Own)
  <2>1. UdpInv'
    BY <1>4, UdpStepInv DEF UdpAlone
  <2>2. WgInv' /\ writing' = writing
    BY <1>4, WgKept DEF UdpAlone
  <2>3. Own'
    BY <1>4, <2>2 DEF UdpAlone, router, Own
  <2>4. QED
    BY <1>4, <2>1, <2>2, <2>3, StackKept DEF UdpAlone, Stack!Lost
<1>5. CASE StackAlone(Stack!Next)
  <2>1. StackInv' /\ (\A w \in Writer : Stack!Lost(w) => shared \/ disturbed[w])
    BY <1>5, StackNextInv DEF StackAlone
  <2>2. WgInv' /\ writing' = writing
    BY <1>5, WgKept DEF StackAlone
  <2>3. Own'
    BY <1>5, <2>2 DEF StackAlone, router, Own
  <2>4. QED
    BY <1>5, <2>1, <2>2, <2>3, UdpKept DEF StackAlone
<1>6. QED
  BY <1>2, <1>3, <1>4, <1>5 DEF Next

\* Nothing changes in a stuttering step.
LEMMA StutterInv ==
  ASSUME IInv, UNCHANGED vars
  PROVE  IInv' /\ way' = way /\ uloop' = uloop
<1>1. UNCHANGED <<wgvars, udpvars, stackvars, router>>
  BY DEF vars, links
<1>2. Own'
  BY <1>1, WgKept DEF IInv, router, Own
<1>3. QED
  BY <1>1, <1>2, WgKept, UdpKept, StackKept DEF IInv, udpvars

-----------------------------------------------------------------------------
(* What the router relies on in a transport.                               *)

\* Numbers m+1 to n, in order: what Num makes of the packets m+1 to n.
Counting(m, n) == [k \in 1..(n - m) |-> m + k]

\* Sequences of one length with the same elements are equal.
LEMMA SameSequence ==
  ASSUME NEW S, NEW a \in Seq(S), NEW b \in Seq(S), Len(a) = Len(b),
         \A k \in 1..Len(a) : a[k] = b[k]
  PROVE  a = b
OBVIOUS

LEMMA NumCounts ==
  ASSUME NEW m \in Nat, NEW n \in Nat
  PROVE  Num(Numbered(m, n)) = Counting(m, n)
BY DEF Num, Numbered, Counting

LEMMA CountingGrows ==
  ASSUME NEW m \in Nat, NEW n \in Nat, m <= n
  PROVE  Counting(m, n + 1) = Append(Counting(m, n), n + 1)
BY DEF Counting

LEMMA CountingShrinks ==
  ASSUME NEW m \in Nat, NEW n \in Nat, m + 1 <= n
  PROVE  Counting(m, n) # <<>> /\ Counting(m + 1, n) = Tail(Counting(m, n))
<1>1. Counting(m, n) \in Seq(Nat) /\ Len(Counting(m, n)) = n - m
  BY DEF Counting
<1>2. /\ Tail(Counting(m, n)) \in Seq(Nat) /\ Len(Tail(Counting(m, n))) = n - (m + 1)
      /\ \A k \in 1..(n - (m + 1)) : Tail(Counting(m, n))[k] = Counting(m, n)[k + 1]
  BY <1>1
<1>3. \A k \in 1..(n - (m + 1)) : Tail(Counting(m, n))[k] = Counting(m + 1, n)[k]
  BY <1>2 DEF Counting
<1>4. Counting(m + 1, n) \in Seq(Nat) /\ Len(Counting(m + 1, n)) = n - (m + 1)
  BY DEF Counting
<1> HIDE DEF Counting
<1>5. Counting(m + 1, n) = Tail(Counting(m, n))
  BY <1>2, <1>3, <1>4, SameSequence
<1>6. QED
  BY <1>1, <1>5

\* One more packet at the end.
LEMMA NumAppend ==
  ASSUME NEW S, NEW q \in Seq(S), NEW x \in S
  PROVE  Num(Append(q, x)) = Append(Num(q), x.num)
BY DEF Num

LEMMA NumTail ==
  ASSUME NEW S, NEW q \in Seq(S), q # <<>>
  PROVE  Num(q) # <<>> /\ Num(Tail(q)) = Tail(Num(q))
BY DEF Num

\* The elements of a concatenation.
LEMMA ConcatElements ==
  ASSUME NEW S, NEW a \in Seq(S), NEW c \in Seq(S)
  PROVE  /\ a \o c \in Seq(S) /\ Len(a \o c) = Len(a) + Len(c)
         /\ \A k \in 1..Len(a) : (a \o c)[k] = a[k]
         /\ \A k \in 1..Len(c) : (a \o c)[Len(a) + k] = c[k]
OBVIOUS

\* Each packet has its number in the same place.
LEMMA NumElements ==
  ASSUME NEW S, NEW q \in Seq(S)
  PROVE  /\ Num(q) \in Seq({x.num : x \in S}) /\ Len(Num(q)) = Len(q)
         /\ \A k \in 1..Len(q) : Num(q)[k] = q[k].num
BY DEF Num

LEMMA NumConcat ==
  ASSUME NEW S, NEW a \in Seq(S), NEW c \in Seq(S)
  PROVE  Num(a \o c) = Num(a) \o Num(c)
<1> DEFINE T == {x.num : x \in S}
<1>1. /\ Num(a) \in Seq(T) /\ Len(Num(a)) = Len(a)
      /\ \A k \in 1..Len(a) : Num(a)[k] = a[k].num
  BY NumElements
<1>2. /\ Num(c) \in Seq(T) /\ Len(Num(c)) = Len(c)
      /\ \A k \in 1..Len(c) : Num(c)[k] = c[k].num
  BY NumElements
<1>3. a \o c \in Seq(S) /\ Len(a \o c) = Len(a) + Len(c)
  BY ConcatElements
<1>4. /\ Num(a \o c) \in Seq(T) /\ Len(Num(a \o c)) = Len(a) + Len(c)
      /\ \A k \in 1..(Len(a) + Len(c)) : Num(a \o c)[k] = (a \o c)[k].num
  BY <1>3, NumElements
<1> HIDE DEF T
<1>5. Num(a) \o Num(c) \in Seq(T) /\ Len(Num(a) \o Num(c)) = Len(a) + Len(c)
  <2>1. Num(a) \in Seq(T) /\ Num(c) \in Seq(T)
    BY <1>1, <1>2
  <2>2. Num(a) \o Num(c) \in Seq(T) /\ Len(Num(a) \o Num(c)) = Len(Num(a)) + Len(Num(c))
    BY <2>1, ConcatElements, Zenon
  <2>3. QED
    BY <1>1, <1>2, <2>2
<1>6. ASSUME NEW k \in 1..(Len(a) + Len(c))
      PROVE  Num(a \o c)[k] = (Num(a) \o Num(c))[k]
  <2>1. CASE k <= Len(a)
    <3>1. k \in 1..Len(a)
      BY <2>1
    <3>2. (a \o c)[k] = a[k] /\ (Num(a) \o Num(c))[k] = Num(a)[k]
      BY <3>1, <1>1, <1>2, ConcatElements
    <3>3. QED
      BY <3>1, <3>2, <1>1, <1>4
  <2>2. CASE k > Len(a)
    <3> DEFINE i == k - Len(a)
    <3>1. i \in 1..Len(c) /\ k = Len(a) + i
      BY <2>2
    <3> HIDE DEF i
    <3>2. (a \o c)[k] = c[i] /\ (Num(a) \o Num(c))[k] = Num(c)[i]
      BY <3>1, <1>1, <1>2, ConcatElements
    <3>3. QED
      BY <3>1, <3>2, <1>2, <1>4
  <2>3. k <= Len(a) \/ k > Len(a)
    OBVIOUS
  <2>4. QED
    BY <2>1, <2>2, <2>3
<1>7. QED
  BY <1>4, <1>5, <1>6, SameSequence

\* The end of a concatenation.
LEMMA EndOfConcat ==
  ASSUME NEW S, NEW a \in Seq(S), NEW c \in Seq(S), NEW j \in 1..(Len(c) + 1)
  PROVE  /\ SubSeq(a \o c, 1, Len(a)) = a
         /\ SubSeq(a \o c, Len(a) + j, Len(a \o c)) = SubSeq(c, j, Len(c))
OBVIOUS

LEMMA NumEnd ==
  ASSUME NEW S, NEW c \in Seq(S), NEW j \in 1..(Len(c) + 1)
  PROVE  Num(SubSeq(c, j, Len(c))) = SubSeq(Num(c), j, Len(c))
BY DEF Num

\* The first packets of the second of two sequences are lost.
LEMMA NumCut ==
  ASSUME NEW S, NEW a \in Seq(S), NEW c \in Seq(S), NEW j \in 1..(Len(c) + 1)
  PROVE  /\ Len(Num(a \o c)) = Len(a) + Len(c)
         /\ Num(a \o SubSeq(c, j, Len(c)))
              = SubSeq(Num(a \o c), 1, Len(a))
                  \o SubSeq(Num(a \o c), Len(a) + j, Len(Num(a \o c)))
<1> DEFINE T == {x.num : x \in S}
<1>1. Num(a) \in Seq(T) /\ Num(c) \in Seq(T) /\ Len(Num(a)) = Len(a) /\ Len(Num(c)) = Len(c)
  BY NumElements
<1>2. SubSeq(c, j, Len(c)) \in Seq(S)
  OBVIOUS
<1>3. Num(a \o SubSeq(c, j, Len(c))) = Num(a) \o SubSeq(Num(c), j, Len(c))
  <2>1. Num(a \o SubSeq(c, j, Len(c))) = Num(a) \o Num(SubSeq(c, j, Len(c)))
    BY <1>2, NumConcat, Zenon
  <2>2. Num(SubSeq(c, j, Len(c))) = SubSeq(Num(c), j, Len(c))
    BY NumEnd, Zenon
  <2>3. QED
    BY <2>1, <2>2
<1>4. Num(a \o c) = Num(a) \o Num(c)
  BY NumConcat
<1> HIDE DEF T
<1>5. /\ SubSeq(Num(a) \o Num(c), 1, Len(a)) = Num(a)
      /\ SubSeq(Num(a) \o Num(c), Len(a) + j, Len(Num(a) \o Num(c))) = SubSeq(Num(c), j, Len(c))
  <2>1. Num(a) \in Seq(T) /\ Num(c) \in Seq(T) /\ j \in 1..(Len(Num(c)) + 1)
    BY <1>1
  <2>2. /\ SubSeq(Num(a) \o Num(c), 1, Len(Num(a))) = Num(a)
        /\ SubSeq(Num(a) \o Num(c), Len(Num(a)) + j, Len(Num(a) \o Num(c)))
             = SubSeq(Num(c), j, Len(Num(c)))
    BY <2>1, EndOfConcat, Zenon
  <2>3. QED
    BY <1>1, <2>2
<1>6. Len(Num(a) \o Num(c)) = Len(a) + Len(c)
  <2>1. Num(a) \in Seq(T) /\ Num(c) \in Seq(T)
    BY <1>1
  <2>2. Len(Num(a) \o Num(c)) = Len(Num(a)) + Len(Num(c))
    BY <2>1, ConcatElements, Zenon
  <2>3. QED
    BY <1>1, <2>2
<1>7. QED
  BY <1>3, <1>4, <1>5, <1>6

\* A step of the WireGuard link is one of Transport's, or stutters.
LEMMA WgStepPromised ==
  ASSUME WgInv, WgInv', Wg!Own \/ Wg!Take
  PROVE  [WgPromise!Next]_(WgPromise!vars)
<1> USE DEF Wg!inward, Wg!looping, Wg!outward, Wg!closure
<1>1. /\ given \in Nat /\ taken \in Nat /\ taken <= given
      /\ given' \in Nat /\ taken' \in Nat /\ taken' <= given'
  BY DEF WgInv, Wg!TypeOK
<1>2. /\ Num(Wg!Pipeline) = Counting(taken, given)
      /\ Num(Wg!Pipeline)' = Counting(taken', given')
  <2>1. Wg!Pipeline = Numbered(taken, given) /\ Wg!Pipeline' = Numbered(taken', given')
    BY DEF WgInv, NothingLost, Numbered
  <2>2. QED
    BY <1>1, <2>1, NumCounts
<1>3. CASE Wg!Put
  <2>1. /\ given' = given + 1
        /\ UNCHANGED <<taken, outbound, writing, closed>>
    BY <1>3 DEF Wg!Put
  <2>2. Num(Wg!Pipeline)' = Append(Num(Wg!Pipeline), given + 1)
    BY <1>1, <1>2, <2>1, CountingGrows
  <2>3. WgPromise!Arrive
    BY <2>1, <2>2 DEF WgPromise!Arrive
  <2>4. QED
    BY <2>3 DEF WgPromise!Next
<1>4. CASE Wg!Take
  <2>1. taken' = taken + 1 /\ UNCHANGED <<given, outbound, writing, closed>>
    BY <1>4 DEF Wg!Take
  <2>2. Num(Wg!Pipeline) # <<>> /\ Num(Wg!Pipeline)' = Tail(Num(Wg!Pipeline))
    BY <1>1, <1>2, <2>1, CountingShrinks
  <2>3. WgPromise!Read
    BY <2>1, <2>2 DEF WgPromise!Read
  <2>4. QED
    BY <2>3 DEF WgPromise!Next
<1>5. CASE Wg!DevRead
  <2>1. /\ outbound # <<>> /\ outbound' = Tail(outbound)
        /\ UNCHANGED <<given, taken, writing, closed>>
    BY <1>5 DEF Wg!DevRead
  <2>2. WgPromise!Deliver
    BY <1>2, <2>1 DEF WgPromise!Deliver
  <2>3. QED
    BY <2>2 DEF WgPromise!Next
<1>6. ASSUME NEW c \in Wg!Closer, Wg!CloseClosed(c)
      PROVE  WgPromise!Close
  <2>1. /\ closing[c] = "close" /\ closed' = TRUE
        /\ UNCHANGED <<given, taken, outbound, writing>>
    BY <1>6 DEF Wg!CloseClosed
  <2>2. ~closed
    BY <2>1 DEF Wg!Closer, WgInv, ClosingOrder
  <2>3. QED
    BY <1>2, <2>1, <2>2 DEF WgPromise!Close
<1>7. CASE \/ Wg!Up \/ Wg!Give \/ Wg!LoopStep \/ Wg!PutRefused \/ Wg!DevReadFails
           \/ \E c \in Wg!Closer : Wg!CheckClosed(c) \/ Wg!CloseDevice(c)
  <2>1. UNCHANGED <<given, taken, outbound, writing, closed>>
    BY <1>7 DEF Wg!Up, Wg!Give, Wg!LoopStep, Wg!LoopTake, Wg!LoopPush, Wg!LoopEnd,
                Wg!PutRefused, Wg!DevReadFails, Wg!CheckClosed, Wg!CloseDevice
  <2>2. QED
    BY <1>2, <2>1 DEF WgPromise!vars
<1>8. QED
  BY <1>3, <1>4, <1>5, <1>6, <1>7
     DEF Wg!Own, Wg!RecvStep, Wg!DevStep, WgPromise!Next

\* So is a step of a call of Write.
LEMMA WgWritePromised ==
  ASSUME WgInv, WgInv', NEW w \in Writer, NEW pkt \in Written,
         Wg!WriteCall(w, pkt) \/ Wg!WriteStep(w)
  PROVE  WgPromise!Next
<1> USE DEF Wg!inward, Wg!looping, Wg!closure
<1>1. UNCHANGED <<reader, held, inbound, given, closed>>
  BY DEF Wg!WriteCall, Wg!WriteStep, Wg!WriteSend, Wg!WriteRefused
<1>2. Num(Wg!Pipeline)' = Num(Wg!Pipeline)
  BY <1>1 DEF Wg!Pipeline
<1>3. CASE Wg!WriteCall(w, pkt)
  BY <1>1, <1>2, <1>3 DEF Wg!WriteCall, WgPromise!Write, WgPromise!Next
<1>4. CASE Wg!WriteSend(w)
  BY <1>1, <1>2, <1>4 DEF Wg!WriteSend, WgPromise!Accept, WgPromise!Next
<1>5. CASE Wg!WriteRefused(w)
  BY <1>1, <1>2, <1>5 DEF Wg!WriteRefused, WgPromise!Refuse, WgPromise!Next
<1>6. QED
  BY <1>3, <1>4, <1>5 DEF Wg!WriteStep

\* What the router, readLoop and the kernel have of the datagrams, as sequences.
UFront == ureader \o (IF uheld = NoPacket THEN <<>> ELSE <<uheld>>)

LEMMA UdpPipelineType ==
  ASSUME UdpInv
  PROVE  /\ ureader \in Seq(Udp!Packet) /\ sock \in Seq(Udp!Packet)
         /\ UFront \in Seq(Udp!Packet) /\ Udp!Pipeline = UFront \o sock
         /\ Udp!Pipeline \in Seq(Udp!Packet)
         /\ uloop = "push" => uheld \in Udp!Packet /\ UFront = ureader \o <<uheld>>
         /\ uloop # "push" => uheld = NoPacket /\ UFront = ureader
<1>1. ureader \in Seq(Udp!Packet) /\ sock \in Seq(Udp!Packet)
  BY DEF UdpInv, Udp!TypeOK
<1>2. uloop = "push" => uheld \in Udp!Packet /\ UFront = ureader \o <<uheld>>
  BY DEF UdpInv, Udp!TypeOK, UFront
<1>3. uloop # "push" => uheld = NoPacket /\ UFront = ureader
  BY <1>1, EmptyNeutral DEF UdpInv, Udp!TypeOK, UFront
<1>4. UFront \in Seq(Udp!Packet)
  <2>1. CASE uloop = "push"
    <3>1. <<uheld>> \in Seq(Udp!Packet)
      BY <2>1, <1>2
    <3>2. ureader \o <<uheld>> \in Seq(Udp!Packet)
      BY <1>1, <3>1, ConcatElements, Zenon
    <3>3. QED
      BY <2>1, <3>2, <1>2
  <2>2. QED
    BY <2>1, <1>1, <1>3
<1>5. QED
  BY <1>1, <1>2, <1>3, <1>4 DEF UFront, Udp!Pipeline

\* Datagrams lost from the kernel's end of the pipeline, for the abstract Lose.
LEMMA UdpLoses ==
  ASSUME UdpInv, NEW j \in 1..(Len(sock) + 1),
         Udp!Pipeline' = UFront \o SubSeq(sock, j, Len(sock)),
         UNCHANGED <<arrived, closeCh>>
  PROVE  UdpPromise!Next
<1> DEFINE all == Num(Udp!Pipeline)
<1>1. UFront \in Seq(Udp!Packet) /\ sock \in Seq(Udp!Packet) /\ Udp!Pipeline = UFront \o sock
  BY UdpPipelineType
<1>2. /\ Len(all) = Len(UFront) + Len(sock)
      /\ Num(UFront \o SubSeq(sock, j, Len(sock)))
           = SubSeq(all, 1, Len(UFront)) \o SubSeq(all, Len(UFront) + j, Len(all))
  BY <1>1, NumCut, Zenon
<1>3. all' = SubSeq(all, 1, Len(UFront)) \o SubSeq(all, Len(UFront) + j, Len(all))
  BY <1>2
<1> HIDE DEF all
<1>4. Len(UFront) \in Nat /\ Len(sock) \in Nat
  BY <1>1
<1>5. /\ Len(UFront) \in 0..Len(all)
      /\ Len(UFront) + j \in (Len(UFront) + 1)..(Len(all) + 1)
  BY <1>2, <1>4
<1>6. \E k \in 0..Len(all) : \E m \in (k + 1)..(Len(all) + 1) :
          all' = SubSeq(all, 1, k) \o SubSeq(all, m, Len(all))
  BY <1>3, <1>5
<1>7. UdpPromise!Lose
  BY <1>6 DEF UdpPromise!Lose, all
<1>8. QED
  BY <1>7 DEF UdpPromise!Next

LEMMA UdpStepPromised ==
  ASSUME UdpInv, UdpInv', Udp!Own \/ Udp!Take
  PROVE  [UdpPromise!Next]_(UdpPromise!vars)
<1> DEFINE all == Num(Udp!Pipeline)
<1>1. /\ ureader \in Seq(Udp!Packet) /\ sock \in Seq(Udp!Packet)
      /\ UFront \in Seq(Udp!Packet) /\ Udp!Pipeline = UFront \o sock
      /\ Udp!Pipeline \in Seq(Udp!Packet)
  BY UdpPipelineType
<1>2. CASE Udp!Arrive /\ Len(sock) < SockCap
  <2> DEFINE pkt == [from |-> "udp", num |-> arrived + 1]
  <2>1. /\ sock' = Append(sock, pkt) /\ arrived' = arrived + 1
        /\ UNCHANGED <<uheld, ureader, closeCh>>
    BY <1>2 DEF Udp!Arrive
  <2>2. pkt \in Udp!Packet /\ pkt.num = arrived + 1
    BY <1>2, BoundAssumption DEF Udp!Arrive, Udp!Packet, UdpInv, Udp!TypeOK
  <2> HIDE DEF pkt
  <2>3. Udp!Pipeline' = UFront \o Append(sock, pkt)
    BY <2>1 DEF Udp!Pipeline, UFront
  <2>4. Udp!Pipeline' = Append(Udp!Pipeline, pkt)
    BY <1>1, <2>2, <2>3, AppendToLast
  <2>5. all' = Append(all, pkt.num)
    BY <1>1, <2>2, <2>4, NumAppend
  <2>6. UdpPromise!Arrive
    BY <2>1, <2>2, <2>5 DEF UdpPromise!Arrive
  <2>7. QED
    BY <2>6 DEF UdpPromise!Next
<1>3. CASE Udp!Arrive /\ ~(Len(sock) < SockCap)
  <2>1. arrived' = arrived + 1 /\ UNCHANGED <<sock, uheld, ureader, closeCh>>
    BY <1>3 DEF Udp!Arrive
  <2>2. all' = all
    BY <2>1 DEF Udp!Pipeline
  <2>3. UdpPromise!Miss
    BY <2>1, <2>2 DEF UdpPromise!Miss
  <2>4. QED
    BY <2>3 DEF UdpPromise!Next
<1>4. CASE Udp!LoopCheck \/ Udp!LoopError
  BY <1>4 DEF Udp!LoopCheck, Udp!LoopError, Udp!Pipeline, UdpPromise!vars
<1>5. CASE Udp!LoopRead /\ uloop' = "push"
  <2>1. /\ uloop # "push" /\ sock # <<>> /\ uheld' = Head(sock) /\ sock' = Tail(sock)
        /\ UNCHANGED <<ureader, arrived, closeCh>>
    BY <1>5 DEF Udp!LoopRead
  <2>2. UFront = ureader
    BY <2>1, UdpPipelineType
  <2>3. Head(sock) \in Udp!Packet /\ Head(sock) # NoPacket
    BY <1>1, <2>1, PacketAssumption
  <2>4. Udp!Pipeline' = (ureader \o <<Head(sock)>>) \o Tail(sock)
    BY <2>1, <2>3 DEF Udp!Pipeline
  <2>5. Udp!Pipeline' = Udp!Pipeline
    BY <1>1, <2>1, <2>2, <2>4, MoveHead
  <2>6. QED
    BY <2>1, <2>5 DEF UdpPromise!vars
<1>6. CASE Udp!LoopRead /\ uloop' # "push"
  <2>1. /\ uloop # "push" /\ sock # <<>> /\ sock' = Tail(sock)
        /\ UNCHANGED <<ureader, uheld, arrived, closeCh>>
    BY <1>6 DEF Udp!LoopRead
  <2>2. Tail(sock) = SubSeq(sock, 2, Len(sock)) /\ 2 \in 1..(Len(sock) + 1)
    BY <1>1, <2>1
  <2>3. Udp!Pipeline' = UFront \o SubSeq(sock, 2, Len(sock))
    BY <2>1, <2>2 DEF Udp!Pipeline, UFront
  <2>4. QED
    BY <2>1, <2>2, <2>3, UdpLoses
<1>7. CASE Udp!LoopPush
  <2>1. /\ uloop = "push" /\ ureader' = Append(ureader, uheld) /\ uheld' = NoPacket
        /\ UNCHANGED <<sock, arrived, closeCh>>
    BY <1>7 DEF Udp!LoopPush
  <2>2. uheld \in Udp!Packet /\ UFront = ureader \o <<uheld>>
    BY <2>1, UdpPipelineType
  <2>3. ureader' = UFront /\ ureader' \in Seq(Udp!Packet)
    BY <1>1, <2>1, <2>2, AppendIsConcat
  <2>4. UFront' = ureader'
    BY <2>1, <2>3, EmptyNeutral DEF UFront
  <2>5. Udp!Pipeline' = Udp!Pipeline
    BY <2>1, <2>3, <2>4 DEF Udp!Pipeline, UFront
  <2>6. QED
    BY <2>1, <2>5 DEF UdpPromise!vars
<1>8. CASE Udp!CloseCh
  <2>1. ~closeCh /\ closeCh' = TRUE /\ UNCHANGED <<sock, uheld, ureader, arrived>>
    BY <1>8 DEF Udp!CloseCh
  <2>2. all' = all
    BY <2>1 DEF Udp!Pipeline
  <2>3. UdpPromise!Close
    BY <2>1, <2>2 DEF UdpPromise!Close
  <2>4. QED
    BY <2>3 DEF UdpPromise!Next
<1>9. CASE Udp!CloseConn
  <2>1. sock' = <<>> /\ UNCHANGED <<uheld, ureader, arrived, closeCh>>
    BY <1>9 DEF Udp!CloseConn
  <2>2. /\ SubSeq(sock, Len(sock) + 1, Len(sock)) = <<>>
        /\ Len(sock) + 1 \in 1..(Len(sock) + 1)
    BY <1>1
  <2>3. Udp!Pipeline' = UFront \o SubSeq(sock, Len(sock) + 1, Len(sock))
    BY <2>1, <2>2 DEF Udp!Pipeline, UFront
  <2>4. QED
    BY <2>1, <2>2, <2>3, UdpLoses
<1>10. CASE Udp!Take
  <2> DEFINE mid == IF uheld = NoPacket THEN <<>> ELSE <<uheld>>
             rest == mid \o sock
  <2>1. ureader # <<>> /\ ureader' = Tail(ureader) /\ UNCHANGED <<sock, uheld, arrived, closeCh>>
    BY <1>10 DEF Udp!Take
  <2>2. mid \in Seq(Udp!Packet) /\ ureader' \in Seq(Udp!Packet)
    <3>1. uheld # NoPacket => uheld \in Udp!Packet
      BY DEF UdpInv, Udp!TypeOK
    <3>2. QED
      BY <1>1, <2>1, <3>1
  <2>3. Udp!Pipeline = (ureader \o mid) \o sock /\ Udp!Pipeline' = (ureader' \o mid) \o sock
    BY <2>1 DEF Udp!Pipeline
  <2> HIDE DEF mid
  <2>4. rest \in Seq(Udp!Packet) /\ Udp!Pipeline = ureader \o rest
    BY <1>1, <2>2, <2>3, ConcatAssociates
  <2>5. Udp!Pipeline' = ureader' \o rest
    BY <1>1, <2>2, <2>3, ConcatAssociates
  <2> HIDE DEF rest
  <2>6. Udp!Pipeline' = Tail(Udp!Pipeline) /\ Udp!Pipeline # <<>>
    BY <1>1, <2>1, <2>4, <2>5, TailOfFirst
  <2>7. all # <<>> /\ all' = Tail(all)
    BY <1>1, <2>6, NumTail
  <2>8. UdpPromise!Read
    BY <2>1, <2>7 DEF UdpPromise!Read
  <2>9. QED
    BY <2>8 DEF UdpPromise!Next
<1>11. QED
  BY <1>2, <1>3, <1>4, <1>5, <1>6, <1>7, <1>8, <1>9, <1>10 DEF Udp!Own, Udp!LoopStep

\* What writers write: the bound counts their packets as well.
LEMMA WrittenTyped ==
  ASSUME Own, Bounded, NEW w \in Writer, given \in Nat, arrived \in Nat
  PROVE  Pkt(w) \in Written
BY BoundAssumption DEF Own, Bounded, Pkt, Written

\* A step of the router with its links is, for each link, one of Transport's.
LEMMA NextPromised ==
  ASSUME IInv, IInv', Bounded, Next
  PROVE  [WgPromise!Next]_(WgPromise!vars) /\ [UdpPromise!Next]_(UdpPromise!vars)
<1>1. UNCHANGED wgvars => UNCHANGED WgPromise!vars
  BY DEF wgvars, WgPromise!vars, Wg!Pipeline
<1>2. UNCHANGED udpvars => UNCHANGED UdpPromise!vars
  BY DEF udpvars, UdpPromise!vars, Udp!Pipeline
<1>3. CASE UNCHANGED <<wgvars, udpvars>>
  BY <1>1, <1>2, <1>3
<1>4. CASE (Wg!Own \/ Wg!Take) /\ UNCHANGED udpvars
  BY <1>2, <1>4, WgStepPromised DEF IInv
<1>5. CASE (Udp!Own \/ Udp!Take) /\ UNCHANGED wgvars
  BY <1>1, <1>5, UdpStepPromised DEF IInv
<1>6. ASSUME NEW w \in Writer, WriteWg(w) \/ WgReturns(w)
      PROVE  WgPromise!Next /\ UNCHANGED udpvars
  <2>1. Pkt(w) \in Written
    BY WrittenTyped DEF IInv, WgInv, UdpInv, Wg!TypeOK, Udp!TypeOK
  <2>2. Wg!WriteCall(w, Pkt(w)) \/ Wg!WriteStep(w)
    BY <1>6 DEF WriteWg, WgReturns
  <2>3. QED
    BY <1>6, <2>1, <2>2, WgWritePromised DEF IInv, WriteWg, WgReturns
<1>7. \/ UNCHANGED <<wgvars, udpvars>>
      \/ (Wg!Own \/ Wg!Take) /\ UNCHANGED udpvars
      \/ (Udp!Own \/ Udp!Take) /\ UNCHANGED wgvars
      \/ \E w \in Writer : WriteWg(w) \/ WgReturns(w)
  <2>1. CASE Router
    BY <2>1 DEF Router, AddTransport, RemoveTransport, Cancel, Reader, ReaderStart, ReaderStops,
                Takes, Handled, Finds, WriterStep, WriteUDP, links
  <2>2. CASE ~Router
    BY <2>2 DEF Next, WgAlone, UdpAlone, StackAlone
  <2>3. QED
    BY <2>1, <2>2
<1>8. QED
  BY <1>2, <1>3, <1>4, <1>5, <1>6, <1>7

\* Links start as two empty transports.
LEMMA InitPromised ==
  ASSUME Init
  PROVE  WgPromise!Init /\ UdpPromise!Init
<1>1. Wg!Pipeline = <<>> /\ Udp!Pipeline = <<>>
  BY DEF Init, Wg!Init, Udp!Init, Wg!Pipeline, Udp!Pipeline
<1>2. Num(<<>>) = <<>>
  BY DEF Num
<1>3. QED
  BY <1>1, <1>2 DEF Init, Wg!Init, Udp!Init, WgPromise!Init, UdpPromise!Init

-----------------------------------------------------------------------------
(* The theorems.                                                           *)

\* IInv holds in every state that the transports and the stack can reach.
THEOREM Invariance == Spec => []IInv
<1>1. Init => IInv
  BY InitInv
<1>2. IInv /\ [Next]_vars => IInv'
  BY NextInv, StutterInv
<1>3. QED
  BY <1>1, <1>2, PTL DEF Spec

\* The shape of the state, with a call of Write under way exactly for the writers
\* that wait for one.
THEOREM TypeCorrect == Spec => []TypeOK
<1>1. IInv => TypeOK
  BY DEF IInv, WgInv, UdpInv, StackInv, Own, TypeOK
<1>2. QED
  BY <1>1, Invariance, PTL

\* What MemTUN's Write accepted reaches the router once and in order, or is still on
\* its way there.
THEOREM PacketsKept == Spec => []NothingLost
<1>1. IInv => NothingLost
  BY DEF IInv, WgInv
<1>2. QED
  BY <1>1, Invariance, PTL

\* The closed channel is never closed twice.
THEOREM OneClose == Spec => []ClosedOnce
<1>1. IInv => ClosedOnce
  BY DEF IInv, WgInv, ClosingOrder, ClosedOnce
<1>2. QED
  BY <1>1, Invariance, PTL

\* The maps of the netstack manager and the stack tell of the same NICs.
THEOREM NICsAgree == Spec => []TablesAgree
<1>1. IInv => TablesAgree
  BY DEF IInv, StackInv
<1>2. QED
  BY <1>1, Invariance, PTL

\* A packet for a local address is lost only to a NIC removed meanwhile or a prefix
\* that two NICs share.
THEOREM LocalArrive == Spec => LocalPacketsArrive
<1> DEFINE Arrives == \A w \in Writer : Stack!Lost(w) => shared \/ disturbed[w]
<1>1. IInv /\ [Next]_vars => [Arrives]_vars
  BY NextInv
<1>2. QED
  BY <1>1, Invariance, PTL DEF Spec, LocalPacketsArrive

\* UDPTransport's readLoop never goes on reading after an error.
THEOREM ErrorsEnd == Spec => NoErrorLoop
<1> DEFINE Ends == uloop = "read" /\ ~conn => uloop' # "check"
<1>1. IInv /\ [Next]_vars => [Ends]_vars
  <2> SUFFICES ASSUME IInv, Next, uloop = "read", ~conn
               PROVE  uloop' # "check"
    OBVIOUS
  <2>1. closeCh
    BY DEF IInv, UdpInv
  <2>2. CASE uloop' = uloop
    BY <2>2
  <2>3. CASE Udp!Own
    BY <2>1, <2>3 DEF Udp!Own, Udp!Arrive, Udp!LoopStep, Udp!LoopCheck, Udp!LoopRead,
                      Udp!LoopError, Udp!LoopPush, Udp!CloseCh, Udp!CloseConn
  <2>4. uloop' = uloop \/ Udp!Own
    BY DEF Next, Router, WgAlone, StackAlone, UdpAlone, AddTransport, RemoveTransport, Cancel,
           Reader, ReaderStart, ReaderStops, Takes, Handled, Finds, WriterStep, WriteUDP, WriteWg,
           WgReturns, links, udpvars, Udp!Take
  <2>5. QED
    BY <2>2, <2>3, <2>4
<1>2. QED
  BY <1>1, Invariance, PTL DEF Spec, NoErrorLoop

\* The number of packets stays within its bound.
LEMMA BoundKept == Spec => []Bounded
<1>1. Init => Bounded
  <2> SUFFICES ASSUME Init, NEW w \in Writer
               PROVE  given + arrived + written[w] <= MaxPackets
    BY DEF Bounded
  <2>1. given = 0 /\ arrived = 0 /\ written[w] = 0
    BY DEF Init, Wg!Init, Udp!Init
  <2>2. QED
    BY <2>1, BoundAssumption
<1>2. Bounded /\ [Next]_vars => Bounded'
  BY DEF Next, Bounded, vars, links, router, wgvars, udpvars
<1>3. QED
  BY <1>1, <1>2, PTL DEF Spec

\* Both transports are what the router takes them for: packets come out in the order
\* they came in and go out once, whatever is closed and removed meanwhile.
THEOREM Refinement == Spec => ImplementsTransport
<1>1. Init => WgPromise!Init /\ UdpPromise!Init
  BY InitPromised
<1>2. /\ IInv /\ IInv' /\ Bounded /\ [Next]_vars
      => [WgPromise!Next]_(WgPromise!vars) /\ [UdpPromise!Next]_(UdpPromise!vars)
  <2>1. CASE Next
    BY <2>1, NextPromised
  <2>2. CASE UNCHANGED vars
    BY <2>2 DEF vars, links, wgvars, udpvars, WgPromise!vars, UdpPromise!vars, Wg!Pipeline,
                Udp!Pipeline
  <2>3. QED
    BY <2>1, <2>2
<1>3. QED
  BY <1>1, <1>2, Invariance, BoundKept, PTL
     DEF Spec, ImplementsTransport, WgPromise!Spec, UdpPromise!Spec
=============================================================================

-------------------------- MODULE ForwardingProofs --------------------------
(***************************************************************************)
(* A packet's way through any network of gouter nodes.  That the TTL       *)
(* bounds it assumes nothing of the nodes' tables, links and addresses;    *)
(* that the packet keeps its shape assumes that the tables hold labels and *)
(* the links end at nodes; and where the tables agree on the length of     *)
(* each way, what becomes of a packet follows from the length of its own.  *)
(***************************************************************************)
EXTENDS Forwarding, FiniteSetTheorems, TLAPS

TTLs == sent.ttl \in 0..(Byte - 1) /\ ttl \in 0..(Byte - 1) /\ hops \in Nat

\* What is left of the TTL is what was not yet decremented; only a TTL that was
\* sent as 0 reads 0 on a packet under way.
Left == fate = "moving" => \/ hops = 0 /\ ttl = sent.ttl
                           \/ ttl > 0 /\ hops + ttl = Lifetime

IInv == TTLs /\ Left /\ HopsBounded

-----------------------------------------------------------------------------
(* The TTL.                                                                *)

\* The TTL byte wraps.
LEMMA Decrement ==
  ASSUME NEW t \in 0..(Byte - 1)
  PROVE  /\ (t - 1) % Byte = (IF t = 0 THEN Byte - 1 ELSE t - 1)
         /\ (t - 1) % Byte \in 0..(Byte - 1)
<1>1. CASE t = 0
  <2>1. -1 = Byte * (-1) + (Byte - 1) /\ 0 <= Byte - 1 /\ Byte - 1 < Byte
    BY ByteAssumption
  <2>2. (-1) % Byte = Byte - 1
    BY <2>1, ByteAssumption
  <2>3. QED
    BY <1>1, <2>1, <2>2, ByteAssumption
<1>2. CASE t # 0
  BY <1>2, ByteAssumption
<1>3. QED
  BY <1>1, <1>2

LEMMA InitIInv == Init => IInv
BY ByteAssumption DEF Init, IInv, TTLs, Left, Lifetime, HopsBounded

\* A decrement that does not end the packet leaves it one less of its lifetime.
LEMMA RouteTTL ==
  ASSUME IInv, Route
  PROVE  /\ TTLs' /\ Lifetime' = Lifetime /\ hops' = hops + 1
         /\ hops' <= Lifetime
         /\ IF ttl' = 0 THEN hops' = Lifetime /\ fate' = "dropped"
            ELSE ttl' > 0 /\ hops' + ttl' = Lifetime /\ hops' < Lifetime
<1>1. /\ ttl \in 0..(Byte - 1) /\ sent.ttl \in 0..(Byte - 1) /\ hops \in Nat
      /\ Lifetime = (IF sent.ttl = 0 THEN Byte ELSE sent.ttl)
      /\ \/ hops = 0 /\ ttl = sent.ttl
         \/ ttl > 0 /\ hops + ttl = Lifetime
  BY DEF Route, IInv, TTLs, Left, Lifetime
<1>2. ttl' = (ttl - 1) % Byte /\ hops' = hops + 1 /\ sent' = sent
  BY DEF Route
<1>3. ttl' = (IF ttl = 0 THEN Byte - 1 ELSE ttl - 1) /\ ttl' \in 0..(Byte - 1)
  BY <1>1, <1>2, Decrement
<1>4. hops' + ttl' = Lifetime
  BY <1>1, <1>2, <1>3, ByteAssumption
<1>5. ttl' = 0 => fate' = "dropped"
  BY DEF Route, Becomes, Ends
<1>6. Lifetime' = Lifetime
  BY <1>2 DEF Lifetime
<1>7. Lifetime \in Nat
  BY <1>1, ByteAssumption
<1>8. QED
  BY <1>1, <1>2, <1>3, <1>4, <1>5, <1>6, <1>7, ByteAssumption DEF TTLs

LEMMA NextIInv == IInv /\ [Next]_vars => IInv'
<1> SUFFICES ASSUME IInv, [Next]_vars PROVE IInv'
  OBVIOUS
<1>1. CASE Pass
  <2>1. fate = "moving" /\ ttl' = ttl /\ sent' = sent /\ hops' = hops
    BY <1>1 DEF Pass
  <2>2. QED
    BY <2>1 DEF IInv, TTLs, Left, Lifetime, HopsBounded
<1>2. CASE Route
  <2>1. /\ TTLs' /\ Lifetime' = Lifetime /\ hops' = hops + 1 /\ hops' <= Lifetime
        /\ IF ttl' = 0 THEN hops' = Lifetime /\ fate' = "dropped"
           ELSE ttl' > 0 /\ hops' + ttl' = Lifetime
    BY <1>2, RouteTTL
  <2>2. Left' /\ HopsBounded'
    BY <2>1 DEF Left, HopsBounded
  <2>3. QED
    BY <2>1, <2>2 DEF IInv
<1>3. CASE UNCHANGED vars
  BY <1>3 DEF vars, IInv, TTLs, Left, Lifetime, HopsBounded
<1>4. QED
  BY <1>1, <1>2, <1>3 DEF Next

LEMMA Invariance == Spec => []IInv
BY InitIInv, NextIInv, PTL DEF Spec

\* No packet is decremented oftener than its TTL says (Byte times for a TTL of 0),
\* whatever routes, labels and links the nodes have.
THEOREM TTLBoundsHops == Spec => []HopsBounded
<1>1. IInv => HopsBounded
  BY DEF IInv
<1>2. QED
  BY Invariance, <1>1, PTL

-----------------------------------------------------------------------------
(* The shape of the packet.                                                *)

\* A possible outcome of one call of handlePacket.
Outcome == [fate : {"moving", "delivered", "dropped"}, at : Node, pkt : Packet]

LEMMA SendTyped ==
  ASSUME NEW n \in Node, NEW t, NEW p \in Packet
  PROVE  Send(n, t, p) \subseteq Outcome
<1>1. CASE Send(n, t, p) = Ends("dropped", n, p)
  BY <1>1 DEF Ends, Outcome
<1>2. CASE /\ t \in DOMAIN Wire[n]
           /\ Send(n, t, p) =
                 {[fate |-> "moving", at |-> peer.node,
                   pkt |-> [p EXCEPT !.type = ReadAs(Wire[n][t]),
                                     !.transport = peer.transport]]
                    : peer \in Wire[n][t].peers}
  <2>1. \A peer \in Wire[n][t].peers : peer.node \in Node /\ peer.transport \in Transport
    BY <1>2, TablesAssumption
  <2>2. ReadAs(Wire[n][t]) \in {"ip", "mpls"}
    BY DEF ReadAs
  <2>3. ASSUME NEW peer \in Wire[n][t].peers
        PROVE  [p EXCEPT !.type = ReadAs(Wire[n][t]), !.transport = peer.transport]
                  \in Packet
    BY <2>1, <2>2 DEF Packet
  <2>4. ASSUME NEW peer \in Wire[n][t].peers
        PROVE  [fate |-> "moving", at |-> peer.node,
                pkt |-> [p EXCEPT !.type = ReadAs(Wire[n][t]), !.transport = peer.transport]]
                  \in Outcome
    <3> DEFINE q == [p EXCEPT !.type = ReadAs(Wire[n][t]), !.transport = peer.transport]
    <3>1. q \in Packet /\ peer.node \in Node
      BY <2>1, <2>3
    <3> HIDE DEF q
    <3>2. QED
      BY <3>1 DEF Outcome, q
  <2>5. QED
    BY <1>2, <2>4
<1>3. QED
  BY <1>1, <1>2 DEF Send

LEMMA InjectTyped ==
  ASSUME NEW n \in Node, NEW nic, NEW p \in Packet
  PROVE  Inject(n, nic, p) \subseteq Outcome
BY DEF Inject, Ends, Outcome

LEMMA HandleIPTyped ==
  ASSUME NEW n \in Node, NEW p \in Packet
  PROVE  HandleIP(n, p) \subseteq Outcome
<1>1. Ends("dropped", n, p) \subseteq Outcome
  BY DEF Ends, Outcome
<1>2. ASSUME NEW e \in Best(n, p.dst) PROVE ForwardByFIB(n, e, p) \subseteq Outcome
  <2>1. e.outLabels \in Seq(Label)
    BY TablesAssumption DEF Best
  <2> DEFINE out == IF e.action = "push" THEN [p EXCEPT !.type = "mpls", !.labels = e.outLabels]
                    ELSE p
  <2>2. out \in Packet
    BY <2>1 DEF Packet
  <2> HIDE DEF out
  <2>3. \A t : Send(n, t, out) \subseteq Outcome
    BY <2>2, SendTyped
  <2>4. Inject(n, NicOf(n, e, p), p) \subseteq Outcome
    BY InjectTyped
  <2>5. ForwardByFIB(n, e, p) =
           IF e.action = "local" THEN Inject(n, NicOf(n, e, p), p)
           ELSE UNION {Send(n, t, out) : t \in OutBy(n, e, p)}
    BY Zenon DEF ForwardByFIB, out
  <2>6. QED
    BY <2>3, <2>4, <2>5
<1>3. QED
  BY <1>1, <1>2, InjectTyped DEF HandleIP

LEMMA HandleMPLSTyped ==
  ASSUME NEW n \in Node, NEW p \in Packet
  PROVE  HandleMPLS(n, p) \subseteq Outcome
<1>1. CASE p.labels = <<>> \/ Op(n, Head(p.labels)) = "none"
  <2>1. HandleMPLS(n, p) = Ends("dropped", n, p)
    BY <1>1, Zenon DEF HandleMPLS
  <2>2. QED
    BY <2>1 DEF Ends, Outcome
<1>2. CASE ~(p.labels = <<>> \/ Op(n, Head(p.labels)) = "none")
  <2> DEFINE e == Labels[n][Head(p.labels)]
             rest == Tail(p.labels)
             popped == [p EXCEPT !.type = IF rest = <<>> THEN "ip" ELSE "mpls",
                                 !.labels = rest]
             swapped == [p EXCEPT !.labels = <<e.outLabels[1]>> \o rest]
             pushed == [p EXCEPT !.labels = e.outLabels \o rest]
  <2>1. p.labels \in Seq(Label) /\ p.labels # <<>>
    BY <1>2 DEF Packet
  <2>2. Head(p.labels) \in Label /\ rest \in Seq(Label)
    BY <2>1
  <2>3. /\ e.op \in {"pop", "swap", "push"} /\ e.outLabels \in Seq(Label)
        /\ e.op = "swap" => e.outLabels # <<>>
    BY <1>2, <2>2, TablesAssumption DEF Op
  <2>4. HandleMPLS(n, p) = CASE e.op = "pop" -> Ends("moving", n, popped)
                             [] e.op = "swap" -> Send(n, e.transport, swapped)
                             [] e.op = "push" -> Send(n, e.transport, pushed)
    BY <1>2, Zenon DEF HandleMPLS
  <2> HIDE DEF e, rest
  <2>5. popped \in Packet
    BY <2>2 DEF Packet
  <2>6. ASSUME e.op = "swap" PROVE swapped \in Packet
    <3>1. e.outLabels[1] \in Label
      BY <2>3, <2>6
    <3>2. <<e.outLabels[1]>> \o rest \in Seq(Label)
      BY <2>2, <3>1
    <3>3. QED
      BY <3>2 DEF Packet
  <2>7. pushed \in Packet
    <3>1. e.outLabels \o rest \in Seq(Label)
      BY <2>2, <2>3
    <3>2. QED
      BY <3>1 DEF Packet
  <2> HIDE DEF popped, swapped, pushed
  <2>8. CASE e.op = "pop"
    BY <2>4, <2>5, <2>8 DEF Ends, Outcome
  <2>9. CASE e.op = "swap"
    BY <2>4, <2>6, <2>9, SendTyped
  <2>10. CASE e.op = "push"
    BY <2>4, <2>7, <2>10, SendTyped
  <2>11. QED
    BY <2>3, <2>8, <2>9, <2>10
<1>3. QED
  BY <1>1, <1>2

LEMMA NextTypeOK == TypeOK /\ TTLs /\ [Next]_vars => TypeOK'
<1> SUFFICES ASSUME TypeOK, TTLs, [Next]_vars PROVE TypeOK'
  OBVIOUS
<1>1. Handle(at, pkt) \subseteq Outcome /\ Ends("dropped", at, pkt) \subseteq Outcome
  BY HandleIPTyped, HandleMPLSTyped DEF TypeOK, Handle, Ends, Outcome
<1>2. ASSUME NEW o \in Outcome, Becomes(o)
      PROVE  at' \in Node /\ pkt' \in Packet /\ fate' \in {"moving", "delivered", "dropped"}
  BY <1>2 DEF Outcome, Becomes
<1>3. CASE Pass
  <2>1. ttl' = ttl /\ \E o \in Outcome : Becomes(o)
    BY <1>1, <1>3 DEF Pass
  <2>2. QED
    BY <1>2, <2>1 DEF TypeOK
<1>4. CASE Route
  <2>1. ttl' = (ttl - 1) % Byte /\ \E o \in Outcome : Becomes(o)
    BY <1>1, <1>4 DEF Route
  <2>2. ttl' \in 0..(Byte - 1)
    BY <2>1, Decrement DEF TTLs
  <2>3. QED
    BY <1>2, <2>1, <2>2 DEF TypeOK
<1>5. CASE UNCHANGED vars
  BY <1>5 DEF vars, TypeOK
<1>6. QED
  BY <1>3, <1>4, <1>5 DEF Next

\* A packet keeps its shape: whatever is pushed, swapped and popped, its labels are
\* labels, its TTL is a byte, and it is at a node.
THEOREM TypeCorrect == Spec => []TypeOK
<1>1. Init => TypeOK
  <2> SUFFICES ASSUME Init PROVE TypeOK
    OBVIOUS
  <2>1. /\ at \in Node /\ ttl \in 0..(Byte - 1) /\ fate = "moving"
        /\ \E a \in Addr, nic \in NICs[at] : pkt = IPPacket(a, nic)
    BY DEF Init
  <2>2. ASSUME NEW a \in Addr, NEW nic \in NICs[at] PROVE IPPacket(a, nic) \in Packet
    <3>1. <<>> \in Seq(Label) /\ nic \in UNION {NICs[n] : n \in Node}
      BY <2>1, <2>2
    <3>2. QED
      BY <2>2, <3>1 DEF IPPacket, Packet
  <2>3. QED
    BY <2>1, <2>2 DEF TypeOK
<1>2. IInv => TTLs
  BY DEF IInv
<1>3. QED
  BY <1>1, <1>2, NextTypeOK, Invariance, PTL DEF Spec

-----------------------------------------------------------------------------
(* What becomes of the packet.                                             *)

\* A packet that is sent arrives somewhere or is dropped.
LEMMA SendSome ==
  ASSUME NEW n \in Node, NEW t, NEW p
  PROVE  Send(n, t, p) # {}
<1>1. CASE t \notin DOMAIN Wire[n] \/ ~Carries(Wire[n][t], p)
  BY <1>1 DEF Send, Ends
<1>2. CASE t \in DOMAIN Wire[n] /\ Carries(Wire[n][t], p)
  <2>1. Wire[n][t].peers # {}
    <3>1. CASE Wire[n][t].kind = "udp"
      BY <1>2, <3>1 DEF Carries
    <3>2. CASE Wire[n][t].kind = "wg"
      <4>1. Cardinality(Wire[n][t].peers) = 1
        BY <1>2, <3>2, TablesAssumption
      <4>2. QED
        BY <4>1, FS_EmptySet
    <3>3. QED
      BY <1>2, <3>1, <3>2, TablesAssumption
  <2>2. PICK peer : peer \in Wire[n][t].peers
    BY <2>1
  <2>3. QED
    BY <1>2, <2>2, Zenon DEF Send
<1>3. QED
  BY <1>1, <1>2

\* Something becomes of every packet that is to be routed.
LEMMA RoutedSome ==
  ASSUME NEW n \in Node, NEW p, Routed(n, p)
  PROVE  Handle(n, p) # {}
<1>1. Handle(n, p) = IF Best(n, p.dst) = {} THEN Ends("dropped", n, p)
                     ELSE UNION {ForwardByFIB(n, e, p) : e \in Best(n, p.dst)}
  BY Zenon DEF Routed, Handle, HandleIP
<1>2. ASSUME NEW e PROVE ForwardByFIB(n, e, p) # {}
  <2> DEFINE out == IF e.action = "push" THEN [p EXCEPT !.type = "mpls", !.labels = e.outLabels]
                    ELSE p
  <2>1. ForwardByFIB(n, e, p) =
           IF e.action = "local" THEN Inject(n, NicOf(n, e, p), p)
           ELSE UNION {Send(n, t, out) : t \in OutBy(n, e, p)}
    BY Zenon DEF ForwardByFIB
  <2> HIDE DEF out
  <2>2. PICK names : names # {} /\ OutBy(n, e, p) = {IF t = "" THEN p.transport ELSE t : t \in names}
    <3>1. \A a : Resolve(n, a) # {}
      BY Zenon DEF Resolve
    <3>2. (IF e.transport = "" THEN Resolve(n, e.nextHop) ELSE {e.transport}) # {}
      BY <3>1
    <3>3. QED
      BY <3>2, Zenon DEF OutBy
  <2>3. PICK t : t \in OutBy(n, e, p)
    BY <2>2
  <2>4. Send(n, t, out) # {}
    BY SendSome
  <2>5. QED
    BY <2>1, <2>3, <2>4 DEF Inject, Ends
<1>3. QED
  BY <1>1, <1>2 DEF Ends

Distance == Dist[sent.node][sent.dst]
Here == Situation(at, pkt)

\* The decrements so far and those to come make up the distance.
OnTheWay == fate = "moving" =>
    /\ Here \in DOMAIN Way
    /\ IF Way[Here] = NoEntry THEN Distance = NoEntry ELSE Distance = hops + Way[Here]

DInv == OnTheWay /\ DeliveredExactly

\* The distances are those of the way, hop by hop.
DistIsWay == \A n \in Node, a \in Addr : \A nic \in NICs[n] :
                Dist[n][a] = Way[Situation(n, IPPacket(a, nic))]

\* The step that c more decrements take to an outcome keeps the account.
LEMMA StepDInv ==
  ASSUME fate = "moving", DInv, hops \in Nat, NEW c \in {0, 1}, NEW o,
         Agrees(Way[Here], c, o), Becomes(o), sent' = sent, hops' = hops + c,
         Lifetime \in Nat, fate' = "delivered" => hops' < Lifetime
  PROVE  DInv'
<1>1. /\ Distance' = Distance /\ Lifetime' = Lifetime
      /\ fate' = o.fate /\ Here' = Situation(o.at, o.pkt)
  BY DEF Distance, Lifetime, Becomes, Here
<1>2. /\ Here \in DOMAIN Way /\ Way[Here] \in Nat \cup {NoEntry} /\ NoEntry \notin Nat
      /\ IF Way[Here] = NoEntry THEN Distance = NoEntry ELSE Distance = hops + Way[Here]
  BY WayAssumption DEF DInv, OnTheWay
<1>3. CASE o.fate = "delivered" /\ Way[Here] = c
  <2>1. Distance = hops' /\ Distance # NoEntry /\ hops' < Lifetime
    BY <1>1, <1>2, <1>3
  <2>2. Lasts'
    BY <1>1, <2>1 DEF Lasts, Distance
  <2>3. QED
    BY <1>1, <1>3, <2>2 DEF DInv, OnTheWay, DeliveredExactly
<1>4. CASE o.fate = "dropped" /\ Way[Here] = NoEntry
  <2>1. ~Lasts'
    BY <1>1, <1>2, <1>4 DEF Lasts, Distance
  <2>2. QED
    BY <1>1, <1>4, <2>1 DEF DInv, OnTheWay, DeliveredExactly
<1>5. CASE /\ o.fate = "moving" /\ Situation(o.at, o.pkt) \in DOMAIN Way
           /\ IF Way[Situation(o.at, o.pkt)] = NoEntry THEN Way[Here] = NoEntry
              ELSE Way[Here] = Way[Situation(o.at, o.pkt)] + c
  <2>1. Way[Here'] \in Nat \cup {NoEntry}
    BY <1>1, <1>5, WayAssumption
  <2>2. CASE Way[Here'] = NoEntry
    <3>1. Distance' = NoEntry
      BY <1>1, <1>2, <1>5, <2>2
    <3>2. QED
      BY <1>1, <1>5, <2>2, <3>1 DEF DInv, OnTheWay, DeliveredExactly
  <2>3. CASE Way[Here'] \in Nat /\ Way[Here'] # NoEntry
    <3>1. Way[Here] = Way[Here'] + c /\ Way[Here] \in Nat
      BY <1>1, <1>5, <2>3
    <3>2. Distance' = hops' + Way[Here']
      BY <1>1, <1>2, <2>3, <3>1
    <3>3. QED
      BY <1>1, <1>5, <2>3, <3>2 DEF DInv, OnTheWay, DeliveredExactly
  <2>4. QED
    BY <1>2, <2>1, <2>2, <2>3
<1>6. QED
  BY <1>3, <1>4, <1>5 DEF Agrees

LEMMA NextDInv == TypeOK /\ IInv /\ DInv /\ [Next]_vars => DInv'
<1> SUFFICES ASSUME TypeOK, IInv, DInv, [Next]_vars PROVE DInv'
  OBVIOUS
<1>1. /\ hops \in Nat /\ Lifetime \in Nat /\ at \in Node
      /\ fate = "moving" => hops < Lifetime
  <2>1. /\ hops \in Nat /\ ttl \in 0..(Byte - 1) /\ sent.ttl \in 0..(Byte - 1)
        /\ Lifetime = (IF sent.ttl = 0 THEN Byte ELSE sent.ttl)
    BY DEF IInv, TTLs, Lifetime
  <2>2. Lifetime \in Nat /\ Lifetime > 0
    BY <2>1, ByteAssumption
  <2>3. QED
    BY <2>1, <2>2 DEF IInv, Left, TypeOK
<1>2. ASSUME fate = "moving", NEW o \in Handle(at, pkt)
      PROVE  Agrees(Way[Here], IF Routed(at, pkt) THEN 1 ELSE 0, o)
  <2>1. Here \in DOMAIN Way /\ Here.at = at /\ Here.pkt = pkt
    BY <1>2 DEF DInv, OnTheWay, Here, Situation
  <2>2. QED
    BY <2>1, WayAssumption
<1>3. CASE Pass
  <2>1. fate = "moving" /\ ~Routed(at, pkt) /\ sent' = sent /\ hops' = hops
    BY <1>3 DEF Pass
  <2>2. PICK o \in Handle(at, pkt) : Becomes(o)
    BY <1>3 DEF Pass
  <2>3. Agrees(Way[Here], 0, o)
    BY <1>2, <2>1
  <2>4. hops' = hops + 0 /\ hops' < Lifetime
    BY <1>1, <2>1
  <2>5. QED
    BY <1>1, <2>1, <2>2, <2>3, <2>4, StepDInv
<1>4. CASE Route
  <2>1. fate = "moving" /\ Routed(at, pkt) /\ sent' = sent /\ hops' = hops + 1
    BY <1>4 DEF Route
  <2>2. \A o \in Handle(at, pkt) : Agrees(Way[Here], 1, o)
    BY <1>2, <2>1
  <2>3. /\ Lifetime' = Lifetime /\ hops' <= Lifetime
        /\ IF ttl' = 0 THEN hops' = Lifetime /\ fate' = "dropped"
           ELSE hops' < Lifetime
        /\ ttl' \in 0..(Byte - 1)
    BY <1>4, RouteTTL DEF TTLs
  <2>4. CASE ttl' = 0
    <3>1. PICK o \in Handle(at, pkt) : Agrees(Way[Here], 1, o)
      BY <1>1, <2>1, <2>2, RoutedSome
    \* There was at least this decrement to go.
    <3>2. Way[Here] = NoEntry \/ (Way[Here] \in Nat /\ Way[Here] >= 1)
      <4>1. \A s \in DOMAIN Way : Way[s] \in Nat \cup {NoEntry}
        BY WayAssumption
      <4>2. QED
        BY <3>1, <4>1 DEF Agrees
    <3>3. Distance = NoEntry \/ Distance >= hops + 1
      BY <1>1, <2>1, <3>2 DEF DInv, OnTheWay
    <3>4. ~Lasts'
      <4>1. Distance' = Distance /\ Lifetime' = hops + 1
        BY <2>1, <2>3, <2>4 DEF Distance
      <4>2. Distance \in Nat \cup {NoEntry}
        BY <1>1, <2>1, <3>2 DEF DInv, OnTheWay
      <4>3. QED
        BY <1>1, <3>3, <4>1, <4>2 DEF Lasts, Distance
    <3>5. QED
      BY <2>3, <2>4, <3>4 DEF DInv, OnTheWay, DeliveredExactly
  <2>5. CASE ttl' # 0
    <3>1. PICK o \in Handle(at, pkt) : Becomes(o)
      BY <1>4, <2>5 DEF Route
    <3>2. hops' < Lifetime
      BY <2>3, <2>5, Zenon
    <3>3. QED
      BY <1>1, <2>1, <2>2, <3>1, <3>2, StepDInv
  <2>6. QED
    BY <2>4, <2>5
<1>5. CASE UNCHANGED vars
  BY <1>5 DEF vars, DInv, OnTheWay, DeliveredExactly, Here, Distance, Lasts, Lifetime
<1>6. QED
  BY <1>3, <1>4, <1>5 DEF Next

\* Where the nodes agree on the length of each way, a packet is delivered exactly
\* when its TTL lasts for it: no label operation, no choice among peers or routes
\* and no wrapping TTL loses a packet or delivers one it should not.
THEOREM DeliveryFollowsWay ==
  ASSUME DistIsWay
  PROVE  Spec => []DeliveredExactly
<1>1. Init => DInv
  <2> SUFFICES ASSUME Init PROVE DInv
    OBVIOUS
  <2>1. PICK a \in Addr, nic \in NICs[at] : pkt = IPPacket(a, nic)
    BY DEF Init
  <2>2. at \in Node /\ fate = "moving" /\ hops = 0 /\ sent.node = at /\ sent.dst = a
    BY <2>1 DEF Init, IPPacket
  <2>3. Here \in DOMAIN Way /\ Way[Here] \in Nat \cup {NoEntry} /\ Distance = Way[Here]
    BY <2>1, <2>2, WayAssumption DEF DistIsWay, Here, Distance
  <2>4. Distance = NoEntry \/ Distance = hops + Way[Here]
    BY <2>2, <2>3
  <2>5. QED
    BY <2>2, <2>3, <2>4 DEF DInv, OnTheWay, DeliveredExactly
<1>2. DInv => DeliveredExactly
  BY DEF DInv
<1>3. QED
  BY <1>1, <1>2, NextDInv, TypeCorrect, Invariance, PTL DEF Spec
=============================================================================

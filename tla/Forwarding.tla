----------------------------- MODULE Forwarding -----------------------------
(***************************************************************************)
(* One packet's way through a network of gouter nodes: router.handlePacket *)
(* and all it calls (src/internal/router/router.go), the next-hop          *)
(* resolution (nexthop.go), the label operations (mpls/label.go) and what  *)
(* the two transports do to a packet (wg/transport.go, mpls/transport.go). *)
(* The tables of the nodes do not change while the packet travels.         *)
(***************************************************************************)
EXTENDS Integers, Sequences, FiniteSets

CONSTANTS Node, Addr, Transport, Prefix, Bits, Covers,
          Label,      \* labels; none has first nibble 4 or 6 (see LabelStack)
          Routes,     \* [Node -> set of FIB entries]
          Labels,     \* [Node -> [Label -> an LFIB entry, or NoEntry]]
          Direct,     \* [Node -> [Addr -> transport names]]: those whose longest
                      \* prefix covers the address, a tie going by map order
          Local,      \* [Node -> addresses IsLocalAddress accepts]
          Nic,        \* [Node -> [Addr -> what NICNameForAddress finds, or ""]]
          NICs,       \* [Node -> the names of its NICs]
          Wire,       \* [Node -> [transport name -> [kind, peers, allowed]]]; a
                      \* peer is the node and transport at the other end, allowed
                      \* the addresses of a WireGuard peer's allowed_ips
          Byte,       \* 256: the range of the TTL field
          Dist,       \* [Node -> [Addr -> TTL decrements on the configured way
                      \* to the address, or NoEntry]], for the properties
          Way,        \* the same, hop by hop: see WayAssumption
          NoEntry

VARIABLES at,    \* the node that has the packet
          pkt,   \* the packet: [type, labels, dst, transport], the last being
                 \* the transport or the NIC it came in by
          ttl,   \* its TTL byte
          fate,  \* "moving", "delivered" or "dropped"
          sent,  \* ghost: the packet as it entered the network, and where
          hops   \* ghost: how often its TTL was decremented

vars == <<at, pkt, ttl, fate, sent, hops>>

IPPacket(dst, nic) == [type |-> "ip", labels |-> <<>>, dst |-> dst, transport |-> nic]

\* A packet enters from a NIC of a node's own netstack (GetNICOutChannel); the
\* application hands it to ForwardFromNetstack.
Init == /\ at \in Node /\ ttl \in 0..(Byte - 1)
        /\ pkt \in {IPPacket(a, nic) : a \in Addr, nic \in NICs[at]}
        /\ fate = "moving"
        /\ sent = [node |-> at, dst |-> pkt.dst, ttl |-> ttl]
        /\ hops = 0

-----------------------------------------------------------------------------
(* The tables.                                                             *)

\* FIB.Lookup: the routes of the longest prefix.
Best(n, a) == LET match == {e \in Routes[n] : a \in Covers[e.prefix]}
              IN  {e \in match : \A d \in match : Bits[d.prefix] <= Bits[e.prefix]}

\* NexthopResolver.Resolve
Resolve(n, a) == IF Direct[n][a] # {} THEN Direct[n][a]
                 ELSE IF Best(n, a) = {} THEN {""}
                 ELSE {e.transport : e \in Best(n, a)}

\* Mutant: a route without a transport always returns the packet by its ingress.
OutByIngress(n, e, p) == {IF e.transport = "" THEN p.transport ELSE e.transport}

\* The transport forwardByFIB uses: the route's own, else the next hop's, else
\* the one the packet came in by.
OutBy(n, e, p) == LET names == IF e.transport = "" THEN Resolve(n, e.nextHop)
                               ELSE {e.transport}
                  IN  {IF t = "" THEN p.transport ELSE t : t \in names}

Op(n, l) == IF Labels[n][l] = NoEntry THEN "none" ELSE Labels[n][l].op

-----------------------------------------------------------------------------
(* What can become of a packet p at a node n in one call of handlePacket:  *)
(* its fate, the node that has it then, and the packet.                    *)

Ends(f, n, p) == {[fate |-> f, at |-> n, pkt |-> p]}

\* UDPTransport.Write carries labelled packets only, and sendRaw needs a peer; the
\* WireGuard transport's Write takes everything, but the wireguard-go device behind
\* it drops a packet whose first nibble is no IP version, and one to an address
\* outside allowed_ips.  None of this is an error.
Carries(w, p) == IF w.kind = "udp" THEN p.type = "mpls" /\ w.peers # {}
                                   ELSE p.labels = <<>> /\ p.dst \in w.allowed

\* The type the far end's readLoop gives a packet: PacketIP from WireGuard,
\* PacketMPLS from the UDP transport.
ReadAs(w) == IF w.kind = "wg" THEN "ip" ELSE "mpls"

\* Write, and the far end's readLoop; sendRaw picks any one of its peers.
Send(n, t, p) ==
    IF t \notin DOMAIN Wire[n] \/ ~Carries(Wire[n][t], p)
    THEN Ends("dropped", n, p)
    ELSE {[fate |-> "moving", at |-> peer.node,
           pkt |-> [p EXCEPT !.type = ReadAs(Wire[n][t]), !.transport = peer.transport]]
             : peer \in Wire[n][t].peers}

\* InjectInbound: an unknown NIC (or none, "") is an error that is only logged.
Inject(n, nic, p) == Ends(IF nic \in NICs[n] THEN "delivered" ELSE "dropped", n, p)

\* The NIC ActionLocal injects into: the route's, its next hop's, else that
\* named like the transport the packet came in by.
NicOf(n, e, p) == IF e.transport # "" THEN e.transport
                  ELSE IF Nic[n][e.nextHop] # "" THEN Nic[n][e.nextHop] ELSE p.transport

\* PushLabels puts the labels of the route on the packet.
ForwardByFIB(n, e, p) ==
    LET out == IF e.action = "push" THEN [p EXCEPT !.type = "mpls", !.labels = e.outLabels]
               ELSE p
    IN  IF e.action = "local" THEN Inject(n, NicOf(n, e, p), p)
        ELSE UNION {Send(n, t, out) : t \in OutBy(n, e, p)}

\* handleIPPacket, but for the TTL.  A packet with labels still on it has no IP
\* version.
HandleIP(n, p) == IF p.labels # <<>> THEN Ends("dropped", n, p)
                  ELSE IF p.dst \in Local[n] THEN Inject(n, Nic[n][p.dst], p)
                  ELSE IF Best(n, p.dst) = {} THEN Ends("dropped", n, p)
                  ELSE UNION {ForwardByFIB(n, e, p) : e \in Best(n, p.dst)}

\* handleMPLSPacket.  A pop calls handlePacket again on what is left, which is
\* the next step.  With no label the first word of the IP header is looked up, in
\* vain.
HandleMPLS(n, p) ==
    IF p.labels = <<>> \/ Op(n, Head(p.labels)) = "none" THEN Ends("dropped", n, p)
    ELSE LET e == Labels[n][Head(p.labels)]
             rest == Tail(p.labels)
         IN  CASE e.op = "pop" -> Ends("moving", n,
                      [p EXCEPT !.type = IF rest = <<>> THEN "ip" ELSE "mpls",
                                !.labels = rest])
               [] e.op = "swap" ->
                      Send(n, e.transport, [p EXCEPT !.labels = <<e.outLabels[1]>> \o rest])
               [] e.op = "push" ->
                      Send(n, e.transport, [p EXCEPT !.labels = e.outLabels \o rest])

Handle(n, p) == IF p.type = "ip" THEN HandleIP(n, p) ELSE HandleMPLS(n, p)

\* handleIPPacket comes to the TTL: it is an IP packet for another node.
Routed(n, p) == p.type = "ip" /\ p.labels = <<>> /\ p.dst \notin Local[n]

-----------------------------------------------------------------------------
(* The packet's steps.                                                     *)

Becomes(o) == fate' = o.fate /\ at' = o.at /\ pkt' = o.pkt

\* handlePacket on a packet whose TTL it does not look at.
Pass == /\ fate = "moving" /\ ~Routed(at, pkt)
        /\ \E o \in Handle(at, pkt) : Becomes(o)
        /\ UNCHANGED <<ttl, sent, hops>>

\* Mutant: the TTL is decremented but never tested.
RouteUntested == /\ fate = "moving" /\ Routed(at, pkt)
                 /\ ttl' = (ttl - 1) % Byte /\ hops' = hops + 1
                 /\ \E o \in Handle(at, pkt) : Becomes(o)
                 /\ UNCHANGED sent

\* Mutant: the decremented TTL is not written back into the packet.
RouteKeepsTTL == /\ fate = "moving" /\ Routed(at, pkt)
                 /\ \E o \in IF ttl = 1 THEN Ends("dropped", at, pkt)
                             ELSE Handle(at, pkt) : Becomes(o)
                 /\ UNCHANGED <<ttl, sent, hops>>

\* Mutant: the decrement does not wrap.
RouteSigned == /\ fate = "moving" /\ Routed(at, pkt)
               /\ ttl' = ttl - 1 /\ hops' = hops + 1
               /\ \E o \in IF ttl' = 0 THEN Ends("dropped", at, pkt)
                           ELSE Handle(at, pkt) : Becomes(o)
               /\ UNCHANGED sent

\* handlePacket on a packet to be routed: the byte is decremented, tested for 0
\* and written back before the lookup.
Route == /\ fate = "moving" /\ Routed(at, pkt)
         /\ ttl' = (ttl - 1) % Byte /\ hops' = hops + 1
         /\ \E o \in IF ttl' = 0 THEN Ends("dropped", at, pkt)
                     ELSE Handle(at, pkt) : Becomes(o)
         /\ UNCHANGED sent

Next == Pass \/ Route

\* The packet waits in a channel that runTransportReader empties.
Spec == Init /\ [][Next]_vars /\ WF_vars(Next)

-----------------------------------------------------------------------------
(* Assumptions.                                                            *)

ASSUME ByteAssumption == Byte \in Nat /\ Byte > 1

Packet == [type : {"ip", "mpls"}, labels : Seq(Label), dst : Addr,
           transport : Transport \cup UNION {NICs[n] : n \in Node}]

\* The tables hold labels and the links end at nodes; an LFIB entry that swaps has
\* a label to swap in, which handleMPLSPacket takes unasked.
ASSUME TablesAssumption ==
    /\ \A n \in Node : \A e \in Routes[n] : e.outLabels \in Seq(Label)
    /\ \A n \in Node : \A l \in Label : Labels[n][l] # NoEntry =>
          /\ Labels[n][l].op \in {"pop", "swap", "push"}
          /\ Labels[n][l].outLabels \in Seq(Label)
          /\ Labels[n][l].op = "swap" => Labels[n][l].outLabels # <<>>
    /\ \A n \in Node : \A t \in DOMAIN Wire[n] :
          /\ Wire[n][t].kind \in {"wg", "udp"}
          /\ Wire[n][t].peers \subseteq [node : Node, transport : Transport]
          /\ Wire[n][t].kind = "wg" => Cardinality(Wire[n][t].peers) = 1

Situation(n, p) == [at |-> n, pkt |-> p]

\* A step that decrements the TTL c times can be the next of a packet that has w
\* decrements to go, or none to hope for.
Agrees(w, c, o) ==
    \/ o.fate = "delivered" /\ w = c
    \/ o.fate = "dropped" /\ w = NoEntry
    \/ /\ o.fate = "moving" /\ Situation(o.at, o.pkt) \in DOMAIN Way
       /\ IF Way[Situation(o.at, o.pkt)] = NoEntry THEN w = NoEntry
          ELSE w = Way[Situation(o.at, o.pkt)] + c

\* Way counts, for every situation a packet can come into, the decrements from
\* there to its delivery: whatever peer or route is picked, the nodes agree.
ASSUME WayAssumption ==
    /\ NoEntry \notin Nat
    /\ \A s \in DOMAIN Way : Way[s] \in Nat \cup {NoEntry}
    /\ \A n \in Node, a \in Addr : \A nic \in NICs[n] :
          Situation(n, IPPacket(a, nic)) \in DOMAIN Way
    /\ \A s \in DOMAIN Way : \A o \in Handle(s.at, s.pkt) :
          Agrees(Way[s], IF Routed(s.at, s.pkt) THEN 1 ELSE 0, o)

-----------------------------------------------------------------------------
(* Properties.                                                             *)

\* The shape of the state.
TypeOK == /\ at \in Node /\ pkt \in Packet /\ ttl \in 0..(Byte - 1)
          /\ fate \in {"moving", "delivered", "dropped"}

\* How often the TTL of the packet as it was sent can be decremented; one sent as
\* 0 wraps around.
Lifetime == IF sent.ttl = 0 THEN Byte ELSE sent.ttl

\* The TTL byte bounds the routers a packet passes even when routes loop or a
\* route without a transport returns packets the way they came.
HopsBounded == hops <= Lifetime

\* A packet is delivered exactly when the tables have a way to its address and
\* its TTL lasts for that way, whatever labels are pushed, swapped and popped on
\* it.  (TTL 0 lasts for Byte - 1 decrements.)
Lasts == Dist[sent.node][sent.dst] # NoEntry /\ Lifetime > Dist[sent.node][sent.dst]
DeliveredExactly == /\ fate = "delivered" => Lasts
                    /\ fate = "dropped" => ~Lasts

\* No packet circulates for ever, though routes loop.  (The label tables here do
\* not: SwapLabel writes a fresh TTL, so a loop of labels would never end.)
EveryPacketEnds == <>(fate # "moving")

\* A packet that a node labels for one of its links comes to the node at the other
\* end, as on the README's link to an "internal BGP + MPLS peer".
LabelledPacketsCross ==
    [][\A e \in Best(at, pkt.dst) :
          /\ fate = "moving" /\ Routed(at, pkt) /\ ttl' # 0
          /\ Best(at, pkt.dst) = {e} /\ e.action = "push" /\ e.outLabels # <<>>
          /\ e.transport \in DOMAIN Wire[at] /\ Wire[at][e.transport].peers # {}
          => fate' = "moving" /\ at' # at]_vars
=============================================================================

---------------------------- MODULE MCForwarding ----------------------------
(***************************************************************************)
(* Five nodes: A -WireGuard- B -UDP- C -UDP- D, and E beside C: B's UDP     *)
(* transport has two peers and picks any, and a second one leads to E.     *)
(* A sends everything to B, but hC is not in its allowed_ips.              *)
(*   d1: B pushes 17, C swaps it to 18, D pops 18 and has the address      *)
(*   d2: B pushes 19 and 17 (a segment list), C pops 19, then as d1        *)
(*   d3: B has an SR route whose next hop only that route resolves         *)
(*   d4: A and B point at each other                                       *)
(*   d5: B's next hop has no transport, so packets return by their ingress *)
(*   d6: on a subnet of A's NIC, but on no NIC                             *)
(*   d7: B pushes 21, C replaces it by 20 and 18, D pops both and has a    *)
(*       local route                                                       *)
(*   d8: B has an SR route without segments                                *)
(*   d9: B pushes 22, which C does not know                                *)
(*   d10: A has a labelled-unicast route over its WireGuard link           *)
(***************************************************************************)
EXTENDS Forwarding

CONSTANTS A, B, C, D, E

Dests == {"d1", "d2", "d3", "d4", "d5", "d6", "d7", "d8", "d9", "d10"}
MCAddr == Dests \cup {"hC", "nowhere"}
MCPrefix == Dests \cup {"default"}
MCBits == [p \in MCPrefix |-> IF p = "default" THEN 0 ELSE 32]
MCCovers == [p \in MCPrefix |-> IF p = "default" THEN MCAddr ELSE {p}]

R(p, nh, t, act, out) == [prefix |-> p, nextHop |-> nh, transport |-> t,
                          action |-> act, outLabels |-> out]
MCRoutes == [n \in Node |->
    CASE n = A -> {R("default", "nowhere", "ab", "forward", <<>>),
                   R("d10", "nowhere", "ab", "push", <<17>>)}
      [] n = B -> {R("d1", "hC", "udp", "push", <<17>>),
                   R("d2", "hC", "", "push", <<19, 17>>),
                   R("d3", "d3", "", "push", <<17>>),
                   R("d4", "nowhere", "ba", "forward", <<>>),
                   R("d5", "nowhere", "", "forward", <<>>),
                   R("d6", "nowhere", "ba", "forward", <<>>),
                   R("d7", "hC", "udp", "push", <<21>>),
                   R("d8", "hC", "udp", "push", <<>>),
                   R("d9", "hC", "udp", "push", <<22>>)}
      [] n \in {C, E} -> {R("d1", "nowhere", "udp", "push", <<18>>)}
      [] n = D -> {R("d7", "nowhere", "lo", "local", <<>>)}]

L(op, out, t) == [op |-> op, outLabels |-> out, transport |-> t]
MCLabel == 17..22
MCLabels == [n \in Node |-> [l \in MCLabel |->
    CASE n \in {C, E} /\ l = 17 -> L("swap", <<18>>, "udp")
      [] n \in {C, E} /\ l = 19 -> L("pop", <<>>, "")
      [] n \in {C, E} /\ l = 21 -> L("push", <<20, 18>>, "udp")
      [] n = D /\ l \in {18, 20} -> L("pop", <<>>, "")
      [] OTHER -> NoEntry]]

MCDirect == [n \in Node |-> [a \in MCAddr |->
    IF n = B /\ a = "hC" THEN {"udp", "udp2"} ELSE {}]]
MCLocal == [n \in Node |-> CASE n = A -> {"d6"} [] n = D -> {"d1", "d2"}
                             [] OTHER -> {}]
MCNic == [n \in Node |-> [a \in MCAddr |->
    IF n = D /\ a \in {"d1", "d2"} THEN "lo" ELSE ""]]
MCNICs == [n \in Node |-> CASE n = A -> {"ab"} [] n = B -> {"lo", "ba"}
                            [] OTHER -> {"lo"}]

Peer(n, t) == [node |-> n, transport |-> t]
W(k, ps, as) == [kind |-> k, peers |-> ps, allowed |-> as]
UDP(ps) == W("udp", ps, {})
MCWire == [n \in Node |->
    CASE n = A -> [t \in {"ab"} |-> W("wg", {Peer(B, "ba")}, MCAddr \ {"hC"})]
      [] n = B -> [t \in {"ba", "udp", "udp2"} |->
                      CASE t = "ba" -> W("wg", {Peer(A, "ab")}, MCAddr)
                        [] t = "udp" -> UDP({Peer(C, "udp"), Peer(E, "udp")})
                        [] t = "udp2" -> UDP({Peer(E, "udp")})]
      [] n \in {C, E} -> [t \in {"udp"} |-> UDP({Peer(D, "udp")})]
      [] n = D -> [t \in {"udp"} |-> UDP({Peer(C, "udp"), Peer(E, "udp")})]]

MCDist == [n \in Node |-> [a \in MCAddr |->
    CASE n = A /\ a \in {"d1", "d2"} -> 2
      [] n = B /\ a \in {"d1", "d2"} -> 1
      [] n \in {C, E} /\ a = "d1" -> 1
      [] n = D /\ a \in {"d1", "d2"} -> 0
      [] n = A /\ a = "d7" -> 3
      [] n = B /\ a = "d7" -> 2
      [] n = D /\ a = "d7" -> 1
      [] OTHER -> NoEntry]]

\* The situations packets come into, and what the tables say there.
After(s) == {[at |-> o.at, pkt |-> o.pkt] :
               o \in {x \in Handle(s.at, s.pkt) : x.fate = "moving"}}
RECURSIVE From(_)
From(S) == LET T == S \cup UNION {After(s) : s \in S} IN IF T = S THEN S ELSE From(T)
Situations == From(UNION {{Situation(n, IPPacket(a, nic)) : a \in MCAddr, nic \in NICs[n]}
                             : n \in Node})

RECURSIVE Walk(_, _)
Walk(s, steps) ==
    LET o == CHOOSE x \in Handle(s.at, s.pkt) : TRUE
        w == Walk(Situation(o.at, o.pkt), steps - 1)
        c == IF Routed(s.at, s.pkt) THEN 1 ELSE 0
    IN  IF o.fate = "dropped" \/ steps = 0 THEN NoEntry
        ELSE IF o.fate = "delivered" THEN c
        ELSE IF w = NoEntry THEN NoEntry ELSE w + c
MCWay == [s \in Situations |-> Walk(s, Cardinality(Situations))]
=============================================================================

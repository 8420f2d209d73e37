------------------------------ MODULE Services ------------------------------
(***************************************************************************)
(* What listens on the netstack: the BGP proxies and the port forwards,    *)
(* which share its ports and the context of the program.  A connection,    *)
(* once accepted, runs in goroutines of its own and shares nothing with    *)
(* the listeners any more, so a behaviour is either of them ("listeners")  *)
(* or of one relayed connection ("connection").                            *)
(***************************************************************************)
EXTENDS Integers, Sequences

CONSTANTS Peer, Family, MaxIP, BgpPort, None  \* Proxies
CONSTANTS Rule, MaxAdds                       \* Forwards
CONSTANTS Window, MaxSent                     \* Relay

ASSUME FamilyAssumption == "v4" \in Family /\ Family \subseteq {"v4", "v6"}
ASSUME PeerAssumption == None \notin Peer
ASSUME BoundAssumption == /\ MaxIP \in Nat /\ MaxAdds \in Nat
                          /\ MaxSent \in Nat /\ Window \in Nat \ {0}

VARIABLES ports, ctx  \* of the netstack and of the program
VARIABLES proxies, nextIP, outln, outloop, starting, inln, inboundLns, inloop,
          stopped
VARIABLES fwd, fmap, made
VARIABLES relay, app, sent, unread, copy, ours, flying, got
VARIABLES scene

Prx == INSTANCE Proxies
Fwd == INSTANCE Forwards
Rly == INSTANCE Relay

prxvars == <<proxies, nextIP, outln, outloop, starting, inln, inboundLns, inloop,
             stopped>>
fwdvars == <<fwd, fmap, made>>
rlyvars == <<relay, app, sent, unread, copy, ours, flying, got>>
vars == <<ports, ctx, prxvars, fwdvars, rlyvars, scene>>

Init == /\ Prx!Init /\ Fwd!Init /\ Rly!Init
        /\ scene \in {"listeners", "connection"}

Listeners == scene = "listeners" /\ UNCHANGED <<scene, rlyvars>>
Proxy(A) == Listeners /\ A /\ UNCHANGED fwdvars
Forward(A) == Listeners /\ A /\ UNCHANGED prxvars
Connection(A) == /\ scene = "connection" /\ A
                 /\ UNCHANGED <<scene, ports, ctx, prxvars, fwdvars>>

Cancel == /\ ~ctx /\ ctx' = TRUE
          /\ Listeners /\ UNCHANGED <<ports, prxvars, fwdvars>>

Next == \/ Proxy(Prx!Next) \/ Forward(Fwd!Next) \/ Connection(Rly!Next) \/ Cancel

Spec == Init /\ [][Next]_vars

\* The accept loops and the copiers run when they can, and a side of a connection
\* receives what came for it.  Nothing else need happen.
FairSpec == /\ Spec
            /\ WF_vars(Proxy(Prx!LoopEnds)) /\ WF_vars(Forward(Fwd!RunEnd))
            /\ \A s \in Rly!Side : /\ WF_vars(Connection(Rly!Copier(s)))
                                   /\ WF_vars(Connection(Rly!Receive(s)))
            /\ WF_vars(Connection(Rly!Finish))

-----------------------------------------------------------------------------
(* Properties.                                                             *)

\* The shape of the state.
TypeOK == /\ Prx!TypeOK /\ Fwd!TypeOK /\ Rly!TypeOK
          /\ ctx \in BOOLEAN /\ scene \in {"listeners", "connection"}

\* A loopback address stands for one peer in both directions: see Proxies.
PeerIdentity == Prx!PeerIdentity

\* A Stop after Start leaves no listener of the proxies open: see Proxies.
StopClosesAll == Prx!StopClosesAll

\* Every open listener of a forward is one that a rule leads to: see Forwards.
PortsOfRules == Fwd!PortsOfRules

\* What a side says before it leaves is heard by a silent other side: see Relay.
LastWordsHeard == Rly!LastWordsHeard

\* The goroutines of what is over end: accept loops once their listener is closed
\* and, but for the outbound ones, the context is cancelled; and the copiers of a
\* relayed connection, so that whoever must learn of its end does: see Proxies,
\* Forwards and Relay.
GoroutinesEnd == Prx!ProxyLoopsEnd /\ Fwd!ForwardLoopsEnd /\ Rly!RelayEnds
=============================================================================

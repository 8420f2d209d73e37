------------------------------ MODULE Proxies ------------------------------
(***************************************************************************)
(* bgp.ProxyManager (src/internal/bgp/proxy.go), as Speaker.Start and Stop *)
(* drive it.  Each peer gets a loopback address of its own, under which    *)
(* gobgp knows it: gobgp connects there and is relayed to the peer, and    *)
(* what the peer sends to port 179 of the netstack is relayed to gobgp     *)
(* from that address.  Stop may be called while Start runs.                *)
(***************************************************************************)
EXTENDS Integers, FiniteSets

CONSTANTS Peer,    \* addresses of configured peers
          Family,  \* {"v4"}, or {"v4", "v6"} where IPv6 is enabled
          MaxIP,   \* bound on the loopback addresses given out
          BgpPort, \* 179
          None

VARIABLES ports,      \* what is bound in the netstack: [port, family]
          ctx,        \* the context of Start is cancelled
          proxies,    \* the loopback address of each peer, 0 for none
          nextIP,
          outln,      \* the kernel listener at each loopback address
          outloop,    \* runOutbound of each: [at, peer]
          starting,   \* where Start is
          inln,       \* the netstack listener of each family
          inboundLns, \* what the manager knows of them
          inloop,     \* runInbound of each family
          stopped     \* Close has not run, has run during Start or after it

listening == <<outln, outloop, inln, inboundLns, inloop>>
pvars == <<ports, ctx, proxies, nextIP, listening, starting, stopped>>

IP == 1..MaxIP
Socket(f) == [port |-> BgpPort, family |-> f]

Init == /\ ports = {} /\ ctx = FALSE
        /\ proxies = [p \in Peer |-> 0] /\ nextIP = 1
        /\ outln = [i \in IP |-> "none"]
        /\ outloop = [i \in IP |-> [at |-> "none", peer |-> None]]
        /\ starting = "peers"
        /\ inln = [f \in Family |-> "none"] /\ inboundLns = {}
        /\ inloop = [f \in Family |-> "none"]
        /\ stopped = "no"

-----------------------------------------------------------------------------
(* Start: a proxy for each peer, then the inbound listeners.               *)

\* Mutant: the next address is not counted on.
CreateProxySameIP(p) ==
    /\ starting = "peers" /\ proxies[p] = 0 /\ nextIP <= MaxIP
    /\ proxies' = [proxies EXCEPT ![p] = nextIP]
    /\ outln' = [outln EXCEPT ![nextIP] = "open"]
    /\ outloop' = [outloop EXCEPT ![nextIP] = [at |-> "accept", peer |-> p]]
    /\ UNCHANGED <<ports, ctx, nextIP, starting, inln, inboundLns, inloop, stopped>>

\* A peer that has a proxy gets the same again.
CreateProxy(p) ==
    /\ starting = "peers" /\ proxies[p] = 0 /\ nextIP <= MaxIP
    /\ nextIP' = nextIP + 1
    /\ proxies' = [proxies EXCEPT ![p] = nextIP]
    /\ outln' = [outln EXCEPT ![nextIP] = "open"]
    /\ outloop' = [outloop EXCEPT ![nextIP] = [at |-> "accept", peer |-> p]]
    /\ UNCHANGED <<ports, ctx, starting, inln, inboundLns, inloop, stopped>>

\* net.Listen fails; addPeer fails, and with it Start.
CreateProxyFails(p) ==
    /\ starting = "peers" /\ proxies[p] = 0 /\ nextIP <= MaxIP
    /\ nextIP' = nextIP + 1
    /\ starting' = "failed"
    /\ UNCHANGED <<ports, ctx, proxies, listening, stopped>>

Binds(f) == /\ Socket(f) \notin ports
            /\ ports' = ports \cup {Socket(f)}
            /\ inln' = [inln EXCEPT ![f] = "open"]

Starts(from, to) == /\ starting = from /\ starting' = to
                    /\ UNCHANGED <<ctx, proxies, nextIP, outln, outloop, stopped>>

ListenV4 == /\ Starts("peers", IF "v6" \in Family THEN "listen6" ELSE "track4")
            /\ Binds("v4") /\ UNCHANGED <<inboundLns, inloop>>

ListenV4Fails == /\ Socket("v4") \in ports /\ Starts("peers", "failed")
                 /\ UNCHANGED <<ports, inln, inboundLns, inloop>>

\* ListenTCPv4v6 does not report the error of the second listener.
ListenV6 == /\ Starts("listen6", "track4")
            /\ Binds("v6") \/ UNCHANGED <<ports, inln>>
            /\ UNCHANGED <<inboundLns, inloop>>

\* inboundLns is written without the lock.
TrackV4 == /\ Starts("track4", "track6")
           /\ inboundLns' = {"v4"}
           /\ inloop' = [inloop EXCEPT !["v4"] = "accept"]
           /\ UNCHANGED <<ports, inln>>

\* Mutant: the second listener takes the place of the first.
TrackV6Only ==
    LET open == {f \in Family \ {"v4"} : inln[f] # "none"}
    IN /\ Starts("track6", "done")
       /\ inboundLns' = IF open = {} THEN inboundLns ELSE open
       /\ inloop' = [f \in Family |-> IF f \in open THEN "accept" ELSE inloop[f]]
       /\ UNCHANGED <<ports, inln>>

TrackV6 == LET open == {f \in Family \ {"v4"} : inln[f] # "none"}
           IN /\ Starts("track6", "done")
              /\ inboundLns' = inboundLns \cup open
              /\ inloop' = [f \in Family |-> IF f \in open THEN "accept" ELSE inloop[f]]
              /\ UNCHANGED <<ports, inln>>

\* Stop: what the manager knows of is closed.  The maps stay.
Close == /\ stopped = "no"
         /\ stopped' = IF starting \in {"done", "failed"} THEN "after" ELSE "during"
         /\ outln' = [i \in IP |-> IF outln[i] = "open" THEN "closed" ELSE outln[i]]
         /\ inln' = [f \in Family |-> IF f \in inboundLns THEN "closed" ELSE inln[f]]
         /\ ports' = ports \ {Socket(f) : f \in inboundLns}
         /\ UNCHANGED <<ctx, proxies, nextIP, outloop, starting, inboundLns, inloop>>

-----------------------------------------------------------------------------
(* The accept loops.                                                       *)

Loops == UNCHANGED <<ports, ctx, proxies, nextIP, outln, starting, inln, inboundLns, stopped>>

OutboundEnds(i) == /\ outloop[i].at = "accept" /\ outln[i] = "closed"
                   /\ outloop' = [outloop EXCEPT ![i].at = "ended"]
                   /\ Loops /\ UNCHANGED inloop

\* An error of Accept ends the loop only with the context; it is tried again until
\* then.
InboundEnds(f) == /\ inloop[f] = "accept" /\ inln[f] = "closed" /\ ctx
                  /\ inloop' = [inloop EXCEPT ![f] = "ended"]
                  /\ Loops /\ UNCHANGED outloop

StartStep == \/ \E p \in Peer : CreateProxy(p) \/ CreateProxyFails(p)
             \/ ListenV4 \/ ListenV4Fails \/ ListenV6 \/ TrackV4 \/ TrackV6
LoopEnds == (\E i \in IP : OutboundEnds(i)) \/ (\E f \in Family : InboundEnds(f))

Next == StartStep \/ Close \/ LoopEnds

\* Whom a new connection is with: handleOutbound dials the peer of its loop's proxy
\* when gobgp connects to address i, handleInbound takes the sender and dials gobgp
\* from the address of its proxy, if it has one.
Connections == {[ip |-> i, peer |-> outloop[i].peer] : i \in {i \in IP : outln[i] # "none"}}
               \cup {[ip |-> proxies[p], peer |-> p] : p \in {p \in Peer : proxies[p] # 0}}

-----------------------------------------------------------------------------
TypeOK == /\ proxies \in [Peer -> 0..MaxIP] /\ nextIP \in 1..(MaxIP + 1)
          /\ outln \in [IP -> {"none", "open", "closed"}]
          /\ outloop \in [IP -> [at : {"none", "accept", "ended"}, peer : Peer \cup {None}]]
          /\ starting \in {"peers", "listen6", "track4", "track6", "done", "failed"}
          /\ inln \in [Family -> {"none", "open", "closed"}]
          /\ inloop \in [Family -> {"none", "accept", "ended"}]
          /\ inboundLns \subseteq Family
          /\ stopped \in {"no", "during", "after"}
          /\ \A f \in Family : inln[f] = "open" => Socket(f) \in ports

\* gobgp tells its neighbours apart by address: whoever connected to whom, all the
\* connections under a loopback address are with one peer, and a peer has one.
PeerIdentity == \A s, t \in Connections : s.ip = t.ip <=> s.peer = t.peer

\* A Stop that comes after Start leaves no listener open, neither when Start failed
\* half-way nor when it could not listen on one of the families.
StopClosesAll == stopped = "after" => /\ \A i \in IP : outln[i] # "open"
                                      /\ \A f \in Family : inln[f] # "open"

\* Without a listener the loops end: at once, or with the context.
ProxyLoopsEnd == /\ \A i \in IP : outln[i] = "closed" ~> outloop[i].at # "accept"
                 /\ \A f \in Family : (inln[f] = "closed" /\ ctx) ~> inloop[f] # "accept"
=============================================================================

------------------------------ MODULE Netstack ------------------------------
(***************************************************************************)
(* netstack.Manager (src/internal/netstack/stack.go): the NICs of the      *)
(* gVisor stack, the three maps the manager keeps about them, and the way  *)
(* of a packet for a local address through IsLocalAddress,                 *)
(* NICNameForAddress and InjectInbound, each of which takes the lock for   *)
(* itself.  gVisor is a library: of it there are the NICs with their       *)
(* addresses and the routes, which go with their NIC.  An endpoint is      *)
(* known by the id of its NIC.                                             *)
(***************************************************************************)
EXTENDS Integers

CONSTANTS Name,       \* names of NICs; a name in use is not added again
          Prefix,     \* NICConfig.Address: an address with a prefix length
          Supported,  \* the prefixes of the protocols the stack has
          Host,       \* destinations of packets
          Covers(_),  \* the hosts that Prefix.Contains accepts
          PeerPrefix, \* the prefix of AddPeerRoute and AddDefaultRoute
          Deliverer,  \* goroutines in handleIPPacket
          MaxNIC,     \* bound on the NICs ever added
          None

VARIABLES nics,       \* the endpoint of each name, 0 where there is none
          nicNames,   \* the name of each NIC, or None
          nicByAddr,  \* the name that has each prefix, or None
          nextNICID,
          stack,      \* the NICs of the stack: what address each has, or None
          routes,     \* the stack's routes, [dest, nic]
          way,        \* where the packet of each deliverer is
          shared,     \* ghost: a prefix was given to a second NIC
          disturbed   \* ghost: a NIC went while the packet was on its way

vars == <<nics, nicNames, nicByAddr, nextNICID, stack, routes, way, shared, disturbed>>
tables == <<nics, nicNames, nicByAddr, nextNICID, stack, routes>>

Id == 1..MaxNIC
Idle == [at |-> "idle", dst |-> None, nic |-> None]
On(at, dst, nic) == [at |-> at, dst |-> dst, nic |-> nic]

Init == /\ nics = [n \in Name |-> 0]
        /\ nicNames = [i \in Id |-> None]
        /\ nicByAddr = [p \in Prefix |-> None]
        /\ nextNICID = 1
        /\ stack = [i \in {} |-> None] /\ routes = {}
        /\ way = [d \in Deliverer |-> Idle]
        /\ shared = FALSE /\ disturbed = [d \in Deliverer |-> FALSE]

-----------------------------------------------------------------------------
(* The NICs.                                                               *)

WithNIC(id, addr) == [i \in DOMAIN stack \cup {id} |-> IF i = id THEN addr ELSE stack[i]]

\* A prefix that some NIC has already does not go into the stack a second time,
\* but the maps take the new NIC for it.
AddNIC(n, p) ==
    /\ nics[n] = 0 /\ nextNICID <= MaxNIC
    /\ LET id == nextNICID
           dup == nicByAddr[p] # None
       IN /\ dup \/ p \in Supported
          /\ nextNICID' = id + 1
          /\ stack' = WithNIC(id, IF dup THEN None ELSE p)
          /\ routes' = routes \cup (IF dup THEN {} ELSE {[dest |-> p, nic |-> id]})
          /\ nics' = [nics EXCEPT ![n] = id]
          /\ nicNames' = [nicNames EXCEPT ![id] = n]
          /\ nicByAddr' = [nicByAddr EXCEPT ![p] = n]
          /\ shared' = (shared \/ dup)
    /\ UNCHANGED <<way, disturbed>>

\* AddProtocolAddress fails after CreateNIC: a NIC without a name stays.
AddNICFails(n, p) ==
    /\ nics[n] = 0 /\ nextNICID <= MaxNIC
    /\ nicByAddr[p] = None /\ p \notin Supported
    /\ nextNICID' = nextNICID + 1
    /\ stack' = WithNIC(nextNICID, None)
    /\ UNCHANGED <<nics, nicNames, nicByAddr, routes, way, shared, disturbed>>

\* AddPeerRoute and AddDefaultRoute look for a NIC of that name.
AddRoute(n) ==
    \E id \in Id : /\ nicNames[id] = n
                   /\ routes' = routes \cup {[dest |-> PeerPrefix, nic |-> id]}
                   /\ UNCHANGED <<nics, nicNames, nicByAddr, nextNICID, stack, way,
                                  shared, disturbed>>

Without(id) == [i \in DOMAIN stack \ {id} |-> stack[i]]
Disturb == disturbed' = [d \in Deliverer |-> disturbed[d] \/ way[d].at # "idle"]

\* Mutant: the NIC is left in the stack.
RemoveNICKeepsStack(n) ==
    /\ nics[n] # 0
    /\ \E id \in Id : nicNames[id] = n /\ nicNames' = [nicNames EXCEPT ![id] = None]
    /\ nicByAddr' = [p \in Prefix |-> IF nicByAddr[p] = n THEN None ELSE nicByAddr[p]]
    /\ nics' = [nics EXCEPT ![n] = 0]
    /\ Disturb /\ UNCHANGED <<nextNICID, stack, routes, way, shared>>

\* Mutant: the addresses of the NIC stay in nicByAddr.
RemoveNICKeepsAddress(n) ==
    /\ nics[n] # 0
    /\ \E id \in Id : /\ nicNames[id] = n /\ nicNames' = [nicNames EXCEPT ![id] = None]
                      /\ stack' = Without(id)
                      /\ routes' = {r \in routes : r.nic # id}
    /\ nics' = [nics EXCEPT ![n] = 0]
    /\ Disturb /\ UNCHANGED <<nicByAddr, nextNICID, way, shared>>

RemoveNIC(n) ==
    /\ nics[n] # 0
    /\ \E id \in Id : /\ nicNames[id] = n /\ nicNames' = [nicNames EXCEPT ![id] = None]
                      /\ stack' = Without(id)
                      /\ routes' = {r \in routes : r.nic # id}
    /\ nicByAddr' = [p \in Prefix |-> IF nicByAddr[p] = n THEN None ELSE nicByAddr[p]]
    /\ nics' = [nics EXCEPT ![n] = 0]
    /\ Disturb /\ UNCHANGED <<nextNICID, way, shared>>

-----------------------------------------------------------------------------
(* A packet for one of the stack's addresses.                              *)

Moves(d, from, to) == /\ way[d].at = from /\ way' = [way EXCEPT ![d] = to]
                      /\ UNCHANGED <<tables, shared>>

IsLocalAddress(h) == \E i \in DOMAIN stack : stack[i] # None /\ h \in Covers(stack[i])

\* handleIPPacket asks isLocal; what is not local is Forwarding's.
Arrives(d, h) == /\ IsLocalAddress(h)
                 /\ Moves(d, "idle", On("local", h, None))
                 /\ disturbed' = [disturbed EXCEPT ![d] = FALSE]

\* NICNameForAddress: any prefix of the map that covers the address, in map order.
Naming(h) == {nicByAddr[p] : p \in {p \in Prefix : nicByAddr[p] # None /\ h \in Covers(p)}}

Named(d) == /\ \E n \in Naming(way[d].dst) : Moves(d, "local", On("named", way[d].dst, n))
            /\ UNCHANGED disturbed

Unnamed(d) == /\ Naming(way[d].dst) = {} /\ Moves(d, "local", Idle)
              /\ UNCHANGED disturbed

\* InjectInbound takes the endpoint under the lock ...
EndpointFound(d) == /\ way[d].at = "named" /\ nics[way[d].nic] # 0
                    /\ Moves(d, "named", On("inject", way[d].dst, nics[way[d].nic]))
                    /\ UNCHANGED disturbed

EndpointGone(d) == /\ way[d].at = "named" /\ nics[way[d].nic] = 0
                   /\ Moves(d, "named", Idle)
                   /\ UNCHANGED disturbed

\* ... and hands it the packet after it.  A NIC that is gone drops it; what a NIC
\* does with an address that its prefix only covers is gVisor's.
Injected(d) == Moves(d, "inject", Idle) /\ UNCHANGED disturbed

Accepted(d) == /\ way[d].at = "inject" /\ way[d].nic \in DOMAIN stack
               /\ stack[way[d].nic] # None /\ way[d].dst \in Covers(stack[way[d].nic])

Table == \E n \in Name : \/ \E p \in Prefix : AddNIC(n, p) \/ AddNICFails(n, p)
                         \/ AddRoute(n) \/ RemoveNIC(n)
Deliver(d) == \/ \E h \in Host : Arrives(d, h)
              \/ Named(d) \/ Unnamed(d)
              \/ EndpointFound(d) \/ EndpointGone(d) \/ Injected(d)

Next == Table \/ \E d \in Deliverer : Deliver(d)
Spec == Init /\ [][Next]_vars

-----------------------------------------------------------------------------
TypeOK == /\ nics \in [Name -> 0..MaxNIC]
          /\ nicNames \in [Id -> Name \cup {None}]
          /\ nicByAddr \in [Prefix -> Name \cup {None}]
          /\ nextNICID \in 1..(MaxNIC + 1)
          /\ DOMAIN stack \in SUBSET Id /\ \A i \in DOMAIN stack : stack[i] \in Supported \cup {None}
          /\ routes \subseteq [dest : Prefix \cup {PeerPrefix}, nic : Id]
          /\ DOMAIN way = Deliverer
          /\ \A d \in Deliverer : way[d].at \in {"idle", "local", "named", "inject"}
          /\ shared \in BOOLEAN /\ disturbed \in [Deliverer -> BOOLEAN]

\* The maps of the manager and the stack tell of the same NICs, after any sequence
\* of additions, failures and removals: a name and its NIC lead to each other, no
\* map names a NIC that is gone, and an address or a route of the stack belongs to
\* a NIC with a name.
NamesAgree ==
    /\ \A n \in Name : nics[n] # 0 => nics[n] \in DOMAIN stack /\ nicNames[nics[n]] = n
    /\ \A i \in Id : nicNames[i] # None => nics[nicNames[i]] = i
    /\ \A p \in Prefix : nicByAddr[p] # None => nics[nicByAddr[p]] # 0
    /\ \A i \in DOMAIN stack : stack[i] # None => nicNames[i] # None
    /\ \A r \in routes : nicNames[r.nic] # None

\* While no prefix was given to two NICs, a prefix is local exactly when the map has
\* a name for it, and the name is that of the NIC with the address.
AddressesAgree ==
    ~shared => \A p \in Prefix, i \in Id :
                  (i \in DOMAIN stack /\ stack[i] = p)
                      <=> (nicNames[i] # None /\ nicByAddr[p] = nicNames[i])

TablesAgree == NamesAgree /\ AddressesAgree

Lost(d) == way[d].at # "idle" /\ way'[d].at = "idle" /\ ~Accepted(d)

\* A packet that handleIPPacket takes for local gets into a NIC whose prefix covers
\* its destination, although each of the three steps looks at tables of its own;
\* only a NIC removed meanwhile or a shared prefix can lose it.
LocalPacketsArrive ==
    [][\A d \in Deliverer : Lost(d) => shared \/ disturbed[d]]_vars
=============================================================================

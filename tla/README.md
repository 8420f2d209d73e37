# A TLA+ verification of gouter

gouter is a userspace router written in Go: BGP through an embedded gobgp server,
MPLS over UDP, WireGuard links and a gVisor network stack, with no kernel
interfaces. This directory holds the models of its core, the TLC configurations
that check them and the theorems TLAPS proves about them.

    tlc -workers 2 -config FIB_table.cfg MCFIB         # model-check one run
    tlapm FIBProofs.tla                                # check the proofs of a module

`PROJECT.json` lists the runs, the source lines each definition stands for, the
hazards found while reading, and for every property a mutant: a variant of one
definition, such as a bug in that code would make, under which TLC finds the
property violated. The mutant definitions stand next to the ones they replace.

## 1. Inventory

All paths are under `src/internal/`.

| Component | State | Operations | Interacts with |
|---|---|---|---|
| FIB (`router/fib.go`) | a slice of entries sorted by prefix length, an RWMutex | Add, Remove, Lookup, HasExact, List | written by the speaker's callback and the loader of static routes; read by the router, the resolver, the status page |
| NexthopResolver (`router/nexthop.go`) | map transport -> prefixes, **no mutex** | AddTransport, RemoveTransport, Resolve, ResolveTransport | falls back on FIB.Lookup |
| Router (`router/router.go`) | map of transports, the packet processor, an RWMutex; one goroutine per transport | AddTransport, RemoveTransport, SetProcessor, Run, ForwardFromNetstack, handlePacket | everything on the data path |
| LFIB and LabelAllocator (`mpls/lfib.go`) | map label -> entry with an RWMutex; an atomic counter | Add, Remove, Lookup, List, Allocate, Release | written by the speaker, read by the router |
| Label stack (`mpls/label.go`) | none: functions on byte slices | Parse, Encode, Push, PushLabels, Pop, Swap, HasLabel | the router |
| MPLS-over-UDP transport (`mpls/transport.go`) | socket, map of peers **without mutex**, reader channel (256), closeCh | Write, readLoop, AddPeer, RemovePeer, Close | the router |
| WireGuard transport, MemTUN (`wg/`) | three channels (256), closed, events | Write, readLoop, Up, Close; the device's Read and Write | the router; wireguard-go |
| Netstack Manager (`netstack/stack.go`) | maps of NICs by name, id and address, a mutex | AddNIC, RemoveNIC, AddPeerRoute, InjectInbound, IsLocalAddress, NICNameForAddress, ListenTCP, DialTCP | the router, the proxies; gVisor |
| ForwardManager (`netstack/forward.go`) | map of rules, a mutex; one accept loop per rule | Add, Remove, Close | the netstack |
| BGP Speaker (`bgp/speaker.go`) | gobgp server, config, route count | Start, Stop, the best-path callback | FIB, LFIB, resolver, proxies |
| Import filter (`bgp/filter.go`) | a policy inside gobgp | setupFilter | gobgp |
| ProxyManager (`bgp/proxy.go`) | maps of proxies and listeners, next address and port, a mutex | CreateProxy, StartInbound, the accept loops, pipe, Close | gobgp on one side, the netstack on the other |
| Config, AppContext, HTTP page, `cmd/` | none that changes | loading, wiring, printing | all |

What is hard here:

* **pointers that outlive the lock** -- `FIB.Lookup` returns `&f.routes[i]`, and the
  router and resolver read through it while Add, Remove and sort rewrite the array;
* **a lock-free allocator that wraps**, reset by several callers at once;
* **order of start and events** -- peers are up before the watch on best paths
  begins; three address families write one FIB; withdrawals and announcements queue;
* **partial failure** -- Start logs some errors and returns on others, with what was
  started still running;
* **loops in the data path** -- TTL of one byte, recursive next hops, packets that
  are sent back where they came from, labels of several routers;
* **bounded channels and Close** in the transports: five goroutines around one link,
  each of which may stand before a full or an empty channel when it is closed;
* **a local packet's three looks** at the NIC tables, each under a lock of its own;
* **listeners that share ports and a context** and whose loops spin after Close, and
  relays that close both connections when one direction ends;
* **unguarded maps** in the resolver and the UDP transport.

What would make each part correct: the FIB is a map with longest-prefix lookup
and its readers see routes of the prefix they asked for; the allocator gives out
valid labels that nobody else holds; the bytes on the wire are the labels pushed;
a packet is delivered exactly when the tables have a way, and else dropped in
bounded time; the tables follow gobgp's best paths; a closed transport stops
its goroutines and never panics.

## 2. The models

| Module | Models | How it corresponds |
|---|---|---|
| `RouteTable` | the promise of the FIB | a map from prefixes to routes, a lookup answered by any longest match |
| `FIB` | `router/fib.go` | `routes`, `len`, `cap` are the slice and its backing array; `pc` is what the holder of the mutex does; each exchange of `sort()` is one step (`Compare`, `NextRow`); `ref` is a pointer into the array, `copy` an entry in an abandoned array or HasExact's copy; `asked` and `want` are ghosts of the call and its result |
| `LFIB` | `mpls/lfib.go` | `AddNext` is `atomic.AddUint64` and the tests on its result, `StoreNext` the reset; `entries` the map |
| `LabelStack` | `mpls/label.go`, `detectPacketType` | packets are sequences of bytes; `todo` is where the loop of `PushLabels` is, one round of it a step; `stack` and `inner` are ghosts that say what the bytes should mean |
| `Forwarding` | `router.go`, `nexthop.go`, `Write` and `readLoop` of both transports | one packet crossing several nodes with fixed tables; one step is one call of `handlePacket`, which calls itself after a pop; `Route` is a call that comes to the TTL, `Pass` any other; what a call may make of a packet is the set `Handle` |
| `Speaker` | `bgp/speaker.go`, `bgp/filter.go` | `stage`, `npeers`, `nlocal` follow `Start`; `rib` and `queue` are gobgp's best paths and its watcher's channel (external); each handler is an action; `fib` is updated by `RouteTable`'s own `Put` and `Withdraw` |
| `Transport` | the promise of a transport (`transport/transport.go`) | what came in and is not yet read, what Write accepted, the calls of Write under way, whether Close was called |
| `WgTransport` | `wg/transport.go`, `wg/tun.go` | `inbound`, `outbound`, `reader` are the channels; `loop` with `held` is readLoop, `recv` and `dev` the two goroutines of the wireguard-go device that call MemTUN's Write and Read, `closing` the calls of Close by the application and by the device; each case of a select is an action |
| `UDPTransport` | `mpls/transport.go` | `uloop` with `uheld` is readLoop, `sock` what the kernel holds, `conn` and `closeCh` the two things Close closes, one step each |
| `Netstack` | `netstack/stack.go` | the manager's three maps and the stack's NICs, addresses and routes; `way` is a packet between IsLocalAddress, NICNameForAddress and InjectInbound, each an atomic look at the tables |
| `Links` | `router.go` around the three above | the transport table, the reader goroutine of a transport, the goroutines that look it up and write to it, the context |
| `Proxies` | `bgp/proxy.go`, `ListenTCPv4v6` | `starting` follows CreateProxy and StartInbound statement by statement where Close can come between; `outln`, `inln` are the listeners, `inboundLns` what the manager knows of them |
| `Forwards` | `netstack/forward.go` | `fwd` is the map of rules, `made` every listener ever made with its accept loop |
| `Relay` | `pipe`, `handleInbound`, `handle` | one accepted connection: two copiers, the connections they copy between and the deferred closes |
| `Services` | the three above together | the ports of the netstack and the program's context, which proxies and forwards share |

`FIB` implements `RouteTable`, both transports implement `Transport` (checked and proved), and `Speaker` works on
`RouteTable`, so what it shows holds with the FIB of the code underneath.

### Modelling decisions

* *Stores under way.* In `FIB` the variable `mem` is the array before the lock
  holder's last store. A load without the lock returns the old value, the new one,
  or `Torn` when the field is longer than a machine word. This covers a reader
  that is one store behind; properties that must hold in spite of it quantify over
  all the values it may read.
* *append.* `Grow` doubles the capacity from one: with 104-byte entries this is
  what Go's `growslice` does up to 256 entries. Proofs need only that the new
  capacity has room.
* *gobgp* is a table of best paths and a FIFO. A path's withdrawal event carries the
  path that went away. Peers override the next hop with their own router ID
  (`setupGlobalNexthop`), so no learned path names this router. gobgp compares the LOCAL_PREF
  before it asks for local origin. `addLocalRoute` sets none, which counts as 100: a learned path of
  the same LOCAL_PREF gives way to the local one, and a path of an internal peer with a higher
  one displaces it (`Outranks`). gobgp keeps the local path beside it (`exported`); it is the best again,
  with an event of its own, when the other goes. The import policy applies to local paths as well.
* *One LS link* adds a node and a link NLRI; they are one path in the model, since
  the callback ignores both.
* *Forwarding* uses labels that do not look like IP versions; `LabelStack` says
  which those are. The wireguard-go device behind a WireGuard transport routes by the IP header: it drops what
  begins with no IP version and what is addressed outside the peer's `allowed_ips` (`Carries`). That the far
  end's `allowed_ips` hold the source of what it receives is assumed. Packets enter from a NIC of a node and
  carry its name, as `GetNICOutChannel` sets it. Drops by a full channel and lost datagrams are left out:
  what is checked is where packets go, not that the network delivers them.
* *One link, or the netstack, at a time.* The three parts that `Links` composes share
  no state but the router, so a behaviour is about one of them (`kind`), not about
  their product. In the same way a behaviour of `Services` is about the listeners or
  about one connection (`scene`): a connection, once accepted, shares nothing with the
  listeners. What the parts do share (ports, context, the transport table) is one
  variable.
* *wireguard-go.* Its receiver calls MemTUN's Write, its sender calls Read until Read fails
  and then closes the device itself; its Close waits for the receiver. A buffer of
  one Write may be followed by another one of the same call. The device may be up before `Up` starts
  readLoop, because `NewMemTUN` queues EventUp.
* *Reads of the UDP socket* fail once it is closed, or now and then while it is open; either way readLoop goes
  back to its check of closeCh.
* *TCP in Relay.* Chunks arrive in order. A connection closed with data unread may lose
  what is still on its way to that side (the reset overtakes it): `Finish` chooses.
  The dial before the relay is left out; when it fails the accepted connection is closed.
* *Calls that would panic* are assumed not to be made, and the hazards in `PROJECT.json`
  name them: `ForwardManager.Add` after Close (nil map), two Closes of one UDP transport,
  two Closes of one WireGuard transport by the application at the same moment. The names of
  NICs are unique, as those of the transports they belong to are.

## 3. Runs

| Run | Checks | Result |
|---|---|---|
| `FIB_table` | `TypeOK`, `UniquePrefix`, `Sorted`, `IdleReadsWhole`, `NeverReadsBlank`, `ImplementsRouteTable`, `WriterFinishes` | holds, 183 k states |
| `FIB_pointer` | `PointerKeepsPrefix` | **violated** |
| `LFIB_labels` | `TypeOK`, `LabelsValid`, `OvershootBounded`, `OwnEntryUntilWrap`, `SomeoneAllocates` | holds, 5 k states |
| `LFIB_reuse` | `OwnEntryFound` | **violated** |
| `LabelStack_wire` | `TypeOK`, `StackOnWire`, `DetectExact` | holds, 2 k states |
| `LabelStack_bottom` | `BottomMarksBottom` | **violated** |
| `Forwarding_safety` | `TypeOK`, `HopsBounded`, `DeliveredExactly`, `EveryPacketEnds` | holds, 2 k states |
| `Forwarding_links` | `LabelledPacketsCross` | **violated** |
| `Speaker_safety` | `TypeOK`, `NoGhostRoutes`, `SoleSourceConverges`, `LabelsMatchExports`, `FailedStartInstallsNothing`, `FilterRestricts`, `RoutesFollowRib` | holds, 268 k states |
| `Speaker_filter` | `ImportFilterHolds` | **violated** |
| `Links` | `TypeOK`, `ClosedOnce`, `TablesAgree`, `ImplementsTransport`, `LocalPacketsArrive`, `NoErrorLoop`, `CallsReturn`, `LoopsEnd` | holds, 108 k states |
| `Services` | `TypeOK`, `PeerIdentity`, `StopClosesAll`, `PortsOfRules`, `LastWordsHeard`, `GoroutinesEnd` | holds, 95 k states |

**Bounds, and why they are enough.** *FIB*: four prefixes of three lengths, two of
one length covering one address (Add keeps host bits), one prefix with two
routes; the array grows 1, 2, 4, so every route count from 0 to 4 meets an array
with and without room. One reader is enough: readers change nothing that a writer
or another reader sees. *LFIB*: three goroutines and four labels in the range, of
which three are given out, so the counter wraps while labels are held and
all three callers can be about to reset it; `Word` = 16 leaves room for the
overshoot, which the assumption on `Word` requires in general. *LabelStack*: seven
labels at the edges of the ranges and stacks of up to three. *Forwarding*: `Byte` = 8
stands for 256, a bound the longest way (three hops) stays well below; five nodes, two
of which have a UDP transport with two peers, so that `sendRaw` has something to pick from, and one of which
has two UDP transports that tie for a next hop; packets enter from every NIC; ten
destinations, one for each kind of route, and one address that a WireGuard peer's `allowed_ips` lack. `MCWay` follows every packet through the tables
to find the length of its way, `MCDist` states it by hand for packets that enter. *Speaker*: six learned paths of three
families over four prefixes, one of which outranks the exported label and one of which gives way
to it, two local paths, two peers, two next hops on links, one of
them with two transports that tie, and one recursive; `MaxQueue` = 2 bounds the events
waiting, so that a withdrawal and its replacement wait together. `Receive` and `Lose` are
disabled while the queue is full; the replay of `WatchEvent` is not bounded.
*Links*: channels of one packet (for 256), so that each is full as soon as it is used, and
`MaxPackets` = 4 packets in and out, one more than the reader channel, readLoop and
Inbound hold: the receiver blocks behind a stuck readLoop. One writer is
enough: writers meet only at Outbound, which the packets they write fill one after the
other. For the NICs two names and `MaxNIC` = 3, so that a name is added a second
time; three prefixes, one covering another and one of a protocol the stack lacks.
*Services*: two peers and `MaxIP` = 2 loopback addresses, both families, two forwards of which
one wants the port of BGP, and `MaxAdds` = 2 listeners, so that a rule is removed
and added while the loop of its first listener still runs. *Relay*: `Window` = 1 chunk on
the way to a side, `MaxSent` = 2 sent by each: a copier blocks in Write with one more
chunk behind it.

**Fairness.** `WF(Holder)` in `FIB`: a goroutine that holds the mutex runs
straight-line code. `WF(Allocating(t))` in `LFIB`: a goroutine inside `Allocate` is
never blocked; nothing is assumed of its caller. `WF(Next)` in `Forwarding`: a reader
goroutine takes the packet from the channel. `WF(HandleBestPath)` in `Speaker`: the
watcher's goroutine calls the callback for every event it has; `Start` and the peers
have no fairness. In `Links` and `Services` each goroutine has weak fairness for its own
steps, as the Go scheduler gives it, and who adds, removes, cancels, sends or calls Close
has none, except that a call that has begun goes on. Strong fairness is assumed once, of
the case `closed` in readLoop's select (`LoopEnd`): Go chooses among the ready cases at
random, so the case is taken in the end even when packets keep coming. In `Relay` a side that
is connected receives what came for it; without that a relay may block for ever in Write.
Deadlock is checked except where the system really may stop: in `Forwarding` (a packet has
arrived or is dropped), `Speaker` (Start may fail, or Stop was called and all events are
handled), `Links` and `Services` (everything is closed and no caller has anything to do).

### What the violations show

* `PointerKeepsPrefix`: Add a route, Lookup it, Remove it, Add another one. The
  second entry takes the slot, and the pointer in the reader's hands shows another
  prefix's next hop, transport and labels. `HasExact` copies; `Lookup` does not.
* `OwnEntryFound`: after the allocator wraps, two goroutines hold one label and the
  first Remove deletes the other's entry. `TestLFIBConcurrency` asserts that this
  does not happen; it makes too few allocations to see it.
* `BottomMarksBottom`: `PushLabel` sets the bottom-of-stack bit in every header. gouter
  itself never looks at the bit, so its own routers still forward such packets
  (`StackOnWire`, `DeliveredExactly`).
* `LabelledPacketsCross`: a route that pushes labels may lead over a WireGuard transport, whose Write
  gives the labelled packet to the device and returns no error. The device routes IP packets
  only and drops it (so would the receiving one). The link of the README's "internal BGP + MPLS
  peer" is a WireGuard link.
* `ImportFilterHolds`: an error of `setupFilter` is logged and the speaker goes on
  unfiltered. (`FilterRestricts` shows that the filter does its work when it is
  installed, because that happens before the first peer.)

### What the properties that hold do not say

* `NoGhostRoutes`, `SoleSourceConverges` and `LabelsMatchExports` except the traces of a path that outranked an
  exported label, and nothing else. While it is the best path its route is in the FIB and the label
  stays popped; when it goes, the event of the own label enters the LFIB only
  (speaker.go:341-346), and the route remains in the FIB, over a static one for the same prefix too.
* `LoopsEnd` excepts a transport whose reader goroutine never ran or has stopped: a readLoop
  that holds a packet before a full reader channel then stays there, Close or no Close. This
  is so for every transport that is added after `Run` (router.go:81-88).
* `RelayEnds` (in `GoroutinesEnd`) claims for an inbound connection only what the peer's leaving
  does. When gobgp leaves, `handleInbound` keeps the peer's connection until the peer
  gives it up (proxy.go:177), and it never closes it.
* `StopClosesAll` is about a Stop after Start. A Stop while StartInbound runs does not see the
  listeners it has just opened, and port 179 stays bound.
* `LocalPacketsArrive` excepts a prefix given to two NICs: the stack has it on the first, the
  map leads to the second. It says that the packet gets into a NIC whose prefix covers
  the address; that an address of the prefix that is not the NIC's own is refused there is
  gVisor's.
* `LastWordsHeard` is about a silent other side. When both sides have data on the way, `pipe`
  cuts one direction as soon as the other has ended.

## 4. Proofs

| Module | Theorem | Says |
|---|---|---|
| `FIBProofs` | `TypeCorrect`, `PrefixesUnique`, `RoutesSorted`, `PointersShowRoutes`, `ReadersNeverSeeBlank`, `SortEnds` | the five invariants of `FIB_table`, for all prefixes, routes and readers; the measure by which `sort()` ends |
| `FIBRefinement` | `Refinement` | `Spec => ImplementsRouteTable` |
| `LFIBProofs` | `TypeCorrect`, `AllocateReturnsValidLabels`, `CounterBounded`, `EntriesOwnedUntilWrap` | the invariants of `LFIB_labels`, for any number of goroutines and any label range |
| `LabelStackProofs` | `ParseEncode`, `TypeCorrect`, `LabelsOnWire`, `DetectsExactly` | `ParseLabel` undoes `EncodeLabel`, for every label, class, flag and TTL; the three invariants of `LabelStack_wire`, for any labels, packets and depth |
| `ForwardingProofs` | `TTLBoundsHops`, `TypeCorrect`, `DeliveryFollowsWay` | `HopsBounded` and `TypeOK`, for any network, any routes and any label tables; `DeliveredExactly` for any network whose tables agree on the length of each way |
| `SpeakerProofs` | `TypeCorrect`, `FailedStartSafe`, `FilterHolds`, `GhostFree`, `LabelsExact`, `SoleSource` | the six invariants of `Speaker_safety`, for any peers, paths, prefixes and length of the queue |
| `LinksProofs` | `TypeCorrect`, `PacketsKept`, `Refinement`, `OneClose`, `NICsAgree`, `LocalArrive`, `ErrorsEnd` | the invariants and the two action properties of `Links`, and `Spec => ImplementsTransport`, for channels of any size, any writers, names, prefixes and hosts |
| `ServicesProofs` | `TypeCorrect`, `OneIdentity`, `StopIsFull`, `PortsHaveRules`, `WordsHeard` | the invariants of `Services`, for any peers, rules and windows |

Every module proves one `Invariance`: `Init => IInv`, `IInv` is kept by each action (one lemma
or one step per action), and the properties follow from it.

**FIB.** The assumptions are that prefixes have lengths, that routes have prefixes
among them and that the marker values are no routes. The five properties are not
inductive. `IInv` adds: every used slot holds a route (`ArraysWhole`), a pointer points
at a slot that holds a route before and after the store under way (`RefsWhole` --
true because slots are overwritten and never cleared), a reader with an answer has
a slot or a copy (`HoldersPoint`), no store is under way while the mutex is
free (`IdleStable`), and the loop invariant of `sort()` (`SortLoop`: the rows
before `i` are final, entry `i` is the longest among those compared with it).

**Refinement.** The mapping `Table` takes a prefix to the entry in the slot that has
it, which is unique by `UniquePrefix`. Add, Remove, Lookup, HasExact and Finish map to
their abstract steps; Compare, NextRow and Unlock leave `Table` unchanged because
an exchange permutes the used slots.

**LFIB.** The number of goroutines is finite and the counter has room for their
overshoot. `CounterBounded` counts: each AddNext past the last label adds one goroutine
to those about to reset. For `EntriesOwnedUntilWrap` the invariant says that until the
first reset labels are given out in increasing order, so no two goroutines hold one.

**LabelStack.** The loop of `PushLabels` is a step a round, so what it computes is an invariant of
the loop and needs no induction over lists. `IInv` says that the bytes *carry* the labels the loop
has reached (`Carries`: four bytes for each, whose fields are those of `Header`, then the IP packet), and
that the labels it has not reached are the first of `stack`. A push, a pop and a swap each
keep `Carries`; `CarriesRead` and `CarriesDetect` read the properties off it. It is assumed that
an IP packet begins with the nibble 4 or 6.

**Forwarding.** `HopsBounded` is inductive only with the way the byte counts: the TTL in the
packet and the hops so far add up to the TTL sent, or to `Byte` more when it wrapped at 0 (`Left`), and
a packet that moves has not used it up. It assumes nothing of the tables; `TypeCorrect` needs that
they hold labels, that links end at nodes and that a swap has a label (`TablesAssumption`).
`DeliveredExactly` is about a configured network, and `WayAssumption` says in general what that means:
for every situation a packet can come into (the node and the packet) the tables give one
number of decrements to the delivery, or none, whichever route of a tie or peer of a link is
picked. It is a condition on single steps (`Agrees`), which TLC evaluates for the network of the run;
`DistIsWay` says that `Dist` is that number where packets enter. From them it follows that `hops` and the way
from here always add up to the way from the start (`OnTheWay`), and so that the packet is
delivered exactly if its TTL lasts for it.

**Speaker.** The assumptions are that local paths are finitely many, one for each key, and outrank nothing, that no
learned path has this router as its next hop, and that routes and paths are of their sets. What
makes the table properties inductive is `Queue`: the last event that waits for a key carries
gobgp's best path of that key (or its withdrawal), and when none waits what was handled last
does. `Exports` and `EventsFit` say how learned paths and exported ones stand to each other: the key of
an exported path is never withdrawn, its best path and its events are that path or one that outranks
it, and an own label is on exported paths only (`Fits`). From this, a route of an own label's key can only be one that a path
that outranked it left behind (`OwnKeyLeaves`, `OwnUntouched`), which makes the exception in the three properties exact.
`Tables` says what has been handled stands in the FIB and the LFIB, `Early` that
nothing is there before the watch, `Filters` that with the filter in force no best path and no
event is one that it rejects.

**Links.** `IInv` has one part for each of the three things handed packets to, and the router's
(`Own`). `NothingLost` (what MemTUN's Write accepted is in `Pipeline`, once and in order) is inductive
with the type invariant, as an equation between sequences:
every step takes the first packet of one part of `Pipeline` and puts it last in the
part before it. `ClosedOnce` needs that the application's Close and the device's are
never both between test and close: the device closes itself only after its Read failed, and Read
fails only when the channel is closed. `LocalArrive` needs that a name or an endpoint that a
packet carries is still the one of the tables while no NIC was removed since.

**Refinement of Transport.** `Num(Wg!Pipeline)` maps to what came in and is not yet read, `outbound` to what
Write accepted, `writing` to the calls under way. With `NothingLost` the first is the numbers from `taken` + 1 to
`given`, so Put maps to Arrive, Take to Read and the steps of readLoop to stutters. A refused Write needs `closed`, and
`ClosingOrder` makes `CloseClosed` map to Close once. Over UDP a datagram that is too short, and the
closing of the socket, take packets out of the middle and off the end of the pipeline: Lose (`NumCut`); a
datagram the kernel has no room for is Miss. UDP's Write returns at once and keeps no state, so that the
promise is about its input only.

**Services.** `PortsHaveRules` needs that a rule's place in the map holds that rule (`RulesLead`),
and the whole that the sockets of proxies and forwards are apart (`Apart`). `StopIsFull` rests on
`Tracked`: how far Start is tells which listeners there are and which of them the manager
knows of. `WordsHeard` counts the chunks of a direction: no more are unread, in hand, on the
way and received than were sent (`Flow`), and just as many while the other side stays and says
nothing, until the relay closes it at the end of that stream (`HeardBy`).

**Not proved.** Liveness (`WriterFinishes`, `SomeoneAllocates`, `EveryPacketEnds`,
`RoutesFollowRib`, `CallsReturn`, `LoopsEnd`, `GoroutinesEnd`) stays with TLC, since it needs
ENABLED and fairness. For `WriterFinishes` the part that fairness does not give is proved:
`SortEnds` says that each step of the holder of mu decreases the rows left to sort or, within
a row, the pairs left, and that no other step touches them. That the network of a run meets `WayAssumption` is evaluated by TLC, and
`DeliveredExactly` on that network is checked without `DistIsWay`.

## 5. Not modelled

* Config, AppContext, the HTTP page and the programs in `cmd/`: decoding, wiring and
  printing, with no state of their own.
* gobgp, wireguard-go, gVisor and the kernel's TCP and UDP are libraries: only what the code
  relies on.
* IPv4 checksums, lengths and header layout, except for labels.
* Accesses to the maps that have no mutex (`NexthopResolver.transportIPs`,
  `UDPTransport.peers`) while another goroutine writes them: Go ends the process. The models
  take both as set before packets flow. `Router.SetProcessor` has no caller.
* The loop of `Manager.GetNICOutChannel` and `DialTCP`, which pass packets and connections of gVisor on.
* Tables that change while a packet is between two nodes: `Forwarding` has fixed tables, `FIB` shows
  what a router may read from a changing one, and `Links` what happens to the transport it names.
* A withdrawal in one family removes the route that another family installed for
  the same prefix. `SoleSourceConverges` and `RoutesFollowRib` are therefore stated for
  prefixes with one NLRI; `NoGhostRoutes` covers the others.
* A recursive next hop is resolved once, when the event is handled. `NoGhostRoutes`
  does not constrain that transport.
* A loop of routers that swap labels: the TTL is written anew at each swap, so the packet goes
  round for ever. `EveryPacketEnds` is checked on tables without such a loop.

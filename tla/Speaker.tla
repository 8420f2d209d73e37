------------------------------ MODULE Speaker ------------------------------
(***************************************************************************)
(* bgp.Speaker (src/internal/bgp/speaker.go): it starts a gobgp server,    *)
(* adds the peers and the local routes, and only then watches the server's *)
(* best paths; a callback applies each best-path event to the FIB and the  *)
(* LFIB.  The gobgp server is a library: here it is the local paths it was *)
(* given (exported), a table of best paths (rib) and the unbounded FIFO    *)
(* channel of its watcher (queue).                                         *)
(*                                                                         *)
(* The FIB is the map that RouteTable specifies and FIB implements.        *)
(***************************************************************************)
EXTENDS Integers, Sequences, FiniteSets, SequencesExt

CONSTANTS Prefix, Addr, Bits, Covers,  \* as in RouteTable
          Label,         \* MPLS labels
          RouterID,      \* cfg.RouterID
          Learned,       \* paths the peers can announce
          LocalPaths,    \* cfg.ExportRoutes and cfg.LSLinks, in order
          Static,        \* routes put into the FIB before the speaker starts
          FilterDefined, \* len(cfg.ImportFilter) > 0
          Allowed,       \* the paths the import filter accepts
          NPeers,        \* len(cfg.Peers)
          Direct,        \* [Addr -> names of transports]: those of NexthopResolver
                         \* whose longest prefix covers the address, fixed before
                         \* the speaker starts; a tie goes by map order
          MaxQueue,      \* bound on the events waiting in the watcher
          None           \* no route, no path

\* A path is [key, nextHop, labels, pref]; its key is the NLRI: [fam, prefix, color],
\* and pref its LOCAL_PREF.
Path == Learned \cup Range(LocalPaths)
Key == {p.key : p \in Path}

\* Before all else gobgp compares the LOCAL_PREF.  Paths without one, as the local
\* ones, count as DefaultPref; peers of the own AS may send another.
DefaultPref == 100
Outranks(path) == path.pref > DefaultPref

\* Peers override the next hop with their own router ID (setupGlobalNexthop),
\* so no learned path has this router as its next hop.
ASSUME LearnedAssumption == \A p \in Learned : p.nextHop # RouterID
ASSUME NPeersAssumption == NPeers \in Nat \ {0}
ASSUME MaxQueueAssumption == MaxQueue \in Nat \ {0}
ASSUME LocalAssumption ==
    /\ LocalPaths \in Seq(Range(LocalPaths)) /\ IsFiniteSet(Learned)
    /\ \A m, n \in DOMAIN LocalPaths : LocalPaths[m].key = LocalPaths[n].key => m = n
    /\ \A n \in DOMAIN LocalPaths : ~Outranks(LocalPaths[n])
ASSUME PathAssumption ==
    \A p \in Path : /\ p.key.fam \in {"unicast", "labelled", "srpolicy", "ls"}
                    /\ p.key.fam # "ls" => p.key.prefix \in Prefix /\ p.nextHop \in Addr
                    /\ p.key.fam = "labelled" => Head(p.labels) \in Label

\* Routes: those of the configuration and those that paths install.
Transport == (UNION {Direct[a] : a \in Addr}) \cup {e.transport : e \in Static} \cup {""}
Route == [prefix : Prefix, nextHop : Addr, transport : Transport, action : {"forward", "push"},
          outLabels : {p.labels : p \in Path} \cup {e.outLabels : e \in Static} \cup {<<>>}]

ASSUME StaticAssumption == Static \subseteq Route
ASSUME NoneAssumption == None \notin Path \cup Route \cup {"pop"}

VARIABLES stage,   \* how far Start has come
          npeers,  \* the peers added so far
          nlocal,  \* the local paths tried so far
          filter,  \* the import policy is in force in gobgp
          exported,\* the local paths that gobgp has
          rib,     \* gobgp's best path for each key, or None
          queue,   \* best-path events not yet handled
          fib,     \* the FIB: the route of each prefix, or None
          lfib,    \* the LFIB: "pop" for each label this router terminates
          seen     \* ghost: the keys that an event was ever queued for

vars == <<stage, npeers, nlocal, filter, exported, rib, queue, fib, lfib, seen>>
server == <<npeers, nlocal, filter, exported, rib>>
tables == <<fib, lfib>>

RT == INSTANCE RouteTable WITH table <- fib, asked <- <<>>, answer <- <<>>, Reader <- {},
                               Route <- {}, Nil <- None

StaticRoute(p) == IF \E e \in Static : e.prefix = p
                  THEN CHOOSE e \in Static : e.prefix = p ELSE None

Init == /\ stage = "new" /\ npeers = 0 /\ nlocal = 0 /\ filter = FALSE
        /\ exported = {} /\ rib = [k \in Key |-> None]
        /\ queue = <<>>
        /\ fib = [p \in Prefix |-> StaticRoute(p)]
        /\ lfib = [l \in Label |-> None]
        /\ seen = {}

Watching == stage \in {"running", "stopped"}

-----------------------------------------------------------------------------
(* Start, in the order of the code.  Every step that returns an error      *)
(* leaves the server and the peers added so far as they are.               *)

Step(from, to) == stage = from /\ stage' = to

StartBgp == /\ Step("new", "bgp")
            /\ UNCHANGED <<server, queue, tables, seen>>

\* Mutant: the policy is set when the peers are already up.
SetupFilterLate == /\ \/ Step("bgp", "peers") /\ UNCHANGED filter
                      \/ Step("export", "export") /\ filter' = FilterDefined
                   /\ UNCHANGED <<npeers, nlocal, exported, rib, queue, tables, seen>>

\* An error of setupFilter is logged, and Start goes on without the filter.
SetupFilter == /\ Step("bgp", "peers")
               /\ filter' \in IF FilterDefined THEN BOOLEAN ELSE {FALSE}
               /\ UNCHANGED <<npeers, nlocal, exported, rib, queue, tables, seen>>

\* Mutant: the loop over the peers goes one too far.
AddPeerAgain == /\ Step("peers", "peers")
                /\ npeers <= NPeers /\ npeers' = npeers + 1
                /\ UNCHANGED <<nlocal, filter, exported, rib, queue, tables, seen>>

AddPeer == /\ Step("peers", "peers")
           /\ npeers < NPeers /\ npeers' = npeers + 1
           /\ UNCHANGED <<nlocal, filter, exported, rib, queue, tables, seen>>

StartInbound == /\ Step("peers", "export") /\ npeers = NPeers
                /\ UNCHANGED <<server, queue, tables, seen>>

\* The server's AddPath puts a local path into the tables.  A learned path of the
\* same LOCAL_PREF gives way to it; one that outranks it stays the best.  The import
\* policy applies to it, or it fails; Start logs an error and goes on.
AddPath(path) ==
    /\ Step("export", "export") /\ nlocal' = nlocal + 1
    /\ \/ UNCHANGED <<exported, rib>>
       \/ /\ filter => path \in Allowed
          /\ exported' = exported \cup {path}
          /\ rib' = IF rib[path.key] # None /\ Outranks(rib[path.key]) THEN rib
                    ELSE [rib EXCEPT ![path.key] = path]
    /\ UNCHANGED <<npeers, filter, queue, tables, seen>>

ToAdd(fam) == {LocalPaths[n] : n \in {m \in DOMAIN LocalPaths :
                                       m = nlocal + 1 /\ LocalPaths[m].key.fam \in fam}}

AddLocalRoute == \E path \in ToAdd({"unicast", "labelled"}) : AddPath(path)

\* The node and the link NLRI of one link count as one path.
AddLSRoutes == \E path \in ToAdd({"ls"}) : AddPath(path)

Event(path, withdrawal) == [path |-> path, withdrawal |-> withdrawal]

\* Mutant: WatchBestPath(false), which reports later changes only.
WatchEventNoReplay ==
    /\ Step("export", "running") /\ nlocal = Len(LocalPaths)
    /\ queue' = <<>>
    /\ seen' = {k \in Key : rib[k] # None}
    /\ UNCHANGED <<server, tables>>

\* WatchEvent with WatchBestPath(true): the watcher starts with one event for
\* each best path of the moment, in the order of gobgp's own tables.
WatchEvent ==
    /\ Step("export", "running") /\ nlocal = Len(LocalPaths)
    /\ LET best == {k \in Key : rib[k] # None}
       IN  /\ \E order \in SetToSeqs(best) :
                 queue' = [n \in DOMAIN order |-> Event(rib[order[n]], FALSE)]
           /\ seen' = best
    /\ UNCHANGED <<server, tables>>

\* Mutant: a step that can fail comes after WatchEvent.
StartFailsWatching == /\ Step("running", "failed")
                      /\ UNCHANGED <<server, queue, tables, seen>>

\* StartBgp, AddPeer (CreateProxy, the server), StartInbound or WatchEvent fail.
StartFails == /\ \/ stage = "new"
                 \/ stage = "peers"
                 \/ stage = "export" /\ nlocal = Len(LocalPaths)
              /\ stage' = "failed"
              /\ UNCHANGED <<server, queue, tables, seen>>

\* Stop closes the proxies and stops the server; it leaves the FIB alone.
Stop == /\ Step("running", "stopped")
        /\ UNCHANGED <<server, queue, tables, seen>>

-----------------------------------------------------------------------------
(* The gobgp server: best paths change as the peers' updates come in.      *)

Notify(path, withdrawal) ==
    IF Watching THEN /\ queue' = Append(queue, Event(path, withdrawal))
                     /\ seen' = seen \cup {path.key}
                ELSE UNCHANGED <<queue, seen>>

\* The local path of a key, which gobgp keeps beside the best one.
Own(k) == {path \in exported : path.key = k}

\* A learned path becomes the best one of its key.  A local path gives way only to a
\* path that outranks it.
Receive(path) ==
    /\ npeers > 0 /\ stage # "stopped" /\ Len(queue) < MaxQueue
    /\ rib[path.key] # path
    /\ Own(path.key) # {} => Outranks(path)
    /\ filter => path \in Allowed
    /\ rib' = [rib EXCEPT ![path.key] = path]
    /\ Notify(path, FALSE)
    /\ UNCHANGED <<stage, npeers, nlocal, filter, exported, tables>>

\* The last learned path that keeps a local one from being the best goes away, or
\* the last path of its key: withdrawn, or its session is down.  The event carries
\* the local path, or else the path that went.
Lose(k) == /\ Len(queue) < MaxQueue
           /\ rib[k] # None /\ rib[k] \notin exported
           /\ IF Own(k) # {}
              THEN \E path \in Own(k) : /\ rib' = [rib EXCEPT ![k] = path]
                                         /\ Notify(path, FALSE)
              ELSE /\ rib' = [rib EXCEPT ![k] = None]
                   /\ Notify(rib[k], TRUE)
           /\ UNCHANGED <<stage, npeers, nlocal, filter, exported, tables>>

-----------------------------------------------------------------------------
(* handleBestPath, for the path at the head of the queue.                  *)

Entry(path, transport, action) ==
    [prefix |-> path.key.prefix, nextHop |-> path.nextHop,
     transport |-> transport, action |-> action,
     outLabels |-> IF action = "push" THEN path.labels ELSE <<>>]

\* NexthopResolver.Resolve at this moment: a direct transport, or else the
\* transport of the route to the next hop, which may itself be "".
Resolve(a) ==
    IF Direct[a] # {} THEN Direct[a]
    ELSE LET best == RT!Longest(RT!Matching(a))
         IN  IF best = {} THEN {""} ELSE {fib[p].transport : p \in best}

HandleUnicastPath(e) ==
    /\ e.path.key.fam = "unicast"
    /\ IF e.withdrawal
       THEN RT!Withdraw(e.path.key.prefix)
       ELSE \E t \in Resolve(e.path.nextHop) : RT!Put(Entry(e.path, t, "forward"))
    /\ UNCHANGED lfib

\* Mutant: every label is taken for an own one, without the test of the next hop.
HandleLabeledPathAsOwn(e) ==
    /\ e.path.key.fam = "labelled"
    /\ IF e.withdrawal
       THEN RT!Withdraw(e.path.key.prefix) /\ UNCHANGED lfib
       ELSE lfib' = [lfib EXCEPT ![Head(e.path.labels)] = "pop"] /\ UNCHANGED fib

\* A withdrawal never touches the LFIB, and an own label never touches the FIB.
HandleLabeledPath(e) ==
    /\ e.path.key.fam = "labelled"
    /\ IF e.withdrawal
       THEN RT!Withdraw(e.path.key.prefix) /\ UNCHANGED lfib
       ELSE IF e.path.nextHop = RouterID
       THEN lfib' = [lfib EXCEPT ![Head(e.path.labels)] = "pop"] /\ UNCHANGED fib
       ELSE /\ \E t \in Resolve(e.path.nextHop) : RT!Put(Entry(e.path, t, "push"))
            /\ UNCHANGED lfib

\* Mutant: a withdrawn policy is installed like a new one.
HandleSRPolicyAgain(e) ==
    /\ e.path.key.fam = "srpolicy"
    /\ RT!Put(Entry(e.path, "", "push"))
    /\ UNCHANGED lfib

\* The endpoint is the prefix and the next hop; the colour is ignored.
HandleSRPolicy(e) ==
    /\ e.path.key.fam = "srpolicy"
    /\ IF e.withdrawal THEN RT!Withdraw(e.path.key.prefix)
                       ELSE RT!Put(Entry(e.path, "", "push"))
    /\ UNCHANGED lfib

\* The switch over the families has no case for the others (link state).
HandleOther(e) == e.path.key.fam = "ls" /\ UNCHANGED tables

HandleBestPath == /\ queue # <<>>
                  /\ \/ HandleUnicastPath(Head(queue))
                     \/ HandleLabeledPath(Head(queue))
                     \/ HandleSRPolicy(Head(queue))
                     \/ HandleOther(Head(queue))
                  /\ queue' = Tail(queue)
                  /\ UNCHANGED <<stage, server, seen>>

Start == \/ StartBgp \/ SetupFilter \/ AddPeer \/ StartInbound
         \/ AddLocalRoute \/ AddLSRoutes \/ WatchEvent \/ StartFails

Next == \/ Start \/ Stop
        \/ \E p \in Learned : Receive(p)
        \/ \E k \in Key : Lose(k)
        \/ HandleBestPath

Spec == Init /\ [][Next]_vars

\* The watcher's goroutine calls handleBestPath for every event it has.
FairSpec == Spec /\ WF_vars(HandleBestPath)
-----------------------------------------------------------------------------
(* Properties.                                                             *)

OwnLabel(path) == path.key.fam = "labelled" /\ path.nextHop = RouterID
Installs(path) == path.key.fam # "ls" /\ ~OwnLabel(path)

\* Route e is the one the path installs.  Its transport is one of the next hop's
\* when that is on a link; otherwise it depends on the FIB of that moment.
Reflects(path, e) ==
    LET action == IF path.key.fam = "unicast" THEN "forward" ELSE "push"
    IN  /\ e = Entry(path, e.transport, action)
        /\ path.key.fam # "srpolicy" /\ Direct[path.nextHop] # {}
               => e.transport \in Direct[path.nextHop]

\* Route e is one that a learned path of key k installed while it was the best path
\* instead of a local one.
LeftBehind(k, e) == \E path \in Learned : /\ path.key = k /\ Outranks(path)
                                          /\ Reflects(path, e)

Pending(p) == \E n \in DOMAIN queue : queue[n].path.key.prefix = p
SeenFor(p) == {k \in seen : k.prefix = p /\ k.fam # "ls"}

\* The shape of the state, where a best path and a route stand under their own key.
TypeOK == /\ stage \in {"new", "bgp", "peers", "export", "running", "failed", "stopped"}
          /\ npeers \in 0..NPeers /\ nlocal \in 0..Len(LocalPaths)
          /\ filter \in BOOLEAN
          /\ exported \subseteq Range(LocalPaths)
          /\ rib \in [Key -> Path \cup {None}]
          /\ \A k \in Key : rib[k] # None => rib[k].key = k
          /\ queue \in Seq([path : Path, withdrawal : BOOLEAN])
          /\ fib \in [Prefix -> Route \cup {None}]
          /\ \A p \in Prefix : fib[p] # None => fib[p].prefix = p
          /\ lfib \in [Label -> {"pop", None}]
          /\ seen \subseteq Key

\* Once the events of a prefix are handled, its FIB entry is what the current
\* best path of some family installs, or the static route: withdrawals and
\* replacements leave no route behind.  There is one exception: the event of an own
\* label touches the LFIB only, so when a path that outranked the label goes away
\* its route stays.
NoGhostRoutes ==
    \A p \in Prefix :
        fib[p] # None /\ ~Pending(p) =>
            \/ fib[p] = StaticRoute(p)
            \/ \E k \in Key : /\ rib[k] # None /\ Installs(rib[k])
                              /\ Reflects(rib[k], fib[p])
            \/ \E k \in Key : /\ k.prefix = p /\ rib[k] # None /\ OwnLabel(rib[k])
                              /\ LeftBehind(k, fib[p])

\* A prefix that only one NLRI ever reported follows the best path of that NLRI
\* exactly, and one that none reported keeps its static route: the replay of
\* WatchBestPath(true) and the events after it miss nothing.  (With an own label the
\* static route stays, or the route of a path that outranked the label.)
SoleSourceConverges ==
    Watching =>
        \A p \in Prefix : ~Pending(p) =>
            /\ SeenFor(p) = {} => fib[p] = StaticRoute(p)
            /\ \A k \in SeenFor(p) : SeenFor(p) = {k} =>
                  \/ rib[k] = None /\ fib[p] = None
                  \/ /\ rib[k] # None /\ Installs(rib[k])
                     /\ fib[p] # None /\ Reflects(rib[k], fib[p])
                  \/ /\ rib[k] # None /\ OwnLabel(rib[k])
                     /\ \/ fib[p] = StaticRoute(p)
                        \/ fib[p] # None /\ LeftBehind(k, fib[p])

\* The LFIB pops only labels this router exports a route with, and, once their events
\* are handled, all of those whose route is the best one: no learned label becomes
\* a local one, and the labels exported before WatchEvent are not missed.  A label
\* whose route is outranked later stays popped.
LabelsMatchExports ==
    Watching =>
        \A l \in Label :
            /\ lfib[l] = "pop" => \E path \in exported : /\ OwnLabel(path)
                                                        /\ Head(path.labels) = l
            /\ \A k \in Key :
                  /\ rib[k] # None /\ OwnLabel(rib[k]) /\ Head(rib[k].labels) = l
                  /\ \A n \in DOMAIN queue : queue[n].path # rib[k]
                  => lfib[l] = "pop"

\* A Start that fails, after any number of peers are up and announcing, has put
\* nothing into the FIB or the LFIB.
FailedStartInstallsNothing ==
    ~Watching => /\ \A p \in Prefix : fib[p] = StaticRoute(p)
                 /\ \A l \in Label : lfib[l] = None

\* Only routes the import filter accepts reach the FIB.
OnlyAllowedRoutes ==
    \A p \in Prefix : fib[p] # None =>
        fib[p] = StaticRoute(p) \/ \E path \in Allowed : Reflects(path, fib[p])

\* With the import policy in force since before the first peer, no path that it
\* rejects reaches the FIB, from a peer or from the replay.
FilterRestricts == filter => OnlyAllowedRoutes

\* What the README promises: "import_filter restricts inbound BGP routes to the
\* specified prefixes (if defined)".
ImportFilterHolds == FilterDefined => OnlyAllowedRoutes

\* The best path of a prefix's only NLRI is installed in the end, unless it goes
\* first, and a prefix that has lost all its paths loses its route.  (With two
\* families for a prefix, losing one removes the route of the other for good.)
RoutesFollowRib ==
    /\ \A k \in {n \in Key : n.fam # "ls"} :
          SeenFor(k.prefix) = {k} /\ rib[k] # None /\ Installs(rib[k])
              ~> rib[k] = None \/ fib[k.prefix] # None \/ SeenFor(k.prefix) # {k}
    /\ \A p \in Prefix :
          SeenFor(p) # {} /\ (\A k \in SeenFor(p) : rib[k] = None)
              ~> fib[p] = None \/ \E k \in SeenFor(p) : rib[k] # None
=============================================================================

---------------------------- MODULE SpeakerProofs ----------------------------
(***************************************************************************)
(* The safety of Speaker for every set of paths, peers and prefixes, every *)
(* import filter and every length of the watcher's queue.                  *)
(***************************************************************************)
EXTENDS Speaker, FiniteSetTheorems, TLAPS

\* The watcher is there only once Start has got to it.
Early == ~Watching => /\ queue = <<>>
                      /\ \A p \in Prefix : fib[p] = StaticRoute(p)
                      /\ \A l \in Label : lfib[l] = None

FreshServer == stage \in {"new", "bgp"} => /\ npeers = 0 /\ exported = {}
                                           /\ \A k \in Key : rib[k] = None

\* What the filter let through so far.
OnlyAllowedPaths == filter => /\ \A k \in Key : rib[k] # None => rib[k] \in Allowed
                              /\ \A n \in DOMAIN queue : queue[n].path \in Allowed
                              /\ exported \subseteq Allowed

\* An event with no later event of its key behind it tells the server's best path.
IsLast(n) == \A m \in DOMAIN queue : m > n => queue[m].path.key # queue[n].path.key
LastTells == \A n \in DOMAIN queue : IsLast(n) =>
                rib[queue[n].path.key] = IF queue[n].withdrawal THEN None ELSE queue[n].path

\* A path fits the exported ones: an own label's is one of them, and the key of a
\* local path is never withdrawn and has that path or one that outranks it.
Fits(path, w) == /\ OwnLabel(path) => path \in exported /\ ~w
                 /\ \A l \in Own(path.key) : ~w /\ (path = l \/ Outranks(path))
Exports == \A k \in Key : IF rib[k] = None THEN Own(k) = {} ELSE Fits(rib[k], FALSE)
EventsFit == \A n \in DOMAIN queue : Fits(queue[n].path, queue[n].withdrawal)

EventsSeen == \A n \in DOMAIN queue : queue[n].path.key \in seen

OwnRoute(r) == r # None /\ OwnLabel(r)
OwnKey(k) == \E l \in Own(k) : OwnLabel(l)
PendingIn(q, k) == \E n \in DOMAIN q : q[n].path.key = k

\* Every route has an NLRI that accounts for it: its best path installs the route,
\* or an event that says otherwise is still to come, or the route is one that an own
\* label's event leaves alone.
Accounts(k, p) == /\ k.prefix = p /\ k.fam # "ls"
                  /\ \/ PendingIn(queue, k) /\ ~OwnKey(k)
                     \/ rib[k] # None /\ Installs(rib[k]) /\ Reflects(rib[k], fib[p])
                     \/ LeftBehind(k, fib[p]) /\ (PendingIn(queue, k) \/ OwnRoute(rib[k]))
Accounted == \A p \in Prefix : fib[p] # None =>
                fib[p] = StaticRoute(p) \/ \E k \in Key : Accounts(k, p)

\* The LFIB has labels of exported paths only, and those of the best ones but for
\* the paths of pending events.
PopsAreOwn == Watching =>
    \A l \in Label : lfib[l] = "pop" => \E path \in exported : /\ OwnLabel(path)
                                                              /\ Head(path.labels) = l
OwnArePopped == Watching =>
    \A k \in Key : OwnRoute(rib[k]) => \/ \E n \in DOMAIN queue : queue[n].path = rib[k]
                                       \/ lfib[Head(rib[k].labels)] = "pop"

\* A prefix without an event keeps its static route, and one with those of an own
\* label only has this route or one of a path that outranked the label; a prefix
\* with one NLRI follows it.
Untouched == \A p \in Prefix : SeenFor(p) = {} => fib[p] = StaticRoute(p)
OwnUntouched == \A p \in Prefix, k \in Key :
    SeenFor(p) = {k} /\ OwnKey(k)
        => fib[p] = StaticRoute(p) \/ (fib[p] # None /\ LeftBehind(k, fib[p]))
Follows(k, p) == \/ rib[k] = None /\ fib[p] = None
                 \/ /\ rib[k] # None /\ Installs(rib[k])
                    /\ fib[p] # None /\ Reflects(rib[k], fib[p])
                 \/ OwnRoute(rib[k])
FollowsSole == Watching =>
    \A p \in Prefix, k \in Key : SeenFor(p) = {k} => PendingIn(queue, k) \/ Follows(k, p)

Tables == Accounted /\ PopsAreOwn /\ OwnArePopped /\ Untouched /\ OwnUntouched /\ FollowsSole
Filters == FreshServer /\ OnlyAllowedPaths /\ FilterRestricts
Queue == LastTells /\ Exports /\ EventsFit /\ EventsSeen
IInv == TypeOK /\ Early /\ Filters /\ Queue /\ Tables

-----------------------------------------------------------------------------
(* The paths and the routes.                                               *)

\* None is not a path, a route or an LFIB action.
LEMMA NoneOutside == /\ \A path \in Path : path # None
                     /\ \A e \in Route : e # None
                     /\ None # "pop"
BY NoneAssumption

\* There are finitely many keys: those of the learned and of the local paths.
LEMMA KeyFinite == IsFiniteSet(Key)
<1>1. /\ LocalPaths \in [1..Len(LocalPaths) -> Range(LocalPaths)]
      /\ Len(LocalPaths) \in Nat
  BY LocalAssumption
<1>2. LocalPaths \in Surjection(1..Len(LocalPaths), Range(LocalPaths))
  BY <1>1 DEF Surjection, Range
<1>3. IsFiniteSet(Range(LocalPaths))
  BY <1>1, <1>2, FS_Interval, FS_Surjection
<1>4. IsFiniteSet(Path)
  BY <1>3, LocalAssumption, FS_Union DEF Path
<1>5. [p \in Path |-> p.key] \in Surjection(Path, Key)
  BY DEF Surjection, Key
<1>6. QED
  BY <1>4, <1>5, FS_Surjection

\* An own label is on a local path, never on a learned one.
LEMMA LearnedNotOwn == \A path \in Learned : ~OwnLabel(path)
BY LearnedAssumption DEF OwnLabel

\* A local path is the only one of its key.
LEMMA LocalUnique ==
  ASSUME NEW l \in Range(LocalPaths), NEW m \in Range(LocalPaths), l.key = m.key
  PROVE  l = m
BY LocalAssumption DEF Range

\* An exported path is a local one, which outranks nothing.
LEMMA ExportedType ==
  ASSUME TypeOK, NEW l \in exported
  PROVE  l \in Path /\ l.key \in Key /\ ~Outranks(l)
<1>1. l \in Range(LocalPaths)
  BY DEF TypeOK
<1>2. QED
  BY <1>1, LocalAssumption DEF Range, Path, Key

\* For an own label's key only a path that outranks the label installs a route.
LEMMA OwnKeyLeaves ==
  ASSUME NEW path \in Path, NEW w, Fits(path, w), OwnKey(path.key),
         Installs(path), NEW e, Reflects(path, e)
  PROVE  LeftBehind(path.key, e)
<1>1. PICK l \in Own(path.key) : OwnLabel(l)
  BY DEF OwnKey
<1>2. Outranks(path)
  BY <1>1 DEF Fits, Installs
<1>3. path \in Learned
  BY <1>2, LocalAssumption DEF Path, Range
<1>4. QED
  BY <1>2, <1>3 DEF LeftBehind

\* SetToSeqs lists every member of a finite set.
LEMMA OrderIsOnto ==
  ASSUME NEW S, IsFiniteSet(S), NEW order \in SetToSeqs(S)
  PROVE  /\ order \in [1..Cardinality(S) -> S] /\ Cardinality(S) \in Nat
         /\ \A x \in S : \E n \in DOMAIN order : order[n] = x
<1>1. Cardinality(S) \in Nat
  BY FS_CardinalityType
<1>2. IsFiniteSet(1..Cardinality(S)) /\ Cardinality(1..Cardinality(S)) = Cardinality(S)
  BY <1>1, FS_Interval
<1>3. /\ order \in [1..Cardinality(S) -> S]
      /\ \A i, j \in 1..Cardinality(S) : i # j => order[i] # order[j]
  BY DEF SetToSeqs
<1>4. order \in Injection(1..Cardinality(S), S)
  BY <1>3 DEF Injection, IsInjective
<1>5. order \in Surjection(1..Cardinality(S), S)
  BY <1>2, <1>4, FS_Injection
<1>6. QED
  BY <1>1, <1>3, <1>5 DEF Surjection
-----------------------------------------------------------------------------
(* What the steps do, in the terms of the invariant.                       *)

\* The head of a queue and what is behind it.
LEMMA HeadAndTail ==
  ASSUME NEW S, NEW q \in Seq(S), q # <<>>
  PROVE  /\ Head(q) \in S /\ Head(q) = q[1] /\ 1 \in DOMAIN q
         /\ Tail(q) \in Seq(S)
         /\ \A n \in DOMAIN Tail(q) : n + 1 \in DOMAIN q /\ Tail(q)[n] = q[n + 1]
         /\ \A n \in DOMAIN q : n # 1 => n - 1 \in DOMAIN Tail(q) /\ Tail(q)[n - 1] = q[n]
OBVIOUS

\* Functions on 1..n are sequences, and sequences hold what their type says.
LEMMA SeqIntro ==
  ASSUME NEW S, NEW n \in Nat, NEW f \in [1..n -> S]
  PROVE  f \in Seq(S)
OBVIOUS

LEMMA SeqElement ==
  ASSUME NEW S, NEW q \in Seq(S), NEW n \in DOMAIN q
  PROVE  q[n] \in S
OBVIOUS

\* A queue and one more event.
LEMMA AppendSeq ==
  ASSUME NEW S, NEW q \in Seq(S), NEW e \in S
  PROVE  LET last == Len(q) + 1 IN
         /\ Append(q, e) \in Seq(S) /\ last \in Nat
         /\ Append(q, e)[last] = e /\ last \in DOMAIN Append(q, e)
         /\ \A n \in DOMAIN q : n < last /\ n \in DOMAIN Append(q, e) /\ Append(q, e)[n] = q[n]
         /\ \A n \in DOMAIN Append(q, e) : n \in DOMAIN q \/ n = last
OBVIOUS

\* The events of the queue are about paths and their keys.
LEMMA QueueType ==
  ASSUME TypeOK, NEW n \in DOMAIN queue
  PROVE  /\ queue[n] \in [path : Path, withdrawal : BOOLEAN]
         /\ queue[n].path \in Path /\ queue[n].path.key \in Key
<1>1. queue \in Seq([path : Path, withdrawal : BOOLEAN])
  BY DEF TypeOK
<1>2. queue[n] \in [path : Path, withdrawal : BOOLEAN]
  BY <1>1, SeqElement
<1>3. QED
  BY <1>2 DEF Key

\* Resolve names a transport, and one of the link's for a next hop on a link.
LEMMA ResolveType ==
  ASSUME TypeOK, NEW a \in Addr, NEW t \in Resolve(a)
  PROVE  t \in Transport /\ (Direct[a] # {} => t \in Direct[a])
<1>1. CASE Direct[a] # {}
  BY <1>1 DEF Resolve, Transport
<1>2. CASE Direct[a] = {}
  <2>1. t = "" \/ \E p \in Prefix : fib[p] # None /\ t = fib[p].transport
    BY <1>2 DEF Resolve, RT!Longest, RT!Matching, RT!Present
  <2>2. \A p \in Prefix : fib[p] # None => fib[p].transport \in Transport
    BY DEF TypeOK, Route
  <2>3. "" \in Transport
    BY DEF Transport
  <2>4. QED
    BY <1>2, <2>1, <2>2, <2>3
<1>3. QED
  BY <1>1, <1>2

\* The entry a path installs is a route of its prefix that reflects it.
LEMMA EntryType ==
  ASSUME NEW path \in Path, Installs(path), NEW t \in Transport,
         path.key.fam # "srpolicy" /\ Direct[path.nextHop] # {}
             => t \in Direct[path.nextHop],
         NEW action, action = IF path.key.fam = "unicast" THEN "forward" ELSE "push"
  PROVE  /\ Entry(path, t, action) \in Route
         /\ Entry(path, t, action).prefix = path.key.prefix
         /\ Reflects(path, Entry(path, t, action))
<1>1. path.key.prefix \in Prefix /\ path.nextHop \in Addr
  BY PathAssumption DEF Installs
<1>2. QED
  BY <1>1 DEF Entry, Route, Reflects

\* What handling the event at the head does to the tables.
Withdraws(e) == /\ e.withdrawal /\ e.path.key.fam # "ls"
                /\ fib' = [fib EXCEPT ![e.path.key.prefix] = None] /\ lfib' = lfib
Puts(e) == /\ ~e.withdrawal /\ Installs(e.path)
           /\ \E r \in Route : /\ r.prefix = e.path.key.prefix /\ Reflects(e.path, r)
                               /\ fib' = [fib EXCEPT ![r.prefix] = r]
           /\ lfib' = lfib
Pops(e) == /\ ~e.withdrawal /\ OwnLabel(e.path)
           /\ lfib' = [lfib EXCEPT ![Head(e.path.labels)] = "pop"] /\ fib' = fib
Skips(e) == e.path.key.fam = "ls" /\ fib' = fib /\ lfib' = lfib

LEMMA HandleEffect ==
  ASSUME TypeOK, HandleBestPath
  PROVE  /\ queue # <<>> /\ queue' = Tail(queue)
         /\ UNCHANGED <<stage, npeers, nlocal, filter, exported, rib, seen>>
         /\ Head(queue) \in [path : Path, withdrawal : BOOLEAN]
         /\ \/ Withdraws(Head(queue)) \/ Puts(Head(queue))
            \/ Pops(Head(queue)) \/ Skips(Head(queue))
<1>1. /\ queue # <<>> /\ queue' = Tail(queue)
      /\ UNCHANGED <<stage, npeers, nlocal, filter, exported, rib, seen>>
  BY DEF HandleBestPath, server
<1> DEFINE e == Head(queue)
<1>2. e \in [path : Path, withdrawal : BOOLEAN]
  BY <1>1, HeadAndTail DEF TypeOK
<1> HIDE DEF e
<1>3. e.path \in Path /\ e.withdrawal \in BOOLEAN
  BY <1>2
<1>4. e.path.key.fam # "ls" => e.path.key.prefix \in Prefix /\ e.path.nextHop \in Addr
  BY <1>3, PathAssumption
<1>5. ASSUME e.path.key.fam = "unicast", HandleUnicastPath(e)
      PROVE  Withdraws(e) \/ Puts(e)
  <2>1. CASE e.withdrawal
    BY <1>5, <2>1 DEF HandleUnicastPath, Withdraws, RT!Withdraw
  <2>2. CASE ~e.withdrawal
    <3>1. PICK t \in Resolve(e.path.nextHop) : RT!Put(Entry(e.path, t, "forward"))
      BY <1>5, <2>2 DEF HandleUnicastPath
    <3>2. Installs(e.path)
      BY <1>5 DEF Installs, OwnLabel
    <3>3. t \in Transport /\ (Direct[e.path.nextHop] # {} => t \in Direct[e.path.nextHop])
      BY <1>4, <1>5, ResolveType
    <3>4. /\ Entry(e.path, t, "forward") \in Route
          /\ Entry(e.path, t, "forward").prefix = e.path.key.prefix
          /\ Reflects(e.path, Entry(e.path, t, "forward"))
      BY <1>3, <1>5, <3>2, <3>3, EntryType
    <3>5. QED
      BY <1>5, <2>2, <3>1, <3>2, <3>4 DEF HandleUnicastPath, Puts, RT!Put
  <2>3. QED
    BY <2>1, <2>2
<1>6. ASSUME e.path.key.fam = "labelled", HandleLabeledPath(e)
      PROVE  Withdraws(e) \/ Puts(e) \/ Pops(e)
  <2>1. CASE e.withdrawal
    BY <1>6, <2>1 DEF HandleLabeledPath, Withdraws, RT!Withdraw
  <2>2. CASE ~e.withdrawal /\ e.path.nextHop = RouterID
    BY <1>6, <2>2 DEF HandleLabeledPath, Pops, OwnLabel
  <2>3. CASE ~e.withdrawal /\ e.path.nextHop # RouterID
    <3>1. PICK t \in Resolve(e.path.nextHop) : RT!Put(Entry(e.path, t, "push"))
      BY <1>6, <2>3 DEF HandleLabeledPath
    <3>2. Installs(e.path)
      BY <1>6, <2>3 DEF Installs, OwnLabel
    <3>3. t \in Transport /\ (Direct[e.path.nextHop] # {} => t \in Direct[e.path.nextHop])
      BY <1>4, <1>6, ResolveType
    <3>4. /\ Entry(e.path, t, "push") \in Route
          /\ Entry(e.path, t, "push").prefix = e.path.key.prefix
          /\ Reflects(e.path, Entry(e.path, t, "push"))
      BY <1>3, <1>6, <3>2, <3>3, EntryType
    <3>5. QED
      BY <1>6, <2>3, <3>1, <3>2, <3>4 DEF HandleLabeledPath, Puts, RT!Put
  <2>4. QED
    BY <2>1, <2>2, <2>3
<1>7. ASSUME e.path.key.fam = "srpolicy", HandleSRPolicy(e)
      PROVE  Withdraws(e) \/ Puts(e)
  <2>1. CASE e.withdrawal
    BY <1>7, <2>1 DEF HandleSRPolicy, Withdraws, RT!Withdraw
  <2>2. CASE ~e.withdrawal
    <3>1. Installs(e.path) /\ "" \in Transport
      BY <1>7 DEF Installs, OwnLabel, Transport
    <3>2. /\ Entry(e.path, "", "push") \in Route
          /\ Entry(e.path, "", "push").prefix = e.path.key.prefix
          /\ Reflects(e.path, Entry(e.path, "", "push"))
      BY <1>3, <1>7, <3>1, EntryType
    <3>3. QED
      BY <1>7, <2>2, <3>1, <3>2 DEF HandleSRPolicy, Puts, RT!Put
  <2>3. QED
    BY <2>1, <2>2
<1>8. HandleOther(e) => Skips(e)
  BY DEF HandleOther, Skips, tables
<1>9. \/ HandleUnicastPath(e) \/ HandleLabeledPath(e) \/ HandleSRPolicy(e) \/ HandleOther(e)
  BY DEF HandleBestPath, e
<1>10. Withdraws(e) \/ Puts(e) \/ Pops(e) \/ Skips(e)
  BY <1>5, <1>6, <1>7, <1>8, <1>9 DEF HandleUnicastPath, HandleLabeledPath, HandleSRPolicy
<1>11. QED
  BY <1>1, <1>2, <1>10 DEF e
\* Before the watcher is there only the server and its filter can go wrong.
LEMMA EarlyEnough ==
  ASSUME TypeOK', Early', ~Watching', FreshServer', OnlyAllowedPaths', Exports'
  PROVE  IInv'
<1>1. queue' = <<>> /\ \A p \in Prefix : fib'[p] = StaticRoute(p)
  BY DEF Early
<1>2. FilterRestricts'
  BY <1>1 DEF FilterRestricts, OnlyAllowedRoutes
<1>3. Queue'
  BY <1>1 DEF Queue, LastTells, EventsFit, EventsSeen
<1>4. Accounted' /\ Untouched' /\ OwnUntouched'
  BY <1>1 DEF Accounted, Untouched, OwnUntouched
<1>5. PopsAreOwn' /\ OwnArePopped' /\ FollowsSole'
  BY DEF PopsAreOwn, OwnArePopped, FollowsSole
<1>6. QED
  BY <1>2, <1>3, <1>4, <1>5 DEF IInv, Filters, Tables

\* Init: nothing but the static routes.
LEMMA InitIInv == Init => IInv
<1> SUFFICES ASSUME Init PROVE IInv
  OBVIOUS
<1>1. \A p \in Prefix : /\ StaticRoute(p) \in Route \cup {None}
                        /\ StaticRoute(p) # None => StaticRoute(p).prefix = p
  BY StaticAssumption DEF StaticRoute
<1>2. NPeers \in Nat /\ Len(LocalPaths) \in Nat
  BY NPeersAssumption, LocalAssumption
<1>3. TypeOK
  <2>1. fib \in [Prefix -> Route \cup {None}] /\ \A p \in Prefix : fib[p] # None => fib[p].prefix = p
    BY <1>1 DEF Init
  <2>2. /\ rib \in [Key -> Path \cup {None}] /\ \A k \in Key : rib[k] = None
        /\ lfib \in [Label -> {"pop", None}]
        /\ queue \in Seq([path : Path, withdrawal : BOOLEAN])
    BY DEF Init
  <2>3. stage = "new" /\ filter = FALSE /\ seen = {} /\ exported = {} /\ npeers = 0 /\ nlocal = 0
    BY DEF Init
  <2>4. npeers \in 0..NPeers /\ nlocal \in 0..Len(LocalPaths)
    BY <1>2, <2>3
  <2>5. QED
    BY <2>1, <2>2, <2>3, <2>4 DEF TypeOK
<1>4. ~Watching /\ Early /\ FreshServer /\ OnlyAllowedPaths /\ Exports
  BY DEF Init, Watching, Early, FreshServer, OnlyAllowedPaths, Exports, Own
<1>5. FilterRestricts /\ Queue
  BY <1>4 DEF Init, Early, FilterRestricts, OnlyAllowedRoutes, Queue, LastTells,
              EventsFit, EventsSeen
<1>6. Accounted /\ Untouched /\ OwnUntouched
  BY <1>4 DEF Early, Accounted, Untouched, OwnUntouched
<1>7. PopsAreOwn /\ OwnArePopped /\ FollowsSole
  BY <1>4 DEF PopsAreOwn, OwnArePopped, FollowsSole
<1>8. QED
  BY <1>3, <1>4, <1>5, <1>6, <1>7 DEF IInv, Filters, Tables

\* The steps of Start before WatchEvent, and its failure.
LEMMA StartIInv ==
  ASSUME IInv, \/ StartBgp \/ SetupFilter \/ AddPeer \/ StartInbound
               \/ AddLocalRoute \/ AddLSRoutes \/ StartFails
  PROVE  IInv'
<1> USE DEF IInv, Filters
<1>1. NPeers \in Nat /\ Len(LocalPaths) \in Nat
  BY NPeersAssumption, LocalAssumption
<1>2. CASE StartBgp \/ StartFails
  <2>1. /\ ~Watching /\ ~Watching' /\ UNCHANGED <<npeers, nlocal, filter, exported, rib, queue, fib, lfib, seen>>
        /\ stage' \in {"bgp", "failed"} /\ (stage' = "bgp" => stage = "new")
    BY <1>2 DEF StartBgp, StartFails, Step, Watching, server, tables
  <2>2. TypeOK' /\ Early'
    BY <2>1 DEF TypeOK, Early
  <2>3. FreshServer' /\ OnlyAllowedPaths' /\ Exports'
    BY <2>1 DEF FreshServer, OnlyAllowedPaths, Queue, Exports, Fits, Own
  <2>4. QED
    BY <2>1, <2>2, <2>3, EarlyEnough
<1>3. CASE SetupFilter
  <2>1. /\ stage = "bgp" /\ stage' = "peers" /\ filter' \in BOOLEAN
        /\ UNCHANGED <<npeers, nlocal, exported, rib, queue, fib, lfib, seen>>
    BY <1>3 DEF SetupFilter, Step, tables
  <2>2. ~Watching /\ ~Watching'
    BY <2>1 DEF Watching
  <2>3. TypeOK' /\ Early'
    BY <2>1, <2>2 DEF TypeOK, Early
  <2>4. FreshServer' /\ OnlyAllowedPaths' /\ Exports'
    BY <2>1, <2>2 DEF FreshServer, OnlyAllowedPaths, Early, Queue, Exports, Fits, Own
  <2>5. QED
    BY <2>2, <2>3, <2>4, EarlyEnough
<1>4. CASE AddPeer \/ StartInbound
  <2>1. /\ stage = "peers" /\ stage' \in {"peers", "export"} /\ npeers' \in 0..NPeers
        /\ UNCHANGED <<nlocal, filter, exported, rib, queue, fib, lfib, seen>>
    BY <1>1, <1>4 DEF AddPeer, StartInbound, Step, server, tables, TypeOK
  <2>2. ~Watching /\ ~Watching'
    BY <2>1 DEF Watching
  <2>3. TypeOK' /\ Early'
    BY <2>1, <2>2 DEF TypeOK, Early
  <2>4. FreshServer' /\ OnlyAllowedPaths' /\ Exports'
    BY <2>1, <2>2 DEF FreshServer, OnlyAllowedPaths, Queue, Exports, Fits, Own
  <2>5. QED
    BY <2>2, <2>3, <2>4, EarlyEnough
<1>5. CASE AddLocalRoute \/ AddLSRoutes
  <2>1. PICK path \in Range(LocalPaths) : AddPath(path) /\ nlocal + 1 \in DOMAIN LocalPaths
    BY <1>5 DEF AddLocalRoute, AddLSRoutes, ToAdd, Range
  <2>2. /\ stage = "export" /\ stage' = "export" /\ nlocal' = nlocal + 1
        /\ UNCHANGED <<npeers, filter, queue, fib, lfib, seen>>
        /\ \/ rib' = rib /\ exported' = exported
           \/ /\ filter => path \in Allowed
              /\ exported' = exported \cup {path}
              /\ rib' = IF rib[path.key] # None /\ Outranks(rib[path.key]) THEN rib
                        ELSE [rib EXCEPT ![path.key] = path]
    BY <2>1 DEF AddPath, Step, tables
  <2>3. ~Watching /\ ~Watching'
    BY <2>2 DEF Watching
  <2>4. path \in Path /\ path.key \in Key
    BY DEF Path, Key
  <2>5. nlocal' \in 0..Len(LocalPaths)
    BY <1>1, <2>1, <2>2, LocalAssumption DEF TypeOK
  <2>6. /\ rib' \in [Key -> Path \cup {None}] /\ \A k \in Key : rib'[k] # None => rib'[k].key = k
        /\ exported' \subseteq Range(LocalPaths)
    BY <2>2, <2>4 DEF TypeOK
  <2>7. TypeOK' /\ Early'
    BY <2>2, <2>3, <2>5, <2>6 DEF TypeOK, Early
  <2>8. FreshServer' /\ OnlyAllowedPaths'
    BY <2>2, <2>4 DEF FreshServer, OnlyAllowedPaths, TypeOK
  <2>9. Exports'
    <3>1. CASE exported' = exported /\ rib' = rib
      BY <3>1 DEF Queue, Exports, Fits, Own
    <3>2. CASE exported' = exported \cup {path} /\ rib' = [rib EXCEPT ![path.key] = path]
      <4> SUFFICES ASSUME NEW k \in Key
                   PROVE  (IF rib[k] = None THEN Own(k) = {} ELSE Fits(rib[k], FALSE))'
        BY DEF Exports
      <4>1. CASE k # path.key
        <5>1. rib'[k] = rib[k] /\ Own(k)' = Own(k)
          BY <2>4, <3>2, <4>1 DEF TypeOK, Own
        <5>2. rib[k] # None => rib[k].key = k
          BY DEF TypeOK
        <5>3. QED
          BY <3>2, <5>1, <5>2 DEF Queue, Exports, Fits
      <4>2. CASE k = path.key
        <5>1. rib'[k] = path /\ path # None /\ path \in exported'
          BY <2>4, <3>2, <4>2, NoneOutside DEF TypeOK
        <5>2. \A l \in Own(k)' : l = path
          BY <2>6, <4>2, LocalUnique DEF Own
        <5>3. QED
          BY <4>2, <5>1, <5>2 DEF Fits
      <4>3. QED
        BY <4>1, <4>2
    <3>3. CASE exported' = exported \cup {path} /\ rib' = rib /\ Outranks(rib[path.key])
                /\ rib[path.key] # None
      <4>1. \A k \in Key : Own(k)' = Own(k) \/ (k = path.key /\ Own(k)' = Own(k) \cup {path})
        BY <3>3 DEF Own
      <4>2. \A k \in Key : rib[k] # None => rib[k].key = k
        BY DEF TypeOK
      <4>3. QED
        BY <3>3, <4>1, <4>2 DEF Queue, Exports, Fits
    <3>4. QED
      BY <2>2, <3>1, <3>2, <3>3
  <2>10. QED
    BY <2>3, <2>7, <2>8, <2>9, EarlyEnough
<1>6. QED
  BY <1>2, <1>3, <1>4, <1>5
\* WatchEvent: every best path of the moment has its event in the queue.
LEMMA WatchIInv ==
  ASSUME IInv, WatchEvent
  PROVE  IInv'
<1> USE DEF IInv, Filters
<1> DEFINE best == {k \in Key : rib[k] # None}
<1>1. /\ ~Watching /\ Watching' /\ stage' = "running"
      /\ UNCHANGED <<npeers, nlocal, filter, exported, rib, fib, lfib>>
  BY DEF WatchEvent, Step, Watching, server, tables
<1>2. PICK order \in SetToSeqs(best) :
         queue' = [n \in DOMAIN order |-> Event(rib[order[n]], FALSE)] /\ seen' = best
  BY DEF WatchEvent
<1>3. IsFiniteSet(best)
  BY KeyFinite, FS_Subset
<1>4. /\ order \in [1..Cardinality(best) -> best] /\ Cardinality(best) \in Nat
      /\ \A x \in best : \E n \in DOMAIN order : order[n] = x
  <2> HIDE DEF best
  <2> QED
    BY <1>3, OrderIsOnto
<1>5. /\ DOMAIN queue' = 1..Cardinality(best)
      /\ \A n \in DOMAIN queue' :
            /\ order[n] \in Key /\ rib[order[n]] \in Path /\ rib[order[n]].key = order[n]
            /\ queue'[n].path = rib[order[n]] /\ queue'[n].withdrawal = FALSE
            /\ queue'[n] \in [path : Path, withdrawal : BOOLEAN]
  BY <1>2, <1>4 DEF Event, TypeOK
<1> HIDE DEF best
<1>6. queue' \in Seq([path : Path, withdrawal : BOOLEAN])
  <2>1. queue' \in [1..Cardinality(best) -> [path : Path, withdrawal : BOOLEAN]]
    BY <1>2, <1>4, <1>5
  <2>2. QED
    BY <1>4, <2>1, SeqIntro
<1>7. TypeOK'
  BY <1>1, <1>2, <1>6 DEF TypeOK, best
<1>8. Early' /\ FreshServer'
  BY <1>1 DEF Early, FreshServer
<1>9. OnlyAllowedPaths'
  <2>1. /\ \A k \in Key : filter /\ rib[k] # None => rib[k] \in Allowed
        /\ filter => exported \subseteq Allowed
    BY DEF OnlyAllowedPaths
  <2>2. ASSUME NEW n \in DOMAIN queue', filter PROVE queue'[n].path \in Allowed
    <3>1. order[n] \in best
      BY <1>4, <1>5
    <3>2. QED
      BY <1>5, <2>1, <2>2, <3>1 DEF best
  <2>3. QED
    BY <1>1, <2>1, <2>2 DEF OnlyAllowedPaths
<1>10. FilterRestricts'
  BY <1>1 DEF FilterRestricts, OnlyAllowedRoutes, Early
<1>11. Queue'
  <2>1. \A n \in DOMAIN queue' :
           /\ queue'[n].path = rib'[queue'[n].path.key] /\ queue'[n].withdrawal = FALSE
           /\ queue'[n].path.key \in seen'
           /\ queue'[n].path \in Path /\ queue'[n].path.key \in Key
    <3> SUFFICES ASSUME NEW n \in DOMAIN queue'
                 PROVE  /\ queue'[n].path = rib[queue'[n].path.key]
                        /\ queue'[n].withdrawal = FALSE /\ queue'[n].path.key \in seen'
                        /\ queue'[n].path \in Path /\ queue'[n].path.key \in Key
      BY <1>1
    <3>1. queue'[n].path = rib[order[n]] /\ rib[order[n]].key = order[n]
      BY <1>5
    <3>2. order[n] \in best
      BY <1>4, <1>5
    <3>3. QED
      BY <1>2, <1>5, <3>1, <3>2
  <2>2. LastTells' /\ EventsSeen'
    BY <2>1 DEF LastTells, EventsSeen
  <2>3. Exports' /\ \A k \in Key : rib[k] # None => Fits(rib[k], FALSE)'
    BY <1>1 DEF Queue, Exports, Fits, Own
  <2>4. EventsFit'
    BY <1>1, <2>1, <2>3, NoneOutside DEF EventsFit
  <2>5. QED
    BY <2>2, <2>3, <2>4 DEF Queue
<1>12. \A k \in Key : rib[k] # None => /\ PendingIn(queue', k)
                                      /\ \E n \in DOMAIN queue' : queue'[n].path = rib[k]
  <2> SUFFICES ASSUME NEW k \in Key, rib[k] # None
               PROVE  \E n \in DOMAIN queue' : queue'[n].path = rib[k] /\ queue'[n].path.key = k
    BY DEF PendingIn
  <2>1. PICK n \in DOMAIN order : order[n] = k
    BY <1>4 DEF best
  <2>2. n \in DOMAIN queue'
    BY <1>4, <1>5
  <2>3. QED
    BY <1>5, <2>1, <2>2
<1>13. Accounted' /\ PopsAreOwn' /\ Untouched' /\ OwnUntouched'
  BY <1>1, NoneOutside DEF Early, Accounted, PopsAreOwn, Untouched, OwnUntouched
<1>14. OwnArePopped'
  BY <1>1, <1>12 DEF OwnArePopped, OwnRoute
<1>15. FollowsSole'
  <2>1. \A p \in Prefix, k \in Key : SeenFor(p)' = {k} => rib[k] # None
    BY <1>2 DEF SeenFor, best
  <2>2. QED
    BY <2>1, <1>12 DEF FollowsSole
<1>16. QED
  BY <1>7, <1>8, <1>9, <1>10, <1>11, <1>13, <1>14, <1>15 DEF Tables

\* Stop leaves everything but the stage.
LEMMA StopIInv ==
  ASSUME IInv, Stop
  PROVE  IInv'
<1> USE DEF IInv, Filters, Queue, Tables
<1>1. /\ Watching /\ Watching' /\ stage' = "stopped"
      /\ UNCHANGED <<npeers, nlocal, filter, exported, rib, queue, fib, lfib, seen>>
  BY DEF Stop, Step, Watching, server, tables
<1>2. TypeOK' /\ Early' /\ FreshServer' /\ OnlyAllowedPaths' /\ FilterRestricts'
  BY <1>1 DEF TypeOK, Early, FreshServer, OnlyAllowedPaths, FilterRestricts, OnlyAllowedRoutes
<1>3. Queue'
  BY <1>1 DEF LastTells, IsLast, Exports, EventsFit, Fits, Own, EventsSeen
<1>4. Accounted' /\ PopsAreOwn' /\ OwnArePopped'
  BY <1>1 DEF Accounted, Accounts, LeftBehind, PopsAreOwn, OwnArePopped, OwnRoute, OwnKey, Own,
              PendingIn
<1>5. Untouched' /\ OwnUntouched' /\ FollowsSole'
  BY <1>1 DEF Untouched, OwnUntouched, FollowsSole, SeenFor, OwnRoute, OwnKey, Own, LeftBehind,
              PendingIn, Follows
<1>6. QED
  BY <1>2, <1>3, <1>4, <1>5

-----------------------------------------------------------------------------
(* A change in gobgp's tables.                                             *)

\* The best path of key k becomes the path, or none when it is withdrawn.
Changes(k, path, w) ==
    /\ path.key = k /\ Fits(path, w) /\ (filter => path \in Allowed)
    /\ rib' = [rib EXCEPT ![k] = IF w THEN None ELSE path]
    /\ \/ Watching /\ queue' = Append(queue, Event(path, w)) /\ seen' = seen \cup {k}
       \/ ~Watching /\ queue' = queue /\ seen' = seen
    /\ UNCHANGED <<stage, npeers, nlocal, filter, exported, fib, lfib>>

LEMMA ReceiveEffect ==
  ASSUME TypeOK, NEW path \in Learned, Receive(path)
  PROVE  path \in Path /\ path.key \in Key /\ Changes(path.key, path, FALSE)
<1>1. path \in Path /\ path.key \in Key
  BY DEF Path, Key
<1>2. Fits(path, FALSE)
  BY LearnedNotOwn DEF Receive, Fits
<1>3. QED
  BY <1>1, <1>2 DEF Receive, Changes, Notify, tables

LEMMA LoseEffect ==
  ASSUME IInv, NEW k \in Key, Lose(k)
  PROVE  \E path \in Path, w \in BOOLEAN : Changes(k, path, w)
<1> USE DEF IInv, Filters, Queue
<1>1. rib[k] # None /\ rib[k] \in Path /\ rib[k].key = k /\ rib[k] \notin exported
  BY DEF Lose, TypeOK
<1>2. CASE Own(k) # {}
  <2>1. PICK path \in Own(k) : rib' = [rib EXCEPT ![k] = path] /\ Notify(path, FALSE)
    BY <1>2 DEF Lose
  <2>2. path \in exported /\ path.key = k /\ path \in Path
    BY ExportedType DEF Own
  <2>3. Fits(path, FALSE)
    BY <2>2, LocalUnique DEF TypeOK, Fits, Own
  <2>4. filter => path \in Allowed
    BY <2>2 DEF OnlyAllowedPaths
  <2>5. Changes(k, path, FALSE)
    BY <2>1, <2>2, <2>3, <2>4 DEF Lose, Changes, Notify, tables
  <2>6. QED
    BY <2>2, <2>5
<1>3. CASE Own(k) = {}
  <2>1. rib' = [rib EXCEPT ![k] = None] /\ Notify(rib[k], TRUE)
    BY <1>3 DEF Lose
  <2>2. Fits(rib[k], TRUE)
    BY <1>1, <1>3 DEF Exports, Fits
  <2>3. filter => rib[k] \in Allowed
    BY <1>1 DEF OnlyAllowedPaths
  <2>4. Changes(k, rib[k], TRUE)
    BY <1>1, <2>1, <2>2, <2>3 DEF Lose, Changes, Notify, tables
  <2>5. QED
    BY <1>1, <2>4
<1>4. QED
  BY <1>2, <1>3

LEMMA ChangeIInv ==
  ASSUME IInv, NEW k \in Key, NEW path \in Path, NEW w \in BOOLEAN, Changes(k, path, w),
         stage \notin {"new", "bgp"}
  PROVE  IInv'
<1> USE DEF IInv, Filters
<1>1. /\ path.key = k /\ Fits(path, w) /\ (filter => path \in Allowed)
      /\ rib' = [rib EXCEPT ![k] = IF w THEN None ELSE path]
      /\ UNCHANGED <<stage, npeers, nlocal, filter, exported, fib, lfib>>
      /\ Watching' = Watching
  BY DEF Changes, Watching
<1>2. rib' \in [Key -> Path \cup {None}] /\ \A j \in Key : rib'[j] # None => rib'[j].key = j
  BY <1>1 DEF TypeOK
<1>3. FreshServer'
  BY <1>1 DEF FreshServer
<1>0. Exports' /\ \A j \in Key : Own(j)' = Own(j) /\ OwnKey(j)' = OwnKey(j)
  <2>1. \A j \in Key : Own(j)' = Own(j) /\ OwnKey(j)' = OwnKey(j)
    BY <1>1 DEF Own, OwnKey
  <2> SUFFICES ASSUME NEW j \in Key
               PROVE  (IF rib[j] = None THEN Own(j) = {} ELSE Fits(rib[j], FALSE))'
    BY <2>1 DEF Exports
  <2>2. CASE j # k
    <3>1. rib'[j] = rib[j]
      BY <1>1, <2>2 DEF TypeOK
    <3>2. QED
      BY <1>1, <3>1 DEF Queue, Exports, Fits, Own
  <2>3. CASE j = k /\ w
    <3>1. rib'[j] = None /\ Own(j) = {}
      BY <1>1, <2>3 DEF Fits, TypeOK
    <3>2. QED
      BY <2>1, <3>1
  <2>4. CASE j = k /\ ~w
    <3>1. rib'[j] = path /\ path # None
      BY <1>1, <2>4, NoneOutside DEF TypeOK
    <3>2. QED
      BY <1>1, <2>4, <3>1 DEF Fits, Own
  <2>5. QED
    BY <2>2, <2>3, <2>4
<1>4. CASE ~Watching
  <2>1. queue' = queue /\ seen' = seen
    BY <1>4 DEF Changes
  <2>2. TypeOK' /\ Early' /\ OnlyAllowedPaths'
    BY <1>1, <1>2, <1>4, <2>1 DEF TypeOK, Early, OnlyAllowedPaths
  <2>3. QED
    BY <1>0, <1>1, <1>3, <1>4, <2>2, EarlyEnough
<1>5. CASE Watching
  <2>1. queue' = Append(queue, Event(path, w)) /\ seen' = seen \cup {k}
    BY <1>5 DEF Changes
  <2>2. Event(path, w) \in [path : Path, withdrawal : BOOLEAN]
    BY DEF Event
  <2> DEFINE last == Len(queue) + 1
  <2>3. /\ queue' \in Seq([path : Path, withdrawal : BOOLEAN])
        /\ last \in Nat /\ last \in DOMAIN queue'
        /\ \A n \in DOMAIN queue : queue'[n] = queue[n] /\ n < last /\ n \in DOMAIN queue'
        /\ \A n \in DOMAIN queue' : n \in DOMAIN queue \/ n = last
        /\ queue'[last] = Event(path, w)
        /\ queue'[last].path = path /\ queue'[last].withdrawal = w
    <3>1. queue \in Seq([path : Path, withdrawal : BOOLEAN])
      BY DEF TypeOK
    <3>2. QED
      BY <2>1, <2>2, <3>1, AppendSeq DEF Event
  <2> HIDE DEF last
  <2>4. TypeOK' /\ Early'
    BY <1>1, <1>2, <1>5, <2>1, <2>3 DEF TypeOK, Early
  <2>5. OnlyAllowedPaths' /\ FilterRestricts'
    BY <1>1, <2>3 DEF OnlyAllowedPaths, FilterRestricts, OnlyAllowedRoutes, TypeOK
  <2>6. \A j \in Key : j # k => rib'[j] = rib[j]
    BY <1>1 DEF TypeOK
  <2>7. /\ rib'[k] = IF w THEN None ELSE path
        /\ \A n \in DOMAIN queue : queue[n].path \in Path /\ queue[n].path.key \in Key
    BY <1>1, QueueType DEF TypeOK
  <2>8. LastTells'
    <3> SUFFICES ASSUME NEW n \in DOMAIN queue', IsLast(n)'
                 PROVE  rib'[queue'[n].path.key] =
                           IF queue'[n].withdrawal THEN None ELSE queue'[n].path
      BY DEF LastTells
    <3>1. CASE n = last
      BY <1>1, <2>3, <2>7, <3>1
    <3>2. CASE n \in DOMAIN queue
      <4>1. queue[n].path.key # k /\ IsLast(n)
        BY <1>1, <2>3, <3>2 DEF IsLast
      <4>2. QED
        <5>1. rib[queue[n].path.key] = IF queue[n].withdrawal THEN None ELSE queue[n].path
          BY <3>2, <4>1 DEF Queue, LastTells
        <5>2. queue'[n] = queue[n] /\ rib'[queue[n].path.key] = rib[queue[n].path.key]
          BY <2>3, <2>6, <2>7, <3>2, <4>1
        <5>3. QED
          BY <5>1, <5>2
    <3>3. QED
      BY <2>3, <3>1, <3>2
  <2>9. EventsFit'
    <3> SUFFICES ASSUME NEW n \in DOMAIN queue'
                 PROVE  Fits(queue'[n].path, queue'[n].withdrawal)
      BY <1>1 DEF EventsFit, Fits, Own
    <3>1. CASE n = last
      BY <1>1, <2>3, <3>1
    <3>2. CASE n \in DOMAIN queue
      BY <2>3, <3>2 DEF Queue, EventsFit
    <3>3. QED
      BY <2>3, <3>1, <3>2
  <2>10. EventsSeen'
    BY <1>1, <2>1, <2>3 DEF Queue, EventsSeen
  <2>11. /\ PendingIn(queue', k) /\ \E n \in DOMAIN queue' : queue'[n].path = path
         /\ \A j \in Key : PendingIn(queue, j) => PendingIn(queue', j)
    BY <1>1, <2>3 DEF PendingIn
  <2>12. Accounted'
    <3> SUFFICES ASSUME NEW p \in Prefix, fib[p] # None, fib[p] # StaticRoute(p)
                 PROVE  \E j \in Key : Accounts(j, p)'
      BY <1>1 DEF Accounted
    <3>1. PICK j \in Key : Accounts(j, p)
      BY DEF Tables, Accounted
    <3>2. CASE j # k
      <4>1. Accounts(j, p)'
        BY <1>0, <1>1, <2>6, <2>11, <3>1, <3>2 DEF Accounts
      <4>2. QED
        BY <4>1
    <3>3. CASE j = k /\ ~OwnKey(k)
      <4>1. Accounts(k, p)'
        BY <1>0, <1>1, <2>11, <3>1, <3>3 DEF Accounts
      <4>2. QED
        BY <4>1
    <3>4. CASE j = k /\ OwnKey(k)
      <4>1. ASSUME rib[k] # None, Installs(rib[k]), Reflects(rib[k], fib[p])
            PROVE  LeftBehind(k, fib[p])
        <5>1. rib[k] \in Path /\ rib[k].key = k
          BY <4>1 DEF TypeOK
        <5>2. Fits(rib[k], FALSE)
          BY <4>1 DEF Queue, Exports
        <5>3. LeftBehind(rib[k].key, fib[p])
          BY <3>4, <4>1, <5>1, <5>2, OwnKeyLeaves
        <5>4. QED
          BY <5>1, <5>3
      <4>2. LeftBehind(k, fib[p])
        BY <3>1, <3>4, <4>1 DEF Accounts
      <4>3. Accounts(k, p)'
        BY <1>1, <2>11, <3>1, <3>4, <4>2 DEF Accounts
      <4>4. QED
        BY <4>3
    <3>5. QED
      BY <3>2, <3>3, <3>4
  <2>13. PopsAreOwn'
    BY <1>1 DEF Tables, PopsAreOwn
  <2>14. OwnArePopped'
    <3> SUFFICES ASSUME NEW j \in Key, OwnRoute(rib'[j])
                 PROVE  \/ \E n \in DOMAIN queue' : queue'[n].path = rib'[j]
                        \/ lfib[Head(rib'[j].labels)] = "pop"
      BY <1>1 DEF OwnArePopped
    <3>1. CASE j = k
      BY <2>7, <2>11, <3>1 DEF OwnRoute
    <3>2. CASE j # k
      <4>1. rib'[j] = rib[j] /\ OwnRoute(rib[j])
        BY <2>6, <3>2
      <4>2. (\E n \in DOMAIN queue : queue[n].path = rib[j]) \/ lfib[Head(rib[j].labels)] = "pop"
        BY <1>5, <4>1 DEF Tables, OwnArePopped
      <4>3. QED
        BY <2>3, <4>1, <4>2
    <3>3. QED
      BY <3>1, <3>2
  <2>15. \A p \in Prefix : SeenFor(p) \subseteq SeenFor(p)'
    BY <2>1 DEF SeenFor
  <2>16. Untouched'
    BY <1>1, <2>15 DEF Tables, Untouched
  <2>17. OwnUntouched'
    <3> SUFFICES ASSUME NEW p \in Prefix, NEW j \in Key, SeenFor(p)' = {j}, OwnKey(j)
                 PROVE  fib[p] = StaticRoute(p) \/ (fib[p] # None /\ LeftBehind(j, fib[p]))
      BY <1>0, <1>1 DEF OwnUntouched
    <3>1. SeenFor(p) = {} \/ SeenFor(p) = {j}
      BY <2>15
    <3>2. QED
      BY <3>1 DEF Tables, Untouched, OwnUntouched
  <2>18. FollowsSole'
    <3> SUFFICES ASSUME NEW p \in Prefix, NEW j \in Key, SeenFor(p)' = {j}, j # k
                 PROVE  PendingIn(queue', j) \/ Follows(j, p)'
      BY <2>11 DEF FollowsSole
    <3>1. SeenFor(p) = {j}
      BY <2>1 DEF SeenFor
    <3>2. PendingIn(queue, j) \/ Follows(j, p)
      BY <1>5, <3>1 DEF Tables, FollowsSole
    <3>3. QED
      BY <1>1, <2>6, <2>11, <3>2 DEF Follows
  <2>19. QED
    BY <1>0, <1>3, <2>4, <2>5, <2>8, <2>9, <2>10, <2>12, <2>13, <2>14, <2>16, <2>17, <2>18
       DEF Queue, Tables
<1>6. QED
  BY <1>4, <1>5
-----------------------------------------------------------------------------
(* handleBestPath.                                                         *)

LEMMA HandleIInv ==
  ASSUME IInv, HandleBestPath
  PROVE  IInv'
<1> USE DEF IInv, Filters, Queue, Tables
<1> DEFINE e == queue[1]
           key == e.path.key
           p0 == key.prefix
<1>1. /\ queue # <<>> /\ queue' = Tail(queue) /\ e = Head(queue)
      /\ UNCHANGED <<stage, npeers, nlocal, filter, exported, rib, seen>>
      /\ Withdraws(e) \/ Puts(e) \/ Pops(e) \/ Skips(e)
  <2>1. queue \in Seq([path : Path, withdrawal : BOOLEAN]) /\ queue # <<>>
    BY HandleEffect DEF TypeOK
  <2>2. e = Head(queue)
    BY <2>1, HeadAndTail
  <2>3. QED
    BY <2>2, HandleEffect
<1>2. /\ queue' \in Seq([path : Path, withdrawal : BOOLEAN]) /\ 1 \in DOMAIN queue
      /\ \A n \in DOMAIN queue' : n + 1 \in DOMAIN queue /\ queue'[n] = queue[n + 1]
      /\ \A n \in DOMAIN queue : n # 1 => n - 1 \in DOMAIN queue' /\ queue'[n - 1] = queue[n]
  <2>1. queue \in Seq([path : Path, withdrawal : BOOLEAN])
    BY DEF TypeOK
  <2>2. QED
    BY <1>1, <2>1, HeadAndTail
<1>3. /\ e.path \in Path /\ e.withdrawal \in BOOLEAN /\ key \in Key
      /\ key.fam # "ls" => p0 \in Prefix
      /\ OwnLabel(e.path) => Head(e.path.labels) \in Label
  <2>1. e \in [path : Path, withdrawal : BOOLEAN] /\ e.path \in Path /\ key \in Key
    BY <1>2, QueueType
  <2>2. QED
    BY <2>1, PathAssumption DEF OwnLabel
<1>4. Watching /\ Watching'
  BY <1>1 DEF Early, Watching
<1>5. key \in seen
  BY <1>2 DEF EventsSeen
<1>6. Fits(e.path, e.withdrawal)
  BY <1>2 DEF EventsFit
<1>7. ~PendingIn(queue', key) => rib[key] = IF e.withdrawal THEN None ELSE e.path
  <2> SUFFICES ASSUME ~PendingIn(queue', key) PROVE IsLast(1)
    BY <1>2 DEF LastTells
  <2> SUFFICES ASSUME NEW m \in DOMAIN queue, m > 1 PROVE queue[m].path.key # key
    BY DEF IsLast
  <2>1. m - 1 \in DOMAIN queue' /\ queue'[m - 1] = queue[m]
    BY <1>2
  <2>2. QED
    BY <2>1 DEF PendingIn
<1>8. \A j \in Key : j # key /\ PendingIn(queue, j) => PendingIn(queue', j)
  <2> SUFFICES ASSUME NEW j \in Key, j # key, NEW n \in DOMAIN queue, queue[n].path.key = j
               PROVE  \E m \in DOMAIN queue' : queue'[m].path.key = j
    BY DEF PendingIn
  <2>1. n - 1 \in DOMAIN queue' /\ queue'[n - 1] = queue[n]
    BY <1>2
  <2>2. QED
    BY <2>1
<1> HIDE DEF e
<1>9. /\ fib' \in [Prefix -> Route \cup {None}]
      /\ \A p \in Prefix : fib'[p] # None => fib'[p].prefix = p
      /\ lfib' \in [Label -> {"pop", None}]
      /\ \A l \in Label : lfib[l] = "pop" => lfib'[l] = "pop"
  <2>1. CASE Withdraws(e)
    BY <1>3, <2>1 DEF Withdraws, TypeOK
  <2>2. CASE Puts(e)
    BY <1>3, <2>2 DEF Puts, TypeOK
  <2>3. CASE Pops(e) \/ Skips(e)
    BY <1>3, <2>3 DEF Pops, Skips, TypeOK
  <2>4. QED
    BY <1>1, <2>1, <2>2, <2>3
<1>10. \A p \in Prefix : p # p0 \/ Pops(e) \/ Skips(e) => fib'[p] = fib[p]
  BY <1>1 DEF Withdraws, Puts, Pops, Skips, TypeOK
<1>11. ASSUME Withdraws(e)
       PROVE  p0 \in Prefix /\ fib'[p0] = None /\ e.withdrawal /\ key.fam # "ls"
  BY <1>3, <1>11 DEF Withdraws, TypeOK
<1>12. ASSUME Puts(e)
       PROVE  /\ p0 \in Prefix /\ fib'[p0] \in Route /\ Reflects(e.path, fib'[p0])
              /\ ~e.withdrawal /\ key.fam # "ls" /\ Installs(e.path)
  <2>1. key.fam # "ls" /\ ~e.withdrawal /\ Installs(e.path)
    BY <1>12 DEF Puts, Installs
  <2>2. PICK r \in Route : /\ r.prefix = p0 /\ Reflects(e.path, r)
                           /\ fib' = [fib EXCEPT ![r.prefix] = r]
    BY <1>12 DEF Puts
  <2>3. fib'[p0] = r
    BY <1>3, <2>1, <2>2 DEF TypeOK
  <2>4. QED
    BY <1>3, <2>1, <2>2, <2>3
<1>14. TypeOK' /\ Early' /\ FreshServer'
  BY <1>1, <1>2, <1>4, <1>9 DEF TypeOK, Early, FreshServer
<1>15. OnlyAllowedPaths'
  BY <1>1, <1>2 DEF OnlyAllowedPaths
<1>16. FilterRestricts'
  <2> SUFFICES ASSUME filter, NEW p \in Prefix, fib'[p] # None
               PROVE  fib'[p] = StaticRoute(p) \/ \E path \in Allowed : Reflects(path, fib'[p])
    BY <1>1 DEF FilterRestricts, OnlyAllowedRoutes
  <2>1. e.path \in Allowed
    BY <1>2 DEF OnlyAllowedPaths, e
  <2>2. CASE fib'[p] = fib[p]
    BY <2>2 DEF FilterRestricts, OnlyAllowedRoutes
  <2>3. CASE p = p0 /\ Puts(e)
    BY <1>12, <2>1, <2>3
  <2>4. QED
    BY <1>1, <1>10, <1>11, <2>2, <2>3
<1>17. Queue'
  <2>1. LastTells'
    <3> SUFFICES ASSUME NEW n \in DOMAIN queue', IsLast(n)'
                 PROVE  rib[queue'[n].path.key] =
                           IF queue'[n].withdrawal THEN None ELSE queue'[n].path
      BY <1>1 DEF LastTells
    <3>1. n + 1 \in DOMAIN queue /\ queue'[n] = queue[n + 1]
      BY <1>2
    <3>2. \A m \in DOMAIN queue : m > n + 1 => queue[m].path.key # queue[n + 1].path.key
      <4> SUFFICES ASSUME NEW m \in DOMAIN queue, m > n + 1
                   PROVE  queue[m].path.key # queue[n + 1].path.key
        OBVIOUS
      <4>1. n \in Nat /\ m \in Nat
        BY <1>2 DEF TypeOK
      <4>2. m # 1 /\ m - 1 > n
        BY <4>1
      <4>3. m - 1 \in DOMAIN queue' /\ queue'[m - 1] = queue[m]
        BY <1>2, <4>2
      <4>4. QED
        BY <3>1, <4>2, <4>3 DEF IsLast
    <3>3. QED
      BY <3>1, <3>2 DEF LastTells, IsLast
  <2>2. Exports' /\ EventsFit' /\ EventsSeen'
    BY <1>1, <1>2 DEF Exports, EventsFit, EventsSeen, Fits, Own
  <2>3. QED
    BY <2>1, <2>2
<1>18. \A j \in Key : Own(j)' = Own(j) /\ OwnKey(j)' = OwnKey(j)
  BY <1>1 DEF Own, OwnKey
<1>19. Accounted'
  <2> SUFFICES ASSUME NEW p \in Prefix, fib'[p] # None, fib'[p] # StaticRoute(p)
               PROVE  \E j \in Key : Accounts(j, p)'
    BY DEF Accounted
  <2>1. CASE p = p0 /\ Puts(e)
    <3>1. /\ key.fam # "ls" /\ Installs(e.path) /\ Reflects(e.path, fib'[p])
          /\ OwnKey(key) => LeftBehind(key, fib'[p])
      BY <1>3, <1>6, <1>12, <2>1, OwnKeyLeaves
    <3>2. ~PendingIn(queue', key) => rib[key] # None /\ rib[key] = e.path
      BY <1>3, <1>7, <1>12, <2>1, NoneOutside
    <3>3. PICK k \in Key : k = key
      BY <1>3
    <3>4. Accounts(k, p)'
      BY <1>1, <1>18, <2>1, <3>1, <3>2, <3>3 DEF Accounts
    <3>5. QED
      BY <3>4
  <2>2. CASE ~(p = p0 /\ Puts(e))
    <3>1. fib'[p] = fib[p]
      BY <1>1, <1>10, <1>11, <2>2
    <3>2. PICK j \in Key : Accounts(j, p)
      BY <3>1 DEF Accounted
    <3>3. CASE j # key
      <4>1. Accounts(j, p)'
        BY <1>1, <1>8, <1>18, <3>1, <3>2, <3>3 DEF Accounts
      <4>2. QED
        BY <4>1
    <3>4. CASE j = key
      <4>1. p = p0 /\ key.fam # "ls"
        BY <3>2, <3>4 DEF Accounts
      <4>2. Pops(e)
        BY <1>1, <1>11, <2>2, <4>1 DEF Skips
      <4>3. e.path \in Own(key) /\ OwnKey(key) /\ OwnLabel(e.path) /\ ~e.withdrawal
        BY <1>6, <4>2 DEF Pops, Fits, Own, OwnKey
      <4>4. PendingIn(queue', key) \/ OwnRoute(rib[key])
        BY <1>3, <1>7, <4>3, NoneOutside DEF OwnRoute
      <4>5. Accounts(j, p)'
        BY <1>1, <1>18, <3>1, <3>2, <3>4, <4>3, <4>4 DEF Accounts
      <4>6. QED
        BY <4>5
    <3>5. QED
      BY <3>3, <3>4
  <2>3. QED
    BY <2>1, <2>2
<1>20. PopsAreOwn'
  <2> SUFFICES ASSUME NEW l \in Label, lfib'[l] = "pop"
               PROVE  \E path \in exported : OwnLabel(path) /\ Head(path.labels) = l
    BY <1>1 DEF PopsAreOwn
  <2>1. CASE lfib[l] = "pop"
    BY <1>4, <2>1 DEF PopsAreOwn
  <2>2. CASE lfib[l] # "pop"
    <3>1. Pops(e) /\ l = Head(e.path.labels)
      BY <1>1, <2>2 DEF Withdraws, Puts, Pops, Skips, TypeOK
    <3>2. e.path \in exported /\ OwnLabel(e.path)
      BY <1>6, <3>1 DEF Pops, Fits
    <3>3. QED
      BY <3>1, <3>2
  <2>3. QED
    BY <2>1, <2>2
<1>21. OwnArePopped'
  <2> SUFFICES ASSUME NEW k \in Key, OwnRoute(rib[k]),
                      \A n \in DOMAIN queue' : queue'[n].path # rib[k]
               PROVE  lfib'[Head(rib[k].labels)] = "pop"
    BY <1>1 DEF OwnArePopped
  <2>1. Head(rib[k].labels) \in Label
    BY PathAssumption DEF OwnRoute, OwnLabel, TypeOK
  <2>2. CASE rib[k] = e.path
    <3>1. ~e.withdrawal /\ OwnLabel(e.path)
      BY <1>6, <2>2 DEF OwnRoute, Fits
    <3>2. Pops(e)
      BY <1>1, <1>11, <1>12, <3>1 DEF Skips, OwnLabel, Installs
    <3>3. QED
      BY <2>1, <2>2, <3>2 DEF Pops, TypeOK
  <2>3. CASE rib[k] # e.path
    <3>1. \A n \in DOMAIN queue : queue[n].path # rib[k]
      <4> SUFFICES ASSUME NEW n \in DOMAIN queue, queue[n].path = rib[k] PROVE FALSE
        OBVIOUS
      <4>1. n # 1
        BY <2>3 DEF e
      <4>2. n - 1 \in DOMAIN queue' /\ queue'[n - 1] = queue[n]
        BY <1>2, <4>1
      <4>3. QED
        BY <4>2
    <3>2. QED
      BY <1>4, <1>9, <2>1, <3>1 DEF OwnArePopped
  <2>4. QED
    BY <2>2, <2>3
<1>22. /\ \A p \in Prefix : SeenFor(p)' = SeenFor(p)
       /\ key.fam # "ls" => key \in SeenFor(p0)
  BY <1>1, <1>5 DEF SeenFor
<1>23. Untouched' /\ OwnUntouched'
  <2>1. \A p \in Prefix : key \notin SeenFor(p) => fib'[p] = fib[p]
    BY <1>1, <1>10, <1>11, <1>12, <1>22
  <2>2. Untouched'
    BY <1>1, <1>22, <2>1 DEF Untouched
  <2>3. OwnUntouched'
    <3> SUFFICES ASSUME NEW p \in Prefix, NEW k \in Key, SeenFor(p) = {k}, OwnKey(k)
                 PROVE  fib'[p] = StaticRoute(p) \/ (fib'[p] # None /\ LeftBehind(k, fib'[p]))
      BY <1>1, <1>18, <1>22 DEF OwnUntouched
    <3>1. CASE fib'[p] = fib[p]
      BY <3>1 DEF OwnUntouched
    <3>2. CASE fib'[p] # fib[p]
      <4>1. k = key /\ p = p0
        BY <2>1, <3>2 DEF SeenFor
      <4>2. ~Withdraws(e)
        BY <1>6, <4>1 DEF Withdraws, Fits, OwnKey
      <4>3. Puts(e)
        BY <1>1, <1>10, <3>2, <4>2
      <4>4. fib'[p] \in Route /\ LeftBehind(key, fib'[p])
        BY <1>3, <1>6, <1>12, <4>1, <4>3, OwnKeyLeaves
      <4>5. QED
        BY <4>1, <4>4, NoneOutside
    <3>3. QED
      BY <3>1, <3>2
  <2>4. QED
    BY <2>2, <2>3
<1>24. FollowsSole'
  <2> SUFFICES ASSUME NEW p \in Prefix, NEW j \in Key, SeenFor(p) = {j}, ~PendingIn(queue', j)
               PROVE  Follows(j, p)'
    BY <1>22 DEF FollowsSole
  <2>1. CASE j = key
    <3>1. p = p0 /\ key.fam # "ls"
      BY <2>1 DEF SeenFor
    <3>2. rib[key] = IF e.withdrawal THEN None ELSE e.path
      BY <1>7, <2>1
    <3>3. CASE Withdraws(e)
      BY <1>1, <1>11, <2>1, <3>1, <3>2, <3>3 DEF Follows
    <3>4. CASE Puts(e)
      BY <1>1, <1>3, <1>12, <2>1, <3>1, <3>2, <3>4, NoneOutside DEF Follows
    <3>5. CASE Pops(e)
      BY <1>1, <1>3, <2>1, <3>2, <3>5, NoneOutside DEF Follows, Pops, OwnRoute
    <3>6. QED
      BY <1>1, <3>1, <3>3, <3>4, <3>5 DEF Skips
  <2>2. CASE j # key
    <3>1. fib'[p] = fib[p]
      BY <1>1, <1>10, <1>11, <1>12, <1>22, <2>2
    <3>2. Follows(j, p)
      BY <1>4, <1>8, <2>2 DEF FollowsSole
    <3>3. QED
      BY <1>1, <3>1, <3>2 DEF Follows
  <2>3. QED
    BY <2>1, <2>2
<1>25. QED
  BY <1>14, <1>15, <1>16, <1>17, <1>19, <1>20, <1>21, <1>23, <1>24
-----------------------------------------------------------------------------
(* The invariant, and what it implies.                                     *)

\* A step that changes nothing.
LEMMA StutterIInv ==
  ASSUME IInv, UNCHANGED vars
  PROVE  IInv'
<1> USE DEF IInv, Filters, Queue, Tables, vars
<1>1. Watching' = Watching
  BY DEF Watching
<1>2. TypeOK' /\ Early' /\ FreshServer' /\ OnlyAllowedPaths' /\ FilterRestricts'
  BY <1>1 DEF TypeOK, Early, FreshServer, OnlyAllowedPaths, FilterRestricts, OnlyAllowedRoutes
<1>3. LastTells' /\ Exports' /\ EventsFit' /\ EventsSeen'
  BY DEF LastTells, IsLast, Exports, EventsFit, Fits, Own, EventsSeen
<1>4. Accounted' /\ PopsAreOwn' /\ OwnArePopped'
  BY <1>1 DEF Accounted, Accounts, LeftBehind, PopsAreOwn, OwnArePopped, OwnRoute, OwnKey, Own,
              PendingIn
<1>5. Untouched' /\ OwnUntouched' /\ FollowsSole'
  BY <1>1 DEF Untouched, OwnUntouched, FollowsSole, SeenFor, OwnRoute, OwnKey, Own, LeftBehind,
              PendingIn, Follows
<1>6. QED
  BY <1>2, <1>3, <1>4, <1>5

LEMMA NextIInv ==
  ASSUME IInv, [Next]_vars
  PROVE  IInv'
<1>1. ASSUME NEW path \in Learned, Receive(path) PROVE IInv'
  <2>1. path \in Path /\ path.key \in Key /\ Changes(path.key, path, FALSE)
    BY <1>1, ReceiveEffect DEF IInv
  <2>2. stage \notin {"new", "bgp"}
    BY <1>1 DEF IInv, Filters, FreshServer, Receive
  <2>3. QED
    BY <2>1, <2>2, ChangeIInv
<1>2. ASSUME NEW k \in Key, Lose(k) PROVE IInv'
  <2>1. PICK path \in Path, w \in BOOLEAN : Changes(k, path, w)
    BY <1>2, LoseEffect
  <2>2. stage \notin {"new", "bgp"}
    BY <1>2 DEF IInv, Filters, FreshServer, Lose
  <2>3. QED
    BY <2>1, <2>2, ChangeIInv
<1>3. CASE UNCHANGED vars
  BY <1>3, StutterIInv
<1>4. QED
  BY <1>1, <1>2, <1>3, StartIInv, WatchIInv, StopIInv, HandleIInv DEF Next, Start

\* The inductive invariant holds in every reachable state.
THEOREM Invariance == Spec => []IInv
<1>1. Init => IInv
  BY InitIInv
<1>2. IInv /\ [Next]_vars => IInv'
  BY NextIInv
<1>3. QED
  BY <1>1, <1>2, PTL DEF Spec

\* The state keeps its shape: every best path and every route stands under its own
\* key, whatever the peers announce and however Start goes.
THEOREM TypeCorrect == Spec => []TypeOK
<1>1. IInv => TypeOK
  BY DEF IInv
<1>2. QED
  BY <1>1, Invariance, PTL

\* A Start that fails has put nothing into the FIB or the LFIB (Speaker.Start).
THEOREM FailedStartSafe == Spec => []FailedStartInstallsNothing
<1>1. IInv => FailedStartInstallsNothing
  BY DEF IInv, Early, FailedStartInstallsNothing
<1>2. QED
  BY <1>1, Invariance, PTL

\* With the import policy in force nothing that it rejects reaches the FIB
\* (setupFilter, AddPeer, handleBestPath).
THEOREM FilterHolds == Spec => []FilterRestricts
<1>1. IInv => FilterRestricts
  BY DEF IInv, Filters
<1>2. QED
  BY <1>1, Invariance, PTL

\* Withdrawals and replacements leave no route behind, whatever the peers announce;
\* only the event of an own label, best again, leaves the route of a path that
\* outranked it (handleBestPath, handleLabeledPath).
THEOREM GhostFree == Spec => []NoGhostRoutes
<1>1. IInv => NoGhostRoutes
  <2> SUFFICES ASSUME IInv, NEW p \in Prefix, fib[p] # None, ~Pending(p), fib[p] # StaticRoute(p)
               PROVE  \/ \E k \in Key : /\ rib[k] # None /\ Installs(rib[k])
                                        /\ Reflects(rib[k], fib[p])
                      \/ \E k \in Key : /\ k.prefix = p /\ rib[k] # None /\ OwnLabel(rib[k])
                                        /\ LeftBehind(k, fib[p])
    BY DEF NoGhostRoutes
  <2>1. PICK k \in Key : Accounts(k, p)
    BY DEF IInv, Tables, Accounted
  <2>2. ~PendingIn(queue, k)
    BY <2>1 DEF Accounts, Pending, PendingIn
  <2>3. QED
    BY <2>1, <2>2 DEF Accounts, OwnRoute
<1>2. QED
  BY <1>1, Invariance, PTL

\* A popped label is one this router exports a route with, and the label of such a
\* route is popped once the event that made it the best is handled (AddLocalRoute,
\* handleLabeledPath).
THEOREM LabelsExact == Spec => []LabelsMatchExports
<1>1. IInv => LabelsMatchExports
  BY DEF IInv, Tables, PopsAreOwn, OwnArePopped, OwnRoute, LabelsMatchExports
<1>2. QED
  BY <1>1, Invariance, PTL

\* A prefix with one NLRI follows its best path, and one without keeps its static
\* route; with an own label it is that route or the one of a path that outranked the
\* label (WatchEvent, handleBestPath).
THEOREM SoleSource == Spec => []SoleSourceConverges
<1>1. IInv => SoleSourceConverges
  <2> SUFFICES ASSUME IInv, Watching, NEW p \in Prefix, ~Pending(p)
               PROVE  /\ SeenFor(p) = {} => fib[p] = StaticRoute(p)
                      /\ \A k \in SeenFor(p) : SeenFor(p) = {k} =>
                            \/ rib[k] = None /\ fib[p] = None
                            \/ /\ rib[k] # None /\ Installs(rib[k])
                               /\ fib[p] # None /\ Reflects(rib[k], fib[p])
                            \/ /\ rib[k] # None /\ OwnLabel(rib[k])
                               /\ \/ fib[p] = StaticRoute(p)
                                  \/ fib[p] # None /\ LeftBehind(k, fib[p])
    BY DEF SoleSourceConverges
  <2>1. SeenFor(p) = {} => fib[p] = StaticRoute(p)
    BY DEF IInv, Tables, Untouched
  <2>2. ASSUME NEW k \in SeenFor(p), SeenFor(p) = {k}
        PROVE  /\ Follows(k, p)
               /\ OwnRoute(rib[k]) => \/ fib[p] = StaticRoute(p)
                                      \/ fib[p] # None /\ LeftBehind(k, fib[p])
    <3>1. k \in Key /\ k.prefix = p
      BY DEF IInv, TypeOK, SeenFor
    <3>2. Follows(k, p)
      BY <2>2, <3>1 DEF IInv, Tables, FollowsSole, Pending, PendingIn
    <3>3. OwnRoute(rib[k]) => OwnKey(k)
      BY <3>1 DEF IInv, TypeOK, Queue, Exports, Fits, OwnRoute, OwnKey, Own
    <3>4. QED
      BY <2>2, <3>1, <3>2, <3>3 DEF IInv, Tables, OwnUntouched
  <2>3. QED
    BY <2>1, <2>2 DEF Follows, OwnRoute
<1>2. QED
  BY <1>1, Invariance, PTL
=============================================================================

--------------------------- MODULE FIBRefinement ---------------------------
(***************************************************************************)
(* The FIB implements RouteTable, for every set of prefixes, routes and    *)
(* readers: the array, the lock and the sort are invisible in the answers. *)
(***************************************************************************)
EXTENDS FIBProofs

Has(p) == \E s \in Used : routes[s].prefix = p

\* What the table holds: the route in each used slot, and nothing else.
TableHolds == /\ Table = [p \in Prefix |-> Table[p]]
              /\ \A s \in Used : /\ routes[s] \in Route
                                 /\ routes[s].prefix \in Prefix
                                 /\ Table[routes[s].prefix] = routes[s]
              /\ \A p \in Prefix : ~Has(p) => Table[p] = None

LEMMA TableContents == IInv => TableHolds
<1> SUFFICES ASSUME IInv PROVE TableHolds
  OBVIOUS
<1>1. Table = [p \in Prefix |-> Table[p]]
  BY DEF Table
<1>2. ASSUME NEW s \in Used
      PROVE  /\ routes[s] \in Route /\ routes[s].prefix \in Prefix
             /\ Table[routes[s].prefix] = routes[s]
  <2>1. routes[s] \in Route /\ routes[s].prefix \in Prefix
    BY RouteAssumption DEF IInv, ArraysWhole
  <2> DEFINE c == CHOOSE t \in Used : routes[t].prefix = routes[s].prefix
  <2>2. c \in Used /\ routes[c].prefix = routes[s].prefix
    OBVIOUS
  <2>3. c = s
    BY <2>2 DEF IInv, UniquePrefix
  <2>4. QED
    BY <2>1, <2>3 DEF Table
<1>3. ASSUME NEW p \in Prefix, ~Has(p) PROVE Table[p] = None
  BY <1>3 DEF Table, Has
<1>4. QED
  BY <1>1, <1>2, <1>3 DEF TableHolds

LEMMA TableContentsNext == IInv' => TableHolds'
BY TableContents, PTL

\* Two arrays with the same routes are the same table.
LEMMA SameTable ==
  ASSUME IInv, IInv',
         \A s \in Used : \E t \in Used' : routes'[t] = routes[s],
         \A t \in Used' : \E s \in Used : routes[s] = routes'[t]
  PROVE  Table' = Table
<1>1. TableHolds /\ TableHolds'
  BY TableContents, TableContentsNext
<1>2. ASSUME NEW p \in Prefix PROVE Table'[p] = Table[p]
  <2>1. CASE Has(p)
    <3>1. PICK s \in Used : routes[s].prefix = p
      BY <2>1 DEF Has
    <3>2. PICK t \in Used' : routes'[t] = routes[s]
      OBVIOUS
    <3>3. QED
      BY <1>1, <3>1, <3>2 DEF TableHolds
  <2>2. CASE ~Has(p)
    <3>1. ~Has(p)'
      BY <2>2 DEF Has
    <3>2. QED
      BY <1>1, <2>2, <3>1 DEF TableHolds
  <2>3. QED
    BY <2>1, <2>2
<1>3. QED
  BY <1>1, <1>2 DEF TableHolds

\* An array that gains route e, or has it in place of the route of its prefix.
LEMMA PutTable ==
  ASSUME IInv, IInv', NEW e \in Route,
         \E t \in Used' : routes'[t] = e,
         \A s \in Used : routes[s].prefix # e.prefix =>
                             \E t \in Used' : routes'[t] = routes[s],
         \A t \in Used' : routes'[t].prefix # e.prefix =>
                             \E s \in Used : routes[s] = routes'[t]
  PROVE  Table' = [Table EXCEPT ![e.prefix] = e]
<1>1. TableHolds /\ TableHolds'
  BY TableContents, TableContentsNext
<1>2. ASSUME NEW p \in Prefix, p # e.prefix PROVE Table'[p] = Table[p]
  <2>1. CASE Has(p)
    <3>1. PICK s \in Used : routes[s].prefix = p
      BY <2>1 DEF Has
    <3>2. PICK t \in Used' : routes'[t] = routes[s]
      BY <1>2, <3>1
    <3>3. QED
      BY <1>1, <3>1, <3>2 DEF TableHolds
  <2>2. CASE ~Has(p)
    <3>1. ~Has(p)'
      BY <1>2, <2>2 DEF Has
    <3>2. QED
      BY <1>1, <2>2, <3>1 DEF TableHolds
  <2>3. QED
    BY <2>1, <2>2
<1>3. Table'[e.prefix] = e
  BY <1>1 DEF TableHolds
<1>4. QED
  BY <1>1, <1>2, <1>3 DEF TableHolds
-----------------------------------------------------------------------------
\* Add puts the route, whether it replaces, appends or grows the array.
LEMMA AddPuts ==
  ASSUME IInv, IInv', NEW e \in Route, Add(e)
  PROVE  RT!Put(e)
<1>1. len \in Nat /\ len <= cap /\ cap \in Nat /\ routes \in [1..cap -> Route \cup {Blank}]
  BY DEF IInv, TypeOK, Array
<1>2. want' = want /\ asked' = asked
  BY DEF Add, Replace, Append, AppendGrow, readers
<1>3. Table' = [Table EXCEPT ![e.prefix] = e]
  <2>1. CASE Replace(e)
    <3>1. PICK s \in Used : /\ routes[s].prefix = e.prefix
                            /\ routes' = [routes EXCEPT ![s] = e] /\ len' = len
      BY <2>1 DEF Replace, IsFirst
    <3>2. routes'[s] = e /\ \A t \in Used : t # s => routes'[t] = routes[t]
      BY <1>1, <3>1 DEF Used
    <3>3. Used' = Used
      BY <3>1 DEF Used
    <3>4. QED
      BY <3>1, <3>2, <3>3, PutTable
  <2>2. ASSUME len' = len + 1, routes'[len + 1] = e,
               \A t \in Used : routes'[t] = routes[t]
        PROVE  Table' = [Table EXCEPT ![e.prefix] = e]
    <3>1. Used' = Used \cup {len + 1}
      BY <1>1, <2>2 DEF Used
    <3>2. QED
      BY <2>2, <3>1, PutTable
  <2>3. CASE Append(e)
    BY <1>1, <2>2, <2>3 DEF Append, Used
  <2>4. CASE AppendGrow(e)
    <3>1. Grow(cap) \in Nat /\ len + 1 <= Grow(cap)
      BY <1>1, <2>4 DEF AppendGrow, Grow
    <3>2. QED
      BY <1>1, <2>2, <2>4, <3>1 DEF AppendGrow, Used
  <2>5. QED
    BY <2>1, <2>3, <2>4 DEF Add
<1>4. QED
  BY <1>2, <1>3 DEF RT!Put

\* Remove withdraws the prefix and no other.
LEMMA RemoveWithdraws ==
  ASSUME IInv, IInv', NEW p \in Prefix, Remove(p)
  PROVE  RT!Withdraw(p)
<1>1. PICK s \in Used :
         /\ routes[s].prefix = p
         /\ routes' = [t \in 1..cap |->
                          IF t \in s..(len-1) THEN routes[t+1] ELSE routes[t]]
  BY DEF Remove, IsFirst
<1>2. len' = len - 1 /\ want' = want /\ asked' = asked /\ len \in Nat /\ len <= cap /\ cap \in Nat
  BY DEF Remove, readers, IInv, TypeOK
<1>3. /\ \A t \in Used' : routes'[t] = IF t < s THEN routes[t] ELSE routes[t + 1]
      /\ \A t \in Used' : (IF t < s THEN t ELSE t + 1) \in Used \ {s}
      /\ \A t \in Used \ {s} : (IF t < s THEN t ELSE t - 1) \in Used'
      /\ \A t \in Used \ {s} : routes'[IF t < s THEN t ELSE t - 1] = routes[t]
  BY <1>1, <1>2 DEF Used
<1>4. TableHolds /\ TableHolds'
  BY TableContents, TableContentsNext
<1>5. \A t \in Used : t # s => routes[t].prefix # p
  BY <1>1 DEF IInv, UniquePrefix
<1>6. ~Has(p)'
  BY <1>3, <1>5 DEF Has
<1>7. ASSUME NEW q \in Prefix, q # p PROVE Table'[q] = Table[q]
  <2>1. CASE Has(q)
    <3>1. PICK t \in Used \ {s} : routes[t].prefix = q
      BY <1>1, <1>7, <2>1 DEF Has
    <3>2. PICK u \in Used' : routes'[u] = routes[t]
      BY <1>3
    <3>3. QED
      BY <1>4, <3>1, <3>2 DEF TableHolds
  <2>2. CASE ~Has(q)
    <3>1. ~Has(q)'
      BY <1>3, <2>2 DEF Has
    <3>2. QED
      BY <1>4, <2>2, <3>1 DEF TableHolds
  <2>3. QED
    BY <2>1, <2>2
<1>8. Table' = [Table EXCEPT ![p] = None]
  BY <1>4, <1>6, <1>7 DEF TableHolds
<1>9. QED
  BY <1>2, <1>8 DEF RT!Withdraw

\* The rest of the lock holder's work is invisible: a comparison of sort()
\* permutes the used slots.
LEMMA HolderStutters ==
  ASSUME IInv, IInv', Holder
  PROVE  UNCHANGED <<Table, asked, want>>
<1>1. want' = want /\ asked' = asked /\ Used' = Used
  BY DEF Holder, Compare, NextRow, Unlock, readers, Used
<1>2. CASE routes' = routes
  BY <1>1, <1>2, SameTable
<1>3. CASE Compare /\ routes' # routes
  <2>1. /\ i \in Used /\ j \in Used /\ i # j
        /\ routes' = [routes EXCEPT ![i] = routes[j], ![j] = routes[i]]
        /\ routes \in [1..cap -> Route \cup {Blank}] /\ Used \subseteq 1..cap
    BY <1>3 DEF Compare, IInv, SortLoop, TypeOK, Array, Used
  <2>2. /\ routes'[i] = routes[j] /\ routes'[j] = routes[i]
        /\ \A t \in Used : t # i /\ t # j => routes'[t] = routes[t]
    BY <2>1
  <2>3. QED
    BY <1>1, <2>1, <2>2, SameTable
<1>4. QED
  BY <1>2, <1>3 DEF Holder, NextRow, Unlock

\* Lookup answers with a longest match: being first among the slots of that
\* length is a choice RouteTable leaves open.
LEMMA LookupAsks ==
  ASSUME IInv, NEW r \in Reader, NEW a \in Addr, Lookup(r, a)
  PROVE  RT!Ask(r, a)
<1>1. TableHolds
  BY TableContents
<1>2. Table' = Table /\ want[r] = None
  <2>1. routes' = routes /\ len' = len /\ want[r] = None
    BY DEF Lookup, Returns
  <2>2. QED
    BY <2>1 DEF Table, Used
<1>3. \A s \in Used : routes[s].prefix \in RT!Present /\ Bits[routes[s].prefix] \in Nat
  BY <1>1, MarkAssumption, BitsAssumption DEF RT!Present, TableHolds
<1>4. \A p \in RT!Present : \E s \in Used : routes[s].prefix = p
  BY <1>1 DEF RT!Present, TableHolds, Has
<1>5. CASE \E s \in Used : IsBest(s, a) /\ Returns(r, <<"lookup", a>>, s, None, routes[s])
  <2>1. PICK s \in Used : IsBest(s, a) /\ Returns(r, <<"lookup", a>>, s, None, routes[s])
    BY <1>5
  <2>2. routes[s].prefix \in RT!Matching(a)
    BY <1>3, <2>1 DEF IsBest, Matching, RT!Matching
  <2>3. ASSUME NEW q \in RT!Matching(a) PROVE Bits[q] <= Bits[routes[s].prefix]
    <3>1. PICK t \in Used : routes[t].prefix = q
      BY <1>4 DEF RT!Matching
    <3>2. t \in Matching(a)
      BY <3>1 DEF Matching, RT!Matching
    <3>3. QED
      BY <1>3, <2>1, <3>1, <3>2 DEF IsBest, BitsAt
  <2>4. routes[s].prefix \in RT!Longest(RT!Matching(a))
    BY <2>2, <2>3 DEF RT!Longest
  <2>5. /\ want' = [want EXCEPT ![r] = Table[routes[s].prefix]]
        /\ asked' = [asked EXCEPT ![r] = <<"lookup", a>>]
    BY <1>1, <2>1 DEF Returns, TableHolds
  <2>6. QED
    BY <1>2, <2>4, <2>5 DEF RT!Ask, RT!Answers
<1>6. CASE Matching(a) = {} /\ Returns(r, <<"lookup", a>>, 0, None, Nil)
  <2>1. RT!Matching(a) = {}
    BY <1>4, <1>6 DEF Matching, RT!Matching
  <2>2. RT!Longest(RT!Matching(a)) = {}
    BY <2>1 DEF RT!Longest
  <2>3. QED
    BY <1>2, <1>6, <2>2 DEF RT!Ask, RT!Answers, Returns
<1>7. QED
  BY <1>5, <1>6 DEF Lookup

LEMMA HasExactAsks ==
  ASSUME IInv, NEW r \in Reader, NEW p \in Prefix, HasExact(r, p)
  PROVE  RT!AskExact(r, p)
<1>1. TableHolds
  BY TableContents
<1>2. Table' = Table /\ want[r] = None
  <2>1. routes' = routes /\ len' = len /\ want[r] = None
    BY DEF HasExact, Returns
  <2>2. QED
    BY <2>1 DEF Table, Used
<1>3. CASE \E s \in Used : IsFirst(s, p) /\ Returns(r, <<"exact", p>>, 0, routes[s], routes[s])
  <2>1. PICK s \in Used : routes[s].prefix = p /\ Returns(r, <<"exact", p>>, 0, routes[s], routes[s])
    BY <1>3 DEF IsFirst
  <2>2. Table[p] = routes[s] /\ p \in RT!Present
    BY <1>1, <2>1, MarkAssumption DEF TableHolds, RT!Present
  <2>3. QED
    BY <1>2, <2>1, <2>2 DEF RT!AskExact, RT!Answers, Returns
<1>4. CASE (\A s \in Used : routes[s].prefix # p) /\ Returns(r, <<"exact", p>>, 0, None, Nil)
  <2>1. p \notin RT!Present
    BY <1>1, <1>4 DEF TableHolds, Has, RT!Present
  <2>2. QED
    BY <1>2, <1>4, <2>1 DEF RT!AskExact, RT!Answers, Returns
<1>5. QED
  BY <1>3, <1>4 DEF HasExact

LEMMA FinishForgets ==
  ASSUME NEW r \in Reader, Finish(r)
  PROVE  RT!Forget(r)
BY DEF Finish, RT!Forget, Table, Used

-----------------------------------------------------------------------------
LEMMA StepMaps == IInv /\ IInv' /\ [Next]_vars => [RT!Next]_RT!tvars
<1> SUFFICES ASSUME IInv, IInv', [Next]_vars PROVE [RT!Next]_RT!tvars
  OBVIOUS
<1>1. CASE \E e \in Route : Add(e)
  BY <1>1, AddPuts DEF RT!Next
<1>2. CASE \E p \in Prefix : Remove(p)
  BY <1>2, RemoveWithdraws DEF RT!Next
<1>3. CASE Holder
  BY <1>3, HolderStutters DEF RT!tvars
<1>4. CASE \E r \in Reader, a \in Addr : Lookup(r, a)
  BY <1>4, LookupAsks DEF RT!Next
<1>5. CASE \E r \in Reader, p \in Prefix : HasExact(r, p)
  BY <1>5, HasExactAsks DEF RT!Next
<1>6. CASE \E r \in Reader : Finish(r)
  BY <1>6, FinishForgets DEF RT!Next
<1>7. CASE UNCHANGED vars
  BY <1>7 DEF vars, RT!tvars, Table, Used
<1>8. QED
  BY <1>1, <1>2, <1>3, <1>4, <1>5, <1>6, <1>7 DEF Next

\* FIB.Add, Remove, Lookup and HasExact behave as operations on a map from
\* prefixes to routes, with lookups by longest prefix.
THEOREM Refinement == Spec => ImplementsRouteTable
<1>1. Init => RT!Init
  BY DEF Init, RT!Init, Table, Used
<1>2. QED
  BY <1>1, Invariant, StepMaps, PTL DEF Spec, ImplementsRouteTable, RT!Spec
=============================================================================

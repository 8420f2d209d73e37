----------------------------- MODULE FIBProofs -----------------------------
(***************************************************************************)
(* The safety of FIB for every set of prefixes, routes and readers.        *)
(***************************************************************************)
EXTENDS FIB, TLAPS

ArraysWhole == \A s \in Used : routes[s] \in Route

\* A pointer into the array points at a slot that holds a route, before and
\* after the store under way: slots are overwritten by routes, never cleared.
RefsWhole == \A r \in Reader : ref[r] # 0 => /\ routes[ref[r]] \in Route
                                             /\ mem[ref[r]] \in Route

HoldersPoint == \A r \in Holding : ref[r] # 0 \/ copy[r] \in Route

\* No store is under way while mu is free.
IdleStable == pc = "idle" => mem = routes

Ordered(s, t) == BitsAt(s) >= BitsAt(t)

\* The loop invariant of sort(): the rows before i are final, and entry i is
\* the longest of those compared with it so far.
SortLoop ==
    pc = "sort" =>
        /\ i >= 1 /\ j > i
        /\ \A s, t \in Used : s < i /\ s < t => Ordered(s, t)
        /\ \A t \in Used : i <= len /\ i < t /\ t < j => Ordered(i, t)

IInv == /\ TypeOK /\ ArraysWhole /\ RefsWhole /\ HoldersPoint /\ IdleStable
        /\ UniquePrefix /\ SortLoop /\ Sorted
-----------------------------------------------------------------------------
\* The length of the prefix in a used slot is a natural number.
LEMMA BitsAtNat ==
  ASSUME ArraysWhole, NEW s \in Used
  PROVE  BitsAt(s) \in Nat
BY BitsAssumption, RouteAssumption DEF ArraysWhole, BitsAt

\* An empty FIB, as NewFIB makes it, satisfies the invariant.
LEMMA InitIInv == Init => IInv
<1> SUFFICES ASSUME Init PROVE IInv
  OBVIOUS
<1>1. TypeOK
  BY DEF Init, TypeOK, Array, Stage
<1>2. QED
  BY <1>1 DEF Init, IInv, ArraysWhole, RefsWhole, HoldersPoint, Holding,
              IdleStable, UniquePrefix, SortLoop, Sorted, Used

\* Overwriting the entry of a prefix with another route of that prefix.
LEMMA ReplaceIInv ==
  ASSUME IInv, NEW e \in Route, Replace(e)
  PROVE  IInv'
<1>1. PICK s \in Used : IsFirst(s, e.prefix) /\ routes' = [routes EXCEPT ![s] = e]
  BY DEF Replace
<1> USE DEF IInv, Used
<1>2. /\ mem' = routes /\ pc' = "sort" /\ i' = 1 /\ j' = 2
      /\ UNCHANGED <<len, cap, ref, copy, want>>
  BY DEF Replace, StartSort, readers
<1>3. TypeOK'
  BY <1>1, <1>2 DEF TypeOK, Array, Stage
<1>4. \A t \in Used : routes'[t].prefix = routes[t].prefix
  BY <1>1 DEF IsFirst, TypeOK, Array
<1>5. UniquePrefix'
  BY <1>2, <1>4 DEF UniquePrefix
<1>6. ArraysWhole' /\ RefsWhole'
  BY <1>1, <1>2 DEF ArraysWhole, RefsWhole, TypeOK, Array
<1>7. HoldersPoint' /\ IdleStable' /\ SortLoop' /\ Sorted'
  BY <1>2 DEF HoldersPoint, Holding, IdleStable, SortLoop, Sorted, TypeOK
<1>8. QED
  BY <1>3, <1>5, <1>6, <1>7

\* Appending in place: the slot was beyond len, so no route of the table moves.
LEMMA AppendIInv ==
  ASSUME IInv, NEW e \in Route, Append(e)
  PROVE  IInv'
<1> USE DEF IInv, Used
<1>1. /\ routes' = [routes EXCEPT ![len + 1] = e] /\ len < cap /\ len' = len + 1
      /\ mem' = routes /\ pc' = "sort" /\ i' = 1 /\ j' = 2
      /\ UNCHANGED <<cap, ref, copy, want>>
  BY DEF Append, StartSort, readers
<1>2. TypeOK'
  BY <1>1 DEF TypeOK, Array, Stage
<1>3. /\ \A t \in Used : routes'[t] = routes[t]
      /\ routes'[len + 1] = e
  BY <1>1 DEF TypeOK, Array
<1>4. UniquePrefix'
  BY <1>1, <1>3 DEF UniquePrefix, Append, IsNew, TypeOK
<1>5. ArraysWhole' /\ RefsWhole'
  BY <1>1, <1>3 DEF ArraysWhole, RefsWhole, TypeOK, Array
<1>6. HoldersPoint' /\ IdleStable' /\ SortLoop' /\ Sorted'
  BY <1>1 DEF HoldersPoint, Holding, IdleStable, SortLoop, Sorted, TypeOK
<1>7. QED
  BY <1>2, <1>4, <1>5, <1>6

\* Appending to a full array: the routes move, the pointers stay behind on
\* copies that are routes because every used slot was one.
LEMMA AppendGrowIInv ==
  ASSUME IInv, NEW e \in Route, AppendGrow(e)
  PROVE  IInv'
<1> USE DEF IInv, Used
<1>1. /\ cap' = Grow(cap) /\ len = cap /\ len' = len + 1
      /\ routes' = [s \in 1..Grow(cap) |-> IF s <= len THEN routes[s]
                                           ELSE IF s = len + 1 THEN e ELSE Blank]
      /\ mem' = routes' /\ pc' = "sort" /\ i' = 1 /\ j' = 2
      /\ ref' = [r \in Reader |-> 0]
      /\ copy' = [r \in Reader |-> IF ref[r] = 0 THEN copy[r] ELSE routes[ref[r]]]
      /\ want' = want
  BY DEF AppendGrow, StartSort
<1>2. Grow(cap) \in Nat /\ len + 1 <= Grow(cap)
  BY <1>1 DEF Grow, TypeOK
<1>3. \A t \in Used' : routes'[t] = IF t <= len THEN routes[t] ELSE e
  BY <1>1, <1>2 DEF TypeOK
<1>4. routes' \in Array'
  <2>1. \A s \in 1..Grow(cap) : s <= len => routes[s] \in Route
    BY <1>1 DEF ArraysWhole, TypeOK
  <2>2. QED
    BY <1>1, <1>2, <2>1 DEF Array
<1>5. copy' \in [Reader -> Route \cup {None}]
  BY <1>1 DEF RefsWhole, TypeOK
<1>6. TypeOK'
  BY <1>1, <1>2, <1>4, <1>5 DEF TypeOK, Stage
<1>7. UniquePrefix'
  BY <1>1, <1>3 DEF UniquePrefix, AppendGrow, IsNew, TypeOK
<1>8. ArraysWhole' /\ RefsWhole'
  BY <1>1, <1>3 DEF ArraysWhole, RefsWhole, TypeOK
<1>9. HoldersPoint'
  BY <1>1 DEF HoldersPoint, Holding, RefsWhole, TypeOK
<1>10. IdleStable' /\ SortLoop' /\ Sorted'
  BY <1>1 DEF IdleStable, SortLoop, Sorted, TypeOK
<1>11. QED
  BY <1>6, <1>7, <1>8, <1>9, <1>10

\* Removing shifts the order without disturbing it, so no sort is needed.
LEMMA RemoveIInv ==
  ASSUME IInv, NEW p \in Prefix, Remove(p)
  PROVE  IInv'
<1> USE DEF IInv, Used
<1>1. PICK s \in Used :
         routes' = [t \in 1..cap |->
                      IF t \in s..(len-1) THEN routes[t+1] ELSE routes[t]]
  BY DEF Remove
<1>2. /\ pc = "idle" /\ mem' = routes /\ len' = len - 1 /\ pc' = "done"
      /\ UNCHANGED <<cap, i, j, ref, copy, want>>
  BY DEF Remove, readers
<1>3. \A t \in 1..cap : routes'[t] = IF s <= t /\ t < len THEN routes[t+1]
                                                        ELSE routes[t]
  BY <1>1 DEF TypeOK
<1>4. TypeOK'
  <2>1. routes' \in Array'
    BY <1>1, <1>2 DEF TypeOK, Array
  <2>2. QED
    BY <1>2, <2>1 DEF TypeOK, Stage, Array
<1>5. UniquePrefix'
  BY <1>2, <1>3 DEF UniquePrefix, TypeOK
<1>6. Sorted'
  BY <1>2, <1>3 DEF Sorted, BitsAt, TypeOK
<1>7. ArraysWhole' /\ RefsWhole'
  BY <1>2, <1>3 DEF ArraysWhole, RefsWhole, TypeOK
<1>8. HoldersPoint' /\ IdleStable' /\ SortLoop'
  BY <1>2 DEF HoldersPoint, Holding, IdleStable, SortLoop
<1>9. QED
  BY <1>4, <1>5, <1>6, <1>7, <1>8

\* A comparison of sort(): an exchange permutes the routes, and moves the
\* longer of two entries to row i.
LEMMA CompareIInv ==
  ASSUME IInv, Compare
  PROVE  IInv'
<1> USE DEF IInv, Used
<1>1. /\ pc = "sort" /\ i <= len /\ j <= len /\ mem' = routes /\ j' = j + 1
      /\ UNCHANGED <<len, cap, pc, i, ref, copy, want>>
  BY DEF Compare, readers
<1>2. /\ i \in 1..len /\ j \in 1..len /\ i < j /\ 1..len \subseteq 1..cap
      /\ routes \in [1..cap -> Route \cup {Blank}]
  BY <1>1 DEF SortLoop, TypeOK, Array
<1>3. CASE BitsAt(j) > BitsAt(i)
  <2>1. routes' = [routes EXCEPT ![i] = routes[j], ![j] = routes[i]]
    BY <1>3 DEF Compare
  <2>2. /\ routes'[i] = routes[j] /\ routes'[j] = routes[i]
        /\ \A t \in 1..cap : t # i /\ t # j => routes'[t] = routes[t]
    BY <1>2, <2>1
  <2>3. TypeOK'
    BY <1>1, <1>2, <2>1 DEF TypeOK, Array
  <2>4. UniquePrefix'
    BY <1>1, <1>2, <2>2 DEF UniquePrefix
  <2>5. ArraysWhole' /\ RefsWhole'
    BY <1>1, <1>2, <2>2 DEF ArraysWhole, RefsWhole, TypeOK
  <2> DEFINE old(t) == Bits[routes[t].prefix]
             new(t) == Bits[routes'[t].prefix]
  <2>6. /\ new(i) = old(j) /\ new(j) = old(i)
        /\ \A t \in Used : t # i /\ t # j => new(t) = old(t)
    BY <1>2, <2>2
  <2>7. /\ old(j) > old(i)
        /\ \A t \in Used : old(t) \in Nat
    BY <1>3, BitsAtNat DEF BitsAt
  <2>8. SortLoop'
    <3>1. /\ \A s, t \in Used : s < i /\ s < t => old(s) >= old(t)
          /\ \A t \in Used : i < t /\ t < j => old(i) >= old(t)
      BY <1>1 DEF SortLoop, Ordered, BitsAt
    <3> HIDE DEF old, new
    <3>2. \A s, t \in Used : s < i /\ s < t => new(s) >= new(t)
      BY <1>2, <2>6, <2>7, <3>1 DEF TypeOK
    <3>3. \A t \in Used : i < t /\ t < j + 1 => new(i) >= new(t)
      BY <1>2, <2>6, <2>7, <3>1 DEF TypeOK
    <3>4. i >= 1 /\ j + 1 > i
      BY <1>2
    <3> USE DEF new
    <3>5. QED
      BY <1>1, <3>2, <3>3, <3>4 DEF SortLoop, Ordered, BitsAt
  <2>9. HoldersPoint' /\ IdleStable' /\ Sorted'
    BY <1>1 DEF HoldersPoint, Holding, IdleStable, Sorted
  <2>10. QED
    BY <2>3, <2>4, <2>5, <2>8, <2>9
<1>4. CASE ~(BitsAt(j) > BitsAt(i))
  <2>1. routes' = routes
    BY <1>4 DEF Compare
  <2>2. TypeOK' /\ UniquePrefix' /\ ArraysWhole' /\ RefsWhole'
    BY <1>1, <2>1 DEF TypeOK, Array, UniquePrefix, ArraysWhole, RefsWhole
  <2>3. \A t \in Used : BitsAt(t) \in Nat /\ BitsAt(t)' = BitsAt(t)
    BY BitsAtNat, <1>1, <2>1 DEF BitsAt
  <2>4. SortLoop'
    BY <1>1, <1>2, <1>4, <2>3 DEF SortLoop, Ordered, TypeOK
  <2>5. HoldersPoint' /\ IdleStable' /\ Sorted'
    BY <1>1 DEF HoldersPoint, Holding, IdleStable, Sorted
  <2>6. QED
    BY <2>2, <2>4, <2>5
<1>5. QED
  BY <1>3, <1>4

\* The end of a row of sort(): entry i is final.
LEMMA NextRowIInv ==
  ASSUME IInv, NextRow
  PROVE  IInv'
<1> USE DEF IInv, Used
<1>1. /\ pc = "sort" /\ i <= len /\ j > len /\ i' = i + 1 /\ j' = i + 2
      /\ mem' = routes /\ UNCHANGED <<routes, len, cap, pc, ref, copy, want>>
  BY DEF NextRow, readers
<1>2. TypeOK' /\ UniquePrefix' /\ ArraysWhole' /\ RefsWhole'
  BY <1>1 DEF TypeOK, Array, UniquePrefix, ArraysWhole, RefsWhole
<1>3. \A s, t : Ordered(s, t)' <=> Ordered(s, t)
  BY <1>1 DEF Ordered, BitsAt
<1>4. SortLoop'
  BY <1>1, <1>3 DEF SortLoop, TypeOK
<1>5. HoldersPoint' /\ IdleStable' /\ Sorted'
  BY <1>1 DEF HoldersPoint, Holding, IdleStable, Sorted
<1>6. QED
  BY <1>2, <1>4, <1>5

\* The release of mu: after the last row every pair is in order.
LEMMA UnlockIInv ==
  ASSUME IInv, Unlock
  PROVE  IInv'
<1> USE DEF IInv, Used
<1>1. /\ pc = "done" \/ (pc = "sort" /\ i > len)
      /\ pc' = "idle" /\ i' = 0 /\ j' = 0
      /\ mem' = routes /\ UNCHANGED <<routes, len, cap, ref, copy, want>>
  BY DEF Unlock, readers
<1>2. TypeOK' /\ UniquePrefix' /\ ArraysWhole' /\ RefsWhole'
  BY <1>1 DEF TypeOK, Array, Stage, UniquePrefix, ArraysWhole, RefsWhole
<1>3. \A s, t \in Used : s < t => BitsAt(s) >= BitsAt(t)
  BY <1>1 DEF SortLoop, Sorted, Ordered, TypeOK
<1>4. Sorted'
  BY <1>1, <1>3 DEF Sorted, BitsAt
<1>5. HoldersPoint' /\ IdleStable' /\ SortLoop'
  BY <1>1 DEF HoldersPoint, Holding, IdleStable, SortLoop
<1>6. QED
  BY <1>2, <1>4, <1>5

\* A step of a reader leaves the table alone.
LEMMA TableUnchanged ==
  ASSUME IInv, UNCHANGED <<routes, mem, len, cap, pc, i, j>>
  PROVE  /\ UniquePrefix' /\ ArraysWhole' /\ IdleStable' /\ SortLoop' /\ Sorted'
BY DEF IInv, Used, UniquePrefix, ArraysWhole, IdleStable, SortLoop, Sorted,
       Ordered, BitsAt

\* A call that returns: the pointer is to a used slot or to a copied route.
LEMMA ReturnsIInv ==
  ASSUME IInv, NEW r \in Reader, NEW slot \in 0..len,
         NEW entry \in Route \cup {None}, NEW result \in Route \cup {Nil},
         result # Nil => slot # 0 \/ entry \in Route,
         NEW call, Returns(r, call, slot, entry, result)
  PROVE  IInv'
<1> USE DEF IInv, Used
<1>1. /\ pc = "idle" /\ UNCHANGED <<routes, mem, len, cap, pc, i, j>>
      /\ ref' = [ref EXCEPT ![r] = slot]
      /\ copy' = [copy EXCEPT ![r] = entry]
      /\ want' = [want EXCEPT ![r] = result]
  BY DEF Returns
<1>2. TypeOK'
  BY <1>1 DEF TypeOK, Array
<1>3. RefsWhole'
  BY <1>1 DEF RefsWhole, ArraysWhole, IdleStable, TypeOK
<1>4. HoldersPoint'
  BY <1>1 DEF HoldersPoint, Holding, TypeOK
<1>5. QED
  BY <1>1, <1>2, <1>3, <1>4, TableUnchanged

\* The three answers of the two searches, whatever the call was.
LEMMA PointerIInv ==
  ASSUME IInv, NEW r \in Reader, NEW call, NEW s \in Used,
         Returns(r, call, s, None, routes[s])
  PROVE  IInv'
<1>1. s \in 0..len /\ s # 0 /\ routes[s] \in Route
  BY DEF IInv, TypeOK, ArraysWhole, Used
<1>2. QED
  BY <1>1, ReturnsIInv

LEMMA CopyIInv ==
  ASSUME IInv, NEW r \in Reader, NEW call, NEW s \in Used,
         Returns(r, call, 0, routes[s], routes[s])
  PROVE  IInv'
<1>1. 0 \in 0..len /\ routes[s] \in Route
  BY DEF IInv, TypeOK, ArraysWhole, Used
<1>2. QED
  BY <1>1, ReturnsIInv

LEMMA NilIInv ==
  ASSUME IInv, NEW r \in Reader, NEW call, Returns(r, call, 0, None, Nil)
  PROVE  IInv'
<1>1. 0 \in 0..len
  BY DEF IInv, TypeOK
<1>2. QED
  BY <1>1, ReturnsIInv

LEMMA FinishIInv ==
  ASSUME IInv, NEW r \in Reader, Finish(r)
  PROVE  IInv'
<1> USE DEF IInv, Used
<1>1. /\ UNCHANGED <<routes, mem, len, cap, pc, i, j>>
      /\ ref' = [ref EXCEPT ![r] = 0]
      /\ copy' = [copy EXCEPT ![r] = None]
      /\ want' = [want EXCEPT ![r] = None]
  BY DEF Finish
<1>2. TypeOK' /\ RefsWhole' /\ HoldersPoint'
  BY <1>1 DEF TypeOK, Array, RefsWhole, HoldersPoint, Holding
<1>3. QED
  BY <1>1, <1>2, TableUnchanged

-----------------------------------------------------------------------------
LEMMA NextIInv == IInv /\ [Next]_vars => IInv'
<1> SUFFICES ASSUME IInv, [Next]_vars PROVE IInv'
  OBVIOUS
<1>1. CASE \E e \in Route : Add(e)
  BY <1>1, ReplaceIInv, AppendIInv, AppendGrowIInv DEF Add
<1>2. CASE \E p \in Prefix : Remove(p)
  BY <1>2, RemoveIInv
<1>3. CASE Holder
  BY <1>3, CompareIInv, NextRowIInv, UnlockIInv DEF Holder
<1>4. CASE \E r \in Reader, a \in Addr : Lookup(r, a)
  <2>1. PICK r \in Reader, a \in Addr : Lookup(r, a)
    BY <1>4
  <2>2. \/ \E s \in Used : Returns(r, <<"lookup", a>>, s, None, routes[s])
        \/ Returns(r, <<"lookup", a>>, 0, None, Nil)
    BY <2>1, Zenon DEF Lookup
  <2>3. QED
    BY <2>2, PointerIInv, NilIInv, Zenon
<1>5. CASE \E r \in Reader, p \in Prefix : HasExact(r, p)
  <2>1. PICK r \in Reader, p \in Prefix : HasExact(r, p)
    BY <1>5
  <2>2. \/ \E s \in Used : Returns(r, <<"exact", p>>, 0, routes[s], routes[s])
        \/ Returns(r, <<"exact", p>>, 0, None, Nil)
    BY <2>1, Zenon DEF HasExact
  <2>3. QED
    BY <2>2, CopyIInv, NilIInv, Zenon
<1>6. CASE \E r \in Reader : Finish(r)
  BY <1>6, FinishIInv
<1>7. CASE UNCHANGED vars
  BY <1>7 DEF vars, IInv, TypeOK, Array, RefsWhole, HoldersPoint, Holding,
              IdleStable, ArraysWhole, UniquePrefix, SortLoop, Sorted, Ordered,
              BitsAt, Used
<1>8. QED
  BY <1>1, <1>2, <1>3, <1>4, <1>5, <1>6, <1>7 DEF Next

THEOREM Invariant == Spec => []IInv
BY InitIInv, NextIInv, PTL DEF Spec

\* The state of the FIB keeps its shape: slices within their arrays, pointers
\* within the array, through every Add, Remove, sort and Lookup.
THEOREM TypeCorrect == Spec => []TypeOK
<1>1. IInv => TypeOK
  BY DEF IInv
<1>2. QED
  BY <1>1, Invariant, PTL

\* FIB.Add and FIB.Remove never leave two entries of one prefix.
THEOREM PrefixesUnique == Spec => []UniquePrefix
<1>1. IInv => UniquePrefix
  BY DEF IInv
<1>2. QED
  BY <1>1, Invariant, PTL

\* sort() leaves the routes in order, for every number of routes.
THEOREM RoutesSorted == Spec => []Sorted
<1>1. IInv => Sorted
  BY DEF IInv
<1>2. QED
  BY <1>1, Invariant, PTL

\* A pointer returned by Lookup shows a whole route whenever no writer runs.
THEOREM PointersShowRoutes == Spec => []IdleReadsWhole
<1>1. IInv => IdleReadsWhole
  <2> SUFFICES ASSUME IInv, pc = "idle", NEW r \in Holding
               PROVE  \E e \in Route : \A f \in Field : Deref(r, f) = {e[f]}
    BY DEF IdleReadsWhole
  <2>1. r \in Reader /\ mem = routes
    BY DEF Holding, IInv, IdleStable
  <2>2. CASE ref[r] # 0
    <3>1. routes[ref[r]] \in Route
      BY <2>1, <2>2 DEF IInv, RefsWhole
    <3>2. \A f \in Field : Deref(r, f) = {routes[ref[r]][f]}
      BY <2>1, <2>2 DEF Deref, Load
    <3>3. QED
      BY <3>1, <3>2
  <2>3. CASE ref[r] = 0
    BY <2>3 DEF IInv, HoldersPoint, Deref
  <2>4. QED
    BY <2>2, <2>3
<1>2. QED
  BY <1>1, Invariant, PTL

\* Even while a writer runs, a pointer shows fields that were added, or mixtures.
THEOREM ReadersNeverSeeBlank == Spec => []NeverReadsBlank
<1>1. IInv => NeverReadsBlank
  <2> SUFFICES ASSUME IInv, NEW r \in Holding, NEW f \in Field
               PROVE  Deref(r, f) \subseteq {e[f] : e \in Route}
                          \cup (IF f = "action" THEN {} ELSE {Torn})
    BY DEF NeverReadsBlank
  <2>1. r \in Reader
    BY DEF Holding
  <2>2. CASE ref[r] # 0
    <3>1. routes[ref[r]] \in Route /\ mem[ref[r]] \in Route
      BY <2>1, <2>2 DEF IInv, RefsWhole
    <3>2. Deref(r, f) = Load(mem[ref[r]], routes[ref[r]], f)
      BY <2>2 DEF Deref
    <3>3. QED
      BY <3>1, <3>2 DEF Load
  <2>3. CASE ref[r] = 0
    <3>1. copy[r] \in Route /\ Deref(r, f) = {copy[r][f]}
      BY <2>3 DEF IInv, HoldersPoint, Deref
    <3>2. QED
      BY <3>1
  <2>4. QED
    BY <2>2, <2>3
<1>2. QED
  BY <1>1, Invariant, PTL

-----------------------------------------------------------------------------
(* Why sort() ends.  FairSpec schedules the holder of mu; that it reaches  *)
(* Unlock is the argument that the rows left and, within a row, the pairs  *)
(* left decrease lexicographically.                                        *)

RowsLeft == IF i <= len THEN len + 1 - i ELSE 0
PairsLeft == IF j <= len THEN len + 1 - j ELSE 0

\* The holder is nearer to Unlock after the step than before it.
Nearer == \/ pc' = "idle"
          \/ pc' = pc /\ RowsLeft' < RowsLeft
          \/ pc' = pc /\ RowsLeft' = RowsLeft /\ PairsLeft' < PairsLeft

\* Every step of the holder of mu decreases the measure.
LEMMA HolderNearer ==
  ASSUME TypeOK, Holder
  PROVE  Nearer
<1>1. CASE Compare
  BY <1>1 DEF Compare, Nearer, RowsLeft, PairsLeft, TypeOK
<1>2. CASE NextRow
  BY <1>2 DEF NextRow, Nearer, RowsLeft, TypeOK
<1>3. CASE Unlock
  BY <1>3 DEF Unlock, Nearer
<1>4. QED
  BY <1>1, <1>2, <1>3 DEF Holder

\* While mu is held, nobody but its holder moves the measure.
LEMMA OnlyHolderMoves ==
  ASSUME Next, pc # "idle"
  PROVE  Holder \/ UNCHANGED <<pc, i, j, len>>
<1>1. CASE \E e \in Route : Add(e)
  BY <1>1 DEF Add, Replace, Append, AppendGrow
<1>2. CASE \E p \in Prefix : Remove(p)
  BY <1>2 DEF Remove
<1>3. CASE \E r \in Reader : \/ \E a \in Addr : Lookup(r, a)
                             \/ \E p \in Prefix : HasExact(r, p)
  BY <1>3 DEF Lookup, HasExact, Returns
<1>4. CASE \E r \in Reader : Finish(r)
  BY <1>4 DEF Finish
<1>5. QED
  BY <1>1, <1>2, <1>3, <1>4 DEF Next

\* The loops of sort() terminate for every number of routes: while an Add or a
\* Remove holds mu, a step either brings it nearer to Unlock, in a measure of
\* natural numbers, or leaves its loop counters and the length of f.routes alone.
THEOREM SortEnds ==
  Spec => /\ [](RowsLeft \in Nat /\ PairsLeft \in Nat)
          /\ [][pc # "idle" => \/ Holder /\ Nearer
                               \/ UNCHANGED <<pc, i, j, len>>]_vars
<1>1. IInv => RowsLeft \in Nat /\ PairsLeft \in Nat
  BY DEF IInv, TypeOK, RowsLeft, PairsLeft
<1>2. IInv /\ [Next]_vars =>
        [pc # "idle" => \/ Holder /\ Nearer
                        \/ UNCHANGED <<pc, i, j, len>>]_vars
  BY HolderNearer, OnlyHolderMoves DEF IInv
<1>3. QED
  BY <1>1, <1>2, Invariant, PTL DEF Spec
=============================================================================

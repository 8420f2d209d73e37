-------------------------------- MODULE FIB --------------------------------
(***************************************************************************)
(* router.FIB (src/internal/router/fib.go) at the level of its memory: a   *)
(* backing array of entries written under mu, and the pointers into that   *)
(* array which Lookup hands out and its callers dereference after mu is    *)
(* released.                                                               *)
(*                                                                         *)
(* The lock holder works on `routes'.  Between two of its steps the last   *)
(* store may still be under way for everybody else: `mem' is the array     *)
(* before that store, and a load without the lock returns the old value,   *)
(* the new one or, for a field of several machine words, a mixture.        *)
(***************************************************************************)
EXTENDS Integers, FiniteSets

CONSTANTS Prefix,      \* the prefixes a route can have
          Addr,        \* the addresses that are looked up
          Bits,        \* [Prefix -> Nat]: netip.Prefix.Bits
          Covers,      \* [Prefix -> SUBSET Addr]: netip.Prefix.Contains
          Route,       \* the FIBEntry values the callers add
          Reader,      \* goroutines that look routes up
          Blank,       \* a slot of the array append has not written yet
          None,        \* no pointer, no call
          Nil,         \* the result nil
          Torn         \* a value mixed from two stores

ASSUME BitsAssumption == Bits \in [Prefix -> Nat]
ASSUME CoversAssumption == Covers \in [Prefix -> SUBSET Addr]
ASSUME RouteAssumption == \A e \in Route : e.prefix \in Prefix
ASSUME MarkAssumption == /\ {Blank, None, Nil} \cap Route = {}
                         /\ Cardinality({Blank, None, Nil, Torn}) = 4

VARIABLES routes,  \* the backing array as the lock holder sees it
          mem,     \* the array before the lock holder's last store
          len,     \* len(f.routes)
          cap,     \* cap(f.routes)
          pc,      \* "idle": mu is free; else what the holder of mu does
          i, j,    \* the indices of sort()
          ref,     \* the slot each reader's pointer points to, or 0
          copy,    \* the entry it points to outside the array, or None
          asked,   \* ghost: the call it made, or None
          want     \* ghost: what the call returned, or None

vars == <<routes, mem, len, cap, pc, i, j, ref, copy, asked, want>>
readers == <<ref, copy, asked, want>>

Used == 1..len
IsFirst(s, p) == /\ routes[s].prefix = p
                 /\ \A t \in 1..(s-1) : routes[t].prefix # p
BitsAt(s) == Bits[routes[s].prefix]

\* append's growth of an array of FIBEntry (104 bytes), as the Go runtime does it
Grow(c) == IF c = 0 THEN 1 ELSE 2 * c

Init == /\ len = 0 /\ cap = 0
        /\ routes = [s \in 1..0 |-> Blank] /\ mem = routes
        /\ pc = "idle" /\ i = 0 /\ j = 0
        /\ ref = [r \in Reader |-> 0]
        /\ copy = [r \in Reader |-> None]
        /\ asked = [r \in Reader |-> None]
        /\ want = [r \in Reader |-> None]

-----------------------------------------------------------------------------
(* The writers: Add and Remove hold mu from their first step to Unlock.    *)

StartSort == pc' = "sort" /\ i' = 1 /\ j' = 2

\* Add finds an entry of this prefix and overwrites it.
Replace(e) == /\ pc = "idle"
              /\ \E s \in Used : /\ IsFirst(s, e.prefix)
                                 /\ routes' = [routes EXCEPT ![s] = e]
              /\ mem' = routes
              /\ StartSort
              /\ UNCHANGED <<len, cap, readers>>

\* Mutant: Add appends without looking for an entry of the prefix.
IsNewUnchecked(e) == TRUE

IsNew(e) == \A s \in Used : routes[s].prefix # e.prefix

\* Add appends, and the array has room.
Append(e) == /\ pc = "idle" /\ IsNew(e) /\ len < cap
             /\ routes' = [routes EXCEPT ![len + 1] = e]
             /\ mem' = routes
             /\ len' = len + 1
             /\ StartSort
             /\ UNCHANGED <<cap, readers>>

\* Add appends to a full array: append moves the routes to a new one.  The
\* old array is never written again, so a pointer into it keeps its entry.
AppendGrow(e) ==
    /\ pc = "idle" /\ IsNew(e) /\ len = cap
    /\ cap' = Grow(cap)
    /\ routes' = [s \in 1..Grow(cap) |-> IF s <= len THEN routes[s]
                                         ELSE IF s = len + 1 THEN e ELSE Blank]
    /\ mem' = routes'
    /\ len' = len + 1
    /\ ref' = [r \in Reader |-> 0]
    /\ copy' = [r \in Reader |-> IF ref[r] = 0 THEN copy[r] ELSE routes[ref[r]]]
    /\ StartSort
    /\ UNCHANGED <<asked, want>>

Add(e) == Replace(e) \/ Append(e) \/ AppendGrow(e)

\* Mutant: Remove shortens the slice whether or not it found the prefix.
RemoveUnchecked(p) == /\ pc = "idle"
                      /\ mem' = routes /\ len' = len - 1 /\ pc' = "done"
                      /\ UNCHANGED <<routes, cap, i, j, readers>>

\* Mutant: Remove clears the slot that falls off the end, as slices.Delete does.
RemoveClearing(p) ==
    /\ pc = "idle"
    /\ \E s \in Used :
          /\ IsFirst(s, p)
          /\ routes' = [t \in 1..cap |->
                           IF t = len THEN Blank
                           ELSE IF t \in s..(len-1) THEN routes[t+1] ELSE routes[t]]
    /\ mem' = routes
    /\ len' = len - 1
    /\ pc' = "done"
    /\ UNCHANGED <<cap, i, j, readers>>

\* Remove moves the later entries down one slot and shortens the slice; the
\* slot that falls off the end keeps its last entry.
Remove(p) ==
    /\ pc = "idle"
    /\ \E s \in Used :
          /\ IsFirst(s, p)
          /\ routes' = [t \in 1..cap |->
                           IF t \in s..(len-1) THEN routes[t+1] ELSE routes[t]]
    /\ mem' = routes
    /\ len' = len - 1
    /\ pc' = "done"
    /\ UNCHANGED <<cap, i, j, readers>>

\* Mutant: sort() puts the shortest prefix first.
CompareReversed ==
    /\ pc = "sort" /\ i <= len /\ j <= len
    /\ routes' = IF BitsAt(j) < BitsAt(i)
                 THEN [routes EXCEPT ![i] = routes[j], ![j] = routes[i]]
                 ELSE routes
    /\ mem' = routes
    /\ j' = j + 1
    /\ UNCHANGED <<len, cap, pc, i, readers>>

\* One comparison of sort(), and the exchange when it calls for one.
Compare ==
    /\ pc = "sort" /\ i <= len /\ j <= len
    /\ routes' = IF BitsAt(j) > BitsAt(i)
                 THEN [routes EXCEPT ![i] = routes[j], ![j] = routes[i]]
                 ELSE routes
    /\ mem' = routes
    /\ j' = j + 1
    /\ UNCHANGED <<len, cap, pc, i, readers>>

\* Mutant: the outer loop of sort() does not advance.
NextRowStuck == /\ pc = "sort" /\ i <= len /\ j > len
                /\ j' = i + 1
                /\ mem' = routes
                /\ UNCHANGED <<i, routes, len, cap, pc, readers>>

NextRow == /\ pc = "sort" /\ i <= len /\ j > len
           /\ i' = i + 1 /\ j' = i + 2
           /\ mem' = routes
           /\ UNCHANGED <<routes, len, cap, pc, readers>>

Unlock == /\ pc = "done" \/ (pc = "sort" /\ i > len)
          /\ pc' = "idle" /\ i' = 0 /\ j' = 0
          /\ mem' = routes
          /\ UNCHANGED <<routes, len, cap, readers>>

-----------------------------------------------------------------------------
(* The readers: each search is one step, since it holds mu.RLock.          *)

Matching(a) == {s \in Used : a \in Covers[routes[s].prefix]}

\* Mutant: Lookup keeps the shortest match.
IsBestShortest(s, a) == /\ s \in Matching(a)
                        /\ \A t \in Matching(a) : BitsAt(t) >= BitsAt(s)

\* Lookup keeps the first entry that is strictly longer than those before it.
IsBest(s, a) == /\ s \in Matching(a)
                /\ \A t \in Matching(a) : \/ BitsAt(t) < BitsAt(s)
                                          \/ BitsAt(t) = BitsAt(s) /\ s <= t

Returns(r, call, slot, entry, result) ==
    /\ pc = "idle" /\ want[r] = None
    /\ ref' = [ref EXCEPT ![r] = slot]
    /\ copy' = [copy EXCEPT ![r] = entry]
    /\ asked' = [asked EXCEPT ![r] = call]
    /\ want' = [want EXCEPT ![r] = result]
    /\ UNCHANGED <<routes, mem, len, cap, pc, i, j>>

\* Lookup returns &f.routes[s]: the reader leaves with a pointer into the array.
Lookup(r, a) ==
    LET call == <<"lookup", a>>
    IN  \/ \E s \in Used : IsBest(s, a) /\ Returns(r, call, s, None, routes[s])
        \/ Matching(a) = {} /\ Returns(r, call, 0, None, Nil)

\* HasExact returns a pointer to a copy it made under the lock.
HasExact(r, p) ==
    LET call == <<"exact", p>>
    IN  \/ \E s \in Used : IsFirst(s, p) /\ Returns(r, call, 0, routes[s], routes[s])
        \/ /\ \A s \in Used : routes[s].prefix # p
           /\ Returns(r, call, 0, None, Nil)

\* The caller has read what it needs (forwardByFIB and Resolve return).
Finish(r) == /\ want[r] # None
             /\ ref' = [ref EXCEPT ![r] = 0]
             /\ copy' = [copy EXCEPT ![r] = None]
             /\ asked' = [asked EXCEPT ![r] = None]
             /\ want' = [want EXCEPT ![r] = None]
             /\ UNCHANGED <<routes, mem, len, cap, pc, i, j>>

-----------------------------------------------------------------------------
Holder == Compare \/ NextRow \/ Unlock

Next == \/ \E e \in Route : Add(e)
        \/ \E p \in Prefix : Remove(p)
        \/ Holder
        \/ \E r \in Reader : \/ \E a \in Addr : Lookup(r, a)
                             \/ \E p \in Prefix : HasExact(r, p)
                             \/ Finish(r)

Spec == Init /\ [][Next]_vars

\* Whoever holds mu runs straight-line code, so the scheduler lets it finish.
FairSpec == Spec /\ WF_vars(Holder)

-----------------------------------------------------------------------------
(* What a reader sees through its pointer, and when that is what it was    *)
(* promised.                                                               *)

Field == {"nextHop", "transport", "action", "outLabels"}

\* FIBAction is one byte; a string, an address or a slice is several words.
Load(old, new, f) ==
    {old[f], new[f]} \cup
    (IF f # "action" /\ old[f] # new[f] THEN {Torn} ELSE {})

Deref(r, f) == IF ref[r] # 0 THEN Load(mem[ref[r]], routes[ref[r]], f)
                             ELSE {copy[r][f]}

Holding == {r \in Reader : want[r] \notin {None, Nil}}
-----------------------------------------------------------------------------
(* Properties.                                                             *)

Stage == {"idle", "sort", "done"}
Array == [1..cap -> Route \cup {Blank}]

\* The shape of the state: the arrays of one Add, the stages of the lock.
TypeOK == /\ cap \in Nat /\ len \in 0..cap
          /\ routes \in Array /\ mem \in Array
          /\ pc \in Stage /\ i \in Nat /\ j \in Nat
          /\ ref \in [Reader -> 0..cap]
          /\ copy \in [Reader -> Route \cup {None}]
          /\ want \in [Reader -> Route \cup {None, Nil}]

\* The loop of Add over f.routes and the exchanges of sort never leave two
\* entries of one prefix, not even between two steps of the lock holder: a
\* duplicate would survive a Remove and keep a withdrawn route alive.
UniquePrefix == \A s, t \in Used : routes[s].prefix = routes[t].prefix => s = t

\* Whenever mu is free the routes are in the order sort() promises, longest
\* prefix first; Remove, which does not sort, leaves them in it.
Sorted == pc # "sort" => \A s, t \in Used : s < t => BitsAt(s) >= BitsAt(t)

\* A pointer returned by Lookup, dereferenced while no writer runs, shows all
\* the fields of one route that somebody added: perhaps another route than the
\* one looked up, never the zero FIBEntry.  It rests on Remove leaving the
\* entry beyond the new length in place.
IdleReadsWhole ==
    pc = "idle" => \A r \in Holding : \E e \in Route :
                       \A f \in Field : Deref(r, f) = {e[f]}

\* At every moment, also while a writer exchanges or moves entries, each field a
\* caller reads through its pointer was added by somebody or is a mixture of two
\* that were: a reader never acts on the zero FIBEntry of a slot that append
\* reserved, and never on an action nobody asked for.
NeverReadsBlank ==
    \A r \in Holding : \A f \in Field :
        Deref(r, f) \subseteq {e[f] : e \in Route}
                             \cup (IF f = "action" THEN {} ELSE {Torn})

\* What the callers of Lookup (forwardByFIB, Resolve) rely on, and the FIB
\* tests assert: each field read through the pointer is one that was added for
\* the prefix the lookup matched; a newer route of that prefix would do, and the
\* torn values of a load during a store are left aside.
PointerKeepsPrefix ==
    pc = "idle" => \A r \in Holding : \A f \in Field :
        Deref(r, f) \subseteq {e[f] : e \in {d \in Route : d.prefix = want[r].prefix}}

\* The FIB implements RouteTable: taking the exchanges of sort and the release
\* of mu as stutters, each Add, Remove, Lookup and HasExact has the effect of
\* one step on a map from prefixes to routes.
Table == [p \in Prefix |-> IF \E s \in Used : routes[s].prefix = p
                           THEN routes[CHOOSE s \in Used : routes[s].prefix = p]
                           ELSE None]
RT == INSTANCE RouteTable WITH table <- Table, answer <- want
ImplementsRouteTable == RT!Spec

\* Every Add and Remove gives mu back: sort() ends for every array.
WriterFinishes == pc # "idle" ~> pc = "idle"
=============================================================================

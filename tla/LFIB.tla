-------------------------------- MODULE LFIB --------------------------------
(***************************************************************************)
(* mpls.LFIB and its LabelAllocator (src/internal/mpls/lfib.go).  The map  *)
(* is guarded by a mutex; the allocator is lock-free: one atomic counter,  *)
(* reset by whichever caller runs past the last label.  The goroutines use *)
(* them as TestLFIBConcurrency does: allocate a label, add an entry for    *)
(* it, look it up, remove it.                                              *)
(***************************************************************************)
EXTENDS Integers, FiniteSets

CONSTANTS Thread,            \* goroutines that allocate labels
          LabelReservedMax,  \* 15 in the code
          LabelMax,          \* 0xFFFFF in the code
          Word,              \* 2^32: what uint32(v) keeps of the counter
          NoEntry            \* the nil *LFIBEntry

ASSUME ThreadAssumption == IsFiniteSet(Thread) /\ NoEntry \notin Thread
ASSUME LabelAssumption == /\ LabelReservedMax \in Nat /\ LabelMax \in Nat
                          /\ LabelReservedMax + 1 < LabelMax
ASSUME WordAssumption == /\ Word \in Nat
                         /\ LabelMax + Cardinality(Thread) < Word

VARIABLES next,     \* the counter of the allocator
          pc,       \* where each goroutine is
          label,    \* the label it was given, or 0
          entries,  \* the map of the LFIB: whose entry each label has
          wrapped   \* ghost: the counter has been reset

vars == <<next, pc, label, entries, wrapped>>

Label == (LabelReservedMax + 1)..LabelMax

Init == /\ next = LabelReservedMax + 1
        /\ pc = [t \in Thread |-> "idle"]
        /\ label = [t \in Thread |-> 0]
        /\ entries = [l \in Label |-> NoEntry]
        /\ wrapped = FALSE

Goto(t, from, to) == pc[t] = from /\ pc' = [pc EXCEPT ![t] = to]

-----------------------------------------------------------------------------
(* Allocate, one step for each atomic operation.                           *)

CallAllocate(t) == /\ Goto(t, "idle", "add")
                   /\ UNCHANGED <<next, label, entries, wrapped>>

\* Mutant: the test for the last label is off by one.
OutcomeLate(v) == LET l == v % Word
                  IN  IF l > LabelMax + 1 THEN "reset"
                      ELSE IF l <= LabelReservedMax THEN "add" ELSE "got"

\* The counter is 64 bits wide, the label is its low 32 bits.
Outcome(v) == LET l == v % Word
              IN  IF l > LabelMax THEN "reset"
                  ELSE IF l <= LabelReservedMax THEN "add" ELSE "got"

\* Mutant: the counter is read and written separately, so an addition is lost.
AddNextLost(t) == LET v == next + 1
                  IN  /\ Goto(t, "add", Outcome(v))
                      /\ next' \in {v, next}
                      /\ label' = [label EXCEPT
                            ![t] = IF Outcome(v) = "got" THEN v % Word ELSE 0]
                      /\ UNCHANGED <<entries, wrapped>>

AddNext(t) == LET v == next + 1
              IN  /\ Goto(t, "add", Outcome(v))
                  /\ next' = v
                  /\ label' = [label EXCEPT
                        ![t] = IF Outcome(v) = "got" THEN v % Word ELSE 0]
                  /\ UNCHANGED <<entries, wrapped>>

\* Mutant: the caller that runs past the last label retries without a reset.
StoreNextSkipped(t) == /\ Goto(t, "reset", "add")
                       /\ wrapped' = TRUE
                       /\ UNCHANGED <<next, label, entries>>

\* Mutant: the counter is reset to the wrong end of the range.
StoreNextLast(t) == /\ Goto(t, "reset", "add")
                    /\ next' = LabelMax
                    /\ wrapped' = TRUE
                    /\ UNCHANGED <<label, entries>>

StoreNext(t) == /\ Goto(t, "reset", "add")
                /\ next' = LabelReservedMax + 1
                /\ wrapped' = TRUE
                /\ UNCHANGED <<label, entries>>

-----------------------------------------------------------------------------
(* The map.                                                                *)

Add(t) == /\ Goto(t, "got", "added")
          /\ entries' = [entries EXCEPT ![label[t]] = t]
          /\ UNCHANGED <<next, label, wrapped>>

\* What Lookup of its label returns to a goroutine.
Lookup(t) == entries[label[t]]

\* Mutant: Remove stores a zero entry instead of deleting the key.
RemoveZeroing(t) == /\ Goto(t, "added", "idle")
                    /\ entries' = [entries EXCEPT ![label[t]] = 0]
                    /\ label' = [label EXCEPT ![t] = 0]
                    /\ UNCHANGED <<next, wrapped>>

\* Remove, and with it Release, which does nothing.
Remove(t) == /\ Goto(t, "added", "idle")
             /\ entries' = [entries EXCEPT ![label[t]] = NoEntry]
             /\ label' = [label EXCEPT ![t] = 0]
             /\ UNCHANGED <<next, wrapped>>

Allocating(t) == AddNext(t) \/ StoreNext(t)

Next == \E t \in Thread : CallAllocate(t) \/ Allocating(t) \/ Add(t) \/ Remove(t)

Spec == Init /\ [][Next]_vars

\* A goroutine inside Allocate is never blocked; its caller may stop anywhere.
FairSpec == Spec /\ \A t \in Thread : WF_vars(Allocating(t))

-----------------------------------------------------------------------------
(* Properties.                                                             *)

Resetting == {t \in Thread : pc[t] = "reset"}
HasLabel == {t \in Thread : pc[t] \in {"got", "added"}}

\* The shape of the state.
TypeOK == /\ next \in Nat
          /\ pc \in [Thread -> {"idle", "add", "reset", "got", "added"}]
          /\ label \in [Thread -> Nat]
          /\ entries \in [Label -> Thread \cup {NoEntry}]
          /\ wrapped \in BOOLEAN

\* Allocate returns usable labels only, whatever callers race with the reset of
\* the counter.  (The first label after the reserved ones is never returned.)
LabelsValid == \A t \in HasLabel : label[t] \in (LabelReservedMax + 2)..LabelMax

\* The counter runs past LabelMax by at most one for each goroutine about to
\* reset it, so it never leaves 32 bits: uint32(v) loses nothing, and the test
\* for reserved labels in Allocate never succeeds.
OvershootBounded == next <= LabelMax + Cardinality(Resetting)

\* Until the counter is first reset, a goroutine that added an entry for its
\* label finds it, whatever the others add and remove.
OwnEntryUntilWrap ==
    ~wrapped => \A t \in Thread : pc[t] = "added" => Lookup(t) = t

\* The same without the proviso, which is what TestLFIBConcurrency asserts: it
\* reports "entry not found for label" when the lookup gives nil.
OwnEntryFound == \A t \in Thread : pc[t] = "added" => Lookup(t) # NoEntry

\* Allocate is lock-free: while a goroutine is inside it, one gets a label in
\* the end, although each reset undoes the progress of the others.
SomeoneAllocates == (\E t \in Thread : pc[t] \in {"add", "reset"})
                        ~> (\E t \in Thread : pc[t] = "got")
=============================================================================

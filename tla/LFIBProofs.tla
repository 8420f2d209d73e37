----------------------------- MODULE LFIBProofs -----------------------------
(***************************************************************************)
(* The allocator and the map of LFIB, for every number of goroutines and   *)
(* every label space.                                                      *)
(***************************************************************************)
EXTENDS LFIB, FiniteSetTheorems, TLAPS

\* Until the first reset the counter is ahead of every label in use, and no two
\* goroutines have the same one.
FreshUntilWrap == ~wrapped => /\ \A t \in HasLabel : label[t] <= next
                              /\ \A t, u \in HasLabel : label[t] = label[u] => t = u

CounterStarts == next >= LabelReservedMax + 1

IInv == /\ TypeOK /\ LabelsValid /\ OvershootBounded /\ CounterStarts
        /\ FreshUntilWrap /\ OwnEntryUntilWrap

-----------------------------------------------------------------------------
\* The goroutines about to reset the counter are finitely many.
LEMMA ResettingFinite ==
  /\ IsFiniteSet(Resetting)
  /\ Cardinality(Resetting) \in Nat
  /\ Cardinality(Resetting) <= Cardinality(Thread)
<1>1. Resetting \subseteq Thread
  BY DEF Resetting
<1>2. QED
  BY <1>1, ThreadAssumption, FS_Subset, FS_CardinalityType

\* The low 32 bits of the next counter value are the value itself.
LEMMA NoTruncation ==
  ASSUME TypeOK, OvershootBounded, CounterStarts, NEW t \in Thread, pc[t] = "add"
  PROVE  /\ (next + 1) % Word = next + 1
         /\ Outcome(next + 1) = IF next + 1 > LabelMax THEN "reset" ELSE "got"
<1>1. Resetting \subseteq Thread \ {t}
  BY DEF Resetting
<1>2. /\ IsFiniteSet(Thread \ {t})
      /\ Cardinality(Thread \ {t}) = Cardinality(Thread) - 1
  BY ThreadAssumption, FS_RemoveElement
<1>3. Cardinality(Resetting) <= Cardinality(Thread) - 1
  BY <1>1, <1>2, FS_Subset
<1>4. Cardinality(Resetting) \in Nat /\ Cardinality(Thread) \in Nat
  BY ResettingFinite, ThreadAssumption, FS_CardinalityType
<1>5. next + 1 \in Nat /\ next + 1 < Word
  BY <1>3, <1>4, WordAssumption, LabelAssumption DEF TypeOK, OvershootBounded
<1>6. \A n \in Nat : n < Word => n % Word = n
  BY WordAssumption
<1>7. (next + 1) % Word = next + 1
  BY <1>5, <1>6
<1>8. next + 1 > LabelReservedMax
  BY LabelAssumption DEF CounterStarts, TypeOK
<1>9. QED
  BY <1>7, <1>8, LabelAssumption DEF Outcome, TypeOK
-----------------------------------------------------------------------------
LEMMA InitIInv == Init => IInv
<1> SUFFICES ASSUME Init PROVE IInv
  OBVIOUS
<1>1. TypeOK /\ CounterStarts
  <2>1. next \in Nat /\ next >= LabelReservedMax + 1
    BY LabelAssumption DEF Init
  <2>2. QED
    BY <2>1 DEF Init, TypeOK, CounterStarts
<1>2. HasLabel = {}
  BY DEF Init, HasLabel
<1>3. OvershootBounded
  <2>1. next = LabelReservedMax + 1
    BY DEF Init
  <2>2. QED
    BY <2>1, ResettingFinite, LabelAssumption DEF OvershootBounded
<1>4. QED
  BY <1>1, <1>2, <1>3 DEF Init, IInv, LabelsValid, FreshUntilWrap, OwnEntryUntilWrap

\* Steps that take nobody into or out of a reset.
LEMMA OvershootKept ==
  ASSUME OvershootBounded, next' = next, Resetting' = Resetting
  PROVE  OvershootBounded'
BY DEF OvershootBounded

LEMMA CallAllocateIInv ==
  ASSUME IInv, NEW t \in Thread, CallAllocate(t)
  PROVE  IInv'
<1> USE DEF IInv, CallAllocate, Goto
<1>1. TypeOK' /\ CounterStarts'
  BY DEF TypeOK, CounterStarts
<1>2. HasLabel' = HasLabel /\ Resetting' = Resetting
  BY DEF HasLabel, Resetting, TypeOK
<1>3. OvershootBounded'
  BY <1>2, OvershootKept
<1>4. LabelsValid' /\ FreshUntilWrap'
  BY <1>2 DEF LabelsValid, FreshUntilWrap
<1>5. OwnEntryUntilWrap'
  BY DEF OwnEntryUntilWrap, Lookup, TypeOK
<1>6. QED
  BY <1>1, <1>3, <1>4, <1>5

\* The atomic increment: either the caller leaves with a label that is ahead of
\* all the others, or it joins those that reset the counter.
LEMMA AddNextIInv ==
  ASSUME IInv, NEW t \in Thread, AddNext(t)
  PROVE  IInv'
<1> USE DEF IInv
<1>1. /\ pc[t] = "add" /\ pc' = [pc EXCEPT ![t] = Outcome(next + 1)]
      /\ next' = next + 1
      /\ label' = [label EXCEPT ![t] = IF Outcome(next + 1) = "got"
                                      THEN (next + 1) % Word ELSE 0]
      /\ UNCHANGED <<entries, wrapped>>
  BY DEF AddNext, Goto
<1>2. /\ (next + 1) % Word = next + 1
      /\ Outcome(next + 1) = IF next + 1 > LabelMax THEN "reset" ELSE "got"
  BY <1>1, NoTruncation
<1>3. TypeOK' /\ CounterStarts'
  BY <1>1, <1>2, LabelAssumption DEF TypeOK, CounterStarts
<1>4. OwnEntryUntilWrap'
  BY <1>1, <1>2 DEF OwnEntryUntilWrap, Lookup, TypeOK
<1>5. CASE next + 1 > LabelMax
  <2>1. Resetting' = Resetting \cup {t} /\ t \notin Resetting /\ HasLabel' = HasLabel
    BY <1>1, <1>2, <1>5 DEF Resetting, HasLabel, TypeOK
  <2>2. Cardinality(Resetting') = Cardinality(Resetting) + 1
    BY <2>1, ResettingFinite, FS_AddElement
  <2>3. OvershootBounded'
    BY <1>1, <2>2, ResettingFinite, LabelAssumption DEF OvershootBounded, TypeOK
  <2>4. t \notin HasLabel
    BY <1>1 DEF HasLabel
  <2>5. LabelsValid' /\ FreshUntilWrap'
    BY <1>1, <2>1, <2>4 DEF LabelsValid, FreshUntilWrap, HasLabel, TypeOK
  <2>6. QED
    BY <1>3, <1>4, <2>3, <2>5
<1>6. CASE next + 1 <= LabelMax
  <2>1. Outcome(next + 1) = "got"
    BY <1>2, <1>6, LabelAssumption DEF TypeOK
  <2>2. HasLabel' = HasLabel \cup {t} /\ Resetting' = Resetting
    BY <1>1, <2>1 DEF Resetting, HasLabel, TypeOK
  <2>3. OvershootBounded'
    BY <1>1, <1>6, <2>2, ResettingFinite, LabelAssumption DEF OvershootBounded, TypeOK
  <2>4. label'[t] = next + 1 /\ \A u \in Thread : u # t => label'[u] = label[u]
    BY <1>1, <1>2, <2>1 DEF TypeOK
  <2>5. t \notin HasLabel /\ HasLabel \subseteq Thread
    BY <1>1 DEF HasLabel
  <2>6. LabelsValid'
    BY <1>6, <2>2, <2>4, <2>5, LabelAssumption DEF LabelsValid, CounterStarts, TypeOK
  <2>7. FreshUntilWrap'
    BY <1>1, <2>2, <2>4, <2>5 DEF FreshUntilWrap, TypeOK
  <2>8. QED
    BY <1>3, <1>4, <2>3, <2>6, <2>7
<1>7. QED
  BY <1>5, <1>6, LabelAssumption DEF TypeOK

\* The reset: the counter returns to its start, whoever else is about to reset.
LEMMA StoreNextIInv ==
  ASSUME IInv, NEW t \in Thread, StoreNext(t)
  PROVE  IInv'
<1> USE DEF IInv
<1>1. /\ pc[t] = "reset" /\ pc' = [pc EXCEPT ![t] = "add"]
      /\ next' = LabelReservedMax + 1 /\ wrapped' = TRUE
      /\ UNCHANGED <<label, entries>>
  BY DEF StoreNext, Goto
<1>2. TypeOK' /\ CounterStarts'
  BY <1>1, LabelAssumption DEF TypeOK, CounterStarts
<1>3. IsFiniteSet(Resetting')
  <2>1. Resetting' \subseteq Thread
    BY DEF Resetting
  <2>2. QED
    BY <2>1, ThreadAssumption, FS_Subset
<1>4. OvershootBounded'
  BY <1>1, <1>3, FS_CardinalityType, LabelAssumption DEF OvershootBounded
<1>5. LabelsValid'
  BY <1>1 DEF LabelsValid, HasLabel, TypeOK
<1>6. FreshUntilWrap' /\ OwnEntryUntilWrap'
  BY <1>1 DEF FreshUntilWrap, OwnEntryUntilWrap
<1>7. QED
  BY <1>2, <1>4, <1>5, <1>6

\* Adding an entry for a label nobody else has leaves the others' entries.
LEMMA AddIInv ==
  ASSUME IInv, NEW t \in Thread, Add(t)
  PROVE  IInv'
<1> USE DEF IInv
<1>1. /\ pc[t] = "got" /\ pc' = [pc EXCEPT ![t] = "added"]
      /\ entries' = [entries EXCEPT ![label[t]] = t]
      /\ UNCHANGED <<next, label, wrapped>>
  BY DEF Add, Goto
<1>2. TypeOK' /\ CounterStarts'
  BY <1>1 DEF TypeOK, CounterStarts
<1>3. HasLabel' = HasLabel /\ Resetting' = Resetting /\ t \in HasLabel
  BY <1>1 DEF HasLabel, Resetting, TypeOK
<1>4. OvershootBounded'
  BY <1>1, <1>3, OvershootKept
<1>5. LabelsValid' /\ FreshUntilWrap'
  BY <1>1, <1>3 DEF LabelsValid, FreshUntilWrap
<1>6. \A u \in HasLabel : label[u] \in Label
  BY LabelAssumption DEF LabelsValid, Label
<1>7. OwnEntryUntilWrap'
  BY <1>1, <1>3, <1>6 DEF OwnEntryUntilWrap, FreshUntilWrap, HasLabel, Lookup, TypeOK
<1>8. QED
  BY <1>2, <1>4, <1>5, <1>7

LEMMA RemoveIInv ==
  ASSUME IInv, NEW t \in Thread, Remove(t)
  PROVE  IInv'
<1> USE DEF IInv
<1>1. /\ pc[t] = "added" /\ pc' = [pc EXCEPT ![t] = "idle"]
      /\ entries' = [entries EXCEPT ![label[t]] = NoEntry]
      /\ label' = [label EXCEPT ![t] = 0]
      /\ UNCHANGED <<next, wrapped>>
  BY DEF Remove, Goto
<1>2. TypeOK' /\ CounterStarts'
  BY <1>1 DEF TypeOK, CounterStarts
<1>3. HasLabel' = HasLabel \ {t} /\ Resetting' = Resetting /\ t \in HasLabel
  BY <1>1 DEF HasLabel, Resetting, TypeOK
<1>4. OvershootBounded'
  BY <1>1, <1>3, OvershootKept
<1>5. \A u \in HasLabel \ {t} : u \in Thread /\ label'[u] = label[u]
  BY <1>1 DEF HasLabel, TypeOK
<1>6. LabelsValid' /\ FreshUntilWrap'
  BY <1>1, <1>3, <1>5 DEF LabelsValid, FreshUntilWrap
<1>7. \A u \in HasLabel : label[u] \in Label
  BY LabelAssumption DEF LabelsValid, Label
<1>8. OwnEntryUntilWrap'
  BY <1>1, <1>3, <1>5, <1>7 DEF OwnEntryUntilWrap, FreshUntilWrap, HasLabel, Lookup, TypeOK
<1>9. QED
  BY <1>2, <1>4, <1>6, <1>8

-----------------------------------------------------------------------------
LEMMA NextIInv == IInv /\ [Next]_vars => IInv'
<1> SUFFICES ASSUME IInv, [Next]_vars PROVE IInv'
  OBVIOUS
<1>1. CASE UNCHANGED vars
  BY <1>1 DEF vars, IInv, TypeOK, LabelsValid, OvershootBounded, CounterStarts,
              FreshUntilWrap, OwnEntryUntilWrap, HasLabel, Resetting, Lookup
<1>2. CASE Next
  BY <1>2, CallAllocateIInv, AddNextIInv, StoreNextIInv, AddIInv, RemoveIInv
     DEF Next, Allocating
<1>3. QED
  BY <1>1, <1>2

THEOREM Invariant == Spec => []IInv
BY InitIInv, NextIInv, PTL DEF Spec

\* The state of the LFIB and its allocator keeps its shape.
THEOREM TypeCorrect == Spec => []TypeOK
<1>1. IInv => TypeOK
  BY DEF IInv
<1>2. QED
  BY <1>1, Invariant, PTL

\* Allocate never returns a reserved label or one beyond LabelMax, for any
\* number of goroutines racing with the reset of the counter.
THEOREM AllocateReturnsValidLabels == Spec => []LabelsValid
<1>1. IInv => LabelsValid
  BY DEF IInv
<1>2. QED
  BY <1>1, Invariant, PTL

\* The counter of Allocate overshoots by the number of goroutines about to
\* reset it, so with fewer than 2^32 - LabelMax of them uint32(v) is exact.
THEOREM CounterBounded == Spec => []OvershootBounded
<1>1. IInv => OvershootBounded
  BY DEF IInv
<1>2. QED
  BY <1>1, Invariant, PTL

\* Until the counter is reset, LFIB.Lookup of a goroutine's label returns the
\* entry it added.
THEOREM EntriesOwnedUntilWrap == Spec => []OwnEntryUntilWrap
<1>1. IInv => OwnEntryUntilWrap
  BY DEF IInv
<1>2. QED
  BY <1>1, Invariant, PTL
=============================================================================

----------------------------- MODULE RouteTable -----------------------------
(***************************************************************************)
(* What a forwarding table promises its callers: at most one route for     *)
(* each prefix, and a lookup answered with a route of the longest prefix   *)
(* that covers the address.  There is no array, no lock and no sort here:  *)
(* FIB is shown to implement this.                                         *)
(***************************************************************************)
EXTENDS Integers

CONSTANTS Prefix,   \* the prefixes a route can have
          Addr,     \* the addresses that are looked up
          Bits,     \* [Prefix -> Nat], the length of a prefix
          Covers,   \* [Prefix -> SUBSET Addr], the addresses it contains
          Route,    \* the routes, records with a field prefix
          Reader,   \* the callers of the lookups
          None,     \* no route, or no call
          Nil       \* the answer "no such route"

VARIABLES table,    \* the route of each prefix, or None
          asked,    \* what each reader has asked for, or None
          answer    \* the answer it is using, or None

tvars == <<table, asked, answer>>

Present == {p \in Prefix : table[p] # None}
Matching(a) == {p \in Present : a \in Covers[p]}
Longest(P) == {p \in P : \A q \in P : Bits[q] <= Bits[p]}

Init == /\ table = [p \in Prefix |-> None]
        /\ asked = [r \in Reader |-> None]
        /\ answer = [r \in Reader |-> None]

Put(e) == /\ table' = [table EXCEPT ![e.prefix] = e]
          /\ UNCHANGED <<asked, answer>>

Withdraw(p) == /\ table' = [table EXCEPT ![p] = None]
               /\ UNCHANGED <<asked, answer>>

Answers(r, question, P) ==
    /\ answer[r] = None
    /\ asked' = [asked EXCEPT ![r] = question]
    /\ \/ \E p \in P : answer' = [answer EXCEPT ![r] = table[p]]
       \/ P = {} /\ answer' = [answer EXCEPT ![r] = Nil]
    /\ UNCHANGED table

\* Any route of the longest length will do: two prefixes of one length can
\* cover one address when their host bits differ (10.0.0.1/24, 10.0.0.2/24).
Ask(r, a) == Answers(r, <<"lookup", a>>, Longest(Matching(a)))

AskExact(r, p) == Answers(r, <<"exact", p>>, Present \cap {p})

Forget(r) == /\ answer[r] # None
             /\ asked' = [asked EXCEPT ![r] = None]
             /\ answer' = [answer EXCEPT ![r] = None]
             /\ UNCHANGED table

Next == \/ \E e \in Route : Put(e)
        \/ \E p \in Prefix : Withdraw(p)
        \/ \E r \in Reader : \/ \E a \in Addr : Ask(r, a)
                             \/ \E p \in Prefix : AskExact(r, p)
                             \/ Forget(r)

Spec == Init /\ [][Next]_tvars
=============================================================================

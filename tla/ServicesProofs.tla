--------------------------- MODULE ServicesProofs ---------------------------
(***************************************************************************)
(* The safety of Services for every set of peers and rules, every window   *)
(* and every number of chunks.                                             *)
(***************************************************************************)
EXTENDS Services, TLAPS

-----------------------------------------------------------------------------
(* The relayed connection.                                                 *)

\* What the copier from a side has read and not yet written.
Hand(s) == IF copy[s] = "write" THEN 1 ELSE 0

\* Nothing is doubled: what the other side has got, what flies to it, what is in hand
\* and what is unread are at most what was sent.
Flow == \A s \in Rly!Side :
           got[Rly!Other(s)] + flying[Rly!Other(s)] + Hand(s) + unread[s] <= sent[s]

\* While the other side stays and says nothing, all of what a side sends gets there,
\* and the relay closes the other side only for the end of that stream.
HeardBy(s, o) ==
    app[o] = "open" /\ sent[o] = 0 =>
        IF ours[o] = "open"
        THEN /\ ours[s] = "open" /\ copy[o] = "read" /\ unread[o] = 0
             /\ got[o] + flying[o] + Hand(s) + unread[s] = sent[s]
             /\ copy[s] = "done" => unread[s] = 0 /\ app[s] = "closed"
        ELSE /\ app[s] = "closed" /\ copy[s] = "done"
             /\ got[o] + flying[o] = sent[s]

RlyInv == Rly!TypeOK /\ Flow /\ \A s \in Rly!Side : HeardBy(s, Rly!Other(s))

LEMMA Sides ==
  /\ Rly!Side = {"kernel", "peer"} /\ Rly!Other("kernel") = "peer" /\ Rly!Other("peer") = "kernel"
  /\ \A s \in Rly!Side : Rly!Other(s) \in Rly!Side /\ Rly!Other(s) # s /\ Rly!Other(Rly!Other(s)) = s
BY DEF Rly!Side, Rly!Other

\* The invariant as it stands for one side and the other.
Pair(s, o) == /\ got[o] + flying[o] + Hand(s) + unread[s] <= sent[s]
              /\ got[s] + flying[s] + Hand(o) + unread[o] <= sent[o]
              /\ HeardBy(s, o) /\ HeardBy(o, s)

Ranges == \A t \in Rly!Side : /\ sent[t] \in 0..MaxSent /\ unread[t] \in 0..MaxSent
                              /\ flying[t] \in 0..Window /\ got[t] \in 0..MaxSent
                              /\ Hand(t) \in {0, 1}

\* What adds up to nothing is nothing.
LEMMA NoSum ==
  ASSUME NEW a \in Nat, NEW b \in Nat, NEW c \in Nat, NEW d \in Nat, a + b + c + d <= 0
  PROVE  d = 0
OBVIOUS

LEMMA RlyFacts ==
  ASSUME RlyInv, NEW s \in Rly!Side, NEW o, o = Rly!Other(s)
  PROVE  /\ o \in Rly!Side /\ o # s /\ (\A t \in Rly!Side : t \in {s, o})
         /\ Rly!TypeOK /\ Pair(s, o) /\ Ranges
         /\ MaxSent \in Nat /\ Window \in Nat
<1>1. o \in Rly!Side /\ o # s /\ Rly!Other(o) = s /\ \A t \in Rly!Side : t \in {s, o}
  BY Sides
<1>2. Rly!TypeOK /\ Pair(s, o)
  BY <1>1 DEF RlyInv, Flow, Pair
<1>3. Ranges
  BY <1>2 DEF Ranges, Rly!TypeOK, Hand
<1>4. QED
  BY <1>1, <1>2, <1>3, BoundAssumption

LEMMA RlyPaired ==
  ASSUME NEW s \in Rly!Side, Rly!TypeOK', Pair(s, Rly!Other(s))'
  PROVE  RlyInv'
<1> DEFINE o == Rly!Other(s)
<1>1. o \in Rly!Side /\ Rly!Other(o) = s /\ \A t \in Rly!Side : t \in {s, o}
  BY Sides
<1>2. Flow'
  BY <1>1 DEF Flow, Pair
<1>3. (\A t \in Rly!Side : HeardBy(t, Rly!Other(t)))'
  BY <1>1 DEF Pair
<1>4. QED
  BY <1>2, <1>3 DEF RlyInv

LEMMA SendInv ==
  ASSUME RlyInv, NEW s \in Rly!Side, Rly!Send(s)
  PROVE  RlyInv'
<1> DEFINE o == Rly!Other(s)
<1> HIDE DEF o
<1> USE RlyFacts DEF o
<1>1. /\ app[s] = "open" /\ ours[s] = "open" /\ sent[s] < MaxSent
      /\ sent' = [sent EXCEPT ![s] = sent[s] + 1]
      /\ unread' = [unread EXCEPT ![s] = unread[s] + 1]
      /\ UNCHANGED <<relay, copy, ours, app, flying, got>>
  BY DEF Rly!Send, Rly!Apps
<1>2. sent[s] + 1 \in 0..MaxSent /\ unread[s] + 1 \in 0..MaxSent
  BY <1>1 DEF Pair, Ranges
<1>3. Rly!TypeOK'
  BY <1>1, <1>2 DEF Rly!TypeOK
<1>4. /\ sent'[s] = sent[s] + 1 /\ unread'[s] = unread[s] + 1
      /\ sent'[o] = sent[o] /\ unread'[o] = unread[o]
      /\ copy' = copy /\ flying' = flying /\ got' = got /\ app' = app /\ ours' = ours
  BY <1>1 DEF Rly!TypeOK
<1>5. Pair(s, o)'
  BY <1>1, <1>4 DEF Pair, Ranges, HeardBy, Hand
<1>6. QED
  BY <1>3, <1>5, RlyPaired

LEMMA ReceiveInv ==
  ASSUME RlyInv, NEW s \in Rly!Side, Rly!Receive(s)
  PROVE  RlyInv'
<1> DEFINE o == Rly!Other(s)
<1> HIDE DEF o
<1> USE RlyFacts DEF o
<1>1. /\ app[s] = "open" /\ flying[s] > 0
      /\ flying' = [flying EXCEPT ![s] = flying[s] - 1]
      /\ got' = [got EXCEPT ![s] = got[s] + 1]
      /\ UNCHANGED <<relay, copy, ours, app, sent, unread>>
  BY DEF Rly!Receive, Rly!Apps
<1>2. flying[s] - 1 \in 0..Window /\ got[s] + 1 \in 0..MaxSent
  BY <1>1 DEF Pair, Ranges
<1>3. Rly!TypeOK'
  BY <1>1, <1>2 DEF Rly!TypeOK
<1>4. /\ flying'[s] = flying[s] - 1 /\ got'[s] = got[s] + 1
      /\ flying'[o] = flying[o] /\ got'[o] = got[o]
      /\ copy' = copy /\ sent' = sent /\ unread' = unread /\ app' = app /\ ours' = ours
  BY <1>1 DEF Rly!TypeOK
<1>5. Pair(s, o)'
  BY <1>1, <1>4 DEF Pair, Ranges, HeardBy, Hand
<1>6. QED
  BY <1>3, <1>5, RlyPaired

LEMMA LeaveInv ==
  ASSUME RlyInv, NEW s \in Rly!Side, Rly!Leave(s)
  PROVE  RlyInv'
<1> DEFINE o == Rly!Other(s)
<1> HIDE DEF o
<1> USE RlyFacts DEF o
<1>1. /\ app[s] = "open"
      /\ app' = [app EXCEPT ![s] = "closed"]
      /\ flying' = [flying EXCEPT ![s] = 0]
      /\ UNCHANGED <<relay, copy, ours, sent, unread, got>>
  BY DEF Rly!Leave, Rly!Apps
<1>2. Rly!TypeOK'
  BY <1>1 DEF Rly!TypeOK
<1>3. /\ flying'[s] = 0 /\ app'[s] = "closed"
      /\ flying'[o] = flying[o] /\ app'[o] = app[o]
      /\ copy' = copy /\ sent' = sent /\ unread' = unread /\ got' = got /\ ours' = ours
  BY <1>1 DEF Rly!TypeOK
<1>4. Pair(s, o)'
  BY <1>1, <1>3 DEF Pair, Ranges, HeardBy, Hand
<1>5. QED
  BY <1>2, <1>4, RlyPaired

\* A copier moves what it has; it is done only at the end of the stream, or when the
\* other side is gone.
LEMMA CopierInv ==
  ASSUME RlyInv, NEW s \in Rly!Side, Rly!Copier(s)
  PROVE  RlyInv'
<1> DEFINE o == Rly!Other(s)
<1> HIDE DEF o
<1> USE RlyFacts DEF o
<1>1. UNCHANGED <<relay, app, sent, ours, got>>
  BY DEF Rly!Copier, Rly!Read, Rly!ReadEnds, Rly!Write, Rly!WriteFails, Rly!Copies
<1>2. CASE Rly!Read(s)
  <2>1. /\ ours[s] = "open" /\ unread[s] > 0 /\ copy[s] = "read"
        /\ unread' = [unread EXCEPT ![s] = unread[s] - 1]
        /\ copy' = [copy EXCEPT ![s] = "write"] /\ flying' = flying
    BY <1>2 DEF Rly!Read, Rly!Copies
  <2>2. unread[s] - 1 \in 0..MaxSent
    BY <2>1 DEF Ranges
  <2>3. Rly!TypeOK'
    BY <1>1, <2>1, <2>2 DEF Rly!TypeOK
  <2>4. /\ unread'[s] = unread[s] - 1 /\ copy'[s] = "write"
        /\ unread'[o] = unread[o] /\ copy'[o] = copy[o]
    BY <2>1 DEF Rly!TypeOK
  <2>5. Pair(s, o)'
    BY <1>1, <2>1, <2>4 DEF Pair, Ranges, HeardBy, Hand
  <2>6. QED
    BY <2>3, <2>5, RlyPaired
<1>3. CASE Rly!ReadEnds(s)
  <2>1. /\ (app[s] = "closed" /\ unread[s] = 0) \/ ours[s] = "closed"
        /\ copy[s] = "read" /\ copy' = [copy EXCEPT ![s] = "done"]
        /\ UNCHANGED <<unread, flying>>
    BY <1>3 DEF Rly!ReadEnds, Rly!Copies
  <2>2. Rly!TypeOK'
    BY <1>1, <2>1 DEF Rly!TypeOK
  <2>3. copy'[s] = "done" /\ copy'[o] = copy[o] /\ unread' = unread /\ flying' = flying
    BY <2>1 DEF Rly!TypeOK
  <2>4. Pair(s, o)'
    BY <1>1, <2>1, <2>3 DEF Pair, Ranges, HeardBy, Hand
  <2>5. QED
    BY <2>2, <2>4, RlyPaired
<1>4. CASE Rly!Write(s)
  <2>1. /\ ours[o] = "open" /\ flying[o] < Window /\ copy[s] = "write"
        /\ flying' = [flying EXCEPT ![o] = IF app[o] = "open" THEN flying[o] + 1 ELSE flying[o]]
        /\ copy' = [copy EXCEPT ![s] = "read"] /\ unread' = unread
    BY <1>4 DEF Rly!Write, Rly!Copies
  <2>2. (IF app[o] = "open" THEN flying[o] + 1 ELSE flying[o]) \in 0..Window
    BY <2>1 DEF Ranges
  <2>3. Rly!TypeOK'
    BY <1>1, <2>1, <2>2 DEF Rly!TypeOK
  <2>4. /\ flying'[o] = IF app[o] = "open" THEN flying[o] + 1 ELSE flying[o]
        /\ flying'[s] = flying[s] /\ copy'[s] = "read" /\ copy'[o] = copy[o]
    BY <2>1 DEF Rly!TypeOK
  <2>5. Pair(s, o)'
    BY <1>1, <2>1, <2>4 DEF Pair, Ranges, HeardBy, Hand
  <2>6. QED
    BY <2>3, <2>5, RlyPaired
<1>5. CASE Rly!WriteFails(s)
  <2>1. /\ ours[o] = "closed" \/ app[o] = "closed"
        /\ copy[s] = "write" /\ copy' = [copy EXCEPT ![s] = "done"]
        /\ UNCHANGED <<unread, flying>>
    BY <1>5 DEF Rly!WriteFails, Rly!Copies
  <2>2. Rly!TypeOK'
    BY <1>1, <2>1 DEF Rly!TypeOK
  <2>3. copy'[s] = "done" /\ copy'[o] = copy[o] /\ unread' = unread /\ flying' = flying
    BY <2>1 DEF Rly!TypeOK
  <2>4. app \in [Rly!Side -> {"open", "closed"}] /\ ours \in [Rly!Side -> {"open", "closed"}]
    BY DEF Rly!TypeOK
  <2>5. Pair(s, o)'
    BY <1>1, <2>1, <2>3, <2>4 DEF Pair, Ranges, HeardBy, Hand
  <2>6. QED
    BY <2>2, <2>5, RlyPaired
<1>6. QED
  BY <1>2, <1>3, <1>4, <1>5 DEF Rly!Copier

\* The relay closes: a side that stayed and said nothing has what was sent on its way.
LEMMA FinishInv ==
  ASSUME RlyInv, Rly!Finish
  PROVE  RlyInv'
<1> USE RlyFacts, Sides
<1>1. PICK lost \in SUBSET {s \in Rly!Closed : unread[s] > 0} :
         flying' = [s \in Rly!Side |-> IF s \in lost THEN 0 ELSE flying[s]]
  BY DEF Rly!Finish
<1>2. /\ ours' = [s \in Rly!Side |-> IF s \in Rly!Closed THEN "closed" ELSE ours[s]]
      /\ unread' = [s \in Rly!Side |-> IF s \in Rly!Closed THEN 0 ELSE unread[s]]
      /\ Rly!Done /\ UNCHANGED <<relay, app, sent, copy, got>>
  BY DEF Rly!Finish
<1>3. Rly!TypeOK'
  <2>1. Rly!TypeOK /\ 0 \in 0..MaxSent /\ 0 \in 0..Window
    BY DEF RlyInv
  <2>2. /\ flying' \in [Rly!Side -> 0..Window] /\ unread' \in [Rly!Side -> 0..MaxSent]
        /\ ours' \in [Rly!Side -> {"open", "closed"}]
    BY <1>1, <1>2, <2>1 DEF Rly!TypeOK
  <2>3. QED
    BY <1>2, <2>1, <2>2 DEF Rly!TypeOK
<1>4. ASSUME NEW s \in Rly!Side, NEW o \in Rly!Side, o = Rly!Other(s)
      PROVE  HeardBy(s, o)' /\ (got[o] + flying[o] + Hand(s) + unread[s] <= sent[s])'
  <2>1. /\ flying'[o] \in {0, flying[o]} /\ unread'[s] \in {0, unread[s]}
        /\ (unread[o] = 0 => flying'[o] = flying[o])
        /\ (unread[o] = 0 => unread'[o] = 0)
    BY <1>1, <1>2, <1>4 DEF Ranges
  <2>2. /\ got'[o] = got[o] /\ sent'[s] = sent[s] /\ sent'[o] = sent[o] /\ copy' = copy
        /\ app'[o] = app[o] /\ app'[s] = app[s]
        /\ ours'[o] = IF o \in Rly!Closed THEN "closed" ELSE ours[o]
        /\ ours'[s] = IF s \in Rly!Closed THEN "closed" ELSE ours[s]
    BY <1>2, <1>4
  <2>3. (got[o] + flying[o] + Hand(s) + unread[s] <= sent[s])'
    BY <1>4, <2>1, <2>2 DEF Pair, Ranges, Hand
  <2>4. HeardBy(s, o)'
    <3> SUFFICES ASSUME app[o] = "open", sent[o] = 0
                 PROVE  HeardBy(s, o)'
      BY <2>2 DEF HeardBy
    <3>1. CASE ours[o] = "closed"
      <4>1. app[s] = "closed" /\ copy[s] = "done" /\ got[o] + flying[o] = sent[s]
        BY <1>4, <3>1 DEF Pair, HeardBy
      <4>2. got[s] + flying[s] + Hand(o) + unread[o] <= sent[o]
        BY <1>4 DEF Pair
      <4>3. unread[o] = 0 /\ flying'[o] = flying[o]
        <5>1. /\ got[s] \in Nat /\ flying[s] \in Nat /\ Hand(o) \in Nat /\ unread[o] \in Nat
          BY <1>4 DEF Ranges
        <5>2. got[s] + flying[s] + Hand(o) + unread[o] <= 0
          BY <4>2
        <5>3. unread[o] = 0
          BY <5>1, <5>2, NoSum
        <5>4. QED
          BY <2>1, <5>3
      <4>4. ours'[o] = "closed"
        BY <2>2, <3>1
      <4>5. QED
        BY <2>2, <4>1, <4>3, <4>4 DEF HeardBy
    <3>2. CASE ours[o] = "open"
      <4>1. /\ ours[s] = "open" /\ copy[o] = "read" /\ unread[o] = 0
            /\ got[o] + flying[o] + Hand(s) + unread[s] = sent[s]
            /\ copy[s] = "done" => unread[s] = 0 /\ app[s] = "closed"
        BY <1>4, <3>2 DEF Pair, HeardBy
      <4>2. relay \in {"outbound", "inbound", "forward"}
        BY <1>4 DEF Rly!TypeOK
      <4>3. o \in Rly!Closed /\ copy[s] = "done"
        BY <1>2, <1>4, <4>1, <4>2 DEF Rly!Done, Rly!Closed
      <4>4. got[o] + flying'[o] = sent[s]
        BY <1>4, <2>1, <4>1, <4>3 DEF Hand, Ranges
      <4>5. QED
        BY <2>2, <4>1, <4>3, <4>4 DEF HeardBy
    <3>3. QED
      <4>1. ours[o] \in {"open", "closed"}
        BY <1>4 DEF Rly!TypeOK
      <4>2. QED
        BY <3>1, <3>2, <4>1
  <2>5. QED
    BY <2>3, <2>4
<1>5. Pair("kernel", "peer")'
  BY <1>4 DEF Pair
<1>6. QED
  BY <1>3, <1>5, RlyPaired

LEMMA RlyNextInv ==
  ASSUME RlyInv, Rly!Next
  PROVE  RlyInv'
BY SendInv, ReceiveInv, LeaveInv, CopierInv, FinishInv DEF Rly!Next, Rly!AppStep

-----------------------------------------------------------------------------
(* The proxies.                                                            *)

\* A peer's proxy, the listener at its address and the loop on it know each other.
Identity ==
    /\ \A p \in Peer : proxies[p] # 0 => /\ proxies[p] < nextIP /\ outln[proxies[p]] # "none"
                                         /\ outloop[proxies[p]].peer = p
    /\ \A i \in Prx!IP : outln[i] # "none" => /\ outloop[i].peer \in Peer
                                              /\ proxies[outloop[i].peer] = i

\* How far Start is, with what the manager knows of by then.
Tracked ==
    /\ starting \in {"peers", "failed"} => \A f \in Family : inln[f] = "none"
    /\ starting \notin {"peers", "failed"} => inln["v4"] # "none"
    /\ \A f \in inboundLns : inln[f] # "none"
    /\ stopped = "no" => \A f \in Family : inln[f] # "closed"
    /\ starting \in {"track6", "done"} => "v4" \in inboundLns
    /\ starting = "done" => \A f \in Family : inln[f] # "none" => f \in inboundLns
    /\ stopped = "after" => starting \in {"done", "failed"}

PrxInv == Prx!TypeOK /\ Identity /\ Tracked /\ StopClosesAll

LEMMA PrxFacts ==
  ASSUME PrxInv
  PROVE  /\ proxies \in [Peer -> 0..MaxIP] /\ nextIP \in 1..(MaxIP + 1)
         /\ outln \in [Prx!IP -> {"none", "open", "closed"}]
         /\ outloop \in [Prx!IP -> [at : {"none", "accept", "ended"}, peer : Peer \cup {None}]]
         /\ inln \in [Family -> {"none", "open", "closed"}]
         /\ inloop \in [Family -> {"none", "accept", "ended"}]
         /\ inboundLns \subseteq Family /\ MaxIP \in Nat
         /\ "v4" \in Family /\ Family \subseteq {"v4", "v6"}
BY BoundAssumption, FamilyAssumption DEF PrxInv, Prx!TypeOK

LEMMA CreateProxyInv ==
  ASSUME PrxInv, NEW p \in Peer, Prx!CreateProxy(p)
  PROVE  PrxInv'
<1> USE PrxFacts
<1>1. /\ proxies[p] = 0 /\ nextIP <= MaxIP /\ starting = "peers"
      /\ nextIP' = nextIP + 1
      /\ proxies' = [proxies EXCEPT ![p] = nextIP]
      /\ outln' = [outln EXCEPT ![nextIP] = "open"]
      /\ outloop' = [outloop EXCEPT ![nextIP] = [at |-> "accept", peer |-> p]]
      /\ UNCHANGED <<ports, ctx, starting, inln, inboundLns, inloop, stopped>>
  BY DEF Prx!CreateProxy
<1>2. nextIP \in Prx!IP /\ nextIP # 0
  BY <1>1 DEF Prx!IP
<1>3. Prx!TypeOK'
  <2>1. /\ proxies' \in [Peer -> 0..MaxIP] /\ nextIP' \in 1..(MaxIP + 1)
        /\ outln' \in [Prx!IP -> {"none", "open", "closed"}]
    BY <1>1, <1>2
  <2>2. outloop' \in [Prx!IP -> [at : {"none", "accept", "ended"}, peer : Peer \cup {None}]]
    BY <1>1, <1>2
  <2>3. QED
    BY <1>1, <2>1, <2>2 DEF PrxInv, Prx!TypeOK
<1>4. Identity'
  <2>1. \A q \in Peer : proxies[q] # nextIP
    BY <1>2 DEF PrxInv, Identity
  <2>2. ASSUME NEW q \in Peer, proxies'[q] # 0
        PROVE  /\ proxies'[q] < nextIP' /\ outln'[proxies'[q]] # "none"
               /\ outloop'[proxies'[q]].peer = q
    <3>1. CASE q = p
      BY <1>1, <1>2, <3>1
    <3>2. CASE q # p
      <4>1. /\ proxies'[q] = proxies[q] /\ proxies[q] \in Prx!IP /\ proxies[q] # nextIP
        BY <1>1, <2>1, <2>2, <3>2 DEF Prx!IP
      <4>2. proxies[q] < nextIP /\ outln[proxies[q]] # "none" /\ outloop[proxies[q]].peer = q
        BY <2>2, <4>1 DEF PrxInv, Identity
      <4>3. QED
        BY <1>1, <4>1, <4>2 DEF Prx!IP
    <3>3. QED
      BY <3>1, <3>2
  <2>3. ASSUME NEW i \in Prx!IP, outln'[i] # "none"
        PROVE  outloop'[i].peer \in Peer /\ proxies'[outloop'[i].peer] = i
    <3>1. CASE i = nextIP
      BY <1>1, <1>2, <3>1
    <3>2. CASE i # nextIP
      <4>1. outln[i] # "none" /\ outloop'[i] = outloop[i]
        BY <1>1, <2>3, <3>2
      <4>2. outloop[i].peer \in Peer /\ proxies[outloop[i].peer] = i
        BY <4>1 DEF PrxInv, Identity
      <4>3. outloop[i].peer # p
        BY <1>1, <4>2 DEF Prx!IP
      <4>4. QED
        BY <1>1, <4>1, <4>2, <4>3
    <3>3. QED
      BY <3>1, <3>2
  <2>4. QED
    BY <2>2, <2>3 DEF Identity
<1>5. Tracked' /\ StopClosesAll'
  BY <1>1 DEF PrxInv, Tracked, StopClosesAll, Prx!StopClosesAll
<1>6. QED
  BY <1>3, <1>4, <1>5 DEF PrxInv

\* The rest of Start, which makes no proxies.
LEMMA StartInv ==
  ASSUME PrxInv,
         \/ \E p \in Peer : Prx!CreateProxyFails(p)
         \/ Prx!ListenV4 \/ Prx!ListenV4Fails \/ Prx!ListenV6 \/ Prx!TrackV4 \/ Prx!TrackV6
  PROVE  PrxInv'
<1> USE PrxFacts
<1>1. /\ UNCHANGED <<proxies, outln, outloop, stopped>>
      /\ nextIP' \in {nextIP, nextIP + 1} /\ nextIP' \in 1..(MaxIP + 1)
  <2>1. CASE \E p \in Peer : Prx!CreateProxyFails(p)
    BY <2>1 DEF Prx!CreateProxyFails, Prx!listening
  <2>2. CASE Prx!ListenV4 \/ Prx!ListenV4Fails \/ Prx!ListenV6 \/ Prx!TrackV4 \/ Prx!TrackV6
    BY <2>2 DEF Prx!ListenV4, Prx!ListenV4Fails, Prx!ListenV6, Prx!TrackV4, Prx!TrackV6, Prx!Starts
  <2>3. QED
    BY <2>1, <2>2
<1>2. Identity'
  BY <1>1 DEF PrxInv, Identity
<1>3. ASSUME /\ starting' \in {"peers", "listen6", "track4", "track6", "done", "failed"}
             /\ inln' \in [Family -> {"none", "open", "closed"}]
             /\ inloop' \in [Family -> {"none", "accept", "ended"}]
             /\ inboundLns' \subseteq Family
             /\ \A f \in Family : inln'[f] = "open" => Prx!Socket(f) \in ports'
             /\ stopped = "no" => \A f \in Family : inln'[f] # "closed"
             /\ starting \notin {"done", "failed"}
             /\ Tracked'
      PROVE  PrxInv'
  <2>1. Prx!TypeOK'
    BY <1>1, <1>3 DEF PrxInv, Prx!TypeOK
  <2>2. stopped # "after"
    BY <1>3 DEF PrxInv, Tracked
  <2>3. StopClosesAll'
    BY <1>1, <2>2 DEF StopClosesAll, Prx!StopClosesAll
  <2>4. QED
    BY <1>2, <1>3, <2>1, <2>3 DEF PrxInv
<1>4. CASE \/ \E p \in Peer : Prx!CreateProxyFails(p)
           \/ Prx!ListenV4Fails
  <2>1. starting = "peers" /\ starting' = "failed" /\ UNCHANGED <<ports, inln, inboundLns, inloop>>
    BY <1>4 DEF Prx!CreateProxyFails, Prx!ListenV4Fails, Prx!Starts, Prx!listening
  <2>2. Tracked'
    BY <1>1, <2>1 DEF PrxInv, Tracked
  <2>3. QED
    BY <1>3, <2>1, <2>2 DEF PrxInv, Prx!TypeOK, Tracked
<1>5. CASE Prx!ListenV4
  <2>1. /\ starting = "peers" /\ starting' \in {"listen6", "track4"}
        /\ ports' = ports \cup {Prx!Socket("v4")}
        /\ inln' = [inln EXCEPT !["v4"] = "open"] /\ UNCHANGED <<inboundLns, inloop>>
    BY <1>5 DEF Prx!ListenV4, Prx!Starts, Prx!Binds
  <2>2. Tracked'
    BY <1>1, <2>1 DEF PrxInv, Tracked
  <2>3. \A f \in Family : inln'[f] = "open" => Prx!Socket(f) \in ports'
    BY <2>1 DEF PrxInv, Prx!TypeOK
  <2>4. QED
    BY <1>3, <2>1, <2>2, <2>3 DEF PrxInv, Tracked
<1>6. CASE Prx!ListenV6
  <2>1. /\ starting = "listen6" /\ starting' = "track4"
        /\ \/ ports' = ports \cup {Prx!Socket("v6")} /\ inln' = [inln EXCEPT !["v6"] = "open"]
           \/ UNCHANGED <<ports, inln>>
        /\ UNCHANGED <<inboundLns, inloop>>
    BY <1>6 DEF Prx!ListenV6, Prx!Starts, Prx!Binds
  <2>2. Tracked'
    BY <1>1, <2>1 DEF PrxInv, Tracked
  <2>3. \A f \in Family : inln'[f] = "open" => Prx!Socket(f) \in ports'
    BY <2>1 DEF PrxInv, Prx!TypeOK
  <2>4. QED
    BY <1>3, <2>1, <2>2, <2>3 DEF PrxInv, Tracked
<1>7. CASE Prx!TrackV4
  <2>1. /\ starting = "track4" /\ starting' = "track6" /\ inboundLns' = {"v4"}
        /\ inloop' = [inloop EXCEPT !["v4"] = "accept"] /\ UNCHANGED <<ports, inln>>
    BY <1>7 DEF Prx!TrackV4, Prx!Starts
  <2>2. Tracked'
    BY <1>1, <2>1 DEF PrxInv, Tracked
  <2>3. QED
    BY <1>3, <2>1, <2>2 DEF PrxInv, Prx!TypeOK, Tracked
<1>8. CASE Prx!TrackV6
  <2> DEFINE open == {f \in Family \ {"v4"} : inln[f] # "none"}
  <2>1. /\ starting = "track6" /\ starting' = "done" /\ inboundLns' = inboundLns \cup open
        /\ inloop' = [f \in Family |-> IF f \in open THEN "accept" ELSE inloop[f]]
        /\ UNCHANGED <<ports, inln>>
    BY <1>8 DEF Prx!TrackV6, Prx!Starts
  <2>2. Tracked'
    BY <1>1, <2>1 DEF PrxInv, Tracked
  <2>3. QED
    BY <1>3, <2>1, <2>2 DEF PrxInv, Prx!TypeOK, Tracked
<1>9. QED
  BY <1>4, <1>5, <1>6, <1>7, <1>8

\* Close reaches every listener when it comes after Start.
LEMMA PrxCloseInv ==
  ASSUME PrxInv, Prx!Close
  PROVE  PrxInv'
<1> USE PrxFacts
<1>1. /\ stopped = "no"
      /\ stopped' = IF starting \in {"done", "failed"} THEN "after" ELSE "during"
      /\ outln' = [i \in Prx!IP |-> IF outln[i] = "open" THEN "closed" ELSE outln[i]]
      /\ inln' = [f \in Family |-> IF f \in inboundLns THEN "closed" ELSE inln[f]]
      /\ ports' = ports \ {Prx!Socket(f) : f \in inboundLns}
      /\ UNCHANGED <<ctx, proxies, nextIP, outloop, starting, inboundLns, inloop>>
  BY DEF Prx!Close
<1>2. Prx!TypeOK'
  <2>1. ASSUME NEW f \in Family, inln'[f] = "open"
        PROVE  Prx!Socket(f) \in ports'
    <3>1. f \notin inboundLns /\ inln[f] = "open"
      BY <1>1, <2>1
    <3>2. \A g \in inboundLns : Prx!Socket(g) # Prx!Socket(f)
      BY <3>1 DEF Prx!Socket
    <3>3. QED
      BY <1>1, <3>1, <3>2 DEF PrxInv, Prx!TypeOK
  <2>2. QED
    BY <1>1, <2>1 DEF PrxInv, Prx!TypeOK
<1>3. \A i \in Prx!IP : (outln'[i] = "none" <=> outln[i] = "none") /\ outln'[i] # "open"
  BY <1>1
<1>4. Identity'
  <2>1. \A p \in Peer : proxies[p] # 0 => proxies[p] \in Prx!IP
    BY DEF Prx!IP
  <2>2. QED
    BY <1>1, <1>3, <2>1 DEF PrxInv, Identity
<1>5. Tracked'
  BY <1>1 DEF PrxInv, Tracked
<1>6. StopClosesAll'
  <2> SUFFICES ASSUME starting \in {"done", "failed"}
               PROVE  \A f \in Family : inln'[f] # "open"
    BY <1>1, <1>3 DEF StopClosesAll, Prx!StopClosesAll
  <2>1. QED
    BY <1>1 DEF PrxInv, Tracked
<1>7. QED
  BY <1>2, <1>4, <1>5, <1>6 DEF PrxInv

LEMMA PrxLoopsInv ==
  ASSUME PrxInv, Prx!LoopEnds
  PROVE  PrxInv'
<1> USE PrxFacts
<1>1. UNCHANGED <<ports, ctx, proxies, nextIP, outln, starting, inln, inboundLns, stopped>>
  BY DEF Prx!LoopEnds, Prx!OutboundEnds, Prx!InboundEnds, Prx!Loops
<1>2. CASE \E i \in Prx!IP : Prx!OutboundEnds(i)
  <2>1. PICK i \in Prx!IP : outloop' = [outloop EXCEPT ![i].at = "ended"] /\ inloop' = inloop
    BY <1>2 DEF Prx!OutboundEnds
  <2>2. /\ outloop' \in [Prx!IP -> [at : {"none", "accept", "ended"}, peer : Peer \cup {None}]]
        /\ \A j \in Prx!IP : outloop'[j].peer = outloop[j].peer
    BY <2>1
  <2>3. \A p \in Peer : proxies[p] # 0 => proxies[p] \in Prx!IP
    BY DEF Prx!IP
  <2>4. Prx!TypeOK'
    BY <1>1, <2>1, <2>2 DEF PrxInv, Prx!TypeOK
  <2>5. Identity'
    BY <1>1, <2>2, <2>3 DEF PrxInv, Identity
  <2>6. QED
    BY <1>1, <2>4, <2>5 DEF PrxInv, Tracked, StopClosesAll, Prx!StopClosesAll
<1>3. CASE \E f \in Family : Prx!InboundEnds(f)
  <2>1. inloop' \in [Family -> {"none", "accept", "ended"}] /\ outloop' = outloop
    BY <1>3 DEF Prx!InboundEnds
  <2>2. Prx!TypeOK' /\ Identity'
    BY <1>1, <2>1 DEF PrxInv, Prx!TypeOK, Identity
  <2>3. QED
    BY <1>1, <2>2 DEF PrxInv, Tracked, StopClosesAll, Prx!StopClosesAll
<1>4. QED
  BY <1>2, <1>3 DEF Prx!LoopEnds

-----------------------------------------------------------------------------
(* The forwards.                                                           *)

\* A rule leads to a listener that was made for it.
RulesLead == \A n \in Fwd!RuleName :
                fwd[n] # 0 => fwd[n] \in DOMAIN made /\ made[fwd[n]].rule.name = n

FwdInv == Fwd!TypeOK /\ RulesLead /\ PortsOfRules

\* A forward and a listener of the proxies never have one socket.
Apart == \A m \in DOMAIN made, f \in Family :
            made[m].open /\ inln[f] = "open" => Fwd!Socket(made[m].rule) # Prx!Socket(f)

Made == [rule : Rule, open : BOOLEAN, run : BOOLEAN]

LEMMA FwdFacts ==
  ASSUME FwdInv
  PROVE  /\ made \in Seq(Made) /\ Len(made) \in Nat /\ DOMAIN made = 1..Len(made)
         /\ \A m \in DOMAIN made : made[m] \in Made /\ made[m].rule.name \in Fwd!RuleName
         /\ fwd \in [Fwd!RuleName -> 0..Len(made)] /\ MaxAdds \in Nat
         /\ \A r \in Rule : r.name \in Fwd!RuleName
<1>1. /\ made \in Seq(Made) /\ fwd \in [Fwd!RuleName -> 0..Len(made)]
      /\ MaxAdds \in Nat
  BY BoundAssumption DEF FwdInv, Fwd!TypeOK, Made
<1>2. \A r \in Rule : r.name \in Fwd!RuleName
  BY DEF Fwd!RuleName
<1>3. Len(made) \in Nat /\ DOMAIN made = 1..Len(made) /\ \A m \in DOMAIN made : made[m] \in Made
  BY <1>1
<1>4. \A m \in DOMAIN made : made[m].rule \in Rule
  BY <1>3 DEF Made
<1>5. QED
  BY <1>1, <1>2, <1>3, <1>4

\* A function on 1..n is a sequence.
LEMMA FunctionIsSeq ==
  ASSUME NEW S, NEW n \in Nat, NEW f \in [1..n -> S]
  PROVE  f \in Seq(S) /\ Len(f) = n
OBVIOUS

LEMMA AddInv ==
  ASSUME FwdInv, Apart, Prx!TypeOK, NEW r \in Rule, Fwd!Add(r), UNCHANGED inln
  PROVE  FwdInv' /\ Apart' /\ ports \subseteq ports'
<1> DEFINE last == Len(made) + 1
           new == [rule |-> r, open |-> TRUE, run |-> TRUE]
<1> USE FwdFacts
<1>1. /\ fmap /\ fwd[r.name] = 0 /\ Fwd!Socket(r) \notin ports /\ Len(made) < MaxAdds
      /\ ports' = ports \cup {Fwd!Socket(r)}
      /\ made' = Append(made, new)
      /\ fwd' = [fwd EXCEPT ![r.name] = last]
      /\ UNCHANGED <<ctx, fmap>>
  BY DEF Fwd!Add
<1>2. new \in Made
  BY DEF Made
<1>3. /\ made' \in Seq(Made) /\ Len(made') = last /\ DOMAIN made' = DOMAIN made \cup {last}
      /\ made'[last] = new /\ \A m \in DOMAIN made : made'[m] = made[m] /\ m # last
  BY <1>1, <1>2
<1>4. fwd' \in [Fwd!RuleName -> 0..last]
  BY <1>1
<1> HIDE DEF last, new
<1>5. new.rule = r /\ new.open /\ new.run /\ last # 0
  BY DEF new, last
<1>6. Fwd!TypeOK'
  <2>1. Len(made') <= MaxAdds
    BY <1>1, <1>3 DEF last
  <2>2. QED
    BY <1>1, <1>3, <1>4, <2>1 DEF Fwd!TypeOK, Made
<1>7. RulesLead'
  BY <1>1, <1>3, <1>5 DEF FwdInv, RulesLead
<1>8. \A m \in DOMAIN made : made[m].open => Fwd!Socket(made[m].rule) # Fwd!Socket(r)
  BY <1>1 DEF FwdInv, PortsOfRules, Fwd!PortsOfRules
<1>9. PortsOfRules'
  <2>1. ASSUME NEW m \in DOMAIN made'
        PROVE  made'[m].open <=> fwd'[made'[m].rule.name] = m
    BY <1>1, <1>3, <1>5, <2>1 DEF FwdInv, PortsOfRules, Fwd!PortsOfRules
  <2>2. ASSUME NEW m \in DOMAIN made', made'[m].open
        PROVE  made'[m].run /\ Fwd!Socket(made'[m].rule) \in ports'
    BY <1>1, <1>3, <1>5, <2>2 DEF FwdInv, PortsOfRules, Fwd!PortsOfRules
  <2>3. ASSUME NEW m \in DOMAIN made', NEW k \in DOMAIN made', made'[m].open, made'[k].open, m # k
        PROVE  Fwd!Socket(made'[m].rule) # Fwd!Socket(made'[k].rule)
    BY <1>3, <1>5, <1>8, <2>3 DEF FwdInv, PortsOfRules, Fwd!PortsOfRules
  <2>4. QED
    BY <2>1, <2>2, <2>3 DEF PortsOfRules, Fwd!PortsOfRules
<1>10. Apart'
  BY <1>1, <1>3, <1>5 DEF Apart, Prx!TypeOK
<1>11. QED
  BY <1>1, <1>6, <1>7, <1>9, <1>10 DEF FwdInv

\* Remove and Close give back the sockets of the rules they drop, and no others.
LEMMA DropInv ==
  ASSUME FwdInv, Apart, NEW gone \in SUBSET Fwd!RuleName, NEW k, UNCHANGED <<inln, ctx>>,
         k = {fwd[n] : n \in gone} \ {0},
         \A m \in DOMAIN made : /\ made'[m].rule = made[m].rule /\ made'[m].run = made[m].run
                                /\ made'[m].open <=> made[m].open /\ m \notin k,
         made' \in Seq(Made), Len(made') = Len(made),
         ports' = ports \ {Fwd!Socket(made[m].rule) : m \in k},
         fwd' = [n \in Fwd!RuleName |-> IF n \in gone THEN 0 ELSE fwd[n]],
         fmap' \in BOOLEAN, fmap' \/ gone = Fwd!RuleName
  PROVE  /\ FwdInv' /\ Apart'
         /\ \A f \in Family : inln[f] = "open" /\ Prx!Socket(f) \in ports => Prx!Socket(f) \in ports'
<1> USE FwdFacts
<1>1. DOMAIN made' = DOMAIN made
  OBVIOUS
<1>2. k \subseteq DOMAIN made /\ \A m \in k : made[m].rule.name \in gone /\ made[m].open
  BY DEF FwdInv, RulesLead, PortsOfRules, Fwd!PortsOfRules
<1>3. Fwd!TypeOK'
  BY DEF FwdInv, Fwd!TypeOK, Made
<1>4. RulesLead'
  BY <1>1 DEF FwdInv, RulesLead
<1>5. \A m \in DOMAIN made : made[m].open /\ m \notin k => made[m].rule.name \notin gone
  BY DEF FwdInv, PortsOfRules, Fwd!PortsOfRules
<1>6. PortsOfRules'
  <2>1. ASSUME NEW m \in DOMAIN made
        PROVE  made'[m].open <=> fwd'[made'[m].rule.name] = m
    BY <1>2, <1>5 DEF FwdInv, PortsOfRules, Fwd!PortsOfRules
  <2>2. ASSUME NEW m \in DOMAIN made, made'[m].open
        PROVE  made'[m].run /\ Fwd!Socket(made'[m].rule) \in ports'
    <3>1. made[m].open /\ m \notin k /\ made[m].run /\ Fwd!Socket(made[m].rule) \in ports
      BY <2>2 DEF FwdInv, PortsOfRules, Fwd!PortsOfRules
    <3>2. \A j \in k : Fwd!Socket(made[j].rule) # Fwd!Socket(made[m].rule)
      BY <1>2, <3>1 DEF FwdInv, PortsOfRules, Fwd!PortsOfRules
    <3>3. QED
      BY <3>1, <3>2
  <2>3. ASSUME NEW m \in DOMAIN made, NEW j \in DOMAIN made, made'[m].open, made'[j].open, m # j
        PROVE  Fwd!Socket(made'[m].rule) # Fwd!Socket(made'[j].rule)
    BY <2>3 DEF FwdInv, PortsOfRules, Fwd!PortsOfRules
  <2>4. QED
    BY <1>1, <2>1, <2>2, <2>3 DEF PortsOfRules, Fwd!PortsOfRules
<1>7. Apart'
  BY <1>1 DEF Apart
<1>8. \A f \in Family : inln[f] = "open" /\ Prx!Socket(f) \in ports => Prx!Socket(f) \in ports'
  BY <1>2 DEF Apart
<1>9. QED
  BY <1>3, <1>4, <1>6, <1>7, <1>8 DEF FwdInv

LEMMA RemoveInv ==
  ASSUME FwdInv, Apart, NEW n \in Fwd!RuleName, Fwd!Remove(n), UNCHANGED inln
  PROVE  /\ FwdInv' /\ Apart'
         /\ \A f \in Family : inln[f] = "open" /\ Prx!Socket(f) \in ports => Prx!Socket(f) \in ports'
<1> DEFINE gone == {n}
           k == {fwd[i] : i \in gone} \ {0}
<1> USE FwdFacts
<1>1. /\ fmap /\ fwd[n] # 0
      /\ made' = [made EXCEPT ![fwd[n]].open = FALSE]
      /\ ports' = ports \ {Fwd!Socket(made[fwd[n]].rule)}
      /\ fwd' = [fwd EXCEPT ![n] = 0]
      /\ UNCHANGED <<ctx, fmap>>
  BY DEF Fwd!Remove
<1>2. fwd[n] \in DOMAIN made /\ k = {fwd[n]}
  BY <1>1 DEF FwdInv, RulesLead
<1>3. made[fwd[n]] \in Made /\ made' = [made EXCEPT ![fwd[n]] = [made[fwd[n]] EXCEPT !.open = FALSE]]
  BY <1>1, <1>2
<1>4. [made[fwd[n]] EXCEPT !.open = FALSE] \in Made
  BY <1>3 DEF Made
<1>5. made' \in Seq(Made) /\ Len(made') = Len(made)
  BY <1>2, <1>3, <1>4
<1>6. \A m \in DOMAIN made : /\ made'[m].rule = made[m].rule /\ made'[m].run = made[m].run
                             /\ made'[m].open <=> made[m].open /\ m \notin k
  <2> TAKE m \in DOMAIN made
  <2>1. CASE m = fwd[n]
    BY <1>2, <1>3, <2>1 DEF Made
  <2>2. CASE m # fwd[n]
    BY <1>2, <1>3, <2>2
  <2>3. QED
    BY <2>1, <2>2
<1>7. ports' = ports \ {Fwd!Socket(made[m].rule) : m \in k}
  BY <1>1, <1>2
<1>8. fwd' = [i \in Fwd!RuleName |-> IF i \in gone THEN 0 ELSE fwd[i]]
  BY <1>1
<1>9. fmap' \in BOOLEAN /\ fmap'
  BY <1>1 DEF FwdInv, Fwd!TypeOK
<1> HIDE DEF k, gone
<1>10. k = {fwd[i] : i \in gone} \ {0} /\ gone \in SUBSET Fwd!RuleName
  BY DEF k, gone
<1>11. QED
  BY <1>1, <1>5, <1>6, <1>7, <1>8, <1>9, <1>10, DropInv

LEMMA FwdCloseInv ==
  ASSUME FwdInv, Apart, Fwd!Close, UNCHANGED inln
  PROVE  /\ FwdInv' /\ Apart'
         /\ \A f \in Family : inln[f] = "open" /\ Prx!Socket(f) \in ports => Prx!Socket(f) \in ports'
<1> DEFINE k == {fwd[n] : n \in Fwd!RuleName} \ {0}
<1> USE FwdFacts
<1>1. /\ fmap /\ fmap' = FALSE
      /\ made' = [m \in DOMAIN made |->
                    [made[m] EXCEPT !.open = made[m].open /\ m \notin {fwd[n] : n \in Fwd!RuleName}]]
      /\ ports' = ports \ {Fwd!Socket(made[m].rule) : m \in k}
      /\ fwd' = [n \in Fwd!RuleName |-> 0]
      /\ UNCHANGED ctx
  BY DEF Fwd!Close
<1>2. \A m \in DOMAIN made : made'[m] = [made[m] EXCEPT !.open = made[m].open /\ m \notin k]
  BY <1>1
<1>3. \A m \in DOMAIN made : /\ made'[m].rule = made[m].rule /\ made'[m].run = made[m].run
                             /\ made'[m].open <=> made[m].open /\ m \notin k
                             /\ made'[m] \in Made
  <2> HIDE DEF k
  <2> TAKE m \in DOMAIN made
  <2> DEFINE still == made[m].open /\ m \notin k
  <2>1. made[m] \in Made /\ still \in BOOLEAN
    BY DEF Made
  <2>2. made'[m] = [made[m] EXCEPT !.open = still]
    BY <1>2
  <2> HIDE DEF still
  <2>3. /\ made'[m].rule = made[m].rule /\ made'[m].run = made[m].run /\ made'[m].open = still
        /\ made'[m] \in Made
    BY <2>1, <2>2 DEF Made
  <2>4. QED
    BY <2>3 DEF still
<1>4. made' \in Seq(Made) /\ Len(made') = Len(made)
  <2>1. made' \in [1..Len(made) -> Made]
    BY <1>1, <1>3
  <2>2. QED
    BY <2>1, FunctionIsSeq
<1>5. fwd' = [n \in Fwd!RuleName |-> IF n \in Fwd!RuleName THEN 0 ELSE fwd[n]]
  BY <1>1
<1>6. fmap' \in BOOLEAN
  BY <1>1
<1> HIDE DEF k
<1>7. k = {fwd[n] : n \in Fwd!RuleName} \ {0}
  BY DEF k
<1>8. QED
  BY <1>1, <1>3, <1>4, <1>5, <1>6, <1>7, DropInv

LEMMA RunEndInv ==
  ASSUME FwdInv, Apart, Fwd!RunEnd, UNCHANGED inln
  PROVE  FwdInv' /\ Apart' /\ ports' = ports
<1> USE FwdFacts
<1>1. PICK k \in DOMAIN made : /\ ~made[k].open
                               /\ made' = [made EXCEPT ![k] = [made[k] EXCEPT !.run = FALSE]]
                               /\ UNCHANGED <<ports, ctx, fwd, fmap>>
  BY DEF Fwd!RunEnd, Fwd!RunEnds
<1>2. [made[k] EXCEPT !.run = FALSE] \in Made
  BY DEF Made
<1>3. made' \in Seq(Made) /\ Len(made') = Len(made) /\ DOMAIN made' = DOMAIN made
  BY <1>1, <1>2
<1>4. \A m \in DOMAIN made : /\ made'[m].rule = made[m].rule /\ made'[m].open = made[m].open
                             /\ made[m].open => made'[m].run = made[m].run
  <2> TAKE m \in DOMAIN made
  <2>1. CASE m = k
    BY <1>1, <2>1 DEF Made
  <2>2. CASE m # k
    BY <1>1, <2>2
  <2>3. QED
    BY <2>1, <2>2
<1>5. Fwd!TypeOK'
  BY <1>1, <1>3 DEF FwdInv, Fwd!TypeOK, Made
<1>6. RulesLead' /\ PortsOfRules' /\ Apart'
  BY <1>1, <1>3, <1>4 DEF FwdInv, RulesLead, PortsOfRules, Fwd!PortsOfRules, Apart
<1>7. QED
  BY <1>1, <1>5, <1>6 DEF FwdInv

-----------------------------------------------------------------------------
(* The parts together.                                                     *)

IInv == /\ PrxInv /\ FwdInv /\ Apart /\ RlyInv
        /\ ctx \in BOOLEAN /\ scene \in {"listeners", "connection"}

\* A step of the proxies leaves the forwards their sockets.
LEMMA PrxNextInv ==
  ASSUME PrxInv, FwdInv, Apart, Prx!Next, UNCHANGED fwdvars
  PROVE  PrxInv' /\ FwdInv' /\ Apart' /\ ctx' = ctx
<1> USE PrxFacts
<1>1. UNCHANGED <<fwd, fmap, made>>
  BY DEF fwdvars
<1>2. CASE Prx!Close
  <2>1. /\ PrxInv' /\ ctx' = ctx
        /\ ports' = ports \ {Prx!Socket(f) : f \in inboundLns}
        /\ \A f \in Family : inln'[f] = "open" => inln[f] = "open"
        /\ \A f \in inboundLns : inln[f] = "open"
    BY <1>2, PrxCloseInv DEF Prx!Close, PrxInv, Tracked
  <2>2. \A m \in DOMAIN made, f \in inboundLns :
           made[m].open => Fwd!Socket(made[m].rule) # Prx!Socket(f)
    BY <2>1 DEF Apart
  <2>3. FwdInv'
    BY <1>1, <2>1, <2>2 DEF FwdInv, Fwd!TypeOK, RulesLead, PortsOfRules, Fwd!PortsOfRules
  <2>4. QED
    BY <1>1, <2>1, <2>3 DEF Apart
<1>3. CASE Prx!LoopEnds \/ Prx!StartStep
  <2>1. PrxInv'
    BY <1>3, PrxLoopsInv, CreateProxyInv, StartInv DEF Prx!StartStep
  <2>2. /\ ctx' = ctx /\ ports \subseteq ports'
        /\ \A f \in Family : inln'[f] = "open" => inln[f] = "open" \/ Prx!Socket(f) \notin ports
    <3>1. CASE Prx!LoopEnds \/ \E p \in Peer : Prx!CreateProxy(p) \/ Prx!CreateProxyFails(p)
      BY <3>1 DEF Prx!LoopEnds, Prx!OutboundEnds, Prx!InboundEnds, Prx!Loops, Prx!CreateProxy,
                  Prx!CreateProxyFails, Prx!listening
    <3>2. CASE \/ Prx!ListenV4 \/ Prx!ListenV4Fails \/ Prx!ListenV6
               \/ Prx!TrackV4 \/ Prx!TrackV6
      BY <3>2 DEF Prx!ListenV4, Prx!ListenV4Fails, Prx!ListenV6, Prx!TrackV4, Prx!TrackV6,
                  Prx!Starts, Prx!Binds
    <3>3. QED
      BY <1>3, <3>1, <3>2 DEF Prx!StartStep
  <2>3. FwdInv'
    BY <1>1, <2>2 DEF FwdInv, Fwd!TypeOK, RulesLead, PortsOfRules, Fwd!PortsOfRules
  <2>4. \A m \in DOMAIN made : made[m].open => Fwd!Socket(made[m].rule) \in ports
    BY DEF FwdInv, PortsOfRules, Fwd!PortsOfRules
  <2>5. Apart'
    BY <1>1, <2>2, <2>4 DEF Apart
  <2>6. QED
    BY <2>1, <2>2, <2>3, <2>5
<1>4. QED
  BY <1>2, <1>3 DEF Prx!Next

\* A step of the forwards leaves the proxies theirs.
LEMMA FwdNextInv ==
  ASSUME PrxInv, FwdInv, Apart, Fwd!Next, UNCHANGED prxvars
  PROVE  PrxInv' /\ FwdInv' /\ Apart' /\ ctx' = ctx
<1>1. UNCHANGED <<proxies, nextIP, outln, outloop, starting, inln, inboundLns, inloop, stopped>>
  BY DEF prxvars
<1>2. /\ FwdInv' /\ Apart'
      /\ \A f \in Family : inln[f] = "open" /\ Prx!Socket(f) \in ports => Prx!Socket(f) \in ports'
  <2>1. Prx!TypeOK
    BY DEF PrxInv
  <2>2. QED
    BY <1>1, <2>1, AddInv, RemoveInv, FwdCloseInv, RunEndInv DEF Fwd!Next
<1>3. ctx' = ctx
  BY DEF Fwd!Next, Fwd!Add, Fwd!Remove, Fwd!Close, Fwd!RunEnd, Fwd!RunEnds
<1>4. PrxInv'
  BY <1>1, <1>2 DEF PrxInv, Prx!TypeOK, Identity, Tracked, StopClosesAll, Prx!StopClosesAll
<1>5. QED
  BY <1>2, <1>3, <1>4

LEMMA InitInv ==
  ASSUME Init
  PROVE  IInv
<1>1. PrxInv
  BY BoundAssumption, FamilyAssumption
     DEF Init, Prx!Init, PrxInv, Prx!TypeOK, Identity, Tracked, StopClosesAll, Prx!StopClosesAll
<1>2. FwdInv /\ Apart
  <2>1. /\ made = <<>> /\ made \in Seq([rule : Rule, open : BOOLEAN, run : BOOLEAN])
        /\ Len(made) = 0 /\ DOMAIN made = {}
    BY DEF Init, Fwd!Init
  <2>2. fwd \in [Fwd!RuleName -> 0..0] /\ fmap = TRUE
    BY DEF Init, Fwd!Init
  <2>3. Fwd!TypeOK
    BY <2>1, <2>2, BoundAssumption DEF Fwd!TypeOK
  <2>4. QED
    BY <2>1, <2>2, <2>3 DEF FwdInv, RulesLead, PortsOfRules, Fwd!PortsOfRules, Apart
<1>3. RlyInv
  <2>1. Rly!TypeOK
    BY BoundAssumption DEF Init, Rly!Init, Rly!TypeOK
  <2>2. Flow /\ \A s \in Rly!Side : HeardBy(s, Rly!Other(s))
    BY Sides DEF Init, Rly!Init, Flow, HeardBy, Hand
  <2>3. QED
    BY <2>1, <2>2 DEF RlyInv
<1>4. QED
  BY <1>1, <1>2, <1>3 DEF Init, Prx!Init, IInv

LEMMA NextInv ==
  ASSUME IInv, Next
  PROVE  IInv'
<1> USE DEF IInv
<1>1. ASSUME UNCHANGED rlyvars
      PROVE  RlyInv'
  BY <1>1 DEF rlyvars, RlyInv, Rly!TypeOK, Flow, HeardBy, Hand
<1>2. CASE Proxy(Prx!Next)
  BY <1>1, <1>2, PrxNextInv DEF Proxy, Listeners
<1>3. CASE Forward(Fwd!Next)
  BY <1>1, <1>3, FwdNextInv DEF Forward, Listeners
<1>4. ASSUME UNCHANGED <<ports, prxvars, fwdvars>>
      PROVE  PrxInv' /\ FwdInv' /\ Apart'
  <2>1. PrxInv'
    BY <1>4 DEF prxvars, PrxInv, Prx!TypeOK, Identity, Tracked, StopClosesAll, Prx!StopClosesAll
  <2>2. FwdInv'
    BY <1>4 DEF fwdvars, FwdInv, Fwd!TypeOK, RulesLead, PortsOfRules, Fwd!PortsOfRules
  <2>3. Apart'
    BY <1>4 DEF prxvars, fwdvars, Apart
  <2>4. QED
    BY <2>1, <2>2, <2>3
<1>5. CASE Connection(Rly!Next)
  BY <1>4, <1>5, RlyNextInv DEF Connection
<1>6. CASE Cancel
  BY <1>1, <1>4, <1>6 DEF Cancel, Listeners
<1>7. QED
  BY <1>2, <1>3, <1>5, <1>6 DEF Next

LEMMA StutterInv ==
  ASSUME IInv, UNCHANGED vars
  PROVE  IInv'
<1>1. UNCHANGED <<ports, ctx, prxvars, fwdvars, rlyvars, scene>>
  BY DEF vars
<1>2. RlyInv'
  BY <1>1 DEF IInv, rlyvars, RlyInv, Rly!TypeOK, Flow, HeardBy, Hand
<1>3. PrxInv'
  BY <1>1 DEF IInv, prxvars, PrxInv, Prx!TypeOK, Identity, Tracked, StopClosesAll,
              Prx!StopClosesAll
<1>4. FwdInv' /\ Apart'
  BY <1>1 DEF IInv, prxvars, fwdvars, FwdInv, Fwd!TypeOK, RulesLead, PortsOfRules,
              Fwd!PortsOfRules, Apart
<1>5. QED
  BY <1>1, <1>2, <1>3, <1>4 DEF IInv

-----------------------------------------------------------------------------
(* The theorems.                                                           *)

\* IInv holds in every state that the services can reach.
THEOREM Invariance == Spec => []IInv
<1>1. Init => IInv
  BY InitInv
<1>2. IInv /\ [Next]_vars => IInv'
  BY NextInv, StutterInv
<1>3. QED
  BY <1>1, <1>2, PTL DEF Spec

\* The shape of the state: an open inbound listener has its port, the window and the
\* counts of a relayed connection keep their bounds.
THEOREM TypeCorrect == Spec => []TypeOK
<1>1. IInv => TypeOK
  BY DEF IInv, PrxInv, FwdInv, RlyInv, TypeOK
<1>2. QED
  BY <1>1, Invariance, PTL

\* All the connections under a loopback address are with one peer, whoever made them.
THEOREM OneIdentity == Spec => []PeerIdentity
<1>1. IInv => PeerIdentity
  <2> SUFFICES ASSUME IInv, NEW s \in Prx!Connections, NEW t \in Prx!Connections
               PROVE  s.ip = t.ip <=> s.peer = t.peer
    BY DEF PeerIdentity, Prx!PeerIdentity
  <2>1. ASSUME NEW c \in Prx!Connections
        PROVE  /\ c.peer \in Peer /\ proxies[c.peer] = c.ip
               /\ c.ip \in Prx!IP /\ outloop[c.ip].peer = c.peer
    <3>1. CASE \E i \in Prx!IP : outln[i] # "none" /\ c = [ip |-> i, peer |-> outloop[i].peer]
      BY <3>1 DEF IInv, PrxInv, Identity
    <3>2. CASE \E p \in Peer : proxies[p] # 0 /\ c = [ip |-> proxies[p], peer |-> p]
      BY <3>2, PrxFacts DEF IInv, PrxInv, Identity, Prx!IP
    <3>3. QED
      BY <3>1, <3>2 DEF Prx!Connections
  <2>2. QED
    BY <2>1
<1>2. QED
  BY <1>1, Invariance, PTL

\* A Stop that comes after Start leaves no listener open.
THEOREM StopIsFull == Spec => []StopClosesAll
<1>1. IInv => StopClosesAll
  BY DEF IInv, PrxInv
<1>2. QED
  BY <1>1, Invariance, PTL

\* The open listeners of the forwards are those that a rule leads to, each at a port
\* of its own.
THEOREM PortsHaveRules == Spec => []PortsOfRules
<1>1. IInv => PortsOfRules
  BY DEF IInv, FwdInv
<1>2. QED
  BY <1>1, Invariance, PTL

\* What a side says before it leaves reaches a silent other side.
THEOREM WordsHeard == Spec => []LastWordsHeard
<1>1. IInv => LastWordsHeard
  <2> SUFFICES ASSUME IInv, NEW s \in Rly!Side, NEW o, o = Rly!Other(s),
                      app[o] = "open", ours[o] = "closed", flying[o] = 0, sent[o] = 0
               PROVE  got[o] = sent[s]
    BY DEF LastWordsHeard, Rly!LastWordsHeard, Rly!Hears
  <2>1. got[o] + flying[o] = sent[s]
    BY DEF IInv, RlyInv, HeardBy
  <2>2. got[o] \in Nat
    BY Sides DEF IInv, RlyInv, Rly!TypeOK
  <2>3. QED
    BY <2>1, <2>2
<1>2. QED
  BY <1>1, Invariance, PTL
=============================================================================

------------------------------- MODULE Relay -------------------------------
(***************************************************************************)
(* One relayed connection: a TCP connection to each of two sides and a     *)
(* goroutine in io.Copy for each direction.  Three pieces of code do it,   *)
(* and differ in when they are done and what they close then:              *)
(*   "outbound"  handleOutbound and pipe (bgp/proxy.go): either direction  *)
(*               ends; both connections are closed;                        *)
(*   "inbound"   handleInbound (bgp/proxy.go): the direction from the peer *)
(*               ends; the connection to gobgp is closed, the peer's is    *)
(*               left to the peer;                                         *)
(*   "forward"   handle (netstack/forward.go): both directions have ended; *)
(*               both connections are closed.                              *)
(* The sides are "kernel" (gobgp, or the target of a forward) and "peer".  *)
(* TCP is outside: it delivers in order what was written, but a connection *)
(* that is closed with data unread may lose what is still on its way.      *)
(***************************************************************************)
EXTENDS Integers

CONSTANTS Window,   \* how much a connection takes that is not received
          MaxSent   \* bound on the chunks that each side sends

VARIABLES relay,   \* "outbound", "inbound" or "forward"
          app,     \* what each side does: "open", or it has closed
          sent,    \* how many chunks each side has sent
          unread,  \* how many of them the relay's connection to it holds
          copy,    \* the copier from each side: "read", "write" or "done"
          ours,    \* the relay's connection to each side: open or closed
          flying,  \* chunks written to each side, not yet received
          got      \* chunks each side has received

rvars == <<relay, app, sent, unread, copy, ours, flying, got>>

Side == {"kernel", "peer"}
Other(s) == IF s = "kernel" THEN "peer" ELSE "kernel"

Init == /\ relay \in {"outbound", "inbound", "forward"}
        /\ app = [s \in Side |-> "open"] /\ sent = [s \in Side |-> 0]
        /\ unread = [s \in Side |-> 0] /\ copy = [s \in Side |-> "read"]
        /\ ours = [s \in Side |-> "open"]
        /\ flying = [s \in Side |-> 0] /\ got = [s \in Side |-> 0]

-----------------------------------------------------------------------------
(* The sides.                                                              *)

Apps == UNCHANGED <<relay, copy, ours>>

Send(s) == /\ app[s] = "open" /\ ours[s] = "open" /\ sent[s] < MaxSent
           /\ sent' = [sent EXCEPT ![s] = @ + 1]
           /\ unread' = [unread EXCEPT ![s] = @ + 1]
           /\ Apps /\ UNCHANGED <<app, flying, got>>

Receive(s) == /\ app[s] = "open" /\ flying[s] > 0
              /\ flying' = [flying EXCEPT ![s] = @ - 1]
              /\ got' = [got EXCEPT ![s] = @ + 1]
              /\ Apps /\ UNCHANGED <<app, sent, unread>>

\* What it has not received is lost to it.
Leave(s) == /\ app[s] = "open"
            /\ app' = [app EXCEPT ![s] = "closed"]
            /\ flying' = [flying EXCEPT ![s] = 0]
            /\ Apps /\ UNCHANGED <<sent, unread, got>>

\* The side has read all there is and then the end of the stream.
Hears(s) == ours[s] = "closed" /\ flying[s] = 0

-----------------------------------------------------------------------------
(* The copiers.                                                            *)

Copies(s, from, to) == /\ copy[s] = from /\ copy' = [copy EXCEPT ![s] = to]
                       /\ UNCHANGED <<relay, app, sent, ours, got>>

Read(s) == /\ ours[s] = "open" /\ unread[s] > 0
           /\ unread' = [unread EXCEPT ![s] = @ - 1]
           /\ Copies(s, "read", "write") /\ UNCHANGED flying

\* The end of the stream, or the connection closed by us.
ReadEnds(s) == /\ (app[s] = "closed" /\ unread[s] = 0) \/ ours[s] = "closed"
               /\ Copies(s, "read", "done") /\ UNCHANGED <<unread, flying>>

\* A write to a side that has left may still succeed, for nothing.
Write(s) == /\ ours[Other(s)] = "open" /\ flying[Other(s)] < Window
            /\ flying' = [flying EXCEPT ![Other(s)] =
                             IF app[Other(s)] = "open" THEN @ + 1 ELSE @]
            /\ Copies(s, "write", "read") /\ UNCHANGED unread

WriteFails(s) == /\ ours[Other(s)] = "closed" \/ app[Other(s)] = "closed"
                 /\ Copies(s, "write", "done") /\ UNCHANGED <<unread, flying>>

-----------------------------------------------------------------------------
(* The end.                                                                *)

\* Mutant: pipe waits for both directions.
DoneBoth == \/ relay = "inbound" /\ copy["peer"] = "done"
            \/ relay # "inbound" /\ \A s \in Side : copy[s] = "done"

\* Mutant: pipe does not wait for a direction to end.
DoneAtOnce == TRUE

Done == \/ relay = "outbound" /\ \E s \in Side : copy[s] = "done"
        \/ relay = "inbound" /\ copy["peer"] = "done"
        \/ relay = "forward" /\ \A s \in Side : copy[s] = "done"

Closed == IF relay = "inbound" THEN {"kernel"} ELSE Side

\* The deferred closes.  What is unread of a side by then can cost it what is still
\* on its way to it.
Finish == /\ Done /\ \E s \in Closed : ours[s] = "open"
          /\ ours' = [s \in Side |-> IF s \in Closed THEN "closed" ELSE ours[s]]
          /\ \E lost \in SUBSET {s \in Closed : unread[s] > 0} :
                flying' = [s \in Side |-> IF s \in lost THEN 0 ELSE flying[s]]
          /\ unread' = [s \in Side |-> IF s \in Closed THEN 0 ELSE unread[s]]
          /\ UNCHANGED <<relay, app, sent, copy, got>>

Copier(s) == Read(s) \/ ReadEnds(s) \/ Write(s) \/ WriteFails(s)
AppStep(s) == Send(s) \/ Receive(s) \/ Leave(s)
Next == Finish \/ \E s \in Side : Copier(s) \/ AppStep(s)

-----------------------------------------------------------------------------
TypeOK == /\ relay \in {"outbound", "inbound", "forward"}
          /\ app \in [Side -> {"open", "closed"}]
          /\ sent \in [Side -> 0..MaxSent] /\ unread \in [Side -> 0..MaxSent]
          /\ copy \in [Side -> {"read", "write", "done"}]
          /\ ours \in [Side -> {"open", "closed"}]
          /\ flying \in [Side -> 0..Window] /\ got \in [Side -> 0..MaxSent]

\* The last words: a side that sends and leaves (gobgp's NOTIFICATION) is heard in
\* full before the end of the stream, if the other stays and has said nothing that
\* is unread or in hand when the relay closes.
LastWordsHeard ==
    \A s \in Side : /\ app[s] = "closed" /\ app[Other(s)] = "open" /\ Hears(Other(s))
                    /\ sent[Other(s)] = 0
                    => got[Other(s)] = sent[s]

\* The connection is over for whoever must learn of it: for both sides of an outbound
\* connection when either leaves, for gobgp when an inbound peer leaves, and for a
\* forward when both have left.
RelayEnds ==
    /\ (relay = "outbound" /\ \E s \in Side : app[s] = "closed")
          ~> (\A s \in Side : copy[s] = "done" /\ ours[s] = "closed")
    /\ (relay = "inbound" /\ app["peer"] = "closed")
          ~> (ours["kernel"] = "closed" /\ \A s \in Side : copy[s] = "done")
    /\ (relay = "forward" /\ \A s \in Side : app[s] = "closed")
          ~> (\A s \in Side : copy[s] = "done" /\ ours[s] = "closed")
=============================================================================

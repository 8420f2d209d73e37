------------------------------ MODULE Forwards ------------------------------
(***************************************************************************)
(* netstack.ForwardManager (src/internal/netstack/forward.go): rules that  *)
(* forward a port of the netstack to a kernel address, each with a         *)
(* listener and a goroutine that accepts on it.  Every Add of a rule makes *)
(* both anew; the goroutine of an earlier one may still be running.        *)
(***************************************************************************)
EXTENDS Integers, Sequences

CONSTANTS Rule,    \* ForwardRule: [name, port]
          MaxAdds  \* bound on the calls of Add that make a listener

VARIABLES ports,   \* what is bound in the netstack: [port, family]
          ctx,     \* the context of the Adds is cancelled
          fwd,     \* the place in made of each rule's listener, 0 for none
          fmap,    \* fwd is a map; Close makes it nil
          made     \* the listeners made: [rule, open, run]

RuleName == {r.name : r \in Rule}
Socket(r) == [port |-> r.port, family |-> "v4"]

Init == /\ ports = {} /\ ctx = FALSE
        /\ fwd = [n \in RuleName |-> 0] /\ fmap = TRUE /\ made = <<>>

\* A rule of that name, or a listener at its port: nothing is done.  After Close it
\* would panic; that it is not called then is assumed.
Add(r) == /\ fmap /\ fwd[r.name] = 0 /\ Socket(r) \notin ports
          /\ Len(made) < MaxAdds
          /\ ports' = ports \cup {Socket(r)}
          /\ made' = Append(made, [rule |-> r, open |-> TRUE, run |-> TRUE])
          /\ fwd' = [fwd EXCEPT ![r.name] = Len(made) + 1]
          /\ UNCHANGED <<ctx, fmap>>

\* Mutant: the rule goes and its listener stays.
RemoveKeepsListener(n) == /\ fmap /\ fwd[n] # 0
                          /\ fwd' = [fwd EXCEPT ![n] = 0]
                          /\ UNCHANGED <<ports, made, ctx, fmap>>

Remove(n) == /\ fmap /\ fwd[n] # 0
             /\ made' = [made EXCEPT ![fwd[n]].open = FALSE]
             /\ ports' = ports \ {Socket(made[fwd[n]].rule)}
             /\ fwd' = [fwd EXCEPT ![n] = 0]
             /\ UNCHANGED <<ctx, fmap>>

\* Mutant: Close leaves the rules in the map.
CloseKeepsRules == /\ fmap /\ fmap' = FALSE
                   /\ LET k == {fwd[n] : n \in RuleName}
                      IN /\ made' = [m \in DOMAIN made |-> [made[m] EXCEPT !.open = @ /\ m \notin k]]
                         /\ ports' = ports \ {Socket(made[m].rule) : m \in k \ {0}}
                   /\ UNCHANGED <<fwd, ctx>>

Close == /\ fmap /\ fmap' = FALSE
         /\ LET k == {fwd[n] : n \in RuleName}
            IN /\ made' = [m \in DOMAIN made |-> [made[m] EXCEPT !.open = @ /\ m \notin k]]
               /\ ports' = ports \ {Socket(made[m].rule) : m \in k \ {0}}
         /\ fwd' = [n \in RuleName |-> 0]
         /\ UNCHANGED ctx

\* After an error of Accept run looks at the context, and tries again without it.
RunEnds(m) == /\ made[m].run /\ ~made[m].open /\ ctx
              /\ made' = [made EXCEPT ![m].run = FALSE]
              /\ UNCHANGED <<ports, ctx, fwd, fmap>>

RunEnd == \E m \in DOMAIN made : RunEnds(m)
Next == \/ \E r \in Rule : Add(r)
        \/ \E n \in RuleName : Remove(n)
        \/ Close \/ RunEnd

-----------------------------------------------------------------------------
TypeOK == /\ made \in Seq([rule : Rule, open : BOOLEAN, run : BOOLEAN])
          /\ Len(made) <= MaxAdds
          /\ fwd \in [RuleName -> 0..Len(made)] /\ fmap \in BOOLEAN
          /\ fmap \/ \A n \in RuleName : fwd[n] = 0

\* A listener is open exactly while a rule leads to it, and it holds its port alone:
\* after any sequence of calls, refused ones among them, no port is bound that no
\* rule can give back, and no rule is without its port.
PortsOfRules ==
    /\ \A m \in DOMAIN made :
          made[m].open <=> fwd[made[m].rule.name] = m
    /\ \A m \in DOMAIN made : made[m].open => made[m].run /\ Socket(made[m].rule) \in ports
    /\ \A m, k \in DOMAIN made : made[m].open /\ made[k].open /\ m # k
                                   => Socket(made[m].rule) # Socket(made[k].rule)

\* The goroutine of a closed listener ends once the context is cancelled.
ForwardLoopsEnd == \A m \in 1..MaxAdds :
    (m \in DOMAIN made /\ ~made[m].open /\ ctx) ~> (m \in DOMAIN made /\ ~made[m].run)
=============================================================================

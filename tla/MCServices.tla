----------------------------- MODULE MCServices -----------------------------
(***************************************************************************)
(* Services with two forwards, one of which wants the port of BGP.         *)
(***************************************************************************)
EXTENDS Services

MCRule == {[name |-> "web", port |-> 80], [name |-> "bgp", port |-> 179]}
=============================================================================

------------------------------ MODULE MCLinks ------------------------------
(***************************************************************************)
(* Links with two names for NICs and three prefixes: one covers the other, *)
(* and the third is of a protocol the stack does not have.                 *)
(***************************************************************************)
EXTENDS Links

MCCovers(p) == CASE p = "10.0.0.1/24" -> {"10.0.0.1", "10.0.0.2"}
                 [] p = "10.0.0.2/32" -> {"10.0.0.2"}
                 [] p = "fd00::1/64"  -> {"fd00::1"}
=============================================================================

------------------------------- MODULE MCLFIB -------------------------------
(***************************************************************************)
(* Three goroutines and a label space that wraps after three labels.       *)
(***************************************************************************)
EXTENDS LFIB, TLC

Symmetry == Permutations(Thread)
=============================================================================

----------------------------- MODULE MCCJsonTree -----------------------------
(***************************************************************************)
(* A small instance of CJsonTree.  malloc takes an address that is free    *)
(* and that nothing points to, and those are alike, so that a permutation  *)
(* of the addresses maps the behaviours of the model to each other.        *)
(***************************************************************************)
EXTENDS CJsonTree, TLC

Symmetry == Permutations(Items)
=============================================================================

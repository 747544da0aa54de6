----------------------------- MODULE MCNssCache -----------------------------
(***************************************************************************)
(* A small instance of NssCache.                                           *)
(***************************************************************************)
EXTENDS NssCache, TLC

Symmetry == Permutations(Thread) \cup Permutations(Ptr)
=============================================================================

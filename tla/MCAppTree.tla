----------------------------- MODULE MCAppTree -----------------------------
(***************************************************************************)
(* Small instances of AppTree: slots come two at a time instead of ten, so *)
(* that four puts make the array grow, and five make it grow twice.       *)
(***************************************************************************)
EXTENDS AppTree, TLC

CONSTANTS k1, k2

KeySymmetry == Permutations(Keys)
=============================================================================

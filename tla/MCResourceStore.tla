-------------------------- MODULE MCResourceStore --------------------------
(***************************************************************************)
(* Two workers that store at the same time, under names of one principal.  *)
(***************************************************************************)
EXTENDS ResourceStore, TLC

CONSTANTS w1, w2, o1, u1, u2, b1, b2

StoreSymmetry == Permutations(Workers) \cup Permutations(ObjectIds) \cup Permutations(Uuids)
                 \cup Permutations(Blocks)
=============================================================================

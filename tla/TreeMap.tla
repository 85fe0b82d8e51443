------------------------------ MODULE TreeMap ------------------------------
(***************************************************************************)
(* What the configuration tree (core/tree.c under T_FLAG_READONLY)         *)
(* promises its readers, without slots, scans or memory: a map from keys   *)
(* to entries.  The first put of a key fixes the type under which it can   *)
(* be read.  A later put of the same type replaces the value.  A put of    *)
(* another type freezes the key: from then on no put changes what any      *)
(* tree_get_* returns for it.  Nothing but the release of the whole tree   *)
(* takes a key away.  AppTree is shown to implement this module.           *)
(***************************************************************************)

EXTENDS Naturals

CONSTANTS Keys, Types, Values, Absent

VARIABLES map,   \* what the tree_get_* functions answer for each key
          puts,  \* puts so far; a value is the number of the put it came with
          open   \* the tree has been created and not yet released

vars == <<map, puts, open>>

Entry == [type : Types, value : Values, frozen : BOOLEAN]

Init == map = [k \in Keys |-> Absent] /\ puts = 0 /\ open = TRUE

Updated(e, t, v) ==
    IF e = Absent THEN [type |-> t, value |-> v, frozen |-> FALSE]
    ELSE [type |-> e.type,
          value |-> IF e.type = t /\ ~e.frozen THEN v ELSE e.value,
          frozen |-> e.frozen \/ e.type # t]

Put(k, t) ==
    /\ open
    /\ puts + 1 \in Values
    /\ puts' = puts + 1
    /\ map' = [map EXCEPT ![k] = Updated(map[k], t, puts + 1)]
    /\ open' = open

Release ==
    /\ open
    /\ map' = [k \in Keys |-> Absent]
    /\ open' = FALSE
    /\ puts' = puts

Next == Release \/ \E k \in Keys, t \in Types : Put(k, t)

Spec == Init /\ [][Next]_vars
=============================================================================

------------------------------ MODULE AppTree ------------------------------
(***************************************************************************)
(* core/tree.c: the key-value tree that holds the configuration, the cache *)
(* and each request's session.  One level of it: a growing array of slots, *)
(* each NULL or an item.  A put never overwrites: it appends an item in    *)
(* the first free slot, so a key may occupy several slots and a get scans  *)
(* them all.  tree_get_str hands out a pointer into the tree, so which     *)
(* strings are still allocated matters as much as what a get returns.      *)
(*                                                                         *)
(* A value is the number of the put that stored it; heap is the set of     *)
(* items (with their key and their own string) that are allocated.         *)
(***************************************************************************)
EXTENDS Naturals

CONSTANTS Keys,      \* the keys in use
          Step,      \* slots added by tree_new_root and tree_expand: 10
          ReadOnly,  \* T_FLAG_READONLY: TRUE for the configuration tree
          MaxPuts,   \* bound of the model on the number of puts
          NULL

ASSUME StepAssumption == Step \in Nat \ {0}
ASSUME ReadOnlyAssumption == ReadOnly \in BOOLEAN
ASSUME MaxPutsAssumption == MaxPuts \in Nat

Types == {"T_INT", "T_FLOAT", "T_STRING", "T_POINTER"}
Values == 1..MaxPuts
Item == [key : Keys, type : Types, value : Values]

ASSUME NullAssumption == NULL \notin Item /\ NULL \notin Values

VARIABLES alloc_cnt,  \* slots allocated
          ptr,        \* the slots
          heap,       \* values whose item is allocated
          borrowed,   \* strings handed out by tree_get_str
          puts,       \* puts so far
          live        \* between tree_new_root and tree_free

vars == <<alloc_cnt, ptr, heap, borrowed, puts, live>>

Slots == 0..(alloc_cnt - 1)
Occupied == {i \in Slots : ptr[i] # NULL}

Init ==
    /\ alloc_cnt = Step
    /\ ptr = [i \in 0..(Step - 1) |-> NULL]
    /\ heap = {}
    /\ borrowed = {}
    /\ puts = 0
    /\ live = TRUE

-----------------------------------------------------------------------------
(* Readers.                                                                *)

Matches(k) == {i \in Occupied : ptr[i].key = k}

tree_contains(k) == Matches(k) # {}

\* Seeded fault: a match of another type is skipped instead of ending the scan.
SkippingAssigned(k, t) == {i \in Matches(k) : ptr[i].type = t}

\* The slots a tree_get_* assigns from: it stops at the first match of
\* another type, and every earlier match overwrites the result.
Assigned(k, t) ==
    {i \in Matches(k) : \A j \in Matches(k) : j <= i => ptr[j].type = t}

\* Seeded fault: the scan stops at the first match.
FirstOf(S) == CHOOSE i \in S : \A j \in S : i <= j

LastOf(S) == CHOOSE i \in S : \A j \in S : j <= i

tree_get(k, t) ==
    IF Assigned(k, t) = {} THEN NULL ELSE ptr[LastOf(Assigned(k, t))].value

-----------------------------------------------------------------------------
(* Operations.                                                             *)

\* Seeded fault: the search runs from the last slot down.
LastFreeIndex(i) == i \in Slots /\ ptr[i] = NULL /\ \A j \in Slots : j > i => ptr[j] # NULL

\* tree_get_new_index: the first free slot, and EISFULL when there is none.
IsNewIndex(i) == i \in Slots /\ ptr[i] = NULL /\ \A j \in Slots : j < i => ptr[j] # NULL
IsFull == \A i \in Slots : ptr[i] # NULL

\* Seeded fault: the loop that clears the new slots starts one slot early.
OverExpanded == [i \in 0..(alloc_cnt + Step - 1) |-> IF i < alloc_cnt - 1 THEN ptr[i] ELSE NULL]

\* Seeded fault: the array is one slot shorter than alloc_cnt says.
ShortExpanded == [i \in 0..(alloc_cnt + Step - 2) |-> IF i < alloc_cnt THEN ptr[i] ELSE NULL]

\* tree_expand: Step more slots, the old ones kept, the new ones NULL.
Expanded == [i \in 0..(alloc_cnt + Step - 1) |-> IF i < alloc_cnt THEN ptr[i] ELSE NULL]

NewItem(k, t) == [key |-> k, type |-> t, value |-> puts + 1]

Put(k, t) ==
    /\ live
    /\ puts < MaxPuts
    /\ \/ \E i \in Slots :
            /\ IsNewIndex(i)
            /\ ptr' = [ptr EXCEPT ![i] = NewItem(k, t)]
            /\ alloc_cnt' = alloc_cnt
       \/ /\ IsFull
          /\ ptr' = [Expanded EXCEPT ![alloc_cnt] = NewItem(k, t)]
          /\ alloc_cnt' = alloc_cnt + Step
    /\ heap' = heap \cup {puts + 1}
    /\ puts' = puts + 1
    /\ UNCHANGED <<borrowed, live>>

\* The other tree_get_* copy their value out and change nothing.
GetStr(k) ==
    /\ live
    /\ Assigned(k, "T_STRING") # {}
    /\ borrowed' = borrowed \cup {tree_get(k, "T_STRING")}
    /\ UNCHANGED <<alloc_cnt, ptr, heap, puts, live>>

\* Seeded fault: the flag is not looked at.
RemoveAlways(k) ==
    /\ live
    /\ ptr' = [i \in Slots |-> IF i \in Matches(k) THEN NULL ELSE ptr[i]]
    /\ heap' = heap \ {ptr[i].value : i \in Matches(k)}
    /\ UNCHANGED <<alloc_cnt, borrowed, puts, live>>

\* Seeded fault: the loop ends at the first match.
RemoveFirst(k) ==
    /\ live
    /\ ~ReadOnly
    /\ \E i \in Matches(k) :
        /\ \A j \in Matches(k) : i <= j
        /\ ptr' = [ptr EXCEPT ![i] = NULL]
        /\ heap' = heap \ {ptr[i].value}
    /\ UNCHANGED <<alloc_cnt, borrowed, puts, live>>

\* Every slot with the key is freed, unless the tree is read only.
Remove(k) ==
    /\ live
    /\ ~ReadOnly
    /\ ptr' = [i \in Slots |-> IF i \in Matches(k) THEN NULL ELSE ptr[i]]
    /\ heap' = heap \ {ptr[i].value : i \in Matches(k)}
    /\ UNCHANGED <<alloc_cnt, borrowed, puts, live>>

\* tree_free of the tree: each item, then the slots themselves.
Free ==
    /\ live
    /\ heap' = heap \ {ptr[i].value : i \in Occupied}
    /\ ptr' = [i \in {} |-> NULL]
    /\ alloc_cnt' = 0
    /\ live' = FALSE
    /\ UNCHANGED <<borrowed, puts>>

Next ==
    \/ \E k \in Keys, t \in Types : Put(k, t)
    \/ \E k \in Keys : GetStr(k) \/ Remove(k)
    \/ Free

Spec == Init /\ [][Next]_vars

-----------------------------------------------------------------------------
(* Properties.                                                             *)

\* The slots and the accounts have the shape core/tree.c gives them.
TypeOK ==
    /\ alloc_cnt \in Nat
    /\ ptr \in [Slots -> Item \cup {NULL}]
    /\ heap \subseteq Values
    /\ borrowed \subseteq Values
    /\ puts \in 0..MaxPuts
    /\ live \in BOOLEAN

\* Every allocated item is in exactly one slot: neither the growth of the
\* array, nor the reuse of a slot, nor a removal loses or shares an item, and
\* after tree_free nothing is left allocated.
NoItemLost ==
    /\ heap = {ptr[i].value : i \in Occupied}
    /\ \A i, j \in Occupied : ptr[i].value = ptr[j].value => i = j

\* Slots of a read-only tree are filled in the order of the puts, without a
\* hole: the scans of tree_get_* rely on it to let the last put win.
InPutOrder ==
    ReadOnly => \A i \in Occupied, j \in Slots :
                    j < i => j \in Occupied /\ ptr[j].value < ptr[i].value

\* As long as every put of a key had one type, a get of that type returns
\* the value of the newest put (load_config_tree loads the file and then
\* the environment, and the latter must override the former).
NewestWins ==
    ReadOnly => \A k \in Keys, t \in Types :
        (tree_contains(k) /\ \A i \in Matches(k) : ptr[i].type = t) =>
            \A i \in Matches(k) : ptr[i].value <= tree_get(k, t)

\* A string that a read-only tree has handed out stays allocated as long as
\* the tree does (app_name and the other accessors return such pointers).
BorrowedValid == ReadOnly /\ live => borrowed \subseteq heap

\* At most one of the tree_get_* functions answers for a key, and one does
\* exactly when tree_contains says the key is there (validate_config tests
\* with the one and the accessors read with the other).
OneAnswer ==
    \A k \in Keys :
        /\ tree_contains(k) <=> \E t \in Types : tree_get(k, t) # NULL
        /\ \A t, u \in Types : tree_get(k, t) # NULL /\ tree_get(k, u) # NULL => t = u

\* Removing a key removes all its duplicates, whatever their types and
\* wherever they are, and leaves what the gets answer for other keys alone.
RemoveIsExact ==
    [][\A k \in Keys : Remove(k) =>
          /\ tree_contains(k)' = FALSE
          /\ \A j \in Keys \ {k}, t \in Types : tree_get(j, t)' = tree_get(j, t)]_vars

\* What the read-only tree implements.
EntryOf(k) ==
    IF Matches(k) = {} THEN NULL
    ELSE LET t == CHOOSE t \in Types : Assigned(k, t) # {}
         IN [type |-> t, value |-> tree_get(k, t),
             frozen |-> \E i \in Matches(k) : ptr[i].type # t]

Abstract == INSTANCE TreeMap WITH
                Absent <- NULL, map <- [k \in Keys |-> EntryOf(k)], open <- live

ASSUME AbsentAssumption == NULL \notin Abstract!Entry

\* With ReadOnly the slots, their order and their growth are invisible: every
\* put and the release do to the answers of the gets what TreeMap says.  No
\* put is a stutter of TreeMap, which counts them, too.
ImplementsMap == Abstract!Spec
=============================================================================

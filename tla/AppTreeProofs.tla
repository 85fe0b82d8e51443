--------------------------- MODULE AppTreeProofs ---------------------------
(***************************************************************************)
(* Theorems about AppTree, for every set of keys, every growth step, every *)
(* number of puts, and with or without T_FLAG_READONLY.                    *)
(***************************************************************************)
EXTENDS AppTree, FiniteSetTheorems, WellFoundedInduction, TLAPS

-----------------------------------------------------------------------------
(* The scans: what the first and the last slot of a set of slots are.      *)

\* A set of slots that is not empty has a last one, so the slot a
\* tree_get_* ends on is well defined.  The slots after the last one are the
\* smallest of all "slots after i", and strict inclusion is well founded.
LEMMA LastOfSlots ==
    ASSUME NEW n \in Nat, NEW S \in SUBSET (0..(n - 1)), S # {}
    PROVE  LastOf(S) \in S /\ \A j \in S : j <= LastOf(S)
<1> DEFINE D == 0..(n - 1)
           After(i) == {j \in S : j > i}
           Tails == {After(i) : i \in S}
<1>1. IsFiniteSet(D)
  <2>1. 0 \in Int /\ n - 1 \in Int
    OBVIOUS
  <2> QED BY <2>1, FS_Interval
<1>2. IsWellFoundedOn(StrictSubsetOrdering(D), SUBSET D)
  <2> HIDE DEF D
  <2>1. FiniteSubsetsOf(D) = SUBSET D
    BY <1>1, FS_FiniteSubsetsOfFinite
  <2> QED BY <2>1, FS_StrictSubsetOrderingWellFounded
<1>3. Tails \subseteq SUBSET D /\ Tails # {}
  OBVIOUS
<1>4. PICK x \in Tails : \A y \in Tails : <<y, x>> \notin StrictSubsetOrdering(D)
  <2> HIDE DEF Tails, D
  <2> QED BY <1>2, <1>3, WFMin
<1>5. PICK i \in S : x = After(i)
  OBVIOUS
<1>6. \A j \in S : j <= i
  <2> SUFFICES ASSUME NEW j \in S, j > i PROVE FALSE
    OBVIOUS
  <2>0. i \in Int /\ \A k \in S : k \in Int
    OBVIOUS
  <2>1. After(j) \subseteq After(i)
    <3> SUFFICES ASSUME NEW k \in S, k > j PROVE k > i
      OBVIOUS
    <3> QED BY <2>0
  <2>2. j \in After(i) /\ j \notin After(j)
    BY <2>0
  <2>3. <<After(j), After(i)>> \in StrictSubsetOrdering(D)
    BY <2>1, <2>2, <1>3 DEF StrictSubsetOrdering
  <2> QED
    BY <2>3, <1>4, <1>5
<1> QED
  BY <1>6 DEF LastOf

\* Likewise it has a first one: mirror the slots and take the last.
LEMMA FirstOfSlots ==
    ASSUME NEW n \in Nat, NEW S \in SUBSET (0..(n - 1)), S # {}
    PROVE  \E i \in S : \A j \in S : i <= j
<1> DEFINE Mirror == {n - 1 - i : i \in S}
<1>1. Mirror \in SUBSET (0..(n - 1)) /\ Mirror # {}
  <2>1. \A i \in S : n - 1 - i \in 0..(n - 1)
    OBVIOUS
  <2> QED BY <2>1
<1>2. LastOf(Mirror) \in Mirror /\ \A m \in Mirror : m <= LastOf(Mirror)
  <2> HIDE DEF Mirror
  <2> QED BY <1>1, LastOfSlots
<1>3. PICK i \in S : LastOf(Mirror) = n - 1 - i
  BY <1>2
<1>4. \A j \in S : n - 1 - j <= n - 1 - i
  BY <1>2, <1>3
<1>5. \A j \in S : i <= j
  BY <1>4
<1> QED
  BY <1>5

\* A tree_get_* that finds anything returns the value of the last slot it
\* assigned from, and that slot is occupied.
LEMMA GetValue ==
    ASSUME TypeOK, NEW k \in Keys, NEW t \in Types, Assigned(k, t) # {}
    PROVE  \E i \in Assigned(k, t) :
              /\ tree_get(k, t) = ptr[i].value
              /\ \A j \in Assigned(k, t) : j <= i
<1>1. Assigned(k, t) \in SUBSET (0..(alloc_cnt - 1)) /\ alloc_cnt \in Nat
  BY DEF Assigned, Matches, Occupied, Slots, TypeOK
<1>2. LastOf(Assigned(k, t)) \in Assigned(k, t)
      /\ \A j \in Assigned(k, t) : j <= LastOf(Assigned(k, t))
  BY <1>1, LastOfSlots
<1> QED
  BY <1>2 DEF tree_get

\* The value is never NULL: a get is told apart from one that finds nothing.
LEMMA GetFinds ==
    ASSUME TypeOK, NEW k \in Keys, NEW t \in Types
    PROVE  tree_get(k, t) # NULL <=> Assigned(k, t) # {}
<1>1. CASE Assigned(k, t) = {}
  BY <1>1 DEF tree_get
<1>2. CASE Assigned(k, t) # {}
  <2>1. PICK i \in Assigned(k, t) : tree_get(k, t) = ptr[i].value
    BY <1>2, GetValue
  <2>2. ptr[i] \in Item
    BY DEF TypeOK, Assigned, Matches, Occupied
  <2> QED
    BY <1>2, <2>1, <2>2, NullAssumption DEF Item
<1> QED
  BY <1>1, <1>2

-----------------------------------------------------------------------------
(* What a put does, whether or not it has to grow the array.               *)

\* Exactly one slot becomes occupied, the first one that was not; the new
\* item is in it and every other item stays where it was.
LEMMA PutEffect ==
    ASSUME TypeOK, NEW k \in Keys, NEW t \in Types, Put(k, t)
    PROVE  /\ alloc_cnt' \in Nat
           /\ ptr' \in [Slots' -> Item \cup {NULL}]
           /\ \E i \in Nat \ Occupied :
                 /\ Occupied' = Occupied \cup {i}
                 /\ ptr'[i] = NewItem(k, t)
                 /\ \A j \in Occupied : ptr'[j] = ptr[j]
                 /\ \A j \in Nat : j < i => j \in Occupied
<1>1. NewItem(k, t) \in Item /\ NewItem(k, t) # NULL
  <2>1. puts + 1 \in Values
    BY MaxPutsAssumption DEF Put, TypeOK, Values
  <2> QED BY <2>1, NullAssumption DEF NewItem, Item
<1>2. CASE \E i \in Slots : IsNewIndex(i) /\ ptr' = [ptr EXCEPT ![i] = NewItem(k, t)]
                            /\ alloc_cnt' = alloc_cnt
  <2>1. PICK i \in Slots : IsNewIndex(i) /\ ptr' = [ptr EXCEPT ![i] = NewItem(k, t)]
                           /\ alloc_cnt' = alloc_cnt
    BY <1>2
  <2>2. Slots' = Slots /\ i \in Nat \ Occupied
    BY <2>1 DEF Slots, TypeOK, IsNewIndex, Occupied
  <2>3. Occupied' = Occupied \cup {i} /\ \A j \in Occupied : ptr'[j] = ptr[j]
    BY <1>1, <2>1, <2>2 DEF Occupied, TypeOK, IsNewIndex
  <2>4. \A j \in Nat : j < i => j \in Occupied
    BY <2>1 DEF IsNewIndex, Occupied, Slots, TypeOK
  <2> QED
    BY <1>1, <2>1, <2>2, <2>3, <2>4 DEF TypeOK
<1>3. CASE IsFull /\ ptr' = [Expanded EXCEPT ![alloc_cnt] = NewItem(k, t)]
                  /\ alloc_cnt' = alloc_cnt + Step
  <2>1. alloc_cnt \in Nat \ Occupied /\ alloc_cnt' \in Nat
    BY <1>3, StepAssumption DEF TypeOK, Occupied, Slots
  <2>2. Slots' = 0..(alloc_cnt + Step - 1) /\ alloc_cnt \in Slots' /\ Slots \subseteq Slots'
    BY <1>3, StepAssumption DEF TypeOK, Slots
  <2>3. \A j \in Slots' : ptr'[j] = IF j = alloc_cnt THEN NewItem(k, t)
                                     ELSE IF j < alloc_cnt THEN ptr[j] ELSE NULL
    BY <1>3, <2>2 DEF Expanded
  <2>4. Occupied = Slots
    BY <1>3 DEF IsFull, Occupied
  <2>5. \A j \in Slots' : j \in Slots <=> j < alloc_cnt
    BY <2>2, StepAssumption DEF Slots, TypeOK
  <2>6. Occupied' = Occupied \cup {alloc_cnt} /\ \A j \in Occupied : ptr'[j] = ptr[j]
    <3>1. \A j \in Occupied : ptr'[j] = ptr[j] /\ ptr'[j] # NULL
      <4> SUFFICES ASSUME NEW j \in Occupied PROVE ptr'[j] = ptr[j] /\ ptr'[j] # NULL
        OBVIOUS
      <4>1. j \in Slots' /\ j < alloc_cnt /\ j # alloc_cnt
        BY <2>1, <2>2, <2>4, <2>5
      <4> QED BY <4>1, <2>3 DEF Occupied
    <3>2. \A j \in Slots' : ptr'[j] # NULL => j \in Slots \/ j = alloc_cnt
      BY <2>3, <2>5
    <3>3. ptr'[alloc_cnt] # NULL
      BY <1>1, <2>2, <2>3
    <3>4. Occupied' = {j \in Slots' : ptr'[j] # NULL}
      BY DEF Occupied
    <3> QED BY <3>1, <3>2, <3>3, <3>4, <2>2, <2>4
  <2>7. ptr' \in [Slots' -> Item \cup {NULL}]
    <3>1. \A j \in Slots' : ptr'[j] \in Item \cup {NULL}
      BY <1>1, <2>3, <2>5 DEF TypeOK
    <3>2. ptr' = [j \in Slots' |-> ptr'[j]]
      BY <1>3, <2>2 DEF Expanded
    <3> QED BY <3>1, <3>2
  <2>8. \A j \in Nat : j < alloc_cnt => j \in Occupied
    BY <2>4 DEF Slots, TypeOK
  <2> QED
    BY <2>1, <2>2, <2>3, <2>6, <2>7, <2>8
<1> QED
  BY <1>2, <1>3 DEF Put

-----------------------------------------------------------------------------
(* The inductive invariant.  InPutOrder and BorrowedValid need the account *)
(* of the heap, and that no value of the heap has yet to be put.           *)

IInv ==
    /\ TypeOK
    /\ NoItemLost
    /\ heap \subseteq 1..puts
    /\ InPutOrder
    /\ BorrowedValid

\* The invariant holds initially.
LEMMA InitInv == Init => IInv
<1> SUFFICES ASSUME Init PROVE IInv
  OBVIOUS
<1> USE DEF Init
<1>1. TypeOK
  BY StepAssumption, MaxPutsAssumption DEF TypeOK, Slots
<1>2. Occupied = {}
  BY DEF Occupied, Slots
<1> QED
  BY <1>1, <1>2 DEF IInv, NoItemLost, InPutOrder, BorrowedValid

\* A put fills the next slot with the largest value so far.
LEMMA PutKeepsInv ==
    ASSUME IInv, NEW k \in Keys, NEW t \in Types, Put(k, t)
    PROVE  IInv'
<1>1. TypeOK /\ alloc_cnt' \in Nat /\ ptr' \in [Slots' -> Item \cup {NULL}]
  BY PutEffect DEF IInv
<1>2. PICK i \in Nat \ Occupied :
         /\ Occupied' = Occupied \cup {i}
         /\ ptr'[i] = NewItem(k, t)
         /\ \A j \in Occupied : ptr'[j] = ptr[j]
         /\ \A j \in Nat : j < i => j \in Occupied
  BY PutEffect DEF IInv
<1>3. /\ puts \in Nat /\ puts < MaxPuts /\ puts' = puts + 1 /\ heap' = heap \cup {puts + 1}
      /\ borrowed' = borrowed /\ live' = live
  BY DEF Put, TypeOK, IInv
<1>4. ptr'[i].value = puts + 1 /\ \A j \in Occupied : ptr[j].value \in heap
  BY <1>2 DEF NewItem, IInv, NoItemLost
<1>5. TypeOK'
  <2>1. puts + 1 \in Values /\ puts + 1 \in 0..MaxPuts
    BY <1>3, MaxPutsAssumption DEF Values
  <2> QED BY <1>1, <1>3, <2>1 DEF TypeOK
<1>6. heap' \subseteq 1..puts'
  BY <1>3 DEF IInv
<1>7. NoItemLost'
  <2>1. heap' = {ptr'[j].value : j \in Occupied'}
    BY <1>2, <1>3, <1>4 DEF IInv, NoItemLost
  <2>2. \A j \in Occupied : ptr'[j].value # ptr'[i].value
    BY <1>2, <1>3, <1>4 DEF IInv
  <2>3. \A j, l \in Occupied : ptr'[j].value = ptr'[l].value => j = l
    BY <1>2 DEF IInv, NoItemLost
  <2> QED BY <1>2, <2>1, <2>2, <2>3 DEF NoItemLost
<1>8. InPutOrder'
  <2> SUFFICES ASSUME ReadOnly, NEW l \in Occupied', NEW j \in Slots', j < l
               PROVE  j \in Occupied' /\ ptr'[j].value < ptr'[l].value
    BY DEF InPutOrder
  <2>1. j \in Nat
    BY <1>1 DEF Slots
  <2>2. CASE l = i
    <3>1. j \in Occupied /\ ptr[j].value \in 1..puts
      BY <2>1, <2>2, <1>2, <1>4 DEF IInv
    <3> QED BY <3>1, <2>2, <1>2, <1>3, <1>4
  <2>3. CASE l \in Occupied
    <3>1. j \in Slots
      BY <2>1, <2>3, <1>1 DEF Slots, Occupied, TypeOK
    <3>2. j \in Occupied /\ ptr[j].value < ptr[l].value
      BY <3>1, <2>3 DEF IInv, InPutOrder
    <3> QED BY <3>2, <2>3, <1>2
  <2> QED BY <2>2, <2>3, <1>2
<1>9. BorrowedValid'
  BY <1>3 DEF IInv, BorrowedValid
<1> QED
  BY <1>5, <1>6, <1>7, <1>8, <1>9 DEF IInv

\* A string that is handed out belongs to an item of the tree.
LEMMA GetStrKeepsInv ==
    ASSUME IInv, NEW k \in Keys, GetStr(k)
    PROVE  IInv'
<1>1. tree_get(k, "T_STRING") \in heap
  <2>1. PICK i \in Assigned(k, "T_STRING") : tree_get(k, "T_STRING") = ptr[i].value
    BY GetValue DEF GetStr, IInv, Types
  <2> QED BY <2>1 DEF Assigned, Matches, IInv, NoItemLost
<1>2. UNCHANGED <<alloc_cnt, ptr, heap, puts, live, Slots, Occupied>>
  BY DEF GetStr, Slots, Occupied
<1>3. borrowed' = borrowed \cup {tree_get(k, "T_STRING")}
  BY DEF GetStr
<1>4. TypeOK'
  BY <1>1, <1>2, <1>3 DEF IInv, TypeOK
<1>5. NoItemLost' /\ InPutOrder' /\ (heap \subseteq 1..puts)'
  BY <1>2 DEF IInv, NoItemLost, InPutOrder
<1>6. BorrowedValid'
  BY <1>1, <1>2, <1>3 DEF IInv, BorrowedValid
<1> QED
  BY <1>4, <1>5, <1>6 DEF IInv

\* A removal empties slots and drops what was in them, and nothing else.
LEMMA RemoveKeepsInv ==
    ASSUME IInv, NEW k \in Keys, Remove(k)
    PROVE  IInv'
<1>1. /\ ~ReadOnly /\ Slots' = Slots
      /\ ptr' = [i \in Slots |-> IF i \in Matches(k) THEN NULL ELSE ptr[i]]
      /\ heap' = heap \ {ptr[i].value : i \in Matches(k)}
      /\ UNCHANGED <<alloc_cnt, borrowed, puts, live>>
  BY DEF Remove, Slots
<1>2. Occupied' = Occupied \ Matches(k) /\ Matches(k) \subseteq Occupied
  BY <1>1 DEF Occupied, Matches
<1>3. \A i \in Occupied' : ptr'[i] = ptr[i]
  BY <1>1, <1>2 DEF Occupied
<1>4. TypeOK'
  <2>1. ptr' \in [Slots' -> Item \cup {NULL}]
    BY <1>1 DEF IInv, TypeOK
  <2> QED BY <1>1, <2>1 DEF IInv, TypeOK
<1>5. NoItemLost'
  <2>1. \A i, j \in Occupied : ptr[i].value = ptr[j].value => i = j
    BY DEF IInv, NoItemLost
  <2>2. heap' = {ptr[i].value : i \in Occupied'}
    BY <1>1, <1>2, <2>1 DEF IInv, NoItemLost
  <2>3. heap' = {ptr'[i].value : i \in Occupied'}
    BY <1>3, <2>2
  <2>4. \A i, j \in Occupied' : ptr'[i].value = ptr'[j].value => i = j
    BY <1>2, <1>3, <2>1
  <2> QED BY <2>3, <2>4 DEF NoItemLost
<1> QED
  BY <1>1, <1>4, <1>5 DEF IInv, InPutOrder, BorrowedValid

\* After the release there is no slot and nothing is allocated.
LEMMA FreeKeepsInv ==
    ASSUME IInv, Free
    PROVE  IInv'
<1>1. /\ heap' = {} /\ ptr' = [i \in {} |-> NULL] /\ alloc_cnt' = 0
      /\ live' = FALSE /\ UNCHANGED <<borrowed, puts>>
  BY DEF Free, IInv, NoItemLost
<1>2. Slots' = {} /\ Occupied' = {}
  BY <1>1 DEF Slots, Occupied
<1>3. TypeOK'
  BY <1>1, <1>2 DEF IInv, TypeOK
<1> QED
  BY <1>1, <1>2, <1>3 DEF IInv, NoItemLost, InPutOrder, BorrowedValid

\* A step that changes nothing keeps the invariant.
LEMMA StutterKeepsInv ==
    ASSUME IInv, UNCHANGED vars
    PROVE  IInv'
<1>1. UNCHANGED <<Slots, Occupied>>
  BY DEF vars, Slots, Occupied
<1> QED
  BY <1>1 DEF IInv, vars, TypeOK, NoItemLost, InPutOrder, BorrowedValid

\* The invariant is inductive.
LEMMA StepKeepsInv == IInv /\ [Next]_vars => IInv'
<1> SUFFICES ASSUME IInv, [Next]_vars PROVE IInv'
  OBVIOUS
<1>1. CASE \E k \in Keys, t \in Types : Put(k, t)
  BY <1>1, PutKeepsInv
<1>2. CASE \E k \in Keys : GetStr(k)
  BY <1>2, GetStrKeepsInv
<1>3. CASE \E k \in Keys : Remove(k)
  BY <1>3, RemoveKeepsInv
<1>4. CASE Free
  BY <1>4, FreeKeepsInv
<1>5. CASE UNCHANGED vars
  BY <1>5, StutterKeepsInv
<1> QED
  BY <1>1, <1>2, <1>3, <1>4, <1>5 DEF Next

\* The invariant holds in every reachable state of every instance.
THEOREM Invariance == Spec => []IInv
BY InitInv, StepKeepsInv, PTL DEF Spec

-----------------------------------------------------------------------------
(* What the invariant is for.                                              *)

\* Type correctness of every reachable state.
THEOREM TypeCorrect == Spec => []TypeOK
BY Invariance, PTL DEF IInv

\* tree_new_item, tree_expand, tree_remove and tree_free between them never
\* lose an allocated item nor free one twice.
THEOREM ItemsAccounted == Spec => []NoItemLost
BY Invariance, PTL DEF IInv

\* The slots of a read-only tree are in the order of the puts.
THEOREM PutOrder == Spec => []InPutOrder
BY Invariance, PTL DEF IInv

\* A pointer that tree_get_str has returned from the configuration stays
\* valid until the configuration is released.
THEOREM BorrowsStayValid == Spec => []BorrowedValid
BY Invariance, PTL DEF IInv

\* Slots in the order of the puts make the last match the newest one.
LEMMA OrderMakesNewestWin == IInv => NewestWins
<1> SUFFICES ASSUME IInv, ReadOnly, NEW k \in Keys, NEW t \in Types, tree_contains(k),
                    \A i \in Matches(k) : ptr[i].type = t,
                    NEW i \in Matches(k)
             PROVE  ptr[i].value <= tree_get(k, t)
  BY DEF NewestWins
<1>1. Assigned(k, t) = Matches(k) /\ Matches(k) # {}
  BY DEF Assigned, tree_contains
<1>2. PICK l \in Matches(k) : tree_get(k, t) = ptr[l].value /\ \A j \in Matches(k) : j <= l
  BY <1>1, GetValue DEF IInv
<1>3. /\ i \in Occupied /\ l \in Occupied /\ i \in Slots /\ l \in Slots /\ i <= l
      /\ i \in Int /\ l \in Int
  BY <1>2 DEF Matches, Occupied, Slots
<1>4. ptr[i].value \in Nat /\ ptr[l].value \in Nat
  BY <1>3 DEF IInv, TypeOK, Item, Values, Occupied
<1>5. CASE i = l
  BY <1>2, <1>4, <1>5
<1>6. CASE i < l
  BY <1>2, <1>3, <1>4, <1>6 DEF IInv, InPutOrder
<1> QED
  BY <1>3, <1>5, <1>6

\* The last put of a key wins: the environment overrides the file.
THEOREM LastPutWins == Spec => []NewestWins
BY Invariance, OrderMakesNewestWin, PTL

\* The first match decides which tree_get_* answers.
LEMMA FirstMatchDecides ==
    ASSUME TypeOK, NEW k \in Keys, Matches(k) # {}
    PROVE  \E f \in Matches(k) :
              /\ \A j \in Matches(k) : f <= j
              /\ f \in Assigned(k, ptr[f].type)
              /\ ptr[f].type \in Types
              /\ \A u \in Types : Assigned(k, u) # {} => u = ptr[f].type
<1>1. Matches(k) \in SUBSET (0..(alloc_cnt - 1)) /\ alloc_cnt \in Nat
  BY DEF Matches, Occupied, Slots, TypeOK
<1>2. PICK f \in Matches(k) : \A j \in Matches(k) : f <= j
  BY <1>1, FirstOfSlots
<1>3. \A j \in Matches(k) : j <= f => j = f
  BY <1>1, <1>2
<1>4. f \in Assigned(k, ptr[f].type) /\ ptr[f].type \in Types
  BY <1>3 DEF Assigned, TypeOK, Matches, Occupied, Item
<1>5. \A u \in Types : Assigned(k, u) # {} => u = ptr[f].type
  BY <1>2 DEF Assigned
<1> QED
  BY <1>2, <1>4, <1>5

\* One answer for a key that is there needs no more than the types.
LEMMA TypesMakeOneAnswer == TypeOK => OneAnswer
<1> SUFFICES ASSUME TypeOK, NEW k \in Keys
             PROVE  /\ tree_contains(k) <=> \E t \in Types : tree_get(k, t) # NULL
                    /\ \A t, u \in Types : tree_get(k, t) # NULL /\ tree_get(k, u) # NULL => t = u
  BY DEF OneAnswer
<1>1. \A t \in Types : tree_get(k, t) # NULL <=> Assigned(k, t) # {}
  BY GetFinds
<1>2. CASE Matches(k) = {}
  BY <1>1, <1>2 DEF Assigned, tree_contains
<1>3. CASE Matches(k) # {}
  <2>1. PICK f \in Matches(k) :
              /\ f \in Assigned(k, ptr[f].type)
              /\ ptr[f].type \in Types
              /\ \A u \in Types : Assigned(k, u) # {} => u = ptr[f].type
    BY <1>3, FirstMatchDecides
  <2> QED BY <1>1, <1>3, <2>1 DEF tree_contains
<1> QED
  BY <1>2, <1>3

\* tree_contains and the tree_get_* functions agree, and a key has one type
\* to its readers whatever types it was put with.
THEOREM OneTypeAnswers == Spec => []OneAnswer
BY TypeCorrect, TypesMakeOneAnswer, PTL

-----------------------------------------------------------------------------
(* Removal is exact.                                                       *)

\* What the readers say of a key depends on its own slots only.
LEMMA OwnSlots ==
    ASSUME TypeOK, NEW k \in Keys, NEW t \in Types,
           Matches(k)' = Matches(k), \A i \in Matches(k) : ptr'[i] = ptr[i]
    PROVE  Assigned(k, t)' = Assigned(k, t) /\ tree_get(k, t)' = tree_get(k, t)
<1>1. Assigned(k, t)' = Assigned(k, t)
  BY DEF Assigned
<1>2. CASE Assigned(k, t) = {}
  BY <1>1, <1>2 DEF tree_get
<1>3. CASE Assigned(k, t) # {}
  <2>1. Assigned(k, t) \in SUBSET (0..(alloc_cnt - 1)) /\ alloc_cnt \in Nat
    BY DEF Assigned, Matches, Occupied, Slots, TypeOK
  <2>2. LastOf(Assigned(k, t)) \in Matches(k)
    BY <1>3, <2>1, LastOfSlots DEF Assigned
  <2> QED
    BY <1>1, <1>3, <2>2 DEF tree_get
<1> QED
  BY <1>1, <1>2, <1>3

\* tree_remove takes all the duplicates of its key and disturbs no other.
THEOREM RemovalExact == Spec => RemoveIsExact
<1>1. TypeOK /\ [Next]_vars =>
        [\A k \in Keys : Remove(k) =>
          /\ tree_contains(k)' = FALSE
          /\ \A j \in Keys \ {k}, t \in Types : tree_get(j, t)' = tree_get(j, t)]_vars
  <2> SUFFICES ASSUME TypeOK, NEW k \in Keys, Remove(k)
               PROVE  /\ tree_contains(k)' = FALSE
                      /\ \A j \in Keys \ {k}, t \in Types : tree_get(j, t)' = tree_get(j, t)
    OBVIOUS
  <2>1. /\ ptr' = [i \in Slots |-> IF i \in Matches(k) THEN NULL ELSE ptr[i]]
        /\ Slots' = Slots
    BY DEF Remove, Slots
  <2>2. Matches(k)' = {}
    BY <2>1 DEF Matches, Occupied
  <2>3. tree_contains(k)' = FALSE
    BY <2>2 DEF tree_contains
  <2>4. ASSUME NEW j \in Keys \ {k}, NEW t \in Types
        PROVE  tree_get(j, t)' = tree_get(j, t)
    <3>1. \A i \in Slots : i \in Matches(j) => i \notin Matches(k)
      BY <2>4 DEF Matches
    <3>2. Matches(j)' = Matches(j) /\ \A i \in Matches(j) : ptr'[i] = ptr[i]
      BY <2>1, <3>1 DEF Matches, Occupied
    <3> QED BY <3>2, OwnSlots
  <2> QED BY <2>3, <2>4
<1> QED
  BY <1>1, TypeCorrect, PTL DEF Spec, RemoveIsExact

-----------------------------------------------------------------------------
(* The read-only tree implements TreeMap.                                  *)

\* The entry of a key, with its CHOOSE resolved.
EntryResolved ==
    \A k \in Keys, t \in Types :
        Assigned(k, t) # {} =>
            /\ \A u \in Types : Assigned(k, u) # {} => u = t
            /\ Matches(k) # {}
            /\ EntryOf(k) = [type |-> t, value |-> tree_get(k, t),
                           frozen |-> \E i \in Matches(k) : ptr[i].type # t]

\* What EntryOf is, its CHOOSE resolved.
LEMMA EntryIs == TypeOK => EntryResolved
<1> SUFFICES ASSUME TypeOK, NEW k \in Keys, NEW t \in Types, Assigned(k, t) # {}
             PROVE  /\ \A u \in Types : Assigned(k, u) # {} => u = t
                    /\ Matches(k) # {}
                    /\ EntryOf(k) = [type |-> t, value |-> tree_get(k, t),
                           frozen |-> \E i \in Matches(k) : ptr[i].type # t]
  BY DEF EntryResolved
<1>1. Matches(k) # {}
  BY DEF Assigned
<1>2. \A u \in Types : Assigned(k, u) # {} => u = t
  BY <1>1, FirstMatchDecides
<1>3. (CHOOSE u \in Types : Assigned(k, u) # {}) = t
  BY <1>2
<1> QED
  BY <1>1, <1>2, <1>3 DEF EntryOf

\* A key that is there has a type under which it can be read.
LEMMA SomeType ==
    ASSUME TypeOK, NEW k \in Keys, Matches(k) # {}
    PROVE  \E t \in Types : Assigned(k, t) # {}
BY FirstMatchDecides

\* A step that leaves the slots of a key alone leaves its entry alone.
LEMMA OwnEntry ==
    ASSUME TypeOK, TypeOK', NEW k \in Keys,
           Matches(k)' = Matches(k), \A i \in Matches(k) : ptr'[i] = ptr[i]
    PROVE  EntryOf(k)' = EntryOf(k)
<1>1. CASE Matches(k) = {}
  BY <1>1 DEF EntryOf
<1>2. CASE Matches(k) # {}
  <2>1. PICK t \in Types : Assigned(k, t) # {}
    BY <1>2, SomeType
  <2>2. Assigned(k, t)' = Assigned(k, t) /\ tree_get(k, t)' = tree_get(k, t)
    BY OwnSlots
  <2>3. (\E i \in Matches(k) : ptr[i].type # t)' <=> \E i \in Matches(k) : ptr[i].type # t
    OBVIOUS
  <2>4. EntryOf(k) = [type |-> t, value |-> tree_get(k, t),
                    frozen |-> \E i \in Matches(k) : ptr[i].type # t]
    BY <2>1, EntryIs DEF EntryResolved
  <2>5. EntryOf(k)' = [type |-> t, value |-> tree_get(k, t)',
                     frozen |-> (\E i \in Matches(k) : ptr[i].type # t)']
    <3>1. (TypeOK => EntryResolved)'
      BY EntryIs, PTL
    <3> QED BY <2>1, <2>2, <3>1 DEF EntryResolved
  <2> QED BY <2>2, <2>3, <2>4, <2>5
<1> QED
  BY <1>1, <1>2

\* With the order of the puts, a put's slot comes after every other.
LEMMA PutIsLast ==
    ASSUME IInv, ReadOnly, NEW k \in Keys, NEW t \in Types, Put(k, t)
    PROVE  \E i \in Nat \ Occupied :
              /\ Occupied' = Occupied \cup {i}
              /\ ptr'[i] = NewItem(k, t)
              /\ \A j \in Occupied : ptr'[j] = ptr[j] /\ j < i
<1>1. PICK i \in Nat \ Occupied :
              /\ Occupied' = Occupied \cup {i}
              /\ ptr'[i] = NewItem(k, t)
              /\ \A j \in Occupied : ptr'[j] = ptr[j]
  BY PutEffect DEF IInv
<1>2. ASSUME NEW j \in Occupied PROVE j < i
  <2>1. j \in Slots /\ j \in Nat
    BY DEF Occupied, Slots, IInv, TypeOK
  <2>2. i < j => i \in Slots
    BY <2>1 DEF Slots, IInv, TypeOK
  <2> QED BY <2>1, <2>2 DEF IInv, InPutOrder
<1> QED
  BY <1>1, <1>2

\* A put changes the entry of its key as TreeMap says.
LEMMA PutUpdatesEntry ==
    ASSUME IInv, TypeOK', ReadOnly, NEW k \in Keys, NEW t \in Types, Put(k, t)
    PROVE  EntryOf(k)' = Abstract!Updated(EntryOf(k), t, puts + 1)
<1>1. PICK i \in Nat \ Occupied :
              /\ Occupied' = Occupied \cup {i}
              /\ ptr'[i] = NewItem(k, t)
              /\ \A j \in Occupied : ptr'[j] = ptr[j] /\ j < i
  BY PutIsLast
<1>2. /\ Matches(k)' = Matches(k) \cup {i} /\ i \notin Matches(k)
      /\ ptr'[i].type = t /\ ptr'[i].value = puts + 1
      /\ \A j \in Matches(k) : ptr'[j] = ptr[j] /\ j < i /\ j \in Nat
  BY <1>1 DEF Matches, NewItem, Occupied, Slots
<1>3. EntryResolved /\ EntryResolved'
  <2>1. (TypeOK => EntryResolved)'
    BY EntryIs, PTL
  <2> QED BY <2>1, EntryIs DEF IInv
<1>4. CASE Matches(k) = {}
  <2>1. Assigned(k, t)' = {i} /\ Matches(k)' = {i}
    BY <1>2, <1>4 DEF Assigned
  <2>2. LastOf({i}) = i
    BY DEF LastOf
  <2>3. tree_get(k, t)' = puts + 1
    BY <1>2, <2>1, <2>2 DEF tree_get
  <2>4. EntryOf(k)' = [type |-> t, value |-> puts + 1, frozen |-> FALSE]
    BY <1>2, <1>3, <2>1, <2>3 DEF EntryResolved
  <2> QED BY <1>4, <2>4 DEF EntryOf, Abstract!Updated
<1>5. CASE Matches(k) # {}
  <2> DEFINE mixed(u) == \E j \in Matches(k) : ptr[j].type # u
  <2>1. PICK u \in Types : Assigned(k, u) # {}
    BY <1>5, SomeType DEF IInv
  <2>2. EntryOf(k) = [type |-> u, value |-> tree_get(k, u), frozen |-> mixed(u)]
    BY <1>3, <2>1 DEF EntryResolved
  <2>3. EntryOf(k) # NULL
    <3>1. PICK l \in Assigned(k, u) : tree_get(k, u) = ptr[l].value
      BY <2>1, GetValue DEF IInv
    <3>2. ptr[l] \in Item
      BY DEF IInv, TypeOK, Assigned, Matches, Occupied
    <3>3. EntryOf(k) \in Abstract!Entry
      BY <2>2, <3>1, <3>2 DEF Abstract!Entry, Item
    <3> QED BY <3>3, AbsentAssumption
  <2>4. Assigned(k, u) \subseteq Assigned(k, u)'
    BY <1>2 DEF Assigned
  <2>5. EntryOf(k)' = [type |-> u, value |-> tree_get(k, u)', frozen |-> mixed(u) \/ t # u]
    <3>1. Assigned(k, u)' # {}
      BY <2>1, <2>4
    <3>2. (\E j \in Matches(k) : ptr[j].type # u)' <=> mixed(u) \/ t # u
      BY <1>2
    <3>3. EntryOf(k)' = [type |-> u, value |-> tree_get(k, u)',
                         frozen |-> (\E j \in Matches(k) : ptr[j].type # u)']
      BY <1>3, <3>1 DEF EntryResolved
    <3> QED BY <3>2, <3>3
  <2>6. Abstract!Updated(EntryOf(k), t, puts + 1)
           = [type |-> u,
              value |-> IF u = t /\ ~mixed(u) THEN puts + 1 ELSE tree_get(k, u),
              frozen |-> mixed(u) \/ u # t]
    <3> HIDE DEF mixed
    <3> DEFINE e == EntryOf(k)
    <3>1. e.type = u /\ e.value = tree_get(k, u) /\ e.frozen = mixed(u) /\ e # NULL
      BY <2>2, <2>3
    <3> HIDE DEF e
    <3>2. Abstract!Updated(e, t, puts + 1)
            = [type |-> e.type,
               value |-> IF e.type = t /\ ~e.frozen THEN puts + 1 ELSE e.value,
               frozen |-> e.frozen \/ e.type # t]
      BY <3>1, Zenon DEF Abstract!Updated
    <3> QED BY <3>1, <3>2, Zenon DEF e
  <2>7. tree_get(k, u)' = IF u = t /\ ~mixed(u) THEN puts + 1 ELSE tree_get(k, u)
    <3>1. CASE mixed(u) \/ t # u
      <4>1. Assigned(k, u)' = Assigned(k, u)
        BY <1>2, <3>1 DEF Assigned
      <4>2. Assigned(k, u) \in SUBSET (0..(alloc_cnt - 1)) /\ alloc_cnt \in Nat
        BY DEF Assigned, Matches, Occupied, Slots, TypeOK, IInv
      <4>3. LastOf(Assigned(k, u)) \in Matches(k)
        BY <2>1, <4>2, LastOfSlots DEF Assigned
      <4> QED BY <1>2, <2>1, <3>1, <4>1, <4>3 DEF tree_get
    <3>2. CASE ~mixed(u) /\ t = u
      <4>1. Assigned(k, u)' = Matches(k) \cup {i}
        BY <1>2, <3>2 DEF Assigned
      <4>2. LastOf(Matches(k) \cup {i}) = i
        BY <1>2 DEF LastOf
      <4> QED BY <1>2, <3>2, <4>1, <4>2 DEF tree_get
    <3> QED BY <3>1, <3>2
  <2>8. (mixed(u) \/ t # u) = (mixed(u) \/ u # t)
    OBVIOUS
  <2> QED BY <2>5, <2>6, <2>7, <2>8, Zenon
<1> QED
  BY <1>4, <1>5

\* Every step of a read-only tree is a step of the map, or changes nothing
\* a reader can see.
LEMMA StepImplementsMap ==
    ASSUME ReadOnly, IInv, TypeOK', [Next]_vars
    PROVE  [Abstract!Next]_(Abstract!vars)
<1>1. ASSUME NEW k \in Keys, NEW t \in Types, Put(k, t)
      PROVE  Abstract!Next
  <2>1. puts + 1 \in Values /\ puts' = puts + 1 /\ live /\ live' = live
    BY <1>1, MaxPutsAssumption DEF Put, IInv, TypeOK, Values
  <2>2. EntryOf(k)' = Abstract!Updated(EntryOf(k), t, puts + 1)
    BY <1>1, PutUpdatesEntry
  <2>3. ASSUME NEW j \in Keys \ {k} PROVE EntryOf(j)' = EntryOf(j)
    <3>1. PICK i \in Nat \ Occupied :
              /\ Occupied' = Occupied \cup {i}
              /\ ptr'[i] = NewItem(k, t)
              /\ \A l \in Occupied : ptr'[l] = ptr[l]
      BY <1>1, PutIsLast
    <3>2. Matches(j)' = Matches(j) /\ \A l \in Matches(j) : ptr'[l] = ptr[l]
      BY <3>1, <2>3 DEF Matches, NewItem
    <3> QED BY <3>2, OwnEntry DEF IInv
  <2>4. Abstract!Put(k, t)
    BY <2>1, <2>2, <2>3 DEF Abstract!Put
  <2> QED BY <2>1, <2>4 DEF Abstract!Next
<1>2. ASSUME UNCHANGED <<alloc_cnt, ptr, puts, live>>
      PROVE  UNCHANGED Abstract!vars
  <2>1. ASSUME NEW j \in Keys PROVE EntryOf(j)' = EntryOf(j)
    <3>1. Matches(j)' = Matches(j) /\ \A l \in Matches(j) : ptr'[l] = ptr[l]
      BY <1>2 DEF Matches, Occupied, Slots
    <3> QED BY <3>1, OwnEntry DEF IInv
  <2> QED BY <1>2, <2>1 DEF Abstract!vars
<1>3. ASSUME Free PROVE Abstract!Next
  <2>1. Occupied' = {} /\ live /\ live' = FALSE /\ puts' = puts
    BY <1>3 DEF Free, Occupied, Slots
  <2>2. \A j \in Keys : EntryOf(j)' = NULL
    BY <2>1 DEF EntryOf, Matches
  <2> QED BY <2>1, <2>2 DEF Abstract!Next, Abstract!Release
<1>4. CASE \E k \in Keys : GetStr(k)
  BY <1>2, <1>4 DEF GetStr
<1>5. CASE UNCHANGED vars
  BY <1>2, <1>5 DEF vars
<1> QED
  BY <1>1, <1>3, <1>4, <1>5 DEF Next, Remove

\* The configuration tree, with its slots and scans, is the map TreeMap.
THEOREM TreeImplementsMap == ASSUME ReadOnly PROVE Spec => ImplementsMap
<1>1. Init => Abstract!Init
  <2> SUFFICES ASSUME Init PROVE Abstract!Init
    OBVIOUS
  <2>1. \A k \in Keys : EntryOf(k) = NULL
    BY DEF EntryOf, Matches, Occupied, Slots, Init
  <2> QED BY <2>1 DEF Init, Abstract!Init
<1>2. IInv /\ TypeOK' /\ [Next]_vars => [Abstract!Next]_(Abstract!vars)
  BY StepImplementsMap
<1> QED
  BY <1>1, <1>2, Invariance, TypeCorrect, PTL DEF Spec, ImplementsMap, Abstract!Spec
=============================================================================

--------------------------- MODULE StateTableProofs ---------------------------
(***************************************************************************)
(* Proofs about StateTable: for any set of reps, any MAX_HANDLE and any    *)
(* length of the table, as long as guests pass indexes below MAX_HANDLE,   *)
(* the table never panics and implements HandleMap.                        *)
(***************************************************************************)
EXTENDS StateTable, FiniteSetTheorems, TLAPS

(* A slot that an overflowing insert left behind is never freed, because   *)
(* no guest passes its index.                                              *)
FreeBelowMax == \A i \in 0 .. len - 1 : slots[i].tag = "Free" => i + 1 < MaxHandle

Inv == TypeOK /\ FreeListOK /\ IndexesAgree /\ FreeBelowMax /\ NoPanic

-----------------------------------------------------------------------------

(* The head of the free list is a free slot, or the length of the Vec when *)
(* no slot is free.                                                        *)
LEMMA HeadIsFree ==
    ASSUME TypeOK, FreeListOK
    PROVE  /\ next \in 0 .. len
           /\ next < len => slots[next].tag = "Free"
           /\ next = len => \A i \in 0 .. len - 1 : slots[i].tag = "Occupied"
<1>0. PICK k \in 0 .. len : \E link \in [1 .. k -> 0 .. len - 1] : IsFreeList(k, link)
  BY DEF FreeListOK
<1>1. PICK link \in [1 .. k -> 0 .. len - 1] : IsFreeList(k, link)
  BY <1>0
<1>2. CASE k = 0
  BY <1>1, <1>2 DEF IsFreeList, TypeOK, SlotType
<1>3. CASE k # 0
  <2>1. k \in 1 .. k /\ link[k] \in 0 .. len - 1 /\ next = link[k]
    BY <1>1, <1>3 DEF IsFreeList, TypeOK
  <2> QED
    BY <1>1, <2>1 DEF IsFreeList, TypeOK
<1> QED
  BY <1>2, <1>3

LEMMA InitInv == Init => Inv
<1> SUFFICES ASSUME Init PROVE Inv
  OBVIOUS
<1>1. TypeOK
  <2>1. panicked \in BOOLEAN
    BY DEF Init
  <2>2. /\ next \in Nat /\ len \in Nat
        /\ slots \in [0 .. len - 1 -> SlotType]
    BY DEF Init
  <2>3. reps_to_indexes \in [Reps -> 0 .. MaxHandle - 1]
    BY ConstantsAssumption DEF Init
  <2> QED
    BY <2>1, <2>2, <2>3 DEF TypeOK
<1>3. IndexesAgree /\ FreeBelowMax /\ NoPanic
  BY DEF Init, IndexesAgree, FreeBelowMax, NoPanic
<1>2. FreeListOK
  <2> DEFINE link == [j \in 1 .. 0 |-> 0]
  <2>1. IsFreeList(0, link)
    BY DEF Init, IsFreeList
  <2>2. 0 \in 0 .. len /\ link \in [1 .. 0 -> 0 .. len - 1]
    BY DEF Init
  <2> QED
    BY <2>1, <2>2 DEF FreeListOK
<1> QED
  BY <1>1, <1>2, <1>3 DEF Inv

(* insert pops the head of the free list, or grows a Vec that has no free  *)
(* slot; either way the slot it fills was not occupied.                    *)
LEMMA InsertInv ==
    ASSUME Inv, NEW r \in Reps, Insert(r)
    PROVE  Inv'
<1> USE ConstantsAssumption
<1>1. /\ next \in 0 .. len
      /\ next < len => slots[next].tag = "Free"
      /\ next = len => \A i \in 0 .. len - 1 : slots[i].tag = "Occupied"
  BY HeadIsFree DEF Inv
<1>2. /\ len \in Nat /\ next \in Nat /\ len' \in Nat
      /\ len' = IF next = len THEN len + 1 ELSE len
      /\ 0 .. len' - 1 = DOMAIN Slots(next)
      /\ slots \in [0 .. len - 1 -> SlotType]
  BY DEF Inv, TypeOK, Insert, Slots
<1>3. Slots(next) \in [0 .. len' - 1 -> SlotType]
  BY <1>2 DEF Slots, SlotType, Free
<1>4. /\ next \in 0 .. len' - 1
      /\ Slots(next)[next].tag = "Free"
      /\ Slots(next)[next].next \in Nat
      /\ Slots(next)[next].next = IF next = len THEN len + 1 ELSE slots[next].next
  BY <1>1, <1>2, <1>3 DEF Slots, SlotType, Free
<1>5. /\ slots' \in [0 .. len' - 1 -> SlotType]
      /\ slots'[next] = Occupied(r)
      /\ \A i \in 0 .. len' - 1 : i # next => i \in 0 .. len - 1 /\ slots'[i] = slots[i]
  BY <1>1, <1>2, <1>3, <1>4 DEF Insert, Slots, SlotType, Occupied
<1>6. next' = Slots(next)[next].next /\ ~panicked'
  BY <1>4 DEF Insert, Inv, NoPanic
<1>7. TypeOK'
  <2>1. reps_to_indexes' \in [Reps -> 0 .. MaxHandle - 1]
    <3>1. reps_to_indexes \in [Reps -> 0 .. MaxHandle - 1]
      BY DEF Inv, TypeOK
    <3>2. CASE next + 1 >= MaxHandle
      BY <3>1, <3>2 DEF Insert
    <3>3. CASE ~(next + 1 >= MaxHandle)
      <4>1. reps_to_indexes' = [reps_to_indexes EXCEPT ![r] = next + 1]
        BY <3>3 DEF Insert
      <4>2. next + 1 \in 0 .. MaxHandle - 1
        BY <1>2, <3>3
      <4> QED
        BY <3>1, <4>1, <4>2
    <3> QED
      BY <3>2, <3>3
  <2>2. panicked' \in BOOLEAN
    BY <1>4 DEF Insert, Inv, TypeOK
  <2>3. next' \in Nat
    BY <1>4, <1>6
  <2> QED
    BY <1>2, <1>5, <2>1, <2>2, <2>3 DEF TypeOK
<1>8. IndexesAgree'
  <2>1. ASSUME NEW q \in Reps, reps_to_indexes'[q] # 0
        PROVE  /\ IsOccupied(reps_to_indexes[q] - 1)'
               /\ slots'[reps_to_indexes'[q] - 1].rep = q
    <3>1. CASE reps_to_indexes'[q] = reps_to_indexes[q]
      <4>1. /\ reps_to_indexes[q] - 1 \in 0 .. len - 1
            /\ slots[reps_to_indexes[q] - 1].tag = "Occupied"
            /\ slots[reps_to_indexes[q] - 1].rep = q
        BY <2>1, <3>1 DEF Inv, IndexesAgree, IsOccupied
      <4>2. reps_to_indexes[q] - 1 # next
        BY <1>1, <1>2, <4>1
      <4> QED
        BY <1>2, <1>5, <2>1, <3>1, <4>1, <4>2 DEF IsOccupied
    <3>2. CASE reps_to_indexes'[q] # reps_to_indexes[q]
      <4>1. q = r /\ reps_to_indexes'[q] = next + 1
        BY <3>2 DEF Insert, Inv, TypeOK
      <4> QED
        BY <1>2, <1>4, <1>5, <4>1 DEF IsOccupied, Occupied
    <3> QED
      BY <3>1, <3>2
  <2>2. ASSUME NEW i \in 0 .. len' - 1, IsOccupied(i)', i + 1 < MaxHandle
        PROVE  reps_to_indexes'[slots'[i].rep] = i + 1
    <3>1. CASE i = next
      BY <1>2, <1>5, <2>2, <3>1 DEF Insert, Inv, TypeOK, Occupied
    <3>2. CASE i # next
      <4>1. i \in 0 .. len - 1 /\ slots'[i] = slots[i] /\ IsOccupied(i)
        BY <1>5, <2>2, <3>2 DEF IsOccupied
      <4>2. reps_to_indexes[slots[i].rep] = i + 1 /\ slots[i].rep \in Reps
        BY <2>2, <4>1 DEF Inv, IndexesAgree, TypeOK, SlotType, IsOccupied
      <4>3. slots[i].rep # r
        BY <4>1, <4>2 DEF Insert
      <4> QED
        BY <4>1, <4>2, <4>3 DEF Insert, Inv, TypeOK
    <3> QED
      BY <3>1, <3>2
  <2> QED
    BY <2>1, <2>2 DEF IndexesAgree
<1>9. FreeBelowMax'
  BY <1>2, <1>5 DEF FreeBelowMax, Inv, Occupied
<1>10. FreeListOK'
  <2>1. PICK k \in 0 .. len : \E link \in [1 .. k -> 0 .. len - 1] : IsFreeList(k, link)
    BY DEF Inv, FreeListOK
  <2>2. PICK link \in [1 .. k -> 0 .. len - 1] : IsFreeList(k, link)
    BY <2>1
  <2>3. CASE k = 0
    <3>1. next = len /\ next' = len' /\ len' = len + 1
      BY <1>2, <1>4, <1>6, <2>2, <2>3 DEF IsFreeList
    <3>2. \A i \in 0 .. len' - 1 : slots'[i].tag = "Occupied"
      BY <1>1, <1>5, <3>1 DEF Occupied
    <3>3. IsFreeList(k, link)'
      BY <2>3, <3>1, <3>2 DEF IsFreeList
    <3>4. k \in 0 .. len' /\ link \in [1 .. k -> 0 .. len' - 1]
      BY <1>2, <2>3
    <3> QED
      BY <3>3, <3>4 DEF FreeListOK
  <2>4. CASE k # 0
    <3> DEFINE m == k - 1
               rest == [j \in 1 .. m |-> link[j]]
    <3>1. /\ next = link[k] /\ next \in 0 .. len - 1 /\ len' = len
          /\ next' = IF k = 1 THEN len ELSE link[k - 1]
      BY <1>2, <1>4, <1>6, <2>2, <2>4 DEF IsFreeList
    <3>2. m \in 0 .. len' /\ rest \in [1 .. m -> 0 .. len' - 1]
      BY <1>2, <2>4, <3>1
    <3>3. \A j \in 1 .. m : rest[j] = link[j] /\ link[j] # next /\ j \in 1 .. k
      BY <2>2, <2>4, <3>1 DEF IsFreeList
    <3>4. \A i \in 0 .. len - 1 : slots'[i].tag = "Free" <=> \E j \in 1 .. m : rest[j] = i
      <4>1. ASSUME NEW i \in 0 .. len - 1, slots'[i].tag = "Free"
            PROVE  \E j \in 1 .. m : rest[j] = i
        <5>1. i # next /\ slots[i].tag = "Free"
          BY <1>5, <3>1, <4>1 DEF Occupied
        <5>2. PICK j \in 1 .. k : link[j] = i
          BY <2>2, <5>1 DEF IsFreeList
        <5>3. j \in 1 .. m
          BY <3>1, <5>1, <5>2
        <5> QED
          BY <3>3, <5>2, <5>3
      <4>2. ASSUME NEW i \in 0 .. len - 1, NEW j \in 1 .. m, rest[j] = i
            PROVE  slots'[i].tag = "Free"
        <5>1. i = link[j] /\ j \in 1 .. k /\ i # next
          BY <3>3, <4>2
        <5>2. slots[i].tag = "Free"
          BY <2>2, <5>1 DEF IsFreeList
        <5> QED
          BY <1>5, <3>1, <5>1, <5>2
      <4> QED
        BY <4>1, <4>2
    <3>5. \A j1, j2 \in 1 .. m : rest[j1] = rest[j2] => j1 = j2
      BY <2>2, <3>3 DEF IsFreeList
    <3>6. next' = IF m = 0 THEN len' ELSE rest[m]
      BY <2>4, <3>1, <3>3
    <3>7. \A j \in 1 .. m : slots'[rest[j]].next = IF j = 1 THEN len' ELSE rest[j - 1]
      <4> SUFFICES ASSUME NEW j \in 1 .. m
                   PROVE  slots'[rest[j]].next = IF j = 1 THEN len' ELSE rest[j - 1]
        OBVIOUS
      <4>1. slots'[rest[j]] = slots[link[j]]
        BY <1>5, <3>1, <3>2, <3>3
      <4> QED
        BY <2>2, <3>1, <3>3, <4>1 DEF IsFreeList
    <3>8. IsFreeList(m, rest)'
      BY <3>1, <3>4, <3>5, <3>6, <3>7 DEF IsFreeList
    <3> QED
      BY <3>2, <3>8 DEF FreeListOK
  <2> QED
    BY <2>3, <2>4
<1> QED
  BY <1>6, <1>7, <1>8, <1>9, <1>10 DEF Inv, NoPanic

(* Guests pass back only indexes below MAX_HANDLE.                         *)
IndexesBelowMax == Indexes \subseteq 0 .. MaxHandle - 1

(* remove_by_index frees a slot that was occupied and pushes it as the new *)
(* head; its reverse index is the one that is cleared.                     *)
LEMMA RemoveInv ==
    ASSUME Inv, IndexesBelowMax, NEW idx \in Indexes, Remove(idx)
    PROVE  Inv'
<1> DEFINE s == idx - 1
           r == slots[s].rep
<1>1. /\ idx \in 1 .. MaxHandle - 1
      /\ s \in 0 .. len - 1 /\ s + 1 = idx
      /\ slots[s].tag = "Occupied"
  BY ConstantsAssumption DEF Remove, HasHandle, IsOccupied, IndexesBelowMax, Inv, TypeOK
<1>2. /\ len \in Nat /\ len' = len /\ next \in Nat /\ next' = s /\ s \in Nat
      /\ slots \in [0 .. len - 1 -> SlotType]
  BY <1>1 DEF Remove, Inv, TypeOK
<1>3. r \in Reps
  BY <1>1, <1>2 DEF SlotType
<1>4. reps_to_indexes[r] = idx
  <2>1. IsOccupied(s) /\ s + 1 < MaxHandle
    BY <1>1, ConstantsAssumption DEF IsOccupied
  <2>2. reps_to_indexes[r] = s + 1
    BY <1>1, <2>1 DEF Inv, IndexesAgree
  <2> QED
    BY <1>1, <2>2
<1>5. /\ slots' = [slots EXCEPT ![s] = Free(next)]
      /\ slots' \in [0 .. len - 1 -> SlotType]
  BY <1>1, <1>2 DEF Remove, SlotType, Free
<1>6. slots'[s] = Free(next) /\ \A i \in 0 .. len - 1 : i # s => slots'[i] = slots[i]
  BY <1>1, <1>2, <1>5
<1>7. /\ reps_to_indexes \in [Reps -> 0 .. MaxHandle - 1]
      /\ reps_to_indexes' = [reps_to_indexes EXCEPT ![r] = 0]
  BY DEF Remove, Inv, TypeOK
<1>8. panicked' = FALSE
  BY <1>4 DEF Remove
<1>9. TypeOK'
  <2>1. 0 \in 0 .. MaxHandle - 1
    BY <1>1, ConstantsAssumption
  <2>3. reps_to_indexes' \in [Reps -> 0 .. MaxHandle - 1]
    BY <1>7, <2>1
  <2>2. panicked' \in BOOLEAN
    BY <1>8
  <2> QED
    BY <1>2, <1>5, <2>2, <2>3 DEF TypeOK
<1>10. IndexesAgree'
  <2>1. ASSUME NEW q \in Reps, reps_to_indexes'[q] # 0
        PROVE  /\ IsOccupied(reps_to_indexes[q] - 1)'
               /\ slots'[reps_to_indexes'[q] - 1].rep = q
    <3>1. q # r /\ reps_to_indexes'[q] = reps_to_indexes[q]
      BY <1>3, <1>7, <2>1
    <3>2. /\ reps_to_indexes[q] - 1 \in 0 .. len - 1
          /\ slots[reps_to_indexes[q] - 1].tag = "Occupied"
          /\ slots[reps_to_indexes[q] - 1].rep = q
      BY <2>1, <3>1 DEF Inv, IndexesAgree, IsOccupied
    <3>3. reps_to_indexes[q] - 1 # s
      BY <3>1, <3>2
    <3> QED
      BY <1>2, <1>6, <3>1, <3>2, <3>3 DEF IsOccupied
  <2>2. ASSUME NEW i \in 0 .. len' - 1, IsOccupied(i)', i + 1 < MaxHandle
        PROVE  reps_to_indexes'[slots'[i].rep] = i + 1
    <3>1. i \in 0 .. len - 1 /\ i # s /\ slots'[i] = slots[i] /\ IsOccupied(i)
      BY <1>2, <1>6, <2>2 DEF IsOccupied, Free
    <3>2. reps_to_indexes[slots[i].rep] = i + 1 /\ slots[i].rep \in Reps
      BY <1>2, <2>2, <3>1 DEF Inv, IndexesAgree, SlotType, IsOccupied
    <3>3. slots[i].rep # r
      BY <1>1, <1>4, <3>1, <3>2
    <3> QED
      BY <1>7, <3>1, <3>2, <3>3
  <2> QED
    BY <2>1, <2>2 DEF IndexesAgree
<1>11. FreeBelowMax'
  BY <1>1, <1>2, <1>6, ConstantsAssumption DEF FreeBelowMax, Inv
<1>12. FreeListOK'
  <2>1. PICK k \in 0 .. len : \E link \in [1 .. k -> 0 .. len - 1] : IsFreeList(k, link)
    BY DEF Inv, FreeListOK
  <2>2. PICK link \in [1 .. k -> 0 .. len - 1] : IsFreeList(k, link)
    BY <2>1
  <2> DEFINE m == k + 1
             more == [j \in 1 .. m |-> IF j = m THEN s ELSE link[j]]
  <2>3. \A j \in 1 .. k : link[j] \in 0 .. len - 1 /\ link[j] # s /\ slots[link[j]].tag = "Free"
    BY <1>1, <2>2 DEF IsFreeList
  <2>4. m \in Nat /\ m \in 1 .. m /\ more \in [1 .. m -> 0 .. len - 1]
    BY <1>1, <1>2
  <2>5. more[m] = s /\ \A j \in 1 .. k : j \in 1 .. m /\ j # m /\ more[j] = link[j]
    BY <1>2
  <2>6. \A j \in 1 .. m : j = m \/ j \in 1 .. k
    BY <1>2
  <2>7. \A i \in 0 .. len - 1 : slots'[i].tag = "Free" <=> \E j \in 1 .. m : more[j] = i
    <3>1. ASSUME NEW i \in 0 .. len - 1, slots'[i].tag = "Free"
          PROVE  \E j \in 1 .. m : more[j] = i
      <4>1. CASE i = s
        BY <2>4, <2>5, <4>1
      <4>2. CASE i # s
        <5>1. PICK j \in 1 .. k : link[j] = i
          BY <1>6, <2>2, <3>1, <4>2 DEF IsFreeList
        <5> QED
          BY <2>5, <5>1
      <4> QED
        BY <4>1, <4>2
    <3>2. ASSUME NEW i \in 0 .. len - 1, NEW j \in 1 .. m, more[j] = i
          PROVE  slots'[i].tag = "Free"
      <4>1. CASE j = m
        BY <1>6, <2>5, <3>2, <4>1 DEF Free
      <4>2. CASE j \in 1 .. k
        BY <1>6, <2>3, <2>5, <3>2, <4>2
      <4> QED
        BY <2>6, <4>1, <4>2
    <3> QED
      BY <3>1, <3>2
  <2>8. \A j1, j2 \in 1 .. m : more[j1] = more[j2] => j1 = j2
    <3> SUFFICES ASSUME NEW j1 \in 1 .. m, NEW j2 \in 1 .. m, more[j1] = more[j2]
                 PROVE  j1 = j2
      OBVIOUS
    <3>1. CASE j1 \in 1 .. k /\ j2 \in 1 .. k
      BY <2>2, <2>5, <3>1 DEF IsFreeList
    <3>2. CASE j1 = m \/ j2 = m
      BY <2>3, <2>5, <2>6, <3>2
    <3> QED
      BY <2>6, <3>1, <3>2
  <2>9. \A j \in 1 .. m : slots'[more[j]].next = IF j = 1 THEN len' ELSE more[j - 1]
    <3> SUFFICES ASSUME NEW j \in 1 .. m
                 PROVE  slots'[more[j]].next = IF j = 1 THEN len' ELSE more[j - 1]
      OBVIOUS
    <3>1. CASE j = m
      <4>1. slots'[more[j]].next = next
        BY <1>6, <2>5, <3>1 DEF Free
      <4>2. next = IF k = 0 THEN len ELSE link[k]
        BY <2>2 DEF IsFreeList
      <4>3. k # 0 => more[k] = link[k]
        BY <2>5
      <4> QED
        BY <1>2, <3>1, <4>1, <4>2, <4>3
    <3>2. CASE j \in 1 .. k
      <4>1. slots'[more[j]].next = slots[link[j]].next
        BY <1>6, <2>3, <2>5, <3>2
      <4>2. slots[link[j]].next = IF j = 1 THEN len ELSE link[j - 1]
        BY <2>2, <3>2 DEF IsFreeList
      <4>3. j # 1 => j - 1 \in 1 .. k
        BY <3>2
      <4> QED
        BY <1>2, <2>5, <3>2, <4>1, <4>2, <4>3
    <3> QED
      BY <2>6, <3>1, <3>2
  <2>10. next' = IF m = 0 THEN len' ELSE more[m]
    BY <1>2, <2>5
  <2>11. IsFreeList(m, more)'
    BY <1>2, <2>7, <2>8, <2>9, <2>10 DEF IsFreeList
  <2>12. m \in 0 .. len'
    <3>1. more \in Injection(1 .. m, 0 .. len - 1)
      BY <2>4, <2>8 DEF Injection, IsInjective
    <3>2. Cardinality(1 .. m) <= Cardinality(0 .. len - 1)
      BY <3>1, FS_Injection, FS_Interval, <1>2
    <3>3. Cardinality(1 .. m) = m
      BY <2>4, FS_Interval
    <3>4. Cardinality(0 .. len - 1) = len
      BY <1>1, <1>2, FS_Interval
    <3> QED
      BY <1>2, <2>4, <3>2, <3>3, <3>4
  <2> QED
    BY <1>2, <2>4, <2>11, <2>12 DEF FreeListOK
<1> QED
  BY <1>8, <1>9, <1>10, <1>11, <1>12 DEF Inv, NoPanic

(* The calls that fail and the two lookups leave the table as it is, and   *)
(* get_mut_by_rep unwraps a slot that is occupied.                         *)
LEMMA ReadInv ==
    ASSUME Inv,
           \/ \E r \in Reps : InsertDuplicate(r) \/ GetByRep(r)
           \/ \E idx \in Indexes : GetByIndex(idx) \/ RemoveUnknown(idx)
           \/ UNCHANGED vars
    PROVE  Inv'
<1>1. UNCHANGED <<next, len, slots, reps_to_indexes>>
  BY DEF InsertDuplicate, GetByRep, GetByIndex, RemoveUnknown, vars
<1>2. panicked' = FALSE
  <2>1. panicked = FALSE
    BY DEF Inv, TypeOK, NoPanic
  <2>2. CASE \E r \in Reps : GetByRep(r)
    <3>1. PICK r \in Reps : GetByRep(r)
      BY <2>2
    <3>2. reps_to_indexes[r] # 0 => HasHandle(reps_to_indexes[r])
      BY DEF Inv, IndexesAgree, HasHandle
    <3> QED
      BY <3>1, <3>2 DEF GetByRep
  <2>3. CASE \/ \E r \in Reps : InsertDuplicate(r)
             \/ \E idx \in Indexes : GetByIndex(idx) \/ RemoveUnknown(idx)
             \/ UNCHANGED vars
    BY <2>1, <2>3 DEF InsertDuplicate, GetByIndex, RemoveUnknown, vars
  <2> QED
    BY <2>2, <2>3
<1>3. panicked' \in BOOLEAN /\ NoPanic'
  BY <1>2 DEF NoPanic
<1>4. TypeOK'
  BY <1>1, <1>3 DEF Inv, TypeOK
<1>5. IndexesAgree'
  BY <1>1 DEF Inv, IndexesAgree, IsOccupied
<1>6. FreeBelowMax'
  BY <1>1 DEF Inv, FreeBelowMax
<1>7. FreeListOK'
  <2>1. ASSUME NEW k, NEW link, IsFreeList(k, link)
        PROVE  IsFreeList(k, link)'
    BY <1>1, <2>1 DEF IsFreeList
  <2> QED
    BY <1>1, <2>1 DEF Inv, FreeListOK
<1> QED
  BY <1>3, <1>4, <1>5, <1>6, <1>7 DEF Inv

LEMMA NextInv ==
    ASSUME Inv, IndexesBelowMax, [Next]_vars
    PROVE  Inv'
<1>1. CASE \E r \in Reps : Insert(r)
  BY <1>1, InsertInv
<1>2. CASE \E idx \in Indexes : Remove(idx)
  BY <1>2, RemoveInv
<1>3. CASE \/ \E r \in Reps : InsertDuplicate(r) \/ GetByRep(r)
           \/ \E idx \in Indexes : GetByIndex(idx) \/ RemoveUnknown(idx)
           \/ UNCHANGED vars
  BY <1>3, ReadInv
<1> QED
  BY <1>1, <1>2, <1>3 DEF Next

(* The handle table's free list and its two directions of lookup stay      *)
(* consistent through every sequence of insertions and removals, including *)
(* insertions that overflow MAX_HANDLE.                                    *)
THEOREM Invariance == IndexesBelowMax => (Spec => []Inv)
<1> SUFFICES ASSUME IndexesBelowMax PROVE Spec => []Inv
  OBVIOUS
<1>1. Inv /\ [Next]_vars => Inv'
  BY NextInv
<1> QED
  BY InitInv, <1>1, PTL DEF Spec

(* No assert!, unwrap or unreachable! of states.rs ever fires.             *)
THEOREM PanicFree == IndexesBelowMax => (Spec => []NoPanic)
<1>1. Inv => NoPanic
  BY DEF Inv
<1> QED
  BY Invariance, <1>1, PTL

(* The free list of states.rs lists the free slots, each once.             *)
THEOREM FreeList == IndexesBelowMax => (Spec => []FreeListOK)
<1>1. Inv => FreeListOK
  BY DEF Inv
<1> QED
  BY Invariance, <1>1, PTL

(* get_mut_by_index and get_mut_by_rep describe the same map.              *)
THEOREM LookupsAgree == IndexesBelowMax => (Spec => []IndexesAgree)
<1>1. Inv => IndexesAgree
  BY DEF Inv
<1> QED
  BY Invariance, <1>1, PTL

-----------------------------------------------------------------------------

(* An insert that overflows does so because every handle is in use.        *)
LEMMA OverflowMeansFull ==
    ASSUME Inv, next + 1 >= MaxHandle
    PROVE  \A h \in 1 .. MaxHandle - 1 : \E r \in Reps : reps_to_indexes[r] = h
<1>1. /\ next \in 0 .. len
      /\ next < len => slots[next].tag = "Free"
      /\ next = len => \A i \in 0 .. len - 1 : slots[i].tag = "Occupied"
  BY HeadIsFree DEF Inv
<1>2. next = len /\ len \in Nat
  BY <1>1, ConstantsAssumption DEF Inv, FreeBelowMax, TypeOK
<1> SUFFICES ASSUME NEW h \in 1 .. MaxHandle - 1
             PROVE  \E r \in Reps : reps_to_indexes[r] = h
  OBVIOUS
<1>3. h - 1 \in 0 .. len - 1 /\ (h - 1) + 1 < MaxHandle /\ (h - 1) + 1 = h
  BY <1>2, ConstantsAssumption
<1>4. slots[h - 1].tag = "Occupied" /\ slots[h - 1].rep \in Reps
  BY <1>1, <1>2, <1>3 DEF Inv, TypeOK, SlotType
<1>5. reps_to_indexes[slots[h - 1].rep] = (h - 1) + 1
  BY <1>3, <1>4 DEF Inv, IndexesAgree, IsOccupied
<1> QED
  BY <1>3, <1>4, <1>5

(* A handle is known to the slots exactly when some rep holds it.          *)
LEMMA HasHandleIffInUse ==
    ASSUME Inv, NEW idx \in 0 .. MaxHandle - 1
    PROVE  /\ HasHandle(idx) =>
                 /\ idx # 0 /\ slots[idx - 1].rep \in Reps
                 /\ reps_to_indexes[slots[idx - 1].rep] = idx
           /\ ~HasHandle(idx) => idx = 0 \/ \A r \in Reps : reps_to_indexes[r] # idx
<1>1. ASSUME HasHandle(idx)
      PROVE  /\ idx # 0 /\ slots[idx - 1].rep \in Reps
             /\ reps_to_indexes[slots[idx - 1].rep] = idx
  <2>1. idx # 0 /\ IsOccupied(idx - 1) /\ (idx - 1) + 1 < MaxHandle /\ (idx - 1) + 1 = idx
    BY <1>1, ConstantsAssumption DEF HasHandle
  <2>2. idx - 1 \in 0 .. len - 1 /\ slots[idx - 1].rep \in Reps
    BY <2>1 DEF IsOccupied, Inv, TypeOK, SlotType
  <2>3. reps_to_indexes[slots[idx - 1].rep] = (idx - 1) + 1
    BY <2>1, <2>2 DEF Inv, IndexesAgree
  <2> QED
    BY <2>1, <2>2, <2>3
<1>2. ASSUME ~HasHandle(idx), idx # 0, NEW r \in Reps, reps_to_indexes[r] = idx
      PROVE  FALSE
  BY <1>2 DEF Inv, IndexesAgree, HasHandle
<1> QED
  BY <1>1, <1>2

(* A new handle is one that no rep holds.                                  *)
LEMMA FreshHandle ==
    ASSUME Inv
    PROVE  \A r \in Reps : reps_to_indexes[r] # next + 1
<1>1. /\ next \in 0 .. len
      /\ next < len => slots[next].tag = "Free"
  BY HeadIsFree DEF Inv
<1> SUFFICES ASSUME NEW r \in Reps, reps_to_indexes[r] = next + 1
             PROVE  FALSE
  OBVIOUS
<1>2. (next + 1) - 1 = next /\ next + 1 # 0
  BY <1>1
<1>3. next \in 0 .. len - 1 /\ slots[next].tag = "Occupied"
  BY <1>2 DEF Inv, IndexesAgree, IsOccupied
<1>4. next < len
  BY <1>3 DEF Inv, TypeOK
<1> QED
  BY <1>1, <1>3, <1>4

LEMMA StepRefines ==
    ASSUME Inv, IndexesBelowMax, [Next]_vars
    PROVE  [HM!Next]_(HM!vars)
<1> USE DEF HM!Err, HM!Handle, HM!Rep, Err, Handle, Rep, HM!Handles, HM!InUse
<1>1. ASSUME NEW r \in Reps, InsertDuplicate(r)
      PROVE  HM!Insert(r)
  BY <1>1 DEF InsertDuplicate, HM!Insert
<1>2. ASSUME NEW r \in Reps, Insert(r)
      PROVE  HM!Insert(r)
  <2>1. CASE next + 1 >= MaxHandle
    BY <1>2, <2>1, OverflowMeansFull DEF Insert, HM!Insert
  <2>2. CASE ~(next + 1 >= MaxHandle)
    <3>1. next + 1 \in 1 .. MaxHandle - 1
      BY <2>2, ConstantsAssumption DEF Inv, TypeOK
    <3>2. ~ \E q \in Reps : reps_to_indexes[q] = next + 1
      BY FreshHandle
    <3>3. /\ reps_to_indexes[r] = 0
          /\ reps_to_indexes' = [reps_to_indexes EXCEPT ![r] = next + 1]
          /\ reply' = Handle(next + 1)
      BY <1>2, <2>2 DEF Insert
    <3> QED
      BY <3>1, <3>2, <3>3 DEF HM!Insert
  <2> QED
    BY <2>1, <2>2
<1>3. ASSUME NEW r \in Reps, GetByRep(r)
      PROVE  HM!GetByRep(r)
  BY <1>3 DEF GetByRep, HM!GetByRep
<1>4. ASSUME NEW idx \in Indexes
      PROVE  /\ idx \in 0 .. MaxHandle - 1
             /\ GetByIndex(idx) => HM!GetByIndex(idx)
             /\ Remove(idx) => HM!Remove(idx)
             /\ RemoveUnknown(idx) => HM!Remove(idx)
  <2>1. idx \in 0 .. MaxHandle - 1
    BY DEF IndexesBelowMax
  <2>2. /\ HasHandle(idx) =>
              /\ idx # 0 /\ slots[idx - 1].rep \in Reps
              /\ reps_to_indexes[slots[idx - 1].rep] = idx
        /\ ~HasHandle(idx) => idx = 0 \/ \A r \in Reps : reps_to_indexes[r] # idx
    BY <2>1, HasHandleIffInUse
  <2>3. GetByIndex(idx) => HM!GetByIndex(idx)
    BY <2>2 DEF GetByIndex, HM!GetByIndex
  <2>4. Remove(idx) => HM!Remove(idx)
    BY <2>2 DEF Remove, HM!Remove
  <2>5. RemoveUnknown(idx) => HM!Remove(idx)
    BY <2>2 DEF RemoveUnknown, HM!Remove
  <2> QED
    BY <2>1, <2>3, <2>4, <2>5
<1>5. UNCHANGED vars => UNCHANGED HM!vars
  BY DEF vars, HM!vars
<1> QED
  BY <1>1, <1>2, <1>3, <1>4, <1>5 DEF Next, HM!Next

(* StateTable implements HandleMap: insert, get_mut_by_index,              *)
(* get_mut_by_rep and remove_by_index answer as a one-to-one map from reps *)
(* to handles would, and insert fails only for a rep that has a handle or  *)
(* when all MAX_HANDLE - 1 handles are in use.                             *)
THEOREM Refinement == IndexesBelowMax => (Spec => RefinesHandleMap)
<1> SUFFICES ASSUME IndexesBelowMax PROVE Spec => RefinesHandleMap
  OBVIOUS
<1>1. Init => HM!Init
  BY DEF Init, HM!Init, Err, HM!Err
<1>2. Inv /\ [Next]_vars => [HM!Next]_(HM!vars)
  BY StepRefines
<1> QED
  BY Invariance, <1>1, <1>2, PTL DEF Spec, RefinesHandleMap, HM!Spec
=============================================================================

------------------------------ MODULE StateTable ------------------------------
(***************************************************************************)
(* concurrent/states.rs: StateTable<T>, the table that gives a component   *)
(* instance its handles for subtasks, streams, futures, waitable sets and  *)
(* error contexts.  A Vec of slots threaded by a LIFO free list, and a     *)
(* sparse reverse index from reps to handles.  The per-handle state T is   *)
(* opaque to the table and is left out; `panicked` records an assert!,     *)
(* unwrap or unreachable! that fails.                                      *)
(***************************************************************************)
EXTENDS Integers

CONSTANTS Reps,      \* host-side ids (TableId reps) that are given handles
          MaxHandle, \* MAX_HANDLE: 1 << 30 in the code
          Indexes,   \* the handle indexes guest code passes to intrinsics
          MaxSlots   \* bound: how far the Vec of slots may grow

ASSUME ConstantsAssumption ==
    /\ MaxHandle \in Nat \ {0}
    /\ MaxSlots \in Nat
    /\ Indexes \subseteq Nat

VARIABLES next,            \* head of the free list; the Vec's length when it is empty
          len,             \* slots.len()
          slots,           \* slots[i] for i in 0 .. len-1
          reps_to_indexes, \* 0 where the sparse Vec has no entry
          reply,           \* the answer of the last call
          panicked

vars == <<next, len, slots, reps_to_indexes, reply, panicked>>

Free(n) == [tag |-> "Free", next |-> n]
Occupied(r) == [tag |-> "Occupied", rep |-> r]

Err == [ok |-> FALSE]
Handle(h) == [ok |-> TRUE, handle |-> h]
Rep(r) == [ok |-> TRUE, rep |-> r]

(* StateTable::default                                                     *)
Init ==
    /\ next = 0 /\ len = 0
    /\ slots = [i \in 0 .. -1 |-> Free(0)]
    /\ reps_to_indexes = [r \in Reps |-> 0]
    /\ reply = Err
    /\ panicked = FALSE

IsFree(i) == i \in 0 .. len - 1 /\ slots[i].tag = "Free"
IsOccupied(i) == i \in 0 .. len - 1 /\ slots[i].tag = "Occupied"

(* handle_index_to_table_index followed by the match on the slot: handle   *)
(* idx lives in slot idx - 1, and 0 is never a handle.                     *)
HasHandle(idx) == idx # 0 /\ IsOccupied(idx - 1)

(* The slots with the one at `next` in place: when the free list is empty  *)
(* the Vec grows by a free slot whose successor is the new length.         *)
Slots(n) ==
    IF n = len THEN [i \in 0 .. len |-> IF i = len THEN Free(len + 1) ELSE slots[i]]
               ELSE slots

(* insert: the rep already has a handle.                                   *)
InsertDuplicate(r) ==
    /\ ~panicked /\ reps_to_indexes[r] # 0
    /\ reply' = Err
    /\ UNCHANGED <<next, len, slots, reps_to_indexes, panicked>>

(* Mutant of Insert: the free list keeps the slot that was taken.          *)
InsertKeepsHead(r) ==
    /\ ~panicked /\ reps_to_indexes[r] = 0
    /\ next < MaxSlots
    /\ len' = IF next = len THEN len + 1 ELSE len
    /\ slots' = [Slots(next) EXCEPT ![next] = Occupied(r)]
    /\ next' = IF next = len THEN len + 1 ELSE next
    /\ reply' = Handle(next + 1)
    /\ reps_to_indexes' = [reps_to_indexes EXCEPT ![r] = next + 1]
    /\ UNCHANGED panicked

(* insert: the slot at `next` is taken and unlinked first, and only then   *)
(* is the handle compared with MAX_HANDLE: on overflow the slot stays      *)
(* taken and the reverse index is not written.                             *)
Insert(r) ==
    /\ ~panicked /\ reps_to_indexes[r] = 0
    /\ next < MaxSlots
    /\ len' = IF next = len THEN len + 1 ELSE len
    /\ slots' = [Slots(next) EXCEPT ![next] = Occupied(r)]
    /\ IF Slots(next)[next].tag = "Free"
       THEN next' = Slots(next)[next].next /\ UNCHANGED panicked
       ELSE panicked' = TRUE /\ UNCHANGED next
    /\ IF next + 1 >= MaxHandle
       THEN reply' = Err /\ UNCHANGED reps_to_indexes
       ELSE /\ reply' = Handle(next + 1)
            /\ reps_to_indexes' = [reps_to_indexes EXCEPT ![r] = next + 1]

(* get_mut_by_index                                                        *)
GetByIndex(idx) ==
    /\ ~panicked
    /\ reply' = IF HasHandle(idx) THEN Rep(slots[idx - 1].rep) ELSE Err
    /\ UNCHANGED <<next, len, slots, reps_to_indexes, panicked>>

(* get_mut_by_rep: the handle is looked up in the reverse index and the    *)
(* slot it names is unwrapped.                                             *)
GetByRep(r) ==
    /\ ~panicked
    /\ reply' = IF reps_to_indexes[r] = 0 THEN Err ELSE Handle(reps_to_indexes[r])
    /\ panicked' = (reps_to_indexes[r] # 0 /\ ~HasHandle(reps_to_indexes[r]))
    /\ UNCHANGED <<next, len, slots, reps_to_indexes>>

(* Mutants of Remove: the freed slot is not linked to the list's old head; *)
(* the reverse index is not cleared.                                       *)
RemoveForgetsList(idx) ==
    /\ ~panicked /\ HasHandle(idx)
    /\ slots' = [slots EXCEPT ![idx - 1] = Free(len)]
    /\ next' = idx - 1
    /\ reps_to_indexes' = [reps_to_indexes EXCEPT ![slots[idx - 1].rep] = 0]
    /\ reply' = Rep(slots[idx - 1].rep)
    /\ UNCHANGED <<len, panicked>>

RemoveKeepsIndex(idx) ==
    /\ ~panicked /\ HasHandle(idx)
    /\ slots' = [slots EXCEPT ![idx - 1] = Free(next)]
    /\ next' = idx - 1
    /\ reply' = Rep(slots[idx - 1].rep)
    /\ UNCHANGED <<len, reps_to_indexes, panicked>>

(* remove_by_index: the slot is pushed on the free list, and the reverse   *)
(* index, asserted to agree, is cleared.                                   *)
Remove(idx) ==
    /\ ~panicked /\ HasHandle(idx)
    /\ LET r == slots[idx - 1].rep IN
          /\ slots' = [slots EXCEPT ![idx - 1] = Free(next)]
          /\ next' = idx - 1
          /\ panicked' = (reps_to_indexes[r] # idx)
          /\ reps_to_indexes' = [reps_to_indexes EXCEPT ![r] = 0]
          /\ reply' = Rep(r)
    /\ UNCHANGED len

RemoveUnknown(idx) ==
    /\ ~panicked /\ ~HasHandle(idx)
    /\ reply' = Err
    /\ UNCHANGED <<next, len, slots, reps_to_indexes, panicked>>

Next ==
    \/ \E r \in Reps : InsertDuplicate(r) \/ Insert(r) \/ GetByRep(r)
    \/ \E idx \in Indexes : GetByIndex(idx) \/ Remove(idx) \/ RemoveUnknown(idx)

Spec == Init /\ [][Next]_vars

-----------------------------------------------------------------------------

SlotType == [tag : {"Free"}, next : Nat] \cup [tag : {"Occupied"}, rep : Reps]

(* The Vec of slots, the free-list head and the reverse index have the     *)
(* types the struct declares, and a handle never reaches MAX_HANDLE.       *)
TypeOK ==
    /\ next \in Nat /\ len \in Nat
    /\ slots \in [0 .. len - 1 -> SlotType]
    /\ reps_to_indexes \in [Reps -> 0 .. MaxHandle - 1]
    /\ panicked \in BOOLEAN

(* link[1 .. k] lists the free slots from the last of the list to its head *)
(* `next`; the last one's successor is the length of the Vec.              *)
IsFreeList(k, link) ==
    /\ \A i \in 0 .. len - 1 : slots[i].tag = "Free" <=> \E j \in 1 .. k : link[j] = i
    /\ \A j1, j2 \in 1 .. k : link[j1] = link[j2] => j1 = j2
    /\ next = IF k = 0 THEN len ELSE link[k]
    /\ \A j \in 1 .. k : slots[link[j]].next = IF j = 1 THEN len ELSE link[j - 1]

(* The free list that insert pops and remove_by_index pushes is exactly    *)
(* the set of free slots, without repetition: no free slot is lost, none   *)
(* is listed twice, and an insert never finds an occupied slot at `next`.  *)
FreeListOK ==
    \E k \in 0 .. len : \E link \in [1 .. k -> 0 .. len - 1] : IsFreeList(k, link)

(* reps_to_indexes, which get_mut_by_rep trusts, and the slots, which      *)
(* get_mut_by_index trusts, describe the same one-to-one map; only slots   *)
(* left behind by an insert that overflowed are not in it.                 *)
IndexesAgree ==
    /\ \A r \in Reps : reps_to_indexes[r] # 0 =>
          /\ IsOccupied(reps_to_indexes[r] - 1)
          /\ slots[reps_to_indexes[r] - 1].rep = r
    /\ \A i \in 0 .. len - 1 : IsOccupied(i) /\ i + 1 < MaxHandle =>
          reps_to_indexes[slots[i].rep] = i + 1

(* The assert_eq! in remove_by_index, the unwrap in get_mut_by_rep and the *)
(* unreachable! in insert never fire.                                      *)
NoPanic == ~panicked

(* StateTable implements the map it is used as: every answer is one that   *)
(* the abstract table of handles could give.                               *)
HM == INSTANCE HandleMap WITH handleOf <- reps_to_indexes
RefinesHandleMap == HM!Spec
=============================================================================

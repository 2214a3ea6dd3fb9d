------------------------------ MODULE HandleMap ------------------------------
(***************************************************************************)
(* What a handle table promises its users, with no slots and no free list: *)
(* a partial injection from reps (host-side table ids) to handles.  A      *)
(* handle is an index from 1 to MaxHandle - 1; 0 stands for "no handle".   *)
(***************************************************************************)
EXTENDS Integers

CONSTANTS Reps,      \* the host-side ids that can be given a handle
          MaxHandle, \* handles are smaller than this
          Indexes    \* the handle indexes that are passed in

VARIABLES handleOf,  \* handleOf[r]: the handle of r, 0 when it has none
          reply      \* the answer of the last call

vars == <<handleOf, reply>>

Handles == 1 .. (MaxHandle - 1)

InUse(h) == \E r \in Reps : handleOf[r] = h

Err == [ok |-> FALSE]
Handle(h) == [ok |-> TRUE, handle |-> h]
Rep(r) == [ok |-> TRUE, rep |-> r]

Init ==
    /\ handleOf = [r \in Reps |-> 0]
    /\ reply = Err

(* A rep that has no handle gets one that is not in use; the only other    *)
(* reason to refuse it is that every handle is in use.                     *)
Insert(r) ==
    \/ /\ handleOf[r] = 0
       /\ \E h \in Handles :
             /\ ~InUse(h)
             /\ handleOf' = [handleOf EXCEPT ![r] = h]
             /\ reply' = Handle(h)
    \/ /\ handleOf[r] # 0 \/ \A h \in Handles : InUse(h)
       /\ reply' = Err
       /\ UNCHANGED handleOf

(* A lookup finds the rep whose handle it is, and only that one.           *)
GetByIndex(idx) ==
    /\ \/ \E r \in Reps : idx # 0 /\ handleOf[r] = idx /\ reply' = Rep(r)
       \/ (idx = 0 \/ ~InUse(idx)) /\ reply' = Err
    /\ UNCHANGED handleOf

GetByRep(r) ==
    /\ reply' = IF handleOf[r] = 0 THEN Err ELSE Handle(handleOf[r])
    /\ UNCHANGED handleOf

(* A removal frees exactly the handle it is given.                         *)
Remove(idx) ==
    \/ \E r \in Reps :
          /\ idx # 0 /\ handleOf[r] = idx
          /\ handleOf' = [handleOf EXCEPT ![r] = 0]
          /\ reply' = Rep(r)
    \/ /\ idx = 0 \/ ~InUse(idx)
       /\ reply' = Err
       /\ UNCHANGED handleOf

Next ==
    \/ \E r \in Reps : Insert(r) \/ GetByRep(r)
    \/ \E idx \in Indexes : GetByIndex(idx) \/ Remove(idx)

Spec == Init /\ [][Next]_vars
=============================================================================

----------------------------- MODULE MCStateTable -----------------------------
(* Model checking StateTable: four reps compete for three handles.         *)
EXTENDS StateTable

CONSTANTS r1, r2, r3, r4

MCReps == {r1, r2, r3, r4}
MCMaxHandle == 4
MCMaxSlots == 5

(* Every index a table with this MAX_HANDLE ever answers, and 0.           *)
IssuedIndexes == 0 .. MCMaxHandle - 1

(* What a guest can pass: any number, here one past the last handle.       *)
AnyIndexes == 0 .. MCMaxHandle
=============================================================================

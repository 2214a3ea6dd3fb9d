------------------------------- MODULE MCTasks -------------------------------
(***************************************************************************)
(* Instances of Tasks for TLC.                                             *)
(***************************************************************************)
EXTENDS Tasks

(* Siblings: the host calls task 1, which may call tasks 2 and 3 of a      *)
(* second component instance.                                              *)
SiblingInstance == <<1, 2, 2>>
SiblingLift == <<"stackful", "callback", "sync">>
SiblingUses == <<
    {"call", "task.return", "waitable-set.new", "waitable-set.drop", "waitable.join",
     "waitable-set.wait", "waitable-set.poll", "subtask.drop", "subtask.cancel",
     "subtask.cancel sync"},
    {"task.return", "task.cancel", "backpressure.set", "waitable-set.new", "WAIT", "YIELD"},
    {"yield"}>>

(* Chain: the host calls task 1, which calls task 2 or a host function;    *)
(* task 2 calls task 3 synchronously, and task 3 a host function.  Every   *)
(* task has an instance of its own.                                        *)
ChainInstance == <<1, 2, 3>>
ChainLift == <<"callback", "callback", "stackful">>
ChainUses == <<
    {"call", "host", "task.return", "waitable-set.new", "waitable.join", "POLL",
     "subtask.cancel", "subtask.drop"},
    {"call sync", "task.return"},
    {"host sync", "yield", "task.return"}>>

(* Pair: task 1 calls task 2 and a host function, and cancels them.        *)
PairInstance == <<1, 2>>
PairLift == <<"stackful", "callback">>
PairUses == <<
    {"call", "host", "task.return", "subtask.cancel", "subtask.drop", "yield"},
    {"task.return", "yield", "YIELD"}>>
=============================================================================

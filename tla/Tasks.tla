-------------------------------- MODULE Tasks --------------------------------
(***************************************************************************)
(* concurrent.rs: guest tasks, host tasks, waitable sets and the event     *)
(* loop of one component instance.  Guest code runs on fibers, one at a    *)
(* time: the loop takes a work item, resumes a fiber, and gets control     *)
(* back when the guest suspends or returns.  What a guest does between two *)
(* suspensions is a sequence of actions; which ones is up to the guest.    *)
(*                                                                         *)
(* `state` is ConcurrentState.  Its helpers are operators from state to    *)
(* state, and an action applies them in the order of the code.  Parameters *)
(* and results of calls are left out.                                      *)
(***************************************************************************)
EXTENDS Naturals, FiniteSets, Sequences, SequencesExt

CONSTANTS Tasks,      \* guest tasks, numbered in the order of their table ids
          Roots,      \* the ones that the host calls
          Hosts,      \* calls of host functions, numbered apart from Tasks
          Instance,   \* [Tasks -> Nat]: GuestTask::instance
          Lift,       \* [Tasks -> Lifts]: how the export is lifted
          Uses,       \* [Tasks -> SUBSET Intrinsics]: what the guest code does
          Allows      \* the exceptional steps below that a run takes

(* An async-lifted export with and without callback, a sync-lifted one.    *)
Lifts == {"callback", "stackful", "sync"}

Intrinsics == {"call", "call sync", "host", "host sync", "task.return", "task.cancel",
               "backpressure.set", "waitable.join", "subtask.drop", "subtask.cancel",
               "subtask.cancel sync", "waitable-set.new", "waitable-set.drop",
               "waitable-set.wait", "waitable-set.poll", "yield", "YIELD", "WAIT", "POLL"}

(* Steps of the guests and of the host that the code does not expect.      *)
(* Each is a guard of the action it belongs to; a run can single it out.   *)
Exceptional == {
    "CancelInside",  \* cancel a callback task that is suspended in a call
    "CancelQueued",  \* cancel a task whose start is queued, not pending
    "CancelEarly",   \* wait for the cancellation of a task in its first call
    "CancelLate",    \* cancel a host task whose result waits to be lowered
    "SyncReturn",    \* go on after task.return when called synchronously
    "LiftedSync",    \* task.return or task.cancel in a sync-lifted export
    "Share"}         \* use another task's waitables or waitable set

ASSUME ConstantsAssumption ==
    /\ Tasks \subseteq Nat \ {0} /\ Roots \subseteq Tasks
    /\ Hosts \subseteq Nat \ ({0} \cup Tasks)
    /\ Instance \in [Tasks -> Nat \ {0}] /\ Lift \in [Tasks -> Lifts]
    /\ Uses \in [Tasks -> SUBSET Intrinsics]
    /\ Allows \subseteq Exceptional

VARIABLES state,    \* ConcurrentState, with the frames of the fibers
          batch,    \* work items that poll_until took out of a queue
          current   \* the task whose guest code runs, 0 if the loop does

vars == <<state, batch, current>>

Waitables == Tasks \cup Hosts
Instances == {Instance[t] : t \in Tasks}

(* A task's sync_call_set, and a waitable set that it makes.               *)
NoSet == <<"none", 0>>
SyncSet(t) == <<"sync", t>>
GuestSet(t) == <<"set", t>>
Sets == {SyncSet(t) : t \in Tasks} \cup {GuestSet(t) : t \in Tasks}

Terminal == {"Returned", "ReturnCancelled", "StartCancelled"}

(* WorkItem                                                                *)
Item(op, id, set) == [op |-> op, id |-> id, set |-> set]
Start(t) == Item("Start", t, NoSet)
Deliver(t, q) == Item("Deliver", t, q)
Poll(t, q) == Item("Poll", t, q)
Resume(t) == Item("Resume", t, NoSet)
PushFuture(h) == Item("PushFuture", h, NoSet)
WorkerFunction(h) == Item("WorkerFunction", h, NoSet)

(* Where a task's fiber is: in guest code or in an intrinsic that it is    *)
(* suspended in, with the subtask and the set that the intrinsic is about. *)
Frame(pc, arg, set) == [pc |-> pc, arg |-> arg, set |-> set]
NoFrame == Frame("none", 0, NoSet)
Run == Frame("run", 0, NoSet)

(* GuestTask                                                               *)
NoTask == [st |-> "none", caller |-> 0, caller_instance |-> 0, lower_params |-> FALSE,
           lift_result |-> FALSE, callback |-> FALSE, first |-> FALSE, cancel_sent |-> FALSE,
           starting_sent |-> FALSE, event |-> "none", wake_on_cancel |-> NoSet, exited |-> FALSE]
NewTask(t, caller, instance) ==
    [NoTask EXCEPT !.st = "live", !.caller = caller, !.caller_instance = instance,
                   !.lower_params = TRUE, !.lift_result = TRUE,
                   !.callback = (Lift[t] = "callback"), !.first = TRUE]

(* HostTask, and its future: queued for the event loop, polled by it,      *)
(* completed with a function that waits to be run, or done.                *)
NoHost == [st |-> "none", future |-> "none", caller |-> 0, sync |-> FALSE,
           join_handle |-> FALSE, aborted |-> FALSE]
NewHost(t, sync) ==
    [NoHost EXCEPT !.st = "live", !.future = "queued", !.caller = t, !.sync = sync,
                   !.join_handle = ~sync]

(* The first error ends the run: a trap of the guest, a table entry that   *)
(* is missing or not removable, an assertion, a refused cancellation.      *)
Fail(s, why) == [s EXCEPT !.outcome = IF @ = "ok" THEN why ELSE @]
Check(s, c) == IF c THEN s ELSE Fail(s, "panic")
Present(s, w) == (IF w \in Tasks THEN s.task[w].st ELSE s.host[w].st) = "live"

PushHigh(s, items) == [s EXCEPT !.high = @ \o items]
PushLow(s, items) == [s EXCEPT !.low = @ \o items]

Least(S) == CHOOSE x \in S : \A y \in S : x <= y

(* Waitable's order: host tasks come before guest tasks.                   *)
FirstReady(S) == Least(IF S \cap Hosts # {} THEN S \cap Hosts ELSE S)

(* A waiter: its fiber, or its callback.                                   *)
WakeItem(s, t, q) == IF s.frame[t] = NoFrame THEN Deliver(t, q) ELSE Resume(t)

(* Mutants of MarkReady: the woken task keeps its wake_on_cancel; nobody is *)
(* woken.                                                                  *)
MarkReadyKeepsWake(s, w) ==
    LET q == s.set[w]
        r == [s EXCEPT !.ready[q] = @ \cup {w}]
        t == Least(s.waiting[q])
    IN  IF q = NoSet THEN s
        ELSE IF s.waiting[q] = {} THEN r
        ELSE PushHigh([r EXCEPT !.waiting[q] = @ \ {t}], <<WakeItem(s, t, q)>>)
MarkReadyAsleep(s, w) ==
    IF s.set[w] = NoSet THEN s ELSE [s EXCEPT !.ready[s.set[w]] = @ \cup {w}]

(* Waitable::mark_ready                                                    *)
MarkReady(s, w) ==
    LET q == s.set[w]
        r == [s EXCEPT !.ready[q] = @ \cup {w}]
        t == Least(s.waiting[q])
    IN  IF q = NoSet THEN s
        ELSE IF s.waiting[q] = {} THEN r
        ELSE Check(PushHigh([r EXCEPT !.waiting[q] = @ \ {t}, !.task[t].wake_on_cancel = NoSet],
                             <<WakeItem(s, t, q)>>),
                    s.task[t].wake_on_cancel \in {NoSet, q})

SetEvent(s, w, status) == MarkReady([s EXCEPT !.event[w] = status], w)

(* Mutant of Join: the waitable stays ready in the set it leaves.          *)
JoinKeepsReady(s, w, q) ==
    LET moved == [s EXCEPT !.set[w] = q] IN
    IF s.event[w] = "none" THEN moved ELSE MarkReady(moved, w)

(* Waitable::join                                                          *)
Join(s, w, q) ==
    LET old == s.set[w]
        left == IF old = NoSet THEN s ELSE [s EXCEPT !.ready[old] = @ \ {w}]
        moved == [left EXCEPT !.set[w] = q]
    IN  IF s.event[w] = "none" THEN moved ELSE MarkReady(moved, w)

(* Waitable::take_event                                                    *)
TakeEvent(s, w) ==
    LET q == s.set[w]
        r == [s EXCEPT !.event[w] = "none"]
    IN  IF q = NoSet THEN r ELSE [r EXCEPT !.ready[q] = @ \ {w}]

(* The status that the caller of a subtask has been given last.            *)
Tell(s, w, status) == [s EXCEPT !.told[w] = status]

(* GuestCall::is_ready                                                     *)
IsReady(s, call) ==
    LET i == s.inst[Instance[call.id]] IN
    ~i.do_not_enter /\ (call.op = "Start" => ~i.backpressure)

(* Mutant of PartitionPending: a call that is queued again stays pending.  *)
PartitionPendingKeeps(s, i) ==
    PushHigh(s, SetToSortSeq({c \in s.inst[i].pending : IsReady(s, c)}, LAMBDA a, b : a.id < b.id))

(* `pending` is a map from tasks in the order of their ids.                *)
PartitionPending(s, i) ==
    LET go == {c \in s.inst[i].pending : IsReady(s, c)} IN
    PushHigh([s EXCEPT !.inst[i].pending = @ \ go],
             SetToSortSeq(go, LAMBDA a, b : a.id < b.id))

(* Mutants: an instance is not closed when it is entered, and its pending  *)
(* calls are not looked at when it is left.                                *)
EnterInstanceOpen(s, t) == s
ExitInstanceQuietly(s, t) == [s EXCEPT !.inst[Instance[t]].do_not_enter = FALSE]

EnterInstance(s, t) == [s EXCEPT !.inst[Instance[t]].do_not_enter = TRUE]
ExitInstance(s, t) ==
    PartitionPending([s EXCEPT !.inst[Instance[t]].do_not_enter = FALSE], Instance[t])

(* suspend: the fiber becomes a waiter of a set, or yields.                *)
Suspend(s, t, q, frame) ==
    Check([s EXCEPT !.waiting[q] = @ \cup {t}, !.frame[t] = frame], t \notin s.waiting[q])
Yield(s, t, frame) == PushLow([s EXCEPT !.frame[t] = frame], <<Resume(t)>>)

(* Waitable::delete_from with GuestTask::dispose: completed calls left in  *)
(* sync_call_set are deleted, and subtasks pass to the task's own caller.  *)
(* A guest task among the completed calls cannot be: its caller, t, is out *)
(* of the table by then.  A set with members left cannot be removed.       *)
Forget(s, w) == [s EXCEPT !.event[w] = "none", !.set[w] = NoSet]
DeleteHost(s, h) == [Forget(s, h) EXCEPT !.host[h].st = "deleted"]
DeleteTask(s, t) ==
    LET me == s.task[t]
        done == {w \in s.ready[SyncSet(t)] : s.event[w] \in Terminal}
        r == FoldLeft(DeleteHost, Forget(s, t), SetToSeq(done \cap Hosts))
        heir(u) == u # t /\ s.task[u].st = "live" /\ s.task[u].caller = t
    IN  IF done \subseteq Hosts /\ \A w \in Waitables \ {t} : r.set[w] # SyncSet(t)
        THEN [r EXCEPT !.ready[SyncSet(t)] = {},
                       !.task = [u \in Tasks |->
                           IF u = t THEN [NoTask EXCEPT !.st = "deleted"]
                           ELSE IF heir(u)
                           THEN [@[u] EXCEPT !.caller = me.caller,
                                             !.caller_instance = me.caller_instance]
                           ELSE @[u]]]
        ELSE Fail(s, "missing")

(* A handle is named after the task it was made for; its table belongs to  *)
(* that task's instance.                                                   *)
InTable(s, t, w) == s.handle[w] # 0 /\ Instance[s.handle[w]] = Instance[t]

(* get_event: the task's own event, else the first ready waitable's.       *)
HasEvent(s, t, q) == s.task[t].event # "none" \/ (q # NoSet /\ s.ready[q] # {})
GetEvent(s, t, q) ==
    LET w == FirstReady(s.ready[q]) IN
    IF s.task[t].event # "none" THEN [s EXCEPT !.task[t].event = "none"]
    ELSE IF q # NoSet /\ q \notin s.sets THEN Fail(s, "missing")
    ELSE IF ~HasEvent(s, t, q) THEN s
    ELSE IF ~Present(s, w) \/ ~InTable(s, t, w) THEN Fail(s, "missing")
    ELSE Check(Tell([s EXCEPT !.ready[q] = @ \ {w}, !.event[w] = "none"], w, s.event[w]),
               s.event[w] # "none")
Unwrap(s, t, q) == Check(GetEvent(s, t, q), HasEvent(s, t, q))

(* Mutant of TaskComplete: the event that a cancelled task gets is sent to *)
(* its caller.                                                             *)
TaskCompleteCancelled(s, t, status) ==
    LET r == [s EXCEPT !.task[t].lift_result = FALSE] IN
    IF s.task[t].caller # 0 THEN SetEvent(r, t, "Cancelled")
    ELSE IF t \in Roots THEN Tell(r, t, status) ELSE r

(* task_complete: the host has a channel, a guest gets an event.           *)
TaskComplete(s, t, status) ==
    LET r == [s EXCEPT !.task[t].lift_result = FALSE] IN
    IF s.task[t].caller # 0 THEN SetEvent(r, t, status)
    ELSE IF t \in Roots THEN Tell(r, t, status) ELSE r

(* What happens to a task when its last activation ends.                   *)
TaskExit(s, t) ==
    IF s.task[t].caller = 0 THEN DeleteTask(s, t)
    ELSE [s EXCEPT !.task[t].exited = TRUE, !.task[t].callback = FALSE]

(* may_enter: no caller up to the host belongs to the task's instance.     *)
MayEnter(s, t) ==
    LET up[k \in 0..Cardinality(Tasks)] ==
            IF k = 0 THEN t ELSE IF up[k - 1] = 0 THEN 0 ELSE s.task[up[k - 1]].caller
    IN  \A k \in DOMAIN up :
            up[k] # 0 => s.task[up[k]].caller_instance # Instance[t]

Init ==
    /\ state = [
         task |-> [t \in Tasks |-> IF t \in Roots THEN NewTask(t, 0, 0) ELSE NoTask],
         host |-> [h \in Hosts |-> NoHost],
         event |-> [w \in Waitables |-> "none"], set |-> [w \in Waitables |-> NoSet],
         handle |-> [w \in Waitables |-> 0], told |-> [w \in Waitables |-> "none"],
         sets |-> {}, ready |-> [q \in Sets |-> {}], waiting |-> [q \in Sets |-> {}],
         frame |-> [t \in Tasks |-> NoFrame],
         inst |-> [i \in Instances |->
                      [do_not_enter |-> FALSE, backpressure |-> FALSE, pending |-> {}]],
         high |-> [k \in 1..Cardinality(Roots) |-> Start(SetToSortSeq(Roots, <)[k])],
         low |-> <<>>, outcome |-> "ok"]
    /\ batch = <<>> /\ current = 0

-----------------------------------------------------------------------------
(* The event loop.                                                         *)

Loop == state.outcome = "ok" /\ current = 0

(* The fiber of t goes on in guest code if its frame says so.              *)
Control(t, s) ==
    /\ state' = s
    /\ current' = IF s.outcome = "ok" /\ s.frame[t] = Run THEN t ELSE 0

(* poll_until: at most one host future completes, then all the work of the *)
(* first nonempty queue is taken.  An aborted future completes silently.   *)
TakeWork(s) ==
    /\ state' = IF s.high # <<>> THEN [s EXCEPT !.high = <<>>] ELSE [s EXCEPT !.low = <<>>]
    /\ batch' = IF s.high # <<>> THEN s.high ELSE s.low
    /\ UNCHANGED current

PollUntil == Loop /\ batch = <<>> /\ state.high \o state.low # <<>> /\ TakeWork(state)

Completed(s, h) ==
    IF s.host[h].aborted THEN [s EXCEPT !.host[h].future = "done"]
    ELSE PushHigh([s EXCEPT !.host[h].future = "function"], <<WorkerFunction(h)>>)

PollFuture(h) ==
    Loop /\ batch = <<>> /\ state.host[h].future = "polled" /\ TakeWork(Completed(state, h))

(* The future that the host awaits, for the results of the roots, is ready *)
(* and poll_until returns, whatever is left in the queues.  The host may   *)
(* enter the loop again: then the other steps go on from here.             *)
Answered == \A t \in Roots : state.told[t] # "none"
PollReady ==
    /\ Loop /\ batch = <<>> /\ Answered
    /\ state' = Fail(state, "done") /\ UNCHANGED <<batch, current>>

(* Nothing left to do, and the host's future never will be ready.          *)
PollIdle ==
    /\ Loop /\ batch = <<>> /\ ~Answered /\ state.high \o state.low = <<>>
    /\ \A h \in Hosts : state.host[h].future # "polled"
    /\ state' = Fail(state, "deadlock") /\ UNCHANGED <<batch, current>>

(* handle_work_item                                                        *)
Handle(op, id) ==
    Loop /\ batch # <<>> /\ Head(batch).op = op /\ Head(batch).id = id
Handled(t, s) == Control(t, s) /\ batch' = Tail(batch)
Found(s, w, r) == IF Present(s, w) THEN r ELSE Fail(s, "missing")

HandlePushFuture(h) ==
    /\ Handle("PushFuture", h)
    /\ state' = [state EXCEPT !.host[h].future = "polled"]
    /\ batch' = Tail(batch) /\ UNCHANGED current

(* The functions that first_poll and poll_and_block make of a result.      *)
HandleWorkerFunction(h) ==
    LET me == state.host[h]
        done == [state EXCEPT !.host[h].future = "done", !.host[h].join_handle = FALSE]
    IN  /\ Handle("WorkerFunction", h)
        /\ state' = Found(done, IF me.sync THEN me.caller ELSE h, SetEvent(done, h, "Returned"))
        /\ batch' = Tail(batch) /\ UNCHANGED current

(* A call that may not run yet waits in `pending` of its instance.         *)
Postpone(s, call) ==
    LET t == call.id
        sent == [s EXCEPT !.task[t].starting_sent = TRUE]
        r == IF s.task[t].starting_sent THEN s
             ELSE IF call.op = "Start" THEN SetEvent(sent, t, "Starting") ELSE sent
    IN  [r EXCEPT !.inst[Instance[t]].pending = {c \in @ : c.id # t} \cup {call}]

(* The closures of queue_call, up to the guest's first instruction.        *)
StartCall(s, t) ==
    LET lowered == [s EXCEPT !.task[t].lower_params = FALSE, !.frame[t] = Run]
        entered == IF Lift[t] = "stackful" THEN lowered ELSE EnterInstance(lowered, t)
    IN  Check(IF t \in Roots THEN entered ELSE SetEvent(entered, t, "Started"),
              s.task[t].lower_params)

(* DeliverEvent, up to the callback's first instruction.                   *)
DeliverEvent(s, t, q) ==
    LET got == Unwrap(s, t, q)
        entered == [EnterInstance(got, t) EXCEPT !.task[t].callback = FALSE,
                                                 !.task[t].first = FALSE, !.frame[t] = Run]
    IN  IF got.outcome # "ok" THEN got ELSE Check(entered, s.task[t].callback)

HandleGuestCall(t) ==
    LET call == Head(batch) IN
    /\ Handle("Start", t) \/ Handle("Deliver", t)
    /\ Handled(t, Found(state, t,
           IF ~IsReady(state, call) THEN Postpone(state, call)
           ELSE IF call.op = "Start" THEN StartCall(state, t)
           ELSE DeliverEvent(state, t, call.set)))

HandlePoll(t) ==
    LET q == Head(batch).set
        again == PushHigh(state, <<Deliver(t, q)>>)
    IN  /\ Handle("Poll", t)
        /\ Handled(t, Found(state, t,
               IF HasEvent(state, t, q) THEN again
               ELSE IF q \notin state.sets THEN Fail(state, "missing")
               ELSE [again EXCEPT !.task[t].event = "None"]))

(* resume_fiber, up to the next guest instruction or suspension.           *)
Resuming(t, pcs) == Handle("Resume", t) /\ state.frame[t].pc \in pcs
Resumed(t, s) == Handled(t, Found(state, t, s))
Return(s, t) == [s EXCEPT !.frame[t] = Run]

(* Mutant of ResumeCall: a synchronous caller never stops waiting.         *)
ResumeCallForever(t) ==
    LET c == state.frame[t].arg
        taken == TakeEvent(state, c)
        left == Tell(Join([taken EXCEPT !.handle[c] = t], c, NoSet), c, state.event[c])
    IN  /\ Resuming(t, {"call", "call sync"})
        /\ Resumed(t, IF state.frame[t].pc = "call sync"
                      THEN Suspend(taken, t, SyncSet(t), state.frame[t]) ELSE Return(left, t))

(* The loop of start_call.                                                 *)
ResumeCall(t) ==
    LET c == state.frame[t].arg
        sync == state.frame[t].pc = "call sync"
        status == state.event[c]
        taken == TakeEvent(state, c)
        named == IF status = "Returned" THEN taken ELSE [taken EXCEPT !.handle[c] = t]
        left == Tell(Join(named, c, state.frame[t].set), c, status)
    IN  /\ Resuming(t, {"call", "call sync"})
        /\ Resumed(t, Check(
               IF sync /\ status # "Returned" THEN Suspend(taken, t, SyncSet(t), state.frame[t])
               ELSE Return(IF sync THEN DeleteTask(left, c) ELSE left, t),
               status # "none"))

(* poll_and_block: the result has been stashed in the task.                *)
ResumeHost(t) ==
    /\ Resuming(t, {"host"})
    /\ Resumed(t, Check(Return(state, t), state.host[state.frame[t].arg].future = "done"))

(* waitable_check                                                          *)
ResumeYield(t) == Resuming(t, {"yield"}) /\ Resumed(t, Return(state, t))

ResumePoll(t) ==
    Resuming(t, {"poll"}) /\ Resumed(t, Return(GetEvent(state, t, state.frame[t].set), t))

(* Mutant of ResumeWait: it waits without looking at the set first.        *)
ResumeWaitBlindly(t) ==
    LET q == state.frame[t].set
        waker == [state EXCEPT !.task[t].wake_on_cancel = q]
    IN  /\ Resuming(t, {"wait"})
        /\ Resumed(t, Suspend(waker, t, q, Frame("waiting", 0, q)))

ResumeWait(t) ==
    LET q == state.frame[t].set
        waker == [state EXCEPT !.task[t].wake_on_cancel = q]
    IN  /\ Resuming(t, {"wait"})
        /\ Resumed(t,
               IF state.task[t].callback THEN Fail(state, "trap")
               ELSE IF HasEvent(state, t, q) THEN Return(Unwrap(state, t, q), t)
               ELSE IF q \notin state.sets THEN Fail(state, "missing")
               ELSE Check(Suspend(waker, t, q, Frame("waiting", 0, q)),
                          state.task[t].wake_on_cancel = NoSet))

ResumeWaiting(t) ==
    Resuming(t, {"waiting"}) /\ Resumed(t, Return(Unwrap(state, t, state.frame[t].set), t))

(* Mutant of CancelStatus: only Returned counts as an answer.              *)
CancelStatusReturned(s, t, w) ==
    IF s.event[w] = "Returned"
    THEN Return(Tell(TakeEvent(s, w), w, s.event[w]), t)
    ELSE Fail(s, IF s.told[w] \in Terminal THEN "trap" ELSE "refused")

(* The end of subtask_cancel: a terminal status, or an error, which is     *)
(* "refused" if the caller has not been given such a status before.        *)
CancelStatus(s, t, w) ==
    IF s.event[w] \in {"Returned", "ReturnCancelled"}
    THEN Return(Tell(TakeEvent(s, w), w, s.event[w]), t)
    ELSE Fail(s, IF s.told[w] \in Terminal THEN "trap" ELSE "refused")

(* Mutant of CancelRest: a cancellation that is sent counts as done.       *)
CancelRestAtOnce(s, t, w, sync) ==
    IF ~s.task[w].lift_result THEN CancelStatus(s, t, w)
    ELSE Return(Tell(s, w, "ReturnCancelled"), t)

(* subtask_cancel once the callee has had a chance to run.                 *)
CancelRest(s, t, w, sync) ==
    IF ~s.task[w].lift_result THEN CancelStatus(s, t, w)
    ELSE IF ~sync THEN Return(s, t)
    ELSE Suspend(Join(s, w, SyncSet(t)), t, SyncSet(t), Frame("cancelling", w, s.set[w]))

ResumeCancel(t) ==
    LET w == state.frame[t].arg IN
    /\ Resuming(t, {"cancel", "cancel sync"})
    /\ Resumed(t, Found(state, w, CancelRest(state, t, w, state.frame[t].pc = "cancel sync")))

ResumeCancelling(t) ==
    LET w == state.frame[t].arg
        old == state.frame[t].set
    IN  /\ Resuming(t, {"cancelling"})
        /\ Resumed(t, Found(state, w,
               IF old # NoSet /\ old \notin state.sets THEN Fail(state, "missing")
               ELSE CancelStatus(Join(state, w, old), t, w)))

-----------------------------------------------------------------------------
(* The guest.  A task that was called synchronously and has returned only  *)
(* exits, unless "SyncReturn" is allowed: its caller deletes it.           *)

Running(t) == state.outcome = "ok" /\ current = t
SyncCalled(t) ==
    \E u \in Tasks : state.frame[u].pc = "call sync" /\ state.frame[u].arg = t
Guest(t, intrinsic) ==
    /\ Running(t) /\ intrinsic \in Uses[t]
    /\ state.task[t].lift_result \/ ~SyncCalled(t) \/ "SyncReturn" \in Allows
Step(t, s) == Control(t, s) /\ UNCHANGED batch

(* What t may name: its own waitables and set, with "Share" its instance's. *)
Own(t, u) == t = u \/ ("Share" \in Allows /\ u # 0 /\ Instance[t] = Instance[u])
Knows(t, w) == Own(t, state.handle[w])
KnowsSet(t, q) == q \in state.sets /\ Own(t, q[2])

(* prepare_call and start_call, up to the suspension in the latter.        *)
Call(t, c, intrinsic) ==
    LET pushed == [state EXCEPT !.task[c] = NewTask(c, t, Instance[t])]
        joined == Join(PushHigh(pushed, <<Start(c)>>), c, SyncSet(t))
    IN  /\ intrinsic \in {"call", "call sync"} /\ Guest(t, intrinsic)
        /\ c \notin Roots /\ state.task[c].st = "none"
        /\ Step(t, IF MayEnter(pushed, c)
                   THEN Suspend(joined, t, SyncSet(t), Frame(intrinsic, c, NoSet))
                   ELSE Fail(state, "trap"))

(* first_poll and poll_and_block, of a future that does not complete at    *)
(* once: one that does leaves no trace.                                    *)
HostCall(t, h) ==
    /\ Guest(t, "host") /\ state.host[h].st = "none"
    /\ Step(t, [PushHigh(state, <<PushFuture(h)>>) EXCEPT !.host[h] = NewHost(t, FALSE),
                                                         !.handle[h] = t])

HostCallSync(t, h) ==
    LET pushed == [PushHigh(state, <<PushFuture(h)>>) EXCEPT !.host[h] = NewHost(t, TRUE)] IN
    /\ Guest(t, "host sync") /\ state.host[h].st = "none"
    /\ Step(t, Suspend(Join(pushed, h, SyncSet(t)), t, SyncSet(t), Frame("host", h, NoSet)))

TaskReturn(t) ==
    /\ Guest(t, "task.return") /\ (Lift[t] = "sync" => "LiftedSync" \in Allows)
    /\ Step(t, IF state.task[t].lift_result THEN TaskComplete(state, t, "Returned")
               ELSE Fail(state, "trap"))

TaskCancel(t) ==
    /\ Guest(t, "task.cancel") /\ (Lift[t] = "sync" => "LiftedSync" \in Allows)
    /\ Step(t, IF state.task[t].cancel_sent /\ state.task[t].lift_result
               THEN TaskComplete(state, t, "ReturnCancelled")
               ELSE Fail(state, "trap"))

BackpressureSet(t, enabled) ==
    LET i == Instance[t]
        r == [state EXCEPT !.inst[i].backpressure = enabled]
    IN  /\ Guest(t, "backpressure.set")
        /\ Step(t, IF state.inst[i].backpressure /\ ~enabled THEN PartitionPending(r, i) ELSE r)

WaitableSetNew(t) ==
    /\ Guest(t, "waitable-set.new") /\ GuestSet(t) \notin state.sets
    /\ Step(t, [state EXCEPT !.sets = @ \cup {GuestSet(t)}])

(* Mutant of WaitableSetDrop: a set that has waitables may be dropped.     *)
WaitableSetDropFull(t, q) ==
    /\ Guest(t, "waitable-set.drop") /\ KnowsSet(t, q)
    /\ Step(t, [state EXCEPT !.sets = @ \ {q}])

(* Table::delete refuses a set that still has waitables.                   *)
WaitableSetDrop(t, q) ==
    /\ Guest(t, "waitable-set.drop") /\ KnowsSet(t, q)
    /\ Step(t, IF state.waiting[q] # {} \/ \E w \in Waitables : state.set[w] = q
               THEN Fail(state, "trap")
               ELSE [state EXCEPT !.sets = @ \ {q}, !.ready[q] = {}])

WaitableJoin(t, w, q) ==
    /\ Guest(t, "waitable.join") /\ Knows(t, w) /\ (q = NoSet \/ KnowsSet(t, q))
    /\ Step(t, Found(state, w, Join(state, w, q)))

(* A subtask may be dropped when it is resolved and its event delivered; a *)
(* guest task that has not exited yet stays in the table.                  *)
Dropped(s, t, w) ==
    LET left == [Join(s, w, NoSet) EXCEPT !.handle[w] = 0]
        resolved == IF w \in Hosts THEN ~s.host[w].join_handle ELSE ~s.task[w].lift_result
        deleted == IF w \in Hosts THEN DeleteHost(left, w)
                   ELSE IF s.task[w].exited THEN DeleteTask(left, w) ELSE left
    IN  IF ~resolved THEN Fail(s, "trap")
        ELSE IF w \in Tasks /\ s.task[w].caller = 0 THEN Fail(s, "panic")
        ELSE IF s.event[w] # "none" THEN Fail(s, "trap")
        ELSE Check(deleted, w \in Tasks => s.task[w].caller_instance = Instance[t])

SubtaskDrop(t, w) ==
    /\ Guest(t, "subtask.drop") /\ Knows(t, w)
    /\ Step(t, Found(state, w, Dropped(state, t, w)))

(* Mutant of CancelHost: the future goes on.                               *)
CancelHostOnly(t, h) ==
    LET taken == [state EXCEPT !.host[h].join_handle = FALSE] IN
    /\ Guest(t, "subtask.cancel") /\ Knows(t, h)
    /\ state.host[h].future = "function" => "CancelLate" \in Allows
    /\ Step(t, Found(state, h,
           IF state.host[h].join_handle THEN Tell(taken, h, "ReturnCancelled")
           ELSE CancelStatus(state, t, h)))

(* subtask_cancel on a host task: abort the future if it is still running. *)
CancelHost(t, h) ==
    LET aborted == [state EXCEPT !.host[h].join_handle = FALSE,
                                 !.host[h].aborted = (state.host[h].future # "function")]
    IN  /\ Guest(t, "subtask.cancel") /\ Knows(t, h)
        /\ state.host[h].future = "function" => "CancelLate" \in Allows
        /\ Step(t, Found(state, h,
               IF state.host[h].join_handle THEN Tell(aborted, h, "ReturnCancelled")
               ELSE CancelStatus(state, t, h)))

(* On a task that has not started: take it out of `pending`.               *)
CancelStart(t, w) ==
    LET i == Instance[w]
        call == {c \in state.inst[i].pending : c.id = w}
        cleared == [state EXCEPT !.task[w].lower_params = FALSE, !.task[w].lift_result = FALSE,
                                 !.inst[i].pending = @ \ call]
    IN  /\ Guest(t, "subtask.cancel") /\ Knows(t, w) /\ state.task[w].lower_params
        /\ call = {} => "CancelQueued" \in Allows
        /\ Step(t, IF call # {} THEN Tell(cleared, w, "StartCancelled")
                   ELSE Fail(state, IF state.told[w] \in Terminal THEN "trap" ELSE "refused"))

(* On a task that runs: send it Event::Cancelled; if it waits, wake it and *)
(* yield so that it can answer.                                            *)
SendCancel(s, t, w, intrinsic) ==
    LET q == s.task[w].wake_on_cancel
        sent == [s EXCEPT !.task[w].cancel_sent = TRUE, !.task[w].event = "Cancelled"]
        woken == PushHigh([sent EXCEPT !.task[w].wake_on_cancel = NoSet, !.waiting[q] = @ \ {w}],
                          <<WakeItem(s, w, NoSet)>>)
    IN  IF q = NoSet THEN CancelRest(sent, t, w, intrinsic = "cancel sync")
        ELSE Check(Yield(woken, t, Frame(intrinsic, w, NoSet)), w \in s.waiting[q])

CancelTask(t, w, intrinsic) ==
    LET me == state.task[w]
        inside == Lift[w] = "callback" /\ state.frame[w] # NoFrame
    IN  /\ \/ intrinsic = "cancel" /\ Guest(t, "subtask.cancel")
           \/ intrinsic = "cancel sync" /\ Guest(t, "subtask.cancel sync")
        /\ Knows(t, w) /\ ~me.lower_params
        /\ inside => "CancelInside" \in Allows
        /\ (inside /\ me.first /\ intrinsic = "cancel sync") => "CancelEarly" \in Allows
        /\ Step(t, Found(state, w,
               IF me.lift_result THEN SendCancel(state, t, w, intrinsic)
               ELSE CancelStatus(state, t, w)))

(* waitable-set.wait, waitable-set.poll and yield first let others run.    *)
WaitableCheck(t, intrinsic, pc, q) ==
    Guest(t, intrinsic) /\ Step(t, Yield(state, t, Frame(pc, 0, q)))
YieldIntrinsic(t) == WaitableCheck(t, "yield", "yield", NoSet)
WaitableSetPoll(t, q) == KnowsSet(t, q) /\ WaitableCheck(t, "waitable-set.poll", "poll", q)
WaitableSetWait(t, q) == KnowsSet(t, q) /\ WaitableCheck(t, "waitable-set.wait", "wait", q)

(* Mutant of CallbackReturned: the callback is not put back.               *)
CallbackReturnedWithout(t) ==
    LET left == ExitInstance([state EXCEPT !.frame[t] = NoFrame], t) IN
    IF state.task[t].lift_result /\ state.task[t].first
    THEN SetEvent(left, t, "Started") ELSE left

(* The end of an activation of a callback task: the instance is left, and  *)
(* handle_callback_code sends Started again after the first call.          *)
CallbackReturned(t) ==
    LET left == ExitInstance([state EXCEPT !.frame[t] = NoFrame, !.task[t].callback = TRUE], t) IN
    IF state.task[t].lift_result /\ state.task[t].first
    THEN SetEvent(left, t, "Started") ELSE left

ReturnExit(t) ==
    /\ Running(t) /\ Lift[t] = "callback"
    /\ Step(t, Found(state, t,
           IF state.task[t].lift_result THEN Fail(state, "trap")
           ELSE TaskExit(CallbackReturned(t), t)))

ReturnYield(t) ==
    LET s == CallbackReturned(t) IN
    /\ Guest(t, "YIELD") /\ Lift[t] = "callback"
    /\ Step(t, Found(state, t,
           Check(PushLow([s EXCEPT !.task[t].event = "None"], <<Deliver(t, NoSet)>>),
                 state.task[t].event = "none")))

(* Mutants of ReturnPoll: the task does not queue behind the others; it    *)
(* queues twice when it has an event.                                      *)
ReturnPollHigh(t, q) ==
    LET s == CallbackReturned(t) IN
    /\ Guest(t, "POLL") /\ Lift[t] = "callback" /\ KnowsSet(t, q)
    /\ Step(t, Found(state, t, PushHigh(s, <<Poll(t, q)>>)))
ReturnPollTwice(t, q) ==
    LET s == CallbackReturned(t) IN
    /\ Guest(t, "POLL") /\ Lift[t] = "callback" /\ KnowsSet(t, q)
    /\ Step(t, Found(state, t,
           PushLow(IF HasEvent(s, t, q) THEN PushHigh(s, <<Deliver(t, q)>>) ELSE s,
                   <<Poll(t, q)>>)))

ReturnPoll(t, q) ==
    LET s == CallbackReturned(t) IN
    /\ Guest(t, "POLL") /\ Lift[t] = "callback" /\ KnowsSet(t, q)
    /\ Step(t, Found(state, t,
           IF HasEvent(s, t, q) THEN PushHigh(s, <<Deliver(t, q)>>)
           ELSE PushLow(s, <<Poll(t, q)>>)))

ReturnWait(t, q) ==
    LET s == CallbackReturned(t) IN
    /\ Guest(t, "WAIT") /\ Lift[t] = "callback" /\ KnowsSet(t, q)
    /\ Step(t, Found(state, t,
           IF HasEvent(s, t, q) THEN PushHigh(s, <<Deliver(t, q)>>)
           ELSE Check([s EXCEPT !.task[t].wake_on_cancel = q, !.waiting[q] = @ \cup {t}],
                      state.task[t].wake_on_cancel = NoSet /\ t \notin state.waiting[q])))

(* The return of a stackful and of a sync-lifted export.                   *)
ReturnStackful(t) ==
    /\ Running(t) /\ Lift[t] = "stackful"
    /\ Step(t, Found(state, t,
           IF state.task[t].lift_result THEN Fail(state, "trap")
           ELSE TaskExit([state EXCEPT !.frame[t] = NoFrame], t)))

ReturnSync(t) ==
    LET left == ExitInstance([state EXCEPT !.frame[t] = NoFrame], t) IN
    /\ Running(t) /\ Lift[t] = "sync"
    /\ Step(t, Found(state, t,
           Check(TaskExit(TaskComplete(left, t, "Returned"), t), state.task[t].lift_result)))

-----------------------------------------------------------------------------
EventLoop ==
    \/ PollUntil \/ PollReady \/ PollIdle
    \/ \E h \in Hosts : PollFuture(h) \/ HandlePushFuture(h) \/ HandleWorkerFunction(h)
    \/ \E t \in Tasks :
          \/ HandleGuestCall(t) \/ HandlePoll(t)
          \/ ResumeCall(t) \/ ResumeHost(t) \/ ResumeYield(t) \/ ResumePoll(t) \/ ResumeWait(t)
          \/ ResumeWaiting(t) \/ ResumeCancel(t) \/ ResumeCancelling(t)

(* Steps after which the guest is not running any more.                    *)
Leave(t) ==
    \/ \E c \in Tasks, x \in {"call", "call sync"} : Call(t, c, x)
    \/ \E h \in Hosts : HostCallSync(t, h)
    \/ YieldIntrinsic(t)
    \/ \E q \in Sets : WaitableSetPoll(t, q) \/ WaitableSetWait(t, q)
    \/ \E q \in Sets : ReturnPoll(t, q) \/ ReturnWait(t, q)
    \/ ReturnExit(t) \/ ReturnYield(t) \/ ReturnStackful(t) \/ ReturnSync(t)

GuestStep(t) ==
    \/ \E h \in Hosts : HostCall(t, h) \/ CancelHost(t, h)
    \/ TaskReturn(t) \/ TaskCancel(t)
    \/ \E enabled \in BOOLEAN : BackpressureSet(t, enabled)
    \/ WaitableSetNew(t)
    \/ \E q \in Sets : WaitableSetDrop(t, q)
    \/ \E w \in Waitables : SubtaskDrop(t, w)
    \/ \E w \in Waitables, q \in Sets \cup {NoSet} : WaitableJoin(t, w, q)
    \/ \E w \in Tasks : CancelStart(t, w)
    \/ \E w \in Tasks, x \in {"cancel", "cancel sync"} : CancelTask(t, w, x)

Ended == state.outcome # "ok" /\ UNCHANGED vars

Next == EventLoop \/ Ended \/ \E t \in Tasks : Leave(t) \/ GuestStep(t)

(* The loop is one async function that the host polls; guest code does not *)
(* run forever without returning or suspending.  Loop and Running are part *)
(* of these steps; in front they spare TLC trying each of them.            *)
Fairness ==
    /\ WF_vars(Loop /\ EventLoop)
    /\ \A t \in Tasks : WF_vars(Running(t) /\ Leave(t))

Spec == Init /\ [][Next]_vars /\ Fairness

-----------------------------------------------------------------------------
Outcomes == {"ok", "trap", "missing", "panic", "refused", "deadlock", "done"}
Statuses == {"none", "Starting", "Started"} \cup Terminal
Frames == [pc : {"none", "run", "call", "call sync", "host", "yield", "poll", "wait", "waiting",
                 "cancel", "cancel sync", "cancelling"},
           arg : Waitables \cup {0}, set : Sets \cup {NoSet}]
Items == [op : {"Start", "Deliver", "Poll", "Resume", "PushFuture", "WorkerFunction"},
          id : Waitables, set : Sets \cup {NoSet}]

(* Type invariant: ConcurrentState, GuestTask, HostTask, WaitableSet,      *)
(* InstanceState and the work queues hold values of their types.           *)
TypeOK ==
    /\ \A t \in Tasks : state.task[t] \in
         [st : {"none", "live", "deleted"}, caller : Tasks \cup {0},
          caller_instance : Instances \cup {0}, lower_params : BOOLEAN, lift_result : BOOLEAN,
          callback : BOOLEAN, first : BOOLEAN, cancel_sent : BOOLEAN, starting_sent : BOOLEAN,
          event : {"none", "None", "Cancelled"}, wake_on_cancel : Sets \cup {NoSet},
          exited : BOOLEAN]
    /\ \A h \in Hosts : state.host[h] \in
         [st : {"none", "live", "deleted"}, caller : Tasks \cup {0}, sync : BOOLEAN,
          future : {"none", "queued", "polled", "function", "done"},
          join_handle : BOOLEAN, aborted : BOOLEAN]
    /\ \A w \in Waitables : /\ state.event[w] \in Statuses /\ state.told[w] \in Statuses
                             /\ state.set[w] \in Sets \cup {NoSet}
                             /\ state.handle[w] \in Tasks \cup {0}
    /\ \A q \in Sets : state.ready[q] \subseteq Waitables /\ state.waiting[q] \subseteq Tasks
    /\ \A t \in Tasks : state.frame[t] \in Frames
    /\ \A i \in Instances : state.inst[i] \in
         [do_not_enter : BOOLEAN, backpressure : BOOLEAN, pending : SUBSET Items]
    /\ \A k \in 1..Len(state.high) : state.high[k] \in Items
    /\ \A k \in 1..Len(state.low) : state.low[k] \in Items
    /\ \A k \in 1..Len(batch) : batch[k] \in Items
    /\ state.sets \subseteq Sets /\ state.outcome \in Outcomes /\ current \in Tasks \cup {0}

(* No assertion, unwrap or unreachable of concurrent.rs fails: there is an *)
(* event for every woken waiter, a callback for every delivery, a status   *)
(* for every resumed caller, one activation of each task.                  *)
NoPanic == state.outcome # "panic"

(* No handler looks up a task, a host task or a set that has been deleted, *)
(* delivers an event for a waitable whose handle is gone, or removes a     *)
(* task whose sync_call_set has members left.                              *)
NoMissing == state.outcome # "missing"

(* subtask.cancel fails with "called after terminal status delivered" only *)
(* if the caller has been given a terminal status.                         *)
CancelAnswers == state.outcome # "refused"

Busy == state.outcome = "ok"
Queue == state.high \o state.low \o batch
CallsOf(t) == {k \in 1..Len(Queue) : Queue[k].id = t}

(* do_not_enter is set exactly while one callback or sync-lifted export of *)
(* the instance is being executed or is suspended with frames on its       *)
(* stack; no two are at the same time.                                     *)
Exclusive ==
    Busy => \A i \in Instances :
        LET inside == {t \in Tasks : /\ Instance[t] = i /\ Lift[t] # "stackful"
                                     /\ state.frame[t] # NoFrame}
        IN  Cardinality(inside) = IF state.inst[i].do_not_enter THEN 1 ELSE 0

(* A call that waits in `pending` may not run yet: exit_instance and       *)
(* backpressure_set have moved every call that may to the high queue.      *)
NoLostCall ==
    Busy => \A i \in Instances : \A c \in state.inst[i].pending : ~IsReady(state, c)

(* `ready` of a set is its members with an undelivered event, apart from   *)
(* tasks that the host has taken over and that have been removed since.    *)
ReadyExact ==
    Busy => \A q \in Sets :
        {w \in state.ready[q] : Present(state, w)}
            = {w \in Waitables : state.set[w] = q /\ state.event[w] # "none"}

(* No task waits for what has already happened: the call that it is        *)
(* suspended in has no event, the subtask that it cancels no terminal one, *)
(* and neither a member of the set it waits on nor the task itself has.    *)
NoLostWakeup ==
    Busy => \A q \in Sets : \A t \in state.waiting[q] :
        LET event == state.event[state.frame[t].arg] IN
        IF q # SyncSet(t) THEN state.ready[q] = {} /\ state.task[t].event = "none"
        ELSE IF state.frame[t].pc = "cancelling" THEN event \notin Terminal
        ELSE event = "none"

(* A task that has not exited is in exactly one place: running, in a work  *)
(* queue, pending, or waiting on one set; any other task is in none.       *)
OnePlace ==
    Busy => \A t \in Tasks :
        LET alive == /\ state.task[t].st = "live" /\ ~state.task[t].exited
                     /\ state.told[t] # "StartCancelled"
        IN  Cardinality(CallsOf(t))
            + Cardinality({c \in state.inst[Instance[t]].pending : c.id = t})
            + Cardinality({q \in Sets : t \in state.waiting[q]})
            + (IF current = t THEN 1 ELSE 0) = IF alive THEN 1 ELSE 0

Rank == [x \in Statuses |-> CASE x = "none" -> 0 [] x = "Starting" -> 1 [] x = "Started" -> 2
                               [] x \in Terminal -> 3]

(* The statuses that a caller is given for a subtask go forward, from      *)
(* Starting to Started to one terminal status that never changes.          *)
StatusForward ==
    [][\A w \in Waitables :
         LET old == state.told[w]
             new == state'.told[w]
         IN  Rank[old] <= Rank[new] /\ (old \in Terminal => new = old)]_vars

(* A task that polls or yields, and so waits in the low queue, is not      *)
(* starved by other tasks that poll, yield or wait.  Nothing is claimed    *)
(* for a guest that makes calls for ever: every call refills the high      *)
(* queue, which the loop serves first.  Here a task is called only once.   *)
Yielded(t) == \E k \in 1..Len(state.low) : state.low[k].id = t
YieldersRun == \A t \in Tasks : Yielded(t) ~> (~Yielded(t) \/ ~Busy)

(* A caller suspended in a synchronous call whose callee has returned goes *)
(* on: the event wakes it, whatever else is queued.                        *)
SyncCallReturns ==
    \A t \in Tasks :
        LET frame == state.frame[t] IN
        (frame.pc = "call sync" /\ ~state.task[frame.arg].lift_result)
            ~> (frame.pc # "call sync" \/ ~Busy)

(* A guest task that has exited and that its caller can name no more is    *)
(* removed from the table.                                                 *)
NoTaskLeak ==
    (Busy /\ current = 0 /\ Queue = <<>>) => \A t \in Tasks \ Roots :
        state.task[t].st = "live" => ~state.task[t].exited \/ state.handle[t] # 0

(* The result of a host function is lowered, and its event sent, only if   *)
(* the call has not been cancelled before.                                 *)
CancelledIsQuiet ==
    \A h \in Hosts : state.told[h] = "ReturnCancelled" => state.event[h] = "none"
=============================================================================

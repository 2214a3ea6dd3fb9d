# TLA+ models of Wasmtime's component-model async runtime

The repository is a fork of Wasmtime that prototypes the async ABI of the
component model. What is new in it, and hard to test, is the runtime under
`src/crates/wasmtime/src/runtime/component/concurrent*`: an event loop that
interleaves guest tasks, host futures, streams and futures within one component
instance. This directory holds TLA+ specifications of that runtime, the TLC
configurations that check them on small instances, and proofs that TLAPS checks.

Paths below are relative to `src/crates/wasmtime/src/runtime/component/`.

## 1. The system

| Part | Source | State | Operations |
|---|---|---|---|
| Handle tables | `concurrent/states.rs` | slots, free list, rep-to-index map | insert, get, remove |
| Streams and futures | `concurrent/futures_and_streams.rs` | `TransmitState`: both ends, `done`; events of both waitables; handle states | read, write, cancel, drop, lift, lower, by guest or host |
| Tasks and event loop | `concurrent.rs` | `ConcurrentState`: guest and host tasks, waitable sets, instance states, two work queues, host futures | the loop; every intrinsic of the async ABI |
| Error contexts | `concurrent/error_contexts.rs`, `futures_and_streams.rs` | local and global reference counts | new, drop, transfer, lift, lower |
| Runtime table | `concurrent/table.rs` | slab with free list, parent and children per entry | push, delete, add and remove child |
| Abort handles | `concurrent/abort.rs` | `JoinState` shared by a handle and its future | run, abort, poll, drop |
| Store access | `concurrent/tls.rs` | a thread-local pointer | set, get |

How they interact. Every task, host task, transmit, set and error context is an
entry of the runtime table; guests name them by handles of a `StateTable` per
instance. A guest's call to another component (`prepare_call`, `start_call`)
makes a `GuestTask`, queues its start and suspends the caller's fiber on the
caller's `sync_call_set` until the callee has a status. A call of a host function
(`first_poll`, `poll_and_block`) polls the host's future once and leaves it to
the loop if it is pending. Results come back as events of waitables:
`Waitable::set_event` marks the waitable ready in its set and wakes one waiter,
which is a suspended fiber or a callback. `poll_until` polls the host futures and
then serves all of the high-priority queue, or else all of the low-priority one.
A write to a stream that meets a parked read copies at once, whichever side is
the guest; a host write to a guest that needs `realloc` is left to a worker item.

What makes it hard: a task suspends in the middle of an intrinsic and goes on
after others have run; a cancellation meets a completion on its way; statuses and
completions of the same waitable merge before they are delivered; a caller ends
before its callee; either end of a stream is dropped first, with an operation
parked; probes of length zero; a slot or a handle at its limit. `PROJECT.json`
lists these hazards at the line where each bites, with the properties that cover
it.

## 2. Modules

| Module | Models | Role |
|---|---|---|
| `HandleMap` | what `states.rs` promises | abstract specification: a partial one-to-one map |
| `StateTable` | `states.rs` | slots, free list and reverse index; implements `HandleMap` |
| `StateTableProofs` | | inductive invariant, refinement |
| `Transmit` | streams and futures | one stream or future with its two ends |
| `TransmitProofs` | | type correctness; inductive invariant |
| `Tasks` | `concurrent.rs` | tasks, waitable sets, event loop of one instance |
| `MCStateTable`, `MCTransmit`, `MCTasks` | | instances for TLC |

Operators whose comment begins with "Mutant" are deliberately wrong variants of
the definition that follows them. Replacing a definition by its mutant makes TLC
report the property it is paired with in `PROJECT.json`; that is how the
properties are known to depend on the code they are about.

### StateTable

`slots`, `next` (the head of the free list) and `reps_to_indexes` are the fields of
the Rust struct; handle `idx` lives in slot `idx - 1`, as in the code. One action
per method. `insert` is modelled with its order of assignments, because it takes
the slot before it compares the handle with `MAX_HANDLE`. `MaxSlots` bounds how far
the table grows; the proofs leave it and `MaxHandle` open.

### Transmit

`write` and `read` are `WriteState` and `ReadState`, as records: the state, how far
the buffer is consumed (`addr`), how many items are left (`count`), and
`PostWrite::Drop`. Items are counted, not stored. `wstate` and `rstate` say who
holds an end and, for a guest, the `StreamFutureState` of its handle (`Busy`,
`Read`, ...). `wevent` and `revent` are the events of the two waitables, with
`pending` for an event that an operation in progress waits for. `whost` and `rhost`
are what the host sees of an end that it owns: nothing going on, a read or write
whose future is pending (`waiting`), a `watch_reader` or `watch_writer` whose waker
is registered (`watching`), a stream known to be closed, a future used up. `job` is the `WorkerFunction` that
lowers a host write to a guest. `unW`, `unR`, `wlen`, `rlen`, `sent`, `defaulted`
are history variables.

`guest_write`, `guest_read`, `host_write` and `host_read` are four actions each,
one for each state in which they may find the other end. `FutureWriter::write` and
`FutureReader::read` consume their end: a guard closes it in the poll in which the
operation returns, or when its future is dropped. So the host operations on a future
include the close (`HostWriteReturns`, `HostReadReturns`), default value included.
For an operation that had parked, `Answer` puts the result into the channel, and
`HostDropWriter`, `HostDropWriterDefault` or `HostDropReader` is the later poll that
takes it and closes. Both drops wake a watcher of the other end (`Woken`).
Cancellation, delivery, watching, the other drops, and lifting and lowering of the
read end are actions of their own.

### Tasks

`state` is `ConcurrentState` as one record. The helpers of the code (`mark_ready`,
`set_event`, `join`, `take_event`, `get_event`, `partition_pending`, `suspend`,
`dispose`, ...) are operators from state to state, and an action applies them in
the order of the code, so that an action is a whole handler up to the point where
its fiber is suspended. `frame` says where a task's fiber is suspended; the
`Resume...` actions are what the code does after `suspend` returns. `current` is
the task whose guest code is running, 0 for the loop. `batch` is the queue that
`poll_until` has taken.

A guest is any program over the intrinsics of `Uses`; a run gives each task its
set. Tasks and host calls are numbered, and a number is used once: the order of
ids matters (waiters are woken, and pending calls queued, in that order), their
reuse does not. `outcome` becomes "trap" when a guest is at fault, "panic" when
an assertion, `unwrap` or `unreachable!` of the runtime fails, "missing" when
an entry is not in the table any more, "refused" when `subtask.cancel` says
that a terminal status was delivered although none was, "deadlock" for
`AsyncDeadlock`, "done" when `poll_until` returns because the results that the host
awaits are there. The first of them ends the behaviour. A host that enters the loop
again, with work left in the queues, is covered too: once the results are there,
the loop may stop or go on.

`dispose` of a task deletes the completed host calls left in its `sync_call_set`.
It would fail on a completed guest call, whose caller is out of the table by then,
and on a set with members left; both count as "missing".

### Exceptional steps

`Transmit` and `Tasks` each have a set `Exceptional` of steps that the interface
permits but the code does not cope with; the constant `Allows` says which of them
are taken. Each is a guard of one action. The passing runs and the theorems have
`Allows = {}`; each violation run allows one of them (or needs none) and shows
what it leads to. Without this split the first such step would hide
everything behind it. Steps that no run allows yet: `CancelLowering`,
`AbandonStream`, `LiftPartial` of `Transmit`; `CancelQueued`, `CancelEarly`,
`SyncReturn`, `LiftedSync`, `Share` of `Tasks`. For them the properties say nothing.

## 3. Runs

| Run | Checks | Bounds |
|---|---|---|
| `state_table` | invariants, refinement of `HandleMap` | 4 reps, `MaxHandle` 4, 5 slots: every free list of up to three slots, and inserts beyond the limit |
| `state_table_overflow` | violation: see below | the same, and index `MaxHandle` is passed in |
| `transmit` | safety, `PendingEnds` under fairness | one stream or future, writes of 0 to 2 and reads of 0 to 3 items: probes, and partial copies in both directions that take several operations |
| `transmit_partial`, `_probe`, `_parked`, `_default` | violations | the same |
| `tasks_siblings` | safety of calls, sets, cancellation, backpressure | 3 tasks in 2 instances: two of one instance compete for it |
| `tasks_chain` | safety, `SyncCallReturns`, `YieldersRun` | 3 tasks in 3 instances and a host call: nested synchronous waits with polling and yielding |
| `tasks_cancel_inside`, `_leak`, `_cancel_late` | violations | 2 tasks and a host call |

What the passing runs show:

- a handle names one rep at a time, lookups by handle and by rep agree, and the
  free list is exactly the free slots;
- every item copied through a stream is reported once to each end
  (`Conservation`), a partly consumed buffer goes on where it stopped
  (`InOrder`), an operation in progress is parked or about to be answered
  (`NothingLost`), the two ends never wait for each other (`NeverBothParked`), a
  future passes one value (`OneValue`), the last drop deletes (`NoLeak`), and an
  operation whose peer goes away ends (`PendingEnds`);
- at most one callback or sync-lifted activation of an instance is in progress
  (`Exclusive`), each task is in one place (`OnePlace`), a call that may run is
  not left pending (`NoLostCall`), no task sleeps through an event
  (`NoLostWakeup`, `ReadyExact`), statuses go forward (`StatusForward`),
  a cancellation is answered (`CancelAnswers`; not when the start of the task
  is queued, nor when a caller waits for a task in its first activation: these are
  `CancelQueued` and `CancelEarly`, which the runs leave out), nothing is used
  after it was deleted (`NoMissing`), no assertion fails (`NoPanic`),
  a synchronous call whose callee has returned goes on (`SyncCallReturns`), and
  a task that polls or yields gets its turn although others poll and yield for ever
  (`YieldersRun`).

`YieldersRun` claims nothing for guests that make calls for ever. The low queue
is served only when the high one is empty, and every call puts a start, and later
the caller's fiber, into the high one; a loop of synchronous calls keeps polling
tasks waiting as long as it lasts. In the runs each task is called once.

What the violation runs show (the findings of `PROJECT.json`):

- `state_table_overflow`: an insert beyond `MAX_HANDLE` fails after the slot was
  made, and the slot stays;
- `transmit_partial`: a guest that takes the event of a partial copy and
  writes again meets an assertion, the rest of its first buffer being parked;
- `transmit_probe`: when two zero-length operations meet, one is forgotten;
- `transmit_parked`: the reader of a closed writer's parked value is dropped, and
  the state is not deleted;
- `transmit_default`: a host write that meets a host read does not set `done`, and
  the close at the end of the write then produces the default as well;
- `tasks_cancel_inside`: a callback task cancelled inside an intrinsic
  that then returns YIELD meets an assertion;
- `tasks_leak`: a callee that returns at once is never deleted;
- `tasks_cancel_late`: a host call cancelled after its future completed is
  lowered and announced nevertheless.

Fairness. `Transmit`: the loop runs queued work, and a guest with an operation in
progress waits for its event. `Tasks`: the loop is one async function that the
embedder polls, so some step of it that stays enabled is taken; and guest
code that is running suspends or returns at some point (`Leave`), which is what
WebAssembly that is not in an endless loop does. There is no fairness between
guests: the queues give it. A host future completes if nothing else is left to do.

Deadlock is checked where a configuration does not say otherwise; `Tasks` ends in
a state that stutters (`Ended`).

## 4. Proofs

Proved by TLAPS for every value of the constants:

- `StateTableProofs`: the inductive invariant (`Invariance`), `PanicFree`,
  `FreeList`, `LookupsAgree`, and `Refinement` of `HandleMap`. The free list is a
  linked list through the slots; `FreeListOK` says that there is an enumeration of
  it without repetition, so that an insert takes its last element off and a removal
  adds one, and no induction along the list is needed. `FreeBelowMax` is the
  strengthening: slots that a failed insert left behind are never freed.
  Assumption: no index at or above `MAX_HANDLE` is passed in.
- `TransmitProofs`: `TypeCorrect`, for buffers of any size and with all exceptional
  steps; with `Allows = {}` and buffers of any size, `PanicFree`,
  `ItemsConserved`, `BuffersInOrder`, `NoOperationLost`, `EndsMeet`, `Deleted`. None
  of these is inductive by itself. `Inv` adds `Owners` (a parked operation belongs
  to the holder of the end), `Drops` (an end is dropped exactly when nobody holds
  it), `Events` (a completion is for a Busy handle, a drop from an end that is
  gone), `Jobs` (a queued worker stands for a read that was taken out), `Whole`
  (a completion that leaves an operation parked has consumed some of it, and a host
  takes an operation whole) and `Single` (a future's operations have one item).
  `NothingLost`, for instance, needs `Jobs`, or a cancelled read might leave a
  worker without a reader; `InOrder` needs `Whole`, or a host read might count
  items twice. There is one lemma per action for the types and one for the
  invariant.

Only model-checked: `OneValue`, `PendingEnds` and all of `Tasks`. Liveness is out of
the prover's reach.

## 5. Not modelled

`PROJECT.json` lists every part. Of the async runtime: error contexts, the runtime
table, abort handles (only what `Tasks` needs of the last two), store access,
buffers. Within the parts that are modelled: the contents of items, parameters and
results, call contexts, post-return functions, `context.get` and `context.set`,
tasks that the embedder spawns, calls of the host while others are in progress,
`guest_transfer`, streams as members of waitable sets. Of the rest of Wasmtime:
compilers, the core runtime, adapters, WASI, the APIs and the tools, which are
sequential, generated, or I/O.

## 6. Plan

1. `ErrorContexts`: local tables and global counts; that they agree, that the last
   drop deletes. Uses `HandleMap`.
2. `RuntimeTable`: slab with parents and children against an abstract forest; no
   orphans, no reuse of an entry with children.
3. `Abort`: `JoinHandle` and its future on two threads; exactly one of result and
   abort, no lost waker.
4. `Tasks` composed with `Transmit`: streams as waitables of a set; delivery
   through `on_delivery`; `delete_transmit` of a waitable that is ready in a set.
5. An abstract specification of a call (starting, started, one terminal status)
   that `Tasks` implements.
6. Runs for the exceptional steps that none allows yet.
7. Reuse of table ids in `Tasks`, and with it guests that make calls for ever.
8. Proofs for `Tasks`: `TypeOK`, then `Exclusive` and `NoLostCall`, then
   `ReadyExact` and `NoLostWakeup`; for `Transmit`: `OneValue`.

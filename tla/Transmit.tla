------------------------------- MODULE Transmit -------------------------------
(***************************************************************************)
(* concurrent/futures_and_streams.rs: one stream or future.  A rendezvous  *)
(* between a write end and a read end, each owned by a guest instance or   *)
(* by the host.  An operation that finds the other end waiting copies      *)
(* items at once; otherwise it is parked in the TransmitState until the    *)
(* other end arrives, is dropped, or the operation is cancelled.  A parked *)
(* guest operation is answered by an event on the end's waitable.          *)
(*                                                                         *)
(* Items are counted, not stored.  A call refused with bail! traps the     *)
(* guest and ends the run, so refused calls are guards here; the one trap  *)
(* modelled is dropping a future before writing it.  `outcome` is "panic"  *)
(* after an assert! or unreachable! fired.                                 *)
(***************************************************************************)
EXTENDS Integers

CONSTANTS WriteCounts, ReadCounts,  \* sizes of the buffers of a stream
          Allows  \* the exceptional steps below that a run takes

(* Steps of a guest or of the host that the code does not expect.  Each is *)
(* a guard of the action it belongs to, so that a run can single it out.   *)
Exceptional == {
    "TakePartial",     \* take the event of a partial copy, the rest still parked
    "ProbeMeetsProbe", \* a zero-length write finds a zero-length read
    "CancelLowering",  \* cancel a read that a queued worker is to fill
    "AbandonStream",   \* give up a pending stream operation on the host
    "LiftPartial",     \* lift a read end that has consumed part of a write
    "DropParked"}      \* drop the reader of a closed writer's parked value

ASSUME ConstantsAssumption ==
    WriteCounts \subseteq Nat /\ ReadCounts \subseteq Nat /\ Allows \subseteq Exceptional

VARIABLES kind,       \* TransmitKind
          realloc,    \* T::MAY_REQUIRE_REALLOC: lowering an item calls the guest
          alive,      \* the TransmitState and its two handles are in the table
          write, read,\* TransmitState::write and ::read
          done,       \* TransmitState::done
          wstate,     \* who holds the write end, and its StreamFutureState
          rstate,     \* the same for the read end
          wevent, revent, \* the pending event of each end's waitable
          whost, rhost,   \* the host's side of an end that it owns
          job,        \* the WorkerFunction that lowers a host write to a guest
          outcome,
          \* history: items copied that an end has not been told of, the size of
          \* its current operation, the values a future has transmitted, and
          \* whether FutureWriter's `default` was called
          unW, unR, wlen, rlen, sent, defaulted

type == <<kind, realloc>>
ends == <<write, read, done>>
history == <<unW, unR, wlen, rlen, sent, defaulted>>
vars == <<type, alive, ends, wstate, rstate, wevent, revent, whost, rhost, job, outcome, history>>

Min(a, b) == IF a < b THEN a ELSE b

(* WriteState and ReadState.  `addr` counts the items of the buffer that   *)
(* are already copied, `drop` is PostWrite::Drop.                          *)
Open == [st |-> "Open", addr |-> 0, count |-> 0, drop |-> FALSE]
Dropped == [Open EXCEPT !.st = "Dropped"]
GuestReady(n) == [Open EXCEPT !.st = "GuestReady", !.count = n]
HostReady(n, drop) == [Open EXCEPT !.st = "HostReady", !.count = n, !.drop = drop]
Parked(e) == e.st \in {"GuestReady", "HostReady"}

(* Mutants of Advanced: the address runs backwards, or does not move.      *)
AdvancedBackwards(e, k) == [e EXCEPT !.addr = @ - k, !.count = @ - k]
AdvancedInPlace(e, k) == [e EXCEPT !.count = @ - k]

(* The rest of a guest's buffer after k items were copied.                 *)
Advanced(e, k) == [e EXCEPT !.addr = @ + k, !.count = @ - k]

(* What is left of a parked write once it has been consumed.               *)
AfterWrite(e) == IF e.drop THEN Dropped ELSE Open

(* Event::{Stream,Future}{Read,Write}: `pending` tells whether the handle  *)
(* is to leave the Busy state when the event is delivered.                 *)
NoEvent == [code |-> "None", n |-> 0, pending |-> FALSE]

(* ReturnCode::completed: a future reports no count.                       *)
Completed(n) == IF kind = "Future" THEN 0 ELSE n
CompletedEvent(n, pending) == [code |-> "Completed", n |-> Completed(n), pending |-> pending]

(* The items an event or a code tells its end about.                       *)
Items(e) == IF kind = "Future" THEN IF e.code = "Completed" THEN 1 ELSE 0 ELSE e.n

(* Mutant of OldTotal: a completion replaces the one before it.            *)
OldTotalIgnored(e) == 0

(* The count a merged completion starts from: that of an event not yet     *)
(* delivered.                                                              *)
OldTotal(e) == IF kind = "Stream" /\ e.code = "Completed" THEN e.n ELSE 0

(* update_event with ReturnCode::Dropped(0)                                *)
UpdateEvent(e, pending) ==
    CASE e = NoEvent -> [code |-> "Dropped", n |-> 0, pending |-> pending]
      [] e # NoEvent /\ kind = "Future" -> e
      [] e # NoEvent /\ kind = "Stream" ->
            [code |-> "Dropped", n |-> e.n, pending |-> e.pending \/ pending]

(* `copied` items change hands; each end is told of some.                  *)
Account(copied, toldW, toldR) ==
    /\ unW' = unW + copied - toldW
    /\ unR' = unR + copied - toldR
    /\ sent' = IF kind = "Future" THEN sent + copied ELSE 0

(* Mutant of CopyFinishes: a future can be used again.                     *)
CopyNeverFinishes == FALSE

(* TransmitState::done after a copy.                                       *)
CopyFinishes == kind = "Future"

Assert(c) == outcome' = IF c THEN outcome ELSE "panic"

Running == alive /\ outcome = "ok"

(* The host's operation is over.  A FutureWriter or FutureReader is spent  *)
(* by its one operation; StreamWriter::closed and StreamReader::closed     *)
(* record that the other end was found dropped.                            *)
Resolved(dropped) ==
    IF kind = "Future" THEN "spent" ELSE IF dropped THEN "closed" ELSE "idle"

(* Mutant of Answer: the sender is dropped unused.                         *)
AnswerNothing(host, dropped) == host

(* The oneshot channel of a parked host operation is answered; if the host *)
(* gave the operation up nobody listens.                                   *)
Answer(host, dropped) == IF host = "waiting" THEN Resolved(dropped) ELSE host

(* Mutant of Woken: the waker is not taken.                                *)
WokenNever(host) == host

(* The waker that watch_reader or watch_writer left in the TransmitState   *)
(* is woken, and the watching host finds the other end dropped.            *)
Woken(host) == IF host = "watching" THEN "idle" ELSE host

(* future.new and stream.new of a guest, Instance::future and              *)
(* Instance::stream of the host.                                           *)
Init ==
    /\ kind \in {"Stream", "Future"} /\ realloc \in BOOLEAN
    /\ alive = TRUE
    /\ write = Open /\ read = Open /\ done = FALSE
    /\ \/ wstate = "Write" /\ rstate = "Read"
       \/ wstate = "Host" /\ rstate = "Host"
    /\ wevent = NoEvent /\ revent = NoEvent
    /\ whost = "idle" /\ rhost = "idle"
    /\ job = [n |-> 0, space |-> 0, queued |-> FALSE]
    /\ outcome = "ok"
    /\ unW = 0 /\ unR = 0 /\ wlen = 0 /\ rlen = 0 /\ sent = 0 /\ defaulted = FALSE

-----------------------------------------------------------------------------
(* guest_write                                                             *)

CanWrite == Running /\ wstate = "Write" /\ ~done

(* A guest is waiting to read.  A zero-length operation only probes the    *)
(* readiness of the other end.                                             *)
GuestWriteToGuest(n) ==
    /\ CanWrite /\ read.st = "GuestReady"
    /\ n = 0 /\ read.count = 0 => "ProbeMeetsProbe" \in Allows
    /\ LET k == Min(n, read.count)
           write_complete == n = 0 \/ read.count > 0
           read_complete == n > 0
       IN
       /\ read' = IF n < read.count THEN Advanced(read, k) ELSE Open
       /\ revent' = IF read_complete THEN CompletedEvent(k + OldTotal(revent), TRUE) ELSE revent
       /\ IF write_complete
          THEN UNCHANGED <<write, wstate, outcome>>
          ELSE Assert(write = Open) /\ write' = GuestReady(n) /\ wstate' = "Busy"
       /\ Account(k, IF write_complete THEN k ELSE 0, 0)
    /\ done' = CopyFinishes
    /\ wlen' = n
    /\ UNCHANGED <<type, alive, rstate, wevent, whost, rhost, job, rlen, defaulted>>

(* The host is waiting to read: accept_writer takes what fits.             *)
GuestWriteToHost(n) ==
    /\ CanWrite /\ read.st = "HostReady"
    /\ LET k == Min(n, read.count) IN Account(k, k, k)
    /\ read' = Open
    /\ rhost' = Answer(rhost, FALSE)
    /\ done' = CopyFinishes
    /\ wlen' = n
    /\ UNCHANGED <<type, alive, write, wstate, rstate, wevent, revent, whost, job, outcome,
            rlen, defaulted>>

(* Nobody is waiting: set_guest_ready.                                     *)
GuestWriteBlocks(n) ==
    /\ CanWrite /\ read.st = "Open"
    /\ Assert(write = Open)
    /\ write' = GuestReady(n)
    /\ wstate' = "Busy"
    /\ wlen' = n
    /\ UNCHANGED <<type, alive, read, done, rstate, wevent, revent, whost, rhost, job, unW,
            unR, rlen, sent, defaulted>>

GuestWriteDropped(n) ==
    /\ CanWrite /\ read.st = "Dropped"
    /\ done' = CopyFinishes
    /\ wstate' = IF kind = "Stream" THEN "WriteDone" ELSE "Write"
    /\ wlen' = n
    /\ UNCHANGED <<type, alive, write, read, rstate, wevent, revent, whost, rhost, job,
            outcome, unW, unR, rlen, sent, defaulted>>

-----------------------------------------------------------------------------
(* guest_read                                                              *)

CanRead == Running /\ rstate = "Read" /\ ~done

GuestReadFromGuest(n) ==
    /\ CanRead /\ write.st = "GuestReady"
    /\ LET k == Min(n, write.count)
           write_complete == write.count = 0 \/ n > 0
           read_complete == write.count > 0
       IN
       /\ write' = IF n < write.count THEN Advanced(write, k) ELSE AfterWrite(write)
       /\ wevent' = IF write_complete
                    THEN CompletedEvent(k + OldTotal(wevent), ~write.drop) ELSE wevent
       /\ IF read_complete
          THEN UNCHANGED <<read, rstate, outcome>>
          ELSE Assert(read = Open) /\ read' = GuestReady(n) /\ rstate' = "Busy"
       /\ Account(k, 0, IF read_complete THEN k ELSE 0)
    /\ done' = CopyFinishes
    /\ rlen' = n
    /\ UNCHANGED <<type, alive, wstate, revent, whost, rhost, job, wlen, defaulted>>

(* The host is waiting to write: accept_reader lowers what fits.           *)
GuestReadFromHost(n) ==
    /\ CanRead /\ write.st = "HostReady"
    /\ LET k == Min(n, write.count) IN Account(k, k, k)
    /\ write' = AfterWrite(write)
    /\ whost' = Answer(whost, FALSE)
    /\ done' = CopyFinishes
    /\ rlen' = n
    /\ UNCHANGED <<type, alive, read, wstate, rstate, wevent, revent, rhost, job, outcome,
            wlen, defaulted>>

(* Mutant of GuestReadBlocks: a parked probe is overlooked.                *)
GuestReadBlocksOnProbe(n) ==
    /\ CanRead /\ (write.st = "Open" \/ (Parked(write) /\ write.count = 0))
    /\ Assert(read = Open)
    /\ read' = GuestReady(n)
    /\ rstate' = "Busy"
    /\ rlen' = n
    /\ UNCHANGED <<type, alive, write, done, wstate, wevent, revent, whost, rhost, job, unW,
            unR, wlen, sent, defaulted>>

GuestReadBlocks(n) ==
    /\ CanRead /\ write.st = "Open"
    /\ Assert(read = Open)
    /\ read' = GuestReady(n)
    /\ rstate' = "Busy"
    /\ rlen' = n
    /\ UNCHANGED <<type, alive, write, done, wstate, wevent, revent, whost, rhost, job, unW,
            unR, wlen, sent, defaulted>>

GuestReadDropped(n) ==
    /\ CanRead /\ write.st = "Dropped"
    /\ rstate' = IF kind = "Stream" THEN "ReadDone" ELSE "Read"
    /\ rlen' = n
    /\ UNCHANGED <<type, alive, ends, wstate, wevent, revent, whost, rhost, job, outcome, unW,
            unR, wlen, sent, defaulted>>

-----------------------------------------------------------------------------
(* guest_cancel_write and guest_cancel_read: an event that was not yet     *)
(* delivered becomes the result of the cancellation.                       *)

(* Mutant of GuestCancelRead: the event is left to be delivered.           *)
GuestCancelReadKeepsEvent ==
    /\ Running /\ rstate = "Busy" /\ (job.queued => "CancelLowering" \in Allows)
    /\ rstate' = "Read"
    /\ read' = IF Parked(read) THEN Open ELSE read
    /\ UNCHANGED <<type, alive, write, done, wstate, wevent, revent, whost, rhost, job,
            outcome, history>>

GuestCancelWrite ==
    /\ Running /\ wstate = "Busy"
    /\ wstate' = "Write"
    /\ wevent' = NoEvent
    /\ write' = IF Parked(write) THEN Open ELSE write
    /\ Account(0, Items(wevent), 0)
    /\ UNCHANGED <<type, alive, read, done, rstate, revent, whost, rhost, job, outcome, wlen,
            rlen, defaulted>>

GuestCancelRead ==
    /\ Running /\ rstate = "Busy" /\ (job.queued => "CancelLowering" \in Allows)
    /\ rstate' = "Read"
    /\ revent' = NoEvent
    /\ read' = IF Parked(read) THEN Open ELSE read
    /\ Account(0, 0, Items(revent))
    /\ UNCHANGED <<type, alive, write, done, wstate, wevent, whost, rhost, job, outcome, wlen,
            rlen, defaulted>>

(* Waitable::on_delivery: a guest that waits receives the event, and the   *)
(* handle leaves the Busy state.  The TransmitState is not touched.        *)
DeliverWrite ==
    /\ Running /\ wstate \in {"Write", "WriteDone", "Busy"} /\ wevent # NoEvent
    /\ Parked(write) => "TakePartial" \in Allows
    /\ wevent' = NoEvent
    /\ Account(0, Items(wevent), 0)
    /\ IF wevent.pending
       THEN /\ Assert(wstate = "Busy")
            /\ wstate' = IF kind = "Stream" /\ wevent.code = "Dropped" THEN "WriteDone" ELSE "Write"
       ELSE UNCHANGED <<wstate, outcome>>
    /\ UNCHANGED <<type, alive, ends, rstate, revent, whost, rhost, job, wlen, rlen, defaulted>>

DeliverRead ==
    /\ Running /\ rstate \in {"Read", "ReadDone", "Busy"} /\ revent # NoEvent
    /\ Parked(read) => "TakePartial" \in Allows
    /\ revent' = NoEvent
    /\ Account(0, 0, Items(revent))
    /\ IF revent.pending
       THEN /\ Assert(rstate = "Busy")
            /\ rstate' = IF kind = "Stream" /\ revent.code = "Dropped" THEN "ReadDone" ELSE "Read"
       ELSE UNCHANGED <<rstate, outcome>>
    /\ UNCHANGED <<type, alive, ends, wstate, wevent, whost, rhost, job, wlen, rlen, defaulted>>

-----------------------------------------------------------------------------
(* The host closes an end, or a guest drops it.  The operators take the    *)
(* state that the other end is left in by the operation before, because    *)
(* FutureWriter::write and FutureReader::read own their end: the guard     *)
(* that holds it closes it in the poll in which they return.               *)

(* Mutant of WriterGone: the last end to go deletes nothing.               *)
WriterGoneLeaks(rd, ev, host) ==
    /\ read' = IF rd.st = "Dropped" THEN rd ELSE Open
    /\ revent' = IF rd.st \in {"GuestReady", "Open"}
                 THEN UpdateEvent(ev, rd.st = "GuestReady") ELSE ev
    /\ rhost' = IF rd.st = "HostReady" THEN Answer(Woken(host), TRUE) ELSE Woken(host)
    /\ UNCHANGED alive

(* host_drop_writer, the part that concerns the read end: rd, ev and host  *)
(* are its state, its event and the host's side of it.                     *)
WriterGone(rd, ev, host) ==
    /\ read' = IF rd.st = "Dropped" THEN rd ELSE Open
    /\ revent' = IF rd.st \in {"GuestReady", "Open"}
                 THEN UpdateEvent(ev, rd.st = "GuestReady") ELSE ev
    /\ rhost' = IF rd.st = "HostReady" THEN Answer(Woken(host), TRUE) ELSE Woken(host)
    /\ alive' = (rd.st # "Dropped")

(* host_drop_reader: wr, ev and host are the state of the write end, its   *)
(* event and the host's side of it.                                        *)
ReaderGone(wr, ev, host) ==
    /\ wr.st = "HostReady" /\ wr.drop => "DropParked" \in Allows
    /\ read' = Dropped
    /\ write' = IF wr.st = "Dropped" THEN wr ELSE Open
    /\ wevent' = IF wr.st = "Open" \/ (wr.st = "GuestReady" /\ ~wr.drop)
                 THEN UpdateEvent(ev, wr.st = "GuestReady") ELSE ev
    /\ whost' = IF wr.st = "HostReady" THEN Answer(Woken(host), TRUE) ELSE Woken(host)
    /\ alive' = ~(wr.st = "Dropped" \/ (wr.st = "GuestReady" /\ wr.drop))
    /\ rstate' = "Gone"

(* A call of host_write returns, or the host gives it up.  A FutureWriter  *)
(* is then closed: a write that is still parked stays, marked              *)
(* PostWrite::Drop; with nothing parked, and with neither `done` set nor   *)
(* the reader dropped, the default value is parked.                        *)
HostWriteReturns(rd, ev, host, fin, dropped) ==
    /\ done' = fin
    /\ whost' = Resolved(dropped)
    /\ \/ /\ kind = "Stream"
          /\ read' = rd /\ revent' = ev /\ rhost' = host
          /\ UNCHANGED <<write, wstate, alive, defaulted>>
       \/ /\ kind = "Future"
          /\ LET default == write = Open /\ ~fin /\ rd.st # "Dropped" IN
                /\ write' = CASE write.st = "HostReady" -> [write EXCEPT !.drop = TRUE]
                            [] default -> HostReady(1, TRUE)
                            [] OTHER -> Dropped
                /\ defaulted' = (defaulted \/ default)
          /\ wstate' = "Gone"
          /\ WriterGone(rd, ev, host)

(* The same for host_read; a FutureReader is then closed.                  *)
HostReadReturns(wr, ev, host, dropped) ==
    /\ rhost' = Resolved(dropped)
    /\ \/ /\ kind = "Stream"
          /\ write' = wr /\ wevent' = ev /\ whost' = host
          /\ UNCHANGED <<read, rstate, alive>>
       \/ /\ kind = "Future"
          /\ ReaderGone(wr, ev, host)

-----------------------------------------------------------------------------
(* host_write: StreamWriter::write and FutureWriter::write                 *)

CanHostWrite == Running /\ wstate = "Host" /\ whost \in {"idle", "closed"}

(* debug_assert!(dropped) once the other end was found dropped             *)
HostResult(host, dropped) == Assert(host = "closed" => dropped)

HostWriteParks(n) ==
    /\ CanHostWrite /\ read.st = "Open"
    /\ Assert(write = Open)
    /\ write' = HostReady(n, FALSE)
    /\ whost' = "waiting"
    /\ UNCHANGED <<type, alive, read, done, wstate, rstate, wevent, revent, rhost, job, history>>

(* A guest is waiting to read: the items are lowered at once, or by a      *)
(* worker when lowering may call the guest's realloc.                      *)
HostWriteToGuest(n) ==
    /\ CanHostWrite /\ read.st = "GuestReady"
    /\ IF realloc
       THEN /\ read' = Open /\ done' = CopyFinishes
            /\ job' = [n |-> n, space |-> read.count, queued |-> TRUE]
            /\ whost' = "waiting"
            /\ UNCHANGED <<write, wstate, revent, rhost, alive, outcome, unW, unR, sent,
                    defaulted>>
       ELSE /\ LET k == Min(n, read.count) IN
                  /\ HostWriteReturns(Open, CompletedEvent(k, TRUE), rhost, CopyFinishes, FALSE)
                  /\ Account(k, k, 0)
            /\ HostResult(whost, FALSE)
            /\ UNCHANGED job
    /\ UNCHANGED <<type, rstate, wevent, wlen, rlen>>

(* Mutant of LowerToGuest: the event does not release the handle.          *)
LowerToGuestNotPending ==
    /\ Running /\ job.queued
    /\ LET k == Min(job.n, job.space) IN
          /\ revent' = CompletedEvent(k, FALSE)
          /\ Account(k, k, 0)
    /\ job' = [n |-> 0, space |-> 0, queued |-> FALSE]
    /\ whost' = Answer(whost, FALSE)
    /\ UNCHANGED <<type, alive, ends, wstate, rstate, wevent, rhost, outcome, wlen, rlen,
            defaulted>>

(* The WorkerFunction queued by a host write.                              *)
LowerToGuest ==
    /\ Running /\ job.queued
    /\ LET k == Min(job.n, job.space) IN
          /\ revent' = CompletedEvent(k, TRUE)
          /\ Account(k, k, 0)
    /\ job' = [n |-> 0, space |-> 0, queued |-> FALSE]
    /\ whost' = Answer(whost, FALSE)
    /\ UNCHANGED <<type, alive, ends, wstate, rstate, wevent, rhost, outcome, wlen, rlen,
            defaulted>>

(* A host is waiting to read; `done` is not set.                           *)
HostWriteToHost(n) ==
    /\ CanHostWrite /\ read.st = "HostReady"
    /\ LET k == Min(n, read.count) IN Account(k, k, k)
    /\ HostResult(whost, FALSE)
    /\ HostWriteReturns(Open, revent, Answer(rhost, FALSE), done, FALSE)
    /\ UNCHANGED <<type, rstate, wevent, job, wlen, rlen>>

HostWriteDropped(n) ==
    /\ CanHostWrite /\ read.st = "Dropped"
    /\ HostWriteReturns(read, revent, rhost, done, TRUE)
    /\ UNCHANGED <<type, rstate, wevent, job, outcome, unW, unR, wlen, rlen, sent>>

-----------------------------------------------------------------------------
(* host_read: StreamReader::read and FutureReader::read                    *)

CanHostRead == Running /\ rstate = "Host" /\ rhost \in {"idle", "closed"}

HostReadParks(n) ==
    /\ CanHostRead /\ write.st = "Open"
    /\ Assert(read = Open)
    /\ read' = HostReady(n, FALSE)
    /\ rhost' = "waiting"
    /\ UNCHANGED <<type, alive, write, done, wstate, rstate, wevent, revent, whost, job, history>>

(* A guest is waiting to write.  Items that do not fit are not kept: the   *)
(* guest is told how many were taken and its write is over.                *)
HostReadFromGuest(n) ==
    /\ CanHostRead /\ write.st = "GuestReady"
    /\ LET k == Min(n, write.count) IN
          /\ HostReadReturns(AfterWrite(write), CompletedEvent(k, ~write.drop), whost, FALSE)
          /\ Account(k, 0, k)
    /\ done' = CopyFinishes
    /\ HostResult(rhost, FALSE)
    /\ UNCHANGED <<type, wstate, revent, job, wlen, rlen, defaulted>>

HostReadFromHost(n) ==
    /\ CanHostRead /\ write.st = "HostReady"
    /\ LET k == Min(n, write.count) IN Account(k, k, k)
    /\ HostReadReturns(AfterWrite(write), wevent, Answer(whost, FALSE), FALSE)
    /\ HostResult(rhost, FALSE)
    /\ UNCHANGED <<type, done, wstate, revent, job, wlen, rlen, defaulted>>

HostReadDropped(n) ==
    /\ CanHostRead /\ write.st = "Dropped"
    /\ HostReadReturns(write, wevent, whost, TRUE)
    /\ UNCHANGED <<type, done, wstate, revent, job, outcome, history>>

(* The host drops the future of an operation in progress.  What is parked  *)
(* in the TransmitState stays there.                                       *)
AbandonWrite ==
    /\ Running /\ wstate = "Host" /\ whost = "waiting"
    /\ kind = "Stream" => "AbandonStream" \in Allows
    /\ HostWriteReturns(read, revent, rhost, done, FALSE)
    /\ UNCHANGED <<type, rstate, wevent, job, outcome, unW, unR, wlen, rlen, sent>>

AbandonRead ==
    /\ Running /\ rstate = "Host" /\ rhost = "waiting"
    /\ kind = "Stream" => "AbandonStream" \in Allows
    /\ HostReadReturns(write, wevent, whost, FALSE)
    /\ UNCHANGED <<type, done, wstate, revent, job, outcome, history>>

(* watch_reader and watch_writer: the host waits for the other end to be   *)
(* dropped, and can give up waiting.                                       *)
WatchReader ==
    /\ Running /\ wstate = "Host" /\ whost = "idle" /\ read.st # "Dropped"
    /\ whost' = "watching"
    /\ UNCHANGED <<type, alive, ends, wstate, rstate, wevent, revent, rhost, job, outcome, history>>

WatchWriter ==
    /\ Running /\ rstate = "Host" /\ rhost = "idle" /\ write.st # "Dropped" /\ ~write.drop
    /\ rhost' = "watching"
    /\ UNCHANGED <<type, alive, ends, wstate, rstate, wevent, revent, whost, job, outcome, history>>

StopWatching ==
    /\ Running
    /\ \/ wstate = "Host" /\ whost = "watching" /\ whost' = "idle" /\ UNCHANGED rhost
       \/ rstate = "Host" /\ rhost = "watching" /\ rhost' = "idle" /\ UNCHANGED whost
    /\ UNCHANGED <<type, alive, ends, wstate, rstate, wevent, revent, job, outcome, history>>

-----------------------------------------------------------------------------
(* A future whose value was neither written nor refused.                   *)
Unwritten == kind = "Future" /\ ~done /\ read.st # "Dropped"

(* guest_drop_writable; host_drop_writer holds a parked guest write to be  *)
(* unreachable.                                                            *)
GuestDropWriter ==
    /\ Running /\ wstate \in {"Write", "WriteDone"} /\ ~Unwritten
    /\ wstate' = "Gone"
    /\ Assert(write.st # "GuestReady")
    /\ write' = Dropped
    /\ WriterGone(read, revent, rhost)
    /\ UNCHANGED <<type, done, rstate, wevent, whost, job, history>>

(* "cannot drop future write end without first writing a value"            *)
GuestDropUnwritten ==
    /\ Running /\ wstate = "Write" /\ Unwritten
    /\ wstate' = "Gone"
    /\ outcome' = IF write.st = "GuestReady" THEN "panic" ELSE "trap"
    /\ UNCHANGED <<type, alive, ends, rstate, wevent, revent, whost, rhost, job, history>>

CanHostDropWriter == Running /\ wstate = "Host" /\ whost \notin {"waiting", "watching"}

(* StreamWriter::close and FutureWriter::close, and the poll in which a    *)
(* FutureWriter::write that had to wait returns.  A write that is still    *)
(* parked is marked PostWrite::Drop.                                       *)
HostDropWriter ==
    /\ CanHostDropWriter /\ (write = Open => ~Unwritten)
    /\ wstate' = "Gone"
    /\ write' = IF write.st = "HostReady" THEN [write EXCEPT !.drop = TRUE] ELSE Dropped
    /\ Assert(write.st # "Dropped")
    /\ WriterGone(read, revent, rhost)
    /\ UNCHANGED <<type, done, rstate, wevent, whost, job, history>>

(* FutureWriter::close with nothing written: the default value is written  *)
(* with PostWrite::Drop, and then the read end is told of the drop.        *)
HostDropWriterDefault ==
    /\ CanHostDropWriter /\ write = Open /\ Unwritten
    /\ wstate' = "Gone"
    /\ defaulted' = TRUE
    /\ \/ /\ read.st = "Open"
          /\ write' = HostReady(1, TRUE)
          /\ WriterGone(read, revent, rhost)
          /\ UNCHANGED <<done, job, unW, unR, sent>>
       \/ /\ read.st = "GuestReady"
          /\ write' = Dropped /\ done' = TRUE
          /\ IF realloc
             THEN /\ job' = [n |-> 1, space |-> read.count, queued |-> TRUE]
                  /\ WriterGone(Open, revent, rhost)
                  /\ UNCHANGED <<unW, unR, sent>>
             ELSE /\ WriterGone(Open, CompletedEvent(1, TRUE), rhost)
                  /\ Account(1, 1, 0)
                  /\ UNCHANGED job
       \/ /\ read.st = "HostReady"
          /\ write' = Dropped
          /\ WriterGone(Open, revent, Answer(rhost, FALSE))
          /\ Account(1, 1, 1)
          /\ UNCHANGED <<done, job>>
    /\ UNCHANGED <<type, rstate, wevent, whost, outcome, wlen, rlen>>

GuestDropReader ==
    /\ Running /\ rstate \in {"Read", "ReadDone"}
    /\ ReaderGone(write, wevent, whost)
    /\ UNCHANGED <<type, done, wstate, revent, rhost, job, outcome, history>>

(* StreamReader::close and FutureReader::close, and the poll in which a    *)
(* FutureReader::read that had to wait returns.                            *)
HostDropReader ==
    /\ Running /\ rstate = "Host" /\ rhost \notin {"waiting", "watching"}
    /\ ReaderGone(write, wevent, whost)
    /\ UNCHANGED <<type, done, wstate, revent, rhost, job, outcome, history>>

-----------------------------------------------------------------------------
(* {Stream,Future}Reader::lift_from_index: the read end moves to the host. *)
Lift ==
    /\ Running /\ rstate = "Read" /\ ~done
    /\ write.addr > 0 => "LiftPartial" \in Allows
    /\ rstate' = "Host"
    /\ rhost' = "idle"
    /\ UNCHANGED <<type, alive, ends, wstate, wevent, revent, whost, job, outcome, history>>

(* lower_{stream,future}_to_index: it moves from the host to a guest.      *)
Lower ==
    /\ Running /\ rstate = "Host" /\ rhost \in {"idle", "closed"}
    /\ rstate' = "Read"
    /\ UNCHANGED <<type, alive, ends, wstate, wevent, revent, whost, rhost, job, outcome, history>>

GuestWrite(n) ==
    GuestWriteToGuest(n) \/ GuestWriteToHost(n) \/ GuestWriteBlocks(n) \/ GuestWriteDropped(n)
GuestRead(n) ==
    GuestReadFromGuest(n) \/ GuestReadFromHost(n) \/ GuestReadBlocks(n) \/ GuestReadDropped(n)
HostWrite(n) ==
    HostWriteParks(n) \/ HostWriteToGuest(n) \/ HostWriteToHost(n) \/ HostWriteDropped(n)
HostRead(n) ==
    HostReadParks(n) \/ HostReadFromGuest(n) \/ HostReadFromHost(n) \/ HostReadDropped(n)

(* A future's buffer holds its one value.                                  *)
Sizes(counts) == IF kind = "Future" THEN {1} ELSE counts

Next ==
    \/ \E n \in Sizes(WriteCounts) : GuestWrite(n) \/ HostWrite(n)
    \/ \E n \in Sizes(ReadCounts) : GuestRead(n) \/ HostRead(n)
    \/ LowerToGuest \/ DeliverWrite \/ DeliverRead
    \/ GuestCancelWrite \/ GuestCancelRead \/ AbandonWrite \/ AbandonRead
    \/ GuestDropWriter \/ GuestDropUnwritten \/ HostDropWriter \/ HostDropWriterDefault
    \/ GuestDropReader \/ HostDropReader
    \/ Lift \/ Lower
    \/ WatchReader \/ WatchWriter \/ StopWatching

Spec == Init /\ [][Next]_vars

(* The event loop runs queued work, and a guest with an operation in       *)
(* progress eventually waits for its event.                                *)
Fairness == WF_vars(DeliverWrite) /\ WF_vars(DeliverRead) /\ WF_vars(LowerToGuest)

FairSpec == Spec /\ Fairness

-----------------------------------------------------------------------------

EndType == [st : {"Open", "GuestReady", "HostReady", "Dropped"}, addr : Nat, count : Nat,
        drop : BOOLEAN]
EventType == [code : {"None", "Completed", "Dropped"}, n : Nat, pending : BOOLEAN]
HostType == {"idle", "waiting", "watching", "closed", "spent"}

(* The fields of TransmitState, the events and the handle states range     *)
(* over what their Rust types allow.                                       *)
TypeOK ==
    /\ kind \in {"Stream", "Future"} /\ realloc \in BOOLEAN
    /\ alive \in BOOLEAN /\ done \in BOOLEAN /\ defaulted \in BOOLEAN
    /\ write \in EndType /\ read \in EndType
    /\ wstate \in {"Host", "Write", "WriteDone", "Busy", "Gone"}
    /\ rstate \in {"Host", "Read", "ReadDone", "Busy", "Gone"}
    /\ wevent \in EventType /\ revent \in EventType
    /\ whost \in HostType /\ rhost \in HostType
    /\ job \in [n : Nat, space : Nat, queued : BOOLEAN]
    /\ outcome \in {"ok", "trap", "panic"}
    /\ wlen \in Nat /\ rlen \in Nat

(* No assert!, debug_assert! or unreachable! of the stream and future code *)
(* fires: not in set_guest_ready, host_write, host_read, host_drop_writer  *)
(* or on_delivery.                                                         *)
NoPanic == outcome # "panic"

(* Every item that was copied is reported to the writer and to the reader  *)
(* exactly once: what an end has not been told yet is what its pending     *)
(* event carries, however completions, drops and cancellations merge.      *)
Conservation == unW = Items(wevent) /\ unR = Items(revent)

(* A partly consumed guest buffer goes on where the last copy stopped, and *)
(* what is copied and what is left add up to the buffer the guest passed.  *)
InOrder ==
    /\ wstate = "Busy" /\ write.st = "GuestReady" =>
          write.addr = Items(wevent) /\ write.addr + write.count = wlen
    /\ rstate = "Busy" /\ read.st = "GuestReady" =>
          read.addr = Items(revent) /\ read.addr + read.count = rlen

(* An operation in progress is parked in the TransmitState, or its answer  *)
(* is on its way: no handle stays Busy, and no host future pending, with   *)
(* nothing left to complete it.  A host that watches an end still has it   *)
(* to wait for.                                                            *)
NothingLost ==
    /\ wstate = "Busy" => write.st = "GuestReady" \/ wevent.pending
    /\ rstate = "Busy" => read.st = "GuestReady" \/ revent.pending \/ job.queued
    /\ whost = "waiting" => write.st = "HostReady" \/ job.queued
    /\ rhost = "waiting" => read.st = "HostReady"
    /\ whost = "watching" => read.st # "Dropped"
    /\ rhost = "watching" => write.st # "Dropped" /\ ~write.drop

(* A read and a write never wait for each other: whichever end comes       *)
(* second finds the first and takes it out of the TransmitState.           *)
NeverBothParked == ~(Parked(write) /\ Parked(read))

(* Once both ends are dropped the TransmitState and its two handles are    *)
(* deleted from the table (delete_transmit).                               *)
NoLeak == wstate = "Gone" /\ rstate = "Gone" /\ outcome = "ok" => ~alive

(* A future transmits one value at most.                                   *)
OneValue == sent <= 1

(* The callback given to Instance::future is used only if the write end is *)
(* closed without having written a value: not by a FutureWriter whose      *)
(* write was called.                                                       *)
DefaultOnlyIfUnwritten == defaulted => whost # "spent"

(* A guest read in progress when the writer goes away, and a guest write   *)
(* in progress when the reader goes away, come to an end.                  *)
PendingEnds ==
    /\ (rstate = "Busy" /\ wstate = "Gone") ~> (rstate # "Busy" \/ outcome # "ok")
    /\ (wstate = "Busy" /\ rstate = "Gone") ~> (wstate # "Busy" \/ outcome # "ok")
=============================================================================

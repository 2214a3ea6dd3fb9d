---------------------------- MODULE TransmitProofs ----------------------------
(***************************************************************************)
(* Proofs about Transmit, for buffers of any size.  The first part is type *)
(* correctness, with every exceptional step allowed.  Without them no      *)
(* assertion fires, every item is accounted for, no operation is lost, the *)
(* two ends never wait for each other and the last drop deletes.           *)
(***************************************************************************)
EXTENDS Transmit, TLAPS

(* The values the code stores in TransmitState::read and ::write are ends. *)
LEMMA EndRecords ==
  /\ Open \in EndType /\ Dropped \in EndType
  /\ \A n \in Nat : GuestReady(n) \in EndType
  /\ \A n \in Nat : HostReady(n, TRUE) \in EndType /\ HostReady(n, FALSE) \in EndType
BY Zenon DEF EndType, Open, Dropped, GuestReady, HostReady

(* Taking k items out of a parked buffer, completing a write and marking   *)
(* it to be dropped after it give ends again.                              *)
LEMMA EndUpdates ==
  ASSUME NEW e \in EndType
  PROVE /\ AfterWrite(e) \in EndType
        /\ \A k \in Nat : k <= e.count => Advanced(e, k) \in EndType
        /\ [e EXCEPT !.drop = TRUE] \in EndType
<1>1. AfterWrite(e) \in EndType
  BY Zenon, EndRecords DEF AfterWrite
<1>2. ASSUME NEW k \in Nat, k <= e.count
      PROVE Advanced(e, k) \in EndType
  <2>1. e.count - k \in Nat /\ e.addr + k \in Nat
    BY <1>2 DEF EndType
  <2> QED
    BY Zenon, <2>1 DEF Advanced, EndType
<1>3. [e EXCEPT !.drop = TRUE] \in EndType
  BY Zenon DEF EndType
<1> QED
  BY Zenon, <1>1, <1>2, <1>3

(* No event, and a completion of n items, are events.                      *)
LEMMA EventRecords ==
  /\ NoEvent \in EventType
  /\ \A n \in Nat : \A e : e = CompletedEvent(n, TRUE) => e \in EventType
<1>1. NoEvent \in EventType
  BY Zenon DEF EventType, NoEvent
<1>2. ASSUME NEW n \in Nat
      PROVE CompletedEvent(n, TRUE) \in EventType
  BY Zenon DEF EventType, CompletedEvent, Completed
<1> QED
  BY Zenon, <1>1, <1>2

(* The number of items a copy moves: the smaller of the two buffers.       *)
LEMMA MinFacts ==
  ASSUME NEW a \in Nat, NEW b \in Nat
  PROVE  /\ Min(a, b) \in Nat /\ Min(a, b) <= a /\ Min(a, b) <= b
         /\ a < b => Min(a, b) = a
         /\ ~(a < b) => Min(a, b) = b
BY DEF Min

(* Answering an operation of the host, and waking it, leave the host in one *)
(* of the states it can be in.                                             *)
LEMMA HostStates ==
  ASSUME NEW h \in HostType
  PROVE  /\ Woken(h) \in HostType
         /\ Resolved(TRUE) \in HostType /\ Resolved(FALSE) \in HostType
         /\ Answer(h, TRUE) \in HostType /\ Answer(h, FALSE) \in HostType
         /\ Answer(Woken(h), TRUE) \in HostType
BY Zenon DEF Woken, Answer, Resolved, HostType

(* host_drop_writer, whatever it finds at the read end, keeps the types.   *)
LEMMA WriterGoneType ==
  ASSUME TypeOK, NEW rd \in EndType, NEW ev \in EventType, NEW host \in HostType,
         WriterGone(rd, ev, host)
  PROVE  /\ read' \in EndType /\ revent' \in EventType
         /\ rhost' \in HostType /\ alive' \in BOOLEAN
<1>1. revent' \in EventType
  BY Zenon DEF TypeOK, EventType, NoEvent, WriterGone, UpdateEvent
<1>2. read' \in EndType
  BY Zenon, EndRecords DEF WriterGone
<1> QED
  BY Zenon, <1>1, <1>2, HostStates DEF WriterGone

(* host_drop_reader, whatever it finds at the write end, keeps the types.  *)
LEMMA ReaderGoneType ==
  ASSUME TypeOK, NEW wr \in EndType, NEW ev \in EventType, NEW host \in HostType,
         ReaderGone(wr, ev, host)
  PROVE  /\ read' \in EndType /\ write' \in EndType /\ wevent' \in EventType
         /\ whost' \in HostType /\ alive' \in BOOLEAN
         /\ rstate' \in {"Host", "Read", "ReadDone", "Busy", "Gone"}
<1>1. wevent' \in EventType
  BY Zenon DEF TypeOK, EventType, NoEvent, ReaderGone, UpdateEvent
<1>2. write' \in EndType /\ read' \in EndType
  BY Zenon, EndRecords DEF ReaderGone
<1> QED
  BY Zenon, <1>1, <1>2, HostStates DEF ReaderGone

(* The end of a host write, with the closing of a FutureWriter, keeps the  *)
(* types.                                                                  *)
LEMMA HostWriteReturnsType ==
  ASSUME TypeOK, NEW rd \in EndType, NEW ev \in EventType, NEW host \in HostType,
         NEW fin \in BOOLEAN, NEW dropped \in BOOLEAN,
         HostWriteReturns(rd, ev, host, fin, dropped)
  PROVE  /\ read' \in EndType /\ write' \in EndType /\ revent' \in EventType
         /\ whost' \in HostType /\ rhost' \in HostType
         /\ alive' \in BOOLEAN /\ done' \in BOOLEAN /\ defaulted' \in BOOLEAN
         /\ wstate' \in {"Host", "Write", "WriteDone", "Busy", "Gone"}
<1>1. done' \in BOOLEAN /\ whost' \in HostType
  BY Zenon DEF HostWriteReturns, Resolved, HostType
<1>2. CASE kind = "Stream"
  BY Zenon, <1>1, <1>2 DEF HostWriteReturns, TypeOK
<1>3. CASE kind = "Future"
  <2>1. WriterGone(rd, ev, host) /\ wstate' = "Gone"
    BY Zenon, <1>3 DEF HostWriteReturns
  <2>2. /\ read' \in EndType /\ revent' \in EventType
        /\ rhost' \in HostType /\ alive' \in BOOLEAN
    BY Zenon, <2>1, WriterGoneType
  <2>3. \/ write' = [write EXCEPT !.drop = TRUE]
        \/ write' = HostReady(1, TRUE)
        \/ write' = Dropped
    BY Zenon, <1>3 DEF HostWriteReturns
  <2>4. write' \in EndType
    BY Zenon, <2>3, EndRecords, EndUpdates DEF TypeOK
  <2>5. defaulted' \in BOOLEAN
    BY Zenon, <1>3 DEF HostWriteReturns
  <2> QED
    BY Zenon, <1>1, <2>1, <2>2, <2>4, <2>5
<1> QED
  BY Zenon, <1>2, <1>3 DEF TypeOK

(* The end of a host read, with the closing of a FutureReader, keeps the   *)
(* types.                                                                  *)
LEMMA HostReadReturnsType ==
  ASSUME TypeOK, NEW wr \in EndType, NEW ev \in EventType, NEW host \in HostType,
         NEW dropped \in BOOLEAN, HostReadReturns(wr, ev, host, dropped)
  PROVE  /\ read' \in EndType /\ write' \in EndType /\ wevent' \in EventType
         /\ whost' \in HostType /\ rhost' \in HostType /\ alive' \in BOOLEAN
         /\ rstate' \in {"Host", "Read", "ReadDone", "Busy", "Gone"}
<1>1. rhost' \in HostType
  BY Zenon DEF HostReadReturns, Resolved, HostType
<1>2. CASE kind = "Stream"
  BY Zenon, <1>1, <1>2 DEF HostReadReturns, TypeOK
<1>3. CASE kind = "Future"
  BY Zenon, <1>1, <1>3, ReaderGoneType DEF HostReadReturns
<1> QED
  BY Zenon, <1>2, <1>3 DEF TypeOK

(* A guest write that meets a parked guest read keeps the types.           *)
LEMMA GuestWriteToGuestType ==
  ASSUME TypeOK, NEW n \in Nat, GuestWriteToGuest(n)
  PROVE TypeOK'
<1>1. Min(n, read.count) \in Nat /\ Min(n, read.count) <= read.count
  BY Zenon, MinFacts DEF TypeOK, EndType
<1>2. read' \in EndType
  BY Zenon, <1>1, EndRecords, EndUpdates DEF TypeOK, GuestWriteToGuest
<1>3. revent' \in EventType
  <2>1. Min(n, read.count) + OldTotal(revent) \in Nat
    BY <1>1 DEF TypeOK, EventType, OldTotal
  <2> QED
    BY Zenon, <2>1, EventRecords DEF TypeOK, GuestWriteToGuest
<1>4. write' \in EndType
  BY Zenon, EndRecords DEF TypeOK, GuestWriteToGuest
<1>5. done' \in BOOLEAN
  BY Zenon DEF GuestWriteToGuest, CopyFinishes
<1>6. outcome' \in {"ok", "trap", "panic"} /\ wstate' \in {"Host", "Write", "WriteDone",
        "Busy", "Gone"}
  BY Zenon DEF TypeOK, GuestWriteToGuest, Assert
<1> QED
  BY Zenon, <1>2, <1>3, <1>4, <1>5, <1>6 DEF TypeOK, GuestWriteToGuest, type

(* A guest write that meets a parked host read keeps the types.            *)
LEMMA GuestWriteToHostType ==
  ASSUME TypeOK, NEW n \in Nat, GuestWriteToHost(n)
  PROVE TypeOK'
BY EndRecords, EndUpdates DEF TypeOK, GuestWriteToHost, CopyFinishes, Answer, Resolved,
        HostType, type, ends, history

(* A guest write that finds nobody and parks keeps the types.              *)
LEMMA GuestWriteBlocksType ==
  ASSUME TypeOK, NEW n \in Nat, GuestWriteBlocks(n)
  PROVE TypeOK'
BY EndRecords, EndUpdates DEF TypeOK, GuestWriteBlocks, Assert, HostType, type, ends, history

(* A guest write that finds the reader gone keeps the types.               *)
LEMMA GuestWriteDroppedType ==
  ASSUME TypeOK, NEW n \in Nat, GuestWriteDropped(n)
  PROVE TypeOK'
BY EndRecords, EndUpdates DEF TypeOK, GuestWriteDropped, CopyFinishes, HostType, type, ends, history

(* A guest read that meets a parked guest write keeps the types.           *)
LEMMA GuestReadFromGuestType ==
  ASSUME TypeOK, NEW n \in Nat, GuestReadFromGuest(n)
  PROVE TypeOK'
<1>1. Min(n, write.count) \in Nat /\ Min(n, write.count) <= write.count
  BY Zenon, MinFacts DEF TypeOK, EndType
<1>2. write' \in EndType
  BY Zenon, <1>1, EndUpdates DEF TypeOK, GuestReadFromGuest
<1>3. wevent' \in EventType
  <2>1. Min(n, write.count) + OldTotal(wevent) \in Nat
    BY <1>1 DEF TypeOK, EventType, OldTotal
  <2> QED
    BY Zenon, <2>1 DEF TypeOK, EndType, GuestReadFromGuest, CompletedEvent, Completed, EventType
<1>4. read' \in EndType
  BY Zenon, EndRecords DEF TypeOK, GuestReadFromGuest
<1>5. done' \in BOOLEAN
  BY Zenon DEF GuestReadFromGuest, CopyFinishes
<1>6. outcome' \in {"ok", "trap", "panic"} /\ rstate' \in {"Host", "Read", "ReadDone", "Busy",
        "Gone"}
  BY Zenon DEF TypeOK, GuestReadFromGuest, Assert
<1> QED
  BY Zenon, <1>2, <1>3, <1>4, <1>5, <1>6 DEF TypeOK, GuestReadFromGuest, type

(* A guest read that meets a parked host write keeps the types.            *)
LEMMA GuestReadFromHostType ==
  ASSUME TypeOK, NEW n \in Nat, GuestReadFromHost(n)
  PROVE TypeOK'
<1>1. write' \in EndType
  BY Zenon, EndUpdates DEF TypeOK, GuestReadFromHost
<1> QED
  BY <1>1 DEF TypeOK, GuestReadFromHost, CopyFinishes, Answer, Resolved, HostType, type

(* A guest read that finds nobody and parks keeps the types.               *)
LEMMA GuestReadBlocksType ==
  ASSUME TypeOK, NEW n \in Nat, GuestReadBlocks(n)
  PROVE TypeOK'
BY EndRecords, EndUpdates DEF TypeOK, GuestReadBlocks, Assert, HostType, type, ends, history

(* A guest read that finds the writer gone keeps the types.                *)
LEMMA GuestReadDroppedType ==
  ASSUME TypeOK, NEW n \in Nat, GuestReadDropped(n)
  PROVE TypeOK'
BY EndRecords, EndUpdates DEF TypeOK, GuestReadDropped, HostType, type, ends, history

(* A host write that finds nobody and parks keeps the types.               *)
LEMMA HostWriteParksType ==
  ASSUME TypeOK, NEW n \in Nat, HostWriteParks(n)
  PROVE TypeOK'
<1>1. write' \in EndType
  BY Zenon DEF EndType, HostWriteParks, HostReady, Open
<1> QED
  BY <1>1 DEF TypeOK, HostWriteParks, HostReady, Open, Assert, HostType, type, history

(* A host write that meets a parked guest read keeps the types.            *)
LEMMA HostWriteToGuestType ==
  ASSUME TypeOK, NEW n \in Nat, HostWriteToGuest(n)
  PROVE TypeOK'
<1>1. Min(n, read.count) \in Nat /\ read.count \in Nat
  BY Zenon, MinFacts DEF TypeOK, EndType
<1>2. UNCHANGED <<kind, realloc, rstate, wevent, wlen, rlen>>
  BY Zenon DEF HostWriteToGuest, type
<1>3. CASE realloc
  <2>1. job' = [n |-> n, space |-> read.count, queued |-> TRUE]
    BY Zenon, <1>3 DEF HostWriteToGuest
  <2>2. job' \in [n : Nat, space : Nat, queued : BOOLEAN]
    BY Zenon, <1>1, <2>1
  <2>3. /\ read' = Open /\ done' \in BOOLEAN /\ whost' \in HostType
        /\ UNCHANGED <<write, wstate, revent, rhost, alive, outcome, defaulted>>
    BY Zenon, <1>3 DEF HostWriteToGuest, CopyFinishes, HostType
  <2> QED
    BY Zenon, <1>2, <2>2, <2>3, EndRecords DEF TypeOK
<1>4. CASE ~realloc
  <2>1. /\ HostWriteReturns(Open, CompletedEvent(Min(n, read.count), TRUE), rhost,
              CopyFinishes, FALSE)
        /\ job' = job
    BY Zenon, <1>4 DEF HostWriteToGuest
  <2>2. CompletedEvent(Min(n, read.count), TRUE) \in EventType /\ CopyFinishes \in BOOLEAN
    BY Zenon, <1>1, EventRecords DEF CopyFinishes
  <2>3. outcome' \in {"ok", "trap", "panic"}
    BY Zenon, <1>4 DEF TypeOK, HostWriteToGuest, HostResult, Assert
  <2>4. rhost \in HostType
    BY Zenon DEF TypeOK
  <2>5. /\ read' \in EndType /\ write' \in EndType /\ revent' \in EventType
        /\ whost' \in HostType /\ rhost' \in HostType
        /\ alive' \in BOOLEAN /\ done' \in BOOLEAN /\ defaulted' \in BOOLEAN
        /\ wstate' \in {"Host", "Write", "WriteDone", "Busy", "Gone"}
    BY Zenon, <2>1, <2>2, <2>4, EndRecords, HostWriteReturnsType
  <2> QED
    BY Zenon, <1>2, <2>1, <2>3, <2>5 DEF TypeOK
<1> QED
  BY Zenon, <1>3, <1>4

(* A host write that meets a parked host read keeps the types.             *)
LEMMA HostWriteToHostType ==
  ASSUME TypeOK, NEW n \in Nat, HostWriteToHost(n)
  PROVE TypeOK'
<1>1. /\ HostWriteReturns(Open, revent, Answer(rhost, FALSE), done, FALSE)
      /\ UNCHANGED <<kind, realloc, rstate, wevent, job, wlen, rlen>>
  BY Zenon DEF HostWriteToHost, type
<1>2. Answer(rhost, FALSE) \in HostType /\ revent \in EventType /\ done \in BOOLEAN
  BY Zenon, HostStates DEF TypeOK
<1>3. outcome' \in {"ok", "trap", "panic"}
  BY Zenon DEF TypeOK, HostWriteToHost, HostResult, Assert
<1>4. /\ read' \in EndType /\ write' \in EndType /\ revent' \in EventType
      /\ whost' \in HostType /\ rhost' \in HostType
      /\ alive' \in BOOLEAN /\ done' \in BOOLEAN /\ defaulted' \in BOOLEAN
      /\ wstate' \in {"Host", "Write", "WriteDone", "Busy", "Gone"}
  BY Zenon, <1>1, <1>2, EndRecords, HostWriteReturnsType
<1> QED
  BY Zenon, <1>1, <1>3, <1>4 DEF TypeOK

(* A host write that finds the reader gone keeps the types.                *)
LEMMA HostWriteDroppedType ==
  ASSUME TypeOK, NEW n \in Nat, HostWriteDropped(n)
  PROVE TypeOK'
<1>1. /\ HostWriteReturns(read, revent, rhost, done, TRUE)
      /\ UNCHANGED <<kind, realloc, rstate, wevent, job, outcome, wlen, rlen>>
  BY Zenon DEF HostWriteDropped, type
<1>2. read \in EndType /\ revent \in EventType /\ rhost \in HostType /\ done \in BOOLEAN
  BY Zenon DEF TypeOK
<1>3. /\ read' \in EndType /\ write' \in EndType /\ revent' \in EventType
      /\ whost' \in HostType /\ rhost' \in HostType
      /\ alive' \in BOOLEAN /\ done' \in BOOLEAN /\ defaulted' \in BOOLEAN
      /\ wstate' \in {"Host", "Write", "WriteDone", "Busy", "Gone"}
  BY Zenon, <1>1, <1>2, HostWriteReturnsType
<1> QED
  BY Zenon, <1>1, <1>3 DEF TypeOK

(* A host read that finds nobody and parks keeps the types.                *)
LEMMA HostReadParksType ==
  ASSUME TypeOK, NEW n \in Nat, HostReadParks(n)
  PROVE TypeOK'
<1>1. read' \in EndType
  BY Zenon DEF EndType, HostReadParks, HostReady, Open
<1> QED
  BY <1>1 DEF TypeOK, HostReadParks, HostReady, Open, Assert, HostType, type, history

(* A host read that meets a parked guest write keeps the types.            *)
LEMMA HostReadFromGuestType ==
  ASSUME TypeOK, NEW n \in Nat, HostReadFromGuest(n)
  PROVE TypeOK'
<1> DEFINE ev == CompletedEvent(Min(n, write.count), ~write.drop)
<1>1. Min(n, write.count) \in Nat
  BY Zenon, MinFacts DEF TypeOK, EndType
<1>2. ev \in EventType
  BY Zenon, <1>1 DEF TypeOK, EndType, CompletedEvent, Completed, EventType
<1>3. AfterWrite(write) \in EndType /\ whost \in HostType
  BY Zenon, EndUpdates DEF TypeOK
<1>4. /\ HostReadReturns(AfterWrite(write), ev, whost, FALSE)
      /\ UNCHANGED <<kind, realloc, wstate, revent, job, wlen, rlen, defaulted>>
  BY Zenon DEF HostReadFromGuest, type
<1>5. done' \in BOOLEAN /\ outcome' \in {"ok", "trap", "panic"}
  BY Zenon DEF TypeOK, HostReadFromGuest, CopyFinishes, HostResult, Assert
<1> HIDE DEF ev
<1>6. /\ read' \in EndType /\ write' \in EndType /\ wevent' \in EventType
      /\ whost' \in HostType /\ rhost' \in HostType /\ alive' \in BOOLEAN
      /\ rstate' \in {"Host", "Read", "ReadDone", "Busy", "Gone"}
  BY Zenon, <1>2, <1>3, <1>4, HostReadReturnsType
<1> QED
  BY Zenon, <1>4, <1>5, <1>6 DEF TypeOK

(* A host read that meets a parked host write keeps the types.             *)
LEMMA HostReadFromHostType ==
  ASSUME TypeOK, NEW n \in Nat, HostReadFromHost(n)
  PROVE TypeOK'
<1>1. /\ AfterWrite(write) \in EndType /\ wevent \in EventType
      /\ Answer(whost, FALSE) \in HostType
  BY Zenon, EndUpdates, HostStates DEF TypeOK
<1>2. /\ HostReadReturns(AfterWrite(write), wevent, Answer(whost, FALSE), FALSE)
      /\ UNCHANGED <<kind, realloc, done, wstate, revent, job, wlen, rlen, defaulted>>
  BY Zenon DEF HostReadFromHost, type
<1>3. outcome' \in {"ok", "trap", "panic"}
  BY Zenon DEF TypeOK, HostReadFromHost, HostResult, Assert
<1>4. /\ read' \in EndType /\ write' \in EndType /\ wevent' \in EventType
      /\ whost' \in HostType /\ rhost' \in HostType /\ alive' \in BOOLEAN
      /\ rstate' \in {"Host", "Read", "ReadDone", "Busy", "Gone"}
  BY Zenon, <1>1, <1>2, HostReadReturnsType
<1> QED
  BY Zenon, <1>2, <1>3, <1>4 DEF TypeOK

(* A host read that finds the writer gone keeps the types.                 *)
LEMMA HostReadDroppedType ==
  ASSUME TypeOK, NEW n \in Nat, HostReadDropped(n)
  PROVE TypeOK'
<1>1. /\ HostReadReturns(write, wevent, whost, TRUE)
      /\ UNCHANGED <<kind, realloc, done, wstate, revent, job, outcome, wlen, rlen, defaulted>>
  BY Zenon DEF HostReadDropped, type, history
<1>2. /\ read' \in EndType /\ write' \in EndType /\ wevent' \in EventType
      /\ whost' \in HostType /\ rhost' \in HostType /\ alive' \in BOOLEAN
      /\ rstate' \in {"Host", "Read", "ReadDone", "Busy", "Gone"}
  BY Zenon, <1>1, HostReadReturnsType DEF TypeOK
<1> QED
  BY Zenon, <1>1, <1>2 DEF TypeOK

(* The queued worker that lowers a host write to a guest keeps the types.  *)
LEMMA LowerToGuestType ==
  ASSUME TypeOK, LowerToGuest
  PROVE TypeOK'
<1>1. Min(job.n, job.space) \in Nat
  BY Zenon, MinFacts DEF TypeOK
<1>2. revent' \in EventType
  BY Zenon, <1>1, EventRecords DEF LowerToGuest
<1>3. job' \in [n : Nat, space : Nat, queued : BOOLEAN]
  BY Zenon DEF LowerToGuest
<1> QED
  BY <1>2, <1>3 DEF TypeOK, LowerToGuest, CompletedEvent, Answer, Resolved, HostType, type, ends

(* Delivering the write end's event keeps the types.                       *)
LEMMA DeliverWriteType ==
  ASSUME TypeOK, DeliverWrite
  PROVE TypeOK'
BY EventRecords DEF TypeOK, DeliverWrite, Assert, type, ends

(* Delivering the read end's event keeps the types.                        *)
LEMMA DeliverReadType ==
  ASSUME TypeOK, DeliverRead
  PROVE TypeOK'
BY EventRecords DEF TypeOK, DeliverRead, Assert, type, ends

(* guest_cancel_write keeps the types.                                     *)
LEMMA GuestCancelWriteType ==
  ASSUME TypeOK, GuestCancelWrite
  PROVE TypeOK'
BY EndRecords, EventRecords DEF TypeOK, GuestCancelWrite, type

(* guest_cancel_read keeps the types.                                      *)
LEMMA GuestCancelReadType ==
  ASSUME TypeOK, GuestCancelRead
  PROVE TypeOK'
BY EndRecords, EventRecords DEF TypeOK, GuestCancelRead, type

(* Dropping the future of a host write keeps the types.                    *)
LEMMA AbandonWriteType ==
  ASSUME TypeOK, AbandonWrite
  PROVE TypeOK'
<1>1. /\ HostWriteReturns(read, revent, rhost, done, FALSE)
      /\ UNCHANGED <<kind, realloc, rstate, wevent, job, outcome, wlen, rlen>>
  BY Zenon DEF AbandonWrite, type
<1>2. read \in EndType /\ revent \in EventType /\ rhost \in HostType /\ done \in BOOLEAN
  BY Zenon DEF TypeOK
<1>3. /\ read' \in EndType /\ write' \in EndType /\ revent' \in EventType
      /\ whost' \in HostType /\ rhost' \in HostType
      /\ alive' \in BOOLEAN /\ done' \in BOOLEAN /\ defaulted' \in BOOLEAN
      /\ wstate' \in {"Host", "Write", "WriteDone", "Busy", "Gone"}
  BY Zenon, <1>1, <1>2, HostWriteReturnsType
<1> QED
  BY Zenon, <1>1, <1>3 DEF TypeOK

(* Dropping the future of a host read keeps the types.                     *)
LEMMA AbandonReadType ==
  ASSUME TypeOK, AbandonRead
  PROVE TypeOK'
<1>1. /\ HostReadReturns(write, wevent, whost, FALSE)
      /\ UNCHANGED <<kind, realloc, done, wstate, revent, job, outcome, wlen, rlen, defaulted>>
  BY Zenon DEF AbandonRead, type, history
<1>2. /\ read' \in EndType /\ write' \in EndType /\ wevent' \in EventType
      /\ whost' \in HostType /\ rhost' \in HostType /\ alive' \in BOOLEAN
      /\ rstate' \in {"Host", "Read", "ReadDone", "Busy", "Gone"}
  BY Zenon, <1>1, HostReadReturnsType DEF TypeOK
<1> QED
  BY Zenon, <1>1, <1>2 DEF TypeOK

(* Starting and ending to watch the other end keeps the types.             *)
LEMMA WatchType ==
  ASSUME TypeOK, WatchReader \/ WatchWriter \/ StopWatching
  PROVE TypeOK'
<1>1. /\ UNCHANGED <<kind, realloc, alive, write, read, done, wstate, rstate, wevent, revent>>
      /\ UNCHANGED <<job, outcome, wlen, rlen, defaulted>>
      /\ whost' \in {whost, "idle", "watching"} /\ rhost' \in {rhost, "idle", "watching"}
  BY Zenon DEF WatchReader, WatchWriter, StopWatching, type, ends, history
<1>2. whost \in HostType /\ rhost \in HostType
  BY Zenon DEF TypeOK
<1>3. whost' \in HostType /\ rhost' \in HostType
  BY Zenon, <1>1, <1>2 DEF HostType
<1> QED
  BY <1>1, <1>3 DEF TypeOK

(* guest_drop_writable keeps the types.                                    *)
LEMMA GuestDropWriterType ==
  ASSUME TypeOK, GuestDropWriter
  PROVE TypeOK'
<1>1. read' \in EndType /\ revent' \in EventType /\ rhost' \in HostType /\ alive' \in BOOLEAN
  BY Zenon, WriterGoneType DEF TypeOK, GuestDropWriter
<1> QED
  BY Zenon, <1>1, EndRecords DEF TypeOK, GuestDropWriter, Assert, type, history

(* The trap of guest_drop_writable on an unwritten future keeps the types. *)
LEMMA GuestDropUnwrittenType ==
  ASSUME TypeOK, GuestDropUnwritten
  PROVE TypeOK'
BY EndRecords, EndUpdates DEF TypeOK, GuestDropUnwritten, HostType, type, ends, history

(* host_drop_writer by the host keeps the types.                           *)
LEMMA HostDropWriterType ==
  ASSUME TypeOK, HostDropWriter
  PROVE TypeOK'
<1>1. read' \in EndType /\ revent' \in EventType /\ rhost' \in HostType /\ alive' \in BOOLEAN
  BY Zenon, WriterGoneType DEF TypeOK, HostDropWriter
<1>2. write' \in EndType
  BY Zenon, EndRecords, EndUpdates DEF TypeOK, HostDropWriter
<1> QED
  BY Zenon, <1>1, <1>2 DEF TypeOK, HostDropWriter, Assert, type, history

(* Closing a FutureWriter that falls back on its default keeps the types.  *)
LEMMA HostDropWriterDefaultType ==
  ASSUME TypeOK, HostDropWriterDefault
  PROVE TypeOK'
<1>1. write' \in EndType /\ done' \in BOOLEAN
  BY Zenon, EndRecords DEF TypeOK, HostDropWriterDefault
<1>2. job' \in [n : Nat, space : Nat, queued : BOOLEAN]
  <2>1. job' = job \/ job' = [n |-> 1, space |-> read.count, queued |-> TRUE]
    BY Zenon DEF HostDropWriterDefault
  <2>2. [n |-> 1, space |-> read.count, queued |-> TRUE] \in [n : Nat, space : Nat,
          queued : BOOLEAN]
    BY Zenon DEF TypeOK, EndType
  <2> QED
    BY Zenon, <2>1, <2>2 DEF TypeOK
<1>3. PICK ev \in EventType, host \in HostType, rd \in EndType : WriterGone(rd, ev, host)
  <2>1. CompletedEvent(1, TRUE) \in EventType /\ Answer(rhost, FALSE) \in HostType
    BY Zenon, EventRecords DEF TypeOK, Answer, Resolved, HostType
  <2> QED
    BY Zenon, <2>1, EndRecords DEF TypeOK, HostDropWriterDefault
<1>4. read' \in EndType /\ revent' \in EventType /\ rhost' \in HostType /\ alive' \in BOOLEAN
  BY Zenon, <1>3, WriterGoneType
<1> QED
  BY Zenon, <1>1, <1>2, <1>4 DEF TypeOK, HostDropWriterDefault, type

(* guest_drop_readable keeps the types.                                    *)
LEMMA GuestDropReaderType ==
  ASSUME TypeOK, GuestDropReader
  PROVE TypeOK'
<1>1. /\ read' \in EndType /\ write' \in EndType /\ wevent' \in EventType
      /\ whost' \in HostType /\ alive' \in BOOLEAN
      /\ rstate' \in {"Host", "Read", "ReadDone", "Busy", "Gone"}
  BY Zenon, ReaderGoneType DEF TypeOK, GuestDropReader
<1> QED
  BY Zenon, <1>1 DEF TypeOK, GuestDropReader, type, history

(* host_drop_reader by the host keeps the types.                           *)
LEMMA HostDropReaderType ==
  ASSUME TypeOK, HostDropReader
  PROVE TypeOK'
<1>1. /\ read' \in EndType /\ write' \in EndType /\ wevent' \in EventType
      /\ whost' \in HostType /\ alive' \in BOOLEAN
      /\ rstate' \in {"Host", "Read", "ReadDone", "Busy", "Gone"}
  BY Zenon, ReaderGoneType DEF TypeOK, HostDropReader
<1> QED
  BY Zenon, <1>1 DEF TypeOK, HostDropReader, type, history

(* Lifting the read end to the host keeps the types.                       *)
LEMMA LiftType ==
  ASSUME TypeOK, Lift
  PROVE TypeOK'
BY EndRecords, EndUpdates DEF TypeOK, Lift, HostType, type, ends, history

(* Lowering the read end to a guest keeps the types.                       *)
LEMMA LowerType ==
  ASSUME TypeOK, Lower
  PROVE TypeOK'
BY EndRecords, EndUpdates DEF TypeOK, Lower, HostType, type, ends, history

(* Buffers have a natural number of items, and a future's buffer one.      *)
LEMMA SizesFacts ==
  /\ \A n \in Sizes(WriteCounts) : n \in Nat /\ (kind = "Future" => n = 1)
  /\ \A n \in Sizes(ReadCounts) : n \in Nat /\ (kind = "Future" => n = 1)
BY ConstantsAssumption DEF Sizes

(* Initially the types are right.                                          *)
LEMMA InitType ==
  ASSUME Init
  PROVE  TypeOK
<1>1. job \in [n : Nat, space : Nat, queued : BOOLEAN] /\ wlen \in Nat /\ rlen \in Nat
  BY Zenon DEF Init
<1>2. write \in EndType /\ read \in EndType /\ wevent \in EventType /\ revent \in EventType
  BY EndRecords, EventRecords, Zenon DEF Init
<1>3. alive \in BOOLEAN /\ done \in BOOLEAN /\ defaulted \in BOOLEAN
  BY Zenon DEF Init
<1>4. /\ kind \in {"Stream", "Future"} /\ realloc \in BOOLEAN /\ outcome \in {"ok", "trap", "panic"}
      /\ wstate \in {"Host", "Write", "WriteDone", "Busy", "Gone"}
      /\ rstate \in {"Host", "Read", "ReadDone", "Busy", "Gone"}
      /\ whost \in HostType /\ rhost \in HostType
  BY Zenon DEF Init, HostType
<1> QED
  BY <1>1, <1>2, <1>3, <1>4, Zenon DEF TypeOK

(* Every step of the stream and future code keeps the types.               *)
LEMMA NextType ==
  ASSUME TypeOK, [Next]_vars
  PROVE  TypeOK'
<1>1. ASSUME NEW n \in Sizes(WriteCounts), GuestWrite(n)
      PROVE  TypeOK'
  <2>1. n \in Nat /\ (kind = "Future" => n = 1)
    BY Zenon, SizesFacts
  <2>2. CASE GuestWriteToGuest(n)
    BY Zenon, <2>1, <2>2, GuestWriteToGuestType
  <2>3. CASE GuestWriteToHost(n)
    BY Zenon, <2>1, <2>3, GuestWriteToHostType
  <2>4. CASE GuestWriteBlocks(n)
    BY Zenon, <2>1, <2>4, GuestWriteBlocksType
  <2>5. CASE GuestWriteDropped(n)
    BY Zenon, <2>1, <2>5, GuestWriteDroppedType
  <2> QED
    BY Zenon, <1>1, <2>2, <2>3, <2>4, <2>5 DEF GuestWrite
<1>2. ASSUME NEW n \in Sizes(WriteCounts), HostWrite(n)
      PROVE  TypeOK'
  <2>1. n \in Nat /\ (kind = "Future" => n = 1)
    BY Zenon, SizesFacts
  <2>2. CASE HostWriteParks(n)
    BY Zenon, <2>1, <2>2, HostWriteParksType
  <2>3. CASE HostWriteToGuest(n)
    BY Zenon, <2>1, <2>3, HostWriteToGuestType
  <2>4. CASE HostWriteToHost(n)
    BY Zenon, <2>1, <2>4, HostWriteToHostType
  <2>5. CASE HostWriteDropped(n)
    BY Zenon, <2>1, <2>5, HostWriteDroppedType
  <2> QED
    BY Zenon, <1>2, <2>2, <2>3, <2>4, <2>5 DEF HostWrite
<1>3. ASSUME NEW n \in Sizes(ReadCounts), GuestRead(n)
      PROVE  TypeOK'
  <2>1. n \in Nat /\ (kind = "Future" => n = 1)
    BY Zenon, SizesFacts
  <2>2. CASE GuestReadFromGuest(n)
    BY Zenon, <2>1, <2>2, GuestReadFromGuestType
  <2>3. CASE GuestReadFromHost(n)
    BY Zenon, <2>1, <2>3, GuestReadFromHostType
  <2>4. CASE GuestReadBlocks(n)
    BY Zenon, <2>1, <2>4, GuestReadBlocksType
  <2>5. CASE GuestReadDropped(n)
    BY Zenon, <2>1, <2>5, GuestReadDroppedType
  <2> QED
    BY Zenon, <1>3, <2>2, <2>3, <2>4, <2>5 DEF GuestRead
<1>4. ASSUME NEW n \in Sizes(ReadCounts), HostRead(n)
      PROVE  TypeOK'
  <2>1. n \in Nat /\ (kind = "Future" => n = 1)
    BY Zenon, SizesFacts
  <2>2. CASE HostReadParks(n)
    BY Zenon, <2>1, <2>2, HostReadParksType
  <2>3. CASE HostReadFromGuest(n)
    BY Zenon, <2>1, <2>3, HostReadFromGuestType
  <2>4. CASE HostReadFromHost(n)
    BY Zenon, <2>1, <2>4, HostReadFromHostType
  <2>5. CASE HostReadDropped(n)
    BY Zenon, <2>1, <2>5, HostReadDroppedType
  <2> QED
    BY Zenon, <1>4, <2>2, <2>3, <2>4, <2>5 DEF HostRead
<1>5. CASE LowerToGuest
  BY Zenon, <1>5, LowerToGuestType
<1>6. CASE DeliverWrite
  BY Zenon, <1>6, DeliverWriteType
<1>7. CASE DeliverRead
  BY Zenon, <1>7, DeliverReadType
<1>8. CASE GuestCancelWrite
  BY Zenon, <1>8, GuestCancelWriteType
<1>9. CASE GuestCancelRead
  BY Zenon, <1>9, GuestCancelReadType
<1>10. CASE AbandonWrite
  BY Zenon, <1>10, AbandonWriteType
<1>11. CASE AbandonRead
  BY Zenon, <1>11, AbandonReadType
<1>12. CASE GuestDropWriter
  BY Zenon, <1>12, GuestDropWriterType
<1>13. CASE GuestDropUnwritten
  BY Zenon, <1>13, GuestDropUnwrittenType
<1>14. CASE HostDropWriter
  BY Zenon, <1>14, HostDropWriterType
<1>15. CASE HostDropWriterDefault
  BY Zenon, <1>15, HostDropWriterDefaultType
<1>16. CASE GuestDropReader
  BY Zenon, <1>16, GuestDropReaderType
<1>17. CASE HostDropReader
  BY Zenon, <1>17, HostDropReaderType
<1>18. CASE Lift
  BY Zenon, <1>18, LiftType
<1>19. CASE Lower
  BY Zenon, <1>19, LowerType
<1>21. CASE WatchReader \/ WatchWriter \/ StopWatching
  BY Zenon, <1>21, WatchType
<1>20. CASE UNCHANGED vars
  <2>1. /\ UNCHANGED <<kind, realloc, alive, write, read, done, wstate, rstate>>
        /\ UNCHANGED <<wevent, revent, whost, rhost, job, outcome, wlen, rlen, defaulted>>
    BY Zenon, <1>20 DEF vars, type, ends, history
  <2> QED
    BY <2>1 DEF TypeOK
<1> QED
  BY Zenon, <1>1, <1>2, <1>3, <1>4, <1>5, <1>6, <1>7, <1>8, <1>9, <1>10, <1>11,
      <1>12, <1>13, <1>14, <1>15, <1>16, <1>17, <1>18, <1>19, <1>20, <1>21
      DEF Next

(* The fields of TransmitState, the events and the handle states keep the  *)
(* types the Rust code gives them, whatever the guests and the host do.    *)
THEOREM TypeCorrect == Spec => []TypeOK
<1>1. Init => TypeOK
  BY Zenon, InitType
<1>2. TypeOK /\ [Next]_vars => TypeOK'
  BY Zenon, NextType
<1> QED
  BY <1>1, <1>2, PTL DEF Spec

-----------------------------------------------------------------------------
(* A parked operation belongs to whoever holds the end: a guest's handle   *)
(* is Busy, the host is waiting, or the end is closed and its last value   *)
(* is left.                                                                *)
Owners ==
    /\ write.st = "GuestReady" => wstate = "Busy" /\ ~write.drop
    /\ read.st = "GuestReady" => rstate = "Busy"
    /\ read.st = "HostReady" => rstate = "Host"
    /\ write.st = "HostReady" => wstate = "Host" \/ write.drop
    /\ write.drop => wstate = "Gone"
    /\ write.st = "Open" => write = Open
    /\ read.st = "Open" => read = Open
    /\ wstate = "Write" => write = Open
    /\ rstate = "Read" => read = Open
    /\ wstate = "Host" /\ whost \in {"idle", "closed", "watching"} => write = Open
    /\ rstate = "Host" /\ rhost \in {"idle", "closed", "watching"} => read = Open
    /\ whost \in {"waiting", "watching"} => wstate = "Host"
    /\ rhost \in {"waiting", "watching"} => rstate = "Host"

(* An end is dropped exactly when nobody holds it, unless its last value   *)
(* is still parked or the drop trapped.                                    *)
Drops ==
    /\ write.st = "Dropped" => wstate = "Gone"
    /\ read.st = "Dropped" <=> rstate = "Gone"
    /\ wstate = "Gone" /\ outcome = "ok" => write.st \in {"Dropped", "HostReady"}
    /\ wstate = "Host" /\ whost = "closed" => read.st = "Dropped"
    /\ rstate = "Host" /\ rhost = "closed" => write.st = "Dropped"

(* Whose events they are: a completion is for a handle that is still Busy, *)
(* a drop comes from an end that is gone.                                  *)
Events ==
    /\ wevent.code = "None" => wevent = NoEvent
    /\ revent.code = "None" => revent = NoEvent
    /\ wevent.code = "Completed" => wevent.pending
    /\ revent.code = "Completed" => revent.pending
    /\ wevent.pending => wstate = "Busy"
    /\ revent.pending => rstate = "Busy"
    /\ wevent.code = "Dropped" => rstate = "Gone"
    /\ revent.code = "Dropped" => wstate = "Gone"

(* A worker is queued for a guest read that was taken out and has no       *)
(* answer yet.                                                             *)
Jobs == job.queued =>
    /\ rstate = "Busy" /\ wstate \in {"Host", "Gone"} /\ read.st = "Open"
    /\ revent.code # "Completed" /\ ~revent.pending /\ revent.n = 0
    /\ wstate = "Host" => write = Open /\ whost \in {"waiting", "spent"}
    /\ kind = "Future" => job.n = 1 /\ job.space = 1

(* The host takes a parked operation whole; a completion that leaves an    *)
(* operation parked has consumed part of it.                               *)
Whole ==
    /\ rstate = "Host" => write.addr = 0
    /\ wstate = "Host" => read.addr = 0
    /\ write.st = "GuestReady" /\ wevent.code = "Completed" => write.addr > 0
    /\ read.st = "GuestReady" /\ revent.code = "Completed" => read.addr > 0
    /\ write.st # "GuestReady" => write.addr = 0
    /\ read.st # "GuestReady" => read.addr = 0

(* A future's operations have one item, and none completes before `done`.  *)
Single == kind = "Future" =>
    /\ Parked(write) => write.count = 1
    /\ Parked(read) => read.count = 1
    /\ wevent.n = 0 /\ revent.n = 0
    /\ ~done => wevent.code # "Completed" /\ revent.code # "Completed" /\ ~job.queued

(* The inductive invariant: what is proved, and what its proof needs.      *)
Inv ==
    /\ TypeOK /\ NeverBothParked /\ Owners /\ Drops /\ Events /\ Jobs /\ Whole /\ Single
    /\ NoPanic /\ Conservation /\ InOrder /\ NothingLost /\ NoLeak

(* The guests and the host take none of the steps listed in Exceptional.   *)
NoExceptions == Allows = {}

(* The write end a dropped writer leaves behind: none, or its last value.  *)
Leaving(w) ==
    \/ w = Dropped
    \/ /\ w.st = "HostReady" /\ w.drop /\ w.addr = 0
       /\ kind = "Future" => w.count = 1
       /\ ~Parked(read)

(* What an end has not been told is the count of its event.                *)
LEMMA UntoldItems ==
  ASSUME Inv
  PROVE  /\ Items(wevent) \in Nat /\ Items(revent) \in Nat
         /\ unW = Items(wevent) /\ unR = Items(revent)
<1>1. wevent.n \in Nat /\ revent.n \in Nat
  BY Zenon DEF Inv, TypeOK, EventType
<1>2. Items(wevent) \in Nat /\ Items(revent) \in Nat
  BY Zenon, <1>1 DEF Items
<1> QED
  BY Zenon, <1>2 DEF Inv, Conservation

(* host_drop_reader keeps the invariant when no guest read is in progress. *)
LEMMA ReaderGoneInv ==
  ASSUME Inv, NoExceptions, TypeOK', Running, ReaderGone(write, wevent, whost),
         rstate \in {"Read", "ReadDone", "Host"}, rhost' \notin {"waiting", "watching"},
         kind' = kind, UNCHANGED <<done, wstate, revent, job, outcome, unW, unR, wlen, rlen>>
  PROVE  Inv'
<1>1. read' = Dropped /\ rstate' = "Gone" /\ outcome = "ok" /\ alive
  BY Zenon DEF ReaderGone, Running
<1>2. /\ ~job.queued /\ ~revent.pending /\ wevent.code # "Dropped"
      /\ ~(write.st = "HostReady" /\ write.drop)
  BY Zenon DEF ReaderGone, Inv, Owners, Events, Jobs, NothingLost, NoExceptions
<1>3. CASE write.st = "Open" \/ write.st = "GuestReady"
  <2>1. /\ write' = Open /\ alive' /\ whost' # "watching"
        /\ whost' = whost \/ (whost = "watching" /\ whost' = "idle")
    BY Zenon, <1>3 DEF ReaderGone, Woken, Inv, Owners
  <2>2. wevent' = UpdateEvent(wevent, write.st = "GuestReady")
    BY Zenon, <1>3 DEF ReaderGone, Inv, Owners
  <2>3. /\ wevent'.n = wevent.n
        /\ wevent'.code # "None"
        /\ wevent'.code = "Completed" => wevent' = wevent
        /\ wevent'.code = "Dropped" /\ kind = "Future" => wevent.code = "None"
    BY <1>2, <2>2 DEF UpdateEvent, Inv, Events, TypeOK, NoEvent
  <2>4. wevent'.pending <=> wevent.pending \/ write.st = "GuestReady"
    <3>1. CASE wevent = NoEvent
      BY Zenon, <2>2, <3>1 DEF UpdateEvent, NoEvent
    <3>2. CASE wevent # NoEvent /\ kind = "Future"
      <4>1. wevent' = wevent
        BY Zenon, <2>2, <3>2 DEF UpdateEvent
      <4> QED
        BY Zenon, <1>1, <1>2, <1>3, <3>2, <4>1 DEF Inv, Events, TypeOK, EventType
    <3>3. CASE wevent # NoEvent /\ kind = "Stream"
      BY Zenon, <2>2, <3>3 DEF UpdateEvent, Inv, Events, TypeOK, EventType
    <3> QED
      BY Zenon, <3>1, <3>2, <3>3 DEF Inv, TypeOK
  <2>5. (NeverBothParked /\ Owners)'
    BY Zenon, <1>1, <1>2, <1>3, <2>1 DEF Inv, NeverBothParked, Owners, Parked, Open, Dropped
  <2>10. Drops'
    BY Zenon, <1>1, <1>2, <1>3, <2>1 DEF Inv, Drops, Owners, Open, Dropped
  <2>6. (Events /\ Jobs /\ Whole /\ Single)'
    BY Zenon, <1>1, <1>2, <1>3, <2>1, <2>3, <2>4 DEF Inv, Events, Jobs, Whole,
        Single, Open, Dropped, Parked, Owners
  <2>7. (Conservation /\ InOrder)'
    BY Zenon, <1>1, <1>2, <1>3, <2>1, <2>3 DEF Inv, Conservation, InOrder, TypeOK,
        EventType, Open, Items
  <2>8. (NoPanic /\ NothingLost /\ NoLeak)'
    BY Zenon, <1>1, <1>2, <1>3, <2>1, <2>4 DEF Inv, NoPanic, NothingLost, NoLeak,
        Drops
  <2> QED
    BY Zenon, <2>5, <2>6, <2>7, <2>8, <2>10 DEF Inv
<1>4. CASE write.st = "HostReady" \/ write.st = "Dropped"
  <2>1. /\ wevent' = wevent
        /\ write' = (IF write.st = "Dropped" THEN write ELSE Open)
        /\ alive' = (write.st # "Dropped")
        /\ whost' = (IF write.st = "HostReady" THEN Answer(Woken(whost), TRUE) ELSE Woken(whost))
    BY Zenon, <1>4 DEF ReaderGone
  <2>5. /\ whost' # "watching"
        /\ write.st = "HostReady" => whost' \in {"idle", "closed", "spent"}
        /\ write.st = "Dropped" => whost' \in {"idle", whost}
    BY Zenon, <1>4, <2>1 DEF Answer, Woken, Resolved, Inv, TypeOK, HostType
  <2>6. write.st = "Dropped" => write' = write /\ wstate = "Gone" /\ whost # "waiting"
    BY Zenon, <2>1 DEF Inv, Drops, Owners
  <2>2. (NeverBothParked /\ Owners /\ Drops)'
    BY Zenon, <1>1, <1>2, <1>4, <2>1, <2>5, <2>6 DEF Inv, NeverBothParked,
        Owners, Drops, Parked, Open, Dropped
  <2>3. (Events /\ Jobs /\ Whole /\ Single)'
    BY Zenon, <1>1, <1>2, <1>4, <2>1 DEF Inv, Events, Jobs, Whole, Single, NoEvent,
        Open, Dropped, Parked
  <2>4. (NoPanic /\ Conservation /\ InOrder /\ NothingLost /\ NoLeak)'
    BY Zenon, <1>1, <1>2, <1>4, <2>1, <2>5, <2>6 DEF Inv, Owners, NoPanic,
        Conservation, InOrder, NothingLost, NoLeak, TypeOK, Items
  <2> QED
    BY Zenon, <2>2, <2>3, <2>4 DEF Inv
<1> QED
  BY Zenon, <1>3, <1>4 DEF Inv, TypeOK, EndType

(* host_drop_writer keeps the invariant when no guest write is in progress *)
(* and a host write that is leaves its value parked.                       *)
LEMMA WriterGoneInv ==
  ASSUME Inv, NoExceptions, TypeOK', Running, WriterGone(read, revent, rhost),
         wstate \in {"Write", "WriteDone", "Host"}, whost' \notin {"waiting", "watching"},
         wstate' = "Gone",
         Leaving(write'),
         kind' = kind, outcome' = outcome,
         UNCHANGED <<done, rstate, wevent, job, unW, unR, wlen, rlen>>
  PROVE  Inv'
<1>1. /\ outcome = "ok" /\ alive /\ revent.code # "Dropped" /\ ~wevent.pending
      /\ read.st = "GuestReady" => ~job.queued
      /\ read.st = "HostReady" => ~job.queued
  BY Zenon DEF Inv, Running, Owners, Events, Jobs, NothingLost
<1>4. \/ write'.st = "Dropped" /\ ~write'.drop /\ write'.addr = 0
      \/ /\ write'.st = "HostReady" /\ write'.drop /\ write'.addr = 0
         /\ kind = "Future" => write'.count = 1
         /\ ~Parked(read)
  BY Zenon DEF Leaving, Inv, Open, Dropped
<1>2. CASE read.st = "Open" \/ read.st = "GuestReady"
  <2>1. /\ read' = Open /\ alive' /\ rhost' # "watching"
        /\ rhost' = rhost \/ (rhost = "watching" /\ rhost' = "idle")
    BY Zenon, <1>2 DEF WriterGone, Woken
  <2>2. revent' = UpdateEvent(revent, read.st = "GuestReady")
    BY Zenon, <1>2 DEF WriterGone
  <2>3. /\ revent'.n = revent.n
        /\ revent'.code # "None"
        /\ revent'.code = "Completed" => revent' = revent
        /\ revent'.code = "Dropped" /\ kind = "Future" => revent.code = "None"
    BY <1>1, <2>2 DEF UpdateEvent, Inv, Events, TypeOK, NoEvent
  <2>4. revent'.pending <=> revent.pending \/ read.st = "GuestReady"
    <3>1. CASE revent = NoEvent
      BY Zenon, <2>2, <3>1 DEF UpdateEvent, NoEvent
    <3>2. CASE revent # NoEvent /\ kind = "Future"
      <4>1. revent' = revent
        BY Zenon, <2>2, <3>2 DEF UpdateEvent
      <4> QED
        BY Zenon, <1>1, <1>2, <3>2, <4>1 DEF Inv, Events, TypeOK, EventType
    <3>3. CASE revent # NoEvent /\ kind = "Stream"
      BY Zenon, <2>2, <3>3 DEF UpdateEvent, Inv, Events, TypeOK, EventType
    <3> QED
      BY Zenon, <3>1, <3>2, <3>3 DEF Inv, TypeOK
  <2>5. (NeverBothParked /\ Owners)'
    BY Zenon, <1>1, <1>4, <1>2, <2>1 DEF Inv, NeverBothParked, Owners, Parked, Open, Dropped
  <2>10. Drops'
    BY Zenon, <1>1, <1>4, <1>2, <2>1 DEF Inv, Drops, Owners, Open, Dropped
  <2>6. (Events /\ Jobs)'
    BY Zenon, <1>1, <1>4, <1>2, <2>1, <2>3, <2>4 DEF Inv, Events, Jobs, Owners
  <2>7. (Whole /\ Single)'
    BY Zenon, <1>1, <1>4, <1>2, <2>1, <2>3, <2>4 DEF Inv, Whole, Single, Open,
        Dropped, Parked, NoEvent
  <2>8. (Conservation /\ InOrder)'
    BY Zenon, <1>1, <1>4, <1>2, <2>1, <2>3 DEF Inv, Conservation, InOrder, TypeOK,
        EventType, Open, Items
  <2>9. (NoPanic /\ NothingLost /\ NoLeak)'
    BY Zenon, <1>1, <1>4, <1>2, <2>1, <2>4 DEF Inv, NoPanic, NothingLost, NoLeak,
        Drops
  <2> QED
    BY Zenon, <2>5, <2>6, <2>7, <2>8, <2>9, <2>10 DEF Inv
<1>3. CASE read.st = "HostReady" \/ read.st = "Dropped"
  <2>1. /\ revent' = revent
        /\ read' = (IF read.st = "Dropped" THEN read ELSE Open)
        /\ alive' = (read.st # "Dropped")
        /\ rhost' = (IF read.st = "HostReady" THEN Answer(Woken(rhost), TRUE) ELSE Woken(rhost))
    BY Zenon, <1>3 DEF WriterGone
  <2>5. /\ rhost' # "watching"
        /\ read.st = "HostReady" => rhost' \in {"idle", "closed", "spent"}
        /\ read.st = "Dropped" => rhost' \in {"idle", rhost}
    BY Zenon, <1>3, <2>1 DEF Answer, Woken, Resolved, Inv, TypeOK, HostType
  <2>7. read.st = "HostReady" /\ rhost' = "closed" => write'.st = "Dropped"
    BY Zenon, <1>4 DEF Parked
  <2>6. read.st = "Dropped" => read' = read /\ rstate = "Gone" /\ rhost # "waiting"
    BY Zenon, <2>1 DEF Inv, Drops, Owners
  <2>2. (NeverBothParked /\ Owners /\ Drops)'
    BY Zenon, <1>1, <1>4, <1>3, <2>1, <2>5, <2>6, <2>7 DEF Inv, NeverBothParked,
        Owners, Drops, Parked, Open, Dropped
  <2>3. (Events /\ Jobs /\ Whole /\ Single)'
    BY Zenon, <1>1, <1>4, <1>3, <2>1 DEF Inv, Events, Jobs, Whole, Single, NoEvent,
        Open, Dropped, Parked
  <2>4. (NoPanic /\ Conservation /\ InOrder /\ NothingLost /\ NoLeak)'
    BY Zenon, <1>1, <1>4, <1>3, <2>1, <2>5, <2>6 DEF Inv, Drops, NoPanic,
        Conservation, InOrder, NothingLost, NoLeak, TypeOK, EventType, Open,
        Items
  <2> QED
    BY Zenon, <2>2, <2>3, <2>4 DEF Inv
<1> QED
  BY Zenon, <1>2, <1>3 DEF Inv, TypeOK, EndType

(* A guest write that meets a parked guest read keeps the invariant.       *)
LEMMA GuestWriteToGuestInv ==
  ASSUME Inv, NoExceptions, TypeOK', NEW n \in Nat, kind = "Future" => n = 1,
         GuestWriteToGuest(n)
  PROVE Inv'
<1>1. /\ write = Open /\ wstate = "Write" /\ rstate = "Busy" /\ ~done /\ outcome = "ok" /\ alive
      /\ read.st = "GuestReady" /\ revent.code # "Dropped" /\ OldTotal(revent) = Items(revent)
      /\ read.count \in Nat /\ ~job.queued /\ wevent = NoEvent
      /\ (n = 0 => read.count > 0) /\ (kind = "Future" => read.count = 1)
  BY DEF GuestWriteToGuest, CanWrite, OldTotal, Inv, Owners, Events, Jobs,
      Single, TypeOK, EndType, EventType, NoEvent, Parked, Items, Running,
      NoExceptions
<1>2. /\ UNCHANGED <<kind, realloc, alive, rstate, wevent, whost, rhost, job, rlen, defaulted>>
      /\ wlen' = n /\ done' = (kind = "Future")
  BY Zenon DEF GuestWriteToGuest, CopyFinishes, Inv, Running, type, ends, history
<1>3. CASE n < read.count
  <2>1. Min(n, read.count) = n
    BY Zenon, <1>1, <1>3, MinFacts
  <2>2. /\ read' = Advanced(read, n)
        /\ write' = write /\ wstate' = wstate /\ outcome' = outcome
        /\ unW' = unW + n - n /\ unR' = unR + n - 0
    BY <1>1, <1>3, <2>1 DEF GuestWriteToGuest, Account
  <2>3. /\ read'.st = "GuestReady" /\ read'.addr = read.addr + n /\ read'.count = read.count - n
        /\ read'.drop = read.drop /\ kind = "Stream"
    BY <1>1, <1>3, <2>2 DEF Advanced, Inv, TypeOK
  <2>4. /\ revent'.n = n + revent.n
        /\ revent'.code # "Dropped"
        /\ revent'.code = "None" => revent' = NoEvent
        /\ revent'.code = "Completed" => revent'.pending /\ read'.addr > 0
    <3>1. CASE n = 0
      <4>1. revent' = revent
        BY <1>1, <1>3, <3>1 DEF GuestWriteToGuest
      <4> QED
        BY <1>1, <3>1, <4>1, <2>3 DEF Inv, Events, Whole, InOrder,
            Conservation, Items
    <3>2. CASE n > 0
      BY <1>1, <1>3, <2>1, <2>3, <3>2 DEF GuestWriteToGuest, CompletedEvent,
          Completed, Inv, TypeOK, EndType, Items
    <3> QED
      BY <3>1, <3>2
  <2>5. (NeverBothParked /\ Owners /\ Drops /\ Events)'
    BY Zenon, <1>1, <1>2, <2>2, <2>3, <2>4 DEF Inv, NeverBothParked, Owners, Drops,
        Events, Parked, Open, Dropped, NoEvent
  <2>6. (Jobs /\ Whole /\ Single)'
    BY Zenon, <1>1, <1>2, <2>2, <2>3, <2>4 DEF Inv, Jobs, Whole, Single, Open,
        Dropped, Parked, NoEvent
  <2>7. Conservation' /\ (NoPanic /\ NoLeak)'
    <3>1. Conservation'
      <4>1. /\ n \in Nat /\ unW' = unW + n - n /\ unR' = unR + n - 0
            /\ kind = "Stream" /\ kind' = kind /\ wevent' = wevent
        BY <1>1, <1>2, <2>2, <2>3, <2>4 DEF Inv, Conservation, Items
      <4>2. Items(wevent)' = Items(wevent) /\ Items(revent) = revent.n /\ Items(revent)' = revent'.n
        BY Zenon, <4>1 DEF Items
      <4> QED
        BY <2>4, <4>1, <4>2, UntoldItems DEF Conservation
    <3>2. (NoPanic /\ NoLeak)'
      BY Zenon, <1>1, <1>2, <2>2 DEF Inv, NoPanic, NoLeak
    <3> QED
      BY Zenon, <3>1, <3>2
  <2>8. InOrder'
    BY <1>1, <1>2, <2>2, <2>3, <2>4 DEF Inv, InOrder, Items, Conservation
  <2>9. NothingLost'
    BY Zenon, <1>1, <1>2, <2>2, <2>3, <2>4 DEF Inv, NothingLost, Open, Dropped,
        NoEvent
  <2> QED
    BY Zenon, <2>5, <2>6, <2>7, <2>8, <2>9 DEF Inv
<1>4. CASE ~(n < read.count)
  <2>1. Min(n, read.count) = read.count /\ n > 0
    BY <1>1, <1>4, MinFacts
  <2>2. read' = Open /\ unR' = unR + read.count - 0
    BY Zenon, <1>1, <1>4, <2>1 DEF GuestWriteToGuest, Account
  <2>3. \/ /\ write' = Open /\ wstate' = "Write" /\ unW' = unW
        \/ /\ write' = GuestReady(n) /\ wstate' = "Busy" /\ unW' = unW /\ kind = "Stream"
    BY <1>1, <1>4, <2>1 DEF GuestWriteToGuest, Account, Assert, Inv,
        Conservation, TypeOK, Items
  <2>4. outcome' = outcome
    BY Zenon, <1>1 DEF GuestWriteToGuest, Assert
  <2>5. /\ revent'.code = "Completed" /\ revent'.pending
        /\ kind = "Stream" => revent'.n = read.count + revent.n
        /\ kind = "Future" => revent'.n = 0
    BY Zenon, <1>1, <2>1 DEF GuestWriteToGuest, CompletedEvent, Completed, Inv, Items
  <2>6. /\ write'.addr = 0 /\ ~write'.drop /\ unW' = unW
        /\ \/ write' = Open /\ write'.st = "Open" /\ wstate' = "Write"
           \/ write'.st = "GuestReady" /\ wstate' = "Busy" /\ write'.count = n /\ kind = "Stream"
    <3>1. Open.addr = 0 /\ ~Open.drop /\ Open.st = "Open"
      BY Zenon DEF Inv, Open
    <3>2. /\ GuestReady(n).addr = 0 /\ ~GuestReady(n).drop
          /\ GuestReady(n).st = "GuestReady" /\ GuestReady(n).count = n
      BY Zenon DEF GuestReady, Inv, Open
    <3> QED
      BY Zenon, <2>3, <3>1, <3>2
  <2>7. (NeverBothParked /\ Owners /\ Drops /\ Events)'
    BY Zenon, <1>1, <1>2, <2>2, <2>4, <2>5, <2>6 DEF Inv, NeverBothParked, Owners,
        Drops, Events, Parked, Open, Dropped, NoEvent
  <2>8. (Jobs /\ Whole /\ Single)'
    BY Zenon, <1>1, <1>2, <2>2, <2>4, <2>5, <2>6 DEF Inv, Jobs, Whole, Single,
        TypeOK, EventType, Open, NoEvent, Parked
  <2>9. (Conservation /\ NoPanic /\ NoLeak)'
    BY <1>1, <1>2, <2>2, <2>4, <2>5, <2>6 DEF Inv, Single, NoPanic,
        Conservation, NoLeak, TypeOK, Items
  <2>10. InOrder'
    BY <1>1, <1>2, <2>2, <2>4, <2>5, <2>6 DEF Inv, InOrder, Items, Open,
        Dropped, NoEvent
  <2>11. NothingLost'
    BY Zenon, <1>1, <1>2, <2>2, <2>4, <2>5, <2>6 DEF Inv, NothingLost, Open, Dropped,
        NoEvent
  <2> QED
    BY Zenon, <2>7, <2>8, <2>9, <2>10, <2>11 DEF Inv
<1> QED
  BY Zenon, <1>3, <1>4

(* A guest write that meets a parked host read keeps the invariant.        *)
LEMMA GuestWriteToHostInv ==
  ASSUME Inv, NoExceptions, TypeOK', NEW n \in Nat, kind = "Future" => n = 1,
         GuestWriteToHost(n)
  PROVE Inv'
<1> USE DEF GuestWriteToHost, CanWrite, Account, CopyFinishes, Answer, Resolved, Min, Running,
        type, ends, history
<1>1. (NeverBothParked /\ Owners /\ Drops /\ Events /\ Jobs /\ Whole)'
  BY Zenon DEF Inv, NeverBothParked, Owners, Drops, Events, Jobs, Whole, Parked,
      Open, Dropped, NoEvent
<1>2. (Single /\ NoPanic /\ InOrder /\ NothingLost /\ NoLeak)'
  BY Zenon DEF Inv, Single, NoPanic, InOrder, NothingLost, NoLeak, Parked, Open,
      Dropped, NoEvent, Items
<1>3. Conservation'
  BY DEF Inv, Conservation, TypeOK, EndType, Items
<1> QED
  BY Zenon, <1>1, <1>2, <1>3 DEF Inv

(* A guest write that finds nobody and parks keeps the invariant.          *)
LEMMA GuestWriteBlocksInv ==
  ASSUME Inv, NoExceptions, TypeOK', NEW n \in Nat, kind = "Future" => n = 1,
         GuestWriteBlocks(n)
  PROVE Inv'
<1> USE DEF GuestWriteBlocks, CanWrite, Assert, GuestReady, Running, type, ends, history
<1>1. (NeverBothParked /\ Owners /\ Drops /\ Events)'
  BY Zenon DEF Inv, NeverBothParked, Owners, Drops, Events, Parked, Open, Dropped,
      NoEvent
<1>2. (Jobs /\ Single /\ Conservation /\ NoLeak)'
  BY Zenon DEF Inv, Jobs, Single, Conservation, NoLeak, Open, Parked, Dropped,
      NoEvent, Items
<1>3. Whole'
  BY Zenon DEF Inv, Whole, Open, Events
<1>4. NoPanic'
  BY Zenon DEF Inv, NoPanic, Owners
<1>5. InOrder'
  BY DEF Inv, Drops, Events, InOrder, TypeOK, EventType, Open, NoEvent, Items
<1>6. NothingLost'
  BY DEF Inv, NothingLost, Owners
<1> QED
  BY Zenon, <1>1, <1>2, <1>3, <1>4, <1>5, <1>6 DEF Inv

(* A guest write that finds the reader gone keeps the invariant.           *)
LEMMA GuestWriteDroppedInv ==
  ASSUME Inv, NoExceptions, TypeOK', NEW n \in Nat, kind = "Future" => n = 1,
         GuestWriteDropped(n)
  PROVE Inv'
<1> USE DEF GuestWriteDropped, CanWrite, CopyFinishes, Running, type, ends, history
<1>1. (NeverBothParked /\ Owners /\ Drops /\ Events /\ Jobs /\ Whole)'
  BY Zenon DEF Inv, NeverBothParked, Owners, Drops, Events, Jobs, Whole, Parked,
      Open, Dropped, NoEvent
<1>2. (Single /\ NoPanic /\ Conservation /\ InOrder /\ NothingLost /\ NoLeak)'
  BY Zenon DEF Inv, Single, NoPanic, Conservation, InOrder, NothingLost, NoLeak,
      Parked, Open, Dropped, NoEvent, Items
<1> QED
  BY Zenon, <1>1, <1>2 DEF Inv

(* A guest read that meets a parked guest write keeps the invariant.       *)
LEMMA GuestReadFromGuestInv ==
  ASSUME Inv, NoExceptions, TypeOK', NEW n \in Nat, kind = "Future" => n = 1,
         GuestReadFromGuest(n)
  PROVE Inv'
<1>1. /\ read = Open /\ rstate = "Read" /\ wstate = "Busy" /\ ~done /\ outcome = "ok" /\ alive
      /\ write.st = "GuestReady" /\ ~write.drop /\ wevent.code # "Dropped"
      /\ OldTotal(wevent) = Items(wevent)
      /\ write.count \in Nat /\ ~job.queued /\ revent = NoEvent
      /\ (kind = "Future" => write.count = 1)
  BY SMTT(60) DEF GuestReadFromGuest, CanRead, OldTotal, Inv, Owners, Events, Jobs,
      Single, TypeOK, EndType, EventType, NoEvent, Parked, Items, Running
<1>2. /\ UNCHANGED <<kind, realloc, alive, wstate, revent, whost, rhost, job, wlen, defaulted>>
      /\ rlen' = n /\ done' = (kind = "Future")
  BY Zenon DEF GuestReadFromGuest, CopyFinishes, Inv, Running, type, ends, history
<1>3. CASE n < write.count
  <2>1. Min(n, write.count) = n
    BY Zenon, <1>1, <1>3, MinFacts
  <2>2. /\ write' = Advanced(write, n)
        /\ read' = read /\ rstate' = rstate /\ outcome' = outcome
        /\ unW' = unW + n - 0 /\ unR' = unR + n - n
    BY <1>1, <1>3, <2>1 DEF GuestReadFromGuest, Account
  <2>3. /\ write'.st = "GuestReady" /\ write'.addr = write.addr + n /\ write'.count = write.count - n
        /\ ~write'.drop /\ kind = "Stream"
    BY <1>1, <1>3, <2>2 DEF Advanced, Inv, TypeOK
  <2>4. /\ wevent'.n = n + wevent.n
        /\ wevent'.code # "Dropped"
        /\ wevent'.code = "None" => wevent' = NoEvent
        /\ wevent'.code = "Completed" => wevent'.pending /\ write'.addr > 0
    <3>1. CASE n = 0
      <4>1. wevent' = wevent
        BY <1>1, <1>3, <3>1 DEF GuestReadFromGuest
      <4> QED
        BY <1>1, <3>1, <4>1, <2>3 DEF Inv, Events, Whole, InOrder,
            Conservation, Items
    <3>2. CASE n > 0
      <4>1. wevent' = CompletedEvent(n + OldTotal(wevent), ~write.drop)
        BY <2>1, <3>2, Zenon DEF GuestReadFromGuest
      <4>2. wevent'.code = "Completed" /\ wevent'.pending = ~write.drop
            /\ wevent'.n = Completed(n + OldTotal(wevent))
        BY <4>1, Zenon DEF CompletedEvent
      <4>3. wevent'.pending
        BY <1>1, <4>2, Zenon
      <4>4. wevent'.n = n + wevent.n /\ write'.addr > 0
        BY <1>1, <2>3, <3>2, <4>2 DEF Completed, Items, Inv, TypeOK, EndType
      <4> QED
        BY Zenon, <4>2, <4>3, <4>4
    <3> QED
      BY <3>1, <3>2
  <2>5. (NeverBothParked /\ Owners /\ Drops /\ Events)'
    BY Zenon, <1>1, <1>2, <2>2, <2>3, <2>4 DEF Inv, NeverBothParked, Owners, Drops,
        Events, Parked, Open, Dropped, NoEvent
  <2>6. (Jobs /\ Whole /\ Single)'
    BY Zenon, <1>1, <1>2, <2>2, <2>3, <2>4 DEF Inv, Jobs, Whole, Single, Open,
        Dropped, Parked, NoEvent
  <2>7. (Conservation /\ NoPanic /\ NoLeak)'
    BY <1>1, <1>2, <2>2, <2>3, <2>4 DEF Inv, NoPanic, Conservation, NoLeak,
        Items, NoEvent
  <2>8. InOrder'
    BY <1>1, <1>2, <2>2, <2>3, <2>4 DEF Inv, InOrder, Items, Conservation
  <2>9. NothingLost'
    BY Zenon, <1>1, <1>2, <2>2, <2>3, <2>4 DEF Inv, NothingLost, Open, Dropped,
        NoEvent
  <2> QED
    BY Zenon, <2>5, <2>6, <2>7, <2>8, <2>9 DEF Inv
<1>4. CASE ~(n < write.count)
  <2>1. Min(n, write.count) = write.count /\ (write.count = 0 \/ n > 0)
    BY <1>1, <1>4, MinFacts
  <2>2. write' = Open /\ unW' = unW + write.count - 0
    BY Zenon, <1>1, <1>4, <2>1 DEF GuestReadFromGuest, Account, AfterWrite
  <2>3. \/ /\ read' = Open /\ rstate' = "Read" /\ unR' = unR
        \/ /\ read' = GuestReady(n) /\ rstate' = "Busy" /\ unR' = unR /\ kind = "Stream"
    BY SMTT(60), <1>1, <1>4, <2>1 DEF GuestReadFromGuest, Account, Assert, Inv,
        Conservation, TypeOK, Items
  <2>4. outcome' = outcome
    BY Zenon, <1>1 DEF GuestReadFromGuest, Assert
  <2>5. /\ wevent'.code = "Completed" /\ wevent'.pending
        /\ kind = "Stream" => wevent'.n = write.count + wevent.n
        /\ kind = "Future" => wevent'.n = 0
    BY Zenon, <1>1, <2>1 DEF GuestReadFromGuest, CompletedEvent, Completed,
        Items
  <2>6. /\ read'.addr = 0 /\ unR' = unR
        /\ \/ read' = Open /\ read'.st = "Open" /\ rstate' = "Read"
           \/ read'.st = "GuestReady" /\ rstate' = "Busy" /\ read'.count = n /\ kind = "Stream"
    <3>1. Open.addr = 0 /\ Open.st = "Open"
      BY Zenon DEF Inv, Open
    <3>2. GuestReady(n).addr = 0 /\ GuestReady(n).st = "GuestReady" /\ GuestReady(n).count = n
      BY Zenon DEF GuestReady, Inv, Open
    <3> QED
      BY Zenon, <2>3, <3>1, <3>2
  <2>7. (NeverBothParked /\ Owners /\ Drops /\ Events)'
    BY Zenon, <1>1, <1>2, <2>2, <2>4, <2>5, <2>6 DEF Inv, NeverBothParked, Owners,
        Drops, Events, Parked, Open, Dropped, NoEvent
  <2>8. (Jobs /\ Whole /\ Single)'
    BY Zenon, <1>1, <1>2, <2>2, <2>4, <2>5, <2>6 DEF Inv, Jobs, Whole, Single,
        TypeOK, EventType, Open, NoEvent, Parked
  <2>9. (Conservation /\ NoPanic /\ NoLeak)'
    BY <1>1, <1>2, <2>2, <2>4, <2>5, <2>6 DEF Inv, Single, NoPanic,
        Conservation, NoLeak, TypeOK, Items
  <2>10. InOrder'
    BY <1>1, <1>2, <2>2, <2>4, <2>5, <2>6 DEF Inv, InOrder, Items, Open,
        Dropped, NoEvent
  <2>11. NothingLost'
    BY Zenon, <1>1, <1>2, <2>2, <2>4, <2>5, <2>6 DEF Inv, NothingLost, Open, Dropped,
        NoEvent
  <2> QED
    BY Zenon, <2>7, <2>8, <2>9, <2>10, <2>11 DEF Inv
<1> QED
  BY Zenon, <1>3, <1>4

(* A guest read that meets a parked host write keeps the invariant.        *)
LEMMA GuestReadFromHostInv ==
  ASSUME Inv, NoExceptions, TypeOK', NEW n \in Nat, kind = "Future" => n = 1,
         GuestReadFromHost(n)
  PROVE Inv'
<1> USE DEF GuestReadFromHost, CanRead, Account, CopyFinishes, Answer, Resolved, AfterWrite,
        Min, Running, type, ends, history
<1>1. (NeverBothParked /\ Owners /\ Events /\ Jobs /\ Whole)'
  BY Zenon DEF Inv, NeverBothParked, Owners, Events, Jobs, Whole, Parked, Open,
      Dropped, NoEvent
<1>2. (Single /\ NoPanic /\ InOrder /\ NothingLost /\ NoLeak)'
  BY Zenon DEF Inv, Single, NoPanic, InOrder, NothingLost, NoLeak, Parked, Open,
      Dropped, NoEvent, Items
<1>3. Drops'
  BY DEF Inv, Drops, Dropped, Owners
<1>4. Conservation'
  BY DEF Inv, Conservation, TypeOK, EndType, Items
<1> QED
  BY Zenon, <1>1, <1>2, <1>3, <1>4 DEF Inv

(* A guest read that finds nobody and parks keeps the invariant.           *)
LEMMA GuestReadBlocksInv ==
  ASSUME Inv, NoExceptions, TypeOK', NEW n \in Nat, kind = "Future" => n = 1,
         GuestReadBlocks(n)
  PROVE Inv'
<1> USE DEF GuestReadBlocks, CanRead, Assert, GuestReady, Running, type, ends, history
<1>1. (NeverBothParked /\ Owners /\ Drops /\ Events)'
  BY Zenon DEF Inv, NeverBothParked, Owners, Drops, Events, Parked, Open, Dropped,
      NoEvent
<1>2. (Jobs /\ Single /\ Conservation /\ NoLeak)'
  BY Zenon DEF Inv, Jobs, Single, Conservation, NoLeak, Open, Parked, Dropped,
      NoEvent, Items
<1>3. Whole'
  BY Zenon DEF Inv, Whole, Open, Events
<1>4. NoPanic'
  BY Zenon DEF Inv, NoPanic, Owners
<1>5. InOrder'
  BY DEF Inv, Drops, Events, InOrder, TypeOK, EventType, Open, NoEvent, Items
<1>6. NothingLost'
  BY DEF Inv, NothingLost, Owners
<1> QED
  BY Zenon, <1>1, <1>2, <1>3, <1>4, <1>5, <1>6 DEF Inv

(* A guest read that finds the writer gone keeps the invariant.            *)
LEMMA GuestReadDroppedInv ==
  ASSUME Inv, NoExceptions, TypeOK', NEW n \in Nat, kind = "Future" => n = 1,
         GuestReadDropped(n)
  PROVE Inv'
<1> USE DEF GuestReadDropped, CanRead, Running, type, ends, history
<1>1. (NeverBothParked /\ Owners /\ Drops /\ Events /\ Jobs /\ Whole)'
  BY Zenon DEF Inv, NeverBothParked, Owners, Drops, Events, Jobs, Whole, Parked,
      Open, Dropped, NoEvent
<1>2. (Single /\ NoPanic /\ Conservation /\ InOrder /\ NothingLost /\ NoLeak)'
  BY Zenon DEF Inv, Single, NoPanic, Conservation, InOrder, NothingLost, NoLeak,
      Parked, Open, Dropped, NoEvent, Items
<1> QED
  BY Zenon, <1>1, <1>2 DEF Inv

(* A host write that finds nobody and parks keeps the invariant.           *)
LEMMA HostWriteParksInv ==
  ASSUME Inv, NoExceptions, TypeOK', NEW n \in Nat, kind = "Future" => n = 1,
         HostWriteParks(n)
  PROVE Inv'
<1> USE DEF HostWriteParks, CanHostWrite, Assert, HostReady, Running, type, ends, history
<1>1. (NeverBothParked /\ Owners /\ Drops /\ Events /\ Jobs /\ Whole)'
  BY Zenon DEF Inv, NeverBothParked, Owners, Drops, Events, Jobs, Whole, Parked,
      Open, Dropped, NoEvent
<1>2. (Single /\ Conservation /\ InOrder /\ NothingLost /\ NoLeak)'
  BY Zenon DEF Inv, Single, Conservation, InOrder, NothingLost, NoLeak, Parked,
      Open, Dropped, NoEvent, Items
<1>3. NoPanic'
  BY Zenon DEF Inv, NoPanic, Owners
<1> QED
  BY Zenon, <1>1, <1>2, <1>3 DEF Inv

(* A host write that meets a parked guest read keeps the invariant.        *)
LEMMA HostWriteToGuestInv ==
  ASSUME Inv, NoExceptions, TypeOK', NEW n \in Nat, kind = "Future" => n = 1,
         HostWriteToGuest(n)
  PROVE Inv'
<1> DEFINE k == Min(n, read.count)
<1>1. /\ wstate = "Host" /\ whost \in {"idle", "closed"} /\ outcome = "ok" /\ alive
      /\ read.st = "GuestReady" /\ rstate = "Busy" /\ rhost \notin {"waiting", "watching"}
  BY Zenon DEF HostWriteToGuest, CanHostWrite, Running, Inv, Owners
<1>2. write = Open /\ ~job.queued /\ revent = NoEvent
  BY <1>1 DEF Inv, TypeOK, EventType, Owners, Jobs, Whole, Events
<1>3. k \in Nat /\ (kind = "Future" => k = 1 /\ read.count = 1)
  BY Zenon, <1>1 DEF Inv, TypeOK, EndType, Single, Parked, Min
<1>4. UNCHANGED <<kind, rstate, wevent, wlen, rlen>>
  BY Zenon DEF HostWriteToGuest, type
<1>5. unR = 0 /\ unW = Items(wevent) /\ Items(wevent) \in Nat /\ Items(wevent)' = Items(wevent)
  BY Zenon, <1>2, <1>4, UntoldItems DEF Items, NoEvent
<1>6. CASE realloc
  <2>1. /\ job' = [n |-> n, space |-> read.count, queued |-> TRUE]
        /\ whost' = "waiting" /\ read' = Open /\ (done' <=> kind = "Future")
        /\ UNCHANGED <<write, wstate, rhost, alive, revent, outcome, unW, unR>>
    BY Zenon, <1>6 DEF HostWriteToGuest, CopyFinishes
  <2>2. (NeverBothParked /\ Owners /\ Drops)'
    BY Zenon, <1>1, <1>2, <1>4, <2>1 DEF Inv, NeverBothParked, Owners, Drops, Parked, Open
  <2>3. (Events /\ Jobs)'
    BY Zenon, <1>1, <1>2, <1>3, <1>4, <2>1 DEF Inv, Events, Jobs, Open, NoEvent
  <2>4. (Whole /\ Single)'
    BY Zenon, <1>1, <1>2, <1>4, <2>1 DEF Inv, Whole, Single, Parked, Open
  <2>5. (NoPanic /\ Conservation)'
    BY Zenon, <1>2, <1>4, <1>5, <2>1 DEF Inv, NoPanic, Conservation, Items, NoEvent
  <2>6. (InOrder /\ NothingLost /\ NoLeak)'
    BY Zenon, <1>1, <1>2, <1>4, <2>1 DEF InOrder, NothingLost, NoLeak, Inv, Open
  <2> QED
    BY Zenon, <2>2, <2>3, <2>4, <2>5, <2>6 DEF Inv
<1>7. CASE ~realloc
  <2>1. /\ HostWriteReturns(Open, CompletedEvent(k, TRUE), rhost, CopyFinishes, FALSE)
        /\ job' = job
        /\ outcome' = IF whost = "closed" => FALSE THEN outcome ELSE "panic"
        /\ unW' = unW + k - k /\ unR' = unR + k - 0
    BY Zenon, <1>7 DEF HostWriteToGuest, HostResult, Assert, Account
  <2>2. outcome' = "ok" /\ whost' \in {"idle", "spent"} /\ (done' <=> kind = "Future")
    BY Zenon, <1>1, <2>1 DEF Inv, Drops, HostWriteReturns, Resolved, CopyFinishes
  <2>3. CompletedEvent(k, TRUE) # NoEvent
    BY Zenon DEF CompletedEvent, NoEvent
  <2>4. /\ read' = Open /\ revent' = CompletedEvent(k, TRUE) /\ alive'
        /\ rhost' \notin {"waiting", "watching"}
        /\ \/ kind = "Stream" /\ write' = Open /\ wstate' = "Host" /\ whost' = "idle"
           \/ kind = "Future" /\ write' = Dropped /\ wstate' = "Gone" /\ whost' = "spent"
    <3>1. CASE kind = "Stream"
      BY Zenon, <1>1, <1>2, <2>1, <3>1 DEF HostWriteReturns, Resolved
    <3>2. CASE kind = "Future"
      <4>1. /\ WriterGone(Open, CompletedEvent(k, TRUE), rhost)
            /\ wstate' = "Gone" /\ whost' = "spent"
        BY Zenon, <2>1, <3>2 DEF HostWriteReturns, Resolved
      <4>2. /\ read' = Open /\ alive' /\ rhost' \notin {"waiting", "watching"}
            /\ revent' = UpdateEvent(CompletedEvent(k, TRUE), FALSE)
        BY Zenon, <1>1, <4>1 DEF WriterGone, Woken, Open
      <4>3. revent' = CompletedEvent(k, TRUE)
        BY Zenon, <2>3, <3>2, <4>2 DEF UpdateEvent
      <4>4. write' = Dropped
        BY Zenon, <1>2, <2>1, <3>2 DEF HostWriteReturns, CopyFinishes, Open
      <4> QED
        BY Zenon, <3>2, <4>1, <4>2, <4>3, <4>4
    <3> QED
      BY Zenon, <3>1, <3>2 DEF Inv, TypeOK
  <2>5. revent'.code = "Completed" /\ revent'.n = Completed(k) /\ revent'.pending
    BY Zenon, <2>4 DEF CompletedEvent
  <2>6. (NeverBothParked /\ Owners /\ Drops)'
    BY Zenon, <1>1, <1>2, <1>4, <2>2, <2>4 DEF Inv, NeverBothParked, Owners, Drops, Parked,
        Open, Dropped
  <2>7. (Events /\ Jobs)'
    BY Zenon, <1>1, <1>2, <1>4, <2>1, <2>4, <2>5 DEF Inv, Events, Jobs, Open
  <2>8. (Whole /\ Single)'
    BY Zenon, <1>1, <1>2, <1>3, <1>4, <2>1, <2>2, <2>4, <2>5 DEF Inv, Whole, Single, Parked,
        Open, Dropped, Completed
  <2>9. Items(revent)' = k
    BY Zenon, <1>3, <1>4, <2>5 DEF Items, Completed
  <2>10. (NoPanic /\ Conservation)'
    <3> HIDE DEF k
    <3>1. unW' = unW /\ unR' = k
      BY <1>3, <1>5, <2>1
    <3> QED
      BY Zenon, <1>5, <2>2, <2>9, <3>1 DEF NoPanic, Conservation
  <2>11. (InOrder /\ NothingLost /\ NoLeak)'
    BY Zenon, <1>1, <1>2, <1>4, <2>2, <2>4, <2>5 DEF Inv, InOrder, NothingLost, NoLeak, Open
  <2> QED
    BY Zenon, <2>6, <2>7, <2>8, <2>10, <2>11 DEF Inv
<1> QED
  BY Zenon, <1>6, <1>7

(* A host write that meets a parked host read keeps the invariant.         *)
LEMMA HostWriteToHostInv ==
  ASSUME Inv, NoExceptions, TypeOK', NEW n \in Nat, kind = "Future" => n = 1,
         HostWriteToHost(n)
  PROVE Inv'
<1> DEFINE k == Min(n, read.count)
<1>1. /\ wstate = "Host" /\ whost \in {"idle", "closed"} /\ outcome = "ok" /\ alive
      /\ read.st = "HostReady" /\ rstate = "Host" /\ write = Open
  BY Zenon DEF HostWriteToHost, CanHostWrite, Running, Inv, Owners
<1>2. /\ k \in Nat /\ unW' = unW + k - k /\ unR' = unR + k - k
      /\ outcome' = IF whost = "closed" => FALSE THEN outcome ELSE "panic"
      /\ HostWriteReturns(Open, revent, Answer(rhost, FALSE), done, FALSE)
      /\ UNCHANGED <<kind, rstate, wevent, job, wlen, rlen>>
  BY Zenon, MinFacts DEF HostWriteToHost, Account, HostResult, Assert, type, Inv, TypeOK, EndType
<1>3. outcome' = "ok" /\ done' = done
  BY Zenon, <1>1, <1>2 DEF Inv, Drops, HostWriteReturns
<1>4. ~revent.pending /\ revent.code = "None" /\ ~job.queued /\ ~wevent.pending
  BY Zenon, <1>1 DEF Inv, Events, Jobs, TypeOK, EventType
<1>5. Answer(rhost, FALSE) \in {"idle", "spent", "closed", "watching"}
  BY Zenon DEF Answer, Resolved, Inv, TypeOK, HostType
<1>6. CASE kind = "Stream"
  <2>1. /\ read' = Open /\ revent' = revent /\ rhost' = Answer(rhost, FALSE) /\ whost' = "idle"
        /\ UNCHANGED <<write, wstate, alive>>
    BY Zenon, <1>2, <1>6 DEF HostWriteReturns, Resolved
  <2>2. rhost' = rhost \/ rhost' = "idle"
    BY Zenon, <1>6, <2>1 DEF Answer, Resolved
  <2>3. (NeverBothParked /\ Owners /\ Drops)'
    BY Zenon, <1>1, <1>2, <1>3, <1>5, <2>1, <2>2 DEF Inv, NeverBothParked, Owners, Drops,
        Parked, Open
  <2>4. (Events /\ Jobs)'
    BY Zenon, <1>1, <1>2, <1>4, <2>1 DEF Inv, Events, Jobs
  <2>5. (Whole /\ Single /\ NoPanic)'
    BY Zenon, <1>1, <1>2, <1>3, <1>6, <2>1 DEF Inv, Whole, Single, NoPanic, Open
  <2>6. (InOrder /\ NothingLost /\ NoLeak)'
    BY Zenon, <1>1, <1>2, <1>4, <1>5, <2>1, <2>2 DEF Inv, InOrder, NothingLost, NoLeak, Open
  <2>7. Items(wevent)' = Items(wevent) /\ Items(revent)' = Items(revent)
    BY Zenon, <1>2, <2>1 DEF Items
  <2>8. Conservation'
    <3> HIDE DEF k
    <3> QED
      BY <1>2, <2>7, UntoldItems DEF Conservation
  <2> QED
    BY Zenon, <2>3, <2>4, <2>5, <2>6, <2>8 DEF Inv
<1>7. CASE kind = "Future"
  <2>1. /\ WriterGone(Open, revent, Answer(rhost, FALSE)) /\ wstate' = "Gone" /\ whost' = "spent"
        /\ write' \in {HostReady(1, TRUE), Dropped}
    BY Zenon, <1>1, <1>2, <1>7 DEF HostWriteReturns, Resolved, Open
  <2>2. /\ read' = Open /\ alive' /\ revent' = UpdateEvent(revent, FALSE)
        /\ rhost' \in {"idle", "spent", "closed"}
        /\ rhost' = "closed" => rhost = "closed"
    BY Zenon, <1>5, <1>7, <2>1 DEF WriterGone, Woken, Open, Answer, Resolved
  <2>3. revent'.code = "Dropped" /\ revent'.n = 0 /\ ~revent'.pending /\ revent = NoEvent
    BY Zenon, <1>4, <2>2 DEF UpdateEvent, Inv, Events
  <2>4. \/ /\ write'.st = "HostReady" /\ write'.drop /\ write'.count = 1 /\ write'.addr = 0
        \/ /\ write'.st = "Dropped" /\ ~write'.drop /\ write'.addr = 0
    BY Zenon, <2>1 DEF HostReady, Dropped, Open
  <2>5. (NeverBothParked /\ Owners)'
    BY Zenon, <1>1, <1>2, <1>3, <2>1, <2>2, <2>4 DEF Inv, NeverBothParked, Owners, Parked, Open
  <2>6. Drops'
    BY Zenon, <1>1, <1>2, <1>3, <2>1, <2>2, <2>4 DEF Inv, Drops, Open
  <2>7. (Events /\ Jobs)'
    BY Zenon, <1>1, <1>2, <1>4, <2>1, <2>3 DEF Inv, Events, Jobs
  <2>8. (Whole /\ Single /\ NoPanic)'
    BY Zenon, <1>1, <1>2, <1>3, <1>4, <2>1, <2>2, <2>3, <2>4 DEF Inv, Whole, Single, NoPanic,
        Parked, Open
  <2>9. (InOrder /\ NothingLost /\ NoLeak)'
    BY Zenon, <1>1, <1>2, <1>4, <2>1, <2>2, <2>4 DEF Inv, InOrder, NothingLost, NoLeak, Open
  <2>10. Items(wevent)' = Items(wevent) /\ Items(revent)' = Items(revent)
    BY Zenon, <1>2, <1>4, <1>7, <2>3 DEF Items, NoEvent
  <2>11. Conservation'
    <3> HIDE DEF k
    <3> QED
      BY <1>2, <2>10, UntoldItems DEF Conservation
  <2> QED
    BY Zenon, <2>5, <2>6, <2>7, <2>8, <2>9, <2>11 DEF Inv
<1> QED
  BY Zenon, <1>6, <1>7 DEF Inv, TypeOK

(* A host write that finds the reader gone keeps the invariant.            *)
LEMMA HostWriteDroppedInv ==
  ASSUME Inv, NoExceptions, TypeOK', NEW n \in Nat, kind = "Future" => n = 1,
         HostWriteDropped(n)
  PROVE Inv'
<1>1. /\ HostWriteReturns(read, revent, rhost, done, TRUE) /\ Running /\ wstate = "Host"
      /\ read.st = "Dropped" /\ kind' = kind /\ write = Open
      /\ UNCHANGED <<rstate, wevent, job, outcome, unW, unR, wlen, rlen>>
  BY Zenon DEF HostWriteDropped, CanHostWrite, type, Inv, Owners
<1>2. CASE kind = "Stream"
  <2>1. whost' = "closed" /\ UNCHANGED <<read, revent, rhost, done, write, wstate, alive>>
    BY Zenon, <1>1, <1>2 DEF HostWriteReturns, Resolved
  <2>2. (NeverBothParked /\ Owners /\ Drops)'
    BY Zenon, <1>1, <2>1 DEF Inv, NeverBothParked, Owners, Drops, Parked
  <2>3. (Events /\ Jobs /\ Whole /\ Single)'
    BY Zenon, <1>1, <2>1 DEF Inv, Events, Jobs, Whole, Single, Parked
  <2>4. (NoPanic /\ Conservation /\ InOrder /\ NothingLost /\ NoLeak)'
    BY Zenon, <1>1, <2>1 DEF Inv, NoPanic, Conservation, InOrder, NothingLost, NoLeak, Items
  <2> QED
    BY Zenon, <2>2, <2>3, <2>4 DEF Inv
<1>3. CASE kind = "Future"
  <2>1. /\ WriterGone(read, revent, rhost) /\ wstate' = "Gone" /\ whost' = "spent"
        /\ done' = done
    BY Zenon, <1>1, <1>3 DEF HostWriteReturns, Resolved
  <2>2. write' = Dropped
    BY Zenon, <1>1, <1>3 DEF HostWriteReturns, Open
  <2> QED
    BY Zenon, <1>1, <2>1, <2>2, WriterGoneInv DEF Leaving
<1> QED
  BY Zenon, <1>2, <1>3 DEF Inv, TypeOK

(* A host read that finds nobody and parks keeps the invariant.            *)
LEMMA HostReadParksInv ==
  ASSUME Inv, NoExceptions, TypeOK', NEW n \in Nat, kind = "Future" => n = 1,
         HostReadParks(n)
  PROVE Inv'
<1> USE DEF HostReadParks, CanHostRead, Assert, HostReady, Running, type, ends, history
<1>1. (NeverBothParked /\ Owners /\ Drops /\ Events /\ Jobs /\ Whole)'
  BY Zenon DEF Inv, NeverBothParked, Owners, Drops, Events, Jobs, Whole, Parked,
      Open, Dropped, NoEvent
<1>2. (Single /\ Conservation /\ InOrder /\ NothingLost /\ NoLeak)'
  BY Zenon DEF Inv, Single, Conservation, InOrder, NothingLost, NoLeak, Parked,
      Open, Dropped, NoEvent, Items
<1>3. NoPanic'
  BY Zenon DEF Inv, NoPanic, Owners
<1> QED
  BY Zenon, <1>1, <1>2, <1>3 DEF Inv

(* A host read that meets a parked guest write keeps the invariant.        *)
LEMMA HostReadFromGuestInv ==
  ASSUME Inv, NoExceptions, TypeOK', NEW n \in Nat, kind = "Future" => n = 1,
         HostReadFromGuest(n)
  PROVE Inv'
<1> DEFINE k == Min(n, write.count)
<1>1. /\ rstate = "Host" /\ rhost \in {"idle", "closed"} /\ outcome = "ok" /\ alive
      /\ write.st = "GuestReady" /\ ~write.drop /\ wstate = "Busy" /\ read = Open
      /\ whost \notin {"waiting", "watching"}
  BY Zenon DEF HostReadFromGuest, CanHostRead, Running, Inv, Owners
<1>2. /\ HostReadReturns(Open, CompletedEvent(k, TRUE), whost, FALSE)
      /\ unW' = unW + k - 0 /\ unR' = unR + k - k
      /\ outcome' = IF rhost = "closed" => FALSE THEN outcome ELSE "panic"
      /\ (done' <=> kind = "Future") /\ UNCHANGED <<kind, wstate, revent, job, wlen, rlen>>
  <2>1. AfterWrite(write) = Open /\ (~write.drop) = TRUE
    BY Zenon, <1>1 DEF AfterWrite, Inv, TypeOK, EndType
  <2> QED
    BY Zenon, <2>1 DEF HostReadFromGuest, Account, HostResult, Assert, CopyFinishes, type
<1>3. k \in Nat /\ (kind = "Future" => k = 1)
  BY Zenon, <1>1 DEF Inv, TypeOK, EndType, Single, Parked, Min
<1>4. /\ Items(wevent) = 0 /\ Items(revent)' = Items(revent) /\ wevent.code = "None"
      /\ ~job.queued /\ revent.code # "Completed"
  <2>1. Items(wevent) = 0 /\ Items(revent)' = Items(revent)
    BY Zenon, <1>1, <1>2 DEF Inv, Whole, InOrder, Items
  <2>2. wevent.code # "Completed" /\ ~job.queued /\ revent.code # "Completed"
    BY <1>1 DEF Inv, Whole, Events, Jobs, TypeOK, EndType
  <2>3. wevent.code # "Dropped"
    BY Zenon, <1>1 DEF Inv, Events
  <2> QED
    BY Zenon, <2>1, <2>2, <2>3 DEF Inv, TypeOK, EventType
<1>5. outcome' = "ok" /\ rhost' \in {"idle", "spent"}
  BY Zenon, <1>1, <1>2 DEF Inv, Drops, HostReadReturns, Resolved
<1>6. CompletedEvent(k, TRUE) # NoEvent
  BY Zenon DEF CompletedEvent, NoEvent
<1>7. /\ write' = Open /\ wevent' = CompletedEvent(k, TRUE) /\ alive'
      /\ whost' \notin {"waiting", "watching"}
      /\ \/ kind = "Stream" /\ read' = Open /\ rstate' = "Host" /\ rhost' = "idle"
         \/ kind = "Future" /\ read' = Dropped /\ rstate' = "Gone" /\ rhost' = "spent"
  <2>1. CASE kind = "Stream"
    BY Zenon, <1>1, <1>2, <2>1 DEF HostReadReturns, Resolved
  <2>2. CASE kind = "Future"
    <3>1. ReaderGone(Open, CompletedEvent(k, TRUE), whost) /\ rhost' = "spent"
      BY Zenon, <1>2, <2>2 DEF HostReadReturns, Resolved
    <3>2. /\ write' = Open /\ alive' /\ whost' \notin {"waiting", "watching"}
          /\ read' = Dropped /\ rstate' = "Gone"
          /\ wevent' = UpdateEvent(CompletedEvent(k, TRUE), FALSE)
      BY Zenon, <1>1, <3>1 DEF ReaderGone, Woken, Open
    <3>3. wevent' = CompletedEvent(k, TRUE)
      BY Zenon, <1>6, <2>2, <3>2 DEF UpdateEvent
    <3> QED
      BY Zenon, <2>2, <3>1, <3>2, <3>3
  <2> QED
    BY Zenon, <2>1, <2>2 DEF Inv, TypeOK
<1>8. wevent'.code = "Completed" /\ wevent'.n = Completed(k) /\ wevent'.pending
  BY Zenon, <1>7 DEF CompletedEvent
<1>9. (NeverBothParked /\ Owners /\ Drops)'
  BY Zenon, <1>1, <1>2, <1>5, <1>7 DEF Inv, NeverBothParked, Owners, Drops, Parked, Open, Dropped
<1>10. (Events /\ Jobs)'
  BY Zenon, <1>1, <1>2, <1>4, <1>7, <1>8 DEF Inv, Events, Jobs
<1>11. (Whole /\ Single)'
  BY Zenon, <1>1, <1>2, <1>3, <1>4, <1>7, <1>8 DEF Inv, Whole, Single, Parked, Open, Dropped,
      Completed
<1>12. Items(wevent)' = k
  BY Zenon, <1>2, <1>3, <1>8 DEF Items, Completed
<1>13. (NoPanic /\ Conservation)'
  <2> HIDE DEF k
  <2>1. unW' = k /\ unR' = unR
    BY <1>2, <1>3, <1>4, UntoldItems
  <2> QED
    BY Zenon, <1>4, <1>5, <1>12, <2>1, UntoldItems DEF NoPanic, Conservation
<1>14. (InOrder /\ NothingLost /\ NoLeak)'
  BY Zenon, <1>1, <1>2, <1>4, <1>5, <1>7, <1>8 DEF Inv, InOrder, NothingLost, NoLeak, Open, Dropped
<1> QED
  BY Zenon, <1>9, <1>10, <1>11, <1>13, <1>14 DEF Inv

(* A host read that meets a parked host write keeps the invariant.         *)
LEMMA HostReadFromHostInv ==
  ASSUME Inv, NoExceptions, TypeOK', NEW n \in Nat, kind = "Future" => n = 1,
         HostReadFromHost(n)
  PROVE Inv'
<1> DEFINE k == Min(n, write.count)
<1>1. /\ rstate = "Host" /\ rhost \in {"idle", "closed"} /\ outcome = "ok" /\ alive
      /\ write.st = "HostReady" /\ read = Open /\ wstate \in {"Host", "Gone"}
      /\ write.drop => wstate = "Gone"
      /\ wstate = "Host" => ~write.drop
  BY Zenon DEF HostReadFromHost, CanHostRead, Running, Inv, Owners, TypeOK
<1>2. /\ k \in Nat /\ unW' = unW + k - k /\ unR' = unR + k - k
      /\ outcome' = IF rhost = "closed" => FALSE THEN outcome ELSE "panic"
      /\ HostReadReturns(AfterWrite(write), wevent, Answer(whost, FALSE), FALSE)
      /\ UNCHANGED <<kind, done, wstate, revent, job, wlen, rlen>>
  BY Zenon, MinFacts DEF HostReadFromHost, Account, HostResult, Assert, type, Inv, TypeOK, EndType
<1>3. outcome' = "ok"
  BY Zenon, <1>1, <1>2 DEF Inv, Drops
<1>4. /\ ~wevent.pending /\ wevent.code = "None" /\ wevent = NoEvent /\ ~job.queued
      /\ ~revent.pending
  BY Zenon, <1>1 DEF Inv, Events, Jobs, TypeOK, EventType
<1>5. /\ Answer(whost, FALSE) \in {"idle", "spent", "closed", "watching"}
      /\ Answer(whost, FALSE) \in {"closed", "watching"} => Answer(whost, FALSE) = whost
  BY Zenon DEF Answer, Resolved, Inv, TypeOK, HostType
<1>6. AfterWrite(write) = (IF write.drop THEN Dropped ELSE Open)
  BY Zenon DEF AfterWrite
<1>7. wstate = "Gone" => write.drop
  BY Zenon, <1>1 DEF Inv, Owners
<1>8. CASE kind = "Stream"
  <2>1. /\ write' = AfterWrite(write) /\ wevent' = wevent /\ whost' = Answer(whost, FALSE)
        /\ rhost' = "idle" /\ UNCHANGED <<read, rstate, alive>>
    BY Zenon, <1>2, <1>8 DEF HostReadReturns, Resolved
  <2>2. /\ write'.addr = 0 /\ ~write'.drop
        /\ \/ write' = Open /\ write'.st = "Open" /\ ~write.drop /\ wstate = "Host"
           \/ write'.st = "Dropped" /\ write.drop /\ wstate = "Gone"
    BY <1>1, <1>6, <1>7, <2>1 DEF Open, Dropped
  <2>3. (NeverBothParked /\ Owners)'
    BY Zenon, <1>1, <1>2, <1>5, <2>1, <2>2 DEF Inv, NeverBothParked, Owners, Parked, Open
  <2>4. Drops'
    BY Zenon, <1>1, <1>2, <1>3, <1>5, <2>1, <2>2 DEF Inv, Drops, Open
  <2>5. (Events /\ Jobs)'
    BY Zenon, <1>1, <1>2, <1>4, <2>1 DEF Inv, Events, Jobs
  <2>6. (Whole /\ Single /\ NoPanic)'
    BY Zenon, <1>1, <1>2, <1>3, <1>8, <2>1, <2>2 DEF Inv, Whole, Single, NoPanic, Open
  <2>7. (InOrder /\ NothingLost /\ NoLeak)'
    BY Zenon, <1>1, <1>2, <1>4, <1>5, <2>1, <2>2 DEF Inv, InOrder, NothingLost, NoLeak, Open
  <2>8. Items(wevent)' = Items(wevent) /\ Items(revent)' = Items(revent)
    BY Zenon, <1>2, <2>1 DEF Items
  <2>9. Conservation'
    <3> HIDE DEF k
    <3> QED
      BY <1>2, <2>8, UntoldItems DEF Conservation
  <2> QED
    BY Zenon, <2>3, <2>4, <2>5, <2>6, <2>7, <2>9 DEF Inv
<1>9. CASE kind = "Future"
  <2>1. ReaderGone(AfterWrite(write), wevent, Answer(whost, FALSE)) /\ rhost' = "spent"
    BY Zenon, <1>2, <1>9 DEF HostReadReturns, Resolved
  <2>2. /\ read' = Dropped /\ rstate' = "Gone"
        /\ whost' \in {"idle", "spent", "closed"}
        /\ whost' = "closed" => whost = "closed"
        /\ wevent'.n = 0 /\ ~wevent'.pending /\ wevent'.code \in {"None", "Dropped"}
        /\ wevent'.code = "None" => wevent' = NoEvent
    <3>1. AfterWrite(write).st \in {"Open", "Dropped"}
      BY <1>6 DEF Open, Dropped
    <3>2. /\ read' = Dropped /\ rstate' = "Gone"
          /\ whost' = Woken(Answer(whost, FALSE))
          /\ wevent' = wevent \/ wevent' = UpdateEvent(wevent, FALSE)
      BY Zenon, <2>1, <3>1 DEF ReaderGone
    <3>3. whost' \in {"idle", "spent", "closed"} /\ (whost' = "closed" => whost = "closed")
      BY Zenon, <1>5, <3>2 DEF Woken
    <3>4. CASE wevent' = wevent
      <4>1. wevent' = NoEvent /\ wevent'.n = 0 /\ ~wevent'.pending /\ wevent'.code = "None"
        BY Zenon, <1>4, <3>4 DEF NoEvent
      <4> QED
        BY Zenon, <3>2, <3>3, <4>1
    <3>5. CASE wevent' = UpdateEvent(wevent, FALSE)
      <4>1. wevent' = [code |-> "Dropped", n |-> 0, pending |-> FALSE]
        BY Zenon, <1>4, <3>5 DEF UpdateEvent
      <4>2. wevent'.n = 0 /\ ~wevent'.pending /\ wevent'.code = "Dropped"
        BY Zenon, <4>1
      <4> QED
        BY Zenon, <3>2, <3>3, <4>2
    <3> QED
      BY Zenon, <3>2, <3>4, <3>5
  <2>3. /\ write'.addr = 0 /\ ~write'.drop
        /\ \/ write' = Open /\ write'.st = "Open" /\ ~write.drop /\ wstate = "Host" /\ alive'
           \/ write'.st = "Dropped" /\ write.drop /\ wstate = "Gone" /\ ~alive'
    <3>1. CASE write.drop
      BY <1>1, <1>6, <2>1, <3>1 DEF ReaderGone, Dropped, Open
    <3>2. CASE ~write.drop
      <4>1. AfterWrite(write) = Open /\ Open.st = "Open" /\ Open.addr = 0 /\ ~Open.drop
        BY Zenon, <1>6, <3>2 DEF Open
      <4>2. write' = Open /\ alive'
        BY Zenon, <2>1, <4>1 DEF ReaderGone
      <4> QED
        BY Zenon, <1>1, <1>7, <3>2, <4>1, <4>2
    <3> QED
      BY Zenon, <3>1, <3>2
  <2>11. read'.st = "Dropped"
    BY Zenon, <2>2 DEF Open, Dropped
  <2>4. (NeverBothParked /\ Owners)'
    BY Zenon, <1>1, <1>2, <2>1, <2>2, <2>3, <2>11 DEF Inv, NeverBothParked, Owners, Parked
  <2>5. Drops'
    BY Zenon, <1>1, <1>2, <1>3, <2>1, <2>2, <2>3, <2>11 DEF Inv, Drops
  <2>6. (Events /\ Jobs)'
    BY Zenon, <1>1, <1>2, <1>4, <2>2 DEF Inv, Events, Jobs
  <2>7. (Whole /\ Single /\ NoPanic)'
    BY Zenon, <1>1, <1>2, <1>3, <1>4, <2>2, <2>3 DEF Inv, Whole, Single, NoPanic, Parked, Open,
        Dropped
  <2>8. (InOrder /\ NothingLost /\ NoLeak)'
    BY Zenon, <1>1, <1>2, <1>4, <2>1, <2>2, <2>3 DEF Inv, InOrder, NothingLost, NoLeak, Open
  <2>9. Items(wevent)' = Items(wevent) /\ Items(revent)' = Items(revent)
    BY Zenon, <1>2, <1>4, <1>9, <2>2 DEF Items, NoEvent
  <2>10. Conservation'
    <3> HIDE DEF k
    <3> QED
      BY <1>2, <2>9, UntoldItems DEF Conservation
  <2> QED
    BY Zenon, <2>4, <2>5, <2>6, <2>7, <2>8, <2>10 DEF Inv
<1> QED
  BY Zenon, <1>8, <1>9 DEF Inv, TypeOK

(* A host read that finds the writer gone keeps the invariant.             *)
LEMMA HostReadDroppedInv ==
  ASSUME Inv, NoExceptions, TypeOK', NEW n \in Nat, kind = "Future" => n = 1,
         HostReadDropped(n)
  PROVE Inv'
<1>1. /\ HostReadReturns(write, wevent, whost, TRUE) /\ Running /\ rstate = "Host"
      /\ write.st = "Dropped" /\ kind' = kind /\ read = Open
      /\ UNCHANGED <<done, wstate, revent, job, outcome, unW, unR, wlen, rlen>>
  BY Zenon DEF HostReadDropped, CanHostRead, type, history, Inv, Owners
<1>2. CASE kind = "Stream"
  <2>1. rhost' = "closed" /\ UNCHANGED <<read, wevent, whost, write, rstate, alive>>
    BY Zenon, <1>1, <1>2 DEF HostReadReturns, Resolved
  <2>2. (NeverBothParked /\ Owners /\ Drops)'
    BY Zenon, <1>1, <2>1 DEF Inv, NeverBothParked, Owners, Drops, Parked
  <2>3. (Events /\ Jobs /\ Whole /\ Single)'
    BY Zenon, <1>1, <2>1 DEF Inv, Events, Jobs, Whole, Single, Parked
  <2>4. (NoPanic /\ Conservation /\ InOrder /\ NothingLost /\ NoLeak)'
    BY Zenon, <1>1, <2>1 DEF Inv, NoPanic, Conservation, InOrder, NothingLost, NoLeak, Items
  <2> QED
    BY Zenon, <2>2, <2>3, <2>4 DEF Inv
<1>3. CASE kind = "Future"
  <2>1. ReaderGone(write, wevent, whost) /\ rhost' = "spent"
    BY Zenon, <1>1, <1>3 DEF HostReadReturns, Resolved
  <2> QED
    BY Zenon, <1>1, <2>1, ReaderGoneInv
<1> QED
  BY Zenon, <1>2, <1>3 DEF Inv, TypeOK

(* The queued worker that lowers a host write to a guest keeps the         *)
(* invariant.                                                              *)
LEMMA LowerToGuestInv ==
  ASSUME Inv, NoExceptions, TypeOK', LowerToGuest
  PROVE Inv'
<1> USE DEF LowerToGuest, CompletedEvent, Completed, Account, Answer, Resolved, Min, Running,
        type, ends, history
<1>1. (NeverBothParked /\ Drops /\ Jobs /\ Single)'
  BY Zenon DEF Inv, NeverBothParked, Drops, Jobs, Single, Parked, Open, Dropped,
      NoEvent
<1>2. (NoPanic /\ NothingLost /\ NoLeak)'
  BY Zenon DEF Inv, NoPanic, NothingLost, NoLeak, Open, Dropped, NoEvent
<1>3. Owners'
  BY Zenon DEF Inv, Owners, Jobs
<1>4. Events'
  BY Zenon DEF Inv, Events, Jobs
<1>5. Whole'
  BY Zenon DEF Inv, Whole, Jobs
<1>6. Conservation'
  <2> DEFINE k == Min(job.n, job.space)
  <2>1. k \in Nat /\ (kind = "Future" => k = 1)
    BY Zenon DEF Inv, TypeOK, Jobs
  <2>2. /\ unW' = unW + k - k /\ unR' = unR + k - 0 /\ UNCHANGED <<kind, wevent>>
        /\ revent'.code = "Completed" /\ revent'.n = Completed(k)
    BY Zenon
  <2>3. Items(revent) = 0
    BY Zenon DEF Inv, Jobs, Items
  <2> HIDE DEF LowerToGuest, CompletedEvent, Account, Min, k
  <2>4. Items(revent)' = k /\ Items(wevent)' = Items(wevent)
    BY Zenon, <2>1, <2>2 DEF Items
  <2> QED
    BY <2>1, <2>2, <2>3, <2>4, UntoldItems DEF Conservation
<1>7. InOrder'
  BY Zenon DEF Inv, InOrder, Jobs
<1> QED
  BY Zenon, <1>1, <1>2, <1>3, <1>4, <1>5, <1>6, <1>7 DEF Inv

(* Delivering the write end's event keeps the invariant.                   *)
LEMMA DeliverWriteInv ==
  ASSUME Inv, NoExceptions, TypeOK', DeliverWrite
  PROVE Inv'
<1> USE DEF DeliverWrite, Account, Assert, Running, type, ends, history
<1>1. (NeverBothParked /\ Drops /\ Events /\ Jobs)'
  BY Zenon DEF Inv, NeverBothParked, Drops, Events, Jobs, Parked, Open, Dropped,
      NoEvent
<1>2. (Single /\ NothingLost /\ NoLeak)'
  BY Zenon DEF Inv, Single, NothingLost, NoLeak, Parked, Open, Dropped, NoEvent
<1>3. Owners'
  BY Zenon DEF Inv, Owners, Drops, TypeOK, EndType, Parked, NoExceptions
<1>4. Whole'
  BY Zenon DEF Inv, Whole, NoEvent
<1>5. NoPanic'
  BY Zenon DEF Inv, NoPanic, Events
<1>6. InOrder'
  BY Zenon DEF Inv, InOrder, Items, Parked, NoExceptions
<1>7. Conservation'
  <2>1. unW' = unW + 0 - Items(wevent) /\ unR' = unR + 0 - 0
    BY Zenon
  <2>2. Items(wevent)' = 0 /\ Items(revent)' = Items(revent)
    BY Zenon DEF Items, NoEvent
  <2> HIDE DEF DeliverWrite, Account
  <2> QED
    BY <2>1, <2>2, UntoldItems DEF Conservation
<1> QED
  BY Zenon, <1>1, <1>2, <1>3, <1>4, <1>5, <1>6, <1>7 DEF Inv

(* Delivering the read end's event keeps the invariant.                    *)
LEMMA DeliverReadInv ==
  ASSUME Inv, NoExceptions, TypeOK', DeliverRead
  PROVE Inv'
<1> USE DEF DeliverRead, Account, Assert, Running, type, ends, history
<1>1. (NeverBothParked /\ Drops /\ Events /\ Single)'
  BY Zenon DEF Inv, NeverBothParked, Drops, Events, Single, Parked, Open, Dropped,
      NoEvent
<1>2. (NothingLost /\ NoLeak)'
  BY Zenon DEF Inv, NothingLost, NoLeak, NoEvent, Open, Dropped
<1>3. Owners'
  BY Zenon DEF Inv, Owners, Drops, TypeOK, EndType, Parked, NoExceptions
<1>4. Jobs'
  BY Zenon DEF Inv, Jobs, NoEvent
<1>5. Whole'
  BY Zenon DEF Inv, Whole, NoEvent
<1>6. NoPanic'
  BY Zenon DEF Inv, NoPanic, Events
<1>7. InOrder'
  BY Zenon DEF Inv, InOrder, Items, Parked, NoExceptions
<1>8. Conservation'
  <2>1. unW' = unW + 0 - 0 /\ unR' = unR + 0 - Items(revent)
    BY Zenon
  <2>2. Items(revent)' = 0 /\ Items(wevent)' = Items(wevent)
    BY Zenon DEF Items, NoEvent
  <2> HIDE DEF DeliverRead, Account
  <2> QED
    BY <2>1, <2>2, UntoldItems DEF Conservation
<1> QED
  BY Zenon, <1>1, <1>2, <1>3, <1>4, <1>5, <1>6, <1>7, <1>8 DEF Inv

(* guest_cancel_write keeps the invariant.                                 *)
LEMMA GuestCancelWriteInv ==
  ASSUME Inv, NoExceptions, TypeOK', GuestCancelWrite
  PROVE Inv'
<1> USE DEF GuestCancelWrite, Account, Running, type, ends, history
<1>1. (NeverBothParked /\ Drops /\ Events /\ Jobs /\ Single)'
  BY Zenon DEF Inv, NeverBothParked, Drops, Events, Jobs, Single, Parked, Open,
      Dropped, NoEvent
<1>2. (NoPanic /\ NoLeak)'
  BY Zenon DEF Inv, NoPanic, NoLeak
<1>3. Owners'
  <2>1. write' = Open
    BY Zenon DEF Inv, Owners, Drops, Parked, TypeOK, EndType
  <2>2. /\ wstate' = "Write" /\ UNCHANGED <<read, rstate, whost, rhost>>
        /\ whost \notin {"waiting", "watching"}
    BY Zenon DEF Inv, Owners
  <2> HIDE DEF GuestCancelWrite
  <2> QED
    BY Zenon, <2>1, <2>2 DEF Inv, Owners, Open
<1>4. Whole'
  BY Zenon DEF Inv, Whole, Open, Parked
<1>5. NothingLost'
  <2>1. write' = Open /\ write'.st = "Open" /\ ~write'.drop
    BY Zenon DEF Inv, Owners, Drops, Parked, TypeOK, EndType, Open
  <2>2. whost \notin {"waiting", "watching"}
    BY Zenon DEF Inv, Owners
  <2> QED
    BY Zenon, <2>1, <2>2 DEF Inv, NothingLost
<1>6. InOrder'
  BY Zenon DEF Inv, InOrder, Items
<1>7. Conservation'
  <2>1. unW' = unW + 0 - Items(wevent) /\ unR' = unR + 0 - 0
    BY Zenon
  <2>2. Items(wevent)' = 0 /\ Items(revent)' = Items(revent)
    BY Zenon DEF Items, NoEvent
  <2> HIDE DEF GuestCancelWrite, Account
  <2> QED
    BY <2>1, <2>2, UntoldItems DEF Conservation
<1> QED
  BY Zenon, <1>1, <1>2, <1>3, <1>4, <1>5, <1>6, <1>7 DEF Inv

(* guest_cancel_read keeps the invariant.                                  *)
LEMMA GuestCancelReadInv ==
  ASSUME Inv, NoExceptions, TypeOK', GuestCancelRead
  PROVE Inv'
<1> USE DEF GuestCancelRead, Account, Running, type, ends, history
<1>1. (NeverBothParked /\ Drops /\ Events /\ Single)'
  BY Zenon DEF Inv, NeverBothParked, Drops, Events, Single, Parked, Open, Dropped,
      NoEvent
<1>2. (NoPanic /\ NoLeak)'
  BY Zenon DEF Inv, NoPanic, NoLeak
<1>3. Owners'
  <2>1. read' = Open
    BY Zenon DEF Inv, Owners, Drops, Parked, TypeOK, EndType
  <2>2. /\ rstate' = "Read" /\ UNCHANGED <<write, wstate, whost, rhost>>
        /\ rhost \notin {"waiting", "watching"}
    BY Zenon DEF Inv, Owners
  <2> HIDE DEF GuestCancelRead
  <2> QED
    BY Zenon, <2>1, <2>2 DEF Inv, Owners, Open
<1>4. Jobs'
  BY Zenon DEF Inv, Jobs, NoExceptions
<1>5. Whole'
  BY Zenon DEF Inv, Whole, Open, Parked
<1>6. NothingLost'
  <2>1. read'.st = "Open" /\ rhost \notin {"waiting", "watching"}
    BY Zenon DEF Inv, Owners, Drops, Parked, TypeOK, EndType, Open
  <2> QED
    BY Zenon, <2>1 DEF Inv, NothingLost
<1>7. InOrder'
  BY Zenon DEF Inv, InOrder, Items
<1>8. Conservation'
  <2>1. unW' = unW + 0 - 0 /\ unR' = unR + 0 - Items(revent)
    BY Zenon
  <2>2. Items(revent)' = 0 /\ Items(wevent)' = Items(wevent)
    BY Zenon DEF Items, NoEvent
  <2> HIDE DEF GuestCancelRead, Account
  <2> QED
    BY <2>1, <2>2, UntoldItems DEF Conservation
<1> QED
  BY Zenon, <1>1, <1>2, <1>3, <1>4, <1>5, <1>6, <1>7, <1>8 DEF Inv

(* Dropping the future of a host write keeps the invariant.                *)
LEMMA AbandonWriteInv ==
  ASSUME Inv, NoExceptions, TypeOK', AbandonWrite
  PROVE Inv'
<1>1. /\ HostWriteReturns(read, revent, rhost, done, FALSE) /\ Running /\ wstate = "Host"
      /\ whost = "waiting" /\ kind = "Future" /\ kind' = kind
      /\ UNCHANGED <<rstate, wevent, job, outcome, unW, unR, wlen, rlen>>
  BY Zenon DEF AbandonWrite, NoExceptions, type, Inv, TypeOK
<1>2. /\ WriterGone(read, revent, rhost) /\ wstate' = "Gone" /\ whost' = "spent"
      /\ done' = done
  BY Zenon, <1>1 DEF HostWriteReturns, Resolved
<1>3. CASE write.st = "HostReady"
  <2>1. write # Open
    BY <1>3 DEF Open
  <2>2. write' = [write EXCEPT !.drop = TRUE]
    BY Zenon, <1>1, <1>3, <2>1 DEF HostWriteReturns
  <2>3. write.count = 1 /\ write.addr = 0 /\ ~Parked(read)
    BY Zenon, <1>1, <1>3 DEF Inv, Single, Whole, NeverBothParked, Parked
  <2>4. Leaving(write')
    BY <1>3, <2>2, <2>3 DEF Leaving, Inv, TypeOK, EndType
  <2> QED
    BY Zenon, <1>1, <1>2, <2>4, WriterGoneInv
<1>4. CASE write.st # "HostReady"
  <2>1. job.queued /\ done /\ write = Open
    BY Zenon, <1>1, <1>4 DEF Inv, NothingLost, Single, Jobs
  <2>2. write' = Dropped
    BY Zenon, <1>1, <1>4, <2>1 DEF HostWriteReturns
  <2> QED
    BY Zenon, <1>1, <1>2, <2>2, WriterGoneInv DEF Leaving
<1> QED
  BY Zenon, <1>3, <1>4

(* Dropping the future of a host read keeps the invariant.                 *)
LEMMA AbandonReadInv ==
  ASSUME Inv, NoExceptions, TypeOK', AbandonRead
  PROVE Inv'
<1>1. /\ HostReadReturns(write, wevent, whost, FALSE) /\ Running /\ rstate = "Host"
      /\ kind = "Future" /\ kind' = kind
      /\ UNCHANGED <<done, wstate, revent, job, outcome, unW, unR, wlen, rlen>>
  BY Zenon DEF AbandonRead, NoExceptions, type, history, Inv, TypeOK
<1>2. ReaderGone(write, wevent, whost) /\ rhost' = "spent"
  BY Zenon, <1>1 DEF HostReadReturns, Resolved
<1> QED
  BY Zenon, <1>1, <1>2, ReaderGoneInv

(* Watching the other end keeps the invariant.                             *)
LEMMA WatchInv ==
  ASSUME Inv, NoExceptions, TypeOK', WatchReader \/ WatchWriter \/ StopWatching
  PROVE Inv'
<1>1. /\ UNCHANGED <<kind, alive, write, read, done, wstate, rstate, wevent, revent, job>>
      /\ UNCHANGED <<outcome, wlen, rlen, unW, unR>>
  BY Zenon DEF WatchReader, WatchWriter, StopWatching, type, ends, history
<1>2. /\ \/ whost' = whost
         \/ /\ wstate = "Host" /\ whost \in {"idle", "watching"} /\ whost' \in {"idle", "watching"}
            /\ whost' = "watching" => read.st # "Dropped"
      /\ \/ rhost' = rhost
         \/ /\ rstate = "Host" /\ rhost \in {"idle", "watching"} /\ rhost' \in {"idle", "watching"}
            /\ rhost' = "watching" => write.st # "Dropped" /\ ~write.drop
  BY Zenon DEF WatchReader, WatchWriter, StopWatching
<1>3. Owners'
  BY Zenon, <1>1, <1>2 DEF Inv, Owners
<1>4. (NeverBothParked /\ Drops)'
  BY Zenon, <1>1, <1>2 DEF Inv, NeverBothParked, Drops, Parked
<1>5. (Events /\ Whole /\ Single)'
  BY Zenon, <1>1 DEF Inv, Events, Whole, Single, Parked
<1>6. Jobs'
  BY Zenon, <1>1, <1>2 DEF Inv, Jobs
<1>7. (NoPanic /\ Conservation /\ InOrder /\ NoLeak)'
  BY Zenon, <1>1 DEF Inv, NoPanic, Conservation, InOrder, NoLeak, Items
<1>8. NothingLost'
  BY Zenon, <1>1, <1>2 DEF Inv, NothingLost
<1> QED
  BY Zenon, <1>3, <1>4, <1>5, <1>6, <1>7, <1>8 DEF Inv

(* guest_drop_writable keeps the invariant.                                *)
LEMMA GuestDropWriterInv ==
  ASSUME Inv, NoExceptions, TypeOK', GuestDropWriter
  PROVE Inv'
<1>1. /\ write.st # "GuestReady" /\ write' = Dropped /\ outcome' = outcome
      /\ whost' \notin {"waiting", "watching"}
  BY Zenon DEF GuestDropWriter, Assert, Inv, Owners
<1> QED
  BY Zenon, <1>1, WriterGoneInv DEF GuestDropWriter, Leaving, Inv, Running, type,
      ends, history

(* The trap of guest_drop_writable on an unwritten future keeps the        *)
(* invariant.                                                              *)
LEMMA GuestDropUnwrittenInv ==
  ASSUME Inv, NoExceptions, TypeOK', GuestDropUnwritten
  PROVE Inv'
<1> USE DEF GuestDropUnwritten, Unwritten, Running, type, ends, history
<1>1. (NeverBothParked /\ Owners /\ Drops /\ Events /\ Jobs /\ Whole)'
  BY Zenon DEF Inv, NeverBothParked, Owners, Drops, Events, Jobs, Whole, Parked,
      Open, Dropped, NoEvent
<1>2. (Single /\ Conservation /\ InOrder /\ NothingLost /\ NoLeak)'
  BY Zenon DEF Inv, Single, Conservation, InOrder, NothingLost, NoLeak, Parked,
      Open, Dropped, NoEvent, Items
<1>3. NoPanic'
  BY Zenon DEF Inv, NoPanic, Owners
<1> QED
  BY Zenon, <1>1, <1>2, <1>3 DEF Inv

(* host_drop_writer by the host keeps the invariant.                       *)
LEMMA HostDropWriterInv ==
  ASSUME Inv, NoExceptions, TypeOK', HostDropWriter
  PROVE Inv'
<1>1. /\ outcome' = outcome
      /\ write.st = "HostReady" => write' = [write EXCEPT !.drop = TRUE]
      /\ write.st # "HostReady" => write' = Dropped
      /\ whost' \notin {"waiting", "watching"}
  BY Zenon DEF HostDropWriter, CanHostDropWriter, Assert, Inv, Drops
<1>2. Leaving(write')
  BY <1>1 DEF Leaving, HostDropWriter, CanHostDropWriter, Inv, Parked, Whole,
      Single, NeverBothParked
<1> QED
  BY Zenon, <1>1, <1>2, WriterGoneInv DEF HostDropWriter, CanHostDropWriter, Inv,
      Running, type, ends, history

(* Closing a FutureWriter that falls back on its default keeps the         *)
(* invariant.                                                              *)
LEMMA HostDropWriterDefaultInv ==
  ASSUME Inv, NoExceptions, TypeOK', HostDropWriterDefault
  PROVE Inv'
<1>1. /\ kind = "Future" /\ ~done /\ write = Open /\ wstate = "Host"
      /\ whost \notin {"waiting", "watching"}
      /\ outcome = "ok" /\ alive /\ ~job.queued /\ revent = NoEvent
      /\ wevent.code # "Completed" /\ ~wevent.pending
  BY Zenon DEF HostDropWriterDefault, CanHostDropWriter, Unwritten, Inv, Events,
      Single, TypeOK, EventType, Running
<1>2. /\ kind' = kind /\ wstate' = "Gone"
      /\ UNCHANGED <<rstate, wevent, whost, outcome, wlen, rlen>>
  BY Zenon DEF HostDropWriterDefault, Inv, Running, type, ends, history
<1>3. CASE read.st = "Open"
  <2>1. /\ WriterGone(read, revent, rhost)
        /\ UNCHANGED <<done, job, unW, unR, sent>>
    BY Zenon, <1>3 DEF HostDropWriterDefault
  <2>2. Leaving(write')
    BY Zenon, <1>3 DEF HostDropWriterDefault, HostReady, Leaving, Open, Parked
  <2> QED
    BY Zenon, <1>1, <1>2, <2>1, <2>2, WriterGoneInv DEF Inv, Running, type, ends,
        history
<1>4. CASE read.st = "GuestReady"
  <2>1. /\ rstate = "Busy" /\ read.count = 1 /\ read.addr = 0
    BY Zenon, <1>1, <1>4 DEF Inv, Owners, Parked, Single, InOrder, Items
  <2>2. /\ write' = Dropped /\ read' = Open /\ alive' /\ done'
        /\ rhost' = Woken(rhost)
    BY Zenon, <1>4 DEF HostDropWriterDefault, WriterGone, Open
  <2>5. rhost' \notin {"waiting", "watching"}
    BY Zenon, <2>1, <2>2 DEF Woken, Inv, Owners
  <2>3. CASE realloc
    <3>1. /\ job'.n = 1 /\ job'.space = read.count /\ job'.queued
          /\ unW' = unW /\ unR' = unR
      BY <1>4, <2>3 DEF HostDropWriterDefault
    <3>2. revent'.code = "Dropped" /\ revent'.n = 0 /\ ~revent'.pending
      BY <1>1, <1>4, <2>3 DEF HostDropWriterDefault, WriterGone, UpdateEvent,
          Inv, TypeOK, Open
    <3>3. (NeverBothParked /\ Owners /\ Drops /\ Events)'
      BY Zenon, <1>1, <1>2, <1>4, <2>1, <2>2, <2>5, <3>1, <3>2 DEF Inv, NeverBothParked,
          Owners, Drops, Events, Parked, Open, Dropped, NoEvent
    <3>4. (Jobs /\ Whole /\ Single)'
      BY Zenon, <1>1, <1>2, <1>4, <2>1, <2>2, <2>5, <3>1, <3>2 DEF Inv, Jobs, Whole,
          Single, Open, Dropped, Parked, NoEvent
    <3>5. (NoPanic /\ Conservation /\ InOrder /\ NothingLost /\ NoLeak)'
      BY Zenon, <1>1, <1>2, <1>4, <2>1, <2>2, <2>5, <3>1, <3>2 DEF Inv, NoPanic,
          Conservation, InOrder, NothingLost, NoLeak, Items, NoEvent, Open,
          Dropped
    <3> QED
      BY Zenon, <3>3, <3>4, <3>5 DEF Inv
  <2>4. CASE ~realloc
    <3>1. /\ job' = job /\ unW' = unW + 1 - 1 /\ unR' = unR + 1 - 0
      BY Zenon, <1>4, <2>4 DEF HostDropWriterDefault, Account
    <3>2. revent'.code = "Completed" /\ revent'.n = 0 /\ revent'.pending
      BY <1>1, <1>4, <2>4 DEF HostDropWriterDefault, WriterGone, UpdateEvent,
          CompletedEvent, Completed, Inv, NoEvent
    <3>3. (NeverBothParked /\ Owners /\ Drops /\ Events)'
      BY Zenon, <1>1, <1>2, <1>4, <2>1, <2>2, <2>5, <3>1, <3>2 DEF Inv, NeverBothParked,
          Owners, Drops, Events, Parked, Open, Dropped, NoEvent
    <3>4. (Jobs /\ Whole /\ Single)'
      BY Zenon, <1>1, <1>2, <1>4, <2>1, <2>2, <2>5, <3>1, <3>2 DEF Inv, Jobs, Whole,
          Single, Open, Dropped, Parked, NoEvent
    <3>5. (NoPanic /\ Conservation /\ InOrder /\ NothingLost /\ NoLeak)'
      BY <1>1, <1>2, <1>4, <2>1, <2>2, <2>5, <3>1, <3>2 DEF Inv, NoPanic,
          Conservation, InOrder, NothingLost, NoLeak, Items, NoEvent, Open,
          Dropped
    <3> QED
      BY Zenon, <3>3, <3>4, <3>5 DEF Inv
  <2> QED
    BY Zenon, <2>3, <2>4
<1>5. CASE read.st = "HostReady"
  <2>1. /\ write' = Dropped /\ read' = Open /\ alive' /\ done' = done /\ job' = job
        /\ unW' = unW + 1 - 1 /\ unR' = unR + 1 - 1
    BY Zenon, <1>5 DEF HostDropWriterDefault, WriterGone, Account, Open
  <2>2. rhost' = Woken(Answer(rhost, FALSE))
    BY Zenon, <1>5 DEF HostDropWriterDefault, WriterGone, Inv, Open
  <2>3. rhost' = "spent" \/ (rhost' \in {"idle", rhost} /\ rhost' \notin {"waiting", "watching"})
    BY Zenon, <1>1, <2>2 DEF Answer, Resolved, Woken
  <2>4. revent'.code = "Dropped" /\ revent'.n = 0 /\ ~revent'.pending
    BY <1>1, <1>5 DEF HostDropWriterDefault, WriterGone, UpdateEvent, Inv,
        TypeOK, Open
  <2>5. (NeverBothParked /\ Owners /\ Drops /\ Events)'
    BY Zenon, <1>1, <1>2, <1>5, <2>1, <2>3, <2>4 DEF Inv, NeverBothParked, Owners,
        Drops, Events, Parked, Open, Dropped, NoEvent
  <2>6. (Jobs /\ Whole /\ Single)'
    BY Zenon, <1>1, <1>2, <1>5, <2>1, <2>3, <2>4 DEF Inv, Jobs, Whole, Single, Open,
        Dropped, Parked, NoEvent
  <2>7. (NoPanic /\ Conservation /\ InOrder /\ NothingLost /\ NoLeak)'
    <3>1. rstate \notin {"Busy", "Gone"}
      BY <1>5, Zenon DEF Inv, Owners
    <3>2. Items(wevent) = 0 /\ Items(wevent)' = 0 /\ Items(revent) = 0 /\ Items(revent)' = 0
      BY Zenon, <1>1, <1>2, <2>4 DEF Items, NoEvent
    <3>3. unW = Items(wevent) /\ unR = Items(revent)
      BY Zenon DEF Inv, Conservation
    <3>4. Conservation'
      BY <2>1, <3>2, <3>3 DEF Conservation
    <3>5. (NoPanic /\ NoLeak)'
      BY Zenon, <1>1, <1>2, <3>1 DEF NoPanic, NoLeak
    <3>6. InOrder' /\ NothingLost'
      BY Zenon, <1>1, <1>2, <2>3, <3>1 DEF InOrder, NothingLost
    <3> QED
      BY Zenon, <3>4, <3>5, <3>6
  <2> QED
    BY Zenon, <2>5, <2>6, <2>7 DEF Inv
<1> QED
  BY Zenon, <1>3, <1>4, <1>5 DEF HostDropWriterDefault

(* guest_drop_readable keeps the invariant.                                *)
LEMMA GuestDropReaderInv ==
  ASSUME Inv, NoExceptions, TypeOK', GuestDropReader
  PROVE Inv'
<1>1. rhost' \notin {"waiting", "watching"}
  BY Zenon DEF GuestDropReader, Inv, Owners
<1> QED
  BY Zenon, <1>1, ReaderGoneInv DEF GuestDropReader, type, history

(* host_drop_reader by the host keeps the invariant.                       *)
LEMMA HostDropReaderInv ==
  ASSUME Inv, NoExceptions, TypeOK', HostDropReader
  PROVE Inv'
<1> QED
  BY Zenon, ReaderGoneInv DEF HostDropReader, type, history

(* Lifting the read end to the host keeps the invariant.                   *)
LEMMA LiftInv ==
  ASSUME Inv, NoExceptions, TypeOK', Lift
  PROVE Inv'
<1> USE DEF Lift, Running, type, ends, history
<1>1. (NeverBothParked /\ Owners /\ Drops /\ Events /\ Jobs /\ Single)'
  BY Zenon DEF Inv, NeverBothParked, Owners, Drops, Events, Jobs, Single, Parked,
      Open, Dropped, NoEvent
<1>2. (NoPanic /\ Conservation /\ InOrder /\ NothingLost /\ NoLeak)'
  BY Zenon DEF Inv, NoPanic, Conservation, InOrder, NothingLost, NoLeak, Items,
      NoEvent, Open, Dropped
<1>3. Whole'
  <2>1. write.addr = 0
    BY DEF Inv, TypeOK, EndType, NoExceptions
  <2> QED
    BY Zenon, <2>1 DEF Inv, Whole
<1> QED
  BY Zenon, <1>1, <1>2, <1>3 DEF Inv

(* Lowering the read end to a guest keeps the invariant.                   *)
LEMMA LowerInv ==
  ASSUME Inv, NoExceptions, TypeOK', Lower
  PROVE Inv'
<1> USE DEF Lower, Running, type, ends, history
<1>1. (NeverBothParked /\ Owners /\ Drops)'
  <2>1. /\ read = Open /\ rstate = "Host" /\ rstate' = "Read"
        /\ rhost \notin {"waiting", "watching"}
        /\ UNCHANGED <<write, read, wstate, whost, rhost, outcome>>
    BY Zenon DEF Inv, Owners
  <2> HIDE DEF Lower
  <2>2. Owners'
    BY Zenon, <2>1 DEF Inv, Owners, Open
  <2>3. (NeverBothParked /\ Drops)'
    BY Zenon, <2>1 DEF Inv, NeverBothParked, Drops, Parked, Open
  <2> QED
    BY Zenon, <2>2, <2>3
<1>2. (Events /\ Jobs /\ Whole)'
  BY Zenon DEF Inv, Events, Jobs, Whole, NoEvent
<1>3. (Single /\ NoPanic /\ NothingLost /\ NoLeak)'
  BY Zenon DEF Inv, Single, NoPanic, NothingLost, NoLeak, Parked
<1>4. (Conservation /\ InOrder)'
  BY Zenon DEF Inv, Conservation, InOrder, Items
<1> QED
  BY Zenon, <1>1, <1>2, <1>3, <1>4 DEF Inv

(* Initially both ends are open and nothing has happened.                  *)
LEMMA InitInv ==
  ASSUME Init
  PROVE  Inv
<1>1. TypeOK
  BY Zenon, InitType
<1>2. /\ write.st = "Open" /\ read.st = "Open" /\ ~write.drop /\ ~job.queued /\ alive
      /\ write.addr = 0 /\ read.addr = 0
      /\ wevent.code = "None" /\ revent.code = "None" /\ ~wevent.pending /\ ~revent.pending
  BY Zenon DEF Init, Open, NoEvent
<1>3. NeverBothParked /\ Owners /\ Drops
  BY Zenon, <1>2 DEF Init, NeverBothParked, Owners, Drops, Parked
<1>4. Events /\ Jobs
  BY <1>2, Zenon DEF Init, Events, Jobs
<1>5. Whole /\ Single
  BY Zenon, <1>2 DEF Init, Whole, Single, Parked, NoEvent
<1>6. NoPanic /\ Conservation /\ InOrder /\ NothingLost /\ NoLeak
  BY Zenon, <1>2 DEF Init, NoPanic, Conservation, InOrder, NothingLost, NoLeak, Items, NoEvent
<1> QED
  BY Zenon, <1>1, <1>3, <1>4, <1>5, <1>6 DEF Inv

(* Every step of the stream and future code keeps the invariant, unless it *)
(* is exceptional.                                                         *)
LEMMA NextInv ==
  ASSUME Inv, NoExceptions, [Next]_vars
  PROVE  Inv'
<1> TypeOK'
  BY Zenon, NextType DEF Inv
<1>1. ASSUME NEW n \in Sizes(WriteCounts), GuestWrite(n)
      PROVE  Inv'
  <2>1. n \in Nat /\ (kind = "Future" => n = 1)
    BY Zenon, SizesFacts
  <2>2. CASE GuestWriteToGuest(n)
    BY Zenon, <2>1, <2>2, GuestWriteToGuestInv
  <2>3. CASE GuestWriteToHost(n)
    BY Zenon, <2>1, <2>3, GuestWriteToHostInv
  <2>4. CASE GuestWriteBlocks(n)
    BY Zenon, <2>1, <2>4, GuestWriteBlocksInv
  <2>5. CASE GuestWriteDropped(n)
    BY Zenon, <2>1, <2>5, GuestWriteDroppedInv
  <2> QED
    BY Zenon, <1>1, <2>2, <2>3, <2>4, <2>5 DEF GuestWrite
<1>2. ASSUME NEW n \in Sizes(WriteCounts), HostWrite(n)
      PROVE  Inv'
  <2>1. n \in Nat /\ (kind = "Future" => n = 1)
    BY Zenon, SizesFacts
  <2>2. CASE HostWriteParks(n)
    BY Zenon, <2>1, <2>2, HostWriteParksInv
  <2>3. CASE HostWriteToGuest(n)
    BY Zenon, <2>1, <2>3, HostWriteToGuestInv
  <2>4. CASE HostWriteToHost(n)
    BY Zenon, <2>1, <2>4, HostWriteToHostInv
  <2>5. CASE HostWriteDropped(n)
    BY Zenon, <2>1, <2>5, HostWriteDroppedInv
  <2> QED
    BY Zenon, <1>2, <2>2, <2>3, <2>4, <2>5 DEF HostWrite
<1>3. ASSUME NEW n \in Sizes(ReadCounts), GuestRead(n)
      PROVE  Inv'
  <2>1. n \in Nat /\ (kind = "Future" => n = 1)
    BY Zenon, SizesFacts
  <2>2. CASE GuestReadFromGuest(n)
    BY Zenon, <2>1, <2>2, GuestReadFromGuestInv
  <2>3. CASE GuestReadFromHost(n)
    BY Zenon, <2>1, <2>3, GuestReadFromHostInv
  <2>4. CASE GuestReadBlocks(n)
    BY Zenon, <2>1, <2>4, GuestReadBlocksInv
  <2>5. CASE GuestReadDropped(n)
    BY Zenon, <2>1, <2>5, GuestReadDroppedInv
  <2> QED
    BY Zenon, <1>3, <2>2, <2>3, <2>4, <2>5 DEF GuestRead
<1>4. ASSUME NEW n \in Sizes(ReadCounts), HostRead(n)
      PROVE  Inv'
  <2>1. n \in Nat /\ (kind = "Future" => n = 1)
    BY Zenon, SizesFacts
  <2>2. CASE HostReadParks(n)
    BY Zenon, <2>1, <2>2, HostReadParksInv
  <2>3. CASE HostReadFromGuest(n)
    BY Zenon, <2>1, <2>3, HostReadFromGuestInv
  <2>4. CASE HostReadFromHost(n)
    BY Zenon, <2>1, <2>4, HostReadFromHostInv
  <2>5. CASE HostReadDropped(n)
    BY Zenon, <2>1, <2>5, HostReadDroppedInv
  <2> QED
    BY Zenon, <1>4, <2>2, <2>3, <2>4, <2>5 DEF HostRead
<1>5. CASE LowerToGuest
  BY Zenon, <1>5, LowerToGuestInv
<1>6. CASE DeliverWrite
  BY Zenon, <1>6, DeliverWriteInv
<1>7. CASE DeliverRead
  BY Zenon, <1>7, DeliverReadInv
<1>8. CASE GuestCancelWrite
  BY Zenon, <1>8, GuestCancelWriteInv
<1>9. CASE GuestCancelRead
  BY Zenon, <1>9, GuestCancelReadInv
<1>10. CASE AbandonWrite
  BY Zenon, <1>10, AbandonWriteInv
<1>11. CASE AbandonRead
  BY Zenon, <1>11, AbandonReadInv
<1>12. CASE GuestDropWriter
  BY Zenon, <1>12, GuestDropWriterInv
<1>13. CASE GuestDropUnwritten
  BY Zenon, <1>13, GuestDropUnwrittenInv
<1>14. CASE HostDropWriter
  BY Zenon, <1>14, HostDropWriterInv
<1>15. CASE HostDropWriterDefault
  BY Zenon, <1>15, HostDropWriterDefaultInv
<1>16. CASE GuestDropReader
  BY Zenon, <1>16, GuestDropReaderInv
<1>17. CASE HostDropReader
  BY Zenon, <1>17, HostDropReaderInv
<1>18. CASE Lift
  BY Zenon, <1>18, LiftInv
<1>19. CASE Lower
  BY Zenon, <1>19, LowerInv
<1>21. CASE WatchReader \/ WatchWriter \/ StopWatching
  BY Zenon, <1>21, WatchInv
<1>20. CASE UNCHANGED vars
  <2>1. /\ UNCHANGED <<kind, alive, write, read, done, wstate, rstate>>
        /\ UNCHANGED <<wevent, revent, whost, rhost, job, outcome, wlen, rlen, unW, unR>>
    BY Zenon, <1>20 DEF vars, type, ends, history
  <2>2. (NeverBothParked /\ Owners /\ Drops /\ Events)'
    <3>1. (NeverBothParked /\ Owners)'
      BY Zenon, <2>1 DEF Inv, NeverBothParked, Owners, Parked
    <3>2. (Drops /\ Events)'
      BY Zenon, <2>1 DEF Inv, Drops, Events
    <3> QED
      BY Zenon, <3>1, <3>2
  <2>3. (Jobs /\ Whole /\ Single)'
    BY Zenon, <2>1 DEF Inv, Jobs, Whole, Single, Parked
  <2>4. (NoPanic /\ Conservation /\ InOrder /\ NothingLost /\ NoLeak)'
    BY Zenon, <2>1 DEF Inv, NoPanic, Conservation, InOrder, NothingLost, NoLeak, Items
  <2> QED
    BY Zenon, <2>2, <2>3, <2>4 DEF Inv
<1> QED
  BY Zenon, <1>1, <1>2, <1>3, <1>4, <1>5, <1>6, <1>7, <1>8, <1>9, <1>10, <1>11,
      <1>12, <1>13, <1>14, <1>15, <1>16, <1>17, <1>18, <1>19, <1>20, <1>21
      DEF Next

(* The invariant holds throughout, if no exceptional step is taken.        *)
THEOREM Invariance == NoExceptions => (Spec => []Inv)
<1> SUFFICES ASSUME NoExceptions
             PROVE  Spec => []Inv
  BY Zenon
<1>1. Init => Inv
  BY Zenon, InitInv
<1>2. Inv /\ [Next]_vars => Inv'
  BY Zenon, NextInv
<1> QED
  BY <1>1, <1>2, PTL DEF Spec

(* No assertion of the stream and future code fires: not in                *)
(* set_guest_ready, host_write, host_read, host_drop_writer or             *)
(* on_delivery.                                                            *)
THEOREM PanicFree == NoExceptions => (Spec => []NoPanic)
<1>1. Inv => NoPanic
  BY Zenon DEF Inv
<1> QED
  BY <1>1, Invariance, PTL

(* Every item copied is reported to the writer and to the reader exactly   *)
(* once, however completions, drops and cancellations merge.               *)
THEOREM ItemsConserved == NoExceptions => (Spec => []Conservation)
<1>1. Inv => Conservation
  BY Zenon DEF Inv
<1> QED
  BY <1>1, Invariance, PTL

(* A partly consumed guest buffer goes on where the last copy stopped.     *)
THEOREM BuffersInOrder == NoExceptions => (Spec => []InOrder)
<1>1. Inv => InOrder
  BY Zenon DEF Inv
<1> QED
  BY <1>1, Invariance, PTL

(* An operation in progress is parked in the TransmitState or its answer   *)
(* is on its way.                                                          *)
THEOREM NoOperationLost == NoExceptions => (Spec => []NothingLost)
<1>1. Inv => NothingLost
  BY Zenon DEF Inv
<1> QED
  BY <1>1, Invariance, PTL

(* A read and a write never wait for each other.                           *)
THEOREM EndsMeet == NoExceptions => (Spec => []NeverBothParked)
<1>1. Inv => NeverBothParked
  BY Zenon DEF Inv
<1> QED
  BY <1>1, Invariance, PTL

(* Once both ends are dropped the TransmitState and its handles are        *)
(* deleted.                                                                *)
THEOREM Deleted == NoExceptions => (Spec => []NoLeak)
<1>1. Inv => NoLeak
  BY Zenon DEF Inv
<1> QED
  BY <1>1, Invariance, PTL
=============================================================================

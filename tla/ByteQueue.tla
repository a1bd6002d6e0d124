----------------------------- MODULE ByteQueue -----------------------------
(***************************************************************************)
(* emulator/ByteQueue.java: a circular byte buffer guarded by its Java     *)
(* monitor, shared by one writing and one reading thread.  A synchronized  *)
(* method is one step from the moment it owns the monitor to its return or *)
(* to its wait(), which releases the monitor; calling a method and owning  *)
(* the monitor are two steps, so that any other thread may run in between. *)
(***************************************************************************)
EXTENDS Integers, Sequences

CONSTANTS Byte,        \* the byte values
          Capacity,    \* mBuffer.length
          MaxWrite,    \* longest lengthToWrite passed to write()
          MaxRead,     \* longest buffer passed to read()
          EndOfInput   \* stands for the -1 of a read of a closed queue

ASSUME QueueAssumption ==
  /\ 0 \in Byte
  /\ Capacity \in Nat \ {0}
  /\ MaxWrite \in Nat \ {0}
  /\ MaxRead \in Nat \ {0}
  /\ EndOfInput \notin Seq(Byte)

VARIABLES mBuffer, mHead, mStoredBytes, mOpen,
          waiting,      \* threads inside wait() and not yet notified
          pending,      \* write(): the bytes of the call not yet copied in
          writeResult,  \* write(): how the last call ended
          wants,        \* read(): buffer.length of the call, 0 if none
          block,        \* read(): its second argument
          readResult    \* read(): the bytes the last call copied out

ring == <<mBuffer, mHead, mStoredBytes>>
vars == <<mBuffer, mHead, mStoredBytes, mOpen, waiting,
          pending, writeResult, wants, block, readResult>>

Slots == 0 .. Capacity - 1
Threads == {"writer", "reader"}
MinOf(a, b) == IF a <= b THEN a ELSE b

Init ==
  /\ mBuffer = [i \in Slots |-> 0]
  /\ mHead = 0
  /\ mStoredBytes = 0
  /\ mOpen = TRUE
  /\ waiting = {}
  /\ pending = << >>
  /\ writeResult = "none"
  /\ wants = 0
  /\ block = FALSE
  /\ readResult = << >>

\* The wait sets notify() can leave behind: the JVM picks the thread it wakes.
Notified(W) == IF W = {} THEN {W} ELSE {W \ {t} : t \in W}

-----------------------------------------------------------------------------
(* write(buffer, offset, lengthToWrite)                                    *)

\* Mutant of CopyIn: the second run starts at the tail of the first.
CopyInStaleTail(q) ==
  LET t    == mHead + mStoredBytes
      tail == IF t >= Capacity THEN t - Capacity ELSE t
      n    == MinOf(Capacity - tail, Len(q.data))
  IN [buffer |-> [i \in Slots |-> IF i \in tail .. tail + n - 1
                                  THEN q.data[i - tail + 1] ELSE q.buffer[i]],
      stored |-> q.stored + n,
      data   |-> SubSeq(q.data, n + 1, Len(q.data))]

\* One pass of the copying loop: a run of bytes that does not wrap.
CopyIn(q) ==
  LET t      == mHead + q.stored
      tail   == IF t >= Capacity THEN t - Capacity ELSE t
      oneRun == IF t >= Capacity THEN mHead - tail ELSE Capacity - tail
      n      == MinOf(oneRun, Len(q.data))
  IN [buffer |-> [i \in Slots |-> IF i \in tail .. tail + n - 1
                                  THEN q.data[i - tail + 1] ELSE q.buffer[i]],
      stored |-> q.stored + n,
      data   |-> SubSeq(q.data, n + 1, Len(q.data))]

\* The call, before it owns the monitor.
WriteCall(data) ==
  /\ pending = << >>
  /\ Len(data) > 0
  /\ pending' = data
  /\ writeResult' = "none"
  /\ UNCHANGED <<ring, mOpen, waiting, wants, block, readResult>>

\* lengthToWrite <= 0: IllegalArgumentException, the queue is not touched.
WriteThrows ==
  /\ pending = << >>
  /\ writeResult' = "throws"
  /\ UNCHANGED <<ring, mOpen, waiting, pending, wants, block, readResult>>

\* Found closed, at the first check or after a wait(): false.
WriteClosed ==
  /\ pending # << >>
  /\ "writer" \notin waiting
  /\ ~mOpen
  /\ pending' = << >>
  /\ writeResult' = "false"
  /\ UNCHANGED <<ring, mOpen, waiting, wants, block, readResult>>

\* Full: wait().
WriteWaits ==
  /\ pending # << >>
  /\ "writer" \notin waiting
  /\ mOpen
  /\ mStoredBytes = Capacity
  /\ waiting' = waiting \cup {"writer"}
  /\ UNCHANGED <<ring, mOpen, pending, writeResult, wants, block, readResult>>

\* Mutant of AfterWrite: the reader of an empty queue is not notified.
AfterWriteSilent == {waiting}

\* wasEmpty: notify().
AfterWrite == IF mStoredBytes = 0 THEN Notified(waiting) ELSE {waiting}

\* Room: copy what fits, wake the reader of an empty queue, and either return
\* true or, the queue being full now, wait() for room for the rest.  The bytes
\* that fit take at most two runs: up to the end of mBuffer, and from its start.
WriteCopies ==
  /\ pending # << >>
  /\ "writer" \notin waiting
  /\ mOpen
  /\ mStoredBytes < Capacity
  /\ LET n == MinOf(Len(pending), Capacity - mStoredBytes)
     IN \E p \in {CopyIn([buffer |-> mBuffer, stored |-> mStoredBytes,
                          data |-> SubSeq(pending, 1, n)])} :
        \E q \in {CopyIn(p)}, w \in AfterWrite :
          /\ mBuffer' = q.buffer
          /\ mStoredBytes' = q.stored
          /\ pending' = SubSeq(pending, n + 1, Len(pending))
          /\ IF n < Len(pending)
             THEN waiting' = w \cup {"writer"} /\ UNCHANGED writeResult
             ELSE waiting' = w /\ writeResult' = "true"
  /\ UNCHANGED <<mHead, mOpen, wants, block, readResult>>

WriteStep == WriteClosed \/ WriteWaits \/ WriteCopies

-----------------------------------------------------------------------------
(* read(buffer, block)                                                     *)

\* Mutant of CopyOut: the head is reset one byte late.
CopyOutLateWrap(q) ==
  LET n    == MinOf(q.room, MinOf(Capacity - q.head, q.stored))
      head == q.head + n
  IN [head   |-> IF head > Capacity THEN 0 ELSE head,
      stored |-> q.stored - n,
      room   |-> q.room - n,
      bytes  |-> q.bytes \o [i \in 1..n |-> mBuffer[q.head + i - 1]]]

\* One pass of the copying loop: a run of bytes that does not wrap.
CopyOut(q) ==
  LET n    == MinOf(q.room, MinOf(Capacity - q.head, q.stored))
      head == q.head + n
  IN [head   |-> IF head >= Capacity THEN 0 ELSE head,
      stored |-> q.stored - n,
      room   |-> q.room - n,
      bytes  |-> q.bytes \o [i \in 1..n |-> mBuffer[q.head + i - 1]]]

\* The call, before it owns the monitor.
ReadCall(length, b) ==
  /\ wants = 0
  /\ wants' = length
  /\ block' = b
  /\ UNCHANGED <<ring, mOpen, waiting, pending, writeResult, readResult>>

\* Empty: a blocking read wait()s.
ReadWaits ==
  /\ wants # 0
  /\ "reader" \notin waiting
  /\ mOpen
  /\ mStoredBytes = 0
  /\ block
  /\ waiting' = waiting \cup {"reader"}
  /\ UNCHANGED <<ring, mOpen, pending, writeResult, wants, block, readResult>>

\* Empty: a read that must not block returns 0.
ReadNothing ==
  /\ wants # 0
  /\ "reader" \notin waiting
  /\ mOpen
  /\ mStoredBytes = 0
  /\ ~block
  /\ wants' = 0
  /\ readResult' = << >>
  /\ UNCHANGED <<ring, mOpen, waiting, pending, writeResult, block>>

\* Closed: -1, even when bytes are still stored.
ReadClosed ==
  /\ wants # 0
  /\ "reader" \notin waiting
  /\ ~mOpen
  /\ wants' = 0
  /\ readResult' = EndOfInput
  /\ UNCHANGED <<ring, mOpen, waiting, pending, writeResult, block>>

\* Mutant of AfterRead: the condition of write() copied into read().
AfterReadOfEmpty == IF mStoredBytes = 0 THEN Notified(waiting) ELSE {waiting}

\* wasFull: notify().
AfterRead == IF mStoredBytes = Capacity THEN Notified(waiting) ELSE {waiting}

\* Bytes stored: copy out what fits, wake the writer of a full queue.  At most
\* two runs: up to the end of mBuffer, and from its start.
ReadCopies ==
  /\ wants # 0
  /\ "reader" \notin waiting
  /\ mOpen
  /\ mStoredBytes > 0
  /\ \E p \in {CopyOut([head |-> mHead, stored |-> mStoredBytes,
                         room |-> wants, bytes |-> << >>])} :
     \E q \in {CopyOut(p)} :
        /\ mHead' = q.head
        /\ mStoredBytes' = q.stored
        /\ readResult' = q.bytes
        /\ waiting' \in AfterRead
  /\ wants' = 0
  /\ UNCHANGED <<mBuffer, mOpen, pending, writeResult, block>>

ReadStep == ReadWaits \/ ReadNothing \/ ReadClosed \/ ReadCopies

-----------------------------------------------------------------------------
(* close(), and the wake-ups of wait() nobody asked for: the JVM's spurious *)
(* ones and the InterruptedException both methods ignore.                   *)

Close ==
  /\ mOpen' = FALSE
  /\ waiting' \in Notified(waiting)
  /\ UNCHANGED <<ring, pending, writeResult, wants, block, readResult>>

SpuriousWakeup(t) ==
  /\ t \in waiting
  /\ waiting' = waiting \ {t}
  /\ UNCHANGED <<ring, mOpen, pending, writeResult, wants, block, readResult>>

-----------------------------------------------------------------------------
Writes == UNION {[1..n -> Byte] : n \in 1..MaxWrite}

Next ==
  \/ \E data \in Writes : WriteCall(data)
  \/ WriteThrows
  \/ WriteStep
  \/ \E length \in 1..MaxRead, b \in BOOLEAN : ReadCall(length, b)
  \/ ReadStep
  \/ Close
  \/ \E t \in Threads : SpuriousWakeup(t)

Spec == Init /\ [][Next]_vars

\* A thread that can run is scheduled; the reading thread loops on read() (the
\* session's writer thread, and the main thread's handler while it gets
\* messages).  Nobody has to write or close, and no wake-up is spurious.
Fairness ==
  /\ WF_vars(WriteStep)
  /\ WF_vars(ReadStep)
  /\ WF_vars(\E length \in 1..MaxRead : ReadCall(length, TRUE))

FairSpec == Spec /\ Fairness

-----------------------------------------------------------------------------
(* Properties                                                              *)

TypeOK ==
  /\ mBuffer \in [Slots -> Byte]
  /\ mHead \in Slots
  /\ mStoredBytes \in 0..Capacity
  /\ mOpen \in BOOLEAN
  /\ waiting \in SUBSET Threads
  /\ pending \in Seq(Byte)
  /\ Len(pending) <= MaxWrite
  /\ writeResult \in {"none", "true", "false", "throws"}
  /\ wants \in 0..MaxRead
  /\ block \in BOOLEAN
  /\ readResult \in Seq(Byte) \cup {EndOfInput}

\* No wake-up is lost: a thread is asleep in wait() only while the condition it
\* waits for is still false.  read() notifies only when the queue was full and
\* write() only when it was empty, so one missed case leaves a thread asleep
\* next to bytes, or room, that nobody will tell it about.
NoLostWakeup ==
  /\ "writer" \in waiting => mOpen /\ mStoredBytes = Capacity /\ pending # << >>
  /\ "reader" \in waiting => mOpen /\ mStoredBytes = 0 /\ wants # 0 /\ block

\* notify() instead of notifyAll() is enough: the two threads are never asleep
\* at the same time, so the thread notify() picks is the one that must run.
OneWaiter == ~({"writer", "reader"} \subseteq waiting)

\* The bytes in the ring, oldest first.
Stored ==
  [i \in 1..mStoredBytes |->
     LET s == mHead + i - 1 IN mBuffer[IF s >= Capacity THEN s - Capacity ELSE s]]

Channel == INSTANCE ByteChannel WITH
  chan <- Stored, isOpen <- mOpen, outbox <- pending, inbox <- readResult

\* The ring implements a bounded first-in first-out channel: whatever the two
\* copying loops do around the end of mBuffer, no byte is lost, duplicated or
\* reordered, write() hands over everything unless the queue is closed, and a
\* closed queue delivers nothing.
ImplementsChannel == Channel!ChannelSpec

\* A write() returns: it waits only for room, which the reader keeps making, or
\* for close(), and both wake it.
WriteReturns == (pending # << >>) ~> (pending = << >>)

\* A read() of a queue that holds bytes, or that is closed, returns, even when
\* the call was already asleep when the bytes came or the queue was closed.
ReadReturns == (wants # 0 /\ (mStoredBytes > 0 \/ ~mOpen)) ~> (wants = 0)
=============================================================================

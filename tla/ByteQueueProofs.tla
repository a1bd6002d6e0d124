-------------------------- MODULE ByteQueueProofs --------------------------
(***************************************************************************)
(* For every capacity and every length of the reads and writes, the queue  *)
(* keeps its types and loses no wake-up.                                   *)
(***************************************************************************)
EXTENDS ByteQueue, SequenceTheorems, TLAPS

\* The part of a copying pass of write() that the ring's indices depend on.
LEMMA CopyInType ==
  ASSUME NEW b \in [Slots -> Byte], NEW s \in 0..Capacity,
         NEW d \in Seq(Byte), mHead \in Slots, s + Len(d) <= Capacity
  PROVE  LET q == CopyIn([buffer |-> b, stored |-> s, data |-> d])
         IN /\ q.buffer \in [Slots -> Byte]
            /\ q.stored \in 0..Capacity
            /\ q.data \in Seq(Byte)
            /\ q.stored + Len(q.data) = s + Len(d)
            /\ Len(q.data) = 0 \/ (mHead + s < Capacity /\ mHead + q.stored = Capacity)
            /\ mHead + s >= Capacity => Len(q.data) = 0
<1> DEFINE t == mHead + s
           tail == IF t >= Capacity THEN t - Capacity ELSE t
           oneRun == IF t >= Capacity THEN mHead - tail ELSE Capacity - tail
           n == MinOf(oneRun, Len(d))
           q == CopyIn([buffer |-> b, stored |-> s, data |-> d])
<1>0. /\ Capacity \in Nat \ {0} /\ Len(d) \in Nat /\ mHead \in 0..Capacity-1
  BY QueueAssumption DEF Slots
<1>1. /\ n \in 0..Len(d) /\ tail \in Slots /\ tail + n <= Capacity
      /\ n = Len(d) \/ (t < Capacity /\ mHead + s + n = Capacity)
  BY <1>0 DEF MinOf, Slots
<1>2. q = [buffer |-> [i \in Slots |-> IF i \in tail .. tail + n - 1
                                       THEN d[i - tail + 1] ELSE b[i]],
           stored |-> s + n, data |-> SubSeq(d, n + 1, Len(d))]
  BY DEF CopyIn
<1>3. q.buffer \in [Slots -> Byte]
  <2>1. ASSUME NEW i \in Slots PROVE q.buffer[i] \in Byte
    <3>1. CASE i \in tail .. tail + n - 1
      <4>1. i - tail + 1 \in 1..Len(d)
        BY <3>1, <1>0, <1>1 DEF Slots
      <4> QED BY <4>1, <3>1, <1>2
    <3>2. CASE i \notin tail .. tail + n - 1
      BY <3>2, <1>2
    <3> QED BY <3>1, <3>2
  <2> QED BY <2>1, <1>2
<1>4. q.data \in Seq(Byte) /\ Len(q.data) = Len(d) - n
  <2> HIDE DEF n, tail, oneRun
  <2>1. \A i \in n + 1 .. Len(d) : d[i] \in Byte
    BY <1>0, <1>1
  <2>2. /\ SubSeq(d, n + 1, Len(d)) \in Seq(Byte)
        /\ Len(SubSeq(d, n + 1, Len(d)))
             = IF n + 1 <= Len(d) THEN Len(d) - (n + 1) + 1 ELSE 0
    BY <2>1, <1>0, <1>1, SubSeqProperties
  <2>3. q.data = SubSeq(d, n + 1, Len(d))
    BY <1>2
  <2> HIDE DEF q
  <2> QED BY <2>2, <2>3, <1>0, <1>1
<1>5. q.stored = s + n
  BY <1>2
<1> HIDE DEF n, tail, oneRun, q
<1> SUFFICES /\ q.buffer \in [Slots -> Byte]
             /\ q.stored \in 0..Capacity
             /\ q.data \in Seq(Byte)
             /\ q.stored + Len(q.data) = s + Len(d)
             /\ Len(q.data) = 0 \/ (mHead + s < Capacity /\ mHead + q.stored = Capacity)
             /\ mHead + s >= Capacity => Len(q.data) = 0
  BY DEF q
<1> QED BY <1>0, <1>1, <1>3, <1>4, <1>5

\* The two passes of write() copy everything that fits.
LEMMA CopyInTwice ==
  ASSUME TypeOK, NEW d \in Seq(Byte), mStoredBytes + Len(d) <= Capacity
  PROVE  LET q == CopyIn(CopyIn([buffer |-> mBuffer, stored |-> mStoredBytes,
                                 data |-> d]))
         IN /\ q.buffer \in [Slots -> Byte]
            /\ q.stored = mStoredBytes + Len(d)
<1> DEFINE p == CopyIn([buffer |-> mBuffer, stored |-> mStoredBytes, data |-> d])
           q == CopyIn(p)
<1>0. /\ Capacity \in Nat \ {0} /\ Len(d) \in Nat /\ mHead \in 0..Capacity-1
      /\ mStoredBytes \in 0..Capacity
  BY QueueAssumption DEF Slots, TypeOK
<1>1. /\ p.buffer \in [Slots -> Byte] /\ p.stored \in 0..Capacity /\ p.data \in Seq(Byte)
      /\ p.stored + Len(p.data) = mStoredBytes + Len(d)
      /\ Len(p.data) = 0 \/ mHead + p.stored = Capacity
  BY CopyInType DEF TypeOK
<1>2. p = [buffer |-> p.buffer, stored |-> p.stored, data |-> p.data]
  BY DEF CopyIn
<1>3. /\ q.buffer \in [Slots -> Byte] /\ q.stored \in 0..Capacity /\ q.data \in Seq(Byte)
      /\ q.stored + Len(q.data) = p.stored + Len(p.data)
      /\ Len(q.data) = 0 \/ (mHead + p.stored < Capacity /\ mHead + q.stored = Capacity)
  <2> HIDE DEF p
  <2>1. p.stored + Len(p.data) <= Capacity /\ mHead \in Slots
    BY <1>1, <1>0 DEF TypeOK
  <2> DEFINE r == CopyIn([buffer |-> p.buffer, stored |-> p.stored, data |-> p.data])
  <2>2. q = r BY <1>2
  <2> HIDE DEF q
  <2>3. /\ r.buffer \in [Slots -> Byte] /\ r.stored \in 0..Capacity /\ r.data \in Seq(Byte)
        /\ r.stored + Len(r.data) = p.stored + Len(p.data)
        /\ Len(r.data) = 0 \/ (mHead + p.stored < Capacity /\ mHead + r.stored = Capacity)
    BY CopyInType, <1>1, <2>1
  <2> QED BY <2>2, <2>3
<1>4. Len(q.data) = 0
  <2> HIDE DEF p, q
  <2>1. CASE Len(p.data) = 0
    BY <2>1, <1>1, <1>3, <1>0
  <2>2. CASE mHead + p.stored = Capacity
    BY <2>2, <1>1, <1>3, <1>0
  <2> QED BY <2>1, <2>2, <1>1
<1> HIDE DEF p
<1> SUFFICES q.buffer \in [Slots -> Byte] /\ q.stored = mStoredBytes + Len(d)
  BY DEF p
<1> HIDE DEF q
<1> QED BY <1>0, <1>1, <1>3, <1>4

\* A copying pass of read() keeps the head inside the ring.
LEMMA CopyOutType ==
  ASSUME mBuffer \in [Slots -> Byte], NEW h \in Slots, NEW s \in 0..Capacity,
         NEW r \in Nat, NEW o \in Seq(Byte)
  PROVE  LET q == CopyOut([head |-> h, stored |-> s, room |-> r, bytes |-> o])
         IN /\ q.head \in Slots
            /\ q.stored \in 0..s
            /\ q.room \in Nat
            /\ q.bytes \in Seq(Byte)
            /\ s > 0 /\ r > 0 => q.stored < s
<1> DEFINE n == MinOf(r, MinOf(Capacity - h, s))
           run == [i \in 1..n |-> mBuffer[h + i - 1]]
           q == CopyOut([head |-> h, stored |-> s, room |-> r, bytes |-> o])
<1>0. Capacity \in Nat \ {0} /\ h \in 0..Capacity-1
  BY QueueAssumption DEF Slots
<1>1. /\ n \in 0..s /\ n <= r /\ h + n <= Capacity
      /\ s > 0 /\ r > 0 => n > 0
  BY <1>0 DEF MinOf
<1>2. q = [head   |-> IF h + n >= Capacity THEN 0 ELSE h + n,
           stored |-> s - n, room |-> r - n,
           bytes  |-> o \o run]
  BY DEF CopyOut
<1> HIDE DEF n
<1>3. run \in Seq(Byte)
  <2>1. \A i \in 1..n : mBuffer[h + i - 1] \in Byte
    BY <1>0, <1>1 DEF Slots
  <2> QED BY <2>1, <1>0, <1>1, IsASeq
<1>4. q.bytes \in Seq(Byte)
  <2> HIDE DEF run
  <2>1. q.bytes = o \o run
    BY <1>2
  <2> HIDE DEF q
  <2> QED BY <2>1, <1>3
<1>5. q.head \in Slots /\ q.stored = s - n /\ q.room = r - n
  BY <1>0, <1>1, <1>2 DEF Slots
<1> HIDE DEF q
<1> SUFFICES /\ q.head \in Slots
             /\ q.stored \in 0..s
             /\ q.room \in Nat
             /\ q.bytes \in Seq(Byte)
             /\ s > 0 /\ r > 0 => q.stored < s
  BY DEF q
<1> QED BY <1>0, <1>1, <1>4, <1>5

\* The two passes of read() take at least one byte out of a queue that has one.
LEMMA CopyOutTwice ==
  ASSUME TypeOK, wants # 0, mStoredBytes > 0
  PROVE  LET q == CopyOut(CopyOut([head |-> mHead, stored |-> mStoredBytes,
                                   room |-> wants, bytes |-> << >>]))
         IN /\ q.head \in Slots
            /\ q.stored \in 0 .. mStoredBytes - 1
            /\ q.bytes \in Seq(Byte)
<1> DEFINE p == CopyOut([head |-> mHead, stored |-> mStoredBytes,
                         room |-> wants, bytes |-> << >>])
           r == CopyOut([head |-> p.head, stored |-> p.stored,
                         room |-> p.room, bytes |-> p.bytes])
           q == CopyOut(p)
<1>0. /\ Capacity \in Nat \ {0} /\ mStoredBytes \in 0..Capacity
      /\ wants \in Nat /\ wants > 0 /\ << >> \in Seq(Byte)
  BY QueueAssumption DEF TypeOK
<1>1. /\ p.head \in Slots /\ p.stored \in 0..mStoredBytes /\ p.room \in Nat
      /\ p.bytes \in Seq(Byte) /\ p.stored < mStoredBytes
  <2> HIDE DEF p
  <2>1. /\ p.head \in Slots /\ p.stored \in 0..mStoredBytes /\ p.room \in Nat
        /\ p.bytes \in Seq(Byte)
        /\ mStoredBytes > 0 /\ wants > 0 => p.stored < mStoredBytes
    BY <1>0, CopyOutType DEF TypeOK, p
  <2> QED BY <1>0, <2>1
<1>2. q = r
  BY DEF CopyOut
<1>3. /\ r.head \in Slots /\ r.stored \in 0..p.stored /\ r.bytes \in Seq(Byte)
  <2> HIDE DEF p
  <2>1. p.stored \in 0..Capacity
    BY <1>0, <1>1
  <2> QED BY <1>1, <2>1, CopyOutType DEF TypeOK
<1> SUFFICES q.head \in Slots /\ q.stored \in 0 .. mStoredBytes - 1 /\ q.bytes \in Seq(Byte)
  OBVIOUS
<1> HIDE DEF p, q, r
<1> QED BY <1>0, <1>1, <1>2, <1>3

-----------------------------------------------------------------------------
(* The inductive invariant.  NoLostWakeup is what makes OneWaiter hold: a   *)
(* waiting writer means a full ring, a waiting reader an empty one, and a   *)
(* ring with at least one slot is not both.                                 *)

IInv == TypeOK /\ NoLostWakeup

LEMMA NotifiedOne ==
  ASSUME NEW W \in SUBSET Threads, ~({"writer", "reader"} \subseteq W)
  PROVE  Notified(W) = {{}}
<1>1. W = {} \/ W = {"writer"} \/ W = {"reader"}
  BY DEF Threads
<1>2. CASE W = {}
  BY <1>2 DEF Notified
<1>3. ASSUME NEW t, W = {t} PROVE Notified(W) = {{}}
  <2>1. W # {} /\ {W \ {u} : u \in W} = {{}}
    BY <1>3
  <2> QED BY <2>1 DEF Notified
<1> QED BY <1>1, <1>2, <1>3

LEMMA InvOneWaiter == ASSUME IInv PROVE OneWaiter
BY QueueAssumption DEF IInv, NoLostWakeup, OneWaiter

LEMMA InitInv == Init => IInv
<1> SUFFICES ASSUME Init PROVE IInv
  OBVIOUS
<1>1. mBuffer \in [Slots -> Byte] /\ mHead \in Slots /\ mStoredBytes \in 0..Capacity
  BY QueueAssumption DEF Init, Slots
<1>2. pending \in Seq(Byte) /\ Len(pending) <= MaxWrite /\ readResult \in Seq(Byte)
  BY QueueAssumption DEF Init
<1>3. TypeOK
  BY <1>1, <1>2, QueueAssumption DEF Init, TypeOK, Threads
<1> QED BY <1>3 DEF Init, IInv, NoLostWakeup

\* What write() copies of a call, and what is left of it.
LEMMA PendingSplit ==
  ASSUME NEW p \in Seq(Byte), NEW n \in 0..Len(p)
  PROVE  /\ SubSeq(p, 1, n) \in Seq(Byte) /\ Len(SubSeq(p, 1, n)) = n
         /\ SubSeq(p, n + 1, Len(p)) \in Seq(Byte)
         /\ Len(SubSeq(p, n + 1, Len(p))) = Len(p) - n
<1>1. Len(p) \in Nat /\ n \in Nat /\ n <= Len(p)
  OBVIOUS
<1>2. (\A i \in 1..n : p[i] \in Byte) /\ (\A i \in n + 1 .. Len(p) : p[i] \in Byte)
  BY <1>1
<1>3. /\ SubSeq(p, 1, n) \in Seq(Byte)
      /\ Len(SubSeq(p, 1, n)) = IF 1 <= n THEN n - 1 + 1 ELSE 0
  BY <1>1, <1>2, SubSeqProperties
<1>4. /\ SubSeq(p, n + 1, Len(p)) \in Seq(Byte)
      /\ Len(SubSeq(p, n + 1, Len(p)))
           = IF n + 1 <= Len(p) THEN Len(p) - (n + 1) + 1 ELSE 0
  BY <1>1, <1>2, SubSeqProperties
<1> QED BY <1>1, <1>3, <1>4

LEMMA WriteCopiesInv == ASSUME IInv, WriteCopies PROVE IInv'
<1> DEFINE n == MinOf(Len(pending), Capacity - mStoredBytes)
           d == SubSeq(pending, 1, n)
           q == CopyIn(CopyIn([buffer |-> mBuffer, stored |-> mStoredBytes, data |-> d]))
<1>0. /\ Capacity \in Nat \ {0} /\ mStoredBytes \in 0..Capacity /\ mStoredBytes < Capacity
      /\ pending \in Seq(Byte) /\ Len(pending) \in Nat /\ Len(pending) # 0
      /\ Len(pending) <= MaxWrite /\ waiting \in SUBSET Threads /\ MaxWrite \in Nat
  BY QueueAssumption, EmptySeq DEF IInv, TypeOK, WriteCopies
<1>1. /\ n \in 1..Len(pending) /\ mStoredBytes + n <= Capacity
      /\ n < Len(pending) => mStoredBytes + n = Capacity
  BY <1>0 DEF MinOf
<1>2. PICK w \in AfterWrite :
        /\ mBuffer' = q.buffer /\ mStoredBytes' = q.stored
        /\ pending' = SubSeq(pending, n + 1, Len(pending))
        /\ IF n < Len(pending)
           THEN waiting' = w \cup {"writer"} /\ UNCHANGED writeResult
           ELSE waiting' = w /\ writeResult' = "true"
  BY DEF WriteCopies
<1> HIDE DEF n
<1>3. d \in Seq(Byte) /\ Len(d) = n
  BY <1>0, <1>1, PendingSplit
<1>4. /\ pending' \in Seq(Byte) /\ Len(pending') = Len(pending) - n
  BY <1>0, <1>1, <1>2, PendingSplit
<1> HIDE DEF d
<1>5. mBuffer' \in [Slots -> Byte] /\ mStoredBytes' = mStoredBytes + n
  BY <1>0, <1>1, <1>2, <1>3, CopyInTwice DEF IInv
<1> HIDE DEF q
<1>6. w = {}
  <2>1. CASE mStoredBytes = 0
    BY <2>1, <1>0, InvOneWaiter, NotifiedOne DEF AfterWrite, OneWaiter
  <2>2. CASE mStoredBytes # 0
    BY <2>2, <1>0 DEF AfterWrite, IInv, NoLostWakeup, WriteCopies, Threads
  <2> QED BY <2>1, <2>2
<1>7. TypeOK'
  <2>1. mStoredBytes' \in 0..Capacity /\ Len(pending') <= MaxWrite
    BY <1>0, <1>1, <1>4, <1>5
  <2>2. waiting' \in SUBSET Threads /\ writeResult' \in {"none", "true", "false", "throws"}
    BY <1>2, <1>6 DEF Threads, IInv, TypeOK
  <2> QED BY <2>1, <2>2, <1>4, <1>5 DEF WriteCopies, IInv, TypeOK
<1>8. NoLostWakeup'
  <2>1. CASE n < Len(pending)
    <3>1. waiting' = {"writer"} /\ mStoredBytes' = Capacity /\ Len(pending') # 0
      BY <2>1, <1>0, <1>1, <1>2, <1>4, <1>5, <1>6
    <3>2. mOpen'
      BY DEF WriteCopies
    <3> QED BY <3>1, <3>2, <1>4, EmptySeq DEF NoLostWakeup
  <2>2. CASE ~(n < Len(pending))
    BY <2>2, <1>2, <1>6 DEF NoLostWakeup
  <2> QED BY <2>1, <2>2
<1> QED BY <1>7, <1>8 DEF IInv

LEMMA ReadCopiesInv == ASSUME IInv, ReadCopies PROVE IInv'
<1> DEFINE q == CopyOut(CopyOut([head |-> mHead, stored |-> mStoredBytes,
                                 room |-> wants, bytes |-> << >>]))
<1>0. /\ Capacity \in Nat \ {0} /\ mStoredBytes \in 0..Capacity /\ mStoredBytes > 0
      /\ waiting \in SUBSET Threads /\ wants # 0
  BY QueueAssumption DEF IInv, TypeOK, ReadCopies
<1>1. q.head \in Slots /\ q.stored \in 0 .. mStoredBytes - 1 /\ q.bytes \in Seq(Byte)
  BY <1>0, CopyOutTwice DEF IInv
<1>2. /\ mHead' = q.head /\ mStoredBytes' = q.stored /\ readResult' = q.bytes
      /\ waiting' \in AfterRead /\ wants' = 0
  BY DEF ReadCopies
<1> HIDE DEF q
<1>3. waiting' = {}
  <2>1. CASE mStoredBytes = Capacity
    BY <2>1, <1>0, <1>2, InvOneWaiter, NotifiedOne DEF AfterRead, OneWaiter
  <2>2. CASE mStoredBytes # Capacity
    BY <2>2, <1>0, <1>2 DEF AfterRead, IInv, NoLostWakeup, ReadCopies, Threads
  <2> QED BY <2>1, <2>2
<1>4. mStoredBytes' \in 0..Capacity /\ wants' \in 0..MaxRead
  BY <1>0, <1>1, <1>2, QueueAssumption
<1>5. TypeOK'
  BY <1>1, <1>2, <1>3, <1>4 DEF ReadCopies, IInv, TypeOK
<1>6. NoLostWakeup'
  BY <1>3 DEF NoLostWakeup
<1> QED BY <1>5, <1>6 DEF IInv

LEMMA NextInv == IInv /\ [Next]_vars => IInv'
<1> SUFFICES ASSUME IInv, [Next]_vars PROVE IInv'
  OBVIOUS
<1> USE DEF IInv, TypeOK, NoLostWakeup, ring
<1>1. ASSUME NEW data \in Writes, WriteCall(data) PROVE IInv'
  <2>1. data \in Seq(Byte) /\ Len(data) <= MaxWrite
    BY QueueAssumption DEF Writes
  <2>2. "writer" \notin waiting
    BY <1>1 DEF WriteCall
  <2> QED BY <1>1, <2>1, <2>2 DEF WriteCall
<1>2. CASE WriteThrows
  BY <1>2 DEF WriteThrows
<1>3. CASE WriteClosed
  <2>1. pending' \in Seq(Byte) /\ Len(pending') <= MaxWrite
    BY <1>3, QueueAssumption DEF WriteClosed
  <2> QED BY <1>3, <2>1 DEF WriteClosed
<1>4. CASE WriteWaits
  BY <1>4, QueueAssumption DEF WriteWaits, Threads
<1>5. CASE WriteCopies
  BY <1>5, WriteCopiesInv
<1>6. ASSUME NEW length \in 1..MaxRead, NEW b \in BOOLEAN, ReadCall(length, b)
      PROVE  IInv'
  <2>1. "reader" \notin waiting /\ length \in 0..MaxRead
    BY <1>6, QueueAssumption DEF ReadCall
  <2> QED BY <1>6, <2>1 DEF ReadCall
<1>7. CASE ReadWaits
  BY <1>7 DEF ReadWaits, Threads
<1>8. CASE ReadNothing
  BY <1>8, QueueAssumption DEF ReadNothing
<1>9. CASE ReadClosed
  BY <1>9, QueueAssumption DEF ReadClosed
<1>10. CASE ReadCopies
  BY <1>10, ReadCopiesInv
<1>11. CASE Close
  <2>1. waiting' = {}
    BY <1>11, InvOneWaiter, NotifiedOne DEF Close, OneWaiter
  <2> QED BY <1>11, <2>1 DEF Close
<1>12. ASSUME NEW t \in Threads, SpuriousWakeup(t) PROVE IInv'
  BY <1>12 DEF SpuriousWakeup
<1>13. CASE UNCHANGED vars
  BY <1>13 DEF vars
<1> QED BY <1>1, <1>2, <1>3, <1>4, <1>5, <1>6, <1>7, <1>8, <1>9, <1>10,
           <1>11, <1>12, <1>13 DEF Next, WriteStep, ReadStep

\* The ring's indices, counts and contents keep their types, for every capacity
\* and every length of the reads and writes.
THEOREM TypeCorrect == Spec => []TypeOK
<1>1. IInv => TypeOK
  BY DEF IInv
<1> QED BY <1>1, InitInv, NextInv, PTL DEF Spec

\* read() and write() notify in every case in which the other thread may be
\* asleep: a sleeping thread's condition is still false.
THEOREM WakeupsAreNotLost == Spec => []NoLostWakeup
<1>1. IInv => NoLostWakeup
  BY DEF IInv
<1> QED BY <1>1, InitInv, NextInv, PTL DEF Spec

\* notify() always finds at most one sleeping thread, so that notifyAll() is
\* not needed.
THEOREM NotifySuffices == Spec => []OneWaiter
<1>1. IInv => OneWaiter
  BY InvOneWaiter
<1> QED BY <1>1, InitInv, NextInv, PTL DEF Spec
=============================================================================

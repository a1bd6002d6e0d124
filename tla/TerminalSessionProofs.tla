----------------------- MODULE TerminalSessionProofs -----------------------
(***************************************************************************)
(* For every size of the queues, chunks and buffers with ReadChunk <=      *)
(* QueueSize <= ReceiveSize: no output is stranded or lost while the       *)
(* session lives, and the session is cleaned up once.                      *)
(***************************************************************************)
EXTENDS TerminalSession, SequenceTheorems, TLAPS

\* Bytes are in the reader's hands only while it is in its write().
ReaderHands == reader # "write" => readerBytes = 0

\* Before initializeEmulator() there is no process and no thread.
NotStarted ==
  ~mEmulator => /\ waiter = "none" /\ child = "none" /\ mShellPid = 0
                /\ reader = "none" /\ writer = "none"

\* The one exit message: not yet sent, posted, being handled, or handled.
ExitMessage ==
  /\ waiter \in {"send", "done"} => child = "reaped"
  /\ waiter # "done" =>
       /\ \A i \in 1..Len(looper) : looper[i] # "EXITED"
       /\ handling # "EXITED" /\ mShellPid # -1
  /\ \A i, j \in 1..Len(looper) : looper[i] = "EXITED" /\ looper[j] = "EXITED" => i = j
  /\ handling = "EXITED" =>
       /\ \A i \in 1..Len(looper) : looper[i] # "EXITED"
       /\ mShellPid # -1
  /\ mShellPid = -1 =>
       \A i \in 1..Len(looper) : looper[i] # "EXITED"

IInv ==
  /\ TypeOK
  /\ ReaderHands
  /\ NotStarted
  /\ ExitMessage
  /\ OutputAnnounced
  /\ OutputConserved

LEMMA InitInv == Init => IInv
<1> SUFFICES ASSUME Init PROVE IInv
  OBVIOUS
<1>1. TypeOK
  <2>1. looper \in Seq(Messages)
    BY DEF Init
  <2>2. mEmulator \in BOOLEAN /\ fdOpen \in BOOLEAN /\ p2tOpen \in BOOLEAN /\ t2pOpen \in BOOLEAN
    BY DEF Init
  <2>3. /\ p2t \in 0..QueueSize /\ t2p \in 0..QueueSize /\ readerBytes \in 0..ReadChunk
        /\ writerBytes \in 0..WriteChunk /\ mainBytes \in 0..MaxInput
        /\ received \in 0..QueueSize /\ ptyOut \in 0..PtyRoom /\ ptyIn \in 0..PtyRoom
        /\ emitted \in 0..MaxOutput /\ shown \in Nat /\ typed \in 0..MaxInput
    BY SizeAssumption DEF Init
  <2> QED BY <2>1, <2>2, <2>3 DEF Init, TypeOK
<1>2. looper = << >> /\ Len(looper) = 0
  BY DEF Init
<1>3. ExitMessage
  BY <1>2 DEF Init, ExitMessage
<1>4. ReaderHands /\ NotStarted /\ OutputAnnounced /\ OutputConserved
  BY DEF Init, ReaderHands, NotStarted, OutputAnnounced, OutputConserved
<1> QED BY <1>1, <1>3, <1>4 DEF IInv

LEMMA TypeStep == TypeOK /\ [Next]_vars => TypeOK'
<1> SUFFICES ASSUME TypeOK, [Next]_vars PROVE TypeOK'
  OBVIOUS
<1> USE SizeAssumption DEF TypeOK, session, queues, readerVars, writerVars,
        mainVars, pty, history, Messages, ShellPid, MinOf
<1>1. CASE InitializeEmulator BY <1>1 DEF InitializeEmulator
<1>2. ASSUME NEW n \in 1..MaxInput, Write(n) PROVE TypeOK' BY <1>2 DEF Write
<1>3. CASE FinishIfRunning
  <2>1. killed' \in {"shell", "stale", "group"}
    BY <1>3 DEF FinishIfRunning
  <2> QED BY <1>3, <2>1 DEF FinishIfRunning
<1>4. CASE HandleMessage BY <1>4 DEF HandleMessage, Received
<1>5. CASE HandlerReturns
  <2>1. CASE handling = "EXITED"
    <3>1. /\ mShellPid' \in {0, ShellPid, -1}
          /\ fdOpen' \in BOOLEAN /\ p2tOpen' \in BOOLEAN /\ t2pOpen' \in BOOLEAN
          /\ mEmulator' = mEmulator
      BY <1>5, <2>1 DEF HandlerReturns, Cleanup
    <3>2. /\ main' = "idle" /\ handling' = "none" /\ received' = 0
          /\ UNCHANGED <<p2t, t2p, readerVars, writerVars, waiter, looper, mainBytes,
                         pty, history>>
      BY <1>5 DEF HandlerReturns
    <3> QED BY <3>1, <3>2
  <2>2. CASE handling # "EXITED"
    BY <1>5, <2>2 DEF HandlerReturns
  <2> QED BY <2>1, <2>2
<1>6. CASE MainWrites BY <1>6 DEF MainWrites
<1>7. ASSUME NEW n \in 1..MaxInput, EmulatorAnswers(n) PROVE TypeOK'
  BY <1>7 DEF EmulatorAnswers
<1>8. CASE ReaderReads BY <1>8 DEF ReaderReads
<1>9. CASE ReaderFails BY <1>9 DEF ReaderFails
<1>10. CASE ReaderWrites BY <1>10 DEF ReaderWrites
<1>11. CASE ReaderRefused BY <1>11 DEF ReaderRefused
<1>12. CASE ReaderSends BY <1>12 DEF ReaderSends
<1>13. CASE WriterTakes BY <1>13 DEF WriterTakes
<1>14. CASE WriterStops BY <1>14 DEF WriterStops
<1>15. CASE WriterPuts BY <1>15 DEF WriterPuts
<1>16. CASE WriterFails BY <1>16 DEF WriterFails
<1>17. CASE WaiterReaps BY <1>17 DEF WaiterReaps
<1>18. CASE WaiterSends BY <1>18 DEF WaiterSends
<1>19. ASSUME NEW n \in 1..PtyRoom, ChildWrites(n) PROVE TypeOK'
  BY <1>19 DEF ChildWrites
<1>20. ASSUME NEW n \in 1..PtyRoom, ChildReads(n) PROVE TypeOK'
  BY <1>20 DEF ChildReads
<1>21. CASE ChildExits BY <1>21 DEF ChildExits
<1>22. CASE UNCHANGED vars BY <1>22 DEF vars
<1> QED BY <1>1, <1>2, <1>3, <1>4, <1>5, <1>6, <1>7, <1>8, <1>9, <1>10, <1>11,
           <1>12, <1>13, <1>14, <1>15, <1>16, <1>17, <1>18, <1>19, <1>20, <1>21,
           <1>22 DEF Next, Handler, Reader, Writer, Waiter

\* The conjuncts that count bytes.
LEMMA OutputStep ==
  ASSUME IInv, [Next]_vars
  PROVE  (ReaderHands /\ OutputAnnounced /\ OutputConserved)'
<1> DEFINE Goal == ReaderHands /\ OutputAnnounced /\ OutputConserved
<1> USE SizeAssumption DEF session, queues, readerVars, writerVars,
        mainVars, pty, history, MinOf, ReaderHands, OutputAnnounced, OutputConserved
<1>0. /\ p2t \in 0..QueueSize /\ readerBytes \in 0..ReadChunk /\ ptyOut \in 0..PtyRoom
      /\ emitted \in 0..MaxOutput /\ shown \in Nat /\ p2tOpen \in BOOLEAN
      /\ looper \in Seq(Messages) /\ Goal
  BY DEF IInv, TypeOK
<1>1. CASE InitializeEmulator
  <2>1. reader = "none"
    BY <1>1 DEF InitializeEmulator, IInv, NotStarted
  <2> QED BY <1>0, <1>1, <2>1 DEF InitializeEmulator
<1>2. ASSUME NEW n \in 1..MaxInput, Write(n) PROVE Goal' BY <1>0, <1>2 DEF Write
<1>3. CASE FinishIfRunning BY <1>0, <1>3 DEF FinishIfRunning
<1>4. CASE HandleMessage BY <1>0, <1>4 DEF HandleMessage, Received
<1>5. CASE HandlerReturns BY <1>0, <1>5 DEF HandlerReturns, Cleanup
<1>6. CASE MainWrites BY <1>0, <1>6 DEF MainWrites
<1>7. ASSUME NEW n \in 1..MaxInput, EmulatorAnswers(n) PROVE Goal'
  BY <1>0, <1>7 DEF EmulatorAnswers
<1>8. CASE ReaderReads BY <1>0, <1>8 DEF ReaderReads
<1>9. CASE ReaderFails BY <1>0, <1>9 DEF ReaderFails
<1>10. CASE ReaderWrites BY <1>0, <1>10 DEF ReaderWrites
<1>11. CASE ReaderRefused BY <1>0, <1>11 DEF ReaderRefused
<1>12. CASE ReaderSends
  <2>1. looper' # << >>
    BY <1>0, <1>12 DEF ReaderSends
  <2> QED BY <1>0, <1>12, <2>1 DEF ReaderSends
<1>13. CASE Writer
  BY <1>0, <1>13 DEF Writer, WriterTakes, WriterStops, WriterPuts, WriterFails
<1>14. CASE WaiterReaps BY <1>0, <1>14 DEF WaiterReaps
<1>15. CASE WaiterSends
  <2>1. looper' # << >>
    BY <1>0, <1>15 DEF WaiterSends
  <2> QED BY <1>0, <1>15, <2>1 DEF WaiterSends
<1>16. ASSUME NEW n \in 1..PtyRoom, ChildWrites(n) PROVE Goal'
  BY <1>0, <1>16 DEF ChildWrites
<1>17. ASSUME NEW n \in 1..PtyRoom, ChildReads(n) PROVE Goal'
  BY <1>0, <1>17 DEF ChildReads
<1>18. CASE ChildExits BY <1>0, <1>18 DEF ChildExits
<1>19. CASE UNCHANGED vars BY <1>0, <1>19 DEF vars
<1> QED BY <1>1, <1>2, <1>3, <1>4, <1>5, <1>6, <1>7, <1>8, <1>9, <1>10, <1>11,
           <1>12, <1>13, <1>14, <1>15, <1>16, <1>17, <1>18, <1>19
        DEF Next, Handler, Reader, Waiter

\* The conjuncts about the life of the child and its exit message.
LEMMA ExitStep ==
  ASSUME IInv, [Next]_vars
  PROVE  (NotStarted /\ ExitMessage)'
<1> DEFINE Goal == NotStarted /\ ExitMessage
<1> USE DEF session, queues, readerVars, writerVars, mainVars, pty, history,
        NotStarted, ExitMessage
<1>0. /\ Goal /\ looper \in Seq(Messages) /\ mEmulator \in BOOLEAN
      /\ mShellPid \in {0, ShellPid, -1} /\ ShellPid = 1
  BY DEF IInv, TypeOK, ShellPid
<1>1. CASE InitializeEmulator BY <1>0, <1>1 DEF InitializeEmulator
<1>2. ASSUME NEW n \in 1..MaxInput, Write(n) PROVE Goal' BY <1>0, <1>2 DEF Write
<1>3. CASE FinishIfRunning BY <1>0, <1>3 DEF FinishIfRunning
<1>4. CASE HandleMessage
  <2>1. /\ Len(looper) \in Nat \ {0} /\ Len(looper') = Len(looper) - 1
        /\ handling' = looper[1]
        /\ \A i \in 1..Len(looper') : looper'[i] = looper[i + 1]
    BY <1>0, <1>4 DEF HandleMessage
  <2>2. UNCHANGED <<mEmulator, mShellPid, waiter, child, reader, writer>>
    BY <1>4 DEF HandleMessage
  <2>3. \A i \in 1..Len(looper') : i + 1 \in 1..Len(looper)
    BY <2>1
  <2>4. CASE looper[1] = "EXITED"
    <3>1. waiter = "done" /\ mShellPid # -1 /\ child = "reaped"
      BY <1>0, <2>1, <2>4
    <3>2. \A i \in 1..Len(looper') : looper'[i] # "EXITED"
      BY <1>0, <2>1, <2>3, <2>4
    <3>3. NotStarted'
      BY <1>0, <2>2
    <3>4. ExitMessage'
      BY <3>1, <3>2, <2>2
    <3> QED BY <3>3, <3>4
  <2>5. CASE looper[1] # "EXITED"
    <3>1. NotStarted'
      BY <1>0, <2>2
    <3>2. handling' # "EXITED"
      BY <2>1, <2>5
    <3>3. \A i, j \in 1..Len(looper') :
             looper'[i] = "EXITED" /\ looper'[j] = "EXITED" => i = j
      <4> SUFFICES ASSUME NEW i \in 1..Len(looper'), NEW j \in 1..Len(looper'),
                          looper'[i] = "EXITED", looper'[j] = "EXITED"
                   PROVE  i = j
        OBVIOUS
      <4>1. i + 1 \in 1..Len(looper) /\ j + 1 \in 1..Len(looper)
        BY <2>3
      <4>2. i + 1 = j + 1
        BY <4>1, <1>0, <2>1
      <4> QED BY <4>2, <2>1
    <3>4. waiter' # "done" \/ mShellPid' = -1 =>
            \A i \in 1..Len(looper') : looper'[i] # "EXITED"
      BY <1>0, <2>1, <2>2, <2>3
    <3> QED BY <1>0, <2>2, <3>1, <3>2, <3>3, <3>4
  <2> QED BY <2>4, <2>5
<1>5. CASE HandlerReturns BY <1>0, <1>5 DEF HandlerReturns, Cleanup
<1>6. CASE MainWrites BY <1>0, <1>6 DEF MainWrites
<1>7. ASSUME NEW n \in 1..MaxInput, EmulatorAnswers(n) PROVE Goal'
  BY <1>0, <1>7 DEF EmulatorAnswers
<1>8. CASE ReaderReads \/ ReaderFails \/ ReaderWrites \/ ReaderRefused
  BY <1>0, <1>8 DEF ReaderReads, ReaderFails, ReaderWrites, ReaderRefused
<1>9. ASSUME NEW m \in {"NEW_INPUT", "EXITED"}, looper' = Append(looper, m)
      PROVE  /\ Len(looper') = Len(looper) + 1 /\ Len(looper) \in Nat
             /\ \A i \in 1..Len(looper) : looper'[i] = looper[i]
             /\ looper'[Len(looper) + 1] = m
  BY <1>0, <1>9 DEF Messages
<1>10. CASE ReaderSends
  <2>1. \A i \in 1..Len(looper') : looper'[i] = "EXITED" =>
           i \in 1..Len(looper) /\ looper[i] = "EXITED"
    BY <1>9, <1>10 DEF ReaderSends
  <2>2. UNCHANGED <<mEmulator, mShellPid, waiter, child, writer, handling>>
        /\ reader = "send" /\ reader' = "read"
    BY <1>10 DEF ReaderSends
  <2>3. NotStarted'
    BY <1>0, <2>2
  <2>4. ExitMessage'
    BY <1>0, <2>1, <2>2
  <2> QED BY <2>3, <2>4
<1>11. CASE Writer
  BY <1>0, <1>11 DEF Writer, WriterTakes, WriterStops, WriterPuts, WriterFails
<1>12. CASE WaiterReaps BY <1>0, <1>12 DEF WaiterReaps
<1>13. CASE WaiterSends
  <2>1. \A i \in 1..Len(looper') : looper'[i] = "EXITED" => i = Len(looper) + 1
    BY <1>0, <1>9, <1>13 DEF WaiterSends
  <2>2. UNCHANGED <<mEmulator, mShellPid, child, reader, writer, handling>>
        /\ waiter = "send" /\ waiter' = "done"
    BY <1>13 DEF WaiterSends
  <2> QED BY <1>0, <2>1, <2>2
<1>14. ASSUME NEW n \in 1..PtyRoom, ChildWrites(n) PROVE Goal'
  BY <1>0, <1>14 DEF ChildWrites
<1>15. ASSUME NEW n \in 1..PtyRoom, ChildReads(n) PROVE Goal'
  BY <1>0, <1>15 DEF ChildReads
<1>16. CASE ChildExits BY <1>0, <1>16 DEF ChildExits
<1>17. CASE UNCHANGED vars BY <1>0, <1>17 DEF vars
<1> QED BY <1>1, <1>2, <1>3, <1>4, <1>5, <1>6, <1>7, <1>8, <1>10, <1>11, <1>12,
           <1>13, <1>14, <1>15, <1>16, <1>17 DEF Next, Handler, Reader, Waiter

LEMMA NextInv == IInv /\ [Next]_vars => IInv'
BY TypeStep, OutputStep, ExitStep DEF IInv

\* Every variable of the session keeps its type: the queues never hold more
\* than their size, and no count becomes negative.
THEOREM TypeCorrect == Spec => []TypeOK
<1>1. IInv => TypeOK
  BY DEF IInv
<1> QED BY <1>1, InitInv, NextInv, PTL DEF Spec

\* Bytes in the queue to the terminal always have a message announcing them, or
\* a reader about to post one, whenever a chunk fits the queue and the receive
\* buffer holds it.
THEOREM OutputIsAnnounced == Spec => []OutputAnnounced
<1>1. IInv => OutputAnnounced
  BY DEF IInv
<1> QED BY <1>1, InitInv, NextInv, PTL DEF Spec

\* No byte of output is lost or duplicated before the session is cleaned up.
THEOREM OutputIsConserved == Spec => []OutputConserved
<1>1. IInv => OutputConserved
  BY DEF IInv
<1> QED BY <1>1, InitInv, NextInv, PTL DEF Spec

\* The session is cleaned up at most once, after its child has been reaped.
THEOREM CleanedUpOnce == Spec => []FinishedOnce
<1>1. IInv => FinishedOnce
  BY DEF IInv, TypeOK, ExitMessage, FinishedOnce
<1> QED BY <1>1, InitInv, NextInv, PTL DEF Spec
=============================================================================

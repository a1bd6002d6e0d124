-------------------------- MODULE TerminalSession --------------------------
(***************************************************************************)
(* emulator/TerminalSession.java: a child process behind a pseudoterminal, *)
(* two byte queues, three threads and the main thread's message handler.   *)
(*                                                                         *)
(*   child -> pty -> reader thread -> p2t queue -> main thread (emulator)  *)
(*   main thread -> t2p queue -> writer thread -> pty -> child             *)
(*   child exit -> waiter thread -> MSG_PROCESS_EXITED -> main thread      *)
(*                                                                         *)
(* Bytes are counted, not named: ByteQueue shows that a queue delivers     *)
(* them in order.  A blocked queue operation is a disabled step, which     *)
(* ByteQueue's NoLostWakeup justifies.                                     *)
(***************************************************************************)
EXTENDS Integers, Sequences

CONSTANTS QueueSize,    \* size of both ByteQueues (4096)
          ReadChunk,    \* buffer of the reader thread (4096)
          WriteChunk,   \* buffer of the writer thread (4096)
          ReceiveSize,  \* mReceiveBuffer of the message handler (4096)
          PtyRoom,      \* bytes the kernel buffers in each direction of the pty
          MaxOutput,    \* bound: bytes the child writes
          MaxInput      \* bound: bytes the main thread writes

\* The sizes in the code are all 4096; what matters is how they compare.
ASSUME SizeAssumption ==
  /\ QueueSize \in Nat /\ ReadChunk \in Nat \ {0} /\ WriteChunk \in Nat \ {0}
  /\ ReceiveSize \in Nat /\ PtyRoom \in Nat \ {0}
  /\ MaxOutput \in Nat /\ MaxInput \in Nat
  /\ ReadChunk <= QueueSize
  /\ QueueSize <= ReceiveSize

VARIABLES
  mEmulator,   \* whether initializeEmulator() has run (mEmulator # null)
  mShellPid,   \* 0 not started, ShellPid running, -1 finished
  fdOpen,      \* whether mTerminalFileDescriptor is open
  p2t, p2tOpen,         \* mProcessToTerminalIOQueue: stored bytes, mOpen
  t2p, t2pOpen,         \* mTerminalToProcessIOQueue: stored bytes, mOpen
  reader, readerBytes,  \* TermSessionInputReader: where it is, bytes in hand
  writer, writerBytes,  \* TermSessionOutputWriter: where it is, bytes in hand
  waiter,               \* TermSessionWaiter
  looper,      \* messages posted to mMainThreadHandler, oldest first
  main,        \* what the main thread is doing
  mainBytes,   \* bytes its blocking write() still has to hand over
  handling,    \* the message it is handling
  received,    \* bytes that message made it append
  child,       \* the process: none, running, zombie, reaped
  ptyOut, ptyIn,        \* bytes in the pty, from and to the child
  emitted, shown, typed,\* history: bytes the child wrote, the emulator
                        \* appended, and the main thread wrote
  killed       \* history: whom finishIfRunning() last signalled

session == <<mEmulator, mShellPid, fdOpen>>
queues  == <<p2t, p2tOpen, t2p, t2pOpen>>
readerVars == <<reader, readerBytes>>
writerVars == <<writer, writerBytes>>
mainVars == <<main, mainBytes, handling, received>>
pty == <<child, ptyOut, ptyIn>>
history == <<emitted, shown, typed, killed>>
vars == <<session, queues, readerVars, writerVars, waiter, looper, mainVars,
          pty, history>>

ShellPid == 1
MinOf(a, b) == IF a <= b THEN a ELSE b
ChildGone == child \in {"zombie", "reaped"}

Init ==
  /\ mEmulator = FALSE /\ mShellPid = 0 /\ fdOpen = FALSE
  /\ p2t = 0 /\ p2tOpen = TRUE /\ t2p = 0 /\ t2pOpen = TRUE
  /\ reader = "none" /\ readerBytes = 0
  /\ writer = "none" /\ writerBytes = 0
  /\ waiter = "none"
  /\ looper = << >>
  /\ main = "idle" /\ mainBytes = 0 /\ handling = "none" /\ received = 0
  /\ child = "none" /\ ptyOut = 0 /\ ptyIn = 0
  /\ emitted = 0 /\ shown = 0 /\ typed = 0 /\ killed = "none"

-----------------------------------------------------------------------------
(* The main thread, outside the message handler                            *)

\* updateSize() of a session without emulator: create it, start the child on a
\* new pty and the three threads.  Later calls only resize, which changes
\* nothing modelled here.
InitializeEmulator ==
  /\ main = "idle"
  /\ ~mEmulator
  /\ mEmulator' = TRUE
  /\ mShellPid' = ShellPid
  /\ fdOpen' = TRUE
  /\ child' = "running"
  /\ reader' = "read" /\ writer' = "take" /\ waiter' = "wait"
  /\ UNCHANGED <<queues, readerBytes, writerBytes, looper, mainVars, ptyOut,
                 ptyIn, history>>

\* write() of n bytes, from a key press or a paste: only to a started session
\* that has not been cleaned up.
Write(n) ==
  /\ main = "idle"
  /\ mShellPid > 0
  /\ typed + n <= MaxInput
  /\ main' = "write" /\ mainBytes' = n
  /\ typed' = typed + n
  /\ UNCHANGED <<session, queues, readerVars, writerVars, waiter, looper,
                 handling, received, pty, emitted, shown, killed>>

\* mTerminalToProcessIOQueue.write(): blocks the main thread while the queue is
\* full (only the main thread closes it).  A finished write returns to the
\* handler, if that made it.
MainWrites ==
  /\ main = "write"
  /\ t2p < QueueSize
  /\ LET n == MinOf(mainBytes, QueueSize - t2p)
     IN /\ t2p' = t2p + n
        /\ mainBytes' = mainBytes - n
        /\ main' = IF n < mainBytes THEN "write"
                   ELSE IF handling = "none" THEN "idle" ELSE "append"
  /\ UNCHANGED <<session, p2t, p2tOpen, t2pOpen, readerVars, writerVars, waiter,
                 looper, handling, received, pty, history>>

\* finishIfRunning(): SIGKILL to mShellPid.  Pid 0 is the caller's own process
\* group, and the application is gone; a pid that waitFor() has already reaped
\* is nobody's, or another's.
FinishIfRunning ==
  /\ main = "idle"
  /\ mShellPid # -1
  /\ killed' = CASE mShellPid = 0 -> "group"
                 [] child = "reaped" -> "stale"
                 [] OTHER -> "shell"
  /\ child' = IF child = "running" THEN "zombie" ELSE child
  /\ UNCHANGED <<session, queues, readerVars, writerVars, waiter, looper,
                 mainVars, ptyOut, ptyIn, emitted, shown, typed>>

-----------------------------------------------------------------------------
(* mMainThreadHandler.handleMessage                                        *)

\* Mutant of Received: a receive buffer smaller than the queue.
ReceivedPart == IF p2tOpen THEN MinOf(ReceiveSize - 1, p2t) ELSE 0

\* Mutant of Received: the buffer is taken to be full.
ReceivedAll == IF p2tOpen THEN ReceiveSize ELSE 0

\* The bytes a non-blocking read() of the queue returns; -1 appends nothing.
Received == IF p2tOpen THEN MinOf(ReceiveSize, p2t) ELSE 0

HandleMessage ==
  /\ main = "idle"
  /\ looper # << >>
  /\ handling' = Head(looper)
  /\ looper' = Tail(looper)
  /\ p2t' = p2t - Received
  /\ received' = Received
  /\ shown' = shown + Received
  /\ main' = "append"
  /\ UNCHANGED <<session, p2tOpen, t2p, t2pOpen, readerVars, writerVars, waiter,
                 mainBytes, pty, emitted, typed, killed>>

\* While it appends, the emulator may answer a query of the child: a write() on
\* the main thread, in the middle of the handler.
EmulatorAnswers(n) ==
  /\ main = "append"
  /\ received > 0
  /\ mShellPid > 0
  /\ typed + n <= MaxInput
  /\ main' = "write" /\ mainBytes' = n
  /\ typed' = typed + n
  /\ UNCHANGED <<session, queues, readerVars, writerVars, waiter, looper,
                 handling, received, pty, emitted, shown, killed>>

\* Mutant of Cleanup: the queue to the process is left open.
CleanupOneQueue ==
  /\ mShellPid' = -1
  /\ p2tOpen' = FALSE
  /\ fdOpen' = FALSE
  /\ UNCHANGED <<mEmulator, t2pOpen>>

\* cleanupResources()
Cleanup ==
  /\ mShellPid' = -1
  /\ t2pOpen' = FALSE
  /\ p2tOpen' = FALSE
  /\ fdOpen' = FALSE
  /\ UNCHANGED mEmulator

HandlerReturns ==
  /\ main = "append"
  /\ IF handling = "EXITED" THEN Cleanup
     ELSE UNCHANGED <<session, p2tOpen, t2pOpen>>
  /\ main' = "idle"
  /\ handling' = "none"
  /\ received' = 0
  /\ UNCHANGED <<p2t, t2p, readerVars, writerVars, waiter, looper, mainBytes,
                 pty, history>>

-----------------------------------------------------------------------------
(* TermSessionInputReader                                                  *)

\* termIn.read(): some of the bytes that are there.
ReaderReads ==
  /\ reader = "read"
  /\ fdOpen
  /\ \E n \in 1..MinOf(ReadChunk, ptyOut) :
       /\ readerBytes' = n
       /\ ptyOut' = ptyOut - n
  /\ reader' = "write"
  /\ UNCHANGED <<session, queues, writerVars, waiter, looper, mainVars, child,
                 ptyIn, history>>

\* The descriptor is closed, or the child is gone and its output is read: an
\* exception ends the thread.
ReaderFails ==
  /\ reader = "read"
  /\ ~fdOpen \/ (ChildGone /\ ptyOut = 0)
  /\ reader' = "done"
  /\ UNCHANGED <<session, queues, readerBytes, writerVars, waiter, looper,
                 mainVars, pty, history>>

\* Mutant of ReaderWrites: what does not fit is dropped.
ReaderWritesWhatFits ==
  /\ reader = "write"
  /\ p2tOpen
  /\ p2t' = p2t + MinOf(readerBytes, QueueSize - p2t)
  /\ readerBytes' = 0
  /\ reader' = "send"
  /\ UNCHANGED <<session, p2tOpen, t2p, t2pOpen, writerVars, waiter, looper,
                 mainVars, pty, history>>

\* Mutant of ReaderWrites: the message is posted for complete chunks only.
ReaderWritesAnnouncesChunks ==
  /\ reader = "write"
  /\ p2tOpen
  /\ p2t < QueueSize
  /\ LET n == MinOf(readerBytes, QueueSize - p2t)
     IN /\ p2t' = p2t + n
        /\ readerBytes' = readerBytes - n
        /\ reader' = CASE n < readerBytes -> "write"
                       [] p2t + n = QueueSize -> "send"
                       [] OTHER -> "read"
  /\ UNCHANGED <<session, p2tOpen, t2p, t2pOpen, writerVars, waiter, looper,
                 mainVars, pty, history>>

\* mProcessToTerminalIOQueue.write(): what fits now; the rest waits for room.
ReaderWrites ==
  /\ reader = "write"
  /\ p2tOpen
  /\ p2t < QueueSize
  /\ LET n == MinOf(readerBytes, QueueSize - p2t)
     IN /\ p2t' = p2t + n
        /\ readerBytes' = readerBytes - n
        /\ reader' = IF n < readerBytes THEN "write" ELSE "send"
  /\ UNCHANGED <<session, p2tOpen, t2p, t2pOpen, writerVars, waiter, looper,
                 mainVars, pty, history>>

\* The queue was closed: write() returns false and the thread ends.
ReaderRefused ==
  /\ reader = "write"
  /\ ~p2tOpen
  /\ reader' = "done"
  /\ readerBytes' = 0
  /\ UNCHANGED <<session, queues, writerVars, waiter, looper, mainVars, pty,
                 history>>

\* sendEmptyMessage(MSG_NEW_INPUT)
ReaderSends ==
  /\ reader = "send"
  /\ looper' = Append(looper, "NEW_INPUT")
  /\ reader' = "read"
  /\ UNCHANGED <<session, queues, readerBytes, writerVars, waiter, mainVars, pty,
                 history>>

-----------------------------------------------------------------------------
(* TermSessionOutputWriter                                                 *)

\* mTerminalToProcessIOQueue.read(buffer, true)
WriterTakes ==
  /\ writer = "take"
  /\ t2pOpen
  /\ t2p > 0
  /\ writerBytes' = MinOf(WriteChunk, t2p)
  /\ t2p' = t2p - MinOf(WriteChunk, t2p)
  /\ writer' = "put"
  /\ UNCHANGED <<session, p2t, p2tOpen, t2pOpen, readerVars, waiter, looper,
                 mainVars, pty, history>>

\* The queue was closed: -1, and the thread ends.
WriterStops ==
  /\ writer = "take"
  /\ ~t2pOpen
  /\ writer' = "done"
  /\ UNCHANGED <<session, queues, readerVars, writerBytes, waiter, looper,
                 mainVars, pty, history>>

\* termOut.write(): into the pty as room appears.
WriterPuts ==
  /\ writer = "put"
  /\ fdOpen /\ ~ChildGone
  /\ ptyIn < PtyRoom
  /\ LET n == MinOf(writerBytes, PtyRoom - ptyIn)
     IN /\ ptyIn' = ptyIn + n
        /\ writerBytes' = writerBytes - n
        /\ writer' = IF n < writerBytes THEN "put" ELSE "take"
  /\ UNCHANGED <<session, queues, readerVars, waiter, looper, mainVars, child,
                 ptyOut, history>>

\* No process on the other side, or a closed descriptor: an IOException ends
\* the thread.
WriterFails ==
  /\ writer = "put"
  /\ ~fdOpen \/ ChildGone
  /\ writer' = "done"
  /\ writerBytes' = 0
  /\ UNCHANGED <<session, queues, readerVars, waiter, looper, mainVars, pty,
                 history>>

-----------------------------------------------------------------------------
(* TermSessionWaiter                                                       *)

\* Mutant of WaiterReaps: waitFor() does not wait.
WaiterReapsEarly ==
  /\ waiter = "wait"
  /\ waiter' = "send"
  /\ child' = IF child = "zombie" THEN "reaped" ELSE child
  /\ UNCHANGED <<session, queues, readerVars, writerVars, looper, mainVars,
                 ptyOut, ptyIn, history>>

\* JNI.waitFor(mShellPid)
WaiterReaps ==
  /\ waiter = "wait"
  /\ child = "zombie"
  /\ child' = "reaped"
  /\ waiter' = "send"
  /\ UNCHANGED <<session, queues, readerVars, writerVars, looper, mainVars,
                 ptyOut, ptyIn, history>>

\* Mutant of WaiterSends: the wrong message.
WaiterSendsNewInput ==
  /\ waiter = "send"
  /\ looper' = Append(looper, "NEW_INPUT")
  /\ waiter' = "done"
  /\ UNCHANGED <<session, queues, readerVars, writerVars, mainVars, pty, history>>

\* sendMessage(MSG_PROCESS_EXITED)
WaiterSends ==
  /\ waiter = "send"
  /\ looper' = Append(looper, "EXITED")
  /\ waiter' = "done"
  /\ UNCHANGED <<session, queues, readerVars, writerVars, mainVars, pty, history>>

-----------------------------------------------------------------------------
(* The child process and its half of the pty                               *)

ChildWrites(n) ==
  /\ child = "running"
  /\ ptyOut + n <= PtyRoom
  /\ emitted + n <= MaxOutput
  /\ ptyOut' = ptyOut + n
  /\ emitted' = emitted + n
  /\ UNCHANGED <<session, queues, readerVars, writerVars, waiter, looper,
                 mainVars, child, ptyIn, shown, typed, killed>>

ChildReads(n) ==
  /\ child = "running"
  /\ n <= ptyIn
  /\ ptyIn' = ptyIn - n
  /\ UNCHANGED <<session, queues, readerVars, writerVars, waiter, looper,
                 mainVars, child, ptyOut, history>>

ChildExits ==
  /\ child = "running"
  /\ child' = "zombie"
  /\ UNCHANGED <<session, queues, readerVars, writerVars, waiter, looper,
                 mainVars, ptyOut, ptyIn, history>>

-----------------------------------------------------------------------------
Handler == HandleMessage \/ HandlerReturns \/ MainWrites
Reader  == ReaderReads \/ ReaderFails \/ ReaderWrites \/ ReaderRefused \/ ReaderSends
Writer  == WriterTakes \/ WriterStops \/ WriterPuts \/ WriterFails
Waiter  == WaiterReaps \/ WaiterSends

Next ==
  /\ killed # "group"
  /\ \/ InitializeEmulator
     \/ \E n \in 1..MaxInput : Write(n)
     \/ FinishIfRunning
     \/ Handler
     \/ \E n \in 1..MaxInput : EmulatorAnswers(n)
     \/ Reader
     \/ Writer
     \/ Waiter
     \/ \E n \in 1..PtyRoom : ChildWrites(n)
     \/ \E n \in 1..PtyRoom : ChildReads(n)
     \/ ChildExits

Spec == Init /\ [][Next]_vars

\* Every thread that can run is scheduled, the main looper delivers its
\* messages, and the child keeps reading its terminal while it lives.  The
\* child need not write or exit, nobody need type or kill.
Fairness ==
  /\ WF_vars(Handler)
  /\ WF_vars(Reader)
  /\ WF_vars(Writer)
  /\ WF_vars(Waiter)
  /\ WF_vars(ChildReads(1))

FairSpec == Spec /\ Fairness

-----------------------------------------------------------------------------
(* Properties                                                              *)

Messages == {"NEW_INPUT", "EXITED"}

TypeOK ==
  /\ mEmulator \in BOOLEAN /\ mShellPid \in {0, ShellPid, -1} /\ fdOpen \in BOOLEAN
  /\ p2t \in 0..QueueSize /\ p2tOpen \in BOOLEAN
  /\ t2p \in 0..QueueSize /\ t2pOpen \in BOOLEAN
  /\ reader \in {"none", "read", "write", "send", "done"}
  /\ readerBytes \in 0..ReadChunk
  /\ writer \in {"none", "take", "put", "done"}
  /\ writerBytes \in 0..WriteChunk
  /\ waiter \in {"none", "wait", "send", "done"}
  /\ looper \in Seq(Messages)
  /\ main \in {"idle", "append", "write"} /\ mainBytes \in 0..MaxInput
  /\ handling \in Messages \cup {"none"} /\ received \in 0..QueueSize
  /\ child \in {"none", "running", "zombie", "reaped"}
  /\ ptyOut \in 0..PtyRoom /\ ptyIn \in 0..PtyRoom
  /\ emitted \in 0..MaxOutput /\ shown \in Nat /\ typed \in 0..MaxInput
  /\ killed \in {"none", "shell", "stale", "group"}

\* Output is never stranded: as long as the session lives, bytes in the queue
\* have a message that will make the main thread read them, or the reader is
\* about to post it.  The reader posts only after its whole chunk is in the
\* queue, so a reader blocked half way depends on an earlier message; this
\* holds because a chunk fits an empty queue and one message empties it.
OutputAnnounced ==
  p2tOpen /\ p2t > 0 => reader = "send" \/ looper # << >>

\* Until the queues are closed every byte the child wrote is in exactly one
\* place: in the pty, in the reader's hands, in the queue, or on the screen.
OutputConserved ==
  p2tOpen => emitted = ptyOut + readerBytes + p2t + shown

\* cleanupResources() runs once, after the child has been reaped, and no
\* message that could run it again is left.
FinishedOnce ==
  mShellPid = -1 =>
    /\ child = "reaped" /\ waiter = "done"
    /\ \A i \in 1..Len(looper) : looper[i] # "EXITED"
    /\ handling # "EXITED"

MainStuck == <>[](main = "write")

\* What a living child writes reaches the screen, unless the main thread is
\* blocked for ever in write().
OutputShown ==
  MainStuck \/ \A k \in 1..MaxOutput :
                 (emitted >= k) ~> (shown >= k \/ child # "running")

\* The exit of the child, by itself or by finishIfRunning(), ends the session,
\* unless the main thread is blocked for ever in write().
SessionFinishes == MainStuck \/ ((child = "zombie") ~> (mShellPid = -1))

\* The end of the session ends its three threads, wherever they were: reading
\* or writing the pty, waiting for a queue, or about to post.
ThreadsEnd ==
  (mShellPid = -1) ~> (reader = "done" /\ writer = "done" /\ waiter = "done")

-----------------------------------------------------------------------------
(* What comments in the code say and the code does not do                  *)

\* ByteQueue.write: "Returns whether the output was totally written, false if it
\* was closed before."  A write() of the main thread returns.
MainWriteReturns == (main = "write") ~> (main # "write")
=============================================================================

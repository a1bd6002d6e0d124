# TLA+ models of vShell

vShell is an Android terminal whose only program is QEMU. It unpacks a disk and
a CD image, starts QEMU on a pseudo terminal and shows what QEMU prints. This
directory models the concurrent core, the life cycle of the application, the
screen buffer and the cursor of the emulator, checks the models with TLC and
proves their main invariants with TLAPS.
Paths below are relative to `src/app/src/main/java/app/virtshell/`.

## Inventory and how the parts interact

* `emulator/ByteQueue.java`: a bounded byte ring shared by two threads.
* `emulator/TerminalSession.java`, `emulator/JNI.java`: one QEMU process on a
  pty, with a reader, a writer and a waiter thread, two byte queues, and a
  handler on the main thread.
* `Installer.java`, `TerminalPreferences.java`: extraction of the images on a
  thread, and the stored version that says whether it must be repeated.
* `TerminalService.java`, `TerminalActivity.java`: the foreground service that
  owns the session, and the activities that bind to it.
* `emulator/TerminalEmulator.java`, `TerminalBuffer.java`, `TerminalRow.java`:
  the interpreter of control sequences, the ring of rows it writes to, and one
  row. `TerminalSession` feeds the emulator on the main thread.
* `terminal_view/`: drawing, scrolling, selection, key input. Not modelled yet.
* `InputDispatcher.java`, `ExtraKeysView.java`, `Bell.java`: input and bell. Not
  modelled yet.
* Tables, drawing, settings screens, vendored C libraries and build scripts:
  not modelled. PROJECT.json gives the reason for each.

## Modules

**ByteQueue** has the ring byte for byte (`mBuffer`, `mHead`, `mStoredBytes`,
`mOpen`). `waiting` is the set of threads inside `wait()`. One action is one
stay in the monitor, since both methods are `synchronized`. A write larger than
the queue is several actions. **ByteChannel** is the promise: a bounded FIFO.

**TerminalSession** counts bytes instead of storing them. Every thread is a
program counter (`reader`, `writer`, `waiter`, `main`). The queues are used
through what ByteQueue promises. The child process and the pty are environment
actions: they write, read and exit at any time.

**Installer** copies files buffer by buffer. `blocks` says which version each
buffer came from, or that the guest wrote it. The process may die between any
two steps, the package may be upgraded, copies may fail, and activities may be
recreated while their thread runs. `savedVersion` follows `dataVersion` later,
because `apply()` is asynchronous.

**TerminalService** has one action per Android callback. Android chooses the
order. An uncaught exception ends the process (`crashed`). With
`LateDestroy = TRUE` an activity may be created while its predecessor is still
finishing.

**TerminalBuffer** has the ring of rows (`mLines`, `mScreenFirstRow`,
`mActiveTranscriptRows`), scrolling between margins, and both paths of
`resize()`: the fast one that shifts the screen over the ring and the slow one
that copies every character to rows of another width. Rows hold characters of
one column and the wrap mark. What is only returned by `resize()`, the new
cursor, is checked as a state predicate over every cursor (`CursorOnScreen`,
`CursorFollowsText`). **ScreenText** is the promise: a screen over a bounded
history, as a plain sequence of lines.

**TerminalEmulator** has the cursor, the pending wrap, the four margins, the
modes that move them, the two screens with their sizes and the saved cursors.
There is one action per control function; a function is described by where it
puts the cursor and by whether the calls it makes on TerminalBuffer are legal
(`Handler(legal)`: an illegal call throws and ends the process). The text is
TerminalBuffer's, so where a resize puts the cursor is any place on the new
screen. Four things a program in the guest may do break the properties; they are
named (`Hazards`), and `uses` says which of them this program does.

## Runs

| run | shows |
|---|---|
| queue | ByteQueue implements ByteChannel; no lost wake-up; never two waiters, so `notify()` suffices; calls return |
| session | output is announced, conserved and shown; one clean-up; the session and its threads end |
| session_main_write | expected violation: `write()` on the main thread can block for ever once the writer thread is gone |
| installer_crashes | a machine only runs on complete system files; guest data survives deaths, failures and upgrades |
| installer_recreation | with recreated activities: one machine, and the user always gets an answer |
| installer_image | expected violation: a partly extracted disk image is accepted for ever |
| service | callbacks reach connected activities; one machine, no orphan; a shutdown completes |
| service_exit | expected violation: a service without a session throws in `onDestroy()` |
| buffer | TerminalBuffer implements ScreenText; no visible row is null; a resize keeps the cursor on the screen and on its character |
| buffer_shrink | expected violation: lowering the screen loses text below blank rows |
| emulator | margins stay ordered, the active buffer has the right size, the alternate screen gives the cursor back; outside the hazards the cursor stays on the screen and no call is refused |
| emulator_cursor | expected violation: Backspace left of a left margin moves the cursor to column -1 |

### Bounds

The queue has 3 bytes and writes of up to 4: a write wraps, fills the queue and
waits. Two byte values tell a lost byte from a reordered one. The session has
queues, buffers and a pty of 2 bytes each, equal as in the code, so
everything fills up. The installer has one system file and the disk image, of
two buffers in `installer_crashes` and of one in `installer_recreation`. The
service run has 3 activities and 2 services: a new service can start while the
old one is stopping. The buffer has a ring of at most 4 rows and screens of 2
or 3 columns and rows, so it wraps around, reflows and changes height in both
directions. The emulator has screens of 2 and 3 columns and rows and an int of
4 bits; the parameters 1, 2 and 7 are in range, out of range and large enough
to overflow. Its programs use the alternate screen, side margins with column
deletion, or large parameters with rectangles. Deadlock is checked for the queue
and the buffer. The other systems may stop, for instance when the child has
exited, an exception ended the process or the bounds are used up.

### Fairness

Threads that can run are scheduled, messages posted to the main looper are
handled, and Android delivers the callbacks it owes. Nobody has to type, write,
exit, crash, open or leave the application. The session properties except
`ThreadsEnd` allow for the main thread blocked in `write()`, which
session_main_write reports.

## Proofs

All theorems hold for every value of the constants that satisfies the named
assumptions.

* **ByteQueueProofs**: `TypeOK`, `NoLostWakeup`, `OneWaiter`. The two copying
  passes are described by lemmas. `OneWaiter` follows from `NoLostWakeup`: one
  thread waits for a full queue, the other for an empty one.
* **TerminalSessionProofs**: `TypeOK`, `OutputAnnounced`, `OutputConserved`,
  `FinishedOnce`. The inductive invariant adds what the reader holds in each of
  its states (`ReaderHands`), that nothing happens before the process is started
  (`NotStarted`) and where the single exit message can be (`ExitMessage`).
  `OutputAnnounced` needs ReadChunk <= QueueSize <= ReceiveSize, which the code
  satisfies with 4096 for all three.
* **InstallerProofs**: `TypeOK`, `OneMachine`, and, for MaxRecreations = 0,
  `SystemFilesComplete` and `UserDataKept`. Without that assumption both are
  false: the thread of a destroyed activity goes on writing files.
* **TerminalEmulatorProofs**: `MarginsOrdered`, `ActiveBufferFits`,
  `CursorBounded`, `CallsAccepted` and the action property
  `AlternateKeepsCursor`, for every set of screen sizes from 2 x 2 and every
  set of parameters. The inductive invariant adds that without DECLRMM there
  are no side margins (`NoSideMargins`), without which the cursor may be outside
  them, and that on the alternate screen the saved cursor of the main screen
  fits the main buffer (`SavedCursorFits`), without which leaving it after a
  resize could put the cursor anywhere.

Only model-checked: all liveness properties, the refinements of ByteChannel and
ScreenText, and everything about TerminalService and TerminalBuffer. Liveness
under fairness is outside the prover.

## Known differences without a run

* `finishIfRunning()` treats pid 0 and a pid that was already reaped as running.
* `cleanupResources()` closes the descriptor without joining the two threads.
* With late destruction, `onDestroy()` of an activity clears the callback of its
  successor, and two activities may each start a machine.
* Output that was not read when the exit message is handled is dropped.
* With recreated activities the thread of a destroyed one overwrites guest data
  and system files of a running machine.
* `TerminalRow.clear()` keeps the wrap mark, so a row that scrolling reveals can
  count as wrapped.
* The slow path of `resize()` scrolls for blank lines without moving the cursor;
  `CursorFollowsText` is stated for screens with nothing printed below it.
* On the alternate screen `resize()` lowers the number of rows without moving
  them, so other rows are shown. ScreenText promises nothing there.
* Delete-columns clears from the row number; change-attributes adds the margins
  after clipping; sums with large parameters overflow; a wide character at the
  last column, right of the right margin, is refused. These are the hazards of
  TerminalEmulator.
* `ESC F` swaps row and column; auto-wrap below the scrolling region scrolls the
  region; a reset homes the cursor before it leaves origin mode.

## Plan

1. The escape parser and the UTF-8 decoder of TerminalEmulator: states, argument
   and string limits, sequences split over reads.
2. TerminalView: scroll position and selection against the growing transcript.
3. TerminalRow with wide and combining characters.
4. Composition: emulator, buffer and session, so that output bytes become rows.
5. InputDispatcher, extra keys and bell as smaller modules.
6. Proofs: the refinement of ByteChannel, the invariants of TerminalService, the
   index arithmetic of the ring, the parser's bounds.

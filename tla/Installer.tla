----------------------------- MODULE Installer -----------------------------
(***************************************************************************)
(* Installer.setupIfNeeded() with the preferences it records the data      *)
(* version in and the code that runs it: the runtime files of the virtual  *)
(* machine are copied out of the package by a background thread, one 16 KB *)
(* buffer at a time, before the machine is started.  The process may die   *)
(* between any two steps, the application may be upgraded, a copy may      *)
(* fail, and the activity may be recreated while its thread runs.          *)
(*                                                                         *)
(* A file is Chunks blocks.  A block holds the asset of one version of the *)
(* package, what the guest wrote, or nothing.                              *)
(***************************************************************************)
EXTENDS Naturals, Sequences

CONSTANTS
  runtimeDataFiles,  \* the files in the order in which they are extracted
  HDD_IMAGE_NAME,    \* the one the guest writes to
  Chunks,            \* buffers per file
  MaxVersion,        \* bound: versions of the package
  MaxActivities,     \* bound: activities created by one process
  MaxRecreations,    \* bound: activities replaced while alive, per process
  MaxErrors,         \* bound: failed copies
  MaxCrashes         \* bound: deaths of the process, not counting upgrades

File == {runtimeDataFiles[i] : i \in DOMAIN runtimeDataFiles}
Hole == 0                \* a block not written, or cut off by a truncation
User == MaxVersion + 1   \* a block the guest has written
Version == 1..MaxVersion
Block == Version \cup {Hole, User}
Activity == 1..MaxActivities

ASSUME InstallerAssumption ==
  /\ runtimeDataFiles \in Seq(File)
  /\ \A i, j \in DOMAIN runtimeDataFiles : runtimeDataFiles[i] = runtimeDataFiles[j] => i = j
  /\ HDD_IMAGE_NAME \in File
  /\ Chunks \in Nat \ {0} /\ MaxVersion \in Nat \ {0} /\ MaxActivities \in Nat \ {0}
  /\ MaxRecreations \in Nat /\ MaxErrors \in Nat /\ MaxCrashes \in Nat

VARIABLES
  exists,      \* the files in the data directory
  blocks,      \* their contents
  version,     \* BuildConfig.VERSION_CODE
  dataVersion, \* data_version as the running process sees it; 0 at first
  savedVersion,\* data_version on disk
  created,     \* how many activities this process has created
  activity,    \* the one alive, 0 if there is none
  thread,      \* thread[a]: where the installation that a started is
  file, chunk, \* thread a copies buffer chunk[a] of file number file[a]
  machines,    \* machines started and not ended: sessions of the service
  recreations, errors, crashes

disk == <<exists, blocks>>
prefs == <<dataVersion, savedVersion>>
threads == <<thread, file, chunk>>
bounds == <<recreations, errors, crashes>>
vars == <<disk, version, prefs, created, activity, threads, machines, bounds>>

Init ==
  /\ exists = {} /\ blocks = [f \in File |-> [k \in 1..Chunks |-> Hole]]
  /\ version = 1 /\ dataVersion = 0 /\ savedVersion = 0
  /\ created = 0 /\ activity = 0
  /\ thread = [a \in Activity |-> "none"]
  /\ file = [a \in Activity |-> 1] /\ chunk = [a \in Activity |-> 0]
  /\ machines = 0
  /\ recreations = 0 /\ errors = 0 /\ crashes = 0

-----------------------------------------------------------------------------
(* The main thread                                                         *)

\* Mutant of UpToDate: the recorded version is not compared.
UpToDatePresent == File \subseteq exists

\* All files present and the application not upgraded since.
UpToDate == File \subseteq exists /\ dataVersion = version

\* setupIfNeeded() on behalf of activity a, which is alive: either whenDone
\* runs at once and starts the machine, or a thread starts to extract.
SetupIfNeeded(a) ==
  \/ /\ UpToDate
     /\ machines' = machines + 1
     /\ thread' = [thread EXCEPT ![a] = "none"]
     /\ UNCHANGED <<file, chunk>>
  \/ /\ ~UpToDate
     /\ thread' = [thread EXCEPT ![a] = "copy"]
     /\ file' = [file EXCEPT ![a] = 1]
     /\ chunk' = [chunk EXCEPT ![a] = 0]
     /\ UNCHANGED machines

\* onServiceConnected() of a new activity: attach to the session there is, or
\* install and start one.
Connect ==
  /\ created < MaxActivities
  /\ created' = created + 1
  /\ activity' = created + 1
  /\ \/ machines # 0 /\ UNCHANGED <<machines, threads>>
     \/ machines = 0 /\ SetupIfNeeded(created + 1)

Launch ==
  /\ activity = 0
  /\ Connect
  /\ UNCHANGED <<disk, version, prefs, bounds>>

\* A configuration change that the manifest does not list: the activity is
\* destroyed and created anew.  Its installation thread goes on.
Recreate ==
  /\ activity # 0
  /\ recreations < MaxRecreations
  /\ recreations' = recreations + 1
  /\ Connect
  /\ UNCHANGED <<disk, version, prefs, errors, crashes>>

\* Mutant of WhenDone: the destroyed activity is not noticed.
WhenDoneAnyway(a) ==
  /\ thread[a] = "done"
  /\ thread' = [thread EXCEPT ![a] = "none"]
  /\ machines' = machines + 1
  /\ UNCHANGED <<disk, version, prefs, created, activity, file, chunk, bounds>>

\* whenDone, posted by the thread: it returns if the activity was destroyed.
WhenDone(a) ==
  /\ thread[a] = "done"
  /\ thread' = [thread EXCEPT ![a] = "none"]
  /\ machines' = IF a = activity THEN machines + 1 ELSE machines
  /\ UNCHANGED <<disk, version, prefs, created, activity, file, chunk, bounds>>

\* Mutant of ShowError: the failure is only logged.
ShowErrorLogged(a) ==
  /\ thread[a] = "failed"
  /\ thread' = [thread EXCEPT ![a] = "none"]
  /\ UNCHANGED <<disk, version, prefs, created, activity, file, chunk, machines, bounds>>

\* The error dialog, posted by the thread: BadTokenException if the activity
\* was destroyed.
ShowError(a) ==
  /\ thread[a] = "failed"
  /\ thread' = [thread EXCEPT ![a] = IF a = activity THEN "dialog" ELSE "none"]
  /\ UNCHANGED <<disk, version, prefs, created, activity, file, chunk, machines, bounds>>

TryAgain(a) ==
  /\ thread[a] = "dialog" /\ a = activity
  /\ SetupIfNeeded(a)
  /\ UNCHANGED <<disk, version, prefs, created, activity, bounds>>

\* The dialog's other button: activity.finish().
Exit(a) ==
  /\ thread[a] = "dialog" /\ a = activity
  /\ thread' = [thread EXCEPT ![a] = "none"]
  /\ activity' = 0
  /\ UNCHANGED <<disk, version, prefs, created, file, chunk, machines, bounds>>

\* The user leaves the activity; the service keeps the session.
Leave ==
  /\ activity # 0 /\ machines # 0
  /\ activity' = 0
  /\ UNCHANGED <<disk, version, prefs, created, threads, machines, bounds>>

\* The session ends: the service is terminated and the activity finishes; the
\* process may stay.
SessionFinished ==
  /\ machines # 0
  /\ machines' = 0
  /\ activity' = 0
  /\ UNCHANGED <<disk, version, prefs, created, threads, bounds>>

-----------------------------------------------------------------------------
(* The installation thread of activity a                                   *)

Copying(a) == thread[a] = "copy" /\ file[a] <= Len(runtimeDataFiles)
Current(a) == runtimeDataFiles[file[a]]

\* Mutant of Skipped: the disk image is extracted like the other files.
SkippedNever(a) == FALSE /\ chunk[a] = 0

\* We do not want to overwrite user data during upgrade.
Skipped(a) == chunk[a] = 0 /\ Current(a) = HDD_IMAGE_NAME /\ Current(a) \in exists

SkipImage(a) ==
  /\ Copying(a) /\ Skipped(a)
  /\ file' = [file EXCEPT ![a] = @ + 1]
  /\ UNCHANGED <<disk, version, prefs, created, activity, thread, chunk, machines, bounds>>

\* new FileOutputStream(outputFile): creates the file or truncates it.
OpenFile(a) ==
  /\ Copying(a) /\ ~Skipped(a) /\ chunk[a] = 0
  /\ exists' = exists \cup {Current(a)}
  /\ blocks' = [blocks EXCEPT ![Current(a)] = [k \in 1..Chunks |-> Hole]]
  /\ chunk' = [chunk EXCEPT ![a] = 1]
  /\ UNCHANGED <<version, prefs, created, activity, thread, file, machines, bounds>>

\* Mutant of WriteBuffer: the end of the asset is noticed one buffer late.
WriteBufferLate(a) ==
  /\ Copying(a) /\ chunk[a] \in 1..Chunks + 1
  /\ blocks' = [blocks EXCEPT ![Current(a)] = [k \in 1..Chunks |-> IF k = chunk[a] THEN version ELSE @[k]]]
  /\ chunk' = [chunk EXCEPT ![a] = @ + 1]
  /\ UNCHANGED <<exists, version, prefs, created, activity, thread, file, machines, bounds>>

WriteBuffer(a) ==
  /\ Copying(a) /\ chunk[a] \in 1..Chunks
  /\ blocks' = [blocks EXCEPT ![Current(a)][chunk[a]] = version]
  /\ chunk' = [chunk EXCEPT ![a] = @ + 1]
  /\ UNCHANGED <<exists, version, prefs, created, activity, thread, file, machines, bounds>>

\* The end of the asset: both streams are closed.
CloseFile(a) ==
  /\ Copying(a) /\ chunk[a] > Chunks
  /\ file' = [file EXCEPT ![a] = @ + 1]
  /\ chunk' = [chunk EXCEPT ![a] = 0]
  /\ UNCHANGED <<disk, version, prefs, created, activity, thread, machines, bounds>>

\* Every file is there: updateDataVersion(), then whenDone is posted.
Register(a) ==
  /\ thread[a] = "copy" /\ file[a] > Len(runtimeDataFiles)
  /\ dataVersion' = version
  /\ thread' = [thread EXCEPT ![a] = "done"]
  /\ UNCHANGED <<disk, version, savedVersion, created, activity, file, chunk, machines, bounds>>

\* An exception from the asset or from the file (no space left): the file
\* keeps what was written, and the error dialog is posted.
CopyFails(a) ==
  /\ Copying(a) /\ ~Skipped(a)
  /\ errors < MaxErrors
  /\ errors' = errors + 1
  /\ thread' = [thread EXCEPT ![a] = "failed"]
  /\ UNCHANGED <<disk, version, prefs, created, activity, file, chunk, machines, recreations, crashes>>

-----------------------------------------------------------------------------
(* Around it                                                               *)

\* apply() writes the preferences to disk in the background.
SavePreferences ==
  /\ savedVersion # dataVersion
  /\ savedVersion' = dataVersion
  /\ UNCHANGED <<disk, version, dataVersion, created, activity, threads, machines, bounds>>

\* The guest writes to its disk (cache=writeback).
GuestWrites(k) ==
  /\ machines # 0
  /\ blocks[HDD_IMAGE_NAME][k] # User
  /\ blocks' = [blocks EXCEPT ![HDD_IMAGE_NAME][k] = User]
  /\ UNCHANGED <<exists, version, prefs, created, activity, threads, machines, bounds>>

\* What is left when the process dies.
Dies ==
  /\ dataVersion' = savedVersion
  /\ created' = 0 /\ activity' = 0
  /\ thread' = [a \in Activity |-> "none"]
  /\ file' = [a \in Activity |-> 1] /\ chunk' = [a \in Activity |-> 0]
  /\ machines' = 0
  /\ recreations' = 0
  /\ UNCHANGED <<disk, savedVersion, errors>>

Crash ==
  /\ crashes < MaxCrashes
  /\ crashes' = crashes + 1
  /\ Dies
  /\ UNCHANGED version

\* A newer package is installed; the system ends the process first.
Upgrade ==
  /\ version < MaxVersion
  /\ version' = version + 1
  /\ Dies
  /\ UNCHANGED crashes

CopyThread(a) ==
  SkipImage(a) \/ OpenFile(a) \/ WriteBuffer(a) \/ CloseFile(a) \/ Register(a)

Next ==
  \/ Launch \/ Recreate \/ Leave \/ SessionFinished
  \/ \E a \in Activity : \/ WhenDone(a) \/ ShowError(a) \/ TryAgain(a) \/ Exit(a)
                         \/ CopyThread(a) \/ CopyFails(a)
  \/ SavePreferences \/ (\E k \in 1..Chunks : GuestWrites(k)) \/ Crash \/ Upgrade

Spec == Init /\ [][Next]_vars

\* The thread runs and the main looper dispatches what it posts.  Nobody has to
\* launch the application or answer a dialog.
Fairness ==
  \A a \in Activity : WF_vars(CopyThread(a)) /\ WF_vars(WhenDone(a)) /\ WF_vars(ShowError(a))

FairSpec == Spec /\ Fairness

-----------------------------------------------------------------------------
(* Properties                                                              *)

TypeOK ==
  /\ exists \subseteq File /\ blocks \in [File -> [1..Chunks -> Block]]
  /\ version \in Version /\ dataVersion \in 0..MaxVersion /\ savedVersion \in 0..MaxVersion
  /\ created \in 0..MaxActivities /\ activity \in 0..created
  /\ thread \in [Activity -> {"none", "copy", "done", "failed", "dialog"}]
  /\ file \in [Activity -> 1..Len(runtimeDataFiles) + 1]
  /\ chunk \in [Activity -> 0..Chunks + 1]
  /\ machines \in Nat
  /\ recreations \in 0..MaxRecreations /\ errors \in 0..MaxErrors /\ crashes \in 0..MaxCrashes

Extracted(f) == f \in exists /\ \A k \in 1..Chunks : blocks[f][k] = version

\* A machine runs only on files that were extracted to the end from the
\* installed package, whatever died or failed before.
SystemFilesComplete ==
  machines # 0 => \A f \in File \ {HDD_IMAGE_NAME} : Extracted(f)

\* "We do not want to overwrite user data during upgrade": what the guest wrote
\* to its disk is never replaced by the installer.
UserDataKept ==
  [][\A k \in 1..Chunks : blocks[HDD_IMAGE_NAME][k] = User
                             => blocks'[HDD_IMAGE_NAME][k] = User]_vars

\* "If all files are present and application was not upgraded, no need to
\* extract files": the disk image a machine starts with has no part missing.
UserImageComplete ==
  machines # 0 => \A k \in 1..Chunks : blocks[HDD_IMAGE_NAME][k] # Hole

\* Two machines never run on the same disk image, although every activity that
\* finds no session starts an installation that ends in starting one.
OneMachine == machines <= 1

\* Who opens the application gets the machine or an error dialog, or the
\* activity goes away: never a bare terminal for ever.
SetupSettles ==
  \A a \in Activity :
    activity = a ~> activity # a \/ machines # 0 \/ thread[a] = "dialog"
=============================================================================

-------------------------- MODULE InstallerProofs --------------------------
(***************************************************************************)
(* For every list of files, number of buffers and bound: a process never   *)
(* starts two machines; and as long as no activity is replaced while it is *)
(* alive, so that one thread extracts at a time, a machine runs only on    *)
(* completely extracted system files and what the guest wrote is kept.     *)
(***************************************************************************)
EXTENDS Installer, TLAPS

\* An activity whose installation is not over has no machine yet, and the
\* numbers of activities to come have no thread.
Starting ==
  \A a \in Activity :
    /\ a > created => thread[a] = "none"
    /\ a = activity /\ thread[a] # "none" => machines = 0

OneInv == TypeOK /\ Starting /\ OneMachine

\* Only the activity alive has a thread.
SingleThread == \A a \in Activity : thread[a] # "none" => a = activity

\* A version is recorded only when there is nothing left to extract.
Recorded ==
  /\ savedVersion <= dataVersion /\ dataVersion <= version
  /\ dataVersion = version =>
       /\ File \subseteq exists
       /\ \A f \in File \ {HDD_IMAGE_NAME} : Extracted(f)
       /\ \A a \in Activity : thread[a] \in {"none", "done"}

\* What the thread has behind it when it is at buffer chunk[a] of file[a].
Progress ==
  \A a \in Activity :
    /\ thread[a] = "done" => dataVersion = version
    /\ thread[a] = "copy" =>
         /\ \A i \in 1..file[a] - 1 :
              /\ runtimeDataFiles[i] \in exists
              /\ runtimeDataFiles[i] # HDD_IMAGE_NAME => Extracted(runtimeDataFiles[i])
         /\ chunk[a] > 0 =>
              /\ file[a] <= Len(runtimeDataFiles)
              /\ Current(a) \in exists
              /\ \A k \in 1..chunk[a] - 1 : blocks[Current(a)][k] = version

\* Guest data is in an image that exists and that no thread has open.
GuestData ==
  \A k \in 1..Chunks : blocks[HDD_IMAGE_NAME][k] = User =>
    /\ HDD_IMAGE_NAME \in exists
    /\ \A a \in Activity : ~(Copying(a) /\ chunk[a] > 0 /\ Current(a) = HDD_IMAGE_NAME)

\* A machine runs only after the version was recorded.
Started == machines # 0 => dataVersion = version

IInv ==
  /\ OneInv
  /\ SingleThread
  /\ Recorded
  /\ Progress
  /\ GuestData
  /\ Started

LEMMA FilesType ==
  /\ Len(runtimeDataFiles) \in Nat
  /\ DOMAIN runtimeDataFiles = 1..Len(runtimeDataFiles)
  /\ \A i \in 1..Len(runtimeDataFiles) : runtimeDataFiles[i] \in File
BY InstallerAssumption

LEMMA BoundsType ==
  /\ Chunks \in Nat \ {0} /\ MaxVersion \in Nat \ {0} /\ MaxActivities \in Nat \ {0}
  /\ MaxRecreations \in Nat /\ MaxErrors \in Nat /\ MaxCrashes \in Nat
  /\ Len(runtimeDataFiles) \in Nat /\ HDD_IMAGE_NAME \in File
BY InstallerAssumption, FilesType

LEMMA OneInit == Init => OneInv
BY InstallerAssumption, FilesType
   DEF Init, OneInv, TypeOK, Starting, OneMachine, Activity, Version, Block, Hole, User

\* What setupIfNeeded() does to the threads and the machines.
LEMMA SetupStep ==
  ASSUME NEW a \in Activity, OneInv, SetupIfNeeded(a)
  PROVE  /\ thread' \in [Activity -> {"none", "copy", "done", "failed", "dialog"}]
         /\ file' \in [Activity -> 1..Len(runtimeDataFiles) + 1]
         /\ chunk' \in [Activity -> 0..Chunks + 1]
         /\ \A b \in Activity \ {a} : thread'[b] = thread[b]
         /\ \/ machines' = machines + 1 /\ thread'[a] = "none"
            \/ machines' = machines /\ thread'[a] = "copy"
<1> USE BoundsType DEF OneInv, TypeOK
<1>1. CASE UpToDate
  <2>1. thread' = [thread EXCEPT ![a] = "none"] /\ UNCHANGED <<file, chunk>>
        /\ machines' = machines + 1
    BY <1>1 DEF SetupIfNeeded
  <2> QED BY <2>1
<1>2. CASE ~UpToDate
  <2>1. thread' = [thread EXCEPT ![a] = "copy"] /\ file' = [file EXCEPT ![a] = 1]
        /\ chunk' = [chunk EXCEPT ![a] = 0] /\ machines' = machines
    BY <1>2 DEF SetupIfNeeded
  <2>2. 1 \in 1..Len(runtimeDataFiles) + 1 /\ 0 \in 0..Chunks + 1
    OBVIOUS
  <2> QED BY <2>1, <2>2
<1> QED BY <1>1, <1>2

LEMMA ConnectStep ==
  ASSUME OneInv, Connect, UNCHANGED <<disk, version, prefs, errors, crashes>>,
         recreations' \in 0..MaxRecreations
  PROVE  OneInv'
<1> USE BoundsType DEF OneInv, TypeOK, Starting, OneMachine, disk, prefs, threads
<1> DEFINE a == created + 1
<1>1. a \in Activity /\ created' = a /\ activity' = a
  BY DEF Connect, Activity
<1>2. CASE machines # 0 /\ UNCHANGED <<machines, threads>>
  BY <1>1, <1>2 DEF Activity
<1>3. CASE machines = 0 /\ SetupIfNeeded(a)
  <2>1. /\ thread' \in [Activity -> {"none", "copy", "done", "failed", "dialog"}]
        /\ file' \in [Activity -> 1..Len(runtimeDataFiles) + 1]
        /\ chunk' \in [Activity -> 0..Chunks + 1]
        /\ \A b \in Activity \ {a} : thread'[b] = thread[b]
        /\ \/ machines' = machines + 1 /\ thread'[a] = "none"
           \/ machines' = machines /\ thread'[a] = "copy"
    BY <1>1, <1>3, SetupStep
  <2> HIDE DEF a
  <2>2. TypeOK'
    <3>1. machines' \in Nat
      BY <1>3, <2>1
    <3>2. created' \in 0..MaxActivities /\ activity' \in 0..created'
      BY <1>1 DEF Activity
    <3> QED BY <2>1, <3>1, <3>2
  <2>3. Starting' /\ OneMachine'
    <3> SUFFICES ASSUME NEW b \in Activity
                 PROVE  /\ b > created' => thread'[b] = "none"
                        /\ b = activity' /\ thread'[b] # "none" => machines' = 0
                        /\ machines' <= 1
      BY <1>1
    <3>1. CASE b = a
      <4>1. ~(a > a)
        BY <1>1 DEF Activity
      <4> QED BY <1>1, <1>3, <2>1, <3>1, <4>1
    <3>2. CASE b # a
      <4>1. b > a => b > created
        BY <1>1 DEF a, Activity
      <4> QED BY <1>1, <1>3, <2>1, <3>2, <4>1
    <3> QED BY <3>1, <3>2
  <2> QED BY <2>2, <2>3
<1> QED BY <1>2, <1>3 DEF Connect, a

LEMMA OneStep == OneInv /\ [Next]_vars => OneInv'
<1> SUFFICES ASSUME OneInv, [Next]_vars PROVE OneInv'
  OBVIOUS
<1> USE BoundsType DEF OneInv, TypeOK, Starting, OneMachine, disk, prefs, threads, bounds
<1>1. CASE Launch
  BY <1>1, ConnectStep DEF Launch
<1>2. CASE Recreate
  <2>1. recreations' \in 0..MaxRecreations
    BY <1>2 DEF Recreate
  <2> QED BY <1>2, <2>1, ConnectStep DEF Recreate
<1>3. CASE Leave
  <2>1. activity' \in 0..created' /\ \A a \in Activity : a # activity'
    BY <1>3 DEF Leave, Activity
  <2> QED BY <1>3, <2>1 DEF Leave
<1>4. CASE SessionFinished BY <1>4 DEF SessionFinished
<1>5. ASSUME NEW a \in Activity, WhenDone(a) PROVE OneInv'
  BY <1>5 DEF WhenDone
<1>6. ASSUME NEW a \in Activity, ShowError(a) PROVE OneInv'
  BY <1>6 DEF ShowError
<1>7. ASSUME NEW a \in Activity, TryAgain(a) PROVE OneInv'
  <2>1. machines = 0
    BY <1>7 DEF TryAgain
  <2>2. /\ thread' \in [Activity -> {"none", "copy", "done", "failed", "dialog"}]
        /\ file' \in [Activity -> 1..Len(runtimeDataFiles) + 1]
        /\ chunk' \in [Activity -> 0..Chunks + 1]
        /\ \A b \in Activity \ {a} : thread'[b] = thread[b]
        /\ \/ machines' = machines + 1 /\ thread'[a] = "none"
           \/ machines' = machines /\ thread'[a] = "copy"
    BY <1>7, SetupStep DEF TryAgain
  <2>3. /\ UNCHANGED <<disk, version, prefs, created, activity, bounds>>
        /\ a = activity /\ thread[a] = "dialog"
    BY <1>7 DEF TryAgain
  <2>4. TypeOK'
    BY <2>1, <2>2, <2>3
  <2>5. Starting'
    BY <2>1, <2>2, <2>3
  <2>6. OneMachine'
    BY <2>1, <2>2
  <2> HIDE DEF TypeOK, Starting, OneMachine
  <2> QED BY <2>4, <2>5, <2>6
<1>8. ASSUME NEW a \in Activity, Exit(a) PROVE OneInv'
  BY <1>8 DEF Exit
<1>9. ASSUME NEW a \in Activity, SkipImage(a) PROVE OneInv'
  BY <1>9 DEF SkipImage, Copying
<1>10. ASSUME NEW a \in Activity, OpenFile(a) PROVE OneInv'
  <2>1. Current(a) \in File
    BY <1>10, FilesType DEF OpenFile, Copying, Current
  <2>2. blocks' \in [File -> [1..Chunks -> Block]]
    BY <1>10, <2>1 DEF OpenFile, Block, Hole
  <2>3. chunk' \in [Activity -> 0..Chunks + 1]
    BY <1>10 DEF OpenFile
  <2> QED BY <1>10, <2>1, <2>2, <2>3 DEF OpenFile
<1>11. ASSUME NEW a \in Activity, WriteBuffer(a) PROVE OneInv'
  <2>1. Current(a) \in File
    BY <1>11, FilesType DEF WriteBuffer, Copying, Current
  <2>2. blocks' \in [File -> [1..Chunks -> Block]]
    <3>1. version \in Block
      BY DEF Block
    <3> QED BY <1>11, <2>1, <3>1 DEF WriteBuffer
  <2>3. chunk' \in [Activity -> 0..Chunks + 1]
    BY <1>11 DEF WriteBuffer
  <2>4. UNCHANGED <<exists, version, prefs, created, activity, thread, file, machines, bounds>>
    BY <1>11 DEF WriteBuffer
  <2> QED BY <2>2, <2>3, <2>4
<1>12. ASSUME NEW a \in Activity, CloseFile(a) PROVE OneInv'
  <2>1. file' \in [Activity -> 1..Len(runtimeDataFiles) + 1] /\ chunk' \in [Activity -> 0..Chunks + 1]
    BY <1>12 DEF CloseFile, Copying
  <2> QED BY <1>12, <2>1 DEF CloseFile
<1>13. ASSUME NEW a \in Activity, Register(a) PROVE OneInv'
  <2>1. dataVersion' \in 0..MaxVersion
    BY <1>13 DEF Register, Version
  <2> QED BY <1>13, <2>1 DEF Register
<1>14. ASSUME NEW a \in Activity, CopyFails(a) PROVE OneInv'
  BY <1>14 DEF CopyFails, Copying
<1>15. CASE SavePreferences BY <1>15 DEF SavePreferences
<1>16. ASSUME NEW k \in 1..Chunks, GuestWrites(k) PROVE OneInv'
  BY <1>16 DEF GuestWrites, Block, User
<1>17. CASE Crash BY <1>17 DEF Crash, Dies
<1>18. CASE Upgrade BY <1>18 DEF Upgrade, Dies, Version
<1>19. CASE UNCHANGED vars BY <1>19 DEF vars
<1> QED BY <1>1, <1>2, <1>3, <1>4, <1>5, <1>6, <1>7, <1>8, <1>9, <1>10, <1>11, <1>12,
           <1>13, <1>14, <1>15, <1>16, <1>17, <1>18, <1>19 DEF Next, CopyThread

\* Every variable of the installer keeps its type.
THEOREM TypeCorrect == Spec => []TypeOK
<1>1. OneInv => TypeOK
  BY DEF OneInv
<1> QED BY <1>1, OneInit, OneStep, PTL DEF Spec

\* However often the activity is recreated, fails and tries again, a process
\* has at most one machine on the disk image.
THEOREM OneMachineOnly == Spec => []OneMachine
<1>1. OneInv => OneMachine
  BY DEF OneInv
<1> QED BY <1>1, OneInit, OneStep, PTL DEF Spec

-----------------------------------------------------------------------------
(* One installation at a time                                              *)

LEMMA InitInv == Init => IInv
<1> SUFFICES ASSUME Init PROVE IInv
  OBVIOUS
<1>1. SingleThread /\ Recorded /\ Progress /\ Started
  BY DEF Init, SingleThread, Recorded, Progress, Started
<1>2. GuestData
  <2>1. Hole # User
    BY BoundsType DEF Hole, User
  <2> QED BY <2>1, BoundsType DEF Init, GuestData
<1> QED BY <1>1, <1>2, OneInit DEF IInv

\* The steps that leave the files and the thread's position alone.
LEMMA QuietStep ==
  ASSUME IInv, MaxRecreations = 0,
         \/ Leave \/ SessionFinished \/ SavePreferences \/ UNCHANGED vars
         \/ \E a \in Activity : WhenDone(a) \/ ShowError(a) \/ Exit(a) \/ CopyFails(a)
  PROVE  (SingleThread /\ Recorded /\ Progress /\ GuestData /\ Started)'
<1> DEFINE Goal == SingleThread /\ Recorded /\ Progress /\ GuestData /\ Started
<1> USE BoundsType DEF IInv, OneInv, TypeOK, Starting, SingleThread, Recorded, Progress, GuestData,
        Started, Extracted, Copying, Current, disk, prefs, threads, bounds
<1>1. CASE Leave BY <1>1 DEF Leave, Activity
<1>2. CASE SessionFinished BY <1>2 DEF SessionFinished, Activity
<1>3. CASE SavePreferences BY <1>3 DEF SavePreferences
<1>4. CASE UNCHANGED vars BY <1>4 DEF vars
<1>5. ASSUME NEW a \in Activity, WhenDone(a) PROVE Goal' BY <1>5 DEF WhenDone
<1>6. ASSUME NEW a \in Activity, ShowError(a) PROVE Goal' BY <1>6 DEF ShowError
<1>7. ASSUME NEW a \in Activity, Exit(a) PROVE Goal' BY <1>7 DEF Exit
<1>8. ASSUME NEW a \in Activity, CopyFails(a) PROVE Goal' BY <1>8 DEF CopyFails
<1> QED BY <1>1, <1>2, <1>3, <1>4, <1>5, <1>6, <1>7, <1>8

\* The steps that start an installation.
LEMMA StartStep ==
  ASSUME IInv, MaxRecreations = 0, Launch \/ \E a \in Activity : TryAgain(a)
  PROVE  (SingleThread /\ Recorded /\ Progress /\ GuestData /\ Started)'
<1>0. /\ OneInv /\ SingleThread /\ Recorded /\ Progress /\ GuestData /\ Started
      /\ thread \in [Activity -> {"none", "copy", "done", "failed", "dialog"}]
      /\ file \in [Activity -> 1..Len(runtimeDataFiles) + 1]
      /\ chunk \in [Activity -> 0..Chunks + 1]
      /\ created \in 0..MaxActivities /\ Activity = 1..MaxActivities
  BY DEF IInv, OneInv, TypeOK, Activity
<1>1. PICK a \in Activity :
         /\ activity' = a
         /\ \A b \in Activity \ {a} : thread[b] = "none"
         /\ thread[a] \in {"none", "dialog"}
         /\ UNCHANGED <<disk, version, prefs>>
         /\ \/ UNCHANGED <<machines, threads>> /\ thread[a] = "none"
            \/ SetupIfNeeded(a)
  <2>1. CASE Launch
    <3>1. \A b \in Activity : thread[b] = "none"
      BY <1>0, <2>1 DEF Launch, SingleThread
    <3>2. created + 1 \in Activity
      BY <1>0, <2>1, BoundsType DEF Launch, Connect
    <3> QED BY <2>1, <3>1, <3>2 DEF Launch, Connect
  <2>2. CASE \E a \in Activity : TryAgain(a)
    BY <1>0, <2>2 DEF TryAgain, SingleThread
  <2> QED BY <2>1, <2>2
<1>2. \/ thread'[a] = "none" /\ (machines' # 0 => dataVersion = version)
      \/ /\ thread'[a] = "copy" /\ file'[a] = 1 /\ chunk'[a] = 0
         /\ machines' = machines /\ dataVersion # version
  <2>1. CASE UNCHANGED <<machines, threads>> /\ thread[a] = "none"
    BY <1>0, <2>1 DEF threads, Started
  <2>2. CASE SetupIfNeeded(a) /\ UpToDate
    BY <1>0, <2>2 DEF SetupIfNeeded, UpToDate
  <2>3. CASE SetupIfNeeded(a) /\ ~UpToDate
    <3>1. dataVersion # version
      BY <1>0, <2>3 DEF UpToDate, Recorded
    <3> QED BY <1>0, <2>3, <3>1 DEF SetupIfNeeded
  <2> QED BY <1>1, <2>1, <2>2, <2>3
<1>3. \A b \in Activity \ {a} : thread'[b] = "none"
  BY <1>0, <1>1 DEF SetupIfNeeded, threads
<1>4. SingleThread'
  BY <1>1, <1>3 DEF SingleThread
<1>5. Recorded'
  BY <1>0, <1>1, <1>2, <1>3 DEF disk, prefs, Recorded, Extracted
<1>6. Progress'
  BY <1>1, <1>2, <1>3 DEF Progress
<1>7. GuestData'
  BY <1>0, <1>1, <1>2, <1>3 DEF disk, GuestData, Copying
<1>8. Started'
  BY <1>0, <1>1, <1>2 DEF prefs, Started
<1> QED BY <1>4, <1>5, <1>6, <1>7, <1>8

\* The steps in which the process dies or the preferences change.
LEMMA RestartStep ==
  ASSUME IInv, MaxRecreations = 0, Crash \/ Upgrade
  PROVE  (SingleThread /\ Recorded /\ Progress /\ GuestData /\ Started)'
<1> USE BoundsType DEF IInv, OneInv, TypeOK
<1>1. /\ dataVersion' = savedVersion /\ savedVersion' = savedVersion
      /\ \A b \in Activity : thread'[b] = "none"
      /\ machines' = 0 /\ UNCHANGED disk
      /\ version' = version \/ version' = version + 1
  BY DEF Crash, Upgrade, Dies
<1>2. SingleThread' /\ Progress' /\ GuestData' /\ Started'
  BY <1>1 DEF disk, SingleThread, Progress, GuestData, Started, Copying
<1>3. Recorded'
  <2>1. savedVersion <= version /\ (savedVersion = version' => dataVersion = version /\ version' = version)
    BY <1>1 DEF Recorded, Version
  <2> QED BY <1>1, <2>1 DEF disk, Recorded, Extracted, Version
<1> QED BY <1>2, <1>3

LEMMA GuestStep ==
  ASSUME IInv, MaxRecreations = 0, NEW k \in 1..Chunks, GuestWrites(k)
  PROVE  (SingleThread /\ Recorded /\ Progress /\ GuestData /\ Started)'
<1> USE BoundsType DEF IInv, OneInv, TypeOK
<1>1. /\ machines # 0 /\ dataVersion = version
      /\ UNCHANGED <<exists, version, prefs, created, activity, threads, machines>>
      /\ \A f \in File \ {HDD_IMAGE_NAME} : blocks'[f] = blocks[f]
  BY DEF GuestWrites, Started
<1>2. \A a \in Activity : thread[a] = "none"
  BY <1>1 DEF Starting, SingleThread
<1>3. HDD_IMAGE_NAME \in exists
  BY <1>1 DEF Recorded
<1>4. SingleThread' /\ Recorded' /\ Started'
  BY <1>1, <1>2 DEF prefs, threads, SingleThread, Recorded, Started, Extracted
<1>5. Progress' /\ GuestData'
  BY <1>1, <1>2, <1>3 DEF prefs, threads, Progress, GuestData, Copying
<1> QED BY <1>4, <1>5

\* A copying thread is the only one, and nothing runs on the files meanwhile.
LEMMA Copier ==
  ASSUME IInv, NEW a \in Activity, thread[a] = "copy"
  PROVE  /\ \A b \in Activity \ {a} : thread[b] = "none"
         /\ machines = 0 /\ dataVersion # version
         /\ savedVersion <= dataVersion /\ dataVersion <= version
BY DEF IInv, OneInv, SingleThread, Starting, Recorded

\* SkipImage and CloseFile: one more file is behind the thread.
LEMMA NextFileStep ==
  ASSUME IInv, NEW a \in Activity, SkipImage(a) \/ CloseFile(a)
  PROVE  (SingleThread /\ Recorded /\ Progress /\ GuestData /\ Started)'
<1>0. /\ thread \in [Activity -> {"none", "copy", "done", "failed", "dialog"}]
      /\ file \in [Activity -> 1..Len(runtimeDataFiles) + 1]
      /\ chunk \in [Activity -> 0..Chunks + 1]
  BY DEF IInv, OneInv, TypeOK
<1>1. /\ thread[a] = "copy" /\ UNCHANGED <<exists, blocks, version, dataVersion, savedVersion,
                                           activity, thread, machines>>
      /\ file' = [file EXCEPT ![a] = file[a] + 1] /\ chunk'[a] = 0
  BY <1>0 DEF SkipImage, CloseFile, Copying, Skipped, disk, prefs
<1>2. SingleThread' /\ Started'
  BY <1>1 DEF IInv, SingleThread, Started
<1>3. Recorded'
  BY <1>1 DEF IInv, Recorded, Extracted
<1>4. GuestData'
  <2>1. \A b \in Activity \ {a} : thread'[b] = "none"
    BY <1>1, Copier
  <2> QED BY <1>1, <2>1 DEF IInv, GuestData, Copying
<1>5. Progress'
  <2>1. \A b \in Activity \ {a} : thread'[b] = "none"
    BY <1>1, Copier
  <2>2. \A i \in 1..file[a] - 1 :
          /\ runtimeDataFiles[i] \in exists
          /\ runtimeDataFiles[i] # HDD_IMAGE_NAME => Extracted(runtimeDataFiles[i])
    BY <1>1 DEF IInv, Progress
  <2>3. /\ Current(a) \in exists
        /\ Current(a) # HDD_IMAGE_NAME => Extracted(Current(a))
    <3>1. CASE SkipImage(a)
      BY <3>1 DEF SkipImage, Skipped
    <3>2. CASE CloseFile(a)
      <4>1. chunk[a] = Chunks + 1
        BY <1>0, <3>2, BoundsType DEF CloseFile
      <4>2. Current(a) \in exists /\ \A k \in 1..chunk[a] - 1 : blocks[Current(a)][k] = version
        BY <1>1, <4>1, BoundsType DEF IInv, Progress
      <4> QED BY <4>1, <4>2, BoundsType DEF Extracted
    <3> QED BY <3>1, <3>2
  <2>4. \A i \in 1..file'[a] - 1 : i = file[a] \/ i \in 1..file[a] - 1
    BY <1>0, <1>1, BoundsType
  <2>5. \A i \in 1..file'[a] - 1 :
          /\ runtimeDataFiles[i] \in exists
          /\ runtimeDataFiles[i] # HDD_IMAGE_NAME => Extracted(runtimeDataFiles[i])
    BY <2>2, <2>3, <2>4 DEF Current
  <2> QED BY <1>1, <2>1, <2>5 DEF Progress, Extracted
<1> QED BY <1>2, <1>3, <1>4, <1>5

\* OpenFile and WriteBuffer change only the file the thread is at, which is
\* not one it has behind it.
LEMMA CopyStep ==
  ASSUME IInv, NEW a \in Activity, OpenFile(a) \/ WriteBuffer(a)
  PROVE  /\ (SingleThread /\ Recorded /\ Progress /\ GuestData /\ Started)'
         /\ \A k \in 1..Chunks : blocks[HDD_IMAGE_NAME][k] # User
              \/ blocks'[HDD_IMAGE_NAME][k] = User
<1> DEFINE f == Current(a)
<1>0. /\ thread \in [Activity -> {"none", "copy", "done", "failed", "dialog"}]
      /\ file \in [Activity -> 1..Len(runtimeDataFiles) + 1]
      /\ chunk \in [Activity -> 0..Chunks + 1]
      /\ blocks \in [File -> [1..Chunks -> Block]] /\ version \in Version
  BY DEF IInv, OneInv, TypeOK
<1>1. /\ thread[a] = "copy" /\ file[a] \in 1..Len(runtimeDataFiles)
      /\ UNCHANGED <<version, dataVersion, savedVersion, activity, thread, file, machines>>
      /\ exists \subseteq exists' /\ f \in exists'
      /\ chunk' = [chunk EXCEPT ![a] = chunk[a] + 1]
  <2>1. CASE OpenFile(a)
    BY <1>0, <2>1, BoundsType DEF OpenFile, Copying, prefs
  <2>2. CASE WriteBuffer(a)
    BY <1>0, <2>2, BoundsType DEF WriteBuffer, Copying, prefs, IInv, Progress
  <2> QED BY <2>1, <2>2
<1>2. f \in File
  BY <1>1, FilesType DEF Current
<1>3. /\ \A g \in File \ {f} : blocks'[g] = blocks[g]
      /\ \A k \in 1..chunk'[a] - 1 : blocks'[f][k] = version
  <2>1. CASE OpenFile(a)
    BY <1>0, <1>1, <1>2, <2>1, BoundsType DEF OpenFile
  <2>2. CASE WriteBuffer(a)
    <3>1. blocks' = [blocks EXCEPT ![f][chunk[a]] = version] /\ chunk[a] \in 1..Chunks
      BY <2>2 DEF WriteBuffer
    <3>2. \A k \in 1..chunk[a] - 1 : blocks[f][k] = version
      BY <1>1, <3>1, BoundsType DEF IInv, Progress
    <3>3. \A k \in 1..chunk'[a] - 1 : k \in 1..Chunks /\ (k = chunk[a] \/ k \in 1..chunk[a] - 1)
      BY <1>0, <1>1, <3>1, BoundsType
    <3> QED BY <1>0, <1>2, <3>1, <3>2, <3>3
  <2> QED BY <2>1, <2>2
<1>4. /\ \A b \in Activity \ {a} : thread[b] = "none"
      /\ machines = 0 /\ dataVersion # version
      /\ savedVersion <= dataVersion /\ dataVersion <= version
  BY <1>1, Copier
<1>5. SingleThread' /\ Started' /\ Recorded'
  BY <1>1, <1>4 DEF IInv, SingleThread, Started, Recorded
<1>6. Progress'
  <2>1. ASSUME NEW i \in 1..file[a] - 1
        PROVE  /\ runtimeDataFiles[i] \in exists'
               /\ runtimeDataFiles[i] # HDD_IMAGE_NAME => Extracted(runtimeDataFiles[i])'
    <3>1. /\ runtimeDataFiles[i] \in exists
          /\ runtimeDataFiles[i] # HDD_IMAGE_NAME => Extracted(runtimeDataFiles[i])
      BY <1>1 DEF IInv, Progress
    <3>2. i \in DOMAIN runtimeDataFiles /\ file[a] \in DOMAIN runtimeDataFiles /\ i # file[a]
      BY <1>1, FilesType
    <3>3. runtimeDataFiles[i] \in File \ {f}
      BY <3>2, FilesType, InstallerAssumption DEF Current
    <3> QED BY <1>1, <1>3, <3>1, <3>3 DEF Extracted
  <2>2. Current(a)' = f
    BY <1>1 DEF Current
  <2> HIDE DEF f
  <2>3. chunk'[a] > 0 => /\ file'[a] <= Len(runtimeDataFiles) /\ Current(a)' \in exists'
                         /\ \A k \in 1..chunk'[a] - 1 : blocks'[Current(a)'][k] = version'
    BY <1>1, <1>3, <2>2, FilesType
  <2> QED BY <1>1, <1>4, <2>1, <2>3 DEF Progress
<1>7. \A k \in 1..Chunks : blocks'[HDD_IMAGE_NAME][k] = User =>
         f # HDD_IMAGE_NAME /\ blocks[HDD_IMAGE_NAME][k] = User
  <2>1. version # User /\ Hole # User
    BY <1>0, BoundsType DEF Version, User, Hole
  <2>2. CASE f # HDD_IMAGE_NAME
    BY <1>3, <2>2, BoundsType
  <2>3. CASE f = HDD_IMAGE_NAME /\ OpenFile(a)
    BY <1>0, <1>2, <2>1, <2>3 DEF OpenFile
  <2>4. CASE f = HDD_IMAGE_NAME /\ WriteBuffer(a)
    <3>1. Copying(a) /\ chunk[a] > 0
      BY <2>4, BoundsType DEF WriteBuffer
    <3>2. \A k \in 1..Chunks : blocks[HDD_IMAGE_NAME][k] # User
      BY <2>4, <3>1 DEF IInv, GuestData
    <3>3. blocks' = [blocks EXCEPT ![f][chunk[a]] = version]
      BY <2>4 DEF WriteBuffer
    <3> QED BY <1>0, <1>2, <2>1, <2>4, <3>2, <3>3
  <2> QED BY <2>2, <2>3, <2>4
<1>8. \A k \in 1..Chunks : blocks[HDD_IMAGE_NAME][k] = User =>
         f # HDD_IMAGE_NAME /\ blocks'[HDD_IMAGE_NAME][k] = User
  <2>1. ASSUME NEW k \in 1..Chunks, blocks[HDD_IMAGE_NAME][k] = User, f = HDD_IMAGE_NAME
        PROVE  FALSE
    <3>1. HDD_IMAGE_NAME \in exists /\ ~(Copying(a) /\ chunk[a] > 0 /\ f = HDD_IMAGE_NAME)
      BY <2>1 DEF IInv, GuestData
    <3>2. CASE OpenFile(a)
      BY <2>1, <3>1, <3>2 DEF OpenFile, Skipped
    <3>3. CASE WriteBuffer(a)
      BY <2>1, <3>1, <3>3, BoundsType DEF WriteBuffer
    <3> QED BY <3>2, <3>3
  <2> QED BY <2>1, <1>3, BoundsType
<1>9. GuestData'
  <2>1. Current(a)' = f
    BY <1>1 DEF Current
  <2> HIDE DEF f
  <2> QED BY <1>1, <1>4, <1>7, <2>1 DEF IInv, GuestData, Copying
<1> QED BY <1>5, <1>6, <1>8, <1>9

LEMMA RegisterStep ==
  ASSUME IInv, NEW a \in Activity, Register(a)
  PROVE  (SingleThread /\ Recorded /\ Progress /\ GuestData /\ Started)'
<1>0. /\ thread \in [Activity -> {"none", "copy", "done", "failed", "dialog"}]
      /\ file \in [Activity -> 1..Len(runtimeDataFiles) + 1]
      /\ chunk \in [Activity -> 0..Chunks + 1]
      /\ version \in Version /\ savedVersion \in 0..MaxVersion /\ dataVersion \in 0..MaxVersion
  BY DEF IInv, OneInv, TypeOK
<1>1. /\ thread[a] = "copy" /\ thread' = [thread EXCEPT ![a] = "done"]
      /\ dataVersion' = version /\ file[a] = Len(runtimeDataFiles) + 1
      /\ UNCHANGED <<exists, blocks, version, savedVersion, activity, file, chunk, machines>>
  BY <1>0, BoundsType DEF Register, disk
<1>2. /\ \A b \in Activity \ {a} : thread'[b] = "none"
      /\ thread'[a] = "done"
      /\ machines = 0 /\ savedVersion <= dataVersion /\ dataVersion <= version
  BY <1>0, <1>1, Copier
<1>3. File \subseteq exists /\ \A f \in File \ {HDD_IMAGE_NAME} : Extracted(f)
  <2>1. \A i \in 1..Len(runtimeDataFiles) :
          /\ runtimeDataFiles[i] \in exists
          /\ runtimeDataFiles[i] # HDD_IMAGE_NAME => Extracted(runtimeDataFiles[i])
    BY <1>1, BoundsType DEF IInv, Progress
  <2> QED BY <2>1, FilesType DEF File
<1>4. SingleThread' /\ Progress' /\ Started'
  BY <1>1, <1>2 DEF IInv, SingleThread, Progress, Started
<1>5. Recorded'
  BY <1>0, <1>1, <1>2, <1>3, BoundsType DEF Recorded, Extracted, Version
<1>6. GuestData'
  BY <1>1, <1>2 DEF IInv, GuestData, Copying
<1> QED BY <1>4, <1>5, <1>6

LEMMA NextInv == MaxRecreations = 0 /\ IInv /\ [Next]_vars => IInv'
<1> SUFFICES ASSUME MaxRecreations = 0, IInv, [Next]_vars PROVE IInv'
  OBVIOUS
<1>1. OneInv'
  BY OneStep DEF IInv
<1>2. ~Recreate
  BY DEF Recreate, IInv, OneInv, TypeOK
<1>3. (SingleThread /\ Recorded /\ Progress /\ GuestData /\ Started)'
  BY <1>2, QuietStep, StartStep, RestartStep, GuestStep, NextFileStep, CopyStep, RegisterStep
     DEF Next, CopyThread
<1> QED BY <1>1, <1>3 DEF IInv

\* With one installation at a time a machine runs only on files extracted to
\* the end, whatever dies, fails, is retried or upgraded in between.
THEOREM SystemFilesAreComplete ==
  ASSUME MaxRecreations = 0 PROVE Spec => []SystemFilesComplete
<1>1. IInv => SystemFilesComplete
  BY DEF IInv, Started, Recorded, SystemFilesComplete
<1>2. IInv /\ [Next]_vars => IInv'
  BY NextInv
<1> QED BY <1>1, <1>2, InitInv, PTL DEF Spec

\* With one installation at a time no step replaces what the guest wrote.
THEOREM UserDataIsKept ==
  ASSUME MaxRecreations = 0 PROVE Spec => UserDataKept
<1> DEFINE Kept == \A k \in 1..Chunks : blocks[HDD_IMAGE_NAME][k] = User
                                          => blocks'[HDD_IMAGE_NAME][k] = User
<1>1. IInv /\ [Next]_vars => [Kept]_vars
  <2> SUFFICES ASSUME IInv, Next PROVE Kept
    OBVIOUS
  <2>1. CASE \E a \in Activity : OpenFile(a) \/ WriteBuffer(a)
    BY <2>1, CopyStep
  <2>2. CASE \E k \in 1..Chunks : GuestWrites(k)
    BY <2>2, BoundsType DEF GuestWrites, IInv, OneInv, TypeOK
  <2>3. CASE blocks' = blocks
    BY <2>3
  <2>4. \/ blocks' = blocks \/ \E k \in 1..Chunks : GuestWrites(k)
        \/ \E a \in Activity : OpenFile(a) \/ WriteBuffer(a)
    BY DEF Next, CopyThread, Launch, Recreate, Leave, SessionFinished, WhenDone, ShowError,
       TryAgain, Exit, SkipImage, CloseFile, Register, CopyFails, SavePreferences, Crash,
       Upgrade, Dies, disk
  <2> QED BY <2>1, <2>2, <2>3, <2>4
<1>2. IInv /\ [Next]_vars => IInv'
  BY NextInv
<1> HIDE DEF Kept
<1>3. Spec => [][Kept]_vars
  BY <1>1, <1>2, InitInv, PTL DEF Spec
<1> QED BY <1>3 DEF Kept, UserDataKept
=============================================================================

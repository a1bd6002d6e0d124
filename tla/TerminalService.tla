-------------------------- MODULE TerminalService --------------------------
(***************************************************************************)
(* TerminalService and the TerminalActivity instances that come and go     *)
(* around it.  Every action is one callback on the main thread; what       *)
(* varies is the order in which Android delivers them.  In particular the  *)
(* onDestroy() of an activity that is finishing may come after the         *)
(* onServiceConnected() of its successor, and a service that is stopped    *)
(* takes its bound activities with it only some callbacks later.           *)
(*                                                                         *)
(* A service has at most one session; session[s] is mTerminalSession of    *)
(* service s together with what has become of its process.                 *)
(***************************************************************************)
EXTENDS Naturals, FiniteSets

CONSTANTS
  MaxActivities,  \* bound: activities created
  MaxServices,    \* bound: services created
  DEBUG,          \* BuildConfig.DEBUG
  LateDestroy     \* whether an activity may be created while its predecessor
                  \* is still finishing, which Android allows

ASSUME ServiceAssumption ==
  MaxActivities \in Nat /\ MaxServices \in Nat /\ DEBUG \in BOOLEAN /\ LateDestroy \in BOOLEAN

Activity == 1..MaxActivities
Service == 1..MaxServices

VARIABLES
  life,      \* of an activity: new, live, finishing (finish() called), destroyed
  mIsVisible,
  mTermService, \* of an activity: a service or 0
  conn,      \* of an activity: none, binding, connected, or lost with the
             \* onServiceDisconnected() still to come
  bound,     \* of an activity: the service it is bound to
  setup,     \* of an activity: none, running, dialog
  svc,       \* of a service: new, running, stopping (onDestroy() to come), destroyed
  session,   \* null, ready (mShellPid = 0), running, killed, finished
  starts,    \* how many sessions were set in a service
  callback,  \* mSessionChangeCallback: the activity it belongs to, or 0
  mWantsToStop,
  mWakeLock,
  crashed    \* "no", or the place of the exception that ended the process

acts == <<life, mIsVisible, mTermService, conn, bound, setup>>
svcs == <<svc, session, starts, callback, mWantsToStop, mWakeLock>>
vars == <<acts, svcs, crashed>>

Init ==
  /\ life = [a \in Activity |-> "new"] /\ mIsVisible = [a \in Activity |-> FALSE]
  /\ mTermService = [a \in Activity |-> 0] /\ conn = [a \in Activity |-> "none"]
  /\ bound = [a \in Activity |-> 0] /\ setup = [a \in Activity |-> "none"]
  /\ svc = [s \in Service |-> "new"] /\ session = [s \in Service |-> "null"]
  /\ starts = [s \in Service |-> 0] /\ callback = [s \in Service |-> 0]
  /\ mWantsToStop = [s \in Service |-> FALSE] /\ mWakeLock = [s \in Service |-> FALSE]
  /\ crashed = "no"

Alive(a) == life[a] \in {"live", "finishing"}

-----------------------------------------------------------------------------
(* What the callbacks have in common                                       *)

\* An uncaught exception, or SIGKILL to the whole process group.
Crash(where) == crashed' = where /\ UNCHANGED <<acts, svcs>>

Finish(a) == life' = [life EXCEPT ![a] = IF @ = "live" THEN "finishing" ELSE @]

\* stopSelf(): onDestroy() of a service that runs will follow, and the
\* activities connected to it will see onServiceDisconnected().
StopSelf(s) ==
  /\ svc' = [svc EXCEPT ![s] = IF @ = "running" THEN "stopping" ELSE @]
  /\ conn' = [a \in Activity |->
                IF svc[s] # "running" \/ bound[a] # s THEN conn[a]
                ELSE IF conn[a] = "connected" THEN "lost" ELSE "none"]

\* finishIfRunning() of a session that has a process: SIGKILL.
Killed(state) == IF state = "running" THEN "killed" ELSE state

\* terminateService() where the session is not null and has been laid out.
Terminate(s) ==
  /\ mWantsToStop' = [mWantsToStop EXCEPT ![s] = TRUE]
  /\ session' = [session EXCEPT ![s] = Killed(@)]
  /\ StopSelf(s)
  /\ UNCHANGED <<starts, callback, mWakeLock>>

\* terminateService(): NullPointerException without a session, kill(0) with a
\* session whose process was not started yet.
TerminateService(s) ==
  \/ session[s] = "null" /\ Crash("terminateService")
  \/ session[s] = "ready" /\ Crash("kill")
  \/ /\ session[s] \notin {"null", "ready"}
     /\ Terminate(s)
     /\ UNCHANGED <<life, mIsVisible, mTermService, bound, setup, crashed>>

\* whenDone of setupIfNeeded(): startQemu(), attachSession(), setSession().  The
\* process starts now if the view has been laid out.
StartSession(s) ==
  /\ \E state \in {"ready", "running"} : session' = [session EXCEPT ![s] = state]
  /\ starts' = [starts EXCEPT ![s] = @ + 1]

-----------------------------------------------------------------------------
(* TerminalActivity                                                        *)

\* The service that startService() finds or creates.
Current == {s \in Service : svc[s] = "running"}
Fresh == {s \in Service : svc[s] = "new" /\ \A r \in Service : r < s => svc[r] # "new"}

\* onCreate() and startApplication() with the storage permission granted: the
\* service is started and bound.  launchMode singleTask: an activity that is
\* live is brought to front instead, one that is finishing is not.
OnCreate(a) ==
  /\ life[a] = "new"
  /\ \A b \in Activity : b < a => life[b] \in {"destroyed"} \cup IF LateDestroy THEN {"finishing"} ELSE {}
  /\ \E s \in IF Current # {} THEN Current ELSE Fresh :
       /\ svc' = [svc EXCEPT ![s] = "running"]
       /\ bound' = [bound EXCEPT ![a] = s]
  /\ life' = [life EXCEPT ![a] = "live"]
  /\ conn' = [conn EXCEPT ![a] = "binding"]
  /\ UNCHANGED <<mIsVisible, mTermService, setup, session, starts, callback, mWantsToStop,
                 mWakeLock, crashed>>

\* onStart(); the session it attaches to the view is the one of mTermService.
OnStart(a) ==
  /\ life[a] = "live" /\ ~mIsVisible[a]
  /\ mIsVisible' = [mIsVisible EXCEPT ![a] = TRUE]
  /\ UNCHANGED <<life, mTermService, conn, bound, setup, svcs, crashed>>

OnStop(a) ==
  /\ Alive(a) /\ mIsVisible[a]
  /\ mIsVisible' = [mIsVisible EXCEPT ![a] = FALSE]
  /\ UNCHANGED <<life, mTermService, conn, bound, setup, svcs, crashed>>

\* onSizeChanged() of the view: updateSize() starts the process of the session.
OnSizeChanged(a) ==
  /\ life[a] = "live" /\ mIsVisible[a] /\ mTermService[a] # 0
  /\ session[mTermService[a]] = "ready"
  /\ session' = [session EXCEPT ![mTermService[a]] = "running"]
  /\ UNCHANGED <<acts, svc, starts, callback, mWantsToStop, mWakeLock, crashed>>

\* Mutant of OnServiceConnected: the callback is registered together with the
\* session.
OnServiceConnectedFirst(a) ==
  /\ Alive(a) /\ conn[a] = "binding"
  /\ \A s \in Service : svc[s] # "stopping"
  /\ conn' = [conn EXCEPT ![a] = "connected"]
  /\ mTermService' = [mTermService EXCEPT ![a] = bound[a]]
  /\ \/ /\ session[bound[a]] = "null" /\ mIsVisible[a]
        /\ callback' = [callback EXCEPT ![bound[a]] = a]
        /\ StartSession(bound[a])
     \/ /\ session[bound[a]] # "null"
        /\ UNCHANGED <<session, starts, callback>>
  /\ UNCHANGED <<life, setup, mIsVisible, bound, svc, mWantsToStop, mWakeLock, crashed>>

\* A service that is being destroyed is destroyed before its successor is
\* bound: both are messages of the same looper.
OnServiceConnected(a) ==
  /\ Alive(a) /\ conn[a] = "binding"
  /\ \A s \in Service : svc[s] # "stopping"
  /\ conn' = [conn EXCEPT ![a] = "connected"]
  /\ mTermService' = [mTermService EXCEPT ![a] = bound[a]]
  /\ callback' = [callback EXCEPT ![bound[a]] = a]
  /\ \/ /\ session[bound[a]] = "null" /\ mIsVisible[a]
        /\ \/ StartSession(bound[a]) /\ UNCHANGED setup
           \/ setup' = [setup EXCEPT ![a] = "running"] /\ UNCHANGED <<session, starts>>
        /\ UNCHANGED life
     \/ /\ session[bound[a]] = "null" /\ ~mIsVisible[a]
        /\ Finish(a)
        /\ UNCHANGED <<setup, session, starts>>
     \/ /\ session[bound[a]] # "null"
        /\ UNCHANGED <<life, setup, session, starts>>
  /\ UNCHANGED <<mIsVisible, bound, svc, mWantsToStop, mWakeLock, crashed>>

\* Mutant of WhenDone: the destroyed activity is not noticed.
WhenDoneAnyway(a) ==
  /\ setup[a] = "running"
  /\ setup' = [setup EXCEPT ![a] = "none"]
  /\ StartSession(bound[a])
  /\ UNCHANGED <<life, mIsVisible, mTermService, conn, bound, svc, callback, mWantsToStop,
                 mWakeLock, crashed>>

\* whenDone after the installer's thread: nothing once the activity has been
\* destroyed.
WhenDone(a) ==
  /\ setup[a] = "running"
  /\ setup' = [setup EXCEPT ![a] = "none"]
  /\ \/ mTermService[a] = 0 /\ UNCHANGED <<session, starts>>
     \/ mTermService[a] # 0 /\ StartSession(mTermService[a])
  /\ UNCHANGED <<life, mIsVisible, mTermService, conn, bound, svc, callback, mWantsToStop,
                 mWakeLock, crashed>>

\* The installer fails: its dialog, unless the activity was destroyed.
InstallFails(a) ==
  /\ setup[a] = "running"
  /\ setup' = [setup EXCEPT ![a] = IF Alive(a) THEN "dialog" ELSE "none"]
  /\ UNCHANGED <<life, mIsVisible, mTermService, conn, bound, svcs, crashed>>

\* The dialog's two buttons.
TryAgain(a) ==
  /\ setup[a] = "dialog" /\ Alive(a) /\ mIsVisible[a]
  /\ setup' = [setup EXCEPT ![a] = "running"]
  /\ UNCHANGED <<life, mIsVisible, mTermService, conn, bound, svcs, crashed>>

ExitSetup(a) ==
  /\ setup[a] = "dialog" /\ Alive(a) /\ mIsVisible[a]
  /\ setup' = [setup EXCEPT ![a] = "none"]
  /\ Finish(a)
  /\ UNCHANGED <<mIsVisible, mTermService, conn, bound, svcs, crashed>>

\* The back key; the installer's dialogs are not cancelable.
Back(a) ==
  /\ life[a] = "live" /\ mIsVisible[a] /\ setup[a] = "none"
  /\ Finish(a)
  /\ UNCHANGED <<mIsVisible, mTermService, conn, bound, setup, svcs, crashed>>

\* The shutdown entry of the context menu, confirmed.
ShutdownItem(a) ==
  /\ Alive(a) /\ mIsVisible[a] /\ mTermService[a] # 0 /\ setup[a] = "none"
  /\ TerminateService(mTermService[a])

\* Mutant of OnServiceDisconnected: finish() is missing.
OnServiceDisconnectedStays(a) ==
  /\ Alive(a) /\ conn[a] = "lost"
  /\ conn' = [conn EXCEPT ![a] = "none"]
  /\ UNCHANGED <<life, mIsVisible, mTermService, bound, setup, svcs, crashed>>

OnServiceDisconnected(a) ==
  /\ Alive(a) /\ conn[a] = "lost"
  /\ conn' = [conn EXCEPT ![a] = "none"]
  /\ Finish(a)
  /\ UNCHANGED <<mIsVisible, mTermService, bound, setup, svcs, crashed>>

\* Mutant of OnDestroyActivity: the service keeps the callback.
OnDestroyActivityLeaks(a) ==
  /\ Alive(a) /\ ~mIsVisible[a]
  /\ life' = [life EXCEPT ![a] = "destroyed"]
  /\ conn' = [conn EXCEPT ![a] = "none"]
  /\ mTermService' = [mTermService EXCEPT ![a] = 0]
  /\ UNCHANGED <<mIsVisible, bound, setup, svcs, crashed>>

\* onDestroy(), after finish() or because the system takes the activity away.
OnDestroyActivity(a) ==
  /\ Alive(a) /\ ~mIsVisible[a]
  /\ life' = [life EXCEPT ![a] = "destroyed"]
  /\ conn' = [conn EXCEPT ![a] = "none"]
  /\ callback' = [s \in Service |-> IF s = mTermService[a] THEN 0 ELSE callback[s]]
  /\ mTermService' = [mTermService EXCEPT ![a] = 0]
  /\ UNCHANGED <<mIsVisible, bound, setup, svc, session, starts, mWantsToStop, mWakeLock, crashed>>

-----------------------------------------------------------------------------
(* TerminalService                                                         *)

\* onStartCommand() with the stop action of the notification.
OnStopCommand(s) ==
  /\ svc[s] = "running"
  /\ TerminateService(s)

\* onStartCommand() with the wake lock action: the lock changes hands and the
\* notification is updated, which stops a service without a session.
OnWakeLockCommand(s) ==
  /\ svc[s] = "running"
  /\ mWakeLock' = [mWakeLock EXCEPT ![s] = ~@]
  /\ \/ session[s] = "null" /\ StopSelf(s)
     \/ session[s] # "null" /\ UNCHANGED <<svc, conn>>
  /\ UNCHANGED <<life, mIsVisible, mTermService, bound, setup, session, starts, callback,
                 mWantsToStop, crashed>>

\* Mutant of OnDestroyService: a missing session is tolerated.
OnDestroyServiceTolerant(s) ==
  /\ svc[s] = "stopping"
  /\ session[s] # "ready"
  /\ svc' = [svc EXCEPT ![s] = "destroyed"]
  /\ session' = [session EXCEPT ![s] = Killed(@)]
  /\ mWakeLock' = [mWakeLock EXCEPT ![s] = FALSE]
  /\ UNCHANGED <<acts, starts, callback, mWantsToStop, crashed>>

OnDestroyService(s) ==
  /\ svc[s] = "stopping"
  /\ \/ session[s] = "null" /\ Crash("onDestroy")
     \/ session[s] = "ready" /\ Crash("kill")
     \/ /\ session[s] \notin {"null", "ready"}
        /\ svc' = [svc EXCEPT ![s] = "destroyed"]
        /\ session' = [session EXCEPT ![s] = Killed(@)]
        /\ mWakeLock' = [mWakeLock EXCEPT ![s] = FALSE]
        /\ UNCHANGED <<acts, starts, callback, mWantsToStop, crashed>>

\* The exit of the process reaches the session's handler and through the
\* service the activity whose callback is registered.
OnSessionFinished(s) ==
  /\ session[s] \in {"running", "killed"}
  /\ LET a == callback[s]
         t == IF a = 0 THEN 0 ELSE mTermService[a] IN
     IF a # 0 /\ ~DEBUG /\ t = 0 THEN Crash("onSessionFinished")
     ELSE
       /\ session' = [r \in Service |-> IF r = s THEN "finished"
                                       ELSE IF r = t /\ ~DEBUG /\ ~mWantsToStop[t]
                                            THEN Killed(session[r]) ELSE session[r]]
       /\ \/ /\ a = 0 \/ DEBUG
             /\ UNCHANGED <<life, conn, svc, mWantsToStop>>
          \/ /\ a # 0 /\ ~DEBUG /\ mWantsToStop[t]
             /\ Finish(a)
             /\ UNCHANGED <<conn, svc, mWantsToStop>>
          \/ /\ a # 0 /\ ~DEBUG /\ ~mWantsToStop[t]
             /\ mWantsToStop' = [mWantsToStop EXCEPT ![t] = TRUE]
             /\ StopSelf(t)
             /\ UNCHANGED life
       /\ UNCHANGED <<mIsVisible, mTermService, bound, setup, starts, callback, mWakeLock, crashed>>

-----------------------------------------------------------------------------
ActivityStep(a) ==
  \/ OnCreate(a) \/ OnStart(a) \/ OnStop(a) \/ OnSizeChanged(a) \/ OnServiceConnected(a)
  \/ WhenDone(a) \/ InstallFails(a) \/ TryAgain(a) \/ ExitSetup(a) \/ Back(a)
  \/ ShutdownItem(a) \/ OnServiceDisconnected(a) \/ OnDestroyActivity(a)

ServiceStep(s) ==
  OnStopCommand(s) \/ OnWakeLockCommand(s) \/ OnDestroyService(s) \/ OnSessionFinished(s)

Next ==
  /\ crashed = "no"
  /\ \/ \E a \in Activity : ActivityStep(a)
     \/ \E s \in Service : ServiceStep(s)

Spec == Init /\ [][Next]_vars

\* Android delivers the callbacks it owes: onDestroy() of a stopped service,
\* onServiceDisconnected(), onStop() of an activity that is finishing; and a
\* killed process is reaped and its exit handled.
Fairness ==
  /\ \A s \in Service : /\ WF_vars(crashed = "no" /\ OnDestroyService(s))
                       /\ WF_vars(crashed = "no" /\ session[s] = "killed" /\ OnSessionFinished(s))
  /\ \A a \in Activity : /\ WF_vars(crashed = "no" /\ OnServiceDisconnected(a))
                        /\ WF_vars(crashed = "no" /\ life[a] = "finishing" /\ OnStop(a))
                        /\ WF_vars(crashed = "no" /\ life[a] = "finishing" /\ OnDestroyActivity(a))

FairSpec == Spec /\ Fairness

-----------------------------------------------------------------------------
(* Properties                                                              *)

\* The type of the variables; the callback of an activity never finds
\* mTermService null.
TypeOK ==
  /\ life \in [Activity -> {"new", "live", "finishing", "destroyed"}]
  /\ mIsVisible \in [Activity -> BOOLEAN]
  /\ mTermService \in [Activity -> Service \cup {0}] /\ bound \in [Activity -> Service \cup {0}]
  /\ conn \in [Activity -> {"none", "binding", "connected", "lost"}]
  /\ setup \in [Activity -> {"none", "running", "dialog"}]
  /\ svc \in [Service -> {"new", "running", "stopping", "destroyed"}]
  /\ session \in [Service -> {"null", "ready", "running", "killed", "finished"}]
  /\ starts \in [Service -> Nat] /\ callback \in [Service -> Activity \cup {0}]
  /\ mWantsToStop \in [Service -> BOOLEAN] /\ mWakeLock \in [Service -> BOOLEAN]
  /\ crashed \in {"no", "terminateService", "kill", "onDestroy"}

\* "Do not leave service with references to activity": a registered callback
\* belongs to an activity that is not destroyed and is connected to that very
\* service, so that the callback finds mTermService set.
CallbackConnected ==
  \A s \in Service : callback[s] # 0 => Alive(callback[s]) /\ mTermService[callback[s]] = s

\* At most one machine that nobody asked to end, and one per service, although
\* every activity that finds no session sets out to start one.
OneMachine ==
  /\ Cardinality({s \in Service : session[s] \in {"ready", "running"}}) <= 1
  /\ \A s \in Service : starts[s] <= 1

\* A machine does not outlive its service, nor do the locks.
NoOrphans ==
  \A s \in Service : svc[s] = "destroyed" =>
    session[s] \in {"null", "killed", "finished"} /\ ~mWakeLock[s]

\* Once a shutdown is under way the machine ends, the service is destroyed and
\* the activities connected to it go away.
ShutdownCompletes ==
  \A s \in Service :
    mWantsToStop[s] ~> \/ crashed # "no"
                      \/ /\ session[s] = "finished" /\ svc[s] = "destroyed"
                         /\ \A a \in Activity : mTermService[a] # s

\* "Exit if we are updating after the user disabled all locks with no sessions
\* or tasks running": stopping a service without a session works.
ExitsWithoutSession == crashed # "onDestroy"

\* "In that case the user may restart TerminalActivity later to yet again
\* access the sessions": the live activity connected to a running service is the
\* one that hears of its session.
RestartedActivityServed ==
  \A a \in Activity, s \in Service :
    life[a] = "live" /\ conn[a] = "connected" /\ mTermService[a] = s /\ svc[s] = "running"
      => callback[s] = a
=============================================================================

--------------------------- MODULE ElevatedLaunch ---------------------------
(***************************************************************************)
(* BinaryServiceBase on Windows: launching with elevation.                 *)
(*                                                                         *)
(* ShellExecuteEx blocks while the UAC prompt is open, so a worker thread  *)
(* calls it.  The thread and the service share an ElevatedLaunchState,     *)
(* which lives as long as one of them refers to it; a timer of the service *)
(* looks for the result and later watches the process.  A launch is        *)
(* identified with its thread, its state and its process; EasyTierManager, *)
(* whose launches are all elevated, starts no other process.  m_has_error  *)
(* goes with the state as in BinaryService, and is left out.               *)
(***************************************************************************)

CONSTANTS
  Launches,  \* identities of launches
  Paths,     \* install directories the user may choose
  None       \* a null pointer or handle

ASSUME LaunchAssumption == None \notin Launches

VARIABLES
  state,                   \* m_state
  install_path,            \* m_install_path
  installed_in,            \* the directories that hold the core
  installing,              \* a release or an archive is on its way
  exists,                  \* the service has not been destroyed
  elevated_handle,         \* m_elevated_handle: the launch it belongs to
  elevate_pending,         \* m_elevate_pending
  elevate_stop_requested,  \* m_elevate_stop_requested
  elevated_state,          \* m_elevated_state
  timer,                   \* m_elevated_poll_timer runs
  worker,                  \* worker[l]: what the thread of l does next
  shared,                  \* shared[l]: the fields of its ElevatedLaunchState
  alive,                   \* the processes that run, elevated
  opened,                  \* the process handles that have to be closed
  wanted                   \* history: no stop since the last accepted start

installation == <<install_path, installed_in, installing>>
launching == <<elevated_handle, elevate_pending, elevate_stop_requested,
               elevated_state, timer>>
system == <<worker, shared, alive, opened>>
vars == <<state, installation, exists, launching, system, wanted>>

\* Of the seven states the three busy ones are not told apart.
States == {"NotInstalled", "Busy", "Ready", "Running", "Error"}

\* Where a thread is: ShellExecuteEx blocks; it has returned; the result is
\* written; done is set; the thread has ended.
Steps == {"prompt", "allowed", "refused", "stored", "signalled", "ended"}

ElevatedLaunchState == [done : BOOLEAN, ok : BOOLEAN, handle : BOOLEAN]

\* Mutation: the members have no initial values.
new_state_uninitialised == [done |-> FALSE, ok |-> FALSE, handle |-> None]

new_state == [done |-> FALSE, ok |-> FALSE, handle |-> FALSE]

-----------------------------------------------------------------------------

running == elevated_handle \in alive

detected(path, dirs) == IF path \in dirs THEN "Ready" ELSE "NotInstalled"

unused(l) == worker[l] = "ended" /\ elevated_state # l /\ l \notin opened

\* TerminateProcess() and CloseHandle().
terminated(ls) == alive' = alive \ ls /\ opened' = opened \ ls

\* Mutation: the state forgets the handle instead of closing it.
state_dropped_leaking(l) ==
  /\ shared' = [shared EXCEPT ![l].handle = FALSE]
  /\ opened' = opened \ (IF shared[l].handle THEN {l} ELSE {})
  /\ UNCHANGED alive

\* ~ElevatedLaunchState() of a launch nobody refers to any longer.
state_dropped(l) ==
  /\ terminated(IF shared[l].handle THEN {l} ELSE {})
  /\ shared' = [shared EXCEPT ![l].handle = FALSE]

-----------------------------------------------------------------------------
(* The calls of the main thread *)

\* The fields of the service after stop_process().  During the prompt it
\* leaves a request, and the process that may come is ended by the timer.
stop_process ==
  \/ /\ elevate_pending
     /\ elevate_stop_requested' = TRUE
     /\ UNCHANGED <<elevated_handle, elevate_pending, elevated_state, timer, alive, opened>>
  \/ /\ ~elevate_pending /\ elevated_handle # None
     /\ timer' = FALSE
     /\ terminated({elevated_handle})
     /\ elevated_handle' = None
     /\ UNCHANGED <<elevate_pending, elevate_stop_requested, elevated_state>>
  \/ /\ ~elevate_pending /\ elevated_handle = None
     /\ UNCHANGED <<launching, alive, opened>>

stop_if_running ==
  \/ running /\ stop_process
  \/ ~running /\ UNCHANGED <<launching, alive, opened>>

Stop ==
  /\ exists
  /\ stop_process
  /\ state' = IF elevated_handle # elevated_handle' /\ state = "Running" THEN "Ready" ELSE state
  /\ wanted' = FALSE
  /\ UNCHANGED <<installation, exists, worker, shared>>

\* Not installed, the prompt of the last start is still open, or its process
\* has ended unnoticed.
LaunchRefused ==
  /\ exists /\ ~running
  /\ install_path \notin installed_in \/ elevate_pending \/ elevated_handle # None
  /\ state' = "Error"
  /\ UNCHANGED <<installation, exists, launching, system, wanted>>

\* launch_elevated_windows(): the state does not change before the answer.
Launch ==
  \E l \in Launches :
    /\ exists /\ ~running
    /\ install_path \in installed_in /\ ~elevate_pending /\ elevated_handle = None
    /\ unused(l)
    /\ shared' = [shared EXCEPT ![l] = new_state]
    /\ worker' = [worker EXCEPT ![l] = "prompt"]
    /\ elevated_state' = l
    /\ elevate_pending' = TRUE
    /\ elevate_stop_requested' = FALSE
    /\ timer' = TRUE
    /\ wanted' = TRUE
    /\ UNCHANGED <<state, installation, exists, elevated_handle, alive, opened>>

\* A path change or an uninstallation stops a process that runs, and lets an
\* open prompt be.
SetInstallPath ==
  /\ exists
  /\ stop_if_running
  /\ \E d \in Paths \ {install_path} :
       install_path' = d /\ state' = detected(d, installed_in)
  /\ UNCHANGED <<installed_in, installing, exists, worker, shared, wanted>>

ResetInstall ==
  /\ exists
  /\ stop_if_running
  /\ installed_in' = installed_in \ {install_path}
  /\ state' = "NotInstalled"
  /\ UNCHANGED <<install_path, installing, exists, worker, shared, wanted>>

\* check_and_install(), and how the installation ends.
Install ==
  /\ exists /\ state # "Busy" /\ ~running
  /\ state' = "Busy"
  /\ installing' = TRUE
  /\ UNCHANGED <<install_path, installed_in, exists, launching, system, wanted>>

InstallEnds ==
  /\ exists /\ installing
  /\ installing' = FALSE
  /\ \/ state' = "Ready" /\ installed_in' = installed_in \cup {install_path}
     \/ state' = "Error" /\ installed_in' \in {installed_in, installed_in \ {install_path}}
  /\ UNCHANGED <<install_path, exists, launching, system, wanted>>

\* Its state outlives the service while the thread refers to it.
Destroy ==
  /\ exists
  /\ exists' = FALSE
  /\ timer' = FALSE
  /\ elevated_handle' = None
  /\ elevated_state' = None
  /\ IF elevated_state # None /\ worker[elevated_state] = "ended"
       THEN state_dropped(elevated_state)
       ELSE terminated({elevated_handle}) /\ UNCHANGED shared
  /\ UNCHANGED <<state, installation, elevate_pending, elevate_stop_requested, worker, wanted>>

-----------------------------------------------------------------------------
(* The timer *)

pending_over ==
  /\ elevate_pending' = FALSE
  /\ elevated_state' = None

\* Mutation: the stop that was asked for meanwhile is forgotten.
result_allowed_regardless(l) ==
  /\ shared[l].ok
  /\ elevated_handle' = l
  /\ shared' = [shared EXCEPT ![l].handle = FALSE]
  /\ elevate_stop_requested' = FALSE
  /\ state' = "Running"
  /\ UNCHANGED <<timer, alive, opened>>

\* Mutation: the handle stays in the state as well.
result_allowed_shared(l) ==
  /\ shared[l].ok /\ ~elevate_stop_requested
  /\ elevated_handle' = l
  /\ elevate_stop_requested' = FALSE
  /\ state' = "Running"
  /\ UNCHANGED <<shared, timer, alive, opened>>

\* The handle becomes the service's, and the timer goes on to watch it.
result_allowed(l) ==
  /\ shared[l].ok /\ ~elevate_stop_requested
  /\ elevated_handle' = IF shared[l].handle THEN l ELSE None
  /\ shared' = [shared EXCEPT ![l].handle = FALSE]
  /\ elevate_stop_requested' = FALSE
  /\ state' = "Running"
  /\ UNCHANGED <<timer, alive, opened>>

result_stopped(l) ==
  /\ shared[l].ok /\ elevate_stop_requested
  /\ state_dropped(l)
  /\ elevate_stop_requested' = FALSE
  /\ timer' = FALSE
  /\ UNCHANGED <<elevated_handle, state>>

result_refused(l) ==
  /\ ~shared[l].ok
  /\ timer' = FALSE
  /\ state' = "Error"
  /\ UNCHANGED <<elevated_handle, elevate_stop_requested, shared, alive, opened>>

\* on_elevated_tick() with a result to take.
TakeResult ==
  /\ timer /\ elevate_pending
  /\ \E l \in Launches :
       /\ l = elevated_state /\ shared[l].done
       /\ result_allowed(l) \/ result_stopped(l) \/ result_refused(l)
  /\ pending_over
  /\ UNCHANGED <<installation, exists, worker, wanted>>

\* on_elevated_tick() with a process that has ended.
NoticeExit ==
  /\ timer /\ ~elevate_pending /\ elevated_handle # None /\ ~running
  /\ timer' = FALSE
  /\ opened' = opened \ {elevated_handle}
  /\ elevated_handle' = None
  /\ state' = IF state = "Running" THEN "Ready" ELSE state
  /\ UNCHANGED <<installation, exists, elevate_pending, elevate_stop_requested,
                 elevated_state, worker, shared, alive, wanted>>

-----------------------------------------------------------------------------
(* The thread of a launch, the prompt and the process *)

\* The user consents, or not.
AnswerPrompt(l) ==
  /\ worker[l] = "prompt"
  /\ \/ /\ worker' = [worker EXCEPT ![l] = "allowed"]
        /\ alive' = alive \cup {l} /\ opened' = opened \cup {l}
     \/ worker' = [worker EXCEPT ![l] = "refused"] /\ UNCHANGED <<alive, opened>>
  /\ UNCHANGED <<state, installation, exists, launching, shared, wanted>>

\* It writes ok and handle; what it writes after a refusal is there already.
StoreResult(l) ==
  /\ \/ /\ worker[l] = "allowed"
        /\ shared' = [shared EXCEPT ![l].ok = TRUE, ![l].handle = TRUE]
     \/ worker[l] = "refused" /\ UNCHANGED shared
  /\ worker' = [worker EXCEPT ![l] = "stored"]
  /\ UNCHANGED <<state, installation, exists, launching, alive, opened, wanted>>

\* Mutation: the thread returns without a signal when the call has failed.
SignalDone_on_success(l) ==
  /\ worker[l] = "stored"
  /\ worker' = [worker EXCEPT ![l] = "signalled"]
  /\ shared' = [shared EXCEPT ![l].done = shared[l].ok]
  /\ UNCHANGED <<state, installation, exists, launching, alive, opened, wanted>>

SignalDone(l) ==
  /\ worker[l] = "stored"
  /\ worker' = [worker EXCEPT ![l] = "signalled"]
  /\ shared' = [shared EXCEPT ![l].done = TRUE]
  /\ UNCHANGED <<state, installation, exists, launching, alive, opened, wanted>>

\* It drops its reference, perhaps the last one.
ThreadEnds(l) ==
  /\ worker[l] = "signalled"
  /\ worker' = [worker EXCEPT ![l] = "ended"]
  /\ IF elevated_state = l THEN UNCHANGED <<shared, alive, opened>> ELSE state_dropped(l)
  /\ UNCHANGED <<state, installation, exists, launching, wanted>>

ProcessExits ==
  /\ \E l \in alive : alive' = alive \ {l}
  /\ UNCHANGED <<state, installation, exists, launching, worker, shared, opened, wanted>>

-----------------------------------------------------------------------------

Init ==
  /\ install_path \in Paths
  /\ installed_in \in SUBSET Paths
  /\ installing = FALSE
  /\ state = detected(install_path, installed_in)
  /\ exists = TRUE
  /\ elevated_handle = None
  /\ elevate_pending = FALSE
  /\ elevate_stop_requested = FALSE
  /\ elevated_state = None
  /\ timer = FALSE
  /\ worker = [l \in Launches |-> "ended"]
  /\ shared = [l \in Launches |-> new_state]
  /\ alive = {} /\ opened = {}
  /\ wanted = FALSE

Thread(l) == AnswerPrompt(l) \/ StoreResult(l) \/ SignalDone(l) \/ ThreadEnds(l)

Next ==
  \/ Stop \/ LaunchRefused \/ Launch
  \/ SetInstallPath \/ ResetInstall \/ Install \/ InstallEnds
  \/ Destroy
  \/ TakeResult \/ NoticeExit
  \/ \E l \in Launches : Thread(l)
  \/ ProcessExits

\* The timer fires, threads are scheduled, and Windows closes a prompt nobody
\* answers.
Fairness ==
  /\ WF_vars(TakeResult) /\ WF_vars(NoticeExit)
  /\ \A l \in Launches : WF_vars(Thread(l))

Spec == Init /\ [][Next]_vars /\ Fairness

-----------------------------------------------------------------------------

TypeOK ==
  /\ state \in States
  /\ install_path \in Paths /\ installed_in \subseteq Paths
  /\ {installing, exists, elevate_pending, elevate_stop_requested, timer, wanted}
       \subseteq BOOLEAN
  /\ {elevated_handle, elevated_state} \subseteq Launches \cup {None}
  /\ worker \in [Launches -> Steps]
  /\ shared \in [Launches -> ElevatedLaunchState]
  /\ alive \subseteq Launches /\ opened \subseteq Launches

Owners(l) ==
  {o \in {"thread", "state", "service"} :
     \/ o = "thread" /\ worker[l] = "allowed"
     \/ o = "state" /\ shared[l].handle
     \/ o = "service" /\ elevated_handle = l}

\* The handle of every process is somebody's until it is closed, and nobody
\* else's: it is closed once, and never used after that
\* (binary_service_base.hpp:28-32).
OneOwner ==
  \A l \in Launches :
    IF l \in opened THEN \E o \in Owners(l) : Owners(l) = {o} ELSE Owners(l) = {}

\* When the service is gone, an elevated process only lives until the thread
\* that started it has ended (binary_service_base.cpp:495-499).  The thread is
\* detached and runs on here; the end of main, which would kill it, is left out.
NothingSurvives == ~exists => \A l \in alive : worker[l] # "ended"

\* After a stop, also one while the prompt is open, no process gets managed
\* until the next start, and Running is only shown with a process that is.
StopHonoured ==
  /\ elevated_handle # None => wanted
  /\ exists /\ state = "Running" => elevated_handle # None

\* A start does not stay pending for ever: whatever the user answers, the
\* service can start again.
PendingEnds == elevate_pending /\ exists ~> ~elevate_pending \/ ~exists
=============================================================================

----------------------- MODULE EasyTierManagerProofs -----------------------
(***************************************************************************)
(* What holds of EasyTierManager for any set of install directories and    *)
(* process identities and any number of outstanding easytier-cli queries   *)
(* and pkill requests.  The inductive invariant adds to the base class's   *)
(* Good the ranges of the counters and the link between the poll timer and *)
(* the core.  Under it each step is one of ManagedTool.                    *)
(***************************************************************************)
EXTENDS EasyTierManager, BinaryServiceProofs

LEMMA OutcomesOfEasyTier ==
  ASSUME NEW files \in [Files -> Contents]
  PROVE  OutcomesOK(install_outcomes(files))
<1> USE EasyTierFiles
<1> SUFFICES ASSUME NEW o \in install_outcomes(files)
             PROVE  /\ o.files \in [Files -> Contents]
                    /\ o.temp = {}
                    /\ o.ok \in BOOLEAN
                    /\ o.ok => \A f \in Required : o.files[f] # "absent"
  BY DEF OutcomesOK
<1>1. CASE o = [files |-> files, temp |-> {}, ok |-> FALSE]
  BY <1>1
<1>2. CASE o = [files |-> [files EXCEPT !["core"] = "absent"],
                temp |-> {}, ok |-> FALSE]
  BY <1>2 DEF Contents
<1>3. CASE o = [files |-> [files EXCEPT !["core"] = "shipped", !["cli"] = "absent"],
                temp |-> {}, ok |-> FALSE]
  BY <1>3 DEF Contents
<1>4. CASE o = [files |-> [f \in Files |-> "shipped"], temp |-> {}, ok |-> TRUE]
  BY <1>4 DEF Contents
<1> QED
  BY <1>1, <1>2, <1>3, <1>4 DEF install_outcomes

Counters ==
  /\ asking \in Nat /\ answered \in Nat
  /\ asking + answered <= MaxCli
  /\ kills \in [Paths -> 0 .. MaxKills]

Flags ==
  /\ virtual_ip \in {"none", "address"}
  /\ polling \in BOOLEAN /\ kick \in BOOLEAN /\ hook \in BOOLEAN

EasyTierInv ==
  /\ Good(svc, disk, temp)
  /\ Counters
  /\ Flags
  /\ PollingOnlyWhileRunning

LEMMA EasyTierInit == Init => EasyTierInv
<1> SUFFICES ASSUME Init PROVE EasyTierInv
  OBVIOUS
<1>1. Good(svc, disk, temp)
  BY InitServiceGood DEF Init
<1>2. Counters
  BY EasyTierBounds DEF Init, Counters
<1>3. Flags /\ PollingOnlyWhileRunning
  BY DEF Init, Flags, PollingOnlyWhileRunning
<1> QED
  BY <1>1, <1>2, <1>3 DEF EasyTierInv

-----------------------------------------------------------------------------
(* Groups of actions *)

LEMMA InstallActions ==
  ASSUME EasyTierInv,
         CheckAndInstall \/ ReleaseFetched \/ InstallFromUrl \/ DownloadFinished
  PROVE  EasyTierInv'
<1>1. disk[svc.install_path] \in [Files -> Contents]
  BY DEF EasyTierInv, Good, Core, Service, Disk
<1>2. Good(svc, disk, temp)'
  BY <1>1, CheckAndInstallGood, OnReleaseFetchedGood, InstallFromUrlGood,
     OnDownloadFinishedGood, OutcomesOfEasyTier
  DEF EasyTierInv, CheckAndInstall, ReleaseFetched, InstallFromUrl, DownloadFinished
<1>3. SameProcess
  BY InstallKeepsProcess
  DEF EasyTierInv, CheckAndInstall, ReleaseFetched, InstallFromUrl, DownloadFinished
<1>4. UNCHANGED <<ipVars, kills>>
  BY DEF CheckAndInstall, ReleaseFetched, InstallFromUrl, DownloadFinished
<1> QED
  BY <1>2, <1>3, <1>4
  DEF EasyTierInv, Counters, Flags, PollingOnlyWhileRunning, SameProcess, running, ipVars

\* When the core ends, the hook stops the polling; when it does not, it is
\* still running.
LEMMA ProcessEndsPolling ==
  ASSUME EasyTierInv, on_process_finished,
         set_install_path \/ reset_install \/ stop \/ process_exits
  PROVE  (Flags /\ PollingOnlyWhileRunning)' /\ UNCHANGED <<asking, answered>>
<1>1. running(svc) => svc.process # None
  BY ServiceAssumption DEF running
<1>2. running(svc) => svc'.process = None \/ running(svc')
  BY EndsOrLives DEF EasyTierInv
<1> QED
  BY <1>1, <1>2 DEF EasyTierInv, Flags, PollingOnlyWhileRunning, on_process_finished,
     process_ended

LEMMA CounterUnchanged ==
  ASSUME Counters, UNCHANGED <<asking, answered, kills>>
  PROVE  Counters'
BY DEF Counters

LEMMA EndingActions ==
  ASSUME EasyTierInv, SetInstallPath \/ ResetInstall \/ ProcessExits
  PROVE  EasyTierInv'
<1>1. CASE SetInstallPath
  BY <1>1, SetInstallPathGood, ProcessEndsPolling, CounterUnchanged
  DEF EasyTierInv, SetInstallPath
<1>2. CASE ProcessExits
  BY <1>2, ProcessExitsGood, ProcessEndsPolling, CounterUnchanged
  DEF EasyTierInv, ProcessExits
<1>3. CASE ResetInstall
  <2>1. running(svc) => svc.process # None
    BY ServiceAssumption DEF running
  <2>2. running(svc) => svc'.process = None \/ running(svc')
    BY <1>3, EndsOrLives DEF EasyTierInv, ResetInstall
  <2>3. (Flags /\ PollingOnlyWhileRunning)'
    BY <1>3, <2>1, <2>2
    DEF EasyTierInv, Flags, PollingOnlyWhileRunning, ResetInstall, process_ended
  <2> QED
    BY <1>3, <2>3, ResetInstallGood, CounterUnchanged DEF EasyTierInv, ResetInstall
<1> QED
  BY <1>1, <1>2, <1>3

LEMMA StopAction ==
  ASSUME EasyTierInv, Stop
  PROVE  EasyTierInv'
<1>1. CASE svc.launch_elevated
  <2>1. /\ kills[svc.install_path] < MaxKills
        /\ kills' = [kills EXCEPT ![svc.install_path] = @ + 1]
        /\ UNCHANGED <<svc, disk, temp, ipVars>>
    BY <1>1 DEF Stop
  <2>2. Counters'
    BY <2>1, EasyTierBounds
    DEF EasyTierInv, Counters, ipVars, Good, Core, Service
  <2> QED
    BY <2>1, <2>2, GoodPrimed
    DEF EasyTierInv, Flags, PollingOnlyWhileRunning, running, ipVars
<1>2. CASE ~svc.launch_elevated
  BY <1>2, StopGood, ProcessEndsPolling, CounterUnchanged DEF EasyTierInv, Stop
<1> QED
  BY <1>1, <1>2

LEMMA PkillAction ==
  ASSUME EasyTierInv, PkillFinished
  PROVE  EasyTierInv'
<1>1. PICK d \in Paths :
        /\ kills[d] > 0
        /\ kills' = [kills EXCEPT ![d] = @ - 1]
        /\ \/ UNCHANGED svc
           \/ \E p \in Procs :
                /\ svc.live[p] = [as |-> "root", dir |-> d]
                /\ svc' = finished(svc, p, TRUE)
        /\ UNCHANGED <<disk, temp>>
        /\ on_process_finished
  BY DEF PkillFinished
<1>2. Counters'
  BY <1>1, EasyTierBounds DEF EasyTierInv, Counters, on_process_finished
<1>3. CASE UNCHANGED svc
  <2>1. Good(svc, disk, temp)'
    BY <1>1, <1>3, GoodPrimed DEF EasyTierInv
  <2> QED
    BY <1>1, <1>2, <1>3, <2>1
    DEF EasyTierInv, Flags, PollingOnlyWhileRunning, on_process_finished, process_ended
<1>4. CASE \E p \in Procs : /\ svc.live[p] = [as |-> "root", dir |-> d]
                            /\ svc' = finished(svc, p, TRUE)
  <2>1. PICK p \in Procs : /\ svc.live[p] = [as |-> "root", dir |-> d]
                           /\ svc' = finished(svc, p, TRUE)
    BY <1>4
  <2>2. svc.live[p] # None
    BY <2>1, ServiceAssumption DEF Launched
  <2>3. process_exits
    BY <1>1, <2>1, <2>2 DEF process_exits
  <2> QED
    BY <1>1, <1>2, <2>3, ProcessExitsGood, ProcessEndsPolling DEF EasyTierInv
<1> QED
  BY <1>1, <1>3, <1>4

LEMMA StartAction ==
  ASSUME EasyTierInv, StartHost \/ StartJoin
  PROVE  EasyTierInv'
<1>1. ~running(svc) /\ ~polling
  BY DEF EasyTierInv, StartHost, StartJoin, PollingOnlyWhileRunning
<1>2. UNCHANGED <<virtual_ip, asking, answered, kills>>
  BY DEF StartHost, StartJoin
<1>3. Counters'
  BY <1>2, CounterUnchanged DEF EasyTierInv
<1>4. CASE svc' = set_error(svc) /\ UNCHANGED <<disk, temp, polling, kick, hook>>
  <2>1. Good(svc, disk, temp)'
    BY <1>4, SetErrorGood, GoodPrimed DEF EasyTierInv
  <2> QED
    BY <1>1, <1>2, <1>3, <1>4, <2>1 DEF EasyTierInv, Flags, PollingOnlyWhileRunning
<1>5. ASSUME launch(TRUE), NEW waiting \in BOOLEAN, on_running_changed(waiting)
      PROVE  EasyTierInv'
  <2>1. Good(svc, disk, temp)'
    BY <1>5, LaunchGood DEF EasyTierInv
  <2>2. (Flags /\ PollingOnlyWhileRunning)'
    BY <1>1, <1>2, <1>5
    DEF EasyTierInv, Flags, PollingOnlyWhileRunning, on_running_changed, start_ip_polling
  <2> QED
    BY <1>3, <2>1, <2>2 DEF EasyTierInv
<1> QED
  BY <1>4, <1>5 DEF StartHost, StartJoin, EasyTierInv, Flags

LEMMA CliActions ==
  ASSUME EasyTierInv,
         PollTimer \/ KickTimer \/ Refresh \/ CliAnswers \/ CliFails \/ CliFinished
  PROVE  EasyTierInv'
<1>1. UNCHANGED <<svc, disk, temp, kills>>
  BY DEF PollTimer, KickTimer, Refresh, CliAnswers, CliFails, CliFinished,
     on_ip_poll_timeout
<1>2. Good(svc, disk, temp)'
  BY <1>1, GoodPrimed DEF EasyTierInv
<1>3. Counters'
  <2>1. CASE refresh_virtual_ip
    BY <1>1, <2>1, EasyTierBounds DEF EasyTierInv, Counters, refresh_virtual_ip
  <2>2. CASE CliAnswers \/ CliFails \/ CliFinished
    BY <1>1, <2>2, EasyTierBounds DEF EasyTierInv, Counters, CliAnswers, CliFails,
       CliFinished
  <2> QED
    BY <2>1, <2>2 DEF PollTimer, KickTimer, Refresh, on_ip_poll_timeout
<1>4. /\ polling' \in {polling, polling /\ running(svc)}
      /\ kick' \in {kick, FALSE}
      /\ hook' = hook
      /\ virtual_ip' \in {virtual_ip, "address"}
  BY DEF PollTimer, KickTimer, Refresh, CliAnswers, CliFails, CliFinished,
     on_ip_poll_timeout
<1>5. (Flags /\ PollingOnlyWhileRunning)'
  BY <1>1, <1>4 DEF EasyTierInv, Flags, PollingOnlyWhileRunning, running
<1> QED
  BY <1>2, <1>3, <1>5 DEF EasyTierInv

LEMMA PkexecAction ==
  ASSUME EasyTierInv, PkexecGranted
  PROVE  EasyTierInv' /\ (running(svc) => running(svc'))
<1>1. PICK p \in Procs :
        /\ svc.live[p] # None
        /\ svc' = [svc EXCEPT !.live[p].as = "root"]
  BY DEF PkexecGranted, pkexec_granted
<1>2. Good(svc, disk, temp)'
  BY PkexecGrantedGood DEF EasyTierInv, PkexecGranted
<1>3. svc \in Service
  BY DEF EasyTierInv, Good, Core
<1> DEFINE l == [svc.live[p] EXCEPT !.as = "root"]
<1>4. svc.live[p] \in Launched
  BY <1>1, <1>3 DEF Service
<1>5. l \in Launched
  BY <1>4 DEF Launched
<1>6. svc' = [svc EXCEPT !.live[p] = l]
  BY <1>1
<1>7. l # None
  BY <1>5, ServiceAssumption
<1> HIDE DEF l
<1>8. running(svc')
  BY <1>1, <1>3, <1>5, <1>6, <1>7, <1>2 DEF Good, Core, running, Service
<1>9. UNCHANGED <<ipVars, kills>>
  BY DEF PkexecGranted
<1> QED
  BY <1>2, <1>8, <1>9, CounterUnchanged
  DEF EasyTierInv, Flags, PollingOnlyWhileRunning, ipVars

LEMMA EasyTierNext == EasyTierInv /\ [Next]_vars => EasyTierInv'
<1> SUFFICES ASSUME EasyTierInv, [Next]_vars PROVE EasyTierInv'
  OBVIOUS
<1>1. CASE UNCHANGED vars
  BY <1>1, GoodPrimed, CounterUnchanged
  DEF vars, ipVars, EasyTierInv, Flags, PollingOnlyWhileRunning, running
<1> QED
  BY <1>1, InstallActions, EndingActions, StopAction, PkillAction, StartAction,
     CliActions, PkexecAction DEF Next

LEMMA EasyTierAlways == Spec => []EasyTierInv
BY EasyTierInit, EasyTierNext, PTL DEF Spec

-----------------------------------------------------------------------------
(* Theorems *)

\* Every variable of EasyTierManager keeps its type, and the numbers of
\* queries and pkill requests under way their bounds.
THEOREM EasyTierTypeOK == Spec => []TypeOK
<1>1. EasyTierInv => TypeOK
  <2> SUFFICES ASSUME EasyTierInv PROVE TypeOK
    OBVIOUS
  <2>1. ServiceTypeOK
    BY GoodIsInv DEF EasyTierInv
  <2>2. asking \in 0 .. MaxCli /\ answered \in 0 .. MaxCli
    BY EasyTierBounds DEF EasyTierInv, Counters
  <2> QED
    BY <2>1, <2>2 DEF EasyTierInv, TypeOK, Flags, Counters
<1> QED
  BY <1>1, EasyTierAlways, PTL

\* The guarantees of the base class survive a core that runs as root, ignores
\* terminate() and kill(), and is stopped by a second process.
THEOREM EasyTierService == Spec => []ServiceInv
<1>1. EasyTierInv => ServiceInv
  BY GoodIsInv DEF EasyTierInv
<1> QED
  BY <1>1, EasyTierAlways, PTL

\* The poll timer never outlives the core.
THEOREM EasyTierPolling == Spec => []PollingOnlyWhileRunning
<1>1. EasyTierInv => PollingOnlyWhileRunning
  BY DEF EasyTierInv
<1> QED
  BY <1>1, EasyTierAlways, PTL

\* Polling, once on, lasts as long as the core it was switched on for.
THEOREM EasyTierPollingLasts == Spec => PollingLasts
<1>1. EasyTierInv /\ [Next]_vars => [polling /\ running(svc') => polling']_vars
  <2> SUFFICES ASSUME EasyTierInv, Next, polling, running(svc')
               PROVE  polling'
    BY DEF vars, ipVars
  <2>1. running(svc) /\ svc'.process # None
    BY ServiceAssumption DEF EasyTierInv, PollingOnlyWhileRunning, running
  <2> QED
    BY <2>1 DEF Next, CheckAndInstall, ReleaseFetched, InstallFromUrl, DownloadFinished,
       SetInstallPath, ResetInstall, StartHost, StartJoin, Stop, PkillFinished,
       ProcessExits, PkexecGranted, PollTimer, KickTimer, Refresh, CliAnswers, CliFails,
       CliFinished, on_process_finished, process_ended, on_ip_poll_timeout, ipVars
<1> QED
  BY <1>1, EasyTierAlways, PTL DEF Spec, PollingLasts

-----------------------------------------------------------------------------
(* The promises of the page *)

LEMMA EasyTierToolStep == EasyTierInv /\ [Next]_vars => ToolStep
<1> SUFFICES ASSUME EasyTierInv, [Next]_vars PROVE ToolStep
  OBVIOUS
<1>1. Good(svc, disk, temp)
  BY DEF EasyTierInv
<1>2. CASE CheckAndInstall \/ InstallFromUrl
  BY <1>1, <1>2, CheckAndInstallTool, InstallFromUrlTool DEF CheckAndInstall, InstallFromUrl
<1>3. CASE ReleaseFetched \/ DownloadFinished
  <2>1. disk[svc.install_path] \in [Files -> Contents]
    BY <1>1 DEF Good, Core, Service, Disk
  <2>2. Tool!Fetched \/ Tool!Downloaded
    BY <1>1, <1>3, <2>1, OnReleaseFetchedTool, OnDownloadFinishedTool, OutcomesOfEasyTier
    DEF ReleaseFetched, DownloadFinished
  <2> QED
    BY <2>2 DEF ToolStep, Tool!Next
<1>4. CASE SetInstallPath \/ ResetInstall \/ ProcessExits \/ PkexecGranted
  <2>1. Tool!Move \/ Tool!Uninstall \/ Tool!End \/ Tool!Authenticate
    BY <1>1, <1>4, SetInstallPathTool, ResetInstallTool, ProcessExitsTool,
       PkexecGrantedTool, EasyTierFiles
    DEF SetInstallPath, ResetInstall, ProcessExits, PkexecGranted
  <2> QED
    BY <2>1 DEF ToolStep, Tool!Next
<1>5. CASE StartHost \/ StartJoin
  <2>1. svc \in Service
    BY <1>1 DEF Good, Core
  <2>2. CASE svc' = set_error(svc) /\ UNCHANGED disk
    BY <2>1, <2>2, SetErrorTool DEF ToolStep, Tool!Next
  <2>3. CASE launch(TRUE)
    BY <1>1, <2>3, LaunchTool
  <2> QED
    BY <1>5, <2>2, <2>3 DEF StartHost, StartJoin
\* A privileged pkill that is sent changes nothing yet.
<1>6. CASE Stop
  <2>1. CASE UNCHANGED <<svc, disk>>
    BY <2>1, PageUntouched, CompleteKept
  <2>2. CASE stop
    BY <1>1, <2>2, StopTool
  <2> QED
    BY <1>6, <2>1, <2>2 DEF Stop
<1>7. CASE PkillFinished
  <2>1. UNCHANGED disk
    BY <1>7 DEF PkillFinished
  <2>2. CASE UNCHANGED svc
    BY <2>1, <2>2, PageUntouched, CompleteKept
  <2>3. ASSUME NEW p \in Procs, NEW d \in Paths, svc.live[p] = [as |-> "root", dir |-> d],
               svc' = finished(svc, p, TRUE)
        PROVE  ToolStep
    <3>1. svc.live[p] # None
      BY <2>3, ServiceAssumption DEF Launched
    <3>2. Tool!End
      BY <1>1, <2>1, <2>3, <3>1, FinishedTool
    <3> QED
      BY <3>2 DEF ToolStep, Tool!Next
  <2> QED
    BY <1>7, <2>2, <2>3 DEF PkillFinished
<1>8. CASE PollTimer \/ KickTimer \/ Refresh \/ CliAnswers \/ CliFails \/ CliFinished
  <2>1. UNCHANGED <<svc, disk>>
    BY <1>8 DEF PollTimer, KickTimer, Refresh, CliAnswers, CliFails, CliFinished,
       on_ip_poll_timeout
  <2> QED
    BY <2>1, PageUntouched, CompleteKept
<1>9. CASE UNCHANGED vars
  BY <1>9, PageUntouched, CompleteKept DEF vars
<1> QED
  BY <1>2, <1>3, <1>4, <1>5, <1>6, <1>7, <1>8, <1>9 DEF Next

\* The page of a root process keeps the same promises, although stopping it takes
\* a second process and a change of directory leaves it alive.
THEOREM EasyTierRefinesTool == Spec => ImplementsManagedTool
<1>1. Init => Tool!Init
  BY InitServiceTool DEF Init
<1>2. EasyTierInv /\ [Next]_vars => [Tool!Next]_(Tool!vars)
  BY EasyTierToolStep DEF ToolStep
<1> QED
  BY <1>1, <1>2, EasyTierAlways, PTL DEF Spec, ImplementsManagedTool
=============================================================================

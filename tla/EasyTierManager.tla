--------------------------- MODULE EasyTierManager ---------------------------
(***************************************************************************)
(* EasyTierManager: easytier-core as a BinaryService (Linux build).  The   *)
(* core runs as root through pkexec, so stopping it takes a second,        *)
(* privileged process; the virtual address is polled from easytier-cli,    *)
(* whose answers arrive asynchronously.                                    *)
(***************************************************************************)
EXTENDS BinaryService, Naturals

CONSTANTS
  MaxCli,   \* bound: easytier-cli queries under way
  MaxKills  \* bound: privileged pkill requests under way for one directory

ASSUME EasyTierFiles ==
  /\ Files = {"core", "cli"}
  /\ Required = {"core"}

ASSUME EasyTierBounds == MaxCli \in Nat /\ MaxKills \in Nat

VARIABLES
  virtual_ip,  \* m_virtual_ip
  polling,     \* m_ip_poll_timer is active
  kick,        \* start_ip_polling()'s singleShot(0) has not fired yet
  hook,        \* start()'s single-shot connection to running_changed waits
  asking,      \* easytier-cli processes that have no answer yet
  answered,    \* ... that have an address the launcher has not read yet
  kills        \* kills[d]: `pkexec pkill` under way for the core in d

ipVars == <<virtual_ip, polling, kick, hook, asking, answered>>
vars == <<svc, disk, temp, ipVars, kills>>

install_outcomes(files) ==
  LET missing == [files |-> files, temp |-> {}, ok |-> FALSE]
      noCore == [files |-> [files EXCEPT !["core"] = "absent"],
                 temp |-> {}, ok |-> FALSE]
      noCli == [files |-> [files EXCEPT !["core"] = "shipped",
                                        !["cli"] = "absent"],
                temp |-> {}, ok |-> FALSE]
      both == [files |-> [f \in Files |-> "shipped"], temp |-> {}, ok |-> TRUE]
  IN  {missing, noCore, noCli, both}

Init ==
  /\ InitService
  /\ virtual_ip = "none"
  /\ polling = FALSE /\ kick = FALSE /\ hook = FALSE
  /\ asking = 0 /\ answered = 0
  /\ kills = [d \in Paths |-> 0]

-----------------------------------------------------------------------------
(* The hooks of the base class *)

\* m_process ended in this step: running_changed drops a waiting connection,
\* on_process_finished() stops the polling and forgets the address.
process_ended == svc.process # None /\ svc'.process = None

\* Mutation: the hook forgets the poll timer.
on_process_finished_polling ==
  /\ virtual_ip' = IF process_ended THEN "none" ELSE virtual_ip
  /\ hook' = (hook /\ ~process_ended)
  /\ UNCHANGED <<polling, kick, asking, answered>>

\* Mutation: the hook runs whether or not the process ended.
on_process_finished_always ==
  /\ virtual_ip' = "none" /\ polling' = FALSE /\ hook' = FALSE
  /\ UNCHANGED <<kick, asking, answered>>

on_process_finished ==
  /\ IF process_ended
       THEN virtual_ip' = "none" /\ polling' = FALSE /\ hook' = FALSE
       ELSE UNCHANGED <<virtual_ip, polling, hook>>
  /\ UNCHANGED <<kick, asking, answered>>

start_ip_polling == polling' = TRUE /\ kick' = TRUE

\* running_changed at a successful start: a waiting connection starts polling.
on_running_changed(waiting) ==
  IF waiting /\ running(svc')
    THEN hook' = FALSE /\ start_ip_polling
    ELSE hook' = waiting /\ UNCHANGED <<polling, kick>>

-----------------------------------------------------------------------------
(* Calls and events *)

CheckAndInstall == check_and_install /\ UNCHANGED <<ipVars, kills>>

ReleaseFetched == on_release_fetched /\ UNCHANGED <<ipVars, kills>>

InstallFromUrl == install_from_url /\ UNCHANGED <<ipVars, kills>>

DownloadFinished ==
  /\ on_download_finished(install_outcomes(disk[svc.install_path]))
  /\ UNCHANGED <<ipVars, kills>>

SetInstallPath == set_install_path /\ on_process_finished /\ UNCHANGED kills

\* reset_install_extra() forgets the address in any case.
ResetInstall ==
  /\ reset_install
  /\ virtual_ip' = "none"
  /\ IF process_ended THEN polling' = FALSE /\ hook' = FALSE
     ELSE UNCHANGED <<polling, hook>>
  /\ UNCHANGED <<kick, asking, answered, kills>>

\* Hosting: the connection is made first, and only then the core launched.
StartHost ==
  /\ ~running(svc)
  /\ \/ /\ svc' = set_error(svc)           \* not installed, or a field is empty
        /\ UNCHANGED <<disk, temp, polling, kick, hook>>
     \/ /\ installed(svc, disk)
        /\ launch(TRUE)
        /\ on_running_changed(TRUE)
  /\ UNCHANGED <<virtual_ip, asking, answered, kills>>

\* Joining makes no connection of its own.
StartJoin ==
  /\ ~running(svc)
  /\ \/ /\ svc' = set_error(svc)
        /\ UNCHANGED <<disk, temp, polling, kick, hook>>
     \/ /\ installed(svc, disk)
        /\ launch(TRUE)
        /\ on_running_changed(hook)
  /\ UNCHANGED <<virtual_ip, asking, answered, kills>>

\* stop(): a privileged pkill when was_elevated(), else stop_process().
Stop ==
  IF svc.launch_elevated
    THEN /\ kills[svc.install_path] < MaxKills
         /\ kills' = [kills EXCEPT ![svc.install_path] = @ + 1]
         /\ UNCHANGED <<svc, disk, temp, ipVars>>
    ELSE stop /\ on_process_finished /\ UNCHANGED kills

\* The user dismisses the prompt, or pkill kills the root core it matches.
PkillFinished ==
  \E d \in Paths :
    /\ kills[d] > 0
    /\ kills' = [kills EXCEPT ![d] = @ - 1]
    /\ \/ UNCHANGED svc
       \/ \E p \in Procs :
            /\ svc.live[p] = [as |-> "root", dir |-> d]
            /\ svc' = finished(svc, p, TRUE)
    /\ UNCHANGED <<disk, temp>>
    /\ on_process_finished

ProcessExits == process_exits /\ on_process_finished /\ UNCHANGED kills

PkexecGranted == pkexec_granted /\ UNCHANGED <<ipVars, kills>>

refresh_virtual_ip ==
  /\ IF running(svc) /\ disk[svc.install_path]["cli"] # "absent"
       THEN asking + answered < MaxCli /\ asking' = asking + 1
       ELSE UNCHANGED asking
  /\ UNCHANGED answered

on_ip_poll_timeout ==
  /\ refresh_virtual_ip
  /\ polling' = (polling /\ running(svc))
  /\ UNCHANGED <<svc, disk, temp, virtual_ip, hook, kills>>

PollTimer == polling /\ on_ip_poll_timeout /\ UNCHANGED kick

KickTimer == kick /\ kick' = FALSE /\ on_ip_poll_timeout

\* The Refresh button.
Refresh ==
  /\ refresh_virtual_ip
  /\ UNCHANGED <<svc, disk, temp, virtual_ip, polling, kick, hook, kills>>

\* A running core tells easytier-cli its address; without one, and whenever
\* it chooses to, easytier-cli fails.
CliAnswers ==
  /\ asking > 0
  /\ \E p \in Procs : svc.live[p] # None /\ svc.live[p].as = "root"
  /\ asking' = asking - 1
  /\ answered' = answered + 1
  /\ UNCHANGED <<svc, disk, temp, virtual_ip, polling, kick, hook, kills>>

CliFails ==
  /\ asking > 0
  /\ asking' = asking - 1
  /\ UNCHANGED <<svc, disk, temp, virtual_ip, polling, kick, hook, answered, kills>>

\* Mutation: output without an address in it is taken for one.
CliFinished_unparsed ==
  /\ answered > 0
  /\ answered' = answered - 1
  /\ virtual_ip' = "output"
  /\ UNCHANGED <<svc, disk, temp, polling, kick, hook, asking, kills>>

\* The finished handler of easytier-cli: parse_virtual_ip(), whatever has
\* become of the core meanwhile.
CliFinished ==
  /\ answered > 0
  /\ answered' = answered - 1
  /\ virtual_ip' = "address"
  /\ UNCHANGED <<svc, disk, temp, polling, kick, hook, asking, kills>>

Next ==
  \/ CheckAndInstall \/ ReleaseFetched \/ InstallFromUrl \/ DownloadFinished
  \/ SetInstallPath \/ ResetInstall
  \/ StartHost \/ StartJoin \/ Stop \/ PkillFinished
  \/ ProcessExits \/ PkexecGranted
  \/ PollTimer \/ KickTimer \/ Refresh
  \/ CliAnswers \/ CliFails \/ CliFinished

Spec == Init /\ [][Next]_vars

-----------------------------------------------------------------------------

TypeOK ==
  /\ ServiceTypeOK
  /\ virtual_ip \in {"none", "address"}
  /\ {polling, kick, hook} \subseteq BOOLEAN
  /\ asking \in 0 .. MaxCli /\ answered \in 0 .. MaxCli
  /\ kills \in [Paths -> 0 .. MaxKills]

\* The poll timer runs only while there is a core to ask: every way the core
\* can end stops it, however many starts failed or were repeated before.
PollingOnlyWhileRunning == polling => running(svc)

\* Polling, once on, goes on for as long as that core runs, through path
\* changes and reinstallations that leave the root process alive.
PollingLasts == [][polling /\ running(svc') => polling']_vars

\* The page of a core that runs as root keeps the promises of ManagedTool too:
\* path changes and uninstallations under a core they cannot end, pkexec prompts,
\* and a second process that kills the first.  A stop that waits for an answer to
\* its own prompt is owed nothing, so there is no fairness here.
ImplementsManagedTool == Tool!Init /\ [][Tool!Next]_(Tool!vars)

\* No address is shown for a network nobody is connected to: on_process_finished
\* and reset_install_extra both clear m_virtual_ip.
VirtualIpOnlyWhileRunning == virtual_ip # "none" => running(svc)
=============================================================================

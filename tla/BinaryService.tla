--------------------------- MODULE BinaryService ---------------------------
(***************************************************************************)
(* BinaryServiceBase: "fetch GitHub release -> download archive -> extract *)
(* -> install binaries -> run process", the state machine and the process  *)
(* management that FrpManager and EasyTierManager share (Linux build).     *)
(*                                                                         *)
(* Everything runs on the Qt event loop, so a handler is one atomic step;  *)
(* what interleaves are user calls, network replies and process exits.     *)
(* The C++ object is the record svc, a method that other methods call is   *)
(* an operator from records to (sets of) records, and the handlers the     *)
(* event loop enters are the actions at the end.  Subclass hooks come in   *)
(* as arguments: FrpManager and EasyTierManager complete the actions.      *)
(***************************************************************************)

CONSTANTS
  Paths,     \* install directories the user may choose
  Procs,     \* identities of QProcess objects
  Files,     \* files of the tool inside an install directory
  Required,  \* the files is_installed_impl() looks for
  None       \* null pointer; also the value of a process that is gone

States == {"NotInstalled", "Checking", "Downloading", "Extracting",
           "Ready", "Running", "Error"}

\* "edited" is a file the user saved from the launcher, "shipped" one that
\* came out of a release archive.
Contents == {"absent", "shipped", "edited"}

\* A live process: whose rights it runs with, and from which directory.  Under
\* "pkexec" the polkit dialog is still open; "root" ignores our signals.
Launched == [as : {"user", "pkexec", "root"}, dir : Paths]

TempFiles == {"archive", "dir"}

ASSUME ServiceAssumption ==
  /\ None \notin Procs
  /\ None \notin Launched
  /\ Required \subseteq Files

VARIABLES
  svc,   \* the BinaryServiceBase object and the processes it started
  disk,  \* disk[d][f]: content of file f of install directory d
  temp   \* what it has left under QDir::temp()

Service ==
  [state           : States,
   has_error       : BOOLEAN,
   process         : Procs \cup {None},             \* m_process
   live            : [Procs -> Launched \cup {None}],
   launch_elevated : BOOLEAN,                       \* m_launch_elevated
   fetching        : BOOLEAN,                       \* m_fetcher's m_reply
   download_reply  : BOOLEAN,                       \* m_download_reply
   install_path    : Paths]

Disk == [Paths -> [Files -> Contents]]

-----------------------------------------------------------------------------
(* Queries and state helpers *)

running(s) == s.process \in Procs /\ s.live[s.process] # None

busy(s) == s.state \in {"Checking", "Downloading", "Extracting"}

installed(s, d) == \A f \in Required : d[s.install_path][f] # "absent"

set_state(s, st) == [s EXCEPT !.state = st]

\* Mutation: the state changes, the flag does not.
set_error_unflagged(s) == set_state(s, "Error")

set_error(s) == [s EXCEPT !.has_error = TRUE, !.state = "Error"]

clear_error(s) == [s EXCEPT !.has_error = FALSE]

detect_install(s, d) ==
  set_state(s, IF installed(s, d) THEN "Ready" ELSE "NotInstalled")

-----------------------------------------------------------------------------
(* Process management *)

\* Mutation: the exit handler does not take the service out of Running.
process_gone_running(s, p) ==
  [s EXCEPT !.live = [@ EXCEPT ![p] = None],
            !.process = IF @ = p THEN None ELSE @,
            !.launch_elevated = FALSE]

\* Mutation: the exit handler leaves m_launch_elevated set.
process_gone_elevated(s, p) ==
  [s EXCEPT !.live = [@ EXCEPT ![p] = None],
            !.process = IF @ = p THEN None ELSE @,
            !.state = IF @ = "Running" THEN "Ready" ELSE @]

\* The finished handler of process p.
process_gone(s, p) ==
  [s EXCEPT !.live = [@ EXCEPT ![p] = None],
            !.process = IF @ = p THEN None ELSE @,
            !.launch_elevated = FALSE,
            !.state = IF @ = "Running" THEN "Ready" ELSE @]

\* Process p ends.  A process killed by a signal raises errorOccurred before
\* finished, so set_error() comes first and the service stays in Error.
finished(s, p, crashed) ==
  process_gone(IF crashed THEN set_error(s) ELSE s, p)

\* terminate(), wait, kill(), wait: ends a process of the user's, gracefully
\* or by the signal, inside the call.  A root process survives both.
stop_process(s) ==
  LET ended == IF running(s) /\ s.live[s.process].as # "root"
                 THEN {finished(s, s.process, c) : c \in BOOLEAN}
                 ELSE {s}
  IN  {[e EXCEPT !.launch_elevated = FALSE] : e \in ended}

\* The part of launch_process that follows its guards: pkexec may be missing,
\* the process may fail to start, or it runs.
try_launch(s, elevate) ==
  LET cleared == clear_error(s)
      noPkexec == IF elevate THEN {set_error(cleared)} ELSE {}
      failed == {set_error([cleared EXCEPT !.process = None,
                                           !.launch_elevated = FALSE])}
      started ==
        {[cleared EXCEPT
            !.live = [@ EXCEPT
                        ![p] = [as |-> IF elevate THEN "pkexec" ELSE "user",
                                dir |-> s.install_path]],
            !.process = p,
            !.launch_elevated = elevate,
            !.state = "Running"] : p \in {q \in Procs : s.live[q] = None}}
  IN  noPkexec \cup failed \cup started

\* Mutation: a second start while the process runs.
launch_process_unguarded(s, d, elevate) ==
  IF ~installed(s, d) THEN {set_error(s)} ELSE try_launch(s, elevate)

launch_process(s, d, elevate) ==
  IF running(s) THEN {s}
  ELSE IF ~installed(s, d) THEN {set_error(s)}
  ELSE try_launch(s, elevate)

-----------------------------------------------------------------------------
(* Installing *)

\* Mutation: without the temp file start_download() just returns.
start_download_silent(s) ==
  IF s.download_reply
    THEN svc' = s /\ UNCHANGED temp
    ELSE \/ svc' = s /\ UNCHANGED temp
         \/ /\ svc' = set_state([s EXCEPT !.download_reply = TRUE],
                               "Downloading")
            /\ temp' = temp \cup {"archive"}

\* One download at a time; without the temp file there is none.
start_download(s) ==
  \/ /\ s.download_reply
     /\ svc' = s
     /\ UNCHANGED temp
  \/ /\ ~s.download_reply
     /\ \/ /\ svc' = set_error(s)          \* cannot create the temp file
           /\ UNCHANGED temp
        \/ /\ svc' = set_state([s EXCEPT !.download_reply = TRUE],
                               "Downloading")
           /\ temp' = temp \cup {"archive"}

\* Fetches the release.  A check still under way is replaced; a fresh entry
\* of the release cache answers inside the call.
check_and_install ==
  LET s == set_state(clear_error(svc), "Checking")
  IN  /\ ~busy(svc) /\ ~running(svc)
      /\ \/ start_download([s EXCEPT !.fetching = FALSE])
         \/ /\ svc' = [s EXCEPT !.fetching = TRUE]
            /\ UNCHANGED temp
      /\ UNCHANGED disk

on_release_fetched ==
  LET s == [svc EXCEPT !.fetching = FALSE]
  IN  /\ svc.fetching
      /\ \/ start_download(s)
         \/ /\ svc' = set_error(s)
            /\ UNCHANGED temp
      /\ UNCHANGED disk

install_from_url ==
  /\ ~busy(svc) /\ ~running(svc)
  /\ start_download(svc)
  /\ UNCHANGED disk

\* install_binaries_impl ends in one of outcomes: the files it left in the
\* install directory, what it left under temp, and whether it succeeded.
install_binaries(s, outcomes) ==
  \E o \in outcomes :
    /\ disk' = [disk EXCEPT ![s.install_path] = o.files]
    /\ temp' = o.temp
    /\ svc' = IF o.ok THEN set_state(clear_error(s), "Ready") ELSE set_error(s)

\* Mutation: an early return forgets the archive.
extract_archive_leaky(s, outcomes) ==
  \/ /\ svc' = set_error(s)
     /\ UNCHANGED <<temp, disk>>
  \/ install_binaries(s, outcomes)

\* The temp dir is created, filled (or not), and the archive removed.
extract_archive(s, outcomes) ==
  \/ /\ svc' = set_error(s)                \* mkpath fails
     /\ temp' = temp \ {"archive"}
     /\ UNCHANGED disk
  \/ /\ svc' = set_error(s)                \* extract_archive_impl fails
     /\ temp' = (temp \cup {"dir"}) \ {"archive", "dir"}
     /\ UNCHANGED disk
  \/ install_binaries(s, outcomes)

\* Mutation: a tiny archive ends the handler without an error.
on_download_finished_silent(outcomes) ==
  LET s == [svc EXCEPT !.download_reply = FALSE]
  IN  /\ svc.download_reply
      /\ \/ /\ svc' = s
            /\ temp' = temp \ {"archive"}
            /\ UNCHANGED disk
         \/ extract_archive(set_state(s, "Extracting"), outcomes)

\* The finished handler of the download reply.
on_download_finished(outcomes) ==
  LET s == [svc EXCEPT !.download_reply = FALSE]
  IN  /\ svc.download_reply
      /\ \/ /\ svc' = set_error(s)         \* network error, or a tiny archive
            /\ temp' = temp \ {"archive"}
            /\ UNCHANGED disk
         \/ extract_archive(set_state(s, "Extracting"), outcomes)

-----------------------------------------------------------------------------
(* The other calls and events *)

stop_if_running(s) == IF running(s) THEN stop_process(s) ELSE {s}

\* Mutation: the new directory is not looked at.
set_install_path_undetected ==
  \E d \in Paths \ {svc.install_path}, s \in stop_if_running(svc) :
    /\ svc' = [s EXCEPT !.install_path = d]
    /\ UNCHANGED <<disk, temp>>

set_install_path ==
  \E d \in Paths \ {svc.install_path}, s \in stop_if_running(svc) :
    /\ svc' = detect_install([s EXCEPT !.install_path = d], disk)
    /\ UNCHANGED <<disk, temp>>

reset_install ==
  \E s \in stop_if_running(svc) :
    /\ svc' = set_state(clear_error(s), "NotInstalled")
    /\ disk' = [disk EXCEPT ![svc.install_path] = [f \in Files |-> "absent"]]
    /\ UNCHANGED temp

launch(elevate) ==
  /\ svc' \in launch_process(svc, disk, elevate)
  /\ UNCHANGED <<disk, temp>>

stop ==
  /\ svc' \in stop_process(svc)
  /\ UNCHANGED <<disk, temp>>

\* A process ends on its own: it exits, it crashes, or the user dismisses the
\* polkit dialog.
process_exits ==
  \E p \in Procs, crashed \in BOOLEAN :
    /\ svc.live[p] # None
    /\ svc' = finished(svc, p, crashed)
    /\ UNCHANGED <<disk, temp>>

\* The user authenticates and pkexec becomes the program, as root.
pkexec_granted ==
  \E p \in Procs :
    /\ svc.live[p] # None
    /\ svc.live[p].as = "pkexec"
    /\ svc' = [svc EXCEPT !.live[p].as = "root"]
    /\ UNCHANGED <<disk, temp>>

\* The constructor: the tool may be there from an earlier session.
InitService ==
  /\ disk \in [Paths -> [Files -> {"absent", "shipped"}]]
  /\ temp = {}
  /\ \E d \in Paths :
       svc = detect_install(
               [state |-> "NotInstalled", has_error |-> FALSE,
                process |-> None, live |-> [p \in Procs |-> None],
                launch_elevated |-> FALSE, fetching |-> FALSE,
                download_reply |-> FALSE, install_path |-> d], disk)

-----------------------------------------------------------------------------
(* Properties of the base class *)

\* Every field holds a value of its type.
ServiceTypeOK ==
  /\ svc \in Service
  /\ disk \in Disk
  /\ temp \subseteq TempFiles

\* A busy state always has something under way that will end it: the buttons
\* busy() disables come back.  Path changes and starts during a download
\* overwrite m_state while the fetch or the download goes on.
BusyHasDriver ==
  /\ svc.state = "Checking" => svc.fetching \/ svc.download_reply
  /\ svc.state = "Downloading" => svc.download_reply
  /\ svc.state # "Extracting"

\* Every failing branch of download, extraction and installation cleans up
\* after itself: the archive lives exactly as long as its download, the
\* extraction directory never outlives the handler.
TempClean == temp = IF svc.download_reply THEN {"archive"} ELSE {}

\* Ready and Running are only shown when the binaries are in the directory
\* the service points at.
ReadyMeansInstalled == svc.state \in {"Ready", "Running"} => installed(svc, disk)

\* Running is only shown while the managed process is alive.
RunningIsLive == svc.state = "Running" => running(svc)

\* No process is ever lost track of: a live one is the one m_process points to.
NoOrphanProcess == \A p \in Procs : svc.live[p] # None => svc.process = p

\* was_elevated() never stays set after the elevated process is gone, so a
\* stop never asks for root rights to kill a process that was not elevated.
ElevatedFlagSound ==
  svc.launch_elevated => running(svc) /\ svc.live[svc.process].as # "user"

\* An Error state always comes with the error flag the message box is bound to.
ErrorIsReported == svc.state = "Error" => svc.has_error

\* The base class keeps all of this together, whatever the subclass.
ServiceInv ==
  /\ BusyHasDriver
  /\ TempClean
  /\ ReadyMeansInstalled
  /\ RunningIsLive
  /\ NoOrphanProcess
  /\ ElevatedFlagSound
  /\ ErrorIsReported

\* was_elevated() is "True while the managed process was launched with
\* elevation" (binary_service_base.hpp:94): stop() and the destructor rely on
\* it to decide whether ending the process needs root rights.
WasElevatedWhileElevated ==
  running(svc) /\ svc.live[svc.process].as # "user" => svc.launch_elevated

\* The service as ManagedTool sees it: what the page shows, where the tool is
\* complete, and the managed process.  The step a subclass takes is one of the
\* tool's, whatever files and hooks it adds.
shown == IF busy(svc) THEN "Busy" ELSE svc.state

complete == {d \in Paths : \A f \in Required : disk[d][f] # "absent"}

managed == IF svc.process \in Procs THEN svc.live[svc.process] ELSE None

Tool == INSTANCE ManagedTool WITH
  dir <- svc.install_path, fetching <- svc.fetching, downloading <- svc.download_reply,
  process <- managed
=============================================================================

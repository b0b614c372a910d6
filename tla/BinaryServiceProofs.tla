------------------------ MODULE BinaryServiceProofs ------------------------
(***************************************************************************)
(* Every operation of BinaryService preserves its type and ServiceInv, for *)
(* any sets of paths, processes and files: the facts the proofs about      *)
(* FrpManager and EasyTierManager have in common.                          *)
(*                                                                         *)
(* A handler passes the object through several methods before it is done,  *)
(* so the invariant is restated for any object s, disk d and temp t, and   *)
(* each method is shown to keep it (or a weaker form, half way through).   *)
(*                                                                         *)
(* The second half is about ManagedTool: what each method does to what the *)
(* page shows, so that a subclass has only its own hooks to account for.   *)
(***************************************************************************)
EXTENDS BinaryService, TLAPS

\* The part of the invariant that every method keeps at every point.
Core(s, d) ==
  /\ s \in Service
  /\ d \in Disk
  /\ s.state \in {"Ready", "Running"} => installed(s, d)
  /\ s.state = "Running" => running(s)
  /\ \A p \in Procs : s.live[p] # None => s.process = p
  /\ s.launch_elevated => running(s) /\ s.live[s.process].as # "user"
  /\ s.state = "Error" => s.has_error

Driven(s) ==
  /\ s.state = "Checking" => s.fetching \/ s.download_reply
  /\ s.state = "Downloading" => s.download_reply
  /\ s.state # "Extracting"

Clean(s, t) == t = IF s.download_reply THEN {"archive"} ELSE {}

Good(s, d, t) == Core(s, d) /\ Driven(s) /\ Clean(s, t)

\* What is known of an outcome of install_binaries_impl.
OutcomesOK(outcomes) ==
  \A o \in outcomes :
    /\ o.files \in [Files -> Contents]
    /\ o.temp = {}
    /\ o.ok \in BOOLEAN
    /\ o.ok => \A f \in Required : o.files[f] # "absent"

LEMMA GoodIsInv == ServiceTypeOK /\ ServiceInv <=> Good(svc, disk, temp)
<1>1. Clean(svc, temp) => temp \subseteq TempFiles
  BY DEF Clean, TempFiles
<1> QED
  BY <1>1 DEF Good, Core, Driven, Clean, ServiceTypeOK, ServiceInv, BusyHasDriver,
     TempClean, ReadyMeansInstalled, RunningIsLive, NoOrphanProcess,
     ElevatedFlagSound, ErrorIsReported

-----------------------------------------------------------------------------
(* The small methods *)

LEMMA SetErrorCore ==
  ASSUME NEW s, NEW d, Core(s, d)
  PROVE  /\ Core(set_error(s), d)
         /\ set_error(s).download_reply = s.download_reply
         /\ set_error(s).fetching = s.fetching
         /\ set_error(s).install_path = s.install_path
         /\ set_error(s).state = "Error"
BY DEF Core, set_error, Service, States, installed, running

LEMMA ProcessGoneCore ==
  ASSUME NEW s, NEW d, Core(s, d), NEW p \in Procs, s.live[p] # None
  PROVE  LET g == process_gone(s, p)
         IN  /\ Core(g, d)
             /\ g.download_reply = s.download_reply
             /\ g.fetching = s.fetching
             /\ g.install_path = s.install_path
             /\ g.process = None
             /\ g.state = IF s.state = "Running" THEN "Ready" ELSE s.state
<1> DEFINE g == process_gone(s, p)
<1>1. s \in Service /\ s.process = p
  BY DEF Core
<1>2. /\ g \in Service
      /\ g.live = [s.live EXCEPT ![p] = None]
      /\ g.process = None
      /\ g.launch_elevated = FALSE
      /\ g.has_error = s.has_error
      /\ g.download_reply = s.download_reply
      /\ g.fetching = s.fetching
      /\ g.install_path = s.install_path
      /\ g.state = IF s.state = "Running" THEN "Ready" ELSE s.state
  BY <1>1 DEF process_gone, Service, States
<1>3. \A q \in Procs : g.live[q] = None
  BY <1>1, <1>2 DEF Core, Service
<1> HIDE DEF g
<1>4. Core(g, d)
  BY <1>1, <1>2, <1>3 DEF Core, installed, running
<1> QED
  BY <1>2, <1>4 DEF g

\* Good is kept by a method that leaves the transfers alone and moves the
\* state, if at all, to one that nothing needs to end.
LEMMA GoodKept ==
  ASSUME NEW s, NEW g, NEW d, NEW t, Good(s, d, t), Core(g, d),
         g.fetching = s.fetching, g.download_reply = s.download_reply,
         g.state \in {s.state, "NotInstalled", "Ready", "Running", "Error"}
  PROVE  Good(g, d, t)
BY DEF Good, Driven, Clean

LEMMA FinishedGood ==
  ASSUME NEW s, NEW d, NEW t, Good(s, d, t), NEW p \in Procs,
         s.live[p] # None, NEW c \in BOOLEAN
  PROVE  /\ Good(finished(s, p, c), d, t)
         /\ finished(s, p, c).install_path = s.install_path
         /\ finished(s, p, c).process = None
<1>1. Core(s, d)
  BY DEF Good
<1>2. CASE c = FALSE
  <2>1. finished(s, p, c) = process_gone(s, p)
    BY <1>2 DEF finished
  <2> QED
    BY <1>1, <2>1, ProcessGoneCore, GoodKept
<1>3. CASE c = TRUE
  <2> DEFINE e == set_error(s)
  <2>1. /\ Core(e, d) /\ e.live = s.live /\ e.install_path = s.install_path
        /\ e.download_reply = s.download_reply /\ e.fetching = s.fetching
        /\ e.state = "Error"
    BY <1>1, SetErrorCore DEF Core, set_error, Service
  <2>2. finished(s, p, c) = process_gone(e, p)
    BY <1>3 DEF finished
  <2> HIDE DEF e
  <2> QED
    BY <2>1, <2>2, ProcessGoneCore, GoodKept
<1> QED
  BY <1>2, <1>3

LEMMA StopProcessGood ==
  ASSUME NEW s, NEW d, NEW t, Good(s, d, t), NEW g \in stop_process(s)
  PROVE  /\ Good(g, d, t)
         /\ g.install_path = s.install_path
         /\ g.process = None \/ (g.process = s.process /\ g.live = s.live)
<1>1. PICK e : /\ g = [e EXCEPT !.launch_elevated = FALSE]
               /\ Good(e, d, t)
               /\ e.install_path = s.install_path
               /\ e.process = None \/ (e.process = s.process /\ e.live = s.live)
  <2>1. CASE running(s) /\ s.live[s.process].as # "root"
    <3>1. PICK c \in BOOLEAN :
            g = [finished(s, s.process, c) EXCEPT !.launch_elevated = FALSE]
      BY <2>1 DEF stop_process
    <3>2. s.process \in Procs /\ s.live[s.process] # None
      BY <2>1 DEF running
    <3> DEFINE e == finished(s, s.process, c)
    <3>3. Good(e, d, t) /\ e.install_path = s.install_path /\ e.process = None
      BY <3>2, FinishedGood
    <3>4. g = [e EXCEPT !.launch_elevated = FALSE]
      BY <3>1
    <3> HIDE DEF e
    <3> QED
      BY <3>3, <3>4
  <2>2. CASE ~(running(s) /\ s.live[s.process].as # "root")
    BY <2>2 DEF stop_process
  <2> QED
    BY <2>1, <2>2
<1>2. e \in Service
  BY <1>1 DEF Good, Core
<1>3. /\ g \in Service
      /\ g.live = e.live
      /\ g.process = e.process
      /\ g.launch_elevated = FALSE
      /\ g.has_error = e.has_error
      /\ g.download_reply = e.download_reply
      /\ g.fetching = e.fetching
      /\ g.install_path = e.install_path
      /\ g.state = e.state
  BY <1>1, <1>2 DEF Service
<1>4. Core(g, d)
  BY <1>1, <1>3 DEF Good, Core, installed, running
<1> QED
  BY <1>1, <1>3, <1>4, GoodKept

LEMMA StopIfRunningGood ==
  ASSUME NEW s, NEW d, NEW t, Good(s, d, t), NEW g \in stop_if_running(s)
  PROVE  /\ Good(g, d, t)
         /\ g.install_path = s.install_path
         /\ g.process = None \/ (g.process = s.process /\ g.live = s.live)
BY StopProcessGood DEF stop_if_running

\* Where detect_install() looks decides the state; everything that does not
\* depend on the path is kept.
LEMMA DetectInstallGood ==
  ASSUME NEW s, NEW d, NEW t, Good(s, d, t), NEW path \in Paths
  PROVE  LET g == detect_install([s EXCEPT !.install_path = path], d)
         IN  /\ Good(g, d, t) /\ g.install_path = path
             /\ g.process = s.process /\ g.live = s.live
<1> DEFINE e == [s EXCEPT !.install_path = path]
           g == detect_install(e, d)
<1>1. s \in Service
  BY DEF Good, Core
<1>2. /\ e \in Service
      /\ e.live = s.live
      /\ e.process = s.process
      /\ e.launch_elevated = s.launch_elevated
      /\ e.has_error = s.has_error
      /\ e.download_reply = s.download_reply
      /\ e.fetching = s.fetching
      /\ e.install_path = path
  BY <1>1 DEF Service
<1> HIDE DEF e
<1>3. /\ g \in Service
      /\ g.live = e.live
      /\ g.process = e.process
      /\ g.launch_elevated = e.launch_elevated
      /\ g.has_error = e.has_error
      /\ g.download_reply = e.download_reply
      /\ g.fetching = e.fetching
      /\ g.install_path = path
      /\ g.state = IF installed(e, d) THEN "Ready" ELSE "NotInstalled"
  BY <1>2 DEF detect_install, set_state, Service, States
<1> HIDE DEF g
<1>4. Core(g, d)
  BY <1>2, <1>3 DEF Good, Core, installed, running
<1>5. Good(g, d, t)
  BY <1>2, <1>3, <1>4, GoodKept
<1> QED
  BY <1>2, <1>3, <1>5 DEF e, g

-----------------------------------------------------------------------------
(* Launching *)

LEMMA TryLaunchGood ==
  ASSUME NEW s, NEW d, NEW t, Good(s, d, t), ~running(s), installed(s, d),
         NEW elevate \in BOOLEAN, NEW g \in try_launch(s, elevate)
  PROVE  Good(g, d, t) /\ g.install_path = s.install_path
<1> USE ServiceAssumption
<1> DEFINE c == clear_error(s)
<1>1. s \in Service
  BY DEF Good, Core
<1>2. /\ c \in Service
      /\ c.live = s.live
      /\ c.process = s.process
      /\ c.launch_elevated = s.launch_elevated
      /\ c.has_error = FALSE
      /\ c.download_reply = s.download_reply
      /\ c.fetching = s.fetching
      /\ c.install_path = s.install_path
      /\ c.state = s.state
  BY <1>1 DEF clear_error, Service
<1>3. \A p \in Procs : s.live[p] = None
  BY DEF Good, Core, running
<1> HIDE DEF c
<1>4. CASE g = set_error(c)
  <2>1. /\ g \in Service
        /\ g.live = s.live
        /\ g.process = s.process
        /\ g.launch_elevated = s.launch_elevated
        /\ g.has_error = TRUE
        /\ g.download_reply = s.download_reply
        /\ g.fetching = s.fetching
        /\ g.install_path = s.install_path
        /\ g.state = "Error"
    BY <1>2, <1>4 DEF set_error, Service, States
  <2>2. Core(g, d)
    BY <2>1, <1>3 DEF Good, Core, installed, running
  <2> QED
    BY <2>1, <2>2, GoodKept
<1>5. CASE g = set_error([c EXCEPT !.process = None, !.launch_elevated = FALSE])
  <2>1. /\ g \in Service
        /\ g.live = s.live
        /\ g.launch_elevated = FALSE
        /\ g.has_error = TRUE
        /\ g.download_reply = s.download_reply
        /\ g.fetching = s.fetching
        /\ g.install_path = s.install_path
        /\ g.state = "Error"
    BY <1>2, <1>5 DEF set_error, Service, States
  <2>2. Core(g, d)
    BY <2>1, <1>3 DEF Good, Core, installed, running
  <2> QED
    BY <2>1, <2>2, GoodKept
<1>6. ASSUME NEW p \in Procs,
             NEW l, l = [as |-> IF elevate THEN "pkexec" ELSE "user",
                         dir |-> s.install_path],
             g = [c EXCEPT !.live = [@ EXCEPT ![p] = l],
                           !.process = p,
                           !.launch_elevated = elevate,
                           !.state = "Running"]
      PROVE  Good(g, d, t) /\ g.install_path = s.install_path
  <2>1. l \in Launched /\ (elevate => l.as # "user")
    BY <1>6, <1>1 DEF Launched, Service
  <2>2. /\ g \in Service
        /\ g.live = [s.live EXCEPT ![p] = l]
        /\ g.process = p
        /\ g.launch_elevated = elevate
        /\ g.download_reply = s.download_reply
        /\ g.fetching = s.fetching
        /\ g.install_path = s.install_path
        /\ g.state = "Running"
    BY <1>2, <1>6, <2>1 DEF Service, States
  <2>3. g.live[p] = l /\ l # None /\ \A q \in Procs : q # p => g.live[q] = None
    BY <1>1, <1>3, <2>1, <2>2 DEF Service
  <2>4. running(g) /\ installed(g, d)
    BY <2>2, <2>3 DEF running, installed
  <2>5. Core(g, d)
    BY <2>1, <2>2, <2>3, <2>4 DEF Good, Core
  <2> QED
    BY <2>2, <2>5, GoodKept
<1> QED
  BY <1>4, <1>5, <1>6 DEF try_launch, c

LEMMA SetErrorGood ==
  ASSUME NEW s, NEW d, NEW t, Good(s, d, t)
  PROVE  Good(set_error(s), d, t)
BY SetErrorCore, GoodKept DEF Good

\* Most operations leave the directory and what is in it alone.
SameFiles == svc'.install_path = svc.install_path /\ UNCHANGED disk

LEMMA LaunchGood ==
  ASSUME NEW elevate \in BOOLEAN, Good(svc, disk, temp), launch(elevate)
  PROVE  Good(svc, disk, temp)' /\ SameFiles
<1>1. svc' \in launch_process(svc, disk, elevate)
  BY DEF launch
<1>2. Good(svc', disk, temp) /\ svc'.install_path = svc.install_path
  BY <1>1, SetErrorGood, SetErrorCore, TryLaunchGood DEF launch_process, Good
<1> QED
  BY <1>2 DEF SameFiles, launch, Good, Core, Driven, Clean, running, installed, Disk

-----------------------------------------------------------------------------
(* Installing *)

\* start_download() may be entered in a state that is only half driven: its
\* caller has just set Checking, or dropped the fetch.
LEMMA StartDownloadGood ==
  ASSUME NEW s, Core(s, disk), Clean(s, temp), start_download(s), UNCHANGED disk,
         s.state # "Extracting"
  PROVE  Good(svc, disk, temp)' /\ svc'.install_path = s.install_path
<1>1. s \in Service
  BY DEF Core
<1>2. CASE s.download_reply
  BY <1>2 DEF start_download, Good, Driven, Core, Clean, running, installed
<1>3. CASE ~s.download_reply /\ svc' = set_error(s) /\ UNCHANGED temp
  <2>1. /\ Core(svc', disk') /\ svc'.state = "Error" /\ ~svc'.download_reply
        /\ svc'.install_path = s.install_path
    BY <1>3, SetErrorCore
  <2> QED
    BY <2>1, <1>3 DEF Good, Driven, Clean
<1>4. CASE /\ ~s.download_reply
           /\ svc' = set_state([s EXCEPT !.download_reply = TRUE], "Downloading")
           /\ temp' = temp \cup {"archive"}
  <2>1. /\ svc' \in Service
        /\ svc'.live = s.live
        /\ svc'.process = s.process
        /\ svc'.launch_elevated = s.launch_elevated
        /\ svc'.download_reply
        /\ svc'.install_path = s.install_path
        /\ svc'.state = "Downloading"
    BY <1>1, <1>4 DEF set_state, Service, States
  <2>2. Core(svc', disk')
    BY <2>1 DEF Core, running, installed
  <2> QED
    BY <2>1, <2>2, <1>4 DEF Good, Driven, Clean
<1> QED
  BY <1>2, <1>3, <1>4 DEF start_download

LEMMA CheckAndInstallGood ==
  ASSUME Good(svc, disk, temp), check_and_install
  PROVE  Good(svc, disk, temp)' /\ SameFiles
<1> DEFINE s == set_state(clear_error(svc), "Checking")
<1>1. /\ s \in Service
      /\ s.live = svc.live
      /\ s.process = svc.process
      /\ s.launch_elevated = svc.launch_elevated
      /\ s.download_reply = svc.download_reply
      /\ s.install_path = svc.install_path
      /\ s.state = "Checking"
  BY DEF Good, Core, set_state, clear_error, Service, States
<1> HIDE DEF s
<1>2. ASSUME NEW e, NEW b \in BOOLEAN, e = [s EXCEPT !.fetching = b]
      PROVE  /\ Core(e, disk) /\ Clean(e, temp)
             /\ e.state = "Checking" /\ e.fetching = b
             /\ e.install_path = svc.install_path
  <2>1. /\ e \in Service
        /\ e.live = svc.live
        /\ e.process = svc.process
        /\ e.launch_elevated = svc.launch_elevated
        /\ e.download_reply = svc.download_reply
        /\ e.install_path = svc.install_path
        /\ e.state = "Checking"
        /\ e.fetching = b
    BY <1>1, <1>2 DEF Service
  <2> QED
    BY <2>1 DEF Good, Core, Clean, running, installed
<1>3. CASE start_download([s EXCEPT !.fetching = FALSE])
  <2> DEFINE e == [s EXCEPT !.fetching = FALSE]
  <2>1. /\ Core(e, disk) /\ Clean(e, temp) /\ e.state = "Checking"
        /\ e.install_path = svc.install_path
    BY <1>2
  <2>2. start_download(e) /\ UNCHANGED disk
    BY <1>3 DEF check_and_install
  <2> HIDE DEF e
  <2> QED
    BY <2>1, <2>2, StartDownloadGood DEF SameFiles
<1>4. CASE svc' = [s EXCEPT !.fetching = TRUE] /\ UNCHANGED temp
  BY <1>2, <1>4 DEF check_and_install, SameFiles, Good, Core, Driven, Clean, running,
     installed
<1> QED
  BY <1>3, <1>4 DEF check_and_install, s

LEMMA OnReleaseFetchedGood ==
  ASSUME Good(svc, disk, temp), on_release_fetched
  PROVE  Good(svc, disk, temp)' /\ SameFiles
<1> DEFINE s == [svc EXCEPT !.fetching = FALSE]
<1>1. /\ s \in Service
      /\ s.live = svc.live
      /\ s.process = svc.process
      /\ s.launch_elevated = svc.launch_elevated
      /\ s.has_error = svc.has_error
      /\ s.download_reply = svc.download_reply
      /\ s.install_path = svc.install_path
      /\ s.state = svc.state
  BY DEF Good, Core, Service
<1> HIDE DEF s
<1>2. Core(s, disk) /\ Clean(s, temp) /\ s.state # "Extracting"
  BY <1>1 DEF Good, Core, Driven, Clean, running, installed
<1>3. CASE start_download(s)
  BY <1>1, <1>2, <1>3, StartDownloadGood DEF on_release_fetched, SameFiles
<1>4. CASE svc' = set_error(s) /\ UNCHANGED temp
  <2>1. UNCHANGED disk
    BY DEF on_release_fetched
  <2> QED
    BY <2>1, <1>1, <1>2, <1>4, SetErrorCore DEF Good, Driven, Clean, SameFiles
<1> QED
  BY <1>3, <1>4 DEF on_release_fetched, s

LEMMA InstallFromUrlGood ==
  ASSUME Good(svc, disk, temp), install_from_url
  PROVE  Good(svc, disk, temp)' /\ SameFiles
BY StartDownloadGood DEF install_from_url, SameFiles, Good, Driven

LEMMA OnDownloadFinishedGood ==
  ASSUME NEW outcomes, OutcomesOK(outcomes), Good(svc, disk, temp),
         on_download_finished(outcomes)
  PROVE  Good(svc, disk, temp)'
<1> DEFINE s == [svc EXCEPT !.download_reply = FALSE]
           x == set_state(s, "Extracting")
<1>1. /\ s \in Service
      /\ s.live = svc.live
      /\ s.process = svc.process
      /\ s.launch_elevated = svc.launch_elevated
      /\ s.has_error = svc.has_error
      /\ ~s.download_reply
      /\ s.install_path = svc.install_path
      /\ s.state = svc.state
  BY DEF Good, Core, Service
<1> HIDE DEF s
<1>2. /\ x \in Service
      /\ x.live = svc.live
      /\ x.process = svc.process
      /\ x.launch_elevated = svc.launch_elevated
      /\ x.has_error = svc.has_error
      /\ ~x.download_reply
      /\ x.install_path = svc.install_path
      /\ x.state = "Extracting"
  BY <1>1 DEF set_state, Service, States
<1> HIDE DEF x
<1>3. Core(s, disk) /\ Core(x, disk)
  BY <1>1, <1>2 DEF Good, Core, running, installed
<1>4. temp \subseteq {"archive"} /\ svc.download_reply
  BY DEF Good, Clean, on_download_finished
<1>5. ASSUME NEW e, Core(e, disk), ~e.download_reply, svc' = set_error(e),
             temp' = {}, UNCHANGED disk
      PROVE  Good(svc, disk, temp)'
  <2>1. Core(svc', disk') /\ svc'.state = "Error" /\ ~svc'.download_reply
    BY <1>5, SetErrorCore
  <2> QED
    BY <2>1, <1>5 DEF Good, Driven, Clean
<1>6. CASE svc' = set_error(s) /\ temp' = temp \ {"archive"} /\ UNCHANGED disk
  BY <1>1, <1>3, <1>4, <1>5, <1>6
<1>7. CASE extract_archive(x, outcomes)
  <2>1. CASE /\ svc' = set_error(x)
             /\ temp' = temp \ {"archive"}
             /\ UNCHANGED disk
    BY <1>2, <1>3, <1>4, <1>5, <2>1
  <2>2. CASE /\ svc' = set_error(x)
             /\ temp' = (temp \cup {"dir"}) \ {"archive", "dir"}
             /\ UNCHANGED disk
    BY <1>2, <1>3, <1>4, <1>5, <2>2
  <2>3. CASE install_binaries(x, outcomes)
    <3>1. PICK o \in outcomes :
            /\ disk' = [disk EXCEPT ![x.install_path] = o.files]
            /\ temp' = o.temp
            /\ svc' = IF o.ok THEN set_state(clear_error(x), "Ready")
                      ELSE set_error(x)
      BY <2>3 DEF install_binaries
    <3>2. /\ o.files \in [Files -> Contents]
          /\ temp' = {}
          /\ o.ok \in BOOLEAN
          /\ o.ok => \A f \in Required : o.files[f] # "absent"
      BY <3>1 DEF OutcomesOK
    <3>3. disk' \in Disk /\ disk'[x.install_path] = o.files
      BY <1>2, <1>3, <3>1, <3>2 DEF Core, Disk, Service
    <3>4. CASE o.ok
      <4>1. /\ svc' \in Service
            /\ svc'.live = x.live
            /\ svc'.process = x.process
            /\ svc'.launch_elevated = x.launch_elevated
            /\ ~svc'.download_reply
            /\ svc'.install_path = x.install_path
            /\ svc'.state = "Ready"
        BY <1>2, <3>1, <3>4 DEF set_state, clear_error, Service, States
      <4>2. installed(svc', disk')
        BY <3>2, <3>3, <3>4, <4>1 DEF installed
      <4>3. Core(svc', disk')
        BY <1>3, <3>3, <4>1, <4>2 DEF Core, running
      <4> QED
        BY <3>2, <4>1, <4>3 DEF Good, Driven, Clean
    <3>5. CASE ~o.ok
      <4>1. /\ svc' \in Service
            /\ svc'.live = x.live
            /\ svc'.process = x.process
            /\ svc'.launch_elevated = x.launch_elevated
            /\ ~svc'.download_reply
            /\ svc'.has_error
            /\ svc'.state = "Error"
        BY <1>2, <3>1, <3>5 DEF set_error, Service, States
      <4>2. Core(svc', disk')
        BY <1>3, <3>3, <4>1 DEF Core, running
      <4> QED
        BY <3>2, <4>1, <4>2 DEF Good, Driven, Clean
    <3> QED
      BY <3>2, <3>4, <3>5
  <2> QED
    BY <1>7, <2>1, <2>2, <2>3 DEF extract_archive
<1> QED
  BY <1>6, <1>7 DEF on_download_finished, s, x

\* What the end of a download does to the install directory: nothing if it
\* failed before install_binaries_impl, one of the outcomes otherwise.
LEMMA DownloadEffect ==
  ASSUME NEW outcomes, Good(svc, disk, temp), on_download_finished(outcomes)
  PROVE  /\ svc'.install_path = svc.install_path
         /\ \/ UNCHANGED disk /\ svc'.state = "Error"
            \/ \E o \in outcomes :
                 /\ disk' = [disk EXCEPT ![svc.install_path] = o.files]
                 /\ svc'.state = IF o.ok THEN "Ready" ELSE "Error"
<1> DEFINE s == [svc EXCEPT !.download_reply = FALSE]
           x == set_state(s, "Extracting")
<1>1. s \in Service /\ s.install_path = svc.install_path
  BY DEF Good, Core, Service
<1> HIDE DEF s
<1>2. x \in Service /\ x.install_path = svc.install_path
  BY <1>1 DEF set_state, Service, States
<1> HIDE DEF x
<1>3. ASSUME NEW e \in Service
      PROVE  /\ set_error(e).install_path = e.install_path
             /\ set_error(e).state = "Error"
             /\ set_state(clear_error(e), "Ready").install_path = e.install_path
             /\ set_state(clear_error(e), "Ready").state = "Ready"
  BY DEF set_error, set_state, clear_error, Service, States
<1>4. CASE svc' = set_error(s) /\ UNCHANGED disk
  BY <1>1, <1>3, <1>4
<1>5. CASE svc' = set_error(x) /\ UNCHANGED disk
  BY <1>2, <1>3, <1>5
<1>6. CASE install_binaries(x, outcomes)
  BY <1>2, <1>3, <1>6 DEF install_binaries
<1> QED
  BY <1>4, <1>5, <1>6 DEF on_download_finished, extract_archive, s, x

-----------------------------------------------------------------------------
(* The other calls and events *)

LEMMA GoodPrimed ==
  ASSUME Good(svc', disk, temp), UNCHANGED <<disk, temp>>
  PROVE  Good(svc, disk, temp)'
BY DEF Good, Core, Driven, Clean, running, installed

LEMMA SetInstallPathGood ==
  ASSUME Good(svc, disk, temp), set_install_path
  PROVE  Good(svc, disk, temp)'
<1>1. PICK d \in Paths \ {svc.install_path}, s \in stop_if_running(svc) :
        /\ svc' = detect_install([s EXCEPT !.install_path = d], disk)
        /\ UNCHANGED <<disk, temp>>
  BY DEF set_install_path
<1>2. Good(svc', disk, temp)
  BY <1>1, StopIfRunningGood, DetectInstallGood
<1> QED
  BY <1>1, <1>2, GoodPrimed

LEMMA ResetInstallGood ==
  ASSUME Good(svc, disk, temp), reset_install
  PROVE  Good(svc, disk, temp)'
<1>1. PICK s \in stop_if_running(svc) :
        /\ svc' = set_state(clear_error(s), "NotInstalled")
        /\ disk' = [disk EXCEPT ![svc.install_path] = [f \in Files |-> "absent"]]
        /\ UNCHANGED temp
  BY DEF reset_install
<1>2. Good(s, disk, temp)
  BY StopIfRunningGood
<1>3. disk' \in Disk
  BY <1>1, <1>2 DEF Good, Core, Disk, Contents
<1>4. /\ svc' \in Service
      /\ svc'.live = s.live
      /\ svc'.process = s.process
      /\ svc'.launch_elevated = s.launch_elevated
      /\ svc'.fetching = s.fetching
      /\ svc'.download_reply = s.download_reply
      /\ svc'.state = "NotInstalled"
  BY <1>1, <1>2 DEF Good, Core, set_state, clear_error, Service, States
<1>5. Core(svc', disk')
  BY <1>2, <1>3, <1>4 DEF Good, Core, running
<1> QED
  BY <1>1, <1>2, <1>4, <1>5 DEF Good, Driven, Clean

LEMMA ResetInstallEffect ==
  ASSUME Good(svc, disk, temp), reset_install
  PROVE  /\ svc'.install_path = svc.install_path
         /\ svc'.state = "NotInstalled"
         /\ disk' = [disk EXCEPT ![svc.install_path] = [f \in Files |-> "absent"]]
<1>1. PICK s \in stop_if_running(svc) :
        /\ svc' = set_state(clear_error(s), "NotInstalled")
        /\ disk' = [disk EXCEPT ![svc.install_path] = [f \in Files |-> "absent"]]
  BY DEF reset_install
<1>2. s \in Service /\ s.install_path = svc.install_path
  BY StopIfRunningGood DEF Good, Core
<1> QED
  BY <1>1, <1>2 DEF set_state, clear_error, Service

LEMMA StopGood ==
  ASSUME Good(svc, disk, temp), stop
  PROVE  Good(svc, disk, temp)' /\ SameFiles
<1>1. Good(svc', disk, temp) /\ svc'.install_path = svc.install_path
  BY StopProcessGood DEF stop
<1> QED
  BY <1>1, GoodPrimed DEF stop, SameFiles

LEMMA ProcessExitsGood ==
  ASSUME Good(svc, disk, temp), process_exits
  PROVE  Good(svc, disk, temp)' /\ SameFiles
<1>1. PICK p \in Procs, crashed \in BOOLEAN :
        /\ svc.live[p] # None
        /\ svc' = finished(svc, p, crashed)
        /\ UNCHANGED <<disk, temp>>
  BY DEF process_exits
<1>2. Good(svc', disk, temp) /\ svc'.install_path = svc.install_path
  BY <1>1, FinishedGood
<1> QED
  BY <1>1, <1>2, GoodPrimed DEF SameFiles

LEMMA PkexecGrantedGood ==
  ASSUME Good(svc, disk, temp), pkexec_granted
  PROVE  Good(svc, disk, temp)'
<1> USE ServiceAssumption
<1>1. PICK p \in Procs :
        /\ svc.live[p] # None
        /\ svc.live[p].as = "pkexec"
        /\ svc' = [svc EXCEPT !.live[p].as = "root"]
        /\ UNCHANGED <<disk, temp>>
  BY DEF pkexec_granted
<1> DEFINE l == [svc.live[p] EXCEPT !.as = "root"]
<1>2. svc \in Service /\ svc.process = p
  BY <1>1 DEF Good, Core
<1>3. svc.live[p] \in Launched
  BY <1>1, <1>2 DEF Service
<1>4. l \in Launched /\ l.as = "root"
  BY <1>3 DEF Launched
<1>5. svc' = [svc EXCEPT !.live[p] = l]
  BY <1>1
<1> HIDE DEF l
<1>6. /\ svc' \in Service
      /\ svc'.live = [svc.live EXCEPT ![p] = l]
      /\ svc'.process = svc.process
      /\ svc'.launch_elevated = svc.launch_elevated
      /\ svc'.has_error = svc.has_error
      /\ svc'.fetching = svc.fetching
      /\ svc'.download_reply = svc.download_reply
      /\ svc'.install_path = svc.install_path
      /\ svc'.state = svc.state
  BY <1>2, <1>4, <1>5 DEF Service
<1>7. /\ svc'.live[p] = l /\ l # None
      /\ \A q \in Procs : q # p => svc'.live[q] = svc.live[q]
  BY <1>2, <1>4, <1>6 DEF Service
<1>8. Core(svc', disk)
  BY <1>2, <1>4, <1>6, <1>7 DEF Good, Core, running, installed
<1> QED
  BY <1>1, <1>6, <1>8, GoodKept, GoodPrimed

LEMMA InitServiceGood == InitService => Good(svc, disk, temp)
<1> SUFFICES ASSUME InitService PROVE Good(svc, disk, temp)
  OBVIOUS
<1> USE ServiceAssumption
<1>1. PICK path \in Paths :
       svc = detect_install(
               [state |-> "NotInstalled", has_error |-> FALSE,
                process |-> None, live |-> [p \in Procs |-> None],
                launch_elevated |-> FALSE, fetching |-> FALSE,
                download_reply |-> FALSE, install_path |-> path], disk)
  BY DEF InitService
<1>2. disk \in Disk /\ temp = {}
  BY DEF InitService, Disk, Contents
<1>3. /\ svc \in Service
      /\ svc.live = [p \in Procs |-> None]
      /\ ~svc.launch_elevated
      /\ ~svc.download_reply
      /\ svc.install_path = path
      /\ svc.state = IF \A f \in Required : disk[path][f] # "absent"
                     THEN "Ready" ELSE "NotInstalled"
  BY <1>1 DEF detect_install, set_state, installed, Service, States
<1> QED
  BY <1>2, <1>3 DEF Good, Core, Driven, Clean, installed, running

-----------------------------------------------------------------------------
(* What becomes of the process *)

\* Downloading and installing leave the processes alone.
SameProcess == svc'.process = svc.process /\ svc'.live = svc.live

LEMMA FieldsKept ==
  ASSUME NEW s \in Service, NEW st \in States, NEW b \in BOOLEAN,
         NEW g \in {set_error(s), clear_error(s), set_state(s, st),
                    [s EXCEPT !.fetching = b], [s EXCEPT !.download_reply = b]}
  PROVE  g \in Service /\ g.process = s.process /\ g.live = s.live
<1>1. CASE g = set_error(s)
  BY <1>1 DEF set_error, Service, States
<1>2. CASE g = clear_error(s)
  BY <1>2 DEF clear_error, Service
<1>3. CASE g = set_state(s, st)
  BY <1>3 DEF set_state, Service
<1>4. CASE g = [s EXCEPT !.fetching = b]
  BY <1>4 DEF Service
<1>5. CASE g = [s EXCEPT !.download_reply = b]
  BY <1>5 DEF Service
<1> QED
  BY <1>1, <1>2, <1>3, <1>4, <1>5

LEMMA StartDownloadProcess ==
  ASSUME NEW s \in Service, start_download(s)
  PROVE  svc'.process = s.process /\ svc'.live = s.live
<1>1. "Downloading" \in States
  BY DEF States
<1>2. CASE svc' = set_state([s EXCEPT !.download_reply = TRUE], "Downloading")
  <2> DEFINE e == [s EXCEPT !.download_reply = TRUE]
  <2>1. e \in Service /\ e.process = s.process /\ e.live = s.live
    BY <1>1, FieldsKept
  <2>2. svc' = set_state(e, "Downloading")
    BY <1>2
  <2> HIDE DEF e
  <2> QED
    BY <1>1, <2>1, <2>2, FieldsKept
<1>3. CASE svc' = set_error(s)
  BY <1>1, <1>3, FieldsKept
<1> QED
  BY <1>2, <1>3 DEF start_download

LEMMA InstallKeepsProcess ==
  ASSUME NEW outcomes, Good(svc, disk, temp),
         \/ check_and_install \/ on_release_fetched \/ install_from_url
         \/ on_download_finished(outcomes)
  PROVE  SameProcess
<1> USE DEF SameProcess
<1>1. svc \in Service /\ {"Checking", "Extracting", "Ready"} \subseteq States
  BY DEF Good, Core, States
<1>2. CASE check_and_install
  <2> DEFINE c == clear_error(svc)
             s == set_state(c, "Checking")
             f == [s EXCEPT !.fetching = FALSE]
  <2>1. c \in Service /\ c.process = svc.process /\ c.live = svc.live
    BY <1>1, FieldsKept
  <2> HIDE DEF c
  <2>2. s \in Service /\ s.process = svc.process /\ s.live = svc.live
    BY <1>1, <2>1, FieldsKept
  <2> HIDE DEF s
  <2>3. f \in Service /\ f.process = svc.process /\ f.live = svc.live
    BY <1>1, <2>2, FieldsKept
  <2>4. CASE start_download(f)
    <3> HIDE DEF f
    <3> QED
      BY <2>3, <2>4, StartDownloadProcess
  <2>5. CASE svc' = [s EXCEPT !.fetching = TRUE]
    BY <1>1, <2>2, <2>5, FieldsKept
  <2> QED
    BY <1>2, <2>4, <2>5 DEF check_and_install, s, c
<1>3. CASE on_release_fetched
  <2> DEFINE s == [svc EXCEPT !.fetching = FALSE]
  <2>1. s \in Service /\ s.process = svc.process /\ s.live = svc.live
    BY <1>1, FieldsKept
  <2> HIDE DEF s
  <2>2. CASE start_download(s)
    BY <2>1, <2>2, StartDownloadProcess
  <2>3. CASE svc' = set_error(s)
    BY <1>1, <2>1, <2>3, FieldsKept
  <2> QED
    BY <1>3, <2>2, <2>3 DEF on_release_fetched, s
<1>4. CASE install_from_url
  BY <1>1, <1>4, StartDownloadProcess DEF install_from_url
<1>5. CASE on_download_finished(outcomes)
  <2> DEFINE s == [svc EXCEPT !.download_reply = FALSE]
             x == set_state(s, "Extracting")
             c == clear_error(x)
  <2>1. s \in Service /\ s.process = svc.process /\ s.live = svc.live
    BY <1>1, FieldsKept
  <2> HIDE DEF s
  <2>2. x \in Service /\ x.process = svc.process /\ x.live = svc.live
    BY <1>1, <2>1, FieldsKept
  <2> HIDE DEF x
  <2>3. c \in Service /\ c.process = svc.process /\ c.live = svc.live
    BY <1>1, <2>2, FieldsKept
  <2> HIDE DEF c
  <2>4. CASE svc' = set_error(s)
    BY <1>1, <2>1, <2>4, FieldsKept
  <2>5. CASE svc' = set_error(x)
    BY <1>1, <2>2, <2>5, FieldsKept
  <2>6. CASE svc' = set_state(c, "Ready")
    BY <1>1, <2>3, <2>6, FieldsKept
  <2> QED
    BY <1>5, <2>4, <2>5, <2>6
    DEF on_download_finished, extract_archive, install_binaries, s, x, c
<1> QED
  BY <1>2, <1>3, <1>4, <1>5

\* A process that is still the managed one after any of these is still alive.
LEMMA EndsOrLives ==
  ASSUME Good(svc, disk, temp), running(svc),
         set_install_path \/ reset_install \/ stop \/ process_exits
  PROVE  svc'.process = None \/ running(svc')
<1>1. svc'.process = None \/ SameProcess
  <2>1. CASE set_install_path
    BY <2>1, StopIfRunningGood, DetectInstallGood DEF set_install_path, SameProcess
  <2>2. CASE reset_install
    <3>1. PICK s \in stop_if_running(svc) :
            svc' = set_state(clear_error(s), "NotInstalled")
      BY <2>2 DEF reset_install
    <3>2. /\ s \in Service
          /\ s.process = None \/ (s.process = svc.process /\ s.live = svc.live)
      BY StopIfRunningGood DEF Good, Core
    <3>3. svc'.process = s.process /\ svc'.live = s.live
      BY <3>1, <3>2 DEF set_state, clear_error, Service
    <3> QED
      BY <3>2, <3>3 DEF SameProcess
  <2>3. CASE stop
    BY <2>3, StopProcessGood DEF stop, SameProcess
  <2>4. CASE process_exits
    BY <2>4, FinishedGood DEF process_exits
  <2> QED
    BY <2>1, <2>2, <2>3, <2>4
<1> QED
  BY <1>1 DEF SameProcess, running

-----------------------------------------------------------------------------
(* What the page shows: a step of the service is a step of ManagedTool.     *)
(* The page says less than the state does, so each operation is first       *)
(* reduced to what becomes of the fields the page depends on.               *)

\* One step, as far as the page can tell.
ToolStep == [Tool!Next]_(Tool!vars)

\* What the page shows of an object with this state.
Page(state) == IF state \in {"Checking", "Downloading", "Extracting"} THEN "Busy" ELSE state

LEMMA PageShown ==
  /\ shown = Page(svc.state)
  /\ shown' = Page(svc'.state)
BY DEF shown, busy, Page

LEMMA NothingManaged ==
  ASSUME svc \in Service, ~running(svc)
  PROVE  managed = None
BY DEF managed, running, Service

LEMMA ManagedKept ==
  ASSUME SameProcess
  PROVE  UNCHANGED managed
BY DEF managed, SameProcess

LEMMA CompleteKept ==
  ASSUME UNCHANGED disk
  PROVE  UNCHANGED complete
BY DEF complete

\* A step that none of the page's parts takes notice of.
LEMMA PageUntouched ==
  ASSUME UNCHANGED <<svc, complete>>
  PROVE  ToolStep
BY DEF ToolStep, Tool!vars, shown, busy, managed

LEMMA StartDownloadFields ==
  ASSUME NEW s \in Service, start_download(s)
  PROVE  /\ svc'.fetching = s.fetching
         /\ svc'.install_path = s.install_path
         /\ \/ /\ s.download_reply
               /\ svc'.download_reply = s.download_reply
               /\ svc'.state = s.state
            \/ /\ ~s.download_reply
               /\ svc'.download_reply = s.download_reply
               /\ svc'.state = "Error"
            \/ /\ ~s.download_reply
               /\ svc'.download_reply = TRUE
               /\ svc'.state = "Downloading"
<1>1. CASE s.download_reply /\ svc' = s
  BY <1>1
<1>2. CASE ~s.download_reply /\ svc' = set_error(s)
  BY <1>2 DEF set_error, Service
<1>3. CASE ~s.download_reply /\ svc' = set_state([s EXCEPT !.download_reply = TRUE], "Downloading")
  BY <1>3 DEF set_state, Service
<1> QED
  BY <1>1, <1>2, <1>3 DEF start_download

LEMMA CheckAndInstallTool ==
  ASSUME Good(svc, disk, temp), check_and_install
  PROVE  ToolStep
<1> DEFINE s == set_state(clear_error(svc), "Checking")
           f == [s EXCEPT !.fetching = FALSE]
<1>1. /\ svc \in Service /\ ~busy(svc) /\ ~running(svc)
      /\ UNCHANGED complete
  BY CompleteKept DEF Good, Core, check_and_install
<1>2. managed = None /\ UNCHANGED managed
  BY <1>1, NothingManaged, ManagedKept, InstallKeepsProcess
<1>3. shown # "Busy"
  BY <1>1 DEF shown, Service, States
<1>4. /\ s \in Service
      /\ s.fetching = svc.fetching
      /\ s.download_reply = svc.download_reply
      /\ s.install_path = svc.install_path
      /\ s.state = "Checking"
  BY <1>1 DEF set_state, clear_error, Service, States
<1> HIDE DEF s
<1>5. /\ f \in Service
      /\ f.fetching = FALSE
      /\ f.download_reply = svc.download_reply
      /\ f.install_path = svc.install_path
      /\ f.state = "Checking"
  BY <1>4 DEF Service
<1>6. CASE start_download(f)
  <2> HIDE DEF f
  <2>1. svc'.fetching = FALSE /\ svc'.install_path = svc.install_path
    BY <1>5, <1>6, StartDownloadFields
  <2>2. CASE svc'.state = "Error" /\ svc'.download_reply = svc.download_reply
    <3>1. Tool!DownloadFails
      BY <1>1, <1>2, <1>3, <2>1, <2>2, PageShown DEF Page, Tool!DownloadFails
    <3> QED
      BY <3>1 DEF ToolStep, Tool!Next
  <2>3. CASE svc'.state \in {"Checking", "Downloading"} /\ svc'.download_reply = TRUE
    <3>1. Tool!Download
      BY <1>1, <1>2, <1>3, <2>1, <2>3, PageShown DEF Page, Tool!Download
    <3> QED
      BY <3>1 DEF ToolStep, Tool!Next
  <2> QED
    BY <1>5, <1>6, <2>2, <2>3, StartDownloadFields DEF Service
<1>7. CASE svc' = [s EXCEPT !.fetching = TRUE]
  <2>1. /\ svc'.fetching = TRUE
        /\ svc'.download_reply = svc.download_reply
        /\ svc'.install_path = svc.install_path
        /\ svc'.state = "Checking"
    BY <1>4, <1>7 DEF Service
  <2>2. Tool!Fetch
    BY <1>1, <1>2, <1>3, <2>1, PageShown DEF Page, Tool!Fetch
  <2> QED
    BY <2>2 DEF ToolStep, Tool!Next
<1> QED
  BY <1>6, <1>7 DEF check_and_install, s

LEMMA OnReleaseFetchedTool ==
  ASSUME Good(svc, disk, temp), on_release_fetched
  PROVE  Tool!Fetched
<1> DEFINE s == [svc EXCEPT !.fetching = FALSE]
<1>1. svc \in Service /\ svc.fetching /\ UNCHANGED complete
  BY CompleteKept DEF Good, Core, on_release_fetched
<1>2. UNCHANGED managed
  BY ManagedKept, InstallKeepsProcess
<1>3. /\ s \in Service
      /\ s.fetching = FALSE
      /\ s.download_reply = svc.download_reply
      /\ s.install_path = svc.install_path
      /\ s.state = svc.state
  BY <1>1 DEF Service
<1> HIDE DEF s
<1>4. CASE svc' = set_error(s)
  <2>1. /\ svc'.fetching = FALSE
        /\ svc'.download_reply = svc.download_reply
        /\ svc'.install_path = svc.install_path
        /\ svc'.state = "Error"
    BY <1>3, <1>4 DEF set_error, Service
  <2> QED
    BY <1>1, <1>2, <2>1, PageShown DEF Page, Tool!Fetched
<1>5. CASE start_download(s)
  <2>1. svc'.fetching = FALSE /\ svc'.install_path = svc.install_path
    BY <1>3, <1>5, StartDownloadFields
  <2>2. \/ /\ svc.download_reply
           /\ svc'.download_reply = svc.download_reply
           /\ svc'.state = svc.state
        \/ /\ svc'.download_reply = svc.download_reply
           /\ svc'.state = "Error"
        \/ /\ ~svc.download_reply
           /\ svc'.download_reply = TRUE
           /\ svc'.state = "Downloading"
    BY <1>3, <1>5, StartDownloadFields
  <2> QED
    BY <1>1, <1>2, <2>1, <2>2, PageShown DEF Page, Tool!Fetched
<1> QED
  BY <1>4, <1>5 DEF on_release_fetched, s

LEMMA InstallFromUrlTool ==
  ASSUME Good(svc, disk, temp), install_from_url
  PROVE  ToolStep
<1>1. /\ svc \in Service /\ ~busy(svc) /\ ~running(svc)
      /\ UNCHANGED complete /\ start_download(svc)
  BY CompleteKept DEF Good, Core, install_from_url
<1>2. managed = None /\ UNCHANGED managed
  BY <1>1, NothingManaged, ManagedKept, InstallKeepsProcess
<1>3. shown # "Busy"
  BY <1>1 DEF shown, Service, States
<1>4. svc'.fetching = svc.fetching /\ svc'.install_path = svc.install_path
  BY <1>1, StartDownloadFields
<1>5. CASE svc'.download_reply = svc.download_reply /\ svc'.state = svc.state
  BY <1>1, <1>2, <1>4, <1>5, PageShown DEF ToolStep, Tool!vars
<1>6. CASE svc'.download_reply = svc.download_reply /\ svc'.state = "Error"
  <2>1. Tool!Fail
    BY <1>1, <1>2, <1>4, <1>6, PageShown DEF Page, Tool!Fail
  <2> QED
    BY <2>1 DEF ToolStep, Tool!Next
<1>7. CASE svc'.download_reply = TRUE /\ svc'.state = "Downloading"
  <2>1. Tool!Download
    BY <1>1, <1>2, <1>3, <1>4, <1>7, PageShown DEF Page, Tool!Download
  <2> QED
    BY <2>1 DEF ToolStep, Tool!Next
<1> QED
  BY <1>1, <1>5, <1>6, <1>7, StartDownloadFields

\* The files of one directory decide about that directory.
LEMMA CompleteThere ==
  ASSUME disk \in Disk, NEW d \in Paths, NEW files \in [Files -> Contents],
         disk' = [disk EXCEPT ![d] = files]
  PROVE  complete' = IF \A f \in Required : files[f] # "absent" THEN complete \cup {d}
                     ELSE complete \ {d}
<1>1. disk'[d] = files /\ \A e \in Paths : e # d => disk'[e] = disk[e]
  BY DEF Disk
<1> QED
  BY <1>1 DEF complete

LEMMA OnDownloadFinishedTool ==
  ASSUME NEW outcomes, OutcomesOK(outcomes), Good(svc, disk, temp),
         on_download_finished(outcomes)
  PROVE  Tool!Downloaded
<1> DEFINE s == [svc EXCEPT !.download_reply = FALSE]
           x == set_state(s, "Extracting")
           c == clear_error(x)
<1>1. svc \in Service /\ disk \in Disk /\ svc.download_reply /\ svc.install_path \in Paths
  BY DEF Good, Core, on_download_finished, Service
<1>2. UNCHANGED managed
  BY ManagedKept, InstallKeepsProcess
<1>3. s \in Service /\ s.fetching = svc.fetching /\ s.download_reply = FALSE
  BY <1>1 DEF Service
<1> HIDE DEF s
<1>4. x \in Service /\ x.fetching = svc.fetching /\ x.download_reply = FALSE
  BY <1>3 DEF set_state, Service, States
<1> HIDE DEF x
<1>5. c \in Service /\ c.fetching = svc.fetching /\ c.download_reply = FALSE
  BY <1>4 DEF clear_error, Service
<1> HIDE DEF c
<1>6. svc' \in {set_error(s), set_error(x), set_state(c, "Ready")}
  BY DEF on_download_finished, extract_archive, install_binaries, s, x, c
<1>7. svc'.fetching = svc.fetching /\ svc'.download_reply = FALSE
  BY <1>3, <1>4, <1>5, <1>6 DEF set_error, set_state, Service
<1>8. svc'.install_path = svc.install_path
  BY DownloadEffect
<1>9. CASE UNCHANGED disk /\ svc'.state = "Error"
  BY <1>1, <1>2, <1>7, <1>8, <1>9, CompleteKept, PageShown DEF Page, Tool!Downloaded
<1>10. ASSUME NEW o \in outcomes,
              disk' = [disk EXCEPT ![svc.install_path] = o.files],
              svc'.state = IF o.ok THEN "Ready" ELSE "Error"
       PROVE  Tool!Downloaded
  <2>1. /\ o.files \in [Files -> Contents]
        /\ o.ok \in BOOLEAN
        /\ o.ok => \A f \in Required : o.files[f] # "absent"
    BY DEF OutcomesOK
  <2>2. complete' = IF \A f \in Required : o.files[f] # "absent"
                    THEN complete \cup {svc.install_path} ELSE complete \ {svc.install_path}
    BY <1>1, <1>10, <2>1, CompleteThere
  <2> QED
    BY <1>1, <1>2, <1>7, <1>8, <1>10, <2>1, <2>2, PageShown DEF Page, Tool!Downloaded
<1> QED
  BY <1>9, <1>10, DownloadEffect

LEMMA FinishedFields ==
  ASSUME NEW s, NEW d, NEW t, Good(s, d, t), NEW p \in Procs, s.live[p] # None,
         NEW c \in BOOLEAN
  PROVE  LET e == finished(s, p, c)
         IN  /\ e \in Service
             /\ e.process = None
             /\ e.fetching = s.fetching /\ e.download_reply = s.download_reply
             /\ e.install_path = s.install_path
             /\ e.state \in {"Error", IF s.state = "Running" THEN "Ready" ELSE s.state}
<1>1. Core(s, d)
  BY DEF Good
<1>2. CASE ~c
  BY <1>1, <1>2, ProcessGoneCore DEF finished, Core
<1>3. CASE c
  <2> DEFINE x == set_error(s)
  <2>1. /\ Core(x, d) /\ x.live = s.live /\ x.install_path = s.install_path
        /\ x.download_reply = s.download_reply /\ x.fetching = s.fetching
        /\ x.state = "Error"
    BY <1>1, SetErrorCore DEF Core, set_error, Service
  <2>2. finished(s, p, c) = process_gone(x, p)
    BY <1>3 DEF finished
  <2> HIDE DEF x
  <2> QED
    BY <2>1, <2>2, ProcessGoneCore DEF Core
<1> QED
  BY <1>2, <1>3

\* Stopping the process, by itself or on the way to something else: a root
\* process is left as it is, any other one is gone.
LEMMA StopProcessFields ==
  ASSUME NEW s, NEW d, NEW t, Good(s, d, t), NEW g \in stop_process(s)
  PROVE  /\ g.fetching = s.fetching /\ g.download_reply = s.download_reply
         /\ g.install_path = s.install_path
         /\ \/ /\ ~running(s) \/ s.live[s.process].as = "root"
               /\ g.process = s.process /\ g.live = s.live /\ g.state = s.state
            \/ /\ running(s) /\ s.live[s.process].as # "root"
               /\ g.process = None
               /\ g.state \in {"Error", IF s.state = "Running" THEN "Ready" ELSE s.state}
<1>1. s \in Service
  BY DEF Good, Core
<1>2. PICK e : /\ e \in IF running(s) /\ s.live[s.process].as # "root"
                          THEN {finished(s, s.process, c) : c \in BOOLEAN} ELSE {s}
               /\ g = [e EXCEPT !.launch_elevated = FALSE]
  BY DEF stop_process
<1>3. CASE e = s /\ (~running(s) \/ s.live[s.process].as = "root")
  BY <1>1, <1>2, <1>3 DEF Service
<1>4. CASE running(s) /\ s.live[s.process].as # "root"
  <2>1. PICK c \in BOOLEAN : e = finished(s, s.process, c)
    BY <1>2, <1>4
  <2>2. s.process \in Procs /\ s.live[s.process] # None
    BY <1>4 DEF running
  <2>3. /\ e \in Service
        /\ e.process = None
        /\ e.fetching = s.fetching /\ e.download_reply = s.download_reply
        /\ e.install_path = s.install_path
        /\ e.state \in {"Error", IF s.state = "Running" THEN "Ready" ELSE s.state}
    BY <2>1, <2>2, FinishedFields
  <2> QED
    BY <1>2, <1>4, <2>3 DEF Service
<1> QED
  BY <1>2, <1>3, <1>4

\* What a process that was stopped, or left, is for the page.
LEMMA StoppedFields ==
  ASSUME Good(svc, disk, temp), NEW g \in stop_if_running(svc),
         svc'.process = g.process, svc'.live = g.live
  PROVE  /\ g \in Service
         /\ g.fetching = svc.fetching /\ g.download_reply = svc.download_reply
         /\ g.install_path = svc.install_path
         /\ Tool!Stopped
<1> USE ServiceAssumption
<1>0. svc \in Service /\ g \in Service
  BY StopIfRunningGood DEF Good, Core
<1>1. CASE ~running(svc)
  <2>1. g = svc /\ managed = None
    BY <1>0, <1>1, NothingManaged DEF stop_if_running
  <2>2. managed' = None
    BY <2>1, ManagedKept DEF SameProcess
  <2> QED
    BY <1>0, <2>1, <2>2 DEF Tool!Stopped
<1>2. CASE running(svc)
  <2>1. svc.process \in Procs /\ managed = svc.live[svc.process] /\ managed # None
    BY <1>2 DEF running, managed
  <2>2. g \in stop_process(svc)
    BY <1>2 DEF stop_if_running
  <2>3. g.fetching = svc.fetching /\ g.download_reply = svc.download_reply
        /\ g.install_path = svc.install_path
    BY <2>2, StopProcessFields
  <2>4. CASE managed.as = "root"
    <3>1. g.process = svc.process /\ g.live = svc.live
      BY <1>2, <2>1, <2>2, <2>4, StopProcessFields
    <3>2. UNCHANGED managed
      BY <3>1, ManagedKept DEF SameProcess
    <3> QED
      BY <1>0, <2>1, <2>3, <2>4, <3>2 DEF Tool!Stopped
  <2>5. CASE managed.as # "root"
    <3>1. g.process = None
      BY <1>2, <2>1, <2>2, <2>5, StopProcessFields
    <3>2. managed' = None
      BY <3>1 DEF managed
    <3> QED
      BY <1>0, <2>3, <2>5, <3>2 DEF Tool!Stopped
  <2> QED
    BY <2>4, <2>5
<1> QED
  BY <1>1, <1>2

LEMMA SetInstallPathTool ==
  ASSUME Good(svc, disk, temp), set_install_path
  PROVE  Tool!Move
<1>1. PICK d \in Paths \ {svc.install_path}, s \in stop_if_running(svc) :
        /\ svc' = detect_install([s EXCEPT !.install_path = d], disk)
        /\ UNCHANGED <<disk, temp>>
  BY DEF set_install_path
<1> DEFINE e == [s EXCEPT !.install_path = d]
<1>2. s \in Service
  BY StopIfRunningGood DEF Good, Core
<1>3. /\ e \in Service
      /\ e.process = s.process /\ e.live = s.live
      /\ e.fetching = s.fetching /\ e.download_reply = s.download_reply
      /\ e.install_path = d
  BY <1>2 DEF Service
<1> HIDE DEF e
<1>4. /\ svc'.process = s.process /\ svc'.live = s.live
      /\ svc'.fetching = s.fetching /\ svc'.download_reply = s.download_reply
      /\ svc'.install_path = d
      /\ svc'.state = IF installed(e, disk) THEN "Ready" ELSE "NotInstalled"
  BY <1>1, <1>3 DEF detect_install, set_state, Service, e
<1>5. /\ svc'.fetching = svc.fetching /\ svc'.download_reply = svc.download_reply
      /\ Tool!Stopped
  BY <1>4, StoppedFields
<1>6. UNCHANGED complete /\ (installed(e, disk) <=> d \in complete)
  BY <1>1, <1>3 DEF complete, installed
<1> QED
  BY <1>4, <1>5, <1>6, PageShown DEF Page, Tool!Move, Tool!Located

LEMMA ResetInstallTool ==
  ASSUME Good(svc, disk, temp), reset_install, Required # {}
  PROVE  Tool!Uninstall
<1>1. PICK s \in stop_if_running(svc) :
        /\ svc' = set_state(clear_error(s), "NotInstalled")
        /\ disk' = [disk EXCEPT ![svc.install_path] = [f \in Files |-> "absent"]]
  BY DEF reset_install
<1>2. s \in Service
  BY StopIfRunningGood DEF Good, Core
<1>3. /\ svc'.process = s.process /\ svc'.live = s.live
      /\ svc'.fetching = s.fetching /\ svc'.download_reply = s.download_reply
      /\ svc'.install_path = s.install_path
      /\ svc'.state = "NotInstalled"
  BY <1>1, <1>2 DEF set_state, clear_error, Service
<1>4. /\ svc'.fetching = svc.fetching /\ svc'.download_reply = svc.download_reply
      /\ svc'.install_path = svc.install_path
      /\ Tool!Stopped
  BY <1>3, StoppedFields
<1> DEFINE gone == [f \in Files |-> "absent"]
<1>5. gone \in [Files -> Contents] /\ ~(\A f \in Required : gone[f] # "absent")
  BY ServiceAssumption DEF Contents
<1> HIDE DEF gone
<1>6. disk \in Disk /\ svc.install_path \in Paths /\ disk' = [disk EXCEPT ![svc.install_path] = gone]
  BY <1>1 DEF Good, Core, Service, gone
<1>7. complete' = complete \ {svc.install_path}
  BY <1>5, <1>6, CompleteThere
<1> QED
  BY <1>3, <1>4, <1>7, PageShown DEF Page, Tool!Uninstall

\* A finished handler: the managed process is gone.
LEMMA FinishedTool ==
  ASSUME Good(svc, disk, temp), NEW p \in Procs, svc.live[p] # None, NEW c \in BOOLEAN,
         svc' = finished(svc, p, c), UNCHANGED disk
  PROVE  Tool!End
<1>1. svc.process = p
  BY DEF Good, Core
<1>2. managed # None
  BY <1>1 DEF managed
<1>3. /\ svc'.process = None
      /\ svc'.fetching = svc.fetching /\ svc'.download_reply = svc.download_reply
      /\ svc'.install_path = svc.install_path
      /\ svc'.state \in {"Error", IF svc.state = "Running" THEN "Ready" ELSE svc.state}
  BY FinishedFields
<1>4. managed' = None
  BY <1>3, ServiceAssumption DEF managed
<1>5. shown' \in {"Error", IF shown = "Running" THEN "Ready" ELSE shown}
  BY <1>3, PageShown DEF Page
<1> QED
  BY <1>2, <1>3, <1>4, <1>5, CompleteKept DEF Tool!End

LEMMA ProcessExitsTool ==
  ASSUME Good(svc, disk, temp), process_exits
  PROVE  Tool!End
BY FinishedTool DEF process_exits

LEMMA StopTool ==
  ASSUME Good(svc, disk, temp), stop
  PROVE  ToolStep
<1> USE ServiceAssumption
<1>0. svc \in Service /\ svc' \in stop_process(svc) /\ UNCHANGED complete
  BY CompleteKept DEF Good, Core, stop
<1>1. /\ svc'.fetching = svc.fetching /\ svc'.download_reply = svc.download_reply
      /\ svc'.install_path = svc.install_path
  BY <1>0, StopProcessFields
<1>2. CASE SameProcess /\ svc'.state = svc.state
  BY <1>0, <1>1, <1>2, ManagedKept, PageShown DEF ToolStep, Tool!vars
<1>3. CASE /\ running(svc)
           /\ svc'.process = None
           /\ svc'.state \in {"Error", IF svc.state = "Running" THEN "Ready" ELSE svc.state}
  <2>1. managed # None /\ managed' = None
    BY <1>3 DEF running, managed
  <2>2. shown' \in {"Error", IF shown = "Running" THEN "Ready" ELSE shown}
    BY <1>3, PageShown DEF Page
  <2>3. Tool!End
    BY <1>0, <1>1, <2>1, <2>2 DEF Tool!End
  <2> QED
    BY <2>3 DEF ToolStep, Tool!Next
<1> QED
  BY <1>0, <1>2, <1>3, StopProcessFields DEF SameProcess

LEMMA SetErrorTool ==
  ASSUME svc \in Service, svc' = set_error(svc), UNCHANGED disk
  PROVE  Tool!Fail
<1>1. /\ svc'.process = svc.process /\ svc'.live = svc.live
      /\ svc'.fetching = svc.fetching /\ svc'.download_reply = svc.download_reply
      /\ svc'.install_path = svc.install_path
      /\ svc'.state = "Error"
  BY DEF set_error, Service
<1> QED
  BY <1>1, ManagedKept, CompleteKept, PageShown DEF SameProcess, Page, Tool!Fail

\* Where launch_process() gets as far as starting something.
LEMMA TryLaunchTool ==
  ASSUME Good(svc, disk, temp), ~running(svc), installed(svc, disk),
         NEW elevate \in BOOLEAN, svc' \in try_launch(svc, elevate), UNCHANGED disk
  PROVE  Tool!Start \/ Tool!Fail
<1> USE ServiceAssumption
<1> DEFINE c == clear_error(svc)
<1>1. svc \in Service /\ UNCHANGED complete /\ managed = None
  BY CompleteKept, NothingManaged DEF Good, Core
<1>2. /\ c \in Service
      /\ c.live = svc.live /\ c.process = svc.process
      /\ c.fetching = svc.fetching /\ c.download_reply = svc.download_reply
      /\ c.install_path = svc.install_path
  BY <1>1 DEF clear_error, Service
<1>3. \A p \in Procs : svc.live[p] = None
  BY DEF Good, Core, running
<1> HIDE DEF c
<1>4. CASE svc' = set_error(c) \/
           svc' = set_error([c EXCEPT !.process = None, !.launch_elevated = FALSE])
  <2>1. /\ svc'.live = svc.live /\ svc'.process \in {svc.process, None}
        /\ svc'.fetching = svc.fetching /\ svc'.download_reply = svc.download_reply
        /\ svc'.install_path = svc.install_path
        /\ svc'.state = "Error"
    BY <1>2, <1>4 DEF set_error, Service
  <2>2. managed' = None
    BY <1>3, <2>1 DEF managed
  <2>3. Tool!Fail
    BY <1>1, <2>1, <2>2, PageShown DEF Page, Tool!Fail
  <2> QED
    BY <2>3
<1>5. ASSUME NEW p \in Procs,
             NEW l, l = [as |-> IF elevate THEN "pkexec" ELSE "user",
                         dir |-> svc.install_path],
             svc' = [c EXCEPT !.live = [@ EXCEPT ![p] = l],
                              !.process = p,
                              !.launch_elevated = elevate,
                              !.state = "Running"]
      PROVE  Tool!Start
  <2>1. /\ svc'.live[p] = l /\ svc'.process = p
        /\ svc'.fetching = svc.fetching /\ svc'.download_reply = svc.download_reply
        /\ svc'.install_path = svc.install_path
        /\ svc'.state = "Running"
    BY <1>2, <1>5 DEF Service
  <2>2. managed' = l /\ l \in [as : {"user", "pkexec"}, dir : {svc.install_path}]
    BY <1>5, <2>1 DEF managed
  <2>3. svc.install_path \in complete
    BY <1>1 DEF installed, complete, Service
  <2> QED
    BY <1>1, <2>1, <2>2, <2>3, PageShown DEF Page, Tool!Start
<1> QED
  BY <1>2, <1>4, <1>5 DEF try_launch, c

LEMMA LaunchTool ==
  ASSUME Good(svc, disk, temp), NEW elevate \in BOOLEAN, launch(elevate)
  PROVE  ToolStep
<1>1. svc \in Service /\ UNCHANGED <<disk, complete>>
  BY CompleteKept DEF Good, Core, launch
<1>2. CASE svc' = svc
  BY <1>1, <1>2, PageUntouched
<1>3. CASE svc' = set_error(svc)
  BY <1>1, <1>3, SetErrorTool DEF ToolStep, Tool!Next
<1>4. CASE ~running(svc) /\ installed(svc, disk) /\ svc' \in try_launch(svc, elevate)
  BY <1>1, <1>4, TryLaunchTool DEF ToolStep, Tool!Next
<1> QED
  BY <1>2, <1>3, <1>4 DEF launch, launch_process

LEMMA PkexecGrantedTool ==
  ASSUME Good(svc, disk, temp), pkexec_granted
  PROVE  Tool!Authenticate
<1>1. PICK p \in Procs :
        /\ svc.live[p] # None
        /\ svc.live[p].as = "pkexec"
        /\ svc' = [svc EXCEPT !.live[p].as = "root"]
        /\ UNCHANGED <<disk, temp>>
  BY DEF pkexec_granted
<1> DEFINE l == [svc.live[p] EXCEPT !.as = "root"]
<1>2. svc \in Service /\ svc.process = p
  BY <1>1 DEF Good, Core
<1>3. svc.live[p] \in Launched
  BY <1>1, <1>2 DEF Service
<1>4. l = [as |-> "root", dir |-> svc.live[p].dir]
  BY <1>3 DEF Launched
<1>5. svc' = [svc EXCEPT !.live[p] = l]
  BY <1>1
<1> HIDE DEF l
<1>6. /\ svc'.live[p] = l /\ svc'.process = p
      /\ svc'.fetching = svc.fetching /\ svc'.download_reply = svc.download_reply
      /\ svc'.install_path = svc.install_path
      /\ svc'.state = svc.state
  BY <1>2, <1>5 DEF Service
<1>7. managed = svc.live[p] /\ managed' = l
  BY <1>2, <1>6 DEF managed
<1> QED
  BY <1>1, <1>4, <1>6, <1>7, CompleteKept, PageShown DEF Tool!Authenticate

LEMMA InitServiceTool == InitService => Tool!Init
<1> SUFFICES ASSUME InitService PROVE Tool!Init
  OBVIOUS
<1> USE ServiceAssumption
<1>1. PICK path \in Paths :
       svc = detect_install(
               [state |-> "NotInstalled", has_error |-> FALSE,
                process |-> None, live |-> [p \in Procs |-> None],
                launch_elevated |-> FALSE, fetching |-> FALSE,
                download_reply |-> FALSE, install_path |-> path], disk)
  BY DEF InitService
<1>2. /\ svc.install_path = path /\ svc.process = None
      /\ svc.fetching = FALSE /\ svc.download_reply = FALSE
      /\ svc.state = IF \A f \in Required : disk[path][f] # "absent"
                     THEN "Ready" ELSE "NotInstalled"
  BY <1>1 DEF detect_install, set_state, installed
<1>3. managed = None
  BY <1>2 DEF managed
<1>4. path \in complete <=> \A f \in Required : disk[path][f] # "absent"
  BY DEF complete
<1>5. complete \in SUBSET Paths
  BY DEF complete
<1> QED
  BY <1>2, <1>3, <1>4, <1>5, PageShown DEF Page, Tool!Init, Tool!Located

-----------------------------------------------------------------------------
(* What follows for whoever keeps the promises of ManagedTool *)

ToolInv ==
  /\ Tool!Honest
  /\ svc.install_path \in Paths
  /\ managed \in Launched \cup {None}

LEMMA ToolInvInit == Tool!Init => ToolInv
BY DEF Tool!Init, Tool!Located, ToolInv, Tool!Honest

LEMMA ToolInvStep == ToolInv /\ [Tool!Next]_(Tool!vars) => ToolInv'
<1> SUFFICES ASSUME ToolInv, [Tool!Next]_(Tool!vars) PROVE ToolInv'
  OBVIOUS
<1> USE ServiceAssumption DEF ToolInv, Tool!Honest
<1>1. CASE Tool!Fetch \/ Tool!Download \/ Tool!DownloadFails
  BY <1>1 DEF Tool!Fetch, Tool!Download, Tool!DownloadFails
<1>2. CASE Tool!Fetched
  BY <1>2 DEF Tool!Fetched
<1>3. CASE Tool!Downloaded \/ Tool!Edit
  BY <1>3 DEF Tool!Downloaded, Tool!Edit
<1>4. CASE Tool!Start
  BY <1>4 DEF Tool!Start, Launched
<1>5. CASE Tool!Authenticate
  <2>1. managed' \in Launched
    BY <1>5 DEF Tool!Authenticate, Launched
  <2> QED
    BY <1>5, <2>1 DEF Tool!Authenticate
<1>6. CASE Tool!Fail \/ Tool!End
  BY <1>6 DEF Tool!Fail, Tool!End
<1>7. CASE Tool!Move \/ Tool!Uninstall
  BY <1>7 DEF Tool!Move, Tool!Uninstall, Tool!Located, Tool!Stopped
<1>8. CASE UNCHANGED Tool!vars
  BY <1>8 DEF Tool!vars
<1> QED
  BY <1>1, <1>2, <1>3, <1>4, <1>5, <1>6, <1>7, <1>8 DEF Tool!Next

\* Whatever behaves like ManagedTool has an honest page: Running comes with a
\* process, Ready with a complete tool, Busy with something that is under way.
\* The subclasses need only show that they behave like it.
THEOREM ToolIsHonest == Tool!Init /\ [][Tool!Next]_(Tool!vars) => []Tool!Honest
<1>1. ToolInv => Tool!Honest
  BY DEF ToolInv
<1> QED
  BY <1>1, ToolInvInit, ToolInvStep, PTL
=============================================================================

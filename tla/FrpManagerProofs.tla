-------------------------- MODULE FrpManagerProofs --------------------------
(***************************************************************************)
(* What holds of FrpManager for any set of install directories and process *)
(* identities.  The inductive invariant is the base class's Good together  *)
(* with the editor's own part; neither needs the other except that a       *)
(* reinstallation that ends in Ready has just reloaded frpc.toml.  Under it *)
(* each step is one of ManagedTool.                                        *)
(***************************************************************************)
EXTENDS FrpManager, BinaryServiceProofs

\* frpc.toml of a directory, as install_binaries_impl treats it.
LEMMA OutcomesOfFrp ==
  ASSUME NEW files \in [Files -> Contents]
  PROVE  /\ OutcomesOK(install_outcomes(files))
         /\ \A o \in install_outcomes(files) :
              /\ files["frpc.toml"] # "absent"
                   => o.files["frpc.toml"] = files["frpc.toml"]
              /\ ~o.ok => o.files["frpc.toml"] = files["frpc.toml"]
<1> USE FrpFiles
<1> SUFFICES ASSUME NEW o \in install_outcomes(files)
             PROVE  /\ o.files \in [Files -> Contents]
                    /\ o.temp = {}
                    /\ o.ok \in BOOLEAN
                    /\ o.ok => \A f \in Required : o.files[f] # "absent"
                    /\ files["frpc.toml"] # "absent"
                         => o.files["frpc.toml"] = files["frpc.toml"]
                    /\ ~o.ok => o.files["frpc.toml"] = files["frpc.toml"]
  BY DEF OutcomesOK
<1>1. files["frpc.toml"] \in Contents
  OBVIOUS
<1>2. CASE o = [files |-> files, temp |-> {}, ok |-> FALSE]
  BY <1>2
<1>3. CASE o = [files |-> [files EXCEPT !["frpc"] = "absent"],
                temp |-> {}, ok |-> FALSE]
  BY <1>3 DEF Contents
<1>4. ASSUME NEW t \in Contents,
             files["frpc.toml"] # "absent" => t = files["frpc.toml"],
             o = [files |-> [files EXCEPT !["frpc"] = "shipped",
                                          !["frpc.toml"] = t],
                  temp |-> {}, ok |-> t # "absent"]
      PROVE  /\ o.files \in [Files -> Contents]
             /\ o.temp = {}
             /\ o.ok \in BOOLEAN
             /\ o.ok => \A f \in Required : o.files[f] # "absent"
             /\ files["frpc.toml"] # "absent"
                  => o.files["frpc.toml"] = files["frpc.toml"]
             /\ ~o.ok => o.files["frpc.toml"] = files["frpc.toml"]
  BY <1>4 DEF Contents
<1> QED
  BY <1>1, <1>2, <1>3, <1>4 DEF install_outcomes, Contents

-----------------------------------------------------------------------------
(* The inductive invariant *)

FrpInv == Good(svc, disk, temp) /\ TomlInSync

LEMMA FrpInit == Init => FrpInv
BY InitServiceGood DEF Init, FrpInv, TomlInSync

\* Nothing is to be shown about the editor while the file it shows stays.
LEMMA TomlUntouched ==
  ASSUME TomlInSync, SameFiles, UNCHANGED frpc_toml
  PROVE  TomlInSync'
BY DEF TomlInSync, SameFiles, load_toml

LEMMA SaveTomlGood ==
  ASSUME FrpInv, SaveToml
  PROVE  FrpInv'
<1> USE FrpFiles
<1>1. CASE svc' = set_error(svc) /\ UNCHANGED <<disk, temp, frpc_toml>>
  <2>1. Good(svc', disk, temp) /\ svc'.install_path = svc.install_path
    BY <1>1, SetErrorGood, SetErrorCore DEF FrpInv, Good
  <2> QED
    BY <1>1, <2>1, GoodPrimed, TomlUntouched DEF FrpInv, SameFiles
<1>2. CASE /\ disk' = [disk EXCEPT
                   ![svc.install_path] = [@ EXCEPT !["frpc.toml"] = "edited"]]
           /\ frpc_toml' = "edited"
           /\ UNCHANGED <<svc, temp>>
  <2>1. svc \in Service /\ disk \in Disk
    BY DEF FrpInv, Good, Core
  <2>2. svc.install_path \in Paths /\ disk[svc.install_path] \in [Files -> Contents]
    BY <2>1 DEF Service, Disk
  <2> DEFINE fs == [disk[svc.install_path] EXCEPT !["frpc.toml"] = "edited"]
  <2>3. /\ fs \in [Files -> Contents]
        /\ fs["frpc.toml"] = "edited"
        /\ fs["frpc"] = disk[svc.install_path]["frpc"]
    BY <2>2 DEF Contents
  <2>4. disk' = [disk EXCEPT ![svc.install_path] = fs]
    BY <1>2
  <2> HIDE DEF fs
  <2>5. disk' \in Disk /\ disk'[svc.install_path] = fs
    BY <2>1, <2>2, <2>3, <2>4 DEF Disk
  <2>6. installed(svc, disk) => installed(svc, disk')
    BY <2>3, <2>5 DEF installed
  <2>7. Good(svc', disk', temp')
    BY <1>2, <2>5, <2>6 DEF FrpInv, Good, Core, Driven, Clean, running, installed
  <2>8. TomlInSync'
    BY <1>2, <2>3, <2>5 DEF TomlInSync, load_toml
  <2> QED
    BY <2>7, <2>8 DEF FrpInv
<1> QED
  BY <1>1, <1>2 DEF SaveToml

LEMMA DownloadFinishedGood ==
  ASSUME FrpInv, DownloadFinished
  PROVE  FrpInv'
<1> USE FrpFiles
<1> DEFINE here == disk[svc.install_path]
<1>1. here \in [Files -> Contents] /\ disk \in Disk /\ svc.install_path \in Paths
  BY DEF FrpInv, Good, Core, Service, Disk
<1>2. on_download_finished(install_outcomes(here))
  BY DEF DownloadFinished
<1>3. Good(svc, disk, temp)'
  BY <1>1, <1>2, OutcomesOfFrp, OnDownloadFinishedGood DEF FrpInv
<1>4. CASE svc'.state = "Ready"
  BY <1>3, <1>4 DEF FrpInv, DownloadFinished, TomlInSync
<1>5. CASE svc'.state # "Ready"
  <2>1. svc'.install_path = svc.install_path /\ frpc_toml' = frpc_toml
    BY <1>2, <1>5, DownloadEffect DEF FrpInv, DownloadFinished
  <2>2. disk'[svc.install_path]["frpc.toml"] = here["frpc.toml"]
    <3>1. CASE UNCHANGED disk
      BY <3>1
    <3>2. CASE \E o \in install_outcomes(here) :
                 /\ disk' = [disk EXCEPT ![svc.install_path] = o.files]
                 /\ svc'.state = IF o.ok THEN "Ready" ELSE "Error"
      <4>1. PICK o \in install_outcomes(here) :
                 /\ disk' = [disk EXCEPT ![svc.install_path] = o.files]
                 /\ svc'.state = IF o.ok THEN "Ready" ELSE "Error"
        BY <3>2
      <4>2. o.files["frpc.toml"] = here["frpc.toml"]
        BY <1>1, <1>5, <4>1, OutcomesOfFrp
      <4>3. disk'[svc.install_path] = o.files
        BY <1>1, <4>1 DEF Disk
      <4> QED
        BY <4>2, <4>3
    <3> QED
      BY <1>2, <3>1, <3>2, DownloadEffect DEF FrpInv
  <2> QED
    BY <1>3, <2>1, <2>2 DEF FrpInv, TomlInSync, load_toml
<1> QED
  BY <1>4, <1>5

LEMMA FrpNext == FrpInv /\ [Next]_vars => FrpInv'
<1> SUFFICES ASSUME FrpInv, [Next]_vars PROVE FrpInv'
  OBVIOUS
<1> USE DEF FrpInv
<1>1. CASE CheckAndInstall
  BY <1>1, CheckAndInstallGood, TomlUntouched DEF CheckAndInstall
<1>2. CASE ReleaseFetched
  BY <1>2, OnReleaseFetchedGood, TomlUntouched DEF ReleaseFetched
<1>3. CASE InstallFromUrl
  BY <1>3, InstallFromUrlGood, TomlUntouched DEF InstallFromUrl
<1>4. CASE DownloadFinished
  BY <1>4, DownloadFinishedGood
<1>5. CASE SetInstallPath
  <2>1. disk' = disk
    BY <1>5 DEF SetInstallPath, set_install_path
  <2> QED
    BY <1>5, <2>1, SetInstallPathGood DEF SetInstallPath, TomlInSync
<1>6. CASE ResetInstall
  <2>1. disk'[svc'.install_path]["frpc.toml"] = "absent"
    BY <1>6, ResetInstallEffect, FrpFiles DEF ResetInstall, Good, Core, Disk, Service
  <2> QED
    BY <1>6, <2>1, ResetInstallGood DEF ResetInstall, TomlInSync, load_toml
<1>7. CASE SaveToml
  BY <1>7, SaveTomlGood
<1>8. CASE Start
  BY <1>8, LaunchGood, TomlUntouched DEF Start
<1>9. CASE Stop
  BY <1>9, StopGood, TomlUntouched DEF Stop
<1>10. CASE ProcessExits
  BY <1>10, ProcessExitsGood, TomlUntouched DEF ProcessExits
<1>11. CASE UNCHANGED vars
  BY <1>11, GoodPrimed DEF vars, TomlInSync, load_toml
<1> QED
  BY <1>1, <1>2, <1>3, <1>4, <1>5, <1>6, <1>7, <1>8, <1>9, <1>10, <1>11 DEF Next

LEMMA FrpAlways == Spec => []FrpInv
BY FrpInit, FrpNext, PTL DEF Spec

-----------------------------------------------------------------------------
(* Theorems *)

\* Every variable of FrpManager keeps its type.
THEOREM FrpTypeOK == Spec => []TypeOK
<1>1. FrpInv => TypeOK
  BY GoodIsInv, FrpFiles DEF FrpInv, TypeOK, TomlInSync, load_toml, Good, Core,
     Disk, Service
<1> QED
  BY <1>1, FrpAlways, PTL

\* Busy states are driven, temp files cleaned up, processes tracked and errors
\* reported, whatever directories are chosen and however often frpc starts.
THEOREM FrpService == Spec => []ServiceInv
<1>1. FrpInv => ServiceInv
  BY GoodIsInv DEF FrpInv
<1> QED
  BY <1>1, FrpAlways, PTL

\* A service that shows Checking, Downloading or Extracting always has something
\* under way that ends it, even after the directory was changed meanwhile.
THEOREM FrpBusyHasDriver == Spec => []BusyHasDriver
BY FrpService, PTL DEF ServiceInv

\* No archive and no extraction directory is left behind by any of the ways an
\* installation ends.
THEOREM FrpTempClean == Spec => []TempClean
BY FrpService, PTL DEF ServiceInv

\* Ready is only shown for a directory that holds the program, also after a
\* failed copy, a path change or an exit.
THEOREM FrpReadyMeansInstalled == Spec => []ReadyMeansInstalled
BY FrpService, PTL DEF ServiceInv

\* Running is only shown while the managed process is alive.
THEOREM FrpRunningIsLive == Spec => []RunningIsLive
BY FrpService, PTL DEF ServiceInv

\* Every process the service has started and that still lives is the managed one.
THEOREM FrpNoOrphanProcess == Spec => []NoOrphanProcess
BY FrpService, PTL DEF ServiceInv

\* The Error state always comes with its flag, whatever order a killed process
\* raises its signals in.
THEOREM FrpErrorIsReported == Spec => []ErrorIsReported
BY FrpService, PTL DEF ServiceInv

\* The frpc.toml editor always shows the file saving it would overwrite.
THEOREM FrpTomlInSync == Spec => []TomlInSync
<1>1. FrpInv => TomlInSync
  BY DEF FrpInv
<1> QED
  BY <1>1, FrpAlways, PTL

\* One directory's configuration, over one step.
TomlKept(d) ==
  disk[d]["frpc.toml"] = "edited" =>
    \/ disk'[d]["frpc.toml"] = "edited"
    \/ svc'.state = "NotInstalled" /\ disk'[d]["frpc"] = "absent"

LEMMA TomlKeptByDownload ==
  ASSUME FrpInv, DownloadFinished, NEW d \in Paths
  PROVE  TomlKept(d)
<1> DEFINE here == disk[svc.install_path]
<1>1. here \in [Files -> Contents] /\ disk \in Disk /\ svc.install_path \in Paths
  BY DEF FrpInv, Good, Core, Service, Disk
<1>2. CASE UNCHANGED disk
  BY <1>2 DEF TomlKept
<1>3. CASE \E o \in install_outcomes(here) :
             disk' = [disk EXCEPT ![svc.install_path] = o.files]
  <2>1. PICK o \in install_outcomes(here) :
          disk' = [disk EXCEPT ![svc.install_path] = o.files]
    BY <1>3
  <2>2. here["frpc.toml"] = "edited" => o.files["frpc.toml"] = "edited"
    BY <1>1, OutcomesOfFrp
  <2> QED
    BY <1>1, <2>1, <2>2 DEF TomlKept, Disk
<1> QED
  BY <1>2, <1>3, DownloadEffect DEF FrpInv, DownloadFinished

LEMMA TomlKeptBySave ==
  ASSUME FrpInv, SaveToml, NEW d \in Paths
  PROVE  TomlKept(d)
<1>1. disk \in [Paths -> [Files -> Contents]] /\ svc.install_path \in Paths
  BY DEF FrpInv, Good, Core, Service, Disk
<1>2. CASE UNCHANGED disk
  BY <1>2 DEF TomlKept
<1>3. CASE disk' = [disk EXCEPT
                  ![svc.install_path] = [@ EXCEPT !["frpc.toml"] = "edited"]]
  BY <1>1, <1>3, FrpFiles DEF TomlKept
<1> QED
  BY <1>2, <1>3 DEF SaveToml

\* A configuration the user saved survives reinstallations, path changes and
\* failed installations; only an uninstallation removes it.
THEOREM FrpTomlPreserved == Spec => TomlPreserved
<1>1. ASSUME FrpInv, [Next]_vars, NEW d \in Paths
      PROVE  TomlKept(d)
  <2>1. CASE UNCHANGED disk
    BY <2>1 DEF TomlKept
  <2>2. CASE DownloadFinished
    BY <1>1, <2>2, TomlKeptByDownload
  <2>3. CASE SaveToml
    BY <1>1, <2>3, TomlKeptBySave
  <2>4. CASE ResetInstall
    BY <1>1, <2>4, ResetInstallEffect, FrpFiles DEF FrpInv, Good, Core, Disk, Service,
       ResetInstall, TomlKept
  <2>5. CASE UNCHANGED vars
    BY <2>1, <2>5 DEF vars
  <2> QED
    BY <1>1, <2>1, <2>2, <2>3, <2>4, <2>5 DEF Next, CheckAndInstall, ReleaseFetched,
       InstallFromUrl, SetInstallPath, Start, Stop, ProcessExits, check_and_install,
       on_release_fetched, install_from_url, set_install_path, launch, stop,
       process_exits
<1>2. FrpInv /\ [Next]_vars =>
        [\A d \in Paths :
           disk[d]["frpc.toml"] = "edited" =>
             \/ disk'[d]["frpc.toml"] = "edited"
             \/ svc'.state = "NotInstalled" /\ disk'[d]["frpc"] = "absent"]_vars
  BY <1>1 DEF TomlKept
<1> QED
  BY <1>2, FrpAlways, PTL DEF Spec, TomlPreserved

-----------------------------------------------------------------------------
(* The promises of the page *)

\* Saving frpc.toml can make a tool complete that lacked nothing else.
LEMMA SaveTomlTool ==
  ASSUME FrpInv, SaveToml
  PROVE  ToolStep
<1> USE FrpFiles
<1> DEFINE here == svc.install_path
<1>1. svc \in Service /\ disk \in [Paths -> [Files -> Contents]] /\ here \in Paths
  BY DEF FrpInv, Good, Core, Service, Disk
<1>2. CASE svc' = set_error(svc) /\ UNCHANGED disk
  BY <1>1, <1>2, SetErrorTool DEF ToolStep, Tool!Next
<1>3. CASE /\ disk' = [disk EXCEPT ![here] = [@ EXCEPT !["frpc.toml"] = "edited"]]
           /\ UNCHANGED svc
  <2> DEFINE fs == [disk[here] EXCEPT !["frpc.toml"] = "edited"]
  <2>1. /\ fs \in [Files -> Contents]
        /\ fs["frpc.toml"] # "absent"
        /\ fs["frpc"] = disk[here]["frpc"]
    BY <1>1 DEF Contents
  <2>2. disk' = [disk EXCEPT ![here] = fs]
    BY <1>3
  <2> HIDE DEF fs
  <2>3. complete' = IF \A f \in Required : fs[f] # "absent" THEN complete \cup {here}
                    ELSE complete \ {here}
    BY <1>1, <2>1, <2>2, CompleteThere DEF Disk
  <2>4. here \in complete => \A f \in Required : fs[f] # "absent"
    BY <2>1 DEF complete
  <2>5. complete' \in {complete, complete \cup {here}}
    BY <2>3, <2>4
  <2>6. CASE complete' = complete
    BY <1>3, <2>6, PageUntouched
  <2>7. CASE complete' = complete \cup {here}
    <3>1. Tool!Edit
      BY <1>3, <2>7 DEF Tool!Edit, shown, busy, managed
    <3> QED
      BY <3>1 DEF ToolStep, Tool!Next
  <2> QED
    BY <2>5, <2>6, <2>7
<1> QED
  BY <1>2, <1>3 DEF SaveToml

LEMMA FrpToolStep == FrpInv /\ [Next]_vars => ToolStep
<1> SUFFICES ASSUME FrpInv, [Next]_vars PROVE ToolStep
  OBVIOUS
<1>1. Good(svc, disk, temp)
  BY DEF FrpInv
<1>2. CASE CheckAndInstall \/ InstallFromUrl
  BY <1>1, <1>2, CheckAndInstallTool, InstallFromUrlTool DEF CheckAndInstall, InstallFromUrl
<1>3. CASE ReleaseFetched \/ DownloadFinished
  <2>1. disk[svc.install_path] \in [Files -> Contents]
    BY <1>1 DEF Good, Core, Service, Disk
  <2>2. Tool!Fetched \/ Tool!Downloaded
    BY <1>1, <1>3, <2>1, OnReleaseFetchedTool, OnDownloadFinishedTool, OutcomesOfFrp
    DEF ReleaseFetched, DownloadFinished
  <2> QED
    BY <2>2 DEF ToolStep, Tool!Next
<1>4. CASE SetInstallPath \/ ResetInstall \/ ProcessExits
  <2>1. Tool!Move \/ Tool!Uninstall \/ Tool!End
    BY <1>1, <1>4, SetInstallPathTool, ResetInstallTool, ProcessExitsTool, FrpFiles
    DEF SetInstallPath, ResetInstall, ProcessExits
  <2> QED
    BY <2>1 DEF ToolStep, Tool!Next
<1>5. CASE SaveToml
  BY <1>5, SaveTomlTool
<1>6. CASE Start \/ Stop
  BY <1>1, <1>6, LaunchTool, StopTool DEF Start, Stop
<1>7. CASE UNCHANGED vars
  BY <1>7, PageUntouched, CompleteKept DEF vars
<1> QED
  BY <1>2, <1>3, <1>4, <1>5, <1>6, <1>7 DEF Next

\* Every step of FrpManager is a step of ManagedTool or a stutter: the safety
\* half of ImplementsManagedTool.
THEOREM FrpRefinesTool == Spec => Tool!Init /\ [][Tool!Next]_(Tool!vars)
<1>1. Init => Tool!Init
  BY InitServiceTool DEF Init
<1>2. FrpInv /\ [Next]_vars => [Tool!Next]_(Tool!vars)
  BY FrpToolStep DEF ToolStep
<1> QED
  BY <1>1, <1>2, FrpAlways, PTL DEF Spec
=============================================================================

----------------------------- MODULE FrpManager -----------------------------
(***************************************************************************)
(* FrpManager: the frpc client as a BinaryService.  frpc runs with the     *)
(* user's rights and reads frpc.toml, which the user edits in the launcher *)
(* and which a reinstallation must not touch.                              *)
(***************************************************************************)
EXTENDS BinaryService

ASSUME FrpFiles ==
  /\ Files = {"frpc", "frpc.toml"}
  /\ Required = {"frpc", "frpc.toml"}

VARIABLE frpc_toml  \* m_frpc_toml: what the editor shows, "absent" when empty

vars == <<svc, disk, temp, frpc_toml>>

\* Mutation: an archive's frpc.toml always replaces the one that is there.
install_outcomes_overwriting(files) ==
  {[files |-> [f \in Files |-> "shipped"], temp |-> {}, ok |-> TRUE]}

\* What install_binaries_impl can leave behind in a directory that holds
\* files, for an archive with or without each file, and a copy that may fail.
install_outcomes(files) ==
  LET noBinary == [files |-> files, temp |-> {}, ok |-> FALSE]
      copyFails == [files |-> [files EXCEPT !["frpc"] = "absent"],
                    temp |-> {}, ok |-> FALSE]
      seeds == IF files["frpc.toml"] = "absent" THEN {"absent", "shipped"}
               ELSE {files["frpc.toml"]}
      copied(toml) == [files EXCEPT !["frpc"] = "shipped",
                                    !["frpc.toml"] = toml]
  IN  {noBinary, copyFails} \cup
      {[files |-> copied(t), temp |-> {}, ok |-> t # "absent"] : t \in seeds}

\* Mutation: without a file the text of the last one is shown.
load_toml_leftover(s, d) ==
  IF d[s.install_path]["frpc.toml"] = "absent" THEN "leftover"
  ELSE d[s.install_path]["frpc.toml"]

load_toml(s, d) == d[s.install_path]["frpc.toml"]

Init == InitService /\ frpc_toml = load_toml(svc, disk)

CheckAndInstall == check_and_install /\ UNCHANGED frpc_toml

ReleaseFetched == on_release_fetched /\ UNCHANGED frpc_toml

InstallFromUrl == install_from_url /\ UNCHANGED frpc_toml

DownloadFinished ==
  /\ on_download_finished(install_outcomes(disk[svc.install_path]))
  /\ frpc_toml' = IF svc'.state = "Ready" THEN load_toml(svc', disk')
                  ELSE frpc_toml

\* Mutation: the editor keeps the old directory's file.
SetInstallPath_stale == set_install_path /\ UNCHANGED frpc_toml

\* detect_install() ends in on_detect_install().
SetInstallPath ==
  /\ set_install_path
  /\ frpc_toml' = load_toml(svc', disk)

\* reset_install_extra() empties the editor.
ResetInstall == reset_install /\ frpc_toml' = "absent"

Start == launch(FALSE) /\ UNCHANGED frpc_toml

Stop == stop /\ UNCHANGED frpc_toml

ProcessExits == process_exits /\ UNCHANGED frpc_toml

SaveToml ==
  \/ /\ svc' = set_error(svc)              \* cannot write frpc.toml
     /\ UNCHANGED <<disk, temp, frpc_toml>>
  \/ /\ disk' = [disk EXCEPT
                   ![svc.install_path] = [@ EXCEPT !["frpc.toml"] = "edited"]]
     /\ frpc_toml' = "edited"
     /\ UNCHANGED <<svc, temp>>

Next ==
  \/ CheckAndInstall \/ ReleaseFetched \/ InstallFromUrl \/ DownloadFinished
  \/ SetInstallPath \/ ResetInstall \/ SaveToml
  \/ Start \/ Stop \/ ProcessExits

Spec == Init /\ [][Next]_vars

\* Requests that were sent are answered, with data or with an error.  The user
\* and the process owe nobody a step.
Fairness == WF_vars(ReleaseFetched) /\ WF_vars(DownloadFinished)

FairSpec == Spec /\ Fairness

-----------------------------------------------------------------------------

TypeOK == ServiceTypeOK /\ frpc_toml \in Contents

\* The editor shows the frpc.toml of the current directory, so that saving it
\* never writes one directory's configuration over another's.
TomlInSync == frpc_toml = load_toml(svc, disk)

\* "Only seed frpc.toml on first install; preserve user config on reinstall."
\* A configuration the user saved only goes away with an uninstallation.
TomlPreserved ==
  [][\A d \in Paths :
       disk[d]["frpc.toml"] = "edited" =>
         \/ disk'[d]["frpc.toml"] = "edited"
         \/ svc'.state = "NotInstalled" /\ disk'[d]["frpc"] = "absent"]_vars

\* The page keeps the promises of ManagedTool: requests, path changes, edits and
\* exits in any order never show a tool that is not there or a process that does
\* not run, start a second one, or leave the page busy for good.
ImplementsManagedTool == Tool!Spec
=============================================================================

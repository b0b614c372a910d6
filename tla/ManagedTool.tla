----------------------------- MODULE ManagedTool -----------------------------
(***************************************************************************)
(* What the page of a downloaded tool promises: one process at a time,     *)
(* started only from the chosen directory while the tool is complete       *)
(* there; a page that says Running only while that process lives, Ready    *)
(* only where the tool is, and Busy only while an answer will change that. *)
(* An installation fills the chosen directory and no other.  A process of  *)
(* the user's ends before the directory changes; one of root's outlives    *)
(* that, and only root or itself ends it.                                  *)
(***************************************************************************)
CONSTANTS
  Paths,
  None   \* no process

VARIABLES
  shown,        \* "NotInstalled", "Ready", "Running", "Busy" or "Error"
  dir,          \* the chosen directory
  complete,     \* the directories that hold the whole tool
  fetching,     \* a release is being asked for
  downloading,  \* an archive is on its way
  process       \* whose rights it has, and the directory it was started from

vars == <<shown, dir, complete, fetching, downloading, process>>

Located(d, directories) == IF d \in directories THEN "Ready" ELSE "NotInstalled"

Init ==
  /\ dir \in Paths
  /\ complete \in SUBSET Paths
  /\ shown = Located(dir, complete)
  /\ fetching = FALSE /\ downloading = FALSE
  /\ process = None

-----------------------------------------------------------------------------
(* Installing *)

Fetch ==
  /\ shown # "Busy" /\ process = None
  /\ shown' = "Busy" /\ fetching' = TRUE
  /\ UNCHANGED <<dir, complete, downloading, process>>

\* With an address, or a release that was known; a request for one is dropped.
Download ==
  /\ shown # "Busy" /\ process = None
  /\ shown' = "Busy" /\ downloading' = TRUE
  /\ fetching' \in {fetching, FALSE}
  /\ UNCHANGED <<dir, complete, process>>

DownloadFails ==
  /\ shown # "Busy" /\ process = None
  /\ shown' = "Error" /\ fetching' = FALSE
  /\ UNCHANGED <<dir, complete, downloading, process>>

Fetched ==
  /\ fetching /\ fetching' = FALSE
  /\ \/ downloading /\ UNCHANGED <<shown, downloading>>
     \/ ~downloading /\ shown' = "Busy" /\ downloading' = TRUE
     \/ shown' = "Error" /\ UNCHANGED downloading
  /\ UNCHANGED <<dir, complete, process>>

\* An installation that fails half way may break the tool, or just complete it.
Downloaded ==
  /\ downloading /\ downloading' = FALSE
  /\ \/ shown' = "Ready" /\ complete' = complete \cup {dir}
     \/ shown' = "Error" /\ complete' \in {complete, complete \cup {dir}, complete \ {dir}}
  /\ UNCHANGED <<dir, fetching, process>>

\* The user writes a file of the tool.
Edit ==
  /\ complete' = complete \cup {dir}
  /\ UNCHANGED <<shown, dir, fetching, downloading, process>>

-----------------------------------------------------------------------------
(* The process *)

Start ==
  /\ process = None /\ dir \in complete
  /\ process' \in [as : {"user", "pkexec"}, dir : {dir}]
  /\ shown' = "Running"
  /\ UNCHANGED <<dir, complete, fetching, downloading>>

\* Something else fails; nothing has happened.
Fail ==
  /\ shown' = "Error"
  /\ UNCHANGED <<dir, complete, fetching, downloading, process>>

Authenticate ==
  /\ process # None /\ process.as = "pkexec"
  /\ process' = [as |-> "root", dir |-> process.dir]
  /\ UNCHANGED <<shown, dir, complete, fetching, downloading>>

\* On its own, stopped or killed; a crash shows.
End ==
  /\ process # None /\ process' = None
  /\ shown' \in {"Error", IF shown = "Running" THEN "Ready" ELSE shown}
  /\ UNCHANGED <<dir, complete, fetching, downloading>>

Stopped ==
  IF process # None /\ process.as = "root" THEN UNCHANGED process ELSE process' = None

Move ==
  /\ dir' \in Paths \ {dir}
  /\ Stopped
  /\ shown' = Located(dir', complete)
  /\ UNCHANGED <<complete, fetching, downloading>>

Uninstall ==
  /\ Stopped
  /\ complete' = complete \ {dir}
  /\ shown' = "NotInstalled"
  /\ UNCHANGED <<dir, fetching, downloading>>

Next ==
  \/ Fetch \/ Download \/ DownloadFails \/ Fetched \/ Downloaded \/ Edit
  \/ Start \/ Fail \/ Authenticate \/ End
  \/ Move \/ Uninstall

Spec == Init /\ [][Next]_vars /\ WF_vars(Fetched) /\ WF_vars(Downloaded)

-----------------------------------------------------------------------------

\* The page tells the truth: there is a process when it says Running, the tool is
\* complete when it says Ready, and something is under way when it says Busy.
Honest ==
  /\ shown = "Running" => process # None
  /\ shown \in {"Ready", "Running"} => dir \in complete
  /\ shown = "Busy" => fetching \/ downloading
=============================================================================

---------------------------- MODULE DownloadJob ----------------------------
(***************************************************************************)
(* What a user of FileDownloader is promised: one job at a time, which     *)
(* ends once, and a product (the installed game, the started installer)    *)
(* that no refused, failed or cancelled transfer ever touches.  A job the  *)
(* user cancels can no longer succeed, however late the cancellation.      *)
(***************************************************************************)
CONSTANT Products

VARIABLES
  job,        \* "idle", "running", or "stopping" once the user cancelled
  succeeded,  \* the last job was completed
  product

vars == <<job, succeeded, product>>

Init == job = "idle" /\ succeeded = FALSE /\ product \in Products

Begin == job = "idle" /\ job' = "running" /\ succeeded' = FALSE /\ UNCHANGED product

\* No address, or no place to store the file.
Refuse == job = "idle" /\ succeeded' = FALSE /\ UNCHANGED <<job, product>>

Cancel == job = "running" /\ job' = "stopping" /\ UNCHANGED <<succeeded, product>>

\* The transfer fails or has been cancelled.
Abandon == job # "idle" /\ job' = "idle" /\ UNCHANGED <<succeeded, product>>

\* The transfer is complete and is turned into the product; failing half way
\* may damage it.
Complete ==
  /\ job = "running"
  /\ job' = "idle"
  /\ succeeded' \in BOOLEAN
  /\ product' \in Products

Next == Begin \/ Refuse \/ Cancel \/ Abandon \/ Complete

Spec == Init /\ [][Next]_vars /\ WF_vars(Abandon \/ Complete)
=============================================================================

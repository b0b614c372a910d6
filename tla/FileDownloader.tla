--------------------------- MODULE FileDownloader ---------------------------
(***************************************************************************)
(* FileDownloader: the download state machine GameUpdate and               *)
(* LauncherUpdate share.  The object is the record dl; its methods are     *)
(* operators on that record, so that a user's handler (which calls several *)
(* of them within one event) stays one atomic step.                        *)
(***************************************************************************)
VARIABLES
  dl,      \* the FileDownloader object
  archive  \* the file at m_save_path

Downloader ==
  [downloading : BOOLEAN,   \* m_downloading
   cancelling  : BOOLEAN,   \* m_cancelling
   finished    : BOOLEAN,   \* m_finished
   has_error   : BOOLEAN,   \* m_has_error
   reply       : BOOLEAN]   \* m_reply

DownloaderTypeOK == dl \in Downloader /\ archive \in {"absent", "partial", "complete"}

begin_run(d) == [d EXCEPT !.downloading = TRUE, !.cancelling = FALSE,
                          !.finished = FALSE, !.has_error = FALSE]

end_run(d) == [d EXCEPT !.downloading = FALSE]

set_error_state(d) == [d EXCEPT !.has_error = TRUE]

clear_error_state(d) == [d EXCEPT !.has_error = FALSE]

mark_succeeded(d) ==
  IF d.downloading THEN end_run([d EXCEPT !.finished = TRUE]) ELSE d

report_error(d) == IF d.downloading THEN end_run(set_error_state(d)) ELSE d

-----------------------------------------------------------------------------
(* start() and the three ways a reply ends *)

refused == UNCHANGED <<dl, archive>>

start_fails ==
  /\ dl' = end_run(set_error_state(begin_run(dl)))
  /\ UNCHANGED archive

start_succeeds ==
  /\ dl' = [begin_run(dl) EXCEPT !.reply = TRUE]
  /\ archive' = "partial"

\* on_reply_finished() after cancel(), whatever the reply brought.
reply_cancelled(d) ==
  /\ d.cancelling
  /\ dl' = end_run([d EXCEPT !.reply = FALSE, !.cancelling = FALSE])
  /\ archive' = "absent"

\* Mutation: a failed transfer leaves its file.
reply_failed_keeping(d) ==
  /\ ~d.cancelling
  /\ dl' = end_run(set_error_state([d EXCEPT !.reply = FALSE]))
  /\ UNCHANGED archive

reply_failed(d) ==
  /\ ~d.cancelling
  /\ dl' = end_run(set_error_state([d EXCEPT !.reply = FALSE]))
  /\ archive' = "absent"

\* download_complete() is emitted with this object and a complete archive: the
\* slot connected to it goes on from here, within the same event.
reply_complete(d) == [d EXCEPT !.reply = FALSE]

\* abort() emits finished() before it returns, unless the reply had already
\* finished and the event loop still holds the signal.
cancel ==
  /\ dl.downloading /\ ~dl.cancelling /\ dl.reply
  /\ LET d == [dl EXCEPT !.cancelling = TRUE]
     IN  reply_cancelled(d) \/ (dl' = d /\ UNCHANGED archive)

new_downloader ==
  [downloading |-> FALSE, cancelling |-> FALSE, finished |-> FALSE,
   has_error |-> FALSE, reply |-> FALSE]

InitDownloader == dl = new_downloader /\ archive = "absent"

-----------------------------------------------------------------------------
(* Properties *)

\* The user "must invoke mark_succeeded() or report_error() to clear the busy
\* state": between two events a downloader is busy exactly while its reply is
\* in flight, so no branch of a completion handler leaves it busy for ever.
BusyMeansTransfer ==
  /\ dl.downloading <=> dl.reply
  /\ dl.cancelling => dl.downloading

\* A cancelled or failed transfer leaves no partial file to be installed.
PartialOnlyInFlight == archive = "partial" => dl.reply

\* The refinement mapping to DownloadJob.
job ==
  IF ~dl.downloading THEN "idle"
  ELSE IF dl.cancelling THEN "stopping" ELSE "running"
=============================================================================

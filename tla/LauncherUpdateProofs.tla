------------------------ MODULE LauncherUpdateProofs ------------------------
(***************************************************************************)
(* What holds of LauncherUpdate for any number of versions, and that its   *)
(* steps are steps of DownloadJob.                                         *)
(***************************************************************************)
EXTENDS LauncherUpdate, TLAPS

\* The transfer.  A reply in flight brings some version: without this the
\* step that starts the installer could not tell that there is one.
TransferInv ==
  /\ dl \in Downloader
  /\ archive \in {"absent", "partial", "complete"}
  /\ delivers \in Versions \cup {None}
  /\ BusyMeansTransfer
  /\ dl.reply => delivers \in Versions

\* The check.  One is only under way for a launcher that knows its version:
\* without this a late answer would be compared with nothing.
CheckInv ==
  /\ {new_version, fetching} \subseteq BOOLEAN
  /\ {local_version, remote_version, latest_launcher_link} \subseteq Versions \cup {None}
  /\ fetching => local_version # None
  /\ OfferIsNewer

\* The end of the launcher.
EndInv ==
  /\ running \in BOOLEAN
  /\ installer \in Versions \cup {None}
  /\ QuitsForInstaller

LauncherInv == TransferInv /\ CheckInv /\ EndInv

LEMMA LauncherInit == Init => LauncherInv
<1> SUFFICES ASSUME Init PROVE LauncherInv
  OBVIOUS
<1>1. dl \in Downloader /\ ~dl.downloading /\ ~dl.cancelling /\ ~dl.reply
  BY DEF Init, new_downloader, set_error_state, Downloader
<1>2. local_version \in Versions \cup {None}
  BY DEF Init, parse
<1>3. TransferInv /\ EndInv
  BY <1>1 DEF Init, TransferInv, EndInv, BusyMeansTransfer,
     QuitsForInstaller
<1>4. CheckInv
  BY <1>2 DEF Init, CheckInv, OfferIsNewer
<1> QED
  BY <1>3, <1>4 DEF LauncherInv

\* What one step does, as far as DownloadJob can tell.
JobStep == [Job!Next]_(Job!vars)

-----------------------------------------------------------------------------
(* The check *)

\* A check touches nothing of the downloader but its error flag.
SameTransfer(d) ==
  /\ d \in Downloader
  /\ d.downloading = dl.downloading
  /\ d.cancelling = dl.cancelling
  /\ d.finished = dl.finished
  /\ d.reply = dl.reply

LEMMA ErrorFlagOnly ==
  ASSUME NEW d, SameTransfer(d)
  PROVE  SameTransfer(clear_error_state(d)) /\ SameTransfer(set_error_state(d))
BY DEF SameTransfer, clear_error_state, set_error_state, Downloader

\* A step of the check keeps what is not the check's.
LEMMA CheckOnly ==
  ASSUME LauncherInv, SameTransfer(dl'), CheckInv',
         UNCHANGED <<archive, delivers, installer, running>>
  PROVE  LauncherInv' /\ JobStep
BY DEF LauncherInv, TransferInv, EndInv, SameTransfer, BusyMeansTransfer,
   QuitsForInstaller, JobStep, Job!vars, job

LEMMA OnRelease ==
  ASSUME NEW text, NEW d, SameTransfer(d), on_release(text, d), CheckInv,
         local_version # None, UNCHANGED local_version, fetching' = FALSE
  PROVE  CheckInv' /\ SameTransfer(dl')
<1> USE LauncherUpdateAssumption
<1>1. CASE parse(text) = None
  BY <1>1, ErrorFlagOnly DEF on_release, reset_offer, CheckInv, OfferIsNewer
<1>2. CASE parse(text) # None
  <2>1. text \in Versions /\ parse(text) = text /\ text # None
    BY <1>2 DEF parse
  <2>2. /\ dl' = d
        /\ remote_version' = text
        /\ new_version' \in BOOLEAN
        /\ new_version' => text > local_version
        /\ latest_launcher_link' = text
    BY <2>1 DEF on_release
  <2> QED
    BY <2>1, <2>2 DEF CheckInv, OfferIsNewer
<1> QED
  BY <1>1, <1>2

LEMMA CheckUpdateInv ==
  ASSUME LauncherInv, CheckUpdate
  PROVE  LauncherInv' /\ JobStep
<1> DEFINE d == clear_error_state(dl)
<1>1. SameTransfer(d) /\ SameTransfer(set_error_state(d))
  BY ErrorFlagOnly DEF LauncherInv, TransferInv, SameTransfer
<1>2. /\ UNCHANGED <<archive, local_version, delivers, installer, running>>
      /\ IF local_version = None THEN check_refused(d)
         ELSE check_sent(d) \/ check_cached(d)
  BY DEF CheckUpdate
<1> HIDE DEF d
<1>3. CASE local_version = None
  BY <1>1, <1>2, <1>3, CheckOnly
  DEF check_refused, reset_offer, LauncherInv, CheckInv, OfferIsNewer
<1>4. CASE local_version # None /\ check_sent(d)
  BY <1>1, <1>2, <1>4, CheckOnly
  DEF check_sent, reset_offer, LauncherInv, CheckInv, OfferIsNewer
<1>5. CASE local_version # None /\ check_cached(d)
  <2>1. CheckInv' /\ SameTransfer(dl')
    BY <1>1, <1>2, <1>5, OnRelease DEF check_cached, LauncherInv
  <2> QED
    BY <1>2, <2>1, CheckOnly
<1> QED
  BY <1>2, <1>3, <1>4, <1>5

LEMMA ReleaseFetchedInv ==
  ASSUME LauncherInv, ReleaseFetched
  PROVE  LauncherInv' /\ JobStep
<1>1. /\ SameTransfer(dl) /\ CheckInv /\ local_version # None /\ fetching' = FALSE
      /\ UNCHANGED <<archive, local_version, delivers, installer, running>>
  BY DEF ReleaseFetched, LauncherInv, TransferInv, CheckInv, SameTransfer
<1>2. CASE \E text \in Versions : on_release(text, dl)
  <2>1. CheckInv' /\ SameTransfer(dl')
    BY <1>1, <1>2, OnRelease
  <2> QED
    BY <1>1, <2>1, CheckOnly
<1>3. CASE dl' = set_error_state(dl) /\ UNCHANGED offer
  <2>1. SameTransfer(dl')
    BY <1>1, <1>3, ErrorFlagOnly
  <2>2. CheckInv'
    BY <1>1, <1>3 DEF CheckInv, OfferIsNewer, offer
  <2> QED
    BY <1>1, <2>1, <2>2, CheckOnly
<1> QED
  BY <1>2, <1>3 DEF ReleaseFetched

-----------------------------------------------------------------------------
(* The transfer *)

LEMMA CheckUntouched ==
  ASSUME CheckInv, UNCHANGED <<offer, local_version, fetching>>
  PROVE  CheckInv'
BY DEF CheckInv, OfferIsNewer, offer

LEMMA DownloadInv ==
  ASSUME LauncherInv, Download
  PROVE  LauncherInv' /\ JobStep
<1> USE DEF JobStep, Job!Next, Job!vars
<1>1. /\ dl \in Downloader /\ running /\ installer = None
      /\ UNCHANGED <<offer, local_version, fetching, installer, running>>
  BY DEF LauncherInv, TransferInv, EndInv, QuitsForInstaller, Download
<1>2. CheckInv' /\ EndInv'
  BY <1>1, CheckUntouched DEF LauncherInv, EndInv, QuitsForInstaller
<1>3. CASE UNCHANGED <<dl, archive, delivers>>
  BY <1>1, <1>2, <1>3 DEF LauncherInv, TransferInv, BusyMeansTransfer, job
<1>4. CASE ~dl.downloading /\ start_fails /\ UNCHANGED delivers
  <2>1. /\ dl' \in Downloader
        /\ ~dl'.downloading /\ ~dl'.cancelling /\ ~dl'.finished
        /\ dl'.reply = dl.reply
    BY <1>1, <1>4 DEF start_fails, end_run, set_error_state, begin_run, Downloader
  <2>2. TransferInv'
    BY <1>4, <2>1 DEF LauncherInv, TransferInv, BusyMeansTransfer, start_fails
  <2>3. Job!Refuse
    BY <1>1, <1>4, <2>1 DEF Job!Refuse, job
  <2> QED
    BY <1>2, <2>2, <2>3 DEF LauncherInv
<1>5. CASE ~dl.downloading /\ start_succeeds /\ delivers' \in Versions
  <2>1. /\ dl' \in Downloader
        /\ dl'.downloading /\ ~dl'.cancelling /\ ~dl'.finished /\ dl'.reply
    BY <1>1, <1>5 DEF start_succeeds, begin_run, Downloader
  <2>2. TransferInv'
    BY <1>5, <2>1 DEF LauncherInv, TransferInv, BusyMeansTransfer, start_succeeds
  <2>3. Job!Begin
    BY <1>1, <1>5, <2>1 DEF Job!Begin, job
  <2> QED
    BY <1>2, <2>2, <2>3 DEF LauncherInv
<1> QED
  BY <1>3, <1>4, <1>5 DEF Download, refused

LEMMA CancelDownloadInv ==
  ASSUME LauncherInv, CancelDownload
  PROVE  LauncherInv' /\ JobStep
<1> USE DEF JobStep, Job!Next, Job!vars
<1> DEFINE d == [dl EXCEPT !.cancelling = TRUE]
<1>1. /\ dl \in Downloader /\ dl.downloading /\ ~dl.cancelling /\ dl.reply
      /\ running /\ installer = None
      /\ delivers \in Versions
      /\ delivers' = IF dl'.reply THEN delivers ELSE None
      /\ UNCHANGED <<offer, local_version, fetching, installer, running>>
  BY DEF LauncherInv, TransferInv, EndInv, QuitsForInstaller, CancelDownload, cancel
<1>2. CheckInv' /\ EndInv'
  BY <1>1, CheckUntouched DEF LauncherInv, EndInv, QuitsForInstaller
<1>3. /\ d \in Downloader /\ d.downloading /\ d.cancelling /\ d.reply
      /\ d.finished = dl.finished
  BY <1>1 DEF Downloader
<1> HIDE DEF d
<1>4. CASE reply_cancelled(d)
  <2>1. /\ dl' \in Downloader
        /\ ~dl'.downloading /\ ~dl'.cancelling /\ ~dl'.reply
        /\ dl'.finished = dl.finished
        /\ archive' = "absent"
    BY <1>3, <1>4 DEF reply_cancelled, end_run, Downloader
  <2>2. TransferInv'
    BY <1>1, <2>1 DEF LauncherInv, TransferInv, BusyMeansTransfer
  <2>3. Job!Abandon
    BY <1>1, <2>1 DEF Job!Abandon, job
  <2> QED
    BY <1>2, <2>2, <2>3 DEF LauncherInv
<1>5. CASE dl' = d /\ UNCHANGED archive
  <2>1. TransferInv'
    BY <1>1, <1>3, <1>5 DEF LauncherInv, TransferInv, BusyMeansTransfer
  <2>2. Job!Cancel
    BY <1>1, <1>3, <1>5 DEF Job!Cancel, job
  <2> QED
    BY <1>2, <2>1, <2>2 DEF LauncherInv
<1> QED
  BY <1>4, <1>5 DEF CancelDownload, cancel, d

LEMMA ReplyFinishedInv ==
  ASSUME LauncherInv, ReplyFinished
  PROVE  LauncherInv' /\ JobStep
<1> USE LauncherUpdateAssumption DEF JobStep, Job!Next, Job!vars
<1>1. /\ dl \in Downloader /\ dl.downloading /\ dl.reply
      /\ running /\ installer = None
      /\ delivers \in Versions /\ delivers' = None
  BY DEF LauncherInv, TransferInv, EndInv, QuitsForInstaller, BusyMeansTransfer,
     ReplyFinished
<1>2. CheckInv'
  BY CheckUntouched DEF ReplyFinished, LauncherInv
<1>3. CASE (reply_cancelled(dl) \/ reply_failed(dl)) /\ UNCHANGED <<installer, running>>
  <2>1. /\ dl' \in Downloader
        /\ ~dl'.downloading /\ ~dl'.cancelling /\ ~dl'.reply
        /\ dl'.finished = dl.finished
        /\ archive' = "absent"
    BY <1>1, <1>3 DEF reply_cancelled, reply_failed, end_run, set_error_state, Downloader
  <2>2. TransferInv' /\ EndInv'
    BY <1>1, <1>3, <2>1
    DEF LauncherInv, TransferInv, BusyMeansTransfer, EndInv, QuitsForInstaller
  <2>3. Job!Abandon
    BY <1>1, <1>3, <2>1 DEF Job!Abandon, job
  <2> QED
    BY <1>2, <2>2, <2>3 DEF LauncherInv
<1>4. CASE ~dl.cancelling /\ on_download_complete(reply_complete(dl))
  <2> DEFINE d == reply_complete(dl)
  <2>1. /\ d \in Downloader /\ d.downloading /\ ~d.cancelling /\ ~d.reply
    BY <1>1, <1>4 DEF reply_complete, Downloader
  <2> HIDE DEF d
  <2>2. /\ report_error(d) \in Downloader
        /\ ~report_error(d).downloading /\ ~report_error(d).cancelling
        /\ ~report_error(d).reply
    BY <2>1 DEF report_error, end_run, set_error_state, Downloader
  <2>3. /\ mark_succeeded(d) \in Downloader
        /\ ~mark_succeeded(d).downloading /\ ~mark_succeeded(d).cancelling
        /\ ~mark_succeeded(d).reply /\ mark_succeeded(d).finished
    BY <2>1 DEF mark_succeeded, end_run, Downloader
  <2>4. CASE setup_rejected(d)
    <3>1. TransferInv' /\ EndInv'
      BY <1>1, <2>2, <2>4
      DEF setup_rejected, LauncherInv, TransferInv, BusyMeansTransfer, EndInv,
          QuitsForInstaller
    <3>2. Job!Complete
      BY <1>1, <1>4, <2>2, <2>4 DEF setup_rejected, Job!Complete, job, Downloader, Products
    <3> QED
      BY <1>2, <3>1, <3>2 DEF LauncherInv
  <2>5. CASE setup_started(d)
    <3>1. delivers # None
      BY <1>1
    <3>2. TransferInv' /\ EndInv'
      BY <1>1, <2>3, <2>5, <3>1
      DEF setup_started, TransferInv, BusyMeansTransfer, EndInv, QuitsForInstaller
    <3>3. Job!Complete
      BY <1>1, <1>4, <2>3, <2>5 DEF setup_started, Job!Complete, job, Downloader, Products
    <3> QED
      BY <1>2, <3>2, <3>3 DEF LauncherInv
  <2> QED
    BY <1>4, <2>4, <2>5 DEF on_download_complete, d
<1> QED
  BY <1>3, <1>4 DEF ReplyFinished

-----------------------------------------------------------------------------
(* Every step *)

LEMMA LauncherStep == LauncherInv /\ [Next]_vars => LauncherInv' /\ JobStep
<1> SUFFICES ASSUME LauncherInv, [Next]_vars PROVE LauncherInv' /\ JobStep
  OBVIOUS
<1>1. CASE CheckUpdate \/ ReleaseFetched
  BY <1>1, CheckUpdateInv, ReleaseFetchedInv
<1>2. CASE Download \/ CancelDownload \/ ReplyFinished
  BY <1>2, DownloadInv, CancelDownloadInv, ReplyFinishedInv
<1>3. CASE UNCHANGED vars
  <2>1. SameTransfer(dl') /\ UNCHANGED <<archive, delivers, installer, running>>
    BY <1>3 DEF vars, SameTransfer, LauncherInv, TransferInv
  <2>2. CheckInv'
    BY <1>3, CheckUntouched DEF vars, LauncherInv
  <2> QED
    BY <2>1, <2>2, CheckOnly
<1> QED
  BY <1>1, <1>2, <1>3 DEF Next

LEMMA LauncherAlways == Spec => []LauncherInv
BY LauncherInit, LauncherStep, PTL DEF Spec

-----------------------------------------------------------------------------
(* Theorems *)

\* Every variable of LauncherUpdate keeps its type.
THEOREM LauncherTypeOK == Spec => []TypeOK
<1>1. LauncherInv => TypeOK
  BY DEF LauncherInv, TransferInv, CheckInv, EndInv, TypeOK, DownloaderTypeOK
<1> QED
  BY <1>1, LauncherAlways, PTL

\* on_download_complete() calls quit() after a successful startDetached(), and
\* on no other branch.
THEOREM LauncherQuits == Spec => []QuitsForInstaller
<1>1. LauncherInv => QuitsForInstaller
  BY DEF LauncherInv, EndInv
<1> QED
  BY <1>1, LauncherAlways, PTL

\* The release offered is newer than this launcher, and it is the one the link
\* leads to.
THEOREM LauncherOffer == Spec => []OfferIsNewer
<1>1. LauncherInv => OfferIsNewer
  BY DEF LauncherInv, CheckInv
<1> QED
  BY <1>1, LauncherAlways, PTL

\* The safety half of ImplementsDownloadJob: a cancelled, failed or refused
\* transfer starts no installer.
THEOREM LauncherRefinesJob == Spec => Job!Init /\ [][Job!Next]_(Job!vars)
<1>1. Init => Job!Init
  BY DEF Init, new_downloader, set_error_state, Job!Init, job, Products
<1>2. LauncherInv /\ [Next]_vars => [Job!Next]_(Job!vars)
  BY LauncherStep DEF JobStep
<1> QED
  BY <1>1, <1>2, LauncherAlways, PTL DEF Spec

=============================================================================

-------------------------- MODULE GameUpdateProofs --------------------------
(***************************************************************************)
(* What holds of GameUpdate for any number of versions and any install     *)
(* directories, and that its steps are steps of DownloadJob.               *)
(***************************************************************************)
EXTENDS GameUpdate, TLAPS

\* While a release is being fetched there is none to show, and a check for
\* somebody who has no game keeps the local version empty: without this the
\* offer made by a late answer could be compared with the wrong version.
FetchHasNoRelease ==
  fetch # None =>
    /\ remote_version = None
    /\ ~fetch.installed => local_version = None

\* The transfer and what it leaves.
TransferInv ==
  /\ dl \in Downloader
  /\ archive \in {"absent", "partial", "complete"}
  /\ delivers \in Versions \cup {None}
  /\ install_path \in Paths
  /\ game \in Products
  /\ BusyMeansTransfer
  /\ PartialOnlyInFlight

\* The check and what it offers.
CheckInv ==
  /\ checking_update \in BOOLEAN /\ new_version \in BOOLEAN
  /\ {local_version, remote_version, download_url} \subseteq Versions \cup {None}
  /\ fetch \in {None} \cup Callbacks
  /\ CheckingHasFetch
  /\ OfferConsistent
  /\ OfferIsNewer
  /\ FetchHasNoRelease

GameUpdateInv == TransferInv /\ CheckInv

LEMMA GameUpdateInit == Init => GameUpdateInv
<1> SUFFICES ASSUME Init PROVE GameUpdateInv
  OBVIOUS
<1>1. dl \in Downloader
  BY DEF Init, InitDownloader, new_downloader, Downloader
<1>2. game \in Products
  BY GameUpdateAssumption DEF Init, Products, Versions
<1>3. TransferInv
  BY <1>1, <1>2 DEF Init, InitDownloader, new_downloader, TransferInv, BusyMeansTransfer,
     PartialOnlyInFlight
<1>4. CheckInv
  BY DEF Init, CheckInv, CheckingHasFetch, OfferConsistent, OfferIsNewer,
     FetchHasNoRelease
<1> QED
  BY <1>3, <1>4 DEF GameUpdateInv

-----------------------------------------------------------------------------
(* The check *)

\* A check touches nothing of the downloader but its error flag.
SameTransfer(d) ==
  /\ d \in Downloader
  /\ d.downloading = dl.downloading
  /\ d.cancelling = dl.cancelling
  /\ d.finished = dl.finished
  /\ d.reply = dl.reply

LEMMA ErrorFlagOnly ==
  ASSUME NEW d, SameTransfer(d)
  PROVE  SameTransfer(clear_error_state(d)) /\ SameTransfer(set_error_state(d))
BY DEF SameTransfer, clear_error_state, set_error_state, Downloader

LEMMA TransferUntouched ==
  ASSUME TransferInv, SameTransfer(dl'), UNCHANGED <<archive, install_path, delivers, game>>
  PROVE  TransferInv'
BY DEF TransferInv, SameTransfer, BusyMeansTransfer, PartialOnlyInFlight

\* An answer: what on_release() leaves is consistent when the check it belongs
\* to had no release to show.
LEMMA OnRelease ==
  ASSUME NEW r \in Versions \cup {None}, NEW installed \in BOOLEAN,
         NEW local \in Versions \cup {None}, ~installed => local = None,
         NEW d, SameTransfer(d),
         r = None => remote_version = None /\ download_url = None,
         on_release(r, installed, local, d), fetch' = None
  PROVE  CheckInv' /\ SameTransfer(dl')
<1> USE GameUpdateAssumption
<1>1. CASE r = None
  BY <1>1, ErrorFlagOnly
  DEF on_release, report_failure, finish_check, CheckInv, CheckingHasFetch,
      OfferConsistent, OfferIsNewer, FetchHasNoRelease
<1>2. CASE r \in Versions
  <2>1. /\ dl' = d
        /\ checking_update' = FALSE
        /\ local_version' = local
        /\ new_version' \in IF installed THEN is_newer(r, local) ELSE {TRUE}
        /\ remote_version' = r
        /\ download_url' = r
    BY <1>2 DEF on_release, finish_check
  <2>2. r # None
    BY <1>2
  <2>3. new_version' \in BOOLEAN
    BY <2>1 DEF is_newer
  <2>4. new_version' /\ local # None => r > local
    BY <2>1 DEF is_newer
  <2> QED
    BY <1>2, <2>1, <2>2, <2>3, <2>4
    DEF CheckInv, CheckingHasFetch, OfferConsistent, OfferIsNewer, FetchHasNoRelease
<1> QED
  BY <1>1, <1>2

LEMMA ReleaseFetchedInv ==
  ASSUME GameUpdateInv, ReleaseFetched
  PROVE  GameUpdateInv' /\ SameTransfer(dl')
<1>1. SameTransfer(dl)
  BY DEF GameUpdateInv, TransferInv, SameTransfer
<1>2. /\ fetch.installed \in BOOLEAN
      /\ remote_version = None /\ download_url = None
      /\ ~fetch.installed => local_version = None
      /\ local_version \in Versions \cup {None}
  BY DEF ReleaseFetched, GameUpdateInv, CheckInv, Callbacks, FetchHasNoRelease,
     OfferConsistent
<1>3. PICK r \in Versions \cup {None} :
        on_release(r, fetch.installed, local_version, dl)
  BY DEF ReleaseFetched
<1>4. CheckInv' /\ SameTransfer(dl')
  BY <1>1, <1>2, <1>3, OnRelease DEF ReleaseFetched
<1> QED
  BY <1>4, TransferUntouched DEF GameUpdateInv, ReleaseFetched

LEMMA CheckUpdateInv ==
  ASSUME GameUpdateInv, CheckUpdate
  PROVE  GameUpdateInv' /\ SameTransfer(dl')
<1> USE GameUpdateAssumption
<1> DEFINE d == clear_error_state(dl)
<1>1. SameTransfer(d) /\ SameTransfer(set_error_state(d))
  BY ErrorFlagOnly DEF GameUpdateInv, TransferInv, SameTransfer
<1> HIDE DEF d
<1>2. PICK text \in Versions \cup {None, Unparsable} :
        /\ IF text # None /\ parse(text) = None
             THEN check_refused(d)
             ELSE \/ check_sent(text # None, parse(text), d)
                  \/ check_cached(text # None, parse(text), d)
        /\ UNCHANGED <<archive, install_path, delivers, game>>
  BY DEF CheckUpdate, d
<1> DEFINE local == parse(text)
           installed == text # None
<1>3. local \in Versions \cup {None} /\ installed \in BOOLEAN
      /\ (~installed => local = None)
  BY DEF parse
<1>3a. [installed |-> installed] \in Callbacks
  BY <1>3 DEF Callbacks
<1> HIDE DEF local, installed
<1>4. CASE check_refused(d)
  <2>1. CheckInv' /\ SameTransfer(dl')
    BY <1>1, <1>4 DEF check_refused, report_failure, finish_check, CheckInv, GameUpdateInv,
       CheckingHasFetch, OfferConsistent, OfferIsNewer, FetchHasNoRelease
  <2> QED
    BY <1>2, <2>1, TransferUntouched DEF GameUpdateInv
<1>5. CASE check_sent(installed, local, d)
  <2>1. /\ dl' = d
        /\ checking_update' = TRUE
        /\ local_version' = local
        /\ new_version' = FALSE
        /\ remote_version' = None /\ download_url' = None
        /\ fetch' = [installed |-> installed]
    BY <1>5 DEF check_sent
  <2>2. fetch' \in Callbacks /\ fetch' # None /\ fetch'.installed = installed
    BY <1>3a, <2>1
  <2>3. CheckInv'
    BY <1>3, <2>1, <2>2 DEF CheckInv, CheckingHasFetch, OfferConsistent, OfferIsNewer,
       FetchHasNoRelease
  <2> QED
    BY <1>1, <1>2, <2>1, <2>3, TransferUntouched DEF GameUpdateInv
<1>6. CASE check_cached(installed, local, d)
  <2>1. CASE \E r \in Versions : on_release(r, installed, local, d)
    <3>1. CheckInv' /\ SameTransfer(dl')
      BY <1>1, <1>3, <1>6, <2>1, OnRelease DEF check_cached
    <3> QED
      BY <1>2, <3>1, TransferUntouched DEF GameUpdateInv
  <2>2. CASE /\ report_failure(d)
             /\ local_version' = local
             /\ remote_version' = None /\ download_url' = None
    <3>1. CheckInv' /\ SameTransfer(dl')
      BY <1>1, <1>3, <1>6, <2>2 DEF check_cached, report_failure, finish_check, CheckInv,
         CheckingHasFetch, OfferConsistent, OfferIsNewer, FetchHasNoRelease
    <3> QED
      BY <1>2, <3>1, TransferUntouched DEF GameUpdateInv
  <2> QED
    BY <1>6, <2>1, <2>2 DEF check_cached
<1> QED
  BY <1>2, <1>4, <1>5, <1>6 DEF local, installed

-----------------------------------------------------------------------------
(* The transfer *)

LEMMA CheckUntouched ==
  ASSUME CheckInv, UNCHANGED checkVars
  PROVE  CheckInv'
BY DEF CheckInv, checkVars, CheckingHasFetch, OfferConsistent, OfferIsNewer,
   FetchHasNoRelease

\* What one step does, as far as DownloadJob can tell.
JobStep == [Job!Next]_(Job!vars)

LEMMA DownloadInv ==
  ASSUME GameUpdateInv, Download
  PROVE  GameUpdateInv' /\ JobStep
<1> USE GameUpdateAssumption DEF JobStep, Job!Next, Job!vars
<1>1. dl \in Downloader /\ UNCHANGED <<checkVars, install_path, game>>
  BY DEF GameUpdateInv, TransferInv, Download
<1>2. CheckInv'
  BY <1>1, CheckUntouched DEF GameUpdateInv
<1>3. CASE UNCHANGED <<dl, archive, delivers>>
  BY <1>1, <1>2, <1>3
  DEF GameUpdateInv, TransferInv, BusyMeansTransfer, PartialOnlyInFlight, job
<1>4. CASE ~dl.downloading /\ start_fails /\ UNCHANGED delivers
  <2>1. /\ dl' \in Downloader
        /\ ~dl'.downloading /\ ~dl'.cancelling /\ ~dl'.finished
        /\ dl'.reply = dl.reply
    BY <1>1, <1>4 DEF start_fails, end_run, set_error_state, begin_run, Downloader
  <2>2. TransferInv'
    BY <1>1, <1>4, <2>1
    DEF GameUpdateInv, TransferInv, BusyMeansTransfer, PartialOnlyInFlight, start_fails
  <2>3. Job!Refuse
    BY <1>1, <1>4, <2>1 DEF Job!Refuse, job
  <2> QED
    BY <1>2, <2>2, <2>3 DEF GameUpdateInv
<1>5. CASE ~dl.downloading /\ start_succeeds /\ delivers' \in Versions
  <2>1. /\ dl' \in Downloader
        /\ dl'.downloading /\ ~dl'.cancelling /\ ~dl'.finished /\ dl'.reply
    BY <1>1, <1>5 DEF start_succeeds, begin_run, Downloader
  <2>2. TransferInv'
    BY <1>1, <1>5, <2>1
    DEF GameUpdateInv, TransferInv, BusyMeansTransfer, PartialOnlyInFlight, start_succeeds
  <2>3. Job!Begin
    BY <1>1, <1>5, <2>1 DEF Job!Begin, job
  <2> QED
    BY <1>2, <2>2, <2>3 DEF GameUpdateInv
<1> QED
  BY <1>3, <1>4, <1>5 DEF Download, refused

\* The reply ends, and there is no file left of it.
LEMMA ReplyEnds ==
  ASSUME dl \in Downloader, reply_cancelled(dl) \/ reply_failed(dl)
  PROVE  /\ dl' \in Downloader
         /\ ~dl'.downloading /\ ~dl'.cancelling /\ ~dl'.reply
         /\ dl'.finished = dl.finished
         /\ archive' = "absent"
BY DEF reply_cancelled, reply_failed, end_run, set_error_state, Downloader

LEMMA CancelDownloadInv ==
  ASSUME GameUpdateInv, CancelDownload
  PROVE  GameUpdateInv' /\ JobStep
<1> USE GameUpdateAssumption DEF JobStep, Job!Next, Job!vars
<1> DEFINE d == [dl EXCEPT !.cancelling = TRUE]
<1>1. /\ dl \in Downloader /\ dl.downloading /\ ~dl.cancelling /\ dl.reply
      /\ UNCHANGED <<checkVars, install_path, game>>
      /\ delivers' \in {delivers, None}
  BY DEF GameUpdateInv, TransferInv, CancelDownload, cancel
<1>2. CheckInv'
  BY <1>1, CheckUntouched DEF GameUpdateInv
<1>3. /\ d \in Downloader /\ d.downloading /\ d.cancelling /\ d.reply
      /\ d.finished = dl.finished
  BY <1>1 DEF Downloader
<1> HIDE DEF d
<1>4. CASE reply_cancelled(d)
  <2>1. /\ dl' \in Downloader
        /\ ~dl'.downloading /\ ~dl'.cancelling /\ ~dl'.reply
        /\ dl'.finished = dl.finished
        /\ archive' = "absent"
    BY <1>3, <1>4 DEF reply_cancelled, end_run, Downloader
  <2>2. TransferInv'
    BY <1>1, <2>1
    DEF GameUpdateInv, TransferInv, BusyMeansTransfer, PartialOnlyInFlight
  <2>3. Job!Abandon
    BY <1>1, <2>1 DEF Job!Abandon, job
  <2> QED
    BY <1>2, <2>2, <2>3 DEF GameUpdateInv
<1>5. CASE dl' = d /\ UNCHANGED archive
  <2>1. TransferInv'
    BY <1>1, <1>3, <1>5
    DEF GameUpdateInv, TransferInv, BusyMeansTransfer, PartialOnlyInFlight
  <2>2. Job!Cancel
    BY <1>1, <1>3, <1>5 DEF Job!Cancel, job
  <2> QED
    BY <1>2, <2>1, <2>2 DEF GameUpdateInv
<1> QED
  BY <1>4, <1>5 DEF CancelDownload, cancel, d

LEMMA ReplyFinishedInv ==
  ASSUME GameUpdateInv, ReplyFinished
  PROVE  GameUpdateInv' /\ JobStep
<1> USE GameUpdateAssumption DEF JobStep, Job!Next, Job!vars
<1>1. /\ dl \in Downloader /\ dl.downloading /\ dl.reply
      /\ delivers \in Versions \cup {None} /\ install_path \in Paths /\ game \in Products
      /\ UNCHANGED install_path
      /\ delivers' = None
  BY DEF GameUpdateInv, TransferInv, BusyMeansTransfer, ReplyFinished
<1>2. CASE (reply_cancelled(dl) \/ reply_failed(dl)) /\ UNCHANGED <<checkVars, game>>
  <2>1. TransferInv'
    BY <1>1, <1>2, ReplyEnds
    DEF GameUpdateInv, TransferInv, BusyMeansTransfer, PartialOnlyInFlight
  <2>2. Job!Abandon
    BY <1>1, <1>2, ReplyEnds DEF Job!Abandon, job
  <2> QED
    BY <1>2, <2>1, <2>2, CheckUntouched DEF GameUpdateInv
<1>3. CASE ~dl.cancelling /\ on_download_complete(reply_complete(dl))
  <2> DEFINE d == reply_complete(dl)
  <2>1. /\ d \in Downloader /\ d.downloading /\ ~d.cancelling /\ ~d.reply
        /\ d.finished = dl.finished
    BY <1>1, <1>3 DEF reply_complete, Downloader
  <2> HIDE DEF d
  <2>2. ASSUME NEW e, e \in {report_error(d), mark_succeeded(d)}
        PROVE  /\ e \in Downloader
               /\ ~e.downloading /\ ~e.cancelling /\ ~e.reply
    BY <2>1, <2>2 DEF report_error, mark_succeeded, end_run, set_error_state, Downloader
  <2>3. /\ dl' \in {report_error(d), mark_succeeded(d)}
        /\ archive' \in {"absent", "complete"}
        /\ game' \in Products
    BY <1>1, <1>3
    DEF on_download_complete, archive_invalid, extract_fails, install_succeeds, Products, d
  <2>4. CheckInv'
    <3>1. CASE UNCHANGED checkVars
      BY <3>1, CheckUntouched DEF GameUpdateInv
    <3>2. CASE install_succeeds(d)
      BY <3>2 DEF install_succeeds, GameUpdateInv, CheckInv, CheckingHasFetch,
         OfferConsistent, OfferIsNewer, FetchHasNoRelease
    <3> QED
      BY <1>3, <3>1, <3>2
      DEF on_download_complete, archive_invalid, extract_fails, d
  <2>5. TransferInv'
    BY <1>1, <2>2, <2>3
    DEF GameUpdateInv, TransferInv, BusyMeansTransfer, PartialOnlyInFlight
  <2>6. Job!Complete
    BY <1>1, <1>3, <2>2, <2>3 DEF Job!Complete, job, Downloader
  <2> QED
    BY <2>4, <2>5, <2>6 DEF GameUpdateInv
<1> QED
  BY <1>2, <1>3 DEF ReplyFinished

-----------------------------------------------------------------------------
(* Every step *)

LEMMA GameUpdateStep == GameUpdateInv /\ [Next]_vars => GameUpdateInv' /\ JobStep
<1> SUFFICES ASSUME GameUpdateInv, [Next]_vars PROVE GameUpdateInv' /\ JobStep
  OBVIOUS
<1>1. CASE CheckUpdate \/ ReleaseFetched
  <2>1. GameUpdateInv' /\ SameTransfer(dl') /\ UNCHANGED game
    BY <1>1, CheckUpdateInv, ReleaseFetchedInv DEF CheckUpdate, ReleaseFetched
  <2> QED
    BY <2>1 DEF SameTransfer, JobStep, Job!vars, job
<1>2. CASE Download \/ CancelDownload \/ ReplyFinished
  BY <1>2, DownloadInv, CancelDownloadInv, ReplyFinishedInv
<1>3. CASE SetGameInstallPath
  BY <1>3, CheckUntouched
  DEF SetGameInstallPath, GameUpdateInv, TransferInv, BusyMeansTransfer,
      PartialOnlyInFlight, JobStep, Job!vars, job
<1>4. CASE UNCHANGED vars
  BY <1>4, CheckUntouched
  DEF vars, GameUpdateInv, TransferInv, BusyMeansTransfer,
      PartialOnlyInFlight, JobStep, Job!vars, job
<1> QED
  BY <1>1, <1>2, <1>3, <1>4 DEF Next

LEMMA GameUpdateAlways == Spec => []GameUpdateInv
BY GameUpdateInit, GameUpdateStep, PTL DEF Spec

-----------------------------------------------------------------------------
(* Theorems *)

\* Every variable of GameUpdate keeps its type.
THEOREM GameUpdateTypeOK == Spec => []TypeOK
<1>1. GameUpdateInv => TypeOK
  BY DEF GameUpdateInv, TransferInv, CheckInv, TypeOK, DownloaderTypeOK
<1> QED
  BY <1>1, GameUpdateAlways, PTL

\* The downloader is busy exactly while its reply is in flight: no branch of
\* on_download_complete() forgets to end the run.
THEOREM GameUpdateBusy == Spec => []BusyMeansTransfer
<1>1. GameUpdateInv => BusyMeansTransfer
  BY DEF GameUpdateInv, TransferInv
<1> QED
  BY <1>1, GameUpdateAlways, PTL

\* What a failed or cancelled transfer has written is gone when its handler
\* returns.
THEOREM GameUpdatePartial == Spec => []PartialOnlyInFlight
<1>1. GameUpdateInv => PartialOnlyInFlight
  BY DEF GameUpdateInv, TransferInv
<1> QED
  BY <1>1, GameUpdateAlways, PTL

\* The spinner of the check turns only while an answer is on its way.
THEOREM GameUpdateChecking == Spec => []CheckingHasFetch
<1>1. GameUpdateInv => CheckingHasFetch
  BY DEF GameUpdateInv, CheckInv
<1> QED
  BY <1>1, GameUpdateAlways, PTL

\* The offered address leads to the version shown, however checks, downloads and
\* their answers interleave.
THEOREM GameUpdateOfferConsistent == Spec => []OfferConsistent
<1>1. GameUpdateInv => OfferConsistent
  BY DEF GameUpdateInv, CheckInv
<1> QED
  BY <1>1, GameUpdateAlways, PTL

\* An update offered to a known version is newer than it.
THEOREM GameUpdateOffer == Spec => []OfferIsNewer
<1>1. GameUpdateInv => OfferIsNewer
  BY DEF GameUpdateInv, CheckInv
<1> QED
  BY <1>1, GameUpdateAlways, PTL

\* The safety half of ImplementsDownloadJob: a cancelled, failed or refused
\* transfer never touches the installed game, and a cancelled one never
\* succeeds.
THEOREM GameUpdateRefinesJob == Spec => Job!Init /\ [][Job!Next]_(Job!vars)
<1>1. Init => Job!Init
  <2> SUFFICES ASSUME Init PROVE Job!Init
    OBVIOUS
  <2>1. game \in Products
    BY GameUpdateInit DEF GameUpdateInv, TransferInv
  <2> QED
    BY <2>1 DEF Init, InitDownloader, new_downloader, Job!Init, job
<1>2. GameUpdateInv /\ [Next]_vars => [Job!Next]_(Job!vars)
  BY GameUpdateStep DEF JobStep
<1> QED
  BY <1>1, <1>2, GameUpdateAlways, PTL DEF Spec

=============================================================================

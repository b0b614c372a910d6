--------------------------- MODULE LauncherUpdate ---------------------------
(***************************************************************************)
(* LauncherUpdate: looks for a newer release of the launcher, downloads    *)
(* its installer, starts it and ends the launcher.  The other user of      *)
(* FileDownloader: its product is a started installer.                     *)
(***************************************************************************)
EXTENDS FileDownloader, Naturals

CONSTANTS
  MaxVersion,  \* bound: versions are 1 .. MaxVersion, ordered like SemanticVersion
  None,        \* an empty optional or string; no installer
  Unparsable   \* text SemanticVersion::parse() rejects

Versions == 1 .. MaxVersion

ASSUME LauncherUpdateAssumption ==
  /\ MaxVersion \in Nat \ {0}
  /\ {None, Unparsable} \cap Versions = {}
  /\ None # Unparsable

Products == Versions \cup {None}

VARIABLES
  new_version,           \* m_new_version
  local_version,         \* m_local_version
  remote_version,        \* m_remote_version
  latest_launcher_link,  \* m_latest_launcher_link: the version it leads to
  fetching,              \* m_fetcher holds the callback of a check
  delivers,              \* the version the reply in flight brings
  installer,             \* the version whose installer has been started
  running                \* the launcher's event loop

offer == <<new_version, remote_version, latest_launcher_link>>
vars == <<dl, archive, offer, local_version, fetching, delivers, installer, running>>

\* Mutation: the text is taken as it is.
parse_unchecked(text) == text

\* SemanticVersion::parse(): an optional.
parse(text) == IF text \in Versions THEN text ELSE None

\* The constructor.  The check it may start is CheckUpdate, taken first.
Init ==
  /\ \E text \in Versions \cup {Unparsable} : local_version = parse(text)
  /\ dl = IF local_version = None THEN set_error_state(new_downloader)
          ELSE new_downloader
  /\ archive = "absent"
  /\ new_version = FALSE
  /\ remote_version = None /\ latest_launcher_link = None
  /\ fetching = FALSE
  /\ delivers = None
  /\ installer = None
  /\ running = TRUE

-----------------------------------------------------------------------------
(* Checking for an update *)

\* What check_update() resets before it does anything else.
reset_offer ==
  /\ new_version' = FALSE
  /\ remote_version' = None
  /\ latest_launcher_link' = None

\* The callback given to fetch(), for a release with this tag.  An error only
\* sets the error state: check_update() has reset the offer.
on_release(text, d) ==
  IF parse(text) = None
    THEN dl' = set_error_state(d) /\ reset_offer
    ELSE /\ dl' = d
         /\ remote_version' = parse(text)
         /\ new_version' \in BOOLEAN
         /\ new_version' <=> parse(text) > local_version
         /\ latest_launcher_link' = text

\* Mutation: the result of the last check stays until the new one is there.
check_sent_keeping(d) ==
  /\ dl' = d
  /\ remote_version' = None /\ latest_launcher_link' = None
  /\ UNCHANGED new_version
  /\ fetching' = TRUE

\* It asks GitHub; an earlier fetch is aborted and its callback replaced.
check_sent(d) == dl' = d /\ reset_offer /\ fetching' = TRUE

\* A fresh entry of the release cache answers inside the call.
check_cached(d) ==
  /\ \E text \in Versions \cup {Unparsable} : on_release(text, d)
  /\ fetching' = FALSE

\* The launcher's own version does not parse: an earlier fetch, if there were
\* one, would go on.
check_refused(d) ==
  /\ dl' = set_error_state(d)
  /\ reset_offer
  /\ UNCHANGED fetching

CheckUpdate ==
  LET d == clear_error_state(dl)
  IN  /\ running
      /\ IF local_version = None THEN check_refused(d)
         ELSE check_sent(d) \/ check_cached(d)
      /\ UNCHANGED <<archive, local_version, delivers, installer, running>>

\* The callback's error branches leave the offer as check_update() reset it.
ReleaseFetched ==
  /\ running /\ fetching
  /\ fetching' = FALSE
  /\ \/ \E text \in Versions : on_release(text, dl)
     \/ dl' = set_error_state(dl) /\ UNCHANGED offer
  /\ UNCHANGED <<archive, local_version, delivers, installer, running>>

-----------------------------------------------------------------------------
(* Downloading and installing *)

\* start() for the offered link or an address of the user's, which may lead
\* to any version.  It is refused during a download, and fails without an
\* address or a place for the file.
Download ==
  /\ running
  /\ \/ dl.downloading /\ refused /\ UNCHANGED delivers
     \/ ~dl.downloading /\ start_fails /\ UNCHANGED delivers
     \/ /\ ~dl.downloading
        /\ start_succeeds
        /\ delivers' \in Versions
  /\ UNCHANGED <<offer, local_version, fetching, installer, running>>

CancelDownload ==
  /\ running
  /\ cancel
  /\ delivers' = IF dl'.reply THEN delivers ELSE None
  /\ UNCHANGED <<offer, local_version, fetching, installer, running>>

\* Mutation: the handler returns without report_error().
setup_rejected_silent(d) ==
  /\ dl' = d
  /\ archive' = "complete"
  /\ UNCHANGED <<installer, running>>

\* The file cannot be opened, is too small, or does not start: it stays.
setup_rejected(d) ==
  /\ dl' = report_error(d)
  /\ archive' = "complete"
  /\ UNCHANGED <<installer, running>>

\* Mutation: whether the installer started is not looked at.
setup_started_unchecked(d) ==
  /\ dl' = mark_succeeded(d)
  /\ archive' = "complete"
  /\ installer' \in {installer, delivers}
  /\ running' = FALSE

\* The installer runs on its own, and quit() ends the event loop.
setup_started(d) ==
  /\ dl' = mark_succeeded(d)
  /\ archive' = "complete"
  /\ installer' = delivers
  /\ running' = FALSE

on_download_complete(d) == setup_rejected(d) \/ setup_started(d)

ReplyFinished ==
  /\ running /\ dl.reply
  /\ \/ (reply_cancelled(dl) \/ reply_failed(dl)) /\ UNCHANGED <<installer, running>>
     \/ ~dl.cancelling /\ on_download_complete(reply_complete(dl))
  /\ delivers' = None
  /\ UNCHANGED <<offer, local_version, fetching>>

Next ==
  \/ CheckUpdate \/ ReleaseFetched
  \/ Download \/ CancelDownload \/ ReplyFinished

\* Requests that were sent are answered, with data or with an error.
Fairness == WF_vars(ReleaseFetched) /\ WF_vars(ReplyFinished)

Spec == Init /\ [][Next]_vars /\ Fairness

-----------------------------------------------------------------------------

TypeOK ==
  /\ DownloaderTypeOK
  /\ {new_version, fetching, running} \subseteq BOOLEAN
  /\ {local_version, remote_version, latest_launcher_link, delivers, installer}
       \subseteq Versions \cup {None}

\* The launcher ends itself exactly when an installer it downloaded has been
\* started, and with no download left behind.
QuitsForInstaller ==
  /\ running <=> installer = None
  /\ ~running => dl.finished /\ ~dl.downloading

\* What is offered is newer than this launcher, and the link leads to the
\* version shown, however checks overlap and fail.
OfferIsNewer ==
  new_version =>
    /\ local_version # None /\ remote_version # None
    /\ remote_version > local_version
    /\ latest_launcher_link = remote_version

\* Downloads keep the promises of DownloadJob: no installer is started for a
\* download that was cancelled, however late.
Job == INSTANCE DownloadJob WITH succeeded <- dl.finished, product <- installer
ImplementsDownloadJob == Job!Spec
=============================================================================

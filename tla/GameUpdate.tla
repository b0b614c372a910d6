----------------------------- MODULE GameUpdate -----------------------------
(***************************************************************************)
(* GameUpdate: looks for a newer release of the game and installs it.  A   *)
(* version check (through GithubReleaseFetcher and its cache) and a        *)
(* download may be under way at the same time and share m_local_version,   *)
(* m_remote_version, the offered address and the error message.            *)
(***************************************************************************)
EXTENDS FileDownloader, Naturals

CONSTANTS
  MaxVersion,  \* bound: versions are 1 .. MaxVersion, ordered like SemanticVersion
  Paths,       \* directories the game may be installed in
  None,        \* an empty optional or string; nothing installed
  Unparsable,  \* text SemanticVersion::parse() rejects
  Broken       \* a game directory a failed extraction has left half written

Versions == 1 .. MaxVersion
Callbacks == [installed : BOOLEAN]

ASSUME GameUpdateAssumption ==
  /\ MaxVersion \in Nat \ {0}
  /\ {None, Unparsable} \cap Versions = {}
  /\ None \notin Callbacks

Products == [Paths -> Versions \cup {None, Broken}]

VARIABLES
  checking_update,  \* m_checking_update
  new_version,      \* m_new_version
  local_version,    \* m_local_version
  remote_version,   \* m_remote_version
  download_url,     \* m_download_url: the version it leads to
  fetch,            \* the callback m_fetcher holds: its captured `installed`
  install_path,     \* m_game_install_path
  delivers,         \* the version the reply in flight brings
  game              \* game[d]: the game installed in directory d

checkVars == <<checking_update, new_version, local_version, remote_version,
               download_url, fetch>>
vars == <<dl, archive, checkVars, install_path, delivers, game>>

Init ==
  /\ InitDownloader
  /\ checking_update = FALSE /\ new_version = FALSE
  /\ local_version = None /\ remote_version = None /\ download_url = None
  /\ fetch = None
  /\ install_path \in Paths
  /\ delivers = None
  /\ game \in [Paths -> {None, 1}]

-----------------------------------------------------------------------------
(* Checking for an update *)

\* SemanticVersion::parse(): an optional.
parse(text) == IF text \in Versions THEN text ELSE None

\* Mutation: the same version again counts as an update.
is_newer_or_equal(remote, local) ==
  {b \in BOOLEAN : local # None => (b <=> remote >= local)}

\* *m_remote_version > *m_local_version.  Reading an empty optional is
\* undefined: whatever the storage holds decides.
is_newer(remote, local) ==
  {b \in BOOLEAN : local # None => (b <=> remote > local)}

finish_check == checking_update' = FALSE

\* Mutation: a failed check does not switch the spinner off.
report_failure_spinning(d) ==
  /\ dl' = set_error_state(d)
  /\ new_version' = FALSE
  /\ UNCHANGED checking_update

report_failure(d) ==
  /\ dl' = set_error_state(d)
  /\ new_version' = FALSE
  /\ finish_check

\* The callback given to fetch(), for a release tagged r or an error (None).
on_release(r, installed, local, d) ==
  /\ local_version' = local
  /\ \/ /\ r = None
        /\ report_failure(d)
        /\ UNCHANGED <<remote_version, download_url>>
     \/ /\ r \in Versions
        /\ dl' = d
        /\ new_version' \in IF installed THEN is_newer(r, local) ELSE {TRUE}
        /\ remote_version' = r
        /\ download_url' = r
        /\ finish_check

\* Mutation: check_update() returns without ending the check.
check_refused_spinning(d) ==
  /\ dl' = set_error_state(d)
  /\ checking_update' = TRUE
  /\ new_version' = FALSE
  /\ local_version' = None
  /\ remote_version' = None /\ download_url' = None
  /\ UNCHANGED fetch

\* check_update() cannot read the local version: it asks for nothing, and an
\* earlier fetch goes on.
check_refused(d) ==
  /\ report_failure(d)
  /\ local_version' = None
  /\ remote_version' = None /\ download_url' = None
  /\ UNCHANGED fetch

\* Mutation: the address of the release shown before is kept.
check_sent_keeping(installed, local, d) ==
  /\ dl' = d
  /\ checking_update' = TRUE
  /\ local_version' = local
  /\ new_version' = FALSE
  /\ remote_version' = None
  /\ fetch' = [installed |-> installed]
  /\ UNCHANGED download_url

\* It asks GitHub; an earlier fetch is aborted and its callback replaced.
check_sent(installed, local, d) ==
  /\ dl' = d
  /\ checking_update' = TRUE
  /\ local_version' = local
  /\ new_version' = FALSE
  /\ remote_version' = None /\ download_url' = None
  /\ fetch' = [installed |-> installed]

\* A fresh entry of the release cache answers inside the call.  What the
\* cache file holds is not checked before it is parsed.
check_cached(installed, local, d) ==
  /\ fetch' = None
  /\ \/ \E r \in Versions : on_release(r, installed, local, d)
     \/ /\ report_failure(d)
        /\ local_version' = local
        /\ remote_version' = None /\ download_url' = None

CheckUpdate ==
  \E text \in Versions \cup {None, Unparsable} :
    LET local == parse(text)
        installed == text # None
        d == clear_error_state(dl)
    IN  /\ IF installed /\ local = None
             THEN check_refused(d)
             ELSE check_sent(installed, local, d) \/ check_cached(installed, local, d)
        /\ UNCHANGED <<archive, install_path, delivers, game>>

\* The selector only passes versions that parse.
ReleaseFetched ==
  /\ fetch # None
  /\ fetch' = None
  /\ \E r \in Versions \cup {None} :
       on_release(r, fetch.installed, local_version, dl)
  /\ UNCHANGED <<archive, install_path, delivers, game>>

-----------------------------------------------------------------------------
(* Downloading and installing *)

\* download_from_github(), or download_game() with an address of the user's,
\* which may lead to any version.
Download ==
  /\ \/ dl.downloading /\ refused /\ UNCHANGED delivers
     \/ ~dl.downloading /\ start_fails /\ UNCHANGED delivers
     \/ /\ ~dl.downloading
        /\ start_succeeds
        /\ delivers' \in Versions
  /\ UNCHANGED <<checkVars, install_path, game>>

CancelDownload ==
  /\ cancel
  /\ delivers' = IF dl'.reply THEN delivers ELSE None
  /\ UNCHANGED <<checkVars, install_path, game>>

\* Mutation: the handler returns without report_error().
archive_invalid_silent(d) ==
  /\ dl' = d
  /\ archive' = "complete"
  /\ UNCHANGED <<checkVars, game>>

\* The archive cannot be opened or has no archive header: it stays.
archive_invalid(d) ==
  /\ dl' = report_error(d)
  /\ archive' = "complete"
  /\ UNCHANGED <<checkVars, game>>

\* The archive is extracted over whatever the directory holds.
extract_fails(d) ==
  /\ dl' = report_error(d)
  /\ archive' = "absent"
  /\ game' \in {game, [game EXCEPT ![install_path] = Broken]}
  /\ UNCHANGED checkVars

install_succeeds(d) ==
  /\ dl' = mark_succeeded(d)
  /\ archive' = "absent"
  /\ game' = [game EXCEPT ![install_path] = delivers]
  /\ new_version' = FALSE
  /\ local_version' = remote_version
  /\ UNCHANGED <<checking_update, remote_version, download_url, fetch>>

on_download_complete(d) ==
  archive_invalid(d) \/ extract_fails(d) \/ install_succeeds(d)

\* Mutation: a late cancellation does not stop the installation.
ReplyFinished_uncancelled ==
  /\ dl.reply
  /\ \/ reply_failed(dl) /\ UNCHANGED <<checkVars, game>>
     \/ on_download_complete(reply_complete(dl))
  /\ delivers' = None
  /\ UNCHANGED install_path

ReplyFinished ==
  /\ dl.reply
  /\ \/ (reply_cancelled(dl) \/ reply_failed(dl)) /\ UNCHANGED <<checkVars, game>>
     \/ ~dl.cancelling /\ on_download_complete(reply_complete(dl))
  /\ delivers' = None
  /\ UNCHANGED install_path

\* Mutation: an empty path is not replaced by the default one.
SetGameInstallPath_empty ==
  /\ install_path' \in Paths \cup {None}
  /\ UNCHANGED <<dl, archive, checkVars, delivers, game>>

SetGameInstallPath ==
  /\ install_path' \in Paths
  /\ UNCHANGED <<dl, archive, checkVars, delivers, game>>

Next ==
  \/ CheckUpdate \/ ReleaseFetched
  \/ Download \/ CancelDownload \/ ReplyFinished
  \/ SetGameInstallPath

\* Requests that were sent are answered, with data or with an error.
Fairness == WF_vars(ReleaseFetched) /\ WF_vars(ReplyFinished)

Spec == Init /\ [][Next]_vars /\ Fairness

-----------------------------------------------------------------------------

TypeOK ==
  /\ DownloaderTypeOK
  /\ {checking_update, new_version} \subseteq BOOLEAN
  /\ {local_version, remote_version, download_url, delivers}
       \subseteq Versions \cup {None}
  /\ fetch \in {None} \cup Callbacks
  /\ install_path \in Paths
  /\ game \in Products

\* The check spinner turns only while an answer is on its way, also when
\* checks overlap, fail before asking, or are answered from the cache.
CheckingHasFetch == checking_update => fetch # None

\* What is offered belongs together: the address leads to the release shown,
\* and an offer always comes with both.
OfferConsistent ==
  /\ download_url = remote_version
  /\ new_version => remote_version # None

\* An update is offered to a known installed version only if it is newer,
\* whatever was downloaded or checked while the answer was on its way.
OfferIsNewer ==
  new_version /\ local_version # None => remote_version > local_version

\* Each check ends.
CheckEnds == checking_update ~> ~checking_update

\* Downloads keep the promises of DownloadJob.
Job == INSTANCE DownloadJob WITH succeeded <- dl.finished, product <- game
ImplementsDownloadJob == Job!Spec

\* The comparison of game_update.cpp:104 is only reached with a parsed local
\* version, which is what the guard of lines 81-84 is there for.
LocalVersionKnownAtComparison ==
  fetch # None => (fetch.installed => local_version # None)
=============================================================================

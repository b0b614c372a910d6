# A formal model of Cubed Launcher

Cubed Launcher is a Qt program. It installs and starts the game Cubed, installs
and runs two tunnelling tools (frpc and easytier-core) for multiplayer, updates
itself, and backs up the player identity to a WebDAV server. This directory
holds TLA+ models of its stateful parts, the TLC configurations that check them
and TLAPS proofs of their main properties.

Paths like `tool/mirror.cpp` are relative to `src/src/`; `qml/...` stands for
`src/qml/...`. The Linux build is modelled, and of the Windows build the launch
with elevation.

## 1. The system

Everything runs on the Qt event loop, except the thread in which the Windows
build waits for the UAC prompt. A handler is therefore atomic and, apart from
that thread, there are no data races. What is hard is the **order** of
handlers: a click, a network answer, the exit of a child process, a timer and a
queued signal can follow each other in any order, and most handlers read state
that was written several handlers earlier.

| Component | State it keeps | Operations | Interacts with | Hard behaviour | What makes it correct |
|---|---|---|---|---|---|
| BinaryServiceBase | state, error, process, elevation flag, reply, directory; files on disk and under temp | check and install, install from URL, change directory, uninstall, launch, stop | release fetcher, network, child process, subclass hooks | a path change or start while a download is under way; a failing step of extraction; process exit inside and outside a call | busy ends; Ready and Running are true; no process or temporary file is lost |
| FrpManager | text of `frpc.toml` | save, start, install hook | base class | a reinstallation over an edited file | editor and file agree; the user's file survives |
| EasyTierManager | address, poll timer, waiting connection, queries | host, join, stop, refresh | base class, pkexec, pkill, easytier-cli | the process runs as root and ignores signals; answers after the exit | polling and the address follow the core |
| FileDownloader | five flags, partial file | start, cancel, succeed, fail | network; GameUpdate, LauncherUpdate | cancelling a reply that has already finished | busy exactly while the reply is in flight |
| GameUpdate | check flag, three versions, address, directory | check, download, cancel, install | fetcher, downloader, `tar` | a check and a download that overlap; an answer from the cache inside the call | the offer is consistent and newer; a check ends |
| GithubReleaseFetcher, JsonCache, selector | one reply, its callback, cached JSON | fetch | GitHub; all who check versions | replaced requests, stale cache, changes of channel | one answer per request, to the one who asked last |
| WebDavBackupManager, WebDavClient | operation, secrets, flags, request | store and clear secrets, test, back up, restore | keyring, identity file, server | time-outs after the server has acted; changes under a request | one operation at a time; no secret outlives its use; a usable identity is never lost |
| IdentityManager, BackupCrypto, SecretStore | identity file, keyring | import, export, replace; seal, open; read, write | WebDavBackupManager | partial write, locked keyring | all or nothing |
| CubedGame | process list, version, directory | start, query version | the game; GameUpdate | a version answer of an earlier directory | the version belongs to the directory |
| LauncherUpdate | as GameUpdate | check, download, start the installer | fetcher, downloader | quitting after the installer has started | the launcher ends only if the installer runs |
| Elevated launch (Windows, part of BinaryServiceBase) | state shared with a thread, process handle, stop request, timer | launch, stop, tick, destroy | UAC prompt, worker thread | a stop, path change or exit while the prompt is open; who closes the handle | every handle has one owner; a stop is honoured; no process survives the destructor of the service, as long as the thread runs on |
| Mirror | latencies, their cache file, probes in flight | a measuring round, forced or from the cache | JsonCache, network, dialog | rounds that overlap; results measured at different times in one file | no latency is shown that is too old |
| SemanticVersion | none | parse, compare | version checks | pre-release precedence | a total order |
| Settings | preferences in an INI file, GitHub token in the keyring | one setter per preference; clear the cache; choose the release channel | LauncherUpdate, caches | the channel changes under a check | a preference is what was set last |
| GitHubAuth, paths, log, AnsiTextFormatter, `main`, QML | none | | | | |

`PROJECT.json` lists all of them with their status, and the hazards at the line
of code where each bites.

## 2. The modules

```
BinaryService ---+--> FrpManager ------> MCFrpManager        (runs)
  |              |      `-> FrpManagerProofs --+
  |              +--> EasyTierManager --> MCEasyTierManager  (runs)
  |                     `-> EasyTierManagerProofs --+
  `-> BinaryServiceProofs (lemmas both use) <-------+
ManagedTool <--(refined by)-- FrpManager, EasyTierManager
FileDownloader -+---> GameUpdate ------> GameUpdateProofs
                `---> LauncherUpdate --> LauncherUpdateProofs
DownloadJob <--(refined by)-- GameUpdate, LauncherUpdate
SemanticVersion -+-> ReleaseFetcher -+-> LauncherRelease --> MCLauncherRelease (runs)
JsonCache -------'                   |     |      `-> LauncherReleaseProofs
  |               LauncherUpdate ----'     `--(refines)--> LauncherUpdate
  `-> Mirror
ElevatedLaunch -----> ElevatedLaunchProofs
WebDavBackup -------> WebDavBackupProofs
IdentityVault <--(refined by)-- WebDavBackup
CubedGame
```

The convention is the same everywhere. An object of the program is a record
(`svc`, `dl`, `mgr`) with one field per member the properties need. A method
that other methods call is an operator from records to records, or to the set
of records it may end in; it keeps its C++ name. A function the event loop
enters (a slot, a button, a callback) is an action, so that everything it calls
is part of one step. Operators marked *Mutation* in a comment are not part of
the model: each is a plausible bug, which some property must find when it
takes the place of the operator after it.

### BinaryService, FrpManager, EasyTierManager, ManagedTool

`svc` is the `BinaryServiceBase` object together with the processes it has
started; `disk[d][f]` says whether file `f` of install directory `d` is absent,
came from an archive or was edited; `temp` holds what the service has left in
the temporary directory.

| Code (`multiplayer/binary_service_base.cpp`) | Model |
|---|---|
| `check_and_install`, its fetch callback | `check_and_install`, `on_release_fetched`; a fresh cache entry makes the callback part of the first |
| `install_from_url`, `start_download` | `install_from_url`, `start_download` |
| the lambda on `finished` of the reply, `extract_archive` | `on_download_finished`, `extract_archive`, `install_binaries` |
| `set_install_path`, `reset_install` | the actions of the same names |
| `launch_process`, `stop_process` | `launch_process` and `try_launch`, `stop_process` |
| `on_process_finished`, `on_process_error` | `finished`, `process_gone` |

The subclasses pass in what their `install_binaries_impl` may leave behind
(`install_outcomes`, file by file) and complete each action with what their
hooks do. In `EasyTierManager` a process has rights: "pkexec" while the polkit
dialog is open, then "root", which our signals do not reach. Stopping such a
core starts `pkexec pkill` and returns; `kills` counts the requests that wait
for the user. `asking` and `answered` split a query of `easytier-cli` into the
process and the handler that reads it, since the core can exit between the two.

`ManagedTool` is the abstract specification of a page that installs and runs a
tool. It knows the chosen directory, the directories in which the tool is
complete, whether a release or an archive is on its way, the rights and the
directory of the one process, and the single word the page shows. There are
no files, no error flag, no temporary directory, no process identities and no
polling. It promises that a process is only started from a directory where the
tool is complete, one at a time; that an installation fills the directory
chosen when it ends and no other; that Running is only taken away by the end of
the process, a move, an uninstallation, a failure, or the answer of a release
check or a download that was under way; that a process of the
user's has ended when the directory changes, while one of root's may outlive
that; and that every request that was sent ends. `BinaryService` defines the
mapping: `shown` puts Checking, Downloading and Extracting together as Busy,
`complete` asks for every required file, `managed` is the live process, if there
is one. `FrpManager` implements all of it, liveness included. `EasyTierManager`
states no fairness (it would only repeat what `frp` shows of the same base class)
and implements `Tool!Init /\ [][Tool!Next]_(Tool!vars)`.

### FileDownloader, GameUpdate, LauncherUpdate, DownloadJob

`dl` is the `FileDownloader`, `archive` its file. `cancel` has two outcomes:
`abort()` emits `finished` inside the call, or finds a reply that has already
finished, whose signal the event loop still holds. `GameUpdate` adds the
version check, with its answer in the call (cache) or later, and the handler of
`download_complete`. Versions are `1 .. MaxVersion`; `None` is an empty
`std::optional`. Reading an empty optional (`game_update.cpp:104`) is undefined:
`is_newer` lets the comparison give either answer.

`DownloadJob` is the abstract specification: one job at a time; it ends; a
cancelled one cannot succeed; only the completion of a job changes the product.
`GameUpdate` implements it under `job`, which reads `dl`, with the installed
game as the product. So does `LauncherUpdate`, with the started installer: the
same downloader, a simpler check (no spinner, a local version that never
changes), and `quit()` at the end. `LauncherUpdate` stops there, which is why
its run checks no deadlock; what Qt still delivers between `quit()` and the end
of the event loop is left out.

### SemanticVersion, JsonCache, ReleaseFetcher, LauncherRelease

`GameUpdate`, `LauncherUpdate` and `BinaryService` take any answer of the release
check for possible. `ReleaseFetcher` says where the answer comes from: `reply`
is the request in flight with the channel it asks for, `cache` one file per
channel. A file has an age instead of a time stamp, and may be `Garbage`, since
`JsonCache::write()` truncates it in place. `selectGithubRelease` is the loop
over the releases GitHub lists, as a recursive function, with the parser and
the order of precedence of `SemanticVersion`. A version is the sequence of
its characters there; everywhere else it is its rank, its place in the constant
`Version`, which lists the versions in ascending order. That `Version` is in
order is an assumption (`FetcherAssumption`), evaluated with the code's own
`comparePrecedence`. `InitFetcher` starts from whatever earlier sessions have left
in the files: answers of any age, parts of one, or nothing.

`LauncherRelease` extends `LauncherUpdate`, so that both are about the same
variables, and replaces its version check by one that asks the fetcher. The
setting of the channel is part of it, since the switch starts a check, and so
are `Settings.clear_cache()` and the clock. A file keeps the version selected and
none of the rest of the release, neither its flag nor its rivals, so two history
variables remember them: `origin[c]` is the list a fresh file of channel `c` was
made from, `heard` the list behind what the last check was answered, directly or
out of a file. What may be offered (`Eligible`) is then said of the releases GitHub listed:
a release that is only marked as a pre-release is noticed in an offer that comes
out of the cache just as well. `ImplementsLauncherUpdate`
is the specification of `LauncherUpdate` itself, whose assumptions about the
fetcher are thereby justified.

### ElevatedLaunch

`launch_elevated_windows()` starts a thread, because `ShellExecuteEx` blocks
while the prompt is open. `worker[l]` is where the thread of launch `l` is,
`shared[l]` the `ElevatedLaunchState` that the thread and the service share, and
`elevated_handle` the handle the service has taken over. The fields that both
sides write are published by `done`, so the thread takes one step for what it
writes before and one for `done`. `on_elevated_tick()` is `TakeResult` and
`NoticeExit`, a tick with nothing to do being no step; `Destroy` is the
destructor, after which the thread may go on. `wanted` is a history variable:
no stop since the last start that was accepted.

### CubedGame, Mirror

`query[q]` is the directory whose program a `check_version()` process runs. A
process answers in any order, with a version or with nothing, or fails, which
is only logged. `live` and `processes` are the game's processes and the list of
them, which follow the signals `started` and `finished`.

In `Mirror` a latency is the time since it was measured: how many milliseconds
it was plays no part in the rounds. `emissions` are queued calls of
`latencyReady`, `pendingTests` the counter of the dialog.

### WebDavBackup, IdentityVault

`mgr` is the manager, `client` the request in flight with the password it
carries, `keyring` what libsecret holds, `identity` the file, `remote` the
copies on the server. A sealed copy is a record of an identity and the
passphrase it was sealed with; `decrypt` gives the identity back for this
passphrase alone. The server acts (`ServerAnswers`) before the request ends
(`RequestFinished`), which may fail all the same. `OtherDevice` overwrites any
remote copy at any time. The keyring belongs to the desktop, and `OtherProgram`
stores, replaces or removes secrets behind the manager's back, whose flags
(`password_stored`, `passphrase_stored`) are only read again by its own setters
and by an operation that misses a secret. `clicked` is a history variable: the
passphrase that was stored when the request was clicked. Guards such as `~mgr.busy` are the enabled conditions
of `qml/Tab/Setting.qml`: the C++ setters do not test them, and the model
shows what depends on that.

`IdentityVault` is the abstract specification: an identity, a vault with one
place per account, a passphrase, one task and the report of the last. A backup
puts the identity and the passphrase *of the click* into the vault, at most
once; a restoration brings the identity of a copy that the account held after
the click and that the passphrase *of the click* opens, which the task carries
as its key; success is not reported for
less, and every task ends. `vault_task` is the mapping: the task is the operation
of the manager, for a backup with the body its client carries, for a restoration
with the passphrase in memory, and it is done once the server has answered. The lock state of the keyring, the flags, the
secrets in memory and the way a request fails are hidden.

## 3. The runs

| Run | Question | Distinct states | Result |
|---|---|---|---|
| `frp` | does the install and run state machine stay consistent, does `frpc.toml` survive, and does it implement `ManagedTool`? | 2,232 | holds |
| `easytier` | does the same base class cope with a root process, does polling follow the core, and does it implement the steps of `ManagedTool`? | 228,994 | holds |
| `easytier_elevated` | does `was_elevated()` say what its comment says? | | violated |
| `easytier_ip` | is the address gone with the core? | | violated |
| `game_update` | do overlapping checks and downloads keep the offer and the game consistent, and implement `DownloadJob`? | 5,858 | holds |
| `game_update_deref` | is the comparison only reached with a local version? | | violated |
| `launcher_update` | is the offer the newest of the releases GitHub listed that the channel chosen may have, whatever is in the cache and whatever the order of answers, does the launcher end only for an installer it started, and does it implement `DownloadJob` and `LauncherUpdate`? | 90,861 | holds |
| `elevated` | who owns a process started through the UAC prompt, and is a stop honoured that comes before the answer, and does the destructor leave no process behind while the thread runs on? | 26,920 | holds |
| `mirror_ttl` | is no cached latency shown that is older than the time to live? | | violated |
| `cubed_version` | does the version belong to the directory shown? | | violated |
| `webdav` | one operation at a time, secrets no longer than needed, a faithful restoration, no harm from flags that another program has made stale, and does it implement `IdentityVault`? | 158,976 | holds |
| `webdav_playing` | is the identity left alone while the game runs? | | violated |

### Bounds

* `Paths = {d1, d2}`: every path change is between two directories and only the
  current and the former one matter.
* `Procs = {p1, p2}`: one process is managed; a second identity is what an
  orphan needs. `NoOrphanProcess` shows that a third would never be used.
* `MaxCli = 1`, `MaxKills = 1`: one late answer, and one late `pkill` per
  directory. They guard `refresh_virtual_ip` and `Stop`; the proofs hold for
  every bound.
* `MaxVersion = 2` (`GameUpdate`), `3` (`LauncherRelease`): older, equal, newer.
  The proofs hold for every `MaxVersion`.
* `Version` is 1.9.0, 1.10.0-b.2, 1.10.0-b.11: two pairs that a comparison of
  texts gets wrong, and a pre-release that is newer than every release. `Lists`
  are ten lists, with each reason to skip a release (draft, no asset, a tag that
  is no version, a leading zero, a pre-release by its flag alone or by its
  version alone) placed where taking it would be noticed. The proofs hold for
  every `Version` in order and all lists.
* `Ttl = 1`: ages 0, 1 and too old. The clock is never set back.
* `Launches = {l1, l2}`: one launch whose thread or process is left over from an
  earlier start, and one that is current.
* `Mirror`: two mirrors (one replayed, one probed), one reply in flight for each
  and as many queued results as there are mirrors. `CubedGame`: two directories,
  two versions and two queries. These runs are violated: a bound could only
  hide more.
* WebDAV: two accounts, two passphrases and two identities, so that each can be
  mistaken for the other.

No symmetry is used: the runs with liveness could not, and the others are small.

Deadlock checking stays on except for `launcher_update` and `elevated`, where
the launcher ends: elsewhere some user action is always possible.

### Fairness

Only answers to requests that were sent are fair: `ReleaseFetched`,
`ReleaseAnswered`, `DownloadFinished`, `ReplyFinished`, `RequestFinished`. In
`ElevatedLaunch` the timer fires, threads are scheduled, and Windows closes a UAC
prompt that nobody answers. Clicks, exits and the user's answer to a
polkit prompt are not fair. For WebDAV the code
justifies this by itself: `setTransferTimeout` ends a silent request after
30 s (`tool/webdav_client.cpp:89`). The requests of `GithubReleaseFetcher`,
`FileDownloader` and `BinaryServiceBase` set no transfer timeout: that they end
is an assumption about the network, and a server that stops sending without
closing the connection keeps the program busy. `GameUpdate` has a cancel button
for that; `BinaryServiceBase` has none.

That a busy page comes to an end follows, in `frp`, from `ImplementsManagedTool`:
in `ManagedTool` each fetch and each download, once under way, ends, and the page
is Busy only while one of them is. Path changes count as an end:
`detect_install()` overwrites the busy state while the download goes on, so that
the question is whether the state can come back to stay, for instance through a
second `check_and_install` that finds `m_download_reply` set.

## 4. What the violated runs show

1. **`easytier_elevated`**: `stop_process()` clears `m_launch_elevated` even if
   the process, running as root, survived. `set_install_path()` and
   `reset_install()` call it on a running core. Then `was_elevated()` is false
   for an elevated process, contrary to `binary_service_base.hpp:94-96`;
   `stop()` takes the path that cannot end it.
2. **`easytier_ip`**: the handler of `easytier-cli` stores the address even if
   the core has exited meanwhile and the address has been cleared.
3. **`game_update_deref`**: two overlapping checks, or a check and a download,
   reach `*m_remote_version > *m_local_version` with `m_local_version` empty,
   which the guard at `game_update.cpp:81-84` means to exclude.
4. **`webdav_playing`**: "Exit Cubed before backing up or restoring the player
   identity" (`qml/Tab/Setting.qml:345`) is enforced when the button is
   clicked, not when the answer replaces the file; the game can be started
   between the two.

5. **`mirror_ttl`**: a round that replays cached latencies and probes the other
   mirrors writes all of them back, and the file gets the present time. The old
   latencies count as new and outlive the time to live.
6. **`cubed_version`**: a query of the version is neither ended nor forgotten
   when the directory changes. Its answer comes last and is shown, and the
   button Start enabled, for another directory.

Other things worth knowing, for which nothing in the repository claims the
contrary and no property is stated:

* Stopping an elevated core through `pkill` ends in the Error state:
  `errorOccurred` comes before `finished`, and `on_process_finished` only
  leaves Running.
* A path change or uninstallation does not abort a download under way: when it
  ends, the tool is installed into the directory that is current then.
* A `pkill` whose prompt is answered late ends a newer core from the same path.
* After installing from a typed address, `m_local_version` becomes the version
  that was offered, not the one that was installed.
* An upload may be reported as failed although the server stored the copy, and
  an identity may be imported while an upload of the former one is in flight.
* During a UAC prompt, a path change or uninstallation does not ask for a stop:
  the process that is allowed then runs from the former directory.
* A start refused because a prompt is open shows Error; the answer to that
  prompt may turn it into Running. The comment at
  `binary_service_base.cpp:301` says that the worker checks the stop request;
  the tick does.
* An elevated process that is stopped on Windows is forgotten without
  `on_process_finished()`, so the virtual address stays.
* When another program removes a WebDAV secret, the page goes on saying
  "Password saved" (`qml/Tab/Setting.qml:302`) or "Stored securely" (`:319`) until
  an operation misses the secret. The text is all there is to it: that is
  `StaleFlagsAreHarmless`.
* A content check is missing for cached JSON that parses but is not a release.

## 5. What is proved

TLAPS proves 50 theorems (listed in `PROJECT.json`), for any constants that
satisfy the named assumptions: any finite or infinite sets of directories,
processes, launches, accounts, passphrases and identities, any bounds. The
assumptions are that model values differ from real ones (`ServiceAssumption`,
`GameUpdateAssumption`, `LauncherUpdateAssumption`, `LaunchAssumption`,
`WebDavAssumption`), which files each tool has (`FrpFiles`, `EasyTierFiles`), that
bounds are numbers (`JsonCacheAssumption` and others), that `Version` is in the
order of precedence (`FetcherAssumption`), that lists hold releases of these
versions (`ListsAssumption`), and that both parts of `LauncherRelease` mean the
same versions (`LauncherReleaseAssumption`). TLC evaluates them on every run.

**BinaryServiceProofs** holds the lemmas on the base class. The properties of
`ServiceInv` are not inductive one by one, because handlers pass intermediate
records to each other that satisfy only some of them: `start_download` sets
"Downloading" on a record that still says "Checking", `finished` goes through
the error state. The lemmas therefore speak of records, in three parts. `Core`
(types, `NoOrphanProcess`, Running implies alive, the elevation flag, the error
flag, Ready implies installed) holds in each intermediate record. `Driven`
(busy states have a driver) and `Clean` (temporary files) hold at handler
boundaries and are re-established by whoever ends the handler. There is one
lemma per operator of the model, which the proofs for both subclasses cite.

The second half of the module is about `ManagedTool`. Each operation of the base
class is first reduced to what becomes of the fields the page depends on
(`StartDownloadFields`, `FinishedFields`, `StopProcessFields`, `StoppedFields`), since
a stop inside another call sets Error or Ready and then another state, of which
the page shows only the last. Then there is one lemma per operation that says
which step of `ManagedTool` it is, so that a subclass only has to show that its
hooks change neither the page nor the required files. `ToolIsHonest` closes the
circle: the few lines of `ManagedTool` imply what `ServiceInv` says of the state
shown (Running has a process, Ready a complete tool, Busy an answer to come).

**FrpManagerProofs** adds `TomlInSync`: `FrpInv` is `Good` (the three parts)
with `TomlInSync`. `TomlPreserved`, an action property, follows because only
`DownloadFinished`, `SaveToml` and `ResetInstall` write to the disk and
`install_outcomes` keeps a file that is there. `FrpRefinesTool` is the safety
half of `ImplementsManagedTool`: saving `frpc.toml` is the abstract `Edit` (it may be
the file that completes the tool), `Fail`, or a stutter where frpc is missing.

**EasyTierManagerProofs** adds the counters, the flags and
`PollingOnlyWhileRunning`. The argument for the latter is that a live core is
the managed one (`NoOrphanProcess`), so that every step in which the managed
process ends passes through `on_process_finished`. `EasyTierRefinesTool` proves the
whole of `ImplementsManagedTool`: a `pkill` that reaches the core is the abstract
`End`, polling and queries are stutters.

**GameUpdateProofs**: `TransferInv` (busy iff a reply is in flight, and
`cancelling` only then) and `CheckInv`. `OfferIsNewer` needs a strengthening:
an answer may arrive for an installed game whose local version became empty and
then non-empty again. `FetchHasNoRelease` says that, while a fetch is under
way, no release is shown, so that the assignment
`m_local_version = m_remote_version` cannot create a wrong offer. The theorem
`GameUpdateRefinesJob` is the safety half of `ImplementsDownloadJob`.

**LauncherUpdateProofs** has the same shape and two strengthenings: a reply in
flight brings some version (else the step that ends the launcher would not know
that there is an installer), and a check is only under way for a launcher that
knows its version (else a late answer would be compared with nothing).

**LauncherReleaseProofs** first shows that each step of `LauncherRelease` is a
step of `LauncherUpdate` or a stutter (`SystemRefinesLauncher`). That the callback
is held exactly as long as the reply it waits for is what the mapping needs: a
check that replaces another must replace both. `QuitsForInstaller` and
`OfferIsNewer` then follow from the proofs about `LauncherUpdate`, without a new
invariant. `ChannelInv` is one: the reply in flight is for the channel now
chosen; every fresh file holds what `selectGithubRelease` makes of its `origin`
for the channel it is named after (`Backed`); and the offer is what it makes of
`heard` for the channel chosen. That cannot do without the files: an offer may
come from a file written many checks ago, or in an earlier session.
`OfferInChannel` follows because a selected version belongs to a usable release
of the list, by flag and by version. `OfferIsBest` also needs `SelectionIsGreatest`: what the loop selects is the
greatest usable version, for a list of any length. Its function is recursive
over the numbers `0 .. Len(releases)`; that it exists and takes the values its
equation says is stated in the library by theorems with an operator as
parameter, which the provers cannot use. Both this and the induction over the
list are therefore done with sets: `SetInduction` says that a set of numbers with 0 that is closed under
the step holds all, by the existence of least elements. The loop compares with
`comparePrecedence`, and `PrecedenceAntisymmetric` shows that this gives opposite
answers for exchanged arguments: by cases on the first place where two texts,
then two identifiers, then two versions differ. `PrecedenceTransitive` and
`PrecedenceTotal` (equal precedence only for equal versions) make it a total
order. Both are proved from the bottom up, like the comparison itself: `Chain`
says what three comparisons of three things may give, `OrderChain` that this is
so for numbers, `ThenChain` that it survives a second comparison where the first
is a tie, `ListChain` that it passes from the elements to lists of any lengths, by
the first places at which two of them differ. `SystemRefinesJob` composes the two
refinements: the launcher with its real fetcher, the channel switch and the
caches still keeps the promises of `DownloadJob`.

**ElevatedLaunchProofs**: `IInv` adds to `OneOwner` where the state of each
launch can be. A handle is in the hands of the thread until it has been stored,
of the shared state until the tick takes it, of the service after that; a state
that the thread has left and the service has dropped holds none. `StopHonoured`
needs `elevate_stop_requested` to be true whenever a start is pending that is no
longer wanted.

**WebDavBackupProofs**: `WebDavInv` is the type invariant and
`Paired`, a disjunction of two situations: `InFlight` (busy, the client holds
the manager's operation and account, and for a restoration the passphrase in
memory is `clicked`) and `Quiet` (not busy, no request, no
secrets). `RestoreIsFaithful` needs the passphrase part: that the passphrase
which opens the copy is the one stored at the click is a fact about all steps
since then, those of other programs included. `WebDavStaleFlags` takes the three
parts of `StaleFlagsAreHarmless` one by one: a request is only sent with secrets
that `credentials_loaded` has read in the same step; an operation that is not sent
for want of one has read the flags again; and every step that changes the manager
keeps the flags or reads them again. `WebDavRefinesVault` is the safety half of `ImplementsVault`. Besides
`WebDavInv` it needs `Unanswered`: without a request there is no answer left
over, so that no operation begins as one that is already done.

So every safety property of a passing run is proved as well. Only
model-checked are liveness (`CheckEnds`, `PendingEnds`), the fairness halves of
`ImplementsDownloadJob`, `ImplementsLauncherUpdate`, `ImplementsManagedTool` (of `frp`)
and `ImplementsVault`, and the violated runs. Liveness and ENABLED are beyond the prover.

## 6. What is not modelled

* Of the Windows build: the quoting of arguments and the hooks of
  `EasyTierManager`. In `ElevatedLaunch` `TerminateProcess` succeeds, and the end of
  the launcher's own process, which ends the detached thread wherever it is, is left out.
* Closing the launcher, except for the destructor in `ElevatedLaunch`: a
  temporary archive then stays, and the destructor of `EasyTierManager` asks for
  a last `pkill`.
* The exit of a process and the event that reports it are one step. The wait
  of `stop_process()` (3 s, then `kill()`) is one step with two outcomes.
  `waitForStarted` succeeds or fails; its time-out with a process that starts
  later is left out. pkexec replaces itself by the program, with the same pid.
* `removeRecursively()` succeeds. Two installations never share a directory.
* Progress, error texts, log output, room codes, the list of public servers.
* The game itself does not write `identity.json`, and export, which writes a
  file the launcher never reads again, is no action.
* Several single-shot connections of repeated failed starts are one flag
  (`hook`): the first to fire and the last have the same effect.

* `Settings` beyond the cache and the channel: one INI key per setter, written
  through, with nothing that interleaves. The GitHub token goes through
  `SecretStore` as the WebDAV secrets do.
* Changes of the keyring by other programs fall between two handlers; in the
  code one could also fall between the two reads of `load_credentials()`.
* `save_toml()` truncates `frpc.toml` and does not look at the result of
  `write()`: that it writes the whole text is assumed. After a short write the
  file would differ from the editor, which `TomlInSync` says it does not.
* The server deals with a request at most once. Qt may send a request anew over
  a connection that broke, so that a copy could be stored twice; the "at most
  once" of `IdentityVault` rests on this assumption.
* A release file of an earlier session holds what `selectGithubRelease` would
  have selected from some list, for the channel in its name: one written by a
  launcher with another rule, or by hand, is left out.
* A sealed copy that decrypts holds a valid identity: no other program seals
  anything else with a passphrase of the user's.
* `AnsiTextFormatter`, paths, system information and logging: conversions and
  output of one call, whose result nothing else depends on.
* That a system clock may be set back, which makes a cache entry fresh again.

## 7. Plan

Done, in this order: the base class with both tools (the largest shared state
machine), the downloader with both of its users (overlapping requests), the
identity backup (secrets, failure after the fact); then the release check with
its cache, channel and order of versions, composed with its user; the elevated
launch on Windows; the version query of the game; the rounds of the mirrors.

The abstract specifications came along with these: `DownloadJob` for the downloader,
`IdentityVault` for the backup, `ManagedTool` for both tools, each with its
refinement proved; and the order of versions was proved total.

What is left:

1. `EasyTierManager` on Windows: `ElevatedLaunch` with the hooks, polling and the
   address, which a stop does not clear there.
2. `ReleaseFetcher` composed with `BinaryService` and `GameUpdate`, which for now
   take any answer for possible.
3. The GitHub token of `Settings` in the keyring, and `AnsiTextFormatter` as a pure
   module, if there is anything to say.

--------------------------- MODULE LauncherRelease ---------------------------
(***************************************************************************)
(* LauncherUpdate together with the GithubReleaseFetcher it asks, the      *)
(* cache of that fetcher and the setting that chooses the channel.         *)
(* LauncherUpdate by itself takes any answer for possible; here an answer  *)
(* comes from a list of releases, for a channel, directly or from a file.  *)
(***************************************************************************)
EXTENDS LauncherUpdate, ReleaseFetcher

\* The versions and the absent one are the same for both parts.
ASSUME LauncherReleaseAssumption == Versions = Ranks /\ None = NoRelease

VARIABLES
  channel,  \* Settings.prereleaseUpdates
  origin,   \* history: origin[c], the list a fresh file of c was made from
  heard     \* history: the list behind what the last check was answered

history == <<origin, heard>>
systemVars == <<vars, fetcherVars, channel, history>>

NoList == <<>>

\* The history of the files after a step: what has become stale or has gone is
\* forgotten, and what has been written comes from the list of the answer.
origin_after(releases) ==
  [c \in Channels |-> IF ~fresh(cache'[c]) THEN NoList
                      ELSE IF cache'[c] = cache[c] THEN origin[c]
                      ELSE releases]

origin_still ==
  [c \in Channels |-> IF fresh(cache'[c]) THEN origin[c] ELSE NoList]

SystemInit ==
  /\ Init
  /\ InitFetcher
  /\ channel \in Channels
  /\ origin \in [Channels -> Lists \cup {NoList}]
  /\ \A c \in Channels :
       IF fresh(cache[c])
         THEN origin[c] \in Lists /\ cache[c].data = selectGithubRelease(origin[c], c)
         ELSE origin[c] = NoList
  /\ heard = NoList

\* check_update(), with what its call of fetch() does.
check_update(c) ==
  LET d == clear_error_state(dl)
  IN  /\ running
      /\ \/ /\ local_version = None
            /\ check_refused(d)
            /\ UNCHANGED fetcherVars
            /\ heard' = NoList
         \/ /\ local_version # None
            /\ fetch_sent(c)
            /\ check_sent(d)
            /\ heard' = NoList
         \/ /\ local_version # None
            /\ \E text \in Versions : fetch_cached(c, text) /\ on_release(text, d)
            /\ fetching' = FALSE
            /\ heard' = origin[cache_name(c)]
      /\ origin' = origin_still
      /\ UNCHANGED <<archive, local_version, delivers, installer, running>>

Check == check_update(channel) /\ UNCHANGED channel

\* The switch on the settings page stores the setting and checks anew.
ToggleChannel ==
  \E c \in Channels \ {channel} : channel' = c /\ check_update(c)

\* The answer of GitHub, handed to the callback of the last check.
ReleaseAnswered ==
  /\ running
  /\ fetching' = FALSE
  /\ \/ \E releases \in Lists, v \in Versions :
          /\ answered(releases, v)
          /\ on_release(v, dl)
          /\ heard' = releases
          /\ origin' = origin_after(releases)
     \/ answered_error /\ dl' = set_error_state(dl) /\ UNCHANGED <<offer, history>>
  /\ UNCHANGED <<archive, local_version, delivers, installer, running, channel>>

\* The downloads are those of LauncherUpdate.
Transfer ==
  /\ Download \/ CancelDownload \/ ReplyFinished
  /\ UNCHANGED <<fetcherVars, channel, history>>

ClearCache ==
  /\ running
  /\ clear_all
  /\ origin' = origin_still
  /\ UNCHANGED <<vars, channel, heard>>

Clock ==
  /\ running
  /\ TimePasses
  /\ origin' = origin_still
  /\ UNCHANGED <<vars, channel, heard>>

SystemNext ==
  \/ Check \/ ToggleChannel \/ ReleaseAnswered
  \/ Transfer
  \/ ClearCache \/ Clock

\* As for LauncherUpdate: requests that were sent are answered.
SystemFairness ==
  /\ WF_systemVars(ReleaseAnswered)
  /\ WF_systemVars(ReplyFinished /\ UNCHANGED <<fetcherVars, channel, history>>)

SystemSpec == SystemInit /\ [][SystemNext]_systemVars /\ SystemFairness

-----------------------------------------------------------------------------

\* The callback is held exactly as long as the reply it waits for.
SystemTypeOK ==
  /\ TypeOK
  /\ FetcherTypeOK
  /\ channel \in Channels
  /\ origin \in [Channels -> Lists \cup {NoList}]
  /\ heard \in Lists \cup {NoList}
  /\ fetching <=> reply # "none"

\* The releases of a list that may be offered on a channel: published, to be
\* installed, and on "stable" a pre-release neither by the flag GitHub keeps
\* nor by the version.
Eligible(releases, c) ==
  {i \in DOMAIN releases :
     /\ ~releases[i].draft /\ releases[i].asset
     /\ c = "stable" => ~releases[i].prerelease
     /\ \E v \in Ranks : /\ SV!parse(releases[i].tag) = Version[v]
                         /\ c = "stable" => Version[v].prerelease = <<>>}

\* "enforce the selected channel from both data sources"
\* (github_release_selector.cpp:22): what is offered is the version of a release
\* that GitHub listed and that may be offered on the channel chosen now: not one
\* of the former channel, whose check was under way, nor out of a file written
\* for it, in this session or an earlier one.
OfferInChannel ==
  remote_version # None =>
    \E i \in Eligible(heard, channel) : SV!parse(heard[i].tag) = Version[remote_version]

\* No release of that list that may be offered is greater: not when the answer
\* comes from GitHub, and not when it comes out of a file.
OfferIsBest ==
  remote_version # None =>
    \A i \in Eligible(heard, channel), v \in Ranks :
      SV!parse(heard[i].tag) = Version[v] => v <= remote_version

\* The fetcher is what LauncherUpdate takes it for: it answers a check at most
\* once, inside the call or later, never after a newer check has taken its
\* place, and in the end.
ImplementsLauncherUpdate == Spec
=============================================================================

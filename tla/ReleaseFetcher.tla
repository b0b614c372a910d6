--------------------------- MODULE ReleaseFetcher ---------------------------
(***************************************************************************)
(* GithubReleaseFetcher with its cache, and the choice it makes among the  *)
(* releases GitHub lists.  One fetcher: each user has its own, under a     *)
(* cache name of its own.                                                  *)
(***************************************************************************)
EXTENDS JsonCache, Integers, Sequences

CONSTANTS
  Version,   \* the versions there are, in the order of precedence
  Lists,     \* the lists of releases GitHub may answer with
  NoRelease  \* an empty optional

SV == INSTANCE SemanticVersion

Ranks == DOMAIN Version

\* The place of a version in Version stands for it.  A Version that is not in
\* the order of precedence would contradict this.
ASSUME FetcherAssumption ==
  /\ Version \in Seq(SV!SemVer)
  /\ \A v, w \in Ranks : SV!comparePrecedence(Version[v], Version[w]) = SV!order(v, w)
  /\ NoRelease \notin Ranks

\* A release as GitHub lists it; a tag may hold any characters.
Releases ==
  LET texts == Seq(Seq(Int))
  IN  [tag : [core : texts, prerelease : texts, build : texts, parts : SUBSET {"-", "+"}],
       draft : BOOLEAN, prerelease : BOOLEAN, asset : BOOLEAN]

\* Every version that is listed is one of Version.
ASSUME ListsAssumption ==
  /\ Lists \subseteq Seq(Releases)
  /\ \A releases \in Lists : \A i \in DOMAIN releases :
       SV!parse(releases[i].tag) \in {SV!NoVersion} \cup {Version[v] : v \in Ranks}

Channels == {"stable", "prerelease"}

VARIABLES
  reply,  \* the channel m_reply asks for, or "none"
  cache   \* the file of each channel

fetcherVars == <<reply, cache>>

FetcherTypeOK ==
  /\ reply \in Channels \cup {"none"}
  /\ cache \in [Channels -> Files(Ranks)]

-----------------------------------------------------------------------------
(* The choice *)

\* Mutation: the flag GitHub keeps is not looked at.
in_channel_unflagged(release, version, channel) ==
  channel = "stable" => ~SV!isPrerelease(version)

\* A release is a pre-release by its flag or by its version.
in_channel(release, version, channel) ==
  channel = "stable" => ~release.prerelease /\ ~SV!isPrerelease(version)

usable(release, channel) ==
  LET version == SV!parse(release.tag)
  IN  /\ ~release.draft
      /\ version # SV!NoVersion
      /\ in_channel(release, version, channel)
      /\ release.asset  \* one of its assets matches, and has an address

\* Mutation: the last usable release is taken.
better_last(release, selected) == TRUE

\* The loop replaces what it has only by something greater.
better(release, selected) ==
  \/ selected = SV!NoVersion
  \/ SV!comparePrecedence(SV!parse(release.tag), selected) = 1

\* The version selected after each release of the list.
selected_after(releases, channel) ==
  LET after[n \in 0 .. Len(releases)] ==
        IF n = 0 THEN SV!NoVersion
        ELSE IF usable(releases[n], channel) /\ better(releases[n], after[n - 1])
          THEN SV!parse(releases[n].tag)
          ELSE after[n - 1]
  IN  after

selectGithubRelease(releases, channel) ==
  LET selected == selected_after(releases, channel)[Len(releases)]
  IN  IF selected = SV!NoVersion THEN NoRelease
      ELSE CHOOSE v \in Ranks : Version[v] = selected

-----------------------------------------------------------------------------
(* A request *)

cache_name(channel) == channel

\* Mutation: an answer from the cache leaves the earlier request alone.
fetch_cached_keeping(channel, v) ==
  /\ fresh(cache[cache_name(channel)])
  /\ v = cache[cache_name(channel)].data
  /\ UNCHANGED fetcherVars

\* fetch() drops the reply of an earlier request, so that its finished signal
\* finds no receiver, and answers from the cache if it can.
fetch_cached(channel, v) ==
  /\ fresh(cache[cache_name(channel)])
  /\ v = cache[cache_name(channel)].data
  /\ reply' = "none"
  /\ UNCHANGED cache

\* Otherwise it asks GitHub.
fetch_sent(channel) ==
  /\ ~fresh(cache[cache_name(channel)])
  /\ cache' = [cache EXCEPT ![cache_name(channel)] = file_read(@)]
  /\ reply' = channel

\* The handler of finished, for a list with a usable release in it.
answered(releases, v) ==
  /\ reply # "none"
  /\ v = selectGithubRelease(releases, reply)
  /\ \E file \in file_written(cache[cache_name(reply)], v) :
       cache' = [cache EXCEPT ![cache_name(reply)] = file]
  /\ reply' = "none"

\* The reply failed, is not a list, or has nothing usable in it.
answered_error ==
  /\ reply # "none"
  /\ reply' = "none"
  /\ UNCHANGED cache

\* Settings.clear_cache() removes the whole directory.
clear_all ==
  /\ cache' = [c \in Channels |-> NoFile]
  /\ UNCHANGED reply

TimePasses ==
  /\ cache' = [c \in Channels |-> file_older(cache[c])]
  /\ UNCHANGED reply

\* The launcher starts over whatever earlier ones have left: an answer of any
\* age for the channel the file is named after, a part of one, or nothing.
InitFetcher ==
  /\ reply = "none"
  /\ cache \in [Channels -> Files(Ranks)]
  /\ \A c \in Channels : cache[c].kind = "entry" =>
       cache[c].data \in {selectGithubRelease(releases, c) : releases \in Lists}
=============================================================================

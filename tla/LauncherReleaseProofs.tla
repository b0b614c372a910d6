------------------------ MODULE LauncherReleaseProofs ------------------------
(***************************************************************************)
(* The launcher's update with a real fetcher behind it does what           *)
(* LauncherUpdate does with any answer: every step of the composition is   *)
(* one of LauncherUpdate, so what is proved there holds here, for any list *)
(* of versions, any answers of GitHub and any life time of the cache.      *)
(*                                                                         *)
(* What is offered then depends on the loop over the releases.  It is      *)
(* proved by induction over a set of numbers, since the induction theorems *)
(* of the library take an operator.  That comparing leads to one greatest  *)
(* version needs a total order, which is proved for all versions.          *)
(***************************************************************************)
EXTENDS LauncherUpdateProofs, LauncherRelease, WellFoundedInduction, NaturalsInduction

\* The reply of the fetcher and the callback of the check come and go together.
FetcherInv ==
  /\ FetcherTypeOK
  /\ channel \in Channels
  /\ origin \in [Channels -> Lists \cup {NoList}]
  /\ heard \in Lists \cup {NoList}
  /\ fetching <=> reply # "none"

SystemInv == LauncherInv /\ FetcherInv

LEMMA SystemInitInv == SystemInit => Init /\ SystemInv
<1> SUFFICES ASSUME SystemInit PROVE Init /\ SystemInv
  OBVIOUS
<1>1. Init /\ LauncherInv
  BY LauncherInit DEF SystemInit
<1>2. FetcherInv
  BY <1>1 DEF SystemInit, InitFetcher, Init, FetcherInv, FetcherTypeOK
<1>3. QED
  BY <1>1, <1>2 DEF SystemInv

-----------------------------------------------------------------------------
(* What happens to a file of the cache *)

LEMMA FileOlder ==
  ASSUME NEW file \in Files(Ranks)
  PROVE  file_older(file) \in Files(Ranks)
<1> USE JsonCacheAssumption
<1>1. CASE file \in {NoFile, Garbage}
  BY <1>1 DEF file_older, NoFile, Garbage, Files
<1>2. CASE file \in [kind : {"entry"}, data : Ranks, age : Ages]
  <2>1. older(file.age) \in Ages
    BY <1>2 DEF older, Ages
  <2>2. QED
    BY <1>2, <2>1 DEF file_older, Files
<1>3. QED
  BY <1>1, <1>2 DEF Files

LEMMA FileWritten ==
  ASSUME NEW file \in Files(Ranks), NEW v \in Ranks
  PROVE  file_written(file, v) \subseteq Files(Ranks)
<1>1. 0 \in Ages
  BY JsonCacheAssumption DEF Ages
<1>2. Entry(v, 0) \in Files(Ranks)
  BY <1>1 DEF Entry, Files
<1>3. Garbage \in Files(Ranks)
  BY DEF Files
<1>4. QED
  BY <1>2, <1>3 DEF file_written

LEMMA FileRead ==
  ASSUME NEW file \in Files(Ranks)
  PROVE  file_read(file) \in Files(Ranks)
BY DEF file_read, Files

LEMMA OriginTyped ==
  ASSUME origin \in [Channels -> Lists \cup {NoList}]
  PROVE  /\ origin_still \in [Channels -> Lists \cup {NoList}]
         /\ \A releases \in Lists : origin_after(releases) \in [Channels -> Lists \cup {NoList}]
BY DEF origin_still, origin_after

LEMMA FileReplaced ==
  ASSUME FetcherTypeOK, NEW c \in Channels, NEW file \in Files(Ranks)
  PROVE  [cache EXCEPT ![c] = file] \in [Channels -> Files(Ranks)]
BY DEF FetcherTypeOK

-----------------------------------------------------------------------------
(* One lemma per action *)

\* A check of either channel: answered from a file, sent, or refused.
LEMMA CheckIsCheckUpdate ==
  ASSUME SystemInv, NEW c \in Channels, check_update(c), channel' \in Channels
  PROVE  CheckUpdate /\ FetcherInv'
<1> DEFINE d == clear_error_state(dl)
<1>1. /\ running
      /\ UNCHANGED <<archive, local_version, delivers, installer, running>>
      /\ origin' \in [Channels -> Lists \cup {NoList}]
      /\ heard' \in Lists \cup {NoList}
  BY OriginTyped DEF check_update, cache_name, SystemInv, FetcherInv
<1>2. CASE local_version = None /\ check_refused(d) /\ UNCHANGED fetcherVars
  <2>1. CheckUpdate
    BY <1>1, <1>2 DEF CheckUpdate
  <2>2. FetcherInv'
    BY <1>1, <1>2 DEF check_refused, fetcherVars, SystemInv, FetcherInv, FetcherTypeOK
  <2>3. QED
    BY <2>1, <2>2
<1>3. CASE local_version # None /\ fetch_sent(c) /\ check_sent(d)
  <2>1. CheckUpdate
    BY <1>1, <1>3 DEF CheckUpdate
  <2>2. cache' \in [Channels -> Files(Ranks)]
    <3>1. file_read(cache[c]) \in Files(Ranks)
      BY FileRead DEF SystemInv, FetcherInv, FetcherTypeOK
    <3>2. cache' = [cache EXCEPT ![c] = file_read(cache[c])]
      BY <1>3 DEF fetch_sent, cache_name
    <3>3. QED
      BY <3>1, <3>2, FileReplaced DEF SystemInv, FetcherInv
  <2>3. fetching' /\ reply' = c
    BY <1>3 DEF fetch_sent, check_sent
  <2>4. FetcherInv'
    BY <1>1, <2>2, <2>3 DEF FetcherInv, FetcherTypeOK, Channels
  <2>5. QED
    BY <2>1, <2>4
<1>4. CASE /\ local_version # None
           /\ \E text \in Versions : fetch_cached(c, text) /\ on_release(text, d)
           /\ fetching' = FALSE
  <2>1. CheckUpdate
    BY <1>1, <1>4 DEF CheckUpdate, check_cached
  <2>2. FetcherInv'
    BY <1>1, <1>4 DEF fetch_cached, SystemInv, FetcherInv, FetcherTypeOK
  <2>3. QED
    BY <2>1, <2>2
<1>5. QED
  BY <1>2, <1>3, <1>4 DEF check_update

\* The answer of GitHub comes while the callback waits for it.
LEMMA AnsweredIsFetched ==
  ASSUME SystemInv, ReleaseAnswered
  PROVE  ReleaseFetched /\ FetcherInv'
<1>1. /\ running /\ fetching' = FALSE
      /\ UNCHANGED <<archive, local_version, delivers, installer, running, channel>>
  BY DEF ReleaseAnswered
<1>2. ASSUME NEW releases \in Lists, NEW v \in Versions,
             answered(releases, v), on_release(v, dl), heard' = releases,
             origin' = origin_after(releases)
      PROVE  ReleaseFetched /\ FetcherInv'
  <2>1. ReleaseFetched
    BY <1>1, <1>2 DEF ReleaseFetched, answered, SystemInv, FetcherInv
  <2>2. cache' \in [Channels -> Files(Ranks)]
    <3>1. PICK file \in file_written(cache[reply], v) :
            cache' = [cache EXCEPT ![reply] = file]
      BY <1>2 DEF answered, cache_name
    <3>2. reply \in Channels /\ cache[reply] \in Files(Ranks)
      BY <1>2 DEF answered, SystemInv, FetcherInv, FetcherTypeOK
    <3>3. file \in Files(Ranks)
      BY <3>1, <3>2, FileWritten, LauncherReleaseAssumption
    <3>4. QED
      BY <3>1, <3>2, <3>3, FileReplaced DEF SystemInv, FetcherInv
  <2>3. origin' \in [Channels -> Lists \cup {NoList}]
    BY <1>2, OriginTyped DEF SystemInv, FetcherInv
  <2>4. FetcherInv'
    BY <1>1, <1>2, <2>2, <2>3 DEF answered, SystemInv, FetcherInv, FetcherTypeOK
  <2>5. QED
    BY <2>1, <2>4
<1>3. ASSUME answered_error, dl' = set_error_state(dl), UNCHANGED <<offer, history>>
      PROVE  ReleaseFetched /\ FetcherInv'
  <2>1. ReleaseFetched
    BY <1>1, <1>3 DEF ReleaseFetched, answered_error, SystemInv, FetcherInv
  <2>2. FetcherInv'
    BY <1>1, <1>3 DEF answered_error, history, SystemInv, FetcherInv, FetcherTypeOK
  <2>3. QED
    BY <2>1, <2>2
<1>4. QED
  BY <1>2, <1>3 DEF ReleaseAnswered

LEMMA TransferIsTransfer ==
  ASSUME SystemInv, Transfer
  PROVE  (Download \/ CancelDownload \/ ReplyFinished) /\ FetcherInv'
<1>1. /\ Download \/ CancelDownload \/ ReplyFinished
      /\ UNCHANGED <<fetching, fetcherVars, channel, history>>
  BY DEF Transfer, Download, CancelDownload, ReplyFinished
<1>2. QED
  BY <1>1 DEF history, SystemInv, FetcherInv, FetcherTypeOK, fetcherVars

LEMMA CacheIsStutter ==
  ASSUME SystemInv, ClearCache \/ Clock
  PROVE  UNCHANGED vars /\ FetcherInv'
<1>1. UNCHANGED <<vars, channel, heard>> /\ UNCHANGED <<fetching, reply>>
  BY DEF ClearCache, Clock, clear_all, TimePasses, vars
<1>2. cache' \in [Channels -> Files(Ranks)]
  <2>1. CASE ClearCache
    BY <2>1 DEF ClearCache, clear_all, Files
  <2>2. CASE Clock
    <3>1. \A c \in Channels : file_older(cache[c]) \in Files(Ranks)
      BY FileOlder DEF SystemInv, FetcherInv, FetcherTypeOK
    <3>2. QED
      BY <2>2, <3>1 DEF Clock, TimePasses
  <2>3. QED
    BY <2>1, <2>2
<1>3. origin' \in [Channels -> Lists \cup {NoList}]
  BY OriginTyped DEF ClearCache, Clock, SystemInv, FetcherInv
<1>4. QED
  BY <1>1, <1>2, <1>3 DEF SystemInv, FetcherInv, FetcherTypeOK

LEMMA SystemStep == SystemInv /\ [SystemNext]_systemVars => SystemInv' /\ [Next]_vars
<1> SUFFICES ASSUME SystemInv, [SystemNext]_systemVars PROVE SystemInv' /\ [Next]_vars
  OBVIOUS
<1>1. [Next]_vars /\ FetcherInv'
  <2>1. CASE Check
    <3>1. check_update(channel) /\ channel \in Channels /\ channel' \in Channels
      BY <2>1 DEF Check, SystemInv, FetcherInv
    <3>2. QED
      BY <3>1, CheckIsCheckUpdate DEF Next
  <2>2. CASE ToggleChannel
    <3>1. PICK c \in Channels : channel' = c /\ check_update(c)
      BY <2>2 DEF ToggleChannel
    <3>2. QED
      BY <3>1, CheckIsCheckUpdate DEF Next
  <2>3. CASE ReleaseAnswered
    BY <2>3, AnsweredIsFetched DEF Next
  <2>4. CASE Transfer
    BY <2>4, TransferIsTransfer DEF Next
  <2>5. CASE ClearCache \/ Clock
    BY <2>5, CacheIsStutter
  <2>6. CASE UNCHANGED systemVars
    BY <2>6 DEF systemVars, fetcherVars, history, vars, SystemInv, FetcherInv, FetcherTypeOK
  <2>7. QED
    BY <2>1, <2>2, <2>3, <2>4, <2>5, <2>6 DEF SystemNext
<1>2. LauncherInv'
  BY <1>1, LauncherStep DEF SystemInv
<1>3. QED
  BY <1>1, <1>2 DEF SystemInv

LEMMA SystemAlways == SystemSpec => []SystemInv
<1>1. SystemInit => SystemInv
  BY SystemInitInv
<1>2. SystemInv /\ [SystemNext]_systemVars => SystemInv'
  BY SystemStep
<1>3. QED
  BY <1>1, <1>2, PTL DEF SystemSpec

-----------------------------------------------------------------------------
(* Natural numbers *)

LEMMA Smallest ==
  ASSUME NEW T, T \subseteq Nat, T # {}
  PROVE  \E x \in T : \A y \in T : x <= y
<1>1. PICK x \in T : \A y \in T : <<y, x>> \notin OpToRel(<, Nat)
  BY WFMin, NatLessThanWellFounded, Zenon
<1>2. ASSUME NEW y \in T PROVE x <= y
  <2>1. ~(y < x)
    BY <1>1, Zenon DEF OpToRel
  <2>2. QED
    BY <2>1
<1>3. QED
  BY <1>2

\* Induction, for a set.
LEMMA SetInduction ==
  ASSUME NEW T, 0 \in T, \A n \in Nat : n \in T => n + 1 \in T
  PROVE  Nat \subseteq T
<1> SUFFICES ASSUME Nat \ T # {} PROVE FALSE
  OBVIOUS
<1>1. PICK m \in Nat \ T : \A y \in Nat \ T : m <= y
  BY Smallest
<1>2. m # 0 /\ m - 1 \in Nat /\ m - 1 \in T
  BY <1>1
<1>3. QED
  BY <1>1, <1>2

-----------------------------------------------------------------------------
(* The order of versions *)

\* Results of a comparison and of the one the other way round.
Opposite(x, y) ==
  \/ x = -1 /\ y = 1
  \/ x = 0 /\ y = 0
  \/ x = 1 /\ y = -1

LEMMA OrderOpposite ==
  ASSUME NEW a \in Int, NEW b \in Int
  PROVE  Opposite(SV!order(a, b), SV!order(b, a))
BY DEF SV!order, Opposite

LEMMA ThenOpposite ==
  ASSUME NEW x, NEW y, NEW p, NEW q, Opposite(x, y), Opposite(p, q)
  PROVE  Opposite(IF x # 0 THEN x ELSE p, IF y # 0 THEN y ELSE q)
BY DEF Opposite

\* What decides is the first difference, the same one from either side.
LEMMA DecidedOpposite ==
  ASSUME NEW n \in Nat, NEW a, NEW b, DOMAIN a = 1 .. n, DOMAIN b = 1 .. n,
         \A i \in 1 .. n : Opposite(a[i], b[i])
  PROVE  Opposite(SV!first_decided(a), SV!first_decided(b))
<1> DEFINE decided(r) == {i \in DOMAIN r : r[i] # 0}
<1>1. decided(a) = decided(b)
  BY DEF Opposite
<1>2. CASE decided(a) = {}
  <2>1. SV!first_decided(a) = 0 /\ SV!first_decided(b) = 0
    BY <1>1, <1>2, Zenon DEF SV!first_decided
  <2>2. QED
    BY <2>1 DEF Opposite
<1>3. CASE decided(a) # {}
  <2> DEFINE k == CHOOSE i \in decided(a) : \A j \in decided(a) : i <= j
  <2>1. decided(a) \subseteq 1 .. n /\ decided(a) \subseteq Nat
    OBVIOUS
  <2>2. \E i \in decided(a) : \A j \in decided(a) : i <= j
    BY <2>1, <1>3, Smallest, Zenon
  <2>3. k \in 1 .. n
    BY <2>1, <2>2
  <2>4. SV!first_decided(a) = a[k] /\ SV!first_decided(b) = b[k]
    BY <1>1, <1>3, Zenon DEF SV!first_decided
  <2>5. QED
    BY <2>3, <2>4
<1>4. QED
  BY <1>2, <1>3

LEMMA TextOpposite ==
  ASSUME NEW l \in SV!Texts, NEW r \in SV!Texts
  PROVE  Opposite(SV!compareText(l, r), SV!compareText(r, l))
<1> DEFINE n == SV!shorter(l, r)
           a == [i \in 1 .. n |-> SV!order(l[i], r[i])]
           b == [i \in 1 .. n |-> SV!order(r[i], l[i])]
<1>1. n \in Nat /\ n = SV!shorter(r, l) /\ n <= Len(l) /\ n <= Len(r)
  BY DEF SV!shorter, SV!Texts
<1>2. {SV!Hyphen} \cup SV!Digits \cup SV!Letters \subseteq Int
  BY DEF SV!Hyphen, SV!Digits, SV!Letters
<1> HIDE DEF n
<1>3. ASSUME NEW i \in 1 .. n PROVE Opposite(a[i], b[i])
  <2>1. i \in 1 .. Len(l) /\ i \in 1 .. Len(r)
    BY <1>1 DEF SV!Texts
  <2>2. l[i] \in Int /\ r[i] \in Int
    BY <1>2, <2>1 DEF SV!Texts
  <2>3. QED
    BY <2>2, OrderOpposite
<1>4. Opposite(SV!first_decided(a), SV!first_decided(b))
  BY <1>1, <1>3, DecidedOpposite
<1>5. Opposite(SV!order(Len(l), Len(r)), SV!order(Len(r), Len(l)))
  BY OrderOpposite DEF SV!Texts
<1> DEFINE result(r1, r2, c) == IF SV!first_decided(c) # 0 THEN SV!first_decided(c)
                               ELSE SV!order(Len(r1), Len(r2))
<1>6. Opposite(result(l, r, a), result(r, l, b))
  BY <1>4, <1>5, ThenOpposite
<1>7. SV!compareText(l, r) = result(l, r, a) /\ SV!compareText(r, l) = result(r, l, b)
  BY <1>1, Zenon DEF SV!compareText, n
<1>8. QED
  BY <1>6, <1>7

LEMMA NumericOpposite ==
  ASSUME NEW l \in SV!Texts, NEW r \in SV!Texts
  PROVE  Opposite(SV!compareNumeric(l, r), SV!compareNumeric(r, l))
<1>1. Opposite(SV!order(Len(l), Len(r)), SV!order(Len(r), Len(l)))
  BY OrderOpposite DEF SV!Texts
<1>2. QED
  BY <1>1, TextOpposite DEF SV!compareNumeric

LEMMA IdentifierOpposite ==
  ASSUME NEW l \in SV!Texts, NEW r \in SV!Texts
  PROVE  Opposite(SV!compareIdentifier(l, r), SV!compareIdentifier(r, l))
<1>1. SV!isNumeric(l) \in BOOLEAN /\ SV!isNumeric(r) \in BOOLEAN
  BY DEF SV!isNumeric
<1>2. CASE SV!isNumeric(l) # SV!isNumeric(r)
  BY <1>1, <1>2 DEF SV!compareIdentifier, Opposite
<1>3. CASE SV!isNumeric(l) = SV!isNumeric(r)
  BY <1>3, NumericOpposite, TextOpposite DEF SV!compareIdentifier
<1>4. QED
  BY <1>2, <1>3

LEMMA CoreOpposite ==
  ASSUME NEW l \in [1 .. 3 -> SV!Texts], NEW r \in [1 .. 3 -> SV!Texts]
  PROVE  Opposite(SV!compareCore(l, r), SV!compareCore(r, l))
<1> DEFINE a == [i \in 1 .. 3 |-> SV!compareNumeric(l[i], r[i])]
           b == [i \in 1 .. 3 |-> SV!compareNumeric(r[i], l[i])]
<1>1. \A i \in 1 .. 3 : Opposite(a[i], b[i])
  BY NumericOpposite
<1>2. Opposite(SV!first_decided(a), SV!first_decided(b))
  BY <1>1, DecidedOpposite
<1>3. QED
  BY <1>2 DEF SV!compareCore

LEMMA PrereleaseOpposite ==
  ASSUME NEW l \in Seq(SV!Texts), NEW r \in Seq(SV!Texts)
  PROVE  Opposite(SV!comparePrerelease(l, r), SV!comparePrerelease(r, l))
<1> DEFINE n == SV!shorter(l, r)
           a == [i \in 1 .. n |-> SV!compareIdentifier(l[i], r[i])]
           b == [i \in 1 .. n |-> SV!compareIdentifier(r[i], l[i])]
<1>1. n \in Nat /\ n = SV!shorter(r, l) /\ n <= Len(l) /\ n <= Len(r)
  BY DEF SV!shorter
<1> HIDE DEF n
<1>2. ASSUME NEW i \in 1 .. n PROVE Opposite(a[i], b[i])
  <2>1. l[i] \in SV!Texts /\ r[i] \in SV!Texts
    BY <1>1
  <2>2. QED
    BY <2>1, IdentifierOpposite
<1>3. Opposite(SV!first_decided(a), SV!first_decided(b))
  BY <1>1, <1>2, DecidedOpposite
<1>4. Opposite(SV!order(Len(l), Len(r)), SV!order(Len(r), Len(l)))
  BY OrderOpposite
<1> DEFINE result(r1, r2, c) == IF SV!first_decided(c) # 0 THEN SV!first_decided(c)
                               ELSE SV!order(Len(r1), Len(r2))
<1>5. Opposite(result(l, r, a), result(r, l, b))
  BY <1>3, <1>4, ThenOpposite
<1>6. SV!comparePrerelease(l, r) = result(l, r, a) /\ SV!comparePrerelease(r, l) = result(r, l, b)
  BY <1>1, Zenon DEF SV!comparePrerelease, n
<1>7. QED
  BY <1>5, <1>6

-----------------------------------------------------------------------------
(* Three versions *)

Results == {-1, 0, 1}

\* Comparisons of a first thing with a second, of the second with a third and of
\* the first with the third.
Chain(x, y, z) ==
  /\ {x, y, z} \subseteq Results
  /\ x <= 0 /\ y <= 0 => z = IF x = 0 /\ y = 0 THEN 0 ELSE -1

LEMMA OrderChain ==
  ASSUME NEW a \in Int, NEW b \in Int, NEW c \in Int
  PROVE  Chain(SV!order(a, b), SV!order(b, c), SV!order(a, c))
BY DEF SV!order, Chain, Results

LEMMA ThenChain ==
  ASSUME NEW x, NEW y, NEW z, NEW p, NEW q, NEW r, Chain(x, y, z), Chain(p, q, r)
  PROVE  Chain(IF x # 0 THEN x ELSE p, IF y # 0 THEN y ELSE q, IF z # 0 THEN z ELSE r)
BY DEF Chain, Results

\* Where a loop returns: at the first difference, or behind the end.
LEMMA DecidedAt ==
  ASSUME NEW n \in Nat, NEW a, DOMAIN a = 1 .. n
  PROVE  \E k \in 1 .. n + 1 :
           /\ \A i \in 1 .. n : i < k => a[i] = 0
           /\ k <= n => a[k] # 0 /\ SV!first_decided(a) = a[k]
           /\ k > n => SV!first_decided(a) = 0
<1> DEFINE decided == {i \in DOMAIN a : a[i] # 0}
<1>1. CASE decided = {}
  <2>1. SV!first_decided(a) = 0
    BY <1>1, Zenon DEF SV!first_decided
  <2>2. \A i \in 1 .. n : a[i] = 0
    BY <1>1
  <2>3. n + 1 \in 1 .. n + 1 /\ n + 1 > n
    OBVIOUS
  <2>4. QED
    BY <2>1, <2>2, <2>3
<1>2. CASE decided # {}
  <2> DEFINE k == CHOOSE i \in decided : \A j \in decided : i <= j
  <2>1. decided \subseteq 1 .. n /\ decided \subseteq Nat
    OBVIOUS
  <2>2. \E i \in decided : \A j \in decided : i <= j
    BY <2>1, <1>2, Smallest, Zenon
  <2>3. k \in decided /\ \A j \in decided : k <= j
    BY <2>2
  <2>4. SV!first_decided(a) = a[k]
    BY <1>2, Zenon DEF SV!first_decided
  <2> HIDE DEF k
  <2>5. k \in 1 .. n /\ a[k] # 0
    BY <2>3
  <2>6. ASSUME NEW i \in 1 .. n, i < k PROVE a[i] = 0
    BY <2>3, <2>5, <2>6
  <2>7. QED
    BY <2>4, <2>5, <2>6
<1>3. QED
  BY <1>1, <1>2

\* A list compared with a list: the loop over what both have, then the lengths.
listed(a, m, n) == IF SV!first_decided(a) # 0 THEN SV!first_decided(a) ELSE SV!order(m, n)

least(m, n) == IF m < n THEN m ELSE n

LEMMA ListedResults ==
  ASSUME NEW m \in Nat, NEW n \in Nat, NEW a, DOMAIN a = 1 .. least(m, n),
         \A i \in DOMAIN a : a[i] \in Results
  PROVE  listed(a, m, n) \in Results
<1>1. least(m, n) \in Nat
  BY DEF least
<1>2. SV!first_decided(a) \in Results
  BY <1>1, DecidedAt DEF Results
<1>3. SV!order(m, n) \in Results
  BY DEF SV!order, Results
<1>4. QED
  BY <1>2, <1>3 DEF listed

\* The order of lists that the order of their elements makes.
LEMMA ListChain ==
  ASSUME NEW l \in Nat, NEW m \in Nat, NEW n \in Nat, NEW a, NEW b, NEW c,
         DOMAIN a = 1 .. least(l, m), DOMAIN b = 1 .. least(m, n), DOMAIN c = 1 .. least(l, n),
         \A i \in DOMAIN a : a[i] \in Results,
         \A i \in DOMAIN b : b[i] \in Results,
         \A i \in DOMAIN c : c[i] \in Results,
         \A i \in DOMAIN a : i <= n => Chain(a[i], b[i], c[i])
  PROVE  Chain(listed(a, l, m), listed(b, m, n), listed(c, l, n))
<1>0. least(l, m) \in Nat /\ least(m, n) \in Nat /\ least(l, n) \in Nat
  BY DEF least
<1>1. PICK i \in 1 .. least(l, m) + 1 :
        /\ \A k \in 1 .. least(l, m) : k < i => a[k] = 0
        /\ i <= least(l, m) => a[i] # 0 /\ SV!first_decided(a) = a[i]
        /\ i > least(l, m) => SV!first_decided(a) = 0
  BY <1>0, DecidedAt
<1>2. PICK j \in 1 .. least(m, n) + 1 :
        /\ \A k \in 1 .. least(m, n) : k < j => b[k] = 0
        /\ j <= least(m, n) => b[j] # 0 /\ SV!first_decided(b) = b[j]
        /\ j > least(m, n) => SV!first_decided(b) = 0
  BY <1>0, DecidedAt
<1>3. PICK h \in 1 .. least(l, n) + 1 :
        /\ \A k \in 1 .. least(l, n) : k < h => c[k] = 0
        /\ h <= least(l, n) => c[h] # 0 /\ SV!first_decided(c) = c[h]
        /\ h > least(l, n) => SV!first_decided(c) = 0
  BY <1>0, DecidedAt
<1>4. listed(a, l, m) \in Results /\ listed(b, m, n) \in Results /\ listed(c, l, n) \in Results
  BY ListedResults
<1> SUFFICES ASSUME listed(a, l, m) <= 0, listed(b, m, n) <= 0
    PROVE listed(c, l, n) = IF listed(a, l, m) = 0 /\ listed(b, m, n) = 0 THEN 0 ELSE -1
  BY <1>4 DEF Chain
\* Either list precedes the next at the difference, or is its beginning.
<1>5. \/ i <= least(l, m) /\ a[i] = -1 /\ listed(a, l, m) = -1
      \/ i = l + 1 /\ l <= m /\ listed(a, l, m) = SV!order(l, m)
  BY <1>0, <1>1 DEF listed, SV!order, Results, least
<1>6. \/ j <= least(m, n) /\ b[j] = -1 /\ listed(b, m, n) = -1
      \/ j = m + 1 /\ m <= n /\ listed(b, m, n) = SV!order(m, n)
  BY <1>0, <1>2 DEF listed, SV!order, Results, least
<1>7. \A k \in 1 .. least(l, n) : k <= m => Chain(a[k], b[k], c[k])
  BY DEF least
<1>8. \A k \in 1 .. least(l, n) : k < i /\ k < j => c[k] = 0
  <2> TAKE k \in 1 .. least(l, n)
  <2> HAVE k < i /\ k < j
  <2>1. k \in 1 .. least(l, m) /\ k \in 1 .. least(m, n)
    BY <1>0 DEF least
  <2>2. a[k] = 0 /\ b[k] = 0 /\ k <= m
    BY <1>1, <1>2, <2>1 DEF least
  <2>3. QED
    BY <1>7, <2>2 DEF Chain
<1>9. CASE i <= j /\ i <= least(l, m)
  <2>1. i <= least(m, n) /\ i <= least(l, n) /\ i <= m /\ a[i] = -1
    BY <1>0, <1>5, <1>6, <1>9 DEF least
  <2>2. b[i] <= 0
    BY <1>2, <1>6, <1>9, <2>1
  <2>3. c[i] = -1
    BY <1>7, <2>1, <2>2 DEF Chain
  <2>4. h = i
    BY <1>0, <1>3, <1>8, <1>9, <2>1, <2>3
  <2>5. listed(a, l, m) = -1
    BY <1>0, <1>5, <1>9 DEF least
  <2>6. listed(c, l, n) = -1
    BY <1>3, <2>1, <2>3, <2>4 DEF listed
  <2>7. QED
    BY <2>5, <2>6
<1>10. CASE i <= j /\ i > least(l, m)
  <2>1. i = l + 1 /\ l <= m /\ listed(a, l, m) = SV!order(l, m)
    BY <1>0, <1>5, <1>10
  <2>2. l <= least(m, n) /\ least(l, n) = l
    BY <1>0, <1>10, <2>1 DEF least
  <2>3. h = l + 1
    BY <1>0, <1>3, <1>8, <1>10, <2>1, <2>2
  <2>4. listed(c, l, n) = SV!order(l, n)
    BY <1>3, <2>2, <2>3 DEF listed
  <2>5. l = n => j = m + 1 /\ m = n
    BY <1>6, <1>10, <2>1, <2>2 DEF least
  <2>6. QED
    BY <1>6, <2>1, <2>2, <2>4, <2>5 DEF SV!order, least
<1>11. CASE j < i
  <2>1. j <= least(m, n) /\ j <= least(l, m) /\ j <= least(l, n) /\ j <= m /\ b[j] = -1
    BY <1>0, <1>6, <1>11 DEF least
  <2>2. a[j] = 0
    BY <1>1, <1>11, <2>1
  <2>3. c[j] = -1
    BY <1>7, <2>1, <2>2 DEF Chain
  <2>4. h = j
    BY <1>0, <1>3, <1>8, <1>11, <2>1, <2>3
  <2>5. QED
    BY <1>3, <1>6, <2>1, <2>3, <2>4 DEF listed
<1>12. QED
  BY <1>0, <1>9, <1>10, <1>11

LEMMA CharacterNumbers == ASSUME NEW t \in SV!Texts PROVE t \in Seq(Int)
<1>1. {SV!Hyphen} \cup SV!Digits \cup SV!Letters \subseteq Int
  BY DEF SV!Hyphen, SV!Digits, SV!Letters
<1>2. QED
  BY <1>1 DEF SV!Texts

LEMMA TextChain ==
  ASSUME NEW s \in SV!Texts, NEW t \in SV!Texts, NEW u \in SV!Texts
  PROVE  Chain(SV!compareText(s, t), SV!compareText(t, u), SV!compareText(s, u))
<1> DEFINE compared(x, y) == [i \in 1 .. SV!shorter(x, y) |-> SV!order(x[i], y[i])]
<1>1. s \in Seq(Int) /\ t \in Seq(Int) /\ u \in Seq(Int)
  BY CharacterNumbers
<1>2. ASSUME NEW x \in Seq(Int), NEW y \in Seq(Int)
      PROVE  /\ Len(x) \in Nat /\ Len(y) \in Nat
             /\ DOMAIN compared(x, y) = 1 .. least(Len(x), Len(y))
             /\ \A i \in DOMAIN compared(x, y) :
                  /\ x[i] \in Int /\ y[i] \in Int
                  /\ compared(x, y)[i] = SV!order(x[i], y[i])
                  /\ compared(x, y)[i] \in Results
             /\ SV!compareText(x, y) = listed(compared(x, y), Len(x), Len(y))
  BY DEF SV!shorter, least, SV!order, Results, SV!compareText, listed
<1> HIDE DEF compared
<1>3. ASSUME NEW i \in DOMAIN compared(s, t), i <= Len(u)
      PROVE  Chain(compared(s, t)[i], compared(t, u)[i], compared(s, u)[i])
  <2>1. /\ Len(s) \in Nat /\ Len(t) \in Nat /\ Len(u) \in Nat
        /\ DOMAIN compared(s, t) = 1 .. least(Len(s), Len(t))
        /\ DOMAIN compared(t, u) = 1 .. least(Len(t), Len(u))
        /\ DOMAIN compared(s, u) = 1 .. least(Len(s), Len(u))
    BY <1>1, <1>2
  <2>2. i \in DOMAIN compared(t, u) /\ i \in DOMAIN compared(s, u)
    BY <1>3, <2>1 DEF least
  <2>3. /\ s[i] \in Int /\ t[i] \in Int /\ u[i] \in Int
        /\ compared(s, t)[i] = SV!order(s[i], t[i])
        /\ compared(t, u)[i] = SV!order(t[i], u[i])
        /\ compared(s, u)[i] = SV!order(s[i], u[i])
    BY <1>1, <1>2, <1>3, <2>2
  <2>4. QED
    BY <2>3, OrderChain
<1>4. Chain(listed(compared(s, t), Len(s), Len(t)), listed(compared(t, u), Len(t), Len(u)),
            listed(compared(s, u), Len(s), Len(u)))
  BY <1>1, <1>2, <1>3, ListChain
<1>5. QED
  BY <1>1, <1>2, <1>4

LEMMA NumericChain ==
  ASSUME NEW s \in SV!Texts, NEW t \in SV!Texts, NEW u \in SV!Texts
  PROVE  Chain(SV!compareNumeric(s, t), SV!compareNumeric(t, u), SV!compareNumeric(s, u))
<1> DEFINE length(x, y) == SV!order(Len(x), Len(y))
           text(x, y) == SV!compareText(x, y)
<1>1. Chain(length(s, t), length(t, u), length(s, u))
  BY OrderChain DEF SV!Texts
<1>2. ASSUME NEW x \in SV!Texts, NEW y \in SV!Texts
      PROVE  SV!compareNumeric(x, y) =
               IF SV!order(Len(x), Len(y)) # 0 THEN SV!order(Len(x), Len(y))
               ELSE SV!compareText(x, y)
  BY DEF SV!compareNumeric, SV!order, SV!Texts
<1>3. Chain(text(s, t), text(t, u), text(s, u))
  BY TextChain
<1> HIDE DEF length, text
<1>4. Chain(IF length(s, t) # 0 THEN length(s, t) ELSE text(s, t),
            IF length(t, u) # 0 THEN length(t, u) ELSE text(t, u),
            IF length(s, u) # 0 THEN length(s, u) ELSE text(s, u))
  BY <1>1, <1>3, ThenChain
<1>5. QED
  BY <1>2, <1>4 DEF length, text

\* Numbers come before words.
LEMMA IdentifierChain ==
  ASSUME NEW s \in SV!Texts, NEW t \in SV!Texts, NEW u \in SV!Texts
  PROVE  Chain(SV!compareIdentifier(s, t), SV!compareIdentifier(t, u),
               SV!compareIdentifier(s, u))
<1> DEFINE kind(x) == IF SV!isNumeric(x) THEN 0 ELSE 1
           within(x, y) == IF SV!isNumeric(x) THEN SV!compareNumeric(x, y)
                           ELSE SV!compareText(x, y)
<1>1. Chain(SV!order(kind(s), kind(t)), SV!order(kind(t), kind(u)), SV!order(kind(s), kind(u)))
  BY OrderChain
<1>2. ASSUME NEW x \in SV!Texts, NEW y \in SV!Texts
      PROVE  SV!compareIdentifier(x, y) =
               IF SV!order(kind(x), kind(y)) # 0 THEN SV!order(kind(x), kind(y))
               ELSE within(x, y)
  <2>1. SV!isNumeric(x) \in BOOLEAN /\ SV!isNumeric(y) \in BOOLEAN
    BY DEF SV!isNumeric
  <2>2. QED
    BY <2>1 DEF SV!compareIdentifier, SV!order
<1>3. Chain(SV!compareNumeric(s, t), SV!compareNumeric(t, u), SV!compareNumeric(s, u))
  BY NumericChain
<1>4. Chain(SV!compareText(s, t), SV!compareText(t, u), SV!compareText(s, u))
  BY TextChain
<1>5. CASE kind(s) = kind(t) /\ kind(t) = kind(u)
  <2>1. Chain(within(s, t), within(t, u), within(s, u))
    BY <1>3, <1>4, <1>5
  <2> DEFINE kinds(x, y) == SV!order(kind(x), kind(y))
  <2>2. Chain(kinds(s, t), kinds(t, u), kinds(s, u))
    BY <1>1
  <2> HIDE DEF kinds, within
  <2>3. Chain(IF kinds(s, t) # 0 THEN kinds(s, t) ELSE within(s, t),
              IF kinds(t, u) # 0 THEN kinds(t, u) ELSE within(t, u),
              IF kinds(s, u) # 0 THEN kinds(s, u) ELSE within(s, u))
    BY <2>1, <2>2, ThenChain
  <2>4. QED
    BY <1>2, <2>3 DEF kinds
<1>6. CASE ~(kind(s) = kind(t) /\ kind(t) = kind(u))
  <2>1. /\ SV!compareIdentifier(s, t) \in Results
        /\ SV!compareIdentifier(t, u) \in Results
        /\ SV!compareIdentifier(s, u) \in Results
    BY IdentifierOpposite DEF Opposite, Results
  <2>2. /\ kind(s) \in {0, 1} /\ kind(t) \in {0, 1} /\ kind(u) \in {0, 1}
    OBVIOUS
  <2> HIDE DEF kind, within
  <2>3. QED
    BY <1>2, <1>6, <2>1, <2>2 DEF Chain, SV!order
<1>7. QED
  BY <1>5, <1>6

LEMMA CoreChain ==
  ASSUME NEW s \in [1 .. 3 -> SV!Texts], NEW t \in [1 .. 3 -> SV!Texts],
         NEW u \in [1 .. 3 -> SV!Texts]
  PROVE  Chain(SV!compareCore(s, t), SV!compareCore(t, u), SV!compareCore(s, u))
<1> DEFINE compared(x, y) == [i \in 1 .. 3 |-> SV!compareNumeric(x[i], y[i])]
<1>1. ASSUME NEW x \in [1 .. 3 -> SV!Texts], NEW y \in [1 .. 3 -> SV!Texts]
      PROVE  /\ DOMAIN compared(x, y) = 1 .. least(3, 3)
             /\ \A i \in DOMAIN compared(x, y) : compared(x, y)[i] \in Results
             /\ SV!compareCore(x, y) = listed(compared(x, y), 3, 3)
  <2>1. \A i \in 1 .. 3 : compared(x, y)[i] \in Results
    BY NumericOpposite DEF Opposite, Results
  <2>2. DOMAIN compared(x, y) = 1 .. least(3, 3)
    BY DEF least
  <2>3. SV!compareCore(x, y) = SV!first_decided(compared(x, y))
    BY DEF SV!compareCore
  <2>4. SV!order(3, 3) = 0
    BY DEF SV!order
  <2>5. QED
    BY <2>1, <2>2, <2>3, <2>4 DEF listed
<1>2. \A i \in 1 .. 3 : Chain(compared(s, t)[i], compared(t, u)[i], compared(s, u)[i])
  BY NumericChain
<1>3. DOMAIN compared(s, t) = 1 .. 3
  OBVIOUS
<1> HIDE DEF compared
<1>4. Chain(listed(compared(s, t), 3, 3), listed(compared(t, u), 3, 3), listed(compared(s, u), 3, 3))
  BY <1>1, <1>2, <1>3, ListChain
<1>5. QED
  BY <1>1, <1>4

LEMMA PrereleaseChain ==
  ASSUME NEW s \in Seq(SV!Texts), NEW t \in Seq(SV!Texts), NEW u \in Seq(SV!Texts)
  PROVE  Chain(SV!comparePrerelease(s, t), SV!comparePrerelease(t, u),
               SV!comparePrerelease(s, u))
<1> DEFINE compared(x, y) == [i \in 1 .. SV!shorter(x, y) |-> SV!compareIdentifier(x[i], y[i])]
<1>1. ASSUME NEW x \in Seq(SV!Texts), NEW y \in Seq(SV!Texts)
      PROVE  /\ Len(x) \in Nat /\ Len(y) \in Nat
             /\ DOMAIN compared(x, y) = 1 .. least(Len(x), Len(y))
             /\ \A i \in DOMAIN compared(x, y) :
                  /\ x[i] \in SV!Texts /\ y[i] \in SV!Texts
                  /\ compared(x, y)[i] = SV!compareIdentifier(x[i], y[i])
                  /\ compared(x, y)[i] \in Results
             /\ SV!comparePrerelease(x, y) = listed(compared(x, y), Len(x), Len(y))
  <2>1. \A i \in DOMAIN compared(x, y) : x[i] \in SV!Texts /\ y[i] \in SV!Texts
    BY DEF SV!shorter
  <2>2. \A i \in DOMAIN compared(x, y) : compared(x, y)[i] \in Results
    BY <2>1, IdentifierOpposite DEF Opposite, Results
  <2>3. SV!comparePrerelease(x, y) = listed(compared(x, y), Len(x), Len(y))
    BY DEF SV!comparePrerelease, listed
  <2>4. /\ Len(x) \in Nat /\ Len(y) \in Nat
        /\ DOMAIN compared(x, y) = 1 .. least(Len(x), Len(y))
        /\ \A i \in DOMAIN compared(x, y) : compared(x, y)[i] = SV!compareIdentifier(x[i], y[i])
    BY DEF SV!shorter, least
  <2> HIDE DEF compared
  <2>5. QED
    BY <2>1, <2>2, <2>3, <2>4
<1> HIDE DEF compared
<1>2. ASSUME NEW i \in DOMAIN compared(s, t), i <= Len(u)
      PROVE  Chain(compared(s, t)[i], compared(t, u)[i], compared(s, u)[i])
  <2>1. i \in DOMAIN compared(t, u) /\ i \in DOMAIN compared(s, u)
    BY <1>1, <1>2 DEF least
  <2>2. QED
    BY <1>1, <2>1, IdentifierChain
<1>3. Chain(listed(compared(s, t), Len(s), Len(t)), listed(compared(t, u), Len(t), Len(u)),
            listed(compared(s, u), Len(s), Len(u)))
  BY <1>1, <1>2, ListChain
<1>4. QED
  BY <1>1, <1>3

-----------------------------------------------------------------------------
(* Versions of the same precedence *)

\* No difference in the loop nor in the lengths.
LEMMA ListSame ==
  ASSUME NEW m \in Nat, NEW n \in Nat, NEW a, DOMAIN a = 1 .. least(m, n),
         \A i \in DOMAIN a : a[i] \in Results,
         listed(a, m, n) = 0
  PROVE  m = n /\ \A i \in 1 .. m : a[i] = 0
<1>1. least(m, n) \in Nat
  BY DEF least
<1>2. PICK k \in 1 .. least(m, n) + 1 :
        /\ \A i \in 1 .. least(m, n) : i < k => a[i] = 0
        /\ k <= least(m, n) => a[k] # 0 /\ SV!first_decided(a) = a[k]
        /\ k > least(m, n) => SV!first_decided(a) = 0
  BY <1>1, DecidedAt
<1>3. k = least(m, n) + 1 /\ SV!order(m, n) = 0
  BY <1>1, <1>2 DEF listed
<1>4. m = n /\ least(m, n) = m
  BY <1>3 DEF SV!order, least
<1>5. QED
  BY <1>2, <1>3, <1>4

LEMMA TextSame ==
  ASSUME NEW s \in SV!Texts, NEW t \in SV!Texts, SV!compareText(s, t) = 0
  PROVE  s = t
<1> DEFINE a == [i \in 1 .. SV!shorter(s, t) |-> SV!order(s[i], t[i])]
<1>1. s \in Seq(Int) /\ t \in Seq(Int)
  BY CharacterNumbers
<1>2. /\ DOMAIN a = 1 .. least(Len(s), Len(t))
      /\ \A i \in DOMAIN a : a[i] \in Results
      /\ listed(a, Len(s), Len(t)) = 0
  BY <1>1 DEF SV!shorter, least, SV!order, Results, SV!compareText, listed
<1> HIDE DEF a
<1>3. Len(s) = Len(t) /\ \A i \in 1 .. Len(s) : a[i] = 0
  <2>1. Len(s) \in Nat /\ Len(t) \in Nat
    BY <1>1
  <2>2. QED
    BY <1>2, <2>1, ListSame, Zenon
<1>4. \A i \in 1 .. Len(s) : s[i] = t[i]
  BY <1>1, <1>3 DEF SV!order, SV!shorter, a
<1>5. QED
  BY <1>1, <1>3, <1>4

LEMMA NumericSame ==
  ASSUME NEW s \in SV!Texts, NEW t \in SV!Texts, SV!compareNumeric(s, t) = 0
  PROVE  s = t
<1>1. Len(s) \in Nat /\ Len(t) \in Nat
  BY DEF SV!Texts
<1>2. SV!compareText(s, t) = 0
  BY <1>1 DEF SV!compareNumeric, SV!order
<1>3. QED
  BY <1>2, TextSame

LEMMA IdentifierSame ==
  ASSUME NEW s \in SV!Texts, NEW t \in SV!Texts, SV!compareIdentifier(s, t) = 0
  PROVE  s = t
BY TextSame, NumericSame DEF SV!compareIdentifier

LEMMA CoreSame ==
  ASSUME NEW s \in [1 .. 3 -> SV!Texts], NEW t \in [1 .. 3 -> SV!Texts],
         SV!compareCore(s, t) = 0
  PROVE  s = t
<1> DEFINE a == [i \in 1 .. 3 |-> SV!compareNumeric(s[i], t[i])]
<1>1. DOMAIN a = 1 .. 3 /\ SV!first_decided(a) = 0
  BY DEF SV!compareCore
<1> HIDE DEF a
<1>2. PICK k \in 1 .. 3 + 1 :
        /\ \A i \in 1 .. 3 : i < k => a[i] = 0
        /\ k <= 3 => a[k] # 0 /\ SV!first_decided(a) = a[k]
  BY <1>1, DecidedAt
<1>3. \A i \in 1 .. 3 : a[i] = 0
  BY <1>1, <1>2
<1> USE DEF a
<1>4. \A i \in 1 .. 3 : s[i] = t[i]
  BY <1>3, NumericSame
<1>5. QED
  BY <1>4

LEMMA PrereleaseSame ==
  ASSUME NEW s \in Seq(SV!Texts), NEW t \in Seq(SV!Texts), SV!comparePrerelease(s, t) = 0
  PROVE  s = t
<1> DEFINE a == [i \in 1 .. SV!shorter(s, t) |-> SV!compareIdentifier(s[i], t[i])]
<1>1. \A i \in DOMAIN a : s[i] \in SV!Texts /\ t[i] \in SV!Texts
  BY DEF SV!shorter
<1>2. \A i \in DOMAIN a : a[i] \in Results
  BY <1>1, IdentifierOpposite DEF Opposite, Results
<1>3. DOMAIN a = 1 .. least(Len(s), Len(t)) /\ listed(a, Len(s), Len(t)) = 0
  BY DEF SV!shorter, least, SV!comparePrerelease, listed
<1> HIDE DEF a
<1>4. Len(s) = Len(t) /\ \A i \in 1 .. Len(s) : a[i] = 0
  <2>1. Len(s) \in Nat /\ Len(t) \in Nat
    OBVIOUS
  <2>2. QED
    BY <1>2, <1>3, <2>1, ListSame, Zenon
<1>5. \A i \in 1 .. Len(s) : s[i] = t[i]
  BY <1>1, <1>4, IdentifierSame DEF SV!shorter, a
<1>6. QED
  BY <1>4, <1>5

-----------------------------------------------------------------------------
(* The loop of selectGithubRelease() *)

ranked(release, v) == SV!parse(release.tag) = Version[v]

\* What the first n releases of a list leave selected.
BestOf(releases, c, n, selected) ==
  \/ /\ selected = SV!NoVersion
     /\ \A i \in 1 .. n : ~usable(releases[i], c)
  \/ \E v \in Ranks :
       /\ selected = Version[v]
       /\ \E i \in 1 .. n : usable(releases[i], c) /\ ranked(releases[i], v)
       /\ \A i \in 1 .. n, w \in Ranks :
            usable(releases[i], c) /\ ranked(releases[i], w) => w <= v

\* What the body of the loop makes of the selected version.
body(release, c, selected) ==
  IF usable(release, c) /\ better(release, selected) THEN SV!parse(release.tag) ELSE selected

LEMMA RanksDiffer ==
  ASSUME NEW v \in Ranks, NEW w \in Ranks
  PROVE  /\ v \in Nat /\ w \in Nat
         /\ Version[v] = Version[w] => v = w
         /\ Version[v] # SV!NoVersion
         /\ SV!comparePrecedence(Version[v], Version[w]) = 1 <=> v > w
<1>1. v \in Nat /\ w \in Nat
  BY FetcherAssumption DEF Ranks
<1>2. /\ SV!comparePrecedence(Version[v], Version[w]) = SV!order(v, w)
      /\ SV!comparePrecedence(Version[w], Version[w]) = SV!order(w, w)
      /\ SV!comparePrecedence(Version[v], Version[v]) = SV!order(v, v)
  BY FetcherAssumption
<1>3. SV!comparePrecedence(Version[v], Version[w]) = 1 <=> v > w
  BY <1>1, <1>2 DEF SV!order
<1>4. Version[v] = Version[w] => v = w
  BY <1>1, <1>2 DEF SV!order
<1>5. Version[v] # SV!NoVersion
  <2>1. Version[v] \in SV!SemVer
    BY FetcherAssumption DEF Ranks
  <2>2. DOMAIN Version[v].core = 1 .. 3
    BY <2>1 DEF SV!SemVer
  <2>3. DOMAIN SV!NoVersion.core = 1 .. 0
    BY DEF SV!NoVersion
  <2>4. 1 .. 3 # 1 .. 0
    <3>1. 1 \in 1 .. 3 /\ 1 \notin 1 .. 0
      OBVIOUS
    <3>2. QED
      BY <3>1
  <2>5. QED
    BY <2>2, <2>3, <2>4
<1>6. QED
  BY <1>1, <1>3, <1>4, <1>5

\* The recursive function is there, and does what its equation says.
LEMMA SelectedAfter ==
  ASSUME NEW releases, NEW c, Len(releases) \in Nat
  PROVE  \A n \in 0 .. Len(releases) :
           selected_after(releases, c)[n] =
             IF n = 0 THEN SV!NoVersion
             ELSE body(releases[n], c, selected_after(releases, c)[n - 1])
<1> DEFINE N == Len(releases)
           Eq(f, k) == f = [n \in 0 .. k |-> IF n = 0 THEN SV!NoVersion
                                             ELSE body(releases[n], c, f[n - 1])]
           T == {k \in Nat : \E f : Eq(f, k)}
<1>1. 0 \in T
  <2>1. Eq([n \in 0 .. 0 |-> SV!NoVersion], 0)
    OBVIOUS
  <2>2. QED
    BY <2>1, Zenon
<1>2. ASSUME NEW k \in Nat, k \in T PROVE k + 1 \in T
  <2>1. PICK f : Eq(f, k)
    BY <1>2
  <2> DEFINE g == [n \in 0 .. k + 1 |-> IF n = k + 1 THEN body(releases[n], c, f[k]) ELSE f[n]]
  <2>2. ASSUME NEW n \in 0 .. k + 1
        PROVE  g[n] = IF n = 0 THEN SV!NoVersion ELSE body(releases[n], c, g[n - 1])
    <3>1. CASE n = k + 1
      <4>1. g[n] = body(releases[n], c, f[k])
        BY <3>1
      <4>2. g[n - 1] = f[k]
        BY <3>1
      <4>3. QED
        BY <3>1, <4>1, <4>2
    <3>2. CASE n # k + 1
      <4>1. n \in 0 .. k /\ g[n] = f[n]
        BY <3>2
      <4>2. f[n] = IF n = 0 THEN SV!NoVersion ELSE body(releases[n], c, f[n - 1])
        BY <2>1, <4>1
      <4>3. n # 0 => g[n - 1] = f[n - 1]
        BY <4>1
      <4>4. QED
        BY <4>1, <4>2, <4>3
    <3>3. QED
      BY <3>1, <3>2
  <2>3. Eq(g, k + 1)
    BY <2>2
  <2> HIDE DEF g
  <2>4. \E h : Eq(h, k + 1)
    BY <2>3, Zenon
  <2>5. QED
    BY <2>4
<1> HIDE DEF T
<1>3. Nat \subseteq T
  BY <1>1, <1>2, SetInduction
<1>4. \E f : Eq(f, N)
  BY <1>3 DEF T
<1> DEFINE after == CHOOSE f : Eq(f, N)
<1>5. Eq(after, N)
  BY <1>4, Zenon
<1>6. selected_after(releases, c) = after
  BY DEF selected_after, body
<1> HIDE DEF after
<1>7. QED
  BY <1>5, <1>6

LEMMA SelectedIsBest ==
  ASSUME NEW releases \in Lists, NEW c
  PROVE  BestOf(releases, c, Len(releases), selected_after(releases, c)[Len(releases)])
<1> DEFINE N == Len(releases)
           f == selected_after(releases, c)
           T == {n \in Nat : n <= N => BestOf(releases, c, n, f[n])}
<1>1. releases \in Seq(Releases) /\ N \in Nat /\ DOMAIN releases = 1 .. N
  BY ListsAssumption
<1>2. \A n \in 0 .. N : f[n] = IF n = 0 THEN SV!NoVersion ELSE body(releases[n], c, f[n - 1])
  BY <1>1, SelectedAfter
<1> HIDE DEF f, N
<1>3. 0 \in T
  <2>1. f[0] = SV!NoVersion
    BY <1>1, <1>2
  <2>2. QED
    BY <2>1 DEF BestOf
<1>4. ASSUME NEW n \in Nat, n \in T PROVE n + 1 \in T
  <2> SUFFICES ASSUME n + 1 <= N PROVE BestOf(releases, c, n + 1, f[n + 1])
    OBVIOUS
  <2> DEFINE r == releases[n + 1]
             s == f[n]
  <2>1. BestOf(releases, c, n, s)
    BY <1>1, <1>4
  <2>2. f[n + 1] = body(r, c, s)
    <3>1. n + 1 \in 0 .. N /\ n + 1 # 0 /\ n + 1 - 1 = n
      BY <1>1
    <3>2. QED
      BY <1>2, <3>1
  <2>3. n + 1 \in 1 .. n + 1 /\ 1 .. n \subseteq 1 .. n + 1
        /\ \A i \in 1 .. n + 1 : i # n + 1 => i \in 1 .. n
    OBVIOUS
  <2>4. SV!parse(r.tag) \in {SV!NoVersion} \cup {Version[v] : v \in Ranks}
    <3>1. n + 1 \in DOMAIN releases
      BY <1>1
    <3>2. QED
      BY <3>1, ListsAssumption
  <2> HIDE DEF r, s
  <2>5. CASE ~usable(r, c)
    <3>1. f[n + 1] = s
      BY <2>2, <2>5 DEF body
    <3>2. CASE s = SV!NoVersion /\ \A i \in 1 .. n : ~usable(releases[i], c)
      BY <3>1, <3>2, <2>3, <2>5 DEF BestOf, r
    <3>3. ASSUME NEW v \in Ranks,
                 s = Version[v],
                 \E i \in 1 .. n : usable(releases[i], c) /\ ranked(releases[i], v),
                 \A i \in 1 .. n, w \in Ranks :
                   usable(releases[i], c) /\ ranked(releases[i], w) => w <= v
          PROVE  BestOf(releases, c, n + 1, f[n + 1])
      <4>1. \E i \in 1 .. n + 1 : usable(releases[i], c) /\ ranked(releases[i], v)
        BY <3>3, <2>3
      <4>2. \A i \in 1 .. n + 1, w \in Ranks :
              usable(releases[i], c) /\ ranked(releases[i], w) => w <= v
        BY <3>3, <2>3, <2>5 DEF r
      <4>3. QED
        BY <3>1, <3>3, <4>1, <4>2, Zenon DEF BestOf
    <3>4. QED
      BY <2>1, <3>2, <3>3, Zenon DEF BestOf
  <2>6. CASE usable(r, c)
    <3>1. PICK u \in Ranks : SV!parse(r.tag) = Version[u]
      BY <2>4, <2>6 DEF usable
    <3>2. CASE s = SV!NoVersion /\ \A i \in 1 .. n : ~usable(releases[i], c)
      <4>1. f[n + 1] = Version[u]
        BY <2>2, <2>6, <3>1, <3>2 DEF body, better
      <4>2. \E i \in 1 .. n + 1 : usable(releases[i], c) /\ ranked(releases[i], u)
        BY <2>3, <2>6, <3>1 DEF r, ranked
      <4>3. \A i \in 1 .. n + 1, w \in Ranks :
              usable(releases[i], c) /\ ranked(releases[i], w) => w <= u
        <5> TAKE i \in 1 .. n + 1, w \in Ranks
        <5> HAVE usable(releases[i], c) /\ ranked(releases[i], w)
        <5>1. i = n + 1
          BY <2>3, <3>2
        <5>2. Version[w] = Version[u]
          BY <3>1, <5>1 DEF ranked, r
        <5>3. QED
          BY <5>2, RanksDiffer
      <4>4. QED
        BY <4>1, <4>2, <4>3, Zenon DEF BestOf
    <3>3. ASSUME NEW v \in Ranks,
                 s = Version[v],
                 \E i \in 1 .. n : usable(releases[i], c) /\ ranked(releases[i], v),
                 \A i \in 1 .. n, w \in Ranks :
                   usable(releases[i], c) /\ ranked(releases[i], w) => w <= v
          PROVE  BestOf(releases, c, n + 1, f[n + 1])
      <4> DEFINE b == IF u > v THEN u ELSE v
      <4>0. b \in Ranks /\ u <= b /\ v <= b
        BY RanksDiffer
      <4>1. f[n + 1] = Version[b]
        BY <2>2, <2>6, <3>1, <3>3, RanksDiffer DEF body, better
      <4>2. \E i \in 1 .. n + 1 : usable(releases[i], c) /\ ranked(releases[i], b)
        <5>1. CASE u > v
          BY <5>1, <2>3, <2>6, <3>1 DEF r, ranked
        <5>2. CASE ~(u > v)
          BY <5>2, <2>3, <3>3
        <5>3. QED
          BY <5>1, <5>2
      <4>3. \A i \in 1 .. n + 1, w \in Ranks :
              usable(releases[i], c) /\ ranked(releases[i], w) => w <= b
        <5> TAKE i \in 1 .. n + 1, w \in Ranks
        <5> HAVE usable(releases[i], c) /\ ranked(releases[i], w)
        <5>1. CASE i = n + 1
          <6>1. Version[w] = Version[u]
            BY <3>1, <5>1 DEF ranked, r
          <6>2. QED
            BY <6>1, <4>0, RanksDiffer
        <5>2. CASE i # n + 1
          <6>1. w <= v
            BY <2>3, <3>3, <5>2
          <6>2. w \in Nat /\ v \in Nat /\ b \in Nat
            BY <4>0, RanksDiffer
          <6>3. QED
            BY <4>0, <6>1, <6>2
        <5>3. QED
          BY <5>1, <5>2
      <4> HIDE DEF b
      <4>4. QED
        BY <4>0, <4>1, <4>2, <4>3, Zenon DEF BestOf
    <3>4. QED
      BY <2>1, <3>2, <3>3, Zenon DEF BestOf
  <2>7. QED
    BY <2>5, <2>6
<1> HIDE DEF T
<1>5. Nat \subseteq T
  BY <1>3, <1>4, SetInduction
<1>6. QED
  BY <1>1, <1>5 DEF T, f, N

\* What selectGithubRelease() returns, if anything, is usable and the greatest of
\* the usable releases, for any list.
THEOREM SelectionIsGreatest ==
  ASSUME NEW releases \in Lists, NEW c, NEW v \in Ranks, v = selectGithubRelease(releases, c)
  PROVE  /\ \E i \in DOMAIN releases : usable(releases[i], c) /\ ranked(releases[i], v)
         /\ \A i \in DOMAIN releases, w \in Ranks :
              usable(releases[i], c) /\ ranked(releases[i], w) => w <= v
<1> DEFINE selected == selected_after(releases, c)[Len(releases)]
<1>1. DOMAIN releases = 1 .. Len(releases)
  BY ListsAssumption
<1>2. BestOf(releases, c, Len(releases), selected)
  BY SelectedIsBest
<1>3. v = IF selected = SV!NoVersion THEN NoRelease
          ELSE CHOOSE u \in Ranks : Version[u] = selected
  BY DEF selectGithubRelease
<1> HIDE DEF selected
<1>4. selected # SV!NoVersion
  BY <1>3, FetcherAssumption
<1>5. PICK u \in Ranks :
        /\ selected = Version[u]
        /\ \E i \in 1 .. Len(releases) : usable(releases[i], c) /\ ranked(releases[i], u)
        /\ \A i \in 1 .. Len(releases), w \in Ranks :
             usable(releases[i], c) /\ ranked(releases[i], w) => w <= u
  BY <1>2, <1>4, Zenon DEF BestOf
<1>6. Version[v] = selected
  BY <1>3, <1>4, <1>5
<1>7. v = u
  BY <1>5, <1>6, RanksDiffer
<1>8. QED
  BY <1>1, <1>5, <1>7

-----------------------------------------------------------------------------
(* The channel *)

\* What the loop selects is for one channel: a file answers for the channel it
\* is named after, and the request for the one that is chosen.
SelectedFrom(releases, c, v) == releases \in Lists /\ v = selectGithubRelease(releases, c)

Backed == \A c \in Channels : fresh(cache[c]) => SelectedFrom(origin[c], c, cache[c].data)

\* The request, the files and the offer are all the channel's.
ChannelInv ==
  /\ reply # "none" => reply = channel
  /\ Backed
  /\ remote_version # None => SelectedFrom(heard, channel, remote_version)

LEMMA ChannelInit == SystemInit => ChannelInv
BY DEF SystemInit, InitFetcher, Init, ChannelInv, Backed, SelectedFrom

\* A file that is still fresh has not been written since.
LEMMA StillBacked ==
  ASSUME Backed, origin' = origin_still,
         \A c \in Channels : fresh(cache'[c]) => fresh(cache[c]) /\ cache'[c].data = cache[c].data
  PROVE  Backed'
<1> SUFFICES ASSUME NEW c \in Channels, fresh(cache'[c])
             PROVE  SelectedFrom(origin'[c], c, cache'[c].data)
  BY DEF Backed
<1>1. origin'[c] = origin[c]
  BY DEF origin_still
<1>2. QED
  BY <1>1 DEF Backed

\* A check, for the channel that is selected from now on.
LEMMA CheckKeepsChannel ==
  ASSUME SystemInv, ChannelInv, NEW c \in Channels, check_update(c), channel' = c
  PROVE  ChannelInv'
<1>1. origin' = origin_still /\ Backed
  BY DEF check_update, ChannelInv
<1>2. CASE local_version = None /\ check_refused(clear_error_state(dl)) /\ UNCHANGED fetcherVars
  <2>1. reply = "none"
    BY <1>2 DEF SystemInv, FetcherInv, LauncherInv, CheckInv
  <2>2. reply' = "none" /\ UNCHANGED cache /\ remote_version' = None
    BY <1>2, <2>1 DEF fetcherVars, check_refused, reset_offer
  <2>3. Backed'
    BY <1>1, <2>2, StillBacked
  <2>4. QED
    BY <2>2, <2>3 DEF ChannelInv
<1>3. CASE local_version # None /\ fetch_sent(c) /\ check_sent(clear_error_state(dl))
  <2>1. reply' = c /\ remote_version' = None
    BY <1>3 DEF fetch_sent, check_sent, reset_offer
  <2>2. cache' = [cache EXCEPT ![c] = file_read(cache[c])]
    BY <1>3 DEF fetch_sent, cache_name
  <2>3. file_read(cache[c]) \in {cache[c], NoFile} /\ ~fresh(NoFile)
    BY DEF file_read, fresh, NoFile
  <2>4. cache \in [Channels -> Files(Ranks)]
    BY DEF SystemInv, FetcherInv, FetcherTypeOK
  <2>5. \A k \in Channels : cache'[k] = cache[k] \/ ~fresh(cache'[k])
    BY <2>2, <2>3, <2>4
  <2>6. Backed'
    BY <1>1, <2>5, StillBacked
  <2>7. QED
    BY <2>1, <2>6 DEF ChannelInv
<1>4. ASSUME NEW text \in Versions, fetch_cached(c, text),
             on_release(text, clear_error_state(dl)), heard' = origin[cache_name(c)]
      PROVE  ChannelInv'
  <2>1. reply' = "none" /\ UNCHANGED cache /\ heard' = origin[c]
    BY <1>4 DEF fetch_cached, cache_name
  <2>2. fresh(cache[c]) /\ text = cache[c].data
    BY <1>4 DEF fetch_cached, cache_name
  <2>3. remote_version' \in {None, text}
    BY <1>4 DEF on_release, parse, reset_offer
  <2>4. SelectedFrom(heard', c, text)
    BY <1>1, <2>1, <2>2 DEF Backed
  <2>5. Backed'
    BY <1>1, <2>1, StillBacked
  <2>6. QED
    BY <2>1, <2>3, <2>4, <2>5 DEF ChannelInv
<1>5. QED
  BY <1>2, <1>3, <1>4 DEF check_update

\* The list that is answered is the one the file is made from, and the offer.
LEMMA AnswerKeepsChannel ==
  ASSUME SystemInv, ChannelInv, ReleaseAnswered
  PROVE  ChannelInv'
<1>1. UNCHANGED channel /\ reply' = "none" /\ reply # "none" /\ channel = reply
  BY DEF ReleaseAnswered, answered, answered_error, ChannelInv
<1>2. ASSUME NEW releases \in Lists, NEW v \in Versions,
             answered(releases, v), on_release(v, dl), heard' = releases,
             origin' = origin_after(releases)
      PROVE  ChannelInv'
  <2>1. SelectedFrom(releases, channel, v)
    BY <1>1, <1>2 DEF answered, SelectedFrom
  <2>2. remote_version' \in {None, v}
    BY <1>2 DEF on_release, parse, reset_offer
  <2>3. PICK file \in {cache[channel], Garbage, Entry(v, 0)} :
          cache' = [cache EXCEPT ![channel] = file]
    BY <1>1, <1>2 DEF answered, cache_name, file_written
  <2>4. cache \in [Channels -> Files(Ranks)]
    BY DEF SystemInv, FetcherInv, FetcherTypeOK
  <2>5. ASSUME NEW k \in Channels, fresh(cache'[k])
        PROVE  SelectedFrom(origin'[k], k, cache'[k].data)
    <3>1. CASE cache'[k] = cache[k]
      BY <1>2, <2>5, <3>1 DEF origin_after, ChannelInv, Backed
    <3>2. CASE cache'[k] # cache[k]
      <4>1. k = channel /\ cache'[k] = file /\ file # cache[channel]
        BY <2>3, <2>4, <3>2
      <4>2. file = Entry(v, 0)
        BY <2>3, <2>5, <4>1 DEF fresh, Garbage
      <4>3. origin'[k] = releases
        BY <1>2, <2>5, <3>2 DEF origin_after
      <4>4. QED
        BY <2>1, <4>1, <4>2, <4>3 DEF Entry
    <3>3. QED
      BY <3>1, <3>2
  <2>6. Backed'
    BY <2>5 DEF Backed
  <2>7. QED
    BY <1>1, <1>2, <2>1, <2>2, <2>6 DEF ChannelInv
<1>3. CASE answered_error /\ dl' = set_error_state(dl) /\ UNCHANGED <<offer, history>>
  <2>1. UNCHANGED <<cache, origin, heard, remote_version>>
    BY <1>3 DEF answered_error, offer, history
  <2>2. QED
    BY <1>1, <2>1 DEF ChannelInv, Backed
<1>4. QED
  BY <1>2, <1>3 DEF ReleaseAnswered

\* Nothing becomes fresh with time.
LEMMA CacheKeepsChannel ==
  ASSUME SystemInv, ChannelInv, ClearCache \/ Clock
  PROVE  ChannelInv'
<1>1. UNCHANGED <<reply, channel, heard, remote_version>> /\ origin' = origin_still
  BY DEF ClearCache, Clock, clear_all, TimePasses, vars, offer
<1>2. ASSUME NEW k \in Channels, fresh(cache'[k])
      PROVE  fresh(cache[k]) /\ cache'[k].data = cache[k].data
  <2>1. CASE ClearCache
    BY <1>2, <2>1 DEF ClearCache, clear_all, fresh, NoFile
  <2>2. CASE Clock
    <3>1. cache'[k] = file_older(cache[k]) /\ cache[k] \in Files(Ranks)
      BY <2>2 DEF Clock, TimePasses, SystemInv, FetcherInv, FetcherTypeOK
    <3>2. cache[k] \in [kind : {"entry"}, data : Ranks, age : Ages]
      BY <1>2, <3>1 DEF file_older, fresh, Files, NoFile, Garbage
    <3>3. /\ cache'[k].data = cache[k].data
          /\ cache'[k].age = older(cache[k].age)
      BY <3>1, <3>2 DEF file_older
    <3>4. cache[k].age <= Ttl
      BY <1>2, <3>2, <3>3, JsonCacheAssumption DEF fresh, older, Ages
    <3>5. QED
      BY <3>2, <3>3, <3>4 DEF fresh
  <2>3. QED
    BY <2>1, <2>2
<1>3. Backed'
  BY <1>1, <1>2, StillBacked DEF ChannelInv
<1>4. QED
  BY <1>1, <1>3 DEF ChannelInv

LEMMA ChannelStep == SystemInv /\ ChannelInv /\ [SystemNext]_systemVars => ChannelInv'
<1> SUFFICES ASSUME SystemInv, ChannelInv, [SystemNext]_systemVars PROVE ChannelInv'
  OBVIOUS
<1>1. CASE Check
  BY <1>1, CheckKeepsChannel DEF Check, SystemInv, FetcherInv
<1>2. CASE ToggleChannel
  BY <1>2, CheckKeepsChannel DEF ToggleChannel
<1>3. CASE ReleaseAnswered
  BY <1>3, AnswerKeepsChannel
<1>4. CASE Transfer
  <2>1. UNCHANGED <<fetcherVars, channel, history, remote_version>>
    BY <1>4 DEF Transfer, Download, CancelDownload, ReplyFinished, offer
  <2>2. QED
    BY <2>1 DEF fetcherVars, history, ChannelInv, Backed
<1>5. CASE ClearCache \/ Clock
  BY <1>5, CacheKeepsChannel
<1>6. CASE UNCHANGED systemVars
  BY <1>6 DEF systemVars, fetcherVars, history, vars, offer, ChannelInv, Backed
<1>7. QED
  BY <1>1, <1>2, <1>3, <1>4, <1>5, <1>6 DEF SystemNext

LEMMA ChannelAlways == SystemSpec => [](SystemInv /\ ChannelInv)
<1>1. SystemInit => SystemInv /\ ChannelInv
  BY SystemInitInv, ChannelInit
<1>2. SystemInv /\ ChannelInv /\ [SystemNext]_systemVars => (SystemInv /\ ChannelInv)'
  BY SystemStep, ChannelStep
<1>3. QED
  BY <1>1, <1>2, PTL DEF SystemSpec

-----------------------------------------------------------------------------
(* Theorems *)

\* Every variable keeps its type, and the fetcher has a request under way
\* exactly while the check waits for an answer.
THEOREM SystemKeepsType == SystemSpec => []SystemTypeOK
<1>1. SystemInv => SystemTypeOK
  BY DEF SystemInv, FetcherInv, SystemTypeOK, LauncherInv, TransferInv, CheckInv, EndInv,
         TypeOK, DownloaderTypeOK
<1>2. QED
  BY <1>1, SystemAlways, PTL

\* Every behaviour of the composition is, apart from liveness, a behaviour of
\* LauncherUpdate: its fetcher answers at most once, and only the last check.
THEOREM SystemRefinesLauncher == SystemSpec => Init /\ [][Next]_vars
<1>1. SystemInit => Init
  BY SystemInitInv
<1>2. SystemInv /\ [SystemNext]_systemVars => [Next]_vars
  BY SystemStep
<1>3. QED
  BY <1>1, <1>2, SystemAlways, PTL DEF SystemSpec

\* The two refinements composed: with the real fetcher, the switch of the channel
\* and the cache, the installer's download still keeps the promises of
\* DownloadJob, the safety half.
THEOREM SystemRefinesJob == SystemSpec => Job!Init /\ [][Job!Next]_(Job!vars)
<1>1. SystemInit => Job!Init
  BY SystemInitInv DEF Init, new_downloader, set_error_state, Job!Init, job, Products
<1>2. SystemInv /\ [SystemNext]_systemVars => [Job!Next]_(Job!vars)
  BY SystemStep, LauncherStep DEF SystemInv, JobStep
<1>3. QED
  BY <1>1, <1>2, SystemAlways, PTL DEF SystemSpec

\* With the fetcher, the launcher still ends itself only for an installer.
THEOREM SystemQuits == SystemSpec => []QuitsForInstaller
<1>1. SystemInv => QuitsForInstaller
  BY DEF SystemInv, LauncherInv, EndInv
<1>2. QED
  BY <1>1, SystemAlways, PTL

\* With channels, caches and overlapping checks, an offer is still newer than
\* the launcher, and its link leads to the version shown.
THEOREM SystemOffer == SystemSpec => []OfferIsNewer
<1>1. SystemInv => OfferIsNewer
  BY DEF SystemInv, LauncherInv, CheckInv
<1>2. QED
  BY <1>1, SystemAlways, PTL

\* Of any two versions exactly one precedes the other, or each is as good as
\* the other, whichever way they are compared: numbers of any size, numbers
\* and words, lists of any length.
THEOREM PrecedenceAntisymmetric ==
  ASSUME NEW v \in SV!SemVer, NEW w \in SV!SemVer
  PROVE  Opposite(SV!comparePrecedence(v, w), SV!comparePrecedence(w, v))
<1>1. Opposite(SV!compareCore(v.core, w.core), SV!compareCore(w.core, v.core))
  BY CoreOpposite DEF SV!SemVer
<1>2. Opposite(SV!comparePrerelease(v.prerelease, w.prerelease),
               SV!comparePrerelease(w.prerelease, v.prerelease))
  BY PrereleaseOpposite DEF SV!SemVer
<1> DEFINE rank(x) == IF SV!isPrerelease(x) THEN 0 ELSE 1
<1>3. Opposite(SV!order(rank(v), rank(w)), SV!order(rank(w), rank(v)))
  BY OrderOpposite
<1>4. QED
  BY <1>1, <1>2, <1>3 DEF SV!comparePrecedence, Opposite

\* Precedence is transitive, and strict as soon as one of the two steps is:
\* through core, kind and number of identifiers, however long the versions.
THEOREM PrecedenceTransitive ==
  ASSUME NEW u \in SV!SemVer, NEW v \in SV!SemVer, NEW w \in SV!SemVer,
         SV!comparePrecedence(u, v) <= 0, SV!comparePrecedence(v, w) <= 0
  PROVE  SV!comparePrecedence(u, w) =
           IF SV!comparePrecedence(u, v) = 0 /\ SV!comparePrecedence(v, w) = 0 THEN 0 ELSE -1
<1> DEFINE core(x, y) == SV!compareCore(x.core, y.core)
           rank(x) == IF SV!isPrerelease(x) THEN 0 ELSE 1
           ranks(x, y) == SV!order(rank(x), rank(y))
           tail(x, y) == SV!comparePrerelease(x.prerelease, y.prerelease)
           rest(x, y) == IF rank(x) = 1 \/ rank(y) = 1 THEN ranks(x, y) ELSE tail(x, y)
<1>1. Chain(core(u, v), core(v, w), core(u, w))
  BY CoreChain DEF SV!SemVer
<1>2. Chain(tail(u, v), tail(v, w), tail(u, w))
  BY PrereleaseChain DEF SV!SemVer
<1>3. rank(u) \in {0, 1} /\ rank(v) \in {0, 1} /\ rank(w) \in {0, 1}
  OBVIOUS
<1>4. ASSUME NEW x, NEW y
      PROVE  SV!comparePrecedence(x, y) = IF core(x, y) # 0 THEN core(x, y) ELSE rest(x, y)
  BY DEF SV!comparePrecedence
<1> HIDE DEF core, rank, tail
<1>5. Chain(rest(u, v), rest(v, w), rest(u, w))
  BY <1>2, <1>3 DEF Chain, Results, SV!order
<1> HIDE DEF rest
<1>6. Chain(IF core(u, v) # 0 THEN core(u, v) ELSE rest(u, v),
            IF core(v, w) # 0 THEN core(v, w) ELSE rest(v, w),
            IF core(u, w) # 0 THEN core(u, w) ELSE rest(u, w))
  BY <1>1, <1>5, ThenChain
<1>7. QED
  BY <1>4, <1>6 DEF Chain

\* Versions of the same precedence are the same version, build metadata apart: a
\* release that is no better than the selected one, nor worse, is no other.
THEOREM PrecedenceTotal ==
  ASSUME NEW v \in SV!SemVer, NEW w \in SV!SemVer
  PROVE  SV!comparePrecedence(v, w) = 0 <=> v = w
<1>1. v = w => SV!comparePrecedence(v, w) = 0
  BY PrecedenceAntisymmetric DEF Opposite
<1>2. ASSUME SV!comparePrecedence(v, w) = 0 PROVE v = w
  <2>1. v.core = w.core
    BY <1>2, CoreSame DEF SV!comparePrecedence, SV!SemVer
  <2>2. SV!compareCore(v.core, w.core) = 0
    BY <1>2 DEF SV!comparePrecedence
  <2>3. CASE ~SV!isPrerelease(v) \/ ~SV!isPrerelease(w)
    <3>1. ~SV!isPrerelease(v) /\ ~SV!isPrerelease(w)
      BY <1>2, <2>2, <2>3 DEF SV!comparePrecedence, SV!order
    <3>2. v.prerelease = w.prerelease
      BY <3>1 DEF SV!isPrerelease
    <3>3. QED
      BY <2>1, <3>2 DEF SV!SemVer
  <2>4. CASE SV!isPrerelease(v) /\ SV!isPrerelease(w)
    <3>1. v.prerelease = w.prerelease
      BY <1>2, <2>2, <2>4, PrereleaseSame DEF SV!comparePrecedence, SV!SemVer
    <3>2. QED
      BY <2>1, <3>1 DEF SV!SemVer
  <2>5. QED
    BY <2>3, <2>4
<1>3. QED
  BY <1>1, <1>2

\* What is offered is the version of a release that GitHub listed and that may
\* be offered on the channel chosen: no draft, nothing without an installer, and
\* with pre-releases switched off none that is one by its flag or its version.
\* Whatever was under way, and whichever files there were, at the switch.
THEOREM SystemChannel == SystemSpec => []OfferInChannel
<1>1. ASSUME SystemInv, ChannelInv, remote_version # None
      PROVE  \E i \in Eligible(heard, channel) :
               SV!parse(heard[i].tag) = Version[remote_version]
  <2>1. remote_version \in Ranks /\ SelectedFrom(heard, channel, remote_version)
    BY <1>1, LauncherReleaseAssumption DEF ChannelInv, SystemInv, LauncherInv, CheckInv
  <2>2. PICK i \in DOMAIN heard : usable(heard[i], channel) /\ ranked(heard[i], remote_version)
    BY <2>1, SelectionIsGreatest DEF SelectedFrom
  <2>3. i \in Eligible(heard, channel)
    BY <2>1, <2>2 DEF ranked, usable, in_channel, SV!isPrerelease, Eligible
  <2>4. QED
    BY <2>2, <2>3 DEF ranked
<1>2. SystemInv /\ ChannelInv => OfferInChannel
  BY <1>1 DEF OfferInChannel
<1>3. QED
  BY <1>2, ChannelAlways, PTL

\* No release of the list behind the offer that may be offered is greater, for
\* any list, be it answered by GitHub or remembered by a file.
THEOREM SystemBest == SystemSpec => []OfferIsBest
<1>1. ASSUME SystemInv, ChannelInv, remote_version # None,
             NEW j \in Eligible(heard, channel), NEW w \in Ranks,
             SV!parse(heard[j].tag) = Version[w]
      PROVE  w <= remote_version
  <2>1. remote_version \in Ranks /\ SelectedFrom(heard, channel, remote_version)
    BY <1>1, LauncherReleaseAssumption DEF ChannelInv, SystemInv, LauncherInv, CheckInv
  <2>2. j \in DOMAIN heard /\ usable(heard[j], channel)
    BY <1>1, RanksDiffer DEF Eligible, usable, in_channel, SV!isPrerelease
  <2>3. QED
    BY <1>1, <2>1, <2>2, SelectionIsGreatest DEF SelectedFrom, ranked
<1>2. SystemInv /\ ChannelInv => OfferIsBest
  BY <1>1 DEF OfferIsBest
<1>3. QED
  BY <1>2, ChannelAlways, PTL
=============================================================================

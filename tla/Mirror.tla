------------------------------- MODULE Mirror -------------------------------
(***************************************************************************)
(* MirrorSource: measures how fast the download mirrors answer, and keeps  *)
(* the results in the cache file MirrorLatency.  A latency is represented  *)
(* by the time since it was measured.  MirrorSelect is the dialog that     *)
(* starts the rounds and shows the results.                                *)
(***************************************************************************)
EXTENDS JsonCache, Sequences, SequencesExt

CONSTANTS
  LastMirror,  \* mirror_sources are 0 .. LastMirror
  Absent,      \* no latency: none in the map, or a negative one
  MaxReplies   \* bound: replies in flight for one mirror

VARIABLES
  file,           \* the cache file
  latency_cache,  \* m_latency_cache
  replies,        \* replies[i]: probes of mirror i that have not been measured
  emissions,      \* queued emissions of latencyReady
  pendingTests    \* of the dialog: results it waits for

vars == <<file, latency_cache, replies, emissions, pendingTests>>

Mirrors == 0 .. LastMirror
Latencies == [Mirrors -> Ages \cup {Absent}]
Emission == [index : Mirrors, ms : Ages \cup {Absent}]
nothing == [i \in Mirrors |-> Absent]

TypeOK ==
  /\ file \in Files(Latencies)
  /\ latency_cache \in Latencies
  /\ replies \in [Mirrors -> 0 .. MaxReplies]
  /\ emissions \in Seq(Emission)
  /\ pendingTests \in 0 .. LastMirror + 1

-----------------------------------------------------------------------------

\* The first of metaDataChanged, readyRead, errorOccurred, finished and the
\* watchdog decides; the others are disconnected.  A latency goes into the map,
\* and the whole map into the file.
measured(i) ==
  /\ latency_cache' = [latency_cache EXCEPT ![i] = 0]
  /\ file' \in file_written(file, latency_cache')
  /\ emissions' = Append(emissions, [index |-> i, ms |-> 0])

timed_out(i) ==
  /\ emissions' = Append(emissions, [index |-> i, ms |-> Absent])
  /\ UNCHANGED <<latency_cache, file>>

ProbeFinished ==
  \E i \in Mirrors :
    /\ replies[i] > 0
    /\ replies' = [replies EXCEPT ![i] = @ - 1]
    /\ measured(i) \/ timed_out(i)
    /\ UNCHANGED pendingTests

\* The cached latencies are emitted again, and only the others are probed.
test_all_latency(force) ==
  LET cached == IF ~force /\ fresh(file) THEN file.data ELSE nothing
      replayed == SetToSortSeq({i \in Mirrors : cached[i] # Absent}, <)
      pending == {i \in Mirrors : cached[i] = Absent}
  IN  /\ Len(emissions) <= LastMirror  \* bound
      /\ \A i \in pending : replies[i] < MaxReplies
      /\ latency_cache' = cached
      /\ file' = IF force THEN file ELSE file_read(file)
      /\ emissions' = emissions \o [k \in DOMAIN replayed |->
                        [index |-> replayed[k], ms |-> cached[replayed[k]]]]
      /\ replies' = [i \in Mirrors |-> replies[i] + IF i \in pending THEN 1 ELSE 0]

\* Opening the dialog starts a round, whatever an earlier one still does; the
\* button only when the dialog waits for nothing.
OpenDialog == test_all_latency(FALSE) /\ pendingTests' = LastMirror + 1

TestLatency ==
  /\ pendingTests = 0
  /\ test_all_latency(TRUE)
  /\ pendingTests' = LastMirror + 1

\* The event loop delivers the first queued emission to the dialog.
LatencyReady ==
  /\ emissions # <<>>
  /\ emissions' = Tail(emissions)
  /\ pendingTests' = IF pendingTests = 0 THEN 0 ELSE pendingTests - 1
  /\ UNCHANGED <<file, latency_cache, replies>>

\* Settings.clear_cache().
ClearCache == file' = NoFile /\ UNCHANGED <<latency_cache, replies, emissions, pendingTests>>

\* A step of the clock is much longer than the eight seconds of a probe.
TimePasses ==
  LET later(c) == [i \in Mirrors |-> IF c[i] = Absent THEN Absent ELSE older(c[i])]
  IN  /\ replies = [i \in Mirrors |-> 0] /\ emissions = <<>>
      /\ file' = IF file.kind = "entry" THEN [file_older(file) EXCEPT !.data = later(@)]
                 ELSE file
      /\ latency_cache' = later(latency_cache)
      /\ UNCHANGED <<replies, emissions, pendingTests>>

Init ==
  /\ file \in {NoFile, Garbage}
  /\ latency_cache = nothing
  /\ replies = [i \in Mirrors |-> 0]
  /\ emissions = <<>>
  /\ pendingTests = 0

Next ==
  \/ OpenDialog \/ TestLatency \/ ProbeFinished \/ LatencyReady
  \/ ClearCache \/ TimePasses

Spec == Init /\ [][Next]_vars

-----------------------------------------------------------------------------

\* A round "re-emits cached results from a previous round if still within TTL"
\* (mirror.hpp:52-53): no latency is shown that was measured longer ago.
ReplayedWithinTtl ==
  \A k \in DOMAIN emissions : emissions[k].ms # Absent => emissions[k].ms <= Ttl
=============================================================================

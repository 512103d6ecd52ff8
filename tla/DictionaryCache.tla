--------------------------- MODULE DictionaryCache ---------------------------
(***************************************************************************)
(* The spelling policy's refresh: main() of                                *)
(* src/scripts/generate_typos_config.py with refresh_base of               *)
(* src/scripts/typos_rollout.py.                                           *)
(*                                                                         *)
(* A run of the script brings an untracked cache of the shared dictionary  *)
(* up to date with its authority and generates typos.toml from it.  What   *)
(* tells it whether the cache is current is a sidecar of metadata, written *)
(* after the cache; a run may stop between the two.  Each of the three     *)
(* files is replaced as a whole (atomic_write).                            *)
(*                                                                         *)
(* A dictionary is the authority it comes from and a stamp that grows with *)
(* each publication: its mtime at a local authority, its Last-Modified and *)
(* its ETag at a remote one.                                               *)
(***************************************************************************)
EXTENDS Naturals

CONSTANTS
  Local,      \* authorities that are files
  Remote,     \* authorities behind HTTPS
  Tagged,     \* remote authorities that send an ETag
  Dated,      \* remote authorities that send Last-Modified
  Malformed,  \* stamps of documents _dictionary_from_text rejects
  MaxStamp,   \* bound: publications
  Helper,     \* runs of the script that can be in progress at once
  None        \* no file, no content

ASSUME AuthoritiesAssumption ==
  /\ Local \cap Remote = {}
  /\ Tagged \subseteq Remote /\ Dated \subseteq Remote
ASSUME StampsAssumption == MaxStamp \in Nat \ {0} /\ Malformed \subseteq 1..MaxStamp
ASSUME NoneAssumption ==
  None \notin Local \cup Remote /\ None \notin [from : Local \cup Remote, stamp : 1..MaxStamp]

VARIABLES
  latest,    \* stamp of the last publication
  doc,       \* doc[a]: stamp of what authority a serves, 0 for nothing
  cache,     \* .typos-oxendict-base.toml
  sidecar,   \* .typos-oxendict-base.json
  config,    \* the dictionary typos.toml was generated from, None as checked out
  run        \* run[h]: where h is and what it has read

files == <<cache, sidecar, config>>
vars  == <<latest, doc, files, run>>

Authority == Local \cup Remote
Stamp     == 1..MaxStamp
Document  == [from : Authority, stamp : Stamp]
WellFormed == {d \in Document : d.stamp \notin Malformed}

Steps  == {"idle", "stat", "sidecar", "compare", "read", "fetch", "judge",
           "write_cache", "write_sidecar", "render", "install"}
Status == {"none", "current", "refreshed", "stale-cache", "offline-cache",
           "tracked-config", "failed", "crashed"}

Run == [pc : Steps, source : Authority \cup {None}, seen : 0..MaxStamp,
        saved : Document \cup {None}, body : Document \cup {None},
        status : Status, asked : 0..MaxStamp, found : {"whole", "split"}]

\* The last two fields are history: what the authority served when the run began,
\* and whether the files it found belonged together.
Ready == [pc |-> "idle", source |-> None, seen |-> 0, saved |-> None,
          body |-> None, status |-> "none", asked |-> 0, found |-> "whole"]

\* The metadata vouches for authority a while the cache holds the dictionary of
\* another: what a run leaves that was to switch from a and stopped half way.
Split(a) == /\ cache # None /\ sidecar # None
            /\ sidecar.from = a /\ cache.from # a

-------------------------------------------------------------------------------
(* What the metadata proves.                                               *)

\* Slip: the comparison of dates turned round.
NotNewerReversed(saved, d) ==
  /\ saved # None
  /\ \/ {saved.from, d.from} \subseteq Tagged /\ saved = d
     \/ {saved.from, d.from} \subseteq Dated /\ d.stamp >= saved.stamp

\* _remote_is_not_newer: the validators' source is not looked at.
NotNewer(saved, d) ==
  /\ saved # None
  /\ \/ {saved.from, d.from} \subseteq Tagged /\ saved = d
     \/ {saved.from, d.from} \subseteq Dated /\ d.stamp <= saved.stamp

\* A server's answer to the conditional request that _conditional_headers makes
\* of the saved validators: If-None-Match, when sent, counts alone.
NotModified(saved, d) ==
  /\ saved # None
  /\ \/ saved.from \in Tagged /\ d.from \in Tagged /\ saved = d
     \/ saved.from \in Dated \ Tagged /\ d.from \in Dated /\ d.stamp <= saved.stamp

\* _local_cache_is_current, on what the run has read by then.
LocalIsCurrent(r) ==
  /\ cache # None
  /\ r.saved # None /\ r.saved.from = r.source
  /\ r.seen <= r.saved.stamp

-------------------------------------------------------------------------------
(* How a step of a run ends.                                               *)

Go(h, step) == run' = [run EXCEPT ![h].pc = step]

Report(h, step, status) == run' = [run EXCEPT ![h].pc = step, ![h].status = status]

\* refresh_base raises an OSError: main falls back on the tracked typos.toml for
\* a remote authority, and raises for a local one.
Raise(h) ==
  Report(h, "idle", IF run[h].source \in Remote THEN "tracked-config" ELSE "failed")

\* _stale_cache_or_raise.
StaleOrRaise(h) ==
  IF cache # None THEN Report(h, "render", "stale-cache") ELSE Raise(h)

\* Inside refresh_base: _refresh_http catches the OSError, _refresh_local does not.
WriteError(h) == IF run[h].source \in Remote THEN StaleOrRaise(h) ELSE Raise(h)

-------------------------------------------------------------------------------
(* One run.                                                                *)

Start(h, a) ==
  /\ run[h].pc = "idle"
  /\ run' = [run EXCEPT ![h] = [Ready EXCEPT !.source = a, !.asked = doc[a],
                                             !.found = IF Split(a) THEN "split" ELSE "whole",
                                             !.pc = IF a \in Local THEN "stat" ELSE "sidecar"]]
  /\ UNCHANGED <<latest, doc, files>>

\* offline = True: a cache or nothing.
StartOffline(h, a) ==
  /\ run[h].pc = "idle"
  /\ LET begun == [Ready EXCEPT !.source = a, !.asked = doc[a]] IN
     run' = [run EXCEPT ![h] =
       IF cache # None THEN [begun EXCEPT !.pc = "render", !.status = "offline-cache"]
                       ELSE [begun EXCEPT !.status = IF a \in Remote THEN "tracked-config"
                                                                     ELSE "failed"]]
  /\ UNCHANGED <<latest, doc, files>>

\* source.stat(), which fails if there is no file.
Stat(h) ==
  /\ run[h].pc = "stat"
  /\ IF doc[run[h].source] = 0 THEN Raise(h)
     ELSE run' = [run EXCEPT ![h].pc = "sidecar", ![h].seen = doc[run[h].source]]
  /\ UNCHANGED <<latest, doc, files>>

\* _read_metadata: no file and no JSON are no metadata, another error is raised.
ReadMetadata(h) ==
  /\ run[h].pc = "sidecar"
  /\ \/ run' = [run EXCEPT ![h].saved = sidecar,
                           ![h].pc = IF run[h].source \in Local THEN "compare" ELSE "fetch"]
     \/ Raise(h)
  /\ UNCHANGED <<latest, doc, files>>

Compare(h) ==
  /\ run[h].pc = "compare"
  /\ IF LocalIsCurrent(run[h]) THEN Report(h, "render", "current") ELSE Go(h, "read")
  /\ UNCHANGED <<latest, doc, files>>

\* Slip: the bytes are installed before they are validated.
ReadSourceUnvalidated(h) ==
  /\ run[h].pc = "read"
  /\ run' = [run EXCEPT ![h].pc = "write_cache",
                        ![h].body = [from |-> run[h].source, stamp |-> doc[run[h].source]]]
  /\ UNCHANGED <<latest, doc, files>>

\* source.read_bytes(), which fails if the file has gone since stat(), and its
\* validation, whose error main does not catch.
ReadSource(h) ==
  /\ run[h].pc = "read"
  /\ LET d == [from |-> run[h].source, stamp |-> doc[run[h].source]] IN
     \/ d \in WellFormed /\ run' = [run EXCEPT ![h].pc = "write_cache", ![h].body = d]
     \/ d \notin WellFormed /\ Report(h, "idle", "failed")
     \/ Raise(h)
  /\ UNCHANGED <<latest, doc, files>>

\* urlopen: no answer or an error status, 304 (an HTTPError to urllib), or 200; an
\* answer that is not HTTP raises an HTTPException, which nobody catches.
Fetch(h) ==
  /\ run[h].pc = "fetch"
  /\ LET a == run[h].source
         d == [from |-> a, stamp |-> doc[a]]
     IN  \/ StaleOrRaise(h)
         \/ Report(h, "idle", "failed")
         \/ /\ doc[a] # 0
            /\ NotModified(run[h].saved, d)
            /\ IF cache # None THEN Report(h, "render", "current") ELSE Raise(h)
         \/ /\ doc[a] # 0
            /\ ~NotModified(run[h].saved, d)
            /\ run' = [run EXCEPT ![h].pc = "judge", ![h].body = d]
  /\ UNCHANGED <<latest, doc, files>>

\* _remote_response_result on a 200: keep the cache, or read and validate the
\* body.  A connection that is reset is an OSError; a body that ends early is an
\* IncompleteRead, which is none and reaches the caller of main.
Judge(h) ==
  /\ run[h].pc = "judge"
  /\ IF cache # None /\ NotNewer(run[h].saved, run[h].body)
     THEN Report(h, "render", "current")
     ELSE \/ run[h].body \in WellFormed /\ Go(h, "write_cache")
          \/ Report(h, "idle", "failed")
          \/ StaleOrRaise(h)
  /\ UNCHANGED <<latest, doc, files>>

WriteCache(h) ==
  /\ run[h].pc = "write_cache"
  /\ \/ cache' = run[h].body /\ Go(h, "write_sidecar")
     \/ UNCHANGED cache /\ WriteError(h)
  /\ UNCHANGED <<latest, doc, sidecar, config>>

\* Slip: the mtime is taken when the metadata is written.
RecordedLate(r) ==
  IF r.source \in Local THEN [from |-> r.source, stamp |-> doc[r.source]] ELSE r.body

\* The metadata of what was cached: for a local authority the mtime that was
\* read before the content was.
Recorded(r) ==
  IF r.source \in Local THEN [from |-> r.source, stamp |-> r.seen] ELSE r.body

WriteMetadata(h) ==
  /\ run[h].pc = "write_sidecar"
  /\ \/ sidecar' = Recorded(run[h]) /\ Report(h, "render", "refreshed")
     \/ UNCHANGED sidecar /\ WriteError(h)
  /\ UNCHANGED <<latest, doc, cache, config>>

\* dictionary_from_cache: the cache is loaded once more, and merged with the
\* repository's own dictionary, which may be malformed or in conflict with it.
Render(h) ==
  /\ run[h].pc = "render"
  /\ \/ cache # None /\ run' = [run EXCEPT ![h].pc = "install", ![h].body = cache]
     \/ Report(h, "idle", "failed")
  /\ UNCHANGED <<latest, doc, files>>

\* write_config and main's return, or an error of the disk.
Install(h) ==
  /\ run[h].pc = "install"
  /\ \/ config' = run[h].body /\ Go(h, "idle")
     \/ UNCHANGED config /\ Report(h, "idle", "failed")
  /\ UNCHANGED <<latest, doc, cache, sidecar>>

\* The script is interrupted; what it has written stays.
Crash(h) ==
  /\ run[h].pc # "idle"
  /\ Report(h, "idle", "crashed")
  /\ UNCHANGED <<latest, doc, files>>

-------------------------------------------------------------------------------
(* The authorities, and whoever tidies the untracked files.                *)

Publish(a) ==
  /\ latest < MaxStamp
  /\ latest' = latest + 1
  /\ doc' = [doc EXCEPT ![a] = latest + 1]
  /\ UNCHANGED <<files, run>>

Tidy ==
  /\ \/ cache' = None /\ UNCHANGED sidecar
     \/ sidecar' = None /\ UNCHANGED cache
  /\ UNCHANGED <<latest, doc, config, run>>

-------------------------------------------------------------------------------

Init ==
  /\ latest = 0
  /\ doc = [a \in Authority |-> 0]
  /\ cache = None /\ sidecar = None /\ config = None
  /\ run = [h \in Helper |-> Ready]

Proceed(h) ==
  \/ Stat(h) \/ ReadMetadata(h) \/ Compare(h) \/ ReadSource(h)
  \/ Fetch(h) \/ Judge(h)
  \/ WriteCache(h) \/ WriteMetadata(h) \/ Render(h) \/ Install(h)

Next ==
  \/ \E h \in Helper, a \in Authority : Start(h, a) \/ StartOffline(h, a)
  \/ \E h \in Helper : Proceed(h) \/ Crash(h)
  \/ \E a \in Authority : Publish(a)
  \/ Tidy

Spec == Init /\ [][Next]_vars

-------------------------------------------------------------------------------

\* What is cached and what typos.toml is generated from has always been
\* validated (lines 276 and 315), and a run knows its authority until it ends.
TypeOK ==
  /\ latest \in 0..MaxStamp
  /\ doc \in [Authority -> 0..latest]
  /\ cache \in WellFormed \cup {None}
  /\ sidecar \in Document \cup {None}
  /\ config \in WellFormed \cup {None}
  /\ run \in [Helper -> Run]
  /\ \A h \in Helper : run[h].pc # "idle" => run[h].source # None

\* Metadata and cache of one authority agree in this sense, wherever the runs have
\* stopped: the metadata never claims a later version than the cache holds, for the
\* cache is written first and a local authority's mtime is read before its content
\* (lines 265, 275-281 and 316-324).  Of files of two authorities, as a switch cut
\* short leaves them, nothing of the kind holds: see SwitchReplaces.
MetadataBehind ==
  cache # None /\ sidecar # None /\ cache.from = sidecar.from
    => sidecar.stamp <= cache.stamp

\* A run that reports "refreshed", and one that reports "current" over files that
\* belonged together when it began, has generated typos.toml from a dictionary of
\* its own authority and no older than what that served then, whatever other runs
\* have left half done (README.md:100-103; lines 224-256 and 328-339).
ReportedFresh ==
  \A h \in Helper :
    /\ run[h].pc = "idle"
    /\ \/ run[h].status = "refreshed"
       \/ run[h].status = "current" /\ run[h].found = "whole"
    => config.from = run[h].source /\ config.stamp >= run[h].asked

\* test_typos_rollout.py:197, of local authorities: "A different explicit authority
\* replaces a cache regardless of mtime."  A run that was to switch and stopped
\* between its two writes (lines 277 and 278) leaves a cache that the authority
\* named by the metadata does not replace (lines 250-256).
SwitchReplaces ==
  \A h \in Helper :
    run[h].pc = "idle" /\ run[h].status \in {"current", "refreshed"}
      => config.from = run[h].source
=============================================================================

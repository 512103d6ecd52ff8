------------------------ MODULE DictionaryCacheProofs ------------------------
(***************************************************************************)
(* Proofs about DictionaryCache, for any authorities and any number of     *)
(* publications.                                                           *)
(***************************************************************************)
EXTENDS DictionaryCache, TLAPS

-------------------------------------------------------------------------------
(* What a run holds at each of its steps.                                  *)

Holds(r) ==
  /\ r \in Run
  /\ r.pc # "idle" => r.source \in Authority
  /\ r.pc \in {"judge", "write_sidecar"} => r.body \in Document
  /\ r.pc \in {"write_cache", "install"} => r.body \in WellFormed
  /\ r.pc \in {"stat", "compare", "read"} => r.source \in Local
  /\ r.pc \in {"fetch", "judge"} => r.source \in Remote
  /\ r.pc \in {"sidecar", "compare", "read", "write_cache", "write_sidecar"}
       /\ r.source \in Local => r.seen \in Stamp

Served ==
  /\ latest \in 0..MaxStamp
  /\ doc \in [Authority -> 0..latest]

Kept ==
  /\ cache \in WellFormed \cup {None}
  /\ sidecar \in Document \cup {None}
  /\ config \in WellFormed \cup {None}

Sound == Served /\ Kept /\ run \in [Helper -> Run] /\ \A h \in Helper : Holds(run[h])

LEMMA SoundIsTyped == Sound => TypeOK
  BY NoneAssumption DEF Sound, Served, Kept, Holds, TypeOK, Authority

LEMMA DocServed ==
  ASSUME Sound, NEW a \in Authority, doc[a] # 0
  PROVE  [from |-> a, stamp |-> doc[a]] \in Document
<1>1. latest \in 0..MaxStamp /\ doc[a] \in 0..latest /\ MaxStamp \in Nat
  BY StampsAssumption DEF Sound, Served
<1>2. doc[a] \in Stamp
  BY <1>1 DEF Stamp
<1> QED
  BY <1>2 DEF Document

\* A step of one run that leaves that run sound and the files of their types.
LEMMA RunSound ==
  ASSUME Sound, NEW h \in Helper, NEW r, Holds(r),
         run' = [run EXCEPT ![h] = r], UNCHANGED <<latest, doc>>, Kept'
  PROVE  Sound'
  BY DEF Sound, Served, Holds

LEMMA SoundStart ==
  ASSUME Sound, NEW h \in Helper, NEW a \in Authority, Start(h, a) \/ StartOffline(h, a)
  PROVE  Sound'
<1>1. Kept' /\ UNCHANGED <<latest, doc>>
  BY DEF Start, StartOffline, files, Sound, Kept
<1>2. doc[a] \in 0..MaxStamp /\ 0 \in 0..MaxStamp
  <2>1. latest \in 0..MaxStamp /\ doc[a] \in 0..latest /\ MaxStamp \in Nat
    BY StampsAssumption DEF Sound, Served
  <2> QED
    BY <2>1
<1>3. ASSUME Start(h, a) PROVE Sound'
  <2> DEFINE r == [Ready EXCEPT !.source = a, !.asked = doc[a],
                                !.found = IF Split(a) THEN "split" ELSE "whole",
                                !.pc = IF a \in Local THEN "stat" ELSE "sidecar"]
  <2>1. Holds(r)
    BY <1>2 DEF Holds, Ready, Run, Steps, Status, Authority
  <2> QED
    BY <1>1, <1>3, <2>1, RunSound DEF Start
<1>4. ASSUME StartOffline(h, a) PROVE Sound'
  <2> DEFINE begun == [Ready EXCEPT !.source = a, !.asked = doc[a]]
             r == IF cache # None
                    THEN [begun EXCEPT !.pc = "render", !.status = "offline-cache"]
                    ELSE [begun EXCEPT !.status = IF a \in Remote THEN "tracked-config"
                                                                  ELSE "failed"]
  <2>1. Holds(r)
    BY <1>2 DEF Holds, Ready, Run, Steps, Status
  <2>2. run' = [run EXCEPT ![h] = r]
    BY <1>4 DEF StartOffline
  <2> QED
    BY <1>1, <2>1, <2>2, RunSound
<1> QED
  BY <1>3, <1>4

\* Every way out of refresh_base, and every error.
LEMMA ReportSound ==
  ASSUME Sound, NEW h \in Helper, run[h].pc # "idle",
         NEW step \in {"idle", "render"}, NEW status \in Status, Report(h, step, status),
         UNCHANGED <<latest, doc>>, Kept'
  PROVE  Sound'
<1> DEFINE r == [run[h] EXCEPT !.pc = step, !.status = status]
<1>1. Holds(run[h]) /\ run \in [Helper -> Run]
  BY DEF Sound
<1>2. Holds(r)
  BY <1>1 DEF Holds, Run, Steps
<1>3. run' = [run EXCEPT ![h] = r]
  BY <1>1 DEF Report
<1> QED
  BY <1>2, <1>3, RunSound

LEMMA RaiseSound ==
  ASSUME Sound, NEW h \in Helper, run[h].pc # "idle", UNCHANGED <<latest, doc>>, Kept',
         Raise(h) \/ StaleOrRaise(h) \/ WriteError(h)
  PROVE  Sound'
<1>1. {"stale-cache", "tracked-config", "failed"} \subseteq Status
  BY DEF Status
<1>2. CASE Raise(h)
  BY <1>1, <1>2, ReportSound DEF Raise
<1>3. CASE StaleOrRaise(h)
  BY <1>1, <1>2, <1>3, ReportSound DEF StaleOrRaise
<1> QED
  BY <1>2, <1>3 DEF WriteError

-------------------------------------------------------------------------------
(* The steps of a run.                                                     *)

LEMMA SoundReads ==
  ASSUME Sound, NEW h \in Helper,
         \/ Stat(h) \/ ReadMetadata(h) \/ Compare(h) \/ ReadSource(h)
  PROVE  Sound'
<1>1. Kept' /\ UNCHANGED <<latest, doc>>
  BY DEF Stat, ReadMetadata, Compare, ReadSource, files, Sound, Kept
<1>2. Holds(run[h]) /\ run[h] \in Run /\ run \in [Helper -> Run]
  BY DEF Sound
<1>3. ASSUME Stat(h) PROVE Sound'
  <2>1. CASE doc[run[h].source] = 0
    BY <1>1, <1>3, <2>1, RaiseSound DEF Stat
  <2>2. CASE doc[run[h].source] # 0
    <3> DEFINE r == [run[h] EXCEPT !.pc = "sidecar", !.seen = doc[run[h].source]]
    <3>1. run[h].source \in Local /\ run[h].source \in Authority
      BY <1>2, <1>3 DEF Stat, Holds
    <3>2. doc[run[h].source] \in Stamp /\ Stamp \subseteq 0..MaxStamp
      BY <2>2, <3>1, DocServed, StampsAssumption DEF Document, Stamp
    <3>3. Holds(r)
      BY <1>2, <3>1, <3>2 DEF Holds, Run, Steps
    <3>4. run' = [run EXCEPT ![h] = r]
      BY <1>2, <1>3, <2>2 DEF Stat
    <3> QED
      BY <1>1, <3>3, <3>4, RunSound
  <2> QED
    BY <2>1, <2>2
<1>4. ASSUME ReadMetadata(h) PROVE Sound'
  <2> DEFINE r == [run[h] EXCEPT !.saved = sidecar,
                     !.pc = IF run[h].source \in Local THEN "compare" ELSE "fetch"]
  <2>1. Holds(r)
    BY <1>2, <1>4 DEF ReadMetadata, Holds, Run, Steps, Authority, Sound, Kept
  <2>2. CASE Raise(h)
    BY <1>1, <1>4, <2>2, RaiseSound DEF ReadMetadata
  <2>3. CASE ~Raise(h)
    <3>1. run' = [run EXCEPT ![h] = r]
      BY <1>2, <1>4, <2>3 DEF ReadMetadata
    <3> QED
      BY <1>1, <2>1, <3>1, RunSound
  <2> QED
    BY <2>2, <2>3
<1>5. ASSUME Compare(h) PROVE Sound'
  <2>1. CASE LocalIsCurrent(run[h])
    BY <1>1, <1>5, <2>1, ReportSound DEF Compare, Status
  <2>2. CASE ~LocalIsCurrent(run[h])
    <3> DEFINE r == [run[h] EXCEPT !.pc = "read"]
    <3>1. Holds(r)
      BY <1>2, <1>5 DEF Compare, Holds, Run, Steps
    <3>2. run' = [run EXCEPT ![h] = r]
      BY <1>2, <1>5, <2>2 DEF Compare, Go
    <3> QED
      BY <1>1, <3>1, <3>2, RunSound
  <2> QED
    BY <2>1, <2>2
<1>6. ASSUME ReadSource(h) PROVE Sound'
  <2> DEFINE d == [from |-> run[h].source, stamp |-> doc[run[h].source]]
  <2>1. CASE d \in WellFormed /\ run' = [run EXCEPT ![h].pc = "write_cache", ![h].body = d]
    <3> DEFINE r == [run[h] EXCEPT !.pc = "write_cache", !.body = d]
    <3>1. Holds(r)
      BY <1>2, <1>6, <2>1 DEF ReadSource, Holds, Run, Steps, WellFormed
    <3>2. run' = [run EXCEPT ![h] = r]
      BY <1>2, <2>1
    <3> QED
      BY <1>1, <3>1, <3>2, RunSound
  <2>2. CASE Report(h, "idle", "failed")
    BY <1>1, <1>6, <2>2, ReportSound DEF ReadSource, Status
  <2>3. CASE Raise(h)
    BY <1>1, <1>6, <2>3, RaiseSound DEF ReadSource
  <2> QED
    BY <1>6, <2>1, <2>2, <2>3 DEF ReadSource
<1> QED
  BY <1>3, <1>4, <1>5, <1>6

LEMMA SoundAnswers ==
  ASSUME Sound, NEW h \in Helper, Fetch(h) \/ Judge(h)
  PROVE  Sound'
<1>1. Kept' /\ UNCHANGED <<latest, doc>>
  BY DEF Fetch, Judge, files, Sound, Kept
<1>2. Holds(run[h]) /\ run[h] \in Run /\ run \in [Helper -> Run]
  BY DEF Sound
<1>3. ASSUME Fetch(h) PROVE Sound'
  <2> DEFINE a == run[h].source
             d == [from |-> a, stamp |-> doc[a]]
  <2>1. CASE StaleOrRaise(h) \/ Raise(h)
    BY <1>1, <1>3, <2>1, RaiseSound DEF Fetch
  <2>2. CASE Report(h, "render", "current") \/ Report(h, "idle", "failed")
    BY <1>1, <1>3, <2>2, ReportSound DEF Fetch, Status
  <2>3. CASE doc[a] # 0 /\ run' = [run EXCEPT ![h].pc = "judge", ![h].body = d]
    <3> DEFINE r == [run[h] EXCEPT !.pc = "judge", !.body = d]
    <3>1. a \in Remote /\ a \in Authority
      BY <1>2, <1>3 DEF Fetch, Holds, Authority
    <3>2. d \in Document
      BY <2>3, <3>1, DocServed
    <3>3. Holds(r)
      BY <1>2, <3>1, <3>2 DEF Holds, Run, Steps
    <3>4. run' = [run EXCEPT ![h] = r]
      BY <1>2, <2>3
    <3> QED
      BY <1>1, <3>3, <3>4, RunSound
  <2> QED
    BY <1>3, <2>1, <2>2, <2>3 DEF Fetch
<1>4. ASSUME Judge(h) PROVE Sound'
  <2>1. CASE Report(h, "render", "current")
    BY <1>1, <1>4, <2>1, ReportSound DEF Judge, Status
  <2>2. CASE Report(h, "idle", "failed")
    BY <1>1, <1>4, <2>2, ReportSound DEF Judge, Status
  <2>3. CASE StaleOrRaise(h)
    BY <1>1, <1>4, <2>3, RaiseSound DEF Judge
  <2>4. CASE run[h].body \in WellFormed /\ Go(h, "write_cache")
    <3> DEFINE r == [run[h] EXCEPT !.pc = "write_cache"]
    <3>1. run[h].source \in Remote
      BY <1>2, <1>4 DEF Judge, Holds
    <3>2. Holds(r)
      BY <1>2, <1>4, <2>4, <3>1, AuthoritiesAssumption
      DEF Judge, Holds, Run, Steps, Authority
    <3>3. run' = [run EXCEPT ![h] = r]
      BY <1>2, <2>4 DEF Go
    <3> QED
      BY <1>1, <3>2, <3>3, RunSound
  <2> QED
    BY <1>4, <2>1, <2>2, <2>3, <2>4 DEF Judge
<1> QED
  BY <1>3, <1>4

LEMMA SoundWrites ==
  ASSUME Sound, NEW h \in Helper,
         WriteCache(h) \/ WriteMetadata(h) \/ Render(h) \/ Install(h)
  PROVE  Sound'
<1>1. Holds(run[h]) /\ run[h] \in Run /\ run \in [Helper -> Run] /\ Kept
  BY DEF Sound
<1>2. UNCHANGED <<latest, doc>>
  BY DEF WriteCache, WriteMetadata, Render, Install
<1>3. ASSUME WriteCache(h) PROVE Sound'
  <2>1. Kept' /\ run[h].body \in WellFormed
    BY <1>1, <1>3 DEF WriteCache, Kept, Holds
  <2>2. CASE WriteError(h)
    BY <1>2, <1>3, <2>1, <2>2, RaiseSound DEF WriteCache
  <2>3. CASE Go(h, "write_sidecar")
    <3> DEFINE r == [run[h] EXCEPT !.pc = "write_sidecar"]
    <3>1. Holds(r)
      BY <1>1, <1>3, <2>1 DEF WriteCache, Holds, Run, Steps, WellFormed
    <3>2. run' = [run EXCEPT ![h] = r]
      BY <1>1, <2>3 DEF Go
    <3> QED
      BY <1>2, <2>1, <3>1, <3>2, RunSound
  <2> QED
    BY <1>3, <2>2, <2>3 DEF WriteCache
<1>4. ASSUME WriteMetadata(h) PROVE Sound'
  <2>1. Recorded(run[h]) \in Document
    BY <1>1, <1>4 DEF WriteMetadata, Recorded, Holds, Document
  <2>2. Kept'
    BY <1>1, <1>4, <2>1 DEF WriteMetadata, Kept
  <2> QED
    BY <1>2, <1>4, <2>2, ReportSound, RaiseSound DEF WriteMetadata, Status
<1>5. ASSUME Render(h) PROVE Sound'
  <2>1. Kept'
    BY <1>1, <1>5 DEF Render, files, Kept
  <2>2. CASE cache # None /\ run' = [run EXCEPT ![h].pc = "install", ![h].body = cache]
    <3> DEFINE r == [run[h] EXCEPT !.pc = "install", !.body = cache]
    <3>1. cache \in WellFormed /\ cache \in Document
      BY <1>1, <2>2 DEF Kept, WellFormed
    <3>2. Holds(r)
      BY <1>1, <1>5, <3>1 DEF Render, Holds, Run, Steps
    <3>3. run' = [run EXCEPT ![h] = r]
      BY <1>1, <1>5, <2>2 DEF Render
    <3> QED
      BY <1>2, <2>1, <3>2, <3>3, RunSound
  <2>3. CASE Report(h, "idle", "failed")
    BY <1>2, <1>5, <2>1, <2>3, ReportSound DEF Render, Status
  <2> QED
    BY <1>5, <2>2, <2>3 DEF Render
<1>6. ASSUME Install(h) PROVE Sound'
  <2>1. Kept'
    BY <1>1, <1>6 DEF Install, Kept, Holds
  <2>2. CASE Report(h, "idle", "failed")
    BY <1>2, <1>6, <2>1, <2>2, ReportSound DEF Install, Status
  <2>3. CASE Go(h, "idle")
    <3> DEFINE r == [run[h] EXCEPT !.pc = "idle"]
    <3>1. Holds(r)
      BY <1>1, <1>6 DEF Holds, Run, Steps
    <3>2. run' = [run EXCEPT ![h] = r]
      BY <1>1, <2>3 DEF Go
    <3> QED
      BY <1>2, <2>1, <3>1, <3>2, RunSound
  <2> QED
    BY <1>6, <2>2, <2>3 DEF Install
<1> QED
  BY <1>3, <1>4, <1>5, <1>6

-------------------------------------------------------------------------------
(* The specification.                                                      *)

LEMMA SoundInit == Init => Sound
<1> SUFFICES ASSUME Init PROVE Sound
  OBVIOUS
<1>1. Served /\ Kept
  BY StampsAssumption DEF Init, Served, Kept
<1>2. Holds(Ready)
  BY StampsAssumption DEF Holds, Ready, Run, Steps, Status
<1> QED
  BY <1>1, <1>2 DEF Init, Sound, Holds

LEMMA SoundPublish ==
  ASSUME Sound, NEW a \in Authority, Publish(a)
  PROVE  Sound'
<1>1. Served'
  BY StampsAssumption DEF Sound, Served, Publish
<1> QED
  BY <1>1 DEF Sound, Kept, Publish, files, Holds

LEMMA SoundNext == Sound /\ [Next]_vars => Sound'
<1> SUFFICES ASSUME Sound, [Next]_vars PROVE Sound'
  OBVIOUS
<1>1. ASSUME NEW h \in Helper, Proceed(h) PROVE Sound'
  BY <1>1, SoundReads, SoundAnswers, SoundWrites DEF Proceed
<1>2. ASSUME NEW h \in Helper, Crash(h) PROVE Sound'
  <2>1. Kept' /\ UNCHANGED <<latest, doc>>
    BY <1>2 DEF Crash, files, Sound, Kept
  <2> QED
    BY <1>2, <2>1, ReportSound DEF Crash, Status
<1>3. CASE Tidy
  BY <1>3 DEF Tidy, Sound, Served, Kept, Holds
<1>4. CASE UNCHANGED vars
  BY <1>4 DEF vars, files, Sound, Served, Kept, Holds
<1> QED
  BY <1>1, <1>2, <1>3, <1>4, SoundStart, SoundPublish DEF Next

\* What is cached and what typos.toml is generated from has been validated, in
\* every run and after every interruption (typos_rollout.py:276 and 315).
THEOREM TypeCorrect == Spec => []TypeOK
<1>1. Spec => []Sound
  BY SoundInit, SoundNext, PTL DEF Spec
<1> QED
  BY <1>1, SoundIsTyped, PTL

-------------------------------------------------------------------------------
(* The order of versions, when one run is in progress at a time.           *)

OneHelper == \A g, h \in Helper : g = h

Behind(m) ==
  m # None /\ cache # None /\ m.from = cache.from => m.stamp <= cache.stamp

\* What a run has read is no older than what its authority served at its start
\* and no newer than what it serves now, and the metadata trails it.
InOrder(r) ==
  /\ r.pc # "idle" => r.asked <= doc[r.source]
  /\ r.pc \in {"sidecar", "compare", "read", "write_cache", "write_sidecar"}
       /\ r.source \in Local => r.asked <= r.seen /\ r.seen <= doc[r.source]
  /\ r.pc \in {"compare", "fetch", "judge"} => Behind(r.saved)
  /\ r.pc \in {"judge", "write_cache", "write_sidecar"} =>
       /\ r.body.from = r.source
       /\ r.asked <= r.body.stamp
       /\ r.source \in Local => r.seen <= r.body.stamp
       /\ r.body.stamp <= doc[r.source]
  /\ r.pc \in {"judge", "write_cache"} /\ sidecar # None =>
       (sidecar.from = r.source => sidecar.stamp <= r.body.stamp)
  /\ r.pc = "write_sidecar" => cache \in {r.body, None}

Trails ==
  /\ Behind(sidecar)
  /\ sidecar # None => sidecar.stamp <= doc[sidecar.from]

Ordered == Trails /\ \A h \in Helper : InOrder(run[h])

LEMMA Alone ==
  ASSUME OneHelper, NEW h \in Helper, Trails', InOrder(run[h])'
  PROVE  Ordered'
BY DEF OneHelper, Ordered

\* A run that has read nothing yet, or has nothing left to write, upsets nothing.
LEMMA DoneInOrder ==
  ASSUME Sound, Ordered, OneHelper, NEW h \in Helper, run[h].pc # "idle",
         NEW step \in {"idle", "render", "install"}, run'[h].pc = step,
         run'[h].asked = run[h].asked, run'[h].source = run[h].source,
         UNCHANGED doc, Trails'
  PROVE  Ordered'
<1>1. InOrder(run[h])'
  BY DEF Ordered, InOrder
<1> QED
  BY <1>1, Alone

LEMMA ReportInOrder ==
  ASSUME Sound, Ordered, OneHelper, NEW h \in Helper, run[h].pc # "idle",
         NEW step \in {"idle", "render"}, NEW status, Report(h, step, status),
         UNCHANGED doc, Trails'
  PROVE  Ordered'
<1>1. /\ run'[h].pc = step
      /\ run'[h].asked = run[h].asked
      /\ run'[h].source = run[h].source
  BY DEF Report, Sound, Holds, Run
<1> QED
  BY <1>1, DoneInOrder

LEMMA RaiseInOrder ==
  ASSUME Sound, Ordered, OneHelper, NEW h \in Helper, run[h].pc # "idle",
         UNCHANGED doc, Trails', Raise(h) \/ StaleOrRaise(h) \/ WriteError(h)
  PROVE  Ordered'
<1>1. CASE Raise(h)
  BY <1>1, ReportInOrder DEF Raise
<1>2. CASE StaleOrRaise(h)
  BY <1>1, <1>2, ReportInOrder DEF StaleOrRaise
<1> QED
  BY <1>1, <1>2 DEF WriteError

LEMMA OrderStart ==
  ASSUME Sound, Ordered, OneHelper, NEW h \in Helper, NEW a \in Authority,
         Start(h, a) \/ StartOffline(h, a)
  PROVE  Ordered'
<1>1. Trails'
  BY DEF Start, StartOffline, files, Ordered, Trails, Behind
<1>2. doc[a] \in Nat /\ doc' = doc
  BY StampsAssumption DEF Sound, Served, Start, StartOffline
<1>3. CASE Start(h, a)
  <2>1. run'[h] = [Ready EXCEPT !.source = a, !.asked = doc[a],
                                !.found = IF Split(a) THEN "split" ELSE "whole",
                                !.pc = IF a \in Local THEN "stat" ELSE "sidecar"]
    BY <1>3 DEF Start, Sound
  <2>2. InOrder(run[h])'
    BY <1>2, <2>1 DEF InOrder, Ready
  <2> QED
    BY <1>1, <2>2, Alone
<1>4. CASE StartOffline(h, a)
  <2>1. /\ run'[h].pc \in {"idle", "render"}
        /\ run'[h].source = a /\ run'[h].asked = doc[a]
    BY <1>4 DEF StartOffline, Sound, Ready
  <2>2. InOrder(run[h])'
    BY <1>2, <2>1 DEF InOrder
  <2> QED
    BY <1>1, <2>2, Alone
<1> QED
  BY <1>3, <1>4

LEMMA OrderReads ==
  ASSUME Sound, Ordered, OneHelper, NEW h \in Helper,
         \/ Stat(h) \/ ReadMetadata(h) \/ Compare(h) \/ ReadSource(h)
  PROVE  Ordered'
<1>1. Trails' /\ UNCHANGED <<doc, cache, sidecar>>
  BY DEF Stat, ReadMetadata, Compare, ReadSource, files, Ordered, Trails, Behind
<1>2. Holds(run[h]) /\ run[h] \in Run /\ run \in [Helper -> Run] /\ InOrder(run[h])
  BY DEF Sound, Ordered
<1>3. ASSUME Stat(h) PROVE Ordered'
  <2>1. CASE doc[run[h].source] = 0
    BY <1>1, <1>3, <2>1, RaiseInOrder DEF Stat
  <2>2. CASE doc[run[h].source] # 0
    <3>1. run'[h] = [run[h] EXCEPT !.pc = "sidecar", !.seen = doc[run[h].source]]
      BY <1>2, <1>3, <2>2 DEF Stat
    <3>2. run[h].source \in Authority
      BY <1>2, <1>3 DEF Stat, Holds
    <3>3. doc[run[h].source] <= doc[run[h].source]
      BY <3>2, StampsAssumption DEF Sound, Served
    <3>4. InOrder(run[h])'
      BY <1>1, <1>2, <1>3, <3>1, <3>3 DEF InOrder, Stat, Run
    <3> QED
      BY <1>1, <3>4, Alone
  <2> QED
    BY <2>1, <2>2
<1>4. ASSUME ReadMetadata(h) PROVE Ordered'
  <2>1. CASE Raise(h)
    BY <1>1, <1>4, <2>1, RaiseInOrder DEF ReadMetadata
  <2>2. CASE ~Raise(h)
    <3>1. run'[h] = [run[h] EXCEPT !.saved = sidecar,
                       !.pc = IF run[h].source \in Local THEN "compare" ELSE "fetch"]
      BY <1>2, <1>4, <2>2 DEF ReadMetadata
    <3>2. InOrder(run[h])'
      BY <1>1, <1>2, <1>4, <3>1 DEF InOrder, ReadMetadata, Run, Trails, Behind, Ordered
    <3> QED
      BY <1>1, <3>2, Alone
  <2> QED
    BY <2>1, <2>2
<1>5. ASSUME Compare(h) PROVE Ordered'
  <2>1. CASE LocalIsCurrent(run[h])
    BY <1>1, <1>5, <2>1, ReportInOrder DEF Compare
  <2>2. CASE ~LocalIsCurrent(run[h])
    <3>1. run'[h] = [run[h] EXCEPT !.pc = "read"]
      BY <1>2, <1>5, <2>2 DEF Compare, Go
    <3>2. InOrder(run[h])'
      BY <1>1, <1>2, <1>5, <3>1 DEF InOrder, Compare, Run
    <3> QED
      BY <1>1, <3>2, Alone
  <2> QED
    BY <2>1, <2>2
<1>6. ASSUME ReadSource(h) PROVE Ordered'
  <2> DEFINE d == [from |-> run[h].source, stamp |-> doc[run[h].source]]
  <2>1. CASE d \in WellFormed /\ run' = [run EXCEPT ![h].pc = "write_cache", ![h].body = d]
    <3>1. run'[h] = [run[h] EXCEPT !.pc = "write_cache", !.body = d]
      BY <1>2, <2>1
    <3>2. run[h].source \in Authority /\ run[h].source \in Local
      BY <1>2, <1>6 DEF ReadSource, Holds
    <3>3. doc[run[h].source] <= doc[run[h].source]
      BY <3>2, StampsAssumption DEF Sound, Served
    <3>4. InOrder(run[h])'
      BY <1>1, <1>2, <1>6, <3>1, <3>2, <3>3 DEF InOrder, ReadSource, Run, Trails
    <3> QED
      BY <1>1, <3>4, Alone
  <2>2. CASE Report(h, "idle", "failed")
    BY <1>1, <1>6, <2>2, ReportInOrder DEF ReadSource
  <2>3. CASE Raise(h)
    BY <1>1, <1>6, <2>3, RaiseInOrder DEF ReadSource
  <2> QED
    BY <1>6, <2>1, <2>2, <2>3 DEF ReadSource
<1> QED
  BY <1>3, <1>4, <1>5, <1>6

LEMMA OrderAnswers ==
  ASSUME Sound, Ordered, OneHelper, NEW h \in Helper, Fetch(h) \/ Judge(h)
  PROVE  Ordered'
<1>1. Trails' /\ UNCHANGED <<doc, cache, sidecar>>
  BY DEF Fetch, Judge, files, Ordered, Trails, Behind
<1>2. Holds(run[h]) /\ run[h] \in Run /\ run \in [Helper -> Run] /\ InOrder(run[h])
  BY DEF Sound, Ordered
<1>3. ASSUME Fetch(h) PROVE Ordered'
  <2> DEFINE a == run[h].source
             d == [from |-> a, stamp |-> doc[a]]
  <2>1. CASE StaleOrRaise(h) \/ Raise(h)
    BY <1>1, <1>3, <2>1, RaiseInOrder DEF Fetch
  <2>2. CASE Report(h, "render", "current") \/ Report(h, "idle", "failed")
    BY <1>1, <1>3, <2>2, ReportInOrder DEF Fetch
  <2>3. CASE run' = [run EXCEPT ![h].pc = "judge", ![h].body = d]
    <3>1. run'[h] = [run[h] EXCEPT !.pc = "judge", !.body = d]
      BY <1>2, <2>3
    <3>2. a \in Remote /\ a \in Authority /\ a \notin Local
      BY <1>2, <1>3, AuthoritiesAssumption DEF Fetch, Holds, Authority
    <3>3. doc[a] <= doc[a]
      BY <3>2, StampsAssumption DEF Sound, Served
    <3>4. InOrder(run[h])'
      BY <1>1, <1>2, <1>3, <3>1, <3>2, <3>3 DEF InOrder, Fetch, Run, Trails, Behind
    <3> QED
      BY <1>1, <3>4, Alone
  <2> QED
    BY <1>3, <2>1, <2>2, <2>3 DEF Fetch
<1>4. ASSUME Judge(h) PROVE Ordered'
  <2>1. CASE \/ Report(h, "render", "current")
             \/ Report(h, "idle", "failed")
    BY <1>1, <1>4, <2>1, ReportInOrder DEF Judge
  <2>2. CASE StaleOrRaise(h)
    BY <1>1, <1>4, <2>2, RaiseInOrder DEF Judge
  <2>3. CASE Go(h, "write_cache")
    <3>1. run'[h] = [run[h] EXCEPT !.pc = "write_cache"]
      BY <1>2, <2>3 DEF Go
    <3>2. run[h].source \notin Local
      BY <1>2, <1>4, AuthoritiesAssumption DEF Judge, Holds
    <3>3. InOrder(run[h])'
      BY <1>1, <1>2, <1>4, <3>1, <3>2 DEF InOrder, Judge, Run
    <3> QED
      BY <1>1, <3>3, Alone
  <2> QED
    BY <1>4, <2>1, <2>2, <2>3 DEF Judge
<1> QED
  BY <1>3, <1>4

LEMMA OrderWrites ==
  ASSUME Sound, Ordered, OneHelper, NEW h \in Helper,
         WriteCache(h) \/ WriteMetadata(h) \/ Render(h) \/ Install(h)
  PROVE  Ordered'
<1>1. Holds(run[h]) /\ run[h] \in Run /\ run \in [Helper -> Run] /\ Kept /\ InOrder(run[h])
  BY DEF Sound, Ordered
<1>2. UNCHANGED doc
  BY DEF WriteCache, WriteMetadata, Render, Install
<1>3. ASSUME WriteCache(h) PROVE Ordered'
  <2>1. CASE UNCHANGED cache /\ WriteError(h)
    <3>1. Trails'
      BY <1>2, <1>3, <2>1 DEF WriteCache, Ordered, Trails, Behind
    <3> QED
      BY <1>2, <1>3, <2>1, <3>1, RaiseInOrder DEF WriteCache
  <2>2. CASE cache' = run[h].body /\ Go(h, "write_sidecar")
    <3>1. run'[h] = [run[h] EXCEPT !.pc = "write_sidecar"]
      BY <1>1, <2>2 DEF Go
    <3>2. Trails'
      BY <1>1, <1>2, <1>3, <2>2 DEF WriteCache, Ordered, Trails, Behind, InOrder
    <3>3. InOrder(run[h])'
      BY <1>1, <1>2, <1>3, <2>2, <3>1 DEF InOrder, WriteCache, Run
    <3> QED
      BY <3>2, <3>3, Alone
  <2> QED
    BY <1>3, <2>1, <2>2 DEF WriteCache
<1>4. ASSUME WriteMetadata(h) PROVE Ordered'
  <2>1. CASE UNCHANGED sidecar /\ WriteError(h)
    <3>1. Trails'
      BY <1>2, <1>4, <2>1 DEF WriteMetadata, Ordered, Trails, Behind
    <3> QED
      BY <1>2, <1>4, <2>1, <3>1, RaiseInOrder DEF WriteMetadata
  <2>2. CASE sidecar' = Recorded(run[h]) /\ Report(h, "render", "refreshed")
    <3>1. /\ sidecar'.from = run[h].source
          /\ sidecar'.stamp <= run[h].body.stamp
          /\ sidecar'.stamp <= doc[run[h].source]
      <4>1. /\ run[h].body \in Document /\ run[h].body.stamp \in Nat
            /\ InOrder(run[h]) /\ run[h].pc = "write_sidecar"
        BY <1>1, <1>4, StampsAssumption DEF WriteMetadata, Holds, Document, Stamp
      <4>2. CASE run[h].source \in Local
        BY <2>2, <4>1, <4>2 DEF Recorded, InOrder
      <4>3. CASE run[h].source \notin Local
        BY <2>2, <4>1, <4>3 DEF Recorded, InOrder
      <4> QED
        BY <4>2, <4>3
    <3>2. cache' = cache /\ cache \in {run[h].body, None}
      BY <1>1, <1>4 DEF WriteMetadata, InOrder
    <3>3. Trails'
      BY <1>2, <3>1, <3>2 DEF Trails, Behind
    <3> QED
      BY <1>2, <1>4, <2>2, <3>3, ReportInOrder DEF WriteMetadata
  <2> QED
    BY <1>4, <2>1, <2>2 DEF WriteMetadata
<1>5. ASSUME Render(h) \/ Install(h) PROVE Ordered'
  <2>1. Trails'
    BY <1>2, <1>5 DEF Render, Install, files, Ordered, Trails, Behind
  <2>2. /\ run[h].pc # "idle" /\ run'[h].pc \in {"idle", "render", "install"}
        /\ run'[h].asked = run[h].asked
        /\ run'[h].source = run[h].source
    BY <1>1, <1>5 DEF Render, Install, Report, Go, Run
  <2> QED
    BY <1>2, <2>1, <2>2, DoneInOrder
<1> QED
  BY <1>3, <1>4, <1>5

LEMMA OrderPublish ==
  ASSUME Sound, Ordered, NEW a \in Authority, Publish(a)
  PROVE  Ordered'
<1>1. \A b \in Authority : doc[b] \in Nat /\ doc'[b] \in Nat /\ doc[b] <= doc'[b]
  BY StampsAssumption DEF Sound, Served, Publish
<1>2. /\ UNCHANGED <<cache, sidecar, run>>
      /\ sidecar # None => sidecar.from \in Authority /\ sidecar.stamp \in Nat
  BY StampsAssumption DEF Publish, files, Sound, Kept, Document, Stamp
<1>3. Trails'
  BY <1>1, <1>2 DEF Ordered, Trails, Behind
<1>4. ASSUME NEW h \in Helper PROVE InOrder(run[h])'
  <2>1. Holds(run[h]) /\ InOrder(run[h])
    BY DEF Sound, Ordered
  <2>2. /\ run[h].pc # "idle" => run[h].source \in Authority
        /\ run[h].asked \in Nat /\ run[h].seen \in Nat
        /\ run[h].pc \in {"judge", "write_cache", "write_sidecar"} =>
             run[h].body.stamp \in Nat
    BY <2>1, StampsAssumption DEF Holds, Run, Document, WellFormed, Stamp
  <2> QED
    BY <1>1, <1>2, <2>1, <2>2 DEF InOrder, Behind
<1> QED
  BY <1>3, <1>4 DEF Ordered

LEMMA OrderNext == ASSUME OneHelper PROVE Sound /\ Ordered /\ [Next]_vars => Ordered'
<1> SUFFICES ASSUME Sound, Ordered, [Next]_vars PROVE Ordered'
  OBVIOUS
<1>1. ASSUME NEW h \in Helper, Proceed(h) PROVE Ordered'
  BY <1>1, OrderReads, OrderAnswers, OrderWrites DEF Proceed
<1>2. ASSUME NEW h \in Helper, Crash(h) PROVE Ordered'
  <2>1. Trails' /\ UNCHANGED doc
    BY <1>2 DEF Crash, files, Ordered, Trails, Behind
  <2> QED
    BY <1>2, <2>1, ReportInOrder DEF Crash
<1>3. CASE Tidy
  <2>1. UNCHANGED <<doc, run>> /\ cache' \in {cache, None} /\ sidecar' \in {sidecar, None}
    BY <1>3 DEF Tidy
  <2> QED
    BY <2>1 DEF Ordered, Trails, InOrder, Behind
<1>4. CASE UNCHANGED vars
  BY <1>4 DEF vars, files, Ordered, Trails, InOrder, Behind
<1> QED
  BY <1>1, <1>2, <1>3, <1>4, OrderStart, OrderPublish DEF Next

\* However many runs of the script follow one another and wherever they stop,
\* metadata and cache of the same authority are such that the metadata vouches for
\* no later version than the cache holds (typos_rollout.py:265, 275-281, 316-324).
THEOREM MetadataNeverAhead ==
  ASSUME OneHelper
  PROVE  Spec => []MetadataBehind
<1>1. Init => Ordered
  BY DEF Init, Ordered, Trails, InOrder, Behind, Ready
<1>2. Ordered => MetadataBehind
  BY DEF Ordered, Trails, Behind, MetadataBehind
<1> QED
  BY <1>1, <1>2, SoundInit, SoundNext, OrderNext, PTL DEF Spec

-------------------------------------------------------------------------------
(* What a run reports.                                                     *)

OneRemote == \A a, b \in Remote : a = b

\* Metadata m, if it vouches for the run's authority, does so for what is cached.
Matches(m, r) ==
  m # None /\ cache # None /\ m.from = r.source => cache.from = r.source

\* A run that found the files together still has them so when it comes to judge.
Together(r) ==
  r.found = "whole" =>
    /\ r.pc \in {"stat", "sidecar"} => Matches(sidecar, r)
    /\ r.pc \in {"compare", "fetch", "judge"} => Matches(r.saved, r)

AllTogether == \A h \in Helper : Together(run[h])

LEMMA TogetherNext ==
  ASSUME OneHelper
  PROVE  Sound /\ AllTogether /\ [Next]_vars => AllTogether'
<1> SUFFICES ASSUME Sound, AllTogether, [Next]_vars, NEW h \in Helper PROVE Together(run[h])'
  BY DEF AllTogether
<1>1. run \in [Helper -> Run] /\ run[h] \in Run /\ Together(run[h])
  BY DEF Sound, AllTogether
<1>2. ASSUME NEW a \in Authority, Start(h, a) PROVE Together(run[h])'
  <2>1. run'[h] = [Ready EXCEPT !.source = a, !.asked = doc[a],
                                !.found = IF Split(a) THEN "split" ELSE "whole",
                                !.pc = IF a \in Local THEN "stat" ELSE "sidecar"]
    BY <1>1, <1>2 DEF Start
  <2>2. /\ run'[h].source = a /\ run'[h].pc \in {"stat", "sidecar"}
        /\ run'[h].found = "whole" => ~Split(a)
    BY <2>1 DEF Ready
  <2>3. UNCHANGED <<cache, sidecar>>
    BY <1>2 DEF Start, files
  <2> QED
    BY <2>2, <2>3 DEF Together, Matches, Split
<1>3. ASSUME NEW a \in Authority, StartOffline(h, a) PROVE Together(run[h])'
  <2>1. run'[h].pc \in {"idle", "render"}
    BY <1>1, <1>3 DEF StartOffline, Ready
  <2> QED
    BY <2>1 DEF Together
<1>4. ASSUME run'[h].pc \notin {"stat", "sidecar", "compare", "fetch", "judge"}
      PROVE  Together(run[h])'
  BY <1>4 DEF Together
<1>a. ASSUME NEW step \in {"idle", "render"}, NEW status, Report(h, step, status)
      PROVE  Together(run[h])'
  <2>1. run'[h].pc = step
    BY <1>1, <1>a DEF Report, Run
  <2> QED
    BY <1>4, <2>1
<1>b. ASSUME NEW step \in Steps \ {"stat", "sidecar", "compare", "fetch", "judge"},
             Go(h, step)
      PROVE  Together(run[h])'
  <2>1. run'[h].pc = step
    BY <1>1, <1>b DEF Go, Run
  <2> QED
    BY <1>4, <2>1
<1>c. ASSUME Raise(h) \/ StaleOrRaise(h) \/ WriteError(h) PROVE Together(run[h])'
  BY <1>a, <1>c DEF Raise, StaleOrRaise, WriteError
<1>5. ASSUME UNCHANGED run, cache' \in {cache, None}, sidecar' \in {sidecar, None}
      PROVE  Together(run[h])'
  BY <1>1, <1>5 DEF Together, Matches
<1>6. ASSUME Stat(h) PROVE Together(run[h])'
  <2>1. CASE Raise(h)
    BY <1>c, <2>1
  <2>2. CASE ~Raise(h)
    <3>1. run'[h] = [run[h] EXCEPT !.pc = "sidecar", !.seen = doc[run[h].source]]
      BY <1>1, <1>6, <2>2 DEF Stat
    <3>2. /\ run'[h].source = run[h].source /\ run'[h].pc = "sidecar"
          /\ run'[h].found = run[h].found /\ UNCHANGED <<cache, sidecar>>
      BY <1>1, <1>6, <3>1 DEF Stat, Run, files
    <3> QED
      BY <1>1, <1>6, <3>2 DEF Stat, Together, Matches
  <2> QED
    BY <2>1, <2>2
<1>7. ASSUME ReadMetadata(h) PROVE Together(run[h])'
  <2>1. CASE Raise(h)
    BY <1>c, <2>1
  <2>2. CASE ~Raise(h)
    <3>1. run'[h] = [run[h] EXCEPT !.saved = sidecar,
                       !.pc = IF run[h].source \in Local THEN "compare" ELSE "fetch"]
      BY <1>1, <1>7, <2>2 DEF ReadMetadata
    <3>2. /\ run'[h].source = run[h].source /\ run'[h].pc \in {"compare", "fetch"}
          /\ run'[h].saved = sidecar
          /\ run'[h].found = run[h].found /\ UNCHANGED <<cache, sidecar>>
      BY <1>1, <1>7, <3>1 DEF ReadMetadata, Run, files
    <3> QED
      BY <1>1, <1>7, <3>2 DEF ReadMetadata, Together, Matches
  <2> QED
    BY <2>1, <2>2
<1>8. ASSUME Fetch(h) PROVE Together(run[h])'
  <2>1. CASE StaleOrRaise(h) \/ Raise(h) \/ Report(h, "render", "current")
             \/ Report(h, "idle", "failed")
    BY <1>a, <1>c, <2>1
  <2> DEFINE d == [from |-> run[h].source, stamp |-> doc[run[h].source]]
  <2>2. CASE run' = [run EXCEPT ![h].pc = "judge", ![h].body = d]
    <3>1. run'[h] = [run[h] EXCEPT !.pc = "judge", !.body = d]
      BY <1>1, <2>2
    <3>2. /\ run'[h].source = run[h].source /\ run'[h].pc = "judge"
          /\ run'[h].saved = run[h].saved
          /\ run'[h].found = run[h].found /\ UNCHANGED cache
      BY <1>1, <1>8, <3>1 DEF Fetch, Run, files
    <3> QED
      BY <1>1, <1>8, <3>2 DEF Fetch, Together, Matches
  <2> QED
    BY <1>8, <2>1, <2>2 DEF Fetch
<1>9. ASSUME \/ Compare(h) \/ ReadSource(h) \/ Judge(h) \/ WriteCache(h)
             \/ WriteMetadata(h) \/ Render(h) \/ Install(h) \/ Crash(h)
      PROVE  Together(run[h])'
  <2>1. CASE Compare(h)
    BY <1>a, <1>b, <2>1 DEF Compare, Steps
  <2>2. CASE ReadSource(h)
    <3> DEFINE d == [from |-> run[h].source, stamp |-> doc[run[h].source]]
    <3>1. CASE run' = [run EXCEPT ![h].pc = "write_cache", ![h].body = d]
      <4>1. run'[h].pc = "write_cache"
        BY <1>1, <3>1 DEF Run
      <4> QED
        BY <1>4, <4>1
    <3> QED
      BY <1>a, <1>c, <2>2, <3>1 DEF ReadSource
  <2>3. CASE Judge(h)
    BY <1>a, <1>b, <1>c, <2>3 DEF Judge, Steps
  <2>4. CASE WriteCache(h) \/ WriteMetadata(h)
    BY <1>a, <1>b, <1>c, <2>4 DEF WriteCache, WriteMetadata, Steps
  <2>5. CASE Render(h)
    <3>1. CASE run' = [run EXCEPT ![h].pc = "install", ![h].body = cache]
      <4>1. run'[h].pc = "install"
        BY <1>1, <3>1 DEF Run
      <4> QED
        BY <1>4, <4>1
    <3> QED
      BY <1>a, <2>5, <3>1 DEF Render
  <2>6. CASE Install(h) \/ Crash(h)
    BY <1>a, <1>b, <2>6 DEF Install, Crash, Steps
  <2> QED
    BY <1>9, <2>1, <2>2, <2>3, <2>4, <2>5, <2>6
<1>10. \A g \in Helper : g = h
  BY DEF OneHelper
<1>11. CASE Tidy \/ UNCHANGED vars \/ \E a \in Authority : Publish(a)
  BY <1>5, <1>11 DEF Tidy, Publish, vars, files
<1> QED
  BY <1>2, <1>3, <1>6, <1>7, <1>8, <1>9, <1>10, <1>11 DEF Next, Proceed

Fresh(r, d) == d # None /\ d.from = r.source /\ r.asked <= d.stamp

\* The reports that promise something.
Promises(r) == \/ r.status = "refreshed"
               \/ r.status = "current" /\ r.found = "whole"

\* A run with such a report has a fresh dictionary at hand until it has
\* installed it; only the removal of the cache can come between.
Honest(r) ==
  Promises(r) =>
    /\ r.pc = "render" => cache = None \/ Fresh(r, cache)
    /\ r.pc = "install" => Fresh(r, r.body)
    /\ r.pc = "idle" => Fresh(r, config)

AllHonest == \A h \in Helper : Honest(run[h])

LEMMA AloneHonest ==
  ASSUME OneHelper, NEW h \in Helper, Honest(run[h])'
  PROVE  AllHonest'
BY DEF OneHelper, AllHonest

\* Before it renders, and with any other report, a run claims nothing.
LEMMA SilentHonest ==
  ASSUME OneHelper, NEW h \in Helper,
         \/ run'[h].pc \notin {"render", "install", "idle"}
         \/ run'[h].status \notin {"current", "refreshed"}
  PROVE  AllHonest'
<1>1. Honest(run[h])'
  BY DEF Honest, Promises
<1> QED
  BY <1>1, AloneHonest

LEMMA ReportHonest ==
  ASSUME Sound, OneHelper, NEW h \in Helper, NEW step, NEW status, Report(h, step, status),
         status \notin {"current", "refreshed"}
  PROVE  AllHonest'
<1>1. run'[h].status = status
  BY DEF Report, Sound, Run
<1> QED
  BY <1>1, SilentHonest

LEMMA RaiseHonest ==
  ASSUME Sound, OneHelper, NEW h \in Helper, Raise(h) \/ StaleOrRaise(h) \/ WriteError(h)
  PROVE  AllHonest'
<1>1. CASE Raise(h)
  BY <1>1, ReportHonest DEF Raise
<1>2. CASE StaleOrRaise(h)
  BY <1>1, <1>2, ReportHonest DEF StaleOrRaise
<1> QED
  BY <1>1, <1>2 DEF WriteError

LEMMA ReportCurrent ==
  ASSUME Sound, OneHelper, NEW h \in Helper, NEW status, Report(h, "render", status),
         cache' # None /\ (status = "refreshed" \/ run[h].found = "whole") =>
           cache'.from = run[h].source /\ run[h].asked <= cache'.stamp
  PROVE  AllHonest'
<1>1. /\ run'[h].pc = "render" /\ run'[h].asked = run[h].asked
      /\ run'[h].source = run[h].source /\ run'[h].found = run[h].found
      /\ run'[h].status = status
  BY DEF Report, Sound, Run
<1>2. Honest(run[h])'
  BY <1>1 DEF Honest, Fresh, Promises
<1> QED
  BY <1>2, AloneHonest

\* Metadata that vouches for the present version makes the cache fresh.
LEMMA VouchedFresh ==
  ASSUME Sound, NEW h \in Helper, run[h].saved # None, run[h].pc # "idle",
         run[h].saved.from = run[h].source, Behind(run[h].saved),
         run[h].asked <= run[h].saved.stamp, cache # None,
         cache.from = run[h].source
  PROVE  run[h].asked <= cache.stamp
<1>1. run[h].asked \in Nat /\ run[h].saved.stamp \in Nat /\ cache.stamp \in Nat
  BY StampsAssumption DEF Sound, Kept, Run, Document, WellFormed, Stamp
<1>2. run[h].saved.stamp <= cache.stamp
  BY DEF Behind
<1> QED
  BY <1>1, <1>2

LEMMA HonestLocal ==
  ASSUME Sound, Ordered, AllTogether, OneHelper, NEW h \in Helper, Compare(h)
  PROVE  AllHonest'
<1>1. InOrder(run[h]) /\ Holds(run[h]) /\ run[h] \in Run /\ cache' = cache
      /\ Together(run[h])
  BY DEF Sound, Ordered, AllTogether, Compare, files
<1>2. CASE LocalIsCurrent(run[h])
  <2>1. /\ run[h].asked <= run[h].seen /\ run[h].seen <= run[h].saved.stamp
        /\ run[h].saved \in Document /\ run[h].saved # None
        /\ run[h].saved.from = run[h].source /\ Behind(run[h].saved)
    BY <1>1, <1>2 DEF LocalIsCurrent, InOrder, Compare, Holds, Run
  <2>2. run[h].asked <= run[h].saved.stamp
    BY <1>1, <2>1, StampsAssumption DEF Run, Document, Stamp
  <2>3. cache # None /\ run[h].found = "whole" =>
          cache.from = run[h].source /\ run[h].asked <= cache.stamp
    <3>1. run[h].pc = "compare"
      BY DEF Compare
    <3>2. cache # None /\ run[h].found = "whole" => cache.from = run[h].source
      BY <1>1, <2>1, <3>1 DEF Together, Matches
    <3> QED
      BY <2>1, <2>2, <3>1, <3>2, VouchedFresh
  <2> QED
    BY <1>1, <1>2, <2>3, ReportCurrent DEF Compare
<1>3. CASE ~LocalIsCurrent(run[h])
  <2>1. run'[h].pc = "read"
    BY <1>3 DEF Compare, Go, Sound, Run
  <2> QED
    BY <2>1, SilentHonest
<1> QED
  BY <1>2, <1>3

\* What the validators prove of a version the run was served, at one remote
\* authority.
LEMMA HonestRemote ==
  ASSUME Sound, Ordered, AllTogether, OneHelper, OneRemote, NEW h \in Helper,
         run[h].pc \in {"fetch", "judge"}, NEW d \in Document,
         d.from = run[h].source, run[h].asked <= d.stamp,
         NotModified(run[h].saved, d) \/ NotNewer(run[h].saved, d),
         cache' = cache, Report(h, "render", "current")
  PROVE  AllHonest'
<1>1. InOrder(run[h]) /\ Holds(run[h]) /\ run[h] \in Run /\ Together(run[h])
  BY DEF Sound, Ordered, AllTogether
<1>2. run[h].saved \in Document /\ run[h].saved # None /\ Behind(run[h].saved)
  BY <1>1 DEF NotModified, NotNewer, InOrder, Run
<1>3. run[h].saved.from \in Remote /\ d.from \in Remote /\ d.stamp <= run[h].saved.stamp
  BY <1>1, <1>2, AuthoritiesAssumption, StampsAssumption
     DEF NotModified, NotNewer, Holds, Document, Stamp
<1>4. run[h].saved.from = run[h].source
  BY <1>3 DEF OneRemote
<1>5. run[h].asked <= run[h].saved.stamp
  BY <1>1, <1>2, <1>3, StampsAssumption DEF Run, Document, Stamp
<1>6. cache # None /\ run[h].found = "whole" =>
        cache.from = run[h].source /\ run[h].asked <= cache.stamp
  <2>1. cache # None /\ run[h].found = "whole" => cache.from = run[h].source
    BY <1>1, <1>2, <1>4 DEF Together, Matches
  <2> QED
    BY <1>2, <1>4, <1>5, <2>1, VouchedFresh
<1> QED
  BY <1>6, ReportCurrent

LEMMA HonestAnswers ==
  ASSUME Sound, Ordered, AllTogether, OneHelper, OneRemote, NEW h \in Helper,
         Fetch(h) \/ Judge(h)
  PROVE  AllHonest'
<1>1. InOrder(run[h]) /\ Holds(run[h]) /\ run[h] \in Run /\ cache' = cache
  BY DEF Sound, Ordered, Fetch, Judge, files
<1>2. ASSUME Fetch(h) PROVE AllHonest'
  <2> DEFINE a == run[h].source
             d == [from |-> a, stamp |-> doc[a]]
  <2>1. CASE StaleOrRaise(h) \/ Raise(h) \/ Report(h, "idle", "failed")
    BY <2>1, RaiseHonest, ReportHonest
  <2>2. CASE run' = [run EXCEPT ![h].pc = "judge", ![h].body = d]
    <3>1. run'[h].pc = "judge"
      BY <2>2 DEF Sound, Run
    <3> QED
      BY <3>1, SilentHonest
  <2>3. CASE doc[a] # 0 /\ NotModified(run[h].saved, d) /\ Report(h, "render", "current")
    <3>1. a \in Authority /\ run[h].asked <= doc[a]
      BY <1>1, <1>2 DEF Holds, InOrder, Fetch
    <3>2. d \in Document
      BY <2>3, <3>1, DocServed
    <3> QED
      BY <1>1, <1>2, <2>3, <3>1, <3>2, HonestRemote DEF Fetch
  <2> QED
    BY <1>2, <2>1, <2>2, <2>3 DEF Fetch
<1>3. ASSUME Judge(h) PROVE AllHonest'
  <2>1. CASE Report(h, "idle", "failed")
    BY <2>1, ReportHonest
  <2>2. CASE StaleOrRaise(h)
    BY <2>2, RaiseHonest
  <2>3. CASE Go(h, "write_cache")
    <3>1. run'[h].pc = "write_cache"
      BY <2>3 DEF Go, Sound, Run
    <3> QED
      BY <3>1, SilentHonest
  <2>4. CASE NotNewer(run[h].saved, run[h].body) /\ Report(h, "render", "current")
    <3>1. /\ run[h].body \in Document /\ run[h].body.from = run[h].source
          /\ run[h].asked <= run[h].body.stamp
      BY <1>1, <1>3 DEF Holds, InOrder, Judge
    <3> QED
      BY <1>1, <1>3, <2>4, <3>1, HonestRemote DEF Judge
  <2> QED
    BY <1>3, <2>1, <2>2, <2>3, <2>4 DEF Judge
<1> QED
  BY <1>2, <1>3

LEMMA HonestWrites ==
  ASSUME Sound, Ordered, AllHonest, OneHelper, NEW h \in Helper,
         WriteCache(h) \/ WriteMetadata(h) \/ Render(h) \/ Install(h)
  PROVE  AllHonest'
<1>1. /\ InOrder(run[h]) /\ Holds(run[h]) /\ Honest(run[h])
      /\ run[h] \in Run /\ run \in [Helper -> Run] /\ Kept
  BY DEF Sound, Ordered, AllHonest
<1>2. ASSUME WriteCache(h) PROVE AllHonest'
  <2>1. CASE WriteError(h)
    BY <2>1, RaiseHonest
  <2>2. CASE Go(h, "write_sidecar")
    <3>1. run'[h].pc = "write_sidecar"
      BY <1>1, <2>2 DEF Go
    <3> QED
      BY <3>1, SilentHonest
  <2> QED
    BY <1>2, <2>1, <2>2 DEF WriteCache
<1>3. ASSUME WriteMetadata(h) PROVE AllHonest'
  <2>1. CASE WriteError(h)
    BY <2>1, RaiseHonest
  <2>2. CASE Report(h, "render", "refreshed")
    <3>1. /\ cache' \in {run[h].body, None} /\ run[h].asked <= run[h].body.stamp
          /\ run[h].body.from = run[h].source
      BY <1>1, <1>3 DEF WriteMetadata, InOrder
    <3> QED
      BY <2>2, <3>1, ReportCurrent
  <2> QED
    BY <1>3, <2>1, <2>2 DEF WriteMetadata
<1>4. ASSUME Render(h) PROVE AllHonest'
  <2>1. CASE Report(h, "idle", "failed")
    BY <2>1, ReportHonest
  <2>2. CASE cache # None /\ run' = [run EXCEPT ![h].pc = "install", ![h].body = cache]
    <3>1. run'[h] = [run[h] EXCEPT !.pc = "install", !.body = cache]
      BY <1>1, <1>4, <2>2 DEF Render
    <3>2. /\ run'[h].pc = "install" /\ run'[h].body = cache
          /\ run'[h].source = run[h].source /\ run'[h].asked = run[h].asked
          /\ run'[h].status = run[h].status /\ run'[h].found = run[h].found
      BY <1>1, <3>1 DEF Run
    <3>3. Honest(run[h])'
      BY <1>1, <1>4, <2>2, <3>2 DEF Honest, Fresh, Promises, Render
    <3> QED
      BY <3>3, AloneHonest
  <2> QED
    BY <1>4, <2>1, <2>2 DEF Render
<1>5. ASSUME Install(h) PROVE AllHonest'
  <2>1. CASE Report(h, "idle", "failed")
    BY <2>1, ReportHonest
  <2>2. CASE config' = run[h].body /\ Go(h, "idle")
    <3>1. run'[h] = [run[h] EXCEPT !.pc = "idle"]
      BY <1>1, <2>2 DEF Go
    <3>2. /\ run'[h].pc = "idle" /\ run'[h].source = run[h].source
          /\ run'[h].asked = run[h].asked /\ run'[h].status = run[h].status
          /\ run'[h].found = run[h].found
      BY <1>1, <3>1 DEF Run
    <3>3. Honest(run[h])'
      BY <1>1, <1>5, <2>2, <3>2 DEF Honest, Fresh, Promises, Install
    <3> QED
      BY <3>3, AloneHonest
  <2> QED
    BY <1>5, <2>1, <2>2 DEF Install
<1> QED
  BY <1>2, <1>3, <1>4, <1>5

LEMMA HonestStart ==
  ASSUME Sound, OneHelper, NEW h \in Helper, NEW a \in Authority,
         Start(h, a) \/ StartOffline(h, a)
  PROVE  AllHonest'
<1>1. CASE Start(h, a)
  <2>1. run'[h] = [Ready EXCEPT !.source = a, !.asked = doc[a],
                                !.found = IF Split(a) THEN "split" ELSE "whole",
                                !.pc = IF a \in Local THEN "stat" ELSE "sidecar"]
    BY <1>1 DEF Start, Sound
  <2>2. run'[h].pc \in {"stat", "sidecar"}
    BY <2>1 DEF Ready
  <2> QED
    BY <2>2, SilentHonest
<1>2. CASE StartOffline(h, a)
  <2> DEFINE begun == [Ready EXCEPT !.source = a, !.asked = doc[a]]
  <2>1. CASE cache # None
    <3>1. run'[h] = [begun EXCEPT !.pc = "render", !.status = "offline-cache"]
      BY <1>2, <2>1 DEF StartOffline, Sound
    <3>2. run'[h].status = "offline-cache"
      BY <3>1 DEF Ready
    <3> QED
      BY <3>2, SilentHonest
  <2>2. CASE cache = None
    <3>1. run'[h] = [begun EXCEPT !.status = IF a \in Remote THEN "tracked-config"
                                                              ELSE "failed"]
      BY <1>2, <2>2 DEF StartOffline, Sound
    <3>2. run'[h].status \in {"tracked-config", "failed"}
      BY <3>1 DEF Ready
    <3> QED
      BY <3>2, SilentHonest
  <2> QED
    BY <2>1, <2>2
<1> QED
  BY <1>1, <1>2

LEMMA HonestReads ==
  ASSUME Sound, OneHelper, NEW h \in Helper, Stat(h) \/ ReadMetadata(h) \/ ReadSource(h)
  PROVE  AllHonest'
<1>1. run \in [Helper -> Run]
  BY DEF Sound
<1>2. ASSUME Stat(h) PROVE AllHonest'
  <2>1. CASE Raise(h)
    BY <2>1, RaiseHonest
  <2>2. CASE ~Raise(h)
    <3>1. run'[h].pc = "sidecar"
      BY <1>1, <1>2, <2>2 DEF Stat, Run
    <3> QED
      BY <3>1, SilentHonest
  <2> QED
    BY <2>1, <2>2
<1>3. ASSUME ReadMetadata(h) PROVE AllHonest'
  <2>1. CASE Raise(h)
    BY <2>1, RaiseHonest
  <2>2. CASE ~Raise(h)
    <3>1. run'[h].pc \in {"compare", "fetch"}
      BY <1>1, <1>3, <2>2 DEF ReadMetadata, Run
    <3> QED
      BY <3>1, SilentHonest
  <2> QED
    BY <2>1, <2>2
<1>4. ASSUME ReadSource(h) PROVE AllHonest'
  <2>1. CASE Report(h, "idle", "failed") \/ Raise(h)
    BY <2>1, ReportHonest, RaiseHonest
  <2>2. CASE ~(Report(h, "idle", "failed") \/ Raise(h))
    <3>1. run'[h].pc = "write_cache"
      BY <1>1, <1>4, <2>2 DEF ReadSource, Run
    <3> QED
      BY <3>1, SilentHonest
  <2> QED
    BY <2>1, <2>2
<1> QED
  BY <1>2, <1>3, <1>4

LEMMA HonestNext ==
  ASSUME OneHelper, OneRemote
  PROVE  Sound /\ Ordered /\ AllTogether /\ AllHonest /\ [Next]_vars => AllHonest'
<1> SUFFICES ASSUME Sound, Ordered, AllTogether, AllHonest, [Next]_vars PROVE AllHonest'
  OBVIOUS
<1>1. ASSUME NEW h \in Helper, Proceed(h) PROVE AllHonest'
  BY <1>1, HonestReads, HonestLocal, HonestAnswers, HonestWrites DEF Proceed
<1>2. ASSUME NEW h \in Helper, Crash(h) PROVE AllHonest'
  BY <1>2, ReportHonest DEF Crash
<1>3. CASE Tidy
  <2>1. UNCHANGED <<config, run>> /\ cache' \in {cache, None}
    BY <1>3 DEF Tidy
  <2> QED
    BY <2>1 DEF AllHonest, Honest, Fresh, Promises
<1>4. CASE UNCHANGED vars
  BY <1>4 DEF vars, files, AllHonest, Honest, Fresh, Promises
<1>5. ASSUME NEW a \in Authority, Publish(a) PROVE AllHonest'
  BY <1>5 DEF Publish, files, AllHonest, Honest, Fresh, Promises
<1> QED
  BY <1>1, <1>2, <1>3, <1>4, <1>5, HonestStart DEF Next

\* A run that ends "refreshed", or "current" over files that belonged together when
\* it began, leaves a typos.toml generated from a dictionary of its own authority,
\* no older than what that served when the run began, for any number of local
\* authorities and one remote one, wherever other runs have stopped
\* (README.md:100-103; typos_rollout.py:224-256 and 328-339).
THEOREM ReportsAreFresh ==
  ASSUME OneHelper, OneRemote
  PROVE  Spec => []ReportedFresh
<1>1. Init => AllHonest /\ AllTogether
  BY DEF Init, AllHonest, Honest, Promises, AllTogether, Together, Ready
<1>2. Init => Ordered
  BY DEF Init, Ordered, Trails, InOrder, Behind, Ready
<1>3. Sound /\ AllHonest => ReportedFresh
  <2> SUFFICES ASSUME Sound, AllHonest, NEW h \in Helper, run[h].pc = "idle",
                      Promises(run[h])
               PROVE  config.from = run[h].source /\ config.stamp >= run[h].asked
    BY DEF ReportedFresh, Promises
  <2>1. /\ config \in Document /\ config.from = run[h].source
        /\ run[h].asked <= config.stamp /\ run[h].asked \in Nat
    BY StampsAssumption DEF AllHonest, Honest, Fresh, Sound, Kept, WellFormed, Run
  <2>2. config.stamp \in Nat
    BY <2>1, StampsAssumption DEF Document, Stamp
  <2> QED
    BY <2>1, <2>2
<1> QED
  BY <1>1, <1>2, <1>3, SoundInit, SoundNext, OrderNext, TogetherNext, HonestNext, PTL DEF Spec
=============================================================================

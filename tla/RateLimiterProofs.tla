-------------------------- MODULE RateLimiterProofs --------------------------
(***************************************************************************)
(* Proofs about RateLimiter for every number of clients, of calls at once, *)
(* of shards, and every limit, window and capacity.                        *)
(***************************************************************************)
EXTENDS RateLimiter, FiniteSetTheorems, WellFoundedInduction, TLAPS

-----------------------------------------------------------------------------
(* Lemmas about the state.                                                 *)

\* The entries of a shard are finitely many, so its share of `len` is a natural.
LEMMA ShardFinite ==
  ASSUME TypeOK, NEW s
  PROVE  /\ IsFiniteSet(OnShard(s))
         /\ Cardinality(OnShard(s)) \in Nat
<1>1. OnShard(s) \subseteq IP
  BY DEF OnShard, TypeOK
<1>2. IsFiniteSet(IP)
  BY ClientsFinite
<1> QED
  BY <1>1, <1>2, FS_Subset, FS_CardinalityType

\* A walk keeps its call at a step of the code and at a shard that exists.
LEMMA WalkType ==
  ASSUME TypeOK, NEW w \in Worker, NEW next \in Steps, Walk(w, next)
  PROVE  /\ pc' \in [Worker -> Steps]
         /\ cursor' \in [Worker -> Shard]
         /\ \A v \in Worker : v # w => pc'[v] = pc[v] /\ cursor'[v] = cursor[v]
         /\ pc'[w] \in {pc[w], next}
<1>1. pc \in [Worker -> Steps] /\ cursor \in [Worker -> Shard]
  BY DEF TypeOK
<1>2. ShardCount \in Nat \ {0} /\ 0 \in Shard
  BY ShardsAssumption DEF Shard
<1>3. CASE cursor[w] = ShardCount - 1
  BY <1>1, <1>2, <1>3 DEF Walk
<1>4. CASE cursor[w] # ShardCount - 1
  <2>1. cursor[w] + 1 \in Shard
    BY <1>1, <1>2, <1>4 DEF Shard
  <2> QED
    BY <1>1, <1>4, <2>1 DEF Walk
<1> QED
  BY <1>3, <1>4

\* The entry a verdict is given on, and the one it leaves behind, are entries.
LEMMA ChargeType ==
  ASSUME TypeOK, NEW w \in Worker, pc[w] # "idle"
  PROVE  /\ ip[w] \in IP
         /\ Opened(w) \in Entry
         /\ Current(w) \in Entry
         /\ Charged(w) \in Entry
         /\ Charged(w).count >= 1
         /\ RetryAfter(w, Current(w)) \in Int
<1>1. ip[w] \in IP
  BY DEF TypeOK
<1>2. Opened(w) \in Entry
  BY SettingsAssumption DEF Opened, TypeOK, Entry
<1>3. Current(w) \in Entry
  BY <1>2 DEF Current, TypeOK
<1>4. /\ Current(w).window_start \in Time
      /\ Current(w).count \in 0..MaxRequests
  BY <1>3 DEF Entry
<1>5. Charged(w) \in Entry /\ Charged(w).count >= 1
  <2>1. CASE Spent(Current(w))
    <3>1. Charged(w) = Current(w)
      BY <2>1 DEF Charged
    <3>2. Current(w).count >= MaxRequests
      BY <2>1 DEF Spent
    <3> HIDE DEF Current, Charged
    <3> QED
      BY <1>3, <1>4, <3>1, <3>2, SettingsAssumption
  <2>2. CASE ~Spent(Current(w))
    <3>1. Current(w).count + 1 \in 1..MaxRequests
      BY <1>4, <2>2, SettingsAssumption DEF Spent
    <3>2. Charged(w) = [window_start |-> Current(w).window_start,
                        count |-> Current(w).count + 1]
      BY <1>3, <2>2 DEF Charged, Entry
    <3> QED
      BY <1>4, <3>1, <3>2 DEF Entry
  <2> QED
    BY <2>1, <2>2
<1>6. RetryAfter(w, Current(w)) \in Int
  <2>1. Current(w).window_start \in Int /\ now[w] \in Int /\ Window \in Int
    BY <1>4, SettingsAssumption, BoundsAssumption DEF TypeOK, Time
  <2> HIDE DEF Current
  <2> QED
    BY <2>1 DEF RetryAfter
<1> QED
  BY <1>1, <1>2, <1>3, <1>5, <1>6

-----------------------------------------------------------------------------
(* Type correctness.                                                       *)

LEMMA TypeInit == Init => TypeOK
<1> SUFFICES ASSUME Init PROVE TypeOK
  OBVIOUS
<1>1. 0 \in Time /\ 0 \in Shard
  BY ShardsAssumption, BoundsAssumption DEF Time, Shard
<1>2. NoCandidate \in Candidate
  BY <1>1 DEF NoCandidate, Candidate
<1>3. DOMAIN entries = {} /\ entries \in [{} -> Entry]
  BY DEF Init
<1> QED
  BY <1>1, <1>2, <1>3 DEF Init, TypeOK, LocalsInPlace, Steps

\* The types of the variables a call's steps set most often, as facts of their own.
LEMMA TypeFacts ==
  ASSUME TypeOK
  PROVE  /\ \A k \in DOMAIN entries : k \in IP /\ entries[k] \in Entry
         /\ \A w \in Worker : /\ selected[w] \in Candidate
                              /\ tally[w] \in Nat
                              /\ cursor[w] \in Shard
                              /\ pc[w] \in Steps
                              /\ now[w] \in Time
         /\ \A S : /\ DOMAIN Restrict(entries, S) = S
                   /\ \A k \in S : Restrict(entries, S)[k] = entries[k]
BY DEF TypeOK, Restrict

\* A step of one call sets or clears its tally, candidate and verdict where
\* LocalsInPlace has them.
LEMMA LocalsNext == TypeOK /\ [Next]_vars => LocalsInPlace'
<1> SUFFICES ASSUME TypeOK, [Next]_vars, NEW v \in Worker
             PROVE  /\ tally'[v] # 0 => pc'[v] \in {"capacity", "measure", "publish"}
                    /\ (outcome'[v] = "none") <=> (pc'[v] \in {"idle", "prune", "charge"})
                    /\ selected'[v] # NoCandidate => outcome'[v] # "none"
  BY DEF LocalsInPlace
<1>0. /\ tally[v] # 0 => pc[v] \in {"capacity", "measure", "publish"}
      /\ (outcome[v] = "none") <=> (pc[v] \in {"idle", "prune", "charge"})
      /\ selected[v] # NoCandidate => outcome[v] # "none"
  BY DEF TypeOK, LocalsInPlace
<1>1. CASE UNCHANGED <<pc, tally, outcome, selected>>
  BY <1>0, <1>1
<1>2. ASSUME NEW w \in Worker, Begin(w) \/ Charge(w) \/ Evict(w) \/ Publish(w)
      PROVE  /\ tally'[v] # 0 => pc'[v] \in {"capacity", "measure", "publish"}
             /\ (outcome'[v] = "none") <=> (pc'[v] \in {"idle", "prune", "charge"})
             /\ selected'[v] # NoCandidate => outcome'[v] # "none"
  BY <1>0, <1>2 DEF TypeOK, Begin, Charge, Evict, Publish, call
<1>3. ASSUME NEW w \in Worker, PruneShard(w)
      PROVE  /\ UNCHANGED <<tally, outcome, selected>>
             /\ v # w => pc'[v] = pc[v]
             /\ v = w => pc[v] = "prune" /\ pc'[v] \in {"prune", "charge"}
  BY <1>3, WalkType DEF PruneShard, Steps
<1>4. ASSUME NEW w \in Worker, MeasureShard(w)
      PROVE  /\ UNCHANGED <<outcome, selected>>
             /\ v # w => pc'[v] = pc[v] /\ tally'[v] = tally[v]
             /\ v = w => pc[v] = "measure" /\ pc'[v] \in {"measure", "publish"}
  BY <1>4, WalkType DEF MeasureShard, Steps, TypeOK
<1>5. ASSUME NEW w \in Worker, CountShard(w)
      PROVE  /\ UNCHANGED outcome
             /\ v # w => UNCHANGED <<pc[v], tally[v], selected[v]>>
             /\ v = w => /\ pc[v] = "capacity" /\ selected'[v] = NoCandidate
                         /\ pc'[v] \in {"capacity", "scan", "measure"}
                         /\ tally'[v] # 0 => pc'[v] = "capacity"
  <2>1. /\ v # w => pc'[v] = pc[v]
        /\ v = w => pc[v] = "capacity" /\ pc'[v] \in {"capacity", "scan", "measure"}
        /\ v = w /\ cursor[w] # ShardCount - 1 => pc'[v] = pc[v]
    <3>1. \E next \in {"scan", "measure"} : Walk(w, next)
      BY <1>5 DEF CountShard
    <3> QED
      BY <1>5, <3>1, WalkType DEF CountShard, Steps, Walk
  <2> QED
    BY <1>5, <2>1 DEF CountShard, TypeOK
<1>6. ASSUME NEW w \in Worker, ScanShard(w)
      PROVE  /\ UNCHANGED <<outcome, tally>>
             /\ v # w => UNCHANGED <<pc[v], selected[v]>>
             /\ v = w => /\ pc[v] \in {"scan", "rescan"}
                         /\ pc'[v] \in {"scan", "rescan", "evict", "measure"}
  <2>1. PICK pick : /\ selected' = [selected EXCEPT ![w] = pick]
                    /\ Walk(w, AfterWalk(w, pick))
    BY <1>6 DEF ScanShard
  <2>2. AfterWalk(w, pick) \in {"rescan", "measure", "evict"}
    BY <1>6 DEF ScanShard, AfterWalk
  <2>3. /\ v # w => pc'[v] = pc[v]
        /\ pc'[w] \in {pc[w], AfterWalk(w, pick)}
    BY <2>1, <2>2, WalkType DEF Steps
  <2> QED
    BY <1>6, <2>1, <2>2, <2>3 DEF ScanShard, TypeOK
<1>7. \/ UNCHANGED <<pc, tally, outcome, selected>>
      \/ \E w \in Worker : \/ Begin(w) \/ Charge(w) \/ Evict(w) \/ Publish(w)
                          \/ PruneShard(w) \/ MeasureShard(w) \/ CountShard(w) \/ ScanShard(w)
  BY DEF Next, Proceed, Tick, SetBack, vars, call
<1> QED
  BY <1>0, <1>1, <1>2, <1>3, <1>4, <1>5, <1>6, <1>7

LEMMA TypeBegin ==
  ASSUME TypeOK, NEW w \in Worker, Begin(w),
         LocalsInPlace'
  PROVE  TypeOK'
BY ClientsFinite DEF Begin, TypeOK, Steps, ledger

LEMMA TypePruneShard ==
  ASSUME TypeOK, NEW w \in Worker, PruneShard(w),
         LocalsInPlace'
  PROVE  TypeOK'
<1>1. /\ pc' \in [Worker -> Steps] /\ cursor' \in [Worker -> Shard]
      /\ \A v \in Worker : (pc'[v] = "idle") <=> (pc[v] = "idle")
  BY WalkType DEF PruneShard, Steps
<1>2. DOMAIN entries' \subseteq IP /\ entries' \in [DOMAIN entries' -> Entry]
  BY TypeFacts DEF PruneShard, Restrict, TypeOK
<1> QED
  BY <1>1, <1>2 DEF PruneShard, TypeOK, ledger

LEMMA TypeCharge ==
  ASSUME TypeOK, NEW w \in Worker, Charge(w),
         LocalsInPlace'
  PROVE  TypeOK'
<1>1. pc[w] # "idle"
  BY DEF Charge
<1>2. /\ ip[w] \in IP
      /\ Charged(w) \in Entry
      /\ RetryAfter(w, Current(w)) \in Int
  BY <1>1, ChargeType
<1>3. DOMAIN entries' \subseteq IP /\ entries' \in [DOMAIN entries' -> Entry]
  BY <1>2 DEF Charge, TypeOK
<1>4. /\ outcome' \in [Worker -> {"none", "ok", "limited"}]
      /\ retry_in' \in [Worker -> Int]
      /\ admitted' \in [IP -> [Time -> Nat]]
      /\ refused' \in [IP -> Nat]
  <2>1. /\ outcome \in [Worker -> {"none", "ok", "limited"}]
        /\ retry_in \in [Worker -> Int]
        /\ admitted \in [IP -> [Time -> Nat]]
        /\ refused \in [IP -> Nat]
        /\ clock \in Time
    BY DEF TypeOK
  <2>2. CASE Spent(Current(w))
    <3>1. /\ outcome' = [outcome EXCEPT ![w] = "limited"]
          /\ retry_in' = [retry_in EXCEPT ![w] = RetryAfter(w, Current(w))]
          /\ refused' = [refused EXCEPT ![ip[w]] = @ + 1]
          /\ admitted' = admitted
      BY <2>2 DEF Charge
    <3> QED
      BY <1>2, <2>1, <3>1
  <2>3. CASE ~Spent(Current(w))
    <3>1. /\ outcome' = [outcome EXCEPT ![w] = "ok"]
          /\ admitted' = [admitted EXCEPT ![ip[w]][clock] = @ + 1]
          /\ UNCHANGED <<retry_in, refused>>
      BY <2>3 DEF Charge
    <3> QED
      BY <1>2, <2>1, <3>1
  <2> QED
    BY <2>2, <2>3
<1>5. /\ pc' \in [Worker -> Steps]
      /\ \A v \in Worker : (pc'[v] = "idle") <=> (pc[v] = "idle")
  BY <1>1 DEF Charge, TypeOK, Steps
<1> QED
  BY <1>3, <1>4, <1>5 DEF Charge, TypeOK

LEMMA TypeCountShard ==
  ASSUME TypeOK, NEW w \in Worker, CountShard(w),
         LocalsInPlace'
  PROVE  TypeOK'
<1>1. /\ pc' \in [Worker -> Steps] /\ cursor' \in [Worker -> Shard]
      /\ \A v \in Worker : (pc'[v] = "idle") <=> (pc[v] = "idle")
  BY WalkType DEF CountShard, Steps
<1>2. tally' \in [Worker -> Nat]
  BY ShardFinite DEF CountShard, TypeOK
<1>3. selected' \in [Worker -> Candidate]
  BY BoundsAssumption DEF CountShard, TypeOK, NoCandidate, Candidate, Time
<1> QED
  BY <1>1, <1>2, <1>3 DEF CountShard, TypeOK, ledger

LEMMA TypeScanShard ==
  ASSUME TypeOK, NEW w \in Worker, ScanShard(w),
         LocalsInPlace'
  PROVE  TypeOK'
<1> DEFINE found == IF Older(w) = {}
                      THEN {selected[w]}
                      ELSE {[key |-> k, start |-> entries[k].window_start] : k \in Older(w)}
<1>1. found \subseteq Candidate
  BY TypeFacts DEF Older, OnShard, Candidate, Entry
<1>2. PICK pick \in found : /\ selected' = [selected EXCEPT ![w] = pick]
                            /\ Walk(w, AfterWalk(w, pick))
  BY DEF ScanShard
<1>3. AfterWalk(w, pick) \in Steps \ {"idle"}
  BY DEF ScanShard, AfterWalk, Steps
<1>4. /\ pc' \in [Worker -> Steps] /\ cursor' \in [Worker -> Shard]
      /\ \A v \in Worker : (pc'[v] = "idle") <=> (pc[v] = "idle")
  BY <1>2, <1>3, WalkType DEF ScanShard
<1>5. selected' \in [Worker -> Candidate]
  BY <1>1, <1>2 DEF TypeOK
<1> QED
  BY <1>4, <1>5 DEF ScanShard, TypeOK, ledger

LEMMA TypeEvict ==
  ASSUME TypeOK, NEW w \in Worker, Evict(w),
         LocalsInPlace'
  PROVE  TypeOK'
<1>1. DOMAIN entries' \subseteq IP /\ entries' \in [DOMAIN entries' -> Entry]
  BY TypeFacts DEF Evict, Restrict, TypeOK
<1> QED
  BY <1>1 DEF Evict, TypeOK, call, ledger, Steps

LEMMA TypeMeasureShard ==
  ASSUME TypeOK, NEW w \in Worker, MeasureShard(w),
         LocalsInPlace'
  PROVE  TypeOK'
<1>1. /\ pc' \in [Worker -> Steps] /\ cursor' \in [Worker -> Shard]
      /\ \A v \in Worker : (pc'[v] = "idle") <=> (pc[v] = "idle")
  BY WalkType DEF MeasureShard, Steps
<1>2. tally' \in [Worker -> Nat]
  BY ShardFinite DEF MeasureShard, TypeOK
<1> QED
  BY <1>1, <1>2 DEF MeasureShard, TypeOK, ledger

LEMMA TypePublish ==
  ASSUME TypeOK, NEW w \in Worker, Publish(w),
         LocalsInPlace'
  PROVE  TypeOK'
<1>1. 0 \in Time /\ NoCandidate \in Candidate
  BY BoundsAssumption DEF Time, NoCandidate, Candidate
<1> QED
  BY <1>1 DEF Publish, TypeOK, ledger, Steps

LEMMA TypeClock ==
  ASSUME TypeOK, Tick \/ SetBack,
         LocalsInPlace'
  PROVE  TypeOK'
<1>1. clock' \in Time
  BY BoundsAssumption DEF Tick, SetBack, TypeOK, Time
<1> QED
  BY <1>1 DEF Tick, SetBack, TypeOK, call, ledger

LEMMA TypeNext == TypeOK /\ [Next]_vars => TypeOK'
<1> SUFFICES ASSUME TypeOK, [Next]_vars PROVE TypeOK'
  OBVIOUS
<1>0. LocalsInPlace'
  BY LocalsNext
<1>1. CASE \E w \in Worker : Begin(w) \/ Proceed(w)
  BY <1>0, <1>1, TypeBegin, TypePruneShard, TypeCharge, TypeCountShard, TypeScanShard,
     TypeEvict, TypeMeasureShard, TypePublish DEF Proceed
<1>2. CASE Tick \/ SetBack
  BY <1>0, <1>2, TypeClock
<1>3. CASE UNCHANGED vars
  BY <1>0, <1>3 DEF vars, call, ledger, TypeOK
<1> QED
  BY <1>1, <1>2, <1>3 DEF Next

\* Every variable keeps the type of the Rust value it stands for, and a call's
\* locals exist exactly while it is in progress (rate_limit.rs, whole).
THEOREM TypeCorrect == Spec => []TypeOK
  BY TypeInit, TypeNext, PTL DEF Spec

-----------------------------------------------------------------------------
(* No entry is visible before its first charge or beyond its quota.        *)

LEMMA ChargedNext == TypeOK /\ EntriesCharged /\ [Next]_vars => EntriesCharged'
<1> SUFFICES ASSUME TypeOK, EntriesCharged, [Next]_vars PROVE EntriesCharged'
  OBVIOUS
<1>1. ASSUME NEW w \in Worker, Charge(w) PROVE EntriesCharged'
  <2>1. pc[w] # "idle"
    BY <1>1 DEF Charge
  <2>2. Charged(w).count \in 1..MaxRequests
    BY <2>1, ChargeType, SettingsAssumption DEF Entry
  <2> QED
    BY <1>1, <2>2 DEF Charge, EntriesCharged
<1>2. ASSUME NEW S \in SUBSET DOMAIN entries, entries' = Restrict(entries, S)
      PROVE  EntriesCharged'
  BY <1>2, TypeFacts DEF EntriesCharged, Restrict
<1>3. ASSUME NEW w \in Worker, PruneShard(w) PROVE EntriesCharged'
  BY <1>2, <1>3 DEF PruneShard
<1>4. ASSUME NEW w \in Worker, Evict(w) PROVE EntriesCharged'
  BY <1>2, <1>4 DEF Evict
<1>5. CASE UNCHANGED entries
  BY <1>5 DEF EntriesCharged
<1> QED
  BY <1>1, <1>3, <1>4, <1>5
     DEF Next, Proceed, Begin, CountShard, ScanShard, MeasureShard, Publish,
         Tick, SetBack, vars

\* Prunes, resets and evictions in any order never leave an entry that was not
\* charged or was charged beyond the limit (lines 92-112).
THEOREM EntriesAlwaysCharged == Spec => []EntriesCharged
<1>1. Init => EntriesCharged
  BY DEF Init, EntriesCharged
<1> QED
  BY <1>1, TypeCorrect, ChargedNext, PTL DEF Spec

-----------------------------------------------------------------------------
(* A call does not evict its own client.                                   *)

LEMMA VictimNext == TypeOK /\ OwnEntryNotVictim /\ [Next]_vars => OwnEntryNotVictim'
<1> SUFFICES ASSUME TypeOK, OwnEntryNotVictim, [Next]_vars,
                    NEW v \in Worker, pc'[v] = "evict"
             PROVE  selected'[v].key \notin {ip'[v], NoIP}
  BY DEF OwnEntryNotVictim
<1>1. ASSUME NEW w \in Worker, ScanShard(w)
      PROVE  selected'[v].key \notin {ip'[v], NoIP}
  <2>1. PICK pick : /\ selected' = [selected EXCEPT ![w] = pick]
                    /\ Walk(w, AfterWalk(w, pick))
    BY <1>1 DEF ScanShard
  <2>2. AfterWalk(w, pick) \in Steps
    BY DEF AfterWalk, Steps
  <2>3. CASE v = w
    <3>1. AfterWalk(w, pick) = "evict"
      BY <1>1, <2>1, <2>2, <2>3, WalkType DEF ScanShard
    <3>2. pick.key # NoIP /\ pick.key # ip[w]
      BY <1>1, <3>1 DEF AfterWalk, ScanShard
    <3> QED
      BY <1>1, <2>1, <2>3, <3>2 DEF ScanShard, TypeOK
  <2>4. CASE v # w
    BY <1>1, <2>1, <2>2, <2>4, WalkType DEF ScanShard, OwnEntryNotVictim, TypeOK
  <2> QED
    BY <2>3, <2>4
<1>2. ASSUME NEW w \in Worker,
             PruneShard(w) \/ CountShard(w) \/ MeasureShard(w)
      PROVE  selected'[v].key \notin {ip'[v], NoIP}
  <2>1. v # w /\ pc[v] = "evict"
    BY <1>2, WalkType DEF PruneShard, CountShard, MeasureShard, Steps
  <2> QED
    BY <1>2, <2>1 DEF PruneShard, CountShard, MeasureShard, OwnEntryNotVictim, TypeOK
<1>3. ASSUME NEW w \in Worker,
             Begin(w) \/ Charge(w) \/ Evict(w) \/ Publish(w)
      PROVE  selected'[v].key \notin {ip'[v], NoIP}
  <2>1. v # w /\ pc[v] = "evict"
    BY <1>3 DEF Begin, Charge, Evict, Publish, TypeOK
  <2> QED
    BY <1>3, <2>1 DEF Begin, Charge, Evict, Publish, OwnEntryNotVictim, TypeOK, call
<1>4. CASE Tick \/ SetBack \/ UNCHANGED vars
  BY <1>4 DEF Tick, SetBack, vars, call, OwnEntryNotVictim
<1> QED
  BY <1>1, <1>2, <1>3, <1>4 DEF Next, Proceed

\* The entry a call has just charged is never the one it evicts, however the
\* map changes between its walks (lines 130-140).
THEOREM OwnEntryNeverVictim == Spec => []OwnEntryNotVictim
<1>1. Init => OwnEntryNotVictim
  BY DEF Init, OwnEntryNotVictim
<1> QED
  BY <1>1, TypeCorrect, VictimNext, PTL DEF Spec

-----------------------------------------------------------------------------
(* Waits, on a clock that is never set back.                               *)

\* Nothing a call remembers or the map holds is dated after the present.
Past ==
  /\ \A w \in Worker : now[w] <= clock
  /\ \A k \in DOMAIN entries : entries[k].window_start <= clock

\* A call has a verdict from the moment it has charged its client.
VerdictKnown ==
  \A w \in Worker : (outcome[w] = "none") <=> (pc[w] \in {"idle", "prune", "charge"})

LEMMA VerdictNext == TypeOK /\ VerdictKnown /\ [Next]_vars => VerdictKnown'
<1> SUFFICES ASSUME TypeOK, VerdictKnown, [Next]_vars PROVE VerdictKnown'
  OBVIOUS
<1>1. ASSUME NEW w \in Worker, PruneShard(w) PROVE VerdictKnown'
  BY <1>1, WalkType DEF PruneShard, VerdictKnown, Steps
<1>2. ASSUME NEW w \in Worker, CountShard(w) PROVE VerdictKnown'
  BY <1>2, WalkType DEF CountShard, VerdictKnown, Steps
<1>3. ASSUME NEW w \in Worker, MeasureShard(w) PROVE VerdictKnown'
  BY <1>3, WalkType DEF MeasureShard, VerdictKnown, Steps
<1>4. ASSUME NEW w \in Worker, ScanShard(w) PROVE VerdictKnown'
  <2>1. PICK pick : Walk(w, AfterWalk(w, pick))
    BY <1>4 DEF ScanShard
  <2>2. AfterWalk(w, pick) \in Steps \ {"idle", "prune", "charge"}
    BY DEF AfterWalk, Steps
  <2> QED
    BY <1>4, <2>1, <2>2, WalkType DEF ScanShard, VerdictKnown
<1>5. ASSUME NEW w \in Worker, Charge(w) PROVE VerdictKnown'
  <2>1. outcome'[w] # "none" /\ \A v \in Worker : v # w => outcome'[v] = outcome[v]
    BY <1>5 DEF Charge, TypeOK
  <2> QED
    BY <1>5, <2>1 DEF Charge, VerdictKnown, TypeOK
<1>6. ASSUME NEW w \in Worker, Begin(w) \/ Evict(w) \/ Publish(w) PROVE VerdictKnown'
  BY <1>6 DEF Begin, Evict, Publish, VerdictKnown, TypeOK, call
<1>7. CASE UNCHANGED <<pc, outcome>>
  BY <1>7 DEF VerdictKnown
<1> QED
  BY <1>1, <1>2, <1>3, <1>4, <1>5, <1>6, <1>7
     DEF Next, Proceed, Tick, SetBack, vars, call

LEMMA PastNext ==
  ASSUME MaxSetback = 0
  PROVE  TypeOK /\ Past /\ [Next]_vars => Past'
<1> SUFFICES ASSUME TypeOK, Past, [Next]_vars PROVE Past'
  OBVIOUS
<1>0. clock \in Int /\ (\A w \in Worker : now[w] \in Int)
  BY BoundsAssumption DEF TypeOK, Time
<1>1. ASSUME NEW w \in Worker, Charge(w) PROVE Past'
  <2>1. /\ Charged(w) \in Entry
        /\ ip[w] \in IP
    BY <1>1, ChargeType DEF Charge
  <2>2. Current(w) \in Entry /\ Current(w).window_start <= clock
    BY <1>1, ChargeType DEF Charge, Current, Opened, Past
  <2>3. Charged(w).window_start = Current(w).window_start
    BY <2>2 DEF Charged, Entry
  <2> QED
    BY <1>1, <2>2, <2>3 DEF Charge, Past
<1>2. ASSUME NEW S \in SUBSET DOMAIN entries, entries' = Restrict(entries, S),
             UNCHANGED <<now, clock>>
      PROVE  Past'
  BY <1>2, TypeFacts DEF Past, Restrict
<1>3. ASSUME NEW w \in Worker, PruneShard(w) PROVE Past'
  BY <1>2, <1>3 DEF PruneShard
<1>4. ASSUME NEW w \in Worker, Evict(w) PROVE Past'
  BY <1>2, <1>4 DEF Evict, call
<1>5. ASSUME NEW w \in Worker, Begin(w) \/ Publish(w) PROVE Past'
  <2>1. clock >= 0
    BY BoundsAssumption DEF TypeOK, Time
  <2> QED
    BY <1>0, <1>5, <2>1 DEF Begin, Publish, Past, TypeOK
<1>6. CASE Tick
  <2>1. \A k \in DOMAIN entries : entries[k].window_start \in Int
    BY TypeFacts, BoundsAssumption DEF Entry, Time
  <2> QED
    BY <1>0, <1>6, <2>1 DEF Tick, Past, call
<1>7. CASE SetBack
  BY <1>0, <1>7, BoundsAssumption DEF SetBack, Time
<1>8. CASE UNCHANGED <<clock, now, entries>>
  BY <1>8 DEF Past
<1> QED
  BY <1>1, <1>3, <1>4, <1>5, <1>6, <1>7, <1>8
     DEF Next, Proceed, CountShard, ScanShard, MeasureShard, vars, call

LEMMA RetryNext ==
  ASSUME MaxSetback = 0
  PROVE  TypeOK /\ VerdictKnown /\ Past /\ RetryInReach /\ [Next]_vars => RetryInReach'
<1> SUFFICES ASSUME TypeOK, VerdictKnown, Past, RetryInReach, [Next]_vars,
                    NEW v \in Worker, outcome'[v] = "limited"
             PROVE  retry_in'[v] > 0 /\ now'[v] + retry_in'[v] <= clock' + Window
  BY DEF RetryInReach
<1> DEFINE Goal == retry_in'[v] > 0 /\ now'[v] + retry_in'[v] <= clock' + Window
<1>0. /\ clock \in Int /\ now[v] \in Int /\ retry_in[v] \in Int /\ Window \in Int
      /\ now[v] <= clock
  BY BoundsAssumption, SettingsAssumption DEF TypeOK, Time, Past
<1>1. ASSUME UNCHANGED clock,
             UNCHANGED <<outcome[v], retry_in[v], now[v]>>
      PROVE  Goal
  BY <1>1 DEF RetryInReach
<1>2. ASSUME NEW w \in Worker, Charge(w) PROVE Goal
  <2>1. CASE v = w /\ Spent(Current(w))
    <3> DEFINE e == Current(w)
    <3>1. /\ e \in Entry /\ ip[w] \in IP
      BY <1>2, ChargeType DEF Charge
    <3>2. ip[w] \in DOMAIN entries /\ e = entries[ip[w]] /\ ~Lapsed(w, e)
      BY <2>1, SettingsAssumption DEF Current, Opened, Spent
    <3>3. e.window_start \in Int /\ e.window_start <= clock
      BY <3>1, <3>2, BoundsAssumption DEF Past, Entry, Time
    <3>4. RetryAfter(w, e) = Window - (now[w] - e.window_start) /\ RetryAfter(w, e) > 0
      BY <1>0, <2>1, <3>2, <3>3 DEF Lapsed, RetryAfter
    <3>5. retry_in'[w] = RetryAfter(w, e) /\ UNCHANGED <<clock, now>>
      BY <1>2, <2>1 DEF Charge, TypeOK
    <3> QED
      BY <1>0, <2>1, <3>3, <3>4, <3>5
  <2>2. CASE v = w /\ ~Spent(Current(w))
    BY <1>2, <2>2 DEF Charge, TypeOK
  <2>3. CASE v # w
    BY <1>1, <1>2, <2>3 DEF Charge, TypeOK
  <2> QED
    BY <2>1, <2>2, <2>3
<1>3. ASSUME NEW w \in Worker, Begin(w) PROVE Goal
  <2>1. v # w
    BY <1>3 DEF Begin, VerdictKnown
  <2> QED
    BY <1>1, <1>3, <2>1 DEF Begin, TypeOK
<1>4. ASSUME NEW w \in Worker, Publish(w) PROVE Goal
  <2>1. v # w
    BY <1>4 DEF Publish, TypeOK
  <2> QED
    BY <1>1, <1>4, <2>1 DEF Publish, TypeOK
<1>5. CASE Tick
  BY <1>0, <1>5 DEF Tick, RetryInReach, call
<1>6. CASE SetBack
  BY <1>0, <1>6, BoundsAssumption DEF SetBack, Time
<1>7. CASE UNCHANGED <<clock, outcome, retry_in, now>>
  BY <1>7 DEF RetryInReach
<1> QED
  BY <1>2, <1>3, <1>4, <1>5, <1>6, <1>7
     DEF Next, Proceed, PruneShard, CountShard, ScanShard, Evict, MeasureShard, vars, call

\* On a clock that is never set back a refused client is told to wait for a
\* positive time, and no longer than a window from now (lines 102-108).
THEOREM RetryAlwaysInReach ==
  ASSUME MaxSetback = 0
  PROVE  Spec => []RetryInReach
<1> DEFINE Inv == TypeOK /\ VerdictKnown /\ Past /\ RetryInReach
<1>1. Init => Inv
  <2> SUFFICES ASSUME Init PROVE VerdictKnown /\ Past /\ RetryInReach
    BY TypeInit
  <2> QED
    BY DEF Init, VerdictKnown, Past, RetryInReach
<1>2. Inv /\ [Next]_vars => Inv'
  BY TypeNext, VerdictNext, PastNext, RetryNext
<1>3. Inv => RetryInReach
  OBVIOUS
<1> QED
  BY <1>1, <1>2, <1>3, PTL DEF Spec

-----------------------------------------------------------------------------
(* The limiter implements WindowQuota.                                     *)

\* The addresses of the shards a walk has passed when it reaches shard s.
Passed(s) == {k \in IP : ShardOf[k] < s}

\* No walk counts an address twice, whatever moves between its shards, and a call
\* that looks for a victim runs in a limiter with more clients than entries.
TallyInv ==
  \A w \in Worker :
    /\ pc[w] \in {"idle", "prune", "charge", "scan", "rescan", "evict"} => tally[w] = 0
    /\ pc[w] = "capacity" => tally[w] <= Cardinality(Passed(cursor[w]))
    /\ pc[w] \in {"scan", "rescan", "evict"} => Cardinality(IP) > Capacity

LEMMA PassedFinite ==
  ASSUME NEW s
  PROVE  /\ IsFiniteSet(Passed(s))
         /\ Cardinality(Passed(s)) \in Nat
         /\ Cardinality(Passed(s)) <= Cardinality(IP)
         /\ Cardinality(IP) \in Nat
<1>1. Passed(s) \subseteq IP
  BY DEF Passed
<1> QED
  BY <1>1, ClientsFinite, FS_Subset, FS_CardinalityType

\* One more shard counted: its entries are addresses no shard before it has.
LEMMA PassedNext ==
  ASSUME TypeOK, NEW s \in Shard
  PROVE  Cardinality(Passed(s)) + Cardinality(OnShard(s)) <= Cardinality(Passed(s + 1))
<1>1. Passed(s) \cup OnShard(s) \subseteq Passed(s + 1)
  BY ShardsAssumption DEF Passed, OnShard, TypeOK, Shard
<1>2. Passed(s) \cap OnShard(s) = {}
  BY ShardsAssumption DEF Passed, OnShard, TypeOK, Shard
<1>3. Cardinality(Passed(s) \cup OnShard(s))
        = Cardinality(Passed(s)) + Cardinality(OnShard(s))
  <2>1. Cardinality(Passed(s) \cup OnShard(s))
          = Cardinality(Passed(s)) + Cardinality(OnShard(s))
              - Cardinality(Passed(s) \cap OnShard(s))
    BY PassedFinite, ShardFinite, FS_Union
  <2>2. Cardinality(Passed(s) \cap OnShard(s)) = 0
    BY <1>2, FS_EmptySet
  <2> QED
    BY <2>1, <2>2, PassedFinite, ShardFinite
<1>4. Cardinality(Passed(s) \cup OnShard(s)) <= Cardinality(Passed(s + 1))
  BY <1>1, PassedFinite, FS_Subset
<1> QED
  BY <1>3, <1>4

LEMMA TallyNext == TypeOK /\ TallyInv /\ [Next]_vars => TallyInv'
<1> SUFFICES ASSUME TypeOK, TallyInv, [Next]_vars PROVE TallyInv'
  OBVIOUS
<1>1. ASSUME NEW w \in Worker, CountShard(w) PROVE TallyInv'
  <2> DEFINE total == tally[w] + Cardinality(OnShard(cursor[w]))
             last  == cursor[w] = ShardCount - 1
             next  == IF OverCapacity(total) THEN "scan" ELSE "measure"
  <2>1. /\ cursor[w] \in Shard /\ tally[w] \in Nat /\ total \in Nat
        /\ Cardinality(Passed(cursor[w])) \in Nat
        /\ Cardinality(Passed(cursor[w] + 1)) \in Nat
        /\ Cardinality(Passed(cursor[w] + 1)) <= Cardinality(IP)
        /\ Cardinality(IP) \in Nat
        /\ Capacity \in Nat
    BY ShardFinite, PassedFinite, TypeFacts, SettingsAssumption DEF Capacity
  <2>2. total <= Cardinality(Passed(cursor[w] + 1))
    BY <1>1, <2>1, PassedNext, ShardFinite DEF CountShard, TallyInv
  <2>3. /\ tally' = [tally EXCEPT ![w] = IF last THEN 0 ELSE total]
        /\ Walk(w, next)
        /\ pc[w] = "capacity"
    BY <1>1 DEF CountShard
  <2>4. \A v \in Worker : v # w => /\ pc'[v] = pc[v]
                                   /\ cursor'[v] = cursor[v]
                                   /\ tally'[v] = tally[v]
    BY <2>3, WalkType DEF Steps, TypeOK
  <2>5. CASE last
    <3>1. pc'[w] = next /\ tally'[w] = 0
      BY <2>3, <2>5 DEF Walk, TypeOK
    <3>2. next = "scan" => Cardinality(IP) > Capacity
      BY <2>1, <2>2 DEF OverCapacity
    <3> QED
      BY <2>4, <3>1, <3>2 DEF TallyInv
  <2>6. CASE ~last
    <3>1. pc'[w] = "capacity" /\ tally'[w] = total /\ cursor'[w] = cursor[w] + 1
      BY <2>3, <2>6 DEF Walk, TypeOK
    <3> QED
      BY <2>2, <2>4, <3>1 DEF TallyInv
  <2> QED
    BY <2>5, <2>6
<1>2. ASSUME NEW w \in Worker, ScanShard(w) PROVE TallyInv'
  <2>1. PICK pick : Walk(w, AfterWalk(w, pick))
    BY <1>2 DEF ScanShard
  <2>2. AfterWalk(w, pick) \in {"rescan", "measure", "evict"}
    BY <1>2 DEF ScanShard, AfterWalk
  <2>3. /\ pc'[w] \in {pc[w], "rescan", "measure", "evict"}
        /\ \A v \in Worker : v # w => pc'[v] = pc[v] /\ cursor'[v] = cursor[v]
    BY <2>1, <2>2, WalkType DEF Steps
  <2> QED
    BY <1>2, <2>3 DEF ScanShard, TallyInv
<1>3. ASSUME NEW w \in Worker, Evict(w) \/ Charge(w) PROVE TallyInv'
  <2>1. /\ pc' = [pc EXCEPT ![w] = "capacity"]
        /\ UNCHANGED <<cursor, tally>>
        /\ tally[w] = 0
    BY <1>3 DEF Evict, Charge, TallyInv, call
  <2>2. Cardinality(Passed(cursor[w])) >= 0
    BY PassedFinite
  <2> QED
    BY <2>1, <2>2 DEF TypeOK, TallyInv
<1>4. ASSUME NEW w \in Worker, PruneShard(w) PROVE TallyInv'
  BY <1>4, WalkType DEF PruneShard, TallyInv, Steps
<1>5. ASSUME NEW w \in Worker, MeasureShard(w) PROVE TallyInv'
  BY <1>5, WalkType DEF MeasureShard, TallyInv, TypeOK, Steps
<1>6. ASSUME NEW w \in Worker, Begin(w) \/ Publish(w) PROVE TallyInv'
  BY <1>6 DEF Begin, Publish, TallyInv, TypeOK
<1>7. CASE UNCHANGED <<pc, cursor, tally>>
  BY <1>7 DEF TallyInv
<1> QED
  BY <1>1, <1>2, <1>3, <1>4, <1>5, <1>6, <1>7
     DEF Next, Proceed, Tick, SetBack, vars, call

QuotaInv == TypeOK /\ EntriesCharged /\ OwnEntryNotVictim /\ Past /\ TallyInv

\* The step that charges is the atomic verdict on the client's account.
LEMMA ChargeRefines ==
  ASSUME QuotaInv, NEW w \in Worker, Charge(w)
  PROVE  Quota!Grant(ip[w], now[w]) \/ Quota!Refuse(ip[w], now[w])
<1> USE DEF QuotaInv
<1> DEFINE k == ip[w]
           e == Current(w)
           running == k \in DOMAIN entries /\ ~Lapsed(w, entries[k])
<1>1. /\ k \in IP /\ e \in Entry /\ now[w] <= clock
      /\ now[w] \in Time /\ clock \in Time
  BY ChargeType DEF Charge, Past, TypeOK
<1>2. Quota!Running(k, now[w]) <=> running
  <2>1. CASE k \in DOMAIN entries
    <3>1. account[k] = [opened |-> entries[k].window_start, used |-> entries[k].count]
      BY <1>1, <2>1 DEF account
    <3>2. entries[k].count > 0
      BY <2>1 DEF EntriesCharged
    <3>3. now[w] - entries[k].window_start \in Int
      BY <1>1, <2>1, TypeFacts, BoundsAssumption DEF Entry, Time
    <3> QED
      BY <2>1, <3>1, <3>2, <3>3, SettingsAssumption DEF Quota!Running, Lapsed
  <2>2. CASE k \notin DOMAIN entries
    BY <1>1, <2>2 DEF Quota!Running, account
  <2> QED
    BY <2>1, <2>2
<1>3. /\ entries' = [j \in DOMAIN entries \cup {k} |->
                       IF j = k THEN Charged(w) ELSE entries[j]]
      /\ UNCHANGED clock
  BY DEF Charge
<1>4. account' = [account EXCEPT ![k] = [opened |-> Charged(w).window_start,
                                         used |-> Charged(w).count]]
  BY <1>1, <1>3 DEF account
<1>5. running => /\ e = entries[k]
                 /\ account[k] = [opened |-> e.window_start, used |-> e.count]
  BY <1>1 DEF Current, account
<1>6. ~running => e = [window_start |-> now[w], count |-> 0]
  BY DEF Current, Opened
<1>7. CASE Spent(e)
  <2>1. running /\ e.count = MaxRequests
    BY <1>1, <1>6, <1>7, SettingsAssumption DEF Spent, Entry
  <2>2. Charged(w) = e
    BY <1>7 DEF Charged
  <2>3. account' = account
    BY <1>4, <1>5, <2>1, <2>2 DEF account
  <2>4. UNCHANGED admitted /\ refused' = [refused EXCEPT ![k] = @ + 1]
    BY <1>7 DEF Charge
  <2> QED
    BY <1>1, <1>2, <1>3, <1>5, <2>1, <2>3, <2>4 DEF Quota!Refuse
<1>8. CASE ~Spent(e)
  <2>1. Charged(w) = [window_start |-> e.window_start, count |-> e.count + 1]
    BY <1>1, <1>8 DEF Charged, Entry
  <2>2. UNCHANGED refused /\ admitted' = [admitted EXCEPT ![k][clock] = @ + 1]
    BY <1>8 DEF Charge
  <2>3. CASE running
    <3>1. e.count < MaxRequests
      BY <1>1, <1>8, SettingsAssumption DEF Spent, Entry
    <3>2. /\ Charged(w).window_start = account[k].opened
          /\ Charged(w).count = account[k].used + 1
          /\ account[k] = [opened |-> e.window_start, used |-> e.count]
      BY <1>5, <2>1, <2>3
    <3>3. [account[k] EXCEPT !.used = @ + 1]
            = [opened |-> account[k].opened, used |-> account[k].used + 1]
      BY <3>2
    <3>4. account' = [account EXCEPT ![k].used = @ + 1]
      BY <1>4, <3>2, <3>3
    <3> QED
      BY <1>1, <1>2, <1>3, <1>5, <2>2, <2>3, <3>1, <3>4 DEF Quota!Grant
  <2>4. CASE ~running
    <3>1. Charged(w).window_start = now[w] /\ Charged(w).count = 1
      BY <1>6, <2>1, <2>4
    <3>2. account' = [account EXCEPT ![k] = [opened |-> now[w], used |-> 1]]
      BY <1>4, <3>1
    <3> QED
      BY <1>1, <1>2, <1>3, <2>2, <2>4, <3>2 DEF Quota!Grant
  <2> QED
    BY <2>3, <2>4
<1> QED
  BY <1>7, <1>8

\* Pruning closes accounts whose windows are over.
LEMMA PruneRefines ==
  ASSUME QuotaInv, NEW w \in Worker, PruneShard(w)
  PROVE  \E S \in SUBSET IP : Quota!Close(S)
<1> USE DEF QuotaInv
<1> DEFINE S == {k \in OnShard(cursor[w]) : Stale(w, k)}
<1>1. S \in SUBSET IP
  BY DEF OnShard, TypeOK
<1>2. ASSUME NEW k \in S PROVE Quota!Over(k)
  <2>1. /\ k \in DOMAIN entries /\ k \in IP
        /\ entries[k].window_start < now[w] - Window
    BY <1>1 DEF OnShard, Stale
  <2>2. /\ entries[k].window_start \in Int /\ now[w] \in Int /\ clock \in Int
        /\ now[w] <= clock
    BY <2>1, TypeFacts, BoundsAssumption DEF Entry, Time, Past, TypeOK
  <2>3. account[k].opened = entries[k].window_start
    BY <2>1 DEF account
  <2> QED
    BY <2>1, <2>2, <2>3, SettingsAssumption DEF Quota!Over
<1>3. /\ entries' = Restrict(entries, DOMAIN entries \ S)
      /\ UNCHANGED <<clock, admitted, refused>>
  BY DEF PruneShard, OnShard, ledger
<1>4. account' = [k \in IP |-> IF k \in S THEN Quota!Closed ELSE account[k]]
  BY <1>3, TypeFacts DEF account, Quota!Closed, OnShard
<1> QED
  BY <1>1, <1>2, <1>3, <1>4 DEF Quota!Close

\* Eviction forgets an account, in a limiter that cannot hold them all.
LEMMA EvictRefines ==
  ASSUME QuotaInv, NEW w \in Worker, Evict(w)
  PROVE  \E k \in IP : Quota!Forget(k)
<1> USE DEF QuotaInv
<1> DEFINE k == selected[w].key
<1>1. k \in IP
  BY TypeFacts DEF Evict, OwnEntryNotVictim, Candidate
<1>2. Cardinality(IP) > Capacity
  BY DEF Evict, TallyInv
<1>3. /\ entries' = Restrict(entries, DOMAIN entries \ {k})
      /\ UNCHANGED <<clock, admitted, refused>>
  BY DEF Evict, ledger
<1>4. account' = [account EXCEPT ![k] = Quota!Closed]
  <2> DEFINE Held(j, e) == IF j \in DOMAIN e
                             THEN [opened |-> e[j].window_start, used |-> e[j].count]
                             ELSE [opened |-> 0, used |-> 0]
  <2>1. /\ DOMAIN entries' = DOMAIN entries \ {k}
        /\ \A j \in DOMAIN entries \ {k} : entries'[j] = entries[j]
    BY <1>3, TypeFacts
  <2>2. account = [j \in IP |-> Held(j, entries)]
    BY DEF account
  <2>3. account' = [j \in IP |-> Held(j, entries')]
    BY DEF account
  <2>4. Held(k, entries') = Quota!Closed
    BY <2>1 DEF Quota!Closed
  <2>5. ASSUME NEW j \in IP, j # k PROVE Held(j, entries') = Held(j, entries)
    BY <2>1, <2>5
  <2> HIDE DEF Held, k
  <2> QED
    BY <1>1, <2>2, <2>3, <2>4, <2>5
<1> QED
  BY <1>1, <1>2, <1>3, <1>4 DEF Quota!Forget

LEMMA StepRefines ==
  ASSUME MaxSetback = 0
  PROVE  QuotaInv /\ [Next]_vars => [Quota!Next]_(Quota!vars)
<1> SUFFICES ASSUME QuotaInv, [Next]_vars PROVE Quota!Next \/ UNCHANGED Quota!vars
  OBVIOUS
<1>1. ASSUME NEW w \in Worker, Charge(w) PROVE Quota!Next
  BY <1>1, ChargeRefines, ChargeType DEF Quota!Next, QuotaInv, TypeOK, Charge
<1>2. ASSUME NEW w \in Worker, PruneShard(w) PROVE Quota!Next
  BY <1>2, PruneRefines DEF Quota!Next
<1>3. ASSUME NEW w \in Worker, Evict(w) PROVE Quota!Next
  BY <1>3, EvictRefines DEF Quota!Next
<1>4. CASE Tick
  BY <1>4, BoundsAssumption
     DEF Tick, Quota!Next, Quota!Pass, QuotaInv, TypeOK, Time, account, ledger
<1>5. CASE SetBack
  BY <1>5, BoundsAssumption DEF SetBack, QuotaInv, TypeOK, Time
<1>6. CASE UNCHANGED <<clock, entries, admitted, refused>>
  BY <1>6 DEF Quota!vars, account
<1> QED
  BY <1>1, <1>2, <1>3, <1>4, <1>5, <1>6
     DEF Next, Proceed, Begin, CountShard, ScanShard, MeasureShard, Publish, vars, ledger

\* The sharded limiter, with any number of calls between its locks, implements
\* the atomic accounts of WindowQuota on a clock that is never set back; if the
\* capacity is at least the number of clients, no running window is forgotten.
THEOREM LimiterImplementsQuota ==
  ASSUME MaxSetback = 0
  PROVE  Spec => ImplementsQuota
<1>1. Init => Quota!Init /\ QuotaInv
  <2> SUFFICES ASSUME Init PROVE Quota!Init /\ QuotaInv
    OBVIOUS
  <2>1. account = [k \in IP |-> Quota!Closed]
    BY DEF Init, account, Quota!Closed
  <2>2. EntriesCharged /\ OwnEntryNotVictim /\ Past /\ TallyInv
    BY DEF Init, EntriesCharged, OwnEntryNotVictim, Past, TallyInv
  <2> QED
    BY <2>1, <2>2, TypeInit DEF Init, Quota!Init, QuotaInv
<1>2. QuotaInv /\ [Next]_vars => QuotaInv'
  BY TypeNext, ChargedNext, VictimNext, PastNext, TallyNext DEF QuotaInv
<1>3. QuotaInv /\ [Next]_vars => [Quota!Next]_(Quota!vars)
  BY StepRefines
<1> QED
  BY <1>1, <1>2, <1>3, PTL DEF Spec, ImplementsQuota, Quota!Spec

-----------------------------------------------------------------------------
(* With room for every client, nothing that counts is forgotten.           *)

UnexpiredStep ==
  \A k \in DOMAIN entries :
    clock - entries[k].window_start < Window
      => /\ k \in DOMAIN entries'
         /\ entries'[k].window_start = entries[k].window_start
         /\ entries'[k].count >= entries[k].count

LEMMA StepKeeps ==
  ASSUME MaxSetback = 0, Cardinality(IP) <= Capacity
  PROVE  QuotaInv /\ [Next]_vars => UnexpiredStep
<1> SUFFICES ASSUME QuotaInv, [Next]_vars, NEW k \in DOMAIN entries,
                    clock - entries[k].window_start < Window
             PROVE  /\ k \in DOMAIN entries'
                    /\ entries'[k].window_start = entries[k].window_start
                    /\ entries'[k].count >= entries[k].count
  BY DEF UnexpiredStep
<1> DEFINE Kept == /\ k \in DOMAIN entries'
                   /\ entries'[k].window_start = entries[k].window_start
                   /\ entries'[k].count >= entries[k].count
<1> USE DEF QuotaInv
<1>1. /\ k \in IP /\ entries[k] \in Entry
      /\ entries[k].window_start \in Int /\ entries[k].count \in Int
      /\ clock \in Int /\ Window \in Int
  <2>1. k \in IP /\ entries[k] \in Entry
    BY TypeFacts
  <2>2. entries[k].window_start \in Int /\ entries[k].count \in Int
    BY <2>1, BoundsAssumption, SettingsAssumption DEF Entry, Time
  <2>3. clock \in Int /\ Window \in Int
    BY BoundsAssumption, SettingsAssumption DEF Time, TypeOK
  <2> QED
    BY <2>1, <2>2, <2>3
\* No call has read a later clock than this one, so for none the window is over.
<1>2. ASSUME NEW w \in Worker
      PROVE  now[w] \in Int /\ now[w] - entries[k].window_start < Window
  <2>1. now[w] \in Int /\ now[w] <= clock
    BY TypeFacts, BoundsAssumption DEF Past, Time
  <2> QED
    BY <1>1, <2>1
<1>3. ASSUME NEW w \in Worker, Charge(w) PROVE Kept
  <2>1. entries' = [j \in DOMAIN entries \cup {ip[w]} |->
                      IF j = ip[w] THEN Charged(w) ELSE entries[j]]
    BY <1>3 DEF Charge
  <2>2. CASE k = ip[w]
    <3>1. Current(w) = entries[k]
      BY <1>1, <1>2, <2>2 DEF Current, Lapsed
    <3>2. /\ Charged(w).window_start = entries[k].window_start
          /\ Charged(w).count \in {entries[k].count, entries[k].count + 1}
      BY <1>1, <3>1 DEF Charged, Entry
    <3>3. entries'[k] = Charged(w) /\ k \in DOMAIN entries'
      BY <2>1, <2>2
    <3> QED
      BY <1>1, <3>2, <3>3
  <2>3. CASE k # ip[w]
    BY <1>1, <2>1, <2>3
  <2> QED
    BY <2>2, <2>3
<1>4. ASSUME NEW w \in Worker, PruneShard(w) PROVE Kept
  <2>1. ~Stale(w, k)
    BY <1>1, <1>2 DEF Stale
  <2>2. k \in {j \in DOMAIN entries : j \in OnShard(cursor[w]) => ~Stale(w, j)}
    BY <2>1
  <2> QED
    BY <1>1, <1>4, <2>2 DEF PruneShard, Restrict
<1>5. ASSUME NEW w \in Worker, Evict(w) PROVE FALSE
  <2>1. Cardinality(IP) > Capacity /\ Cardinality(IP) \in Nat /\ Capacity \in Nat
    BY <1>5, PassedFinite, SettingsAssumption DEF Evict, TallyInv, Capacity
  <2> QED
    BY <2>1
<1>6. CASE UNCHANGED entries
  BY <1>1, <1>6
<1> QED
  BY <1>3, <1>4, <1>5, <1>6
     DEF Next, Proceed, Begin, CountShard, ScanShard, MeasureShard, Publish,
         Tick, SetBack, vars

LEMMA QuotaInvariant ==
  ASSUME MaxSetback = 0
  PROVE  /\ Init => QuotaInv
         /\ QuotaInv /\ [Next]_vars => QuotaInv'
<1>1. Init => QuotaInv
  BY TypeInit DEF Init, EntriesCharged, OwnEntryNotVictim, Past, TallyInv, QuotaInv
<1> QED
  BY <1>1, TypeNext, ChargedNext, VictimNext, PastNext, TallyNext DEF QuotaInv

\* In a map with room for every client no charge is forgotten before its window
\* has passed, whoever prunes or resets with a clock read long ago, on a clock
\* that is never set back (lines 97-100, 114 and 119-122).
THEOREM UnexpiredAlwaysKept ==
  ASSUME MaxSetback = 0, Cardinality(IP) <= Capacity
  PROVE  Spec => UnexpiredKept
<1>1. Init => QuotaInv
  BY QuotaInvariant
<1>2. QuotaInv /\ [Next]_vars => QuotaInv'
  BY QuotaInvariant
<1>3. QuotaInv /\ [Next]_vars => UnexpiredStep
  BY StepKeeps
<1> QED
  BY <1>1, <1>2, <1>3, PTL DEF Spec, UnexpiredKept, UnexpiredStep

-----------------------------------------------------------------------------
(* Induction, stated on sets instead of predicates: the sums that the     *)
(* ledger is read with are recursive functions.                            *)

\* A set of naturals closed under successor has them all: a least one missing
\* would have a predecessor in it.
LEMMA EveryNatural ==
  ASSUME NEW P \in SUBSET Nat, 0 \in P, \A n \in P : n + 1 \in P
  PROVE  \A n \in Nat : n \in P
<1> SUFFICES ASSUME Nat \ P # {} PROVE FALSE
  OBVIOUS
<1> DEFINE R == {p \in Nat \X Nat : p[1] < p[2]}
           rest == Nat \ P
<1>1. IsWellFoundedOn(R, Nat)
  <2>1. OpToRel(<, Nat) = R
    BY Zenon DEF OpToRel
  <2> QED
    BY NatLessThanWellFounded, <2>1, Zenon
<1>2. \A x, y \in Nat : <<y, x>> \in R <=> y < x
  OBVIOUS
<1>3. rest \in SUBSET Nat /\ rest # {}
  OBVIOUS
<1> HIDE DEF R, rest
<1>4. PICK x \in rest : \A y \in rest : ~(<<y, x>> \in R)
  BY <1>1, <1>3, WFMin
<1>5. x \in Nat /\ \A y \in rest : ~(y < x)
  BY <1>2, <1>3, <1>4
<1>6. x # 0
  BY <1>4 DEF rest
<1>7. x - 1 \in Nat /\ x - 1 < x
  BY <1>5, <1>6
<1>8. x - 1 \in P
  BY <1>5, <1>7 DEF rest
<1>9. (x - 1) + 1 \in P /\ (x - 1) + 1 = x
  BY <1>5, <1>8
<1> QED
  BY <1>4, <1>9 DEF rest

\* The member of s that a sum over s takes first.
First(s) == CHOOSE x \in s : TRUE

\* A property of the empty set that adding a member keeps is one of every subset.
LEMMA EverySubset ==
  ASSUME NEW S, IsFiniteSet(S), NEW P, {} \in P,
         \A s \in SUBSET S : s # {} /\ s \ {First(s)} \in P => s \in P
  PROVE  \A s \in SUBSET S : s \in P
<1> DEFINE N == {n \in Nat : \A s \in SUBSET S : Cardinality(s) = n => s \in P}
<1>1. \A s \in SUBSET S : IsFiniteSet(s) /\ Cardinality(s) \in Nat
  BY FS_Subset, FS_CardinalityType
<1>2. 0 \in N
  BY <1>1, FS_EmptySet
<1>3. ASSUME NEW n \in N PROVE n + 1 \in N
  <2> SUFFICES ASSUME NEW s \in SUBSET S, Cardinality(s) = n + 1 PROVE s \in P
    OBVIOUS
  <2>1. Cardinality(s) # 0 /\ Cardinality(s) - 1 = n
    OBVIOUS
  <2>2. s # {}
    BY <2>1, FS_EmptySet
  <2>3. First(s) \in s
    BY <2>2 DEF First
  <2>4. Cardinality(s \ {First(s)}) = n
    BY <1>1, <2>1, <2>3, FS_RemoveElement
  <2>5. s \ {First(s)} \in P
    BY <1>3, <2>4
  <2> QED
    BY <2>2, <2>5
<1>4. N \in SUBSET Nat
  OBVIOUS
<1> HIDE DEF N
<1>5. \A n \in Nat : n \in N
  BY <1>2, <1>3, <1>4, EveryNatural
<1> QED
  BY <1>1, <1>5 DEF N

-----------------------------------------------------------------------------
(* Sums over finite sets.                                                  *)

\* The sum of f over S, as AdmittedIn takes it, and the recursive function whose
\* values are the sums over the subsets of S.
Total(f, S) == MapThenSumSet(LAMBDA t : f[t], S)

Sums(f, S, g) ==
  g = [s \in SUBSET S |-> IF s = {} THEN 0 ELSE f[First(s)] + g[s \ {First(s)}]]

LEMMA TotalChosen ==
  ASSUME NEW f, NEW S
  PROVE  Total(f, S) = (CHOOSE g : Sums(f, S, g))[S]
BY DEF Total, Sums, First, MapThenSumSet, MapThenFoldSet

LEMMA FirstOf ==
  ASSUME NEW s, s # {}
  PROVE  First(s) \in s
BY DEF First

\* There is such a function: the sets of n members settle those of n + 1.
LEMMA SumsExist ==
  ASSUME NEW f, NEW S, IsFiniteSet(S)
  PROVE  \E g : Sums(f, S, g)
<1> DEFINE Step(g) == [s \in SUBSET S |->
                         IF s = {} THEN 0 ELSE f[First(s)] + g[s \ {First(s)}]]
           Upto(g, n) == \A s \in SUBSET S : Cardinality(s) <= n => g[s] = Step(g)[s]
           N == {n \in Nat : \E g : Upto(g, n)}
<1>1. \A s \in SUBSET S : IsFiniteSet(s) /\ Cardinality(s) \in Nat
  BY FS_Subset, FS_CardinalityType
<1>2. \A s \in SUBSET S : \A x \in s : Cardinality(s \ {x}) = Cardinality(s) - 1
  BY <1>1, FS_RemoveElement
<1>3. 0 \in N
  <2> DEFINE g == [s \in SUBSET S |-> 0]
  <2>1. ASSUME NEW s \in SUBSET S, Cardinality(s) <= 0 PROVE g[s] = Step(g)[s]
    <3>1. s = {}
      BY <1>1, <2>1, FS_EmptySet
    <3> QED
      BY <3>1
  <2> QED
    BY <2>1
<1>4. ASSUME NEW n \in N PROVE n + 1 \in N
  <2>1. PICK g : Upto(g, n)
    BY <1>4
  <2> DEFINE h == Step(g)
  <2>2. ASSUME NEW s \in SUBSET S, Cardinality(s) <= n + 1 PROVE h[s] = Step(h)[s]
    <3>1. CASE s = {}
      BY <3>1
    <3>2. CASE s # {}
      <4>1. First(s) \in s
        BY <3>2, FirstOf
      <4>2. Cardinality(s \ {First(s)}) <= n /\ s \ {First(s)} \in SUBSET S
        BY <1>1, <1>2, <1>4, <2>2, <4>1
      <4>3. g[s \ {First(s)}] = h[s \ {First(s)}]
        BY <2>1, <4>2
      <4> HIDE DEF h
      <4>4. h[s] = f[First(s)] + g[s \ {First(s)}]
        BY <3>2 DEF h
      <4>5. Step(h)[s] = f[First(s)] + h[s \ {First(s)}]
        BY <3>2
      <4> QED
        BY <4>3, <4>4, <4>5
    <3> QED
      BY <3>1, <3>2
  <2>3. Upto(h, n + 1)
    BY <2>2
  <2> HIDE DEF h, Upto
  <2> QED
    BY <2>3
<1>5. \A n \in Nat : n \in N
  <2> HIDE DEF Upto
  <2>1. N \in SUBSET Nat
    OBVIOUS
  <2> HIDE DEF N
  <2> QED
    BY <1>3, <1>4, <2>1, EveryNatural
<1>6. Cardinality(S) \in Nat
  BY <1>1
<1>7. PICK g : Upto(g, Cardinality(S))
  BY <1>5, <1>6
<1>8. \A s \in SUBSET S : g[s] = Step(g)[s]
  <2> TAKE s \in SUBSET S
  <2>1. Cardinality(s) <= Cardinality(S)
    BY FS_Subset
  <2> QED
    BY <1>7, <2>1
<1> DEFINE h == Step(g)
<1>9. \A s \in SUBSET S : s # {} => s \ {First(s)} \in SUBSET S
  OBVIOUS
<1>10. h = Step(h)
  <2>1. ASSUME NEW s \in SUBSET S PROVE h[s] = Step(h)[s]
    BY <1>8, <1>9
  <2> QED
    BY <2>1
<1> QED
  BY <1>10 DEF Sums

\* Whatever larger set the sums are taken over, those of its subsets are the same.
LEMMA SumsAgree ==
  ASSUME NEW f, NEW S, IsFiniteSet(S), NEW T \in SUBSET S,
         NEW g, Sums(f, S, g), NEW h, Sums(f, T, h)
  PROVE  \A s \in SUBSET T : g[s] = h[s]
<1> DEFINE P == {s \in SUBSET T : g[s] = h[s]}
<1>1. \A s \in SUBSET T :
        /\ g[s] = IF s = {} THEN 0 ELSE f[First(s)] + g[s \ {First(s)}]
        /\ h[s] = IF s = {} THEN 0 ELSE f[First(s)] + h[s \ {First(s)}]
  <2>1. \A s \in SUBSET S : g[s] = IF s = {} THEN 0 ELSE f[First(s)] + g[s \ {First(s)}]
    BY DEF Sums
  <2>2. \A s \in SUBSET T : h[s] = IF s = {} THEN 0 ELSE f[First(s)] + h[s \ {First(s)}]
    BY DEF Sums
  <2> QED
    BY <2>1, <2>2
<1>2. {} \in P
  BY <1>1
<1>3. \A s \in SUBSET T : s # {} /\ s \ {First(s)} \in P => s \in P
  BY <1>1
<1>4. IsFiniteSet(T)
  BY FS_Subset
<1> HIDE DEF P
<1>5. \A s \in SUBSET T : s \in P
  BY <1>2, <1>3, <1>4, EverySubset
<1> QED
  BY <1>5 DEF P

\* The sums of all subsets at once.
LEMMA SumsOf ==
  ASSUME NEW f, NEW S, IsFiniteSet(S)
  PROVE  /\ Total(f, {}) = 0
         /\ \A s \in SUBSET S : s # {} =>
              Total(f, s) = f[First(s)] + Total(f, s \ {First(s)})
<1> DEFINE G(s) == CHOOSE g : Sums(f, s, g)
<1>1. \A s \in SUBSET S : IsFiniteSet(s)
  BY FS_Subset
<1>2. \A s \in SUBSET S : Sums(f, s, G(s)) /\ Total(f, s) = G(s)[s]
  BY <1>1, SumsExist, TotalChosen
<1>3. ASSUME NEW s \in SUBSET S, s # {}
      PROVE  Total(f, s) = f[First(s)] + Total(f, s \ {First(s)})
  <2> DEFINE g == G(s)
  <2>0. Sums(f, s, g)
    BY <1>2
  <2> HIDE DEF g
  <2>1. g[s] = f[First(s)] + g[s \ {First(s)}]
    <3>1. s \in SUBSET s
      OBVIOUS
    <3> QED
      BY <1>3, <2>0, <3>1 DEF Sums
  <2>2. s \ {First(s)} \in SUBSET s
    OBVIOUS
  <2>3. g[s \ {First(s)}] = G(s \ {First(s)})[s \ {First(s)}]
    BY <1>1, <1>2, <2>0, <2>2, SumsAgree
  <2> QED
    BY <1>2, <2>1, <2>3 DEF g
<1>4. Total(f, {}) = 0
  BY <1>2 DEF Sums
<1> QED
  BY <1>3, <1>4

LEMMA TotalNat ==
  ASSUME NEW f, NEW S, IsFiniteSet(S), \A x \in S : f[x] \in Nat
  PROVE  \A s \in SUBSET S : Total(f, s) \in Nat
<1> DEFINE P == {s \in SUBSET S : Total(f, s) \in Nat}
<1>1. {} \in P
  <2>1. Total(f, {}) = 0
    BY SumsOf
  <2> QED
    BY <2>1
<1>2. \A s \in SUBSET S : s # {} /\ s \ {First(s)} \in P => s \in P
  BY SumsOf, FirstOf
<1> HIDE DEF P
<1>3. \A s \in SUBSET S : s \in P
  BY <1>1, <1>2, EverySubset
<1> QED
  BY <1>3 DEF P

\* Any member can be taken out of a sum first.
LEMMA TotalTakes ==
  ASSUME NEW f, NEW S, IsFiniteSet(S), \A x \in S : f[x] \in Nat, NEW c \in S
  PROVE  Total(f, S) = f[c] + Total(f, S \ {c})
<1> DEFINE N == {n \in Nat : \A s \in SUBSET S : Cardinality(s) = n =>
                     \A x \in s : Total(f, s) = f[x] + Total(f, s \ {x})}
<1>1. \A s \in SUBSET S : IsFiniteSet(s) /\ Cardinality(s) \in Nat
  BY FS_Subset, FS_CardinalityType
<1>2. 0 \in N
  BY <1>1, FS_EmptySet
<1>3. ASSUME NEW n \in N PROVE n + 1 \in N
  <2> SUFFICES ASSUME NEW s \in SUBSET S, Cardinality(s) = n + 1, NEW x \in s
               PROVE  Total(f, s) = f[x] + Total(f, s \ {x})
    OBVIOUS
  <2> DEFINE y == First(s)
  <2>1. y \in s /\ Total(f, s) = f[y] + Total(f, s \ {y})
    BY FirstOf, SumsOf
  <2>2. /\ Cardinality(s \ {x}) = n /\ Cardinality(s \ {y}) = n
        /\ f[x] \in Nat /\ f[y] \in Nat
    <3>1. \A z \in s : Cardinality(s \ {z}) = Cardinality(s) - 1
      BY <1>1, FS_RemoveElement
    <3> QED
      BY <2>1, <3>1
  <2> HIDE DEF y
  <2>3. CASE x = y
    BY <2>1, <2>3
  <2>4. CASE x # y
    <3>1. Total(f, s \ {y}) = f[x] + Total(f, (s \ {y}) \ {x})
      BY <1>3, <2>2, <2>4
    <3>2. Total(f, s \ {x}) = f[y] + Total(f, (s \ {x}) \ {y})
      BY <1>3, <2>1, <2>2, <2>4
    <3>3. (s \ {y}) \ {x} = (s \ {x}) \ {y}
      OBVIOUS
    <3>4. Total(f, (s \ {x}) \ {y}) \in Nat
      BY TotalNat
    <3> QED
      BY <2>1, <2>2, <3>1, <3>2, <3>3, <3>4
  <2> QED
    BY <2>3, <2>4
<1>4. N \in SUBSET Nat
  OBVIOUS
<1> HIDE DEF N
<1>5. \A n \in Nat : n \in N
  BY <1>2, <1>3, <1>4, EveryNatural
<1> QED
  BY <1>1, <1>5 DEF N

\* Sums of functions that agree, of nothing but zeros, over fewer instants, and
\* of a function raised at one of them.
LEMMA TotalSame ==
  ASSUME NEW f, NEW h, NEW S, IsFiniteSet(S), \A x \in S : f[x] = h[x]
  PROVE  Total(f, S) = Total(h, S)
<1> DEFINE P == {s \in SUBSET S : Total(f, s) = Total(h, s)}
<1>1. {} \in P
  BY SumsOf
<1>2. \A s \in SUBSET S : s # {} /\ s \ {First(s)} \in P => s \in P
  BY SumsOf, FirstOf
<1> HIDE DEF P
<1>3. \A s \in SUBSET S : s \in P
  BY <1>1, <1>2, EverySubset
<1> QED
  BY <1>3 DEF P

LEMMA TotalZero ==
  ASSUME NEW f, NEW S, IsFiniteSet(S), \A x \in S : f[x] = 0
  PROVE  Total(f, S) = 0
<1> DEFINE P == {s \in SUBSET S : Total(f, s) = 0}
<1>1. {} \in P
  BY SumsOf
<1>2. \A s \in SUBSET S : s # {} /\ s \ {First(s)} \in P => s \in P
  BY SumsOf, FirstOf
<1> HIDE DEF P
<1>3. \A s \in SUBSET S : s \in P
  BY <1>1, <1>2, EverySubset
<1> QED
  BY <1>3 DEF P

LEMMA TotalMonotone ==
  ASSUME NEW f, NEW S, IsFiniteSet(S), \A x \in S : f[x] \in Nat, NEW T \in SUBSET S
  PROVE  Total(f, T) <= Total(f, S)
<1> DEFINE P == {s \in SUBSET S : \A t \in SUBSET s : Total(f, t) <= Total(f, s)}
<1>1. {} \in P
  <2>1. Total(f, {}) = 0
    BY SumsOf
  <2>2. \A t \in SUBSET {} : Total(f, t) = 0
    BY <2>1
  <2> QED
    BY <2>1, <2>2
<1>2. ASSUME NEW s \in SUBSET S, s # {}, s \ {First(s)} \in P, NEW t \in SUBSET s
      PROVE  Total(f, t) <= Total(f, s)
  <2> DEFINE y == First(s)
  <2>1. y \in s /\ Total(f, s) = f[y] + Total(f, s \ {y})
    BY <1>2, FirstOf, SumsOf
  <2>2. /\ f[y] \in Nat /\ Total(f, t) \in Nat /\ Total(f, t \ {y}) \in Nat
        /\ Total(f, s \ {y}) \in Nat
    BY <2>1, TotalNat
  <2>3. Total(f, t \ {y}) <= Total(f, s \ {y})
    BY <1>2
  <2> HIDE DEF y
  <2>4. CASE y \in t
    <3>1. IsFiniteSet(t) /\ \A x \in t : f[x] \in Nat
      BY FS_Subset
    <3>2. Total(f, t) = f[y] + Total(f, t \ {y})
      BY <2>4, <3>1, TotalTakes
    <3> QED
      BY <2>1, <2>2, <2>3, <3>2
  <2>5. CASE y \notin t
    <3>1. t \ {y} = t
      BY <2>5
    <3>2. Total(f, t \ {y}) = Total(f, t)
      BY <3>1
    <3> QED
      BY <2>1, <2>2, <2>3, <3>2
  <2> QED
    BY <2>4, <2>5
<1>3. \A s \in SUBSET S : s # {} /\ s \ {First(s)} \in P => s \in P
  BY <1>2
<1> HIDE DEF P
<1>4. \A s \in SUBSET S : s \in P
  BY <1>1, <1>3, EverySubset
<1> QED
  BY <1>4 DEF P

LEMMA TotalRaised ==
  ASSUME NEW f, NEW h, NEW S, IsFiniteSet(S), \A x \in S : f[x] \in Nat, NEW c \in S,
         h[c] = f[c] + 1, \A x \in S \ {c} : h[x] = f[x]
  PROVE  Total(h, S) = Total(f, S) + 1
<1>1. IsFiniteSet(S \ {c}) /\ \A x \in S : h[x] \in Nat
  BY FS_Subset
<1>2. Total(h, S \ {c}) = Total(f, S \ {c}) /\ Total(f, S \ {c}) \in Nat
  BY <1>1, TotalSame, TotalNat
<1>3. Total(h, S) = h[c] + Total(h, S \ {c})
  BY <1>1, TotalTakes
<1>4. Total(f, S) = f[c] + Total(f, S \ {c})
  BY TotalTakes
<1> QED
  BY <1>2, <1>3, <1>4

-----------------------------------------------------------------------------
(* What the ledger says of an interval.                                    *)

\* The instants from a to b, both included.
Span(a, b) == {t \in Time : a <= t /\ t <= b}

LEMMA AdmittedSum == \A k, a, b : AdmittedIn(k, a, b) = Total(admitted[k], Span(a, b))
  BY DEF AdmittedIn, Total, Span

LEMMA SpanFinite ==
  ASSUME NEW a, NEW b
  PROVE  IsFiniteSet(Span(a, b))
<1>1. IsFiniteSet(Time)
  BY FS_Interval, BoundsAssumption DEF Time
<1> QED
  BY <1>1, FS_Subset DEF Span

LEMMA LedgerTotal ==
  ASSUME TypeOK, NEW k \in IP, NEW a, NEW b
  PROVE  /\ \A t \in Span(a, b) : admitted[k][t] \in Nat
         /\ Total(admitted[k], Span(a, b)) \in Nat
<1>1. \A t \in Span(a, b) : admitted[k][t] \in Nat
  BY DEF TypeOK, Span
<1> QED
  BY <1>1, SpanFinite, TotalNat

\* A charge admits one request at the present, or none.
LEMMA ChargeAdmits ==
  ASSUME TypeOK, NEW w \in Worker, Charge(w), NEW k \in IP, NEW a, NEW b
  PROVE  Total(admitted'[k], Span(a, b)) =
           IF k = ip[w] /\ ~Spent(Current(w)) /\ clock \in Span(a, b)
             THEN Total(admitted[k], Span(a, b)) + 1
             ELSE Total(admitted[k], Span(a, b))
<1>1. CASE Spent(Current(w))
  BY <1>1 DEF Charge
<1>2. CASE ~Spent(Current(w))
  <2>1. /\ admitted' = [admitted EXCEPT ![ip[w]][clock] = @ + 1]
        /\ admitted \in [IP -> [Time -> Nat]] /\ clock \in Time
    BY <1>2 DEF Charge, TypeOK
  <2>2. CASE k = ip[w] /\ clock \in Span(a, b)
    <3>1. /\ admitted'[k][clock] = admitted[k][clock] + 1
          /\ \A t \in Span(a, b) \ {clock} : admitted'[k][t] = admitted[k][t]
      BY <2>1, <2>2 DEF Span
    <3>2. Total(admitted'[k], Span(a, b)) = Total(admitted[k], Span(a, b)) + 1
      BY <2>2, <3>1, LedgerTotal, SpanFinite, TotalRaised
    <3> QED
      BY <1>2, <2>2, <3>2
  <2>3. CASE ~(k = ip[w] /\ clock \in Span(a, b))
    <3>1. \A t \in Span(a, b) : admitted'[k][t] = admitted[k][t]
      BY <2>1, <2>3 DEF Span
    <3>2. Total(admitted'[k], Span(a, b)) = Total(admitted[k], Span(a, b))
      BY <3>1, SpanFinite, TotalSame
    <3> QED
      BY <2>3, <3>2
  <2> QED
    BY <2>2, <2>3
<1> QED
  BY <1>1, <1>2

\* The entry a charge leaves: the running one with one request more, or a new one.
LEMMA ChargeEntry ==
  ASSUME TypeOK, NEW w \in Worker, Charge(w)
  PROVE  /\ ip[w] \in IP /\ ip[w] \in DOMAIN entries'
         /\ DOMAIN entries' = DOMAIN entries \cup {ip[w]}
         /\ \A k \in DOMAIN entries : k # ip[w] => entries'[k] = entries[k]
         /\ UNCHANGED <<clock, now>>
         /\ Spent(Current(w)) =>
              /\ ip[w] \in DOMAIN entries /\ entries'[ip[w]] = entries[ip[w]]
              /\ entries[ip[w]].count = MaxRequests
              /\ ~Lapsed(w, entries[ip[w]])
         /\ ~Spent(Current(w)) =>
              \/ /\ ip[w] \in DOMAIN entries /\ ~Lapsed(w, entries[ip[w]])
                 /\ entries'[ip[w]].window_start = entries[ip[w]].window_start
                 /\ entries'[ip[w]].count = entries[ip[w]].count + 1
              \/ /\ ip[w] \in DOMAIN entries => Lapsed(w, entries[ip[w]])
                 /\ entries'[ip[w]].window_start = now[w]
                 /\ entries'[ip[w]].count = 1
<1> DEFINE k == ip[w]
           e == Current(w)
<1>1. /\ k \in IP /\ e \in Entry /\ UNCHANGED <<clock, now>>
      /\ entries' = [j \in DOMAIN entries \cup {k} |->
                       IF j = k THEN Charged(w) ELSE entries[j]]
  BY ChargeType DEF Charge
<1>2. CASE Spent(e)
  <2>1. k \in DOMAIN entries /\ e = entries[k] /\ ~Lapsed(w, e)
    BY <1>2, SettingsAssumption DEF Current, Opened, Spent
  <2>2. Charged(w) = e
    BY <1>2 DEF Charged
  <2>3. e.count = MaxRequests
    BY <1>1, <1>2, SettingsAssumption DEF Spent, Entry
  <2> QED
    BY <1>1, <1>2, <2>1, <2>2, <2>3
<1>3. CASE ~Spent(e)
  <2>1. /\ Charged(w).window_start = e.window_start
        /\ Charged(w).count = e.count + 1
    BY <1>1, <1>3 DEF Charged, Entry
  <2>2. CASE k \in DOMAIN entries /\ ~Lapsed(w, entries[k])
    <3>1. e = entries[k]
      BY <2>2 DEF Current
    <3> QED
      BY <1>1, <1>3, <2>1, <2>2, <3>1
  <2>3. CASE ~(k \in DOMAIN entries /\ ~Lapsed(w, entries[k]))
    <3>1. e.window_start = now[w] /\ e.count = 0
      BY <2>3 DEF Current, Opened
    <3> QED
      BY <1>1, <1>3, <2>1, <2>3, <3>1
  <2> QED
    BY <2>2, <2>3
<1> QED
  BY <1>2, <1>3

-----------------------------------------------------------------------------
(* Refusals.                                                               *)

\* The count of an entry is backed by admissions since its window opened.
CountsBacked ==
  \A k \in DOMAIN entries :
    entries[k].count <= Total(admitted[k], Span(entries[k].window_start, clock))

LEMMA BackedNext ==
  ASSUME MaxSetback = 0
  PROVE  QuotaInv /\ CountsBacked /\ [Next]_vars => CountsBacked'
<1> SUFFICES ASSUME QuotaInv, CountsBacked, [Next]_vars, NEW k \in DOMAIN entries'
             PROVE  entries'[k].count <= Total(admitted'[k], Span(entries'[k].window_start, clock'))
  BY DEF CountsBacked
<1> DEFINE Goal == entries'[k].count <= Total(admitted'[k], Span(entries'[k].window_start, clock'))
<1> USE DEF QuotaInv
<1>0. clock \in Time /\ Time \subseteq Int /\ \A v \in Worker : now[v] \in Time /\ now[v] <= clock
  BY BoundsAssumption DEF Time, TypeOK, Past
<1>1. ASSUME k \in DOMAIN entries
      PROVE  /\ k \in IP /\ entries[k].count \in Nat /\ entries[k].window_start \in Time
             /\ entries[k].window_start <= clock
             /\ entries[k].count <= Total(admitted[k], Span(entries[k].window_start, clock))
  BY <1>1, TypeFacts, SettingsAssumption DEF Entry, Past, CountsBacked
<1>2. ASSUME k \in DOMAIN entries, entries'[k] = entries[k], UNCHANGED <<clock, admitted>>
      PROVE  Goal
  BY <1>1, <1>2
<1>3. ASSUME NEW w \in Worker, Charge(w) PROVE Goal
  <2> DEFINE s == entries'[k].window_start
             A == Total(admitted[k], Span(s, clock))
  <2>1. k \in IP /\ A \in Nat
    <3>1. k \in IP
      BY <1>3, ChargeEntry, TypeFacts
    <3> QED
      BY <3>1, LedgerTotal
  <2>2. Total(admitted'[k], Span(s, clock)) =
           IF k = ip[w] /\ ~Spent(Current(w)) /\ clock \in Span(s, clock) THEN A + 1 ELSE A
    BY <1>3, <2>1, ChargeAdmits
  <2>3. UNCHANGED clock
    BY <1>3, ChargeEntry
  <2> HIDE DEF A
  <2>4. CASE k # ip[w] \/ Spent(Current(w))
    <3>1. k \in DOMAIN entries /\ entries'[k] = entries[k]
      <4>1. CASE k # ip[w]
        <5>1. DOMAIN entries' = DOMAIN entries \cup {ip[w]}
          BY <1>3, ChargeEntry
        <5>2. k \in DOMAIN entries
          BY <4>1, <5>1
        <5> QED
          BY <1>3, <4>1, <5>2, ChargeEntry
      <4>2. CASE k = ip[w] /\ Spent(Current(w))
        BY <1>3, <4>2, ChargeEntry
      <4> QED
        BY <2>4, <4>1, <4>2
    <3> QED
      BY <1>1, <2>2, <2>3, <2>4, <3>1 DEF A
  <2>5. CASE k = ip[w] /\ ~Spent(Current(w))
    <3>1. CASE k \in DOMAIN entries /\ s = entries[k].window_start
               /\ entries'[k].count = entries[k].count + 1
      <4>1. clock \in Span(s, clock)
        BY <1>0, <1>1, <3>1 DEF Span
      <4>2. entries[k].count <= A
        BY <1>1, <3>1 DEF A
      <4> QED
        BY <1>1, <2>1, <2>2, <2>3, <2>5, <3>1, <4>1, <4>2
    <3>2. CASE s = now[w] /\ entries'[k].count = 1
      <4>1. clock \in Span(s, clock)
        BY <1>0, <3>2 DEF Span
      <4> QED
        BY <2>1, <2>2, <2>3, <2>5, <3>2, <4>1
    <3> QED
      BY <1>3, <2>5, <3>1, <3>2, ChargeEntry
  <2> QED
    BY <2>4, <2>5
<1>4. ASSUME NEW w \in Worker, PruneShard(w) PROVE Goal
  BY <1>2, <1>4, TypeFacts DEF PruneShard, ledger
<1>5. ASSUME NEW w \in Worker, Evict(w) PROVE Goal
  BY <1>2, <1>5, TypeFacts DEF Evict, ledger
<1>6. CASE Tick
  <2>1. /\ clock' = clock + 1 /\ UNCHANGED <<entries, admitted>>
    BY <1>6 DEF Tick, ledger
  <2> DEFINE s == entries[k].window_start
  <2>2. Span(s, clock) \subseteq Span(s, clock + 1)
    BY <1>0, BoundsAssumption DEF Span, Time
  <2>3. Total(admitted[k], Span(s, clock)) <= Total(admitted[k], Span(s, clock + 1))
    BY <1>1, <2>1, <2>2, LedgerTotal, SpanFinite, TotalMonotone
  <2>4. Total(admitted[k], Span(s, clock)) \in Nat /\ Total(admitted[k], Span(s, clock + 1)) \in Nat
    BY <1>1, <2>1, LedgerTotal
  <2> QED
    BY <1>1, <2>1, <2>3, <2>4
<1>7. CASE SetBack
  BY <1>7, BoundsAssumption DEF SetBack, TypeOK, Time
<1>8. CASE UNCHANGED <<clock, entries, admitted>>
  BY <1>2, <1>8
<1> QED
  BY <1>3, <1>4, <1>5, <1>6, <1>7, <1>8
     DEF Next, Proceed, Begin, CountShard, ScanShard, MeasureShard, Publish, vars, ledger

\* The step RefusalJustified asks for.
RefusalStep ==
  \A w \in Worker :
    outcome[w] = "none" /\ outcome'[w] = "limited"
      => AdmittedIn(ip[w], now[w] - Window + 1, clock) >= MaxRequests

\* A step that refuses is a charge on a spent window that is still running.
LEMMA RefusalStepHolds ==
  ASSUME MaxSetback = 0
  PROVE  QuotaInv /\ CountsBacked /\ [Next]_vars => RefusalStep
<1> SUFFICES ASSUME QuotaInv, CountsBacked, [Next]_vars, NEW w \in Worker,
                    outcome[w] = "none", outcome'[w] = "limited"
             PROVE  Total(admitted[ip[w]], Span(now[w] - Window + 1, clock)) >= MaxRequests
  BY AdmittedSum DEF RefusalStep
<1> USE DEF QuotaInv
<1>1. Charge(w) /\ Spent(Current(w))
  <2>1. ASSUME NEW v \in Worker, Charge(v) PROVE v = w /\ Spent(Current(w))
    BY <2>1 DEF Charge, TypeOK
  <2>2. ASSUME NEW v \in Worker, Publish(v) PROVE FALSE
    BY <2>2 DEF Publish, TypeOK
  <2> QED
    BY <2>1, <2>2
       DEF Next, Proceed, Begin, PruneShard, CountShard, ScanShard, Evict, MeasureShard,
           Tick, SetBack, vars, call
<1> DEFINE k == ip[w]
           s == entries[k].window_start
<1>2. /\ k \in DOMAIN entries /\ k \in IP /\ entries[k].count = MaxRequests
      /\ ~Lapsed(w, entries[k])
  BY <1>1, ChargeEntry
<1>3. s \in Int /\ now[w] \in Int /\ Window \in Int /\ Time \subseteq Int
  BY <1>2, TypeFacts, SettingsAssumption, BoundsAssumption DEF Entry, Time
<1>4. Span(s, clock) \subseteq Span(now[w] - Window + 1, clock)
  <2>1. now[w] - Window + 1 <= s
    BY <1>2, <1>3 DEF Lapsed
  <2> QED
    BY <1>3, <2>1, BoundsAssumption DEF Span, Time
<1>5. /\ Total(admitted[k], Span(s, clock)) <= Total(admitted[k], Span(now[w] - Window + 1, clock))
      /\ Total(admitted[k], Span(s, clock)) \in Nat
      /\ Total(admitted[k], Span(now[w] - Window + 1, clock)) \in Nat
  BY <1>2, <1>4, LedgerTotal, SpanFinite, TotalMonotone
<1> QED
  BY <1>2, <1>5, SettingsAssumption DEF CountsBacked

\* A client is refused only if its quota was admitted since less than a window
\* before the instant at which the refusing call read the clock, what others had
\* admitted while it stalled included, however many calls charge the client at
\* once, on a clock that is never set back (lines 97-108).
THEOREM RefusalAlwaysJustified ==
  ASSUME MaxSetback = 0
  PROVE  Spec => RefusalJustified
<1>1. Init => QuotaInv /\ CountsBacked
  BY QuotaInvariant DEF Init, CountsBacked
<1>2. QuotaInv /\ CountsBacked /\ [Next]_vars => QuotaInv' /\ CountsBacked'
  BY QuotaInvariant, BackedNext
<1>3. QuotaInv /\ CountsBacked /\ [Next]_vars => RefusalStep
  BY RefusalStepHolds
<1> QED
  BY <1>1, <1>2, <1>3, PTL DEF Spec, RefusalJustified, RefusalStep

-----------------------------------------------------------------------------
(* Bursts.                                                                 *)

\* The calls yet to charge that read the clock before instant a: each may still
\* open a window that began before a.
Ahead(a) == {w \in Worker : pc[w] \in {"prune", "charge"} /\ now[w] < a}

\* What is left of the quota of k in its window.
Left(k) == IF k \in DOMAIN entries THEN MaxRequests - entries[k].count ELSE 0

\* The window of k began at a or after it.
BegunBy(k, a) == k \in DOMAIN entries /\ entries[k].window_start >= a

\* Requests of k admitted in the stretch of a window's length from a, and those
\* that may be yet: what is left of the present window, and unless that is the
\* window that ends the stretch, this one and those of the calls ahead of it.
Stretch(k, a) == Total(admitted[k], Span(a, a + Window - 1))

Owed(k, a) ==
  Stretch(k, a) + Left(k)
    + IF BegunBy(k, a) THEN 0 ELSE MaxRequests * Cardinality(Ahead(a)) + MaxRequests

\* A stretch is charged against a budget: the bound of BurstBound.
Most == (1 + Cardinality(Worker)) * MaxRequests

\* The stretch from a is running.
Within(a) == a <= clock /\ clock <= a + Window - 1

\* A stretch that has seen a request keeps within its budget.
BurstInv ==
  \A k \in IP, a \in Time :
    /\ Stretch(k, a) <= Most
    /\ Within(a) /\ Stretch(k, a) > 0 => Owed(k, a) <= Most

\* Nothing is admitted in the future.
LedgerPast == \A k \in IP, t \in Time : t > clock => admitted[k][t] = 0

LEMMA LedgerPastNext ==
  ASSUME MaxSetback = 0
  PROVE  TypeOK /\ LedgerPast /\ [Next]_vars => LedgerPast'
<1> SUFFICES ASSUME TypeOK, LedgerPast, [Next]_vars PROVE LedgerPast'
  OBVIOUS
<1>1. clock \in Int /\ \A t \in Time : t \in Int
  BY BoundsAssumption DEF TypeOK, Time
<1>2. ASSUME NEW w \in Worker, Charge(w) PROVE LedgerPast'
  <2>1. UNCHANGED clock /\ clock \in Time /\ admitted \in [IP -> [Time -> Nat]] /\ ip[w] \in IP
    BY <1>2, ChargeType DEF Charge, TypeOK
  <2>2. ASSUME NEW k \in IP, NEW t \in Time, t > clock PROVE admitted'[k][t] = admitted[k][t]
    <3>1. t # clock
      BY <1>1, <2>2
    <3> QED
      BY <1>2, <2>1, <3>1 DEF Charge
  <2> QED
    BY <2>1, <2>2 DEF LedgerPast
<1>3. CASE Tick
  BY <1>1, <1>3 DEF Tick, LedgerPast, ledger
<1>4. CASE SetBack
  BY <1>4, BoundsAssumption DEF SetBack, TypeOK, Time
<1>5. CASE UNCHANGED <<clock, admitted>>
  BY <1>5 DEF LedgerPast
<1> QED
  BY <1>2, <1>3, <1>4, <1>5
     DEF Next, Proceed, Begin, PruneShard, CountShard, ScanShard, Evict, MeasureShard,
         Publish, vars, ledger

\* The calls ahead of an instant that has come only become fewer.
LEMMA AheadShrinks ==
  ASSUME TypeOK, [Next]_vars, NEW a \in Time, a <= clock
  PROVE  /\ Ahead(a)' \subseteq Ahead(a)
         /\ \A w \in Worker : Charge(w) => w \notin Ahead(a)'
<1> DEFINE Early == {"prune", "charge"}
<1>1. a \in Int /\ clock \in Int
  BY BoundsAssumption DEF TypeOK, Time
<1>2. ASSUME NEW w \in Worker, Begin(w) PROVE Ahead(a)' \subseteq Ahead(a)
  BY <1>1, <1>2 DEF Begin, Ahead, TypeOK
<1>3. ASSUME NEW w \in Worker, Charge(w) PROVE Ahead(a)' \subseteq Ahead(a) /\ w \notin Ahead(a)'
  BY <1>3 DEF Charge, Ahead, TypeOK
<1>4. ASSUME NEW w \in Worker, PruneShard(w) PROVE Ahead(a)' \subseteq Ahead(a)
  <2>1. \A v \in Worker : pc'[v] \in Early => pc[v] \in Early
    BY <1>4, WalkType DEF PruneShard, Steps
  <2> QED
    BY <1>4, <2>1 DEF PruneShard, Ahead
<1>5. ASSUME NEW w \in Worker, CountShard(w) PROVE Ahead(a)' \subseteq Ahead(a)
  <2>1. \A v \in Worker : pc'[v] \in Early => pc[v] \in Early
    BY <1>5, WalkType DEF CountShard, Steps
  <2> QED
    BY <1>5, <2>1 DEF CountShard, Ahead
<1>6. ASSUME NEW w \in Worker, MeasureShard(w) PROVE Ahead(a)' \subseteq Ahead(a)
  <2>1. \A v \in Worker : pc'[v] \in Early => pc[v] \in Early
    BY <1>6, WalkType DEF MeasureShard, Steps
  <2> QED
    BY <1>6, <2>1 DEF MeasureShard, Ahead
<1>7. ASSUME NEW w \in Worker, ScanShard(w) PROVE Ahead(a)' \subseteq Ahead(a)
  <2>1. PICK pick : Walk(w, AfterWalk(w, pick))
    BY <1>7 DEF ScanShard
  <2>2. AfterWalk(w, pick) \in Steps \ Early
    BY DEF AfterWalk, Steps
  <2>3. \A v \in Worker : pc'[v] \in Early => pc[v] \in Early
    BY <1>7, <2>1, <2>2, WalkType
  <2> QED
    BY <1>7, <2>3 DEF ScanShard, Ahead
<1>8. ASSUME NEW w \in Worker, Evict(w) \/ Publish(w) PROVE Ahead(a)' \subseteq Ahead(a)
  BY <1>8 DEF Evict, Publish, Ahead, TypeOK, call
<1>9. ASSUME UNCHANGED <<pc, now>> PROVE Ahead(a)' \subseteq Ahead(a)
  BY <1>9 DEF Ahead
<1> QED
  BY <1>2, <1>3, <1>4, <1>5, <1>6, <1>7, <1>8, <1>9
     DEF Next, Proceed, Tick, SetBack, vars, call

\* The products that a budget is counted with.
LEMMA Products ==
  ASSUME NEW m \in Nat, NEW x \in Nat, NEW y \in Nat
  PROVE  /\ m * x \in Nat
         /\ x <= y => m * x <= m * y
         /\ x < y => m * x + m <= m * y
         /\ (1 + y) * m = m * y + m
<1>1. m * x \in Nat
  OBVIOUS
<1>2. x <= y => m * x <= m * y
  OBVIOUS
<1>3. ASSUME x < y PROVE m * x + m <= m * y
  <2>1. m * (x + 1) <= m * y
    BY <1>3
  <2>2. m * (x + 1) = m * x + m
    OBVIOUS
  <2> QED
    BY <2>1, <2>2
<1>4. (1 + y) * m = m * y + m
  OBVIOUS
<1> QED
  BY <1>1, <1>2, <1>3, <1>4


\* The sizes that a budget is made of.
LEMMA BudgetFacts ==
  ASSUME TypeOK, NEW k \in IP, NEW a
  PROVE  /\ Stretch(k, a) \in Nat
         /\ Left(k) \in Nat
         /\ IsFiniteSet(Ahead(a)) /\ Cardinality(Ahead(a)) \in Nat
         /\ MaxRequests * Cardinality(Ahead(a)) \in Nat
         /\ Cardinality(Worker) \in Nat /\ MaxRequests \in Nat \ {0}
         /\ Most \in Nat /\ Most = MaxRequests * Cardinality(Worker) + MaxRequests
<1>1. Stretch(k, a) \in Nat
  BY LedgerTotal DEF Stretch
<1>2. Left(k) \in Nat
  <2>1. CASE k \in DOMAIN entries
    <3>1. entries[k].count \in 0..MaxRequests
      BY <2>1, TypeFacts DEF Entry
    <3> QED
      BY <2>1, <3>1, SettingsAssumption DEF Left
  <2>2. CASE k \notin DOMAIN entries
    BY <2>2 DEF Left
  <2> QED
    BY <2>1, <2>2
<1>3. IsFiniteSet(Ahead(a)) /\ Cardinality(Ahead(a)) \in Nat
  BY WorkersFinite, FS_Subset, FS_CardinalityType DEF Ahead
<1>4. Cardinality(Worker) \in Nat /\ MaxRequests \in Nat \ {0}
  BY WorkersFinite, FS_CardinalityType, SettingsAssumption
<1>5. MaxRequests * Cardinality(Ahead(a)) \in Nat
  BY <1>3, <1>4, Products
<1>6. /\ Most = MaxRequests * Cardinality(Worker) + MaxRequests
      /\ MaxRequests * Cardinality(Worker) \in Nat
  BY <1>4, Products DEF Most
<1> QED
  BY <1>1, <1>2, <1>3, <1>4, <1>5, <1>6

\* A step that admits nothing to k, and takes away at most what is left to it.
LEMMA BudgetKept ==
  ASSUME TypeOK, TypeOK', BurstInv, NEW k \in IP, NEW a \in Time,
         UNCHANGED clock, Stretch(k, a)' = Stretch(k, a),
         Within(a) => /\ Ahead(a)' \subseteq Ahead(a)
                      /\ Left(k)' <= Left(k)
                      /\ BegunBy(k, a) => BegunBy(k, a)'
  PROVE  /\ Stretch(k, a)' <= Most
         /\ Within(a)' /\ Stretch(k, a)' > 0 => Owed(k, a)' <= Most
<1> DEFINE A == Stretch(k, a)
           rest  == MaxRequests * Cardinality(Ahead(a))
           rest1 == MaxRequests * Cardinality(Ahead(a)')
<1>1. /\ A \in Nat /\ Left(k) \in Nat /\ rest \in Nat /\ MaxRequests \in Nat /\ Most \in Nat
      /\ IsFiniteSet(Ahead(a)) /\ Cardinality(Ahead(a)) \in Nat
  BY BudgetFacts
<1>2. A <= Most
  BY DEF BurstInv
<1>3. ASSUME Within(a), A > 0 PROVE Owed(k, a)' <= Most
  <2>1. Owed(k, a) <= Most
    BY <1>3 DEF BurstInv
  <2>2. Left(k)' <= Left(k) /\ Left(k)' \in Nat
    <3>1. \A j \in DOMAIN entries' : entries'[j].count \in 0..MaxRequests
      BY DEF TypeOK, Entry
    <3>2. Left(k)' \in Int
      BY <3>1, SettingsAssumption DEF Left
    <3>3. Left(k)' >= 0
      BY <3>1, SettingsAssumption DEF Left
    <3> QED
      BY <1>3, <3>2, <3>3
  <2>3. rest1 <= rest /\ rest1 \in Nat
    <3>1. Cardinality(Ahead(a)') <= Cardinality(Ahead(a)) /\ Cardinality(Ahead(a)') \in Nat
      BY <1>1, <1>3, FS_Subset, FS_CardinalityType
    <3> QED
      BY <1>1, <3>1, Products
  <2> DEFINE more  == IF BegunBy(k, a) THEN 0 ELSE rest + MaxRequests
             more1 == IF BegunBy(k, a)' THEN 0 ELSE rest1 + MaxRequests
  <2>4. more1 <= more /\ more \in Nat /\ more1 \in Nat
    <3> HIDE DEF rest, rest1
    <3>1. BegunBy(k, a) => BegunBy(k, a)'
      BY <1>3
    <3>2. CASE BegunBy(k, a)'
      BY <1>1, <2>3, <3>2
    <3>3. CASE ~BegunBy(k, a)'
      BY <1>1, <2>3, <3>1, <3>3
    <3> QED
      BY <3>2, <3>3
  <2>5. Owed(k, a) = A + Left(k) + more /\ Owed(k, a)' = A + Left(k)' + more1
    BY DEF Owed
  <2> HIDE DEF A, more, more1
  <2> QED
    BY <1>1, <2>1, <2>2, <2>4, <2>5
<1>4. Within(a)' <=> Within(a)
  BY DEF Within
<1> QED
  BY <1>2, <1>3, <1>4

\* A charge that admits a request of k while the stretch from a is running.
LEMMA BudgetCharged ==
  ASSUME QuotaInv, QuotaInv', BurstInv, [Next]_vars, NEW w \in Worker, Charge(w),
         ~Spent(Current(w)), NEW a \in Time, Within(a)
  PROVE  Stretch(ip[w], a)' <= Most /\ Owed(ip[w], a)' <= Most
<1> USE DEF QuotaInv
<1> DEFINE k == ip[w]
           A == Stretch(k, a)
           L == Left(k)
           begun == BegunBy(k, a)
           rest  == MaxRequests * Cardinality(Ahead(a))
           rest1 == MaxRequests * Cardinality(Ahead(a)')
           all   == MaxRequests * Cardinality(Worker)
           s == entries[k].window_start
           s1 == entries'[k].window_start
<1>1. k \in IP /\ k \in DOMAIN entries' /\ UNCHANGED <<clock, now>>
  BY ChargeEntry
<1>2. a \in Int /\ clock \in Int /\ now[w] \in Int /\ now[w] <= clock /\ Window \in Int
  BY BoundsAssumption, SettingsAssumption DEF TypeOK, Time, Past
<1>3. /\ A \in Nat /\ L \in Nat /\ rest \in Nat /\ MaxRequests \in Nat \ {0}
      /\ IsFiniteSet(Ahead(a)) /\ Most \in Nat /\ Most = all + MaxRequests
      /\ Cardinality(Worker) \in Nat
  BY <1>1, BudgetFacts
<1>4. all \in Nat
  BY <1>3, Products
<1>5. Stretch(k, a)' = A + 1
  <2>1. clock \in Span(a, a + Window - 1)
    BY DEF Within, Span, TypeOK
  <2>2. Total(admitted'[k], Span(a, a + Window - 1)) = Total(admitted[k], Span(a, a + Window - 1)) + 1
    BY <1>1, <2>1, ChargeAdmits
  <2>3. Stretch(k, a)' = Total(admitted'[k], Span(a, a + Window - 1))
    BY <1>1 DEF Stretch, Charge
  <2> QED
    BY <2>2, <2>3 DEF Stretch
<1>6. A > 0 => A + L + (IF begun THEN 0 ELSE rest + MaxRequests) <= Most
  BY <1>1 DEF BurstInv, Owed
<1>7. /\ rest1 \in Nat /\ rest1 <= rest /\ rest1 + MaxRequests <= all
      /\ now[w] < a => rest1 + MaxRequests <= rest
  <2>1. Ahead(a)' \subseteq Ahead(a) \ {w} /\ Ahead(a)' \subseteq Worker \ {w}
    BY AheadShrinks DEF Within, Ahead
  <2>2. /\ Cardinality(Ahead(a)') \in Nat /\ Cardinality(Ahead(a)) \in Nat
        /\ Cardinality(Ahead(a)') <= Cardinality(Ahead(a))
    BY <1>3, <2>1, FS_Subset, FS_CardinalityType
  <2>3. Cardinality(Ahead(a)') < Cardinality(Worker)
    <3>1. Cardinality(Worker \ {w}) = Cardinality(Worker) - 1 /\ IsFiniteSet(Worker \ {w})
      BY WorkersFinite, FS_RemoveElement
    <3>2. Cardinality(Ahead(a)') <= Cardinality(Worker \ {w})
      BY <2>1, <3>1, FS_Subset
    <3> QED
      BY <1>3, <2>2, <3>1, <3>2
  <2>4. ASSUME now[w] < a PROVE Cardinality(Ahead(a)') < Cardinality(Ahead(a))
    <3>1. w \in Ahead(a)
      BY <2>4 DEF Ahead, Charge
    <3>2. Cardinality(Ahead(a) \ {w}) = Cardinality(Ahead(a)) - 1 /\ IsFiniteSet(Ahead(a) \ {w})
      BY <1>3, <3>1, FS_RemoveElement
    <3>3. Cardinality(Ahead(a)') <= Cardinality(Ahead(a) \ {w})
      BY <2>1, <3>2, FS_Subset
    <3> QED
      BY <2>2, <3>2, <3>3
  <2> QED
    BY <1>3, <2>2, <2>3, <2>4, Products
<1> DEFINE more1 == IF BegunBy(k, a)' THEN 0 ELSE rest1 + MaxRequests
<1>8. /\ Owed(k, a)' = A + 1 + Left(k)' + more1
      /\ Left(k)' = MaxRequests - entries'[k].count
      /\ BegunBy(k, a)' <=> s1 >= a
      /\ Left(k)' \in Nat
  <2>1. UNCHANGED ip
    BY DEF Charge
  <2>2. entries'[k].count \in 0..MaxRequests
    BY <1>1 DEF TypeOK, Entry
  <2>3. Left(k)' = MaxRequests - entries'[k].count /\ Left(k)' \in Nat
    BY <1>1, <1>3, <2>1, <2>2 DEF Left
  <2> QED
    BY <1>1, <1>5, <2>1, <2>3 DEF Owed, BegunBy
<1>9. s1 \in Int
  BY <1>1, BoundsAssumption DEF TypeOK, Entry, Time
<1> HIDE DEF A, L, begun, rest, rest1, all, more1
\* The running window is charged.
<1>10. CASE k \in DOMAIN entries /\ s1 = s /\ entries'[k].count = entries[k].count + 1
  <2>1. L = MaxRequests - entries[k].count /\ entries[k].count \in Nat
    BY <1>10, TypeFacts, SettingsAssumption DEF L, Left, Entry
  <2>2. 1 + Left(k)' = L
    BY <1>3, <1>8, <1>10, <2>1
  <2>3. begun <=> s1 >= a
    BY <1>10 DEF begun, BegunBy
  <2>4. CASE s1 >= a
    <3>1. more1 = 0
      BY <1>8, <2>4 DEF more1
    <3>2. A = 0 => A + L <= Most
      BY <1>3, <1>4, <2>1
    <3>3. A > 0 => A + L <= Most
      BY <1>3, <1>6, <2>3, <2>4
    <3> QED
      BY <1>3, <1>5, <1>8, <2>1, <2>2, <3>1, <3>2, <3>3
  <2>5. CASE ~(s1 >= a)
    <3>1. more1 = rest1 + MaxRequests
      BY <1>8, <2>5 DEF more1
    <3>2. A = 0 => A + L + rest1 + MaxRequests <= Most
      BY <1>3, <1>4, <1>7, <2>1
    <3>3. A > 0 => A + L + rest1 + MaxRequests <= Most
      BY <1>3, <1>6, <1>7, <2>3, <2>5
    <3> QED
      BY <1>3, <1>5, <1>7, <1>8, <2>1, <2>2, <3>1, <3>2, <3>3
  <2> QED
    BY <2>4, <2>5
\* A window is opened.
<1>11. CASE s1 = now[w] /\ entries'[k].count = 1
            /\ (k \in DOMAIN entries => Lapsed(w, entries[k]))
  <2>1. 1 + Left(k)' = MaxRequests
    BY <1>3, <1>8, <1>11
  <2>2. ~begun
    <3> SUFFICES ASSUME k \in DOMAIN entries, s >= a PROVE FALSE
      BY DEF begun, BegunBy
    <3>1. s \in Int
      BY TypeFacts, BoundsAssumption DEF Entry, Time
    <3>2. now[w] - s >= Window
      BY <1>11 DEF Lapsed
    <3> QED
      BY <1>2, <3>1, <3>2 DEF Within
  <2>3. CASE now[w] >= a
    <3>1. more1 = 0
      BY <1>8, <1>11, <2>3 DEF more1
    <3>2. A = 0 => A + MaxRequests <= Most
      BY <1>3, <1>4
    <3>3. A > 0 => A + MaxRequests <= Most
      BY <1>3, <1>6, <2>2
    <3> QED
      BY <1>3, <1>5, <1>8, <2>1, <3>1, <3>2, <3>3
  <2>4. CASE ~(now[w] >= a)
    <3>1. more1 = rest1 + MaxRequests
      BY <1>8, <1>11, <2>4 DEF more1
    <3>2. rest1 + MaxRequests <= rest
      BY <1>2, <1>7, <2>4
    <3>3. A = 0 => A + MaxRequests + rest1 + MaxRequests <= Most
      BY <1>3, <1>4, <1>7
    <3>4. A > 0 => A + MaxRequests + rest1 + MaxRequests <= Most
      BY <1>3, <1>6, <1>7, <2>2, <3>2
    <3> QED
      BY <1>3, <1>5, <1>7, <1>8, <2>1, <3>1, <3>3, <3>4
  <2> QED
    BY <2>3, <2>4
<1> QED
  BY <1>10, <1>11, ChargeEntry

LEMMA BurstNext ==
  ASSUME MaxSetback = 0, Cardinality(IP) <= Capacity
  PROVE  QuotaInv /\ LedgerPast /\ BurstInv /\ [Next]_vars => BurstInv'
<1> SUFFICES ASSUME QuotaInv, LedgerPast, BurstInv, [Next]_vars, NEW k \in IP, NEW a \in Time
             PROVE  /\ Stretch(k, a)' <= Most
                    /\ Within(a)' /\ Stretch(k, a)' > 0 => Owed(k, a)' <= Most
  BY DEF BurstInv, Most
<1> DEFINE Goal == /\ Stretch(k, a)' <= Most
                   /\ Within(a)' /\ Stretch(k, a)' > 0 => Owed(k, a)' <= Most
<1>1. TypeOK /\ QuotaInv' /\ TypeOK'
  BY QuotaInvariant DEF QuotaInv
<1>2. a \in Int /\ clock \in Int /\ Window \in Int /\ \A t \in Time : t \in Int
  BY <1>1, BoundsAssumption, SettingsAssumption DEF TypeOK, Time
<1>3. ASSUME UNCHANGED <<clock, admitted>>,
             Within(a) => Left(k)' <= Left(k) /\ (BegunBy(k, a) => BegunBy(k, a)')
      PROVE  Goal
  <2>1. Stretch(k, a)' = Stretch(k, a)
    BY <1>3 DEF Stretch
  <2>2. Within(a) => Ahead(a)' \subseteq Ahead(a)
    BY <1>1, AheadShrinks DEF Within
  <2> QED
    BY <1>1, <1>3, <2>1, <2>2, BudgetKept
<1>4. Left(k) \in Nat
  BY <1>1, BudgetFacts
<1>5. ASSUME NEW w \in Worker, Charge(w) PROVE Goal
  <2>1. UNCHANGED clock
    BY <1>5 DEF Charge
  <2>2. CASE k = ip[w] /\ ~Spent(Current(w)) /\ Within(a)
    <3>1. UNCHANGED ip
      BY <1>5 DEF Charge
    <3>2. Stretch(ip[w], a)' = Stretch(k, a)' /\ Owed(ip[w], a)' = Owed(k, a)'
      BY <2>2, <3>1 DEF Owed, Stretch, Left, BegunBy, Ahead
    <3> QED
      BY <1>1, <1>5, <2>2, <3>2, BudgetCharged
  <2>3. CASE ~(k = ip[w] /\ ~Spent(Current(w)) /\ Within(a))
    <3>1. Stretch(k, a)' = Stretch(k, a)
      <4>1. clock \in Span(a, a + Window - 1) <=> Within(a)
        BY <1>1 DEF Span, Within, TypeOK
      <4> QED
        BY <1>1, <1>5, <2>3, <4>1, ChargeAdmits DEF Stretch
    <3>2. ASSUME Within(a) PROVE Left(k)' = Left(k) /\ BegunBy(k, a)' = BegunBy(k, a)
      <4>1. k \in DOMAIN entries' <=> k \in DOMAIN entries
        BY <1>1, <1>5, <2>3, <3>2, ChargeEntry
      <4>2. k \in DOMAIN entries => entries'[k] = entries[k]
        BY <1>1, <1>5, <2>3, <3>2, ChargeEntry
      <4> QED
        BY <4>1, <4>2 DEF Left, BegunBy
    <3>3. Within(a) => Ahead(a)' \subseteq Ahead(a)
      BY <1>1, AheadShrinks DEF Within
    <3> QED
      BY <1>1, <1>4, <2>1, <3>1, <3>2, <3>3, BudgetKept
  <2> QED
    BY <2>2, <2>3
<1>6. ASSUME NEW w \in Worker, PruneShard(w) PROVE Goal
  <2> DEFINE S == {j \in DOMAIN entries : j \in OnShard(cursor[w]) => ~Stale(w, j)}
  <2>1. DOMAIN entries' = S /\ \A j \in S : entries'[j] = entries[j]
    BY <1>1, <1>6, TypeFacts DEF PruneShard
  <2>2. ASSUME Within(a), BegunBy(k, a) PROVE k \in S
    <3>1. now[w] \in Int /\ now[w] <= clock /\ entries[k].window_start \in Int
      BY <1>1, <1>2, <2>2, TypeFacts DEF Entry, Past, QuotaInv, BegunBy
    <3>2. ~Stale(w, k)
      BY <1>2, <2>2, <3>1 DEF Within, BegunBy, Stale
    <3> QED
      BY <2>2, <3>2 DEF BegunBy
  <2>3. Left(k)' <= Left(k)
    BY <1>4, <2>1 DEF Left
  <2>4. Within(a) => (BegunBy(k, a) => BegunBy(k, a)')
    BY <2>1, <2>2 DEF BegunBy
  <2> QED
    BY <1>3, <1>6, <2>3, <2>4 DEF PruneShard, ledger
<1>7. ASSUME NEW w \in Worker, Evict(w) PROVE FALSE
  <2>1. Cardinality(IP) > Capacity /\ Cardinality(IP) \in Nat /\ Capacity \in Nat
    BY <1>7, PassedFinite, SettingsAssumption DEF Evict, TallyInv, Capacity, QuotaInv
  <2> QED
    BY <2>1
<1>8. CASE Tick
  <2>1. clock' = clock + 1 /\ UNCHANGED <<entries, admitted, pc, now>>
    BY <1>8 DEF Tick, call, ledger
  <2>2. Stretch(k, a)' = Stretch(k, a) /\ Owed(k, a)' = Owed(k, a)
    BY <2>1 DEF Stretch, Owed, Left, BegunBy, Ahead
  <2>3. ASSUME Within(a)', ~Within(a) PROVE Stretch(k, a) = 0
    <3>1. a > clock
      BY <1>2, <2>1, <2>3 DEF Within
    <3>2. \A t \in Span(a, a + Window - 1) : admitted[k][t] = 0
      <4> TAKE t \in Span(a, a + Window - 1)
      <4>1. t \in Time /\ t \in Int /\ a <= t
        BY <1>2 DEF Span
      <4> QED
        BY <1>2, <3>1, <4>1 DEF LedgerPast
    <3> QED
      BY <3>2, SpanFinite, TotalZero DEF Stretch
  <2> QED
    BY <2>2, <2>3 DEF BurstInv
<1>9. CASE SetBack
  BY <1>1, <1>9, BoundsAssumption DEF SetBack, TypeOK, Time
<1>10. ASSUME UNCHANGED <<clock, entries, admitted>> PROVE Goal
  <2>1. Left(k)' = Left(k) /\ BegunBy(k, a)' = BegunBy(k, a)
    BY <1>10 DEF Left, BegunBy
  <2> QED
    BY <1>3, <1>4, <1>10, <2>1
<1> QED
  BY <1>5, <1>6, <1>7, <1>8, <1>9, <1>10
     DEF Next, Proceed, Begin, CountShard, ScanShard, MeasureShard, Publish, vars, ledger

\* However many calls read the clock before an old window is pruned and charge
\* after it, a stretch as long as the window sees at most twice the limit
\* admitted, and the limit once more for each other call, in a map with room for
\* every client and on a clock that is never set back (lines 89-112).
THEOREM BurstAlwaysBound ==
  ASSUME MaxSetback = 0, Cardinality(IP) <= Capacity
  PROVE  Spec => []BurstBound
<1> DEFINE Inv == QuotaInv /\ LedgerPast /\ BurstInv
<1>1. Init => Inv
  <2> SUFFICES ASSUME Init PROVE Inv
    OBVIOUS
  <2>1. QuotaInv /\ LedgerPast
    BY QuotaInvariant DEF Init, LedgerPast
  <2>2. ASSUME NEW k \in IP, NEW a \in Time PROVE Stretch(k, a) = 0
    <3>1. \A t \in Span(a, a + Window - 1) : admitted[k][t] = 0
      BY DEF Init, Span
    <3> QED
      BY <3>1, SpanFinite, TotalZero DEF Stretch
  <2>3. \A k \in IP, a \in Time : Most \in Nat
    BY <2>1, BudgetFacts DEF QuotaInv
  <2> QED
    BY <2>1, <2>2, <2>3 DEF BurstInv
<1>2. Inv /\ [Next]_vars => Inv'
  <2>1. QuotaInv /\ [Next]_vars => QuotaInv'
    BY QuotaInvariant
  <2>2. QuotaInv /\ LedgerPast /\ [Next]_vars => LedgerPast'
    BY LedgerPastNext DEF QuotaInv
  <2> QED
    BY <2>1, <2>2, BurstNext
<1>3. Inv => BurstBound
  BY AdmittedSum DEF BurstInv, BurstBound, Stretch, Most
<1> QED
  BY <1>1, <1>2, <1>3, PTL DEF Spec
=============================================================================

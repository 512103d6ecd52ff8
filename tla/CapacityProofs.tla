---------------------------- MODULE CapacityProofs ----------------------------
(***************************************************************************)
(* The capacity of RateLimiter, proved for every number of clients, calls  *)
(* at once and shards, and every capacity.                                 *)
(*                                                                         *)
(* No call ever sees the whole map at one moment: it counts shard by shard *)
(* while others insert.  The argument compares calls by when they charged. *)
(***************************************************************************)
EXTENDS RateLimiterProofs

-----------------------------------------------------------------------------
(* The inductive invariant.                                                *)

Busy == {w \in Worker : pc[w] \in Enforcing}

\* The entries of the shards before s.
Seen(s) == {k \in DOMAIN entries : ShardOf[k] < s}

\* What call w knows of the shards it has passed, if `newer` are the calls that
\* charged since its walk began and have not left: apart from theirs it has
\* counted every entry, or found no entry but its own.
Counted(w, newer) ==
  /\ pc[w] = "capacity" =>
       Cardinality(Seen(cursor[w])) <= tally[w] + Cardinality(newer)
  /\ pc[w] = "scan" /\ selected[w].key = NoIP =>
       Cardinality(Seen(cursor[w]) \ {ip[w]}) <= Cardinality(newer)
  /\ pc[w] = "rescan" =>
       Cardinality(DOMAIN entries \ {ip[w]}) <= Cardinality(newer)

\* The calls that charged since the walk of a late one began are late as well,
\* and what is newer than one of them is newer than it.
Nested(late, after) ==
  \A w \in late :
    /\ after[w] \subseteq late
    /\ w \notin after[w]
    /\ \A u \in after[w] : after[u] \subseteq after[w]

\* `late` are the calls that charged since the last walk after which a call left
\* began, after[w] those that charged since the walk of w began.
Explains(late, after) ==
  /\ late \subseteq Busy
  /\ Cardinality(DOMAIN entries) <= Capacity + Cardinality(late)
  /\ Nested(late, after)
  /\ \A w \in late : Counted(w, after[w])

Explained ==
  \E late \in SUBSET Worker, after \in [Worker -> SUBSET Worker] : Explains(late, after)

\* Where a walk begins, and what it can have selected.
AtWalk ==
  \A w \in Worker :
    /\ pc[w] \in {"charge", "evict"} => cursor[w] = 0
    /\ pc[w] = "scan" => selected[w].key # ip[w]
    /\ selected[w].key = NoIP => selected[w] = NoCandidate

CapacityInv == TypeOK /\ TallyInv /\ AtWalk /\ Explained

-----------------------------------------------------------------------------
(* Sets of calls.                                                          *)

LEMMA CallsFinite ==
  ASSUME NEW S \in SUBSET Worker
  PROVE  IsFiniteSet(S) /\ Cardinality(S) \in Nat
BY WorkersFinite, FS_Subset, FS_CardinalityType

LEMMA NestedAdd ==
  ASSUME NEW late \in SUBSET Worker, NEW after \in [Worker -> SUBSET Worker],
         Nested(late, after), NEW u \in Worker, u \notin late
  PROVE  Nested(late \cup {u},
                [w \in Worker |-> IF w = u THEN {} ELSE after[w] \cup {u}])
BY DEF Nested

LEMMA NestedRestart ==
  ASSUME NEW late \in SUBSET Worker, NEW after \in [Worker -> SUBSET Worker],
         Nested(late, after), NEW w \in Worker
  PROVE  Nested(late, [after EXCEPT ![w] = {}])
BY DEF Nested

LEMMA NestedLeave ==
  ASSUME NEW late \in SUBSET Worker, NEW after \in [Worker -> SUBSET Worker],
         Nested(late, after), NEW w \in late
  PROVE  /\ after[w] \subseteq late \ {w}
         /\ Nested(after[w], after)
BY DEF Nested

-----------------------------------------------------------------------------
(* Sets of entries.                                                        *)

LEMMA EntriesFinite ==
  ASSUME TypeOK, NEW S, S \subseteq DOMAIN entries
  PROVE  IsFiniteSet(S) /\ Cardinality(S) \in Nat
<1>1. S \subseteq IP
  BY DEF TypeOK
<1> QED
  BY <1>1, ClientsFinite, FS_Subset, FS_CardinalityType

\* A set of entries counted again after a step that adds at most k to it.
LEMMA Grows ==
  ASSUME NEW S, NEW R, NEW k, IsFiniteSet(S), R \subseteq S \cup {k}
  PROVE  Cardinality(R) <= Cardinality(S) + 1
<1>1. /\ IsFiniteSet(S \cup {k})
      /\ Cardinality(S \cup {k}) <= Cardinality(S) + 1
  <2>1. Cardinality(S \cup {k}) = IF k \in S THEN Cardinality(S) ELSE Cardinality(S) + 1
    BY FS_AddElement
  <2>2. Cardinality(S) \in Nat
    BY FS_CardinalityType
  <2> QED
    BY <2>1, <2>2, FS_AddElement
<1>2. /\ IsFiniteSet(R) /\ Cardinality(R) <= Cardinality(S \cup {k})
  BY <1>1, FS_Subset
<1> QED
  BY <1>1, <1>2, FS_CardinalityType

LEMMA Shrinks ==
  ASSUME NEW S, NEW R, IsFiniteSet(S), R \subseteq S
  PROVE  Cardinality(R) <= Cardinality(S) /\ Cardinality(R) \in Nat /\ Cardinality(S) \in Nat
BY FS_Subset, FS_CardinalityType

\* What the shards before s hold, one more shard, all shards.
LEMMA SeenFacts ==
  ASSUME TypeOK
  PROVE  /\ Seen(0) = {}
         /\ Seen(ShardCount) = DOMAIN entries
         /\ \A s \in Shard : /\ Seen(s + 1) = Seen(s) \cup OnShard(s)
                             /\ Seen(s) \cap OnShard(s) = {}
<1>1. \A k \in DOMAIN entries : ShardOf[k] \in Int /\ 0 <= ShardOf[k] /\ ShardOf[k] < ShardCount
  BY ShardsAssumption DEF TypeOK
<1>2. ASSUME NEW s \in Shard
      PROVE  Seen(s + 1) = Seen(s) \cup OnShard(s) /\ Seen(s) \cap OnShard(s) = {}
  <2>1. s \in Int
    BY ShardsAssumption DEF Shard
  <2> QED
    BY <1>1, <2>1 DEF Seen, OnShard
<1> QED
  BY <1>1, <1>2 DEF Seen

\* Among some entries, if there are any, one is the oldest.
LEMMA OldestExists ==
  ASSUME TypeOK, NEW S, S \subseteq DOMAIN entries, S # {}
  PROVE  \E k \in S : \A j \in S : entries[k].window_start <= entries[j].window_start
<1> DEFINE R == {p \in Nat \X Nat : p[1] < p[2]}
           starts == {entries[k].window_start : k \in S}
<1>1. IsWellFoundedOn(R, Nat)
  <2>1. OpToRel(<, Nat) = R
    BY Zenon DEF OpToRel
  <2> QED
    BY NatLessThanWellFounded, <2>1, Zenon
<1>2. \A x, y \in Nat : <<y, x>> \in R <=> y < x
  OBVIOUS
<1>3. \A k \in S : entries[k].window_start \in Nat
  BY TypeFacts, BoundsAssumption DEF Entry, Time
<1>4. starts \in SUBSET Nat /\ starts # {}
  BY <1>3
<1> HIDE DEF R, starts
<1>5. PICK x \in starts : \A y \in starts : ~(<<y, x>> \in R)
  BY <1>1, <1>4, WFMin
<1>6. \A y \in starts : x <= y
  <2> TAKE y \in starts
  <2>1. x \in Nat /\ y \in Nat /\ ~(y < x)
    BY <1>2, <1>4, <1>5
  <2> QED
    BY <2>1
<1> QED
  BY <1>5, <1>6 DEF starts

-----------------------------------------------------------------------------
(* What the other calls know is still true after a step of one call.       *)

Waits(v) == UNCHANGED <<pc[v], ip[v], cursor[v], tally[v], selected[v]>>

\* A step of w that adds no entry.
StepOf(w) ==
  /\ DOMAIN entries' \subseteq DOMAIN entries
  /\ \A v \in Worker : v # w => Waits(v)

LEMMA CountedShrinks ==
  ASSUME TypeOK, NEW v \in Worker, NEW newer \in SUBSET Worker, Counted(v, newer),
         DOMAIN entries' \subseteq DOMAIN entries, Waits(v)
  PROVE  Counted(v, newer)'
<1> DEFINE R == {k \in DOMAIN entries' : ShardOf[k] < cursor[v]}
           S == Seen(cursor[v])
<1>1. /\ Cardinality(newer) \in Nat /\ tally[v] \in Nat
      /\ R \subseteq S /\ R \ {ip[v]} \subseteq S \ {ip[v]}
      /\ DOMAIN entries' \ {ip[v]} \subseteq DOMAIN entries \ {ip[v]}
      /\ S \subseteq DOMAIN entries /\ S \ {ip[v]} \subseteq DOMAIN entries
      /\ DOMAIN entries \ {ip[v]} \subseteq DOMAIN entries
  BY CallsFinite, TypeFacts DEF Seen
<1>2. Seen(cursor[v])' = R
  BY DEF Seen, Waits
<1> HIDE DEF R, S
<1>3. /\ Cardinality(R) <= Cardinality(S) /\ Cardinality(R) \in Nat /\ Cardinality(S) \in Nat
      /\ Cardinality(R \ {ip[v]}) <= Cardinality(S \ {ip[v]})
      /\ Cardinality(R \ {ip[v]}) \in Nat /\ Cardinality(S \ {ip[v]}) \in Nat
      /\ Cardinality(DOMAIN entries' \ {ip[v]}) <= Cardinality(DOMAIN entries \ {ip[v]})
      /\ Cardinality(DOMAIN entries' \ {ip[v]}) \in Nat
      /\ Cardinality(DOMAIN entries \ {ip[v]}) \in Nat
  <2>1. IsFiniteSet(S) /\ IsFiniteSet(S \ {ip[v]}) /\ IsFiniteSet(DOMAIN entries \ {ip[v]})
    BY <1>1, EntriesFinite
  <2> QED
    BY <1>1, <2>1, Shrinks
<1> QED
  BY <1>1, <1>2, <1>3 DEF Counted, Waits, S

\* One entry more, and one call more that is newer.
LEMMA CountedGrows ==
  ASSUME TypeOK, NEW v \in Worker, NEW newer \in SUBSET Worker, Counted(v, newer),
         NEW k, DOMAIN entries' \subseteq DOMAIN entries \cup {k}, Waits(v),
         NEW u \in Worker, u \notin newer
  PROVE  Counted(v, newer \cup {u})'
<1> DEFINE R == {j \in DOMAIN entries' : ShardOf[j] < cursor[v]}
           S == Seen(cursor[v])
<1>1. /\ Cardinality(newer) \in Nat /\ tally[v] \in Nat
      /\ R \subseteq S \cup {k} /\ R \ {ip[v]} \subseteq (S \ {ip[v]}) \cup {k}
      /\ DOMAIN entries' \ {ip[v]} \subseteq (DOMAIN entries \ {ip[v]}) \cup {k}
      /\ S \subseteq DOMAIN entries /\ S \ {ip[v]} \subseteq DOMAIN entries
      /\ DOMAIN entries \ {ip[v]} \subseteq DOMAIN entries
  BY CallsFinite, TypeFacts DEF Seen
<1>2. Seen(cursor[v])' = R
  BY DEF Seen, Waits
<1>3. Cardinality(newer \cup {u}) = Cardinality(newer) + 1
  BY CallsFinite, FS_AddElement
<1> HIDE DEF R, S
<1>4. /\ IsFiniteSet(S) /\ IsFiniteSet(S \ {ip[v]}) /\ IsFiniteSet(DOMAIN entries \ {ip[v]})
      /\ Cardinality(S) \in Nat /\ Cardinality(S \ {ip[v]}) \in Nat
      /\ Cardinality(DOMAIN entries \ {ip[v]}) \in Nat
  BY <1>1, EntriesFinite
<1>5. /\ IsFiniteSet(S \cup {k}) /\ IsFiniteSet((S \ {ip[v]}) \cup {k})
      /\ IsFiniteSet((DOMAIN entries \ {ip[v]}) \cup {k})
  BY <1>4, FS_AddElement
<1>6. /\ Cardinality(R) \in Nat /\ Cardinality(R \ {ip[v]}) \in Nat
      /\ Cardinality(DOMAIN entries' \ {ip[v]}) \in Nat
  BY <1>1, <1>5, Shrinks
<1>7. /\ Cardinality(R) <= Cardinality(S) + 1
      /\ Cardinality(R \ {ip[v]}) <= Cardinality(S \ {ip[v]}) + 1
      /\ Cardinality(DOMAIN entries' \ {ip[v]}) <= Cardinality(DOMAIN entries \ {ip[v]}) + 1
  BY <1>1, <1>4, Grows
<1> QED
  BY <1>1, <1>2, <1>3, <1>4, <1>6, <1>7 DEF Counted, Waits, S

\* A step by which no call joins or leaves, and w knows what it should.
LEMMA StayStep ==
  ASSUME TypeOK, NEW late \in SUBSET Worker, NEW after \in [Worker -> SUBSET Worker],
         Explains(late, after), NEW w \in Worker, StepOf(w),
         w \in late => pc'[w] \in Enforcing /\ Counted(w, after[w])'
  PROVE  Explained'
<1>1. Cardinality(DOMAIN entries') <= Cardinality(DOMAIN entries)
      /\ Cardinality(DOMAIN entries') \in Nat /\ Cardinality(DOMAIN entries) \in Nat
  BY EntriesFinite, Shrinks DEF StepOf
<1>2. Cardinality(late) \in Nat /\ Capacity \in Nat
  BY CallsFinite, SettingsAssumption DEF Capacity
<1>3. \A v \in late : pc'[v] \in Enforcing /\ Counted(v, after[v])'
  BY CountedShrinks DEF StepOf, Explains, Busy, Waits
<1>4. Cardinality(DOMAIN entries') <= Capacity + Cardinality(late)
  BY <1>1, <1>2 DEF Explains
<1>5. Explains(late, after)'
  BY <1>3, <1>4 DEF Explains, Busy, Capacity
<1> QED
  BY <1>5 DEF Explained

\* The walk of w begins anew: nothing is newer than it.
LEMMA RestartStep ==
  ASSUME TypeOK, NEW late \in SUBSET Worker, NEW after \in [Worker -> SUBSET Worker],
         Explains(late, after), NEW w \in Worker, StepOf(w),
         pc'[w] \in Enforcing, Counted(w, {})'
  PROVE  Explained'
<1> DEFINE fresh == [after EXCEPT ![w] = {}]
<1>1. Cardinality(DOMAIN entries') <= Cardinality(DOMAIN entries)
      /\ Cardinality(DOMAIN entries') \in Nat /\ Cardinality(DOMAIN entries) \in Nat
  BY EntriesFinite, Shrinks DEF StepOf
<1>2. Cardinality(late) \in Nat /\ Capacity \in Nat
  BY CallsFinite, SettingsAssumption DEF Capacity
<1>3. \A v \in late : pc'[v] \in Enforcing /\ Counted(v, fresh[v])'
  <2> TAKE v \in late
  <2>1. CASE v = w
    BY <2>1
  <2>2. CASE v # w
    BY <2>2, CountedShrinks DEF StepOf, Explains, Busy, Waits
  <2> QED
    BY <2>1, <2>2
<1>4. Cardinality(DOMAIN entries') <= Capacity + Cardinality(late)
  BY <1>1, <1>2 DEF Explains
<1>5. Nested(late, fresh)
  BY NestedRestart DEF Explains
<1>6. fresh \in [Worker -> SUBSET Worker]
  OBVIOUS
<1> HIDE DEF fresh
<1>7. Explains(late, fresh)'
  BY <1>3, <1>4, <1>5 DEF Explains, Busy, Capacity, Nested
<1> QED
  BY <1>6, <1>7 DEF Explained

\* w leaves and does not evict: the map fits, but for the calls newer than w.
LEMMA LeaveStep ==
  ASSUME TypeOK, NEW late \in SUBSET Worker, NEW after \in [Worker -> SUBSET Worker],
         Explains(late, after), NEW w \in Worker, StepOf(w),
         w \in late => Cardinality(DOMAIN entries) <= Capacity + Cardinality(after[w])
  PROVE  Explained'
<1>1. CASE w \notin late
  BY <1>1, StayStep
<1>2. CASE w \in late
  <2>1. after[w] \subseteq late \ {w} /\ Nested(after[w], after)
    BY <1>2, NestedLeave DEF Explains
  <2>2. Cardinality(DOMAIN entries') <= Cardinality(DOMAIN entries)
        /\ Cardinality(DOMAIN entries') \in Nat /\ Cardinality(DOMAIN entries) \in Nat
    BY EntriesFinite, Shrinks DEF StepOf
  <2>3. Cardinality(after[w]) \in Nat /\ Capacity \in Nat
    BY CallsFinite, SettingsAssumption DEF Capacity
  <2>4. \A v \in after[w] : pc'[v] \in Enforcing /\ Counted(v, after[v])'
    BY <2>1, CountedShrinks DEF StepOf, Explains, Busy, Waits
  <2>5. Cardinality(DOMAIN entries') <= Capacity + Cardinality(after[w])
    BY <1>2, <2>2, <2>3
  <2>6. Explains(after[w], after)'
    BY <2>1, <2>4, <2>5 DEF Explains, Busy, Capacity, Nested
  <2> QED
    BY <2>6 DEF Explained
<1> QED
  BY <1>1, <1>2

-----------------------------------------------------------------------------
(* The steps.                                                              *)

LEMMA AtWalkNext == TypeOK /\ AtWalk /\ [Next]_vars => AtWalk'
<1> SUFFICES ASSUME TypeOK, AtWalk, [Next]_vars PROVE AtWalk'
  OBVIOUS
<1>1. ASSUME NEW w \in Worker, ScanShard(w) PROVE AtWalk'
  <2>1. PICK pick : /\ \/ pick = selected[w]
                       \/ \E k \in Older(w) : pick = [key |-> k, start |-> entries[k].window_start]
                    /\ selected' = [selected EXCEPT ![w] = pick]
                    /\ Walk(w, AfterWalk(w, pick))
    BY <1>1 DEF ScanShard
  <2>2. AfterWalk(w, pick) \in {"rescan", "measure", "evict"} /\ pc[w] \in {"scan", "rescan"}
    BY <1>1 DEF ScanShard, AfterWalk
  <2>3. /\ pc[w] = "scan" => pick.key # ip[w]
        /\ pick.key = NoIP => pick = NoCandidate
    BY <2>1, ClientsFinite DEF AtWalk, Older, Considered, OnShard, TypeOK
  <2>4. \A v \in Worker : v # w => pc'[v] = pc[v] /\ cursor'[v] = cursor[v] /\ selected'[v] = selected[v]
    BY <2>1, <2>2, WalkType DEF Steps, TypeOK
  <2>5. /\ selected'[w] = pick
        /\ pc'[w] = "evict" => cursor'[w] = 0
        /\ pc'[w] # "charge"
        /\ pc'[w] = "scan" => pc[w] = "scan"
    BY <2>1, <2>2 DEF Walk, TypeOK
  <2> QED
    BY <1>1, <2>3, <2>4, <2>5 DEF AtWalk, ScanShard
<1>2. ASSUME NEW w \in Worker, PruneShard(w) PROVE AtWalk'
  <2>1. /\ \A v \in Worker : v # w => pc'[v] = pc[v] /\ cursor'[v] = cursor[v]
        /\ pc'[w] \in {"prune", "charge"} /\ (pc'[w] = "charge" => cursor'[w] = 0)
    BY <1>2, WalkType DEF PruneShard, Walk, TypeOK, Steps
  <2> QED
    BY <1>2, <2>1 DEF PruneShard, AtWalk
<1>3. ASSUME NEW w \in Worker, CountShard(w) PROVE AtWalk'
  <2>1. /\ \A v \in Worker : v # w => pc'[v] = pc[v] /\ cursor'[v] = cursor[v]
        /\ pc'[w] \in {"capacity", "scan", "measure"}
    BY <1>3, WalkType DEF CountShard, Steps
  <2>2. /\ \A v \in Worker : v # w => selected'[v] = selected[v]
        /\ selected'[w] = NoCandidate
        /\ UNCHANGED ip /\ ip[w] # NoIP
    BY <1>3 DEF CountShard, TypeOK
  <2> QED
    BY <2>1, <2>2 DEF AtWalk, NoCandidate
<1>4. ASSUME NEW w \in Worker, MeasureShard(w) PROVE AtWalk'
  <2>1. /\ \A v \in Worker : v # w => pc'[v] = pc[v] /\ cursor'[v] = cursor[v]
        /\ pc'[w] \in {"measure", "publish"}
    BY <1>4, WalkType DEF MeasureShard, Steps
  <2> QED
    BY <1>4, <2>1 DEF MeasureShard, AtWalk
<1>5. ASSUME NEW w \in Worker, Begin(w) \/ Charge(w) \/ Evict(w) \/ Publish(w) PROVE AtWalk'
  BY <1>5 DEF Begin, Charge, Evict, Publish, AtWalk, TypeOK, call
<1>6. CASE UNCHANGED <<pc, ip, cursor, selected>>
  BY <1>6 DEF AtWalk
<1> QED
  BY <1>1, <1>2, <1>3, <1>4, <1>5, <1>6 DEF Next, Proceed, Tick, SetBack, vars, call

LEMMA ChargeExplained ==
  ASSUME CapacityInv, NEW u \in Worker, Charge(u)
  PROVE  Explained'
<1> USE DEF CapacityInv
<1>1. PICK late \in SUBSET Worker, after \in [Worker -> SUBSET Worker] : Explains(late, after)
  BY DEF Explained
<1> DEFINE more  == late \cup {u}
           fresh == [v \in Worker |-> IF v = u THEN {} ELSE after[v] \cup {u}]
<1>2. /\ DOMAIN entries' = DOMAIN entries \cup {ip[u]}
      /\ pc[u] = "charge" /\ pc' = [pc EXCEPT ![u] = "capacity"]
      /\ UNCHANGED <<ip, cursor, tally, selected>>
      /\ cursor[u] = 0 /\ tally[u] = 0
  BY DEF Charge, AtWalk, TallyInv
<1>3. u \notin late /\ \A v \in late : u \notin after[v]
  BY <1>1, <1>2 DEF Explains, Nested, Busy, Enforcing
<1>4. Nested(more, fresh)
  BY <1>1, <1>3, NestedAdd DEF Explains
<1>5. Counted(u, {})'
  <2>1. Seen(cursor[u])' = {}
    <3>1. \A k \in DOMAIN entries' : ~(ShardOf[k] < 0)
      BY <1>2, ChargeType, ShardsAssumption DEF TypeOK
    <3> QED
      BY <1>2, <3>1 DEF Seen
  <2>2. pc'[u] = "capacity" /\ tally'[u] = 0
    BY <1>2 DEF TypeOK
  <2> QED
    BY <2>1, <2>2, FS_EmptySet DEF Counted
<1>6. ASSUME NEW v \in late PROVE pc'[v] \in Enforcing /\ Counted(v, fresh[v])'
  <2>1. v # u /\ Waits(v)
    BY <1>2, <1>3 DEF Waits, TypeOK
  <2>2. Counted(v, after[v] \cup {u})'
    BY <1>1, <1>2, <1>3, <2>1, CountedGrows DEF Explains
  <2> QED
    BY <1>1, <2>1, <2>2 DEF Explains, Busy, Waits
<1>7. Cardinality(DOMAIN entries') <= Capacity + Cardinality(more)
  <2>1. Cardinality(DOMAIN entries') <= Cardinality(DOMAIN entries) + 1
    BY <1>2, EntriesFinite, Grows
  <2>2. Cardinality(more) = Cardinality(late) + 1
    BY <1>3, CallsFinite, FS_AddElement
  <2>3. /\ Cardinality(DOMAIN entries) \in Nat /\ Cardinality(late) \in Nat /\ Capacity \in Nat
        /\ Cardinality(DOMAIN entries') \in Nat
    <3>1. IsFiniteSet(DOMAIN entries')
      BY <1>2, EntriesFinite, FS_AddElement
    <3> QED
      BY <3>1, EntriesFinite, CallsFinite, FS_CardinalityType, SettingsAssumption DEF Capacity
  <2> QED
    BY <1>1, <2>1, <2>2, <2>3 DEF Explains
<1>8. pc'[u] \in Enforcing
  BY <1>2 DEF TypeOK, Enforcing
<1>9. fresh \in [Worker -> SUBSET Worker] /\ fresh[u] = {} /\ more \in SUBSET Worker
  OBVIOUS
<1> HIDE DEF fresh
<1>10. \A v \in more : pc'[v] \in Enforcing /\ Counted(v, fresh[v])'
  BY <1>5, <1>6, <1>8, <1>9
<1>11. Explains(more, fresh)'
  BY <1>4, <1>7, <1>9, <1>10 DEF Explains, Busy, Capacity, Nested
<1> QED
  BY <1>9, <1>11 DEF Explained

LEMMA CountExplained ==
  ASSUME CapacityInv, NEW w \in Worker, CountShard(w)
  PROVE  Explained'
<1> USE DEF CapacityInv
<1>1. PICK late \in SUBSET Worker, after \in [Worker -> SUBSET Worker] : Explains(late, after)
  BY DEF Explained
<1> DEFINE s     == cursor[w]
           total == tally[w] + Cardinality(OnShard(s))
           last  == s = ShardCount - 1
           next  == IF OverCapacity(total) THEN "scan" ELSE "measure"
<1>2. /\ pc[w] = "capacity" /\ Walk(w, next)
      /\ tally' = [tally EXCEPT ![w] = IF last THEN 0 ELSE total]
      /\ selected' = [selected EXCEPT ![w] = NoCandidate]
      /\ UNCHANGED <<entries, ip>>
  BY DEF CountShard
<1>3. StepOf(w)
  <2>1. \A v \in Worker : v # w => pc'[v] = pc[v] /\ cursor'[v] = cursor[v]
    BY <1>2, WalkType DEF Steps
  <2> QED
    BY <1>2, <2>1 DEF StepOf, Waits, TypeOK
<1>4. w \in late =>
        /\ Cardinality(Seen(s + 1)) <= total + Cardinality(after[w])
        /\ Cardinality(after[w]) \in Nat
  <2>1. /\ Seen(s + 1) = Seen(s) \cup OnShard(s) /\ Seen(s) \cap OnShard(s) = {}
        /\ IsFiniteSet(Seen(s)) /\ IsFiniteSet(OnShard(s))
        /\ Cardinality(Seen(s)) \in Nat /\ Cardinality(OnShard(s)) \in Nat
        /\ tally[w] \in Nat /\ Cardinality(after[w]) \in Nat
    BY SeenFacts, ShardFinite, EntriesFinite, CallsFinite, TypeFacts DEF Seen
  <2>2. Cardinality(Seen(s + 1)) = Cardinality(Seen(s)) + Cardinality(OnShard(s))
    <3>1. Cardinality(Seen(s + 1)) = Cardinality(Seen(s)) + Cardinality(OnShard(s))
                                       - Cardinality(Seen(s) \cap OnShard(s))
      BY <2>1, FS_Union
    <3>2. Cardinality(Seen(s) \cap OnShard(s)) = 0
      BY <2>1, FS_EmptySet
    <3> QED
      BY <2>1, <3>1, <3>2
  <2>3. w \in late => Cardinality(Seen(s)) <= tally[w] + Cardinality(after[w])
    BY <1>1, <1>2 DEF Explains, Counted
  <2> QED
    BY <2>1, <2>2, <2>3
<1>5. CASE ~last
  <2>1. /\ pc'[w] = "capacity" /\ cursor'[w] = s + 1 /\ tally'[w] = total
    BY <1>2, <1>5 DEF Walk, TypeOK
  <2>2. Seen(cursor[w])' = Seen(s + 1)
    BY <1>2, <2>1 DEF Seen
  <2>3. w \in late => pc'[w] \in Enforcing /\ Counted(w, after[w])'
    BY <1>4, <2>1, <2>2 DEF Counted, Enforcing
  <2> QED
    BY <1>1, <1>3, <2>3, StayStep
<1>6. CASE last /\ OverCapacity(total)
  <2>1. /\ pc'[w] = "scan" /\ cursor'[w] = 0
    BY <1>2, <1>6 DEF Walk, TypeOK
  <2>2. Seen(cursor[w])' \ {ip'[w]} = {}
    BY <1>2, <2>1, SeenFacts DEF Seen
  <2>3. Cardinality(Seen(cursor[w])' \ {ip'[w]}) = 0 /\ Cardinality({}) = 0
    BY <2>2, FS_EmptySet
  <2>4. pc'[w] \in Enforcing /\ Counted(w, {})'
    BY <2>1, <2>3 DEF Counted, Enforcing
  <2> QED
    BY <1>1, <1>3, <2>4, RestartStep
<1>7. CASE last /\ ~OverCapacity(total)
  <2>1. Seen(s + 1) = DOMAIN entries
    BY <1>7, ShardsAssumption, SeenFacts
  <2>2. total \in Nat /\ Capacity \in Nat /\ total <= Capacity /\ Cardinality(DOMAIN entries) \in Nat
    BY <1>7, TypeFacts, ShardFinite, EntriesFinite, SettingsAssumption DEF OverCapacity, Capacity
  <2>3. w \in late => Cardinality(DOMAIN entries) <= Capacity + Cardinality(after[w])
    BY <1>4, <2>1, <2>2
  <2> QED
    BY <1>1, <1>3, <2>3, LeaveStep
<1> QED
  BY <1>5, <1>6, <1>7

\* The walk for a victim passes a shard without one only if it has none but,
\* perhaps, the caller's entry.
LEMMA NothingFound ==
  ASSUME CapacityInv, NEW w \in Worker, ScanShard(w), pc[w] = "scan",
         selected'[w].key = NoIP
  PROVE  /\ selected[w].key = NoIP
         /\ OnShard(cursor[w]) \subseteq {ip[w]}
<1> USE DEF CapacityInv
<1> DEFINE seen == {k \in OnShard(cursor[w]) : Considered(w, k)}
<1>1. \/ Older(w) = {} /\ selected'[w] = selected[w]
      \/ \E k \in Older(w) : selected'[w] = [key |-> k, start |-> entries[k].window_start]
  BY DEF ScanShard, TypeOK
<1>2. \A k \in Older(w) : k # NoIP
  BY ClientsFinite DEF Older, OnShard, TypeOK
<1>3. Older(w) = {} /\ selected[w] = NoCandidate /\ selected[w].key = NoIP
  <2>1. CASE \E k \in Older(w) : selected'[w] = [key |-> k, start |-> entries[k].window_start]
    <3>1. PICK k \in Older(w) : selected'[w] = [key |-> k, start |-> entries[k].window_start]
      BY <2>1
    <3>2. selected'[w].key = k
      BY <3>1
    <3> QED
      BY <1>2, <3>2
  <2>2. CASE Older(w) = {} /\ selected'[w] = selected[w]
    BY <2>2 DEF AtWalk
  <2> QED
    BY <1>1, <2>1, <2>2
<1>4. ~ \E k \in seen : \A j \in seen : entries[k].window_start <= entries[j].window_start
  BY <1>3 DEF Older
<1>5. seen = {}
  BY <1>4, OldestExists DEF OnShard
<1> QED
  BY <1>3, <1>5 DEF Considered

LEMMA ScanExplained ==
  ASSUME CapacityInv, AtWalk', NEW w \in Worker, ScanShard(w)
  PROVE  Explained'
<1> USE DEF CapacityInv
<1>1. PICK late \in SUBSET Worker, after \in [Worker -> SUBSET Worker] : Explains(late, after)
  BY DEF Explained
<1>2. PICK pick : /\ selected' = [selected EXCEPT ![w] = pick]
                  /\ Walk(w, AfterWalk(w, pick))
  BY DEF ScanShard
<1> DEFINE s    == cursor[w]
           last == s = ShardCount - 1
           next == AfterWalk(w, pick)
<1>3. /\ pc[w] \in {"scan", "rescan"} /\ selected'[w] = pick
      /\ next \in {"rescan", "measure", "evict"}
      /\ UNCHANGED <<entries, ip, tally>>
  BY <1>2 DEF ScanShard, AfterWalk, TypeOK
<1>4. StepOf(w)
  <2>1. \A v \in Worker : v # w => pc'[v] = pc[v] /\ cursor'[v] = cursor[v]
    BY <1>2, <1>3, WalkType DEF Steps
  <2> QED
    BY <1>2, <1>3, <2>1 DEF StepOf, Waits, TypeOK
\* A first walk that has found nothing yet.
<1>5. ASSUME pc[w] = "scan", pick.key = NoIP, w \in late
      PROVE  Cardinality(Seen(s + 1) \ {ip[w]}) <= Cardinality(after[w])
  <2>1. selected[w].key = NoIP /\ OnShard(s) \subseteq {ip[w]}
    BY <1>3, <1>5, NothingFound
  <2>2. Seen(s + 1) \ {ip[w]} = Seen(s) \ {ip[w]}
    BY <2>1, SeenFacts, TypeFacts
  <2> QED
    BY <1>1, <1>5, <2>1, <2>2 DEF Explains, Counted
<1>6. ASSUME pc[w] = "rescan", w \in late
      PROVE  Cardinality(DOMAIN entries \ {ip[w]}) <= Cardinality(after[w])
  BY <1>1, <1>6 DEF Explains, Counted
<1>7. CASE ~last
  <2>1. pc'[w] = pc[w] /\ cursor'[w] = s + 1
    BY <1>2, <1>7 DEF Walk, TypeOK
  <2>2. Seen(cursor[w])' = Seen(s + 1)
    BY <1>3, <2>1 DEF Seen
  <2>3. w \in late => pc'[w] \in Enforcing /\ Counted(w, after[w])'
    BY <1>3, <1>5, <1>6, <2>1, <2>2 DEF Counted, Enforcing
  <2> QED
    BY <1>1, <1>4, <2>3, StayStep
<1>8. CASE last /\ next # "measure"
  <2>1. pc'[w] = next
    BY <1>2, <1>8 DEF Walk, TypeOK
  <2>2. next = "rescan" => pc[w] = "scan" /\ pick.key = NoIP
    BY <1>3 DEF AfterWalk
  <2>3. Seen(s + 1) = DOMAIN entries
    BY <1>8, ShardsAssumption, SeenFacts
  <2>4. w \in late => pc'[w] \in Enforcing /\ Counted(w, after[w])'
    BY <1>3, <1>5, <1>8, <2>1, <2>2, <2>3 DEF Counted, Enforcing
  <2> QED
    BY <1>1, <1>4, <2>4, StayStep
<1>9. CASE last /\ next = "measure"
  \* Only the second walk ends so: the first does not take the caller's entry.
  <2>1. pc[w] = "rescan"
    <3>1. CASE pc[w] = "scan" /\ pick.key # NoIP
      <4>1. pick.key = ip[w]
        BY <1>9, <3>1 DEF AfterWalk
      <4>2. \/ pick = selected[w]
            \/ \E k \in Older(w) : pick.key = k
        BY <1>2, <1>3 DEF ScanShard, TypeOK
      <4> QED
        BY <3>1, <4>1, <4>2 DEF AtWalk, Older, Considered
    <3> QED
      BY <1>3, <1>9, <3>1 DEF AfterWalk
  <2>2. Cardinality(DOMAIN entries) <= Cardinality(DOMAIN entries \ {ip[w]}) + 1
    BY EntriesFinite, Grows
  <2>3. /\ Capacity \in Nat \ {0} /\ Cardinality(after[w]) \in Nat
        /\ Cardinality(DOMAIN entries) \in Nat /\ Cardinality(DOMAIN entries \ {ip[w]}) \in Nat
    BY EntriesFinite, CallsFinite, SettingsAssumption DEF Capacity
  <2>4. w \in late => Cardinality(DOMAIN entries) <= Capacity + Cardinality(after[w])
    BY <1>6, <2>1, <2>2, <2>3
  <2> QED
    BY <1>1, <1>4, <2>4, LeaveStep
<1> QED
  BY <1>7, <1>8, <1>9

LEMMA EvictExplained ==
  ASSUME CapacityInv, NEW w \in Worker, Evict(w)
  PROVE  Explained'
<1> USE DEF CapacityInv
<1>1. PICK late \in SUBSET Worker, after \in [Worker -> SUBSET Worker] : Explains(late, after)
  BY DEF Explained
<1>2. /\ pc' = [pc EXCEPT ![w] = "capacity"]
      /\ UNCHANGED <<ip, cursor, tally, selected>>
      /\ cursor[w] = 0 /\ tally[w] = 0
      /\ DOMAIN entries' \subseteq DOMAIN entries
  BY TypeFacts DEF Evict, AtWalk, TallyInv, call
<1>3. StepOf(w)
  BY <1>2 DEF StepOf, Waits, TypeOK
<1>4. Seen(cursor[w])' = {}
  BY <1>2, SeenFacts DEF Seen
<1>5. pc'[w] = "capacity" /\ tally'[w] = 0
  BY <1>2 DEF TypeOK
<1>6. pc'[w] \in Enforcing /\ Counted(w, {})'
  BY <1>4, <1>5, FS_EmptySet DEF Counted, Enforcing
<1> QED
  BY <1>1, <1>3, <1>6, RestartStep

\* A step of a call that has not charged yet or has left enforce_capacity.
LEMMA OutsideExplained ==
  ASSUME CapacityInv, NEW w \in Worker,
         Begin(w) \/ PruneShard(w) \/ MeasureShard(w) \/ Publish(w)
  PROVE  Explained'
<1> USE DEF CapacityInv
<1>1. PICK late \in SUBSET Worker, after \in [Worker -> SUBSET Worker] : Explains(late, after)
  BY DEF Explained
<1>2. pc[w] \notin Enforcing
  BY DEF Begin, PruneShard, MeasureShard, Publish, Enforcing
<1>3. \A v \in Worker : v # w => pc'[v] = pc[v] /\ cursor'[v] = cursor[v]
  BY WalkType DEF Begin, PruneShard, MeasureShard, Publish, TypeOK, Steps
<1>4. StepOf(w)
  BY <1>3, TypeFacts DEF StepOf, Waits, Begin, PruneShard, MeasureShard, Publish, TypeOK
<1>5. w \notin late
  BY <1>1, <1>2 DEF Explains, Busy
<1> QED
  BY <1>1, <1>4, <1>5, StayStep

LEMMA CapacityNext == CapacityInv /\ [Next]_vars => CapacityInv'
<1> SUFFICES ASSUME CapacityInv, [Next]_vars PROVE CapacityInv'
  OBVIOUS
<1>1. TypeOK' /\ TallyInv' /\ AtWalk'
  BY TypeNext, TallyNext, AtWalkNext DEF CapacityInv
<1>2. ASSUME NEW w \in Worker, Begin(w) \/ Proceed(w) PROVE Explained'
  BY <1>1, <1>2, ChargeExplained, CountExplained, ScanExplained, EvictExplained,
     OutsideExplained DEF Proceed
<1>3. ASSUME UNCHANGED <<entries, pc, ip, cursor, tally, selected>> PROVE Explained'
  <2>1. PICK late \in SUBSET Worker, after \in [Worker -> SUBSET Worker] : Explains(late, after)
    BY DEF CapacityInv, Explained
  <2>2. Explains(late, after)'
    BY <1>3, <2>1 DEF Explains, Busy, Nested, Counted, Seen, Capacity
  <2> QED
    BY <2>2 DEF Explained
<1>4. Explained'
  BY <1>2, <1>3 DEF Next, Tick, SetBack, vars, call
<1> QED
  BY <1>1, <1>4 DEF CapacityInv

LEMMA CapacityFirst == Init => CapacityInv
<1> SUFFICES ASSUME Init PROVE CapacityInv
  OBVIOUS
<1>1. TallyInv /\ AtWalk
  BY DEF Init, TallyInv, AtWalk
<1>2. Cardinality(DOMAIN entries) = 0 /\ Cardinality({}) = 0 /\ Capacity \in Nat
  BY FS_EmptySet, SettingsAssumption DEF Init, Capacity
<1>3. Explains({}, [w \in Worker |-> {}])
  BY <1>2 DEF Explains, Nested
<1>4. Explained
  BY <1>3 DEF Explained
<1> QED
  BY <1>1, <1>4, TypeInit DEF CapacityInv

\* Whatever the interleaving of counts, walks, insertions and evictions, the map
\* holds at most `max_entries` and one entry for each call that has charged its
\* client and not left enforce_capacity (lines 114 and 124-141).
THEOREM CapacityAlwaysBound == Spec => []CapacityBound
<1>1. CapacityInv => CapacityBound
  <2> SUFFICES ASSUME CapacityInv PROVE CapacityBound
    OBVIOUS
  <2>1. PICK late \in SUBSET Worker, after \in [Worker -> SUBSET Worker] : Explains(late, after)
    BY DEF CapacityInv, Explained
  <2>2. Busy \in SUBSET Worker /\ late \subseteq Busy
    BY <2>1 DEF Busy, Explains
  <2>3. /\ Cardinality(late) <= Cardinality(Busy)
        /\ Cardinality(late) \in Nat /\ Cardinality(Busy) \in Nat
    BY <2>2, CallsFinite, FS_Subset
  <2>4. Cardinality(DOMAIN entries) \in Nat /\ Capacity \in Nat
    BY EntriesFinite, SettingsAssumption DEF CapacityInv, Capacity
  <2> QED
    BY <2>1, <2>3, <2>4 DEF Explains, CapacityBound, Busy
<1> QED
  BY <1>1, CapacityFirst, CapacityNext, PTL DEF Spec

-----------------------------------------------------------------------------
(* What eviction leaves.                                                   *)
(*                                                                         *)
(* Stamps tell the order of events: start[w] when call w last began to     *)
(* count, ev[u] when worker u last evicted, ref the latest start of a      *)
(* count that found the map over capacity.  Since then no worker has       *)
(* evicted twice: the second time it would have counted anew and found the *)
(* map over capacity after ref.                                            *)

Since(ev, t) == {u \in Worker : ev[u] > t}

Stamps(start, ev, ref, top) ==
  /\ ref < top /\ \A u \in Worker : ev[u] < top
  /\ \A w \in Worker :
       /\ pc[w] \in Enforcing => ev[w] < start[w] /\ start[w] < top
       /\ pc[w] \in {"scan", "rescan", "evict"} => start[w] <= ref
       /\ pc[w] = "capacity" /\ start[w] > ref =>
            tally[w] <= Cardinality(Seen(cursor[w])) + Cardinality(Since(ev, start[w]))
  /\ ref > 0 => Capacity + 1 <= Cardinality(DOMAIN entries) + Cardinality(Since(ev, ref))

Stamped ==
  \E start \in [Worker -> Nat], ev \in [Worker -> Nat], ref \in Nat, top \in Nat :
    Stamps(start, ev, ref, top)

\* No call in prune_stale finds an entry to drop.
NothingExpires ==
  \A w \in Worker : pc[w] = "prune" => \A k \in DOMAIN entries : ~Stale(w, k)

SlackInv == TypeOK /\ TallyInv /\ AtWalk /\ Stamped

LEMMA SinceFinite ==
  ASSUME NEW ev, NEW t
  PROVE  /\ IsFiniteSet(Since(ev, t)) /\ Cardinality(Since(ev, t)) \in Nat
         /\ Cardinality(Worker) \in Nat
         /\ Cardinality(Since(ev, t)) <= Cardinality(Worker)
BY WorkersFinite, FS_Subset, FS_CardinalityType DEF Since

\* What a waiting call has passed only grows while nothing is taken out.
LEMMA SeenKept ==
  ASSUME TypeOK, TypeOK', NEW v \in Worker, Waits(v), DOMAIN entries \subseteq DOMAIN entries'
  PROVE  /\ Cardinality(Seen(cursor[v])) \in Nat
         /\ Cardinality(Seen(cursor[v])') \in Nat
         /\ Cardinality(Seen(cursor[v])) <= Cardinality(Seen(cursor[v])')
         /\ Cardinality(DOMAIN entries) \in Nat
         /\ Cardinality(DOMAIN entries') \in Nat
         /\ Cardinality(DOMAIN entries) <= Cardinality(DOMAIN entries')
<1> DEFINE R == {k \in DOMAIN entries' : ShardOf[k] < cursor[v]}
<1>1. Seen(cursor[v])' = R
  BY DEF Seen, Waits
<1>2. IsFiniteSet(DOMAIN entries')
  BY ClientsFinite, FS_Subset DEF TypeOK
<1>3. IsFiniteSet(R)
  BY <1>2, FS_Subset
<1>4. Seen(cursor[v]) \subseteq R
  BY DEF Seen
<1> HIDE DEF R
<1> QED
  BY <1>1, <1>2, <1>3, <1>4, FS_Subset, FS_CardinalityType

\* A step of w that takes nothing out, and after which w knows what it should.
LEMMA StampsStay ==
  ASSUME TypeOK, TypeOK',
         NEW start \in [Worker -> Nat], NEW ev \in [Worker -> Nat], NEW ref \in Nat, NEW top \in Nat,
         Stamps(start, ev, ref, top), NEW w \in Worker,
         DOMAIN entries \subseteq DOMAIN entries',
         \A v \in Worker : v # w => Waits(v),
         pc'[w] \in Enforcing => pc[w] \in Enforcing,
         pc'[w] \in {"scan", "rescan", "evict"} => start[w] <= ref,
         pc'[w] = "capacity" /\ start[w] > ref =>
           tally'[w] <= Cardinality(Seen(cursor[w])') + Cardinality(Since(ev, start[w]))
  PROVE  Stamped'
<1>1. ASSUME NEW v \in Worker, v # w
      PROVE  /\ pc'[v] \in Enforcing => ev[v] < start[v] /\ start[v] < top
             /\ pc'[v] \in {"scan", "rescan", "evict"} => start[v] <= ref
             /\ pc'[v] = "capacity" /\ start[v] > ref =>
                  tally'[v] <= Cardinality(Seen(cursor[v])') + Cardinality(Since(ev, start[v]))
  <2>1. pc'[v] = pc[v] /\ tally'[v] = tally[v] /\ Waits(v)
    BY <1>1 DEF Waits
  <2>2. /\ Cardinality(Seen(cursor[v])) \in Nat /\ Cardinality(Seen(cursor[v])') \in Nat
        /\ Cardinality(Seen(cursor[v])) <= Cardinality(Seen(cursor[v])')
        /\ Cardinality(Since(ev, start[v])) \in Nat /\ tally[v] \in Nat
    BY <2>1, SeenKept, SinceFinite, TypeFacts
  <2> QED
    BY <2>1, <2>2 DEF Stamps
<1>2. ref > 0 => Capacity + 1 <= Cardinality(DOMAIN entries') + Cardinality(Since(ev, ref))
  <2>1. IsFiniteSet(DOMAIN entries')
    BY ClientsFinite, FS_Subset DEF TypeOK
  <2>2. /\ Cardinality(DOMAIN entries) <= Cardinality(DOMAIN entries')
        /\ Cardinality(DOMAIN entries) \in Nat /\ Cardinality(DOMAIN entries') \in Nat
    BY <2>1, FS_Subset, FS_CardinalityType
  <2>3. Cardinality(Since(ev, ref)) \in Nat /\ Capacity \in Nat
    BY SinceFinite, SettingsAssumption DEF Capacity
  <2> QED
    BY <2>2, <2>3 DEF Stamps
<1>3. Stamps(start, ev, ref, top)'
  BY <1>1, <1>2 DEF Stamps, Since, Capacity
<1> QED
  BY <1>3 DEF Stamped

\* A count that begins with a charge is the latest.
LEMMA ChargeStamped ==
  ASSUME SlackInv, TypeOK', NEW u \in Worker, Charge(u)
  PROVE  Stamped'
<1> USE DEF SlackInv
<1>1. PICK start \in [Worker -> Nat], ev \in [Worker -> Nat], ref \in Nat, top \in Nat :
        Stamps(start, ev, ref, top)
  BY DEF Stamped
<1> DEFINE anew == [start EXCEPT ![u] = top]
<1>2. /\ pc[u] = "charge" /\ pc' = [pc EXCEPT ![u] = "capacity"]
      /\ UNCHANGED <<ip, cursor, tally, selected>> /\ tally[u] = 0
      /\ DOMAIN entries \subseteq DOMAIN entries'
  BY DEF Charge, TallyInv
<1>3. /\ pc'[u] = "capacity" /\ tally'[u] = 0
      /\ \A v \in Worker : v # u => Waits(v)
  BY <1>2 DEF TypeOK, Waits
<1>4. anew[u] = top /\ \A v \in Worker : v # u => anew[v] = start[v]
  OBVIOUS
<1> HIDE DEF anew
<1>5. ASSUME NEW v \in Worker
      PROVE  /\ pc'[v] \in Enforcing => ev[v] < anew[v] /\ anew[v] < top + 1
             /\ pc'[v] \in {"scan", "rescan", "evict"} => anew[v] <= ref
             /\ pc'[v] = "capacity" /\ anew[v] > ref =>
                  tally'[v] <= Cardinality(Seen(cursor[v])') + Cardinality(Since(ev, anew[v]))
  <2>1. CASE v = u
    <3>1. Cardinality(Seen(cursor[v])') \in Nat /\ Cardinality(Since(ev, anew[v])) \in Nat
      <4>1. IsFiniteSet(Seen(cursor[v])')
        BY ClientsFinite, FS_Subset DEF TypeOK, Seen
      <4> QED
        BY <4>1, SinceFinite, FS_CardinalityType
    <3> QED
      BY <1>1, <1>3, <1>4, <2>1, <3>1 DEF Stamps
  <2>2. CASE v # u
    <3>1. pc'[v] = pc[v] /\ tally'[v] = tally[v] /\ Waits(v) /\ anew[v] = start[v]
      BY <1>3, <1>4, <2>2 DEF Waits
    <3>2. /\ Cardinality(Seen(cursor[v])) \in Nat /\ Cardinality(Seen(cursor[v])') \in Nat
          /\ Cardinality(Seen(cursor[v])) <= Cardinality(Seen(cursor[v])')
          /\ Cardinality(Since(ev, start[v])) \in Nat /\ tally[v] \in Nat
      BY <1>2, <3>1, SeenKept, SinceFinite, TypeFacts
    <3> QED
      BY <1>1, <3>1, <3>2 DEF Stamps
  <2> QED
    BY <2>1, <2>2
<1>6. ref > 0 => Capacity + 1 <= Cardinality(DOMAIN entries') + Cardinality(Since(ev, ref))
  <2>1. IsFiniteSet(DOMAIN entries')
    BY ClientsFinite, FS_Subset DEF TypeOK
  <2>2. /\ Cardinality(DOMAIN entries) <= Cardinality(DOMAIN entries')
        /\ Cardinality(DOMAIN entries) \in Nat /\ Cardinality(DOMAIN entries') \in Nat
    BY <1>2, <2>1, FS_Subset, FS_CardinalityType
  <2>3. Cardinality(Since(ev, ref)) \in Nat /\ Capacity \in Nat
    BY SinceFinite, SettingsAssumption DEF Capacity
  <2> QED
    BY <1>1, <2>2, <2>3 DEF Stamps
<1>7. ref < top + 1 /\ \A v \in Worker : ev[v] < top + 1
  BY <1>1 DEF Stamps
<1>8. Stamps(anew, ev, ref, top + 1)'
  BY <1>5, <1>6, <1>7 DEF Stamps, Since, Capacity
<1>9. anew \in [Worker -> Nat] /\ top + 1 \in Nat
  BY DEF anew
<1> QED
  BY <1>8, <1>9 DEF Stamped

LEMMA CountStamped ==
  ASSUME SlackInv, TypeOK', NEW w \in Worker, CountShard(w)
  PROVE  Stamped'
<1> USE DEF SlackInv
<1>1. PICK start \in [Worker -> Nat], ev \in [Worker -> Nat], ref \in Nat, top \in Nat :
        Stamps(start, ev, ref, top)
  BY DEF Stamped
<1> DEFINE s     == cursor[w]
           total == tally[w] + Cardinality(OnShard(s))
           last  == s = ShardCount - 1
           next  == IF OverCapacity(total) THEN "scan" ELSE "measure"
           gone  == Cardinality(Since(ev, start[w]))
<1>2. /\ pc[w] = "capacity" /\ Walk(w, next)
      /\ tally' = [tally EXCEPT ![w] = IF last THEN 0 ELSE total]
      /\ selected' = [selected EXCEPT ![w] = NoCandidate]
      /\ UNCHANGED <<entries, ip>>
  BY DEF CountShard
<1>3. \A v \in Worker : v # w => Waits(v)
  <2>1. \A v \in Worker : v # w => pc'[v] = pc[v] /\ cursor'[v] = cursor[v]
    BY <1>2, WalkType DEF Steps
  <2> QED
    BY <1>2, <2>1 DEF Waits, TypeOK
<1>4. start[w] > ref => total <= Cardinality(Seen(s + 1)) + gone
  <2>1. /\ Seen(s + 1) = Seen(s) \cup OnShard(s) /\ Seen(s) \cap OnShard(s) = {}
        /\ IsFiniteSet(Seen(s)) /\ IsFiniteSet(OnShard(s))
        /\ Cardinality(Seen(s)) \in Nat /\ Cardinality(OnShard(s)) \in Nat
        /\ tally[w] \in Nat /\ gone \in Nat
    BY SeenFacts, ShardFinite, EntriesFinite, SinceFinite, TypeFacts DEF Seen
  <2>2. Cardinality(Seen(s + 1)) = Cardinality(Seen(s)) + Cardinality(OnShard(s))
    <3>1. Cardinality(Seen(s + 1)) = Cardinality(Seen(s)) + Cardinality(OnShard(s))
                                       - Cardinality(Seen(s) \cap OnShard(s))
      BY <2>1, FS_Union
    <3>2. Cardinality(Seen(s) \cap OnShard(s)) = 0
      BY <2>1, FS_EmptySet
    <3> QED
      BY <2>1, <3>1, <3>2
  <2>3. start[w] > ref => tally[w] <= Cardinality(Seen(s)) + gone
    BY <1>1, <1>2 DEF Stamps
  <2> HIDE DEF gone
  <2> QED
    BY <2>1, <2>2, <2>3
<1>5. CASE ~last
  <2>1. /\ pc'[w] = "capacity" /\ cursor'[w] = s + 1 /\ tally'[w] = total
    BY <1>2, <1>5 DEF Walk, TypeOK
  <2>2. Seen(cursor[w])' = Seen(s + 1)
    BY <1>2, <2>1 DEF Seen
  <2>3. start[w] > ref => tally'[w] <= Cardinality(Seen(cursor[w])') + gone
    BY <1>4, <2>1, <2>2
  <2> QED
    BY <1>1, <1>2, <1>3, <2>1, <2>3, StampsStay DEF Enforcing
<1>6. CASE last /\ (~OverCapacity(total) \/ start[w] <= ref)
  <2>1. pc'[w] = next
    BY <1>2, <1>6 DEF Walk, TypeOK
  <2>2. pc'[w] \in {"scan", "measure"} /\ (pc'[w] = "scan" => start[w] <= ref)
    BY <1>6, <2>1
  <2> QED
    BY <1>1, <1>2, <1>3, <2>2, StampsStay DEF Enforcing
\* The map is over capacity since w began to count, but for what left meanwhile.
<1>7. CASE last /\ OverCapacity(total) /\ ~(start[w] <= ref)
  <2>1. pc'[w] = "scan" /\ start[w] > ref /\ start[w] \in Nat /\ start[w] < top
    BY <1>1, <1>2, <1>7 DEF Walk, TypeOK, Stamps, Enforcing
  <2>2. Seen(s + 1) = DOMAIN entries
    BY <1>7, ShardsAssumption, SeenFacts
  <2>3. total <= Cardinality(DOMAIN entries) + gone
    BY <1>4, <2>1, <2>2
  <2>4. Capacity + 1 <= Cardinality(DOMAIN entries) + gone
    <3>1. total \in Nat /\ gone \in Nat /\ Capacity \in Nat /\ Cardinality(DOMAIN entries) \in Nat
      BY TypeFacts, ShardFinite, EntriesFinite, SinceFinite, SettingsAssumption DEF Capacity
    <3>2. total > Capacity
      BY <1>7 DEF OverCapacity
    <3> HIDE DEF total, gone
    <3> QED
      BY <2>3, <3>1, <3>2
  <2>5. ASSUME NEW v \in Worker
        PROVE  /\ pc'[v] \in Enforcing => ev[v] < start[v] /\ start[v] < top
               /\ pc'[v] \in {"scan", "rescan", "evict"} => start[v] <= start[w]
               /\ pc'[v] = "capacity" /\ start[v] > start[w] =>
                    tally'[v] <= Cardinality(Seen(cursor[v])') + Cardinality(Since(ev, start[v]))
    <3>1. CASE v = w
      BY <1>1, <1>2, <2>1, <3>1 DEF Stamps, Enforcing
    <3>2. CASE v # w
      <4>1. UNCHANGED <<pc[v], cursor[v], tally[v], entries>>
        BY <1>2, <1>3, <3>2 DEF Waits
      <4>2. Seen(cursor[v])' = Seen(cursor[v])
        BY <4>1 DEF Seen
      <4>3. start[v] \in Nat
        OBVIOUS
      <4>4. /\ pc[v] \in Enforcing => ev[v] < start[v] /\ start[v] < top
            /\ pc[v] \in {"scan", "rescan", "evict"} => start[v] <= ref
            /\ pc[v] = "capacity" /\ start[v] > ref =>
                 tally[v] <= Cardinality(Seen(cursor[v])) + Cardinality(Since(ev, start[v]))
        BY <1>1 DEF Stamps
      <4> QED
        BY <2>1, <4>1, <4>2, <4>3, <4>4
    <3> QED
      BY <3>1, <3>2
  <2>6. Stamps(start, ev, start[w], top)'
    BY <1>1, <1>2, <2>1, <2>4, <2>5 DEF Stamps, Since, Capacity
  <2> QED
    BY <2>1, <2>6 DEF Stamped
<1> QED
  BY <1>5, <1>6, <1>7

LEMMA ScanStamped ==
  ASSUME SlackInv, TypeOK', NEW w \in Worker, ScanShard(w)
  PROVE  Stamped'
<1> USE DEF SlackInv
<1>1. PICK start \in [Worker -> Nat], ev \in [Worker -> Nat], ref \in Nat, top \in Nat :
        Stamps(start, ev, ref, top)
  BY DEF Stamped
<1>2. PICK pick : /\ selected' = [selected EXCEPT ![w] = pick]
                  /\ Walk(w, AfterWalk(w, pick))
  BY DEF ScanShard
<1>3. /\ pc[w] \in {"scan", "rescan"}
      /\ AfterWalk(w, pick) \in {"rescan", "measure", "evict"}
      /\ UNCHANGED <<entries, ip, tally>>
  BY DEF ScanShard, AfterWalk
<1>4. pc'[w] # "capacity" /\ \A v \in Worker : v # w => Waits(v)
  <2>1. /\ pc'[w] \in {pc[w], AfterWalk(w, pick)}
        /\ \A v \in Worker : v # w => pc'[v] = pc[v] /\ cursor'[v] = cursor[v]
    BY <1>2, <1>3, WalkType DEF Steps
  <2> QED
    BY <1>2, <1>3, <2>1 DEF Waits, TypeOK
<1>5. pc[w] \in Enforcing /\ start[w] <= ref
  BY <1>1, <1>3 DEF Stamps, Enforcing
<1> QED
  BY <1>1, <1>3, <1>4, <1>5, StampsStay

\* A step of a call that has not charged yet or has left enforce_capacity.
LEMMA OutsideStamped ==
  ASSUME SlackInv, NothingExpires, TypeOK', NEW w \in Worker,
         Begin(w) \/ PruneShard(w) \/ MeasureShard(w) \/ Publish(w)
  PROVE  Stamped'
<1> USE DEF SlackInv
<1>1. PICK start \in [Worker -> Nat], ev \in [Worker -> Nat], ref \in Nat, top \in Nat :
        Stamps(start, ev, ref, top)
  BY DEF Stamped
<1>2. DOMAIN entries \subseteq DOMAIN entries'
  <2>1. ASSUME PruneShard(w) PROVE DOMAIN entries \subseteq DOMAIN entries'
    <3>1. \A k \in DOMAIN entries : ~Stale(w, k)
      BY <2>1 DEF PruneShard, NothingExpires
    <3>2. DOMAIN entries' = {k \in DOMAIN entries : k \in OnShard(cursor[w]) => ~Stale(w, k)}
      BY <2>1, TypeFacts DEF PruneShard
    <3> QED
      BY <3>1, <3>2
  <2> QED
    BY <2>1 DEF Begin, MeasureShard, Publish
<1>3. pc'[w] \notin Enforcing /\ \A v \in Worker : v # w => pc'[v] = pc[v] /\ cursor'[v] = cursor[v]
  BY WalkType DEF Begin, PruneShard, MeasureShard, Publish, TypeOK, Steps, Enforcing
<1>4. \A v \in Worker : v # w => Waits(v)
  BY <1>3 DEF Waits, Begin, PruneShard, MeasureShard, Publish, TypeOK
<1> QED
  BY <1>1, <1>2, <1>3, <1>4, StampsStay DEF Enforcing

\* An eviction takes one entry, and its worker has not evicted since ref.
LEMMA EvictStamped ==
  ASSUME SlackInv, TypeOK', NEW u \in Worker, Evict(u)
  PROVE  /\ Stamped'
         /\ Capacity + 1 <= Cardinality(DOMAIN entries') + Cardinality(Worker)
<1> USE DEF SlackInv
<1>1. PICK start \in [Worker -> Nat], ev \in [Worker -> Nat], ref \in Nat, top \in Nat :
        Stamps(start, ev, ref, top)
  BY DEF Stamped
<1> DEFINE anew == [start EXCEPT ![u] = top + 1]
           ev1  == [ev EXCEPT ![u] = top]
           key  == selected[u].key
<1>2. /\ pc[u] = "evict" /\ pc' = [pc EXCEPT ![u] = "capacity"]
      /\ UNCHANGED <<ip, cursor, tally, selected>> /\ tally[u] = 0
      /\ DOMAIN entries' = DOMAIN entries \ {key}
  BY TypeFacts DEF Evict, TallyInv, call
<1>3. /\ pc'[u] = "capacity" /\ tally'[u] = 0
      /\ \A v \in Worker : v # u => Waits(v)
  BY <1>2 DEF TypeOK, Waits
<1>4. /\ ev[u] < start[u] /\ start[u] <= ref /\ ref < top /\ ref > 0
      /\ ev[u] \in Nat /\ start[u] \in Nat
  BY <1>1, <1>2 DEF Stamps, Enforcing
<1>5. /\ anew[u] = top + 1 /\ ev1[u] = top
      /\ \A v \in Worker : v # u => anew[v] = start[v] /\ ev1[v] = ev[v]
      /\ anew \in [Worker -> Nat] /\ ev1 \in [Worker -> Nat] /\ top + 2 \in Nat
  OBVIOUS
<1> HIDE DEF anew, ev1, key
<1>6. ASSUME NEW t \in Nat, ref <= t, t < top
      PROVE  Cardinality(Since(ev1, t)) = Cardinality(Since(ev, t)) + 1
  <2>1. u \notin Since(ev, t)
    BY <1>4, <1>6 DEF Since
  <2>2. Since(ev1, t) = Since(ev, t) \cup {u}
    BY <1>4, <1>5, <1>6 DEF Since
  <2> QED
    BY <2>1, <2>2, SinceFinite, FS_AddElement
\* What a set of entries loses by the step.
<1>7. ASSUME NEW S, NEW R, S \subseteq DOMAIN entries, R \subseteq DOMAIN entries',
             S \ {key} \subseteq R
      PROVE  /\ Cardinality(S) <= Cardinality(R) + 1
             /\ Cardinality(S) \in Nat /\ Cardinality(R) \in Nat
  <2>1. IsFiniteSet(S) /\ IsFiniteSet(R) /\ Cardinality(S) \in Nat /\ Cardinality(R) \in Nat
    BY <1>2, <1>7, EntriesFinite
  <2>2. S \subseteq R \cup {key}
    BY <1>7
  <2> QED
    BY <2>1, <2>2, Grows
<1>8. Capacity + 1 <= Cardinality(DOMAIN entries') + Cardinality(Since(ev1, ref))
  <2>1. /\ Cardinality(DOMAIN entries) <= Cardinality(DOMAIN entries') + 1
        /\ Cardinality(DOMAIN entries) \in Nat /\ Cardinality(DOMAIN entries') \in Nat
    BY <1>2, <1>7
  <2>2. Capacity + 1 <= Cardinality(DOMAIN entries) + Cardinality(Since(ev, ref))
    BY <1>1, <1>4 DEF Stamps
  <2>3. Cardinality(Since(ev1, ref)) = Cardinality(Since(ev, ref)) + 1
    BY <1>4, <1>6
  <2>4. Cardinality(Since(ev, ref)) \in Nat /\ Capacity \in Nat
    BY SinceFinite, SettingsAssumption DEF Capacity
  <2> QED
    BY <2>1, <2>2, <2>3, <2>4
<1>9. ASSUME NEW v \in Worker
      PROVE  /\ pc'[v] \in Enforcing => ev1[v] < anew[v] /\ anew[v] < top + 2
             /\ pc'[v] \in {"scan", "rescan", "evict"} => anew[v] <= ref
             /\ pc'[v] = "capacity" /\ anew[v] > ref =>
                  tally'[v] <= Cardinality(Seen(cursor[v])') + Cardinality(Since(ev1, anew[v]))
  <2>1. CASE v = u
    <3>1. Cardinality(Seen(cursor[v])') \in Nat /\ Cardinality(Since(ev1, anew[v])) \in Nat
      <4>1. IsFiniteSet(Seen(cursor[v])')
        BY ClientsFinite, FS_Subset DEF TypeOK, Seen
      <4> QED
        BY <4>1, SinceFinite, FS_CardinalityType
    <3> QED
      BY <1>3, <1>5, <2>1, <3>1
  <2>2. CASE v # u
    <3>1. pc'[v] = pc[v] /\ tally'[v] = tally[v] /\ cursor'[v] = cursor[v]
          /\ anew[v] = start[v] /\ ev1[v] = ev[v]
      BY <1>3, <1>5, <2>2 DEF Waits
    <3>2. /\ pc[v] \in Enforcing => ev[v] < start[v] /\ start[v] < top
          /\ pc[v] \in {"scan", "rescan", "evict"} => start[v] <= ref
          /\ pc[v] = "capacity" /\ start[v] > ref =>
               tally[v] <= Cardinality(Seen(cursor[v])) + Cardinality(Since(ev, start[v]))
      BY <1>1 DEF Stamps
    <3>3. ASSUME pc[v] = "capacity", start[v] > ref
          PROVE  tally[v] <= Cardinality(Seen(cursor[v])') + Cardinality(Since(ev1, start[v]))
      <4> DEFINE S == {k \in DOMAIN entries : ShardOf[k] < cursor[v]}
                 R == {k \in DOMAIN entries' : ShardOf[k] < cursor[v]}
      <4>1. Seen(cursor[v]) = S /\ Seen(cursor[v])' = R
        BY <3>1 DEF Seen
      <4>2. S \subseteq DOMAIN entries /\ R \subseteq DOMAIN entries' /\ S \ {key} \subseteq R
        BY <1>2
      <4> HIDE DEF S, R
      <4>3. Cardinality(S) <= Cardinality(R) + 1 /\ Cardinality(S) \in Nat /\ Cardinality(R) \in Nat
        BY <1>7, <4>2
      <4>4. start[v] \in Nat /\ start[v] < top /\ ref <= start[v]
        BY <3>2, <3>3 DEF Enforcing
      <4>5. /\ Cardinality(Since(ev1, start[v])) = Cardinality(Since(ev, start[v])) + 1
            /\ Cardinality(Since(ev, start[v])) \in Nat /\ tally[v] \in Nat
        BY <1>6, <4>4, SinceFinite, TypeFacts
      <4>6. tally[v] <= Cardinality(S) + Cardinality(Since(ev, start[v]))
        BY <3>2, <3>3, <4>1
      <4> QED
        BY <4>1, <4>3, <4>5, <4>6
    <3> QED
      BY <3>1, <3>2, <3>3
  <2> QED
    BY <2>1, <2>2
<1>10. ref < top + 2 /\ \A v \in Worker : ev1[v] < top + 2
  <2>1. \A v \in Worker : v # u => ev1[v] = ev[v] /\ ev[v] < top /\ ev[v] \in Nat
    BY <1>1, <1>5 DEF Stamps
  <2> QED
    BY <1>4, <1>5, <2>1
<1>11. Stamps(anew, ev1, ref, top + 2)'
  BY <1>8, <1>9, <1>10 DEF Stamps, Since, Capacity
<1>12. Stamped'
  BY <1>5, <1>11 DEF Stamped
<1>13. Capacity + 1 <= Cardinality(DOMAIN entries') + Cardinality(Worker)
  <2>1. /\ Cardinality(Since(ev1, ref)) <= Cardinality(Worker)
        /\ Cardinality(Since(ev1, ref)) \in Nat /\ Cardinality(Worker) \in Nat
        /\ Cardinality(DOMAIN entries') \in Nat /\ Capacity \in Nat
    <3>1. IsFiniteSet(DOMAIN entries')
      BY <1>2, EntriesFinite
    <3> QED
      BY <3>1, SinceFinite, FS_CardinalityType, SettingsAssumption DEF Capacity
  <2> QED
    BY <1>8, <2>1
<1> QED
  BY <1>12, <1>13

\* The step EvictionSlack asks for.
SlackStep ==
  \A w \in Worker :
    pc[w] = "evict" /\ pc'[w] # "evict" /\ DOMAIN entries' # DOMAIN entries
      => Cardinality(DOMAIN entries') > Capacity - Cardinality(Worker)

LEMMA SlackNext == SlackInv /\ NothingExpires /\ [Next]_vars => SlackInv' /\ SlackStep
<1> SUFFICES ASSUME SlackInv, NothingExpires, [Next]_vars PROVE SlackInv' /\ SlackStep
  OBVIOUS
<1>1. TypeOK' /\ TallyInv' /\ AtWalk'
  BY TypeNext, TallyNext, AtWalkNext DEF SlackInv
<1>2. ASSUME NEW w \in Worker, Begin(w) \/ Proceed(w) PROVE Stamped'
  BY <1>1, <1>2, ChargeStamped, CountStamped, ScanStamped, EvictStamped, OutsideStamped DEF Proceed
<1>3. ASSUME UNCHANGED <<entries, pc, ip, cursor, tally, selected>> PROVE Stamped'
  <2>1. PICK start \in [Worker -> Nat], ev \in [Worker -> Nat], ref \in Nat, top \in Nat :
          Stamps(start, ev, ref, top)
    BY DEF SlackInv, Stamped
  <2>2. Stamps(start, ev, ref, top)'
    BY <1>3, <2>1 DEF Stamps, Since, Seen, Capacity
  <2> QED
    BY <2>2 DEF Stamped
<1>4. Stamped'
  BY <1>2, <1>3 DEF Next, Tick, SetBack, vars, call
<1>5. ASSUME NEW w \in Worker, pc[w] = "evict", DOMAIN entries' # DOMAIN entries,
             pc'[w] # "evict"
      PROVE  Cardinality(DOMAIN entries') > Capacity - Cardinality(Worker)
  <2>1. Evict(w)
    <3>1. ASSUME NEW v \in Worker, Begin(v) \/ Charge(v) \/ Publish(v) PROVE FALSE
      <4>1. pc[v] # "evict" /\ v # w
        BY <1>5, <3>1 DEF Begin, Charge, Publish
      <4> QED
        BY <1>5, <3>1, <4>1 DEF Begin, Charge, Publish, SlackInv, TypeOK
    <3>2. ASSUME NEW v \in Worker, PruneShard(v) PROVE FALSE
      BY <1>5, <3>2, WalkType DEF PruneShard, SlackInv, Steps
    <3>3. ASSUME NEW v \in Worker, Evict(v) PROVE v = w
      BY <1>5, <3>3 DEF Evict, SlackInv, TypeOK
    <3> QED
      BY <1>5, <3>1, <3>2, <3>3
         DEF Next, Proceed, CountShard, ScanShard, MeasureShard, Tick, SetBack, vars
  <2>2. Capacity + 1 <= Cardinality(DOMAIN entries') + Cardinality(Worker)
    BY <1>1, <2>1, EvictStamped
  <2>3. /\ Cardinality(DOMAIN entries') \in Nat /\ Cardinality(Worker) \in Nat /\ Capacity \in Nat
    <3>1. IsFiniteSet(DOMAIN entries')
      BY <1>1, ClientsFinite, FS_Subset DEF TypeOK
    <3> QED
      BY <3>1, WorkersFinite, FS_CardinalityType, SettingsAssumption DEF Capacity
  <2> QED
    BY <2>2, <2>3
<1> QED
  BY <1>1, <1>4, <1>5 DEF SlackInv, SlackStep

\* While nothing expires, an eviction never leaves the map short of its capacity
\* by as many entries as there are workers, however many of them count the same
\* newcomers and however often each walks the shards anew (lines 130-139).
THEOREM EvictionSlackKept == Spec /\ []NothingExpires => EvictionSlack
<1>1. Init => SlackInv
  <2> SUFFICES ASSUME Init PROVE SlackInv
    OBVIOUS
  <2>1. TallyInv /\ AtWalk
    BY DEF Init, TallyInv, AtWalk
  <2> DEFINE zero == [w \in Worker |-> 0]
  <2>2. Stamps(zero, zero, 0, 1)
    BY DEF Init, Stamps, Enforcing
  <2>3. Stamped
    BY <2>2 DEF Stamped
  <2> QED
    BY <2>1, <2>3, TypeInit DEF SlackInv
<1>2. SlackInv /\ NothingExpires /\ [Next]_vars => SlackInv'
  BY SlackNext
<1>3. SlackInv /\ NothingExpires /\ [Next]_vars => SlackStep
  BY SlackNext
<1> QED
  BY <1>1, <1>2, <1>3, PTL DEF Spec, EvictionSlack, SlackStep

\* Nothing expires in a map watched for no longer than one window.
COROLLARY EvictionSlackWithinWindow ==
  ASSUME MaxTime <= Window
  PROVE  Spec => EvictionSlack
<1>1. TypeOK => NothingExpires
  <2> SUFFICES ASSUME TypeOK, NEW w \in Worker, NEW k \in DOMAIN entries PROVE ~Stale(w, k)
    BY DEF NothingExpires
  <2>1. now[w] \in 0..MaxTime /\ entries[k].window_start \in 0..MaxTime
    BY TypeFacts DEF Entry, Time
  <2> QED
    BY <2>1, BoundsAssumption, SettingsAssumption DEF Stale
<1> QED
  BY <1>1, TypeCorrect, EvictionSlackKept, PTL
=============================================================================

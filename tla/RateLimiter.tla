----------------------------- MODULE RateLimiter -----------------------------
(***************************************************************************)
(* The per-client rate limiter of src/src/rate_limit.rs.                   *)
(*                                                                         *)
(* check_inner is synchronous code, called by every connection task as its *)
(* first act; on the multi-threaded runtime that main.rs builds, as many   *)
(* calls run at once as there are Workers.  Their only shared state is the *)
(* DashMap `entries`, which locks one shard at a time: `entry` is atomic on *)
(* the shard of its key, while `retain`, `len` and `iter` visit the shards *)
(* one after the other and other calls run in between.  One action below   *)
(* is what one call does under one shard lock.                             *)
(***************************************************************************)
EXTENDS Integers, FiniteSets, Functions, FiniteSetsExt

CONSTANTS
  IP,           \* client addresses
  Worker,       \* calls of check_inner that can be in progress at once
  ShardCount,   \* number of DashMap shards
  ShardOf,      \* the shard each address hashes to
  MaxRequests,  \* RateLimitSettings.max_requests, at least 1 (config.rs:95)
  Window,       \* RateLimitSettings.window, at least 1 (config.rs:96)
  MaxEntries,   \* RateLimitSettings.max_entries
  NoIP,         \* stands for `None` where the code holds an Option<IpAddr>
  MaxTime,      \* bound: the last instant of the clock
  MaxChecks,    \* bound: calls of check in a behaviour
  MaxSetback    \* bound: how far one correction may move the clock back

ASSUME WorkersFinite == IsFiniteSet(Worker)
ASSUME ClientsFinite == IsFiniteSet(IP) /\ NoIP \notin IP
ASSUME ShardsAssumption == ShardCount \in Nat \ {0} /\ ShardOf \in [IP -> 0..(ShardCount - 1)]
ASSUME SettingsAssumption == /\ MaxRequests \in Nat \ {0}
                             /\ Window \in Nat \ {0}
                             /\ MaxEntries \in Nat
ASSUME BoundsAssumption == MaxTime \in Nat /\ MaxChecks \in Nat /\ MaxSetback \in Nat

VARIABLES
  clock,      \* Clock::utc, the wall clock in units of the window's resolution
  entries,    \* DashMap<IpAddr, RateEntry>: a function on the addresses present
  gauge,      \* the fingermouse.rate_limiter.entries gauge
  pc,         \* what each worker's call does next
  ip,         \* the argument of its call
  now,        \* the instant it read on entry
  cursor,     \* the shard its current walk visits next
  tally,      \* the sum its current `len` has reached
  selected,   \* `selected` in oldest_key_excluding
  outcome,    \* the verdict of its call, "none" until decided
  retry_in,   \* the wait it reports with a refusal
  checks,     \* calls made so far (history)
  admitted,   \* admitted[k][t]: requests of k admitted at instant t (history)
  refused     \* refused[k]: requests of k refused (history)

call   == <<ip, now, cursor, tally, selected, outcome, retry_in>>
ledger == <<admitted, refused>>
vars   == <<clock, entries, gauge, pc, call, checks, ledger>>

Time  == 0..MaxTime
Shard == 0..(ShardCount - 1)
Entry == [window_start : Time, count : 0..MaxRequests]

Candidate   == [key : IP \cup {NoIP}, start : Time]
NoCandidate == [key |-> NoIP, start |-> 0]

Steps == {"idle", "prune", "charge", "capacity", "scan", "rescan", "evict",
          "measure", "publish"}
\* A call in one of these has charged its client and has yet to leave enforce_capacity.
Enforcing == {"capacity", "scan", "rescan", "evict"}

(***************************************************************************)
(* The decisions of the code, each named for the test it makes.            *)
(***************************************************************************)

\* with_clock: a configured capacity of 0 is taken as 1.
Capacity == IF MaxEntries = 0 THEN 1 ELSE MaxEntries

OnShard(s) == {k \in DOMAIN entries : ShardOf[k] = s}

\* Slip: the cutoff forgets to subtract the window.
StaleAtOnce(w, k) == entries[k].window_start < now[w]

\* The complement of the predicate given to retain.
Stale(w, k) == entries[k].window_start < now[w] - Window

\* Slip: `>` for `>=`, so a window is still running at the instant it ends.
LapsedLate(w, e) == now[w] - e.window_start > Window

\* The window of entry e has run out by the instant the call read.
Lapsed(w, e) == now[w] - e.window_start >= Window

\* Slip: `>` for `>=`, one request more than the limit.
SpentLate(e) == e.count > MaxRequests

Spent(e) == e.count >= MaxRequests

Opened(w) == [window_start |-> now[w], count |-> 0]

\* Slip: a lapsed window is opened anew without `count = 0`.
CurrentKeepingCount(w) ==
  CASE ip[w] \notin DOMAIN entries -> Opened(w)
    [] ip[w] \in DOMAIN entries /\ Lapsed(w, entries[ip[w]]) ->
         [entries[ip[w]] EXCEPT !.window_start = now[w]]
    [] OTHER -> entries[ip[w]]

\* or_insert_with, then the reset: the entry the verdict is given on.
Current(w) ==
  IF ip[w] \in DOMAIN entries /\ ~Lapsed(w, entries[ip[w]])
    THEN entries[ip[w]]
    ELSE Opened(w)

\* Slip: the elapsed time is added to the window, not taken from it.
RetryAfterSum(w, e) == Window + (now[w] - e.window_start)

\* `remaining.to_std()` refuses a negative duration and falls back to one second.
RetryAfter(w, e) ==
  LET remaining == Window - (now[w] - e.window_start)
  IN  IF remaining >= 0 THEN remaining ELSE 1

\* Slip: the map is allowed one entry more.
OverCapacityLate(n) == n > Capacity + 1

OverCapacity(n) == n > Capacity

\* oldest_key_excluding skips the protected address on its first walk only.
Considered(w, k) == pc[w] = "rescan" \/ k # ip[w]

\* Slip: the test `key == protected` is missing.
AfterWalkUnprotected(w, found) ==
  CASE found.key = NoIP /\ pc[w] = "scan" -> "rescan"
    [] found.key = NoIP /\ pc[w] = "rescan" -> "measure"
    [] OTHER -> "evict"

\* Slip: on finding its own entry the call looks for another victim instead of
\* breaking out of the loop.
AfterWalkRetry(w, found) ==
  CASE found.key = NoIP /\ pc[w] = "scan" -> "rescan"
    [] found.key = NoIP /\ pc[w] = "rescan" -> "measure"
    [] found.key # NoIP /\ found.key = ip[w] -> "scan"
    [] OTHER -> "evict"

\* What enforce_capacity does with the key its walk has found.
AfterWalk(w, found) ==
  CASE found.key = NoIP /\ pc[w] = "scan" -> "rescan"
    [] found.key = NoIP /\ pc[w] = "rescan" -> "measure"
    [] found.key # NoIP /\ found.key = ip[w] -> "measure"
    [] OTHER -> "evict"

(***************************************************************************)
(* The steps of a call.                                                    *)
(***************************************************************************)

\* Worker w visits one shard; past the last one its call goes on to `next`.
Walk(w, next) ==
  IF cursor[w] = ShardCount - 1
    THEN /\ pc' = [pc EXCEPT ![w] = next]
         /\ cursor' = [cursor EXCEPT ![w] = 0]
    ELSE /\ cursor' = [cursor EXCEPT ![w] = @ + 1]
         /\ UNCHANGED pc

\* check_inner is entered: the clock is read before any lock is taken.
Begin(w) ==
  /\ pc[w] = "idle"
  /\ checks < MaxChecks
  /\ \E k \in IP : ip' = [ip EXCEPT ![w] = k]
  /\ now' = [now EXCEPT ![w] = clock]
  /\ pc' = [pc EXCEPT ![w] = "prune"]
  /\ checks' = checks + 1
  /\ UNCHANGED <<clock, entries, gauge, cursor, tally, selected, outcome,
                 retry_in, ledger>>

\* prune_stale: retain on one shard.
PruneShard(w) ==
  /\ pc[w] = "prune"
  /\ entries' = Restrict(entries, {k \in DOMAIN entries :
                                     k \in OnShard(cursor[w]) => ~Stale(w, k)})
  /\ Walk(w, "charge")
  /\ UNCHANGED <<clock, gauge, ip, now, tally, selected, outcome, retry_in,
                 checks, ledger>>

\* Slip: the request that opens the window is not counted in it.
ChargedFromSecond(w) ==
  IF Spent(Current(w)) \/ ip[w] \notin DOMAIN entries
    THEN Current(w)
    ELSE [Current(w) EXCEPT !.count = @ + 1]

\* The entry of the client, with `count` raised unless the quota is spent.
Charged(w) ==
  IF Spent(Current(w)) THEN Current(w)
                       ELSE [Current(w) EXCEPT !.count = @ + 1]

\* The block under the entry guard: insert, reset, verdict and count in one.
Charge(w) ==
  /\ pc[w] = "charge"
  /\ entries' = [k \in DOMAIN entries \cup {ip[w]} |->
                   IF k = ip[w] THEN Charged(w) ELSE entries[k]]
  /\ \/ /\ Spent(Current(w))
        /\ outcome' = [outcome EXCEPT ![w] = "limited"]
        /\ retry_in' = [retry_in EXCEPT ![w] = RetryAfter(w, Current(w))]
        /\ refused' = [refused EXCEPT ![ip[w]] = @ + 1]
        /\ UNCHANGED admitted
     \/ /\ ~Spent(Current(w))
        /\ outcome' = [outcome EXCEPT ![w] = "ok"]
        /\ admitted' = [admitted EXCEPT ![ip[w]][clock] = @ + 1]
        /\ UNCHANGED <<retry_in, refused>>
  /\ pc' = [pc EXCEPT ![w] = "capacity"]
  /\ UNCHANGED <<clock, gauge, ip, now, cursor, tally, selected, checks>>

\* `self.entries.len() > max_entries`, one shard.  The test ahead of the loop
\* and the loop's own read the same and act the same, so both are this action.
CountShard(w) ==
  LET total == tally[w] + Cardinality(OnShard(cursor[w]))
      last  == cursor[w] = ShardCount - 1
  IN  /\ pc[w] = "capacity"
      /\ Walk(w, IF OverCapacity(total) THEN "scan" ELSE "measure")
      /\ tally' = [tally EXCEPT ![w] = IF last THEN 0 ELSE total]
      /\ selected' = [selected EXCEPT ![w] = NoCandidate]
      /\ UNCHANGED <<clock, entries, gauge, ip, now, outcome, retry_in, checks,
                     ledger>>

\* The entries of one shard that can replace the selection, `start <
\* current_start` deciding between shards and the map's order among equals.
Older(w) ==
  LET seen == {k \in OnShard(cursor[w]) : Considered(w, k)}
  IN  {k \in seen :
         /\ \A j \in seen : entries[k].window_start <= entries[j].window_start
         /\ selected[w] = NoCandidate
              \/ entries[k].window_start < selected[w].start}

\* oldest_key_excluding: the iterator on one shard.
ScanShard(w) ==
  LET found == IF Older(w) = {}
                 THEN {selected[w]}
                 ELSE {[key |-> k, start |-> entries[k].window_start] : k \in Older(w)}
  IN  /\ pc[w] \in {"scan", "rescan"}
      /\ \E pick \in found :
           /\ selected' = [selected EXCEPT ![w] = pick]
           /\ Walk(w, AfterWalk(w, pick))
      /\ UNCHANGED <<clock, entries, gauge, ip, now, tally, outcome, retry_in,
                     checks, ledger>>

\* Slip: the loop evicts again without counting the entries anew.
EvictUnchecked(w) ==
  /\ pc[w] = "evict"
  /\ entries' = Restrict(entries, DOMAIN entries \ {selected[w].key})
  /\ pc' = [pc EXCEPT ![w] = "scan"]
  /\ selected' = [selected EXCEPT ![w] = NoCandidate]
  /\ UNCHANGED <<clock, gauge, ip, now, cursor, tally, outcome, retry_in,
                 checks, ledger>>

\* entries.remove(&key), which finds nothing if another call was faster.
Evict(w) ==
  /\ pc[w] = "evict"
  /\ entries' = Restrict(entries, DOMAIN entries \ {selected[w].key})
  /\ pc' = [pc EXCEPT ![w] = "capacity"]
  /\ UNCHANGED <<clock, gauge, call, checks, ledger>>

\* record_entry_count: `len` again, one shard.
MeasureShard(w) ==
  /\ pc[w] = "measure"
  /\ tally' = [tally EXCEPT ![w] = @ + Cardinality(OnShard(cursor[w]))]
  /\ Walk(w, "publish")
  /\ UNCHANGED <<clock, entries, gauge, ip, now, selected, outcome, retry_in,
                 checks, ledger>>

\* The gauge is set and the call returns: its locals are gone.
Publish(w) ==
  /\ pc[w] = "publish"
  /\ gauge' = tally[w]
  /\ pc' = [pc EXCEPT ![w] = "idle"]
  /\ ip' = [ip EXCEPT ![w] = NoIP]
  /\ now' = [now EXCEPT ![w] = 0]
  /\ tally' = [tally EXCEPT ![w] = 0]
  /\ selected' = [selected EXCEPT ![w] = NoCandidate]
  /\ outcome' = [outcome EXCEPT ![w] = "none"]
  /\ retry_in' = [retry_in EXCEPT ![w] = 0]
  /\ UNCHANGED <<clock, entries, cursor, checks, ledger>>

(***************************************************************************)
(* The wall clock, which nothing in the limiter waits for.                 *)
(***************************************************************************)

Tick ==
  /\ clock < MaxTime
  /\ clock' = clock + 1
  /\ UNCHANGED <<entries, gauge, pc, call, checks, ledger>>

\* chrono's Utc is not monotonic: the system time can be corrected backwards.
SetBack ==
  /\ \E t \in Time : t < clock /\ clock - t <= MaxSetback /\ clock' = t
  /\ UNCHANGED <<entries, gauge, pc, call, checks, ledger>>

Init ==
  /\ clock = 0
  /\ entries = [k \in {} |-> NoCandidate]
  /\ gauge = 0
  /\ pc = [w \in Worker |-> "idle"]
  /\ ip = [w \in Worker |-> NoIP]
  /\ now = [w \in Worker |-> 0]
  /\ cursor = [w \in Worker |-> 0]
  /\ tally = [w \in Worker |-> 0]
  /\ selected = [w \in Worker |-> NoCandidate]
  /\ outcome = [w \in Worker |-> "none"]
  /\ retry_in = [w \in Worker |-> 0]
  /\ checks = 0
  /\ admitted = [k \in IP |-> [t \in Time |-> 0]]
  /\ refused = [k \in IP |-> 0]

\* The steps a call in progress takes on its own.
Proceed(w) ==
  \/ PruneShard(w)
  \/ Charge(w)
  \/ CountShard(w)
  \/ ScanShard(w)
  \/ Evict(w)
  \/ MeasureShard(w)
  \/ Publish(w)

Next ==
  \/ \E w \in Worker : Begin(w) \/ Proceed(w)
  \/ Tick
  \/ SetBack

Spec == Init /\ [][Next]_vars

\* check_inner never awaits: once entered, its thread runs it to the end.
FairSpec == Spec /\ \A w \in Worker : WF_vars(Proceed(w))

-------------------------------------------------------------------------------

Idle == \A w \in Worker : pc[w] = "idle"

\* A count is under way only in the walks that count, a verdict is there from the
\* charge on and nothing is remembered of a walk before it.
LocalsInPlace ==
  \A w \in Worker :
    /\ tally[w] # 0 => pc[w] \in {"capacity", "measure", "publish"}
    /\ (outcome[w] = "none") <=> (pc[w] \in {"idle", "prune", "charge"})
    /\ selected[w] # NoCandidate => outcome[w] # "none"

\* Every variable holds what its Rust type and its place in the call allow, and no
\* call takes over the argument, the tally, the candidate or the verdict of another.
TypeOK ==
  /\ clock \in Time
  /\ DOMAIN entries \subseteq IP
  /\ entries \in [DOMAIN entries -> Entry]
  /\ gauge \in Nat
  /\ pc \in [Worker -> Steps]
  /\ ip \in [Worker -> IP \cup {NoIP}]
  /\ \A w \in Worker : (ip[w] = NoIP) <=> (pc[w] = "idle")
  /\ now \in [Worker -> Time]
  /\ cursor \in [Worker -> Shard]
  /\ tally \in [Worker -> Nat]
  /\ selected \in [Worker -> Candidate]
  /\ outcome \in [Worker -> {"none", "ok", "limited"}]
  /\ retry_in \in [Worker -> Int]
  /\ checks \in Nat
  /\ admitted \in [IP -> [Time -> Nat]]
  /\ refused \in [IP -> Nat]
  /\ LocalsInPlace

\* Whatever the interleaving of prunes, resets and evictions, an entry another
\* call can see has been charged at least once and never beyond the quota
\* (lines 92-112 insert, reset and count under one guard).
EntriesCharged ==
  \A k \in DOMAIN entries : entries[k].count \in 1..MaxRequests

\* The map outgrows its capacity by no more than the calls that have inserted
\* and are still enforcing it, even though each of them counts the shards at
\* different moments (lines 114 and 124-141).
CapacityBound ==
  Cardinality(DOMAIN entries)
    <= Capacity + Cardinality({w \in Worker : pc[w] \in Enforcing})

\* A call never evicts the entry it has just charged (lines 132 and 135-138).
OwnEntryNotVictim ==
  \A w \in Worker : pc[w] = "evict" => selected[w].key \notin {ip[w], NoIP}

\* A refused client is told to wait for some time, never for zero or less and
\* never past the end of a window opened at this moment, even if another call
\* opened its window after this one had read the clock (lines 89 and 103-108).
RetryInReach ==
  \A w \in Worker :
    outcome[w] = "limited" => /\ retry_in[w] > 0
                              /\ now[w] + retry_in[w] <= clock + Window

\* Requests of k admitted between instants a and b, both included.
AdmittedIn(k, a, b) ==
  MapThenSumSet(LAMBDA t : admitted[k][t], {t \in Time : a <= t /\ t <= b})

\* README.md:18 promises a sliding window: no stretch of time as long as the
\* window sees more requests of one client admitted than the limit.
SlidingWindow ==
  \A k \in IP, a \in Time : AdmittedIn(k, a, a + Window - 1) <= MaxRequests

\* What the fixed window gives instead: a stretch as long as the window sees the
\* end of one window and the start of the next, at most twice the limit, and one
\* window more for each other call that read the clock before the old window
\* was pruned and charges its client afterwards (lines 89-100).
BurstBound ==
  \A k \in IP, a \in Time :
    AdmittedIn(k, a, a + Window - 1) <= (1 + Cardinality(Worker)) * MaxRequests

\* A call refuses only a client that has had its full quota admitted since less
\* than a window before the instant the call read.  Admissions made while the call
\* stalled count too, for its client's window may have been opened meanwhile; a call
\* that has not stalled refuses on the strength of the last window alone (97-108).
RefusalJustified ==
  [][\A w \in Worker :
       outcome[w] = "none" /\ outcome'[w] = "limited"
         => AdmittedIn(ip[w], now[w] - Window + 1, clock) >= MaxRequests]_vars

\* While the map has room for every client, neither pruning nor a reset forgets
\* a charge before a whole window has passed on the clock, not even through a
\* call that read the clock long ago (lines 97-100 and 119-122).
UnexpiredKept ==
  [][\A k \in DOMAIN entries :
       clock - entries[k].window_start < Window
         => /\ k \in DOMAIN entries'
            /\ entries'[k].window_start = entries[k].window_start
            /\ entries'[k].count >= entries[k].count]_entries

\* README.md:43 lets the capacity decide what is retained.  Calls that enforce it
\* at once may each evict for the same newcomer, the later ones from a map that
\* already fits; as long as nothing expires, the map falls short of its capacity
\* by at most the other calls (lines 130-139).
EvictionSlack ==
  [][\A w \in Worker :
       pc[w] = "evict" /\ pc'[w] # "evict" /\ DOMAIN entries' # DOMAIN entries
         => Cardinality(DOMAIN entries') > Capacity - Cardinality(Worker)]_vars

\* rate_limit.rs:67 describes the gauge as the current number of entries: once no
\* call is in progress it reads the size of the map.
GaugeAgreesWhenIdle == Idle => gauge = Cardinality(DOMAIN entries)

\* Calls at once do not keep each other in the eviction loop: from any number of
\* calls on, every call in progress returns unless a further call begins, whose
\* insertion is then what holds it (lines 130-140).  A single call may be held for
\* as long as others keep inserting; what cannot happen is that none returns.
QuietCallReturns ==
  \A w \in Worker, n \in 1..MaxChecks :
    pc[w] # "idle" /\ checks = n ~> pc[w] = "idle" \/ checks > n

(***************************************************************************)
(* The accounts of WindowQuota as the map holds them.  The step that       *)
(* charges grants or refuses, pruning closes accounts and eviction forgets *)
(* them; every other step of a call leaves the accounts alone.             *)
(***************************************************************************)

account ==
  [k \in IP |-> IF k \in DOMAIN entries
                  THEN [opened |-> entries[k].window_start, used |-> entries[k].count]
                  ELSE [opened |-> 0, used |-> 0]]

Quota == INSTANCE WindowQuota WITH Limit <- MaxRequests,
                                   Forgetful <- Cardinality(IP) > Capacity

\* However the calls interleave over the shards, and however late they charge
\* after reading the clock, each takes effect at once, on its own client's
\* account (check_inner, lines 88-117; for a clock that is not set back).
ImplementsQuota == Quota!Spec
=============================================================================

# Fingermouse in TLA+

TLA+ modules, TLC configurations and TLAPS proofs for
[fingermouse](../src/README.md), a Tokio-based finger server in Rust
(`src/src/`), and for the scripts that keep the repository's spelling policy
up to date (`src/scripts/`). Line numbers refer to the files in `src/`.

- [The system](#the-system): components, state, interactions, what is hard
- [Modules](#modules): how each module corresponds to the code
- [Runs](#runs): what TLC checks, on which bounds, under which fairness
- [Proofs](#proofs): what holds for every value of the constants, and why
- [Disagreements found](#disagreements-found)
- [Not modelled](#not-modelled) and [Plan](#plan)

To check everything by hand, inside this directory:

    tlc -workers 2 -config limiter_contended.cfg MCRateLimiter    # any run of the table below
    tlapm RateLimiterProofs.tla                                   # any *Proofs module

## The system

| Component | Source | State | Operations |
| --- | --- | --- | --- |
| Rate limiter | `rate_limit.rs` | a `DashMap` from client address to `RateEntry {window_start, count}`; a gauge | `check`: prune stale entries, charge the client, enforce the capacity, publish the gauge |
| Server | `server.rs` | the listener; one task per connection | accept loop; per connection: rate check, read one line under a timeout, parse, look up, write one answer under a timeout |
| Storage | `storage.rs` | none of its own: two files per user in an object store | `load_user`: read and parse the profile, then the plan if asked for |
| Metrics endpoint | `telemetry.rs` | one task; a one-shot shutdown channel; the handle `run()` owns | accept, answer a scrape, retry after a failed accept, take the signal; `shutdown` and `drop` on the handle |
| Start and stop | `main.rs`, `config.rs` | how far `run()` is, what it has failed at, who owns the endpoint's handle | read the options, install metrics, make the store's directory and open it, bind, serve, shut the endpoint down |
| Query parser | `query.rs`, `identity.rs` | none | `FingerQuery::parse`, `Username::parse`, `HostName::parse` |
| Profile and framing | `user.rs`, `framing.rs` | none | `FingerProfile::parse`, `render`; line endings and control characters of an answer |
| Configuration | `config.rs` | the settings and the set of served hosts, fixed at the start | `from_cli`: defaults, clamps, host names; `build_store` with the directory it makes |
| Dictionary cache | `scripts/generate_typos_config.py`, `typos_rollout.py`, `typos_rollout_cache.py` | three files: an untracked cache, its metadata sidecar, the tracked `typos.toml` | `main`: refresh the cache from a file or over HTTPS, fall back, generate `typos.toml` |
| Dictionary merging and rendering | `scripts/typos_rollout.py` | none | `merge_dictionaries`, `generate_word_mappings`, `render_typos_config` |
| Build standard and workflow contracts, end-to-end tests | `tests/` | none of the system's | assertions on build files; drivers of a running server |

How they interact. `main.rs` builds a multi-threaded runtime, installs the
metrics endpoint (a task) and runs the server until its accept fails. The
server spawns a task per connection. A task calls the limiter synchronously,
awaits the client's line, parses it synchronously, awaits the store, awaits the
client taking the answer. The tasks share nothing but the limiter's map and the
metrics. `run()` talks to the metrics endpoint through a one-shot channel and
its join handle. The scripts share nothing with the server; successive runs
communicate through the three files they leave.

What is hard, component by component, and what correctness means there (each
hazard is listed at its line in `PROJECT.json`):

- **Rate limiter.** Calls run in parallel on several threads. The map is
  sharded: only what happens under one shard's lock is atomic, while `retain`,
  `len` and `iter` walk the shards with other calls in between. Each call reads
  the clock before it takes any lock. The victim of an eviction is chosen in one
  walk and removed later. Correct means: no charge is lost or doubled, no
  refusal is undeserved, the map stays near its capacity, a call does not evict
  its own charge, and calls do not keep each other from ending.
- **Server.** Deadlines race bytes that are arriving. Clients stall, close
  their side, reset, or take nothing. A request is bounded by a read of one byte
  too many. A failed accept ends the process under all the tasks. Correct means:
  the store is only asked for what was really requested, a complete line is not
  dropped in silence, half a line is refused, and no connection lasts for ever.
- **Storage.** A user's two files change between and during the four awaits of
  a lookup. Correct means: what is returned was there, and its two halves fit.
- **Metrics endpoint.** A shutdown signal races the connection in progress;
  one task serves them all, one at a time, with no deadline of its own. Correct
  means: no scrape is cut short, nothing is sent after the join, and shutdown
  ends.
- **Dictionary cache.** A run may stop between the cache and its metadata; the
  authority may publish between the `stat` and the read; the authority may be
  another one than last time; somebody may remove one of the untracked files.
  Correct means: the metadata of an authority never claims more than its cache
  holds, and a run that says it is current is; a switch of authority that was cut
  short breaks the second ([Disagreements](#disagreements-found)).
- **Start and stop.** Six steps can fail, each at a point where the endpoint may
  be scraped already, and they do not end alike: some failures wait for the
  endpoint, some drop its handle. The store's directory may be made by another
  process between the two questions and the creation. Correct means: no scrape
  is left in the middle once the server was reached, a failed process ends, and
  another process on the same root does no harm.
- **Parser, profile, configuration, merging.** Pure functions: correct means
  agreement with a grammar or a reference definition at the boundaries. They
  meet in an answer: what one lets through the next relies on.

## Modules

| Module | Models | Used by |
| --- | --- | --- |
| `RateLimiter` | `check_inner`, shard by shard, any number of calls at once | `MCRateLimiter`, `RateLimiterProofs`, `CapacityProofs` |
| `WindowQuota` | the abstract limiter: one account per client, one step per request | `RateLimiter` (refinement) |
| `FingerServer` | the accept loop and the connection handler | `MCFingerServer`, `FingerServerProofs` |
| `UserStorage` | `load_user` against a publisher | `UserStorageProofs` |
| `MetricsEndpoint` | the endpoint's task, its handle, the scrapers | `Fingermouse`, `MetricsEndpointProofs` |
| `Fingermouse` | the process around the endpoint: start, failures, end, settings | `MCFingermouse`, `FingermouseProofs` |
| `Query` | the query line and the names, as operators on texts | `FingerProfile` |
| `FingerProfile` | parsing and rendering a profile, framing an answer | `Exchange` |
| `Exchange` | options, line, query, answer: the contents of one exchange after another | `MCExchange`, `ExchangeProofs` |
| `DictionaryCache` | `main()` of the generator with `refresh_base` | `DictionaryCacheProofs` |

In each module an action is what the code does without another task, thread or
process being able to observe the middle: everything under one lock, or between
two awaits, or between two operations on files. Definitions introduced by
`Slip:` in their comment are plausible mistakes in the definition that follows
them; they are part of no specification and show that a property notices.

### RateLimiter

`entries` is the `DashMap` as a function on the addresses present; `pc`, `ip`,
`now`, `cursor`, `tally`, `selected`, `outcome` and `retry_in` are the locals of
each `Worker`'s call; `clock` is the wall clock and `gauge` the metric.
`admitted`, `refused` and `checks` are history. `Begin` is the entry of
`check_inner` with its reading of the clock; `PruneShard` is `retain` on one
shard; `Charge` is the whole block under the entry guard (insert, reset,
verdict, count); `CountShard`, `ScanShard` and `Evict` are `enforce_capacity`
with `oldest_key_excluding`, its first walk (`scan`) protecting the caller's
entry and its second (`rescan`) not; `MeasureShard` and `Publish` are
`record_entry_count` and the return. `Tick` and `SetBack` move the clock: `Utc`
is not monotonic.

Shards and their locks belong to the DashMap library and are modelled as the
code relies on them. Instants are integers in the window's resolution; the
limits of chrono's range (lines 120 and 173) are in `Fingermouse`, where the
window comes from.

`WindowQuota` says the same without map, shards or calls in progress: an
`account` per client, `Grant` or `Refuse` in one step by that account alone,
`Close` for windows that are over and `Forget` when there are more clients than
accounts. `RateLimiter!ImplementsQuota` is the refinement: `account` reads the
map, and `Charge` is the step at which a call takes effect.

### FingerServer

`phase[c]` is where the task of connection `c` is, `sent`, `ended` and `drains`
what its client has done, `answer` what the task has settled on, `outcome` how
the connection ended. `server` is the accept loop: `listening`, `failed` after
an accept error (line 61 propagates it), `exited` when the runtime has dropped
every task. A request is a number of bytes with or without a newline, and the
constant `Meaning` says what the parser and the host list make of a line of that
many bytes, so that one that was cut short may mean something else; without a
newline it is refused whatever it means (`Parsed`, query.rs:44). `Exchange` is the
same path with real lines. `Check` charges the client's
account in its running window, which is what `WindowQuota` promises; `Renew`
opens a new window. `ReadTimesOut` is possible only while the read would go on
waiting, because `tokio::time::timeout` polls the read before the deadline.
`drains` is fixed when the client connects: `WriteDone` needs a client that takes
the answer, and on one that does not the write waits until its deadline
(`WriteFails`).
`LoadDone` is the store's answer, which the code does not limit in time.

### UserStorage

A file is the version it holds, 0 if there is none, and is replaced as a whole.
`GetProfile`, `ProfileBytes`, `GetPlan` and `PlanBytes` are the four awaits of
`load_user`; each may fail with a storage error. Plans are optional
(README.md:8-9): the versions in `Planless` come without one. The publisher is
outside the repository. It puts a new plan in place, or takes the old one away,
before the profile, and removes the profile before the plan, because that is the
order for which `load_user`'s order of reading is safe; the properties are
promises to such a publisher. What a record without a plan means is
`MissingPlanNotOlder`: there was none in its profile's version or in one that was
being put in place since. Paths and the store's
prefix are not modelled.

### MetricsEndpoint

`task` is where the endpoint's task is: at `select!`, in one of the handler's
awaits (`read`, `headers`, `body`, `close`), asleep after a failed accept, or
over. `signal` is the one-shot channel, `owner` what `run()` has done with its
handle: `Shutdown` and `Join` are `shutdown().await`, `DropHandle` the drop when
the store cannot be built, `EndProcess` the runtime dropping the task. The
scrapers connect, ask, close their side, reset, and may come back. The page is
one write; that it fits the socket's buffer is an assumption.

### Fingermouse

`step` is where `run()` is, `fault` what it has failed at, `installed` whether
it was given a metrics address, `root` what is at the store root's path, `cli`
the numbers on the command line. `Configure`, `InstallMetrics`, `CheckExists`,
`CheckIsDir`, `CreateRoot`, `OpenStore` and `Bind` are the calls of `run()` in
order, each with its way to fail; `ChangeRoot` is anybody else at the same path
between them, and `hampered` remembers that the path was a file or absent in the
meantime. `AcceptFails` is the only end of serving. `StopEndpoint` and
`EndServed` are the way out of a server that has been reached, `DropEndpoint`
and `EndEarly` the way out of a store that could not be built; both run the
module's parent, `MetricsEndpoint`, whose task and scrapers act through
`Endpoint(A)` as long as there is a process. While there is no endpoint its
variables keep their initial values. The server is the one state `serving`: its
connections share nothing with the endpoint, and `FingerServer` has them.

`Settings` is `from_cli`'s clamping followed by `chrono_duration`, whose range
is the constants `LongestDelta` and `Calendar`: a window that is longer than the
first becomes one second, and one between the two cannot be subtracted from
today's date on line 120 of `rate_limit.rs`.

### Query, FingerProfile, Exchange

A text is a sequence of characters of which only the classes that the code
distinguishes matter: `Small` and `Caps` letters, the marks, `Space`, `Control`,
`Symbol`, what is `Foreign` to ASCII, and `Bad` bytes that are no UTF-8. The tab
is both `Space` and `Control`, CR and LF are neither. `Refusal` gives the first
reason, in the order of the code, for which `FingerQuery::parse` refuses a line;
`QueryOf` is the query of a line without one. `ProfileError`, `Label`,
`Sanitised`, `PlanLines` and `Render` are `user.rs`, `Framed` and `Bytes` the
CRLF buffer. A document is what the UTF-8 and TOML decoders make of a file; no
key of a table comes twice, as in every TOML table. Each fixed wording of an
answer is one printable character (`WordingAssumption`), and a character like any
other: users may write it in a value, a plan or a key, so that a plan of the one
line "(no plan)" and a key that holds `Plan:` between line ends are among the
inputs. What is lost by one character for a wording is a part of it: half of
"Plan:" is no text of the model, nor is a wording at the start of a key raised by
`normalise_key` as its first letter would be.

`Exchange` joins them as `server.rs` does: `Start` takes the operator's options
or refuses them, `Type` and `ParseQuery` make a line of `Piece`s and end it in
CRLF, LF or nothing, `ChooseHost` is `respond_to_query` up to the store,
`LoadUser` and `LoadFails` the store's answers, `NextConnection` the next one.
`stage`, `query`, `found` and `answer` are its locals. What happens between
these steps when somebody stalls or leaves is in `FingerServer` and
`UserStorage`. `ParseExact` is a reference definition: `Readings` describes the
accepted lines by where a name and a host stand in them, without tokens or
splitting.

### DictionaryCache

A dictionary is the authority it comes from and a stamp that grows with every
publication: the mtime of a file, the `Last-Modified` and `ETag` of an HTTPS
answer. `cache`, `sidecar` and `config` are the three files, `run[h]` a run in
progress. `Stat`, `ReadMetadata`, `Compare` and `ReadSource` are
`_refresh_local`; `Fetch` is `_refresh_http` up to the answer, with 304 an error
as `urllib` has it, and `Judge` is `_remote_response_result`; `WriteCache` and
`WriteMetadata` are two atomic replacements; `Render` and `Install` are the
end of `main`. A step that fails goes where the code's handlers take it
(`StaleOrRaise`, `WriteError`, `Raise`): a failed write after a download is
caught with the download's own errors and ends as `stale-cache`. `found` remembers whether
a run found the metadata of one authority beside the dictionary of another
(`Split`). An answer that is not HTTP and a body that ends early are no `OSError`:
they pass `_refresh_http`'s handlers and end the run as `failed`. `Crash` stops a
run anywhere; `Tidy` removes an untracked file. That the tracked `typos.toml`
parses when the fallback looks at it is assumed; which validators an authority
sends is the constants `Tagged` and `Dated`; a file's mtime identifies its
content (two publications within the clock's resolution are not modelled).

## Runs

| Run | Question | Bounds | Distinct states |
| --- | --- | --- | --- |
| `limiter_contended` | what every interleaving preserves: `TypeOK`, `EntriesCharged`, `CapacityBound`, and how far concurrent evictions overshoot: `EvictionSlack` | 2 calls at once, 3 in all, 3 clients on 2 shards, capacity 2, clock set back | 400 264 |
| `limiter_quota` | what a client gets: `BurstBound`, `RetryInReach`, `RefusalJustified`, `UnexpiredKept` | 2 calls at once, 5 in all, one client, a window of 5 instants out of 8 | 277 073 |
| `limiter_refines` | `OwnEntryNotVictim`, `ImplementsQuota`, and `QuietCallReturns` under `FairSpec` | 2 clients on one shard of 2, capacity 1, 3 calls | 414 281 |
| `server_connections` | `TypeOK`, `LookupEarned`, `LineAnswered`, `NoLineRefused`, `ConnectionEnds` under `FairSpec` | 2 connections of one client with a quota of 1, requests of 0 to 4 bytes where 3 fit | 327 075 |
| `exchange` | `TypeOK`, `ParseExact`, `CaseBlind`, `MismatchOnlyForeign`, `AnswerFramed`, `PlanShown` | lines of up to 4 of 14 pieces and 3 ends, names of 2, hosts of 3, 9 sets of options, 35 profiles, plans of up to 3 characters out of 5 and of up to 2 lines or line ends worded like the server's | 201 817 |
| `process_lifecycle` | `TypeOK`, `ProcessOK`, `NoScrapeCut`, `WholePage`, `ServedEndsOrderly`, `SharedRootHarmless`, `SettingsServe`, `QuietAfterJoin`; `ShutdownReturns`, `ScrapeServed`, `FaultEnds` under `PoliteProcess` | 2 scrapers that come back for ever, 4 sets of numbers on both sides of every clamp, a calendar of 100 and durations of 200 seconds | 91 696 |
| `storage_reads` | `TypeOK`, `ProfileWasInPlace`, `PlanNotOlder`, `MissingPlanNotOlder` | 1 call at a time, 4 versions, one malformed, one undecodable, two without a plan | 2 672 |
| `dictionary_refresh` | `TypeOK`, `MetadataBehind`, `ReportedFresh` | 2 local and 1 remote authority, 4 publications, one malformed, runs and crashes without limit | 530 113 |
| `violation_sliding` | README's sliding window | 1 call at a time that never stalls, limit 2, window 2 | refuted |
| `violation_gauge` | the gauge of an idle limiter | 2 calls at once | refuted |
| `violation_shutdown` | `shutdown()` returns, without polite scrapers | 1 scraper | refuted |
| `violation_switch` | another authority replaces the cache | 2 local authorities | refuted |

Why the bounds are enough. The limiter's conflicts are between two calls: one
that is about to act on what it saw, and one that has changed it since. Three
calls let the second one be followed by a fresh one, and with fewer entries than
clients an insertion into a full map must evict; two clients share a shard and
one does not, so walks are interrupted both between and within what they compare.
`CapacityBound` and `EvictionSlack` are reached there: a single call that has yet
to evict leaves the map one entry over its capacity, and two calls that evict for
the same surplus leave one entry of two.
`limiter_quota` has the longest window relative to the number of calls, so that
a call can read the clock, stall while the window ends and a new one opens, and
charge late; `BurstBound` is reached there in that way, with three requests
admitted on a limit of one. In `server_connections` the second
connection meets a spent quota, and a line of 0, 1, 2, 3 or 4 bytes is an empty
one, a user, a foreign host, a user again whose line fits only without its newline,
and too much: cutting the longest short by the byte read beyond the limit would
make it a request. In
`exchange` the option, a name with its `@` and a label with its dot are typed at
once, so that four pieces make the longest kinds of line (`/W w@w.`, a name after an option and two
blanks, a second `@`) on both sides of the limits of names and hosts; an `@` with
nothing after it, CRs inside a line and each class of refused character are in
reach. Values and plans hold line ends, control characters and characters beyond
ASCII; plans also hold the server's own wordings, and one key is a label, a CR LF,
`Plan:`, a CR LF and "(no plan)". `process_lifecycle` has two scrapers because the
endpoint serves one at a time: one is in progress while the other waits; a third
multiplies the states without a new order of events. Four
publications let an authority publish before, between and after the two reads
of a run that follows an interrupted one.

`CHECK_DEADLOCK FALSE` stands where a model stops for a good reason: the
limiter's calls and clock run into their bounds, a server whose process has
ended or whose connections are all over does nothing more, and neither does a
process that has exited or an endpoint that has stopped and whose scrapers are
gone. `exchange`, `storage_reads`, `dictionary_refresh` and `violation_switch`
check deadlock.

Fairness, and why the code justifies it:

- `RateLimiter!FairSpec`: weak fairness of each call's next step. `check_inner`
  does not await, so its thread runs it to the end; nothing is assumed of who
  else gets the locks, and no call is obliged to begin. That is not enough for a
  single call to return: others that keep beginning may insert as fast as it
  evicts. `QuietCallReturns` therefore says "returns, unless a further call begins",
  and the bound on calls (`MaxChecks`) decides nothing: it is counted, not waited
  for.
- `MCRateLimiter!PromptSpec` (`violation_sliding`) is no fairness: the clock stands
  still while a call is in progress, so that no stalled call is to blame.
- `FingerServer!FairSpec`: weak fairness of each task's own steps, its timers
  included. Nothing is assumed of clients or the store, nor of the accept loop;
  `ConnectionEnds` therefore says "ends, or waits for the store for ever".
- `MetricsEndpoint!FairSpec` (`violation_shutdown`): weak fairness of the task
  and the join; strong fairness of the two branches of `select!`, which polls them
  in random order, so that a branch that is ready again and again is taken at
  some time. Strong fairness of `Accept` also assumes that errors of accept do not
  persist: an error takes the same branch. Scrapers may stay silent for ever, which the code does not prevent.
- `Fingermouse!PoliteProcess`: the same for the endpoint's task inside the
  process, weak fairness of `run()`'s own steps, and no scraper that stays silent
  for ever. Nothing makes an accept fail, the store's root change or a scraper
  come: `FaultEnds` starts from a failure that has happened.

Symmetry is used for the limiter's calls only, and never in a run with
liveness or refinement under fairness.

## Proofs

All for every value of the constants that the modules' `ASSUME`s admit, which
state what `config.rs` guarantees (limits of at least 1) and name every bound.

**RateLimiterProofs.** `TypeCorrect`; `EntriesAlwaysCharged`: an entry another
call can see has been charged at least once and at most `MaxRequests` times,
inductive together with the types because insertion and charge are one step;
`OwnEntryNeverVictim` needs that the first walk skips the caller's own entry and
the second is followed by the test on line 135; `RetryAlwaysInReach`, on a clock
that is not set back, needs `Past` (nothing in the map or in a call was read
from a later clock) and `VerdictKnown`; `LimiterImplementsQuota`, also on a
clock that is not set back: the invariant `QuotaInv` is the types,
`EntriesCharged`, `OwnEntryNotVictim`, `Past` and `TallyInv`. The last says
that a call which has gone on to evict saw more entries than `Capacity`, hence
that there are more clients than accounts and the abstract limiter may
`Forget`: it bounds each partial `len` by the number of clients on the shards
visited. Then each step of a call maps to `Grant`, `Refuse`, `Close`, `Forget`
or a stutter. `UnexpiredAlwaysKept` is from the same invariant with room for
every client: then `TallyInv` leaves no call that evicts, and `Past` no call for
which a window that still runs is over or stale.

Two of its theorems add up requests over instants. The lemmas on `Total`, the sum
of a client's admissions over a set of instants, are by induction on the naturals
and on finite sets (`EveryNatural`, `EverySubset`): both say that a *set* which
has its first element and the next one of each is everything, so that no operator
is passed as a parameter. `RefusalAlwaysJustified` follows from `CountsBacked`:
the count of an entry is at most what was admitted to its client since its window
opened, which is less than a window before the refusing call's reading of the
clock; what was admitted while that call stalled is part of it. It needs a clock that is not set back, as a window that opens in the past
counts requests of a later one. `BurstAlwaysBound` needs room for every client on
top, because a client evicted within its window begins with a fresh quota and
nothing bounds how often. A sum over a stretch of a window's length is no
invariant by itself: the invariant `BurstInv` is a budget. What has been admitted
in the running stretch, what is left of the window in the map, and one quota for
each window that may still be opened in the stretch (`Owed`), are together within
the bound; a window can be opened late only by a call that read the clock before
the stretch (`Ahead`), and each such call opens one.

**CapacityProofs.** `CapacityAlwaysBound`. No call ever knows the size of the
map: it adds up shards that others fill behind it. The invariant, `Explained`,
says that there are sets of calls that account for the surplus. `late` are the
calls that charged since the walk began after which a call last left
`enforce_capacity`; the map holds at most `Capacity` entries and one for each of
them. `after[w]` are those that charged since the walk of `w` began; apart from
theirs, `w` has counted every entry on the shards it has passed, or, looking for
a victim, has found none there but its own. When `w` leaves, `after[w]` takes the
place of `late`; for that the sets must be nested (`Nested`), as they are because
they were made by one order of charges. They are bound by an existential
quantifier, so that the model carries no variable for the proof's sake, and TLC
has checked `Explained` as an invariant, with three calls at once as well.

`EvictionSlackKept` proves the action property `EvictionSlack` for behaviours in
which `prune_stale` never finds anything to drop (`NothingExpires`): an entry that
expires after a call has counted it leaves the map short without an eviction.
`Stamped` says that starts of walks, evictions and the last state in which the map
was over its capacity can be numbered so that a call still evicting has counted
nothing but what is there and what was evicted since it began; a call evicts at
most once for each count, so that as many entries are gone too many as there are
other calls. `EvictionSlackWithinWindow` needs no hypothesis about behaviours: a
system watched for no longer than one window (`MaxTime <= Window`) expires nothing.
The run `limiter_contended` is such an instance.

**FingerServerProofs.** `TypeCorrect`, `LookupAlwaysEarned`,
`LineAlwaysAnswered`, `NoLineAlwaysRefused`, from one inductive invariant,
`TypeOK /\ Settled`. `Settled` adds to the three properties what a task has
heard by each phase: past the read, the client has nothing more to say that
would change the request, so what was decided on then is still true at the end.

**UserStorageProofs.** `TypeCorrect`, `ProfileAlwaysWasInPlace`,
`PlanNeverOlder`, `MissingPlanNeverOlder`. `InStep` is the publisher's own
invariant (the plan in place is the profile's version or the next, or both are
on their way out); `Reads` says, step by step, how what a call holds compares
with it: a profile read is at most `latest`, a plan opened later is at least
that.

**MetricsEndpointProofs.** `TypeCorrect`, `NoScrapeEverCut`, `PageAlwaysWhole`
and the action property `AlwaysQuietAfterJoin`. `AtWork` says that the only open
connection is the one the task is at work on, what it has been sent by `close`,
and that a join was preceded by the task's end; `InQueue` relates the queue to
the connections' states.

**FingermouseProofs.** `ProcessRunsEndpoint`: hidden behind the process, the
endpoint behaves as `MetricsEndpoint!Spec`, so that all of MetricsEndpointProofs
holds inside it. `ProcessCorrect`, inductive once it says by which way a
failure leaves `run()`; `SharedRootAlwaysHarmless` adds where in
`ensure_directory` a path must have been what; `SettingsAlwaysServe` holds in
every state that serves, from the clamps alone; `ServedAlwaysEndsOrderly` carries
"a join was preceded by the task's end" from the endpoint to the exit.

**ExchangeProofs.** For every alphabet that `CharAssumption` and
`WordingAssumption` admit, and lines, profiles and plans of every length. What a
recursive definition computes is reached by induction stated on a set of
sequences (`EverySeq`): joining (`FlattenSeq`) and filtering (`Kept`) are proved
about once, one element at a time, and cited from then on.

- `NamesAlwaysSafe`: the name that reaches the store is made of lower-case
  letters, digits, hyphens and underscores, is not empty and not too long.
- `CaseAlwaysBlind`: lowering a line changes neither the verdict nor the query.
  The lemmas say that each of the parser's operators commutes with `Lowered`:
  where a mark is found, what is trimmed, where tokens begin, which labels a host
  has, what the subject of a line is. That holds since none of the marks and
  blanks is a letter.
- `ParseAlwaysExact`: the parser and the grammar agree on every line. The parser
  looks for tokens and marks, the grammar for places; the lemmas translate one
  into the other. A line has one token alone (`Alone`) or two of which the first
  is the option (`Flagged`), and what is before, between and after them is blank
  (`Laid`); the token that names the user is split at its first two `@`
  (`Split`), and a host without white space has the labels of `Labels` between its
  dots (`HostNameHost`). `ReadsParsed` goes from a reading to the query,
  `ParsedReads` back, and `FaultLaid` shows that each reason for a refusal leaves
  no reading. It is here that `CharAssumption` has to say that `Bad` is no other
  kind of character.
- `MismatchAlwaysForeign`: the answer "host not served here" is told from every
  other by its first character (`OtherAnswers`), which for an answer made of a
  profile is that of its first line, through all that is appended to it. The
  invariant, `MismatchInv`, adds that it is not sent before there is an answer.
- `AnswerAlwaysFramed`, `PlanAlwaysShown`: what a client reads of an answer. The
  heart is `ReadRest`: lines without CR and LF that are framed after bytes which
  end in CRLF are read back as they were, whatever those bytes are (`ReadNext`,
  `NextEnds`: the ends of lines among the first bytes stay, and one is added). For
  `AnswerFramed` every line is of that kind (`RenderRead`), because values and plan
  are filtered and `PlainKeys` speaks of the keys; the count of the lines comes
  from `KeptCounted`, and that one field is left out of it from the keys being
  distinct. `PlanShown` makes no assumption on keys: a label may break its line and
  even bring a `Plan:` of its own, so the answer is read from its end, where the
  lines since the heading are as they were rendered (`PlanRead`). What those lines
  are is an induction over the plan (`JoinedSoFar`, `PlanJoined`): joined with a
  line end after each, the lines made of a beginning of the plan are what a filter
  keeps of it; one more character either goes on with the last line or, after a
  line end, begins another. The invariant `ToldInv` ties the bytes sent to
  the profile, the plan and the query they were made of.

**DictionaryCacheProofs.** `TypeCorrect` (only validated dictionaries are ever
cached or rendered, for any number of concurrent runs). For one run at a time
(`OneHelper`): `MetadataNeverAhead`. It speaks of
files of one authority, as an interrupted switch leaves files of two of which
nothing holds. Its invariant `Ordered` is an order of
stamps: asked <= seen <= body <= what the authority serves, and the sidecar
trails both the cache and the version about to replace it. With one remote
authority (`OneRemote`) on top: `ReportsAreFresh`, whose `AllHonest` carries the
claim from the verdict to the installed file, for "refreshed" always and for
"current" if the run began with files that belonged together. `OneHelper` is needed: two runs at
once can pair the cache of one with the metadata of the other, and TLC finds
`MetadataBehind` violated with two helpers. `OneRemote` keeps the claim honest:
the model's stamps grow across all authorities, which the clocks of two remote
ones need not do, and nothing is claimed of validators that one of them issued
for the other.

**Model-checked only.** `QuietCallReturns`, `ConnectionEnds`, `ShutdownReturns`
(with polite scrapers), `ScrapeServed` and `FaultEnds`: liveness under fairness,
and with it everything about ENABLED, is beyond the prover. Every invariant and
every action property that a run checks is also a theorem, the conditional ones
under the hypotheses named above: a clock that is not set back for
`RetryInReach`, `ImplementsQuota`, `RefusalJustified`, `BurstBound` and
`UnexpiredKept`, room for every client for the last two, nothing that expires for
`EvictionSlack`, one generator at a time for `MetadataBehind`, and one remote
authority as well for `ReportedFresh`. The run of each is within them.

## Disagreements found

- **The window is fixed, not sliding** (`violation_sliding`): the end of one
  window and the start of the next admit up to one less than twice the limit
  within one window's length, without any call stalling: with a limit of 2 and a
  window of 2, at 2 and 3 in one window and twice at 4 in the next. README.md:18 says "Per-IP sliding window rate limiting". `BurstBound`
  is what holds instead.
- **The gauge may stay wrong** (`violation_gauge`): `record_entry_count`
  measures and publishes in two steps, so a later measurement may be overwritten
  by an earlier one; rate_limit.rs:67 describes "Current number of active rate
  limiter entries."
- **A silent scraper stops shutdown** (`violation_shutdown`): the endpoint reads
  without a deadline and outside what `select!` can drop; telemetry.rs:19 says
  "Signal the endpoint to stop and wait for it to terminate."
- **A switch of authority that is cut short sticks** (`violation_switch`): a local
  refresh replaces the cache on line 277 and its metadata on line 278. A run that
  stops in between leaves the first authority's metadata beside the second's
  dictionary, and the next run with the first authority finds lines 250-256 true,
  reports "current" and generates `typos.toml` from the other dictionary.
  scripts/tests/test_typos_rollout.py:197 says of local authorities "A different
  explicit authority replaces a cache regardless of mtime." `ReportedFresh` is what
  holds instead.

Smaller ones, read in the code and reachable in the models, without a run of
their own:

- query.rs:21 lists "may not contain embedded control characters", but a CR
  inside the line passes and separates words (line 38 exempts it, so that a line
  that ends in CR CR LF is accepted), and so does DEL after a second `@`.
  `Readings` has it so.
- `_remote_is_not_newer` (lines 224-241) does not look at the saved source, as
  `_local_cache_is_current` does on line 252: a run with another HTTPS authority
  whose `Last-Modified` is not later keeps the first one's dictionary and reports
  it as current. The repository promises nothing of such a switch; the run and the
  proofs have one remote authority.
- README.md says of a profile that other keys are "returned verbatim as `Key:
  Value` pairs". `normalise_key` raises the first letter and turns underscores
  into blanks, and `sanitise_line` drops every character of a value that is not
  printable ASCII.
- Only values are sanitised. A quoted TOML key that holds CR LF begins a line of
  its own in the answer, which is why `AnswerFramed` speaks of `PlainKeys` and
  `PlanShown` reads from the end.
- A plan of control characters alone is shown as an empty line and not as
  "(empty plan)": blankness is judged before the characters are dropped
  (user.rs:95-104).
- A configured window between the length of chrono's calendar to this day and
  chrono's longest duration passes the clamps and `chrono_duration`, and makes
  the subtraction on rate_limit.rs:120 panic in the first call. `SettingsServe`
  names that gap.

## Not modelled

- Merging, conflicts and word mappings of the dictionaries, and the rendering of
  `typos.toml` (`scripts/typos_rollout.py`): functions from documents to a
  document without state, of which `DictionaryCache` needs to know only whether
  a document is well formed. The properties worth stating of them (the result
  does not depend on the order of the inputs) are over sorted dictionaries of
  Python, and the models have no hold on them beyond restating the sort.
- `FingerServer` is not composed with `Fingermouse` and `Exchange` in one
  instance. The connections share with the endpoint nothing but the process's
  end, which both modules have, and with the contents of an exchange nothing but
  `Meaning`; the product has no behaviour that the parts have not, and too many
  states to check.
- The spelling of the store's path prefixes (`sanitise_prefix`), the reading of
  the command line, the wording of errors and of log lines, the text of the
  metrics page, TLS and HTTP below the requests.
- Concurrent runs of the generator are in `DictionaryCache`
  (`Helper`), but nothing in the repository promises that they are safe, and
  only the types are claimed for them.
- Build and workflow contracts, and the end-to-end tests: they keep no state of
  the system.

## Plan

What could be added, in this order:

1. A run of `DictionaryCache` on generate_typos_config.py:49 ("Return a valid
   tracked config only for an unavailable HTTPS authority"), which a 304 with a
   removed cache contradicts.
2. A refinement run of the limiter with room for every client, where `Forget`
   is never allowed.
3. `BurstBound` and `RefusalJustified` on a clock that is set back, with bounds
   that grow with `MaxSetback`, first as runs.
4. `Dictionary`: merging as operators, if the scripts come to merge more than
   one overlay.

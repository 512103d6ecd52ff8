------------------------------ MODULE Fingermouse ------------------------------
(***************************************************************************)
(* The process from its options to its end: run() of src/src/main.rs with  *)
(* the settings and the store root of src/src/config.rs, around the        *)
(* metrics endpoint, which is started before the store and outlives the    *)
(* server.                                                                 *)
(*                                                                         *)
(* The endpoint's variables and steps are those of MetricsEndpoint; while  *)
(* there is no endpoint they stay in their initial state.  The root of the *)
(* store belongs to the file system, where others create and remove it too *)
(* (another server that starts on the same root, say).  It is followed up  *)
(* to the moment the store is opened.                                      *)
(***************************************************************************)
EXTENDS MetricsEndpoint

CONSTANTS
  CliNumbers,    \* numbers an operator may set
  LongestDelta,  \* seconds in chrono's longest duration
  Calendar       \* seconds from the beginning of chrono's calendar to this day

ASSUME CliAssumption ==
  CliNumbers \subseteq [rate_limit : Nat, rate_window_secs : Nat, rate_capacity : Nat,
                        request_timeout_ms : Nat, max_request_bytes : Nat]
ASSUME CalendarAssumption == Calendar \in Nat \ {0} /\ LongestDelta \in Nat /\ Calendar <= LongestDelta

VARIABLES
  step,       \* where run() is
  cli,        \* the numbers it was started with
  installed,  \* it holds a MetricsEndpoint, or did
  root,       \* what is at the store root's path
  hampered,   \* the root was a file or gone at some time, or its creation denied
  fault       \* what run() has failed at

process == <<step, cli, installed, root, hampered, fault>>
all     == <<process, vars>>

-------------------------------------------------------------------------------
(* ServerConfig::from_cli, and RateLimiter::with_clock of its settings.    *)

MIN == 64
MAX == 4096

AtLeastOne(n)      == IF n = 0 THEN 1 ELSE n
Clamp(n, low, top) == IF n < low THEN low ELSE IF n > top THEN top ELSE n

\* chrono_duration
ChronoDuration(secs) == IF secs <= LongestDelta THEN secs ELSE 1

\* Slip: the capacity and the window are taken as they are.
SettingsRaw(c) ==
  [max_requests      |-> AtLeastOne(c.rate_limit),
   window            |-> ChronoDuration(c.rate_window_secs),
   max_entries       |-> c.rate_capacity,
   request_timeout   |-> AtLeastOne(c.request_timeout_ms),
   max_request_bytes |-> Clamp(c.max_request_bytes, MIN, MAX)]

Settings(c) ==
  [max_requests      |-> AtLeastOne(c.rate_limit),
   window            |-> ChronoDuration(AtLeastOne(c.rate_window_secs)),
   max_entries       |-> AtLeastOne(c.rate_capacity),
   request_timeout   |-> AtLeastOne(c.request_timeout_ms),
   max_request_bytes |-> Clamp(c.max_request_bytes, MIN, MAX)]

-------------------------------------------------------------------------------
(* run(), up to the server.                                                *)

GoTo(next) == step' = next /\ UNCHANGED fault

Fail(at, next) == fault' = at /\ step' = next

\* CliOptions::parse and from_cli: an option that does not parse, a host name
\* among them, ends the process.
Configure ==
  /\ step = "configure"
  /\ GoTo("metrics") \/ Fail("options", "exited")
  /\ UNCHANGED <<cli, installed, root, hampered, vars>>

\* Slip: a listener that cannot be bound is reported, and the process goes on.
InstallMetricsLeniently ==
  /\ step = "metrics"
  /\ \/ installed' \in BOOLEAN /\ GoTo("exists")
     \/ UNCHANGED installed /\ Fail("metrics", "exists")
  /\ UNCHANGED <<cli, root, hampered, vars>>

\* install_metrics, with a metrics address or without one.
InstallMetrics ==
  /\ step = "metrics"
  /\ \/ installed' \in BOOLEAN /\ GoTo("exists")
     \/ UNCHANGED installed /\ Fail("metrics", "exited")
  /\ UNCHANGED <<cli, root, hampered, vars>>

\* ensure_directory asks twice what is at the path.
CheckExists ==
  /\ step = "exists"
  /\ GoTo(IF root = "absent" THEN "create" ELSE "is_dir")
  /\ UNCHANGED <<cli, installed, root, hampered, vars>>

CheckIsDir ==
  /\ step = "is_dir"
  /\ IF root = "directory" THEN GoTo("open") ELSE Fail("store", "failing")
  /\ UNCHANGED <<cli, installed, root, hampered, vars>>

\* Slip: create_dir, which takes a directory that is there for an error.
CreateRootAlone ==
  /\ step = "create"
  /\ \/ /\ root = "absent"
        /\ root' = "directory"
        /\ GoTo("open")
        /\ UNCHANGED hampered
     \/ /\ root # "absent"
        /\ Fail("store", "failing")
        /\ UNCHANGED <<root, hampered>>
     \/ /\ root = "absent"
        /\ hampered' = TRUE
        /\ Fail("store", "failing")
        /\ UNCHANGED root
  /\ UNCHANGED <<cli, installed, vars>>

\* create_ambient_dir_all: a directory that is there already is no error; the
\* system may deny the creation of one.
CreateRoot ==
  /\ step = "create"
  /\ \/ /\ root # "file"
        /\ root' = "directory"
        /\ GoTo("open")
        /\ UNCHANGED hampered
     \/ /\ root = "file"
        /\ Fail("store", "failing")
        /\ UNCHANGED <<root, hampered>>
     \/ /\ root = "absent"
        /\ hampered' = TRUE
        /\ Fail("store", "failing")
        /\ UNCHANGED root
  /\ UNCHANGED <<cli, installed, vars>>

\* new_with_prefix resolves the path, whatever is there.
OpenStore ==
  /\ step = "open"
  /\ IF root # "absent" THEN GoTo("bind") ELSE Fail("store", "failing")
  /\ UNCHANGED <<cli, installed, root, hampered, vars>>

\* FingerServer::run binds its listener.
Bind ==
  /\ step = "bind"
  /\ GoTo("serving") \/ Fail("bind", "ending")
  /\ UNCHANGED <<cli, installed, root, hampered, vars>>

\* Someone else makes, removes or replaces what is at the root's path.
ChangeRoot ==
  /\ step \in {"configure", "metrics", "exists", "is_dir", "create", "open"}
  /\ root' \in {"absent", "directory", "file"} \ {root}
  /\ hampered' = (hampered \/ root' # "directory")
  /\ UNCHANGED <<step, cli, installed, fault, vars>>

-------------------------------------------------------------------------------
(* run(), from the server to the end of the process.                       *)

\* The accept loop ends with the first error of accept, and with nothing else.
AcceptFails ==
  /\ step = "serving"
  /\ Fail("accept", "ending")
  /\ UNCHANGED <<cli, installed, root, hampered, vars>>

\* endpoint.shutdown().await
StopEndpoint ==
  /\ step = "ending" /\ installed
  /\ Shutdown \/ Join
  /\ UNCHANGED process

\* Slip: the process ends without waiting for the endpoint.
EndServedAtOnce ==
  /\ step = "ending"
  /\ installed => owner # "holding"
  /\ step' = "exited"
  /\ UNCHANGED <<cli, installed, root, hampered, fault, vars>>

EndServed ==
  /\ step = "ending"
  /\ installed => owner = "joined"
  /\ step' = "exited"
  /\ UNCHANGED <<cli, installed, root, hampered, fault, vars>>

\* build_store has failed: the handle is dropped on the way out of run().
DropEndpoint ==
  /\ step = "failing" /\ installed
  /\ DropHandle
  /\ UNCHANGED process

\* main returns; the runtime drops the endpoint's task if it has not ended.
EndEarly ==
  /\ step = "failing"
  /\ \/ EndProcess
     \/ (installed => task = "stopped") /\ UNCHANGED vars
  /\ step' = "exited"
  /\ UNCHANGED <<cli, installed, root, hampered, fault>>

\* A step of the endpoint or of its scrapers.
Endpoint(A) ==
  /\ installed /\ step # "exited"
  /\ A
  /\ UNCHANGED process

Run ==
  \/ Configure \/ InstallMetrics \/ CheckExists \/ CheckIsDir \/ CreateRoot \/ OpenStore
  \/ Bind \/ StopEndpoint \/ EndServed \/ DropEndpoint \/ EndEarly

Scrape ==
  \/ TakeSignal \/ Accept \/ AcceptError \/ Wake \/ Handle
  \/ \E p \in Peer : Connect(p) \/ Return(p)
  \/ \E p \in Peer, word \in {"request", "eof", "reset"} : Say(p, word)

ProcessInit ==
  /\ Init
  /\ step = "configure"
  /\ cli \in CliNumbers
  /\ installed = FALSE
  /\ root \in {"absent", "directory", "file"}
  /\ hampered = (root = "file")
  /\ fault = "none"

ProcessNext == Run \/ ChangeRoot \/ AcceptFails \/ Endpoint(Scrape)

ProcessSpec == ProcessInit /\ [][ProcessNext]_all

\* run() goes on whenever it can, and the endpoint's task as in FairSpec; scrapers
\* keep no connection open in silence.  Nothing makes accept fail or the root change.
PoliteProcess ==
  /\ ProcessSpec
  /\ WF_all(Run)
  /\ SF_all(Endpoint(TakeSignal)) /\ SF_all(Endpoint(Accept))
  /\ WF_all(Endpoint(Wake)) /\ WF_all(Endpoint(Handle))
  /\ \A p \in Peer :
       WF_all(Endpoint(said[p] = "silent" /\ \E word \in {"request", "eof", "reset"} : Say(p, word)))

-------------------------------------------------------------------------------

\* run() has failed exactly when it is on its way out, by the way its failure
\* takes; the handle is used up by that way only, and there is an endpoint's
\* activity only if one was installed (main.rs:34-58).
ProcessOK ==
  /\ step \in {"configure", "metrics", "exists", "is_dir", "create", "open", "bind",
               "serving", "ending", "failing", "exited"}
  /\ cli \in CliNumbers
  /\ installed \in BOOLEAN /\ hampered \in BOOLEAN
  /\ root \in {"absent", "directory", "file"}
  /\ fault \in {"none", "options", "metrics", "store", "bind", "accept"}
  /\ fault # "none" <=> step \in {"ending", "failing", "exited"}
  /\ step \in {"configure", "metrics"} => ~installed
  /\ step = "ending" => fault \in {"bind", "accept"}
  /\ step = "failing" => fault = "store"
  /\ owner # "holding" => installed /\ fault # "none"
  /\ owner \in {"joining", "joined"} => fault \in {"bind", "accept"}
  /\ owner = "dropped" => fault = "store"
  /\ task = "aborted" => step = "exited"
  /\ ~installed => Init

\* Once the server has been reached, the process ends only after the scrapes that
\* were accepted: none is left in the middle (main.rs:51-57, telemetry.rs:20-33).
ServedEndsOrderly ==
  step = "exited" /\ fault \in {"bind", "accept"} => \A p \in Peer : conn[p] # "open"

\* Others that make the same directory at the same time do no harm: between the
\* two questions and the creation the store fails only if the path was a file or
\* gone again at some time, or its creation denied (config.rs:132-162).
SharedRootHarmless == fault = "store" => hampered

\* Whatever the numbers, a server that serves does so with settings that the
\* limiter and the reader of the query can work with: a quota, a capacity and a
\* deadline of one at least, a line of 64 bytes or more, and a window that can be
\* taken off the present day, unless the operator set one between the calendar's
\* length and chrono's longest duration (config.rs:94-127, rate_limit.rs:70-73, 120
\* and 172-174).
SettingsServe ==
  step = "serving" =>
    LET s == Settings(cli) IN
    /\ {s.max_requests, s.max_entries, s.request_timeout, s.window} \subseteq Nat \ {0}
    /\ MIN <= s.max_request_bytes /\ s.max_request_bytes <= MAX
    /\ s.window > Calendar => cli.rate_window_secs \in (Calendar + 1)..LongestDelta

\* A process that has failed ends, provided no scraper keeps silent for ever.
FaultEnds == fault # "none" ~> step = "exited"
=============================================================================

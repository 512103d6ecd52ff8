--------------------------- MODULE FingermouseProofs ---------------------------
(***************************************************************************)
(* Proofs about the process, for any number of scrapers and any numbers on *)
(* its command line.                                                       *)
(***************************************************************************)
EXTENDS Fingermouse, MetricsEndpointProofs

-------------------------------------------------------------------------------
(* The endpoint within the process.                                        *)

LEMMA ProcessStep == [ProcessNext]_all => [Next]_vars
<1> SUFFICES ASSUME [ProcessNext]_all PROVE [Next]_vars
  OBVIOUS
<1>1. CASE UNCHANGED vars
  BY <1>1
<1>2. CASE Shutdown \/ Join \/ DropHandle \/ EndProcess \/ Scrape
  BY <1>2 DEF Scrape, Next
<1>3. CASE \/ Configure \/ InstallMetrics \/ CheckExists \/ CheckIsDir \/ CreateRoot
           \/ OpenStore \/ Bind \/ EndServed \/ ChangeRoot \/ AcceptFails
  BY <1>1, <1>3 DEF Configure, InstallMetrics, CheckExists, CheckIsDir, CreateRoot,
                    OpenStore, Bind, EndServed, ChangeRoot, AcceptFails
<1> QED
  BY <1>1, <1>2, <1>3 DEF ProcessNext, Run, StopEndpoint, DropEndpoint, EndEarly, Endpoint, all

\* Whatever run() does, the endpoint in it behaves as MetricsEndpoint says: what
\* is proved of the endpoint holds in the process, a start that fails included
\* (main.rs:34-58, telemetry.rs:12-97).
THEOREM ProcessRunsEndpoint == ProcessSpec => Spec
<1>1. ProcessInit => Init
  BY DEF ProcessInit
<1> QED
  BY <1>1, ProcessStep, PTL DEF ProcessSpec, Spec

-------------------------------------------------------------------------------
(* run().                                                                  *)

LEMMA RunStarts ==
  ASSUME ProcessOK, \/ Configure \/ InstallMetrics \/ CheckExists \/ CheckIsDir \/ CreateRoot
                    \/ OpenStore \/ Bind \/ ChangeRoot \/ AcceptFails
  PROVE  ProcessOK'
<1>1. UNCHANGED vars /\ cli' = cli
  BY DEF Configure, InstallMetrics, CheckExists, CheckIsDir, CreateRoot, OpenStore, Bind,
         ChangeRoot, AcceptFails
<1>2. UNCHANGED <<owner, task>> /\ (Init => Init')
  BY <1>1 DEF Init, vars, peers
<1>3. (owner = "holding") /\ (task # "aborted")
  BY DEF ProcessOK, Configure, InstallMetrics, CheckExists, CheckIsDir, CreateRoot, OpenStore,
         Bind, ChangeRoot, AcceptFails
<1>4. installed' \in BOOLEAN /\ (installed => installed')
  <2>1. installed' = installed \/ InstallMetrics
    BY DEF Configure, CheckExists, CheckIsDir, CreateRoot, OpenStore, Bind, ChangeRoot, AcceptFails
  <2>2. ~installed \/ installed' = installed
    BY <2>1 DEF ProcessOK, InstallMetrics
  <2> QED
    BY <2>1, <2>2 DEF ProcessOK, InstallMetrics
<1>6. hampered' \in BOOLEAN /\ root' \in {"absent", "directory", "file"}
  <2>1. CASE UNCHANGED <<root, hampered>>
    BY <2>1 DEF ProcessOK
  <2>2. CASE CreateRoot
    BY <2>2 DEF ProcessOK, CreateRoot
  <2>3. CASE ChangeRoot
    BY <2>3 DEF ProcessOK, ChangeRoot
  <2> QED
    BY <2>1, <2>2, <2>3
    DEF Configure, InstallMetrics, CheckExists, CheckIsDir, OpenStore, Bind, AcceptFails
<1>5. /\ step' \in {"configure", "metrics", "exists", "is_dir", "create", "open", "bind",
                    "serving", "ending", "failing", "exited"}
      /\ fault' \in {"none", "options", "metrics", "store", "bind", "accept"}
      /\ fault' # "none" <=> step' \in {"ending", "failing", "exited"}
      /\ step' = "ending" => fault' \in {"bind", "accept"}
      /\ step' = "failing" => fault' = "store"
      /\ step' \in {"configure", "metrics"} => ~installed'
  BY DEF ProcessOK, Configure, InstallMetrics, CheckExists, CheckIsDir, CreateRoot, OpenStore,
         Bind, ChangeRoot, AcceptFails, GoTo, Fail
<1> QED
  BY <1>1, <1>2, <1>3, <1>4, <1>5, <1>6 DEF ProcessOK

LEMMA RunEnds ==
  ASSUME ProcessOK, StopEndpoint \/ EndServed \/ DropEndpoint \/ EndEarly
  PROVE  ProcessOK'
<1>1. CASE StopEndpoint
  BY <1>1 DEF ProcessOK, StopEndpoint, Shutdown, Join, process
<1>2. CASE EndServed
  <2>1. UNCHANGED <<owner, task>> /\ (Init => Init')
    BY <1>2 DEF EndServed, Init, vars, peers
  <2> QED
    BY <1>2, <2>1 DEF ProcessOK, EndServed
<1>3. CASE DropEndpoint
  BY <1>3 DEF ProcessOK, DropEndpoint, DropHandle, process
<1>4. CASE EndEarly /\ EndProcess
  BY <1>4 DEF ProcessOK, EndEarly, EndProcess
<1>5. CASE EndEarly /\ UNCHANGED vars
  <2>1. UNCHANGED <<owner, task>> /\ (Init => Init')
    BY <1>5 DEF Init, vars, peers
  <2> QED
    BY <1>5, <2>1 DEF ProcessOK, EndEarly
<1> QED
  BY <1>1, <1>2, <1>3, <1>4, <1>5 DEF EndEarly

LEMMA RunWatches ==
  ASSUME ProcessOK, Endpoint(Scrape)
  PROVE  ProcessOK'
<1>1. installed /\ step # "exited" /\ UNCHANGED process
  BY DEF Endpoint
<1>2. owner' = owner /\ (task' = task \/ task' # "aborted")
  BY DEF Endpoint, Scrape, TakeSignal, Accept, AcceptError, Wake, Handle, DiscardRequest,
         SendHeaders, SendBody, Send, Finish, Hangup, Connect, Return, Say
<1> QED
  BY <1>1, <1>2 DEF ProcessOK, process

\* run() is on its way out exactly when something has failed, and the endpoint's
\* handle is used as the failure demands (main.rs:34-58).
THEOREM ProcessCorrect == ProcessSpec => []ProcessOK
<1>1. ProcessInit => ProcessOK
  BY DEF ProcessInit, ProcessOK, Init
<1>2. ProcessOK /\ [ProcessNext]_all => ProcessOK'
  <2> SUFFICES ASSUME ProcessOK, [ProcessNext]_all PROVE ProcessOK'
    OBVIOUS
  <2>1. CASE UNCHANGED all
    BY <2>1 DEF ProcessOK, Init, all, process, vars, peers
  <2> QED
    BY <2>1, RunStarts, RunEnds, RunWatches DEF ProcessNext, Run
<1> QED
  BY <1>1, <1>2, PTL DEF ProcessSpec

LEMMA Positive ==
  ASSUME NEW n \in Nat
  PROVE  AtLeastOne(n) \in Nat \ {0}
BY DEF AtLeastOne

LEMMA Clamped ==
  ASSUME NEW n \in Nat
  PROVE  MIN <= Clamp(n, MIN, MAX) /\ Clamp(n, MIN, MAX) <= MAX
BY DEF Clamp, MIN, MAX

LEMMA WindowServes ==
  ASSUME NEW t \in Nat
  PROVE  /\ ChronoDuration(AtLeastOne(t)) \in Nat \ {0}
         /\ ChronoDuration(AtLeastOne(t)) > Calendar => t \in (Calendar + 1)..LongestDelta
BY CalendarAssumption DEF ChronoDuration, AtLeastOne

\* The numbers of any command line make settings that a server can work with, but
\* for a window between the two bounds of chrono (config.rs:94-127,
\* rate_limit.rs:172-174).
THEOREM SettingsAlwaysServe == ProcessSpec => []SettingsServe
<1>1. ASSUME ProcessOK PROVE SettingsServe
  <2> DEFINE s == Settings(cli)
  <2>1. /\ cli.rate_limit \in Nat /\ cli.rate_window_secs \in Nat /\ cli.rate_capacity \in Nat
        /\ cli.request_timeout_ms \in Nat /\ cli.max_request_bytes \in Nat
    BY <1>1, CliAssumption DEF ProcessOK
  <2>2. s.max_requests \in Nat \ {0}
    BY <2>1, Positive DEF Settings
  <2>3. s.max_entries \in Nat \ {0}
    BY <2>1, Positive DEF Settings
  <2>4. s.request_timeout \in Nat \ {0}
    BY <2>1, Positive DEF Settings
  <2>5. MIN <= s.max_request_bytes /\ s.max_request_bytes <= MAX
    BY <2>1, Clamped DEF Settings
  <2>6. s.window = ChronoDuration(AtLeastOne(cli.rate_window_secs))
    BY DEF Settings
  <2>7. s.window \in Nat \ {0}
    BY <2>1, <2>6, WindowServes
  <2>8. s.window > Calendar => cli.rate_window_secs \in (Calendar + 1)..LongestDelta
    BY <2>1, <2>6, WindowServes
  <2> HIDE DEF s
  <2>9. {s.max_requests, s.max_entries, s.request_timeout, s.window} \subseteq Nat \ {0}
    BY <2>2, <2>3, <2>4, <2>7
  <2> QED
    BY <2>5, <2>8, <2>9 DEF SettingsServe, s
<1> QED
  BY <1>1, ProcessCorrect, PTL

-------------------------------------------------------------------------------
(* The store's root.                                                       *)

\* A root that is not what the last look at it has told was hampered.
RootKnown ==
  /\ root = "file" => hampered
  /\ step \in {"is_dir", "open"} => root = "directory" \/ hampered
  /\ fault = "store" => hampered

LEMMA RootStep == ProcessOK /\ RootKnown /\ [ProcessNext]_all => RootKnown'
<1> SUFFICES ASSUME ProcessOK, RootKnown, [ProcessNext]_all PROVE RootKnown'
  OBVIOUS
<1>1. CASE UNCHANGED <<step, root, hampered, fault>>
  BY <1>1 DEF RootKnown
<1>2. CASE Configure \/ InstallMetrics \/ Bind \/ AcceptFails
  BY <1>2 DEF RootKnown, Configure, InstallMetrics, Bind, AcceptFails, GoTo, Fail
<1>3. CASE CheckExists \/ CheckIsDir \/ OpenStore
  BY <1>3 DEF ProcessOK, RootKnown, CheckExists, CheckIsDir, OpenStore, GoTo, Fail
<1>4. CASE CreateRoot
  BY <1>4 DEF RootKnown, CreateRoot, GoTo, Fail
<1>5. CASE ChangeRoot
  BY <1>5 DEF ProcessOK, RootKnown, ChangeRoot
<1>6. CASE EndServed \/ EndEarly
  BY <1>6 DEF RootKnown, EndServed, EndEarly
<1> QED
  BY <1>1, <1>2, <1>3, <1>4, <1>5, <1>6
  DEF ProcessNext, Run, StopEndpoint, DropEndpoint, Endpoint, all, process

\* However many servers start on one root at once, a directory that another has
\* made never stops this one (config.rs:146-162).
THEOREM SharedRootAlwaysHarmless == ProcessSpec => []SharedRootHarmless
<1>1. ProcessInit => RootKnown
  BY DEF ProcessInit, RootKnown
<1>2. RootKnown => SharedRootHarmless
  BY DEF RootKnown, SharedRootHarmless
<1> QED
  BY <1>1, <1>2, RootStep, ProcessCorrect, PTL DEF ProcessSpec

-------------------------------------------------------------------------------
(* The end.                                                                *)

Joined ==
  step = "exited" /\ fault \in {"bind", "accept"} => (installed => owner = "joined")

LEMMA JoinedStep == ProcessOK /\ Joined /\ [ProcessNext]_all => Joined'
<1> SUFFICES ASSUME ProcessOK, Joined, [ProcessNext]_all PROVE Joined'
  OBVIOUS
<1>1. CASE UNCHANGED <<step, installed, fault>> /\ step # "exited"
  BY <1>1 DEF Joined
<1>2. CASE UNCHANGED all
  BY <1>2 DEF Joined, all, process, vars
<1>3. CASE EndServed
  BY <1>3 DEF Joined, EndServed, vars
<1>4. CASE EndEarly
  BY <1>4 DEF ProcessOK, Joined, EndEarly
<1>5. CASE \/ Configure \/ InstallMetrics \/ CheckExists \/ CheckIsDir \/ CreateRoot
           \/ OpenStore \/ Bind \/ AcceptFails
  BY <1>5 DEF Joined, Configure, InstallMetrics, CheckExists, CheckIsDir, CreateRoot,
              OpenStore, Bind, AcceptFails, GoTo, Fail
<1> QED
  BY <1>1, <1>2, <1>3, <1>4, <1>5
  DEF ProcessNext, Run, ChangeRoot, StopEndpoint, DropEndpoint, Endpoint, process

\* Once the server has been reached, the process never ends in the middle of a
\* scrape (main.rs:51-57).
THEOREM ServedAlwaysEndsOrderly == ProcessSpec => []ServedEndsOrderly
<1>1. AtWork /\ ProcessOK /\ Joined => ServedEndsOrderly
  <2> SUFFICES ASSUME AtWork, ProcessOK, Joined, step = "exited", fault \in {"bind", "accept"},
                      NEW p \in Peer
               PROVE  conn[p] # "open"
    BY DEF ServedEndsOrderly
  <2>1. CASE ~installed
    BY <2>1 DEF ProcessOK, Init
  <2>2. CASE owner = "joined"
    <3>1. task = "stopped" /\ peer = NoPeer
      BY <2>2 DEF AtWork, Busy
    <3> QED
      BY <3>1, PeersAssumption DEF AtWork
  <2> QED
    BY <2>1, <2>2 DEF Joined
<1>2. ProcessInit => Joined
  BY DEF ProcessInit, Joined
<1> QED
  BY <1>1, <1>2, JoinedStep, ProcessRunsEndpoint, WorkInvariant, ProcessCorrect, PTL DEF ProcessSpec
=============================================================================

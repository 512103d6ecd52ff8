------------------------ MODULE MetricsEndpointProofs ------------------------
(***************************************************************************)
(* Proofs about MetricsEndpoint, for any number of scrapers.               *)
(***************************************************************************)
EXTENDS MetricsEndpoint, TLAPS

-------------------------------------------------------------------------------
(* The task and the connections, without the order of the queue.           *)

\* The task is at work on the one connection that is open, and has told it what
\* its place in the handler says.
AtWork ==
  /\ task \in Busy \cup {"select", "sleep", "stopped", "aborted"}
  /\ peer \in Peer \cup {NoPeer}
  /\ (task \in Busy) <=> (peer # NoPeer)
  /\ owner \in {"holding", "joining", "joined", "dropped"}
  /\ conn \in [Peer -> {"away", "queued", "open", "closed"}]
  /\ said \in [Peer -> {"silent", "request", "eof", "reset"}]
  /\ got \in [Peer -> {"nothing", "headers", "page"}]
  /\ \A p \in Peer : conn[p] = "open" /\ task # "aborted" => p = peer
  /\ peer # NoPeer => conn[peer] = "open"
  /\ task = "close" => got[peer] = "page"
  /\ task = "aborted" => owner = "dropped"
  /\ owner = "joined" => task = "stopped"
  /\ \A p \in Peer :
       conn[p] = "closed" /\ said[p] \in {"request", "eof"} => got[p] = "page"
  /\ backlog \in Seq(Peer)

LEMMA WorkOwner ==
  ASSUME AtWork, Shutdown \/ Join \/ DropHandle \/ EndProcess
  PROVE  AtWork'
<1>1. UNCHANGED <<backlog, conn, said, got>>
  BY DEF Shutdown, Join, DropHandle, EndProcess, peers
<1> QED
  BY <1>1 DEF AtWork, Shutdown, Join, DropHandle, EndProcess, Busy

LEMMA WorkWaits ==
  ASSUME AtWork, TakeSignal \/ AcceptError \/ Wake
  PROVE  AtWork'
<1>1. UNCHANGED <<backlog, conn, said, got>>
  BY DEF TakeSignal, AcceptError, Wake, peers
<1> QED
  BY <1>1 DEF AtWork, TakeSignal, AcceptError, Wake, Busy

LEMMA WorkAccept ==
  ASSUME AtWork, Accept
  PROVE  AtWork'
<1> DEFINE p == Head(backlog)
<1>1. p \in Peer /\ backlog' \in Seq(Peer) /\ peer = NoPeer
  BY DEF AtWork, Accept, Busy
<1>2. \A q \in Peer : conn[q] # "open"
  BY <1>1, PeersAssumption DEF AtWork, Accept
<1> QED
  BY <1>1, <1>2, PeersAssumption DEF AtWork, Accept, Busy

LEMMA WorkHandle ==
  ASSUME AtWork, Handle
  PROVE  AtWork'
<1>1. peer \in Peer /\ UNCHANGED <<signal, owner, backlog, said>>
      /\ task \in Busy /\ owner # "joined"
  BY DEF AtWork, Handle, DiscardRequest, SendHeaders, SendBody, Send, Finish, Busy
<1>2. \A q \in Peer : conn[q] = "open" => q = peer
  BY <1>1 DEF AtWork, Busy
<1>3. ASSUME Hangup, UNCHANGED got,
             said[peer] \in {"request", "eof"} => got[peer] = "page"
      PROVE  AtWork'
  <2>1. /\ conn' \in [Peer -> {"away", "queued", "open", "closed"}]
        /\ \A q \in Peer : conn'[q] # "open"
        /\ \A q \in Peer : q # peer => conn'[q] = conn[q]
    BY <1>1, <1>2, <1>3 DEF AtWork, Hangup
  <2> QED
    BY <1>1, <1>3, <2>1, PeersAssumption DEF AtWork, Hangup, Busy
<1>4. ASSUME NEW part \in {"headers", "page"}, UNCHANGED <<peer, conn>>,
             got' = [got EXCEPT ![peer] = part],
             task' \in {"body", "close"}, task' = "close" => part = "page"
      PROVE  AtWork'
  <2>1. conn[peer] = "open" /\ peer # NoPeer
    BY <1>1, PeersAssumption DEF AtWork
  <2>2. \A q \in Peer :
          conn[q] = "closed" /\ said[q] \in {"request", "eof"} => got'[q] = "page"
    BY <1>1, <1>4, <2>1 DEF AtWork
  <2> QED
    BY <1>1, <1>4, <2>1, <2>2 DEF AtWork, Busy
<1>5. CASE DiscardRequest
  <2>1. CASE Hangup
    BY <1>3, <1>5, <2>1 DEF DiscardRequest, Hangup
  <2>2. CASE task' = "headers" /\ UNCHANGED <<peer, conn>>
    BY <1>1, <1>5, <2>2 DEF AtWork, DiscardRequest, Busy
  <2> QED
    BY <1>5, <2>1, <2>2 DEF DiscardRequest
<1>6. CASE SendHeaders
  BY <1>3, <1>4, <1>6 DEF SendHeaders, Send
<1>7. CASE SendBody
  BY <1>3, <1>4, <1>7 DEF SendBody, Send
<1>8. CASE Finish
  BY <1>3, <1>8 DEF Finish, AtWork
<1> QED
  BY <1>5, <1>6, <1>7, <1>8 DEF Handle

LEMMA WorkPeers ==
  ASSUME AtWork, NEW p \in Peer,
         \/ Connect(p) \/ Return(p)
         \/ \E word \in {"request", "eof", "reset"} : Say(p, word)
  PROVE  AtWork'
<1>1. CASE Connect(p)
  <2>1. backlog' \in Seq(Peer)
    BY <1>1 DEF AtWork, Connect
  <2>2. conn' \in [Peer -> {"away", "queued", "open", "closed"}]
    BY <1>1 DEF AtWork, Connect
  <2>3. \A q \in Peer : conn'[q] # conn[q] => q = p /\ conn[q] = "away" /\ conn'[q] = "queued"
    BY <1>1 DEF AtWork, Connect
  <2> QED
    BY <1>1, <2>1, <2>2, <2>3, PeersAssumption DEF AtWork, Connect, Busy
<1>2. CASE Return(p)
  <2>1. /\ conn' \in [Peer -> {"away", "queued", "open", "closed"}]
        /\ said' \in [Peer -> {"silent", "request", "eof", "reset"}]
        /\ got' \in [Peer -> {"nothing", "headers", "page"}]
    BY <1>2 DEF AtWork, Return
  <2>2. \A q \in Peer : q # p => conn'[q] = conn[q] /\ said'[q] = said[q] /\ got'[q] = got[q]
    BY <1>2 DEF AtWork, Return
  <2>3. conn[p] = "closed" /\ conn'[p] = "away" /\ peer # p
    BY <1>2, PeersAssumption DEF AtWork, Return
  <2> QED
    BY <1>2, <2>1, <2>2, <2>3, PeersAssumption DEF AtWork, Return, Busy
<1>3. ASSUME NEW word \in {"request", "eof", "reset"}, Say(p, word) PROVE AtWork'
  <2>1. said' \in [Peer -> {"silent", "request", "eof", "reset"}]
    BY <1>3 DEF AtWork, Say
  <2>2. \A q \in Peer : conn[q] = "closed" => said'[q] = said[q]
    BY <1>3 DEF AtWork, Say
  <2> QED
    BY <1>3, <2>1, <2>2 DEF AtWork, Say, Busy
<1> QED
  BY <1>1, <1>2, <1>3

LEMMA WorkInvariant == Spec => []AtWork
<1>1. Init => AtWork
  BY PeersAssumption DEF Init, AtWork, Busy
<1>2. AtWork /\ [Next]_vars => AtWork'
  <2> SUFFICES ASSUME AtWork, [Next]_vars PROVE AtWork'
    OBVIOUS
  <2>1. CASE UNCHANGED vars
    BY <2>1 DEF vars, peers, AtWork
  <2> QED
    BY <2>1, WorkOwner, WorkWaits, WorkAccept, WorkHandle, WorkPeers DEF Next
<1> QED
  BY <1>1, <1>2, PTL DEF Spec

-------------------------------------------------------------------------------

\* When the task has stopped, no connection it accepted is left in the middle
\* (telemetry.rs:90-95).
THEOREM NoScrapeEverCut == Spec => []NoScrapeCut
<1>1. AtWork => NoScrapeCut
  BY PeersAssumption DEF AtWork, NoScrapeCut, Busy
<1> QED
  BY <1>1, WorkInvariant, PTL

\* A scraper that asks or closes its side and does not reset gets the whole page
\* (telemetry.rs:109-121 and 128-160).
THEOREM PageAlwaysWhole == Spec => []WholePage
<1>1. AtWork => WholePage
  BY DEF AtWork, WholePage
<1> QED
  BY <1>1, WorkInvariant, PTL

\* Once shutdown() has returned the task is over and sends nothing any more
\* (telemetry.rs:28-31).
THEOREM AlwaysQuietAfterJoin == Spec => QuietAfterJoin
<1>1. AtWork /\ [Next]_vars
        => [owner = "joined" => UNCHANGED <<task, got>> \/ \E p \in Peer : Return(p)]_vars
  <2> SUFFICES ASSUME AtWork, Next, owner = "joined"
               PROVE  UNCHANGED <<task, got>> \/ \E p \in Peer : Return(p)
    BY DEF vars, peers
  <2>1. task = "stopped"
    BY DEF AtWork
  <2> QED
    BY <2>1 DEF Next, Shutdown, Join, DropHandle, EndProcess, TakeSignal, Accept,
                AcceptError, Wake, Handle, DiscardRequest, SendHeaders, SendBody, Send,
                Finish, Connect, Say, peers, Busy
<1> QED
  BY <1>1, WorkInvariant, PTL DEF Spec, QuietAfterJoin

-------------------------------------------------------------------------------
(* The queue.                                                              *)

Queued(p) == \E i \in 1..Len(backlog) : backlog[i] = p

InQueue ==
  /\ \A p \in Peer : conn[p] = "queued" <=> Queued(p)
  /\ \A i, j \in 1..Len(backlog) : i # j => backlog[i] # backlog[j]

LEMMA QueueAccept ==
  ASSUME AtWork, InQueue, Accept
  PROVE  InQueue'
<1> DEFINE h == Head(backlog)
<1>1. /\ backlog \in Seq(Peer) /\ backlog # <<>> /\ backlog' = Tail(backlog)
      /\ h = backlog[1] /\ h \in Peer
      /\ Len(backlog) \in Nat \ {0} /\ Len(backlog') = Len(backlog) - 1
  BY DEF AtWork, Accept
<1>2. \A i \in 1..Len(backlog') : backlog'[i] = backlog[i + 1] /\ i + 1 \in 2..Len(backlog)
  BY <1>1
<1>3. \A i \in 2..Len(backlog) : backlog[i] # h /\ i - 1 \in 1..Len(backlog')
                                  /\ backlog'[i - 1] = backlog[i]
  BY <1>1, <1>2 DEF InQueue
<1>4. ASSUME NEW p \in Peer PROVE conn'[p] = "queued" <=> Queued(p)'
  <2>1. CASE p = h
    <3>1. ~Queued(p)'
      BY <1>2, <1>3, <2>1 DEF Queued
    <3>2. conn'[p] # "queued"
      BY <1>1, <2>1 DEF AtWork, Accept
    <3> QED
      BY <3>1, <3>2
  <2>2. CASE p # h
    <3>1. conn'[p] = conn[p]
      BY <2>2 DEF AtWork, Accept
    <3>2. ASSUME Queued(p) PROVE Queued(p)'
      <4>1. PICK i \in 1..Len(backlog) : backlog[i] = p
        BY <3>2 DEF Queued
      <4>2. i \in 2..Len(backlog)
        BY <1>1, <2>2, <4>1
      <4> QED
        BY <1>3, <4>1, <4>2 DEF Queued
    <3>3. ASSUME Queued(p)' PROVE Queued(p)
      <4>1. PICK i \in 1..Len(backlog') : backlog'[i] = p
        BY <3>3 DEF Queued
      <4>2. i + 1 \in 1..Len(backlog)
        BY <1>1, <1>2, <4>1
      <4> QED
        BY <1>2, <4>1, <4>2 DEF Queued
    <3> QED
      BY <3>1, <3>2, <3>3 DEF InQueue
  <2> QED
    BY <2>1, <2>2
<1>5. \A i, j \in 1..Len(backlog') : i # j => backlog'[i] # backlog'[j]
  BY <1>1, <1>2 DEF InQueue
<1> QED
  BY <1>4, <1>5 DEF InQueue

LEMMA QueueConnect ==
  ASSUME AtWork, InQueue, NEW q \in Peer, Connect(q)
  PROVE  InQueue'
<1>1. /\ backlog \in Seq(Peer) /\ backlog' = Append(backlog, q)
      /\ Len(backlog) \in Nat /\ Len(backlog') = Len(backlog) + 1
      /\ backlog'[Len(backlog) + 1] = q
  BY DEF AtWork, Connect
<1>2. \A i \in 1..Len(backlog) : backlog'[i] = backlog[i]
  BY <1>1
<1>3. ~Queued(q)
  BY DEF InQueue, Connect
<1>4. ASSUME NEW p \in Peer PROVE conn'[p] = "queued" <=> Queued(p)'
  <2>1. CASE p = q
    BY <1>1, <2>1 DEF AtWork, Connect, Queued
  <2>2. CASE p # q
    <3>1. conn'[p] = conn[p]
      BY <2>2 DEF AtWork, Connect
    <3>2. Queued(p)' <=> Queued(p)
      BY <1>1, <1>2, <2>2 DEF Queued
    <3> QED
      BY <3>1, <3>2 DEF InQueue
  <2> QED
    BY <2>1, <2>2
<1>5. \A i, j \in 1..Len(backlog') : i # j => backlog'[i] # backlog'[j]
  BY <1>1, <1>2, <1>3 DEF InQueue, Queued
<1> QED
  BY <1>4, <1>5 DEF InQueue

LEMMA QueueNext == AtWork /\ InQueue /\ [Next]_vars => InQueue'
<1> SUFFICES ASSUME AtWork, InQueue, [Next]_vars PROVE InQueue'
  OBVIOUS
<1>1. ASSUME UNCHANGED backlog,
             \A p \in Peer : conn'[p] = "queued" <=> conn[p] = "queued"
      PROVE  InQueue'
  BY <1>1 DEF InQueue, Queued
<1>2. CASE UNCHANGED <<backlog, conn>>
  BY <1>1, <1>2
<1>3. CASE Hangup /\ UNCHANGED backlog /\ peer # NoPeer
  <2>1. conn[peer] = "open" /\ peer \in Peer
    BY <1>3 DEF AtWork
  <2>2. \A p \in Peer : conn'[p] = "queued" <=> conn[p] = "queued"
    BY <1>3, <2>1 DEF Hangup, AtWork
  <2> QED
    BY <1>1, <1>3, <2>2
<1>4. CASE Handle
  BY <1>2, <1>3, <1>4
  DEF Handle, DiscardRequest, SendHeaders, SendBody, Send, Finish, AtWork, Busy
<1>5. ASSUME NEW p \in Peer, Return(p) PROVE InQueue'
  <2>1. \A q \in Peer : conn'[q] = "queued" <=> conn[q] = "queued"
    BY <1>5 DEF Return, AtWork
  <2> QED
    BY <1>1, <1>5, <2>1 DEF Return
<1>6. CASE \/ Shutdown \/ Join \/ DropHandle \/ EndProcess
           \/ TakeSignal \/ AcceptError \/ Wake \/ UNCHANGED vars
           \/ \E p \in Peer, word \in {"request", "eof", "reset"} : Say(p, word)
  <2>1. UNCHANGED <<backlog, conn>>
    BY <1>6 DEF Shutdown, Join, DropHandle, EndProcess, TakeSignal, AcceptError, Wake,
                Say, peers, vars
  <2> QED
    BY <1>2, <2>1
<1> QED
  BY <1>4, <1>5, <1>6, QueueAccept, QueueConnect DEF Next

\* The listener's queue and the states of the connections agree, and the task
\* handles a connection exactly while it is at work (telemetry.rs:85-121).
THEOREM TypeCorrect == Spec => []TypeOK
<1>1. Init => InQueue /\ signal \in BOOLEAN
  <2> SUFFICES ASSUME Init PROVE InQueue /\ signal \in BOOLEAN
    OBVIOUS
  <2>1. signal \in BOOLEAN
    BY DEF Init
  <2>2. Len(backlog) = 0 /\ \A p \in Peer : conn[p] # "queued"
    BY DEF Init
  <2>3. InQueue
    BY <2>2 DEF InQueue, Queued
  <2> QED
    BY <2>1, <2>3
<1>2. (signal \in BOOLEAN) /\ [Next]_vars => (signal \in BOOLEAN)'
  <2>1. [Next]_vars => UNCHANGED signal \/ signal' = TRUE
    BY DEF Next, Shutdown, Join, DropHandle, EndProcess, TakeSignal, Accept, AcceptError,
           Wake, Handle, DiscardRequest, SendHeaders, SendBody, Send, Finish, Connect,
           Return, Say, vars, peers
  <2> QED
    BY <2>1
<1>3. AtWork /\ InQueue /\ signal \in BOOLEAN => TypeOK
  BY DEF AtWork, InQueue, Queued, TypeOK
<1> QED
  BY <1>1, <1>2, <1>3, QueueNext, WorkInvariant, PTL DEF Spec
=============================================================================

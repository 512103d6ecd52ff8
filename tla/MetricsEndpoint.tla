--------------------------- MODULE MetricsEndpoint ---------------------------
(***************************************************************************)
(* The metrics endpoint of src/src/telemetry.rs and the owner of its       *)
(* handle, run() of src/src/main.rs.                                       *)
(*                                                                         *)
(* One task waits for the shutdown signal or a connection, whichever comes *)
(* first, and handles a connection to its end before it waits again.  Peers *)
(* are the scrapers on the other side of the sockets: they may stay silent, *)
(* close their side or reset the connection at any moment.                 *)
(***************************************************************************)
EXTENDS Naturals, Sequences

CONSTANTS
  Peer,    \* scrapers
  NoPeer   \* the endpoint handles no connection

ASSUME PeersAssumption == NoPeer \notin Peer

VARIABLES
  task,     \* where the endpoint's task is
  peer,     \* the connection it handles
  signal,   \* the one-shot channel holds the shutdown message
  owner,    \* what run() has done with its MetricsEndpoint
  backlog,  \* connections the listener has not accepted yet, in order
  conn,     \* conn[p]: the state of p's connection
  said,     \* said[p]: what p has done on it
  got       \* got[p]: what the endpoint has sent to p

peers == <<backlog, conn, said, got>>
vars  == <<task, peer, signal, owner, peers>>

Busy == {"read", "headers", "body", "close"}

-------------------------------------------------------------------------------
(* The owner.                                                              *)

\* Slip: shutdown() joins without having sent the signal.
ShutdownUnsent ==
  /\ owner = "holding"
  /\ owner' = "joining"
  /\ UNCHANGED <<task, peer, signal, peers>>

\* FingerServer::run has returned: shutdown() sends the signal and joins.
Shutdown ==
  /\ owner = "holding"
  /\ owner' = "joining"
  /\ signal' = TRUE
  /\ UNCHANGED <<task, peer, peers>>

\* Slip: shutdown() returns without waiting for the task.
JoinUnawaited ==
  /\ owner = "joining"
  /\ owner' = "joined"
  /\ UNCHANGED <<task, peer, signal, peers>>

\* join.await: the task has ended.
Join ==
  /\ owner = "joining"
  /\ task = "stopped"
  /\ owner' = "joined"
  /\ UNCHANGED <<task, peer, signal, peers>>

\* build_store has failed: the handle is dropped, which sends but does not wait.
DropHandle ==
  /\ owner = "holding"
  /\ owner' = "dropped"
  /\ signal' = TRUE
  /\ UNCHANGED <<task, peer, peers>>

\* main returns and the runtime drops the task at its current await.
EndProcess ==
  /\ owner = "dropped"
  /\ task \notin {"stopped", "aborted"}
  /\ task' = "aborted"
  /\ peer' = NoPeer
  /\ UNCHANGED <<signal, owner, peers>>

-------------------------------------------------------------------------------
(* The task.                                                               *)

\* Slip: the signal is polled while a connection is being handled, as it would
\* be if the handler were part of the accept branch's future.
TakeSignalAnywhere ==
  /\ task \in Busy \cup {"select"}
  /\ signal
  /\ task' = "stopped"
  /\ UNCHANGED <<peer, signal, owner, peers>>

\* select! takes the shutdown branch.
TakeSignal ==
  /\ task = "select"
  /\ signal
  /\ task' = "stopped"
  /\ UNCHANGED <<peer, signal, owner, peers>>

\* select! takes the accept branch; both may be ready, and it picks at random.
Accept ==
  /\ task = "select"
  /\ backlog # <<>>
  /\ task' = "read"
  /\ peer' = Head(backlog)
  /\ backlog' = Tail(backlog)
  /\ conn' = [conn EXCEPT ![Head(backlog)] = "open"]
  /\ UNCHANGED <<signal, owner, said, got>>

\* accept fails and handle_accept_error sleeps for a tenth of a second.
AcceptError ==
  /\ task = "select"
  /\ task' = "sleep"
  /\ UNCHANGED <<peer, signal, owner, peers>>

Wake ==
  /\ task = "sleep"
  /\ task' = "select"
  /\ UNCHANGED <<peer, signal, owner, peers>>

\* The handler returns and drops the socket.
Hangup ==
  /\ task' = "select"
  /\ peer' = NoPeer
  /\ conn' = [conn EXCEPT ![peer] = "closed"]

\* Slip: the read is repeated until it returns some bytes.
DiscardRequestInsistent ==
  /\ task = "read"
  /\ \/ /\ said[peer] = "request"
        /\ task' = "headers"
        /\ UNCHANGED <<peer, conn>>
     \/ /\ said[peer] = "reset"
        /\ Hangup
  /\ UNCHANGED <<signal, owner, backlog, said, got>>

\* Slip: a peer that has closed its side is not answered.
DiscardRequestStrict ==
  /\ task = "read"
  /\ \/ /\ said[peer] = "request"
        /\ task' = "headers"
        /\ UNCHANGED <<peer, conn>>
     \/ /\ said[peer] \in {"eof", "reset"}
        /\ Hangup
  /\ UNCHANGED <<signal, owner, backlog, said, got>>

\* discard_request: one read, which waits for the peer with no time limit; an
\* end of file counts as a request.
DiscardRequest ==
  /\ task = "read"
  /\ \/ /\ said[peer] \in {"request", "eof"}
        /\ task' = "headers"
        /\ UNCHANGED <<peer, conn>>
     \/ /\ said[peer] = "reset"
        /\ Hangup
  /\ UNCHANGED <<signal, owner, backlog, said, got>>

\* One write_all of respond_with_metrics: the page fits the socket's buffer, so
\* it fails only on a connection that was reset.
Send(here, part, next) ==
  /\ task = here
  /\ \/ /\ said[peer] # "reset"
        /\ got' = [got EXCEPT ![peer] = part]
        /\ task' = next
        /\ UNCHANGED <<peer, conn>>
     \/ /\ said[peer] = "reset"
        /\ Hangup
        /\ UNCHANGED got
  /\ UNCHANGED <<signal, owner, backlog, said>>

SendHeaders == Send("headers", "headers", "body")
SendBody    == Send("body", "page", "close")

\* shutdown on the socket, whether it fails or not.
Finish ==
  /\ task = "close"
  /\ Hangup
  /\ UNCHANGED <<signal, owner, backlog, said, got>>

-------------------------------------------------------------------------------
(* The scrapers.                                                           *)

\* The listener exists until the task ends and the kernel queues connections.
Connect(p) ==
  /\ conn[p] = "away"
  /\ task \notin {"stopped", "aborted"}
  /\ conn' = [conn EXCEPT ![p] = "queued"]
  /\ backlog' = Append(backlog, p)
  /\ UNCHANGED <<task, peer, signal, owner, said, got>>

Say(p, word) ==
  /\ conn[p] \in {"queued", "open"}
  /\ said[p] \in (IF word = "reset" THEN {"silent", "request", "eof"} ELSE {"silent"})
  /\ said' = [said EXCEPT ![p] = word]
  /\ UNCHANGED <<task, peer, signal, owner, backlog, conn, got>>

\* A scraper whose connection has ended may come again later.
Return(p) ==
  /\ conn[p] = "closed"
  /\ conn' = [conn EXCEPT ![p] = "away"]
  /\ said' = [said EXCEPT ![p] = "silent"]
  /\ got' = [got EXCEPT ![p] = "nothing"]
  /\ UNCHANGED <<task, peer, signal, owner, backlog>>

-------------------------------------------------------------------------------

Init ==
  /\ task = "select"
  /\ peer = NoPeer
  /\ signal = FALSE
  /\ owner = "holding"
  /\ backlog = <<>>
  /\ conn = [p \in Peer |-> "away"]
  /\ said = [p \in Peer |-> "silent"]
  /\ got = [p \in Peer |-> "nothing"]

Handle == DiscardRequest \/ SendHeaders \/ SendBody \/ Finish

Next ==
  \/ Shutdown \/ Join \/ DropHandle \/ EndProcess
  \/ TakeSignal \/ Accept \/ AcceptError \/ Wake \/ Handle
  \/ \E p \in Peer : Connect(p) \/ Return(p)
  \/ \E p \in Peer, word \in {"request", "eof", "reset"} : Say(p, word)

Spec == Init /\ [][Next]_vars

\* The runtime polls what is ready.  select! polls its branches in random order,
\* so neither of two that are ready again and again loses for ever.
FairSpec ==
  /\ Spec
  /\ WF_vars(Join) /\ WF_vars(EndProcess)
  /\ SF_vars(TakeSignal) /\ SF_vars(Accept)
  /\ WF_vars(Wake) /\ WF_vars(Handle)

\* Scrapers that keep no connection open in silence.
PoliteSpec ==
  /\ FairSpec
  /\ \A p \in Peer : WF_vars(said[p] = "silent" /\ \E word \in {"request", "eof", "reset"} : Say(p, word))

-------------------------------------------------------------------------------

\* A connection is handled exactly while the task is at work on it, and what is
\* queued is what the listener has yet to accept, each once and in no other state.
TypeOK ==
  /\ task \in Busy \cup {"select", "sleep", "stopped", "aborted"}
  /\ peer \in Peer \cup {NoPeer}
  /\ (task \in Busy) <=> (peer # NoPeer)
  /\ signal \in BOOLEAN
  /\ owner \in {"holding", "joining", "joined", "dropped"}
  /\ backlog \in Seq(Peer)
  /\ conn \in [Peer -> {"away", "queued", "open", "closed"}]
  /\ said \in [Peer -> {"silent", "request", "eof", "reset"}]
  /\ got \in [Peer -> {"nothing", "headers", "page"}]
  /\ \A p \in Peer : conn[p] = "queued" <=> \E i \in 1..Len(backlog) : backlog[i] = p
  /\ \A i, j \in 1..Len(backlog) : i # j => backlog[i] # backlog[j]

\* The signal never cuts a scrape short: when the task has stopped, no connection
\* it accepted is left in the middle (lines 90-95: the handler runs outside the
\* futures that select! drops).
NoScrapeCut == task = "stopped" => \A p \in Peer : conn[p] # "open"

\* A peer that asks, or closes its side, and does not reset gets the whole page,
\* whenever the signal comes (lines 109-121 and 128-160).
WholePage ==
  \A p \in Peer :
    conn[p] = "closed" /\ said[p] \in {"request", "eof"} => got[p] = "page"

\* After shutdown() has returned the endpoint sends nothing any more (lines 28-31).
QuietAfterJoin == [][owner = "joined" => UNCHANGED <<task, got>> \/ \E p \in Peer : Return(p)]_vars

\* telemetry.rs:19 says of shutdown() "Signal the endpoint to stop and wait for
\* it to terminate": once called, it returns.
ShutdownReturns == owner = "joining" ~> owner = "joined"

\* A scrape that was queued is answered or, if the endpoint stops first, dropped
\* with the listener.
ScrapeServed ==
  \A p \in Peer :
    conn[p] = "queued" /\ said[p] = "request"
      ~> conn[p] = "closed" \/ task \in {"stopped", "aborted"}
=============================================================================

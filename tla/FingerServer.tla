---------------------------- MODULE FingerServer ----------------------------
(***************************************************************************)
(* The accept loop and the connection handler of src/src/server.rs.        *)
(*                                                                         *)
(* Every accepted connection has a task of its own; a task charges its     *)
(* client, reads one line, looks the user up and writes one answer, and    *)
(* every await in it is a point where the other tasks, the clients and the *)
(* timers may act.  The limiter is its client's account in the running     *)
(* window (WindowQuota, which RateLimiter implements), the store answers   *)
(* load_user with any of its outcomes.                                     *)
(*                                                                         *)
(* A request is a number of bytes, with or without the newline after them. *)
(* Meaning says what the parser and the host list make of so many bytes    *)
(* and a newline, so a line that is cut short would mean something else;   *)
(* without the newline the parser refuses them, whatever they are.         *)
(***************************************************************************)
EXTENDS Naturals

CONSTANTS
  Conn,        \* connections
  Client,      \* client addresses
  ClientOf,    \* the address each connection comes from
  Limit,       \* requests a client may make in a window
  MaxBytes,    \* ServerConfig.max_request_bytes
  Meaning      \* Meaning[n]: what a line of n bytes is: invalid, foreign or hosted

ASSUME ConnAssumption == ClientOf \in [Conn -> Client]
ASSUME LimitAssumption == Limit \in Nat \ {0}
ASSUME BytesAssumption == MaxBytes \in Nat \ {0}
ASSUME MeaningAssumption == Meaning \in [0..MaxBytes -> {"invalid", "foreign", "hosted"}]

VARIABLES
  server,    \* the accept loop: listening, failed, or gone with its process
  spent,     \* spent[k]: requests of k counted in its running window
  phase,     \* phase[c]: where the task of c is
  sent,      \* sent[c]: bytes of the request that have arrived, newline not counted
  ended,     \* ended[c]: how the client's side of c has ended
  drains,    \* drains[c]: whether the connection takes the answer, in its buffer or beyond
  answer,    \* answer[c]: the answer the task has settled on
  outcome    \* outcome[c]: how the connection ended, as serve() and the wire saw it

request == <<sent, ended, drains>>
vars    == <<server, spent, phase, request, answer, outcome>>

Lookup == {"record", "missing", "refused"}
Answer == Lookup \cup {"slow_down", "mismatch"}

-------------------------------------------------------------------------------
(* What read_until sees: at most MaxBytes + 1 bytes, newline included.      *)

Taken(c) == sent[c] + (IF ended[c] = "line" THEN 1 ELSE 0)

TooLarge(c) == Taken(c) > MaxBytes

\* The read has something to return without waiting any longer.
Readable(c) == ended[c] # "open" \/ TooLarge(c)

Closed(c, how) ==
  /\ phase' = [phase EXCEPT ![c] = "closed"]
  /\ outcome' = [outcome EXCEPT ![c] = how]

Reply(c, a) ==
  /\ phase' = [phase EXCEPT ![c] = "write"]
  /\ answer' = [answer EXCEPT ![c] = a]

-------------------------------------------------------------------------------
(* The accept loop.                                                        *)

\* accept returns a connection and its handler is spawned.
Accept(c) ==
  /\ server = "listening"
  /\ phase[c] = "queued"
  /\ phase' = [phase EXCEPT ![c] = "check"]
  /\ UNCHANGED <<server, spent, request, answer, outcome>>

\* `accept().await?`: any error ends run(), which drops the listener and with it
\* the connections it has not accepted.
AcceptError ==
  /\ server = "listening"
  /\ server' = "failed"
  /\ phase' = [c \in Conn |-> IF phase[c] = "queued" THEN "closed" ELSE phase[c]]
  /\ outcome' = [c \in Conn |-> IF phase[c] = "queued" THEN "aborted" ELSE outcome[c]]
  /\ UNCHANGED <<spent, request, answer>>

\* main returns after run() has failed: the runtime drops every task.
Exit ==
  /\ server = "failed"
  /\ server' = "exited"
  /\ phase' = [c \in Conn |-> IF phase[c] = "away" THEN "away" ELSE "closed"]
  /\ outcome' = [c \in Conn |-> IF phase[c] \in {"away", "closed"} THEN outcome[c] ELSE "aborted"]
  /\ UNCHANGED <<spent, request, answer>>

-------------------------------------------------------------------------------
(* The handler.                                                            *)

\* Slip: `<=` for `<`, one request more than the limit.
CheckLate(c) ==
  LET k == ClientOf[c] IN
  /\ phase[c] = "check"
  /\ \/ /\ spent[k] <= Limit
        /\ spent' = [spent EXCEPT ![k] = @ + 1]
        /\ phase' = [phase EXCEPT ![c] = "read"]
        /\ UNCHANGED answer
     \/ /\ spent[k] > Limit
        /\ Reply(c, "slow_down")
        /\ UNCHANGED spent
  /\ UNCHANGED <<server, request, outcome>>

\* enforce_rate_limit: check, and on a refusal the answer without a read.
Check(c) ==
  LET k == ClientOf[c] IN
  /\ phase[c] = "check"
  /\ \/ /\ spent[k] < Limit
        /\ spent' = [spent EXCEPT ![k] = @ + 1]
        /\ phase' = [phase EXCEPT ![c] = "read"]
        /\ UNCHANGED answer
     \/ /\ spent[k] = Limit
        /\ Reply(c, "slow_down")
        /\ UNCHANGED spent
  /\ UNCHANGED <<server, request, outcome>>

\* The limiter opens a new window for k or forgets its account.
Renew(k) ==
  /\ spent[k] > 0
  /\ spent' = [spent EXCEPT ![k] = 0]
  /\ UNCHANGED <<server, phase, request, answer, outcome>>

\* read_request fails: reset by the client, closed before the first byte, or too large.
ReadFails(c) ==
  /\ phase[c] = "read"
  /\ Readable(c)
  /\ \/ ended[c] = "reset"
     \/ ended[c] = "eof" /\ sent[c] = 0
     \/ TooLarge(c)
  /\ Closed(c, "failed")
  /\ UNCHANGED <<server, spent, request, answer>>

\* Slip: the newline is taken off if it is there, and not asked for.
ParsedUnterminated(c) == IF sent[c] > 0 THEN Meaning[sent[c]] ELSE "invalid"

\* What the bytes that read_request returns are to the parser, which accepts none
\* that do not end in CRLF.
Parsed(c) == IF ended[c] = "line" THEN Meaning[sent[c]] ELSE "invalid"

\* Slip: the byte beyond the limit is not read, so that too much is a line cut short.
ReadDoneCut(c) ==
  /\ phase[c] = "read"
  /\ Readable(c) /\ ended[c] # "reset"
  /\ ended[c] = "eof" => sent[c] > 0
  /\ \/ TooLarge(c) /\ Reply(c, "refused")
     \/ ~TooLarge(c) /\ Parsed(c) = "invalid" /\ Reply(c, "refused")
     \/ ~TooLarge(c) /\ Parsed(c) = "foreign" /\ Reply(c, "mismatch")
     \/ /\ ~TooLarge(c) /\ Parsed(c) = "hosted"
        /\ phase' = [phase EXCEPT ![c] = "load"]
        /\ UNCHANGED answer
  /\ UNCHANGED <<server, spent, request, outcome>>

\* read_request returns the line, or what came before the client closed its
\* side; it is parsed and its host checked with no await in between.
ReadDone(c) ==
  /\ phase[c] = "read"
  /\ ended[c] \in {"line", "eof"}
  /\ ~TooLarge(c)
  /\ ended[c] = "eof" => sent[c] > 0
  /\ \/ Parsed(c) = "invalid" /\ Reply(c, "refused")
     \/ Parsed(c) = "foreign" /\ Reply(c, "mismatch")
     \/ /\ Parsed(c) = "hosted"
        /\ phase' = [phase EXCEPT ![c] = "load"]
        /\ UNCHANGED answer
  /\ UNCHANGED <<server, spent, request, outcome>>

\* Slip: the deadline is looked at before the bytes that have arrived.
ReadTimesOutFirst(c) ==
  /\ phase[c] = "read"
  /\ Closed(c, "timeout")
  /\ UNCHANGED <<server, spent, request, answer>>

\* timeout() polls the read before the deadline: it expires only on a read that
\* would go on waiting.
ReadTimesOut(c) ==
  /\ phase[c] = "read"
  /\ ~Readable(c)
  /\ Closed(c, "timeout")
  /\ UNCHANGED <<server, spent, request, answer>>

\* load_user, which nothing limits in time.
LoadDone(c) ==
  /\ phase[c] = "load"
  /\ \E a \in Lookup : Reply(c, a)
  /\ UNCHANGED <<server, spent, request, outcome>>

\* write_all has handed the answer to the connection, and shutdown.
WriteDone(c) ==
  /\ phase[c] = "write"
  /\ ended[c] # "reset"
  /\ drains[c]
  /\ Closed(c, "answered")
  /\ UNCHANGED <<server, spent, request, answer>>

\* Slip: no timeout on the write.
WriteFailsUntimed(c) ==
  /\ phase[c] = "write"
  /\ ended[c] = "reset"
  /\ Closed(c, "failed")
  /\ UNCHANGED <<server, spent, request, answer>>

\* write_all fails, or waits for a connection that takes nothing until its timeout
\* expires: the handler returns the error and drops the stream.
WriteFails(c) ==
  /\ phase[c] = "write"
  /\ \/ ended[c] = "reset" /\ Closed(c, "failed")
     \/ ended[c] # "reset" /\ ~drains[c] /\ Closed(c, "timeout")
  /\ UNCHANGED <<server, spent, request, answer>>

-------------------------------------------------------------------------------
(* The clients.                                                            *)

Connect(c) ==
  /\ server = "listening"
  /\ phase[c] = "away"
  /\ phase' = [phase EXCEPT ![c] = "queued"]
  /\ \E d \in BOOLEAN : drains' = [drains EXCEPT ![c] = d]
  /\ UNCHANGED <<server, spent, sent, ended, answer, outcome>>

\* Nothing is sent on a connection that is over; bytes after the newline are not read.
Sending(c) == phase[c] \notin {"away", "closed"} /\ ended[c] = "open"

SendByte(c) ==
  /\ Sending(c)
  /\ sent[c] <= MaxBytes
  /\ sent' = [sent EXCEPT ![c] = @ + 1]
  /\ UNCHANGED <<server, spent, phase, ended, drains, answer, outcome>>

End(c, how) ==
  /\ \/ Sending(c)
     \/ how = "reset" /\ phase[c] \notin {"away", "closed"} /\ ended[c] # "reset"
  /\ ended' = [ended EXCEPT ![c] = how]
  /\ UNCHANGED <<server, spent, phase, sent, drains, answer, outcome>>

-------------------------------------------------------------------------------

Init ==
  /\ server = "listening"
  /\ spent = [k \in Client |-> 0]
  /\ phase = [c \in Conn |-> "away"]
  /\ sent = [c \in Conn |-> 0]
  /\ ended = [c \in Conn |-> "open"]
  /\ drains = [c \in Conn |-> FALSE]
  /\ answer = [c \in Conn |-> "none"]
  /\ outcome = [c \in Conn |-> "none"]

\* The steps of a connection's task that no one else has to make possible: the
\* runtime polls a task that is ready and its timers expire.
Serve(c) ==
  \/ Check(c)
  \/ ReadFails(c) \/ ReadDone(c) \/ ReadTimesOut(c)
  \/ WriteDone(c) \/ WriteFails(c)

Next ==
  \/ \E c \in Conn : Accept(c) \/ Serve(c) \/ LoadDone(c)
  \/ AcceptError \/ Exit
  \/ \E k \in Client : Renew(k)
  \/ \E c \in Conn : Connect(c) \/ SendByte(c)
  \/ \E c \in Conn, how \in {"line", "eof", "reset"} : End(c, how)

Spec == Init /\ [][Next]_vars

\* Each task runs on its own; nothing is assumed of the clients or the store.
FairSpec == Spec /\ \A c \in Conn : WF_vars(Serve(c))

-------------------------------------------------------------------------------

\* An answer exists exactly where a task has got as far as writing one.
TypeOK ==
  /\ server \in {"listening", "failed", "exited"}
  /\ spent \in [Client -> 0..Limit]
  /\ phase \in [Conn -> {"away", "queued", "check", "read", "load", "write", "closed"}]
  /\ sent \in [Conn -> 0..(MaxBytes + 1)]
  /\ ended \in [Conn -> {"open", "line", "eof", "reset"}]
  /\ drains \in [Conn -> BOOLEAN]
  /\ answer \in [Conn -> Answer \cup {"none"}]
  /\ outcome \in [Conn -> {"none", "answered", "failed", "timeout", "aborted"}]
  /\ \A c \in Conn :
       /\ phase[c] = "closed" <=> outcome[c] # "none"
       /\ phase[c] = "write" => answer[c] # "none"
       /\ phase[c] \notin {"write", "closed"} => answer[c] = "none"

\* The store is asked, and its outcome told, only for a line that has arrived with
\* its newline within MaxBytes and means a user of a served host; the client may
\* have reset the connection since (query.rs:44; server.rs:94-99, 165-171, 176-179).
LookupEarned ==
  \A c \in Conn :
    (phase[c] = "load" \/ answer[c] \in {"record", "missing"})
      => /\ ~TooLarge(c)
         /\ ended[c] \in {"line", "reset"}
         /\ Meaning[sent[c]] = "hosted"

\* A complete line that fits is never dropped in silence: whatever the timers do,
\* its task settles on an answer unless the process ends first (lines 159-171).
LineAnswered ==
  \A c \in Conn :
    /\ phase[c] = "closed"
    /\ ended[c] = "line"
    /\ ~TooLarge(c)
    /\ outcome[c] # "aborted"
    => answer[c] # "none"

\* What is no line never passes for one.  A client that closes its side without a
\* newline gets the generic refusal whatever its bytes would have meant, and one that
\* has sent nothing, or more than fits, gets no answer; all of this unless its quota
\* was spent (server.rs:156-170, query.rs:44).
NoLineRefused ==
  \A c \in Conn :
    /\ phase[c] = "closed"
    /\ outcome[c] # "aborted"
    /\ answer[c] # "slow_down"
    => /\ ended[c] = "eof" /\ sent[c] > 0 /\ ~TooLarge(c) => answer[c] = "refused"
       /\ ended[c] = "eof" /\ sent[c] = 0 => answer[c] = "none"
       /\ TooLarge(c) => answer[c] = "none"

\* No connection waits for another, nor for its client: each one the server has
\* accepted ends, unless the store never answers its lookup (the timeouts of lines
\* 145, 159 and 201; load_user on line 179 has none).
ConnectionEnds ==
  \A c \in Conn :
    phase[c] = "check" ~> (phase[c] = "closed" \/ [](phase[c] = "load"))
=============================================================================

------------------------- MODULE FingerServerProofs -------------------------
(***************************************************************************)
(* Proofs about FingerServer, for any number of connections and clients,   *)
(* any limits and any meaning of the requests.                             *)
(***************************************************************************)
EXTENDS FingerServer, TLAPS

-------------------------------------------------------------------------------
(* Types.                                                                  *)

LEMMA TypeInit == Init => TypeOK
  BY LimitAssumption, BytesAssumption DEF Init, TypeOK

LEMMA TypeCheck ==
  ASSUME TypeOK, NEW c \in Conn, Check(c)
  PROVE  TypeOK'
<1>1. ClientOf[c] \in Client /\ spent[ClientOf[c]] \in 0..Limit
  BY ConnAssumption DEF TypeOK
<1>2. spent' \in [Client -> 0..Limit]
  BY <1>1, LimitAssumption DEF Check, TypeOK
<1> QED
  BY <1>2 DEF Check, Reply, TypeOK, request, Answer, Lookup

LEMMA TypeServe ==
  ASSUME TypeOK, NEW c \in Conn, Accept(c) \/ Serve(c) \/ LoadDone(c)
  PROVE  TypeOK'
<1>1. CASE Accept(c)
  BY <1>1 DEF Accept, TypeOK, request
<1>2. CASE Check(c)
  BY <1>2, TypeCheck
<1>3. CASE ReadFails(c)
  BY <1>3 DEF ReadFails, Closed, TypeOK, request
<1>4. CASE ReadDone(c)
  BY <1>4 DEF ReadDone, Reply, TypeOK, request, Answer, Lookup
<1>5. CASE ReadTimesOut(c)
  BY <1>5 DEF ReadTimesOut, Closed, TypeOK, request
<1>6. CASE LoadDone(c)
  BY <1>6 DEF LoadDone, Reply, TypeOK, request, Answer, Lookup
<1>7. CASE WriteDone(c)
  BY <1>7 DEF WriteDone, Closed, TypeOK, request
<1>8. CASE WriteFails(c)
  BY <1>8 DEF WriteFails, Closed, TypeOK, request
<1> QED
  BY <1>1, <1>2, <1>3, <1>4, <1>5, <1>6, <1>7, <1>8 DEF Serve

LEMMA TypeEnds ==
  ASSUME TypeOK, AcceptError \/ Exit
  PROVE  TypeOK'
  BY DEF AcceptError, Exit, TypeOK, request

LEMMA TypeClient ==
  ASSUME TypeOK, NEW c \in Conn,
         \/ Connect(c) \/ SendByte(c)
         \/ \E how \in {"line", "eof", "reset"} : End(c, how)
  PROVE  TypeOK'
<1>1. CASE Connect(c)
  BY <1>1 DEF Connect, TypeOK, request
<1>2. CASE SendByte(c)
  BY <1>2, BytesAssumption DEF SendByte, TypeOK, request
<1>3. ASSUME NEW how \in {"line", "eof", "reset"}, End(c, how) PROVE TypeOK'
  BY <1>3 DEF End, TypeOK, request
<1> QED
  BY <1>1, <1>2, <1>3

LEMMA TypeNext == TypeOK /\ [Next]_vars => TypeOK'
<1> SUFFICES ASSUME TypeOK, [Next]_vars PROVE TypeOK'
  OBVIOUS
<1>1. ASSUME NEW k \in Client, Renew(k) PROVE TypeOK'
  BY <1>1, LimitAssumption DEF Renew, TypeOK, request
<1>2. CASE UNCHANGED vars
  BY <1>2 DEF vars, request, TypeOK
<1> QED
  BY <1>1, <1>2, TypeServe, TypeEnds, TypeClient DEF Next

\* Every variable keeps its type, and an answer, an outcome and a closed
\* connection go together as serve() leaves them.
THEOREM TypeCorrect == Spec => []TypeOK
  BY TypeInit, TypeNext, PTL DEF Spec
-------------------------------------------------------------------------------
(* What the tasks have heard.  A task past its read has a request from a     *)
(* client that has nothing more to say, and looks a user up only for one     *)
(* that ended in a newline; only a refused client is answered without.       *)

Heard ==
  \A c \in Conn :
    phase[c] \in {"load", "write"} /\ answer[c] # "slow_down"
      => /\ ended[c] # "open"
         /\ ~TooLarge(c)
         /\ ended[c] = "eof" => /\ sent[c] > 0
                               /\ phase[c] = "write" /\ answer[c] = "refused"

Settled == Heard /\ LookupEarned /\ LineAnswered /\ NoLineRefused

\* A step of one task changes nothing its clients have done.
LEMMA ServeSettled ==
  ASSUME TypeOK, Settled, NEW c \in Conn, Accept(c) \/ Serve(c) \/ LoadDone(c)
  PROVE  Settled'
<1> USE DEF Settled, Heard, LookupEarned, LineAnswered, NoLineRefused, TooLarge, Taken,
            request
<1>1. CASE Accept(c)
  BY <1>1 DEF Accept, TypeOK
<1>2. CASE Check(c)
  BY <1>2 DEF Check, Reply, TypeOK
<1>3. CASE ReadFails(c)
  BY <1>3 DEF ReadFails, Readable, Closed, TypeOK
<1>4. CASE ReadDone(c)
  BY <1>4 DEF ReadDone, Parsed, Reply, TypeOK
<1>5. CASE ReadTimesOut(c)
  BY <1>5 DEF ReadTimesOut, Readable, Closed, TypeOK
<1>6. CASE LoadDone(c)
  BY <1>6 DEF LoadDone, Reply, Lookup, TypeOK
<1>7. CASE WriteDone(c)
  BY <1>7 DEF WriteDone, Closed, TypeOK
<1>8. CASE WriteFails(c)
  BY <1>8 DEF WriteFails, Closed, TypeOK
<1> QED
  BY <1>1, <1>2, <1>3, <1>4, <1>5, <1>6, <1>7, <1>8 DEF Serve

\* Whatever ends with the accept loop or the process was aborted.
LEMMA EndsSettled ==
  ASSUME TypeOK, Settled, AcceptError \/ Exit
  PROVE  Settled'
BY DEF Settled, Heard, LookupEarned, LineAnswered, NoLineRefused, TooLarge, Taken,
       AcceptError, Exit, TypeOK, request

\* A client says nothing after its line, its end of file or its reset, except to
\* reset the connection, and nothing at all once it is closed.
LEMMA ClientSettled ==
  ASSUME TypeOK, Settled, NEW c \in Conn,
         \/ Connect(c) \/ SendByte(c)
         \/ \E how \in {"line", "eof", "reset"} : End(c, how)
  PROVE  Settled'
<1> USE DEF Settled, Heard, LookupEarned, LineAnswered, NoLineRefused, TooLarge, Taken,
            request
<1>1. CASE Connect(c)
  BY <1>1 DEF Connect, TypeOK
<1>2. CASE SendByte(c)
  BY <1>2 DEF SendByte, Sending, TypeOK
<1>3. ASSUME NEW how \in {"line", "eof", "reset"}, End(c, how) PROVE Settled'
  <2>1. /\ UNCHANGED <<phase, sent, answer, outcome>>
        /\ ended' = [ended EXCEPT ![c] = how]
        /\ phase[c] \notin {"away", "closed"}
        /\ ended[c] = "open" \/ (ended[c] \in {"line", "eof"} /\ how = "reset")
    BY <1>3 DEF End, Sending, TypeOK
  <2>2. \A d \in Conn : d # c => ended'[d] = ended[d]
    BY <2>1 DEF TypeOK
  <2>3. /\ ended'[c] = how
        /\ sent[c] \in Nat /\ MaxBytes \in Nat
        /\ answer[c] # "none" => phase[c] = "write"
    BY <2>1, BytesAssumption DEF TypeOK
  <2>4. Heard'
    BY <2>1, <2>2, <2>3
  <2>5. LookupEarned'
    BY <2>1, <2>2, <2>3
  <2>6. LineAnswered'
    BY <2>1, <2>2, <2>3
  <2>7. NoLineRefused'
    BY <2>1, <2>2, <2>3
  <2> QED
    BY <2>4, <2>5, <2>6, <2>7
<1> QED
  BY <1>1, <1>2, <1>3

LEMMA SettledNext == TypeOK /\ Settled /\ [Next]_vars => Settled'
<1> SUFFICES ASSUME TypeOK, Settled, [Next]_vars PROVE Settled'
  OBVIOUS
<1>1. CASE UNCHANGED vars \/ \E k \in Client : Renew(k)
  BY <1>1 DEF vars, request, Renew, Settled, Heard, LookupEarned, LineAnswered,
              NoLineRefused, TooLarge, Taken
<1> QED
  BY <1>1, ServeSettled, EndsSettled, ClientSettled DEF Next

LEMMA AlwaysSettled == Spec => []Settled
<1>1. Init => Settled
  BY DEF Init, Settled, Heard, LookupEarned, LineAnswered, NoLineRefused
<1> QED
  BY <1>1, TypeInit, TypeNext, SettledNext, PTL DEF Spec

\* The store is asked only for a line that ended in a newline within the limit and
\* names a user of a served host (server.rs:94-99, 165-171, 176-179; query.rs:44).
THEOREM LookupAlwaysEarned == Spec => []LookupEarned
<1>1. Settled => LookupEarned
  BY DEF Settled
<1> QED
  BY <1>1, AlwaysSettled, PTL

\* A complete line that fits is answered unless the process ends first.
THEOREM LineAlwaysAnswered == Spec => []LineAnswered
<1>1. Settled => LineAnswered
  BY DEF Settled
<1> QED
  BY <1>1, AlwaysSettled, PTL

\* A request cut off by the client's end of file gets the generic refusal, an empty
\* one and one that is too long get nothing (server.rs:156-170; query.rs:44).
THEOREM NoLineAlwaysRefused == Spec => []NoLineRefused
<1>1. Settled => NoLineRefused
  BY DEF Settled
<1> QED
  BY <1>1, AlwaysSettled, PTL
=============================================================================

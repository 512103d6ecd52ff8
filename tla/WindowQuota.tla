----------------------------- MODULE WindowQuota -----------------------------
(***************************************************************************)
(* What the rate limiter promises its caller, with no map, no shards and   *)
(* no calls in progress: every client has an account of the window it last *)
(* opened and of the requests granted in it, and a request is granted or   *)
(* refused in one step by that account alone.                              *)
(*                                                                         *)
(* A request carries the instant at which it arrived.  An account whose    *)
(* window is over may be closed; one whose window is not is only ever      *)
(* forgotten if the limiter cannot hold the accounts of all the clients.   *)
(***************************************************************************)
EXTENDS Integers

CONSTANTS
  IP,         \* client addresses
  Time,       \* instants, a set of naturals
  Limit,      \* requests granted per window
  Window,     \* length of a window
  Forgetful   \* TRUE if there may be more clients than accounts

VARIABLES
  clock,      \* the present
  account,    \* account[k] = [opened, used]
  admitted,   \* admitted[k][t]: requests of k granted at instant t
  refused     \* refused[k]: requests of k refused

vars == <<clock, account, admitted, refused>>

\* The account of a client that has none: nothing is granted in it yet.
Closed == [opened |-> 0, used |-> 0]

\* Seen from instant t, the account's window is still running.
Running(k, t) == account[k].used > 0 /\ t - account[k].opened < Window

Over(k) == clock - account[k].opened >= Window

\* The request of k that arrived at t opens a window or is counted in the running one.
Grant(k, t) ==
  /\ t <= clock
  /\ \/ /\ ~Running(k, t)
        /\ account' = [account EXCEPT ![k] = [opened |-> t, used |-> 1]]
     \/ /\ Running(k, t)
        /\ account[k].used < Limit
        /\ account' = [account EXCEPT ![k].used = @ + 1]
  /\ admitted' = [admitted EXCEPT ![k][clock] = @ + 1]
  /\ UNCHANGED <<clock, refused>>

\* A request is refused only within a running window whose limit is used up.
Refuse(k, t) ==
  /\ t <= clock
  /\ Running(k, t)
  /\ account[k].used = Limit
  /\ refused' = [refused EXCEPT ![k] = @ + 1]
  /\ UNCHANGED <<clock, account, admitted>>

\* Accounts whose windows are over may be closed at any moment.
Close(S) ==
  /\ \A k \in S : Over(k)
  /\ account' = [k \in IP |-> IF k \in S THEN Closed ELSE account[k]]
  /\ UNCHANGED <<clock, admitted, refused>>

Forget(k) ==
  /\ Forgetful
  /\ account' = [account EXCEPT ![k] = Closed]
  /\ UNCHANGED <<clock, admitted, refused>>

Pass ==
  /\ clock' \in Time
  /\ clock' = clock + 1
  /\ UNCHANGED <<account, admitted, refused>>

Init ==
  /\ clock = 0
  /\ account = [k \in IP |-> Closed]
  /\ admitted = [k \in IP |-> [t \in Time |-> 0]]
  /\ refused = [k \in IP |-> 0]

Next ==
  \/ \E k \in IP, t \in Time : Grant(k, t) \/ Refuse(k, t)
  \/ \E S \in SUBSET IP : Close(S)
  \/ \E k \in IP : Forget(k)
  \/ Pass

Spec == Init /\ [][Next]_vars
=============================================================================

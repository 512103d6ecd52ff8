---------------------------- MODULE MCFingermouse ----------------------------
(* An instance of Fingermouse for TLC.                                     *)
EXTENDS Fingermouse

Numbers(n, window, bytes) ==
  [rate_limit |-> n, rate_window_secs |-> window, rate_capacity |-> n,
   request_timeout_ms |-> n, max_request_bytes |-> bytes]

\* Nothing but zeros, what is usual, and windows beyond the one bound and the other.
MCCliNumbers ==
  {Numbers(0, 0, 0), Numbers(30, 60, 512), Numbers(30, 150, 4097), Numbers(30, 500, 63)}
=============================================================================

--------------------------- MODULE MCFingerServer ---------------------------
(* Instances of FingerServer for TLC.                                      *)
EXTENDS FingerServer

\* All connections come from one client, so that they share its quota.
MCClientOf == [c \in Conn |-> CHOOSE k \in Client : TRUE]

\* An empty line is invalid, two bytes name a user of another host, one and three a
\* user of this one: with a limit of three bytes the last fits only without its
\* newline.
MCMeaning == [n \in 0..MaxBytes |-> CASE n = 0 -> "invalid"
                                      [] n = 2 -> "foreign"
                                      [] OTHER -> "hosted"]
=============================================================================

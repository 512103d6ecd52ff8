---------------------------- MODULE MCRateLimiter ----------------------------
(* Instances of RateLimiter for TLC.                                       *)
EXTENDS RateLimiter, TLC

CONSTANTS a1, a2, a3, a4, a5

\* The first two addresses share a shard, the others another one.
MCShardOf == [k \in IP |-> IF k \in {a1, a2} THEN 0 ELSE 1]

\* The behaviours in which no call stalls: the clock advances between calls only.
PromptSpec == Init /\ [][Next /\ (clock' # clock => Idle)]_vars

WorkersAlike == Permutations(Worker)
=============================================================================

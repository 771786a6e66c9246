---------------------------- MODULE StateQueriesMC ----------------------------
(* Small deployments for TLC. *)
EXTENDS StateQueries

CONSTANTS p1, snap, s1, k1, k2, t1, t2

\* One instance owns every partition.
SoleOwner == [p \in {p1, snap} |-> s1]

\* The threads are alike, and so are the keys.
Alike == {[x \in Threads \cup Keys |-> IF x \in Threads THEN p[x] ELSE q[x]] :
            p \in Permutations(Threads), q \in Permutations(Keys)}
===============================================================================

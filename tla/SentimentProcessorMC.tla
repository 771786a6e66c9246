------------------------ MODULE SentimentProcessorMC ------------------------
(* Small processor deployments for TLC. *)
EXTENDS SentimentProcessor

CONSTANTS r1, r2, a1, a2, nobody

\* Every instance has an id of its own.
OwnId == [i \in Instances |-> i]
=============================================================================

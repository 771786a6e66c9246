-------------------------- MODULE BroadcastServiceMC --------------------------
(* Small broadcast services for TLC. *)
EXTENDS BroadcastService

CONSTANTS w1, w2, g1, g2, c1, c2, k1, k2

\* One WebSocket client and one stream.
HomeOf == [c \in {c1, c2} |-> w1]
FirstOwnsAll == [p \in Partitions |-> w1]
EachOwnsOne == [p \in Partitions |-> IF p = g1 THEN w1 ELSE w2]
OwnIds == [i \in Instances |-> i]
Everything == [c \in {c1, c2} |-> Keys]
=============================================================================

--------------------------- MODULE GraphStorageMC ---------------------------
(* Small storage deployments for TLC. *)
EXTENDS GraphStorage

CONSTANTS p1, p2, snap, s1, s2, k1, k2

\* One instance owns every partition.
SoleOwner == [p \in {p1, p2, snap} |-> s1]

\* The same with a single change partition.
SoleOwnerOnePartition == [p \in {p1, snap} |-> s1]

\* Two instances of the group share the partitions; the snapshots go to the second.
SharedOwner == [p \in {p1, p2, snap} |-> IF p = p1 THEN s1 ELSE s2]

=============================================================================

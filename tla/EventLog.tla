------------------------------ MODULE EventLog ------------------------------
(***************************************************************************)
(* What the storage consumer promises about the graph-changes topic, with  *)
(* no worker, no database connection, no retry and no process in sight: an *)
(* offered message becomes durable or is given up, an offset is            *)
(* acknowledged to the broker only when every message up to it has had one *)
(* of the two outcomes, and neither durability nor acknowledgement is ever *)
(* taken back.  GraphStorage is shown to implement this module.            *)
(***************************************************************************)
EXTENDS Naturals

CONSTANT Partitions

VARIABLES offered,   \* messages produced so far, per partition
          durable,   \* <<partition, offset>> with at least one database row
          given_up,  \* <<partition, offset>> whose insert failed for good
          acked      \* the group's committed offset, per partition

vars == <<offered, durable, given_up, acked>>

Settled(p, o) == <<p, o>> \in durable \cup given_up

Init ==
    /\ offered = [p \in Partitions |-> 0]
    /\ durable = {}
    /\ given_up = {}
    /\ acked = [p \in Partitions |-> 0]

Offer(p) ==
    /\ offered' = [offered EXCEPT ![p] = @ + 1]
    /\ UNCHANGED <<durable, given_up, acked>>

Persist(p, o) ==
    /\ durable' = durable \cup {<<p, o>>}
    /\ UNCHANGED <<offered, given_up, acked>>

GiveUp(p, o) ==
    /\ given_up' = given_up \cup {<<p, o>>}
    /\ UNCHANGED <<offered, durable, acked>>

\* The last attempt may have reached the database although its answer was lost.
PersistAndGiveUp(p, o) ==
    /\ durable' = durable \cup {<<p, o>>}
    /\ given_up' = given_up \cup {<<p, o>>}
    /\ UNCHANGED <<offered, acked>>

Acknowledge(p, o) ==
    /\ acked[p] < o
    /\ \A q \in 1..o : Settled(p, q)
    /\ acked' = [acked EXCEPT ![p] = o]
    /\ UNCHANGED <<offered, durable, given_up>>

Next ==
    \E p \in Partitions :
        \/ Offer(p)
        \/ \E o \in 1..offered[p] :
             \/ Persist(p, o)
             \/ GiveUp(p, o)
             \/ PersistAndGiveUp(p, o)
             \/ Acknowledge(p, o)

Spec == Init /\ [][Next]_vars
=============================================================================

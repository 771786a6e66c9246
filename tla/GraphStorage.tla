---------------------------- MODULE GraphStorage ----------------------------
(***************************************************************************)
(* The graph storage service: ai-analysis-service/src/storage_service.     *)
(*                                                                         *)
(* One or several instances of one consumer group read the partitions of   *)
(* graph-changes and the graph-snapshots topic.  For a change event the    *)
(* worker thread (consumer.py) inserts a row, folds the event into the     *)
(* manager's in-memory graph (snapshot_manager.py), perhaps stores and     *)
(* publishes a snapshot, and then commits the message's offset.  The       *)
(* threads of its API are in StateQueries.                                 *)
(*                                                                         *)
(* Abstractions.                                                           *)
(*  - A change event carries absolute new values, so only WHICH event last *)
(*    wrote a key matters: an event is [seq, time, keys] where seq is its  *)
(*    place in the order the graph-state service produced it (it grows     *)
(*    with every new_mentions), and a graph maps a key (a node id or an    *)
(*    edge key) to the seq of its last writer, 0 for an absent key.        *)
(*  - consume() returns a batch; the worker handles its messages one after *)
(*    the other and commits each, so a batch is modelled as successive     *)
(*    one-message polls.  Group membership is static: a crashed instance   *)
(*    comes back to the partitions it had.                                 *)
(*  - The wall clock of the retention cutoff is any value of PruneCutoffs. *)
(***************************************************************************)
EXTENDS Integers, Sequences, FiniteSets, SequencesExt

CONSTANTS
    Partitions,         \* partitions of graph-changes
    SnapshotPartition,  \* the partition of graph-snapshots
    Instances,          \* storage_instance_id of every running service
    Owner,              \* [AllPartitions -> Instances], the group assignment
    Keys,               \* node ids and edge keys
    EveryNChanges,      \* snapshot_every_n_changes, at least 1
    EveryMinutes,       \* snapshot_every_minutes in clock ticks, at least 1
    Attempts,           \* attempts of utils.retry (4 in the code)
    PruneCutoffs,       \* possible values of now - retention
    MinTimeStep,        \* least distance from one event's timestamp to the next
    MaxEvents,          \* bound: change events produced
    MaxTime,            \* bound: timestamps are 1..MaxTime
    MaxFaults,          \* bound: failed database or broker calls
    MaxCrashes          \* bound: crashes of storage instances

AllPartitions == Partitions \cup {SnapshotPartition}

ASSUME PartitionsAssumption == SnapshotPartition \notin Partitions
ASSUME OwnerAssumption == Owner \in [AllPartitions -> Instances]
ASSUME BoundsAssumption ==
    /\ EveryNChanges \in Nat \ {0}
    /\ EveryMinutes \in Nat \ {0}
    /\ Attempts \in Nat \ {0}
    /\ MaxEvents \in Nat
    /\ MaxTime \in Nat
    /\ MaxFaults \in Nat
    /\ MaxCrashes \in Nat
    /\ MinTimeStep \in Int
ASSUME TimesAssumption == PruneCutoffs \subseteq Nat

VARIABLES
    producer,     \* the graph-state service: events produced, latest timestamp
    changes,      \* graph-changes, [Partitions -> Seq(Event)]
    snaps,        \* graph-snapshots, Seq(SnapshotMessage)
    committed,    \* the group's committed offset of every partition
    position,     \* the consumer's fetch position of every partition
    rows,         \* table graph_change_events; a row's id is its index
    snapshots,    \* table graph_snapshots
    pc,           \* where the worker of an instance is in _run
    msg,          \* the message the worker of an instance handles
    tries,        \* attempts of the current retry() that have failed
    mgr,          \* SnapshotManager of an instance
    insert_failed,\* history: <<p, o>> whose store_change_event raised
    faults, crashes \* history: how many of each so far

vars == <<producer, changes, snaps, committed, position, rows, snapshots, pc, msg, tries,
          mgr, insert_failed, faults, crashes>>

Event == [seq : Nat \ {0}, time : Nat \ {0}, keys : SUBSET Keys]
Graph == [Keys -> Nat]
Snapshot == [snapshot_time : Nat, last_event_id : Nat, graph_state : Graph]
Manager == [current_state : Graph, changes_since_snapshot : Nat,
            last_snapshot_time : Nat, last_event_id : Nat]

None == 0      \* last_snapshot_time and last_event_id before the first event
NoMessage == [part |-> SnapshotPartition, off |-> 0]

empty_graph_state == [k \in Keys |-> 0]

\* Only ids and new_* values are read, so a replayed event overwrites.
apply_change_event(state, e) ==
    [k \in Keys |-> IF k \in e.keys THEN e.seq ELSE state[k]]

EventOf(row) == changes[row.part][row.off]

LogLength(p) == IF p \in Partitions THEN Len(changes[p]) ELSE Len(snaps)

NewManager ==
    [current_state |-> empty_graph_state, changes_since_snapshot |-> 0,
     last_snapshot_time |-> None, last_event_id |-> None]

Init ==
    /\ producer = [produced |-> 0, latest_time |-> 0]
    /\ changes = [p \in Partitions |-> <<>>]
    /\ snaps = <<>>
    /\ committed = [p \in AllPartitions |-> 0]
    /\ position = [p \in AllPartitions |-> 0]
    /\ rows = <<>>
    /\ snapshots = {}
    /\ pc = [i \in Instances |-> "consume"]
    /\ msg = [i \in Instances |-> NoMessage]
    /\ tries = [i \in Instances |-> 0]
    /\ mgr = [i \in Instances |-> NewManager]
    /\ insert_failed = {}
    /\ faults = 0
    /\ crashes = 0

-----------------------------------------------------------------------------
(* The producer of graph-changes.                                          *)

\* GraphStreamWorker produces the change event of one article, keyed by the
\* article id, with the time at which the article was processed upstream.
Publish(p, t, ks) ==
    /\ producer.produced < MaxEvents
    /\ t >= producer.latest_time + MinTimeStep
    /\ producer' = [produced |-> producer.produced + 1,
                    latest_time |-> IF t > producer.latest_time THEN t ELSE producer.latest_time]
    /\ changes' = [changes EXCEPT ![p] =
                     Append(@, [seq |-> producer.produced + 1, time |-> t, keys |-> ks])]
    /\ UNCHANGED <<snaps, committed, position, rows, snapshots, pc, msg, tries,
                   mgr, insert_failed, faults, crashes>>

-----------------------------------------------------------------------------
(* StorageConsumerWorker._run                                              *)

OwnSnapshot(i, o) == snaps[o].source_instance = i

\* Mutant: only the newest message of a batch is handled.
ConsumeNewest(i, p) ==
    /\ pc[i] = "consume"
    /\ Owner[p] = i
    /\ position[p] < LogLength(p)
    /\ position' = [position EXCEPT ![p] = LogLength(p)]
    /\ msg' = [msg EXCEPT ![i] = [part |-> p, off |-> LogLength(p)]]
    /\ tries' = [tries EXCEPT ![i] = 0]
    /\ pc' = [pc EXCEPT ![i] =
                IF p \in Partitions THEN "store_change"
                ELSE IF OwnSnapshot(i, LogLength(p)) THEN "commit"
                ELSE "store_external"]
    /\ UNCHANGED <<producer, changes, snaps, committed, rows, snapshots, mgr,
                   insert_failed, faults, crashes>>

Consume(i, p) ==
    /\ pc[i] = "consume"
    /\ Owner[p] = i
    /\ position[p] < LogLength(p)
    /\ position' = [position EXCEPT ![p] = @ + 1]
    /\ msg' = [msg EXCEPT ![i] = [part |-> p, off |-> position[p] + 1]]
    /\ tries' = [tries EXCEPT ![i] = 0]
    /\ pc' = [pc EXCEPT ![i] =
                IF p \in Partitions THEN "store_change"
                ELSE IF OwnSnapshot(i, position[p] + 1) THEN "commit"
                ELSE "store_external"]
    /\ UNCHANGED <<producer, changes, snaps, committed, rows, snapshots, mgr,
                   insert_failed, faults, crashes>>

\* on_change_event decides whether to snapshot after it has folded the event.
SnapshotDue(m, t) ==
    \/ m.last_snapshot_time = None
    \/ m.changes_since_snapshot >= EveryNChanges
    \/ t - m.last_snapshot_time >= EveryMinutes

\* Mutant: the manager forgets which row it folded last.
on_change_event_without_id(m, event_id, e) ==
    [current_state |-> apply_change_event(m.current_state, e),
     changes_since_snapshot |-> m.changes_since_snapshot + 1,
     last_snapshot_time |-> m.last_snapshot_time,
     last_event_id |-> m.last_event_id]

on_change_event(m, event_id, e) ==
    [current_state |-> apply_change_event(m.current_state, e),
     changes_since_snapshot |-> m.changes_since_snapshot + 1,
     last_snapshot_time |-> m.last_snapshot_time,
     last_event_id |-> event_id]

\* _handle_change_message: the INSERT commits, then the manager folds the event.
StoreChange(i) ==
    LET row == msg[i]
        m == on_change_event(mgr[i], Len(rows) + 1, EventOf(row))
    IN  /\ pc[i] = "store_change"
        /\ rows' = Append(rows, row)
        /\ mgr' = [mgr EXCEPT ![i] = m]
        /\ tries' = [tries EXCEPT ![i] = 0]
        /\ pc' = [pc EXCEPT ![i] =
                    IF SnapshotDue(m, EventOf(row).time) THEN "snapshot" ELSE "commit"]
        /\ UNCHANGED <<producer, changes, snaps, committed, position, snapshots, msg,
                       insert_failed, faults, crashes>>

SnapshotOf(i) ==
    [snapshot_time |-> EventOf(msg[i]).time,
     last_event_id |-> mgr[i].last_event_id,
     graph_state |-> mgr[i].current_state]

\* Mutant: the accumulated graph is dropped together with the counter.
CreateSnapshotAndClear(i) ==
    /\ pc[i] = "snapshot"
    /\ snapshots' = snapshots \cup {SnapshotOf(i)}
    /\ snaps' = Append(snaps, [source_instance |-> i, snapshot |-> SnapshotOf(i)])
    /\ mgr' = [mgr EXCEPT ![i] =
                 [current_state |-> empty_graph_state, changes_since_snapshot |-> 0,
                  last_snapshot_time |-> EventOf(msg[i]).time,
                  last_event_id |-> mgr[i].last_event_id]]
    /\ tries' = [tries EXCEPT ![i] = 0]
    /\ pc' = [pc EXCEPT ![i] = "prune"]
    /\ UNCHANGED <<producer, changes, committed, position, rows, msg,
                   insert_failed, faults, crashes>>

\* _create_snapshot up to the pruning: store, publish, restart the counters.
CreateSnapshot(i) ==
    /\ pc[i] = "snapshot"
    /\ snapshots' = snapshots \cup {SnapshotOf(i)}
    /\ snaps' = Append(snaps, [source_instance |-> i, snapshot |-> SnapshotOf(i)])
    /\ mgr' = [mgr EXCEPT ![i] =
                 [current_state |-> mgr[i].current_state, changes_since_snapshot |-> 0,
                  last_snapshot_time |-> EventOf(msg[i]).time,
                  last_event_id |-> mgr[i].last_event_id]]
    /\ tries' = [tries EXCEPT ![i] = 0]
    /\ pc' = [pc EXCEPT ![i] = "prune"]
    /\ UNCHANGED <<producer, changes, committed, position, rows, msg,
                   insert_failed, faults, crashes>>

\* on_external_snapshot up to the pruning: another instance's graph replaces ours.
StoreExternal(i) ==
    LET s == snaps[msg[i].off].snapshot
    IN  /\ pc[i] = "store_external"
        /\ snapshots' = snapshots \cup {s}
        /\ mgr' = [mgr EXCEPT ![i] =
                     [current_state |-> s.graph_state, changes_since_snapshot |-> 0,
                      last_snapshot_time |-> s.snapshot_time,
                      last_event_id |-> s.last_event_id]]
        /\ tries' = [tries EXCEPT ![i] = 0]
        /\ pc' = [pc EXCEPT ![i] = "prune"]
        /\ UNCHANGED <<producer, changes, snaps, committed, position, rows, msg,
                       insert_failed, faults, crashes>>

PruneSnapshots(i, cutoff) ==
    /\ pc[i] = "prune"
    /\ snapshots' = {s \in snapshots : s.snapshot_time >= cutoff}
    /\ pc' = [pc EXCEPT ![i] = "commit"]
    /\ UNCHANGED <<producer, changes, snaps, committed, position, rows, msg, tries, mgr,
                   insert_failed, faults, crashes>>

\* Mutant: the offset of the message itself is committed, not the next one.
CommitOffByOne(i) ==
    /\ pc[i] = "commit"
    /\ committed' = [committed EXCEPT ![msg[i].part] = msg[i].off - 1]
    /\ pc' = [pc EXCEPT ![i] = "consume"]
    /\ UNCHANGED <<producer, changes, snaps, position, rows, snapshots, msg, tries, mgr,
                   insert_failed, faults, crashes>>

\* commit(message=msg, asynchronous=False) sets the group's offset past msg.
Commit(i) ==
    /\ pc[i] = "commit"
    /\ committed' = [committed EXCEPT ![msg[i].part] = msg[i].off]
    /\ pc' = [pc EXCEPT ![i] = "consume"]
    /\ UNCHANGED <<producer, changes, snaps, position, rows, snapshots, msg, tries, mgr,
                   insert_failed, faults, crashes>>

-----------------------------------------------------------------------------
(* Faults.                                                                 *)

\* Mutant: the exception is not caught and ends the worker thread.
AttemptFailsAndDies(i, landed) ==
    /\ pc[i] \in {"store_change", "snapshot", "store_external", "prune"}
    /\ faults < MaxFaults
    /\ faults' = faults + 1
    /\ rows' = IF landed /\ pc[i] = "store_change" THEN Append(rows, msg[i]) ELSE rows
    /\ snapshots' = CASE landed /\ pc[i] = "snapshot" -> snapshots \cup {SnapshotOf(i)}
                      [] landed /\ pc[i] = "store_external" ->
                            snapshots \cup {snaps[msg[i].off].snapshot}
                      [] OTHER -> snapshots
    /\ IF tries[i] + 1 < Attempts
       THEN /\ tries' = [tries EXCEPT ![i] = @ + 1]
            /\ UNCHANGED <<pc, insert_failed>>
       ELSE /\ tries' = [tries EXCEPT ![i] = 0]
            /\ pc' = [pc EXCEPT ![i] = "dead"]
            /\ insert_failed' = IF pc[i] = "store_change"
                                THEN insert_failed \cup {<<msg[i].part, msg[i].off>>}
                                ELSE insert_failed
    /\ UNCHANGED <<producer, changes, snaps, committed, position, msg, mgr, crashes>>

\* One attempt inside retry() raises.  When the connection breaks after the
\* server has committed, the statement has taken effect all the same.  After the
\* last attempt the exception reaches _run, which logs it and takes the next
\* message: the offset is neither committed nor rewound.
AttemptFails(i, landed) ==
    /\ pc[i] \in {"store_change", "snapshot", "store_external", "prune"}
    /\ faults < MaxFaults
    /\ faults' = faults + 1
    /\ rows' = IF landed /\ pc[i] = "store_change" THEN Append(rows, msg[i]) ELSE rows
    /\ snapshots' = CASE landed /\ pc[i] = "snapshot" -> snapshots \cup {SnapshotOf(i)}
                      [] landed /\ pc[i] = "store_external" ->
                            snapshots \cup {snaps[msg[i].off].snapshot}
                      [] OTHER -> snapshots
    /\ IF tries[i] + 1 < Attempts
       THEN /\ tries' = [tries EXCEPT ![i] = @ + 1]
            /\ UNCHANGED <<pc, insert_failed>>
       ELSE /\ tries' = [tries EXCEPT ![i] = 0]
            /\ pc' = [pc EXCEPT ![i] = "consume"]
            /\ insert_failed' = IF pc[i] = "store_change"
                                THEN insert_failed \cup {<<msg[i].part, msg[i].off>>}
                                ELSE insert_failed
    /\ UNCHANGED <<producer, changes, snaps, committed, position, msg, mgr, crashes>>

\* The synchronous commit raises: same handler, nothing is committed.
CommitFails(i) ==
    /\ pc[i] = "commit"
    /\ faults < MaxFaults
    /\ faults' = faults + 1
    /\ pc' = [pc EXCEPT ![i] = "consume"]
    /\ UNCHANGED <<producer, changes, snaps, committed, position, rows, snapshots, msg, tries,
                   mgr, insert_failed, crashes>>

\* Mutant: the restarted consumer goes on where the dead one had fetched.
CrashKeepsPosition(i) ==
    /\ crashes < MaxCrashes
    /\ crashes' = crashes + 1
    /\ pc' = [pc EXCEPT ![i] = "consume"]
    /\ msg' = [msg EXCEPT ![i] = NoMessage]
    /\ tries' = [tries EXCEPT ![i] = 0]
    /\ mgr' = [mgr EXCEPT ![i] = NewManager]
    /\ UNCHANGED <<producer, position, changes, snaps, committed, rows, snapshots, insert_failed, faults>>

\* The process dies and is started again: the manager is built empty and the
\* consumer resumes its partitions at the committed offsets.
Crash(i) ==
    /\ crashes < MaxCrashes
    /\ crashes' = crashes + 1
    /\ pc' = [pc EXCEPT ![i] = "consume"]
    /\ msg' = [msg EXCEPT ![i] = NoMessage]
    /\ tries' = [tries EXCEPT ![i] = 0]
    /\ mgr' = [mgr EXCEPT ![i] = NewManager]
    /\ position' = [p \in AllPartitions |-> IF Owner[p] = i THEN committed[p] ELSE position[p]]
    /\ UNCHANGED <<producer, changes, snaps, committed, rows, snapshots, insert_failed, faults>>

-----------------------------------------------------------------------------
Worker(i) ==
    \/ \E p \in AllPartitions : Consume(i, p)
    \/ StoreChange(i)
    \/ CreateSnapshot(i)
    \/ StoreExternal(i)
    \/ \E cutoff \in PruneCutoffs : PruneSnapshots(i, cutoff)
    \/ Commit(i)

Environment ==
    \/ \E p \in Partitions, t \in 1..MaxTime, ks \in SUBSET Keys \ {{}} : Publish(p, t, ks)
    \/ \E i \in Instances :
         \/ \E landed \in BOOLEAN : AttemptFails(i, landed)
         \/ CommitFails(i)
         \/ Crash(i)

Next == (\E i \in Instances : Worker(i)) \/ Environment

Spec == Init /\ [][Next]_vars

\* The worker thread of a running instance keeps polling.
FairSpec == Spec /\ \A i \in Instances : WF_vars(Worker(i))

-----------------------------------------------------------------------------
(* Properties.                                                             *)

Stored(p, o) == \E r \in 1..Len(rows) : rows[r] = [part |-> p, off |-> o]

Handled(p, o) == Stored(p, o) \/ <<p, o>> \in insert_failed

TopicsType ==
    /\ producer \in [produced : Nat, latest_time : Nat]
    /\ changes \in [Partitions -> Seq(Event)]
    /\ snaps \in Seq([source_instance : Instances, snapshot : Snapshot])

OffsetsType ==
    /\ committed \in [AllPartitions -> Nat]
    /\ position \in [AllPartitions -> Nat]

TablesType ==
    /\ rows \in Seq([part : Partitions, off : Nat \ {0}])
    /\ snapshots \subseteq Snapshot

WorkersType ==
    /\ pc \in [Instances -> {"consume", "store_change", "snapshot", "store_external",
                             "prune", "commit"}]
    /\ msg \in [Instances -> [part : AllPartitions, off : Nat]]
    /\ tries \in [Instances -> 0..(Attempts - 1)]
    /\ mgr \in [Instances -> Manager]

HistoryType ==
    /\ insert_failed \subseteq (Partitions \X (Nat \ {0}))
    /\ faults \in 0..MaxFaults
    /\ crashes \in 0..MaxCrashes

\* The shape of every variable; in particular retry() never counts past its attempts.
TypeOK ==
    /\ TopicsType
    /\ OffsetsType
    /\ TablesType
    /\ WorkersType
    /\ HistoryType

\* A committed offset never covers a change event that has neither a row nor a
\* failed insert: no crash, restart, lost commit or retry can skip a message.
CommittedIsHandled ==
    \A p \in Partitions : \A o \in 1..committed[p] : Handled(p, o)

\* What the comment at the commit says: an offset is committed only after the
\* messages it covers are in the database.
CommitOnlyAfterStorage ==
    \A p \in Partitions : \A o \in 1..committed[p] : Stored(p, o)

\* Whatever a snapshot holds came from a row of graph_change_events no younger
\* than its last_event_id: a snapshot never shows a change that is not durable,
\* even across crashes, shared snapshots and failed inserts.
SnapshotsAreBacked ==
    \A s \in snapshots : \A k \in Keys :
        s.graph_state[k] # 0 =>
            \E r \in 1..s.last_event_id :
                /\ r <= Len(rows)
                /\ EventOf(rows[r]).seq = s.graph_state[k]
                /\ k \in EventOf(rows[r]).keys

\* Every surplus row is paid for by a crash or by a failed call: the service never
\* stores an event twice on its own.
DuplicatesAreExplained ==
    Len(rows) - Cardinality(ToSet(rows)) <= faults + crashes

\* Committed offsets only move forward, whatever message was skipped before.
CommitsNeverRegress ==
    [][\A p \in AllPartitions : committed'[p] >= committed[p]]_committed

\* Every produced change event is handled at last, whatever instance crashes.
EventuallyHandled ==
    \A p \in Partitions : \A o \in 1..MaxEvents :
        (o <= Len(changes[p])) ~> Handled(p, o)

-----------------------------------------------------------------------------
(* Refinement.                                                             *)

Log == INSTANCE EventLog WITH
    offered <- [p \in Partitions |-> Len(changes[p])],
    durable <- {<<rows[r].part, rows[r].off>> : r \in 1..Len(rows)},
    given_up <- insert_failed,
    acked <- [p \in Partitions |-> committed[p]]

\* The consumer, with its retries, crashes and snapshots, implements EventLog.
ImplementsEventLog == Log!Spec
=============================================================================

------------------------- MODULE GraphStorageProofs -------------------------
(***************************************************************************)
(* Theorems about the storage consumer, for any number of partitions,      *)
(* instances, events, faults and crashes, about the cache of the API over  *)
(* its tables, for any number of threads and requests, and about what the  *)
(* API answers where the events come in order.                             *)
(***************************************************************************)
EXTENDS StateQueries, FiniteSetTheorems, WellFoundedInduction, TLAPS

\* The fetch position runs ahead of the committed offset, never past the log,
\* and a message in hand is the one just fetched and not yet committed.
PositionInv ==
    /\ \A p \in AllPartitions : committed[p] <= position[p]
    /\ \A p \in Partitions : position[p] <= Len(changes[p])
    /\ position[SnapshotPartition] <= Len(snaps)

InHandInv ==
    \A i \in Instances : pc[i] # "consume" =>
        /\ Owner[msg[i].part] = i
        /\ msg[i].off = position[msg[i].part]
        /\ committed[msg[i].part] < msg[i].off
        /\ pc[i] \in {"store_change", "snapshot"} => msg[i].part \in Partitions
        /\ pc[i] = "store_external" => msg[i].part = SnapshotPartition
        /\ (pc[i] # "store_change" /\ msg[i].part \in Partitions) =>
              Stored(msg[i].part, msg[i].off)

\* Everything fetched is handled, but for the message in hand.
FetchedInv ==
    \A p \in Partitions : \A o \in 1..position[p] :
        \/ Handled(p, o)
        \/ pc[Owner[p]] = "store_change" /\ msg[Owner[p]] = [part |-> p, off |-> o]

IInv == TypeOK /\ PositionInv /\ InHandInv /\ FetchedInv

-----------------------------------------------------------------------------
(* Typing of the operators.                                                *)

\* The graph without keys is a graph.
LEMMA EmptyGraphType == empty_graph_state \in Graph
  BY DEF empty_graph_state, Graph

\* Folding an event yields a graph.
LEMMA ApplyType ==
  ASSUME NEW g \in Graph, NEW e \in Event
  PROVE  apply_change_event(g, e) \in Graph
  BY DEF apply_change_event, Graph, Event

\* A new manager has the shape of a manager.
LEMMA NewManagerType == NewManager \in Manager
  BY EmptyGraphType DEF NewManager, Manager, None

\* on_change_event keeps the manager's shape.
LEMMA OnChangeType ==
  ASSUME NEW m \in Manager, NEW e \in Event, NEW id \in Nat
  PROVE  on_change_event(m, id, e) \in Manager
  BY ApplyType DEF on_change_event, Manager

\* A row that refers to a logged message refers to an event.
LEMMA EventOfType ==
  ASSUME TopicsType, NEW p \in Partitions, NEW o \in 1..Len(changes[p])
  PROVE  EventOf([part |-> p, off |-> o]) \in Event
  BY DEF EventOf, TopicsType

\* The invariant holds initially.
LEMMA InitInv == Init => IInv
  <1> SUFFICES ASSUME Init PROVE IInv
    OBVIOUS
  <1> USE PartitionsAssumption, OwnerAssumption, BoundsAssumption
  <1>1. TypeOK
    <2>2. WorkersType
      BY NewManagerType DEF Init, WorkersType, NoMessage, AllPartitions
    <2>3. TopicsType /\ OffsetsType /\ TablesType /\ HistoryType
      BY DEF Init, TopicsType, OffsetsType, TablesType, HistoryType
    <2> QED  BY <2>2, <2>3 DEF TypeOK
  <1>2. PositionInv
    BY DEF Init, PositionInv, AllPartitions
  <1>3. InHandInv
    BY DEF Init, InHandInv
  <1>4. FetchedInv
    BY DEF Init, FetchedInv, AllPartitions
  <1> QED  BY <1>1, <1>2, <1>3, <1>4 DEF IInv

-----------------------------------------------------------------------------
(* Every step preserves the invariant, action by action.                   *)

\* Appending keeps what is stored stored, and stores the appended message.
LEMMA AppendStores ==
  ASSUME TablesType, NEW q \in Partitions, NEW n \in Nat \ {0},
         rows' = Append(rows, [part |-> q, off |-> n])
  PROVE  /\ \A p, o : Stored(p, o) => Stored(p, o)'
         /\ Stored(q, n)'
         /\ rows' \in Seq([part : Partitions, off : Nat \ {0}])
  <1> DEFINE Row == [part : Partitions, off : Nat \ {0}]
  <1>1. rows \in Seq(Row)
    BY DEF TablesType
  <1>2. [part |-> q, off |-> n] \in Row
    OBVIOUS
  <1>3. /\ Len(rows') = Len(rows) + 1
        /\ \A r \in 1..Len(rows) : rows'[r] = rows[r]
        /\ rows'[Len(rows) + 1] = [part |-> q, off |-> n]
        /\ Len(rows) \in Nat
        /\ rows' \in Seq(Row)
    BY <1>1, <1>2
  <1> QED  BY <1>3 DEF Stored

\* A new change event disturbs nothing below it.
LEMMA PublishInv ==
  ASSUME IInv, NEW p \in Partitions, NEW t \in 1..MaxTime,
         NEW ks \in SUBSET Keys, Publish(p, t, ks)
  PROVE  IInv'
  <1> USE BoundsAssumption, PartitionsAssumption
  <1>0. TypeOK /\ TopicsType
    BY DEF IInv, TypeOK
  <1>1. [seq |-> producer.produced + 1, time |-> t, keys |-> ks] \in Event
    BY <1>0 DEF TopicsType, Event
  <1>2. /\ changes' \in [Partitions -> Seq(Event)]
        /\ \A q \in Partitions : Len(changes[q]) \in Nat /\ Len(changes[q]) <= Len(changes'[q])
        /\ \A q \in Partitions : Len(changes'[q]) \in Nat
    BY <1>0, <1>1 DEF Publish, TopicsType
  <1>3. TypeOK'
    <2>1. TopicsType'
      BY <1>0, <1>2 DEF Publish, TopicsType
    <2> QED  BY <1>0, <2>1 DEF Publish, TypeOK, OffsetsType, TablesType, WorkersType, HistoryType
  <1>4. PositionInv'
    <2>1. \A q \in Partitions : position[q] \in Nat
      BY <1>0 DEF TypeOK, OffsetsType, AllPartitions
    <2> QED  BY <1>2, <2>1 DEF IInv, Publish, PositionInv
  <1>5. InHandInv'
    BY DEF IInv, Publish, InHandInv, Stored
  <1>6. FetchedInv'
    BY DEF IInv, Publish, FetchedInv, Handled, Stored
  <1> QED  BY <1>3, <1>4, <1>5, <1>6 DEF IInv

\* Only a free worker consumes, so the message it puts in hand is the one fetched.
LEMMA ConsumeInv ==
  ASSUME IInv, NEW i \in Instances, NEW p \in AllPartitions, Consume(i, p)
  PROVE  IInv'
  <1>0. TypeOK /\ OffsetsType /\ WorkersType
    BY DEF IInv, TypeOK
  <1>1. /\ position[p] \in Nat
        /\ committed[p] \in Nat
        /\ committed[p] <= position[p]
    BY <1>0 DEF OffsetsType, IInv, PositionInv
  <1>2. TypeOK'
    <2>1. OffsetsType' /\ WorkersType'
      BY <1>0, <1>1, BoundsAssumption DEF Consume, OffsetsType, WorkersType
    <2> QED  BY <1>0, <2>1 DEF Consume, TypeOK, TopicsType, TablesType, HistoryType
  <1>2a. /\ position' = [position EXCEPT ![p] = position[p] + 1]
         /\ committed' = committed /\ rows' = rows /\ insert_failed' = insert_failed
         /\ changes' = changes /\ snaps' = snaps
         /\ position[p] < LogLength(p)
         /\ pc[i] = "consume" /\ Owner[p] = i
         /\ msg' = [msg EXCEPT ![i] = [part |-> p, off |-> position[p] + 1]]
         /\ \A j \in Instances : j # i => pc'[j] = pc[j]
         /\ p \in Partitions => pc'[i] = "store_change"
         /\ p \notin Partitions => pc'[i] \in {"commit", "store_external"}
    BY <1>0 DEF Consume, WorkersType
  <1>3. PositionInv'
    <2>1. \A q \in AllPartitions : committed[q] \in Nat /\ position[q] \in Nat
      BY <1>0 DEF OffsetsType
    <2>2. ASSUME NEW q \in AllPartitions PROVE committed'[q] <= position'[q]
      <3>1. committed[q] <= position[q]
        BY DEF IInv, PositionInv
      <3> QED  BY <1>0, <1>2a, <2>1, <3>1 DEF OffsetsType
    <2>3. ASSUME NEW q \in Partitions PROVE position'[q] <= Len(changes'[q])
      <3>1. position[q] <= Len(changes[q]) /\ q \in AllPartitions
        BY DEF IInv, PositionInv, AllPartitions
      <3>2. Len(changes[q]) \in Nat
        BY <1>0 DEF TypeOK, TopicsType
      <3> QED  BY <1>0, <1>2a, <2>1, <3>1, <3>2 DEF OffsetsType, LogLength
    <2>4. position'[SnapshotPartition] <= Len(snaps')
      <3>1. position[SnapshotPartition] <= Len(snaps) /\ SnapshotPartition \in AllPartitions
        BY DEF IInv, PositionInv, AllPartitions
      <3>2. Len(snaps) \in Nat
        BY <1>0 DEF TypeOK, TopicsType
      <3> QED  BY <1>0, <1>2a, <2>1, <3>1, <3>2, PartitionsAssumption DEF OffsetsType, LogLength
    <2> QED  BY <2>2, <2>3, <2>4 DEF PositionInv
  <1>4. InHandInv'
    <2> SUFFICES ASSUME NEW j \in Instances, pc'[j] # "consume"
                 PROVE  InHandInv!(j)!2'
      BY DEF InHandInv
    <2>1. CASE j = i
      <3>1. msg'[j] = [part |-> p, off |-> position[p] + 1] /\ position'[p] = position[p] + 1
        BY <1>0, <1>2a, <2>1 DEF WorkersType, OffsetsType
      <3>2. p \notin Partitions => p = SnapshotPartition
        BY DEF AllPartitions
      <3> QED  BY <1>1, <1>2a, <2>1, <3>1, <3>2, PartitionsAssumption
    <2>2. CASE j # i
      <3>1. pc[j] # "consume" /\ pc'[j] = pc[j] /\ msg'[j] = msg[j]
        BY <1>0, <1>2a, <2>2 DEF WorkersType
      <3>2. InHandInv!(j)!2
        BY <3>1 DEF IInv, InHandInv
      <3>3. msg[j].part # p
        BY <1>2a, <2>2, <3>2
      <3>4. position'[msg[j].part] = position[msg[j].part]
        BY <1>0, <1>2a, <3>3 DEF OffsetsType, WorkersType
      <3> QED  BY <1>2a, <3>1, <3>2, <3>4 DEF Stored
    <2> QED  BY <2>1, <2>2
  <1>5. FetchedInv'
    <2> SUFFICES ASSUME NEW q \in Partitions, NEW o \in 1..position'[q]
                 PROVE  FetchedInv!(q)!(o)'
      BY DEF FetchedInv
    <2>1. q \in AllPartitions /\ Owner[q] \in Instances /\ position[q] \in Nat
      BY <1>0, OwnerAssumption DEF AllPartitions, OffsetsType
    <2>2. CASE o \in 1..position[q]
      <3>1. FetchedInv!(q)!(o)
        BY <2>2 DEF IInv, FetchedInv
      <3>2. Owner[q] # i => pc'[Owner[q]] = pc[Owner[q]] /\ msg'[Owner[q]] = msg[Owner[q]]
        BY <1>0, <1>2a, <2>1 DEF WorkersType
      <3> QED  BY <1>2a, <3>1, <3>2 DEF Handled, Stored
    <2>3. CASE o \notin 1..position[q]
      <3>1. q = p /\ o = position[p] + 1
        BY <1>0, <1>2a, <2>1, <2>3 DEF OffsetsType
      <3> QED  BY <1>0, <1>2a, <3>1 DEF WorkersType
    <2> QED  BY <2>2, <2>3
  <1> QED  BY <1>2, <1>3, <1>4, <1>5 DEF IInv

\* What the steps of a worker with a message in hand have in common: it keeps the
\* message, leaves "store_change" only once the message is handled, and moves the
\* committed offset only to its own message, and then lets go of it.
LEMMA InHandStep ==
  ASSUME IInv, NEW i \in Instances,
         pc[i] # "consume",
         UNCHANGED <<changes, position, msg>>,
         \A j \in Instances \ {i} : pc'[j] = pc[j],
         \A p, o : Stored(p, o) => Stored(p, o)',
         insert_failed \subseteq insert_failed',
         snaps \in Seq([source_instance : Instances, snapshot : Snapshot]),
         Len(snaps') \in Nat, Len(snaps) <= Len(snaps'),
         pc'[i] \in {"store_change", "snapshot"} => msg[i].part \in Partitions,
         pc'[i] = "store_external" => pc[i] = "store_external",
         (pc'[i] # "store_change" /\ msg[i].part \in Partitions) =>
             Handled(msg[i].part, msg[i].off)',
         (pc'[i] \notin {"consume", "store_change"} /\ msg[i].part \in Partitions) =>
             Stored(msg[i].part, msg[i].off)',
         pc'[i] = "store_change" => pc[i] = "store_change",
         \/ committed' = committed
         \/ committed' = [committed EXCEPT ![msg[i].part] = msg[i].off] /\ pc'[i] = "consume"
  PROVE  PositionInv' /\ InHandInv' /\ FetchedInv'
  <1>0. TopicsType /\ OffsetsType /\ WorkersType
    BY DEF IInv, TypeOK
  <1>1. InHandInv!(i)!2
    BY DEF IInv, InHandInv
  <1>2. /\ msg[i].part \in AllPartitions /\ msg[i].off \in Nat
        /\ \A q \in AllPartitions : committed[q] \in Nat /\ position[q] \in Nat
    BY <1>0 DEF WorkersType, OffsetsType
  <1>3. \A q \in AllPartitions : q # msg[i].part => committed'[q] = committed[q]
    BY <1>0 DEF OffsetsType
  <1>4. committed'[msg[i].part] \in {committed[msg[i].part], msg[i].off}
    BY <1>0, <1>2 DEF OffsetsType
  <1>5. PositionInv'
    <2>1. ASSUME NEW q \in AllPartitions PROVE committed'[q] <= position'[q]
      <3>1. committed[q] <= position[q]
        BY DEF IInv, PositionInv
      <3>2. position' = position /\ position[q] \in Nat /\ committed[q] \in Nat
        BY <1>2
      <3>3. CASE q # msg[i].part
        BY <1>3, <3>1, <3>2, <3>3
      <3>4. CASE q = msg[i].part
        BY <1>1, <1>4, <3>1, <3>2, <3>4
      <3> QED  BY <3>3, <3>4
    <2>2. \A q \in Partitions : position'[q] <= Len(changes'[q])
      BY DEF IInv, PositionInv
    <2>3. position'[SnapshotPartition] <= Len(snaps')
      <3>1. position[SnapshotPartition] <= Len(snaps) /\ position[SnapshotPartition] \in Nat
        BY <1>2 DEF IInv, PositionInv, AllPartitions
      <3> QED  BY <3>1
    <2> QED  BY <2>1, <2>2, <2>3 DEF PositionInv
  <1>6. InHandInv'
    <2> SUFFICES ASSUME NEW j \in Instances, pc'[j] # "consume"
                 PROVE  InHandInv!(j)!2'
      BY DEF InHandInv
    <2>1. CASE j = i
      <3>1. committed' = committed /\ msg'[i] = msg[i] /\ position' = position
        BY <2>1
      <3>2. /\ Owner[msg[i].part] = i
            /\ msg[i].off = position[msg[i].part]
            /\ committed[msg[i].part] < msg[i].off
        BY <1>1
      <3>3. pc'[i] = "store_external" => msg[i].part = SnapshotPartition
        BY <1>1
      <3>4. (pc'[i] # "store_change" /\ msg[i].part \in Partitions) =>
                Stored(msg[i].part, msg[i].off)'
        BY <2>1
      <3> QED  BY <2>1, <3>1, <3>2, <3>3, <3>4
    <2>2. CASE j # i
      <3>1. pc[j] # "consume" /\ pc'[j] = pc[j] /\ msg'[j] = msg[j]
        BY <2>2
      <3>2. InHandInv!(j)!2
        BY <3>1 DEF IInv, InHandInv
      <3>3. msg[j].part # msg[i].part /\ msg[j].part \in AllPartitions
        BY <1>0, <1>1, <2>2, <3>2 DEF WorkersType
      <3> QED  BY <1>3, <3>1, <3>2, <3>3
    <2> QED  BY <2>1, <2>2
  <1>7. FetchedInv'
    <2> SUFFICES ASSUME NEW q \in Partitions, NEW o \in 1..position'[q]
                 PROVE  FetchedInv!(q)!(o)'
      BY DEF FetchedInv
    <2>1. FetchedInv!(q)!(o)
      BY DEF IInv, FetchedInv
    <2>2. Handled(q, o) => Handled(q, o)'
      BY DEF Handled
    <2>3. CASE pc[Owner[q]] = "store_change" /\ msg[Owner[q]] = [part |-> q, off |-> o]
      <3>1. Owner[q] \in Instances
        BY OwnerAssumption DEF AllPartitions
      <3>2. CASE Owner[q] = i /\ pc'[i] # "store_change"
        <4>1. msg[i].part = q /\ msg[i].off = o
          BY <2>3, <3>2
        <4> QED  BY <3>2, <4>1
      <3> QED  BY <2>3, <3>1, <3>2
    <2> QED  BY <2>1, <2>2, <2>3
  <1> QED  BY <1>5, <1>6, <1>7
\* The message in hand of a change event is a logged event, referred to as in a row.
LEMMA InHandEvent ==
  ASSUME IInv, NEW i \in Instances, pc[i] # "consume", msg[i].part \in Partitions
  PROVE  /\ msg[i] = [part |-> msg[i].part, off |-> msg[i].off]
         /\ msg[i].off \in Nat \ {0}
         /\ EventOf(msg[i]) \in Event
  <1>1. TopicsType /\ OffsetsType /\ WorkersType
    BY DEF IInv, TypeOK
  <1>2. /\ msg[i].off = position[msg[i].part]
        /\ committed[msg[i].part] < msg[i].off
    BY DEF IInv, InHandInv
  <1>3. /\ msg[i].part \in AllPartitions
        /\ committed[msg[i].part] \in Nat
        /\ position[msg[i].part] \in Nat
        /\ msg[i] = [part |-> msg[i].part, off |-> msg[i].off]
    BY <1>1 DEF OffsetsType, WorkersType
  <1>4. position[msg[i].part] <= Len(changes[msg[i].part])
    BY DEF IInv, PositionInv
  <1>5. Len(changes[msg[i].part]) \in Nat
    BY <1>1 DEF TopicsType
  <1>6. msg[i].off \in 1..Len(changes[msg[i].part])
    BY <1>2, <1>3, <1>4, <1>5
  <1> QED  BY <1>1, <1>3, <1>6, EventOfType

\* A message in hand of the snapshots topic is a logged snapshot message.
LEMMA InHandSnapshot ==
  ASSUME IInv, NEW i \in Instances, pc[i] = "store_external"
  PROVE  snaps[msg[i].off] \in [source_instance : Instances, snapshot : Snapshot]
  <1>1. TopicsType /\ OffsetsType /\ WorkersType
    BY DEF IInv, TypeOK
  <1>2. /\ msg[i].part = SnapshotPartition
        /\ msg[i].off = position[msg[i].part]
        /\ committed[msg[i].part] < msg[i].off
    BY DEF IInv, InHandInv
  <1>3. position[SnapshotPartition] <= Len(snaps)
    BY DEF IInv, PositionInv
  <1>4. /\ SnapshotPartition \in AllPartitions
        /\ committed[SnapshotPartition] \in Nat
        /\ position[SnapshotPartition] \in Nat
        /\ Len(snaps) \in Nat
    BY <1>1 DEF OffsetsType, TopicsType, AllPartitions
  <1>5. msg[i].off \in 1..Len(snaps)
    BY <1>2, <1>3, <1>4
  <1> DEFINE Message == [source_instance : Instances, snapshot : Snapshot]
  <1>6. snaps \in Seq(Message)
    BY <1>1 DEF TopicsType
  <1> HIDE DEF Message
  <1>7. snaps[msg[i].off] \in Message
    BY <1>5, <1>6
  <1> QED  BY <1>7 DEF Message

\* The snapshot an instance is about to take has the shape of a snapshot.
LEMMA SnapshotOfType ==
  ASSUME IInv, NEW i \in Instances, pc[i] # "consume", msg[i].part \in Partitions
  PROVE  SnapshotOf(i) \in Snapshot
  <1>1. EventOf(msg[i]) \in Event
    BY InHandEvent
  <1>2. mgr[i] \in Manager
    BY DEF IInv, TypeOK, WorkersType
  <1> QED  BY <1>1, <1>2 DEF SnapshotOf, Snapshot, Event, Manager

\* The insert handles the message in hand: its row is there before the pc moves on.
LEMMA StoreChangeInv ==
  ASSUME IInv, NEW i \in Instances, StoreChange(i)
  PROVE  IInv'
  <1>0. /\ TypeOK /\ TablesType /\ WorkersType /\ TopicsType
        /\ Len(rows) \in Nat
    BY DEF IInv, TypeOK, TablesType
  <1>1. pc[i] = "store_change" /\ msg[i].part \in Partitions
    BY DEF StoreChange, IInv, InHandInv
  <1>2. /\ msg[i] = [part |-> msg[i].part, off |-> msg[i].off]
        /\ msg[i].off \in Nat \ {0}
        /\ EventOf(msg[i]) \in Event
    BY <1>1, InHandEvent
  <1>3. rows' = Append(rows, [part |-> msg[i].part, off |-> msg[i].off])
    BY <1>2 DEF StoreChange
  <1>4. /\ \A p, o : Stored(p, o) => Stored(p, o)'
        /\ Stored(msg[i].part, msg[i].off)'
        /\ rows' \in Seq([part : Partitions, off : Nat \ {0}])
    <2>1. msg' = msg
      BY DEF StoreChange
    <2> QED  BY <1>0, <1>1, <1>2, <1>3, <2>1, AppendStores DEF Stored
  <1>5. on_change_event(mgr[i], Len(rows) + 1, EventOf(msg[i])) \in Manager
    <2>1. mgr[i] \in Manager /\ Len(rows) + 1 \in Nat
      BY <1>0 DEF WorkersType
    <2> QED  BY <1>2, <2>1, OnChangeType
  <1>6. TypeOK'
    <2>1. TablesType'
      BY <1>0, <1>4 DEF StoreChange, TablesType
    <2>2. WorkersType'
      BY <1>0, <1>5, BoundsAssumption DEF StoreChange, WorkersType
    <2> QED  BY <1>0, <2>1, <2>2 DEF StoreChange, TypeOK, TopicsType, OffsetsType, HistoryType
  <1>7. /\ UNCHANGED <<changes, position, msg, snaps, insert_failed, committed>>
        /\ pc'[i] \in {"snapshot", "commit"}
        /\ \A j \in Instances \ {i} : pc'[j] = pc[j]
    BY <1>0 DEF StoreChange, WorkersType
  <1>8. Len(snaps) \in Nat
    BY <1>0 DEF TopicsType
  <1>9. PositionInv' /\ InHandInv' /\ FetchedInv'
    <2>1. Handled(msg[i].part, msg[i].off)'
      BY <1>4 DEF Handled
    <2>2. /\ insert_failed \subseteq insert_failed' /\ pc[i] # "consume"
          /\ snaps \in Seq([source_instance : Instances, snapshot : Snapshot])
          /\ Len(snaps') \in Nat /\ Len(snaps) <= Len(snaps')
          /\ pc'[i] # "store_external" /\ pc'[i] # "store_change"
          /\ UNCHANGED <<changes, position, msg>> /\ committed' = committed
      BY <1>0, <1>1, <1>7, <1>8 DEF TopicsType
    <2> QED  BY <1>1, <1>4, <1>7, <2>1, <2>2, InHandStep
  <1> QED  BY <1>6, <1>9 DEF IInv

\* Storing and publishing a snapshot keeps the message in hand.
LEMMA CreateSnapshotInv ==
  ASSUME IInv, NEW i \in Instances, CreateSnapshot(i)
  PROVE  IInv'
  <1>0. TypeOK /\ TablesType /\ WorkersType /\ TopicsType
    BY DEF IInv, TypeOK
  <1>1. /\ pc[i] = "snapshot" /\ msg[i].part \in Partitions
        /\ Stored(msg[i].part, msg[i].off)
    BY DEF CreateSnapshot, IInv, InHandInv
  <1>2. SnapshotOf(i) \in Snapshot /\ EventOf(msg[i]).time \in Nat /\ mgr[i] \in Manager
    <2>1. EventOf(msg[i]) \in Event
      BY <1>1, InHandEvent
    <2> QED  BY <1>0, <1>1, <2>1, SnapshotOfType DEF Event, WorkersType
  <1>3. /\ snaps' \in Seq([source_instance : Instances, snapshot : Snapshot])
        /\ Len(snaps) \in Nat /\ Len(snaps') = Len(snaps) + 1
    BY <1>0, <1>2 DEF CreateSnapshot, TopicsType
  <1>4. TypeOK'
    <2>1. TopicsType' /\ TablesType'
      BY <1>0, <1>2, <1>3 DEF CreateSnapshot, TopicsType, TablesType
    <2>2. WorkersType'
      BY <1>0, <1>2, BoundsAssumption DEF CreateSnapshot, WorkersType, Manager
    <2> QED  BY <1>0, <2>1, <2>2 DEF CreateSnapshot, TypeOK, OffsetsType, HistoryType
  <1>5. /\ UNCHANGED <<changes, position, msg, rows, insert_failed, committed>>
        /\ pc'[i] = "prune"
        /\ \A j \in Instances \ {i} : pc'[j] = pc[j]
    BY <1>0 DEF CreateSnapshot, WorkersType
  <1>6. PositionInv' /\ InHandInv' /\ FetchedInv'
    <2>1. /\ \A p, o : Stored(p, o) => Stored(p, o)'
          /\ Stored(msg[i].part, msg[i].off)'
      BY <1>1, <1>5 DEF Stored
    <2>2. Handled(msg[i].part, msg[i].off)'
      BY <2>1 DEF Handled
    <2>3. /\ insert_failed \subseteq insert_failed' /\ pc[i] # "consume"
          /\ snaps \in Seq([source_instance : Instances, snapshot : Snapshot])
          /\ Len(snaps') \in Nat /\ Len(snaps) <= Len(snaps')
          /\ pc'[i] # "store_external" /\ pc'[i] # "store_change"
          /\ UNCHANGED <<changes, position, msg>> /\ committed' = committed
      BY <1>0, <1>1, <1>3, <1>5 DEF TopicsType
    <2> QED  BY <1>1, <1>5, <2>1, <2>2, <2>3, InHandStep
  <1> QED  BY <1>4, <1>6 DEF IInv

\* So does taking over a snapshot of another instance.
LEMMA StoreExternalInv ==
  ASSUME IInv, NEW i \in Instances, StoreExternal(i)
  PROVE  IInv'
  <1>0. TypeOK /\ TablesType /\ WorkersType /\ TopicsType
    BY DEF IInv, TypeOK
  <1>1. /\ pc[i] = "store_external" /\ msg[i].part \notin Partitions
    BY PartitionsAssumption DEF StoreExternal, IInv, InHandInv
  <1>2. snaps[msg[i].off].snapshot \in Snapshot
    <2>1. snaps[msg[i].off] \in [source_instance : Instances, snapshot : Snapshot]
      BY <1>1, InHandSnapshot
    <2> QED  BY <2>1
  <1>3. TypeOK'
    <2>1. TablesType'
      BY <1>0, <1>2 DEF StoreExternal, TablesType
    <2>2. WorkersType'
      BY <1>0, <1>2, BoundsAssumption DEF StoreExternal, WorkersType, Manager, Snapshot
    <2> QED  BY <1>0, <2>1, <2>2 DEF StoreExternal, TypeOK, TopicsType, OffsetsType, HistoryType
  <1>4. /\ UNCHANGED <<changes, snaps, position, msg, rows, insert_failed, committed>>
        /\ pc'[i] = "prune"
        /\ \A j \in Instances \ {i} : pc'[j] = pc[j]
    BY <1>0 DEF StoreExternal, WorkersType
  <1>5. PositionInv' /\ InHandInv' /\ FetchedInv'
    <2>1. \A p, o : Stored(p, o) => Stored(p, o)'
      BY <1>4 DEF Stored
    <2>2. /\ insert_failed \subseteq insert_failed' /\ pc[i] # "consume"
          /\ snaps \in Seq([source_instance : Instances, snapshot : Snapshot])
          /\ Len(snaps') \in Nat /\ Len(snaps) <= Len(snaps')
          /\ pc'[i] # "store_external" /\ pc'[i] # "store_change" /\ pc'[i] # "snapshot"
          /\ UNCHANGED <<changes, position, msg>> /\ committed' = committed
      BY <1>0, <1>1, <1>4 DEF TopicsType
    <2> QED  BY <1>1, <1>4, <2>1, <2>2, InHandStep
  <1> QED  BY <1>3, <1>5 DEF IInv

\* So does deleting old snapshots.
LEMMA PruneInv ==
  ASSUME IInv, NEW i \in Instances, NEW cutoff \in PruneCutoffs, PruneSnapshots(i, cutoff)
  PROVE  IInv'
  <1>0. TypeOK /\ TablesType /\ WorkersType /\ TopicsType
    BY DEF IInv, TypeOK
  <1>1. TypeOK'
    <2>1. TablesType' /\ WorkersType'
      BY <1>0 DEF PruneSnapshots, TablesType, WorkersType
    <2> QED  BY <1>0, <2>1 DEF PruneSnapshots, TypeOK, TopicsType, OffsetsType, HistoryType
  <1>2. /\ UNCHANGED <<changes, snaps, position, msg, rows, insert_failed, committed>>
        /\ pc[i] = "prune" /\ pc'[i] = "commit"
        /\ \A j \in Instances \ {i} : pc'[j] = pc[j]
    BY <1>0 DEF PruneSnapshots, WorkersType
  <1>3. PositionInv' /\ InHandInv' /\ FetchedInv'
    <2>1. msg[i].part \in Partitions => Stored(msg[i].part, msg[i].off)
      BY <1>2 DEF IInv, InHandInv
    <2>2. /\ \A p, o : Stored(p, o) => Stored(p, o)'
          /\ msg[i].part \in Partitions => Stored(msg[i].part, msg[i].off)'
      BY <1>2, <2>1 DEF Stored
    <2>3. msg[i].part \in Partitions => Handled(msg[i].part, msg[i].off)'
      BY <2>2 DEF Handled
    <2>4. /\ insert_failed \subseteq insert_failed' /\ pc[i] # "consume"
          /\ snaps \in Seq([source_instance : Instances, snapshot : Snapshot])
          /\ Len(snaps') \in Nat /\ Len(snaps) <= Len(snaps')
          /\ pc'[i] # "store_external" /\ pc'[i] # "store_change" /\ pc'[i] # "snapshot"
          /\ UNCHANGED <<changes, position, msg>> /\ committed' = committed
      BY <1>0, <1>2 DEF TopicsType
    <2> QED  BY <1>2, <2>2, <2>3, <2>4, InHandStep
  <1> QED  BY <1>1, <1>3 DEF IInv

\* The commit moves the offset to the message in hand, and everything up to it is handled.
LEMMA CommitInv ==
  ASSUME IInv, NEW i \in Instances, Commit(i)
  PROVE  IInv'
  <1>0. TypeOK /\ TablesType /\ WorkersType /\ TopicsType /\ OffsetsType
    BY DEF IInv, TypeOK
  <1>1. TypeOK'
    <2>1. OffsetsType' /\ WorkersType'
      BY <1>0 DEF Commit, OffsetsType, WorkersType
    <2> QED  BY <1>0, <2>1 DEF Commit, TypeOK, TopicsType, TablesType, HistoryType
  <1>2. /\ UNCHANGED <<changes, snaps, position, msg, rows, insert_failed>>
        /\ pc[i] = "commit" /\ pc'[i] = "consume"
        /\ committed' = [committed EXCEPT ![msg[i].part] = msg[i].off]
        /\ \A j \in Instances \ {i} : pc'[j] = pc[j]
    BY <1>0 DEF Commit, WorkersType
  <1>3. PositionInv' /\ InHandInv' /\ FetchedInv'
    <2>1. msg[i].part \in Partitions => Stored(msg[i].part, msg[i].off)
      BY <1>2 DEF IInv, InHandInv
    <2>2. /\ \A p, o : Stored(p, o) => Stored(p, o)'
          /\ msg[i].part \in Partitions => Stored(msg[i].part, msg[i].off)'
      BY <1>2, <2>1 DEF Stored
    <2>3. msg[i].part \in Partitions => Handled(msg[i].part, msg[i].off)'
      BY <2>2 DEF Handled
    <2>4. /\ insert_failed \subseteq insert_failed' /\ pc[i] # "consume"
          /\ snaps \in Seq([source_instance : Instances, snapshot : Snapshot])
          /\ Len(snaps') \in Nat /\ Len(snaps) <= Len(snaps')
          /\ pc'[i] # "store_external" /\ pc'[i] # "store_change" /\ pc'[i] # "snapshot"
          /\ UNCHANGED <<changes, position, msg>>
      BY <1>0, <1>2 DEF TopicsType
    <2> QED  BY <1>2, <2>2, <2>3, <2>4, InHandStep
  <1> QED  BY <1>1, <1>3 DEF IInv

\* A failed attempt may leave a row behind; the last one of an insert is recorded as failed.
LEMMA AttemptFailsInv ==
  ASSUME IInv, NEW i \in Instances, NEW landed \in BOOLEAN, AttemptFails(i, landed)
  PROVE  IInv'
  <1>0. /\ TypeOK /\ TablesType /\ WorkersType /\ TopicsType /\ HistoryType
    BY DEF IInv, TypeOK
  <1>1. /\ UNCHANGED <<changes, snaps, position, msg, mgr, committed, producer, crashes>>
        /\ pc[i] \in {"store_change", "snapshot", "store_external", "prune"}
        /\ pc[i] # "consume"
        /\ pc'[i] \in {pc[i], "consume"}
        /\ \A j \in Instances \ {i} : pc'[j] = pc[j]
    BY <1>0 DEF AttemptFails, WorkersType
  <1>2. ASSUME pc[i] = "store_change"
        PROVE  /\ msg[i].part \in Partitions
               /\ msg[i] = [part |-> msg[i].part, off |-> msg[i].off]
               /\ msg[i].off \in Nat \ {0}
    <2>1. msg[i].part \in Partitions
      BY <1>2 DEF IInv, InHandInv
    <2> QED  BY <1>1, <2>1, InHandEvent
  <1>3. /\ rows' \in Seq([part : Partitions, off : Nat \ {0}])
        /\ \A p, o : Stored(p, o) => Stored(p, o)'
    <2>1. CASE landed /\ pc[i] = "store_change"
      <3>1. rows' = Append(rows, [part |-> msg[i].part, off |-> msg[i].off])
        BY <1>2, <2>1 DEF AttemptFails
      <3> QED  BY <1>0, <1>2, <2>1, <3>1, AppendStores
    <2>2. CASE ~(landed /\ pc[i] = "store_change")
      BY <1>0, <2>2 DEF AttemptFails, TablesType, Stored
    <2> QED  BY <2>1, <2>2
  <1>4. snapshots' \subseteq Snapshot
    <2>1. CASE landed /\ pc[i] = "snapshot"
      <3>1. msg[i].part \in Partitions
        BY <2>1 DEF IInv, InHandInv
      <3>2. SnapshotOf(i) \in Snapshot
        BY <1>1, <3>1, SnapshotOfType
      <3>3. snapshots' = snapshots \cup {SnapshotOf(i)}
        BY <2>1 DEF AttemptFails
      <3> QED  BY <1>0, <3>2, <3>3 DEF TablesType
    <2>2. CASE landed /\ pc[i] = "store_external"
      <3>1. snaps[msg[i].off] \in [source_instance : Instances, snapshot : Snapshot]
        BY <2>2, InHandSnapshot
      <3>2. snapshots' = snapshots \cup {snaps[msg[i].off].snapshot}
        BY <2>2 DEF AttemptFails
      <3> QED  BY <1>0, <3>1, <3>2 DEF TablesType
    <2>3. CASE ~(landed /\ pc[i] \in {"snapshot", "store_external"})
      <3>1. snapshots' = snapshots
        BY <2>3 DEF AttemptFails
      <3> QED  BY <1>0, <3>1 DEF TablesType
    <2> QED  BY <2>1, <2>2, <2>3
  <1>5. /\ tries' \in [Instances -> 0..(Attempts - 1)]
        /\ pc' \in [Instances -> {"consume", "store_change", "snapshot", "store_external",
                                  "prune", "commit"}]
    <2>1. /\ tries \in [Instances -> 0..(Attempts - 1)]
          /\ tries[i] \in 0..(Attempts - 1) /\ Attempts \in Nat \ {0}
      BY <1>0, BoundsAssumption DEF WorkersType
    <2>2. CASE tries[i] + 1 < Attempts
      <3>1. /\ tries' = [tries EXCEPT ![i] = tries[i] + 1] /\ pc' = pc
            /\ tries[i] + 1 \in 0..(Attempts - 1)
        BY <2>1, <2>2 DEF AttemptFails
      <3> QED  BY <1>0, <2>1, <3>1 DEF WorkersType
    <2>3. CASE ~(tries[i] + 1 < Attempts)
      <3>1. /\ tries' = [tries EXCEPT ![i] = 0] /\ pc' = [pc EXCEPT ![i] = "consume"]
            /\ 0 \in 0..(Attempts - 1)
        BY <2>1, <2>3 DEF AttemptFails
      <3> QED  BY <1>0, <2>1, <3>1 DEF WorkersType
    <2> QED  BY <2>2, <2>3
  <1>6. /\ insert_failed \subseteq insert_failed'
        /\ insert_failed' \subseteq (Partitions \X (Nat \ {0}))
    BY <1>0, <1>2 DEF AttemptFails, HistoryType
  <1>7. faults' \in 0..MaxFaults
    BY <1>0, BoundsAssumption DEF AttemptFails, HistoryType
  <1>8. TypeOK'
    BY <1>0, <1>1, <1>3, <1>4, <1>5, <1>6, <1>7
       DEF TypeOK, TopicsType, OffsetsType, TablesType, WorkersType, HistoryType
  <1>9. PositionInv' /\ InHandInv' /\ FetchedInv'
    <2>1. InHandInv!(i)!2
      BY <1>1 DEF IInv, InHandInv
    <2>2. (pc[i] # "store_change" /\ msg[i].part \in Partitions) =>
              Stored(msg[i].part, msg[i].off)'
      BY <1>1, <1>3, <2>1 DEF Stored
    <2>3. (pc'[i] # "store_change" /\ msg[i].part \in Partitions) =>
              Handled(msg[i].part, msg[i].off)'
      <3>1. CASE pc[i] = "store_change" /\ pc'[i] # "store_change"
        <4>1. <<msg[i].part, msg[i].off>> \in insert_failed'
          BY <1>0, <3>1 DEF AttemptFails, WorkersType
        <4> QED  BY <1>1, <4>1 DEF Handled
      <3>2. CASE pc[i] # "store_change"
        BY <2>2, <3>2 DEF Handled
      <3> QED  BY <3>1, <3>2
    <2>4. /\ snaps \in Seq([source_instance : Instances, snapshot : Snapshot])
          /\ Len(snaps') \in Nat /\ Len(snaps) <= Len(snaps')
          /\ UNCHANGED <<changes, position, msg>> /\ committed' = committed
      BY <1>0, <1>1 DEF TopicsType
    <2>5. /\ pc'[i] \in {"store_change", "snapshot"} => msg[i].part \in Partitions
          /\ pc'[i] = "store_external" => pc[i] = "store_external"
          /\ pc'[i] = "store_change" => pc[i] = "store_change"
      BY <1>1, <2>1
    <2>6. (pc'[i] \notin {"consume", "store_change"} /\ msg[i].part \in Partitions) =>
              Stored(msg[i].part, msg[i].off)'
      BY <1>1, <2>2
    <2> QED  BY <1>1, <1>3, <1>6, <2>3, <2>4, <2>5, <2>6, InHandStep
  <1> QED  BY <1>8, <1>9 DEF IInv

\* A lost commit lets the message go with the offset where it was.
LEMMA CommitFailsInv ==
  ASSUME IInv, NEW i \in Instances, CommitFails(i)
  PROVE  IInv'
  <1>0. TypeOK /\ TablesType /\ WorkersType /\ TopicsType /\ HistoryType
    BY DEF IInv, TypeOK
  <1>1. TypeOK'
    <2>1. HistoryType' /\ WorkersType'
      BY <1>0, BoundsAssumption DEF CommitFails, HistoryType, WorkersType
    <2> QED  BY <1>0, <2>1 DEF CommitFails, TypeOK, TopicsType, TablesType, OffsetsType
  <1>2. /\ UNCHANGED <<changes, snaps, position, msg, rows, insert_failed, committed>>
        /\ pc[i] = "commit" /\ pc'[i] = "consume"
        /\ \A j \in Instances \ {i} : pc'[j] = pc[j]
    BY <1>0 DEF CommitFails, WorkersType
  <1>3. PositionInv' /\ InHandInv' /\ FetchedInv'
    <2>1. msg[i].part \in Partitions => Stored(msg[i].part, msg[i].off)
      BY <1>2 DEF IInv, InHandInv
    <2>2. /\ \A p, o : Stored(p, o) => Stored(p, o)'
          /\ msg[i].part \in Partitions => Stored(msg[i].part, msg[i].off)'
      BY <1>2, <2>1 DEF Stored
    <2>3. msg[i].part \in Partitions => Handled(msg[i].part, msg[i].off)'
      BY <2>2 DEF Handled
    <2>4. /\ insert_failed \subseteq insert_failed' /\ pc[i] # "consume"
          /\ snaps \in Seq([source_instance : Instances, snapshot : Snapshot])
          /\ Len(snaps') \in Nat /\ Len(snaps) <= Len(snaps')
          /\ pc'[i] # "store_external" /\ pc'[i] # "store_change" /\ pc'[i] # "snapshot"
          /\ UNCHANGED <<changes, position, msg>> /\ committed' = committed
      BY <1>0, <1>2 DEF TopicsType
    <2> QED  BY <1>2, <2>2, <2>3, <2>4, InHandStep
  <1> QED  BY <1>1, <1>3 DEF IInv

\* A crash throws the message in hand away and falls back to the committed offsets,
\* below which everything is handled.
LEMMA CrashInv ==
  ASSUME IInv, NEW i \in Instances, Crash(i)
  PROVE  IInv'
  <1>0. TypeOK /\ WorkersType /\ TopicsType /\ HistoryType /\ OffsetsType
    BY DEF IInv, TypeOK
  <1>1. TypeOK'
    <2>1. HistoryType'
      BY <1>0, BoundsAssumption DEF Crash, HistoryType
    <2>2. OffsetsType'
      BY <1>0 DEF Crash, OffsetsType
    <2>3. WorkersType'
      BY <1>0, BoundsAssumption, NewManagerType
         DEF Crash, WorkersType, NoMessage, AllPartitions
    <2> QED  BY <1>0, <2>1, <2>2, <2>3 DEF Crash, TypeOK, TopicsType, TablesType
  <1>2. /\ UNCHANGED <<changes, snaps, rows, insert_failed, committed>>
        /\ pc'[i] = "consume"
        /\ \A j \in Instances \ {i} : pc'[j] = pc[j] /\ msg'[j] = msg[j]
        /\ \A q \in AllPartitions :
              position'[q] = IF Owner[q] = i THEN committed[q] ELSE position[q]
    BY <1>0 DEF Crash, WorkersType
  <1>3. /\ \A q \in AllPartitions : /\ committed[q] \in Nat /\ position[q] \in Nat
                                     /\ committed[q] <= position[q]
        /\ Partitions \subseteq AllPartitions
        /\ SnapshotPartition \in AllPartitions
    BY <1>0 DEF OffsetsType, IInv, PositionInv, AllPartitions
  <1>4. PositionInv'
    <2>1. \A q \in AllPartitions : committed'[q] <= position'[q] /\ position'[q] <= position[q]
      BY <1>2, <1>3
    <2>2. \A q \in AllPartitions : position'[q] \in Nat
      BY <1>2, <1>3
    <2>3. ASSUME NEW q \in Partitions PROVE position'[q] <= Len(changes'[q])
      <3>1. position[q] <= Len(changes[q]) /\ Len(changes[q]) \in Nat
        BY <1>0 DEF IInv, PositionInv, TopicsType
      <3> QED  BY <1>2, <1>3, <2>1, <2>2, <3>1
    <2>4. position'[SnapshotPartition] <= Len(snaps')
      <3>1. position[SnapshotPartition] <= Len(snaps) /\ Len(snaps) \in Nat
        BY <1>0 DEF IInv, PositionInv, TopicsType
      <3> QED  BY <1>2, <1>3, <2>1, <2>2, <3>1
    <2> QED  BY <2>1, <2>3, <2>4 DEF PositionInv
  <1>5. InHandInv'
    <2> SUFFICES ASSUME NEW j \in Instances, pc'[j] # "consume"
                 PROVE  InHandInv!(j)!2'
      BY DEF InHandInv
    <2>1. j # i /\ pc[j] # "consume" /\ pc'[j] = pc[j] /\ msg'[j] = msg[j]
      BY <1>2
    <2>2. InHandInv!(j)!2
      BY <2>1 DEF IInv, InHandInv
    <2>3. msg[j].part \in AllPartitions
      BY <1>0 DEF WorkersType
    <2>4. position'[msg[j].part] = position[msg[j].part]
      BY <1>2, <2>1, <2>2, <2>3
    <2>5. \A p, o : Stored(p, o) => Stored(p, o)'
      BY <1>2 DEF Stored
    <2>6. Stored(msg[j].part, msg[j].off) => Stored(msg[j].part, msg[j].off)'
      BY <1>2, <2>1 DEF Stored
    <2> QED  BY <1>2, <2>1, <2>2, <2>4, <2>6
  <1>6. FetchedInv'
    <2> SUFFICES ASSUME NEW q \in Partitions, NEW o \in 1..position'[q]
                 PROVE  FetchedInv!(q)!(o)'
      BY DEF FetchedInv
    <2>1. /\ q \in AllPartitions /\ Owner[q] \in Instances
          /\ position[q] \in Nat /\ committed[q] \in Nat /\ committed[q] <= position[q]
      BY <1>3, OwnerAssumption
    <2>2. o \in 1..position[q]
      BY <1>2, <2>1
    <2>3. FetchedInv!(q)!(o)
      BY <2>2 DEF IInv, FetchedInv
    <2>4. Handled(q, o) => Handled(q, o)'
      BY <1>2 DEF Handled, Stored
    <2>5. CASE Owner[q] # i
      BY <1>2, <2>1, <2>3, <2>4, <2>5
    <2>6. CASE Owner[q] = i /\ ~Handled(q, o)
      <3>1. pc[i] = "store_change" /\ msg[i].part = q /\ msg[i].off = o
        BY <2>3, <2>6
      <3>2. committed[q] < o
        BY <3>1 DEF IInv, InHandInv
      <3>3. o <= committed[q]
        BY <1>2, <2>1, <2>6
      <3> QED  BY <2>1, <3>2, <3>3
    <2> QED  BY <2>4, <2>5, <2>6
  <1> QED  BY <1>1, <1>4, <1>5, <1>6 DEF IInv

\* A stuttering step.
LEMMA StutterInv == IInv /\ UNCHANGED vars => IInv'
  BY DEF vars, IInv, TypeOK, TopicsType, OffsetsType, TablesType, WorkersType,
         HistoryType, PositionInv, InHandInv, FetchedInv, Handled, Stored

\* Every step preserves the invariant.
LEMMA NextInv == IInv /\ [Next]_vars => IInv'
  <1> SUFFICES ASSUME IInv, [Next]_vars PROVE IInv'
    OBVIOUS
  <1>1. ASSUME NEW i \in Instances, Worker(i) PROVE IInv'
    BY <1>1, ConsumeInv, StoreChangeInv, CreateSnapshotInv, StoreExternalInv, PruneInv,
       CommitInv DEF Worker
  <1>2. CASE Environment
    <2>1. ASSUME NEW p \in Partitions, NEW t \in 1..MaxTime, NEW ks \in SUBSET Keys \ {{}},
                 Publish(p, t, ks)
          PROVE  IInv'
      BY <2>1, PublishInv
    <2>2. ASSUME NEW i \in Instances, NEW landed \in BOOLEAN, AttemptFails(i, landed)
          PROVE  IInv'
      BY <2>2, AttemptFailsInv
    <2>3. ASSUME NEW i \in Instances, CommitFails(i) PROVE IInv'
      BY <2>3, CommitFailsInv
    <2>4. ASSUME NEW i \in Instances, Crash(i) PROVE IInv'
      BY <2>4, CrashInv
    <2> QED  BY <1>2, <2>1, <2>2, <2>3, <2>4 DEF Environment
  <1>3. CASE UNCHANGED vars
    BY <1>3, StutterInv
  <1> QED  BY <1>1, <1>2, <1>3 DEF Next

-----------------------------------------------------------------------------
\* The storage worker always stays within its types; retry() included.
THEOREM TypeCorrect == Spec => []TypeOK
  <1>1. IInv => TypeOK
    BY DEF IInv
  <1> QED  BY InitInv, NextInv, <1>1, PTL DEF Spec

\* No committed offset covers a change event that was neither stored nor given up
\* by its insert, whatever crashes, lost commits and retries happened before
\* (consumer.py, the commit after the handlers).
THEOREM CommitSafety == Spec => []CommittedIsHandled
  <1>1. IInv => CommittedIsHandled
    <2> SUFFICES ASSUME IInv, NEW p \in Partitions, NEW o \in 1..committed[p]
                 PROVE  Handled(p, o)
      BY DEF CommittedIsHandled
    <2>1. /\ p \in AllPartitions /\ committed[p] \in Nat /\ position[p] \in Nat
          /\ committed[p] <= position[p]
      BY DEF IInv, TypeOK, OffsetsType, PositionInv, AllPartitions
    <2>2. FetchedInv!(p)!(o)
      BY <2>1 DEF IInv, FetchedInv
    <2>3. CASE pc[Owner[p]] = "store_change" /\ msg[Owner[p]] = [part |-> p, off |-> o]
      <3>1. Owner[p] \in Instances
        BY <2>1, OwnerAssumption
      <3>2. committed[p] < o
        BY <2>3, <3>1 DEF IInv, InHandInv
      <3> QED  BY <2>1, <3>2
    <2> QED  BY <2>2, <2>3
  <1> QED  BY InitInv, NextInv, <1>1, PTL DEF Spec

\* The committed offset of a partition never moves back.
THEOREM CommitMonotone == Spec => CommitsNeverRegress
  <1>1. IInv /\ [Next]_vars =>
          [\A p \in AllPartitions : committed'[p] >= committed[p]]_committed
    <2> SUFFICES ASSUME IInv, [Next]_vars, committed' # committed
                 PROVE  \A p \in AllPartitions : committed'[p] >= committed[p]
      OBVIOUS
    <2>1. PICK i \in Instances : Commit(i)
      BY DEF Next, Worker, Environment, vars, Publish, Consume, StoreChange, CreateSnapshot,
             StoreExternal, PruneSnapshots, AttemptFails, CommitFails, Crash
    <2>2. OffsetsType /\ committed[msg[i].part] < msg[i].off /\ msg[i].off \in Nat
      BY <2>1 DEF IInv, InHandInv, TypeOK, WorkersType, Commit
    <2> QED  BY <2>1, <2>2 DEF Commit, OffsetsType
  <1> QED  BY InitInv, NextInv, <1>1, PTL DEF Spec, CommitsNeverRegress
-----------------------------------------------------------------------------
(* Snapshots are backed by durable rows.                                   *)

\* Every key of graph g was written by one of the first n rows of table rs, whose
\* events are in log cs.
BackedBy(g, n, rs, cs) ==
    \A k \in Keys : g[k] # 0 =>
        \E r \in 1..n : /\ r <= Len(rs)
                        /\ cs[rs[r].part][rs[r].off].seq = g[k]
                        /\ k \in cs[rs[r].part][rs[r].off].keys

RowsLogged == \A r \in 1..Len(rows) : rows[r].off <= Len(changes[rows[r].part])

BackedInv ==
    /\ RowsLogged
    /\ \A i \in Instances : BackedBy(mgr[i].current_state, mgr[i].last_event_id, rows, changes)
    /\ \A n \in 1..Len(snaps) : BackedBy(snaps[n].snapshot.graph_state,
                                         snaps[n].snapshot.last_event_id, rows, changes)
    /\ \A s \in snapshots : BackedBy(s.graph_state, s.last_event_id, rows, changes)

\* The empty graph shows nothing that needs a row.
LEMMA EmptyGraphBacked ==
  ASSUME NEW n, NEW rs, NEW cs
  PROVE  BackedBy(empty_graph_state, n, rs, cs)
  BY DEF BackedBy, empty_graph_state

\* The two tables a row refers to only grow.
LEMMA LogStep ==
  ASSUME IInv, [Next]_vars
  PROVE  /\ \/ rows' = rows
            \/ \E i \in Instances : /\ pc[i] = "store_change"
                                   /\ rows' = Append(rows, msg[i])
         /\ \/ changes' = changes
            \/ \E p \in Partitions, e \in Event :
                  /\ rows' = rows
                  /\ changes' = [changes EXCEPT ![p] = Append(changes[p], e)]
  <1>1. ASSUME NEW p \in Partitions, NEW t \in 1..MaxTime, NEW ks \in SUBSET Keys \ {{}},
               Publish(p, t, ks)
        PROVE  \E e \in Event : changes' = [changes EXCEPT ![p] = Append(changes[p], e)]
    <2>1. [seq |-> producer.produced + 1, time |-> t, keys |-> ks] \in Event
      BY BoundsAssumption DEF IInv, TypeOK, TopicsType, Event
    <2> QED  BY <1>1, <2>1 DEF Publish
  <1> QED  BY <1>1 DEF Next, Worker, Environment, vars, Publish, Consume, StoreChange,
             CreateSnapshot, StoreExternal, PruneSnapshots, Commit, AttemptFails, CommitFails,
             Crash

\* What was backed stays backed, and rows go on referring to logged events.
LEMMA BackedStep ==
  ASSUME IInv, RowsLogged, [Next]_vars
  PROVE  /\ RowsLogged'
         /\ \A g, n : BackedBy(g, n, rows, changes) => BackedBy(g, n, rows', changes')
  <1> DEFINE Row == [part : Partitions, off : Nat \ {0}]
  <1>1. /\ rows \in Seq(Row) /\ Len(rows) \in Nat
        /\ changes \in [Partitions -> Seq(Event)]
        /\ \A r \in 1..Len(rows) : rows[r].part \in Partitions /\ rows[r].off \in Nat \ {0}
    <2>1. rows \in Seq(Row) /\ changes \in [Partitions -> Seq(Event)]
      BY DEF IInv, TypeOK, TablesType, TopicsType
    <2>2. Len(rows) \in Nat
      BY <2>1
    <2> HIDE DEF Row
    <2>3. \A r \in 1..Len(rows) : rows[r] \in Row
      BY <2>1
    <2>4. \A w \in Row : w.part \in Partitions /\ w.off \in Nat \ {0}
      BY DEF Row
    <2> QED  BY <2>1, <2>2, <2>3, <2>4
  <1>2. CASE rows' = rows /\ changes' = changes
    BY <1>2 DEF RowsLogged
  <1>3. ASSUME NEW i \in Instances, pc[i] = "store_change", rows' = Append(rows, msg[i]),
               changes' = changes
        PROVE  /\ RowsLogged'
               /\ \A g, n : BackedBy(g, n, rows, changes) => BackedBy(g, n, rows', changes')
    <2>1. msg[i].part \in Partitions /\ msg[i].off <= Len(changes[msg[i].part])
      <3>1. /\ msg[i].part \in Partitions
            /\ msg[i].off = position[msg[i].part]
        BY <1>3 DEF IInv, InHandInv
      <3> QED  BY <3>1 DEF IInv, PositionInv
    <2>2. /\ Len(rows') = Len(rows) + 1 /\ rows'[Len(rows) + 1] = msg[i]
          /\ \A r \in 1..Len(rows) : rows'[r] = rows[r]
      BY <1>1, <1>3
    <2>3. RowsLogged'
      BY <1>1, <1>3, <2>1, <2>2 DEF RowsLogged
    <2>4. ASSUME NEW g, NEW n, BackedBy(g, n, rows, changes)
          PROVE  BackedBy(g, n, rows', changes')
      <3> SUFFICES ASSUME NEW k \in Keys, g[k] # 0
                   PROVE  \E r \in 1..n : /\ r <= Len(rows')
                                          /\ changes'[rows'[r].part][rows'[r].off].seq = g[k]
                                          /\ k \in changes'[rows'[r].part][rows'[r].off].keys
        BY DEF BackedBy
      <3>1. PICK r \in 1..n : /\ r <= Len(rows)
                             /\ changes[rows[r].part][rows[r].off].seq = g[k]
                             /\ k \in changes[rows[r].part][rows[r].off].keys
        BY <2>4 DEF BackedBy
      <3>2. r \in 1..Len(rows) /\ r <= Len(rows')
        BY <1>1, <2>2, <3>1
      <3> QED  BY <1>3, <2>2, <3>1, <3>2
    <2> QED  BY <2>3, <2>4
  <1>4. ASSUME NEW p \in Partitions, NEW e \in Event, rows' = rows,
               changes' = [changes EXCEPT ![p] = Append(changes[p], e)]
        PROVE  /\ RowsLogged'
               /\ \A g, n : BackedBy(g, n, rows, changes) => BackedBy(g, n, rows', changes')
    <2>1. /\ \A q \in Partitions : Len(changes[q]) \in Nat /\ Len(changes[q]) <= Len(changes'[q])
          /\ \A q \in Partitions : \A o \in 1..Len(changes[q]) : changes'[q][o] = changes[q][o]
          /\ \A q \in Partitions : Len(changes'[q]) \in Nat
      BY <1>1, <1>4
    <2>2. \A r \in 1..Len(rows) : /\ rows[r].off \in 1..Len(changes[rows[r].part])
                                  /\ changes'[rows[r].part][rows[r].off]
                                        = changes[rows[r].part][rows[r].off]
      BY <1>1, <2>1 DEF RowsLogged
    <2>3. RowsLogged'
      BY <1>1, <1>4, <2>1, <2>2 DEF RowsLogged
    <2>4. ASSUME NEW g, NEW n, BackedBy(g, n, rows, changes)
          PROVE  BackedBy(g, n, rows', changes')
      <3> SUFFICES ASSUME NEW k \in Keys, g[k] # 0
                   PROVE  \E r \in 1..n : /\ r <= Len(rows)
                                          /\ changes'[rows[r].part][rows[r].off].seq = g[k]
                                          /\ k \in changes'[rows[r].part][rows[r].off].keys
        BY <1>4 DEF BackedBy
      <3>1. PICK r \in 1..n : /\ r <= Len(rows)
                             /\ changes[rows[r].part][rows[r].off].seq = g[k]
                             /\ k \in changes[rows[r].part][rows[r].off].keys
        BY <2>4 DEF BackedBy
      <3>2. r \in 1..Len(rows)
        BY <1>1, <3>1
      <3> QED  BY <2>2, <3>1, <3>2
    <2> QED  BY <2>3, <2>4
  <1> QED  BY <1>2, <1>3, <1>4, LogStep
\* A worker step writes managers, snapshots and snapshot messages backed by rows.
LEMMA BackedNext ==
  ASSUME IInv, IInv', BackedInv, [Next]_vars
  PROVE  BackedInv'
  <1> DEFINE B(g, n) == BackedBy(g, n, rows', changes')
  <1>0. /\ RowsLogged'
        /\ \A i \in Instances : B(mgr[i].current_state, mgr[i].last_event_id)
        /\ \A n \in 1..Len(snaps) : B(snaps[n].snapshot.graph_state, snaps[n].snapshot.last_event_id)
        /\ \A s \in snapshots : B(s.graph_state, s.last_event_id)
    BY BackedStep DEF BackedInv
  <1> DEFINE Goal == /\ \A i \in Instances : B(mgr'[i].current_state, mgr'[i].last_event_id)
                     /\ \A n \in 1..Len(snaps') : B(snaps'[n].snapshot.graph_state,
                                                     snaps'[n].snapshot.last_event_id)
                     /\ \A s \in snapshots' : B(s.graph_state, s.last_event_id)
  <1> SUFFICES Goal
    BY <1>0 DEF BackedInv
  <1>1. TopicsType /\ WorkersType /\ TablesType
    BY DEF IInv, TypeOK
  <1>2. ASSUME UNCHANGED <<mgr, snaps>>, snapshots' \subseteq snapshots PROVE Goal
    BY <1>0, <1>2
  <1>3. ASSUME NEW i \in Instances, StoreChange(i) PROVE Goal
    <2>1. pc[i] = "store_change" /\ msg[i].part \in Partitions
      BY <1>3 DEF StoreChange, IInv, InHandInv
    <2>2. /\ EventOf(msg[i]) \in Event
          /\ mgr[i] \in Manager
      BY <1>1, <2>1, InHandEvent DEF WorkersType
    <2> DEFINE m == on_change_event(mgr[i], Len(rows) + 1, EventOf(msg[i]))
    <2>3. /\ Len(rows) \in Nat /\ Len(rows') = Len(rows) + 1
          /\ rows'[Len(rows) + 1] = msg[i]
      BY <1>1, <1>3, <2>1, InHandEvent DEF StoreChange, TablesType
    <2>4. /\ mgr' = [mgr EXCEPT ![i] = m] /\ changes' = changes
          /\ UNCHANGED <<snaps, snapshots>>
      BY <1>3 DEF StoreChange
    <2>5. B(m.current_state, m.last_event_id)
      <3> SUFFICES ASSUME NEW k \in Keys, m.current_state[k] # 0
                   PROVE  \E r \in 1..m.last_event_id :
                            /\ r <= Len(rows')
                            /\ changes'[rows'[r].part][rows'[r].off].seq = m.current_state[k]
                            /\ k \in changes'[rows'[r].part][rows'[r].off].keys
        BY DEF BackedBy
      <3>1. /\ m.last_event_id = Len(rows) + 1
            /\ m.current_state[k] = IF k \in EventOf(msg[i]).keys THEN EventOf(msg[i]).seq
                                    ELSE mgr[i].current_state[k]
        BY DEF on_change_event, apply_change_event
      <3>2. CASE k \in EventOf(msg[i]).keys
        <4>1. changes'[rows'[Len(rows) + 1].part][rows'[Len(rows) + 1].off] = EventOf(msg[i])
          BY <2>3, <2>4 DEF EventOf
        <4> HIDE DEF m
        <4> QED  BY <2>3, <3>1, <3>2, <4>1
      <3>3. CASE k \notin EventOf(msg[i]).keys
        <4>1. mgr[i].current_state[k] # 0 /\ m.current_state[k] = mgr[i].current_state[k]
          BY <3>1, <3>3
        <4>2. B(mgr[i].current_state, mgr[i].last_event_id)
          BY <1>0
        <4>3. PICK r \in 1..mgr[i].last_event_id :
                  /\ r <= Len(rows')
                  /\ changes'[rows'[r].part][rows'[r].off].seq = mgr[i].current_state[k]
                  /\ k \in changes'[rows'[r].part][rows'[r].off].keys
          BY <4>1, <4>2 DEF BackedBy
        <4>4. mgr[i].last_event_id \in Nat
          BY <2>2 DEF Manager
        <4> HIDE DEF m
        <4> QED  BY <2>3, <3>1, <4>1, <4>3, <4>4
      <3> QED  BY <3>2, <3>3
    <2> HIDE DEF m, B
    <2>6. \A j \in Instances : B(mgr'[j].current_state, mgr'[j].last_event_id)
      BY <1>0, <1>1, <2>4, <2>5 DEF WorkersType
    <2> QED  BY <1>0, <2>4, <2>6
  <1>4. ASSUME NEW i \in Instances, CreateSnapshot(i) PROVE Goal
    <2> DEFINE new == SnapshotOf(i)
    <2>1. B(new.graph_state, new.last_event_id)
      BY <1>0 DEF SnapshotOf
    <2>2. /\ snaps' = Append(snaps, [source_instance |-> i, snapshot |-> new])
          /\ snapshots' = snapshots \cup {new}
      BY <1>4 DEF CreateSnapshot
    <2>3. \A j \in Instances : /\ mgr'[j].current_state = mgr[j].current_state
                              /\ mgr'[j].last_event_id = mgr[j].last_event_id
      BY <1>1, <1>4 DEF CreateSnapshot, WorkersType
    <2>4. \A n \in 1..Len(snaps') :
            \/ snaps'[n].snapshot = new
            \/ (n \in 1..Len(snaps) /\ snaps'[n] = snaps[n])
      <3> HIDE DEF new
      <3>1. Len(snaps) \in Nat
        BY <1>1 DEF TopicsType
      <3>2. /\ Len(snaps') = Len(snaps) + 1
            /\ \A n \in 1..Len(snaps) : snaps'[n] = snaps[n]
            /\ snaps'[Len(snaps) + 1] = [source_instance |-> i, snapshot |-> new]
        BY <1>1, <2>2 DEF TopicsType
      <3>3. snaps'[Len(snaps) + 1].snapshot = new
        BY <3>2
      <3>4. \A n \in 1..Len(snaps') : n \in 1..Len(snaps) \/ n = Len(snaps) + 1
        BY <3>1, <3>2
      <3> QED  BY <3>2, <3>3, <3>4
    <2> HIDE DEF new, B
    <2> QED  BY <1>0, <2>1, <2>2, <2>3, <2>4
  <1>5. ASSUME NEW i \in Instances, pc[i] = "store_external"
        PROVE  /\ snaps[msg[i].off].snapshot \in Snapshot
               /\ B(snaps[msg[i].off].snapshot.graph_state,
                    snaps[msg[i].off].snapshot.last_event_id)
    <2>1. /\ msg[i].part = SnapshotPartition /\ msg[i].off = position[SnapshotPartition]
          /\ committed[SnapshotPartition] < msg[i].off
          /\ position[SnapshotPartition] <= Len(snaps)
      BY <1>5 DEF IInv, InHandInv, PositionInv
    <2>2. /\ committed[SnapshotPartition] \in Nat /\ position[SnapshotPartition] \in Nat
          /\ Len(snaps) \in Nat
      BY <1>1 DEF IInv, TypeOK, OffsetsType, TopicsType, AllPartitions
    <2>3. msg[i].off \in 1..Len(snaps)
      BY <2>1, <2>2
    <2>4. snaps[msg[i].off] \in [source_instance : Instances, snapshot : Snapshot]
      BY <1>5, InHandSnapshot
    <2> HIDE DEF B
    <2> QED  BY <1>0, <2>3, <2>4
  <1>6. ASSUME NEW i \in Instances, StoreExternal(i) PROVE Goal
    <2> DEFINE s == snaps[msg[i].off].snapshot
    <2>1. /\ B(s.graph_state, s.last_event_id)
          /\ snaps' = snaps /\ snapshots' = snapshots \cup {s}
      BY <1>5, <1>6 DEF StoreExternal
    <2>2. \A j \in Instances :
            \/ mgr'[j] = mgr[j]
            \/ mgr'[j].current_state = s.graph_state /\ mgr'[j].last_event_id = s.last_event_id
      BY <1>1, <1>6 DEF StoreExternal, WorkersType
    <2> HIDE DEF s, B
    <2> QED  BY <1>0, <2>1, <2>2
  <1>7. ASSUME NEW i \in Instances, NEW landed \in BOOLEAN, AttemptFails(i, landed) PROVE Goal
    <2>1. UNCHANGED <<mgr, snaps>>
      BY <1>7 DEF AttemptFails
    <2>2. \A s \in snapshots' : B(s.graph_state, s.last_event_id)
      <3>1. CASE landed /\ pc[i] = "snapshot"
        <4>1. snapshots' = snapshots \cup {SnapshotOf(i)}
          BY <1>7, <3>1 DEF AttemptFails
        <4>2. B(SnapshotOf(i).graph_state, SnapshotOf(i).last_event_id)
          BY <1>0 DEF SnapshotOf
        <4> HIDE DEF B
        <4> QED  BY <1>0, <4>1, <4>2
      <3>2. CASE landed /\ pc[i] = "store_external"
        <4>1. snapshots' = snapshots \cup {snaps[msg[i].off].snapshot}
          BY <1>7, <3>2 DEF AttemptFails
        <4>2. B(snaps[msg[i].off].snapshot.graph_state, snaps[msg[i].off].snapshot.last_event_id)
          BY <1>5, <3>2
        <4> HIDE DEF B
        <4> QED  BY <1>0, <4>1, <4>2
      <3>3. CASE ~(landed /\ pc[i] \in {"snapshot", "store_external"})
        <4>1. snapshots' = snapshots
          BY <1>7, <3>3 DEF AttemptFails
        <4> QED  BY <1>0, <4>1
      <3> QED  BY <3>1, <3>2, <3>3
    <2> QED  BY <1>0, <2>1, <2>2
  <1>8. ASSUME NEW i \in Instances, Crash(i) PROVE Goal
    <2>1. UNCHANGED <<snaps, snapshots>>
      BY <1>8 DEF Crash
    <2>2. \A j \in Instances : mgr'[j] = mgr[j] \/ mgr'[j].current_state = empty_graph_state
      BY <1>1, <1>8 DEF Crash, WorkersType, NewManager
    <2>3. \A j \in Instances : B(mgr'[j].current_state, mgr'[j].last_event_id)
      BY <1>0, <2>2, EmptyGraphBacked
    <2> QED  BY <1>0, <2>1, <2>3
  <1>9. ASSUME UNCHANGED vars PROVE Goal
    BY <1>2, <1>9 DEF vars
  <1>10. ASSUME NEW i \in Instances, Worker(i) PROVE Goal
    <2>1. ASSUME \/ \E p \in AllPartitions : Consume(i, p)
                 \/ \E cutoff \in PruneCutoffs : PruneSnapshots(i, cutoff)
                 \/ Commit(i)
          PROVE  UNCHANGED <<mgr, snaps>> /\ snapshots' \subseteq snapshots
      BY <2>1 DEF Consume, PruneSnapshots, Commit
    <2> HIDE DEF Goal
    <2> QED  BY <1>2, <1>3, <1>4, <1>6, <1>10, <2>1 DEF Worker
  <1>11. ASSUME Environment PROVE Goal
    <2>1. ASSUME \/ \E p \in Partitions, t \in 1..MaxTime, ks \in SUBSET Keys \ {{}} :
                      Publish(p, t, ks)
                 \/ \E i \in Instances : CommitFails(i)
          PROVE  UNCHANGED <<mgr, snaps>> /\ snapshots' \subseteq snapshots
      BY <2>1 DEF Publish, CommitFails
    <2> HIDE DEF Goal
    <2> QED  BY <1>2, <1>7, <1>8, <1>11, <2>1 DEF Environment
  <1> HIDE DEF Goal
  <1> QED  BY <1>9, <1>10, <1>11 DEF Next

\* Every value in a stored snapshot comes from a stored change event, in a row the
\* snapshot's last_event_id covers, for every interleaving of instances and faults.
THEOREM SnapshotSafety == Spec => []SnapshotsAreBacked
  <1>1. Init => BackedInv
    BY EmptyGraphBacked DEF Init, BackedInv, RowsLogged, NewManager
  <1>2. BackedInv => SnapshotsAreBacked
    BY DEF BackedInv, BackedBy, SnapshotsAreBacked, EventOf
  <1> QED  BY InitInv, NextInv, BackedNext, <1>1, <1>2, PTL DEF Spec
-----------------------------------------------------------------------------
(* What is stored twice.                                                   *)

Row == [part : Partitions, off : Nat \ {0}]

\* Rows that a crash would store again: not committed yet, and no worker that has
\* stored one is on its way to its commit.
Loose ==
    {m \in ToSet(rows) :
        /\ committed[m.part] < m.off
        /\ \A i \in Instances : pc[i] \in {"consume", "store_change"} \/ msg[i] # m}

\* Surplus rows, and those that may still become surplus, are paid for.
SurplusInv == Len(rows) + Cardinality(Loose) <= Cardinality(ToSet(rows)) + faults + crashes

\* The set of the rows, and the numbers in the invariant.
LEMMA SurplusNumbers ==
  ASSUME TypeOK
  PROVE  /\ ToSet(rows) \subseteq Row /\ rows \in Seq(Row) /\ Len(rows) \in Nat
         /\ IsFiniteSet(ToSet(rows)) /\ IsFiniteSet(Loose)
         /\ Cardinality(ToSet(rows)) \in Nat /\ Cardinality(Loose) \in Nat
         /\ faults \in Nat /\ crashes \in Nat
  <1>1. rows \in Seq(Row) /\ Len(rows) \in Nat /\ DOMAIN rows = 1..Len(rows)
    BY DEF TypeOK, TablesType, Row
  <1>2. ToSet(rows) \subseteq Row
    BY <1>1 DEF ToSet
  <1>3. IsFiniteSet(ToSet(rows))
    <2>1. IsFiniteSet(1..Len(rows))
      <3>1. 1 \in Int /\ Len(rows) \in Int
        BY <1>1
      <3> QED  BY ONLY <3>1, FS_Interval
    <2>2. rows \in Surjection(1..Len(rows), ToSet(rows))
      BY <1>1 DEF Surjection, ToSet
    <2> QED  BY <2>1, <2>2, FS_Surjection
  <1>4. IsFiniteSet(Loose)
    <2>1. Loose \in SUBSET ToSet(rows)
      BY DEF Loose
    <2> QED  BY <1>3, <2>1, FS_Subset
  <1> QED  BY <1>1, <1>2, <1>3, <1>4, FS_CardinalityType, BoundsAssumption DEF TypeOK, HistoryType

\* One more row.
LEMMA AppendRow ==
  ASSUME TypeOK, NEW m \in Row, rows' = Append(rows, m)
  PROVE  /\ ToSet(rows') = ToSet(rows) \cup {m} /\ Len(rows') = Len(rows) + 1
         /\ Cardinality(ToSet(rows')) = IF m \in ToSet(rows) THEN Cardinality(ToSet(rows))
                                        ELSE Cardinality(ToSet(rows)) + 1
  <1>1. rows \in Seq(Row) /\ Len(rows) \in Nat /\ IsFiniteSet(ToSet(rows))
    BY SurplusNumbers
  <1>2. /\ Len(rows') = Len(rows) + 1 /\ DOMAIN rows = 1..Len(rows) /\ DOMAIN rows' = 1..Len(rows')
        /\ rows'[Len(rows) + 1] = m /\ \A r \in 1..Len(rows) : rows'[r] = rows[r]
    BY <1>1
  <1>3. \A r \in Int : r \in DOMAIN rows' <=> r \in DOMAIN rows \/ r = Len(rows) + 1
    BY <1>1, <1>2
  <1>4. ToSet(rows') = ToSet(rows) \cup {m}
    BY <1>1, <1>2, <1>3 DEF ToSet
  <1> QED  BY <1>1, <1>2, <1>4, FS_AddElement

\* A call has failed, or a process has died.
OneMoreFailure ==
    \/ faults' = faults + 1 /\ crashes' = crashes
    \/ faults' = faults /\ crashes' = crashes + 1

\* How the invariant is kept by a step that stores nothing.
LEMMA SurplusSame ==
  ASSUME TypeOK, SurplusInv, rows' = rows,
         \/ Loose' \subseteq Loose /\ faults' = faults /\ crashes' = crashes
         \/ OneMoreFailure /\ \E m : Loose' \subseteq Loose \cup {m}
  PROVE  SurplusInv'
  <1>1. /\ IsFiniteSet(Loose) /\ Cardinality(Loose) \in Nat /\ Len(rows) \in Nat
        /\ Cardinality(ToSet(rows)) \in Nat /\ faults \in Nat /\ crashes \in Nat
    BY SurplusNumbers
  <1>2. ASSUME Loose' \subseteq Loose, faults' = faults, crashes' = crashes
        PROVE  SurplusInv'
    <2>1. Cardinality(Loose') <= Cardinality(Loose) /\ Cardinality(Loose') \in Nat
      BY <1>1, <1>2, FS_Subset, FS_CardinalityType
    <2> QED  BY <1>1, <1>2, <2>1 DEF SurplusInv
  <1>3. ASSUME NEW m, Loose' \subseteq Loose \cup {m}, OneMoreFailure
        PROVE  SurplusInv'
    <2>1. /\ IsFiniteSet(Loose \cup {m})
          /\ Cardinality(Loose \cup {m}) = IF m \in Loose THEN Cardinality(Loose)
                                           ELSE Cardinality(Loose) + 1
      BY <1>1, FS_AddElement
    <2>2. Cardinality(Loose') <= Cardinality(Loose \cup {m}) /\ Cardinality(Loose') \in Nat
      BY <1>3, <2>1, FS_Subset, FS_CardinalityType
    <2> QED  BY <1>1, <1>3, <2>1, <2>2 DEF SurplusInv, OneMoreFailure
  <1> QED  BY <1>2, <1>3

\* The message that a worker is about to store is loose when it is stored already.
LEMMA StoringIsLoose ==
  ASSUME IInv, NEW i \in Instances, pc[i] = "store_change"
  PROVE  msg[i] \in Row /\ (msg[i] \in ToSet(rows) => msg[i] \in Loose)
  <1>1. /\ Owner[msg[i].part] = i /\ committed[msg[i].part] < msg[i].off
        /\ msg[i].part \in Partitions /\ msg[i].off = position[msg[i].part]
    BY DEF IInv, InHandInv
  <1>2. msg[i] \in Row
    <2>1. msg[i] \in [part : AllPartitions, off : Nat] /\ committed[msg[i].part] \in Nat
      BY <1>1 DEF IInv, TypeOK, WorkersType, OffsetsType, AllPartitions
    <2> QED  BY <1>1, <2>1 DEF Row
  <1>3. ASSUME NEW j \in Instances, pc[j] \notin {"consume", "store_change"}
        PROVE  msg[j] # msg[i]
    <2>1. Owner[msg[j].part] = j
      BY <1>3 DEF IInv, InHandInv
    <2> QED  BY <1>1, <1>3, <2>1
  <1> QED  BY <1>1, <1>2, <1>3 DEF Loose

\* A step of one worker makes loose at most the message it had in hand, and not that one
\* either when the worker is on its way to its commit, or has committed it.
LEMMA LooseStep ==
  ASSUME IInv, TypeOK', NEW i \in Instances,
         \A j \in Instances \ {i} : pc'[j] = pc[j] /\ msg'[j] = msg[j],
         \A p \in Partitions : committed'[p] >= committed[p],
         ToSet(rows') \subseteq ToSet(rows) \cup {msg[i]}
  PROVE  /\ Loose' \subseteq Loose \cup {msg[i]}
         /\ \/ pc'[i] \notin {"consume", "store_change"} /\ msg'[i] = msg[i]
            \/ committed'[msg[i].part] >= msg[i].off
            => msg[i] \notin Loose'
         /\ pc[i] = "consume" /\ rows' = rows => Loose' \subseteq Loose
  <1>1. ASSUME NEW m \in Loose', m \in ToSet(rows)
        PROVE  committed[m.part] < m.off
    <2>1. ToSet(rows) \subseteq Row /\ committed'[m.part] < m.off
      BY <1>1, SurplusNumbers DEF IInv, Loose
    <2>2. m.part \in Partitions /\ m.off \in Nat
      BY <1>1, <2>1 DEF Row
    <2>3. m.part \in AllPartitions /\ committed'[m.part] >= committed[m.part]
      BY <2>2 DEF AllPartitions
    <2>4. committed[m.part] \in Nat /\ committed'[m.part] \in Nat
      BY <2>3 DEF IInv, TypeOK, OffsetsType
    <2> QED  BY <2>1, <2>2, <2>3, <2>4
  <1>2. ASSUME NEW m \in Loose', m # msg[i] \/ (pc[i] = "consume" /\ rows' = rows)
        PROVE  m \in Loose
    <2>1. m \in ToSet(rows)
      BY <1>2 DEF Loose
    <2>2. ASSUME NEW j \in Instances
          PROVE  pc[j] \in {"consume", "store_change"} \/ msg[j] # m
      <3>1. CASE j = i
        BY <1>2, <3>1
      <3>2. CASE j # i
        <4>1. pc'[j] \in {"consume", "store_change"} \/ msg'[j] # m
          BY <1>2 DEF Loose
        <4> QED  BY <3>2, <4>1
      <3> QED  BY <3>1, <3>2
    <2> QED  BY <1>1, <1>2, <2>1, <2>2 DEF Loose
  <1>3. ASSUME \/ pc'[i] \notin {"consume", "store_change"} /\ msg'[i] = msg[i]
               \/ committed'[msg[i].part] >= msg[i].off,
               msg[i] \in Loose'
        PROVE  FALSE
    <2>1. committed'[msg[i].part] < msg[i].off
      BY <1>3 DEF Loose
    <2>2. msg[i].part \in AllPartitions /\ msg[i].off \in Nat
      BY DEF IInv, TypeOK, WorkersType
    <2>3. committed'[msg[i].part] \in Nat
      BY <2>2 DEF TypeOK, OffsetsType
    <2>4. ~(committed'[msg[i].part] >= msg[i].off)
      BY <2>1, <2>2, <2>3
    <2> QED  BY <1>3, <2>4 DEF Loose
  <1> QED  BY <1>2, <1>3

\* A row that is inserted, and handed on to the manager or lost by the broken connection.
LEMMA SurplusStore ==
  ASSUME IInv, TypeOK', SurplusInv, NEW i \in Instances, pc[i] = "store_change",
         \/ StoreChange(i)
         \/ AttemptFails(i, TRUE)
  PROVE  SurplusInv'
  <1>0. TypeOK
    BY DEF IInv
  <1>1. rows' = Append(rows, msg[i]) /\ committed' = committed /\ msg' = msg
    BY DEF StoreChange, AttemptFails
  <1>2. \A j \in Instances \ {i} : pc'[j] = pc[j] /\ msg'[j] = msg[j]
    BY <1>0 DEF TypeOK, WorkersType, StoreChange, AttemptFails
  <1>3. msg[i] \in Row /\ (msg[i] \in ToSet(rows) => msg[i] \in Loose)
    BY StoringIsLoose
  <1>4. /\ ToSet(rows') = ToSet(rows) \cup {msg[i]} /\ Len(rows') = Len(rows) + 1
        /\ Cardinality(ToSet(rows')) = IF msg[i] \in ToSet(rows) THEN Cardinality(ToSet(rows))
                                       ELSE Cardinality(ToSet(rows)) + 1
    BY <1>0, <1>1, <1>3, AppendRow
  <1>5. \A p \in Partitions : committed'[p] >= committed[p]
    <2>1. \A p \in Partitions : committed[p] \in Nat
      BY <1>0 DEF TypeOK, OffsetsType, AllPartitions
    <2> QED  BY <1>1, <2>1
  <1>6. /\ Loose' \subseteq Loose \cup {msg[i]}
        /\ pc'[i] \notin {"consume", "store_change"} /\ msg'[i] = msg[i] => msg[i] \notin Loose'
    BY <1>0, <1>2, <1>4, <1>5, LooseStep
  <1>7. /\ IsFiniteSet(Loose) /\ Cardinality(Loose) \in Nat /\ Len(rows) \in Nat
        /\ Cardinality(ToSet(rows)) \in Nat /\ faults \in Nat /\ crashes \in Nat
    BY <1>0, SurplusNumbers
  <1>8. msg[i] \in Loose => msg[i] \in ToSet(rows)
    BY DEF Loose
  <1>9. CASE StoreChange(i)
    <2>1. pc'[i] \in {"snapshot", "commit"} /\ faults' = faults /\ crashes' = crashes
      BY <1>0, <1>9 DEF StoreChange, TypeOK, WorkersType
    <2>2. Loose' \subseteq Loose \ {msg[i]}
      BY <1>1, <1>6, <2>1
    <2>3. /\ IsFiniteSet(Loose \ {msg[i]})
          /\ Cardinality(Loose \ {msg[i]}) = IF msg[i] \in Loose THEN Cardinality(Loose) - 1
                                             ELSE Cardinality(Loose)
      BY <1>7, FS_RemoveElement
    <2>4. Cardinality(Loose') <= Cardinality(Loose \ {msg[i]}) /\ Cardinality(Loose') \in Nat
      BY <2>2, <2>3, FS_Subset, FS_CardinalityType
    <2> QED  BY <1>3, <1>4, <1>7, <1>8, <2>1, <2>3, <2>4 DEF SurplusInv
  <1>10. CASE AttemptFails(i, TRUE)
    <2>1. faults' = faults + 1 /\ crashes' = crashes
      BY <1>10 DEF AttemptFails
    <2>2. /\ IsFiniteSet(Loose \cup {msg[i]})
          /\ Cardinality(Loose \cup {msg[i]}) = IF msg[i] \in Loose THEN Cardinality(Loose)
                                                ELSE Cardinality(Loose) + 1
      BY <1>7, FS_AddElement
    <2>3. Cardinality(Loose') <= Cardinality(Loose \cup {msg[i]}) /\ Cardinality(Loose') \in Nat
      BY <1>6, <2>2, FS_Subset, FS_CardinalityType
    <2> QED  BY <1>3, <1>4, <1>7, <1>8, <2>1, <2>2, <2>3 DEF SurplusInv
  <1> QED  BY <1>9, <1>10

\* Every step pays for the rows it stores twice, or may make others store twice.
LEMMA SurplusNext == IInv /\ SurplusInv /\ [Next]_vars => SurplusInv'
  <1> SUFFICES ASSUME IInv, SurplusInv, [Next]_vars PROVE SurplusInv'
    OBVIOUS
  <1>0. TypeOK /\ TypeOK' /\ faults \in Nat /\ crashes \in Nat
    BY NextInv, SurplusNumbers DEF IInv
  <1>1. ASSUME rows' = rows, committed' = committed, pc' = pc, msg' = msg,
               faults' = faults, crashes' = crashes
        PROVE  SurplusInv'
    <2>1. Loose' = Loose
      BY <1>1 DEF Loose
    <2> QED  BY <1>1, <2>1 DEF SurplusInv
  <1>2. ASSUME NEW i \in Instances, rows' = rows,
               \A j \in Instances \ {i} : pc'[j] = pc[j] /\ msg'[j] = msg[j],
               \A p \in Partitions : committed'[p] >= committed[p],
               \/ OneMoreFailure
               \/ /\ faults' = faults /\ crashes' = crashes
                  /\ \/ pc[i] = "consume"
                     \/ pc'[i] \notin {"consume", "store_change"} /\ msg'[i] = msg[i]
                     \/ committed'[msg[i].part] >= msg[i].off
        PROVE  SurplusInv'
    <2>1. /\ Loose' \subseteq Loose \cup {msg[i]}
          /\ \/ pc'[i] \notin {"consume", "store_change"} /\ msg'[i] = msg[i]
             \/ committed'[msg[i].part] >= msg[i].off
             => msg[i] \notin Loose'
          /\ pc[i] = "consume" => Loose' \subseteq Loose
      BY <1>0, <1>2, LooseStep
    <2> QED  BY <1>0, <1>2, <2>1, SurplusSame
  <1>3. \A p \in Partitions : committed[p] \in Nat
    BY <1>0 DEF TypeOK, OffsetsType, AllPartitions
  <1>4. ASSUME NEW i \in Instances, Worker(i)
        PROVE  SurplusInv'
    <2>1. ASSUME NEW p \in AllPartitions, Consume(i, p)
          PROVE  SurplusInv'
      <3>1. \A j \in Instances \ {i} : pc'[j] = pc[j] /\ msg'[j] = msg[j]
        BY <1>0, <2>1 DEF Consume, TypeOK, WorkersType
      <3> QED  BY <1>2, <1>3, <2>1, <3>1 DEF Consume
    <2>2. CASE StoreChange(i)
      BY <1>0, <2>2, SurplusStore DEF StoreChange
    <2>3. ASSUME CreateSnapshot(i) \/ StoreExternal(i)
                   \/ \E cutoff \in PruneCutoffs : PruneSnapshots(i, cutoff)
          PROVE  SurplusInv'
      <3>1. /\ rows' = rows /\ committed' = committed /\ msg' = msg
            /\ faults' = faults /\ crashes' = crashes
        BY <2>3 DEF CreateSnapshot, StoreExternal, PruneSnapshots
      <3>2. /\ \A j \in Instances \ {i} : pc'[j] = pc[j]
            /\ pc'[i] \in {"prune", "commit"}
        BY <1>0, <2>3 DEF CreateSnapshot, StoreExternal, PruneSnapshots, TypeOK, WorkersType
      <3> QED  BY <1>2, <1>3, <3>1, <3>2
    <2>4. CASE Commit(i)
      <3>1. committed[msg[i].part] < msg[i].off /\ msg[i].part \in AllPartitions /\ msg[i].off \in Nat
        BY <1>0, <2>4 DEF Commit, IInv, InHandInv, TypeOK, WorkersType
      <3>2. committed' = [committed EXCEPT ![msg[i].part] = msg[i].off]
        BY <2>4 DEF Commit
      <3>3. committed'[msg[i].part] = msg[i].off /\ \A p \in Partitions : committed'[p] >= committed[p]
        BY <1>0, <1>3, <3>1, <3>2 DEF TypeOK, OffsetsType, AllPartitions
      <3>4. \A j \in Instances \ {i} : pc'[j] = pc[j] /\ msg'[j] = msg[j]
        BY <1>0, <2>4 DEF Commit, TypeOK, WorkersType
      <3>5. rows' = rows /\ faults' = faults /\ crashes' = crashes
        BY <2>4 DEF Commit
      <3>6. committed'[msg[i].part] >= msg[i].off
        BY <3>1, <3>3
      <3> QED  BY <1>2, <3>3, <3>4, <3>5, <3>6
    <2> QED  BY <1>4, <2>1, <2>2, <2>3, <2>4 DEF Worker
  <1>5. ASSUME NEW p \in Partitions, NEW t \in 1..MaxTime, NEW ks \in SUBSET Keys \ {{}}, Publish(p, t, ks)
        PROVE  SurplusInv'
    BY <1>1, <1>5 DEF Publish
  <1>6. ASSUME NEW i \in Instances, NEW landed \in BOOLEAN, AttemptFails(i, landed)
        PROVE  SurplusInv'
    <2>1. CASE landed /\ pc[i] = "store_change"
      BY <1>0, <1>6, <2>1, SurplusStore
    <2>2. CASE ~(landed /\ pc[i] = "store_change")
      <3>1. /\ rows' = rows /\ committed' = committed /\ msg' = msg
            /\ faults' = faults + 1 /\ crashes' = crashes
        BY <1>6, <2>2 DEF AttemptFails
      <3>2. \A j \in Instances \ {i} : pc'[j] = pc[j]
        BY <1>0, <1>6 DEF AttemptFails, TypeOK, WorkersType
      <3> QED  BY <1>0, <1>2, <1>3, <3>1, <3>2 DEF OneMoreFailure
    <2> QED  BY <2>1, <2>2
  <1>7. ASSUME NEW i \in Instances, CommitFails(i) \/ Crash(i)
        PROVE  SurplusInv'
    <2>1. rows' = rows /\ committed' = committed /\ OneMoreFailure
      BY <1>0, <1>7 DEF CommitFails, Crash, OneMoreFailure
    <2>2. \A j \in Instances \ {i} : pc'[j] = pc[j] /\ msg'[j] = msg[j]
      BY <1>0, <1>7 DEF CommitFails, Crash, TypeOK, WorkersType
    <2> QED  BY <1>2, <1>3, <2>1, <2>2
  <1>8. CASE UNCHANGED vars
    BY <1>1, <1>8 DEF vars
  <1> QED  BY <1>4, <1>5, <1>6, <1>7, <1>8 DEF Next, Environment

\* The service never stores an event twice on its own: every surplus row is paid for by a
\* crash or a failed call, for any number of instances, retries and lost commits.
THEOREM DuplicatesArePaidFor == Spec => []DuplicatesAreExplained
  <1>1. Init => SurplusInv
    <2> SUFFICES ASSUME Init PROVE SurplusInv
      OBVIOUS
    <2>1. rows = <<>> /\ faults = 0 /\ crashes = 0 /\ Len(<<>>) = 0 /\ ToSet(<<>>) = {}
      BY DEF Init, ToSet
    <2>2. Loose = {}
      BY <2>1 DEF Loose
    <2> QED  BY <2>1, <2>2, FS_EmptySet DEF SurplusInv
  <1>2. TypeOK /\ SurplusInv => DuplicatesAreExplained
    BY SurplusNumbers DEF SurplusInv, DuplicatesAreExplained
  <1>3. IInv => TypeOK
    BY DEF IInv
  <1> QED  BY InitInv, NextInv, SurplusNext, <1>1, <1>2, <1>3, PTL DEF Spec
-----------------------------------------------------------------------------
(* The consumer implements EventLog.                                       *)

Durable(rs) == {<<rs[r].part, rs[r].off>> : r \in 1..Len(rs)}
Offered(cs) == [p \in Partitions |-> Len(cs[p])]
Acked(cm) == [p \in Partitions |-> cm[p]]

\* One more row makes one more message durable.
LEMMA AppendDurable ==
  ASSUME TablesType, NEW q \in Partitions, NEW n \in Nat \ {0},
         rows' = Append(rows, [part |-> q, off |-> n])
  PROVE  Durable(rows') = Durable(rows) \cup {<<q, n>>}
  <1>1. rows \in Seq(Row) /\ [part |-> q, off |-> n] \in Row
    BY DEF TablesType, Row
  <1>2. /\ Len(rows) \in Nat /\ Len(rows') = Len(rows) + 1
        /\ \A r \in 1..Len(rows) : rows'[r] = rows[r]
        /\ rows'[Len(rows) + 1] = [part |-> q, off |-> n]
    BY <1>1
  <1>3. \A r \in 1..Len(rows') : r \in 1..Len(rows) \/ r = Len(rows) + 1
    BY <1>2
  <1>4. /\ 1..Len(rows) \subseteq 1..Len(rows')
        /\ Len(rows) + 1 \in 1..Len(rows')
    BY <1>2
  <1>5. /\ rows'[Len(rows) + 1].part = q /\ rows'[Len(rows) + 1].off = n
    BY <1>2
  <1> QED  BY <1>2, <1>3, <1>4, <1>5 DEF Durable

\* What is handled in the code is settled in the abstract log.
LEMMA HandledIsSettled ==
  ASSUME NEW p, NEW o
  PROVE  Handled(p, o) => <<p, o>> \in Durable(rows) \cup insert_failed
  BY DEF Handled, Stored, Durable

\* Every step of the consumer is a step of the event log, or a stutter.
LEMMA StepSimulation ==
  ASSUME IInv, [Next]_vars
  PROVE  [Log!Next]_(Log!vars)
  <1>0. TopicsType /\ TablesType /\ WorkersType /\ OffsetsType
    BY DEF IInv, TypeOK
  <1>1. /\ Log!vars = <<Offered(changes), Durable(rows), insert_failed, Acked(committed)>>
        /\ Log!vars' = <<Offered(changes'), Durable(rows'), insert_failed', Acked(committed')>>
    BY DEF Log!vars, Offered, Durable, Acked
  <1>2. ASSUME UNCHANGED <<changes, rows, insert_failed>>, Acked(committed') = Acked(committed)
        PROVE  UNCHANGED Log!vars
    BY <1>1, <1>2
  <1>3. ASSUME NEW p \in Partitions, NEW t \in 1..MaxTime, NEW ks \in SUBSET Keys \ {{}},
               Publish(p, t, ks)
        PROVE  Log!Next
    <2> DEFINE e == [seq |-> producer.produced + 1, time |-> t, keys |-> ks]
    <2>1. e \in Event
      BY <1>0, BoundsAssumption DEF TopicsType, Event
    <2>2. changes' = [changes EXCEPT ![p] = Append(changes[p], e)]
      BY <1>3 DEF Publish
    <2>3. Offered(changes') = [Offered(changes) EXCEPT ![p] = Offered(changes)[p] + 1]
      <3> HIDE DEF e
      <3>1. \A q \in Partitions : Len(changes'[q]) = IF q = p THEN Len(changes[q]) + 1
                                                             ELSE Len(changes[q])
        BY <1>0, <2>1, <2>2 DEF TopicsType
      <3> QED  BY <3>1 DEF Offered
    <2>4. Durable(rows') = Durable(rows) /\ insert_failed' = insert_failed
          /\ Acked(committed') = Acked(committed)
      BY <1>3 DEF Publish
    <2>5. Log!Offer(p)
      BY <2>3, <2>4 DEF Log!Offer, Offered, Durable, Acked
    <2> QED  BY <2>5 DEF Log!Next
  <1>4. ASSUME NEW i \in Instances, pc[i] = "store_change"
        PROVE  /\ msg[i].part \in Partitions
               /\ msg[i] = [part |-> msg[i].part, off |-> msg[i].off]
               /\ msg[i].off \in Nat \ {0}
               /\ msg[i].off \in 1..Len(changes[msg[i].part])
               /\ rows' = Append(rows, msg[i]) =>
                      Durable(rows') = Durable(rows) \cup {<<msg[i].part, msg[i].off>>}
    <2>1. /\ msg[i].part \in Partitions
          /\ msg[i].off = position[msg[i].part]
      BY <1>4 DEF IInv, InHandInv
    <2>2. /\ msg[i] = [part |-> msg[i].part, off |-> msg[i].off]
          /\ msg[i].off \in Nat \ {0}
      BY <1>4, <2>1, InHandEvent
    <2>3. msg[i].off <= Len(changes[msg[i].part]) /\ Len(changes[msg[i].part]) \in Nat
      BY <1>0, <2>1 DEF IInv, PositionInv, TopicsType
    <2>4. ASSUME rows' = Append(rows, msg[i])
          PROVE  Durable(rows') = Durable(rows) \cup {<<msg[i].part, msg[i].off>>}
      BY <1>0, <2>1, <2>2, <2>4, AppendDurable
    <2> QED  BY <2>1, <2>2, <2>3, <2>4
  <1>5. ASSUME NEW i \in Instances, StoreChange(i)
        PROVE  Log!Next
    <2>1. /\ Durable(rows') = Durable(rows) \cup {<<msg[i].part, msg[i].off>>}
          /\ msg[i].part \in Partitions /\ msg[i].off \in 1..Offered(changes)[msg[i].part]
          /\ UNCHANGED <<changes, insert_failed, committed>>
      BY <1>4, <1>5 DEF StoreChange, Offered
    <2> DEFINE q == msg[i].part
               o == msg[i].off
    <2>2. Log!Persist(q, o)
      BY <2>1 DEF Log!Persist, Durable
    <2> QED  BY <2>1, <2>2 DEF Log!Next, Log!Persist, Offered
  <1>6. ASSUME NEW i \in Instances, NEW landed \in BOOLEAN, AttemptFails(i, landed)
        PROVE  Log!Next \/ UNCHANGED Log!vars
    <2>0. UNCHANGED <<changes, committed>>
      BY <1>6 DEF AttemptFails
    <2>1. CASE pc[i] # "store_change"
      <3>1. rows' = rows /\ insert_failed' = insert_failed
        BY <1>6, <2>1 DEF AttemptFails
      <3> QED  BY <1>2, <2>0, <3>1
    <2>2. CASE pc[i] = "store_change"
      <3>1. /\ msg[i].part \in Partitions /\ msg[i].off \in 1..Offered(changes)[msg[i].part]
            /\ rows' = rows \/ Durable(rows') = Durable(rows) \cup {<<msg[i].part, msg[i].off>>}
            /\ insert_failed' \in {insert_failed, insert_failed \cup {<<msg[i].part, msg[i].off>>}}
        BY <1>4, <1>6, <2>2 DEF AttemptFails, Offered
      <3>2. CASE rows' = rows /\ insert_failed' = insert_failed
        BY <1>2, <2>0, <3>2
      <3>3. CASE rows' = rows /\ insert_failed' # insert_failed
        <4>1. Log!GiveUp(msg[i].part, msg[i].off)
          BY <2>0, <3>1, <3>3 DEF Log!GiveUp
        <4> QED  BY <3>1, <4>1 DEF Log!Next, Log!GiveUp, Offered
      <3>4. CASE rows' # rows /\ insert_failed' = insert_failed
        <4>1. Log!Persist(msg[i].part, msg[i].off)
          BY <2>0, <3>1, <3>4 DEF Log!Persist, Durable
        <4> QED  BY <3>1, <4>1 DEF Log!Next, Log!Persist, Offered
      <3>5. CASE rows' # rows /\ insert_failed' # insert_failed
        <4>1. Log!PersistAndGiveUp(msg[i].part, msg[i].off)
          BY <2>0, <3>1, <3>5 DEF Log!PersistAndGiveUp, Durable
        <4> QED  BY <3>1, <4>1 DEF Log!Next, Log!PersistAndGiveUp, Offered
      <3> QED  BY <3>2, <3>3, <3>4, <3>5
    <2> QED  BY <2>1, <2>2
  <1>7. ASSUME NEW i \in Instances, Commit(i)
        PROVE  Log!Next \/ UNCHANGED Log!vars
    <2> DEFINE q == msg[i].part
               o == msg[i].off
    <2>0. /\ UNCHANGED <<changes, rows, insert_failed>>
          /\ committed' = [committed EXCEPT ![q] = o]
          /\ q \in AllPartitions
      BY <1>0, <1>7 DEF Commit, WorkersType
    <2>1. CASE q \notin Partitions
      <3>1. Acked(committed') = Acked(committed)
        BY <1>0, <2>0, <2>1 DEF Acked, OffsetsType, AllPartitions
      <3> QED  BY <1>2, <2>0, <3>1
    <2>2. CASE q \in Partitions
      <3>1. /\ pc[i] = "commit" /\ Owner[q] = i /\ o = position[q] /\ committed[q] < o
            /\ Stored(q, o)
        BY <1>7, <2>2 DEF Commit, IInv, InHandInv
      <3>2. /\ position[q] \in Nat /\ committed[q] \in Nat /\ Len(changes[q]) \in Nat
            /\ position[q] <= Len(changes[q])
        BY <1>0, <2>0, <2>2 DEF OffsetsType, TopicsType, IInv, PositionInv
      <3>3. \A n \in 1..o : <<q, n>> \in Durable(rows) \cup insert_failed
        <4> TAKE n \in 1..o
        <4>1. FetchedInv!(q)!(n)
          BY <2>2, <3>1 DEF IInv, FetchedInv
        <4>2. Handled(q, n)
          BY <3>1, <4>1
        <4> QED  BY <4>2, HandledIsSettled
      <3>4. Acked(committed') = [Acked(committed) EXCEPT ![q] = o]
        BY <1>0, <2>0, <2>2 DEF Acked, OffsetsType, AllPartitions
      <3>5. /\ o \in 1..Offered(changes)[q] /\ Acked(committed)[q] < o
        BY <2>2, <3>1, <3>2 DEF Offered, Acked
      <3>6. Log!Acknowledge(q, o)
        BY <2>0, <3>3, <3>4, <3>5 DEF Log!Acknowledge, Log!Settled, Acked, Durable, Offered
      <3> QED  BY <2>2, <3>5, <3>6 DEF Log!Next, Log!Acknowledge, Offered
    <2> QED  BY <2>1, <2>2
  <1>8. ASSUME \/ \E i \in Instances :
                    \/ \E p \in AllPartitions : Consume(i, p)
                    \/ CreateSnapshot(i)
                    \/ StoreExternal(i)
                    \/ \E cutoff \in PruneCutoffs : PruneSnapshots(i, cutoff)
                    \/ CommitFails(i)
                    \/ Crash(i)
               \/ UNCHANGED vars
        PROVE  UNCHANGED Log!vars
    <2>1. UNCHANGED <<changes, rows, insert_failed, committed>>
      BY <1>8 DEF Consume, CreateSnapshot, StoreExternal, PruneSnapshots, CommitFails, Crash, vars
    <2> QED  BY <1>2, <2>1
  <1> QED  BY <1>3, <1>5, <1>6, <1>7, <1>8 DEF Next, Worker, Environment

\* The storage consumer, with its retries, crashes, snapshots and lost commits,
\* behaves like EventLog: rows are only added, and an offset is acknowledged only
\* over settled messages.
THEOREM ImplementsLog == Spec => ImplementsEventLog
  <1>1. Init => Log!Init
    BY DEF Init, Log!Init, AllPartitions
  <1> QED  BY InitInv, NextInv, StepSimulation, <1>1, PTL DEF Spec, ImplementsEventLog, Log!Spec
-----------------------------------------------------------------------------
(* The cache of the API.                                                   *)

Steps == {"idle", "snapshot", "changes", "expired", "hit", "set", "assigned", "evict", "evicting"}
Requests(V) == [at : Nat, from : Nat, value : V, came : Nat, seen : Nat, asked : Nat, created : Nat]
Items(V) == [at : Nat, value : V, created : Nat, seen : Nat, asked : Nat]

\* Types, whatever the set V of graphs is.
TypedWith(V) ==
    /\ empty_graph_state \in V
    /\ req \in [Threads -> Requests(V)] /\ cache \in Seq(Items(V))

QueryType ==
    /\ now \in Nat /\ step \in [Threads -> Steps]
    /\ stored_at \in Seq(Nat) /\ Len(stored_at) = Len(rows)
    /\ \E V : TypedWith(V)

KeysOf(s) == {s[n].at : n \in DOMAIN s}
Distinct(s) == \A n, m \in DOMAIN s : s[n].at = s[m].at => n = m

\* A sequence over a set is one over any larger set.
LEMMA SeqMonotone ==
  ASSUME NEW S, NEW T, S \subseteq T, NEW s \in Seq(S)
  PROVE  s \in Seq(T)
  OBVIOUS

\* Requests and items of some graphs are some of more graphs.
LEMMA TypeGrows ==
  ASSUME NEW V, NEW W, V \subseteq W
  PROVE  Items(V) \subseteq Items(W) /\ Requests(V) \subseteq Requests(W)
  BY DEF Items, Requests

\* Two sequences one after the other.
LEMMA Concatenation ==
  ASSUME NEW S, NEW s \in Seq(S), NEW t \in Seq(S)
  PROVE  /\ s \o t \in Seq(S) /\ Len(s) \in Nat /\ Len(t) \in Nat /\ Len(s \o t) = Len(s) + Len(t)
         /\ \A n \in 1..(Len(s) + Len(t)) : (s \o t)[n] = IF n <= Len(s) THEN s[n] ELSE t[n - Len(s)]
  OBVIOUS

\* A sequence without its k-th element.
LEMMA RemoveAtFacts ==
  ASSUME NEW S, NEW s \in Seq(S), NEW k \in 1..Len(s)
  PROVE  /\ RemoveAt(s, k) \in Seq(S) /\ Len(s) \in Nat /\ Len(RemoveAt(s, k)) = Len(s) - 1
         /\ DOMAIN s = 1..Len(s) /\ DOMAIN RemoveAt(s, k) = 1..(Len(s) - 1)
         /\ \A n \in 1..(Len(s) - 1) : RemoveAt(s, k)[n] = IF n < k THEN s[n] ELSE s[n + 1]
  <1> DEFINE a == SubSeq(s, 1, k - 1)
             b == SubSeq(s, k + 1, Len(s))
  <1>1. /\ a \in Seq(S) /\ Len(a) = k - 1 /\ \A n \in 1..(k - 1) : a[n] = s[n]
        /\ Len(s) \in Nat /\ k \in Nat
    OBVIOUS
  <1>2. b \in Seq(S) /\ Len(b) = Len(s) - k /\ \A n \in 1..(Len(s) - k) : b[n] = s[n + k]
    OBVIOUS
  <1>3. RemoveAt(s, k) = a \o b
    BY DEF RemoveAt
  <1> HIDE DEF a, b
  <1>4. /\ a \o b \in Seq(S) /\ Len(a \o b) = Len(s) - 1
        /\ \A n \in 1..(Len(s) - 1) : (a \o b)[n] = IF n < k THEN s[n] ELSE s[n + 1]
    <2>1. /\ a \o b \in Seq(S) /\ Len(a \o b) = Len(a) + Len(b)
          /\ \A n \in 1..(Len(a) + Len(b)) : (a \o b)[n] = IF n <= Len(a) THEN a[n] ELSE b[n - Len(a)]
      BY <1>1, <1>2, Concatenation
    <2>2. Len(a) + Len(b) = Len(s) - 1
      BY <1>1, <1>2
    <2>3. ASSUME NEW n \in 1..(Len(s) - 1)
          PROVE  (a \o b)[n] = IF n < k THEN s[n] ELSE s[n + 1]
      <3>1. CASE n < k
        <4>1. n \in 1..(k - 1) /\ n <= Len(a)
          BY <1>1, <3>1
        <4> QED  BY <1>1, <2>1, <2>2, <3>1, <4>1
      <3>2. CASE ~(n < k)
        <4>1. ~(n <= Len(a)) /\ n - Len(a) \in 1..(Len(s) - k) /\ n - Len(a) + k = n + 1
          BY <1>1, <3>2
        <4>2. (a \o b)[n] = b[n - Len(a)]
          BY <2>1, <2>2, <4>1
        <4> QED  BY <1>2, <3>2, <4>1, <4>2
      <3> QED  BY <3>1, <3>2
    <2> QED  BY <2>1, <2>2, <2>3
  <1> QED  BY <1>1, <1>3, <1>4

\* What is left of the keys.
LEMMA RemoveAtKeys ==
  ASSUME NEW S, NEW s \in Seq(S), NEW k \in 1..Len(s), Distinct(s)
  PROVE  /\ Distinct(RemoveAt(s, k)) /\ KeysOf(RemoveAt(s, k)) = KeysOf(s) \ {s[k].at}
         /\ \A n \in DOMAIN RemoveAt(s, k) : \E m \in DOMAIN s : RemoveAt(s, k)[n] = s[m]
  <1> DEFINE r == RemoveAt(s, k)
             Old(n) == IF n < k THEN n ELSE n + 1
  <1>1. /\ DOMAIN s = 1..Len(s) /\ DOMAIN r = 1..(Len(s) - 1) /\ Len(s) \in Nat
        /\ \A n \in 1..(Len(s) - 1) : r[n] = IF n < k THEN s[n] ELSE s[n + 1]
    BY RemoveAtFacts
  <1>2. \A n \in DOMAIN r : r[n] = s[Old(n)] /\ Old(n) \in DOMAIN s /\ Old(n) # k
    BY <1>1
  <1>3. \A m \in DOMAIN s \ {k} : \E n \in DOMAIN r : Old(n) = m
    <2> SUFFICES ASSUME NEW m \in DOMAIN s \ {k} PROVE \E n \in DOMAIN r : Old(n) = m
      OBVIOUS
    <2>1. CASE m < k
      <3>1. m \in DOMAIN r
        BY <1>1, <2>1
      <3> QED  BY <2>1, <3>1
    <2>2. CASE m > k
      <3>1. m - 1 \in DOMAIN r /\ ~(m - 1 < k) /\ m - 1 + 1 = m
        BY <1>1, <2>2
      <3> QED  BY <3>1
    <2> QED  BY <1>1, <2>1, <2>2
  <1>4. \A n, m \in DOMAIN r : Old(n) = Old(m) => n = m
    BY <1>1
  <1> HIDE DEF r, Old
  <1>5. Distinct(r)
    BY <1>2, <1>4 DEF Distinct
  <1>6. KeysOf(r) = KeysOf(s) \ {s[k].at}
    BY <1>1, <1>2, <1>3 DEF KeysOf, Distinct
  <1> QED  BY <1>2, <1>5, <1>6 DEF r

\* A sequence of items with different keys is as long as the set of the keys.
LEMMA DistinctLength ==
  ASSUME NEW S, NEW s \in Seq(S), Distinct(s)
  PROVE  IsFiniteSet(KeysOf(s)) /\ Cardinality(KeysOf(s)) = Len(s)
  <1> DEFINE f == [n \in 1..Len(s) |-> s[n].at]
  <1>1. DOMAIN s = 1..Len(s) /\ Len(s) \in Nat
    OBVIOUS
  <1>2. f \in Injection(1..Len(s), KeysOf(s)) /\ f \in Surjection(1..Len(s), KeysOf(s))
    BY <1>1 DEF Injection, Surjection, IsInjective, KeysOf, Distinct
  <1>3. IsFiniteSet(1..Len(s)) /\ Cardinality(1..Len(s)) = Len(s)
    <2>1. 1 \in Int /\ Len(s) \in Int
      BY <1>1
    <2>2. IsFiniteSet(1..Len(s)) /\ Cardinality(1..Len(s)) = IF 1 > Len(s) THEN 0 ELSE Len(s) - 1 + 1
      BY ONLY <2>1, FS_Interval
    <2> QED  BY <1>1, <2>2
  <1> HIDE DEF f
  <1>4. IsFiniteSet(KeysOf(s)) /\ (Cardinality(KeysOf(s)) = Cardinality(1..Len(s)) <=> f \in Injection(1..Len(s), KeysOf(s)))
    BY <1>2, <1>3, FS_Surjection
  <1> QED  BY <1>2, <1>3, <1>4

\* What the calls of the OrderedDict make of the cache.
LEMMA CacheCalls ==
  ASSUME NEW V, cache \in Seq(Items(V)), Distinct(cache), NEW at
  PROVE  /\ Without(at) \in Seq(Items(V)) /\ Distinct(Without(at))
         /\ KeysOf(Without(at)) \subseteq KeysOf(cache) \ {at}
         /\ \A n \in DOMAIN Without(at) : \E m \in DOMAIN cache : Without(at)[n] = cache[m]
         /\ MovedToEnd(at) \in Seq(Items(V)) /\ Distinct(MovedToEnd(at))
         /\ KeysOf(MovedToEnd(at)) = KeysOf(cache)
         /\ \A n \in DOMAIN MovedToEnd(at) : \E m \in DOMAIN cache : MovedToEnd(at)[n] = cache[m]
  <1> DEFINE k == PlaceOf(at)
             r == RemoveAt(cache, k)
  <1>1. CASE ItemsOf(at) = {}
    BY <1>1 DEF Without, MovedToEnd, ItemsOf, KeysOf
  <1>2. CASE ItemsOf(at) # {}
    <2>1. k \in DOMAIN cache /\ cache[k].at = at /\ DOMAIN cache = 1..Len(cache) /\ Len(cache) \in Nat
      <3>1. k \in ItemsOf(at)
        BY <1>2 DEF PlaceOf
      <3> QED  BY <3>1 DEF ItemsOf
    <2>2. /\ r \in Seq(Items(V)) /\ Distinct(r) /\ KeysOf(r) = KeysOf(cache) \ {at}
          /\ \A n \in DOMAIN r : \E m \in DOMAIN cache : r[n] = cache[m]
      <3> DEFINE S == Items(V)
      <3>1. k \in 1..Len(cache) /\ cache \in Seq(S)
        BY <2>1
      <3> HIDE DEF S, k
      <3>2. r \in Seq(S)
        BY <3>1, RemoveAtFacts
      <3>3. /\ Distinct(r) /\ KeysOf(r) = KeysOf(cache) \ {cache[k].at}
            /\ \A n \in DOMAIN r : \E m \in DOMAIN cache : r[n] = cache[m]
        BY <3>1, RemoveAtKeys
      <3> QED  BY <2>1, <3>2, <3>3 DEF S
    <2>3. Without(at) = r /\ MovedToEnd(at) = Append(r, cache[k])
      BY <1>2 DEF Without, MovedToEnd
    <2>4. cache[k] \in Items(V)
      BY <2>1
    <2> HIDE DEF k, r
    <2>5. /\ Append(r, cache[k]) \in Seq(Items(V)) /\ DOMAIN r = 1..Len(r) /\ Len(r) \in Nat
          /\ DOMAIN Append(r, cache[k]) = 1..(Len(r) + 1) /\ Append(r, cache[k])[Len(r) + 1] = cache[k]
          /\ \A n \in 1..Len(r) : Append(r, cache[k])[n] = r[n]
      BY <2>2, <2>4
    <2>6. \A n \in 1..(Len(r) + 1) : n \in 1..Len(r) \/ n = Len(r) + 1
      BY <2>5
    <2>7. \A n \in 1..Len(r) : n \in 1..(Len(r) + 1) /\ n # Len(r) + 1 /\ Len(r) + 1 \in 1..(Len(r) + 1)
      BY <2>5
    <2>8. \A n \in 1..Len(r) : r[n].at # at
      BY <2>2, <2>5 DEF KeysOf
    <2> DEFINE e == Append(r, cache[k])
    <2>9. /\ DOMAIN e = 1..(Len(r) + 1) /\ e[Len(r) + 1] = cache[k]
          /\ \A n \in 1..Len(r) : e[n] = r[n]
      BY <2>5
    <2> HIDE DEF e
    <2>10. Distinct(e)
      BY <2>1, <2>2, <2>5, <2>6, <2>8, <2>9 DEF Distinct
    <2>11. KeysOf(e) = KeysOf(cache)
      <3>1. KeysOf(e) = KeysOf(r) \cup {at}
        <4>1. ASSUME NEW x \in KeysOf(e) PROVE x \in KeysOf(r) \cup {at}
          BY <2>1, <2>5, <2>6, <2>9 DEF KeysOf
        <4>2. ASSUME NEW x \in KeysOf(r) PROVE x \in KeysOf(e)
          BY <2>5, <2>7, <2>9 DEF KeysOf
        <4>3. at \in KeysOf(e)
          <5>1. Len(r) + 1 \in DOMAIN e
            BY <2>5, <2>9
          <5> QED  BY <2>1, <2>9, <5>1 DEF KeysOf
        <4> QED  BY <4>1, <4>2, <4>3
      <3>2. at \in KeysOf(cache)
        BY <2>1 DEF KeysOf
      <3> QED  BY <2>2, <3>1, <3>2
    <2>12. \A n \in DOMAIN e : \E m \in DOMAIN cache : e[n] = cache[m]
      BY <2>1, <2>2, <2>5, <2>6, <2>9
    <2> QED  BY <2>2, <2>3, <2>5, <2>10, <2>11, <2>12 DEF e
  <1> QED  BY <1>1, <1>2

\* Where a thread is when its item is in the cache on its account.
BusySteps == {"assigned", "evict", "evicting"}

\* The keys of the cache whose items no thread has just put there.
Unheld == {k \in KeysOf(cache) : \A t \in Threads : step[t] \in BusySteps => req[t].at # k}

\* A thread that has put its item may leave only when there is room for the others.
RoomInv == Distinct(cache) /\ Cardinality(Unheld) <= CacheSize

\* The changes after those that were seen came later.
Fresh(x) ==
    /\ x.asked <= now
    /\ \A r \in DOMAIN stored_at : r > x.seen => stored_at[r] >= x.asked

FreshInv ==
    /\ \A n \in DOMAIN cache : Fresh(cache[n])
    /\ \A t \in Threads :
         /\ step[t] \in {"hit", "set"} => Fresh(req[t])
         /\ step[t] = "hit" => req[t].came <= req[t].created + Ttl

QueryInv == QueryType /\ RoomInv /\ FreshInv

\* The invariant gives the bound.
LEMMA RoomBounds == ASSUME QueryInv PROVE CacheIsBounded
  <1> DEFINE busy == {t \in Threads : step[t] \in BusySteps}
             held == {req[t].at : t \in busy}
             at == [t \in busy |-> req[t].at]
  <1>1. PICK V : cache \in Seq(Items(V)) /\ Distinct(cache)
    BY DEF QueryInv, QueryType, TypedWith, RoomInv
  <1>2. IsFiniteSet(KeysOf(cache)) /\ Cardinality(KeysOf(cache)) = Len(cache) /\ Len(cache) \in Nat
    <2> DEFINE S == Items(V)
    <2>1. cache \in Seq(S) /\ Len(cache) \in Nat
      BY <1>1
    <2> HIDE DEF S
    <2> QED  BY <1>1, <2>1, DistinctLength
  <1>3. IsFiniteSet(busy)
    BY CacheAssumption, FS_Subset
  <1>4. IsFiniteSet(held) /\ Cardinality(held) <= Cardinality(busy)
    <2>1. at \in Surjection(busy, held)
      BY DEF Surjection
    <2> HIDE DEF busy, held, at
    <2> QED  BY <1>3, <2>1, FS_Surjection
  <1>5. IsFiniteSet(Unheld) /\ KeysOf(cache) \subseteq Unheld \cup held
    <2>1. Unheld \in SUBSET KeysOf(cache)
      BY DEF Unheld
    <2>2. IsFiniteSet(Unheld)
      BY <1>2, <2>1, FS_Subset
    <2> QED  BY <2>2 DEF Unheld
  <1> HIDE DEF held, busy
  <1>6. /\ IsFiniteSet(Unheld \cup held)
        /\ Cardinality(Unheld \cup held) = Cardinality(Unheld) + Cardinality(held) - Cardinality(Unheld \cap held)
    BY <1>4, <1>5, FS_Union
  <1>7. /\ Cardinality(Unheld) \in Nat /\ Cardinality(held) \in Nat /\ Cardinality(busy) \in Nat
        /\ Cardinality(Unheld \cap held) \in Nat /\ Cardinality(Unheld \cup held) \in Nat
    <2>1. IsFiniteSet(Unheld \cap held)
      BY <1>4, FS_Subset
    <2> QED  BY <1>3, <1>4, <1>5, <1>6, <2>1, FS_CardinalityType
  <1>8. Cardinality(KeysOf(cache)) <= Cardinality(Unheld \cup held)
    BY <1>5, <1>6, FS_Subset
  <1>9. Len(cache) <= CacheSize + Cardinality(busy)
    <2>1. Cardinality(Unheld) <= CacheSize /\ CacheSize \in Nat
      BY CacheAssumption DEF QueryInv, RoomInv
    <2> QED  BY <1>2, <1>4, <1>6, <1>7, <1>8, <2>1
  <1>10. \A n, m \in DOMAIN cache : cache[n].at = cache[m].at => n = m
    BY <1>1 DEF Distinct
  <1> QED  BY <1>9, <1>10 DEF CacheIsBounded, busy, BusySteps

\* The invariant gives the freshness.
LEMMA FreshAnswers == ASSUME QueryInv PROVE AnswersAreFresh
  <1> SUFFICES ASSUME NEW t \in Threads, NEW r \in DOMAIN stored_at, step[t] = "hit",
                      stored_at[r] + Ttl + (req[t].created - req[t].asked) < req[t].came
               PROVE  r <= req[t].seen
    BY DEF AnswersAreFresh
  <1>1. /\ req[t].created \in Nat /\ req[t].asked \in Nat /\ req[t].came \in Nat /\ req[t].seen \in Nat
    <2>1. PICK V : req \in [Threads -> Requests(V)]
      BY DEF QueryInv, QueryType, TypedWith
    <2> QED  BY <2>1 DEF Requests
  <1>2. stored_at[r] \in Nat /\ r \in Nat
    BY DEF QueryInv, QueryType
  <1>3. req[t].came <= req[t].created + Ttl /\ (r > req[t].seen => stored_at[r] >= req[t].asked)
    BY DEF QueryInv, FreshInv, Fresh
  <1>4. Ttl \in Nat
    BY CacheAssumption
  <1> QED  BY <1>1, <1>2, <1>3, <1>4

\* What a step of one thread has to keep.
LEMMA ThreadStep ==
  ASSUME QueryInv, NEW V, NEW W, TypedWith(V), V \subseteq W, NEW t \in Threads,
         NEW x \in Steps, NEW q \in Requests(W),
         step' = [step EXCEPT ![t] = x], req' = [req EXCEPT ![t] = q],
         cache' \in Seq(Items(W)), Distinct(cache'), now' = now, stored_at' = stored_at, rows' = rows,
         \A n \in DOMAIN cache' : Fresh(cache'[n]) \/ \E m \in DOMAIN cache : cache'[n] = cache[m],
         x \in {"hit", "set"} => Fresh(q),
         x = "hit" => q.came <= q.created + Ttl,
         \/ Len(cache') <= CacheSize
         \/ /\ KeysOf(cache') \subseteq KeysOf(cache) \cup (IF x \in BusySteps THEN {q.at} ELSE {})
            /\ step[t] \in BusySteps /\ req[t].at \in KeysOf(cache') => x \in BusySteps /\ q.at = req[t].at
  PROVE  QueryInv'
  <1>1. step \in [Threads -> Steps] /\ req \in [Threads -> Requests(V)] /\ empty_graph_state \in V
    BY DEF QueryInv, QueryType, TypedWith
  <1>2. /\ step' \in [Threads -> Steps] /\ step'[t] = x /\ req'[t] = q
        /\ \A u \in Threads \ {t} : step'[u] = step[u] /\ req'[u] = req[u]
    BY <1>1
  <1>3. TypedWith(W)'
    <2>1. Requests(V) \subseteq Requests(W)
      BY TypeGrows
    <2>2. req' \in [Threads -> Requests(W)]
      BY <1>1, <2>1
    <2> QED  BY <1>1, <2>2 DEF TypedWith, empty_graph_state
  <1>4. QueryType'
    BY <1>2, <1>3 DEF QueryInv, QueryType
  <1>5. \A y : Fresh(y)' = Fresh(y)
    BY DEF Fresh
  <1>6. FreshInv'
    <2>1. \A n \in DOMAIN cache' : Fresh(cache'[n])
      BY DEF QueryInv, FreshInv
    <2>2. ASSUME NEW u \in Threads
          PROVE  /\ step'[u] \in {"hit", "set"} => Fresh(req'[u])
                 /\ step'[u] = "hit" => req'[u].came <= req'[u].created + Ttl
      <3>1. CASE u = t
        BY <1>2, <3>1
      <3>2. CASE u # t
        BY <1>2, <3>2 DEF QueryInv, FreshInv
      <3> QED  BY <3>1, <3>2
    <2> QED  BY <2>1, <2>2 DEF FreshInv, Fresh
  <1>7. Cardinality(Unheld') <= CacheSize
    <2>1. IsFiniteSet(KeysOf(cache')) /\ Cardinality(KeysOf(cache')) = Len(cache')
      <3> DEFINE S == Items(W)
      <3>1. cache' \in Seq(S)
        OBVIOUS
      <3> HIDE DEF S
      <3> QED  BY <3>1, DistinctLength
    <2>2. Unheld' \in SUBSET KeysOf(cache')
      BY DEF Unheld
    <2>3. CASE Len(cache') <= CacheSize
      <3>1. Cardinality(Unheld') <= Cardinality(KeysOf(cache')) /\ Cardinality(Unheld') \in Nat
        BY <2>1, <2>2, FS_Subset, FS_CardinalityType
      <3>2. Len(cache') \in Nat /\ CacheSize \in Nat
        BY CacheAssumption
      <3> QED  BY <2>1, <2>3, <3>1, <3>2
    <2>4. ASSUME KeysOf(cache') \subseteq KeysOf(cache) \cup (IF x \in BusySteps THEN {q.at} ELSE {}),
                 step[t] \in BusySteps /\ req[t].at \in KeysOf(cache') => x \in BusySteps /\ q.at = req[t].at
          PROVE  Cardinality(Unheld') <= CacheSize
      <3>1. ASSUME NEW k \in Unheld' PROVE k \in Unheld
        <4>1. k \in KeysOf(cache') /\ \A u \in Threads : step'[u] \in BusySteps => req'[u].at # k
          BY DEF Unheld
        <4>2. x \in BusySteps => q.at # k
          BY <1>2, <4>1
        <4>3. k \in KeysOf(cache)
          BY <2>4, <4>1, <4>2
        <4>4. \A u \in Threads : step[u] \in BusySteps => req[u].at # k
          BY <1>2, <2>4, <4>1, <4>2
        <4> QED  BY <4>3, <4>4 DEF Unheld
      <3>2. Unheld' \in SUBSET Unheld
        BY <3>1
      <3>3. IsFiniteSet(Unheld) /\ Cardinality(Unheld) <= CacheSize
        <4>1. PICK U : cache \in Seq(Items(U)) /\ Distinct(cache) /\ Cardinality(Unheld) <= CacheSize
          BY DEF QueryInv, QueryType, TypedWith, RoomInv
        <4>2. IsFiniteSet(KeysOf(cache))
          <5> DEFINE S == Items(U)
          <5>1. cache \in Seq(S)
            BY <4>1
          <5> HIDE DEF S
          <5> QED  BY <4>1, <5>1, DistinctLength
        <4>3. Unheld \in SUBSET KeysOf(cache)
          BY DEF Unheld
        <4> QED  BY <4>1, <4>2, <4>3, FS_Subset
      <3>4. Cardinality(Unheld') <= Cardinality(Unheld) /\ Cardinality(Unheld') \in Nat /\ Cardinality(Unheld) \in Nat
        BY <3>2, <3>3, FS_Subset, FS_CardinalityType
      <3>5. CacheSize \in Nat
        BY CacheAssumption
      <3> QED  BY <3>3, <3>4, <3>5
    <2> QED  BY <2>3, <2>4
  <1> QED  BY <1>4, <1>6, <1>7 DEF QueryInv, RoomInv

\* What every step of a thread starts from.
LEMMA ThreadState ==
  ASSUME QueryInv, NEW V, TypedWith(V), NEW t \in Threads
  PROVE  /\ req[t] \in Requests(V) /\ req = [req EXCEPT ![t] = req[t]] /\ cache \in Seq(Items(V))
         /\ Distinct(cache) /\ empty_graph_state \in V /\ NoRequest \in Requests(V)
         /\ now \in Nat /\ CacheSize \in Nat /\ Ttl \in Nat /\ QueryTimes \subseteq Nat
         /\ \A n \in DOMAIN cache : cache[n] \in Items(V) /\ Fresh(cache[n])
  <1>1. NoRequest \in Requests(V)
    BY DEF TypedWith, NoRequest, Requests
  <1>2. \A n \in DOMAIN cache : cache[n] \in Items(V)
    BY DEF TypedWith
  <1> QED  BY <1>1, <1>2, CacheAssumption DEF TypedWith, QueryInv, QueryType, RoomInv, FreshInv

\* Lookup reads an item that is fresh, and that is not too old when the request comes.
LEMMA LookupInv ==
  ASSUME QueryInv, NEW t \in Threads, NEW at \in QueryTimes, Lookup(t, at),
         UNCHANGED <<now, stored_at, rows>>
  PROVE  QueryInv'
  <1>1. PICK V : TypedWith(V)
    BY DEF QueryInv, QueryType
  <1>2. /\ req[t] \in Requests(V) /\ cache \in Seq(Items(V)) /\ Distinct(cache)
        /\ empty_graph_state \in V /\ now \in Nat /\ at \in Nat
        /\ \A n \in DOMAIN cache : cache[n] \in Items(V) /\ Fresh(cache[n])
    BY <1>1, ThreadState
  <1>3. step[t] = "idle" /\ cache' = cache
    BY DEF Lookup
  <1>4. ASSUME NEW x \in {"snapshot", "expired"}, Goes(t, x),
               req' = [req EXCEPT ![t] = [NoRequest EXCEPT !.at = at]]
        PROVE  QueryInv'
    <2>1. [NoRequest EXCEPT !.at = at] \in Requests(V) /\ x \in Steps /\ x \notin BusySteps \cup {"hit", "set"}
      BY <1>2 DEF NoRequest, Requests, Steps, BusySteps
    <2>2. KeysOf(cache') \subseteq KeysOf(cache) /\ V \subseteq V /\ step[t] \notin BusySteps
      BY <1>3 DEF BusySteps
    <2> HIDE DEF NoRequest
    <2> QED  BY <1>1, <1>2, <1>3, <1>4, <2>1, <2>2, ThreadStep DEF Goes
  <1>5. ASSUME ItemsOf(at) # {}, ~Expired(cache[PlaceOf(at)]), Goes(t, "hit"),
               req' = [req EXCEPT ![t] =
                         [NoRequest EXCEPT !.at = at, !.came = now, !.value = cache[PlaceOf(at)].value,
                                           !.seen = cache[PlaceOf(at)].seen,
                                           !.asked = cache[PlaceOf(at)].asked,
                                           !.created = cache[PlaceOf(at)].created]]
        PROVE  QueryInv'
    <2>1. PICK item \in Items(V) : item = cache[PlaceOf(at)] /\ Fresh(item)
      <3>1. PlaceOf(at) \in DOMAIN cache
        BY <1>5 DEF PlaceOf, ItemsOf
      <3> QED  BY <1>2, <3>1
    <2> DEFINE q == [NoRequest EXCEPT !.at = at, !.came = now, !.value = item.value,
                                      !.seen = item.seen, !.asked = item.asked, !.created = item.created]
    <2>2. req' = [req EXCEPT ![t] = q]
      BY <1>5, <2>1
    <2>3. q \in Requests(V) /\ q.came = now /\ q.created = item.created /\ item.created \in Nat
      BY <1>2, <2>1 DEF Requests, Items, NoRequest
    <2>4. Fresh(q)
      <3>1. q.seen = item.seen /\ q.asked = item.asked
        BY DEF NoRequest
      <3> QED  BY <2>1, <3>1 DEF Fresh
    <2>5. q.came <= q.created + Ttl
      <3>1. ~(now - item.created > Ttl)
        BY <1>5, <2>1 DEF Expired
      <3>2. Ttl \in Nat
        BY CacheAssumption
      <3> QED  BY <1>2, <2>3, <3>1, <3>2
    <2> HIDE DEF q
    <2>6. KeysOf(cache') \subseteq KeysOf(cache) /\ V \subseteq V /\ step[t] \notin BusySteps
          /\ "hit" \in Steps /\ "hit" \notin BusySteps
      BY <1>3 DEF BusySteps, Steps
    <2>7. step' = [step EXCEPT ![t] = "hit"]
      BY <1>5 DEF Goes
    <2> QED  BY <1>1, <1>2, <1>3, <2>2, <2>3, <2>4, <2>5, <2>6, <2>7, ThreadStep
  <1> QED  BY <1>4, <1>5 DEF Lookup

\* PopExpired and Touch: an item goes, or goes to the end.
LEMMA PopExpiredInv ==
  ASSUME QueryInv, NEW t \in Threads, PopExpired(t) \/ Touch(t), UNCHANGED <<now, stored_at, rows>>
  PROVE  QueryInv'
  <1>1. PICK V : TypedWith(V)
    BY DEF QueryInv, QueryType
  <1>2. /\ req[t] \in Requests(V) /\ req = [req EXCEPT ![t] = req[t]] /\ cache \in Seq(Items(V))
        /\ Distinct(cache) /\ NoRequest \in Requests(V)
    BY <1>1, ThreadState
  <1>3. PICK x \in {"snapshot", "idle"}, q \in Requests(V) :
          step' = [step EXCEPT ![t] = x] /\ req' = [req EXCEPT ![t] = q]
    BY <1>2 DEF PopExpired, Touch, Goes, Ends
  <1>4. cache' \in {Without(req[t].at), MovedToEnd(req[t].at)} /\ step[t] \notin BusySteps
    BY DEF PopExpired, Touch, BusySteps
  <1>5. /\ cache' \in Seq(Items(V)) /\ Distinct(cache') /\ KeysOf(cache') \subseteq KeysOf(cache)
        /\ \A n \in DOMAIN cache' : \E m \in DOMAIN cache : cache'[n] = cache[m]
    BY <1>2, <1>4, CacheCalls
  <1>6. x \in Steps /\ x \notin BusySteps \cup {"hit", "set"} /\ V \subseteq V
    BY DEF Steps, BusySteps
  <1> QED  BY <1>1, <1>3, <1>4, <1>5, <1>6, ThreadStep

\* The queries: what they see is all that is stored when they are made.
LEMMA QueriesInv ==
  ASSUME TypeOK, QueryInv, NEW t \in Threads, QuerySnapshot(t) \/ QueryChanges(t) \/ QueryFails(t),
         UNCHANGED <<now, stored_at, rows>>
  PROVE  QueryInv'
  <1>1. PICK V : TypedWith(V)
    BY DEF QueryInv, QueryType
  <1>2. /\ req[t] \in Requests(V) /\ req = [req EXCEPT ![t] = req[t]] /\ cache \in Seq(Items(V))
        /\ Distinct(cache) /\ NoRequest \in Requests(V) /\ now \in Nat
    BY <1>1, ThreadState
  <1>3. Len(rows) \in Nat
    BY SurplusNumbers
  <1>4. PICK W, x, q :
          /\ x \in {"changes", "set", "idle"} /\ q \in Requests(W) /\ V \subseteq W /\ step' = [step EXCEPT ![t] = x] /\ req' = [req EXCEPT ![t] = q]
          /\ x = "set" => q.seen = Len(rows) /\ q.asked = now
    <2>1. CASE QuerySnapshot(t)
      <3>1. CASE UNCHANGED req
        <4>1. req' = [req EXCEPT ![t] = req[t]] /\ "changes" # "set" /\ V \subseteq V
          BY <1>2, <3>1
        <4> QED  BY <1>2, <2>1, <4>1 DEF QuerySnapshot, Goes
      <3>2. ASSUME NEW s \in snapshots,
                   req' = [req EXCEPT ![t].from = s.snapshot_time, ![t].value = s.graph_state]
            PROVE  \E W, x, q :
                     /\ x \in {"changes", "set", "idle"} /\ q \in Requests(W) /\ V \subseteq W /\ step' = [step EXCEPT ![t] = x] /\ req' = [req EXCEPT ![t] = q]
                     /\ x = "set" => q.seen = Len(rows) /\ q.asked = now
        <4> DEFINE W == V \cup {s.graph_state}
                   q == [req[t] EXCEPT !.from = s.snapshot_time, !.value = s.graph_state]
        <4>1. s.snapshot_time \in Nat
          BY DEF TypeOK, TablesType, Snapshot
        <4>2. q \in Requests(W) /\ V \subseteq W
          BY <1>2, <4>1 DEF Requests
        <4>3. req' = [req EXCEPT ![t] = q]
          BY <1>1, <1>2, <3>2 DEF TypedWith
        <4>4. step' = [step EXCEPT ![t] = "changes"]
          BY <2>1 DEF QuerySnapshot, Goes
        <4> HIDE DEF q, W
        <4>5. "changes" # "set" /\ "changes" \in {"changes", "set", "idle"}
          OBVIOUS
        <4> WITNESS W, "changes", q
        <4> QED  BY <4>2, <4>3, <4>4, <4>5
      <3> QED  BY <2>1, <3>1, <3>2 DEF QuerySnapshot, fetch_nearest_snapshot_before
    <2>2. CASE QueryChanges(t)
      <3> DEFINE W == V \cup {Reconstruction(t)}
                 q == [req[t] EXCEPT !.value = Reconstruction(t), !.from = 0, !.seen = Len(rows), !.asked = now]
      <3>1. q \in Requests(W) /\ V \subseteq W /\ q.seen = Len(rows) /\ q.asked = now
        BY <1>2, <1>3 DEF Requests
      <3>2. req' = [req EXCEPT ![t] = q] /\ step' = [step EXCEPT ![t] = "set"]
        BY <2>2 DEF QueryChanges, Goes
      <3> HIDE DEF q, W
      <3> QED  BY <3>1, <3>2
    <2>3. CASE QueryFails(t)
      <3>1. step' = [step EXCEPT ![t] = "idle"] /\ req' = [req EXCEPT ![t] = NoRequest] /\ "idle" # "set" /\ V \subseteq V
        BY <2>3 DEF QueryFails, Goes, Ends
      <3> HIDE DEF NoRequest
      <3>2. "idle" \in {"changes", "set", "idle"}
        OBVIOUS
      <3> WITNESS V, "idle", NoRequest
      <3> QED  BY <1>2, <3>1, <3>2
    <2> QED  BY <2>1, <2>2, <2>3
  <1>5. /\ cache' = cache /\ step[t] \notin BusySteps /\ x \in Steps /\ x \notin BusySteps /\ x # "hit"
    BY <1>4 DEF QuerySnapshot, QueryChanges, QueryFails, BusySteps, Steps
  <1>6. cache \in Seq(Items(W))
    BY <1>2, <1>4, TypeGrows, SeqMonotone
  <1>7. x \in {"hit", "set"} => Fresh(q)
    <2>1. DOMAIN stored_at = 1..Len(rows)
      BY DEF QueryInv, QueryType
    <2> QED  BY <1>2, <1>3, <1>4, <1>5, <2>1 DEF Fresh
  <1> QED  BY <1>1, <1>2, <1>4, <1>5, <1>6, <1>7, ThreadStep

\* The item that a thread puts into the cache is its own until it leaves set.
LEMMA AssignInv ==
  ASSUME QueryInv, NEW t \in Threads, Assign(t), UNCHANGED <<now, stored_at, rows>>
  PROVE  QueryInv'
  <1>1. PICK V : TypedWith(V)
    BY DEF QueryInv, QueryType
  <1>2. /\ req[t] \in Requests(V) /\ req = [req EXCEPT ![t] = req[t]] /\ cache \in Seq(Items(V))
        /\ Distinct(cache) /\ now \in Nat
    BY <1>1, ThreadState
  <1>3. PICK item \in Items(V) : item = ItemOf(t) /\ item.at = req[t].at /\ Fresh(item)
    <2>1. ItemOf(t) \in Items(V)
      BY <1>2 DEF ItemOf, Items, Requests
    <2>2. Fresh(req[t])
      BY DEF QueryInv, FreshInv, Assign
    <2> QED  BY <2>1, <2>2 DEF Fresh, ItemOf
  <1> DEFINE at == req[t].at
  <1>4. DOMAIN cache = 1..Len(cache) /\ Len(cache) \in Nat
    BY <1>2
  <1>5. /\ cache' \in Seq(Items(V)) /\ Distinct(cache') /\ KeysOf(cache') \subseteq KeysOf(cache) \cup {at}
        /\ \A n \in DOMAIN cache' : cache'[n] = item \/ \E m \in DOMAIN cache : cache'[n] = cache[m]
    <2>1. CASE ItemsOf(at) = {}
      <3>1. cache' = Append(cache, item)
        BY <1>3, <2>1 DEF Assign
      <3>2. /\ cache' \in Seq(Items(V)) /\ DOMAIN cache' = 1..(Len(cache) + 1)
            /\ cache'[Len(cache) + 1] = item /\ \A n \in 1..Len(cache) : cache'[n] = cache[n]
        BY <1>2, <1>3, <3>1
      <3>3. \A n \in 1..(Len(cache) + 1) : n \in 1..Len(cache) \/ n = Len(cache) + 1
        BY <1>4
      <3>4. \A n \in 1..Len(cache) : cache[n].at # at
        BY <1>4, <2>1 DEF ItemsOf
      <3>5. Distinct(cache')
        BY <1>2, <1>3, <1>4, <3>2, <3>3, <3>4 DEF Distinct
      <3>6. KeysOf(cache') \subseteq KeysOf(cache) \cup {at}
        BY <1>3, <1>4, <3>2, <3>3 DEF KeysOf
      <3> QED  BY <1>4, <3>2, <3>3, <3>5, <3>6
    <2>2. CASE ItemsOf(at) # {}
      <3>1. cache' = [n \in DOMAIN cache |-> IF n \in ItemsOf(at) THEN item ELSE cache[n]]
        BY <1>3, <2>2 DEF Assign
      <3>2. DOMAIN cache' = DOMAIN cache /\ \A n \in DOMAIN cache : cache'[n] = IF cache[n].at = at THEN item ELSE cache[n]
        BY <3>1 DEF ItemsOf
      <3>3. cache' \in Seq(Items(V))
        BY <1>2, <1>3, <1>4, <3>1
      <3>4. \A n \in DOMAIN cache : cache'[n].at = cache[n].at
        BY <1>3, <3>2
      <3> HIDE DEF at
      <3>5. Distinct(cache') /\ KeysOf(cache') = KeysOf(cache)
        BY <1>2, <3>2, <3>4 DEF Distinct, KeysOf
      <3> QED  BY <3>2, <3>3, <3>5
    <2> QED  BY <2>1, <2>2
  <1>6. /\ step' = [step EXCEPT ![t] = "assigned"] /\ req' = [req EXCEPT ![t] = req[t]]
        /\ step[t] \notin BusySteps /\ "assigned" \in BusySteps /\ "assigned" \in Steps /\ V \subseteq V
    BY <1>2 DEF Assign, Goes, BusySteps, Steps
  <1>7. \A n \in DOMAIN cache' : Fresh(cache'[n]) \/ \E m \in DOMAIN cache : cache'[n] = cache[m]
    BY <1>3, <1>5
  <1> QED  BY <1>1, <1>2, <1>5, <1>6, <1>7, ThreadStep

\* A thread leaves at move_to_end only when its item is gone.
LEMMA MoveToEndInv ==
  ASSUME QueryInv, NEW t \in Threads, MoveToEnd(t), UNCHANGED <<now, stored_at, rows>>
  PROVE  QueryInv'
  <1>1. PICK V : TypedWith(V)
    BY DEF QueryInv, QueryType
  <1>2. /\ req[t] \in Requests(V) /\ req = [req EXCEPT ![t] = req[t]] /\ cache \in Seq(Items(V))
        /\ Distinct(cache) /\ NoRequest \in Requests(V) /\ V \subseteq V
    BY <1>1, ThreadState
  <1>3. cache' = MovedToEnd(req[t].at) /\ step[t] = "assigned"
    BY DEF MoveToEnd
  <1>4. /\ cache' \in Seq(Items(V)) /\ Distinct(cache') /\ KeysOf(cache') = KeysOf(cache)
        /\ \A n \in DOMAIN cache' : \E m \in DOMAIN cache : cache'[n] = cache[m]
    BY <1>2, <1>3, CacheCalls
  <1>5. CASE ItemsOf(req[t].at) = {}
    <2>1. step' = [step EXCEPT ![t] = "idle"] /\ req' = [req EXCEPT ![t] = NoRequest]
      BY <1>5 DEF MoveToEnd, Goes, Ends
    <2>2. req[t].at \notin KeysOf(cache')
      BY <1>4, <1>5 DEF KeysOf, ItemsOf
    <2>3. "idle" \in Steps /\ "idle" \notin BusySteps \cup {"hit", "set"}
      BY DEF Steps, BusySteps
    <2> QED  BY <1>1, <1>2, <1>4, <2>1, <2>2, <2>3, ThreadStep
  <1>6. CASE ItemsOf(req[t].at) # {}
    <2>1. step' = [step EXCEPT ![t] = "evict"] /\ req' = [req EXCEPT ![t] = req[t]]
      BY <1>2, <1>6 DEF MoveToEnd, Goes
    <2>2. "evict" \in Steps /\ "evict" \in BusySteps /\ "evict" \notin {"hit", "set"}
      BY DEF Steps, BusySteps
    <2> QED  BY <1>1, <1>2, <1>4, <2>1, <2>2, ThreadStep
  <1> QED  BY <1>5, <1>6

\* A thread leaves the loop only when the cache has room, or is empty.
LEMMA EvictInv ==
  ASSUME QueryInv, NEW t \in Threads, Evict(t) \/ PopItem(t), UNCHANGED <<now, stored_at, rows>>
  PROVE  QueryInv'
  <1>1. PICK V : TypedWith(V)
    BY DEF QueryInv, QueryType
  <1>2. /\ req[t] \in Requests(V) /\ req = [req EXCEPT ![t] = req[t]] /\ cache \in Seq(Items(V))
        /\ Distinct(cache) /\ NoRequest \in Requests(V) /\ V \subseteq V /\ CacheSize \in Nat
        /\ Len(cache) \in Nat
    BY <1>1, ThreadState
  <1>3. CASE cache' = cache /\ Len(cache) <= CacheSize /\ Ends(t) /\ Goes(t, "idle")
    <2>1. step' = [step EXCEPT ![t] = "idle"] /\ req' = [req EXCEPT ![t] = NoRequest]
      BY <1>3 DEF Goes, Ends
    <2>2. "idle" \in Steps /\ "idle" \notin BusySteps \cup {"hit", "set"}
      BY DEF Steps, BusySteps
    <2> QED  BY <1>1, <1>2, <1>3, <2>1, <2>2, ThreadStep
  <1>4. CASE cache' = cache /\ Goes(t, "evicting") /\ UNCHANGED req
    <2>1. step' = [step EXCEPT ![t] = "evicting"] /\ req' = [req EXCEPT ![t] = req[t]]
      BY <1>2, <1>4 DEF Goes
    <2>2. "evicting" \in Steps /\ "evicting" \in BusySteps /\ "evicting" \notin {"hit", "set"}
          /\ KeysOf(cache') \subseteq KeysOf(cache)
      BY <1>4 DEF Steps, BusySteps
    <2> QED  BY <1>1, <1>2, <1>4, <2>1, <2>2, ThreadStep
  <1>5. CASE cache # <<>> /\ cache' = Tail(cache) /\ Goes(t, "evict") /\ UNCHANGED req
    <2>1. step' = [step EXCEPT ![t] = "evict"] /\ req' = [req EXCEPT ![t] = req[t]]
      BY <1>2, <1>5 DEF Goes
    <2>2. "evict" \in Steps /\ "evict" \in BusySteps /\ "evict" \notin {"hit", "set"}
      BY DEF Steps, BusySteps
    <2>3. /\ cache' \in Seq(Items(V)) /\ DOMAIN cache = 1..Len(cache) /\ DOMAIN cache' = 1..(Len(cache) - 1)
          /\ \A n \in 1..(Len(cache) - 1) : cache'[n] = cache[n + 1] /\ n + 1 \in 1..Len(cache)
      BY <1>2, <1>5
    <2>4. Distinct(cache')
      <3> SUFFICES ASSUME NEW n \in DOMAIN cache', NEW m \in DOMAIN cache', cache'[n].at = cache'[m].at
                   PROVE  n = m
        BY DEF Distinct
      <3>1. n + 1 = m + 1 /\ n \in Int /\ m \in Int
        BY <1>2, <2>3 DEF Distinct
      <3> QED  BY <3>1
    <2>5. \A n \in DOMAIN cache' : \E m \in DOMAIN cache : cache'[n] = cache[m]
      BY <2>3
    <2>6. KeysOf(cache') \subseteq KeysOf(cache)
      BY <2>5 DEF KeysOf
    <2> QED  BY <1>1, <1>2, <2>1, <2>2, <2>3, <2>4, <2>5, <2>6, ThreadStep
  <1>6. CASE Evict(t)
    <2>1. CASE Len(cache) > CacheSize
      BY <1>4, <1>6, <2>1 DEF Evict
    <2>2. CASE ~(Len(cache) > CacheSize)
      <3>1. Len(cache) <= CacheSize
        BY <1>2, <2>2
      <3> QED  BY <1>3, <1>6, <2>2, <3>1 DEF Evict, Ends
    <2> QED  BY <2>1, <2>2
  <1>7. CASE PopItem(t)
    <2>1. CASE cache = <<>>
      <3>1. Len(cache) <= CacheSize
        BY <1>2, <2>1
      <3> QED  BY <1>3, <1>7, <2>1, <3>1 DEF PopItem, Ends
    <2>2. CASE cache # <<>>
      BY <1>5, <1>7, <2>2 DEF PopItem
    <2> QED  BY <2>1, <2>2
  <1> QED  BY <1>6, <1>7

\* The clock ticks.
LEMMA TickInv == ASSUME QueryInv, Tick, rows' = rows PROVE QueryInv'
  <1>1. /\ now' = now + 1 /\ cache' = cache /\ step' = step /\ req' = req /\ stored_at' = stored_at
        /\ now \in Nat
    BY DEF Tick, api, QueryInv, QueryType
  <1>2. QueryType'
    <2>1. PICK V : TypedWith(V)
      BY DEF QueryInv, QueryType
    <2>2. TypedWith(V)'
      BY <1>1, <2>1 DEF TypedWith, empty_graph_state
    <2>3. now' \in Nat
      BY <1>1
    <2> QED  BY <1>1, <2>2, <2>3 DEF QueryInv, QueryType
  <1>3. RoomInv'
    BY <1>1 DEF QueryInv, RoomInv, Unheld
  <1>4. \A x : x.asked \in Nat /\ Fresh(x) => Fresh(x)'
    BY <1>1 DEF Fresh
  <1>5. \A n \in DOMAIN cache : cache[n].asked \in Nat
    <2>1. PICK V : cache \in Seq(Items(V))
      BY DEF QueryInv, QueryType, TypedWith
    <2>2. \A n \in DOMAIN cache : cache[n] \in Items(V)
      BY <2>1
    <2> QED  BY <2>2 DEF Items
  <1>6. \A t \in Threads : req[t].asked \in Nat
    <2>1. PICK V : req \in [Threads -> Requests(V)]
      BY DEF QueryInv, QueryType, TypedWith
    <2> QED  BY <2>1 DEF Requests
  <1>7. \A n \in DOMAIN cache : Fresh(cache[n])'
    BY <1>1, <1>4, <1>5 DEF QueryInv, FreshInv
  <1>8. FreshInv'
    BY <1>1, <1>4, <1>6, <1>7 DEF QueryInv, FreshInv, Fresh
  <1> QED  BY <1>2, <1>3, <1>8 DEF QueryInv

\* The workers store what is newer than every answer.
LEMMA StorageInv == ASSUME IInv, QueryInv, Storage PROVE QueryInv'
  <1>1. /\ now' = now /\ cache' = cache /\ step' = step /\ req' = req /\ now \in Nat
        /\ stored_at \in Seq(Nat) /\ Len(stored_at) = Len(rows)
    BY DEF Storage, api, QueryInv, QueryType
  <1>2. rows \in Seq(Row) /\ Len(rows) \in Nat
    BY SurplusNumbers DEF IInv
  <1>3. PICK k \in {0, 1} : Len(rows') = Len(rows) + k
    <2>1. rows' = rows \/ \E i \in Instances : rows' = Append(rows, msg[i])
      BY LogStep DEF Storage
    <2>2. CASE rows' = rows
      <3>1. Len(rows') = Len(rows) + 0
        BY <1>2, <2>2
      <3> QED  BY <3>1
    <2>3. ASSUME NEW i \in Instances, rows' = Append(rows, msg[i]) PROVE Len(rows') = Len(rows) + 1
      BY <1>2, <2>3
    <2> QED  BY <2>1, <2>2, <2>3
  <1> DEFINE new == [n \in 1..k |-> now]
  <1>4. stored_at' = stored_at \o new
    <2>1. Len(rows') - Len(rows) = k
      BY <1>2, <1>3
    <2> QED  BY <2>1 DEF Storage
  <1>5. new \in Seq(Nat) /\ Len(new) = k /\ \A n \in 1..k : new[n] = now
    BY <1>1
  <1> HIDE DEF new
  <1>6. /\ stored_at' \in Seq(Nat) /\ Len(stored_at') = Len(rows')
        /\ \A n \in 1..Len(rows') : stored_at'[n] = IF n <= Len(rows) THEN stored_at[n] ELSE new[n - Len(rows)]
    <2>1. /\ stored_at \o new \in Seq(Nat) /\ Len(stored_at \o new) = Len(stored_at) + Len(new)
          /\ \A n \in 1..(Len(stored_at) + Len(new)) :
               (stored_at \o new)[n] = IF n <= Len(stored_at) THEN stored_at[n] ELSE new[n - Len(stored_at)]
      BY <1>1, <1>5, Concatenation
    <2> QED  BY <1>1, <1>3, <1>4, <1>5, <2>1
  <1>7. \A n \in 1..Len(rows') : IF n <= Len(rows) THEN n \in 1..Len(rows) /\ stored_at'[n] = stored_at[n]
                                                   ELSE stored_at'[n] = now
    <2> SUFFICES ASSUME NEW n \in 1..Len(rows')
                 PROVE  IF n <= Len(rows) THEN n \in 1..Len(rows) /\ stored_at'[n] = stored_at[n]
                                          ELSE stored_at'[n] = now
      OBVIOUS
    <2>1. CASE n <= Len(rows)
      BY <1>2, <1>6, <2>1
    <2>2. CASE ~(n <= Len(rows))
      <3>1. n - Len(rows) \in 1..k
        BY <1>2, <1>3, <2>2
      <3> QED  BY <1>5, <1>6, <2>2, <3>1
    <2> QED  BY <2>1, <2>2
  <1>8. QueryType'
    <2>1. PICK V : TypedWith(V)
      BY DEF QueryInv, QueryType
    <2>2. TypedWith(V)'
      BY <1>1, <2>1 DEF TypedWith, empty_graph_state
    <2> QED  BY <1>1, <1>6, <2>2 DEF QueryInv, QueryType
  <1>9. RoomInv'
    BY <1>1 DEF QueryInv, RoomInv, Unheld
  <1>10. \A x : x.asked \in Nat /\ Fresh(x) => Fresh(x)'
    <2> SUFFICES ASSUME NEW x, x.asked \in Nat, Fresh(x), NEW r \in 1..Len(rows'), r > x.seen
                 PROVE  x.asked <= now /\ stored_at'[r] >= x.asked
      <3>1. DOMAIN stored_at' = 1..Len(rows')
        BY <1>6
      <3> QED  BY <1>1, <3>1 DEF Fresh
    <2>1. DOMAIN stored_at = 1..Len(rows)
      BY <1>1
    <2> QED  BY <1>1, <1>7, <2>1 DEF Fresh
  <1>11. \A n \in DOMAIN cache : cache[n].asked \in Nat
    <2>1. PICK V : cache \in Seq(Items(V))
      BY DEF QueryInv, QueryType, TypedWith
    <2>2. \A n \in DOMAIN cache : cache[n] \in Items(V)
      BY <2>1
    <2> QED  BY <2>2 DEF Items
  <1>12. \A t \in Threads : req[t].asked \in Nat
    <2>1. PICK V : req \in [Threads -> Requests(V)]
      BY DEF QueryInv, QueryType, TypedWith
    <2> QED  BY <2>1 DEF Requests
  <1>13. (\A n \in DOMAIN cache : Fresh(cache[n])') /\ \A t \in Threads : Fresh(req[t]) => Fresh(req[t])'
    BY <1>1, <1>10, <1>11, <1>12 DEF QueryInv, FreshInv
  <1>14. FreshInv'
    BY <1>1, <1>13 DEF QueryInv, FreshInv, Fresh
  <1> QED  BY <1>8, <1>9, <1>14 DEF QueryInv

\* The cache starts empty.
LEMMA QueryInit == InitQueries => IInv /\ QueryInv
  <1> SUFFICES ASSUME InitQueries PROVE IInv /\ QueryInv
    OBVIOUS
  <1>1. IInv
    BY InitInv DEF InitQueries
  <1>2. /\ now = 0 /\ cache = <<>> /\ stored_at = <<>> /\ step = [t \in Threads |-> "idle"]
        /\ req = [t \in Threads |-> NoRequest] /\ rows = <<>>
    BY DEF InitQueries, Init
  <1>3. QueryType
    <2> DEFINE V == {empty_graph_state}
    <2>1. NoRequest \in Requests(V)
      BY DEF NoRequest, Requests
    <2>2. TypedWith(V)
      BY <1>2, <2>1 DEF TypedWith
    <2>3. step \in [Threads -> Steps]
      BY <1>2 DEF Steps
    <2> QED  BY <1>2, <2>2, <2>3 DEF QueryType
  <1>4. RoomInv
    <2>1. Unheld = {}
      BY <1>2 DEF Unheld, KeysOf
    <2> QED  BY <1>2, <2>1, FS_EmptySet, CacheAssumption DEF RoomInv, Distinct
  <1>5. FreshInv
    BY <1>2 DEF FreshInv
  <1> QED  BY <1>1, <1>3, <1>4, <1>5 DEF QueryInv

\* Every step of the API and of the workers keeps the invariants.
LEMMA QueryNext == IInv /\ QueryInv /\ [NextQueries]_query_vars => IInv' /\ QueryInv'
  <1> SUFFICES ASSUME IInv, QueryInv, [NextQueries]_query_vars PROVE IInv' /\ QueryInv'
    OBVIOUS
  <1>1. ASSUME UNCHANGED vars PROVE IInv' /\ rows' = rows
    BY <1>1, StutterInv DEF vars
  <1>2. ASSUME NEW t \in Threads, get_state(t) PROVE IInv' /\ QueryInv'
    <2>1. UNCHANGED vars /\ UNCHANGED <<now, stored_at>>
      BY <1>2 DEF get_state
    <2>2. UNCHANGED <<now, stored_at, rows>> /\ IInv'
      BY <1>1, <2>1
    <2>3. TypeOK
      BY DEF IInv
    <2> QED  BY <1>2, <2>2, <2>3, LookupInv, PopExpiredInv, QueriesInv, AssignInv, MoveToEndInv,
                EvictInv DEF get_state
  <1>3. CASE Tick
    <2>1. UNCHANGED vars
      BY <1>3 DEF Tick
    <2> QED  BY <1>1, <1>3, <2>1, TickInv
  <1>4. CASE Storage
    <2>1. Next
      BY <1>4 DEF Storage
    <2> QED  BY <1>4, <2>1, NextInv, StorageInv
  <1>5. CASE UNCHANGED query_vars
    <2>1. UNCHANGED vars /\ UNCHANGED <<now, cache, step, req, stored_at>>
      BY <1>5 DEF query_vars, api
    <2>2. rows' = rows /\ IInv'
      BY <1>1, <2>1
    <2>3. PICK V : TypedWith(V)
      BY DEF QueryInv, QueryType
    <2>4. TypedWith(V)'
      BY <2>1, <2>3 DEF TypedWith, empty_graph_state
    <2> QED  BY <2>1, <2>2, <2>4 DEF QueryInv, QueryType, RoomInv, Unheld, FreshInv, Fresh
  <1> QED  BY <1>2, <1>3, <1>4, <1>5 DEF NextQueries

\* The cache holds one item for a time and no more items than it may, but for those whose
\* threads are still in ReconstructionCache.set, however the calls of any number of threads
\* on the unlocked OrderedDict interleave (state.py, ReconstructionCache).
THEOREM CacheStaysBounded == SpecQueries => []CacheIsBounded
  BY QueryInit, QueryNext, RoomBounds, PTL DEF SpecQueries

\* An answer from the cache lacks no change that had been stored for longer than the ttl when
\* the request came, but for the time its reconstruction took (state.py, the created time
\* of an item is that of the end of its reconstruction).
THEOREM CachedAnswersAreFresh == SpecQueries => []AnswersAreFresh
  BY QueryInit, QueryNext, FreshAnswers, PTL DEF SpecQueries

-----------------------------------------------------------------------------
(* What an answer shows.  Where the events are in order, a graph is told   *)
(* by a number: how many of them it shows.                                 *)

Topic == CHOOSE p \in Partitions : TRUE
Service == CHOOSE i \in Instances : TRUE

\* One partition of graph-changes, whose timestamps grow, and one instance.
InOrder == Partitions = {Topic} /\ Instances = {Service} /\ MinTimeStep >= 1

events == changes[Topic]

\* n is the greatest of S, or 0 when there is none.
Newest(n, S) == n \in {0} \cup S /\ \A m \in S : m <= n

Touching(k, o) == {q \in 1..o : k \in events[q].keys}

\* g is the graph made of the first o events.
Shows(g, o) == g \in Graph /\ \A k \in Keys : Newest(g[k], Touching(k, o))

OrderedInv ==
    /\ Len(events) = producer.produced
    /\ \A o \in 1..Len(events) : events[o].seq = o /\ events[o].time <= producer.latest_time
    /\ \A o, q \in 1..Len(events) : o < q => events[o].time < events[q].time

\* A retry doubles a row in its place.
RowsInv ==
    /\ \A r \in 1..Len(rows) : rows[r].off <= position[Topic]
    /\ \A r, s \in 1..Len(rows) : r < s => rows[r].off <= rows[s].off

\* The events that the worker has stored and folded.
Folded == IF pc[Service] = "store_change" THEN position[Topic] - 1 ELSE position[Topic]

FoldInv ==
    /\ pc[Service] # "store_external"
    /\ insert_failed = {} =>
         /\ Shows(mgr[Service].current_state, Folded)
         /\ \A s \in snapshots : \E o \in 1..Folded :
                s.snapshot_time = events[o].time /\ Shows(s.graph_state, o)

WorkerInv == OrderedInv /\ RowsInv /\ FoldInv

\* Where the only worker is, and what it has in hand.
LEMMA TheWorker ==
  ASSUME InOrder, IInv
  PROVE  /\ Topic \in Partitions /\ Topic \in AllPartitions /\ Topic # SnapshotPartition
         /\ Service \in Instances /\ \A p \in AllPartitions : p = Topic \/ p = SnapshotPartition
         /\ events \in Seq(Event) /\ Len(events) \in Nat
         /\ position[Topic] \in 0..Len(events) /\ Folded \in 0..position[Topic]
         /\ pc[Service] \in {"store_change", "snapshot"} =>
              /\ msg[Service] = [part |-> Topic, off |-> position[Topic]]
              /\ EventOf(msg[Service]) = events[position[Topic]] /\ position[Topic] \in 1..Len(events)
         /\ mgr[Service] \in Manager /\ snapshots \subseteq Snapshot
         /\ rows \in Seq(Row) /\ Len(rows) \in Nat
         /\ \A r \in 1..Len(rows) : /\ rows[r].off \in Nat \ {0}
                                    /\ EventOf(rows[r]) = events[rows[r].off]
         /\ crashes \in Nat /\ producer.produced \in Nat /\ producer.latest_time \in Nat
  <1>1. /\ Topic \in Partitions /\ Topic \in AllPartitions /\ Topic # SnapshotPartition
        /\ Service \in Instances /\ \A p \in AllPartitions : p = Topic \/ p = SnapshotPartition
    BY PartitionsAssumption DEF InOrder, AllPartitions
  <1>2. events \in Seq(Event) /\ Len(events) \in Nat
    BY <1>1 DEF IInv, TypeOK, TopicsType, events
  <1>3. position[Topic] \in 0..Len(events)
    <2>1. position[Topic] \in Nat /\ position[Topic] <= Len(events)
      BY <1>1 DEF IInv, TypeOK, OffsetsType, PositionInv, events
    <2> QED  BY <1>2, <2>1
  <1>4. ASSUME pc[Service] \in {"store_change", "snapshot"}
        PROVE  /\ msg[Service] = [part |-> Topic, off |-> position[Topic]]
               /\ EventOf(msg[Service]) = events[position[Topic]] /\ position[Topic] \in 1..Len(events)
    <2>1. msg[Service].part = Topic /\ msg[Service].off = position[Topic]
      BY <1>1, <1>4 DEF IInv, InHandInv, InOrder
    <2>2. committed[Topic] < position[Topic] /\ committed[Topic] \in Nat
      BY <1>1, <1>4, <2>1 DEF IInv, InHandInv, TypeOK, OffsetsType
    <2>3. msg[Service] \in [part : AllPartitions, off : Nat]
      BY <1>1 DEF IInv, TypeOK, WorkersType
    <2>4. msg[Service] = [part |-> Topic, off |-> position[Topic]]
      BY <2>1, <2>3
    <2>5. position[Topic] \in 1..Len(events)
      BY <1>2, <1>3, <2>2
    <2> QED  BY <2>1, <2>4, <2>5 DEF EventOf, events
  <1>5. mgr[Service] \in Manager /\ snapshots \subseteq Snapshot
    BY <1>1 DEF IInv, TypeOK, WorkersType, TablesType
  <1>6. /\ rows \in Seq(Row) /\ Len(rows) \in Nat
        /\ \A r \in 1..Len(rows) : /\ rows[r].off \in Nat \ {0}
                                   /\ EventOf(rows[r]) = events[rows[r].off]
    <2>1. rows \in Seq(Row)
      BY DEF IInv, TypeOK, TablesType, Row
    <2>2. \A r \in 1..Len(rows) : rows[r] \in Row
      BY <2>1
    <2>3. \A r \in 1..Len(rows) : rows[r].part = Topic /\ rows[r].off \in Nat \ {0}
      BY <2>2 DEF Row, InOrder
    <2> QED  BY <2>1, <2>3 DEF EventOf, events
  <1>7. Folded \in 0..position[Topic]
    <2>1. position[Topic] \in Nat /\ (pc[Service] = "store_change" => position[Topic] >= 1)
      BY <1>2, <1>3, <1>4
    <2> QED  BY <2>1 DEF Folded
  <1>8. crashes \in Nat /\ producer.produced \in Nat /\ producer.latest_time \in Nat
    BY BoundsAssumption DEF IInv, TypeOK, HistoryType, TopicsType
  <1> QED  BY <1>1, <1>2, <1>3, <1>4, <1>5, <1>6, <1>7, <1>8

\* An event that is folded has a row.
LEMMA FoldedIsStored ==
  ASSUME InOrder, IInv, insert_failed = {}, NEW o \in 1..Folded
  PROVE  \E r \in 1..Len(rows) : rows[r].off = o
  <1>1. o \in 1..position[Topic]
    BY TheWorker
  <1>2. CASE Handled(Topic, o)
    <2>1. PICK r \in 1..Len(rows) : rows[r] = [part |-> Topic, off |-> o]
      BY <1>2 DEF Handled, Stored
    <2> QED  BY <2>1
  <1>3. CASE pc[Owner[Topic]] = "store_change" /\ msg[Owner[Topic]] = [part |-> Topic, off |-> o]
    <2>1. Owner[Topic] = Service
      BY TheWorker, OwnerAssumption DEF InOrder
    <2>2. msg[Service].off = o /\ msg[Service] = [part |-> Topic, off |-> position[Topic]]
      BY <1>3, <2>1, TheWorker
    <2>3. o = position[Topic] /\ Folded = position[Topic] - 1
      BY <1>3, <2>1, <2>2 DEF Folded
    <2>4. position[Topic] \in Nat
      BY TheWorker
    <2> QED  BY <2>3, <2>4
  <1> QED  BY <1>1, <1>2, <1>3, TheWorker DEF IInv, FetchedInv

\* What the first o events make depends on them only.
LEMMA ShowsKept ==
  ASSUME NEW o \in Nat, \A q \in 1..o : changes'[Topic][q] = changes[Topic][q], NEW g
  PROVE  Shows(g, o)' <=> Shows(g, o)
  <1>1. ASSUME NEW k PROVE Touching(k, o)' = Touching(k, o)
    BY DEF Touching, events
  <1> QED  BY <1>1 DEF Shows

\* One event more.
LEMMA ShowsOneMore ==
  ASSUME InOrder, IInv, OrderedInv, NEW o \in 1..Len(events), NEW g, Shows(g, o - 1)
  PROVE  Shows(apply_change_event(g, events[o]), o)
  <1>1. events[o] \in Event /\ events[o].seq = o /\ o \in Nat /\ o - 1 \in Nat
    BY TheWorker DEF OrderedInv
  <1> DEFINE h == apply_change_event(g, events[o])
  <1>2. h \in Graph
    BY <1>1, ApplyType DEF Shows
  <1>3. ASSUME NEW k \in Keys PROVE Newest(h[k], Touching(k, o))
    <2>1. h[k] = IF k \in events[o].keys THEN o ELSE g[k]
      BY <1>1 DEF apply_change_event
    <2>2. \A q \in 1..o : q \in 1..(o - 1) \/ q = o
      BY <1>1
    <2>3. \A q \in 1..(o - 1) : q \in 1..o
      BY <1>1
    <2>4. Newest(g[k], Touching(k, o - 1))
      BY DEF Shows
    <2> HIDE DEF h
    <2>5. CASE k \in events[o].keys
      <3>1. o \in Touching(k, o) /\ \A q \in Touching(k, o) : q <= o
        BY <1>1, <2>5 DEF Touching
      <3> QED  BY <2>1, <2>5, <3>1 DEF Newest
    <2>6. CASE k \notin events[o].keys
      <3>1. Touching(k, o) = Touching(k, o - 1)
        BY <2>2, <2>3, <2>6 DEF Touching
      <3> QED  BY <2>1, <2>4, <2>6, <3>1
    <2> QED  BY <2>5, <2>6
  <1> QED  BY <1>2, <1>3 DEF Shows

\* What a step of the worker keeps that publishes no event, stores a row only in its
\* place, and folds what it stores.
LEMMA WorkerKeeps ==
  ASSUME InOrder, IInv, WorkerInv, changes' = changes, producer' = producer,
         position'[Topic] \in Nat, position'[Topic] >= position[Topic],
         \/ rows' = rows
         \/ rows' = Append(rows, msg[Service]) /\ pc[Service] = "store_change",
         pc'[Service] # "store_external", insert_failed \subseteq insert_failed',
         Folded' \in Int, Folded' >= Folded,
         insert_failed' = {} =>
            /\ Shows(mgr'[Service].current_state, Folded')
            /\ \A s \in snapshots' : s \in snapshots \/ (pc[Service] = "snapshot" /\ s = SnapshotOf(Service))
  PROVE  WorkerInv'
  <1>1. events' = events /\ \A g, o : Shows(g, o)' <=> Shows(g, o)
    BY DEF events, Shows, Touching
  <1>2. OrderedInv'
    BY <1>1 DEF WorkerInv, OrderedInv
  <1>3. /\ rows \in Seq(Row) /\ Len(rows) \in Nat /\ position[Topic] \in Nat
        /\ \A r \in 1..Len(rows) : rows[r].off \in Nat \ {0}
        /\ Folded \in 0..position[Topic]
        /\ pc[Service] \in {"store_change", "snapshot"} =>
             /\ msg[Service] = [part |-> Topic, off |-> position[Topic]]
             /\ EventOf(msg[Service]) = events[position[Topic]] /\ position[Topic] \in 1..Len(events)
        /\ Topic \in Partitions
    BY TheWorker
  <1>4. RowsInv'
    <2>1. CASE rows' = rows
      <3>1. \A r \in 1..Len(rows) : rows[r].off <= position'[Topic]
        BY <1>3 DEF WorkerInv, RowsInv
      <3> QED  BY <2>1, <3>1 DEF WorkerInv, RowsInv
    <2>2. CASE rows' = Append(rows, msg[Service]) /\ pc[Service] = "store_change"
      <3>1. msg[Service].off = position[Topic] /\ msg[Service] \in Row
        <4>1. position[Topic] \in Nat \ {0}
          BY <1>3, <2>2
        <4> QED  BY <1>3, <2>2, <4>1 DEF Row
      <3>2. /\ Len(rows') = Len(rows) + 1 /\ rows'[Len(rows) + 1].off = position[Topic]
            /\ \A r \in 1..Len(rows) : rows'[r] = rows[r]
        BY <1>3, <2>2, <3>1
      <3>3. \A r \in 1..Len(rows') : r \in 1..Len(rows) \/ r = Len(rows) + 1
        BY <1>3, <3>2
      <3>4. \A r \in 1..Len(rows) : rows[r].off <= position[Topic]
        BY DEF WorkerInv, RowsInv
      <3>5. \A r \in 1..Len(rows') : rows'[r].off <= position'[Topic]
        <4> SUFFICES ASSUME NEW r \in 1..Len(rows') PROVE rows'[r].off <= position'[Topic]
          OBVIOUS
        <4>1. rows'[r].off <= position[Topic] /\ rows'[r].off \in Nat
          BY <1>3, <3>2, <3>3, <3>4
        <4> QED  BY <1>3, <4>1
      <3>6. ASSUME NEW r \in 1..Len(rows'), NEW s \in 1..Len(rows'), r < s
            PROVE  rows'[r].off <= rows'[s].off
        <4>1. r \in 1..Len(rows)
          BY <1>3, <3>2, <3>6
        <4>2. CASE s \in 1..Len(rows)
          BY <3>2, <3>6, <4>1, <4>2 DEF WorkerInv, RowsInv
        <4>3. CASE s = Len(rows) + 1
          BY <3>2, <3>4, <4>1, <4>3
        <4> QED  BY <3>3, <4>2, <4>3
      <3> QED  BY <3>5, <3>6 DEF RowsInv
    <2> QED  BY <2>1, <2>2
  <1>5. FoldInv'
    <2> SUFFICES ASSUME insert_failed' = {}
                 PROVE  /\ Shows(mgr'[Service].current_state, Folded')
                        /\ \A s \in snapshots' : \E o \in 1..Folded' :
                               s.snapshot_time = events[o].time /\ Shows(s.graph_state, o)
      BY <1>1 DEF FoldInv
    <2>1. insert_failed = {}
      OBVIOUS
    <2>2. \A o \in 1..Folded : o \in 1..Folded'
      BY <1>3
    <2>3. ASSUME NEW s \in snapshots
          PROVE  \E o \in 1..Folded' : s.snapshot_time = events[o].time /\ Shows(s.graph_state, o)
      BY <2>1, <2>2 DEF WorkerInv, FoldInv
    <2>4. ASSUME pc[Service] = "snapshot"
          PROVE  \E o \in 1..Folded' : SnapshotOf(Service).snapshot_time = events[o].time
                                       /\ Shows(SnapshotOf(Service).graph_state, o)
      <3>1. Folded = position[Topic] /\ position[Topic] \in 1..Folded'
        BY <1>3, <2>4 DEF Folded
      <3>2. Shows(mgr[Service].current_state, Folded)
        BY <2>1 DEF WorkerInv, FoldInv
      <3> QED  BY <1>3, <2>4, <3>1, <3>2 DEF SnapshotOf
    <2> QED  BY <2>3, <2>4
  <1> QED  BY <1>2, <1>4, <1>5 DEF WorkerInv

\* A new event is the newest, and changes no graph of the older ones.
LEMMA PublishOrdered ==
  ASSUME InOrder, IInv, WorkerInv, NEW p \in Partitions, NEW t \in 1..MaxTime, NEW ks \in SUBSET Keys,
         Publish(p, t, ks)
  PROVE  WorkerInv' /\ Folded' = Folded
  <1> DEFINE L == Len(events)
             e == [seq |-> L + 1, time |-> t, keys |-> ks]
  <1>1. /\ events \in Seq(Event) /\ L \in Nat /\ producer.produced = L /\ producer.latest_time \in Nat
        /\ position[Topic] \in 0..L /\ Folded \in 0..position[Topic]
        /\ p = Topic /\ MinTimeStep >= 1 /\ MinTimeStep \in Int /\ t \in Nat \ {0}
    BY TheWorker, BoundsAssumption DEF WorkerInv, OrderedInv, InOrder
  <1>2. t >= producer.latest_time + MinTimeStep /\ t > producer.latest_time
    BY <1>1 DEF Publish
  <1>3. producer' = [produced |-> L + 1, latest_time |-> t]
    BY <1>1, <1>2 DEF Publish
  <1>4. events' = Append(events, e)
    BY <1>1 DEF Publish, IInv, TypeOK, TopicsType, events
  <1>5. e \in Event
    BY <1>1 DEF Event
  <1> HIDE DEF e
  <1>6. Len(events') = L + 1 /\ events'[L + 1] = e /\ \A o \in 1..L : events'[o] = events[o]
    BY <1>1, <1>4, <1>5
  <1>7. \A o \in 1..(L + 1) : o \in 1..L \/ o = L + 1
    BY <1>1
  <1>8. \A o \in 1..L : events[o] \in Event /\ events[o].seq = o /\ events[o].time \in Nat
                        /\ events[o].time <= producer.latest_time
    <2>1. \A o \in 1..L : events[o] \in Event
      BY <1>1
    <2>2. \A o \in 1..L : events[o].time \in Nat
      BY <2>1 DEF Event
    <2> QED  BY <2>1, <2>2 DEF WorkerInv, OrderedInv
  <1>9. e.seq = L + 1 /\ e.time = t
    BY DEF e
  <1> HIDE DEF L
  <1>10. \A o \in 1..L : events[o].time < t
    BY <1>1, <1>2, <1>8
  <1>11. OrderedInv'
    <2>1. \A o \in 1..(L + 1) : events'[o].seq = o /\ events'[o].time <= t
      <3>1. \A o \in 1..L : events[o].time <= t
        BY <1>1, <1>8, <1>10
      <3>2. t <= t
        BY <1>1
      <3> QED  BY <1>6, <1>7, <1>8, <1>9, <3>1, <3>2
    <2>2. ASSUME NEW o \in 1..(L + 1), NEW q \in 1..(L + 1), o < q
          PROVE  events'[o].time < events'[q].time
      <3>1. o \in 1..L
        BY <1>1, <2>2
      <3>2. CASE q \in 1..L
        BY <1>6, <2>2, <3>1, <3>2 DEF WorkerInv, OrderedInv, L
      <3>3. CASE q = L + 1
        BY <1>6, <1>9, <1>10, <3>1, <3>3
      <3> QED  BY <1>7, <3>2, <3>3
    <2> QED  BY <1>3, <1>6, <2>1, <2>2 DEF OrderedInv
  <1>12. UNCHANGED <<pc, position, rows, mgr, snapshots, insert_failed>>
    BY DEF Publish
  <1>13. RowsInv' /\ Folded' = Folded
    BY <1>12 DEF WorkerInv, RowsInv, Folded
  <1>14. \A o \in 1..L : events'[o] = events[o]
    BY <1>6
  <1>15. ASSUME NEW o \in 0..L, NEW g PROVE Shows(g, o)' <=> Shows(g, o)
    <2>1. o \in Nat /\ \A q \in 1..o : q \in 1..L
      BY <1>1
    <2>2. \A q \in 1..o : changes'[Topic][q] = changes[Topic][q]
      BY <1>14, <2>1 DEF events
    <2> QED  BY <2>1, <2>2, ShowsKept
  <1>16. Folded \in 0..L /\ \A o \in 1..Folded : o \in 0..L /\ o \in 1..L
    BY <1>1
  <1>17. FoldInv'
    <2>1. PICK G : G = mgr[Service].current_state
      OBVIOUS
    <2>2. PICK F \in 0..L : F = Folded
      BY <1>16
    <2>3. Shows(G, F)' <=> Shows(G, F)
      BY <1>15
    <2>4. Shows(mgr[Service].current_state, Folded)' <=> Shows(mgr[Service].current_state, Folded)
      <3>1. mgr'[Service].current_state = G /\ Folded' = F
        BY <1>12, <1>13, <2>1, <2>2
      <3> QED  BY <2>1, <2>2, <2>3, <3>1 DEF Shows, Touching
    <2>5. ASSUME NEW s, NEW o \in 1..Folded, s.snapshot_time = events[o].time, Shows(s.graph_state, o)
          PROVE  s.snapshot_time = events'[o].time /\ Shows(s.graph_state, o)'
      BY <1>14, <1>15, <1>16, <2>5
    <2>6. insert_failed' = {} => \A s \in snapshots : \E o \in 1..Folded :
              s.snapshot_time = events'[o].time /\ Shows(s.graph_state, o)'
      BY <1>12, <2>5 DEF WorkerInv, FoldInv
    <2> QED  BY <1>12, <1>13, <2>4, <2>6 DEF WorkerInv, FoldInv
  <1> QED  BY <1>11, <1>13, <1>17 DEF WorkerInv

\* The worker takes the next event, or a snapshot of its own.
LEMMA ConsumeOrdered ==
  ASSUME InOrder, IInv, WorkerInv, NEW i \in Instances, NEW p \in AllPartitions, Consume(i, p)
  PROVE  WorkerInv' /\ Folded' \in Int /\ Folded' >= Folded
  <1>1. /\ i = Service /\ pc[Service] = "consume" /\ rows' = rows /\ mgr' = mgr /\ snapshots' = snapshots
        /\ changes' = changes /\ producer' = producer /\ insert_failed' = insert_failed
        /\ position' = [position EXCEPT ![p] = @ + 1] /\ position[p] < LogLength(p)
        /\ pc' = [pc EXCEPT ![i] = IF p \in Partitions THEN "store_change"
                                   ELSE IF OwnSnapshot(i, position[p] + 1) THEN "commit"
                                   ELSE "store_external"]
    BY DEF Consume, InOrder
  <1>2. /\ Topic \in Partitions /\ Topic # SnapshotPartition /\ Service \in Instances
        /\ position[Topic] \in Nat /\ Topic \in AllPartitions /\ (p = Topic \/ p = SnapshotPartition)
        /\ SnapshotPartition \in AllPartitions
    BY TheWorker DEF AllPartitions
  <1>3. position \in [AllPartitions -> Nat] /\ pc \in [Instances -> {pc[j] : j \in Instances}]
    BY DEF IInv, TypeOK, OffsetsType, WorkersType
  <1>4. Folded = position[Topic] /\ Shows(mgr[Service].current_state, Folded) = Shows(mgr[Service].current_state, position[Topic])
    BY <1>1 DEF Folded
  <1>5. /\ position'[Topic] \in Nat /\ position'[Topic] >= position[Topic]
        /\ pc'[Service] # "store_external" /\ Folded' = Folded
    <2>1. CASE p = Topic
      <3>1. position'[Topic] = position[Topic] + 1 /\ pc'[Service] = "store_change"
        BY <1>1, <1>2, <1>3, <2>1
      <3> QED  BY <1>2, <1>4, <3>1 DEF Folded
    <2>2. CASE p = SnapshotPartition
      <3>1. OwnSnapshot(Service, position[p] + 1)
        <4> DEFINE Message == [source_instance : Instances, snapshot : Snapshot]
        <4>1. snaps \in Seq(Message) /\ position[p] \in Nat /\ position[p] < Len(snaps)
          BY <1>1, <1>2, <1>3, <2>2, PartitionsAssumption DEF IInv, TypeOK, TopicsType, LogLength
        <4> HIDE DEF Message
        <4>2. snaps[position[p] + 1] \in Message
          BY <4>1
        <4> QED  BY <4>2 DEF Message, OwnSnapshot, InOrder
      <3>2. position'[Topic] = position[Topic] /\ pc'[Service] = "commit"
        BY <1>1, <1>2, <1>3, <2>2, <3>1, PartitionsAssumption
      <3> QED  BY <1>2, <1>4, <3>2 DEF Folded
    <2> QED  BY <1>2, <2>1, <2>2
  <1>6. Folded \in Nat
    BY <1>2, <1>4
  <1>7. insert_failed' = {} =>
            /\ Shows(mgr'[Service].current_state, Folded')
            /\ \A s \in snapshots' : s \in snapshots \/ (pc[Service] = "snapshot" /\ s = SnapshotOf(Service))
    BY <1>1, <1>5 DEF WorkerInv, FoldInv
  <1>8. WorkerInv'
    BY <1>1, <1>5, <1>6, <1>7, WorkerKeeps
  <1> QED  BY <1>5, <1>6, <1>8

\* The worker stores the event and folds it.
LEMMA StoreChangeOrdered ==
  ASSUME InOrder, IInv, WorkerInv, NEW i \in Instances, StoreChange(i)
  PROVE  WorkerInv' /\ Folded' \in Int /\ Folded' >= Folded
  <1>1. /\ i = Service /\ pc[Service] = "store_change" /\ rows' = Append(rows, msg[Service])
        /\ snapshots' = snapshots /\ position' = position
        /\ changes' = changes /\ producer' = producer /\ insert_failed' = insert_failed
        /\ mgr' = [mgr EXCEPT ![i] = on_change_event(mgr[i], Len(rows) + 1, EventOf(msg[i]))]
    BY DEF StoreChange, InOrder
  <1>2. /\ Service \in Instances /\ position[Topic] \in Nat /\ position[Topic] \in 1..Len(events)
        /\ EventOf(msg[Service]) = events[position[Topic]]
    BY <1>1, TheWorker
  <1>3. mgr \in [Instances -> Manager] /\ DOMAIN pc = Instances
    BY DEF IInv, TypeOK, WorkersType
  <1>4. pc'[Service] \in {"snapshot", "commit"}
    BY <1>1, <1>2, <1>3 DEF StoreChange
  <1>5. Folded = position[Topic] - 1 /\ Folded' = position[Topic]
    BY <1>1, <1>4 DEF Folded
  <1>6. ASSUME insert_failed = {} PROVE Shows(mgr'[Service].current_state, position[Topic])
    <2>1. Shows(mgr[Service].current_state, position[Topic] - 1)
      BY <1>5, <1>6 DEF WorkerInv, FoldInv
    <2>2. mgr'[Service].current_state = apply_change_event(mgr[Service].current_state, events[position[Topic]])
      BY <1>1, <1>2, <1>3 DEF on_change_event
    <2> QED  BY <1>2, <2>1, <2>2, ShowsOneMore DEF WorkerInv
  <1>7. insert_failed' = {} =>
            /\ Shows(mgr'[Service].current_state, Folded')
            /\ \A s \in snapshots' : s \in snapshots \/ (pc[Service] = "snapshot" /\ s = SnapshotOf(Service))
    BY <1>1, <1>5, <1>6
  <1>8. Folded' \in Int /\ Folded' >= Folded /\ position'[Topic] \in Nat /\ position'[Topic] >= position[Topic]
    BY <1>1, <1>2, <1>5
  <1>9. pc'[Service] # "store_external" /\ insert_failed \subseteq insert_failed'
    BY <1>1, <1>4
  <1>10. WorkerInv'
    BY <1>1, <1>7, <1>8, <1>9, WorkerKeeps
  <1> QED  BY <1>8, <1>10

\* The other steps fold nothing.
LEMMA OtherOrdered ==
  ASSUME InOrder, IInv, WorkerInv, NEW i \in Instances,
         CreateSnapshot(i) \/ (\E cutoff \in PruneCutoffs : PruneSnapshots(i, cutoff)) \/ Commit(i)
           \/ CommitFails(i) \/ (\E landed \in BOOLEAN : AttemptFails(i, landed))
  PROVE  WorkerInv' /\ Folded' \in Int /\ Folded' >= Folded
  <1>1. /\ i = Service /\ position' = position /\ changes' = changes /\ producer' = producer
        /\ rows' = rows \/ (rows' = Append(rows, msg[Service]) /\ pc[Service] = "store_change")
        /\ insert_failed \subseteq insert_failed'
    BY DEF CreateSnapshot, PruneSnapshots, Commit, CommitFails, AttemptFails, InOrder
  <1>2. /\ Service \in Instances /\ position[Topic] \in Nat
    BY TheWorker
  <1>3. mgr \in [Instances -> Manager] /\ DOMAIN pc = Instances
    BY DEF IInv, TypeOK, WorkersType
  <1>4. mgr'[Service].current_state = mgr[Service].current_state
    BY <1>1, <1>2, <1>3 DEF CreateSnapshot, PruneSnapshots, Commit, CommitFails, AttemptFails
  <1>5. pc'[Service] \in {"prune", "commit", "consume", pc[Service]}
    BY <1>1, <1>2, <1>3 DEF CreateSnapshot, PruneSnapshots, Commit, CommitFails, AttemptFails
  <1>6. pc[Service] # "store_external"
    BY DEF WorkerInv, FoldInv
  <1>7. insert_failed' = {} => (pc'[Service] = "store_change" <=> pc[Service] = "store_change")
    BY <1>1, <1>2, <1>3 DEF CreateSnapshot, PruneSnapshots, Commit, CommitFails, AttemptFails
  <1>8. \A s \in snapshots' : s \in snapshots \/ (pc[Service] = "snapshot" /\ s = SnapshotOf(Service))
    BY <1>1, <1>6 DEF CreateSnapshot, PruneSnapshots, Commit, CommitFails, AttemptFails
  <1>9. Folded' \in Int /\ Folded' >= Folded /\ position'[Topic] \in Nat /\ position'[Topic] >= position[Topic]
    <2>1. pc[Service] # "store_change" => pc'[Service] # "store_change"
      BY <1>5
    <2> QED  BY <1>1, <1>2, <2>1 DEF Folded
  <1>10. insert_failed' = {} => Folded' = Folded /\ insert_failed = {}
    BY <1>1, <1>7 DEF Folded
  <1>11. insert_failed' = {} =>
            /\ Shows(mgr'[Service].current_state, Folded')
            /\ \A s \in snapshots' : s \in snapshots \/ (pc[Service] = "snapshot" /\ s = SnapshotOf(Service))
    BY <1>4, <1>8, <1>10 DEF WorkerInv, FoldInv
  <1>12. pc'[Service] # "store_external"
    BY <1>5, <1>6
  <1>13. WorkerInv'
    BY <1>1, <1>9, <1>11, <1>12, WorkerKeeps
  <1> QED  BY <1>9, <1>13

\* Every step of a worker that does not start anew keeps the order.
LEMMA WorkerStep ==
  ASSUME InOrder, IInv, WorkerInv, Next, crashes' = crashes
  PROVE  WorkerInv' /\ Folded' \in Int /\ Folded' >= Folded
  <1>1. ASSUME NEW i \in Instances, StoreExternal(i) PROVE FALSE
    BY <1>1 DEF StoreExternal, WorkerInv, FoldInv, InOrder
  <1>2. ASSUME NEW i \in Instances, Crash(i) PROVE FALSE
    <2>1. crashes' = crashes + 1 /\ crashes \in Nat
      BY <1>2, TheWorker DEF Crash
    <2> QED  BY <2>1
  <1>3. ASSUME NEW p \in Partitions, NEW t \in 1..MaxTime, NEW ks \in SUBSET Keys \ {{}}, Publish(p, t, ks)
        PROVE  WorkerInv' /\ Folded' \in Int /\ Folded' >= Folded
    <2>1. Folded \in Int /\ ks \in SUBSET Keys
      BY TheWorker
    <2>2. WorkerInv' /\ Folded' = Folded
      BY <1>3, <2>1, PublishOrdered
    <2> QED  BY <2>1, <2>2
  <1> QED  BY <1>1, <1>2, <1>3, ConsumeOrdered, StoreChangeOrdered, OtherOrdered
           DEF Next, Worker, Environment

\* The service starts with nothing in hand.
LEMMA WorkerInit == ASSUME InOrder, Init PROVE WorkerInv
  <1>1. IInv
    BY InitInv
  <1>2. Topic \in Partitions /\ Topic \in AllPartitions /\ Service \in Instances
    BY <1>1, TheWorker
  <1>3. /\ events = <<>> /\ Len(events) = 0 /\ position[Topic] = 0 /\ rows = <<>> /\ snapshots = {}
        /\ pc[Service] = "consume" /\ mgr[Service] = NewManager /\ producer.produced = 0
    BY <1>2 DEF Init, events
  <1>4. OrderedInv /\ RowsInv
    BY <1>3 DEF OrderedInv, RowsInv
  <1>5. Shows(empty_graph_state, 0)
    <2>1. \A k \in Keys : empty_graph_state[k] = 0 /\ Touching(k, 0) = {}
      BY DEF empty_graph_state, Touching
    <2> QED  BY <2>1, EmptyGraphType DEF Shows, Newest
  <1>6. Folded = 0 /\ mgr[Service].current_state = empty_graph_state
    BY <1>3 DEF Folded, NewManager
  <1>7. FoldInv
    BY <1>3, <1>5, <1>6 DEF FoldInv
  <1> QED  BY <1>4, <1>7 DEF WorkerInv

-----------------------------------------------------------------------------
(* The changes that are replayed.                                          *)

\* A set of numbers that is not empty has a least one.
LEMMA Least ==
  ASSUME NEW S \in SUBSET Nat, S # {}
  PROVE  \E n \in S : \A m \in S : n <= m
  <1>1. PICK R : IsWellFoundedOn(R, Nat) /\ \A i, j \in Nat : i < j => <<i, j>> \in R
    <2> DEFINE Q == OpToRel(<, Nat)
    <2>1. IsWellFoundedOn(Q, Nat)
      BY NatLessThanWellFounded
    <2>2. \A i, j \in Nat : i < j => <<i, j>> \in Q
      BY DEF OpToRel
    <2> HIDE DEF Q
    <2> QED  BY <2>1, <2>2, Zenon
  <1>2. PICK n \in S : \A m \in S : ~(<<m, n>> \in R)
    <2>1. IsWellFoundedOn(R, Nat) /\ S \subseteq Nat /\ S # {}
      BY <1>1
    <2> QED  BY ONLY <2>1, WFMin, Zenon
  <1>3. \A m \in S : ~(m < n)
    BY <1>1, <1>2
  <1> QED  BY <1>3

\* A set of numbers that has 0, and n + 1 when it has n, has them all.
LEMMA CountingUp ==
  ASSUME NEW S \in SUBSET Nat, 0 \in S, \A n \in S : n + 1 \in S
  PROVE  S = Nat
  <1> SUFFICES ASSUME Nat \ S # {} PROVE FALSE
    OBVIOUS
  <1>1. PICK n \in Nat \ S : \A m \in Nat \ S : n <= m
    BY Least, Nat \ S \in SUBSET Nat
  <1>2. n # 0 /\ n - 1 \in Nat /\ n - 1 \notin Nat \ S
    BY <1>1
  <1> QED  BY <1>1, <1>2

\* What one row makes of a graph.
Applied(g, ids, id) == IF id \in ids THEN apply_change_event(g, EventOf(rows[id])) ELSE g

\* g has the graphs after each of the first n rows.
Replays(g, n, base, ids) ==
    g = [id \in 0..n |-> CASE id = 0    -> base
                           [] id \in ids -> apply_change_event(g[id - 1], EventOf(rows[id]))
                           [] OTHER     -> g[id - 1]]

\* Replay goes from row to row.
LEMMA ReplaySteps ==
  ASSUME Len(rows) \in Nat, NEW base, NEW ids, 0 \notin ids
  PROVE  \E g : /\ g[0] = base /\ g[Len(rows)] = Replay(base, ids)
                /\ \A n \in 1..Len(rows) : g[n] = Applied(g[n - 1], ids, n)
  <1> DEFINE L == Len(rows)
             Some == {n \in Nat : \E g : Replays(g, n, base, ids)}
             Step(g, n) == IF n = 0 THEN base ELSE Applied(g[n - 1], ids, n)
  <1>1. ASSUME NEW g, NEW n \in Nat
        PROVE  Replays(g, n, base, ids) <=> g = [id \in 0..n |-> Step(g, id)]
    <2>1. \A id \in 0..n : (CASE id = 0    -> base
                              [] id \in ids -> apply_change_event(g[id - 1], EventOf(rows[id]))
                              [] OTHER     -> g[id - 1]) = Step(g, id)
      BY DEF Applied
    <2> HIDE DEF Step
    <2> QED  BY <2>1 DEF Replays
  <1>2. 0 \in Some
    <2> DEFINE g == [id \in 0..0 |-> base]
    <2>1. g = [id \in 0..0 |-> Step(g, id)]
      OBVIOUS
    <2> HIDE DEF g, Step
    <2> QED  BY <1>1, <2>1
  <1>3. ASSUME NEW n \in Some PROVE n + 1 \in Some
    <2>1. PICK g : g = [id \in 0..n |-> Step(g, id)]
      <3> HIDE DEF Step
      <3> QED  BY <1>1
    <2>2. n \in Nat /\ \A id \in 0..n : g[id] = Step(g, id)
      <3> HIDE DEF Step
      <3> QED  BY <2>1
    <2> DEFINE h == [id \in 0..(n + 1) |-> IF id = n + 1 THEN Step(g, n + 1) ELSE g[id]]
    <2>3. ASSUME NEW id \in 0..(n + 1) PROVE h[id] = Step(h, id)
      <3>1. CASE id = n + 1
        <4>1. id # 0 /\ id - 1 = n /\ n \in 0..(n + 1) /\ n # n + 1
          BY <2>2, <3>1
        <4> QED  BY <3>1, <4>1
      <3>2. CASE id # n + 1
        <4>1. id \in 0..n /\ (id # 0 => id - 1 \in 0..(n + 1) /\ id - 1 # n + 1)
          BY <2>2, <3>2
        <4> QED  BY <2>2, <3>2, <4>1
      <3> QED  BY <3>1, <3>2
    <2>4. h = [id \in 0..(n + 1) |-> Step(h, id)]
      <3>1. h = [id \in 0..(n + 1) |-> h[id]]
        OBVIOUS
      <3> HIDE DEF h, Step
      <3> QED  BY <2>3, <3>1
    <2> HIDE DEF h, Step
    <2>5. n + 1 \in Nat
      BY <2>2
    <2> QED  BY <1>1, <2>4, <2>5
  <1>4. Some = Nat
    <2>1. Some \in SUBSET Nat
      OBVIOUS
    <2> HIDE DEF Some
    <2> QED  BY <1>2, <1>3, <2>1, CountingUp
  <1> DEFINE after == CHOOSE g : Replays(g, L, base, ids)
  <1>5. Replays(after, L, base, ids)
    BY <1>4
  <1>6. Replay(base, ids) = after[L]
    BY DEF Replay, Replays
  <1> HIDE DEF after
  <1>7. \A n \in 0..L : after[n] = Step(after, n)
    <2>1. after = [id \in 0..L |-> Step(after, id)]
      <3> HIDE DEF Step
      <3> QED  BY <1>1, <1>5
    <2> HIDE DEF Step
    <2> QED  BY <2>1
  <1>8. after[0] = base /\ \A n \in 1..L : after[n] = Applied(after[n - 1], ids, n)
    <2>1. 0 \in 0..L /\ \A n \in 1..L : n \in 0..L /\ n # 0
      OBVIOUS
    <2> QED  BY <1>7, <2>1
  <1> QED  BY <1>6, <1>8

\* The events of the first n rows up to a time that touch a key.
Seen(k, n, at) ==
    {EventOf(rows[r]).seq : r \in
        {r \in 1..n : EventOf(rows[r]).time <= at /\ k \in EventOf(rows[r]).keys}}

\* The answer is the newest of them, however Max chooses.
LEMMA NewestIsMax ==
  ASSUME NEW g \in Graph, NEW n \in Nat, NEW at,
         \A k \in Keys : Newest(g[k], Seen(k, n, at)) /\ Seen(k, n, at) \subseteq Nat
  PROVE  g = NewestUpTo(n, at)
  <1>1. ASSUME NEW k \in Keys PROVE Max({0} \cup Seen(k, n, at)) = g[k]
    <2> DEFINE S == {0} \cup Seen(k, n, at)
    <2>1. S \subseteq Nat /\ g[k] \in S /\ \A m \in S : m <= g[k]
      BY DEF Newest, Graph
    <2> HIDE DEF S
    <2>2. \A x \in S : (\A m \in S : m <= x) => x = g[k]
      <3> SUFFICES ASSUME NEW x \in S, \A m \in S : m <= x PROVE x = g[k]
        OBVIOUS
      <3>1. x <= g[k] /\ g[k] <= x /\ x \in Nat /\ g[k] \in Nat
        BY <2>1
      <3> QED  BY <3>1
    <2>3. Max(S) = g[k]
      BY <2>1, <2>2 DEF Max
    <2> QED  BY <2>3 DEF S
  <1>2. NewestUpTo(n, at) = [k \in Keys |-> Max({0} \cup Seen(k, n, at))]
    BY DEF NewestUpTo, Seen
  <1>3. g = [k \in Keys |-> g[k]]
    BY DEF Graph
  <1> QED  BY <1>1, <1>2, <1>3

\* A base that shows the first events, all of them stored, and the rows of later ones in
\* the order of their ids, make the graph of all the rows up to the requested time.
LEMMA ReplayIsNewest ==
  ASSUME InOrder, IInv, WorkerInv, NEW o \in 0..Len(events), NEW from, NEW at \in Nat,
         \A q \in 1..o : \E r \in 1..Len(rows) : rows[r].off = q,
         IF o = 0 THEN from = 0 ELSE from = events[o].time /\ from <= at,
         NEW base, Shows(base, o)
  PROVE  Replay(base, fetch_changes_between(from, at)) = NewestUpTo(Len(rows), at)
  <1> DEFINE L == Len(rows)
             ids == fetch_changes_between(from, at)
             Offs(k, n) == {rows[r].off : r \in {r \in 1..n : r \in ids /\ k \in events[rows[r].off].keys}}
             Fine(g, n) == g \in Graph /\ \A k \in Keys : Newest(g[k], Touching(k, o) \cup Offs(k, n))
  <1>1. /\ events \in Seq(Event) /\ Len(events) \in Nat /\ rows \in Seq(Row) /\ L \in Nat
        /\ position[Topic] \in 0..Len(events) /\ DOMAIN rows = 1..L
        /\ \A r \in 1..L : rows[r].off \in Nat \ {0} /\ EventOf(rows[r]) = events[rows[r].off]
    BY TheWorker
  <1>2. \A r \in 1..L : rows[r].off \in 1..Len(events)
    <2>1. \A r \in 1..L : rows[r].off <= position[Topic]
      BY DEF WorkerInv, RowsInv
    <2> QED  BY <1>1, <2>1
  <1>3. \A q \in 1..Len(events) : events[q] \in Event /\ events[q].seq = q /\ events[q].time \in Nat \ {0}
    <2>1. \A q \in 1..Len(events) : events[q] \in Event
      BY <1>1
    <2>2. \A q \in 1..Len(events) : events[q].time \in Nat \ {0}
      BY <2>1 DEF Event
    <2> QED  BY <2>1, <2>2 DEF WorkerInv, OrderedInv
  <1>4. \A q \in 1..Len(events) : events[q].time <= from <=> q <= o
    <2> SUFFICES ASSUME NEW q \in 1..Len(events) PROVE events[q].time <= from <=> q <= o
      OBVIOUS
    <2>1. CASE o = 0
      <3>1. ~(q <= o) /\ from = 0 /\ events[q].time \in Nat \ {0}
        BY <1>3, <2>1
      <3> QED  BY <3>1
    <2>2. CASE o # 0
      <3>1. from = events[o].time /\ o \in 1..Len(events) /\ from \in Nat /\ events[q].time \in Nat
        BY <1>1, <1>3, <2>2
      <3>2. (q < o => events[q].time < from) /\ (o < q => from < events[q].time)
        BY <3>1 DEF WorkerInv, OrderedInv
      <3>3. q \in Nat /\ o \in Nat /\ (q = o => events[q].time = from)
        BY <3>1
      <3> QED  BY <3>1, <3>2, <3>3
    <2> QED  BY <2>1, <2>2
  <1>5. from \in Nat /\ (o # 0 => from <= at)
    BY <1>1, <1>3
  <1>6. \A id : id \in ids <=> /\ id \in 1..L /\ from < events[rows[id].off].time
                               /\ events[rows[id].off].time <= at
    BY <1>1 DEF fetch_changes_between
  <1>7. 0 \notin ids /\ \A id \in ids : id \in 1..L /\ rows[id].off > o /\ events[rows[id].off].time <= at
    <2>1. 0 \notin 1..L
      BY <1>1
    <2>2. ASSUME NEW id \in ids PROVE rows[id].off > o
      <3>1. id \in 1..L /\ rows[id].off \in 1..Len(events) /\ from < events[rows[id].off].time
        BY <1>2, <1>6
      <3>2. events[rows[id].off].time \in Nat
        BY <1>3, <3>1
      <3>3. ~(rows[id].off <= o)
        BY <1>4, <1>5, <3>1, <3>2
      <3> QED  BY <1>1, <3>1, <3>3
    <2> QED  BY <1>6, <2>1, <2>2
  <1> HIDE DEF ids, L
  <1>8. PICK g : /\ g[0] = base /\ g[L] = Replay(base, ids)
                 /\ \A n \in 1..L : g[n] = Applied(g[n - 1], ids, n)
    BY <1>1, <1>7, ReplaySteps DEF L
  <1> DEFINE Good == {n \in Nat : n > L \/ Fine(g[n], n)}
  <1>9. 0 \in Good
    <2>1. \A k : Offs(k, 0) = {}
      OBVIOUS
    <2> HIDE DEF Offs
    <2>2. Fine(base, 0)
      BY <2>1 DEF Shows
    <2> HIDE DEF Fine
    <2> QED  BY <1>8, <2>2
  <1>10. ASSUME NEW n \in Good, n + 1 <= L PROVE Fine(g[n + 1], n + 1)
    <2> DEFINE r == n + 1
               e == events[rows[r].off]
    <2>1. n \in Nat /\ r \in 1..L /\ r \in Nat /\ r - 1 = n /\ ~(n > L)
      BY <1>1, <1>10
    <2>2. g[r] = Applied(g[n], ids, r)
      BY <1>8, <2>1
    <2>3. \A q \in 1..r : q \in 1..n \/ q = r
      BY <2>1
    <2>4. \A q \in 1..n : q \in 1..r /\ q < r /\ q \in 1..L
      BY <1>1, <2>1
    <2>5. Fine(g[n], n)
      BY <2>1
    <2>6. e \in Event /\ e.seq = rows[r].off /\ EventOf(rows[r]) = e /\ rows[r].off \in Nat
      BY <1>1, <1>2, <1>3, <2>1 DEF L
    <2> HIDE DEF r, e
    <2>7. CASE r \in ids
      <3>1. g[r] = apply_change_event(g[n], e) /\ g[n] \in Graph
        BY <2>2, <2>5, <2>6, <2>7 DEF Applied
      <3>2. g[r] \in Graph
        BY <2>6, <3>1, ApplyType
      <3>3. ASSUME NEW k \in Keys PROVE Newest(g[r][k], Touching(k, o) \cup Offs(k, r))
        <4>1. g[r][k] = IF k \in e.keys THEN rows[r].off ELSE g[n][k]
          BY <2>6, <3>1 DEF apply_change_event
        <4>2. CASE k \in e.keys
          <5>1. rows[r].off \in Offs(k, r)
            <6>1. r \in 1..r
              BY <2>1
            <6> QED  BY <2>7, <4>2, <6>1 DEF e
          <5>2. ASSUME NEW q \in Touching(k, o) PROVE q <= rows[r].off
            <6>1. rows[r].off > o /\ q \in 1..o /\ o \in Nat
              BY <1>7, <2>7 DEF Touching
            <6> QED  BY <2>6, <6>1
          <5>3. ASSUME NEW q \in Offs(k, r) PROVE q <= rows[r].off
            <6>1. PICK s \in 1..r : q = rows[s].off
              OBVIOUS
            <6>2. CASE s = r
              BY <2>6, <6>1, <6>2
            <6>3. CASE s # r
              BY <2>1, <2>3, <2>4, <6>1, <6>3 DEF WorkerInv, RowsInv, L
            <6> QED  BY <6>2, <6>3
          <5> HIDE DEF Offs
          <5> QED  BY <4>1, <4>2, <5>1, <5>2, <5>3 DEF Newest
        <4>3. CASE k \notin e.keys
          <5>1. Offs(k, r) = Offs(k, n)
            BY <2>3, <2>4, <4>3 DEF e
          <5> HIDE DEF Offs
          <5> QED  BY <2>5, <4>1, <4>3, <5>1
        <4> QED  BY <4>2, <4>3
      <3> HIDE DEF Offs
      <3> QED  BY <3>2, <3>3 DEF r
    <2>8. CASE r \notin ids
      <3>1. g[r] = g[n]
        BY <2>2, <2>8 DEF Applied
      <3>2. \A k : Offs(k, r) = Offs(k, n)
        BY <2>3, <2>4, <2>8
      <3> HIDE DEF Offs
      <3>3. Fine(g[r], r)
        BY <2>5, <3>1, <3>2
      <3> QED  BY <3>3 DEF r
    <2> QED  BY <2>7, <2>8
  <1>11. Good = Nat
    <2>1. \A n \in Good : n + 1 \in Good
      <3> HIDE DEF Fine
      <3> SUFFICES ASSUME NEW n \in Good PROVE n + 1 > L \/ Fine(g[n + 1], n + 1)
        OBVIOUS
      <3>1. n \in Nat /\ L \in Nat
        BY <1>1
      <3>2. n + 1 > L \/ n + 1 <= L
        BY <3>1
      <3> HIDE DEF Good
      <3> QED  BY <1>10, <3>2
    <2>2. Good \in SUBSET Nat
      OBVIOUS
    <2> HIDE DEF Good
    <2> QED  BY <1>9, <2>1, <2>2, CountingUp
  <1>12. Fine(g[L], L)
    <2>1. L \in Good /\ ~(L > L)
      <3>1. L \in Nat
        BY <1>1
      <3> HIDE DEF Good
      <3> QED  BY <1>11, <3>1
    <2> HIDE DEF Fine
    <2> QED  BY <2>1
  <1>13. ASSUME NEW k \in Keys
         PROVE  Seen(k, L, at) = Touching(k, o) \cup Offs(k, L) /\ Seen(k, L, at) \subseteq Nat
    <2>1. ASSUME NEW r \in 1..L, EventOf(rows[r]).time <= at, k \in EventOf(rows[r]).keys
          PROVE  /\ EventOf(rows[r]).seq = rows[r].off /\ rows[r].off \in Nat
                 /\ rows[r].off \in Touching(k, o) \cup Offs(k, L)
      <3>1. /\ rows[r].off \in 1..Len(events) /\ EventOf(rows[r]) = events[rows[r].off]
            /\ events[rows[r].off].seq = rows[r].off /\ events[rows[r].off].time \in Nat
        BY <1>1, <1>2, <1>3 DEF L
      <3>2. CASE rows[r].off <= o
        <4>1. rows[r].off \in 1..o
          BY <1>1, <3>1, <3>2
        <4> QED  BY <2>1, <3>1, <4>1 DEF Touching
      <3>3. CASE ~(rows[r].off <= o)
        <4>1. r \in ids
          BY <1>4, <1>5, <1>6, <2>1, <3>1, <3>3
        <4> QED  BY <2>1, <3>1, <4>1
      <3> QED  BY <3>1, <3>2, <3>3
    <2>2. ASSUME NEW q \in Touching(k, o) PROVE q \in Seen(k, L, at)
      <3>1. q \in 1..o /\ q \in 1..Len(events) /\ k \in events[q].keys /\ o # 0
        BY <1>1 DEF Touching
      <3>2. PICK r \in 1..L : rows[r].off = q
        BY <3>1 DEF L
      <3>3. EventOf(rows[r]) = events[q] /\ events[q].seq = q /\ events[q].time \in Nat
        BY <1>1, <1>3, <3>1, <3>2 DEF L
      <3>4. events[q].time <= at
        <4>1. events[q].time <= from /\ from <= at
          BY <1>1, <1>4, <1>5, <3>1
        <4> QED  BY <1>5, <3>3, <4>1
      <3> QED  BY <3>1, <3>2, <3>3, <3>4 DEF Seen
    <2>3. ASSUME NEW q \in Offs(k, L) PROVE q \in Seen(k, L, at)
      <3>1. PICK r \in 1..L : r \in ids /\ k \in events[rows[r].off].keys /\ q = rows[r].off
        OBVIOUS
      <3>2. EventOf(rows[r]) = events[q] /\ events[q].seq = q
        BY <1>1, <1>2, <1>3, <3>1 DEF L
      <3>3. events[q].time <= at
        BY <1>7, <3>1
      <3> QED  BY <3>1, <3>2, <3>3 DEF Seen
    <2>4. ASSUME NEW q \in Seen(k, L, at) PROVE q \in Nat /\ q \in Touching(k, o) \cup Offs(k, L)
      <3> HIDE DEF Offs
      <3>1. PICK r \in 1..L : /\ EventOf(rows[r]).time <= at /\ k \in EventOf(rows[r]).keys
                              /\ q = EventOf(rows[r]).seq
        BY DEF Seen
      <3> QED  BY <2>1, <3>1
    <2> HIDE DEF Offs
    <2> QED  BY <2>2, <2>3, <2>4
  <1> HIDE DEF Offs
  <1>14. g[L] \in Graph /\ \A k \in Keys : Newest(g[L][k], Seen(k, L, at)) /\ Seen(k, L, at) \subseteq Nat
    BY <1>12, <1>13
  <1>15. g[L] = NewestUpTo(L, at)
    BY <1>1, <1>14, NewestIsMax
  <1> QED  BY <1>8, <1>15 DEF L, ids

-----------------------------------------------------------------------------
(* The answers.                                                            *)

\* An answer, or an item of the cache, that is what it should be.
Right(x) == x.seen \in 0..Len(rows) /\ x.value = NewestUpTo(x.seen, x.at)

\* The base that a request has found: some folded events, up to the time of the last.
Based(q) ==
    \E o \in 0..Folded :
        /\ Shows(q.value, o)
        /\ IF o = 0 THEN q.from = 0 ELSE q.from = events[o].time /\ q.from <= q.at

Ready(x, q) ==
    /\ x \in {"hit", "set", "assigned", "evict", "evicting"} => Right(q)
    /\ x \in {"expired", "snapshot"} => q.value = empty_graph_state /\ q.from = 0
    /\ x = "changes" => Based(q)

AnswerInv ==
    insert_failed = {} =>
        /\ \A t \in Threads : Ready(step[t], req[t])
        /\ \A n \in DOMAIN cache : Right(cache[n])

\* A step of one thread.
LEMMA ReadyStep ==
  ASSUME QueryInv, AnswerInv, UNCHANGED vars, NEW t \in Threads, NEW x, NEW q,
         step' = [step EXCEPT ![t] = x], req' = [req EXCEPT ![t] = q],
         insert_failed = {} =>
            /\ Ready(x, q)
            /\ \A n \in DOMAIN cache' : Right(cache'[n]) \/ \E m \in DOMAIN cache : cache'[n] = cache[m]
  PROVE  AnswerInv'
  <1>1. DOMAIN step = Threads /\ DOMAIN req = Threads
    BY DEF QueryInv, QueryType, TypedWith
  <1>2. /\ step'[t] = x /\ req'[t] = q
        /\ \A u \in Threads \ {t} : step'[u] = step[u] /\ req'[u] = req[u]
    BY <1>1
  <1>3. /\ rows' = rows /\ changes' = changes /\ insert_failed' = insert_failed
        /\ pc' = pc /\ position' = position
    BY DEF vars
  <1>4. \A n, at : NewestUpTo(n, at)' = NewestUpTo(n, at)
    BY <1>3 DEF NewestUpTo, EventOf
  <1>5. \A y : Right(y)' <=> Right(y)
    BY <1>3, <1>4 DEF Right
  <1>6. \A y : Based(y)' <=> Based(y)
    BY <1>3 DEF Based, Shows, Touching, Folded, events
  <1>7. \A y, z : Ready(y, z)' <=> Ready(y, z)
    BY <1>5, <1>6 DEF Ready, empty_graph_state
  <1>8. ASSUME insert_failed = {}, NEW u \in Threads PROVE Ready(step'[u], req'[u])
    <2>1. CASE u = t
      BY <1>2, <1>8, <2>1
    <2>2. CASE u # t
      BY <1>2, <1>8, <2>2 DEF AnswerInv
    <2> QED  BY <2>1, <2>2
  <1>9. ASSUME insert_failed = {}, NEW n \in DOMAIN cache' PROVE Right(cache'[n])
    BY <1>9 DEF AnswerInv
  <1>10. ASSUME insert_failed = {}, NEW u \in Threads PROVE Ready(step[u], req[u])'
    <2>1. PICK y, z : y = step'[u] /\ z = req'[u]
      OBVIOUS
    <2>2. Ready(y, z)'
      BY <1>7, <1>8, <1>10, <2>1
    <2> QED  BY <2>1, <2>2 DEF Ready, Right, Based, Shows, Touching
  <1>11. ASSUME insert_failed = {}, NEW n \in DOMAIN cache' PROVE Right(cache[n])'
    <2>1. PICK y : y = cache'[n]
      OBVIOUS
    <2>2. Right(y)'
      BY <1>5, <1>9, <1>11, <2>1
    <2> QED  BY <2>1, <2>2 DEF Right
  <1> QED  BY <1>3, <1>10, <1>11 DEF AnswerInv

\* A request that is answered or fails, and a cache that only loses items.
LEMMA EndsReady ==
  ASSUME QueryInv, AnswerInv, UNCHANGED vars, NEW t \in Threads, Ends(t),
         \A n \in DOMAIN cache' : \E m \in DOMAIN cache : cache'[n] = cache[m]
  PROVE  AnswerInv'
  <1>1. step' = [step EXCEPT ![t] = "idle"] /\ req' = [req EXCEPT ![t] = NoRequest]
    BY DEF Ends, Goes
  <1>2. Ready("idle", NoRequest)
    BY DEF Ready
  <1> QED  BY <1>1, <1>2, ReadyStep

\* A request that goes on as it is.
LEMMA GoesReady ==
  ASSUME QueryInv, AnswerInv, UNCHANGED vars, NEW t \in Threads, NEW x, Goes(t, x), req' = req,
         \A n \in DOMAIN cache' : Right(cache'[n]) \/ \E m \in DOMAIN cache : cache'[n] = cache[m],
         Ready(step[t], req[t]) => Ready(x, req[t])
  PROVE  AnswerInv'
  <1>1. step' = [step EXCEPT ![t] = x] /\ req' = [req EXCEPT ![t] = req[t]]
    BY DEF Goes, QueryInv, QueryType, TypedWith
  <1>2. PICK q : q = req[t]
    OBVIOUS
  <1>3. insert_failed = {} => Ready(x, q)
    BY <1>2 DEF AnswerInv
  <1> QED  BY <1>1, <1>2, <1>3, ReadyStep

\* A hit is an item of the cache.
LEMMA LookupReady ==
  ASSUME QueryInv, AnswerInv, UNCHANGED vars, NEW t \in Threads, NEW at \in QueryTimes, Lookup(t, at)
  PROVE  AnswerInv'
  <1>1. \A n \in DOMAIN cache' : \E m \in DOMAIN cache : cache'[n] = cache[m]
    BY DEF Lookup
  <1> DEFINE q == [NoRequest EXCEPT !.at = at]
  <1>2. Ready("snapshot", q) /\ Ready("expired", q)
    BY DEF Ready, NoRequest
  <1>3. CASE step' = [step EXCEPT ![t] = "snapshot"] /\ req' = [req EXCEPT ![t] = q]
    <2> HIDE DEF q
    <2> QED  BY <1>1, <1>2, <1>3, ReadyStep
  <1>4. CASE step' = [step EXCEPT ![t] = "expired"] /\ req' = [req EXCEPT ![t] = q]
    <2> HIDE DEF q
    <2> QED  BY <1>1, <1>2, <1>4, ReadyStep
  <1>5. ASSUME ItemsOf(at) # {}, ~Expired(cache[PlaceOf(at)]) PROVE AnswerInv'
    <2>1. PICK item : item = cache[PlaceOf(at)]
      OBVIOUS
    <2> DEFINE h == [NoRequest EXCEPT !.at = at, !.came = now, !.value = item.value,
                                      !.seen = item.seen, !.asked = item.asked, !.created = item.created]
    <2>2. step' = [step EXCEPT ![t] = "hit"] /\ req' = [req EXCEPT ![t] = h]
      BY <1>5, <2>1 DEF Lookup, Goes
    <2>3. PlaceOf(at) \in ItemsOf(at)
      BY <1>5 DEF PlaceOf
    <2>4. item.at = at /\ (insert_failed = {} => Right(item))
      BY <2>1, <2>3 DEF ItemsOf, AnswerInv
    <2>5. h.at = at /\ h.seen = item.seen /\ h.value = item.value
      BY DEF NoRequest
    <2> HIDE DEF h
    <2>6. insert_failed = {} => Ready("hit", h)
      BY <2>4, <2>5 DEF Ready, Right
    <2> QED  BY <1>1, <2>2, <2>6, ReadyStep
  <1> QED  BY <1>3, <1>4, <1>5 DEF Lookup, Goes

\* The base is the snapshot of an event, or the empty graph.
LEMMA SnapshotReady ==
  ASSUME InOrder, IInv, WorkerInv, QueryInv, AnswerInv, UNCHANGED vars, NEW t \in Threads, QuerySnapshot(t)
  PROVE  AnswerInv'
  <1>1. /\ step' = [step EXCEPT ![t] = "changes"] /\ step[t] = "snapshot"
        /\ \A n \in DOMAIN cache' : \E m \in DOMAIN cache : cache'[n] = cache[m]
    BY DEF QuerySnapshot, Goes
  <1>2. PICK V : req \in [Threads -> Requests(V)]
    BY DEF QueryInv, QueryType, TypedWith
  <1>3. insert_failed = {} => req[t].value = empty_graph_state /\ req[t].from = 0
    BY <1>1 DEF AnswerInv, Ready
  <1>4. Folded \in Nat
    BY TheWorker
  <1>5. ASSUME NEW s \in fetch_nearest_snapshot_before(req[t].at),
               req' = [req EXCEPT ![t].from = s.snapshot_time, ![t].value = s.graph_state]
        PROVE  AnswerInv'
    <2> DEFINE q == [req[t] EXCEPT !.from = s.snapshot_time, !.value = s.graph_state]
    <2>1. req' = [req EXCEPT ![t] = q]
      BY <1>2, <1>5
    <2>2. q.from = s.snapshot_time /\ q.value = s.graph_state /\ q.at = req[t].at
      BY <1>2 DEF Requests
    <2> HIDE DEF q
    <2>3. s \in snapshots /\ s.snapshot_time <= req[t].at
      BY DEF fetch_nearest_snapshot_before
    <2>4. insert_failed = {} => Based(q)
      <3> SUFFICES ASSUME insert_failed = {} PROVE Based(q)
        OBVIOUS
      <3>1. PICK o \in 1..Folded : s.snapshot_time = events[o].time /\ Shows(s.graph_state, o)
        BY <2>3 DEF WorkerInv, FoldInv
      <3>2. o \in 0..Folded /\ o # 0
        BY <1>4
      <3> QED  BY <2>2, <2>3, <3>1, <3>2 DEF Based
    <2>5. insert_failed = {} => Ready("changes", q)
      BY <2>4 DEF Ready
    <2> QED  BY <1>1, <2>1, <2>5, ReadyStep
  <1>6. CASE req' = req
    <2>1. req' = [req EXCEPT ![t] = req[t]]
      BY <1>2, <1>6
    <2>2. Shows(empty_graph_state, 0)
      <3>1. \A k \in Keys : empty_graph_state[k] = 0 /\ Touching(k, 0) = {}
        BY DEF empty_graph_state, Touching
      <3> QED  BY <3>1, EmptyGraphType DEF Shows, Newest
    <2>3. PICK q : q = req[t]
      OBVIOUS
    <2>4. insert_failed = {} => Based(q)
      <3>1. 0 \in 0..Folded
        BY <1>4
      <3> QED  BY <1>3, <2>2, <2>3, <3>1 DEF Based
    <2>5. insert_failed = {} => Ready("changes", q)
      BY <2>4 DEF Ready
    <2> QED  BY <1>1, <2>1, <2>3, <2>5, ReadyStep
  <1> QED  BY <1>5, <1>6 DEF QuerySnapshot

\* The replay over it shows the newest changes there are.
LEMMA ChangesReady ==
  ASSUME InOrder, IInv, WorkerInv, QueryInv, AnswerInv, UNCHANGED vars, NEW t \in Threads, QueryChanges(t)
  PROVE  AnswerInv'
  <1>1. /\ step' = [step EXCEPT ![t] = "set"] /\ step[t] = "changes"
        /\ \A n \in DOMAIN cache' : \E m \in DOMAIN cache : cache'[n] = cache[m]
    BY DEF QueryChanges, Goes
  <1>2. PICK V : req \in [Threads -> Requests(V)]
    BY DEF QueryInv, QueryType, TypedWith
  <1> DEFINE q == [req[t] EXCEPT !.value = Reconstruction(t), !.from = 0, !.seen = Len(rows), !.asked = now]
  <1>3. req' = [req EXCEPT ![t] = q]
    BY DEF QueryChanges
  <1>4. q.value = Reconstruction(t) /\ q.seen = Len(rows) /\ q.at = req[t].at
    BY <1>2 DEF Requests
  <1> HIDE DEF q
  <1>5. ASSUME insert_failed = {} PROVE Reconstruction(t) = NewestUpTo(Len(rows), req[t].at)
    <2>1. PICK o \in 0..Folded :
              /\ Shows(req[t].value, o)
              /\ IF o = 0 THEN req[t].from = 0
                          ELSE req[t].from = events[o].time /\ req[t].from <= req[t].at
      BY <1>1, <1>5 DEF AnswerInv, Ready, Based
    <2>2. PICK base, from, at : base = req[t].value /\ from = req[t].from /\ at = req[t].at /\ at \in Nat
      BY <1>2 DEF Requests
    <2>3. o \in 0..Len(events) /\ \A p \in 1..o : p \in 1..Folded
      BY TheWorker
    <2>4. \A p \in 1..o : \E r \in 1..Len(rows) : rows[r].off = p
      BY <1>5, <2>3, FoldedIsStored
    <2>5. Replay(base, fetch_changes_between(from, at)) = NewestUpTo(Len(rows), at)
      BY <2>1, <2>2, <2>3, <2>4, ReplayIsNewest
    <2> QED  BY <2>2, <2>5 DEF Reconstruction
  <1>6. Len(rows) \in 0..Len(rows)
    BY TheWorker
  <1>7. insert_failed = {} => Ready("set", q)
    BY <1>4, <1>5, <1>6 DEF Ready, Right
  <1> QED  BY <1>1, <1>3, <1>7, ReadyStep

\* The other calls move items, drop them, or put the answer among them.
LEMMA CacheReady ==
  ASSUME QueryInv, AnswerInv, UNCHANGED vars, NEW t \in Threads,
         PopExpired(t) \/ Touch(t) \/ QueryFails(t) \/ Assign(t) \/ MoveToEnd(t) \/ Evict(t) \/ PopItem(t)
  PROVE  AnswerInv'
  <1>1. PICK V : TypedWith(V)
    BY DEF QueryInv, QueryType
  <1>2. /\ cache \in Seq(Items(V)) /\ Distinct(cache) /\ DOMAIN cache = 1..Len(cache) /\ Len(cache) \in Nat
    BY <1>1, ThreadState
  <1>3. ASSUME NEW at
        PROVE  /\ \A n \in DOMAIN Without(at) : \E m \in DOMAIN cache : Without(at)[n] = cache[m]
               /\ \A n \in DOMAIN MovedToEnd(at) : \E m \in DOMAIN cache : MovedToEnd(at)[n] = cache[m]
    BY <1>2, CacheCalls
  <1>4. CASE PopExpired(t)
    <2>1. Goes(t, "snapshot") /\ req' = req /\ cache' = Without(req[t].at) /\ step[t] = "expired"
      BY <1>4 DEF PopExpired
    <2>2. Ready(step[t], req[t]) => Ready("snapshot", req[t])
      BY <2>1 DEF Ready
    <2>3. \A n \in DOMAIN cache' : \E m \in DOMAIN cache : cache'[n] = cache[m]
      BY <1>3, <2>1
    <2> QED  BY <2>1, <2>2, <2>3, GoesReady
  <1>5. CASE Touch(t)
    <2>1. \A n \in DOMAIN cache' : \E m \in DOMAIN cache : cache'[n] = cache[m]
      BY <1>3, <1>5 DEF Touch
    <2> QED  BY <1>5, <2>1, EndsReady DEF Touch
  <1>6. CASE QueryFails(t)
    <2>1. \A n \in DOMAIN cache' : \E m \in DOMAIN cache : cache'[n] = cache[m]
      BY <1>6 DEF QueryFails
    <2> QED  BY <1>6, <2>1, EndsReady DEF QueryFails
  <1>7. CASE Assign(t)
    <2>1. Goes(t, "assigned") /\ req' = req /\ step[t] = "set"
      BY <1>7 DEF Assign
    <2>2. Ready(step[t], req[t]) => Ready("assigned", req[t])
      BY <2>1 DEF Ready
    <2>3. PICK item \in Items(V) : item = ItemOf(t)
      <3>1. req[t] \in Requests(V) /\ now \in Nat
        BY <1>1, ThreadState
      <3>2. ItemOf(t) \in Items(V)
        BY <3>1 DEF ItemOf, Items, Requests
      <3> QED  BY <3>2
    <2>4. \A n \in DOMAIN cache' : cache'[n] = item \/ \E m \in DOMAIN cache : cache'[n] = cache[m]
      <3>1. CASE ItemsOf(req[t].at) = {}
        <4>1. cache' = Append(cache, item)
          BY <1>7, <2>3, <3>1 DEF Assign
        <4>2. /\ DOMAIN cache' = 1..(Len(cache) + 1) /\ cache'[Len(cache) + 1] = item
              /\ \A n \in 1..Len(cache) : cache'[n] = cache[n]
          BY <1>2, <4>1
        <4>3. \A n \in 1..(Len(cache) + 1) : n \in 1..Len(cache) \/ n = Len(cache) + 1
          BY <1>2
        <4> QED  BY <1>2, <4>2, <4>3
      <3>2. CASE ItemsOf(req[t].at) # {}
        <4>1. cache' = [n \in DOMAIN cache |-> IF n \in ItemsOf(req[t].at) THEN item ELSE cache[n]]
          BY <1>7, <2>3, <3>2 DEF Assign
        <4> QED  BY <4>1
      <3> QED  BY <3>1, <3>2
    <2>5. insert_failed = {} => Right(item)
      <3>1. item.value = req[t].value /\ item.seen = req[t].seen /\ item.at = req[t].at
        BY <2>3 DEF ItemOf
      <3>2. insert_failed = {} => Right(req[t])
        BY <2>1 DEF AnswerInv, Ready
      <3> QED  BY <3>1, <3>2 DEF Right
    <2>6. CASE insert_failed = {}
      <3>1. \A n \in DOMAIN cache' : Right(cache'[n]) \/ \E m \in DOMAIN cache : cache'[n] = cache[m]
        BY <2>4, <2>5, <2>6
      <3> QED  BY <2>1, <2>2, <3>1, GoesReady
    <2>7. CASE insert_failed # {}
      BY <2>7 DEF AnswerInv, vars
    <2> QED  BY <2>6, <2>7
  <1>8. CASE MoveToEnd(t)
    <2>1. \A n \in DOMAIN cache' : \E m \in DOMAIN cache : cache'[n] = cache[m]
      BY <1>3, <1>8 DEF MoveToEnd
    <2>2. Ready(step[t], req[t]) => Ready("evict", req[t])
      BY <1>8 DEF Ready, MoveToEnd
    <2> QED  BY <1>8, <2>1, <2>2, EndsReady, GoesReady DEF MoveToEnd
  <1>9. CASE Evict(t)
    <2>1. \A n \in DOMAIN cache' : \E m \in DOMAIN cache : cache'[n] = cache[m]
      BY <1>9 DEF Evict
    <2>2. Ready(step[t], req[t]) => Ready("evicting", req[t])
      BY <1>9 DEF Ready, Evict
    <2> QED  BY <1>9, <2>1, <2>2, EndsReady, GoesReady DEF Evict
  <1>10. CASE PopItem(t)
    <2>1. \A n \in DOMAIN cache' : \E m \in DOMAIN cache : cache'[n] = cache[m]
      <3>1. CASE cache = <<>>
        BY <1>10, <3>1 DEF PopItem
      <3>2. CASE cache # <<>>
        <4>1. cache' = Tail(cache)
          BY <1>10, <3>2 DEF PopItem
        <4>2. /\ DOMAIN cache' = 1..(Len(cache) - 1)
              /\ \A n \in 1..(Len(cache) - 1) : cache'[n] = cache[n + 1] /\ n + 1 \in 1..Len(cache)
          BY <1>2, <3>2, <4>1
        <4> QED  BY <1>2, <4>2
      <3> QED  BY <3>1, <3>2
    <2>2. Ready(step[t], req[t]) => Ready("evict", req[t])
      BY <1>10 DEF Ready, PopItem
    <2> QED  BY <1>10, <2>1, <2>2, EndsReady, GoesReady DEF PopItem
  <1> QED  BY <1>4, <1>5, <1>6, <1>7, <1>8, <1>9, <1>10

\* What the worker stores is after what the answers have seen.
LEMMA StorageReady ==
  ASSUME InOrder, IInv, WorkerInv, QueryInv, AnswerInv, Storage
  PROVE  AnswerInv'
  <1>1. /\ cache' = cache /\ step' = step /\ req' = req /\ Next /\ crashes' = crashes
    BY DEF Storage, api
  <1>2. /\ Folded' \in Int /\ Folded' >= Folded /\ Folded \in Nat
        /\ Folded \in 0..Len(events) /\ Len(events) \in Nat
    <2>1. Folded' \in Int /\ Folded' >= Folded
      BY <1>1, WorkerStep
    <2>2. position[Topic] \in 0..Len(events) /\ Folded \in 0..position[Topic] /\ Len(events) \in Nat
      BY TheWorker
    <2> QED  BY <2>1, <2>2
  <1>3. /\ rows \in Seq(Row) /\ Len(rows) \in Nat /\ events \in Seq(Event)
        /\ \A r \in 1..Len(rows) : rows[r].off \in 1..Len(events) /\ rows[r].part = Topic
        /\ Topic \in Partitions
    <2>1. \A r \in 1..Len(rows) : rows[r].off <= position[Topic] /\ rows[r].off \in Nat \ {0}
      BY TheWorker DEF WorkerInv, RowsInv
    <2>2. position[Topic] \in 0..Len(events) /\ rows \in Seq(Row) /\ Len(rows) \in Nat
          /\ events \in Seq(Event) /\ Topic \in Partitions
      BY TheWorker
    <2>3. \A r \in 1..Len(rows) : rows[r].off \in 1..Len(events)
      BY <1>2, <2>1, <2>2
    <2>4. \A r \in 1..Len(rows) : rows[r] \in Row
      BY <2>2
    <2>5. \A r \in 1..Len(rows) : rows[r].part = Topic
      BY <2>4 DEF Row, InOrder
    <2> QED  BY <2>2, <2>3, <2>5
  <1>4. /\ Len(rows') \in Nat /\ Len(rows') >= Len(rows)
        /\ \A r \in 1..Len(rows) : rows'[r] = rows[r]
    <2>1. rows' = rows \/ \E i \in Instances : rows' = Append(rows, msg[i])
      BY <1>1, LogStep
    <2>2. CASE rows' = rows
      BY <1>3, <2>2
    <2>3. ASSUME NEW i \in Instances, rows' = Append(rows, msg[i])
          PROVE  Len(rows') = Len(rows) + 1 /\ \A r \in 1..Len(rows) : rows'[r] = rows[r]
      BY <1>3, <2>3
    <2> QED  BY <1>3, <2>1, <2>2, <2>3
  <1>5. \A o \in 1..Len(events) : changes'[Topic][o] = changes[Topic][o]
    <2>1. changes' = changes \/ \E p \in Partitions, e \in Event : changes' = [changes EXCEPT ![p] = Append(changes[p], e)]
      BY <1>1, LogStep
    <2>2. ASSUME NEW p \in Partitions, NEW e \in Event, changes' = [changes EXCEPT ![p] = Append(changes[p], e)]
          PROVE  \A o \in 1..Len(events) : changes'[Topic][o] = changes[Topic][o]
      <3>1. p = Topic /\ changes'[Topic] = Append(events, e)
        BY <1>3, <2>2 DEF InOrder, events, IInv, TypeOK, TopicsType
      <3>2. \A o \in 1..Len(events) : Append(events, e)[o] = events[o]
        BY <1>3
      <3> QED  BY <3>1, <3>2 DEF events
    <2> QED  BY <2>1, <2>2
  <1>6. \A r \in 1..Len(rows) : EventOf(rows[r])' = EventOf(rows[r])
    BY <1>3, <1>4, <1>5 DEF EventOf
  <1>7. ASSUME NEW n \in 0..Len(rows), NEW at PROVE NewestUpTo(n, at)' = NewestUpTo(n, at)
    <2>1. \A r \in 1..n : EventOf(rows[r])' = EventOf(rows[r])
      BY <1>3, <1>6
    <2>2. \A k : Seen(k, n, at)' = Seen(k, n, at)
      BY <2>1 DEF Seen
    <2>3. NewestUpTo(n, at) = [k \in Keys |-> Max({0} \cup Seen(k, n, at))]
      BY DEF NewestUpTo, Seen
    <2>4. NewestUpTo(n, at)' = [k \in Keys |-> Max({0} \cup Seen(k, n, at)')]
      BY DEF NewestUpTo, Seen
    <2> QED  BY <2>2, <2>3, <2>4
  <1>8. ASSUME NEW y, Right(y) PROVE Right(y)'
    <2>1. y.seen \in 0..Len(rows) /\ y.seen \in 0..Len(rows')
      BY <1>3, <1>4, <1>8 DEF Right
    <2>2. PICK n, at : n = y.seen /\ at = y.at
      OBVIOUS
    <2>3. NewestUpTo(n, at)' = NewestUpTo(n, at)
      BY <1>7, <2>1, <2>2
    <2> QED  BY <1>8, <2>1, <2>2, <2>3 DEF Right
  <1>9. ASSUME NEW y, Based(y) PROVE Based(y)'
    <2>1. PICK o \in 0..Folded :
              /\ Shows(y.value, o)
              /\ IF o = 0 THEN y.from = 0 ELSE y.from = events[o].time /\ y.from <= y.at
      BY <1>9 DEF Based
    <2>2. o \in Nat /\ o \in 0..Folded' /\ (o # 0 => o \in 1..Len(events))
      BY <1>2
    <2>3. \A q \in 1..o : changes'[Topic][q] = changes[Topic][q]
      BY <1>2, <1>5
    <2>4. PICK g : g = y.value
      OBVIOUS
    <2>5. Shows(g, o)'
      BY <2>1, <2>2, <2>3, <2>4, ShowsKept
    <2>6. o # 0 => events'[o] = events[o]
      BY <1>5, <2>2 DEF events
    <2> QED  BY <2>1, <2>2, <2>4, <2>5, <2>6 DEF Based
  <1>10. insert_failed \subseteq insert_failed'
    BY <1>1 DEF Next, Worker, Environment, Publish, Consume, StoreChange, CreateSnapshot, StoreExternal,
                PruneSnapshots, Commit, CommitFails, AttemptFails, Crash
  <1>11. ASSUME NEW x, NEW y, Ready(x, y) PROVE Ready(x, y)'
    BY <1>8, <1>9, <1>11 DEF Ready, empty_graph_state
  <1>12. ASSUME insert_failed' = {}, NEW u \in Threads PROVE Ready(step[u], req[u])'
    <2>1. PICK x, y : x = step[u] /\ y = req[u] /\ Ready(x, y)
      BY <1>10, <1>12 DEF AnswerInv
    <2>2. Ready(x, y)' /\ step'[u] = x /\ req'[u] = y
      BY <1>1, <1>11, <2>1
    <2> QED  BY <2>2 DEF Ready, Right, Based, Shows, Touching
  <1>13. ASSUME insert_failed' = {}, NEW n \in DOMAIN cache' PROVE Right(cache[n])'
    <2>1. PICK y : y = cache[n] /\ Right(y)
      BY <1>1, <1>10, <1>13 DEF AnswerInv
    <2>2. Right(y)' /\ cache'[n] = y
      BY <1>1, <1>8, <2>1
    <2> QED  BY <2>2 DEF Right
  <1> QED  BY <1>12, <1>13 DEF AnswerInv

\* The clock is in no answer.
LEMMA AnswerKept ==
  ASSUME AnswerInv, UNCHANGED <<vars, api>>
  PROVE  AnswerInv'
  <1>1. /\ rows' = rows /\ changes' = changes /\ insert_failed' = insert_failed
        /\ pc' = pc /\ position' = position /\ cache' = cache /\ step' = step /\ req' = req
    BY DEF vars, api
  <1>2. \A n, at : NewestUpTo(n, at)' = NewestUpTo(n, at)
    BY <1>1 DEF NewestUpTo, EventOf
  <1>3. \A y : Right(y)' <=> Right(y)
    BY <1>1, <1>2 DEF Right
  <1>4. \A y : Based(y)' <=> Based(y)
    BY <1>1 DEF Based, Shows, Touching, Folded, events
  <1>5. \A x, y : Ready(x, y)' <=> Ready(x, y)
    BY <1>3, <1>4 DEF Ready, empty_graph_state
  <1>6. ASSUME insert_failed = {}, NEW u \in Threads PROVE Ready(step[u], req[u])'
    <2>1. PICK x, y : x = step[u] /\ y = req[u] /\ Ready(x, y)
      BY <1>6 DEF AnswerInv
    <2>2. Ready(x, y)' /\ step'[u] = x /\ req'[u] = y
      BY <1>1, <1>5, <2>1
    <2> QED  BY <2>2 DEF Ready, Right, Based, Shows, Touching
  <1>7. ASSUME insert_failed = {}, NEW n \in DOMAIN cache PROVE Right(cache[n])'
    <2>1. PICK y : y = cache[n] /\ Right(y)
      BY <1>7 DEF AnswerInv
    <2>2. Right(y)' /\ cache'[n] = y
      BY <1>1, <1>3, <2>1
    <2> QED  BY <2>2 DEF Right
  <1> QED  BY <1>1, <1>6, <1>7 DEF AnswerInv

\* Every thread is idle.
LEMMA AnswerInit == InitQueries => AnswerInv
  BY DEF InitQueries, AnswerInv, Ready

\* The worker keeps its order, whatever the threads do.
LEMMA WorkerNext ==
  InOrder /\ IInv /\ WorkerInv /\ [NextQueries]_query_vars => WorkerInv'
  <1> SUFFICES ASSUME InOrder, IInv, WorkerInv, [NextQueries]_query_vars PROVE WorkerInv'
    OBVIOUS
  <1>1. CASE Storage
    BY <1>1, WorkerStep DEF Storage
  <1>2. CASE UNCHANGED vars
    <2>1. /\ rows' = rows /\ changes' = changes /\ insert_failed' = insert_failed /\ producer' = producer
          /\ pc' = pc /\ position' = position /\ mgr' = mgr /\ snapshots' = snapshots
      BY <1>2 DEF vars
    <2>2. OrderedInv' /\ RowsInv'
      BY <2>1 DEF WorkerInv, OrderedInv, RowsInv, events
    <2>3. \A g, o : Shows(g, o)' <=> Shows(g, o)
      BY <2>1 DEF Shows, Touching, events
    <2>4. Folded' = Folded /\ events' = events
      BY <2>1 DEF Folded, events
    <2>5. FoldInv'
      BY <2>1, <2>3, <2>4 DEF WorkerInv, FoldInv
    <2> QED  BY <2>2, <2>5 DEF WorkerInv
  <1> QED  BY <1>1, <1>2 DEF NextQueries, get_state, Tick, query_vars

\* Nor does a step of a thread, of the clock or of the worker break what the answers rest on.
LEMMA AnswerNext ==
  InOrder /\ IInv /\ WorkerInv /\ QueryInv /\ AnswerInv /\ [NextQueries]_query_vars => AnswerInv'
  <1> SUFFICES ASSUME InOrder, IInv, WorkerInv, QueryInv, AnswerInv, [NextQueries]_query_vars
               PROVE  AnswerInv'
    OBVIOUS
  <1>1. ASSUME NEW t \in Threads, get_state(t) PROVE AnswerInv'
    <2>1. UNCHANGED vars
      BY <1>1 DEF get_state
    <2> QED  BY <1>1, <2>1, LookupReady, SnapshotReady, ChangesReady, CacheReady DEF get_state
  <1>2. CASE Tick \/ UNCHANGED query_vars
    BY <1>2, AnswerKept DEF Tick, query_vars
  <1>3. CASE Storage
    BY <1>3, StorageReady
  <1> QED  BY <1>1, <1>2, <1>3 DEF NextQueries

\* Of what is in hand and in the cache, the invariant says what it should be.
LEMMA ReadyAnswers == AnswerInv => (insert_failed = {} => AnswerIsUpToDate)
  <1> SUFFICES ASSUME AnswerInv, insert_failed = {} PROVE AnswerIsUpToDate
    OBVIOUS
  <1>1. \A t \in Answering : Right(req[t])
    BY DEF AnswerInv, Answering, Ready
  <1>2. ASSUME NEW item \in ToSet(cache) PROVE Right(item)
    <2>1. PICK n \in DOMAIN cache : item = cache[n]
      BY DEF ToSet
    <2> QED  BY <2>1 DEF AnswerInv
  <1> QED  BY <1>1, <1>2 DEF AnswerIsUpToDate, Right

\* GET /state answers with the newest changes that were stored when it queried them, and so
\* does the cache, whatever was stored, snapshotted and pruned between its two queries: as
\* long as no retry of a row was given up (the fold then lacks its change, and so do the
\* snapshots), and where the rows are in the order of their times.
THEOREM AnswersAreUpToDate ==
  ASSUME InOrder
  PROVE  SpecQueries => [](insert_failed = {} => AnswerIsUpToDate)
  <1>1. InitQueries => IInv /\ WorkerInv /\ QueryInv /\ AnswerInv
    BY QueryInit, WorkerInit, AnswerInit DEF InitQueries
  <1>2. IInv /\ WorkerInv /\ QueryInv /\ AnswerInv /\ [NextQueries]_query_vars
          => IInv' /\ WorkerInv' /\ QueryInv' /\ AnswerInv'
    BY QueryNext, WorkerNext, AnswerNext
  <1>3. IInv /\ WorkerInv /\ QueryInv /\ AnswerInv => (insert_failed = {} => AnswerIsUpToDate)
    BY ReadyAnswers
  <1> QED  BY <1>1, <1>2, <1>3, PTL DEF SpecQueries
=============================================================================

---------------------- MODULE SentimentProcessorProofs ----------------------
(***************************************************************************)
(* Proofs about SentimentProcessor for every set of partitions and of      *)
(* instances, every assignment of transactional ids to instances, and      *)
(* every bound.                                                            *)
(***************************************************************************)
EXTENDS SentimentProcessor, TLAPS

-----------------------------------------------------------------------------
(* The inductive invariant.                                                *)

\* Instance i has polled messages of p that it has not committed.
InBatch(i, p) == upto[i][p] > base[i][p]

\* The loop variable stays inside the batch and the batch inside the topic.
BatchInv ==
    \A i \in Instances, p \in Partitions :
        /\ base[i][p] <= done[i][p]
        /\ done[i][p] <= upto[i][p]
        /\ upto[i][p] <= Len(raw[p])
        /\ pc[i] = "poll" => done[i][p] = base[i][p]
        /\ pc[i] = "commit" => done[i][p] = upto[i][p]

\* The open transaction of an instance the broker still accepts holds what the
\* loop has produced so far, and after send_offsets the end of its batch.
TxnOK(i, p) ==
    /\ pc[i] = "poll" => pending_writes[Txn(i)][p] = <<>>
    /\ pc[i] \in {"poll", "process"} => pending_offsets[Txn(i)][p] = 0
    /\ pc[i] \in {"process", "commit"} =>
           EO!Covers(pending_writes[Txn(i)][p], raw[p], base[i][p], done[i][p])
    /\ pc[i] = "commit" =>
           pending_offsets[Txn(i)][p] = IF InBatch(i, p) THEN upto[i][p] ELSE 0
    /\ pc[i] = "commit" /\ InBatch(i, p) => base[i][p] = group_offset[p]

TxnInv == \A i \in Instances, p \in Partitions : Current(i) => TxnOK(i, p)

\* A member works only on partitions it owns, from where the group stands.
GroupInv ==
    /\ \A i \in members : pc[i] # "down"
    /\ \A i \in members, p \in Partitions : InBatch(i, p) => owner[p] = i /\ p \in resolved
    /\ \A p \in resolved : owner[p] \in members => base[owner[p]][p] = group_offset[p]

\* Pending offsets of a partition are alone, ahead of the group, and known to
\* nobody but the owner that is about to commit them.
PendingInv ==
    \A d \in Ids, p \in Partitions :
        pending_offsets[d][p] # 0 =>
            /\ pending_offsets[d][p] > group_offset[p]
            /\ \A c \in Ids \ {d} : pending_offsets[c][p] = 0
            /\ p \in resolved /\ owner[p] \in members =>
                   /\ Txn(owner[p]) = d
                   /\ Current(owner[p])
                   /\ pc[owner[p]] = "commit"

OutputInv ==
    \A p \in Partitions :
        /\ group_offset[p] <= Len(raw[p])
        /\ EO!Covers(output[p], raw[p], 0, group_offset[p])

IInv == TypeOK /\ BatchInv /\ TxnInv /\ GroupInv /\ PendingInv /\ OutputInv

-----------------------------------------------------------------------------
(* What Covers says of the sequences the processor builds.                 *)

\* Every output of a sequence names an offset.
LEMMA OutputOffsets ==
    ASSUME NEW w \in Seq(Outputs)
    PROVE  \A k \in 1..Len(w) : w[k] \in Outputs /\ w[k].off \in Nat /\ w[k].off # 0
  <1>1. \A k \in 1..Len(w) : w[k] \in Outputs
    OBVIOUS
  <1>2. \A r \in Outputs : r.off \in Nat /\ r.off # 0
    BY DEF Outputs
  <1> QED
    BY <1>1, <1>2

\* An empty stretch of the input has no output.
LEMMA CoversNothing ==
    ASSUME NEW in, NEW n \in Nat
    PROVE  EO!Covers(<<>>, in, n, n)
  BY SMT DEF EO!Covers

\* And an output of an empty stretch is empty.
LEMMA NothingCovered ==
    ASSUME NEW in, NEW n \in Nat, NEW w \in Seq(Outputs), EO!Covers(w, in, n, n)
    PROVE  w = <<>>
  <1>1. ASSUME Len(w) # 0 PROVE FALSE
    <2>1. 1 \in 1..Len(w)
      BY <1>1
    <2>2. n < w[1].off /\ w[1].off <= n /\ w[1].off \in Nat
      BY <2>1, OutputOffsets DEF EO!Covers
    <2> QED
      BY <2>2
  <1> QED
    BY <1>1

\* The next accepted article adds one output.
LEMMA CoversAppend ==
    ASSUME NEW in, NEW lo \in Nat, NEW n \in Nat, NEW w \in Seq(Outputs),
           NEW r \in Outputs, lo <= n,
           EO!Covers(w, in, lo, n),
           r.off = n + 1, in[n + 1] # "rejected", in[n + 1] = "bad" => r.kind = "dlq"
    PROVE  EO!Covers(Append(w, r), in, lo, n + 1)
  <1> DEFINE v == Append(w, r)
  <1>1. /\ Len(v) = Len(w) + 1
        /\ v[Len(w) + 1] = r
        /\ \A k \in 1..Len(w) : v[k] = w[k]
        /\ Len(w) \in Nat
    OBVIOUS
  <1>2. \A k \in 1..Len(w) : w[k].off \in Nat
    BY OutputOffsets
  <1> HIDE DEF v
  <1>3. \A k \in 1..Len(v) :
          /\ lo < v[k].off
          /\ v[k].off <= n + 1
          /\ in[v[k].off] # "rejected"
          /\ in[v[k].off] = "bad" => v[k].kind = "dlq"
    <2> SUFFICES ASSUME NEW k \in 1..Len(v)
                 PROVE  /\ lo < v[k].off
                        /\ v[k].off <= n + 1
                        /\ in[v[k].off] # "rejected"
                        /\ in[v[k].off] = "bad" => v[k].kind = "dlq"
      OBVIOUS
    <2>1. CASE k = Len(w) + 1
      BY <1>1, <2>1
    <2>2. CASE k \in 1..Len(w)
      BY <1>1, <1>2, <2>2 DEF EO!Covers
    <2> QED
      BY <1>1, <2>1, <2>2
  <1>4. \A k, m \in 1..Len(v) : k < m => v[k].off < v[m].off
    <2> SUFFICES ASSUME NEW k \in 1..Len(v), NEW m \in 1..Len(v), k < m
                 PROVE  v[k].off < v[m].off
      OBVIOUS
    <2>1. k \in 1..Len(w)
      BY <1>1
    <2>2. CASE m = Len(w) + 1
      <3>1. v[k].off <= n /\ v[k].off \in Nat
        BY <1>1, <1>2, <2>1 DEF EO!Covers
      <3> QED
        BY <1>1, <2>2, <3>1
    <2>3. CASE m \in 1..Len(w)
      BY <1>1, <2>1, <2>3 DEF EO!Covers
    <2> QED
      BY <1>1, <2>2, <2>3
  <1>5. \A o \in (lo + 1)..(n + 1) :
          in[o] # "rejected" => \E k \in 1..Len(v) : v[k].off = o
    <2> SUFFICES ASSUME NEW o \in (lo + 1)..(n + 1), in[o] # "rejected"
                 PROVE  \E k \in 1..Len(v) : v[k].off = o
      OBVIOUS
    <2>1. CASE o = n + 1
      BY <1>1, <2>1
    <2>2. CASE o \in (lo + 1)..n
      <3>1. PICK k \in 1..Len(w) : w[k].off = o
        BY <2>2 DEF EO!Covers
      <3> QED
        BY <1>1, <3>1
    <2> QED
      BY <2>1, <2>2
  <1> QED
    BY <1>3, <1>4, <1>5 DEF EO!Covers, v

\* A rejected article adds none.
LEMMA CoversSkip ==
    ASSUME NEW in, NEW lo \in Nat, NEW n \in Nat, NEW w \in Seq(Outputs), lo <= n,
           EO!Covers(w, in, lo, n), in[n + 1] = "rejected"
    PROVE  EO!Covers(w, in, lo, n + 1)
  <1>1. \A k \in 1..Len(w) : w[k].off \in Nat
    BY OutputOffsets
  <1> QED
    BY <1>1 DEF EO!Covers

\* A later article does not concern what is covered already.
LEMMA CoversGrow ==
    ASSUME NEW in \in Seq(Articles), NEW a \in Articles, NEW lo \in Nat, NEW hi \in Nat,
           NEW w \in Seq(Outputs), hi <= Len(in),
           EO!Covers(w, in, lo, hi)
    PROVE  EO!Covers(w, Append(in, a), lo, hi)
  <1>1. \A o \in 1..Len(in) : Append(in, a)[o] = in[o]
    OBVIOUS
  <1>2. \A k \in 1..Len(w) : w[k].off \in 1..Len(in)
    BY OutputOffsets DEF EO!Covers
  <1>3. \A o \in (lo + 1)..hi : o \in 1..Len(in)
    OBVIOUS
  <1> QED
    BY <1>1, <1>2, <1>3 DEF EO!Covers

\* Adjacent stretches join.
LEMMA CoversJoin ==
    ASSUME NEW in, NEW lo \in Nat, NEW mid \in Nat, NEW hi \in Nat, lo <= mid, mid <= hi,
           NEW v \in Seq(Outputs), NEW w \in Seq(Outputs),
           EO!Covers(v, in, lo, mid), EO!Covers(w, in, mid, hi)
    PROVE  EO!Covers(v \o w, in, lo, hi) /\ EO!Extends(v, v \o w)
  <1> DEFINE u == v \o w
  <1>1. /\ Len(u) = Len(v) + Len(w)
        /\ Len(v) \in Nat /\ Len(w) \in Nat
        /\ \A k \in 1..Len(v) : u[k] = v[k]
        /\ \A k \in (Len(v) + 1)..(Len(v) + Len(w)) : u[k] = w[k - Len(v)]
    OBVIOUS
  <1>2. /\ \A k \in 1..Len(v) : v[k].off \in Nat
        /\ \A k \in 1..Len(w) : w[k].off \in Nat
    BY OutputOffsets
  <1>2a. ASSUME NEW k \in 1..Len(u)
         PROVE  \/ k \in 1..Len(v) /\ u[k] = v[k]
                \/ /\ k \in (Len(v) + 1)..(Len(v) + Len(w))
                   /\ k - Len(v) \in 1..Len(w) /\ u[k] = w[k - Len(v)]
    BY <1>1
  <1> HIDE DEF u
  <1>3. \A k \in 1..Len(u) :
          /\ lo < u[k].off
          /\ u[k].off <= hi
          /\ in[u[k].off] # "rejected"
          /\ in[u[k].off] = "bad" => u[k].kind = "dlq"
    <2> SUFFICES ASSUME NEW k \in 1..Len(u)
                 PROVE  /\ lo < u[k].off
                        /\ u[k].off <= hi
                        /\ in[u[k].off] # "rejected"
                        /\ in[u[k].off] = "bad" => u[k].kind = "dlq"
      OBVIOUS
    <2>1. CASE k \in 1..Len(v) /\ u[k] = v[k]
      BY <1>2, <2>1 DEF EO!Covers
    <2>2. CASE k - Len(v) \in 1..Len(w) /\ u[k] = w[k - Len(v)]
      BY <1>2, <2>2 DEF EO!Covers
    <2> QED
      BY <1>2a, <2>1, <2>2
  <1>4. \A k, m \in 1..Len(u) : k < m => u[k].off < u[m].off
    <2> SUFFICES ASSUME NEW k \in 1..Len(u), NEW m \in 1..Len(u), k < m
                 PROVE  u[k].off < u[m].off
      OBVIOUS
    <2>1. CASE k \in 1..Len(v) /\ m \in 1..Len(v)
      BY <1>1, <2>1 DEF EO!Covers
    <2>2. CASE k \in 1..Len(v) /\ m - Len(v) \in 1..Len(w) /\ u[m] = w[m - Len(v)]
      <3>1. u[k].off <= mid /\ u[k].off \in Nat
        BY <1>1, <1>2, <2>2 DEF EO!Covers
      <3>2. mid < u[m].off /\ u[m].off \in Nat
        BY <1>2, <2>2 DEF EO!Covers
      <3> QED
        BY <3>1, <3>2
    <2>3. CASE /\ k - Len(v) \in 1..Len(w) /\ u[k] = w[k - Len(v)]
               /\ m - Len(v) \in 1..Len(w) /\ u[m] = w[m - Len(v)]
      <3>1. k - Len(v) < m - Len(v)
        BY <1>1
      <3> QED
        BY <2>3, <3>1 DEF EO!Covers
    <2> QED
      <3>1. \/ k \in 1..Len(v)
            \/ k - Len(v) \in 1..Len(w) /\ u[k] = w[k - Len(v)] /\ k > Len(v)
        BY <1>1, <1>2a
      <3>2. \/ m \in 1..Len(v)
            \/ m - Len(v) \in 1..Len(w) /\ u[m] = w[m - Len(v)]
        BY <1>2a
      <3> QED
        BY <1>1, <2>1, <2>2, <2>3, <3>1, <3>2
  <1>5. \A o \in (lo + 1)..hi :
          in[o] # "rejected" => \E k \in 1..Len(u) : u[k].off = o
    <2> SUFFICES ASSUME NEW o \in (lo + 1)..hi, in[o] # "rejected"
                 PROVE  \E k \in 1..Len(u) : u[k].off = o
      OBVIOUS
    <2>1. CASE o \in (lo + 1)..mid
      <3>1. PICK k \in 1..Len(v) : v[k].off = o
        BY <2>1 DEF EO!Covers
      <3> QED
        BY <1>1, <3>1
    <2>2. CASE o \in (mid + 1)..hi
      <3>1. PICK k \in 1..Len(w) : w[k].off = o
        BY <2>2 DEF EO!Covers
      <3>2. /\ k + Len(v) \in 1..Len(u)
            /\ k + Len(v) \in (Len(v) + 1)..(Len(v) + Len(w))
            /\ (k + Len(v)) - Len(v) = k
        BY <1>1
      <3>3. u[k + Len(v)] = w[k]
        BY <1>1, <3>2
      <3> QED
        BY <3>1, <3>2, <3>3
    <2> QED
      BY <2>1, <2>2
  <1>6. EO!Extends(v, u)
    BY <1>1 DEF EO!Extends
  <1>7. EO!Covers(u, in, lo, hi)
    BY <1>3, <1>4, <1>5 DEF EO!Covers
  <1> QED
    BY <1>6, <1>7 DEF u

-----------------------------------------------------------------------------
(* Types.                                                                  *)

\* The id of an instance is one of the ids.
LEMMA TxnInIds ==
    ASSUME NEW i \in Instances
    PROVE  Txn(i) \in Ids
  BY DEF Txn, Ids

\* TypeOK, written out for the provers.
LEMMA TypeFacts ==
    ASSUME TypeOK
    PROVE  /\ pending_writes \in [Ids -> [Partitions -> Seq(Outputs)]]
           /\ pending_offsets \in [Ids -> [Partitions -> Nat]]
           /\ holder \in [Ids -> Instances \cup {Nobody}]
           /\ pc \in [Instances -> {"down", "poll", "process", "commit"}]
           /\ base \in [Instances -> [Partitions -> Nat]]
           /\ done \in [Instances -> [Partitions -> Nat]]
           /\ upto \in [Instances -> [Partitions -> Nat]]
           /\ faults \in Nat /\ faults <= MaxFaults
           /\ crashes \in Nat /\ crashes <= MaxCrashes
           /\ members \subseteq Instances
           /\ owner \in [Partitions -> Instances \cup {Nobody}]
           /\ resolved \subseteq Partitions
           /\ group_offset \in [Partitions -> Nat]
           /\ output \in [Partitions -> Seq(Outputs)]
           /\ raw \in [Partitions -> Seq(Articles)]
  BY BoundsAssumption
     DEF TypeOK, BrokerType, GroupType, TransactionsType, InstancesType, HistoryType, OffsetsType

\* Every variable starts in its type.
LEMMA InitType == Init => TypeOK
  BY NobodyAssumption, BoundsAssumption
     DEF Init, TypeOK, BrokerType, GroupType, TransactionsType, InstancesType, HistoryType,
         OffsetsType, Nothing, Zero, Articles, Outputs

\* Every step keeps every variable in its type.
LEMMA TypeStep == TypeOK /\ [Next]_vars => TypeOK'
  <1> SUFFICES ASSUME TypeOK, [Next]_vars PROVE TypeOK'
    OBVIOUS
  <1> USE BoundsAssumption DEF OffsetsType
  <1>0. /\ \A i \in Instances : Txn(i) \in Ids
        /\ Nothing \in [Partitions -> Seq(Outputs)]
        /\ Zero \in [Partitions -> Nat]
    BY TxnInIds DEF Nothing, Zero
  <1>0a. /\ pending_writes \in [Ids -> [Partitions -> Seq(Outputs)]]
         /\ pending_offsets \in [Ids -> [Partitions -> Nat]]
         /\ holder \in [Ids -> Instances \cup {Nobody}]
         /\ pc \in [Instances -> {"down", "poll", "process", "commit"}]
         /\ base \in [Instances -> [Partitions -> Nat]]
         /\ done \in [Instances -> [Partitions -> Nat]]
         /\ upto \in [Instances -> [Partitions -> Nat]]
         /\ faults \in Nat /\ faults <= MaxFaults
         /\ crashes \in Nat /\ crashes <= MaxCrashes
         /\ members \subseteq Instances
         /\ owner \in [Partitions -> Instances \cup {Nobody}]
         /\ resolved \subseteq Partitions
         /\ group_offset \in [Partitions -> Nat]
         /\ output \in [Partitions -> Seq(Outputs)]
         /\ raw \in [Partitions -> Seq(Articles)]
    BY TypeFacts
  <1>a. ASSUME NEW d \in Ids, Committed(d)
        PROVE  /\ output' \in [Partitions -> Seq(Outputs)]
               /\ group_offset' \in [Partitions -> Nat]
               /\ pending_writes' \in [Ids -> [Partitions -> Seq(Outputs)]]
               /\ pending_offsets' \in [Ids -> [Partitions -> Nat]]
    BY <1>0, <1>0a, <1>a DEF Committed
  <1>b. ASSUME NEW i \in Instances, Aborted(i)
        PROVE  /\ pending_writes' \in [Ids -> [Partitions -> Seq(Outputs)]]
               /\ pending_offsets' \in [Ids -> [Partitions -> Nat]]
    BY <1>0, <1>0a, <1>b DEF Aborted
  <1>c. ASSUME NEW i \in Instances, NEW p \in Partitions, NEW kind \in {"result", "dlq"},
               Produce(i, p, kind)
        PROVE  /\ done' \in [Instances -> [Partitions -> Nat]]
               /\ pending_writes' \in [Ids -> [Partitions -> Seq(Outputs)]]
    <2>1. OutputOf(i, p, kind) \in Outputs
      BY <1>0a DEF OutputOf, Outputs
    <2>2. pending_writes[Txn(i)][p] \in Seq(Outputs)
      BY <1>0, <1>0a
    <2>3. Append(pending_writes[Txn(i)][p], OutputOf(i, p, kind)) \in Seq(Outputs)
      BY <2>1, <2>2
    <2>4. /\ pending_writes' = [pending_writes EXCEPT ![Txn(i)][p] =
                                   Append(pending_writes[Txn(i)][p], OutputOf(i, p, kind))]
          /\ done' = [done EXCEPT ![i][p] = done[i][p] + 1]
      BY <1>c DEF Produce
    <2>5. done' \in [Instances -> [Partitions -> Nat]]
      BY <1>0a, <2>4
    <2>6. pending_writes' \in [Ids -> [Partitions -> Seq(Outputs)]]
      BY <1>0, <1>0a, <2>3, <2>4
    <2> QED
      BY <2>5, <2>6
  <1>1. ASSUME NEW p \in Partitions, NEW a \in Articles, Arrive(p, a)
        PROVE  TypeOK'
    <2>1. raw' \in [Partitions -> Seq(Articles)]
      BY <1>0a, <1>1 DEF Arrive
    <2> QED
      BY <1>0a, <1>1, <2>1 DEF Arrive, group_vars, txn_vars, batch_vars, TypeOK, BrokerType,
         GroupType, TransactionsType, InstancesType, HistoryType
  <1>2. ASSUME NEW a \in [Partitions -> Instances], Rebalance(a)
        PROVE  TypeOK'
    BY <1>0a, <1>2 DEF Rebalance, Polling, txn_vars, batch_vars, TypeOK, BrokerType,
       GroupType, TransactionsType, InstancesType, HistoryType
  <1>3. ASSUME NEW d \in Ids, TimeOut(d)
        PROVE  TypeOK'
    <2>1. /\ holder' = [holder EXCEPT ![d] = Nobody]
          /\ pending_writes' = [pending_writes EXCEPT ![d] = Nothing]
          /\ pending_offsets' = [pending_offsets EXCEPT ![d] = Zero]
          /\ UNCHANGED <<raw, group_vars, output, pc, batch_vars, crashes>>
      BY <1>3 DEF TimeOut
    <2>2. faults' \in Nat /\ faults' <= MaxFaults
      BY <1>0a, <1>3 DEF TimeOut
    <2> QED
      BY <1>0, <1>0a, <2>1, <2>2 DEF group_vars, batch_vars, TypeOK, BrokerType,
         GroupType, TransactionsType, InstancesType, HistoryType
  <1>4. ASSUME NEW i \in Instances, Start(i)
        PROVE  TypeOK'
    BY <1>0, <1>0a, <1>4 DEF Start, group_vars, TypeOK, BrokerType,
       GroupType, TransactionsType, InstancesType, HistoryType
  <1>5. ASSUME NEW i \in Instances, NEW p \in Partitions, Resolve(i, p)
        PROVE  TypeOK'
    BY <1>0, <1>0a, <1>5 DEF Resolve, txn_vars, TypeOK, BrokerType,
       GroupType, TransactionsType, InstancesType, HistoryType
  <1>6. ASSUME NEW i \in Instances, NEW p \in Partitions, Fetch(i, p)
        PROVE  TypeOK'
    BY <1>0, <1>0a, <1>6 DEF Fetch, group_vars, txn_vars, TypeOK, BrokerType,
       GroupType, TransactionsType, InstancesType, HistoryType
  <1>7. ASSUME NEW i \in Instances, NEW p \in Partitions,
               ProcessMessage(i, p) \/ ProcessFails(i, p)
        PROVE  TypeOK'
    <2>0. \/ \E kind \in {"result", "dlq"} : Produce(i, p, kind)
          \/ /\ done' = [done EXCEPT ![i][p] = done[i][p] + 1]
             /\ UNCHANGED <<raw, group_vars, txn_vars, pc, base, upto, crashes>>
      BY <1>7, Zenon DEF ProcessMessage, ProcessFails
    <2>1. /\ done' \in [Instances -> [Partitions -> Nat]]
          /\ pending_writes' \in [Ids -> [Partitions -> Seq(Outputs)]]
      <3>1. CASE \E kind \in {"result", "dlq"} : Produce(i, p, kind)
        BY <3>1, <1>c
      <3>2. CASE /\ done' = [done EXCEPT ![i][p] = done[i][p] + 1]
                 /\ UNCHANGED <<raw, group_vars, txn_vars, pc, base, upto, crashes>>
        BY <1>0a, <3>2 DEF txn_vars
      <3> QED
        BY <2>0, <3>1, <3>2
    <2>2. faults' \in Nat /\ faults' <= MaxFaults
      BY <1>0a, <1>7 DEF ProcessMessage, ProcessFails
    <2>3. UNCHANGED <<raw, group_vars, holder, pending_offsets, output, pc, base, upto, crashes>>
      BY <2>0, Zenon DEF Produce, txn_vars
    <2> QED
      BY <1>0a, <2>1, <2>2, <2>3 DEF group_vars, TypeOK, BrokerType,
         GroupType, TransactionsType, InstancesType, HistoryType
  <1>8. ASSUME NEW i \in Instances, Begin(i)
        PROVE  TypeOK'
    BY <1>0a, <1>8 DEF Begin, group_vars, txn_vars, batch_vars, TypeOK, BrokerType,
       GroupType, TransactionsType, InstancesType, HistoryType
  <1>9. ASSUME NEW i \in Instances, SendOffsets(i)
        PROVE  TypeOK'
    <2>1. [p \in Partitions |-> IF upto[i][p] > base[i][p] THEN upto[i][p] ELSE 0]
            \in [Partitions -> Nat]
      BY <1>0a
    <2> QED
      BY <1>0, <1>0a, <1>9, <2>1 DEF SendOffsets, group_vars, batch_vars, TypeOK, BrokerType,
         GroupType, TransactionsType, InstancesType, HistoryType
  <1>10. ASSUME NEW i \in Instances, Commit(i)
         PROVE  TypeOK'
    BY <1>0, <1>0a, <1>10, <1>a DEF Commit, TypeOK, BrokerType,
       GroupType, TransactionsType, InstancesType, HistoryType
  <1>11. ASSUME NEW i \in Instances, CommitAnswerLost(i)
         PROVE  TypeOK'
    BY <1>0, <1>0a, <1>11, <1>a DEF CommitAnswerLost, Leave, batch_vars, TypeOK, BrokerType,
       GroupType, TransactionsType, InstancesType, HistoryType
  <1>12. ASSUME NEW i \in Instances, CallFails(i) \/ Refused(i)
         PROVE  TypeOK'
    <2>1. Aborted(i) /\ Leave(i) /\ UNCHANGED <<raw, group_offset, holder, output, batch_vars>>
      BY <1>12 DEF CallFails, Refused
    <2>2. faults' \in Nat /\ faults' <= MaxFaults /\ crashes' = crashes
      BY <1>0a, <1>12 DEF CallFails, Refused
    <2> QED
      BY <1>0, <1>0a, <1>b, <2>1, <2>2 DEF Leave, batch_vars, TypeOK, BrokerType,
         GroupType, TransactionsType, InstancesType, HistoryType
  <1>13. ASSUME NEW i \in Instances, Crash(i)
         PROVE  TypeOK'
    BY <1>0a, <1>13 DEF Crash, Leave, txn_vars, batch_vars, TypeOK, BrokerType,
       GroupType, TransactionsType, InstancesType, HistoryType
  <1>14. CASE UNCHANGED vars
    BY <1>0a, <1>14 DEF vars, TypeOK, BrokerType,
       GroupType, TransactionsType, InstancesType, HistoryType
  <1> QED
    BY <1>1, <1>2, <1>3, <1>4, <1>5, <1>6, <1>7, <1>8, <1>9, <1>10, <1>11, <1>12, <1>13, <1>14
       DEF Next, Run, Broker, Failure

\* Type correctness of the processor and of what the broker keeps for it.
THEOREM TypeCorrect == Spec => []TypeOK
  <1> QED
    BY InitType, TypeStep, PTL DEF Spec

-----------------------------------------------------------------------------
(* The invariant holds initially.                                          *)

\* Nothing is in a batch, pending or committed at the start.
LEMMA InitInv == Init => IInv
  <1> SUFFICES ASSUME Init PROVE IInv
    OBVIOUS
  <1>1. TypeOK
    BY InitType
  <1>2. BatchInv
    BY DEF Init, BatchInv, Zero, Nothing
  <1>3. TxnInv
    BY TxnInIds DEF Init, TxnInv, TxnOK
  <1>4. GroupInv
    BY DEF Init, GroupInv
  <1>5. PendingInv
    BY DEF Init, PendingInv, Zero
  <1>6. OutputInv
    BY CoversNothing DEF Init, OutputInv, Zero, Nothing
  <1> QED
    BY <1>1, <1>2, <1>3, <1>4, <1>5, <1>6 DEF IInv

-----------------------------------------------------------------------------
(* The batch.                                                              *)

\* No step takes a loop variable out of its batch or a batch out of the topic.
LEMMA BatchStep ==
    ASSUME IInv, [Next]_vars
    PROVE  BatchInv'
  <1>0. TypeOK /\ BatchInv /\ OutputInv
    BY DEF IInv
  <1>0a. /\ pc \in [Instances -> {"down", "poll", "process", "commit"}]
         /\ base \in [Instances -> [Partitions -> Nat]]
         /\ done \in [Instances -> [Partitions -> Nat]]
         /\ upto \in [Instances -> [Partitions -> Nat]]
         /\ raw \in [Partitions -> Seq(Articles)]
         /\ group_offset \in [Partitions -> Nat]
         /\ \A p \in Partitions : Len(raw[p]) \in Nat
    BY <1>0, TypeFacts
  <1>1. ASSUME NEW p \in Partitions, NEW a \in Articles, Arrive(p, a)
        PROVE  BatchInv'
    <2>1. \A q \in Partitions : Len(raw'[q]) \in Nat /\ Len(raw'[q]) >= Len(raw[q])
      BY <1>0a, <1>1 DEF Arrive
    <2> QED
      BY <1>0, <1>0a, <1>1, <2>1 DEF Arrive, BatchInv, batch_vars
  <1>2. ASSUME \/ UNCHANGED pc
               \/ \E i \in Instances : Leave(i),
               UNCHANGED <<raw, base, done, upto>>
        PROVE  BatchInv'
    BY <1>0, <1>0a, <1>2 DEF BatchInv, Leave
  <1>3. ASSUME NEW i \in Instances, Start(i)
        PROVE  BatchInv'
    BY <1>0, <1>0a, <1>3 DEF BatchInv, Start, Zero
  <1>4. ASSUME NEW i \in Instances, NEW p \in Partitions, Resolve(i, p)
        PROVE  BatchInv'
    BY <1>0, <1>0a, <1>4 DEF BatchInv, Resolve, OutputInv
  <1>5. ASSUME NEW i \in Instances, NEW p \in Partitions, Fetch(i, p)
        PROVE  BatchInv'
    BY <1>0, <1>0a, <1>5 DEF BatchInv, Fetch
  <1>6. ASSUME NEW i \in Instances, NEW p \in Partitions, Handling(i, p),
               done' = [done EXCEPT ![i][p] = done[i][p] + 1],
               UNCHANGED <<raw, pc, base, upto>>
        PROVE  BatchInv'
    BY <1>0, <1>0a, <1>6 DEF BatchInv, Handling
  <1>7. ASSUME NEW i \in Instances, Begin(i)
        PROVE  BatchInv'
    BY <1>0, <1>0a, <1>7 DEF BatchInv, Begin, batch_vars
  <1>8. ASSUME NEW i \in Instances, SendOffsets(i)
        PROVE  BatchInv'
    BY <1>0, <1>0a, <1>8 DEF BatchInv, SendOffsets, batch_vars
  <1>9. ASSUME NEW i \in Instances, Commit(i)
        PROVE  BatchInv'
    BY <1>0, <1>0a, <1>9 DEF BatchInv, Commit
  <1>10. ASSUME NEW i \in Instances, NEW p \in Partitions,
                ProcessMessage(i, p) \/ ProcessFails(i, p)
         PROVE  BatchInv'
    BY <1>6, <1>10 DEF ProcessMessage, ProcessFails, Produce
  <1>11. ASSUME NEW a \in [Partitions -> Instances], Rebalance(a)
         PROVE  BatchInv'
    BY <1>2, <1>11 DEF Rebalance, batch_vars
  <1>12. ASSUME NEW d \in Ids, TimeOut(d)
         PROVE  BatchInv'
    BY <1>2, <1>12 DEF TimeOut, batch_vars
  <1>13. ASSUME NEW i \in Instances,
                CommitAnswerLost(i) \/ CallFails(i) \/ Refused(i) \/ Crash(i)
         PROVE  BatchInv'
    BY <1>2, <1>13 DEF CommitAnswerLost, CallFails, Refused, Crash, batch_vars
  <1>14. CASE UNCHANGED vars
    BY <1>2, <1>14 DEF vars
  <1> QED
    BY <1>1, <1>3, <1>4, <1>5, <1>7, <1>8, <1>9, <1>10, <1>11, <1>12, <1>13, <1>14
       DEF Next, Run, Broker, Failure

-----------------------------------------------------------------------------
(* The open transaction.                                                   *)

\* The broker accepts one instance per id.
LEMMA OneHolder ==
    ASSUME NEW i \in Instances, NEW j \in Instances, Current(i), Current(j), i # j
    PROVE  Txn(i) # Txn(j)
  BY DEF Current

\* What TxnOK says depends on nothing but the instance, its id and the partition.
LEMMA TxnFrame ==
    ASSUME NEW j \in Instances, NEW q \in Partitions, TxnOK(j, q),
           pc'[j] = pc[j],
           pending_writes'[Txn(j)][q] = pending_writes[Txn(j)][q],
           pending_offsets'[Txn(j)][q] = pending_offsets[Txn(j)][q],
           raw'[q] = raw[q], base'[j][q] = base[j][q], done'[j][q] = done[j][q],
           upto'[j][q] = upto[j][q],
           pc[j] = "commit" /\ InBatch(j, q) => group_offset'[q] = group_offset[q]
    PROVE  TxnOK(j, q)'
  BY DEF TxnOK, InBatch, Txn

\* One message of p handled, with or without an output.
LEMMA TxnHandled ==
    ASSUME IInv, NEW i \in Instances, NEW p \in Partitions,
           ProcessMessage(i, p) \/ ProcessFails(i, p)
    PROVE  TxnInv'
  <1>0. TypeOK /\ BatchInv /\ TxnInv
    BY DEF IInv
  <1>0a. /\ pending_writes \in [Ids -> [Partitions -> Seq(Outputs)]]
         /\ pc \in [Instances -> {"down", "poll", "process", "commit"}]
         /\ base \in [Instances -> [Partitions -> Nat]]
         /\ done \in [Instances -> [Partitions -> Nat]]
         /\ \A j \in Instances : Txn(j) \in Ids
    BY <1>0, TypeFacts, TxnInIds
  <1>1. Handling(i, p)
    BY DEF ProcessMessage, ProcessFails
  <1>2. UNCHANGED <<raw, pc, base, upto, holder, pending_offsets, group_offset>>
    BY Zenon DEF ProcessMessage, ProcessFails, Produce, txn_vars, group_vars
  <1>3. done' = [done EXCEPT ![i][p] = done[i][p] + 1]
    BY Zenon DEF ProcessMessage, ProcessFails, Produce
  <1>4. \/ /\ pending_writes' = pending_writes
           /\ raw[p][done[i][p] + 1] = "rejected"
        \/ \E r \in Outputs :
             /\ pending_writes' = [pending_writes EXCEPT ![Txn(i)][p] =
                                     Append(pending_writes[Txn(i)][p], r)]
             /\ r.off = done[i][p] + 1
             /\ raw[p][done[i][p] + 1] # "rejected"
             /\ raw[p][done[i][p] + 1] = "bad" => r.kind = "dlq"
    <2>1. ASSUME NEW kind \in {"result", "dlq"}, Produce(i, p, kind)
          PROVE  /\ OutputOf(i, p, kind) \in Outputs
                 /\ OutputOf(i, p, kind).off = done[i][p] + 1
                 /\ OutputOf(i, p, kind).kind = kind
                 /\ pending_writes' = [pending_writes EXCEPT ![Txn(i)][p] =
                                     Append(pending_writes[Txn(i)][p], OutputOf(i, p, kind))]
      BY <1>0a, <2>1 DEF OutputOf, Outputs, Produce
    <2>2. CASE raw[p][done[i][p] + 1] = "good" /\ Produce(i, p, "result")
      BY <2>1, <2>2
    <2>3. CASE raw[p][done[i][p] + 1] \in {"good", "bad"} /\ Produce(i, p, "dlq")
      BY <2>1, <2>3
    <2>4. CASE raw[p][done[i][p] + 1] = "rejected" /\ UNCHANGED txn_vars
      BY <2>4 DEF txn_vars
    <2> QED
      <3>1. \/ raw[p][done[i][p] + 1] = "good" /\ Produce(i, p, "result")
            \/ raw[p][done[i][p] + 1] = "bad" /\ Produce(i, p, "dlq")
            \/ raw[p][done[i][p] + 1] = "good" /\ Produce(i, p, "dlq")
            \/ raw[p][done[i][p] + 1] = "rejected" /\ UNCHANGED txn_vars
        BY Zenon DEF ProcessMessage, ProcessFails
      <3> QED
        BY <2>2, <2>3, <2>4, <3>1
  <1> SUFFICES ASSUME NEW j \in Instances, NEW q \in Partitions, Current(j)'
               PROVE  TxnOK(j, q)'
    BY DEF TxnInv
  <1>5. Current(j) /\ Current(i) /\ TxnOK(j, q)
    <2>1. Current(j)
      BY <1>2 DEF Current, Txn
    <2>2. Current(i)
      BY <1>1 DEF Handling
    <2> QED
      BY <1>0, <2>1, <2>2 DEF TxnInv
  <1>6. CASE j # i \/ q # p
    <2>1. done'[j][q] = done[j][q]
      BY <1>0a, <1>3, <1>6
    <2>2. pending_writes'[Txn(j)][q] = pending_writes[Txn(j)][q]
      <3>1. j # i => Txn(j) # Txn(i)
        BY <1>5, OneHolder
      <3>2. \/ pending_writes' = pending_writes
            \/ \E v : pending_writes' = [pending_writes EXCEPT ![Txn(i)][p] = v]
        BY <1>4
      <3>3. CASE pending_writes' = pending_writes
        BY <3>3
      <3>4. ASSUME NEW v, pending_writes' = [pending_writes EXCEPT ![Txn(i)][p] = v]
            PROVE  pending_writes'[Txn(j)][q] = pending_writes[Txn(j)][q]
        <4>1. CASE Txn(j) # Txn(i)
          BY <1>0a, <3>4, <4>1
        <4>2. CASE q # p
          BY <1>0a, <3>4, <4>2
        <4> QED
          BY <1>6, <3>1, <4>1, <4>2
      <3> QED
        BY <3>2, <3>3, <3>4
    <2> QED
      BY <1>2, <1>5, <2>1, <2>2, TxnFrame
  <1>7. CASE j = i /\ q = p
    <2> DEFINE w == pending_writes[Txn(i)][p]
    <2>1. /\ w \in Seq(Outputs)
          /\ base[i][p] \in Nat /\ done[i][p] \in Nat /\ base[i][p] <= done[i][p]
          /\ pc[i] = "process" /\ EO!Covers(w, raw[p], base[i][p], done[i][p])
      BY <1>0, <1>0a, <1>1, <1>5, <1>7 DEF BatchInv, TxnOK, Handling
    <2>2. done'[i][p] = done[i][p] + 1
      BY <1>0a, <1>3
    <2>3. EO!Covers(pending_writes'[Txn(i)][p], raw[p], base[i][p], done[i][p] + 1)
      <3>1. CASE pending_writes' = pending_writes /\ raw[p][done[i][p] + 1] = "rejected"
        BY <2>1, <3>1, CoversSkip
      <3>2. ASSUME NEW r \in Outputs,
                   pending_writes' = [pending_writes EXCEPT ![Txn(i)][p] = Append(w, r)],
                   r.off = done[i][p] + 1, raw[p][done[i][p] + 1] # "rejected",
                   raw[p][done[i][p] + 1] = "bad" => r.kind = "dlq"
            PROVE  EO!Covers(pending_writes'[Txn(i)][p], raw[p], base[i][p], done[i][p] + 1)
        <4>1. pending_writes'[Txn(i)][p] = Append(w, r)
          BY <1>0a, <3>2
        <4>2. EO!Covers(Append(w, r), raw[p], base[i][p], done[i][p] + 1)
          BY <2>1, <3>2, CoversAppend
        <4> QED
          BY <4>1, <4>2
      <3> QED
        BY <1>4, <3>1, <3>2
    <2>4. pending_offsets'[Txn(i)][p] = 0 /\ pc'[i] = "process"
      BY <1>2, <1>5, <1>7, <2>1 DEF TxnOK
    <2>5. raw'[p] = raw[p] /\ base'[i][p] = base[i][p]
      BY <1>2
    <2> QED
      BY <1>7, <2>2, <2>3, <2>4, <2>5 DEF TxnOK, Txn
  <1> QED
    BY <1>6, <1>7

\* The commit makes the transaction of i empty and leaves the others alone.
LEMMA CommitFrame ==
    ASSUME IInv, NEW i \in Instances, pc[i] = "commit", Current(i), Committed(Txn(i)),
           NEW j \in Instances, NEW q \in Partitions, Current(j), j # i
    PROVE  /\ pending_writes'[Txn(j)][q] = pending_writes[Txn(j)][q]
           /\ pending_offsets'[Txn(j)][q] = pending_offsets[Txn(j)][q]
           /\ pc[j] = "commit" /\ InBatch(j, q) => group_offset'[q] = group_offset[q]
  <1>0. TypeOK /\ TxnInv /\ PendingInv
    BY DEF IInv
  <1>0a. /\ pending_writes \in [Ids -> [Partitions -> Seq(Outputs)]]
         /\ pending_offsets \in [Ids -> [Partitions -> Nat]]
         /\ base \in [Instances -> [Partitions -> Nat]]
         /\ upto \in [Instances -> [Partitions -> Nat]]
         /\ Txn(i) \in Ids /\ Txn(j) \in Ids /\ Txn(i) # Txn(j)
    BY <1>0, TypeFacts, TxnInIds, OneHolder
  <1>1. /\ pending_writes'[Txn(j)][q] = pending_writes[Txn(j)][q]
        /\ pending_offsets'[Txn(j)][q] = pending_offsets[Txn(j)][q]
    BY <1>0a DEF Committed
  <1>2. ASSUME pc[j] = "commit", InBatch(j, q)
        PROVE  group_offset'[q] = group_offset[q]
    <2>1. pending_offsets[Txn(j)][q] = upto[j][q] /\ upto[j][q] # 0
      BY <1>0, <1>0a, <1>2 DEF TxnInv, TxnOK, InBatch
    <2>2. pending_offsets[Txn(i)][q] = 0
      BY <1>0, <1>0a, <2>1 DEF PendingInv
    <2> QED
      BY <2>2 DEF Committed
  <1> QED
    BY <1>1, <1>2

\* Whatever happens, the open transaction of a current instance is its batch so far.
LEMMA TxnStep ==
    ASSUME IInv, [Next]_vars
    PROVE  TxnInv'
  <1>0. TypeOK /\ BatchInv /\ TxnInv /\ GroupInv /\ PendingInv
    BY DEF IInv
  <1>0a. /\ pending_writes \in [Ids -> [Partitions -> Seq(Outputs)]]
         /\ pending_offsets \in [Ids -> [Partitions -> Nat]]
         /\ holder \in [Ids -> Instances \cup {Nobody}]
         /\ pc \in [Instances -> {"down", "poll", "process", "commit"}]
         /\ base \in [Instances -> [Partitions -> Nat]]
         /\ done \in [Instances -> [Partitions -> Nat]]
         /\ upto \in [Instances -> [Partitions -> Nat]]
         /\ raw \in [Partitions -> Seq(Articles)]
         /\ members \subseteq Instances
         /\ \A j \in Instances : Txn(j) \in Ids
    BY <1>0, TypeFacts, TxnInIds
  <1>1. ASSUME NEW p \in Partitions, NEW a \in Articles, Arrive(p, a)
        PROVE  TxnInv'
    <2>1. UNCHANGED <<group_offset, holder, pending_writes, pending_offsets, pc, base, done, upto>>
      BY <1>1 DEF Arrive, group_vars, txn_vars, batch_vars
    <2> SUFFICES ASSUME NEW j \in Instances, NEW q \in Partitions, Current(j)'
                 PROVE  TxnOK(j, q)'
      BY DEF TxnInv
    <2>2. Current(j)
      BY <2>1 DEF Current, Txn
    <2>3. TxnOK(j, q)
      BY <1>0, <2>2 DEF TxnInv
    <2>4. CASE q # p
      <3>1. raw'[q] = raw[q]
        BY <1>1, <2>4 DEF Arrive
      <3> QED
        BY <2>1, <2>3, <3>1, TxnFrame
    <2>5. CASE q = p
      <3>1. raw'[p] = Append(raw[p], a) /\ raw[p] \in Seq(Articles)
        BY <1>0a, <1>1 DEF Arrive
      <3>2. /\ base[j][p] \in Nat /\ done[j][p] \in Nat
            /\ done[j][p] <= Len(raw[p]) /\ pending_writes[Txn(j)][p] \in Seq(Outputs)
        BY <1>0, <1>0a DEF BatchInv
      <3>3. pc[j] \in {"process", "commit"} =>
              EO!Covers(pending_writes[Txn(j)][p], raw'[p], base[j][p], done[j][p])
        BY <2>3, <2>5, <3>1, <3>2, CoversGrow DEF TxnOK
      <3> QED
        BY <2>1, <2>3, <2>5, <3>3 DEF TxnOK, InBatch, Txn
    <2> QED
      BY <2>4, <2>5
  <1>2. ASSUME UNCHANGED <<raw, group_offset, holder, pending_writes, pending_offsets,
                           pc, base, done, upto>>
        PROVE  TxnInv'
    BY <1>0, <1>2 DEF TxnInv, TxnOK, InBatch, Current, Txn
  <1>3. ASSUME NEW d \in Ids, TimeOut(d)
        PROVE  TxnInv'
    <2>1. /\ holder' = [holder EXCEPT ![d] = Nobody]
          /\ pending_writes' = [pending_writes EXCEPT ![d] = Nothing]
          /\ pending_offsets' = [pending_offsets EXCEPT ![d] = Zero]
          /\ UNCHANGED <<raw, group_offset, pc, base, done, upto>>
      BY <1>3 DEF TimeOut, group_vars, batch_vars
    <2> SUFFICES ASSUME NEW j \in Instances, NEW q \in Partitions, Current(j)'
                 PROVE  TxnOK(j, q)'
      BY DEF TxnInv
    <2>2. Txn(j) # d /\ Current(j)
      BY <1>0a, <2>1, NobodyAssumption DEF Current, Txn
    <2>3. TxnOK(j, q)
      BY <1>0, <2>2 DEF TxnInv
    <2>4. /\ pending_writes'[Txn(j)][q] = pending_writes[Txn(j)][q]
          /\ pending_offsets'[Txn(j)][q] = pending_offsets[Txn(j)][q]
      BY <1>0a, <2>1, <2>2
    <2> QED
      BY <2>1, <2>3, <2>4, TxnFrame
  <1>4. ASSUME NEW i \in Instances, Start(i)
        PROVE  TxnInv'
    <2>1. /\ pc' = [pc EXCEPT ![i] = "poll"]
          /\ holder' = [holder EXCEPT ![Txn(i)] = i]
          /\ pending_writes' = [pending_writes EXCEPT ![Txn(i)] = Nothing]
          /\ pending_offsets' = [pending_offsets EXCEPT ![Txn(i)] = Zero]
          /\ base' = [base EXCEPT ![i] = Zero]
          /\ done' = [done EXCEPT ![i] = Zero]
          /\ upto' = [upto EXCEPT ![i] = Zero]
          /\ UNCHANGED <<raw, group_offset>>
      BY <1>4 DEF Start, group_vars
    <2> SUFFICES ASSUME NEW j \in Instances, NEW q \in Partitions, Current(j)'
                 PROVE  TxnOK(j, q)'
      BY DEF TxnInv
    <2>2. CASE j = i
      <3>1. /\ pc'[j] = "poll" /\ pending_writes'[Txn(j)][q] = <<>>
            /\ pending_offsets'[Txn(j)][q] = 0
        BY <1>0a, <2>1, <2>2 DEF Nothing, Zero
      <3> QED
        BY <3>1 DEF TxnOK, Txn
    <2>3. CASE j # i
      <3>1. Txn(j) # Txn(i) /\ Current(j)
        BY <1>0a, <2>1, <2>3 DEF Current, Txn
      <3>2. TxnOK(j, q)
        BY <1>0, <3>1 DEF TxnInv
      <3>3. /\ pending_writes'[Txn(j)][q] = pending_writes[Txn(j)][q]
            /\ pending_offsets'[Txn(j)][q] = pending_offsets[Txn(j)][q]
            /\ pc'[j] = pc[j] /\ base'[j] = base[j] /\ done'[j] = done[j] /\ upto'[j] = upto[j]
        BY <1>0a, <2>1, <2>3, <3>1
      <3> QED
        BY <2>1, <3>2, <3>3, TxnFrame
    <2> QED
      BY <2>2, <2>3
  <1>5. ASSUME NEW i \in Instances, NEW p \in Partitions, Resolve(i, p) \/ Fetch(i, p)
        PROVE  TxnInv'
    <2>1. /\ pc[i] = "poll"
          /\ UNCHANGED <<raw, group_offset, holder, pending_writes, pending_offsets, pc>>
          /\ \A j \in Instances : j # i =>
                base'[j] = base[j] /\ done'[j] = done[j] /\ upto'[j] = upto[j]
      BY <1>0a, <1>5 DEF Resolve, Fetch, group_vars, txn_vars
    <2> SUFFICES ASSUME NEW j \in Instances, NEW q \in Partitions, Current(j)'
                 PROVE  TxnOK(j, q)'
      BY DEF TxnInv
    <2>2. Current(j)
      BY <2>1 DEF Current, Txn
    <2>3. TxnOK(j, q)
      BY <1>0, <2>2 DEF TxnInv
    <2>4. CASE j = i
      BY <2>1, <2>3, <2>4 DEF TxnOK, Txn
    <2>5. CASE j # i
      BY <2>1, <2>3, <2>5, TxnFrame
    <2> QED
      BY <2>4, <2>5
  <1>6. ASSUME NEW i \in Instances, Begin(i)
        PROVE  TxnInv'
    <2>1. /\ pc[i] = "poll" /\ pc' = [pc EXCEPT ![i] = "process"]
          /\ UNCHANGED <<raw, group_offset, holder, pending_writes, pending_offsets,
                          base, done, upto>>
      BY <1>6 DEF Begin, group_vars, txn_vars, batch_vars
    <2> SUFFICES ASSUME NEW j \in Instances, NEW q \in Partitions, Current(j)'
                 PROVE  TxnOK(j, q)'
      BY DEF TxnInv
    <2>2. Current(j)
      BY <2>1 DEF Current, Txn
    <2>3. TxnOK(j, q)
      BY <1>0, <2>2 DEF TxnInv
    <2>4. CASE j = i
      <3>1. /\ pending_writes[Txn(j)][q] = <<>> /\ pending_offsets[Txn(j)][q] = 0
            /\ base[j][q] \in Nat /\ done[j][q] = base[j][q] /\ pc'[j] = "process"
        BY <1>0, <1>0a, <2>1, <2>3, <2>4 DEF TxnOK, BatchInv
      <3>2. EO!Covers(pending_writes[Txn(j)][q], raw[q], base[j][q], done[j][q])
        BY <3>1, CoversNothing
      <3> QED
        BY <2>1, <3>1, <3>2 DEF TxnOK, Txn
    <2>5. CASE j # i
      <3>1. pc'[j] = pc[j]
        BY <2>1, <2>5
      <3> QED
        BY <2>1, <2>3, <3>1, TxnFrame
    <2> QED
      BY <2>4, <2>5
  <1>7. ASSUME NEW i \in Instances, SendOffsets(i)
        PROVE  TxnInv'
    <2>1. /\ pc[i] = "process" /\ i \in members /\ Current(i)
          /\ pc' = [pc EXCEPT ![i] = "commit"]
          /\ pending_offsets' = [pending_offsets EXCEPT ![Txn(i)] =
                [p \in Partitions |-> IF upto[i][p] > base[i][p] THEN upto[i][p] ELSE 0]]
          /\ UNCHANGED <<raw, group_offset, holder, pending_writes, base, done, upto>>
      BY <1>7 DEF SendOffsets, group_vars, batch_vars
    <2> SUFFICES ASSUME NEW j \in Instances, NEW q \in Partitions, Current(j)'
                 PROVE  TxnOK(j, q)'
      BY DEF TxnInv
    <2>2. Current(j)
      BY <2>1 DEF Current, Txn
    <2>3. TxnOK(j, q)
      BY <1>0, <2>2 DEF TxnInv
    <2>4. CASE j = i
      <3>1. InBatch(i, q) => base[i][q] = group_offset[q]
        BY <1>0, <2>1 DEF GroupInv
      <3>2. /\ pc'[i] = "commit"
            /\ pending_offsets'[Txn(i)][q] = IF upto[i][q] > base[i][q] THEN upto[i][q] ELSE 0
        BY <1>0a, <2>1
      <3> QED
        BY <2>1, <2>3, <2>4, <3>1, <3>2 DEF TxnOK, Txn, InBatch
    <2>5. CASE j # i
      <3>1. Txn(j) # Txn(i)
        BY <2>1, <2>2, <2>5, OneHolder
      <3>2. /\ pc'[j] = pc[j]
            /\ pending_offsets'[Txn(j)][q] = pending_offsets[Txn(j)][q]
        BY <1>0a, <2>1, <2>5, <3>1
      <3> QED
        BY <2>1, <2>3, <3>2, TxnFrame
    <2> QED
      BY <2>4, <2>5
  <1>8. ASSUME NEW i \in Instances, Commit(i)
        PROVE  TxnInv'
    <2>1. /\ pc[i] = "commit" /\ Current(i) /\ Committed(Txn(i))
          /\ pc' = [pc EXCEPT ![i] = "poll"]
          /\ base' = [base EXCEPT ![i] = upto[i]]
          /\ UNCHANGED <<raw, holder, done, upto>>
      BY <1>8 DEF Commit
    <2> SUFFICES ASSUME NEW j \in Instances, NEW q \in Partitions, Current(j)'
                 PROVE  TxnOK(j, q)'
      BY DEF TxnInv
    <2>2. Current(j)
      BY <2>1 DEF Current, Txn
    <2>3. TxnOK(j, q)
      BY <1>0, <2>2 DEF TxnInv
    <2>4. CASE j = i
      <3>1. /\ pc'[j] = "poll" /\ pending_writes'[Txn(j)][q] = <<>>
            /\ pending_offsets'[Txn(j)][q] = 0
        BY <1>0a, <2>1, <2>4 DEF Committed, Nothing, Zero
      <3> QED
        BY <3>1 DEF TxnOK, Txn
    <2>5. CASE j # i
      <3>1. pc'[j] = pc[j] /\ base'[j] = base[j]
        BY <1>0a, <2>1, <2>5
      <3>2. /\ pending_writes'[Txn(j)][q] = pending_writes[Txn(j)][q]
            /\ pending_offsets'[Txn(j)][q] = pending_offsets[Txn(j)][q]
            /\ pc[j] = "commit" /\ InBatch(j, q) => group_offset'[q] = group_offset[q]
        BY <2>1, <2>2, <2>5, CommitFrame
      <3> QED
        BY <2>1, <2>3, <3>1, <3>2, TxnFrame
    <2> QED
      BY <2>4, <2>5
  <1>9. ASSUME NEW i \in Instances, CommitAnswerLost(i)
        PROVE  TxnInv'
    <2>1. /\ pc[i] = "commit" /\ Current(i) /\ Committed(Txn(i))
          /\ pc' = [pc EXCEPT ![i] = "down"]
          /\ UNCHANGED <<raw, holder, base, done, upto>>
      BY <1>9 DEF CommitAnswerLost, Leave, batch_vars
    <2> SUFFICES ASSUME NEW j \in Instances, NEW q \in Partitions, Current(j)'
                 PROVE  TxnOK(j, q)'
      BY DEF TxnInv
    <2>2. Current(j)
      BY <2>1 DEF Current, Txn
    <2>3. TxnOK(j, q)
      BY <1>0, <2>2 DEF TxnInv
    <2>4. CASE j = i
      BY <1>0a, <2>1, <2>4 DEF TxnOK
    <2>5. CASE j # i
      <3>1. pc'[j] = pc[j]
        BY <2>1, <2>5
      <3>2. /\ pending_writes'[Txn(j)][q] = pending_writes[Txn(j)][q]
            /\ pending_offsets'[Txn(j)][q] = pending_offsets[Txn(j)][q]
            /\ pc[j] = "commit" /\ InBatch(j, q) => group_offset'[q] = group_offset[q]
        BY <2>1, <2>2, <2>5, CommitFrame
      <3> QED
        BY <2>1, <2>3, <3>1, <3>2, TxnFrame
    <2> QED
      BY <2>4, <2>5
  <1>10. ASSUME NEW i \in Instances,
                Aborted(i) \/ UNCHANGED <<pending_writes, pending_offsets>>,
                Leave(i), UNCHANGED <<raw, group_offset, holder, base, done, upto>>
         PROVE  TxnInv'
    <2> SUFFICES ASSUME NEW j \in Instances, NEW q \in Partitions, Current(j)'
                 PROVE  TxnOK(j, q)'
      BY DEF TxnInv
    <2>2. Current(j)
      BY <1>10 DEF Current, Txn
    <2>3. TxnOK(j, q)
      BY <1>0, <2>2 DEF TxnInv
    <2>4. CASE j = i
      BY <1>0a, <1>10, <2>4 DEF TxnOK, Leave
    <2>5. CASE j # i
      <3>1. pc'[j] = pc[j]
        BY <1>10, <2>5 DEF Leave
      <3>2. /\ pending_writes'[Txn(j)][q] = pending_writes[Txn(j)][q]
            /\ pending_offsets'[Txn(j)][q] = pending_offsets[Txn(j)][q]
        BY <1>0a, <1>10, <2>2, <2>5, OneHolder DEF Aborted
      <3> QED
        BY <1>10, <2>3, <3>1, <3>2, TxnFrame
    <2> QED
      BY <2>4, <2>5
  <1>11. ASSUME NEW i \in Instances, CallFails(i) \/ Refused(i) \/ Crash(i)
         PROVE  TxnInv'
    BY <1>10, <1>11 DEF CallFails, Refused, Crash, batch_vars, txn_vars
  <1>12. ASSUME NEW i \in Instances, NEW p \in Partitions,
                ProcessMessage(i, p) \/ ProcessFails(i, p)
         PROVE  TxnInv'
    BY <1>12, TxnHandled
  <1>13. ASSUME NEW a \in [Partitions -> Instances], Rebalance(a)
         PROVE  TxnInv'
    BY <1>2, <1>13 DEF Rebalance, txn_vars, batch_vars
  <1>14. CASE UNCHANGED vars
    BY <1>2, <1>14 DEF vars
  <1> QED
    BY <1>1, <1>3, <1>4, <1>5, <1>6, <1>7, <1>8, <1>9, <1>11, <1>12, <1>13, <1>14
       DEF Next, Run, Broker, Failure

-----------------------------------------------------------------------------
(* The group.                                                              *)

\* Expulsion, assignment and commits keep members where the group stands.
LEMMA GroupStep ==
    ASSUME IInv, [Next]_vars
    PROVE  GroupInv'
  <1>0. TypeOK /\ BatchInv /\ TxnInv /\ GroupInv /\ PendingInv
    BY DEF IInv
  <1>0a. /\ pending_offsets \in [Ids -> [Partitions -> Nat]]
         /\ pc \in [Instances -> {"down", "poll", "process", "commit"}]
         /\ base \in [Instances -> [Partitions -> Nat]]
         /\ done \in [Instances -> [Partitions -> Nat]]
         /\ upto \in [Instances -> [Partitions -> Nat]]
         /\ group_offset \in [Partitions -> Nat]
         /\ members \subseteq Instances
         /\ resolved \subseteq Partitions
         /\ owner \in [Partitions -> Instances \cup {Nobody}]
         /\ \A j \in Instances : Txn(j) \in Ids
    BY <1>0, TypeFacts, TxnInIds
  <1>1. ASSUME UNCHANGED <<group_offset, members, owner, resolved, base, upto>>,
               \A i \in members : pc'[i] # "down"
        PROVE  GroupInv'
    BY <1>0, <1>1 DEF GroupInv, InBatch
  <1>2. ASSUME NEW a \in [Partitions -> Instances], Rebalance(a)
        PROVE  GroupInv'
    <2>1. /\ \A i \in members' : i \in Instances /\ pc[i] = "poll" /\ upto[i] = base[i]
          /\ resolved' = {}
          /\ UNCHANGED <<pc, base, upto>>
      BY <1>2 DEF Rebalance, Polling, batch_vars
    <2> QED
      BY <1>0a, <2>1 DEF GroupInv, InBatch
  <1>3. ASSUME NEW i \in Instances, Start(i)
        PROVE  GroupInv'
    <2>1. /\ i \notin members /\ pc' = [pc EXCEPT ![i] = "poll"]
          /\ base' = [base EXCEPT ![i] = Zero]
          /\ upto' = [upto EXCEPT ![i] = Zero]
          /\ UNCHANGED <<group_offset, members, owner, resolved>>
      BY <1>0, <1>3 DEF Start, GroupInv, group_vars
    <2>2. \A j \in members : pc'[j] = pc[j] /\ base'[j] = base[j] /\ upto'[j] = upto[j]
      BY <1>0a, <2>1
    <2> QED
      BY <1>0, <2>1, <2>2 DEF GroupInv, InBatch
  <1>4. ASSUME NEW i \in Instances, NEW p \in Partitions, Resolve(i, p)
        PROVE  GroupInv'
    <2>1. /\ i \in members /\ owner[p] = i /\ p \notin resolved /\ resolved' = resolved \cup {p}
          /\ base' = [base EXCEPT ![i][p] = group_offset[p]]
          /\ upto' = [upto EXCEPT ![i][p] = group_offset[p]]
          /\ UNCHANGED <<group_offset, members, owner, pc>>
      BY <1>4 DEF Resolve
    <2>2. /\ base'[i][p] = group_offset[p] /\ upto'[i][p] = group_offset[p]
          /\ \A j \in Instances, q \in Partitions :
                j # i \/ q # p => base'[j][q] = base[j][q] /\ upto'[j][q] = upto[j][q]
      BY <1>0a, <2>1
    <2>3. \A j \in members' : pc'[j] # "down"
      BY <1>0, <2>1 DEF GroupInv
    <2>4. ASSUME NEW j \in members', NEW q \in Partitions, InBatch(j, q)'
          PROVE  owner'[q] = j /\ q \in resolved'
      BY <1>0, <1>0a, <2>1, <2>2, <2>4 DEF GroupInv, InBatch
    <2>5. ASSUME NEW q \in resolved', owner'[q] \in members'
          PROVE  base'[owner'[q]][q] = group_offset'[q]
      BY <1>0, <1>0a, <2>1, <2>2, <2>5 DEF GroupInv
    <2> QED
      BY <2>3, <2>4, <2>5 DEF GroupInv
  <1>5. ASSUME NEW i \in Instances, NEW p \in Partitions, Fetch(i, p)
        PROVE  GroupInv'
    <2>1. /\ i \in members /\ owner[p] = i /\ p \in resolved
          /\ upto' = [upto EXCEPT ![i][p] = upto[i][p] + 1]
          /\ UNCHANGED <<group_offset, members, owner, resolved, pc, base>>
      BY <1>5 DEF Fetch, group_vars
    <2>2. \A j \in Instances, q \in Partitions : j # i \/ q # p => upto'[j][q] = upto[j][q]
      BY <1>0a, <2>1
    <2>4. ASSUME NEW j \in members', NEW q \in Partitions, InBatch(j, q)'
          PROVE  owner'[q] = j /\ q \in resolved'
      BY <1>0, <1>0a, <2>1, <2>2, <2>4 DEF GroupInv, InBatch
    <2> QED
      BY <1>0, <2>1, <2>4 DEF GroupInv
  <1>6. ASSUME NEW i \in Instances, Leave(i), UNCHANGED <<group_offset, base, upto>>
        PROVE  GroupInv'
    BY <1>0, <1>0a, <1>6 DEF GroupInv, InBatch, Leave
  <1>7. ASSUME NEW i \in Instances, pc[i] = "commit", Current(i), Committed(Txn(i)),
               NEW j \in members, NEW q \in resolved, owner[q] = j, j # i
        PROVE  group_offset'[q] = group_offset[q]
    <2>1. ASSUME pending_offsets[Txn(i)][q] # 0
          PROVE  FALSE
      <3>1. Txn(j) = Txn(i) /\ Current(j)
        BY <1>0, <1>0a, <1>7, <2>1 DEF PendingInv
      <3> QED
        BY <1>0a, <1>7, <3>1, OneHolder
    <2> QED
      BY <1>0a, <1>7, <2>1 DEF Committed
  <1>8. ASSUME NEW i \in Instances, Commit(i)
        PROVE  GroupInv'
    <2>1. /\ pc[i] = "commit" /\ Current(i) /\ Committed(Txn(i))
          /\ pc' = [pc EXCEPT ![i] = "poll"]
          /\ base' = [base EXCEPT ![i] = upto[i]]
          /\ UNCHANGED <<members, owner, resolved, upto>>
      BY <1>8 DEF Commit
    <2>2. \A j \in members' : pc'[j] # "down"
      BY <1>0, <1>0a, <2>1 DEF GroupInv
    <2>3. ASSUME NEW j \in members', NEW q \in Partitions, InBatch(j, q)'
          PROVE  owner'[q] = j /\ q \in resolved'
      <3>1. j # i
        BY <1>0a, <2>1, <2>3 DEF InBatch
      <3>2. InBatch(j, q)
        BY <1>0a, <2>1, <2>3, <3>1 DEF InBatch
      <3> QED
        BY <1>0, <2>1, <3>2 DEF GroupInv
    <2>4. ASSUME NEW q \in resolved', owner'[q] \in members'
          PROVE  base'[owner'[q]][q] = group_offset'[q]
      <3>1. CASE owner[q] # i
        <4>1. group_offset'[q] = group_offset[q]
          BY <1>7, <2>1, <2>4, <3>1
        <4>2. base'[owner[q]] = base[owner[q]]
          BY <1>0a, <2>1, <2>4, <3>1
        <4> QED
          BY <1>0, <2>1, <2>4, <4>1, <4>2 DEF GroupInv
      <3>2. CASE owner[q] = i
        <4>0. q \in Partitions
          BY <1>0a, <2>1
        <4>1. base[i][q] = group_offset[q]
          BY <1>0, <2>1, <2>4, <3>2 DEF GroupInv
        <4>2. pending_offsets[Txn(i)][q] = IF InBatch(i, q) THEN upto[i][q] ELSE 0
          BY <1>0, <2>1, <4>0 DEF TxnInv, TxnOK
        <4>3. base'[i][q] = upto[i][q]
          BY <1>0a, <2>1
        <4>4. upto[i][q] >= base[i][q]
          BY <1>0, <1>0a, <4>0 DEF BatchInv
        <4>4a. upto[i][q] \in Nat /\ base[i][q] \in Nat
          BY <1>0a, <4>0
        <4>4b. group_offset'[q] = IF pending_offsets[Txn(i)][q] # 0
                                  THEN pending_offsets[Txn(i)][q] ELSE group_offset[q]
          BY <2>1, <4>0 DEF Committed
        <4>5. upto[i][q] = group_offset'[q]
          BY <4>1, <4>2, <4>4, <4>4a, <4>4b DEF InBatch
        <4> QED
          BY <2>1, <3>2, <4>3, <4>5
      <3> QED
        BY <3>1, <3>2
    <2> QED
      BY <2>2, <2>3, <2>4 DEF GroupInv
  <1>9. ASSUME NEW i \in Instances, CommitAnswerLost(i)
        PROVE  GroupInv'
    <2>1. /\ pc[i] = "commit" /\ Current(i) /\ Committed(Txn(i)) /\ Leave(i)
          /\ UNCHANGED <<base, upto>>
      BY <1>9 DEF CommitAnswerLost, batch_vars
    <2>2. \A q \in resolved : owner[q] \in members' => group_offset'[q] = group_offset[q]
      BY <1>7, <2>1 DEF Leave
    <2> QED
      BY <1>0, <1>0a, <2>1, <2>2 DEF GroupInv, InBatch, Leave
  <1>10. ASSUME NEW i \in Instances, CallFails(i) \/ Refused(i) \/ Crash(i)
         PROVE  GroupInv'
    BY <1>6, <1>10 DEF CallFails, Refused, Crash, batch_vars
  <1>11. ASSUME NEW i \in Instances, Begin(i) \/ SendOffsets(i)
         PROVE  GroupInv'
    <2>1. /\ UNCHANGED <<group_offset, members, owner, resolved, base, upto>>
          /\ \/ pc' = [pc EXCEPT ![i] = "process"]
             \/ pc' = [pc EXCEPT ![i] = "commit"]
      BY <1>11 DEF Begin, SendOffsets, group_vars, batch_vars
    <2>2. \A j \in members : pc'[j] # "down"
      BY <1>0, <1>0a, <2>1 DEF GroupInv
    <2> QED
      BY <1>1, <2>1, <2>2
  <1>12. ASSUME UNCHANGED <<group_offset, members, owner, resolved, base, upto, pc>>
         PROVE  GroupInv'
    BY <1>0, <1>1, <1>12 DEF GroupInv
  <1>13. ASSUME NEW p \in Partitions, NEW a \in Articles, Arrive(p, a)
         PROVE  GroupInv'
    BY <1>12, <1>13 DEF Arrive, group_vars, batch_vars
  <1>14. ASSUME NEW d \in Ids, TimeOut(d)
         PROVE  GroupInv'
    BY <1>12, <1>14 DEF TimeOut, group_vars, batch_vars
  <1>15. ASSUME NEW i \in Instances, NEW p \in Partitions,
                ProcessMessage(i, p) \/ ProcessFails(i, p)
         PROVE  GroupInv'
    <2>1. UNCHANGED <<group_offset, members, owner, resolved, base, upto, pc>>
      BY <1>15, Zenon DEF ProcessMessage, ProcessFails, Produce, group_vars
    <2> QED
      BY <1>12, <2>1
  <1>16. CASE UNCHANGED vars
    BY <1>12, <1>16 DEF vars
  <1> QED
    BY <1>2, <1>3, <1>4, <1>5, <1>8, <1>9, <1>10, <1>11, <1>13, <1>14, <1>15, <1>16
       DEF Next, Run, Broker, Failure

-----------------------------------------------------------------------------
(* Pending offsets.                                                        *)

\* A step that adds no pending offset, moves the group nowhere where one is
\* pending, and leaves the owner about to commit one alone.
LEMMA PendingFrame ==
    ASSUME PendingInv,
           \A d \in Ids, q \in Partitions :
               pending_offsets'[d][q] # 0 =>
                   /\ pending_offsets'[d][q] = pending_offsets[d][q]
                   /\ group_offset'[q] = group_offset[q]
                   /\ q \in resolved' /\ owner'[q] \in members' =>
                        /\ q \in resolved /\ owner'[q] = owner[q] /\ owner[q] \in members
                        /\ Txn(owner[q]) = d /\ Current(owner[q]) /\ pc[owner[q]] = "commit" =>
                             holder'[d] = owner[q] /\ pc'[owner[q]] = "commit"
    PROVE  PendingInv'
  <1> SUFFICES ASSUME NEW d \in Ids, NEW q \in Partitions, pending_offsets'[d][q] # 0
               PROVE  /\ pending_offsets'[d][q] > group_offset'[q]
                      /\ \A c \in Ids \ {d} : pending_offsets'[c][q] = 0
                      /\ q \in resolved' /\ owner'[q] \in members' =>
                            /\ Txn(owner'[q]) = d
                            /\ holder'[Txn(owner'[q])] = owner'[q]
                            /\ pc'[owner'[q]] = "commit"
    BY DEF PendingInv, Current, Txn
  <1>1. pending_offsets[d][q] # 0
    OBVIOUS
  <1>2. /\ pending_offsets[d][q] > group_offset[q]
        /\ \A c \in Ids \ {d} : pending_offsets[c][q] = 0
        /\ q \in resolved /\ owner[q] \in members =>
              Txn(owner[q]) = d /\ Current(owner[q]) /\ pc[owner[q]] = "commit"
    BY <1>1 DEF PendingInv
  <1>3. \A c \in Ids \ {d} : pending_offsets'[c][q] = 0
    BY <1>2
  <1> QED
    BY <1>2, <1>3

\* Only the owner of a partition ever has offsets of it pending.
LEMMA PendingStep ==
    ASSUME IInv, [Next]_vars
    PROVE  PendingInv'
  <1>0. TypeOK /\ BatchInv /\ TxnInv /\ GroupInv /\ PendingInv
    BY DEF IInv
  <1>0a. /\ pending_offsets \in [Ids -> [Partitions -> Nat]]
         /\ pc \in [Instances -> {"down", "poll", "process", "commit"}]
         /\ holder \in [Ids -> Instances \cup {Nobody}]
         /\ base \in [Instances -> [Partitions -> Nat]]
         /\ upto \in [Instances -> [Partitions -> Nat]]
         /\ group_offset \in [Partitions -> Nat]
         /\ members \subseteq Instances
         /\ resolved \subseteq Partitions
         /\ \A j \in Instances : Txn(j) \in Ids
    BY <1>0, TypeFacts, TxnInIds
  <1>1. ASSUME UNCHANGED <<group_offset, pending_offsets, holder, owner, resolved>>,
               members' \subseteq members,
               \A i \in members' : pc[i] = "commit" => pc'[i] = "commit"
        PROVE  PendingInv'
    BY <1>0, <1>1, PendingFrame DEF Current
  <1>2. ASSUME NEW a \in [Partitions -> Instances], Rebalance(a)
        PROVE  PendingInv'
    <2>1. /\ resolved' = {}
          /\ UNCHANGED <<group_offset, pending_offsets>>
      BY <1>2 DEF Rebalance, txn_vars
    <2> QED
      BY <1>0, <2>1, PendingFrame
  <1>3. ASSUME NEW d \in Ids, TimeOut(d)
        PROVE  PendingInv'
    <2>1. /\ holder' = [holder EXCEPT ![d] = Nobody]
          /\ pending_offsets' = [pending_offsets EXCEPT ![d] = Zero]
          /\ UNCHANGED <<group_offset, members, owner, resolved, pc>>
      BY <1>3 DEF TimeOut, group_vars
    <2>2. ASSUME NEW c \in Ids, NEW q \in Partitions, pending_offsets'[c][q] # 0
          PROVE  /\ c # d /\ pending_offsets'[c] = pending_offsets[c]
                 /\ holder'[c] = holder[c]
      BY <1>0a, <2>1, <2>2 DEF Zero
    <2> QED
      BY <1>0, <2>1, <2>2, PendingFrame DEF Current
  <1>4. ASSUME NEW i \in Instances, Start(i)
        PROVE  PendingInv'
    <2>1. /\ i \notin members /\ pc' = [pc EXCEPT ![i] = "poll"]
          /\ holder' = [holder EXCEPT ![Txn(i)] = i]
          /\ pending_offsets' = [pending_offsets EXCEPT ![Txn(i)] = Zero]
          /\ UNCHANGED <<group_offset, members, owner, resolved>>
      BY <1>0, <1>4 DEF Start, GroupInv, group_vars
    <2>2. ASSUME NEW c \in Ids, NEW q \in Partitions, pending_offsets'[c][q] # 0
          PROVE  /\ c # Txn(i) /\ pending_offsets'[c] = pending_offsets[c]
                 /\ holder'[c] = holder[c]
      BY <1>0a, <2>1, <2>2 DEF Zero
    <2>3. \A j \in members : pc'[j] = pc[j]
      BY <1>0a, <2>1
    <2> QED
      BY <1>0, <2>1, <2>2, <2>3, PendingFrame DEF Current
  <1>5. ASSUME NEW i \in Instances, NEW p \in Partitions, Resolve(i, p)
        PROVE  PendingInv'
    <2>1. /\ resolved' = resolved \cup {p}
          /\ \A d \in Ids : pending_offsets[d][p] = 0
          /\ UNCHANGED <<group_offset, members, owner, pc, holder, pending_offsets>>
      BY <1>5 DEF Resolve, txn_vars
    <2> QED
      BY <1>0, <2>1, PendingFrame DEF Current
  <1>6. ASSUME NEW i \in Instances, SendOffsets(i)
        PROVE  PendingInv'
    <2>1. /\ pc[i] = "process" /\ i \in members /\ Current(i)
          /\ pc' = [pc EXCEPT ![i] = "commit"]
          /\ pending_offsets' = [pending_offsets EXCEPT ![Txn(i)] =
                [p \in Partitions |-> IF upto[i][p] > base[i][p] THEN upto[i][p] ELSE 0]]
          /\ UNCHANGED <<group_offset, members, owner, resolved, holder>>
      BY <1>6 DEF SendOffsets, group_vars
    <2>2. ASSUME NEW q \in Partitions, InBatch(i, q)
          PROVE  /\ owner[q] = i /\ q \in resolved /\ base[i][q] = group_offset[q]
                 /\ \A c \in Ids : pending_offsets[c][q] = 0
      <3>1. owner[q] = i /\ q \in resolved /\ base[i][q] = group_offset[q]
        BY <1>0, <2>1, <2>2 DEF GroupInv
      <3>2. ASSUME NEW c \in Ids, pending_offsets[c][q] # 0 PROVE FALSE
        BY <1>0, <2>1, <3>1, <3>2 DEF PendingInv
      <3> QED
        BY <3>1, <3>2
    <2>3. /\ \A c \in Ids \ {Txn(i)} : pending_offsets'[c] = pending_offsets[c]
          /\ \A q \in Partitions :
                pending_offsets'[Txn(i)][q] = IF InBatch(i, q) THEN upto[i][q] ELSE 0
          /\ \A j \in Instances : j # i => pc'[j] = pc[j]
          /\ pc'[i] = "commit"
      BY <1>0a, <2>1 DEF InBatch
    <2> SUFFICES ASSUME NEW d \in Ids, NEW q \in Partitions, pending_offsets'[d][q] # 0
                 PROVE  /\ pending_offsets'[d][q] > group_offset[q]
                        /\ \A c \in Ids \ {d} : pending_offsets'[c][q] = 0
                        /\ q \in resolved /\ owner[q] \in members =>
                              /\ Txn(owner[q]) = d
                              /\ Current(owner[q])
                              /\ pc'[owner[q]] = "commit"
      BY <2>1 DEF PendingInv, Current, Txn
    <2>4. CASE d = Txn(i)
      <3>1. InBatch(i, q) /\ pending_offsets'[d][q] = upto[i][q]
        BY <2>3, <2>4
      <3> QED
        BY <1>0a, <2>1, <2>2, <2>3, <2>4, <3>1 DEF InBatch
    <2>5. CASE d # Txn(i)
      <3>1. pending_offsets[d][q] # 0 /\ pending_offsets'[d][q] = pending_offsets[d][q]
        BY <2>3, <2>5
      <3>2. ~InBatch(i, q)
        BY <2>2, <3>1
      <3>3. /\ pending_offsets[d][q] > group_offset[q]
            /\ \A c \in Ids \ {d} : pending_offsets[c][q] = 0
            /\ q \in resolved /\ owner[q] \in members =>
                  Txn(owner[q]) = d /\ Current(owner[q]) /\ pc[owner[q]] = "commit"
        BY <1>0, <3>1 DEF PendingInv
      <3>4. \A c \in Ids \ {d} : pending_offsets'[c][q] = 0
        BY <2>3, <3>2, <3>3
      <3>5. q \in resolved /\ owner[q] \in members => pc'[owner[q]] = "commit"
        BY <1>0a, <2>1, <2>3, <3>3
      <3> QED
        BY <3>1, <3>3, <3>4, <3>5
    <2> QED
      BY <2>4, <2>5
  <1>7. ASSUME NEW i \in Instances, pc[i] = "commit", Current(i), Committed(Txn(i)),
               UNCHANGED <<owner, resolved, holder>>, members' \subseteq members,
               \A j \in Instances \ {i} : pc'[j] = pc[j]
        PROVE  PendingInv'
    <2>1. ASSUME NEW d \in Ids, NEW q \in Partitions, pending_offsets'[d][q] # 0
          PROVE  /\ d # Txn(i)
                 /\ pending_offsets'[d][q] = pending_offsets[d][q]
                 /\ group_offset'[q] = group_offset[q]
      <3>1. d # Txn(i) /\ pending_offsets'[d][q] = pending_offsets[d][q]
        BY <1>0a, <1>7, <2>1 DEF Committed, Zero
      <3>2. pending_offsets[Txn(i)][q] = 0
        BY <1>0, <1>0a, <2>1, <3>1 DEF PendingInv
      <3> QED
        BY <1>7, <3>1, <3>2 DEF Committed
    <2>2. \A q \in Partitions :
             owner[q] \in members /\ Txn(owner[q]) # Txn(i) => pc'[owner[q]] = pc[owner[q]]
      BY <1>0a, <1>7
    <2> QED
      BY <1>0, <1>7, <2>1, <2>2, PendingFrame DEF Current
  <1>8. ASSUME NEW i \in Instances, Commit(i) \/ CommitAnswerLost(i)
        PROVE  PendingInv'
    <2>1. /\ pc[i] = "commit" /\ Current(i) /\ Committed(Txn(i))
          /\ UNCHANGED <<owner, resolved, holder>>
          /\ members' \subseteq members
          /\ pc' = [pc EXCEPT ![i] = "poll"] \/ pc' = [pc EXCEPT ![i] = "down"]
      BY <1>8 DEF Commit, CommitAnswerLost, Leave
    <2>2. \A j \in Instances \ {i} : pc'[j] = pc[j]
      BY <1>0a, <2>1
    <2> QED
      BY <1>7, <2>1, <2>2
  <1>9. ASSUME NEW i \in Instances, Leave(i), UNCHANGED <<group_offset, holder>>,
               Aborted(i) \/ UNCHANGED pending_offsets
        PROVE  PendingInv'
    <2>1. \A d \in Ids, q \in Partitions :
             pending_offsets'[d][q] # 0 => pending_offsets'[d][q] = pending_offsets[d][q]
      <3>1. \/ pending_offsets' = pending_offsets
            \/ pending_offsets' = [pending_offsets EXCEPT ![Txn(i)] = Zero]
        BY <1>9 DEF Aborted
      <3>2. CASE pending_offsets' = pending_offsets
        BY <3>2
      <3>3. CASE pending_offsets' = [pending_offsets EXCEPT ![Txn(i)] = Zero]
        BY <1>0a, <3>3 DEF Zero
      <3> QED
        BY <3>1, <3>2, <3>3
    <2>2. /\ UNCHANGED <<owner, resolved>> /\ members' \subseteq members
          /\ \A j \in members' : pc'[j] = pc[j]
      BY <1>0a, <1>9 DEF Leave
    <2> QED
      BY <1>0, <1>9, <2>1, <2>2, PendingFrame DEF Current
  <1>10. ASSUME NEW i \in Instances, CallFails(i) \/ Refused(i) \/ Crash(i)
         PROVE  PendingInv'
    BY <1>9, <1>10 DEF CallFails, Refused, Crash, txn_vars
  <1>11. ASSUME NEW i \in Instances, Begin(i)
         PROVE  PendingInv'
    <2>1. /\ pc[i] = "poll" /\ pc' = [pc EXCEPT ![i] = "process"]
          /\ UNCHANGED <<group_offset, pending_offsets, holder, owner, resolved, members>>
      BY <1>11 DEF Begin, group_vars, txn_vars
    <2>2. \A j \in members : pc[j] = "commit" => pc'[j] = "commit"
      BY <1>0a, <2>1
    <2> QED
      BY <1>1, <2>1, <2>2
  <1>12. ASSUME UNCHANGED <<group_offset, pending_offsets, holder, owner, resolved, members, pc>>
         PROVE  PendingInv'
    BY <1>1, <1>12
  <1>13. ASSUME NEW p \in Partitions, NEW a \in Articles, Arrive(p, a)
         PROVE  PendingInv'
    BY <1>12, <1>13 DEF Arrive, group_vars, txn_vars
  <1>14. ASSUME NEW i \in Instances, NEW p \in Partitions,
                Fetch(i, p) \/ ProcessMessage(i, p) \/ ProcessFails(i, p)
         PROVE  PendingInv'
    <2>1. UNCHANGED <<group_offset, pending_offsets, holder, owner, resolved, members, pc>>
      BY <1>14, Zenon DEF Fetch, ProcessMessage, ProcessFails, Produce, group_vars, txn_vars
    <2> QED
      BY <1>12, <2>1
  <1>15. CASE UNCHANGED vars
    BY <1>12, <1>15 DEF vars
  <1> QED
    BY <1>2, <1>3, <1>4, <1>5, <1>6, <1>8, <1>10, <1>11, <1>13, <1>14, <1>15
       DEF Next, Run, Broker, Failure

-----------------------------------------------------------------------------
(* The outputs.                                                            *)

\* A commit extends the outputs of every partition by exactly what the offsets
\* it commits cover, and moves no offset back.
LEMMA CommitAdvances ==
    ASSUME IInv, NEW i \in Instances, pc[i] = "commit", Current(i), Committed(Txn(i)),
           UNCHANGED raw, NEW p \in Partitions
    PROVE  /\ group_offset[p] <= group_offset'[p]
           /\ group_offset'[p] <= Len(raw[p])
           /\ EO!Covers(output'[p], raw[p], 0, group_offset'[p])
           /\ EO!Extends(output[p], output'[p])
  <1>0. TypeOK /\ BatchInv /\ TxnInv /\ OutputInv
    BY DEF IInv
  <1>0a. /\ base[i][p] \in Nat /\ done[i][p] \in Nat /\ upto[i][p] \in Nat
         /\ group_offset[p] \in Nat
         /\ pending_writes[Txn(i)][p] \in Seq(Outputs)
         /\ output[p] \in Seq(Outputs)
    BY <1>0, TypeFacts, TxnInIds
  <1>1. /\ done[i][p] = upto[i][p] /\ base[i][p] <= upto[i][p] /\ upto[i][p] <= Len(raw[p])
    BY <1>0, <1>0a DEF BatchInv
  <1>2. /\ EO!Covers(pending_writes[Txn(i)][p], raw[p], base[i][p], upto[i][p])
        /\ pending_offsets[Txn(i)][p] = IF InBatch(i, p) THEN upto[i][p] ELSE 0
        /\ InBatch(i, p) => base[i][p] = group_offset[p]
    BY <1>0, <1>1 DEF TxnInv, TxnOK
  <1>3. /\ output'[p] = output[p] \o pending_writes[Txn(i)][p]
        /\ group_offset'[p] = IF pending_offsets[Txn(i)][p] # 0
                              THEN pending_offsets[Txn(i)][p] ELSE group_offset[p]
    BY DEF Committed
  <1>4. EO!Covers(output[p], raw[p], 0, group_offset[p]) /\ group_offset[p] <= Len(raw[p])
    BY <1>0 DEF OutputInv
  <1>5. CASE InBatch(i, p)
    <2>1. group_offset'[p] = upto[i][p] /\ base[i][p] = group_offset[p]
      BY <1>0a, <1>2, <1>3, <1>5 DEF InBatch
    <2>2. /\ EO!Covers(output[p] \o pending_writes[Txn(i)][p], raw[p], 0, upto[i][p])
          /\ EO!Extends(output[p], output[p] \o pending_writes[Txn(i)][p])
      BY <1>0a, <1>1, <1>2, <1>4, <2>1, CoversJoin
    <2> QED
      BY <1>0a, <1>1, <1>3, <2>1, <2>2
  <1>6. CASE ~InBatch(i, p)
    <2>1. upto[i][p] = base[i][p] /\ group_offset'[p] = group_offset[p]
      BY <1>0a, <1>1, <1>2, <1>3, <1>6 DEF InBatch
    <2>2. pending_writes[Txn(i)][p] = <<>>
      BY <1>0a, <1>2, <2>1, NothingCovered
    <2>3. output'[p] = output[p]
      BY <1>0a, <1>3, <2>2
    <2> QED
      BY <1>0a, <1>4, <2>1, <2>3 DEF EO!Extends
  <1> QED
    BY <1>5, <1>6

\* Only commits add outputs, and they add the outputs of exactly the offsets they move.
LEMMA OutputStep ==
    ASSUME IInv, [Next]_vars
    PROVE  OutputInv'
  <1>0. TypeOK /\ OutputInv
    BY DEF IInv
  <1>0a. /\ raw \in [Partitions -> Seq(Articles)]
         /\ group_offset \in [Partitions -> Nat]
         /\ output \in [Partitions -> Seq(Outputs)]
    BY <1>0, TypeFacts
  <1>1. ASSUME NEW p \in Partitions, NEW a \in Articles, Arrive(p, a)
        PROVE  OutputInv'
    <2>1. UNCHANGED <<group_offset, output>>
      BY <1>1 DEF Arrive, group_vars, txn_vars
    <2> SUFFICES ASSUME NEW q \in Partitions
                 PROVE  /\ group_offset[q] <= Len(raw'[q])
                        /\ EO!Covers(output[q], raw'[q], 0, group_offset[q])
      BY <2>1 DEF OutputInv
    <2>2. CASE q = p
      <3>1. raw'[p] = Append(raw[p], a) /\ raw[p] \in Seq(Articles)
        BY <1>0a, <1>1 DEF Arrive
      <3>2. /\ EO!Covers(output[p], raw[p], 0, group_offset[p])
            /\ group_offset[p] <= Len(raw[p])
            /\ output[p] \in Seq(Outputs) /\ group_offset[p] \in Nat
        BY <1>0, <1>0a DEF OutputInv
      <3>3. EO!Covers(output[p], Append(raw[p], a), 0, group_offset[p])
        BY <3>1, <3>2, CoversGrow
      <3>4. Len(raw'[p]) = Len(raw[p]) + 1 /\ Len(raw[p]) \in Nat
        BY <3>1
      <3> QED
        BY <2>2, <3>1, <3>2, <3>3, <3>4
    <2>3. CASE q # p
      BY <1>0, <1>0a, <1>1, <2>3 DEF Arrive, OutputInv
    <2> QED
      BY <2>2, <2>3
  <1>2. ASSUME NEW i \in Instances, Commit(i) \/ CommitAnswerLost(i)
        PROVE  OutputInv'
    <2>1. pc[i] = "commit" /\ Current(i) /\ Committed(Txn(i)) /\ UNCHANGED raw
      BY <1>2 DEF Commit, CommitAnswerLost
    <2> QED
      BY <2>1, CommitAdvances DEF OutputInv
  <1>3. ASSUME UNCHANGED <<raw, group_offset, output>>
        PROVE  OutputInv'
    BY <1>0, <1>3 DEF OutputInv
  <1>4. ASSUME NEW a \in [Partitions -> Instances], Rebalance(a)
        PROVE  OutputInv'
    BY <1>3, <1>4 DEF Rebalance, txn_vars
  <1>5. ASSUME NEW d \in Ids, TimeOut(d)
        PROVE  OutputInv'
    BY <1>3, <1>5 DEF TimeOut, group_vars
  <1>6. ASSUME NEW i \in Instances,
               Start(i) \/ Begin(i) \/ SendOffsets(i) \/ CallFails(i) \/ Refused(i) \/ Crash(i)
        PROVE  OutputInv'
    BY <1>3, <1>6
       DEF Start, Begin, SendOffsets, CallFails, Refused, Crash, group_vars, txn_vars
  <1>7. ASSUME NEW i \in Instances, NEW p \in Partitions,
               Resolve(i, p) \/ Fetch(i, p) \/ ProcessMessage(i, p) \/ ProcessFails(i, p)
        PROVE  OutputInv'
    <2>1. UNCHANGED <<raw, group_offset, output>>
      BY <1>7, Zenon
         DEF Resolve, Fetch, ProcessMessage, ProcessFails, Produce, group_vars, txn_vars
    <2> QED
      BY <1>3, <2>1
  <1>8. CASE UNCHANGED vars
    BY <1>3, <1>8 DEF vars
  <1> QED
    BY <1>1, <1>2, <1>4, <1>5, <1>6, <1>7, <1>8 DEF Next, Run, Broker, Failure

-----------------------------------------------------------------------------
(* The theorems.                                                           *)

\* Every reachable state satisfies the inductive invariant.
LEMMA Invariance == Spec => []IInv
  <1>1. IInv /\ [Next]_vars => IInv'
    BY TypeStep, BatchStep, TxnStep, GroupStep, PendingStep, OutputStep DEF IInv
  <1> QED
    BY InitInv, <1>1, PTL DEF Spec

\* Whatever crashes, is fenced, expelled, timed out or left without an answer, the
\* committed outputs are exactly those of the committed offsets, each once, in order.
THEOREM ExactlyOnceOutput == Spec => []OutputMatchesOffsets
  <1>1. IInv => OutputMatchesOffsets
    BY DEF IInv, OutputInv, OutputMatchesOffsets
  <1> QED
    BY <1>1, Invariance, PTL

\* Two transactions never compete for the offsets of one partition.
THEOREM NoCompetingOffsets == Spec => []OffsetsNeverCompete
  <1>1. IInv => OffsetsNeverCompete
    BY DEF IInv, PendingInv, OffsetsNeverCompete
  <1> QED
    BY <1>1, Invariance, PTL

-----------------------------------------------------------------------------
(* The refinement.                                                         *)

\* Every step of the group is a step of ExactlyOnce or a stutter.
LEMMA RefinementStep ==
    ASSUME IInv, [Next]_vars
    PROVE  [EO!Next]_(EO!vars)
  <1>1. ASSUME NEW p \in Partitions, NEW a \in Articles, Arrive(p, a)
        PROVE  EO!Next
    <2>1. /\ raw' = [raw EXCEPT ![p] = Append(raw[p], a)]
          /\ UNCHANGED <<group_offset, output>>
      BY <1>1 DEF Arrive, group_vars, txn_vars
    <2> QED
      BY <2>1 DEF EO!Next, EO!Arrive, EO!Articles, Articles
  <1>2. ASSUME NEW i \in Instances, Commit(i) \/ CommitAnswerLost(i)
        PROVE  EO!Next
    <2>1. pc[i] = "commit" /\ Current(i) /\ Committed(Txn(i)) /\ UNCHANGED raw
      BY <1>2 DEF Commit, CommitAnswerLost
    <2> QED
      BY <2>1, CommitAdvances DEF EO!Next, EO!Advance
  <1>3. ASSUME UNCHANGED <<raw, group_offset, output>>
        PROVE  UNCHANGED EO!vars
    BY <1>3 DEF EO!vars
  <1>4. ASSUME NEW a \in [Partitions -> Instances], Rebalance(a)
        PROVE  UNCHANGED EO!vars
    BY <1>3, <1>4 DEF Rebalance, txn_vars
  <1>5. ASSUME NEW d \in Ids, TimeOut(d)
        PROVE  UNCHANGED EO!vars
    BY <1>3, <1>5 DEF TimeOut, group_vars
  <1>6. ASSUME NEW i \in Instances,
               Start(i) \/ Begin(i) \/ SendOffsets(i) \/ CallFails(i) \/ Refused(i) \/ Crash(i)
        PROVE  UNCHANGED EO!vars
    BY <1>3, <1>6
       DEF Start, Begin, SendOffsets, CallFails, Refused, Crash, group_vars, txn_vars
  <1>7. ASSUME NEW i \in Instances, NEW p \in Partitions,
               Resolve(i, p) \/ Fetch(i, p) \/ ProcessMessage(i, p) \/ ProcessFails(i, p)
        PROVE  UNCHANGED EO!vars
    <2>1. UNCHANGED <<raw, group_offset, output>>
      BY <1>7, Zenon
         DEF Resolve, Fetch, ProcessMessage, ProcessFails, Produce, group_vars, txn_vars
    <2> QED
      BY <1>3, <2>1
  <1>8. CASE UNCHANGED vars
    BY <1>3, <1>8 DEF vars
  <1> QED
    BY <1>1, <1>2, <1>4, <1>5, <1>6, <1>7, <1>8 DEF Next, Run, Broker, Failure

\* The processor group implements the exactly-once flow.
THEOREM ImplementsFlow == Spec => ImplementsExactlyOnce
  <1>1. Init => EO!Init
    BY DEF Init, EO!Init, Nothing, Zero
  <1> QED
    BY <1>1, RefinementStep, Invariance, PTL DEF Spec, EO!Spec, ImplementsExactlyOnce
=============================================================================

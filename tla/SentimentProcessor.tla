------------------------- MODULE SentimentProcessor -------------------------
(***************************************************************************)
(* The entity-sentiment processor: ai-analysis-service/src/main.py with    *)
(* kafka/consumer.py and kafka/producer.py.                                *)
(*                                                                         *)
(* An instance polls a batch of raw articles, opens a Kafka transaction,   *)
(* produces one result or dead letter per accepted article, adds the       *)
(* batch's offsets to the transaction and commits it.  Any failure aborts  *)
(* the transaction and ends the process.  Instances of one consumer group  *)
(* share the partitions of the raw topic; a TransactionalId names a        *)
(* transaction at the broker, and starting an instance takes it over.      *)
(*                                                                         *)
(* Abstractions.                                                           *)
(*  - An article is what becomes of it: "good", "rejected" or "bad".  An   *)
(*    output names the offset it came from; outputs are kept by input      *)
(*    partition, as a read_committed reader sees them.                     *)
(*  - A batch is, per partition, the offsets base+1..upto; done says how   *)
(*    far the for loop has come.  The loop may take the partitions of a    *)
(*    batch in any order (the broker returns them in any order).           *)
(*  - Broker epochs and group generations are the facts they decide:       *)
(*    holder is the instance whose producer epoch is current, members the  *)
(*    instances whose generation is current.                               *)
(***************************************************************************)
EXTENDS Integers, Sequences, FiniteSets, FiniteSetsExt

CONSTANTS
    Partitions,       \* partitions of the raw-articles topic
    Instances,        \* processor instances of the group
    TransactionalId,  \* [Instances -> transactional ids], KAFKA_TRANSACTIONAL_ID
    Nobody,           \* not an instance
    BatchSize,        \* batch_size of poll_batch
    MaxArticles,      \* bound: articles per partition
    MaxFaults,        \* bound: failed calls, lost answers, timeouts, late polls
    MaxCrashes        \* bound: crashes and shutdowns of instances

Ids == {TransactionalId[i] : i \in Instances}

ASSUME NobodyAssumption == Nobody \notin Instances
ASSUME BoundsAssumption ==
    BatchSize \in Nat \ {0} /\ MaxArticles \in Nat /\ MaxFaults \in Nat /\ MaxCrashes \in Nat

VARIABLES
    raw,              \* raw-articles, [Partitions -> Seq(Articles)]
    group_offset,     \* the group's committed offset of every partition
    members,          \* instances in the current generation of the group
    owner,            \* the instance each partition is assigned to
    resolved,         \* partitions whose owner knows its start offset
    holder,           \* the instance with the current epoch of each id
    pending_writes,   \* outputs in the open transaction of each id
    pending_offsets,  \* offsets added to it, 0 for none
    output,           \* committed outputs, by input partition
    pc,               \* where an instance is in run()
    base, done, upto, \* the batch of an instance, per partition
    faults, crashes   \* history: how many of each so far

vars == <<raw, group_offset, members, owner, resolved, holder, pending_writes,
          pending_offsets, output, pc, base, done, upto, faults, crashes>>

Articles == {"good", "rejected", "bad"}
Outputs == [kind : {"result", "dlq"}, off : Nat \ {0}]

Nothing == [p \in Partitions |-> <<>>]
Zero == [p \in Partitions |-> 0]

Txn(i) == TransactionalId[i]

\* The broker accepts i's producer epoch.
Current(i) == holder[Txn(i)] = i

Polling(i) == pc[i] = "poll" /\ upto[i] = base[i]

InTransaction(i) == pc[i] \in {"process", "commit"}

BatchLength(i) == MapThenSumSet(LAMBDA p : upto[i][p] - base[i][p], Partitions)

Init ==
    /\ raw = Nothing
    /\ group_offset = Zero
    /\ members = {}
    /\ owner = [p \in Partitions |-> Nobody]
    /\ resolved = {}
    /\ holder = [d \in Ids |-> Nobody]
    /\ pending_writes = [d \in Ids |-> Nothing]
    /\ pending_offsets = [d \in Ids |-> Zero]
    /\ output = Nothing
    /\ pc = [i \in Instances |-> "down"]
    /\ base = [i \in Instances |-> Zero]
    /\ done = [i \in Instances |-> Zero]
    /\ upto = [i \in Instances |-> Zero]
    /\ faults = 0
    /\ crashes = 0

group_vars == <<group_offset, members, owner, resolved>>
txn_vars == <<holder, pending_writes, pending_offsets, output>>
batch_vars == <<base, done, upto>>

-----------------------------------------------------------------------------
(* The broker.                                                             *)

Arrive(p, a) ==
    /\ Len(raw[p]) < MaxArticles
    /\ raw' = [raw EXCEPT ![p] = Append(@, a)]
    /\ UNCHANGED <<group_vars, txn_vars, pc, batch_vars, faults, crashes>>

\* A new generation: the polling instances join and divide the partitions.  A
\* member in the middle of a batch holds the rebalance up until it polls again,
\* or is expelled when it exceeds max.poll.interval.ms.
Rebalance(assignment) ==
    LET ready == {i \in Instances : Polling(i)}
        busy == members \ ready
    IN  /\ ready # {}
        /\ members # ready
        /\ assignment \in [Partitions -> ready]
        /\ \/ busy = {} /\ UNCHANGED faults
           \/ busy # {} /\ faults < MaxFaults /\ faults' = faults + 1
        /\ members' = ready
        /\ owner' = assignment
        /\ resolved' = {}
        /\ UNCHANGED <<raw, group_offset, txn_vars, pc, batch_vars, crashes>>

\* The coordinator aborts a transaction that exceeds transaction.timeout.ms and
\* fences its producer: certain once the instance is gone, a fault before that.
TimeOut(d) ==
    /\ pending_writes[d] # Nothing \/ pending_offsets[d] # Zero
    /\ \/ /\ \A i \in Instances : Txn(i) = d /\ Current(i) => pc[i] = "down"
          /\ UNCHANGED faults
       \/ faults < MaxFaults /\ faults' = faults + 1
    /\ holder' = [holder EXCEPT ![d] = Nobody]
    /\ pending_writes' = [pending_writes EXCEPT ![d] = Nothing]
    /\ pending_offsets' = [pending_offsets EXCEPT ![d] = Zero]
    /\ UNCHANGED <<raw, group_vars, output, pc, batch_vars, crashes>>

-----------------------------------------------------------------------------
(* EntitySentimentProcessor                                                *)

\* Mutant: init_transactions is not called, the open transaction goes on.
StartWithoutInit(i) ==
    /\ pc[i] = "down"
    /\ pc' = [pc EXCEPT ![i] = "poll"]
    /\ holder' = [holder EXCEPT ![Txn(i)] = i]
    /\ base' = [base EXCEPT ![i] = Zero]
    /\ done' = [done EXCEPT ![i] = Zero]
    /\ upto' = [upto EXCEPT ![i] = Zero]
    /\ UNCHANGED <<raw, group_vars, pending_writes, pending_offsets, output, faults, crashes>>

\* The constructor calls init_transactions: the broker aborts what an earlier
\* holder of the id left open and fences that holder.
Start(i) ==
    /\ pc[i] = "down"
    /\ pc' = [pc EXCEPT ![i] = "poll"]
    /\ holder' = [holder EXCEPT ![Txn(i)] = i]
    /\ pending_writes' = [pending_writes EXCEPT ![Txn(i)] = Nothing]
    /\ pending_offsets' = [pending_offsets EXCEPT ![Txn(i)] = Zero]
    /\ base' = [base EXCEPT ![i] = Zero]
    /\ done' = [done EXCEPT ![i] = Zero]
    /\ upto' = [upto EXCEPT ![i] = Zero]
    /\ UNCHANGED <<raw, group_vars, output, faults, crashes>>

\* Mutant: the consumer does not ask for stable offsets (isolation.level).
ResolveUnstable(i, p) ==
    /\ pc[i] = "poll"
    /\ i \in members
    /\ owner[p] = i
    /\ p \notin resolved
    /\ resolved' = resolved \cup {p}
    /\ base' = [base EXCEPT ![i][p] = group_offset[p]]
    /\ done' = [done EXCEPT ![i][p] = group_offset[p]]
    /\ upto' = [upto EXCEPT ![i][p] = group_offset[p]]
    /\ UNCHANGED <<raw, group_offset, members, owner, txn_vars, pc, faults, crashes>>

\* Inside consume() the new owner of a partition fetches its start offset.  With
\* isolation.level read_committed it waits while a transaction has one pending.
Resolve(i, p) ==
    /\ pc[i] = "poll"
    /\ i \in members
    /\ owner[p] = i
    /\ p \notin resolved
    /\ \A d \in Ids : pending_offsets[d][p] = 0
    /\ resolved' = resolved \cup {p}
    /\ base' = [base EXCEPT ![i][p] = group_offset[p]]
    /\ done' = [done EXCEPT ![i][p] = group_offset[p]]
    /\ upto' = [upto EXCEPT ![i][p] = group_offset[p]]
    /\ UNCHANGED <<raw, group_offset, members, owner, txn_vars, pc, faults, crashes>>

\* poll_batch takes the next message of one of its partitions.
Fetch(i, p) ==
    /\ pc[i] = "poll"
    /\ i \in members
    /\ owner[p] = i
    /\ p \in resolved
    /\ upto[i][p] < Len(raw[p])
    /\ BatchLength(i) < BatchSize
    /\ upto' = [upto EXCEPT ![i][p] = @ + 1]
    /\ UNCHANGED <<raw, group_vars, txn_vars, pc, base, done, faults, crashes>>

\* poll_batch returns a batch that is not empty and begin_transaction is called.
Begin(i) ==
    /\ pc[i] = "poll"
    /\ upto[i] # base[i]
    /\ pc' = [pc EXCEPT ![i] = "process"]
    /\ UNCHANGED <<raw, group_vars, txn_vars, batch_vars, faults, crashes>>

\* What the next message of p adds to the transaction.
OutputOf(i, p, kind) == [kind |-> kind, off |-> done[i][p] + 1]

Handling(i, p) == pc[i] = "process" /\ Current(i) /\ done[i][p] < upto[i][p]

Produce(i, p, kind) ==
    /\ done' = [done EXCEPT ![i][p] = @ + 1]
    /\ pending_writes' = [pending_writes EXCEPT ![Txn(i)][p] =
                            Append(@, OutputOf(i, p, kind))]
    /\ UNCHANGED <<raw, group_vars, holder, pending_offsets, output, pc, base, upto, crashes>>

\* Mutant: an article that raises is logged and forgotten.
ProcessMessageWithoutDlq(i, p) ==
    /\ Handling(i, p)
    /\ UNCHANGED faults
    /\ \/ raw[p][done[i][p] + 1] = "good" /\ Produce(i, p, "result")
       \/ /\ raw[p][done[i][p] + 1] # "good"
          /\ done' = [done EXCEPT ![i][p] = @ + 1]
          /\ UNCHANGED <<raw, group_vars, txn_vars, pc, base, upto, crashes>>

\* One iteration of the for loop: parse, filter by headline, analyse, publish;
\* an article that raises goes to the dead letter queue.
ProcessMessage(i, p) ==
    /\ Handling(i, p)
    /\ UNCHANGED faults
    /\ \/ raw[p][done[i][p] + 1] = "good" /\ Produce(i, p, "result")
       \/ raw[p][done[i][p] + 1] = "bad" /\ Produce(i, p, "dlq")
       \/ /\ raw[p][done[i][p] + 1] = "rejected"
          /\ done' = [done EXCEPT ![i][p] = @ + 1]
          /\ UNCHANGED <<raw, group_vars, txn_vars, pc, base, upto, crashes>>

\* The analysis of a good article or the publication of its result raises once
\* (a full local queue is enough): the article is dead-lettered, not retried.
ProcessFails(i, p) ==
    /\ Handling(i, p)
    /\ raw[p][done[i][p] + 1] = "good"
    /\ faults < MaxFaults
    /\ faults' = faults + 1
    /\ Produce(i, p, "dlq")

\* send_offsets_to_transaction(_build_commit_offsets(batch), group metadata): the
\* coordinator checks the epoch and the generation.
SendOffsets(i) ==
    /\ pc[i] = "process"
    /\ done[i] = upto[i]
    /\ Current(i)
    /\ i \in members
    /\ pending_offsets' = [pending_offsets EXCEPT ![Txn(i)] =
                             [p \in Partitions |-> IF upto[i][p] > base[i][p] THEN upto[i][p] ELSE 0]]
    /\ pc' = [pc EXCEPT ![i] = "commit"]
    /\ UNCHANGED <<raw, group_vars, holder, pending_writes, output, batch_vars, faults, crashes>>

\* Outputs and offsets become visible at once.
Committed(d) ==
    /\ output' = [p \in Partitions |-> output[p] \o pending_writes[d][p]]
    /\ group_offset' = [p \in Partitions |->
                          IF pending_offsets[d][p] # 0 THEN pending_offsets[d][p]
                                                       ELSE group_offset[p]]
    /\ pending_writes' = [pending_writes EXCEPT ![d] = Nothing]
    /\ pending_offsets' = [pending_offsets EXCEPT ![d] = Zero]

Commit(i) ==
    /\ pc[i] = "commit"
    /\ Current(i)
    /\ Committed(Txn(i))
    /\ pc' = [pc EXCEPT ![i] = "poll"]
    /\ base' = [base EXCEPT ![i] = upto[i]]
    /\ UNCHANGED <<raw, members, owner, resolved, holder, done, upto, faults, crashes>>

-----------------------------------------------------------------------------
(* The ways out of run().                                                  *)

\* The process ends: consumer.close or the session timeout takes it out of the
\* group, and a restarted process is a new member.
Leave(i) ==
    /\ pc' = [pc EXCEPT ![i] = "down"]
    /\ members' = members \ {i}
    /\ UNCHANGED <<owner, resolved>>

\* commit_transaction takes effect but raises: abort_transaction is refused, the
\* exception leaves run() and the process ends.
CommitAnswerLost(i) ==
    /\ pc[i] = "commit"
    /\ Current(i)
    /\ faults < MaxFaults
    /\ faults' = faults + 1
    /\ Committed(Txn(i))
    /\ Leave(i)
    /\ UNCHANGED <<raw, holder, batch_vars, crashes>>

\* abort_transaction acts only while the broker accepts the epoch.
Aborted(i) ==
    IF Current(i)
    THEN /\ pending_writes' = [pending_writes EXCEPT ![Txn(i)] = Nothing]
         /\ pending_offsets' = [pending_offsets EXCEPT ![Txn(i)] = Zero]
    ELSE UNCHANGED <<pending_writes, pending_offsets>>

\* Mutant: run() swallows the exception and polls the next batch.
CallFailsAndGoesOn(i) ==
    /\ InTransaction(i)
    /\ faults < MaxFaults
    /\ faults' = faults + 1
    /\ Aborted(i)
    /\ pc' = [pc EXCEPT ![i] = "poll"]
    /\ base' = [base EXCEPT ![i] = upto[i]]
    /\ done' = [done EXCEPT ![i] = upto[i]]
    /\ UNCHANGED <<raw, group_vars, holder, output, upto, crashes>>

\* A call of the transaction raises (publish_dlq, send_offsets, commit).
CallFails(i) ==
    /\ InTransaction(i)
    /\ faults < MaxFaults
    /\ faults' = faults + 1
    /\ Aborted(i)
    /\ Leave(i)
    /\ UNCHANGED <<raw, group_offset, holder, output, batch_vars, crashes>>

\* The broker refuses a fenced epoch, or the offsets of an expelled member.
Refused(i) ==
    /\ \/ InTransaction(i) /\ ~Current(i)
       \/ pc[i] = "process" /\ done[i] = upto[i] /\ i \notin members
    /\ Aborted(i)
    /\ Leave(i)
    /\ UNCHANGED <<raw, group_offset, holder, output, batch_vars, faults, crashes>>

\* SIGKILL at any point, or SIGTERM seen between two batches: nothing is told to
\* the transaction coordinator.
Crash(i) ==
    /\ pc[i] # "down"
    /\ crashes < MaxCrashes
    /\ crashes' = crashes + 1
    /\ Leave(i)
    /\ UNCHANGED <<raw, group_offset, txn_vars, batch_vars, faults>>

-----------------------------------------------------------------------------
Run(i) ==
    \/ \E p \in Partitions : Resolve(i, p) \/ Fetch(i, p) \/ ProcessMessage(i, p)
    \/ Begin(i)
    \/ SendOffsets(i)
    \/ Commit(i)
    \/ Refused(i)

Broker ==
    \/ \E a \in [Partitions -> Instances] : Rebalance(a)
    \/ \E d \in Ids : TimeOut(d)

Failure ==
    \E i \in Instances :
        \/ \E p \in Partitions : ProcessFails(i, p)
        \/ CommitAnswerLost(i)
        \/ CallFails(i)
        \/ Crash(i)

Next ==
    \/ \E p \in Partitions, a \in Articles : Arrive(p, a)
    \/ \E i \in Instances : Start(i) \/ Run(i)
    \/ Broker
    \/ Failure

Spec == Init /\ [][Next]_vars

\* Processors poll, the broker rebalances and expires, and somebody restarts a
\* processor that has ended (the code never restarts itself).
FairSpec ==
    /\ Spec
    /\ \A i \in Instances : WF_vars(Run(i)) /\ WF_vars(Start(i))
    /\ WF_vars(\E a \in [Partitions -> Instances] : Rebalance(a))
    /\ \A d \in Ids : WF_vars(TimeOut(d))

-----------------------------------------------------------------------------
(* Properties.                                                             *)

EO == INSTANCE ExactlyOnce WITH input <- raw, consumed <- group_offset, emitted <- output

OffsetsType == [Partitions -> Nat]

BrokerType ==
    /\ raw \in [Partitions -> Seq(Articles)]
    /\ group_offset \in OffsetsType
    /\ output \in [Partitions -> Seq(Outputs)]

GroupType ==
    /\ members \subseteq Instances
    /\ owner \in [Partitions -> Instances \cup {Nobody}]
    /\ resolved \subseteq Partitions

TransactionsType ==
    /\ holder \in [Ids -> Instances \cup {Nobody}]
    /\ pending_writes \in [Ids -> [Partitions -> Seq(Outputs)]]
    /\ pending_offsets \in [Ids -> OffsetsType]

InstancesType ==
    /\ pc \in [Instances -> {"down", "poll", "process", "commit"}]
    /\ base \in [Instances -> OffsetsType]
    /\ done \in [Instances -> OffsetsType]
    /\ upto \in [Instances -> OffsetsType]

HistoryType == faults \in 0..MaxFaults /\ crashes \in 0..MaxCrashes

\* The shape of every variable.
TypeOK == BrokerType /\ GroupType /\ TransactionsType /\ InstancesType /\ HistoryType

\* The committed outputs of a partition are one result or dead letter for every
\* accepted article below the committed offset, in order, and nothing else: no
\* crash, fencing, rebalance, timeout or lost answer loses or repeats an article.
OutputMatchesOffsets ==
    \A p \in Partitions : EO!Covers(output[p], raw[p], 0, group_offset[p])

\* Two transactions never have offsets of one partition pending, and pending
\* offsets start where the group stands: no commit can overtake another.
OffsetsNeverCompete ==
    \A d \in Ids, p \in Partitions :
        pending_offsets[d][p] # 0 =>
            /\ pending_offsets[d][p] > group_offset[p]
            /\ \A c \in Ids \ {d} : pending_offsets[c][p] = 0

\* Every step of the group is a step of the exactly-once flow or leaves it alone;
\* in particular what was committed is never reordered or taken back.
ImplementsExactlyOnce == EO!Spec

\* Every article that arrives is consumed at last, whatever fails in between.
EventuallyProcessed ==
    \A p \in Partitions : \A o \in 1..MaxArticles :
        (o <= Len(raw[p])) ~> (o <= group_offset[p])
=============================================================================

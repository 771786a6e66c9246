----------------------------- MODULE GraphState -----------------------------
(***************************************************************************)
(* The graph-state service: ai-analysis-service/src/graph_state.           *)
(*                                                                         *)
(* A worker (stream_worker.py) reads entity-sentiment results, applies     *)
(* each to the in-memory graph (store.py) and produces a change event with *)
(* the new values of what it judged changed.  A reader of graph-changes    *)
(* (storage_service/state.py apply_change_event) overwrites its replica    *)
(* with those values.  POST /graph/update applies a result and publishes   *)
(* nothing (api.py).  The asyncio lock makes apply_result atomic.          *)
(*                                                                         *)
(* Abstractions.                                                           *)
(*  - A result is [mentions, pairs]: the sentiment scores of every         *)
(*    mentioned entity in order, and the count of every co-occurring pair. *)
(*    An edge key (_edge_key) is the set of its two ends.                  *)
(*  - A real number x is the integer x * Unit, rounded down where the code *)
(*    rounds a float; a centrality is kept as its two operands.            *)
(*  - first_seen, node types and the processing metrics are left out.      *)
(*  - The replica reads one partition in production order; GraphStorage    *)
(*    has the partitions of graph-changes.                                 *)
(***************************************************************************)
EXTENDS Integers, Sequences, FiniteSets, SequencesExt, FiniteSetsExt

CONSTANTS
    Entities,        \* entity names
    Partitions,      \* partitions of entity-sentiment
    StreamResults,   \* results the processor produces
    Posts,           \* results sent to POST /graph/update
    Unit,            \* the integer that stands for 1.0
    Hour,            \* clock ticks in an hour
    BatchSize,       \* GRAPH_STATE_BATCH_SIZE
    FreshGroup,      \* whether a restart gets a new group id, reading from the start
    MaxArticles,     \* bound: results per partition
    MaxTime,         \* bound: timestamps are 1..MaxTime
    MaxPosts,        \* bound: POST /graph/update calls
    MaxFaults,       \* bound: change events the producer fails to deliver
    MaxCrashes       \* bound: restarts of the service

\* detect_co_occurrence_pairs pairs mentioned entities only, and counts each pair
\* from 1.
ASSUME PairsAssumption ==
    \A r \in StreamResults : \A k \in DOMAIN r.pairs :
        k \subseteq DOMAIN r.mentions /\ r.pairs[k] > 0
ASSUME ResultsAssumption ==
    \A r \in StreamResults \cup Posts :
        /\ DOMAIN r.mentions \subseteq Entities
        /\ \A e \in DOMAIN r.mentions : r.mentions[e] \in Seq(Int) /\ Len(r.mentions[e]) > 0
        /\ \A k \in DOMAIN r.pairs : \E a, b \in Entities : a # b /\ k = {a, b}
        /\ \A k \in DOMAIN r.pairs : r.pairs[k] \in Nat
ASSUME EntitiesAssumption == IsFiniteSet(Entities)
ASSUME BoundsAssumption ==
    /\ Unit \in Nat \ {0} /\ Hour \in Nat /\ BatchSize \in Nat \ {0}
    /\ FreshGroup \in BOOLEAN
    /\ {MaxArticles, MaxTime, MaxPosts, MaxFaults, MaxCrashes} \subseteq Nat

VARIABLES
    input,           \* entity-sentiment, [Partitions -> Seq([time, valid, result])]
    fetched,         \* handed to the worker by consume(), per partition
    applied,         \* of those, how many the worker has dealt with
    committed,       \* offsets auto-committed for the group
    nodes, edges,    \* GraphState
    neighbors,       \* _neighbors
    windows,         \* _mention_windows
    inflight,        \* change events produced but not delivered
    replica_nodes,   \* what a reader of graph-changes has
    replica_edges,
    posts, faults, crashes   \* history: how many of each so far

vars == <<input, fetched, applied, committed, nodes, edges, neighbors, windows,
          inflight, replica_nodes, replica_edges, posts, faults, crashes>>
store == <<nodes, edges, neighbors, windows>>
replica == <<replica_nodes, replica_edges>>
history == <<posts, faults, crashes>>

EmptyGraph == [k \in {} |-> 0]
Zero == [p \in Partitions |-> 0]

Init ==
    /\ input = [p \in Partitions |-> <<>>]
    /\ fetched = Zero
    /\ applied = Zero
    /\ committed = Zero
    /\ nodes = EmptyGraph
    /\ edges = EmptyGraph
    /\ neighbors = [e \in Entities |-> {}]
    /\ windows = [e \in Entities |-> <<>>]
    /\ inflight = <<>>
    /\ replica_nodes = EmptyGraph
    /\ replica_edges = EmptyGraph
    /\ posts = 0
    /\ faults = 0
    /\ crashes = 0

-----------------------------------------------------------------------------
(* InMemoryGraphStore                                                      *)

\* Mutant: the weights add up to more than 1.
_weighted_too_heavy(old, new) == (old * 19 + new * 2) \div 20

_weighted(old, new) == (old * 19 + new) \div 20

\* _weighted for one score after the other.
Weighted(old, scores) ==
    LET after[n \in 0..Len(scores)] ==
          IF n = 0 THEN old ELSE _weighted(after[n - 1], scores[n])
    IN  after[Len(scores)]

Distance(x, y) == IF x < y THEN y - x ELSE x - y

\* GRAPH_CHANGE_STRENGTH_THRESHOLD and GRAPH_CHANGE_JOINT_SENTIMENT_THRESHOLD.
StrengthThreshold == Unit \div 10000
JointThreshold == Unit \div 100

\* Mutant: mentions never expire.
WindowWithoutExpiry(e, count, now) == windows[e] \o [n \in 1..count |-> now]

\* _update_hourly_rate, once per mention: append now, then pop from the left.
Window(e, count, now) ==
    LET w == windows[e] \o [n \in 1..count |-> now]
        first == CHOOSE n \in 1..Len(w) :
                    w[n] >= now - Hour /\ \A m \in 1..(n - 1) : w[m] < now - Hour
    IN  SubSeq(w, first, Len(w))

\* _upsert_node for every mention of e, in order.
NodeAfter(e, scores, now) ==
    LET known == e \in DOMAIN nodes
    IN  [mention_count |-> (IF known THEN nodes[e].mention_count ELSE 0) + Len(scores),
         sentiment |-> IF known THEN Weighted(nodes[e].sentiment, scores)
                                ELSE Weighted(Head(scores), Tail(scores)),
         last_seen |-> now,
         hourly_rate |-> Len(Window(e, Len(scores), now)),
         centrality |-> IF known THEN nodes[e].centrality ELSE [degree |-> 0, of |-> 1]]

UpsertedNodes(r, now) ==
    [e \in DOMAIN nodes \cup DOMAIN r.mentions |->
        IF e \in DOMAIN r.mentions THEN NodeAfter(e, r.mentions[e], now) ELSE nodes[e]]

\* Pairs with an unknown end are ignored.
Pairs(r) == {k \in DOMAIN r.pairs : k \subseteq DOMAIN nodes \cup DOMAIN r.mentions}

\* joint, the mean sentiment of the two ends after the mentions.
JointOf(ns, k) ==
    LET a == CHOOSE x \in k : TRUE
        b == CHOOSE x \in k : x # a
    IN  (ns[a].sentiment + ns[b].sentiment) \div 2

EdgeAfter(k, count, joint) ==
    IF k \in DOMAIN edges
    THEN [strength |-> _weighted(edges[k].strength, count * Unit),
          joint_sentiment |-> _weighted(edges[k].joint_sentiment, joint)]
    ELSE [strength |-> count * Unit, joint_sentiment |-> joint]

UpsertedEdges(r, ns) ==
    [k \in DOMAIN edges \cup Pairs(r) |->
        IF k \in Pairs(r) THEN EdgeAfter(k, r.pairs[k], JointOf(ns, k)) ELSE edges[k]]

\* Mutant: only the first end of a pair learns of the other.
OneSidedNeighbors(r) ==
    [e \in Entities |-> neighbors[e] \cup
        {b \in Entities : \E k \in Pairs(r) : k = {e, b} /\ e = (CHOOSE x \in k : TRUE) /\ b # e}]

UpsertedNeighbors(r) ==
    [e \in Entities |-> neighbors[e] \cup
        {b \in Entities : b # e /\ {e, b} \in Pairs(r)}]

\* Mutant: only mentioned nodes are impacted.
touched_mentions(r) == DOMAIN r.mentions

touched(r) == DOMAIN r.mentions \cup UNION Pairs(r)

\* Degree over max(1, total_nodes - 1), for the impacted nodes only.
_update_centrality(ns, nb, ts) ==
    [e \in DOMAIN ns |->
        IF e \in ts
        THEN [ns[e] EXCEPT !.centrality =
                [degree |-> Cardinality(nb[e]), of |-> Max({1, Cardinality(DOMAIN ns) - 1})]]
        ELSE ns[e]]

\* The state part of apply_result, under the lock.
ApplyResult(r, now) ==
    LET ns == UpsertedNodes(r, now)
        nb == UpsertedNeighbors(r)
    IN  /\ nodes' = _update_centrality(ns, nb, touched(r))
        /\ edges' = UpsertedEdges(r, ns)
        /\ neighbors' = nb
        /\ windows' = [e \in Entities |->
                         IF e \in DOMAIN r.mentions
                         THEN Window(e, Len(r.mentions[e]), now) ELSE windows[e]]

PublishedNode(n) ==
    [mention_count |-> n.mention_count, sentiment |-> n.sentiment, centrality |-> n.centrality]

\* Mutant: a mention alone is no change, only a sentiment that moves.
_build_entity_changes_by_sentiment(r) ==
    [e \in {x \in DOMAIN r.mentions :
              x \in DOMAIN nodes => nodes'[x].sentiment # nodes[x].sentiment} |->
        PublishedNode(nodes'[e])]

\* A mention always changes its node's count, so every mentioned node is in.
_build_entity_changes(r) == [e \in DOMAIN r.mentions |-> PublishedNode(nodes'[e])]

EdgeChanged(k) ==
    LET before == IF k \in DOMAIN edges THEN edges[k] ELSE [strength |-> 0, joint_sentiment |-> 0]
    IN  \/ Distance(before.strength, edges'[k].strength) >= StrengthThreshold
        \/ Distance(before.joint_sentiment, edges'[k].joint_sentiment) >= JointThreshold

_build_relationship_changes(r) ==
    [k \in {x \in Pairs(r) : EdgeChanged(x)} |-> edges'[k]]

ChangeEvent(r) ==
    [entity_changes |-> _build_entity_changes(r),
     relationship_changes |-> _build_relationship_changes(r)]

-----------------------------------------------------------------------------
(* The processor, which produces results in the order of their timestamps. *)

LatestTime ==
    Max({1} \cup UNION {{input[p][o].time : o \in DOMAIN input[p]} : p \in Partitions})

Arrive(p, t, valid, r) ==
    /\ Len(input[p]) < MaxArticles
    /\ t >= LatestTime
    /\ valid \/ r = CHOOSE x \in StreamResults : TRUE   \* lost on a malformed message
    /\ input' = [input EXCEPT ![p] = Append(@, [time |-> t, valid |-> valid, result |-> r])]
    /\ UNCHANGED <<fetched, applied, committed, store, inflight, replica, history>>

-----------------------------------------------------------------------------
(* GraphStreamWorker._consume_loop                                         *)

\* consume() returns up to BatchSize messages of any partitions; the client
\* library regards them as processed from then on.
Fetch(upto) ==
    /\ fetched = applied
    /\ \A p \in Partitions : fetched[p] <= upto[p] /\ upto[p] <= Len(input[p])
    /\ upto # fetched
    /\ MapThenSumSet(LAMBDA p : upto[p] - fetched[p], Partitions) <= BatchSize
    /\ fetched' = upto
    /\ UNCHANGED <<input, applied, committed, store, inflight, replica, history>>

\* One message of the batch; one that does not parse is logged and skipped.
Apply(p) ==
    LET m == input[p][applied[p] + 1]
    IN  /\ applied[p] < fetched[p]
        /\ applied' = [applied EXCEPT ![p] = @ + 1]
        /\ IF m.valid
           THEN /\ ApplyResult(m.result, m.time)
                /\ inflight' = Append(inflight, ChangeEvent(m.result))
           ELSE UNCHANGED <<store, inflight>>
        /\ UNCHANGED <<input, fetched, committed, replica, history>>

\* enable.auto.commit, at any moment.
AutoCommit ==
    /\ committed # fetched
    /\ committed' = fetched
    /\ UNCHANGED <<input, fetched, applied, store, inflight, replica, history>>

\* The oldest change event reaches the topic and its readers, who overwrite.
Deliver ==
    /\ inflight # <<>>
    /\ LET event == Head(inflight)
       IN  /\ replica_nodes' =
                [e \in DOMAIN replica_nodes \cup DOMAIN event.entity_changes |->
                    IF e \in DOMAIN event.entity_changes
                    THEN event.entity_changes[e] ELSE replica_nodes[e]]
           /\ replica_edges' =
                [k \in DOMAIN replica_edges \cup DOMAIN event.relationship_changes |->
                    IF k \in DOMAIN event.relationship_changes
                    THEN event.relationship_changes[k] ELSE replica_edges[k]]
    /\ inflight' = Tail(inflight)
    /\ UNCHANGED <<input, fetched, applied, committed, store, history>>

\* The producer gives up on it: there is no delivery callback.
Drop ==
    /\ inflight # <<>>
    /\ faults < MaxFaults
    /\ faults' = faults + 1
    /\ inflight' = Tail(inflight)
    /\ UNCHANGED <<input, fetched, applied, committed, store, replica, posts, crashes>>

EmptyStore ==
    /\ nodes' = EmptyGraph
    /\ edges' = EmptyGraph
    /\ neighbors' = [e \in Entities |-> {}]
    /\ windows' = [e \in Entities |-> <<>>]

\* Mutant: the restarted service keeps its group.
ResumeAtCommitted ==
    /\ fetched' = committed
    /\ applied' = committed
    /\ UNCHANGED committed

\* start.sh names a new group at every start and reads from the earliest offset;
\* with a fixed GRAPH_STATE_GROUP_ID the group resumes where it has committed.
Resume ==
    /\ fetched' = IF FreshGroup THEN Zero ELSE committed
    /\ applied' = IF FreshGroup THEN Zero ELSE committed
    /\ committed' = IF FreshGroup THEN Zero ELSE committed

\* The process dies, with what it had not delivered, and is started again.
Crash ==
    /\ crashes < MaxCrashes
    /\ crashes' = crashes + 1
    /\ EmptyStore
    /\ Resume
    /\ inflight' = <<>>
    /\ UNCHANGED <<input, replica, posts, faults>>

\* stop(): the batch is finished, the producer flushed and the consumer closed,
\* which commits; then the service is started again.
Stop ==
    /\ crashes < MaxCrashes
    /\ crashes' = crashes + 1
    /\ applied = fetched
    /\ inflight = <<>>
    /\ committed = fetched
    /\ EmptyStore
    /\ Resume
    /\ UNCHANGED <<input, inflight, replica, posts, faults>>

-----------------------------------------------------------------------------
(* POST /graph/update                                                      *)

PostUpdate(r, t) ==
    /\ posts < MaxPosts
    /\ posts' = posts + 1
    /\ ApplyResult(r, t)
    /\ UNCHANGED <<input, fetched, applied, committed, inflight, replica, faults, crashes>>

-----------------------------------------------------------------------------
Worker ==
    \/ \E upto \in [Partitions -> 0..MaxArticles] : Fetch(upto)
    \/ \E p \in Partitions : Apply(p)
    \/ Deliver

Next ==
    \/ \E p \in Partitions, t \in 1..MaxTime, valid \in BOOLEAN, r \in StreamResults :
          Arrive(p, t, valid, r)
    \/ Worker
    \/ AutoCommit
    \/ Drop
    \/ Crash
    \/ Stop
    \/ \E r \in Posts, t \in 1..MaxTime : PostUpdate(r, t)

Spec == Init /\ [][Next]_vars

\* The event loop keeps running the worker and the client library its queue.
FairSpec == Spec /\ WF_vars(Worker) /\ WF_vars(Deliver)

-----------------------------------------------------------------------------
(* Properties.                                                             *)

TypeOK ==
    /\ \A p \in Partitions :
         /\ applied[p] \in 0..fetched[p]
         /\ fetched[p] \in 0..Len(input[p])
         /\ committed[p] \in 0..Len(input[p])
    /\ DOMAIN nodes \subseteq Entities
    /\ \A e \in DOMAIN nodes :
         /\ nodes[e].mention_count \in Nat \ {0}
         /\ nodes[e].sentiment \in -Unit..Unit
         /\ nodes[e].hourly_rate \in 1..nodes[e].mention_count
    /\ \A k \in DOMAIN edges :
         /\ Cardinality(k) = 2
         /\ edges[k].strength \in Nat
         /\ edges[k].joint_sentiment \in -Unit..Unit
    /\ posts \in 0..MaxPosts /\ faults \in 0..MaxFaults /\ crashes \in 0..MaxCrashes

\* The three structures of the store describe one undirected graph: an edge joins
\* two known nodes, and each end has the other among its neighbours.
StructuresAgree ==
    /\ \A k \in DOMAIN edges : k \subseteq DOMAIN nodes
    /\ \A a, b \in Entities : b \in neighbors[a] <=> a # b /\ {a, b} \in DOMAIN edges

\* The numerator of a node's centrality is its degree now; the denominator may be
\* that of a smaller graph, so a centrality is never too low and never above 1.
CentralityNeverTooLow ==
    \A e \in DOMAIN nodes :
        /\ nodes[e].centrality.degree = Cardinality(neighbors[e])
        /\ nodes[e].centrality.of <= Max({1, Cardinality(DOMAIN nodes) - 1})
        /\ nodes[e].centrality.degree <= nodes[e].centrality.of

MentionsOf(m, e) == IF m.valid /\ e \in DOMAIN m.result.mentions
                    THEN Len(m.result.mentions[e]) ELSE 0

\* The first upto[p] results of every partition, and the mentions of e in those of them
\* that have the times lo..hi.
ResultsUpTo(upto) == UNION {{p} \X (1..upto[p]) : p \in Partitions}
Message(at) == input[at[1]][at[2]]
Mentions(e, upto, lo, hi) ==
    UNION {{at} \X (1..MentionsOf(Message(at), e)) :
             at \in {at \in ResultsUpTo(upto) : lo <= Message(at).time /\ Message(at).time <= hi}}

MentionsWithin(e, upto, lo, hi) == Cardinality(Mentions(e, upto, lo, hi))

CountOf(e) == IF e \in DOMAIN nodes THEN nodes[e].mention_count ELSE 0

\* The live graph counts every mention of the results before the worker's position
\* once: no restart, auto-commit or batch in progress loses or repeats one.
CountsAreTheHistory ==
    posts = 0 => \A e \in Entities : CountOf(e) = MentionsWithin(e, applied, 1, MaxTime)

Ascending(w) == \A n \in 1..(Len(w) - 1) : w[n] <= w[n + 1]

\* Where the mentions of an entity were applied in the order of their timestamps,
\* its hourly_rate is the number of mentions in the hour up to the last one.
HourlyRateIsTheWindow ==
    \A e \in DOMAIN nodes :
        posts = 0 /\ Ascending(windows[e]) =>
            nodes[e].hourly_rate =
                MentionsWithin(e, applied, nodes[e].last_seen - Hour, nodes[e].last_seen)

\* Once what was produced has been delivered, a reader of graph-changes has the
\* count, sentiment and centrality of every live node, and every live edge, also
\* in the middle of the replay that follows a restart; POST /graph/update and a
\* change event that is never delivered void this.
ReplicaHasTheLiveGraph ==
    inflight = <<>> /\ posts = 0 /\ faults = 0 =>
        /\ \A e \in DOMAIN nodes :
             e \in DOMAIN replica_nodes /\ replica_nodes[e] = PublishedNode(nodes[e])
        /\ DOMAIN edges \subseteq DOMAIN replica_edges

Total == [p \in Partitions |-> Len(input[p])]

\* After the last restart the live graph holds the whole history again, and the
\* replica the live graph, unless POST /graph/update or a lost change event has
\* come between.
EventuallyRebuilt ==
    <>[](posts = 0 /\ faults = 0 =>
            /\ \A e \in Entities : CountOf(e) = MentionsWithin(e, Total, 1, MaxTime)
            /\ replica_nodes = [e \in DOMAIN nodes |-> PublishedNode(nodes[e])])
=============================================================================

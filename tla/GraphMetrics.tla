----------------------------- MODULE GraphMetrics -----------------------------
(***************************************************************************)
(* The graph algorithms service: graph_algorithms/engine.py and the loop   *)
(* of service.py.                                                          *)
(*                                                                         *)
(* One process applies every entity-sentiment message to a graph it keeps  *)
(* in memory, partitions the graph into communities at every Interval-th   *)
(* message, and publishes to graph-metrics what changed.  A community has  *)
(* no name that lasts: ids are dense and given anew each time, and only    *)
(* the ids that differ from the last ones are published.                   *)
(*                                                                         *)
(* Abstractions.                                                           *)
(*  - A message has the entities it mentions, in order, and the pairs it   *)
(*    strengthens; every pair is strengthened by one of Deltas, which      *)
(*    stands for proximity * recency * alignment (0 for opposite           *)
(*    sentiments).  Strengths are integers.                                *)
(*  - Any message may come next, as Kafka delivers some again, and skips   *)
(*    some, when the process restarts.                                     *)
(*  - PageRank, betweenness, sentiments and counts are left out: they are  *)
(*    published and decide nothing.                                        *)
(*  - A reader of graph-metrics takes the changes in their order.          *)
(***************************************************************************)
EXTENDS Integers, Sequences, FiniteSets, SequencesExt

CONSTANTS
    Names,          \* entity texts
    Messages,       \* entity-sentiment messages
    Deltas,         \* what _relationship_delta returns
    Interval,       \* community_interval
    MaxUpdates,     \* bound: messages
    MaxFaults       \* bound: failed publications
                    \* and ends of the process

Pairs == {pair \in SUBSET Names : Cardinality(pair) = 2}

ASSUME MessagesAssumption ==
    \A m \in Messages :
        m.mentions \in Seq(Names) /\ m.pairs \subseteq Pairs
ASSUME DeltasAssumption == Deltas \subseteq Nat
ASSUME BoundsAssumption == Interval \in Nat \ {0} /\ {MaxUpdates, MaxFaults} \subseteq Nat

VARIABLES
    phase,          \* where the process is
    nodes,          \* the entities in the order of insertion
    strength,       \* of the pairs that are edges
    updates,        \* updates_processed
    last,           \* _last_communities
    communities, cursor, improved,      \* of _run_leiden_like
    changes,        \* community_changes of the snapshot
    reader,         \* the communities that a reader of graph-metrics knows
    unpublished,    \* history: nodes whose last change was not published
    applied, faults

graph == <<nodes, strength, updates>>
moving == <<communities, cursor, improved>>
published == <<reader, unpublished>>
vars == <<phase, graph, last, moving, changes, published, applied, faults>>

Nodes == ToSet(nodes)
Empty == [n \in {} |-> 0]

Init ==
    /\ phase = "polling"
    /\ nodes = <<>> /\ strength = Empty /\ updates = 0
    /\ last = Empty
    /\ communities = Empty /\ cursor = 1 /\ improved = FALSE
    /\ changes = {}
    /\ reader = Empty /\ unpublished = {}
    /\ applied = 0 /\ faults = 0

-----------------------------------------------------------------------------
(* apply_result                                                            *)

_upsert_node(all, n) == IF n \in ToSet(all) THEN all ELSE Append(all, n)

\* _upsert_node for one mention after the other.
Inserted(mentions) ==
    LET after[i \in 0..Len(mentions)] ==
          IF i = 0 THEN nodes ELSE _upsert_node(after[i - 1], mentions[i])
    IN  after[Len(mentions)]

\* A pair with an entity that is no node is left out.
Strengthened(pairs, delta) ==
    [p \in DOMAIN strength \cup pairs |->
        (IF p \in DOMAIN strength THEN strength[p] ELSE 0)
        + (IF p \in pairs THEN delta[p] ELSE 0)]

\* Every Interval-th message begins with a community for every node.
Partition(all) ==
    IF updates' % Interval = 0
    THEN /\ phase' = "moving"
         /\ communities' = [n \in ToSet(all) |-> SelectInSeq(all, LAMBDA o : o = n) - 1]
    ELSE phase' = "publishing" /\ UNCHANGED communities

apply_result(m) ==
    /\ phase = "polling"
    /\ applied < MaxUpdates
    /\ applied' = applied + 1
    /\ updates' = updates + 1
    /\ nodes' = Inserted(m.mentions)
    /\ LET pairs == {p \in m.pairs : p \subseteq ToSet(nodes')}
       IN  \E delta \in [pairs -> Deltas] : strength' = Strengthened(pairs, delta)
    /\ Partition(nodes')
    /\ cursor' = 1 /\ improved' = FALSE
    /\ UNCHANGED <<last, changes, published, faults>>

-----------------------------------------------------------------------------
(* _run_leiden_like                                                        *)

neighbors(n) == {o \in Nodes : {n, o} \in DOMAIN strength}

Sum(pairs) == FoldSet(LAMBDA p, sum : strength[p] + sum, 0, pairs)

\* _modularity_gain: what ties a node to a community.
Tie(n, c) == Sum({{n, o} : o \in {o \in neighbors(n) : communities[o] = c}})

Gain(n, c) == Tie(n, c) - Tie(n, communities[n])

\* The communities of neighbours with the highest gain, if it is above zero.
Best(n) ==
    LET gains == {c \in {communities[o] : o \in neighbors(n)} : Gain(n, c) > 0}
    IN  {c \in gains : \A other \in gains : Gain(n, other) <= Gain(n, c)}

\* Ties are broken by the order of a set.
Visit ==
    /\ phase = "moving"
    /\ cursor <= Len(nodes)
    /\ LET n == nodes[cursor]
       IN  IF Best(n) = {}
           THEN UNCHANGED <<communities, improved>>
           ELSE /\ \E c \in Best(n) : communities' = [communities EXCEPT ![n] = c]
                /\ improved' = TRUE
    /\ cursor' = cursor + 1
    /\ UNCHANGED <<phase, graph, last, changes, published, applied, faults>>

\* Mutant: improved is not reset before a sweep.
SweepImproved ==
    /\ phase = "moving"
    /\ cursor > Len(nodes)
    /\ improved
    /\ cursor' = 1
    /\ UNCHANGED <<phase, graph, last, communities, improved, changes, published, applied, faults>>

\* Something has moved: another sweep over all the nodes.
Sweep ==
    /\ phase = "moving"
    /\ cursor > Len(nodes)
    /\ improved
    /\ cursor' = 1 /\ improved' = FALSE
    /\ UNCHANGED <<phase, graph, last, communities, changes, published, applied, faults>>

\* Mutant: an id is taken up for every node of a community.
DenseByNode(n) ==
    Cardinality({communities[nodes[i]] : i \in 1..SelectInSeq(nodes, LAMBDA o : o = n)}) - 1

\* Mutant: the ids are not compressed.
Raw(n) == communities[n]

\* The id of a community: how many others appear before it in the order of the nodes.
Dense(n) ==
    LET first == SelectInSeq(nodes, LAMBDA o : communities[o] = communities[n])
    IN  Cardinality({communities[nodes[i]] : i \in 1..(first - 1)})

\* The change of a node; the first id of a node replaces -1.
Change(n) == [node |-> n, old |-> IF n \in DOMAIN last THEN last[n] ELSE -1, new |-> Dense(n)]

\* Mutant: a node that is partitioned for the first time is no change.
ChangesOfKnown == {Change(n) : n \in {n \in Nodes : n \in DOMAIN last /\ Dense(n) # last[n]}}

Changes == {Change(n) : n \in {n \in Nodes : n \in DOMAIN last => Dense(n) # last[n]}}

\* Mutant: one sweep is enough.
CompressAfterOneSweep ==
    /\ phase = "moving"
    /\ cursor > Len(nodes)
    /\ phase' = "publishing"
    /\ changes' = Changes
    /\ last' = [n \in Nodes |-> Dense(n)]
    /\ UNCHANGED <<graph, moving, published, applied, faults>>

Compress ==
    /\ phase = "moving"
    /\ cursor > Len(nodes)
    /\ ~improved
    /\ phase' = "publishing"
    /\ changes' = Changes
    /\ last' = [n \in Nodes |-> Dense(n)]
    /\ UNCHANGED <<graph, moving, published, applied, faults>>

-----------------------------------------------------------------------------
(* service.py                                                              *)

Changed == {change.node : change \in changes}

NewOf(n) == (CHOOSE change \in changes : change.node = n).new

Forget == communities' = Empty /\ cursor' = 1 /\ improved' = FALSE /\ changes' = {}

Publish ==
    /\ phase = "publishing"
    /\ phase' = "polling"
    /\ reader' = [n \in DOMAIN reader \cup Changed |->
                     IF n \in Changed THEN NewOf(n) ELSE reader[n]]
    /\ unpublished' = unpublished \ Changed
    /\ Forget
    /\ UNCHANGED <<graph, last, applied, faults>>

\* The debug files cannot be written, or the producer's queue is full: the message is
\* done with, its changes are not published.
PublishFails ==
    /\ phase = "publishing"
    /\ faults < MaxFaults
    /\ faults' = faults + 1
    /\ phase' = "polling"
    /\ unpublished' = unpublished \cup Changed
    /\ Forget
    /\ UNCHANGED <<graph, last, reader, applied>>

\* The process ends, at any point, and with it all it knows; it starts with no graph.
Restart ==
    /\ faults < MaxFaults
    /\ faults' = faults + 1
    /\ phase' = "polling"
    /\ nodes' = <<>> /\ strength' = Empty /\ updates' = 0
    /\ last' = Empty
    /\ unpublished' = {}
    /\ Forget
    /\ UNCHANGED <<reader, applied>>

-----------------------------------------------------------------------------
run_leiden_like == Visit \/ Sweep \/ Compress

Next ==
    \/ \E m \in Messages : apply_result(m)
    \/ run_leiden_like
    \/ Publish \/ PublishFails
    \/ Restart

Spec == Init /\ [][Next]_vars

\* The process goes on with its loop.
FairSpec == Spec /\ WF_vars(run_leiden_like)

-----------------------------------------------------------------------------
(* Properties.                                                             *)

\* Types; the ids of the communities are 0, 1, ... without a gap.
TypeOK ==
    /\ phase \in {"polling", "moving", "publishing"}
    /\ nodes \in Seq(Names) /\ IsInjective(nodes)
    /\ DOMAIN strength \subseteq Pairs /\ \A p \in DOMAIN strength : strength[p] \in Nat
    /\ \A p \in DOMAIN strength : p \subseteq Nodes
    /\ updates \in 0..applied
    /\ DOMAIN last \subseteq Nodes
    /\ \E k \in 0..Len(nodes) : Range(last) = 0..(k - 1)
    /\ phase = "moving" => communities \in [Nodes -> Nat]
    /\ cursor \in 1..Len(nodes) + 1 /\ improved \in BOOLEAN
    /\ changes \subseteq [node : Nodes, old : Nat \cup {-1}, new : Nat]
    /\ DOMAIN reader \subseteq Names /\ unpublished \subseteq Names
    /\ applied \in 0..MaxUpdates /\ faults \in 0..MaxFaults

\* The sweeps over the nodes end.
SweepsEnd == (phase = "moving") ~> (phase # "moving")

\* When the communities are numbered no node is tied closer to another community than
\* to its own, although most nodes were visited before the last move.
LocalOptimum ==
    phase = "publishing" /\ communities # Empty =>
        \A n \in Nodes : \A c \in {communities[o] : o \in neighbors(n)} : Gain(n, c) <= 0

\* Two nodes between which no set of nodes can be cut off.
Connected(n, o) ==
    \A part \in SUBSET Nodes :
        (n \in part /\ \A member \in part : neighbors(member) \subseteq part) => o \in part

\* Nodes with the same id are connected by edges: numbering never gives two parts of
\* the graph one id, whatever moved and was numbered before.
CommunitiesAreConnected == \A n, o \in DOMAIN last : last[n] = last[o] => Connected(n, o)

\* A reader that applies the published changes knows the communities of the engine,
\* but for the nodes whose last change was not published; nothing publishes it again.
ReaderFollows ==
    phase # "publishing" =>
        \A n \in DOMAIN last \ unpublished : n \in DOMAIN reader /\ reader[n] = last[n]
=============================================================================

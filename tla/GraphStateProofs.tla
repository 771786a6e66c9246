-------------------------- MODULE GraphStateProofs --------------------------
(***************************************************************************)
(* Proofs about GraphState for every set of entities, of partitions, of    *)
(* results and of hand-made updates, and for every bound.                  *)
(*                                                                         *)
(* IInv is inductive by itself; NodesInv, ScoresInv, CountsInv and RateInv *)
(* are inductive on top of it.  What a node counts is related to the topic *)
(* by the set of the mentions heard of it, which grows by the mentions of  *)
(* one message at a time: CountsInv has its size, and RateInv an injection *)
(* into it from the entries of the node's window.                          *)
(***************************************************************************)
EXTENDS GraphState, FiniteSetTheorems, WellFoundedInduction, TLAPS

-----------------------------------------------------------------------------
(* The inductive invariant.                                                *)

Results == StreamResults \cup Posts

Messages == [time : 1..MaxTime, valid : BOOLEAN, result : StreamResults]

\* The worker is inside its batch, and the batch inside the topic.
FlowInv ==
    /\ input \in [Partitions -> Seq(Messages)]
    /\ applied \in [Partitions -> Nat]
    /\ fetched \in [Partitions -> Nat]
    /\ committed \in [Partitions -> Nat]
    /\ \A p \in Partitions :
         /\ applied[p] <= fetched[p]
         /\ fetched[p] <= Len(input[p])
         /\ committed[p] <= Len(input[p])

\* The shape of the three structures: what a node, an edge key and a set of
\* neighbours are.
ShapeInv ==
    /\ DOMAIN nodes \subseteq Entities
    /\ \A e \in DOMAIN nodes :
         "centrality" \in DOMAIN nodes[e] /\ nodes[e].centrality.of \in Int
    /\ \A k \in DOMAIN edges : \E a, b \in Entities : a # b /\ k = {a, b}
    /\ neighbors \in [Entities -> SUBSET Entities]

StoreInv == ShapeInv /\ StructuresAgree /\ CentralityNeverTooLow

\* A change event after the n-th of those in flight overwrites e.
OverwrittenAfter(e, n) ==
    \E m \in (n + 1)..Len(inflight) : e \in DOMAIN inflight[m].entity_changes

\* The last word on a node, in flight or delivered, is what the live graph has.
NodeIsPublished(e) ==
    \/ \E n \in 1..Len(inflight) :
         /\ e \in DOMAIN inflight[n].entity_changes
         /\ inflight[n].entity_changes[e] = PublishedNode(nodes[e])
         /\ ~OverwrittenAfter(e, n)
    \/ /\ e \in DOMAIN replica_nodes
       /\ replica_nodes[e] = PublishedNode(nodes[e])
       /\ ~OverwrittenAfter(e, 0)

EdgeIsPublished(k) ==
    \/ k \in DOMAIN replica_edges
    \/ \E n \in 1..Len(inflight) : k \in DOMAIN inflight[n].relationship_changes

IsQueue(q) == Len(q) \in Nat /\ q = [n \in 1..Len(q) |-> q[n]]

\* inflight is a sequence, whatever its elements, and the counts of what voids
\* PublishedInv count upwards.
QueueInv == IsQueue(inflight) /\ posts \in Nat /\ faults \in Nat

PublishedInv ==
    posts = 0 /\ faults = 0 =>
        /\ \A e \in DOMAIN nodes : NodeIsPublished(e)
        /\ \A k \in DOMAIN edges : EdgeIsPublished(k)

IInv == FlowInv /\ StoreInv /\ QueueInv /\ PublishedInv

-----------------------------------------------------------------------------
(* Facts about the operators.                                              *)

\* The denominator of a centrality is the larger of 1 and n.
LEMMA MaxWithOne ==
    ASSUME NEW n \in Int
    PROVE  /\ Max({1, n}) \in Int
           /\ Max({1, n}) >= 1
           /\ Max({1, n}) >= n
           /\ Max({1, n}) \in {1, n}
<1>1. \E x \in {1, n} : \A y \in {1, n} : x >= y
  <2>1. CASE n >= 1
    BY <2>1
  <2>2. CASE ~(n >= 1)
    BY <2>2
  <2> QED  BY <2>1, <2>2
<1>2. Max({1, n}) \in {1, n} /\ \A y \in {1, n} : Max({1, n}) >= y
  BY <1>1 DEF Max
<1> QED  BY <1>2

\* The set of the nodes and every set of neighbours are finite.
LEMMA Counting ==
    ASSUME NEW S \in SUBSET Entities
    PROVE  /\ IsFiniteSet(S)
           /\ Cardinality(S) \in Nat
           /\ \A T \in SUBSET S : Cardinality(T) <= Cardinality(S)
           /\ \A x \in S : \A T \in SUBSET (S \ {x}) : Cardinality(T) <= Cardinality(S) - 1
<1>1. IsFiniteSet(S)
  BY EntitiesAssumption, FS_Subset
<1>2. \A T \in SUBSET S : IsFiniteSet(T) /\ Cardinality(T) \in Nat
  BY <1>1, FS_Subset, FS_CardinalityType
<1>3. \A T \in SUBSET S : Cardinality(T) <= Cardinality(S)
  BY <1>1, FS_Subset
<1>4. ASSUME NEW x \in S, NEW T \in SUBSET (S \ {x})
      PROVE  Cardinality(T) <= Cardinality(S) - 1
  <2>1. IsFiniteSet(S \ {x}) /\ Cardinality(S \ {x}) = Cardinality(S) - 1
    BY <1>1, FS_RemoveElement
  <2>2. Cardinality(T) <= Cardinality(S \ {x})
    BY <2>1, FS_Subset
  <2> QED  BY <2>1, <2>2
<1> QED  BY <1>1, <1>2, <1>3, <1>4

\* What apply_result adds to the three structures, and which nodes it leaves alone.
LEMMA Applied ==
    ASSUME NEW r \in Results, NEW now, ShapeInv, ApplyResult(r, now)
    PROVE  /\ DOMAIN nodes' = DOMAIN nodes \cup DOMAIN r.mentions
           /\ DOMAIN edges' = DOMAIN edges \cup Pairs(r)
           /\ neighbors' = UpsertedNeighbors(r)
           /\ touched(r) \subseteq DOMAIN nodes'
           /\ \A e \in DOMAIN nodes' : "centrality" \in DOMAIN nodes'[e]
           /\ \A e \in DOMAIN nodes' \ touched(r) :
                  e \in DOMAIN nodes /\ nodes'[e] = nodes[e]
           /\ \A e \in touched(r) :
                  nodes'[e].centrality =
                    [degree |-> Cardinality(neighbors'[e]),
                     of |-> Max({1, Cardinality(DOMAIN nodes') - 1})]
<1> DEFINE ns == UpsertedNodes(r, now)
           nb == UpsertedNeighbors(r)
<1>1. nodes' = _update_centrality(ns, nb, touched(r)) /\ neighbors' = nb
  BY DEF ApplyResult
<1>2. edges' = UpsertedEdges(r, ns)
  BY DEF ApplyResult
<1>3. DOMAIN ns = DOMAIN nodes \cup DOMAIN r.mentions
  BY DEF UpsertedNodes
<1>4. \A e \in DOMAIN ns : "centrality" \in DOMAIN ns[e]
  <2> SUFFICES ASSUME NEW e \in DOMAIN ns PROVE "centrality" \in DOMAIN ns[e]
    OBVIOUS
  <2>1. CASE e \in DOMAIN r.mentions
    BY <2>1, <1>3 DEF UpsertedNodes, NodeAfter
  <2>2. CASE e \notin DOMAIN r.mentions
    BY <2>2, <1>3 DEF UpsertedNodes, ShapeInv
  <2> QED  BY <2>1, <2>2
<1>5. \A e \in DOMAIN ns \ DOMAIN r.mentions : e \in DOMAIN nodes /\ ns[e] = nodes[e]
  BY <1>3 DEF UpsertedNodes
<1>6. touched(r) \subseteq DOMAIN ns
  BY <1>3 DEF touched, Pairs
<1>7. DOMAIN edges' = DOMAIN edges \cup Pairs(r)
  BY <1>2 DEF UpsertedEdges
<1> HIDE DEF ns, nb
<1>8. DOMAIN nodes' = DOMAIN ns
  BY <1>1 DEF _update_centrality
<1>9. \A e \in DOMAIN ns \ touched(r) : nodes'[e] = ns[e]
  BY <1>1 DEF _update_centrality
<1>10. \A e \in touched(r) :
          nodes'[e] = [ns[e] EXCEPT !.centrality =
                         [degree |-> Cardinality(nb[e]),
                          of |-> Max({1, Cardinality(DOMAIN ns) - 1})]]
  BY <1>1, <1>6 DEF _update_centrality
<1>11. \A e \in touched(r) :
          /\ nodes'[e].centrality = [degree |-> Cardinality(nb[e]),
                                     of |-> Max({1, Cardinality(DOMAIN ns) - 1})]
          /\ "centrality" \in DOMAIN nodes'[e]
  BY <1>10, <1>4, <1>6
<1>12. \A e \in DOMAIN nodes' : "centrality" \in DOMAIN nodes'[e]
  BY <1>4, <1>8, <1>9, <1>11
<1>13. \A e \in DOMAIN nodes' \ touched(r) : e \in DOMAIN nodes /\ nodes'[e] = nodes[e]
  BY <1>5, <1>8, <1>9 DEF touched
<1> QED  BY <1>1, <1>3, <1>6, <1>7, <1>8, <1>11, <1>12, <1>13 DEF nb

-----------------------------------------------------------------------------
(* The flow.                                                               *)

\* The worker applies a result the processor produced.
LEMMA NextResult ==
    ASSUME FlowInv, NEW p \in Partitions, applied[p] < fetched[p]
    PROVE  /\ input[p][applied[p] + 1].result \in StreamResults
           /\ applied[p] + 1 <= fetched[p]
           /\ fetched[p] <= Len(input[p])
<1>1. applied[p] \in Nat /\ fetched[p] \in Nat /\ fetched[p] <= Len(input[p])
  BY DEF FlowInv
<1>2. input[p] \in Seq(Messages)
  BY DEF FlowInv
<1>3. applied[p] + 1 \in 1..Len(input[p])
  BY <1>1, <1>2
<1>4. input[p][applied[p] + 1] \in Messages
  BY <1>2, <1>3
<1> QED  BY <1>1, <1>4 DEF Messages

\* No step takes the worker out of its batch or the batch out of the topic.
LEMMA FlowStep == FlowInv /\ [Next]_vars => FlowInv'
<1> SUFFICES ASSUME FlowInv, [Next]_vars PROVE FlowInv'
  OBVIOUS
<1> USE BoundsAssumption
<1>1. ASSUME NEW p \in Partitions, NEW t \in 1..MaxTime, NEW valid \in BOOLEAN,
             NEW r \in StreamResults, Arrive(p, t, valid, r)
      PROVE  FlowInv'
  <2> DEFINE m == [time |-> t, valid |-> valid, result |-> r]
  <2>1. m \in Messages /\ input' = [input EXCEPT ![p] = Append(@, m)]
    BY <1>1 DEF Arrive, Messages
  <2> HIDE DEF m
  <2>2. input \in [Partitions -> Seq(Messages)]
    BY DEF FlowInv
  <2>3. /\ input' \in [Partitions -> Seq(Messages)]
        /\ \A q \in Partitions : Len(input'[q]) \in Nat /\ Len(input[q]) \in Nat
                                /\ Len(input[q]) <= Len(input'[q])
    <3>1. Append(input[p], m) \in Seq(Messages)
          /\ Len(Append(input[p], m)) = Len(input[p]) + 1
      BY <2>1, <2>2
    <3>2. \A q \in Partitions : input'[q] = IF q = p THEN Append(input[p], m) ELSE input[q]
      BY <2>1, <2>2
    <3>3. input' \in [Partitions -> Seq(Messages)]
      BY <2>1, <2>2, <3>1
    <3>4. \A q \in Partitions : Len(input[q]) \in Nat
      BY <2>2
    <3> QED  BY <3>1, <3>2, <3>3, <3>4
  <2>4. UNCHANGED <<fetched, applied, committed>>
    BY <1>1 DEF Arrive
  <2>5. ASSUME NEW q \in Partitions
        PROVE  /\ applied'[q] <= fetched'[q]
               /\ fetched'[q] <= Len(input'[q])
               /\ committed'[q] <= Len(input'[q])
    BY <2>3, <2>4 DEF FlowInv
  <2> QED  BY <2>3, <2>4, <2>5 DEF FlowInv
<1>2. ASSUME NEW upto \in [Partitions -> 0..MaxArticles], Fetch(upto) PROVE FlowInv'
  <2>1. /\ fetched = applied /\ fetched' = upto
        /\ \A p \in Partitions : fetched[p] <= upto[p] /\ upto[p] <= Len(input[p])
        /\ UNCHANGED <<input, applied, committed>>
    BY <1>2 DEF Fetch
  <2>2. fetched' \in [Partitions -> Nat]
    BY <2>1
  <2> QED  BY <2>1, <2>2 DEF FlowInv
<1>3. ASSUME NEW p \in Partitions, Apply(p) PROVE FlowInv'
  <2>1. /\ applied[p] < fetched[p]
        /\ applied' = [applied EXCEPT ![p] = @ + 1]
        /\ UNCHANGED <<input, fetched, committed>>
    BY <1>3 DEF Apply
  <2> QED  BY <2>1 DEF FlowInv
<1>4. CASE Deliver \/ Drop
  BY <1>4 DEF Deliver, Drop, FlowInv
<1>5. CASE AutoCommit
  BY <1>5 DEF AutoCommit, FlowInv
<1>6. CASE Crash \/ Stop
  <2>1. Resume /\ UNCHANGED input
    BY <1>6 DEF Crash, Stop
  <2>2. \A p \in Partitions : Len(input[p]) \in Nat
    BY DEF FlowInv
  <2>3. CASE FreshGroup
    <3>1. fetched' = Zero /\ applied' = Zero /\ committed' = Zero
      BY <2>1, <2>3 DEF Resume
    <3> QED  BY <2>1, <2>2, <3>1 DEF Zero, FlowInv
  <2>4. CASE ~FreshGroup
    <3>1. fetched' = committed /\ applied' = committed /\ committed' = committed
      BY <2>1, <2>4 DEF Resume
    <3> QED  BY <2>1, <2>2, <3>1 DEF FlowInv
  <2> QED  BY <2>3, <2>4
<1>7. ASSUME NEW r \in Posts, NEW t \in 1..MaxTime, PostUpdate(r, t) PROVE FlowInv'
  BY <1>7 DEF PostUpdate, FlowInv
<1>8. CASE UNCHANGED vars
  BY <1>8 DEF vars, FlowInv
<1> QED
  BY <1>1, <1>2, <1>3, <1>4, <1>5, <1>6, <1>7, <1>8 DEF Next, Worker

-----------------------------------------------------------------------------
(* The store.                                                              *)

\* apply_result, from the worker or from POST /graph/update, keeps the store sound.
LEMMA ApplyKeepsStore ==
    ASSUME NEW r \in Results, NEW now, StoreInv, ApplyResult(r, now)
    PROVE  StoreInv'
<1> USE DEF StoreInv
<1>1. /\ DOMAIN nodes' = DOMAIN nodes \cup DOMAIN r.mentions
      /\ DOMAIN edges' = DOMAIN edges \cup Pairs(r)
      /\ neighbors' = UpsertedNeighbors(r)
      /\ touched(r) \subseteq DOMAIN nodes'
      /\ \A e \in DOMAIN nodes' : "centrality" \in DOMAIN nodes'[e]
  BY Applied
<1>2. \A e \in DOMAIN nodes' \ touched(r) : e \in DOMAIN nodes /\ nodes'[e] = nodes[e]
  BY Applied
<1>3. \A e \in touched(r) :
         nodes'[e].centrality = [degree |-> Cardinality(neighbors'[e]),
                                 of |-> Max({1, Cardinality(DOMAIN nodes') - 1})]
  BY Applied
<1>4. /\ DOMAIN r.mentions \subseteq Entities
      /\ \A k \in Pairs(r) : \E a, b \in Entities : a # b /\ k = {a, b}
  BY ResultsAssumption DEF Results, Pairs
<1>5. \A k \in Pairs(r) : k \subseteq DOMAIN nodes'
  BY <1>1 DEF Pairs
<1>6. ShapeInv'
  <2>1. DOMAIN nodes' \subseteq Entities
    BY <1>1, <1>4 DEF ShapeInv
  <2>2. Cardinality(DOMAIN nodes') \in Nat
    BY <2>1, Counting
  <2>3. \A e \in DOMAIN nodes' : nodes'[e].centrality.of \in Int
    <3> SUFFICES ASSUME NEW e \in DOMAIN nodes' PROVE nodes'[e].centrality.of \in Int
      OBVIOUS
    <3>1. Max({1, Cardinality(DOMAIN nodes') - 1}) \in Int
      BY <2>2, MaxWithOne
    <3>2. CASE e \in touched(r)
      <4> DEFINE d == Max({1, Cardinality(DOMAIN nodes') - 1})
      <4>1. nodes'[e].centrality = [degree |-> Cardinality(neighbors'[e]), of |-> d]
        BY <3>2, <1>3
      <4> HIDE DEF d
      <4>2. nodes'[e].centrality.of = d
        BY <4>1
      <4> QED  BY <4>2, <3>1 DEF d
    <3>3. CASE e \notin touched(r)
      BY <3>3, <1>2 DEF ShapeInv
    <3> QED  BY <3>2, <3>3
  <2> QED  BY <1>1, <1>4, <2>1, <2>3 DEF ShapeInv, UpsertedNeighbors
<1>7. StructuresAgree'
  <2>1. \A k \in DOMAIN edges' : k \subseteq DOMAIN nodes'
    BY <1>1, <1>5 DEF StructuresAgree
  <2>2. ASSUME NEW a \in Entities, NEW b \in Entities
        PROVE  b \in neighbors'[a] <=> a # b /\ {a, b} \in DOMAIN edges'
    <3>1. b \in neighbors'[a] <=> b \in neighbors[a] \/ (b # a /\ {a, b} \in Pairs(r))
      BY <1>1 DEF UpsertedNeighbors
    <3> QED  BY <1>1, <3>1 DEF StructuresAgree
  <2> QED  BY <2>1, <2>2 DEF StructuresAgree
<1>8. CentralityNeverTooLow'
  <2> SUFFICES ASSUME NEW e \in DOMAIN nodes'
               PROVE  /\ nodes'[e].centrality.degree = Cardinality(neighbors'[e])
                      /\ nodes'[e].centrality.of <= Max({1, Cardinality(DOMAIN nodes') - 1})
                      /\ nodes'[e].centrality.degree <= nodes'[e].centrality.of
    BY DEF CentralityNeverTooLow
  <2> DEFINE N == DOMAIN nodes'
             before == Max({1, Cardinality(DOMAIN nodes) - 1})
             after == Max({1, Cardinality(N) - 1})
  <2>1. e \in Entities /\ N \in SUBSET Entities /\ DOMAIN nodes \in SUBSET N
    BY <1>1, <1>6 DEF ShapeInv
  <2>2. Cardinality(N) \in Nat /\ Cardinality(DOMAIN nodes) \in Nat
        /\ Cardinality(DOMAIN nodes) <= Cardinality(N)
    BY <2>1, Counting
  <2>3. after \in Int /\ before \in Int /\ before <= after /\ after >= Cardinality(N) - 1
    <3>1. /\ after \in Int /\ after >= 1 /\ after >= Cardinality(N) - 1
          /\ before \in {1, Cardinality(DOMAIN nodes) - 1}
      BY <2>2, MaxWithOne
    <3> HIDE DEF before, after
    <3> QED  BY <3>1, <2>2
  <2>4. CASE e \in touched(r)
    <3>1. neighbors'[e] \in SUBSET (N \ {e})
      <4>1. \A b \in neighbors'[e] : b \in Entities /\ e # b /\ {e, b} \in DOMAIN edges'
        BY <2>1, <1>6, <1>7 DEF ShapeInv, StructuresAgree
      <4>2. \A b \in neighbors'[e] : b \in N
        BY <4>1, <1>7 DEF StructuresAgree
      <4> QED  BY <4>1, <4>2
    <3>2. Cardinality(neighbors'[e]) \in Nat
          /\ Cardinality(neighbors'[e]) <= Cardinality(N) - 1
      BY <3>1, <2>1, Counting
    <3>3. nodes'[e].centrality = [degree |-> Cardinality(neighbors'[e]), of |-> after]
      BY <2>4, <1>3
    <3> HIDE DEF after
    <3> QED  BY <3>2, <3>3, <2>2, <2>3 DEF after
  <2>5. CASE e \notin touched(r)
    <3>1. e \in DOMAIN nodes /\ nodes'[e] = nodes[e]
      BY <2>5, <1>2
    <3>2. neighbors'[e] = neighbors[e]
      <4>1. \A b \in Entities : {e, b} \notin Pairs(r)
        BY <2>5 DEF touched
      <4> QED  BY <4>1, <1>1, <2>1 DEF UpsertedNeighbors, ShapeInv
    <3>3. /\ nodes[e].centrality.degree = Cardinality(neighbors[e])
          /\ nodes[e].centrality.of <= before
          /\ nodes[e].centrality.degree <= nodes[e].centrality.of
      BY <3>1 DEF CentralityNeverTooLow
    <3>4. nodes[e].centrality.of \in Int /\ nodes[e].centrality.of <= after
      <4> HIDE DEF before, after
      <4> QED  BY <3>1, <3>3, <2>3 DEF ShapeInv
    <3> QED  BY <3>1, <3>2, <3>3, <3>4
  <2> QED  BY <2>4, <2>5
<1> QED  BY <1>6, <1>7, <1>8

\* The store starts empty, and a restart empties it.
LEMMA EmptyStoreOK ==
    ASSUME nodes = EmptyGraph, edges = EmptyGraph, neighbors = [e \in Entities |-> {}]
    PROVE  StoreInv
BY DEF EmptyGraph, StoreInv, ShapeInv, StructuresAgree, CentralityNeverTooLow

\* No step leaves the store unsound.
LEMMA StoreStep == FlowInv /\ StoreInv /\ [Next]_vars => StoreInv'
<1> SUFFICES ASSUME FlowInv, StoreInv, [Next]_vars PROVE StoreInv'
  OBVIOUS
<1>1. CASE UNCHANGED store
  BY <1>1 DEF store, StoreInv, ShapeInv, StructuresAgree, CentralityNeverTooLow
<1>2. CASE EmptyStore
  <2> USE <1>2 DEF EmptyStore
  <2>1. /\ DOMAIN nodes' = {} /\ DOMAIN edges' = {}
        /\ neighbors' = [e \in Entities |-> {}]
    BY DEF EmptyGraph
  <2> QED  BY <2>1 DEF StoreInv, ShapeInv, StructuresAgree, CentralityNeverTooLow
<1>3. ASSUME NEW r \in Results, NEW now, ApplyResult(r, now) PROVE StoreInv'
  BY <1>3, ApplyKeepsStore
<1>4. ASSUME NEW p \in Partitions, NEW t \in 1..MaxTime, NEW valid \in BOOLEAN,
             NEW r \in StreamResults, Arrive(p, t, valid, r)
      PROVE  UNCHANGED store
  BY <1>4 DEF Arrive
<1>5. ASSUME NEW upto \in [Partitions -> 0..MaxArticles], Fetch(upto)
      PROVE  UNCHANGED store
  BY <1>5 DEF Fetch
<1>6. CASE Deliver \/ AutoCommit \/ Drop
  BY <1>1, <1>6 DEF Deliver, AutoCommit, Drop
<1>7. CASE Crash \/ Stop
  BY <1>2, <1>7 DEF Crash, Stop
<1>8. ASSUME NEW p \in Partitions, Apply(p) PROVE StoreInv'
  <2>1. applied[p] < fetched[p]
    BY <1>8 DEF Apply
  <2>2. input[p][applied[p] + 1].result \in Results
    BY <2>1, NextResult DEF Results
  <2> QED  BY <1>1, <1>3, <1>8, <2>2 DEF Apply
<1>9. ASSUME NEW r \in Posts, NEW t \in 1..MaxTime, PostUpdate(r, t) PROVE StoreInv'
  BY <1>3, <1>9 DEF PostUpdate, Results
<1>10. CASE UNCHANGED vars
  BY <1>1, <1>10 DEF vars, store
<1> QED
  BY <1>1, <1>4, <1>5, <1>6, <1>7, <1>8, <1>9, <1>10 DEF Next, Worker

-----------------------------------------------------------------------------
(* What the readers of graph-changes have.                                 *)

\* A sequence is a queue.
LEMMA SeqIsQueue == ASSUME NEW S, NEW q \in Seq(S) PROVE IsQueue(q)
<1>1. Len(q) \in Nat /\ q \in [1..Len(q) -> S]
  OBVIOUS
<1> QED  BY <1>1 DEF IsQueue

\* Producing a change event.
LEMMA QueueAppend ==
    ASSUME NEW q, IsQueue(q), NEW x
    PROVE  /\ IsQueue(Append(q, x))
           /\ Len(Append(q, x)) = Len(q) + 1
           /\ \A n \in 1..Len(q) : Append(q, x)[n] = q[n]
           /\ Append(q, x)[Len(q) + 1] = x
<1> DEFINE S == {q[n] : n \in 1..Len(q)} \cup {x}
<1>1. q \in Seq(S) /\ x \in S
  BY DEF IsQueue
<1> HIDE DEF S
<1>2. /\ Append(q, x) \in Seq(S)
      /\ Len(Append(q, x)) = Len(q) + 1
      /\ \A n \in 1..Len(q) : Append(q, x)[n] = q[n]
      /\ Append(q, x)[Len(q) + 1] = x
  BY <1>1
<1> QED  BY <1>2, SeqIsQueue

\* Delivering the oldest one.
LEMMA QueueTail ==
    ASSUME NEW q, IsQueue(q), q # <<>>
    PROVE  /\ IsQueue(Tail(q))
           /\ Len(q) >= 1
           /\ Len(Tail(q)) = Len(q) - 1
           /\ \A n \in 1..(Len(q) - 1) : Tail(q)[n] = q[n + 1]
           /\ Head(q) = q[1]
<1> DEFINE S == {q[n] : n \in 1..Len(q)}
<1>1. q \in Seq(S)
  BY DEF IsQueue
<1> HIDE DEF S
<1>2. /\ Tail(q) \in Seq(S)
      /\ Len(q) >= 1
      /\ Len(Tail(q)) = Len(q) - 1
      /\ \A n \in 1..(Len(q) - 1) : Tail(q)[n] = q[n + 1]
      /\ Head(q) = q[1]
  BY <1>1
<1> QED  BY <1>2, SeqIsQueue

\* An edge that was not there before is worth a change event.
LEMMA NewEdgeChanges ==
    ASSUME NEW r \in StreamResults, NEW now, ApplyResult(r, now),
           NEW k \in Pairs(r), k \notin DOMAIN edges
    PROVE  EdgeChanged(k)
<1>1. edges'[k].strength = r.pairs[k] * Unit
  BY DEF ApplyResult, UpsertedEdges, EdgeAfter
<1>2. r.pairs[k] \in Nat \ {0}
  BY PairsAssumption, ResultsAssumption DEF Pairs
<1>3. Unit \in Nat /\ StrengthThreshold <= Unit
  BY BoundsAssumption DEF StrengthThreshold
<1>4. StrengthThreshold \in Int
  BY BoundsAssumption DEF StrengthThreshold
<1>5. edges'[k].strength \in Nat /\ edges'[k].strength >= Unit
  <2>1. \A n, u \in Nat : n # 0 => n * u \in Nat /\ n * u >= u
    OBVIOUS
  <2> QED  BY <1>1, <1>2, <1>3, <2>1
<1> QED  BY <1>3, <1>4, <1>5 DEF EdgeChanged, Distance

\* A change event is produced for what a result of the stream has changed.
LEMMA ApplyPublishes ==
    ASSUME FlowInv, StoreInv, QueueInv, PublishedInv, NEW p \in Partitions, Apply(p)
    PROVE  IsQueue(inflight') /\ PublishedInv'
<1> DEFINE m == input[p][applied[p] + 1]
           r == m.result
           x == ChangeEvent(r)
           L == Len(inflight)
<1>1. r \in StreamResults
  <2>1. applied[p] < fetched[p]
    BY DEF Apply
  <2> QED  BY <2>1, NextResult
<1>2. UNCHANGED <<replica_nodes, replica_edges, posts, faults>>
  BY DEF Apply, replica, history
<1>3. CASE ~m.valid
  <2>1. UNCHANGED <<nodes, edges, inflight>>
    BY <1>3 DEF Apply, store
  <2> QED
    BY <1>2, <2>1
    DEF QueueInv, IsQueue, PublishedInv, NodeIsPublished, EdgeIsPublished,
        OverwrittenAfter, PublishedNode
<1>4. CASE m.valid
  <2>1. ApplyResult(r, m.time) /\ inflight' = Append(inflight, x)
    BY <1>4 DEF Apply
  <2>2. /\ DOMAIN nodes' = DOMAIN nodes \cup DOMAIN r.mentions
        /\ DOMAIN edges' = DOMAIN edges \cup Pairs(r)
        /\ \A e \in DOMAIN nodes' \ touched(r) : e \in DOMAIN nodes /\ nodes'[e] = nodes[e]
    <3>1. r \in Results /\ ShapeInv
      BY <1>1 DEF Results, StoreInv
    <3> QED  BY <2>1, <3>1, Applied
  <2>3. touched(r) \subseteq DOMAIN r.mentions
    BY <1>1, PairsAssumption DEF touched, Pairs
  <2>4. /\ IsQueue(inflight') /\ L \in Nat /\ Len(inflight') = L + 1
        /\ \A n \in 1..L : inflight'[n] = inflight[n]
        /\ inflight'[L + 1] = x
    BY <2>1, QueueAppend DEF QueueInv, IsQueue
  <2>5. /\ x.entity_changes = [e \in DOMAIN r.mentions |-> PublishedNode(nodes'[e])]
        /\ x.relationship_changes = [k \in {y \in Pairs(r) : EdgeChanged(y)} |-> edges'[k]]
    BY DEF ChangeEvent, _build_entity_changes, _build_relationship_changes
  <2> HIDE DEF m, r, x, L
  <2>6. ASSUME posts = 0, faults = 0, NEW e \in DOMAIN nodes'
        PROVE  NodeIsPublished(e)'
    <3>1. CASE e \in DOMAIN r.mentions
      <4>1. /\ e \in DOMAIN inflight'[L + 1].entity_changes
            /\ inflight'[L + 1].entity_changes[e] = PublishedNode(nodes'[e])
        BY <3>1, <2>4, <2>5
      <4>2. PICK n \in Nat : n = L + 1
        BY <2>4
      <4>3. n \in 1..Len(inflight') /\ ~OverwrittenAfter(e, n)'
        BY <4>2, <2>4 DEF OverwrittenAfter
      <4>4. PublishedNode(nodes[e])' = PublishedNode(nodes'[e])
        BY DEF PublishedNode
      <4> QED  BY <4>1, <4>2, <4>3, <4>4 DEF NodeIsPublished
    <3>2. CASE e \notin DOMAIN r.mentions
      <4>1. e \in DOMAIN nodes /\ nodes'[e] = nodes[e]
        BY <3>2, <2>2, <2>3
      <4>2. NodeIsPublished(e)
        BY <4>1, <2>6 DEF PublishedInv
      <4>3. e \notin DOMAIN inflight'[L + 1].entity_changes
        BY <3>2, <2>4, <2>5
      <4>4. \A n \in 0..L : ~OverwrittenAfter(e, n) => ~OverwrittenAfter(e, n)'
        BY <4>3, <2>4 DEF OverwrittenAfter, L
      <4>5. PublishedNode(nodes'[e]) = PublishedNode(nodes[e])
        BY <4>1
      <4>6. CASE \E n \in 1..Len(inflight) :
                   /\ e \in DOMAIN inflight[n].entity_changes
                   /\ inflight[n].entity_changes[e] = PublishedNode(nodes[e])
                   /\ ~OverwrittenAfter(e, n)
        <5>1. PICK n \in 1..L :
                   /\ e \in DOMAIN inflight[n].entity_changes
                   /\ inflight[n].entity_changes[e] = PublishedNode(nodes[e])
                   /\ ~OverwrittenAfter(e, n)
          BY <4>6 DEF L
        <5>2. n \in 1..Len(inflight') /\ inflight'[n] = inflight[n] /\ n \in 0..L
          BY <2>4
        <5> QED  BY <5>1, <5>2, <4>4, <4>5 DEF NodeIsPublished, PublishedNode
      <4>7. CASE /\ e \in DOMAIN replica_nodes
                 /\ replica_nodes[e] = PublishedNode(nodes[e])
                 /\ ~OverwrittenAfter(e, 0)
        BY <4>7, <4>4, <4>5, <1>2, <2>4 DEF NodeIsPublished, PublishedNode
      <4> QED  BY <4>2, <4>6, <4>7 DEF NodeIsPublished
    <3> QED  BY <3>1, <3>2
  <2>7. ASSUME posts = 0, faults = 0, NEW k \in DOMAIN edges'
        PROVE  EdgeIsPublished(k)'
    <3>1. CASE k \in DOMAIN edges
      <4>1. EdgeIsPublished(k)
        BY <3>1, <2>7 DEF PublishedInv
      <4> QED  BY <4>1, <1>2, <2>4 DEF EdgeIsPublished, L
    <3>2. CASE k \notin DOMAIN edges
      <4>1. k \in Pairs(r)
        BY <3>2, <2>2
      <4>2. EdgeChanged(k)
        BY <4>1, <3>2, <1>1, <2>1, NewEdgeChanges
      <4>3. k \in DOMAIN inflight'[L + 1].relationship_changes /\ L + 1 \in 1..Len(inflight')
        BY <4>1, <4>2, <2>4, <2>5
      <4> QED  BY <4>3 DEF EdgeIsPublished
    <3> QED  BY <3>1, <3>2
  <2> QED  BY <2>4, <2>6, <2>7, <1>2 DEF PublishedInv
<1> QED  BY <1>3, <1>4

\* Delivering the oldest change event takes it from the queue to the replica.
LEMMA DeliverPublishes ==
    ASSUME QueueInv, PublishedInv, Deliver
    PROVE  IsQueue(inflight') /\ PublishedInv'
<1> DEFINE event == Head(inflight)
           L == Len(inflight)
<1>1. /\ IsQueue(inflight') /\ L \in Nat /\ L >= 1 /\ Len(inflight') = L - 1
      /\ \A n \in 1..(L - 1) : inflight'[n] = inflight[n + 1]
      /\ inflight[1] = event
  BY QueueTail DEF Deliver, QueueInv, IsQueue
<1>2. /\ replica_nodes' = [e \in DOMAIN replica_nodes \cup DOMAIN event.entity_changes |->
                              IF e \in DOMAIN event.entity_changes
                              THEN event.entity_changes[e] ELSE replica_nodes[e]]
      /\ replica_edges' = [k \in DOMAIN replica_edges \cup DOMAIN event.relationship_changes |->
                              IF k \in DOMAIN event.relationship_changes
                              THEN event.relationship_changes[k] ELSE replica_edges[k]]
      /\ UNCHANGED <<nodes, edges, posts, faults>>
  BY DEF Deliver, store, history
<1> HIDE DEF event, L
<1>3. ASSUME NEW e, NEW n \in 1..L, ~OverwrittenAfter(e, n)
      PROVE  \A i \in Nat : i = n - 1 => ~OverwrittenAfter(e, i)'
  <2> SUFFICES ASSUME NEW i \in Nat, i = n - 1,
                      NEW j \in (i + 1)..Len(inflight'),
                      e \in DOMAIN inflight'[j].entity_changes
               PROVE  FALSE
    BY DEF OverwrittenAfter
  <2>1. inflight'[j] = inflight[j + 1] /\ j + 1 \in (n + 1)..L
    BY <1>1
  <2> QED  BY <2>1, <1>3 DEF OverwrittenAfter, L
<1>4. ASSUME posts = 0, faults = 0, NEW e \in DOMAIN nodes
      PROVE  NodeIsPublished(e)'
  <2>1. NodeIsPublished(e) /\ nodes' = nodes
    BY <1>4, <1>2 DEF PublishedInv
  <2>2. CASE \E n \in 1..Len(inflight) :
               /\ e \in DOMAIN inflight[n].entity_changes
               /\ inflight[n].entity_changes[e] = PublishedNode(nodes[e])
               /\ ~OverwrittenAfter(e, n)
    <3>1. PICK n \in 1..L :
               /\ e \in DOMAIN inflight[n].entity_changes
               /\ inflight[n].entity_changes[e] = PublishedNode(nodes[e])
               /\ ~OverwrittenAfter(e, n)
      BY <2>2 DEF L
    <3>2. CASE n = 1
      <4>1. e \in DOMAIN replica_nodes' /\ replica_nodes'[e] = PublishedNode(nodes[e])
        BY <3>1, <3>2, <1>1, <1>2
      <4>2. ~OverwrittenAfter(e, 0)'
        BY <3>1, <3>2, <1>3
      <4> QED  BY <4>1, <4>2, <2>1 DEF NodeIsPublished
    <3>3. CASE n # 1
      <4>1. PICK i \in Nat : i = n - 1
        BY <3>3
      <4>2. i \in 1..Len(inflight') /\ inflight'[i] = inflight[n]
        BY <4>1, <3>3, <1>1
      <4>3. ~OverwrittenAfter(e, i)'
        BY <4>1, <3>1, <1>3
      <4> QED  BY <4>2, <4>3, <3>1, <2>1 DEF NodeIsPublished
    <3> QED  BY <3>2, <3>3
  <2>3. CASE /\ e \in DOMAIN replica_nodes
             /\ replica_nodes[e] = PublishedNode(nodes[e])
             /\ ~OverwrittenAfter(e, 0)
    <3>1. e \notin DOMAIN event.entity_changes
      BY <2>3, <1>1 DEF OverwrittenAfter, L
    <3>2. e \in DOMAIN replica_nodes' /\ replica_nodes'[e] = PublishedNode(nodes[e])
      BY <2>3, <3>1, <1>2
    <3>3. ~OverwrittenAfter(e, 1)
      BY <2>3, <1>1 DEF OverwrittenAfter
    <3>4. ~OverwrittenAfter(e, 0)'
      BY <3>3, <1>1, <1>3
    <3> QED  BY <3>2, <3>4, <2>1 DEF NodeIsPublished
  <2> QED  BY <2>1, <2>2, <2>3 DEF NodeIsPublished
<1>5. ASSUME posts = 0, faults = 0, NEW k \in DOMAIN edges
      PROVE  EdgeIsPublished(k)'
  <2>1. EdgeIsPublished(k)
    BY <1>5 DEF PublishedInv
  <2>2. CASE k \in DOMAIN replica_edges
    BY <2>2, <1>2 DEF EdgeIsPublished
  <2>3. CASE \E n \in 1..L : k \in DOMAIN inflight[n].relationship_changes
    <3>1. PICK n \in 1..L : k \in DOMAIN inflight[n].relationship_changes
      BY <2>3
    <3>2. CASE n = 1
      BY <3>1, <3>2, <1>1, <1>2 DEF EdgeIsPublished
    <3>3. CASE n # 1
      <4>1. n - 1 \in 1..Len(inflight') /\ inflight'[n - 1] = inflight[n]
        BY <3>3, <1>1
      <4> QED  BY <3>1, <4>1 DEF EdgeIsPublished
    <3> QED  BY <3>2, <3>3
  <2> QED  BY <2>1, <2>2, <2>3 DEF EdgeIsPublished, L
<1> QED  BY <1>1, <1>2, <1>4, <1>5 DEF PublishedInv

\* No step voids what was published, except a POST and an undelivered change event.
LEMMA PublishedStep ==
    ASSUME FlowInv, StoreInv, QueueInv, PublishedInv, [Next]_vars
    PROVE  QueueInv' /\ PublishedInv'
<1>1. CASE UNCHANGED <<nodes, edges, inflight, replica_nodes, replica_edges, posts, faults>>
  BY <1>1
  DEF QueueInv, IsQueue, PublishedInv, NodeIsPublished, EdgeIsPublished,
      OverwrittenAfter, PublishedNode
<1>2. ASSUME NEW p \in Partitions, NEW t \in 1..MaxTime, NEW valid \in BOOLEAN,
             NEW r \in StreamResults, Arrive(p, t, valid, r)
      PROVE  QueueInv' /\ PublishedInv'
  BY <1>1, <1>2 DEF Arrive, store, replica, history
<1>3. ASSUME NEW upto \in [Partitions -> 0..MaxArticles], Fetch(upto)
      PROVE  QueueInv' /\ PublishedInv'
  BY <1>1, <1>3 DEF Fetch, store, replica, history
<1>4. CASE AutoCommit
  BY <1>1, <1>4 DEF AutoCommit, store, replica, history
<1>5. ASSUME NEW p \in Partitions, Apply(p) PROVE QueueInv' /\ PublishedInv'
  <2>1. UNCHANGED <<posts, faults>>
    BY <1>5 DEF Apply, history
  <2> QED  BY <1>5, <2>1, ApplyPublishes DEF QueueInv
<1>6. CASE Deliver
  <2>1. UNCHANGED <<posts, faults>>
    BY <1>6 DEF Deliver, history
  <2> QED  BY <1>6, <2>1, DeliverPublishes DEF QueueInv
<1>7. CASE Drop
  <2>1. /\ inflight # <<>> /\ inflight' = Tail(inflight)
        /\ faults' = faults + 1 /\ posts' = posts
    BY <1>7 DEF Drop
  <2>2. IsQueue(inflight')
    BY <2>1, QueueTail DEF QueueInv
  <2> QED  BY <2>1, <2>2 DEF QueueInv, PublishedInv
<1>8. CASE Crash \/ Stop
  <2>1. /\ nodes' = EmptyGraph /\ edges' = EmptyGraph /\ inflight' = <<>>
        /\ UNCHANGED <<posts, faults>>
    BY <1>8 DEF Crash, Stop, EmptyStore
  <2>2. IsQueue(<<>>)
    BY DEF IsQueue
  <2> QED  BY <2>1, <2>2 DEF QueueInv, PublishedInv, EmptyGraph
<1>9. ASSUME NEW r \in Posts, NEW t \in 1..MaxTime, PostUpdate(r, t)
      PROVE  QueueInv' /\ PublishedInv'
  <2>1. posts' = posts + 1 /\ faults' = faults /\ inflight' = inflight
    BY <1>9 DEF PostUpdate
  <2> QED  BY <2>1 DEF QueueInv, IsQueue, PublishedInv
<1>10. CASE UNCHANGED vars
  BY <1>1, <1>10 DEF vars, store, replica, history
<1> QED
  BY <1>2, <1>3, <1>4, <1>5, <1>6, <1>7, <1>8, <1>9, <1>10 DEF Next, Worker

-----------------------------------------------------------------------------
(* Counting up.                                                            *)

\* A set of numbers that is not empty has a least one.
LEMMA Least ==
    ASSUME NEW S \in SUBSET Nat, S # {}
    PROVE  \E n \in S : \A m \in S : n <= m
<1>1. PICK R : IsWellFoundedOn(R, Nat) /\ \A x, y \in Nat : x < y => <<x, y>> \in R
  <2> DEFINE Q == OpToRel(<, Nat)
  <2>1. IsWellFoundedOn(Q, Nat)
    BY NatLessThanWellFounded
  <2>2. \A x, y \in Nat : x < y => <<x, y>> \in Q
    BY DEF OpToRel
  <2> HIDE DEF Q
  <2> QED  BY <2>1, <2>2, Zenon
<1>2. PICK n \in S : \A m \in S : ~(<<m, n>> \in R)
  <2>1. IsWellFoundedOn(R, Nat) /\ S \subseteq Nat /\ S # {}
    BY <1>1
  <2> QED  BY ONLY <2>1, WFMin, Zenon
<1>3. \A m \in S : ~(m < n)
  BY <1>1, <1>2
<1> QED  BY <1>3

\* A set of numbers that has 0, and n + 1 when it has n, has them all.
LEMMA CountingUp ==
    ASSUME NEW S \in SUBSET Nat, 0 \in S, \A n \in S : n + 1 \in S
    PROVE  S = Nat
<1> SUFFICES ASSUME Nat \ S # {} PROVE FALSE
  OBVIOUS
<1>1. PICK n \in Nat \ S : \A m \in Nat \ S : n <= m
  BY Least, Nat \ S \in SUBSET Nat
<1>2. n # 0 /\ n - 1 \in Nat /\ n - 1 \notin Nat \ S
  BY <1>1
<1> QED  BY <1>1, <1>2

-----------------------------------------------------------------------------
(* Weighted scores.                                                        *)

Score == -Unit..Unit

\* g weighs the first n scores.
Weighs(g, n, old, scores) ==
    g = [i \in 0..n |-> IF i = 0 THEN old ELSE _weighted(g[i - 1], scores[i])]

\* A weighted score is a score.
LEMMA WeightedScore ==
    ASSUME NEW old \in Score, NEW new \in Score
    PROVE  _weighted(old, new) \in Score
<1>1. Unit \in Nat
  BY BoundsAssumption
<1> QED  BY <1>1 DEF _weighted, Score

\* Weighing scores one after the other gives scores only, and can be done.
LEMMA WeighedScores ==
    ASSUME NEW old \in Score, NEW scores \in Seq(Score)
    PROVE  Weighted(old, scores) \in Score
<1> DEFINE L == Len(scores)
           Good == {n \in Nat : n > L \/ \E g : Weighs(g, n, old, scores) /\ \A i \in 0..n : g[i] \in Score}
<1>1. L \in Nat /\ \A i \in 1..L : scores[i] \in Score
  OBVIOUS
<1> HIDE DEF L
<1>2. 0 \in Good
  <2> DEFINE g == [i \in 0..0 |-> old]
  <2>1. Weighs(g, 0, old, scores) /\ \A i \in 0..0 : g[i] \in Score
    BY DEF Weighs
  <2> HIDE DEF g
  <2> QED  BY <2>1
<1>3. ASSUME NEW n \in Good PROVE n + 1 \in Good
  <2>1. n \in Nat
    OBVIOUS
  <2>2. CASE n + 1 > L
    BY <2>1, <2>2
  <2>3. CASE ~(n + 1 > L)
    <3>1. n + 1 \in 1..L /\ ~(n > L)
      BY <1>1, <2>1, <2>3
    <3>2. PICK g : Weighs(g, n, old, scores) /\ \A i \in 0..n : g[i] \in Score
      BY <3>1
    <3> DEFINE h == [i \in 0..(n + 1) |-> IF i = n + 1 THEN _weighted(g[n], scores[n + 1]) ELSE g[i]]
    <3>3. \A i \in 0..(n + 1) : h[i] \in Score
      <4>1. _weighted(g[n], scores[n + 1]) \in Score
        BY <1>1, <2>1, <3>1, <3>2, WeightedScore
      <4> QED  BY <2>1, <3>2, <4>1
    <3>4. \A i \in 0..(n + 1) : h[i] = IF i = 0 THEN old ELSE _weighted(h[i - 1], scores[i])
      <4> SUFFICES ASSUME NEW i \in 0..(n + 1)
                   PROVE  h[i] = IF i = 0 THEN old ELSE _weighted(h[i - 1], scores[i])
        OBVIOUS
      <4>1. \A j \in 0..n : g[j] = IF j = 0 THEN old ELSE _weighted(g[j - 1], scores[j])
        BY <3>2 DEF Weighs
      <4>2. CASE i = n + 1
        <5>1. i # 0 /\ i - 1 = n /\ n \in 0..(n + 1) /\ n # n + 1
          BY <2>1, <4>2
        <5> QED  BY <4>2, <5>1
      <4>3. CASE i # n + 1
        <5>1. i \in 0..n /\ (i # 0 => i - 1 \in 0..(n + 1) /\ i - 1 # n + 1)
          BY <2>1, <4>3
        <5> QED  BY <4>1, <4>3, <5>1
      <4> QED  BY <4>2, <4>3
    <3>5. Weighs(h, n + 1, old, scores)
      <4>1. h = [i \in 0..(n + 1) |-> h[i]]
        OBVIOUS
      <4> HIDE DEF h
      <4> QED  BY <3>4, <4>1 DEF Weighs
    <3> HIDE DEF h
    <3> QED  BY <2>1, <3>3, <3>5
  <2> QED  BY <2>2, <2>3
<1>4. Good = Nat
  <2>1. Good \in SUBSET Nat
    OBVIOUS
  <2> HIDE DEF Good
  <2> QED  BY <1>2, <1>3, <2>1, CountingUp
<1>5. PICK g : Weighs(g, L, old, scores) /\ \A i \in 0..L : g[i] \in Score
  <2> HIDE DEF Good
  <2>1. L \in Good
    BY <1>1, <1>4
  <2>2. ~(L > L)
    BY <1>1
  <2> QED  BY <2>1, <2>2 DEF Good
<1> DEFINE after == CHOOSE f : Weighs(f, L, old, scores)
<1>6. Weighs(after, L, old, scores)
  BY <1>5
<1>7. Weighted(old, scores) = after[L]
  BY DEF Weighted, Weighs, L
<1> HIDE DEF after
<1> DEFINE Same == {n \in Nat : n > L \/ after[n] = g[n]}
<1>8. \A i \in 0..L : /\ after[i] = IF i = 0 THEN old ELSE _weighted(after[i - 1], scores[i])
                      /\ g[i] = IF i = 0 THEN old ELSE _weighted(g[i - 1], scores[i])
  BY <1>5, <1>6 DEF Weighs
<1>9. 0 \in Same
  BY <1>1, <1>8
<1>10. ASSUME NEW n \in Same PROVE n + 1 \in Same
  <2>1. CASE n + 1 > L
    BY <2>1
  <2>2. CASE ~(n + 1 > L)
    <3>1. n + 1 \in 0..L /\ n + 1 # 0 /\ n + 1 - 1 = n /\ after[n] = g[n]
      BY <1>1, <2>2
    <3> QED  BY <1>8, <3>1
  <2> QED  BY <2>1, <2>2
<1>11. Same = Nat
  <2>1. Same \in SUBSET Nat
    OBVIOUS
  <2> HIDE DEF Same
  <2> QED  BY <1>9, <1>10, <2>1, CountingUp
<1>12. after[L] = g[L]
  <2>1. L \in Same /\ ~(L > L)
    BY <1>1, <1>11
  <2> QED  BY <2>1
<1> QED  BY <1>1, <1>5, <1>7, <1>12

-----------------------------------------------------------------------------
(* Windows and nodes.                                                      *)

\* w with count more entries, all of the time now.
Extended(w, count, now) == w \o [n \in 1..count |-> now]

\* The old entries of an extended window come first, then the new ones.
LEMMA ExtendedFacts ==
    ASSUME NEW w \in Seq(Int), NEW count \in Nat, NEW now \in Int
    PROVE  /\ Extended(w, count, now) \in Seq(Int)
           /\ Len(Extended(w, count, now)) = Len(w) + count
           /\ \A i \in 1..Len(w) : Extended(w, count, now)[i] = w[i]
           /\ \A i \in (Len(w) + 1)..(Len(w) + count) : Extended(w, count, now)[i] = now
<1> DEFINE t == [n \in 1..count |-> now]
<1>1. t \in Seq(Int) /\ Len(t) = count /\ \A n \in 1..count : t[n] = now
  OBVIOUS
<1>2. Extended(w, count, now) = w \o t
  BY DEF Extended
<1> HIDE DEF t
<1>3. /\ w \o t \in Seq(Int) /\ Len(w \o t) = Len(w) + Len(t)
      /\ \A i \in 1..(Len(w) + Len(t)) :
            (w \o t)[i] = IF i <= Len(w) THEN w[i] ELSE t[i - Len(w)]
  BY <1>1
<1>4. Len(w) \in Nat
  OBVIOUS
<1> QED  BY <1>1, <1>2, <1>3, <1>4

\* Expiry drops a prefix of too old entries, never one that was just appended.
LEMMA WindowFacts ==
    ASSUME NEW e, windows[e] \in Seq(Int), NEW count \in Nat \ {0}, NEW now \in Int
    PROVE  \E d \in 0..Len(windows[e]) :
             /\ Window(e, count, now) \in Seq(Int)
             /\ Len(Window(e, count, now)) = Len(windows[e]) + count - d
             /\ \A i \in 1..(Len(windows[e]) + count - d) :
                   Window(e, count, now)[i] =
                     IF i + d <= Len(windows[e]) THEN windows[e][i + d] ELSE now
             /\ \A j \in 1..d : windows[e][j] < now - Hour
             /\ Window(e, count, now)[1] >= now - Hour
<1> DEFINE L == Len(windows[e])
           x == Extended(windows[e], count, now)
           Fresh == {n \in 1..(L + count) : x[n] >= now - Hour}
           first == CHOOSE n \in 1..Len(x) : x[n] >= now - Hour /\ \A m \in 1..(n - 1) : x[m] < now - Hour
<1>1. /\ x \in Seq(Int) /\ Len(x) = L + count
      /\ \A i \in 1..L : x[i] = windows[e][i]
      /\ \A i \in (L + 1)..(L + count) : x[i] = now
  BY ExtendedFacts
<1>2. Hour \in Nat /\ L \in Nat
  BY BoundsAssumption
<1>3. Window(e, count, now) = SubSeq(x, first, Len(x))
  BY DEF Window, Extended
<1> HIDE DEF x
<1>4. L + 1 \in Fresh
  <2>1. L + 1 \in (L + 1)..(L + count)
    BY <1>2
  <2>2. x[L + 1] = now
    BY <1>1, <2>1
  <2>3. now >= now - Hour
    BY <1>2
  <2>4. L + 1 \in 1..(L + count)
    BY <1>2
  <2> QED  BY <2>2, <2>3, <2>4
<1>5. PICK k \in Fresh : \A m \in Fresh : k <= m
  <2>1. Fresh \in SUBSET Nat /\ Fresh # {}
    BY <1>2, <1>4
  <2> HIDE DEF Fresh
  <2> QED  BY <2>1, Least
<1>6. \A i \in 1..(L + count) : x[i] \in Int
  BY <1>1, <1>2
<1>7. /\ k \in 1..Len(x) /\ x[k] >= now - Hour
      /\ \A m \in 1..(k - 1) : x[m] < now - Hour
  BY <1>1, <1>2, <1>5, <1>6
<1>8. /\ first \in 1..Len(x) /\ x[first] >= now - Hour
      /\ \A m \in 1..(first - 1) : x[m] < now - Hour
  BY <1>7
<1> HIDE DEF first
<1>9. first <= L + 1
  <2>1. x[L + 1] >= now - Hour /\ x[L + 1] \in Int
    BY <1>4, <1>6
  <2> HIDE DEF L
  <2>2. ASSUME ~(first <= L + 1) PROVE L + 1 \in 1..(first - 1)
    BY <1>1, <1>2, <1>8, <2>2
  <2>3. ASSUME ~(first <= L + 1) PROVE FALSE
    <3>1. x[L + 1] < now - Hour
      BY <2>2, <2>3, <1>8
    <3>2. now - Hour \in Int
      BY <1>2
    <3> QED  BY <2>1, <3>1, <3>2
  <2> QED  BY <2>3
<1>10. PICK d : d = first - 1
  OBVIOUS
<1>11. d \in 0..L /\ first = d + 1 /\ d \in Nat
  BY <1>1, <1>2, <1>8, <1>9, <1>10
<1>12. \A j \in 1..d : windows[e][j] < now - Hour
  <2> SUFFICES ASSUME NEW j \in 1..d PROVE windows[e][j] < now - Hour
    OBVIOUS
  <2>1. j \in 1..(first - 1) /\ j \in 1..L
    BY <1>2, <1>11
  <2> QED  BY <1>1, <1>8, <2>1
<1> DEFINE W == SubSeq(x, first, Len(x))
<1>13. /\ W \in Seq(Int) /\ Len(W) = L + count - d
       /\ \A i \in 1..(L + count - d) : W[i] = x[i + d]
  BY <1>1, <1>2, <1>8, <1>11
<1> HIDE DEF W
<1>14. \A i \in 1..(L + count - d) :
          W[i] = IF i + d <= L THEN windows[e][i + d] ELSE now
  <2> SUFFICES ASSUME NEW i \in 1..(L + count - d)
               PROVE  W[i] = IF i + d <= L THEN windows[e][i + d] ELSE now
    OBVIOUS
  <2>1. W[i] = x[i + d]
    BY <1>13
  <2>2. i + d \in 1..L \/ (i + d \in (L + 1)..(L + count) /\ ~(i + d <= L))
    <3> HIDE DEF L
    <3> QED  BY <1>2, <1>11
  <2>3. CASE i + d \in 1..L
    <3>1. i + d <= L
      BY <1>2, <2>3
    <3> QED  BY <1>1, <2>1, <2>3, <3>1
  <2>4. CASE i + d \in (L + 1)..(L + count) /\ ~(i + d <= L)
    BY <1>1, <2>1, <2>4
  <2> QED  BY <2>2, <2>3, <2>4
<1>15. W[1] >= now - Hour
  <2>1. 1 \in 1..(L + count - d) /\ 1 + d = first
    BY <1>2, <1>11
  <2> QED  BY <1>8, <1>13, <2>1
<1>16. Window(e, count, now) = W
  BY <1>3 DEF W
<1> QED  BY <1>11, <1>12, <1>13, <1>14, <1>15, <1>16

Fields == {"mention_count", "sentiment", "last_seen", "hourly_rate", "centrality"}

\* A known entity has a window of times, as long as its hourly rate and ending with
\* the last mention; an unknown one has none.
NodesInv ==
    /\ \A e \in Entities :
         /\ windows[e] \in Seq(1..MaxTime)
         /\ e \notin DOMAIN nodes => windows[e] = <<>>
    /\ \A e \in DOMAIN nodes :
         /\ DOMAIN nodes[e] = Fields
         /\ nodes[e].mention_count \in Nat \ {0}
         /\ nodes[e].hourly_rate = Len(windows[e])
         /\ nodes[e].hourly_rate \in 1..nodes[e].mention_count
         /\ nodes[e].last_seen = windows[e][Len(windows[e])]
         /\ windows[e][1] >= nodes[e].last_seen - Hour

\* What apply_result makes of the nodes and the windows.
LEMMA AppliedNodes ==
    ASSUME NEW r \in Results, NEW now, ShapeInv, NodesInv, ApplyResult(r, now)
    PROVE  /\ \A e \in DOMAIN nodes' : DOMAIN nodes'[e] = Fields
           /\ \A e \in DOMAIN r.mentions :
                /\ nodes'[e].mention_count = CountOf(e) + Len(r.mentions[e])
                /\ nodes'[e].sentiment =
                     IF e \in DOMAIN nodes THEN Weighted(nodes[e].sentiment, r.mentions[e])
                     ELSE Weighted(Head(r.mentions[e]), Tail(r.mentions[e]))
                /\ nodes'[e].last_seen = now
                /\ nodes'[e].hourly_rate = Len(windows'[e])
                /\ windows'[e] = Window(e, Len(r.mentions[e]), now)
           /\ \A e \in DOMAIN nodes \ DOMAIN r.mentions :
                /\ nodes'[e].mention_count = nodes[e].mention_count
                /\ nodes'[e].sentiment = nodes[e].sentiment
                /\ nodes'[e].last_seen = nodes[e].last_seen
                /\ nodes'[e].hourly_rate = nodes[e].hourly_rate
           /\ \A e \in Entities \ DOMAIN r.mentions : windows'[e] = windows[e]
<1> DEFINE ns == UpsertedNodes(r, now)
           nb == UpsertedNeighbors(r)
<1>1. nodes' = _update_centrality(ns, nb, touched(r))
  BY DEF ApplyResult
<1>2. DOMAIN r.mentions \subseteq Entities
  BY ResultsAssumption DEF Results
<1>3. /\ \A e \in DOMAIN r.mentions : windows'[e] = Window(e, Len(r.mentions[e]), now)
      /\ \A e \in Entities \ DOMAIN r.mentions : windows'[e] = windows[e]
  BY <1>2 DEF ApplyResult
<1>4. DOMAIN ns = DOMAIN nodes \cup DOMAIN r.mentions
  BY DEF UpsertedNodes
<1>5. \A e \in DOMAIN nodes \ DOMAIN r.mentions : ns[e] = nodes[e] /\ DOMAIN ns[e] = Fields
  BY DEF UpsertedNodes, NodesInv
<1>6. ASSUME NEW e \in DOMAIN r.mentions
      PROVE  /\ DOMAIN ns[e] = Fields
             /\ ns[e].mention_count = CountOf(e) + Len(r.mentions[e])
             /\ ns[e].sentiment =
                  IF e \in DOMAIN nodes THEN Weighted(nodes[e].sentiment, r.mentions[e])
                  ELSE Weighted(Head(r.mentions[e]), Tail(r.mentions[e]))
             /\ ns[e].last_seen = now
             /\ ns[e].hourly_rate = Len(windows'[e])
  <2>1. ns[e] = NodeAfter(e, r.mentions[e], now)
    BY DEF UpsertedNodes
  <2> HIDE DEF ns
  <2>2. DOMAIN ns[e] = Fields
    BY <2>1 DEF NodeAfter, Fields
  <2> QED  BY <1>3, <2>1, <2>2 DEF NodeAfter, CountOf
<1> HIDE DEF ns, nb
<1>7. ASSUME NEW e \in DOMAIN ns
      PROVE  /\ DOMAIN nodes'[e] = Fields
             /\ nodes'[e].mention_count = ns[e].mention_count
             /\ nodes'[e].sentiment = ns[e].sentiment
             /\ nodes'[e].last_seen = ns[e].last_seen
             /\ nodes'[e].hourly_rate = ns[e].hourly_rate
  <2>1. DOMAIN ns[e] = Fields
    BY <1>4, <1>5, <1>6
  <2>2. nodes'[e] = ns[e] \/ \E c : nodes'[e] = [ns[e] EXCEPT !.centrality = c]
    BY <1>1 DEF _update_centrality
  <2>3. ASSUME NEW c, nodes'[e] = [ns[e] EXCEPT !.centrality = c]
        PROVE  /\ DOMAIN nodes'[e] = Fields
               /\ \A f \in Fields : f # "centrality" => nodes'[e][f] = ns[e][f]
    BY <2>1, <2>3
  <2> QED  BY <2>1, <2>2, <2>3 DEF Fields
<1>8. DOMAIN nodes' = DOMAIN ns
  BY <1>1 DEF _update_centrality
<1> QED  BY <1>3, <1>4, <1>5, <1>6, <1>7, <1>8

\* apply_result keeps counts, rates and windows together.
LEMMA ApplyKeepsNodes ==
    ASSUME NEW r \in Results, NEW now \in 1..MaxTime, ShapeInv, NodesInv, ApplyResult(r, now)
    PROVE  NodesInv'
<1>1. DOMAIN nodes' = DOMAIN nodes \cup DOMAIN r.mentions
  BY Applied
<1>2. /\ DOMAIN r.mentions \subseteq Entities
      /\ \A e \in DOMAIN r.mentions : Len(r.mentions[e]) \in Nat \ {0}
  BY ResultsAssumption DEF Results
<1>3. MaxTime \in Nat /\ Hour \in Nat
  BY BoundsAssumption
<1>4. ASSUME NEW e \in DOMAIN r.mentions
      PROVE  /\ windows'[e] \in Seq(1..MaxTime)
             /\ DOMAIN nodes'[e] = Fields
             /\ nodes'[e].mention_count \in Nat \ {0}
             /\ nodes'[e].hourly_rate = Len(windows'[e])
             /\ nodes'[e].hourly_rate \in 1..nodes'[e].mention_count
             /\ nodes'[e].last_seen = windows'[e][Len(windows'[e])]
             /\ windows'[e][1] >= nodes'[e].last_seen - Hour
  <2> DEFINE count == Len(r.mentions[e])
             L == Len(windows[e])
             W == Window(e, count, now)
  <2>1. count \in Nat \ {0} /\ e \in Entities
    BY <1>2
  <2>2. windows[e] \in Seq(1..MaxTime) /\ windows[e] \in Seq(Int)
    BY <1>3, <2>1 DEF NodesInv
  <2>3. L \in Nat /\ \A i \in 1..L : windows[e][i] \in 1..MaxTime
    <3> DEFINE S == 1..MaxTime
    <3>1. windows[e] \in Seq(S)
      BY <2>2
    <3> HIDE DEF S
    <3>2. \A i \in 1..L : windows[e][i] \in S
      BY <3>1
    <3> QED  BY <2>2, <3>2 DEF S
  <2>4. now \in Int
    BY <1>3
  <2>5. PICK d \in 0..L :
             /\ W \in Seq(Int)
             /\ Len(W) = L + count - d
             /\ \A i \in 1..(L + count - d) : W[i] = IF i + d <= L THEN windows[e][i + d] ELSE now
             /\ \A j \in 1..d : windows[e][j] < now - Hour
             /\ W[1] >= now - Hour
    BY <2>1, <2>2, <2>4, WindowFacts
  <2>6. /\ DOMAIN nodes'[e] = Fields
        /\ nodes'[e].mention_count = CountOf(e) + count
        /\ nodes'[e].last_seen = now
        /\ nodes'[e].hourly_rate = Len(windows'[e])
        /\ windows'[e] = W
    BY <1>1, AppliedNodes
  <2>7. CountOf(e) \in Nat /\ L <= CountOf(e)
    <3>1. CASE e \in DOMAIN nodes
      BY <2>1, <2>3, <3>1 DEF CountOf, NodesInv
    <3>2. CASE e \notin DOMAIN nodes
      <4>1. windows[e] = <<>>
        BY <2>1, <3>2 DEF NodesInv
      <4> QED  BY <3>2, <4>1 DEF CountOf
    <3> QED  BY <3>1, <3>2
  <2> HIDE DEF W, L, count
  <2>8. W[Len(W)] = now
    BY <2>1, <2>3, <2>5
  <2>9. W \in Seq(1..MaxTime)
    <3>1. \A i \in 1..Len(W) : W[i] \in 1..MaxTime
      <4> SUFFICES ASSUME NEW i \in 1..Len(W) PROVE W[i] \in 1..MaxTime
        OBVIOUS
      <4>1. i \in 1..(L + count - d) /\ (i + d <= L => i + d \in 1..L)
        BY <2>1, <2>3, <2>5
      <4> QED  BY <2>3, <2>5, <4>1
    <3>2. Len(W) \in Nat /\ W = [i \in 1..Len(W) |-> W[i]]
      BY <2>5
    <3> DEFINE S == 1..MaxTime
    <3>3. \A i \in 1..Len(W) : W[i] \in S
      BY <3>1
    <3> HIDE DEF S
    <3>4. W \in Seq(S)
      BY <3>2, <3>3
    <3> QED  BY <3>4 DEF S
  <2>10. CountOf(e) + count \in Nat \ {0} /\ L + count - d \in 1..(CountOf(e) + count)
    BY <2>1, <2>3, <2>7
  <2> QED  BY <2>5, <2>6, <2>8, <2>9, <2>10
<1>5. ASSUME NEW e \in DOMAIN nodes \ DOMAIN r.mentions
      PROVE  /\ DOMAIN nodes'[e] = Fields
             /\ nodes'[e].mention_count = nodes[e].mention_count
             /\ nodes'[e].last_seen = nodes[e].last_seen
             /\ nodes'[e].hourly_rate = nodes[e].hourly_rate
             /\ windows'[e] = windows[e]
  BY <1>1, AppliedNodes DEF ShapeInv
<1>6. \A e \in Entities \ DOMAIN r.mentions : windows'[e] = windows[e]
  BY AppliedNodes
<1>7. ASSUME NEW e \in Entities
      PROVE  windows'[e] \in Seq(1..MaxTime) /\ (e \notin DOMAIN nodes' => windows'[e] = <<>>)
  BY <1>1, <1>4, <1>6 DEF NodesInv
<1>8. ASSUME NEW e \in DOMAIN nodes'
      PROVE  /\ DOMAIN nodes'[e] = Fields
             /\ nodes'[e].mention_count \in Nat \ {0}
             /\ nodes'[e].hourly_rate = Len(windows'[e])
             /\ nodes'[e].hourly_rate \in 1..nodes'[e].mention_count
             /\ nodes'[e].last_seen = windows'[e][Len(windows'[e])]
             /\ windows'[e][1] >= nodes'[e].last_seen - Hour
  <2>1. CASE e \in DOMAIN r.mentions
    BY <2>1, <1>4
  <2>2. CASE e \notin DOMAIN r.mentions
    <3>1. e \in DOMAIN nodes \ DOMAIN r.mentions
      BY <2>2, <1>1
    <3> QED  BY <3>1, <1>5 DEF NodesInv
  <2> QED  BY <2>1, <2>2
<1> QED  BY <1>7, <1>8 DEF NodesInv

-----------------------------------------------------------------------------
(* No step but apply_result and a restart touches the store.               *)

\* What the steps do to the store and to what has been applied of the input.
LEMMA StoreSteps ==
    ASSUME FlowInv, [Next]_vars
    PROVE  \/ /\ UNCHANGED store
              /\ applied' = applied
              /\ UNCHANGED posts
              /\ \A p \in Partitions : \A o \in 1..applied[p] : input'[p][o] = input[p][o]
           \/ \E p \in Partitions :
                /\ applied[p] < fetched[p]
                /\ applied' = [applied EXCEPT ![p] = @ + 1]
                /\ UNCHANGED <<input, posts>>
                /\ LET m == input[p][applied[p] + 1]
                   IN  /\ m \in Messages
                       /\ IF m.valid THEN ApplyResult(m.result, m.time) ELSE UNCHANGED store
           \/ EmptyStore /\ Resume /\ UNCHANGED <<input, posts>>
           \/ \E r \in Posts, t \in 1..MaxTime : 
                ApplyResult(r, t) /\ posts' = posts + 1 /\ posts < MaxPosts
<1> DEFINE Idle ==
             /\ UNCHANGED store
             /\ applied' = applied
             /\ UNCHANGED posts
             /\ \A p \in Partitions : \A o \in 1..applied[p] : input'[p][o] = input[p][o]
           Applies(p) ==
             /\ applied[p] < fetched[p]
             /\ applied' = [applied EXCEPT ![p] = @ + 1]
             /\ UNCHANGED <<input, posts>>
             /\ LET m == input[p][applied[p] + 1]
                IN  /\ m \in Messages
                    /\ IF m.valid THEN ApplyResult(m.result, m.time) ELSE UNCHANGED store
           Restarts == EmptyStore /\ Resume /\ UNCHANGED <<input, posts>>
           Posted(r, t) == ApplyResult(r, t) /\ posts' = posts + 1 /\ posts < MaxPosts
<1>1. ASSUME UNCHANGED <<input, applied, nodes, edges, neighbors, windows, posts>> PROVE Idle
  BY <1>1 DEF store
<1>2. ASSUME NEW p \in Partitions, NEW t \in 1..MaxTime, NEW valid \in BOOLEAN,
             NEW r \in StreamResults, Arrive(p, t, valid, r)
      PROVE  Idle
  <2>1. \A q \in Partitions : \A o \in 1..applied[q] : input'[q][o] = input[q][o]
    <3> SUFFICES ASSUME NEW q \in Partitions, NEW o \in 1..applied[q]
                 PROVE  input'[q][o] = input[q][o]
      OBVIOUS
    <3>1. PICK m : input' = [input EXCEPT ![p] = Append(@, m)]
      BY <1>2 DEF Arrive
    <3>2. input \in [Partitions -> Seq(Messages)] /\ applied[q] \in Nat
          /\ applied[q] <= fetched[q] /\ fetched[q] \in Nat /\ fetched[q] <= Len(input[q])
      BY DEF FlowInv
    <3>3. Len(input[q]) \in Nat /\ o \in 1..Len(input[q])
      BY <3>2
    <3>4. CASE q = p
      <4>1. input'[q] = Append(input[q], m)
        BY <3>1, <3>2, <3>4
      <4> QED  BY <3>2, <3>3, <4>1
    <3>5. CASE q # p
      BY <3>1, <3>2, <3>5
    <3> QED  BY <3>4, <3>5
  <2> QED  BY <1>2, <2>1 DEF Arrive, history
<1>3. ASSUME NEW upto \in [Partitions -> 0..MaxArticles], Fetch(upto) PROVE Idle
  BY <1>1, <1>3 DEF Fetch, store, history
<1>4. ASSUME NEW p \in Partitions, Apply(p) PROVE Applies(p)
  <2>1. input[p][applied[p] + 1] \in Messages
    <3>1. applied[p] \in Nat /\ fetched[p] \in Nat /\ fetched[p] <= Len(input[p])
          /\ applied[p] < fetched[p] /\ input[p] \in Seq(Messages)
      BY <1>4 DEF FlowInv, Apply
    <3>2. applied[p] + 1 \in 1..Len(input[p])
      BY <3>1
    <3> QED  BY <3>1, <3>2
  <2> QED  BY <1>4, <2>1 DEF Apply, history
<1>5. ASSUME Deliver \/ Drop \/ AutoCommit PROVE Idle
  BY <1>1, <1>5 DEF Deliver, Drop, AutoCommit, store, history
<1>6. ASSUME Crash \/ Stop PROVE Restarts
  BY <1>6 DEF Crash, Stop
<1>7. ASSUME NEW r \in Posts, NEW t \in 1..MaxTime, PostUpdate(r, t) PROVE Posted(r, t)
  BY <1>7 DEF PostUpdate
<1>8. ASSUME UNCHANGED vars PROVE Idle
  BY <1>1, <1>8 DEF vars, store
<1> HIDE DEF Idle, Applies, Restarts, Posted
<1>9. Idle \/ (\E p \in Partitions : Applies(p)) \/ Restarts
      \/ (\E r \in Posts, t \in 1..MaxTime : Posted(r, t))
  <2>1. CASE \E p \in Partitions, t \in 1..MaxTime, valid \in BOOLEAN, r \in StreamResults :
               Arrive(p, t, valid, r)
    BY <2>1, <1>2
  <2>2. CASE Worker
    BY <2>2, <1>3, <1>4, <1>5 DEF Worker
  <2>3. CASE \E r \in Posts, t \in 1..MaxTime : PostUpdate(r, t)
    BY <2>3, <1>7
  <2> QED  BY <2>1, <2>2, <2>3, <1>5, <1>6, <1>8 DEF Next
<1> QED  BY <1>9 DEF Idle, Applies, Restarts, Posted

\* No step separates counts, rates and windows.
LEMMA NodesStep == FlowInv /\ ShapeInv /\ NodesInv /\ [Next]_vars => NodesInv'
<1> SUFFICES ASSUME FlowInv, ShapeInv, NodesInv, [Next]_vars PROVE NodesInv'
  OBVIOUS
<1>1. CASE UNCHANGED store
  BY <1>1 DEF store, NodesInv
<1>2. CASE EmptyStore
  <2>1. <<>> \in Seq(1..MaxTime)
    OBVIOUS
  <2> QED  BY <1>2, <2>1 DEF EmptyStore, EmptyGraph, NodesInv
<1>3. ASSUME NEW r \in Results, NEW t \in 1..MaxTime, ApplyResult(r, t) PROVE NodesInv'
  BY <1>3, ApplyKeepsNodes
<1> QED  BY <1>1, <1>2, <1>3, StoreSteps DEF Messages, Results

-----------------------------------------------------------------------------
(* Scores.                                                                 *)

\* VADER's scores are within -1..1; update_graph of api.py does not check those
\* it is sent.
ScoresInRange ==
    \A r \in Results : \A e \in DOMAIN r.mentions : r.mentions[e] \in Seq(Score)

\* A sentiment and a joint sentiment are scores, a strength is not negative.
ScoresInv ==
    /\ \A e \in DOMAIN nodes : nodes[e].sentiment \in Score
    /\ \A k \in DOMAIN edges : edges[k].strength \in Nat /\ edges[k].joint_sentiment \in Score

\* apply_result weighs and averages scores into scores.
LEMMA ApplyKeepsScores ==
    ASSUME ScoresInRange, NEW r \in Results, NEW now, ShapeInv, NodesInv, ScoresInv,
           ApplyResult(r, now)
    PROVE  ScoresInv'
<1> DEFINE ns == UpsertedNodes(r, now)
           known == DOMAIN nodes \cup DOMAIN r.mentions
<1>1. Unit \in Nat
  BY BoundsAssumption
<1>2. ASSUME NEW e \in known PROVE ns[e].sentiment \in Score
  <2>1. CASE e \in DOMAIN r.mentions
    <3>1. r.mentions[e] \in Seq(Score) /\ Len(r.mentions[e]) > 0
      BY <2>1, ResultsAssumption DEF ScoresInRange, Results
    <3> DEFINE s == r.mentions[e]
    <3> HIDE DEF s
    <3>2. s \in Seq(Score) /\ Len(s) > 0
      BY <3>1 DEF s
    <3>3. Head(s) \in Score /\ Tail(s) \in Seq(Score)
      BY <3>2
    <3>4. Weighted(Head(s), Tail(s)) \in Score
      BY <3>3, WeighedScores
    <3>5. e \in DOMAIN nodes => Weighted(nodes[e].sentiment, s) \in Score
      BY <3>2, WeighedScores DEF ScoresInv
    <3>6. ns[e].sentiment = IF e \in DOMAIN nodes THEN Weighted(nodes[e].sentiment, s)
                            ELSE Weighted(Head(s), Tail(s))
      BY <2>1 DEF UpsertedNodes, NodeAfter, s
    <3> QED  BY <3>4, <3>5, <3>6
  <2>2. CASE e \notin DOMAIN r.mentions
    BY <2>2 DEF UpsertedNodes, ScoresInv
  <2> QED  BY <2>1, <2>2
<1> HIDE DEF ns
<1>3. ASSUME NEW e \in DOMAIN nodes' PROVE nodes'[e].sentiment \in Score
  <2>1. DOMAIN nodes' = known
    BY Applied
  <2>2. CASE e \in DOMAIN r.mentions
    <3>1. r.mentions[e] \in Seq(Score) /\ Len(r.mentions[e]) > 0
      BY <2>2, ResultsAssumption DEF ScoresInRange, Results
    <3> DEFINE s == r.mentions[e]
    <3>2. nodes'[e].sentiment = IF e \in DOMAIN nodes THEN Weighted(nodes[e].sentiment, s)
                                ELSE Weighted(Head(s), Tail(s))
      BY <2>2, AppliedNodes
    <3>3. ns[e].sentiment = IF e \in DOMAIN nodes THEN Weighted(nodes[e].sentiment, s)
                            ELSE Weighted(Head(s), Tail(s))
      BY <2>2 DEF UpsertedNodes, NodeAfter, ns
    <3> QED  BY <2>1, <3>2, <3>3, <1>2
  <2>3. CASE e \notin DOMAIN r.mentions
    <3>1. nodes'[e].sentiment = nodes[e].sentiment /\ e \in DOMAIN nodes
      BY <2>1, <2>3, AppliedNodes
    <3> QED  BY <3>1 DEF ScoresInv
  <2> QED  BY <2>2, <2>3
<1>4. ASSUME NEW k \in Pairs(r) PROVE JointOf(ns, k) \in Score
  <2>1. k \subseteq known /\ \E a, b \in Entities : a # b /\ k = {a, b}
    BY ResultsAssumption DEF Pairs, Results
  <2> DEFINE a == CHOOSE x \in k : TRUE
             b == CHOOSE x \in k : x # a
  <2>2. a \in k
    BY <2>1
  <2> HIDE DEF a
  <2>3. b \in k
    BY <2>1, <2>2
  <2> HIDE DEF b
  <2>4. ns[a].sentiment \in Score /\ ns[b].sentiment \in Score
    BY <2>1, <2>2, <2>3, <1>2
  <2>5. (ns[a].sentiment + ns[b].sentiment) \div 2 \in Score
    BY <1>1, <2>4 DEF Score
  <2>6. JointOf(ns, k) = (ns[a].sentiment + ns[b].sentiment) \div 2
    BY DEF JointOf, a, b
  <2> QED  BY <2>5, <2>6
<1>5. edges' = UpsertedEdges(r, ns)
  BY DEF ApplyResult, ns
<1>6. ASSUME NEW k \in DOMAIN edges'
      PROVE  edges'[k].strength \in Nat /\ edges'[k].joint_sentiment \in Score
  <2>1. CASE k \in Pairs(r)
    <3>1. edges'[k] = EdgeAfter(k, r.pairs[k], JointOf(ns, k))
      BY <1>5, <2>1 DEF UpsertedEdges
    <3>2. r.pairs[k] \in Nat
      BY <2>1, ResultsAssumption DEF Results, Pairs
    <3>3. r.pairs[k] * Unit \in Nat
      BY <1>1, <3>2
    <3> DEFINE q == r.pairs[k] * Unit
               j == JointOf(ns, k)
    <3>4. j \in Score /\ q \in Nat
      BY <1>4, <2>1, <3>3
    <3> HIDE DEF q, j
    <3>5. CASE k \in DOMAIN edges
      <4>1. edges[k].strength \in Nat /\ edges[k].joint_sentiment \in Score
        BY <3>5 DEF ScoresInv
      <4>2. _weighted(edges[k].strength, q) \in Nat
        BY <3>4, <4>1 DEF _weighted
      <4>3. _weighted(edges[k].joint_sentiment, j) \in Score
        BY <3>4, <4>1, WeightedScore
      <4> QED  BY <3>1, <3>5, <4>2, <4>3 DEF EdgeAfter, q, j
    <3>6. CASE k \notin DOMAIN edges
      BY <3>1, <3>4, <3>6 DEF EdgeAfter, q, j
    <3> QED  BY <3>5, <3>6
  <2>2. CASE k \notin Pairs(r)
    BY <1>5, <1>6, <2>2 DEF UpsertedEdges, ScoresInv
  <2> QED  BY <2>1, <2>2
<1> QED  BY <1>3, <1>6 DEF ScoresInv

\* No step leaves the range of the scores.
LEMMA ScoresStep ==
    ScoresInRange /\ FlowInv /\ ShapeInv /\ NodesInv /\ ScoresInv /\ [Next]_vars => ScoresInv'
<1> SUFFICES ASSUME ScoresInRange, FlowInv, ShapeInv, NodesInv, ScoresInv, [Next]_vars
             PROVE  ScoresInv'
  OBVIOUS
<1>1. CASE UNCHANGED store
  BY <1>1 DEF store, ScoresInv
<1>2. CASE EmptyStore
  BY <1>2 DEF EmptyStore, EmptyGraph, ScoresInv
<1>3. ASSUME NEW r \in Results, NEW t, ApplyResult(r, t) PROVE ScoresInv'
  BY <1>3, ApplyKeepsScores
<1> QED  BY <1>1, <1>2, <1>3, StoreSteps DEF Messages, Results

HistoryInv == posts \in 0..MaxPosts /\ faults \in 0..MaxFaults /\ crashes \in 0..MaxCrashes

\* The three counts of what happened stay within their bounds.
LEMMA HistoryStep == HistoryInv /\ [Next]_vars => HistoryInv'
<1> SUFFICES ASSUME HistoryInv, [Next]_vars PROVE HistoryInv'
  OBVIOUS
<1>1. MaxPosts \in Nat /\ MaxFaults \in Nat /\ MaxCrashes \in Nat
  BY BoundsAssumption
<1>2. CASE UNCHANGED history
  BY <1>2 DEF history, HistoryInv
<1>3. CASE Drop
  BY <1>1, <1>3 DEF Drop, HistoryInv
<1>4. CASE Crash \/ Stop
  BY <1>1, <1>4 DEF Crash, Stop, HistoryInv
<1>5. ASSUME NEW r \in Posts, NEW t \in 1..MaxTime, PostUpdate(r, t) PROVE HistoryInv'
  BY <1>1, <1>5 DEF PostUpdate, HistoryInv
<1>6. CASE Worker
  BY <1>2, <1>6 DEF Worker, Fetch, Apply, Deliver
<1> QED
  BY <1>2, <1>3, <1>4, <1>5, <1>6 DEF Next, Arrive, AutoCommit, vars, history

-----------------------------------------------------------------------------
(* Mentions.                                                               *)

\* The mentions of e in everything that has been applied.
Heard(e) == Mentions(e, applied, 1, MaxTime)

\* What a mention of the applied results is.
IsMention(x, e, p, o, n) == x = <<<<p, o>>, n>> /\ n \in 1..MentionsOf(input[p][o], e)

TimeOf(x) == Message(x[1]).time

\* A message mentions an entity a number of times.
LEMMA MentionsCounted ==
    ASSUME NEW m \in Messages, NEW e
    PROVE  /\ MentionsOf(m, e) \in Nat
           /\ MentionsOf(m, e) # 0 <=> m.valid /\ e \in DOMAIN m.result.mentions
           /\ MentionsOf(m, e) # 0 => MentionsOf(m, e) = Len(m.result.mentions[e])
<1>1. m.result \in StreamResults
  BY DEF Messages
<1>2. CASE m.valid /\ e \in DOMAIN m.result.mentions
  <2>1. m.result.mentions[e] \in Seq(Int) /\ Len(m.result.mentions[e]) > 0
    BY <1>1, <1>2, ResultsAssumption
  <2> DEFINE s == m.result.mentions[e]
  <2>2. MentionsOf(m, e) = Len(s)
    BY <1>2 DEF MentionsOf
  <2> HIDE DEF s
  <2>3. Len(s) \in Nat /\ Len(s) # 0
    BY <2>1 DEF s
  <2> QED  BY <1>2, <2>2, <2>3 DEF s
<1>3. CASE ~(m.valid /\ e \in DOMAIN m.result.mentions)
  BY <1>3 DEF MentionsOf
<1> QED  BY <1>2, <1>3

\* The messages the worker has dealt with are messages of the topic.
LEMMA AppliedMessages ==
    ASSUME FlowInv, NEW p \in Partitions, NEW o \in 1..applied[p]
    PROVE  /\ applied[p] \in Nat
           /\ input[p][o] \in Messages
           /\ input[p][o].time \in 1..MaxTime
           /\ input[p][o].time \in Int
<1>1. /\ applied[p] \in Nat /\ fetched[p] \in Nat /\ input[p] \in Seq(Messages)
      /\ applied[p] <= fetched[p] /\ fetched[p] <= Len(input[p])
  BY DEF FlowInv
<1>2. Len(input[p]) \in Nat
  BY <1>1
<1>3. o \in 1..Len(input[p])
  BY <1>1, <1>2
<1>4. input[p][o] \in Messages
  BY <1>1, <1>3
<1>5. MaxTime \in Nat
  BY BoundsAssumption
<1> QED  BY <1>1, <1>4, <1>5 DEF Messages

\* The mentions of the times lo..hi, one by one.
LEMMA MentionsListed ==
    ASSUME FlowInv, NEW e, NEW lo \in Int, NEW hi \in Int, NEW x
    PROVE  x \in Mentions(e, applied, lo, hi) <=>
             \E p \in Partitions : \E o \in 1..applied[p], n \in Nat :
               IsMention(x, e, p, o, n) /\ lo <= input[p][o].time /\ input[p][o].time <= hi
<1>1. ASSUME NEW at
      PROVE  at \in ResultsUpTo(applied) <=>
               \E p \in Partitions : \E o \in 1..applied[p] : at = <<p, o>>
  BY DEF ResultsUpTo
<1>2. ASSUME x \in Mentions(e, applied, lo, hi)
      PROVE  \E p \in Partitions : \E o \in 1..applied[p], n \in Nat :
               IsMention(x, e, p, o, n) /\ lo <= input[p][o].time /\ input[p][o].time <= hi
  <2>1. PICK at \in ResultsUpTo(applied) :
           /\ lo <= Message(at).time /\ Message(at).time <= hi
           /\ x \in {at} \X (1..MentionsOf(Message(at), e))
    BY <1>2 DEF Mentions
  <2>2. PICK p \in Partitions : \E o \in 1..applied[p] : at = <<p, o>>
    BY <1>1
  <2>3. PICK o \in 1..applied[p] : at = <<p, o>>
    BY <2>2
  <2>4. Message(at) = input[p][o]
    BY <2>3 DEF Message
  <2>5. MentionsOf(input[p][o], e) \in Nat
    BY AppliedMessages, MentionsCounted
  <2>6. PICK n \in 1..MentionsOf(input[p][o], e) : x = <<at, n>>
    BY <2>1, <2>4
  <2>7. n \in Nat
    BY <2>5
  <2>8. IsMention(x, e, p, o, n)
    BY <2>3, <2>6 DEF IsMention
  <2> QED  BY <2>1, <2>4, <2>7, <2>8
<1>3. ASSUME NEW p \in Partitions, NEW o \in 1..applied[p], NEW n \in Nat,
             IsMention(x, e, p, o, n), lo <= input[p][o].time, input[p][o].time <= hi
      PROVE  x \in Mentions(e, applied, lo, hi)
  <2>1. <<p, o>> \in ResultsUpTo(applied)
    BY <1>1
  <2>2. Message(<<p, o>>) = input[p][o]
    BY DEF Message
  <2>3. x \in {<<p, o>>} \X (1..MentionsOf(Message(<<p, o>>), e))
    BY <1>3, <2>2 DEF IsMention
  <2> QED  BY <1>3, <2>1, <2>2, <2>3 DEF Mentions
<1> QED  BY <1>2, <1>3

\* The mentions of every time are those of all that has been applied.
LEMMA HeardListed ==
    ASSUME FlowInv, NEW e, NEW x
    PROVE  x \in Heard(e) <=>
             \E q \in Partitions : \E o \in 1..applied[q], n \in Nat : IsMention(x, e, q, o, n)
<1>1. 1 \in Int /\ MaxTime \in Int
  BY BoundsAssumption
<1>2. \A p \in Partitions : \A o \in 1..applied[p] :
          1 <= input[p][o].time /\ input[p][o].time <= MaxTime
  BY <1>1, AppliedMessages
<1> QED  BY <1>1, <1>2, MentionsListed DEF Heard

\* The same after a step.
LEMMA HeardListedThen ==
    ASSUME FlowInv', NEW e, NEW x
    PROVE  x \in Heard(e)' <=>
             \E q \in Partitions : \E o \in 1..applied'[q], n \in Nat : IsMention(x, e, q, o, n)'
<1>1. (x \in Heard(e) <=>
         \E q \in Partitions : \E o \in 1..applied[q], n \in Nat : IsMention(x, e, q, o, n))'
  BY HeardListed, PTL
<1> QED  BY <1>1

\* A mention heard has the time of its message.
LEMMA HeardTimes ==
    ASSUME FlowInv, NEW e, NEW lo \in Int, NEW hi \in Int, NEW x
    PROVE  /\ x \in Heard(e) => TimeOf(x) \in Int
           /\ x \in Mentions(e, applied, lo, hi) <=>
                 x \in Heard(e) /\ lo <= TimeOf(x) /\ TimeOf(x) <= hi
<1>1. ASSUME NEW p, NEW o, NEW n, IsMention(x, e, p, o, n)
      PROVE  TimeOf(x) = input[p][o].time
  BY <1>1 DEF IsMention, TimeOf, Message
<1>2. x \in Heard(e) => TimeOf(x) \in Int
  BY <1>1, HeardListed, AppliedMessages
<1>3. x \in Mentions(e, applied, lo, hi) <=>
         x \in Heard(e) /\ lo <= TimeOf(x) /\ TimeOf(x) <= hi
  BY <1>1, MentionsListed, HeardListed
<1> QED  BY <1>2, <1>3

\* Nothing is heard of anyone before the first result is applied.
LEMMA NothingHeard ==
    ASSUME FlowInv, applied = Zero, NEW e
    PROVE  Heard(e) = {}
<1>1. \A p \in Partitions : 1..applied[p] = {}
  BY DEF Zero
<1> QED  BY <1>1, HeardListed

\* Nothing more is heard by a step that applies nothing.
LEMMA HeardUnchanged ==
    ASSUME FlowInv, FlowInv', applied' = applied,
           \A p \in Partitions : \A o \in 1..applied[p] : input'[p][o] = input[p][o],
           NEW e
    PROVE  /\ Heard(e)' = Heard(e)
           /\ \A x \in Heard(e) : TimeOf(x)' = TimeOf(x)
<1>1. ASSUME NEW x
      PROVE  x \in Heard(e)' <=>
               \E q \in Partitions : \E o \in 1..applied'[q], n \in Nat : IsMention(x, e, q, o, n)'
  BY HeardListedThen
<1>2. ASSUME NEW x, NEW p \in Partitions, NEW o \in 1..applied[p], NEW n \in Nat
      PROVE  IsMention(x, e, p, o, n)' <=> IsMention(x, e, p, o, n)
  BY DEF IsMention, MentionsOf
<1>3. Heard(e)' = Heard(e)
  <2>1. ASSUME NEW x PROVE x \in Heard(e)' <=> x \in Heard(e)
    BY <1>1, <1>2, HeardListed
  <2> QED  BY <2>1
<1>4. ASSUME NEW x \in Heard(e) PROVE TimeOf(x)' = TimeOf(x)
  <2>1. \E p \in Partitions : \E o \in 1..applied[p], n \in Nat : IsMention(x, e, p, o, n)
    BY HeardListed
  <2> QED  BY <2>1 DEF IsMention, TimeOf, Message
<1> QED  BY <1>3, <1>4

\* Applying the next result of p adds its mentions.
LEMMA HeardNext ==
    ASSUME FlowInv, FlowInv', NEW p \in Partitions, applied[p] < fetched[p],
           applied' = [applied EXCEPT ![p] = @ + 1], UNCHANGED input, NEW e
    PROVE  LET at == <<p, applied[p] + 1>>
           IN  /\ Heard(e)' = Heard(e) \cup ({at} \X (1..MentionsOf(input[p][applied[p] + 1], e)))
               /\ Heard(e) \cap ({at} \X (1..MentionsOf(input[p][applied[p] + 1], e))) = {}
               /\ \A x \in Heard(e) : TimeOf(x)' = TimeOf(x)
<1> DEFINE k == applied[p] + 1
           c == MentionsOf(input[p][k], e)
<1>1. applied \in [Partitions -> Nat] /\ applied[p] \in Nat /\ k \in Nat
  BY DEF FlowInv
<1>2. /\ applied'[p] = k
      /\ \A q \in Partitions : q # p => applied'[q] = applied[q]
      /\ 1..applied'[p] = (1..applied[p]) \cup {k} /\ k \notin 1..applied[p]
  BY <1>1
<1>3. c \in Nat
  <2>1. k \in 1..Len(input[p]) /\ input[p] \in Seq(Messages)
    <3>1. fetched[p] \in Nat /\ fetched[p] <= Len(input[p]) /\ input[p] \in Seq(Messages)
      BY DEF FlowInv
    <3> QED  BY <1>1, <3>1
  <2>2. input[p][k] \in Messages
    BY <2>1
  <2> QED  BY <2>2, MentionsCounted
<1>4. ASSUME NEW x
      PROVE  x \in Heard(e)' <=>
               \E q \in Partitions : \E o \in 1..applied'[q], n \in Nat : IsMention(x, e, q, o, n)
  <2>1. \A q, o, n : IsMention(x, e, q, o, n)' <=> IsMention(x, e, q, o, n)
    BY DEF IsMention, MentionsOf
  <2> QED  BY <2>1, HeardListedThen
<1> DEFINE at == <<p, k>>
           new == {at} \X (1..c)
<1>5. ASSUME NEW x
      PROVE  x \in new <=> \E n \in Nat : IsMention(x, e, p, k, n)
  BY <1>3 DEF IsMention
<1> HIDE DEF c, k
<1>6. ASSUME NEW x PROVE x \in Heard(e)' <=> x \in Heard(e) \/ x \in new
  <2> HIDE DEF new
  <2> QED  BY <1>2, <1>4, <1>5, HeardListed
<1>7. ASSUME NEW x \in Heard(e), x \in new PROVE FALSE
  <2>1. PICK q \in Partitions : \E o \in 1..applied[q], n \in Nat : IsMention(x, e, q, o, n)
    BY HeardListed
  <2>2. PICK o \in 1..applied[q] : \E n \in Nat : IsMention(x, e, q, o, n)
    BY <2>1
  <2>3. q = p /\ o = k
    BY <1>7, <2>2 DEF IsMention
  <2> QED  BY <1>2, <2>3
<1>8. ASSUME NEW x \in Heard(e) PROVE TimeOf(x)' = TimeOf(x)
  BY DEF TimeOf, Message
<1> HIDE DEF new
<1>9. Heard(e)' = Heard(e) \cup new /\ Heard(e) \cap new = {}
  BY <1>6, <1>7
<1> QED  BY <1>8, <1>9 DEF new, at, c, k

-----------------------------------------------------------------------------
(* Counts.                                                                 *)

\* A node counts the mentions heard of it.
CountsInv ==
    posts = 0 =>
        \A e \in Entities : IsFiniteSet(Heard(e)) /\ Cardinality(Heard(e)) = CountOf(e)

\* What applying the next message of p does to an entity.
Counted(p, e) ==
    LET m == input[p][applied[p] + 1]
        c == MentionsOf(m, e)
    IN  /\ c \in Nat
        /\ CountOf(e)' = CountOf(e) + c
        /\ windows'[e] = IF c = 0 THEN windows[e] ELSE Window(e, c, m.time)

\* A mentioned entity has its mentions counted and appended to its window, another
\* one is left alone.
LEMMA CountedNext ==
    ASSUME FlowInv, ShapeInv, NodesInv, NEW p \in Partitions,
           input[p][applied[p] + 1] \in Messages,
           LET m == input[p][applied[p] + 1]
           IN  IF m.valid THEN ApplyResult(m.result, m.time) ELSE UNCHANGED store,
           NEW e \in Entities
    PROVE  Counted(p, e)
<1> DEFINE m == input[p][applied[p] + 1]
           c == MentionsOf(m, e)
<1>1. /\ c \in Nat
      /\ c # 0 <=> m.valid /\ e \in DOMAIN m.result.mentions
      /\ c # 0 => c = Len(m.result.mentions[e])
  BY MentionsCounted
<1>2. m.result \in Results
  BY DEF Messages, Results
<1>3. CountOf(e) \in Nat
  BY DEF NodesInv, CountOf
<1>4. CASE m.valid
  <2>1. ApplyResult(m.result, m.time)
    BY <1>4
  <2> HIDE DEF m, c
  <2>2. DOMAIN nodes' = DOMAIN nodes \cup DOMAIN m.result.mentions
    BY <1>2, <2>1, Applied
  <2>3. CASE e \in DOMAIN m.result.mentions
    <3>1. /\ nodes'[e].mention_count = CountOf(e) + Len(m.result.mentions[e])
          /\ windows'[e] = Window(e, Len(m.result.mentions[e]), m.time)
      BY <1>2, <2>1, <2>3, AppliedNodes
    <3>2. c # 0 /\ c = Len(m.result.mentions[e])
      BY <1>1, <1>4, <2>3
    <3>3. CountOf(e)' = CountOf(e) + c
      BY <2>2, <2>3, <3>1, <3>2 DEF CountOf
    <3> QED  BY <1>1, <3>1, <3>2, <3>3 DEF Counted, c, m
  <2>4. CASE e \notin DOMAIN m.result.mentions
    <3>1. c = 0
      BY <1>1, <2>4
    <3>2. windows'[e] = windows[e]
      BY <1>2, <2>1, <2>4, AppliedNodes
    <3>3. CountOf(e)' = CountOf(e)
      <4>1. e \in DOMAIN nodes => nodes'[e].mention_count = nodes[e].mention_count
        BY <1>2, <2>1, <2>4, AppliedNodes
      <4> QED  BY <2>2, <2>4, <4>1 DEF CountOf
    <3>4. CountOf(e)' = CountOf(e) + c
      BY <1>3, <3>1, <3>3
    <3> QED  BY <1>1, <3>1, <3>2, <3>4 DEF Counted, c, m
  <2> QED  BY <2>3, <2>4
<1>5. CASE ~m.valid
  <2>1. UNCHANGED store
    BY <1>5
  <2> HIDE DEF m, c
  <2>2. c = 0 /\ windows'[e] = windows[e] /\ CountOf(e)' = CountOf(e)
    BY <1>1, <1>5, <2>1 DEF store, CountOf
  <2>3. CountOf(e)' = CountOf(e) + c
    BY <1>3, <2>2
  <2> QED  BY <1>1, <2>2, <2>3 DEF Counted, c, m
<1> QED  BY <1>4, <1>5

\* At first there are no nodes.
LEMMA InitialNodes == Init => NodesInv /\ HistoryInv
<1>1. <<>> \in Seq(1..MaxTime)
  OBVIOUS
<1> QED  BY <1>1, BoundsAssumption DEF Init, EmptyGraph, NodesInv, HistoryInv

\* No step of a service that starts with a fresh group miscounts.
LEMMA CountsStep ==
    ASSUME FreshGroup, FlowInv, FlowInv', ShapeInv, NodesInv, HistoryInv, CountsInv, [Next]_vars
    PROVE  CountsInv'
<1>1. ASSUME UNCHANGED store, applied' = applied, UNCHANGED posts,
             \A p \in Partitions : \A o \in 1..applied[p] : input'[p][o] = input[p][o]
      PROVE  CountsInv'
  <2>1. \A e : Heard(e)' = Heard(e)
    BY <1>1, HeardUnchanged
  <2>2. \A e : CountOf(e)' = CountOf(e)
    BY <1>1 DEF store, CountOf
  <2> QED  BY <1>1, <2>1, <2>2 DEF CountsInv
<1>2. ASSUME NEW p \in Partitions, applied[p] < fetched[p],
             applied' = [applied EXCEPT ![p] = @ + 1], UNCHANGED <<input, posts>>,
             input[p][applied[p] + 1] \in Messages,
             LET m == input[p][applied[p] + 1]
             IN  IF m.valid THEN ApplyResult(m.result, m.time) ELSE UNCHANGED store
      PROVE  CountsInv'
  <2> SUFFICES ASSUME posts = 0, NEW e \in Entities
               PROVE  IsFiniteSet(Heard(e)') /\ Cardinality(Heard(e)') = CountOf(e)'
    BY <1>2 DEF CountsInv
  <2> DEFINE m == input[p][applied[p] + 1]
             c == MentionsOf(m, e)
             new == {<<p, applied[p] + 1>>} \X (1..c)
  <2>1. Heard(e)' = Heard(e) \cup new /\ Heard(e) \cap new = {}
    BY <1>2, HeardNext
  <2>2. c \in Nat /\ CountOf(e)' = CountOf(e) + c
    BY <1>2, CountedNext DEF Counted
  <2> DEFINE at == <<p, applied[p] + 1>>
  <2>3. new = {at} \X (1..c)
    OBVIOUS
  <2> HIDE DEF c, at, new
  <2>4. IsFiniteSet({at}) /\ Cardinality({at}) = 1
    BY FS_Singleton
  <2>5. IsFiniteSet(1..c) /\ Cardinality(1..c) = c
    BY <2>2, FS_Interval
  <2>6. IsFiniteSet(new) /\ Cardinality(new) = c
    <3>1. IsFiniteSet({at} \X (1..c)) /\ Cardinality({at} \X (1..c)) = 1 * c
      BY <2>4, <2>5, FS_Product
    <3> QED  BY <2>2, <2>3, <3>1
  <2>7. IsFiniteSet(Heard(e)) /\ Cardinality(Heard(e)) = CountOf(e)
    BY DEF CountsInv
  <2>8. Cardinality(Heard(e)) \in Nat /\ Cardinality({}) = 0
    BY <2>7, FS_CardinalityType, FS_EmptySet
  <2>9. /\ IsFiniteSet(Heard(e) \cup new)
        /\ Cardinality(Heard(e) \cup new)
             = Cardinality(Heard(e)) + Cardinality(new) - Cardinality(Heard(e) \cap new)
    BY <2>6, <2>7, FS_Union
  <2>10. Cardinality(Heard(e) \cap new) = 0
    BY <2>1, <2>8
  <2>11. Cardinality(Heard(e) \cup new) = CountOf(e) + c
    BY <2>2, <2>6, <2>7, <2>8, <2>9, <2>10
  <2> QED  BY <2>1, <2>2, <2>9, <2>11
<1>3. ASSUME EmptyStore, Resume, UNCHANGED <<input, posts>> PROVE CountsInv'
  <2>1. applied' = Zero
    BY <1>3 DEF Resume
  <2>2. \A e : Heard(e)' = {}
    <3>1. ASSUME NEW e PROVE (FlowInv /\ applied = Zero => Heard(e) = {})'
      BY NothingHeard, PTL
    <3>2. Zero' = Zero
      BY DEF Zero
    <3> QED  BY <2>1, <3>1, <3>2
  <2>3. \A e \in Entities : CountOf(e)' = 0
    BY <1>3 DEF EmptyStore, EmptyGraph, CountOf
  <2> QED  BY <2>2, <2>3, FS_EmptySet DEF CountsInv
<1>4. ASSUME posts' = posts + 1 PROVE CountsInv'
  <2>1. posts \in Nat
    BY BoundsAssumption DEF HistoryInv
  <2>2. posts' # 0
    BY <1>4, <2>1
  <2> QED  BY <2>2 DEF CountsInv
<1> QED  BY <1>1, <1>2, <1>3, <1>4, StoreSteps

-----------------------------------------------------------------------------
(* The hourly rate.                                                        *)

\* g finds the mention every entry of the window of e stands for, and a mention it
\* does not find is more than an hour older than an entry.
Tracks(g, e) ==
    /\ g \in [1..Len(windows[e]) -> Heard(e)]
    /\ \A i, j \in 1..Len(windows[e]) : g[i] = g[j] => i = j
    /\ \A i \in 1..Len(windows[e]) : TimeOf(g[i]) = windows[e][i]
    /\ \A x \in Heard(e) :
         \/ \E i \in 1..Len(windows[e]) : g[i] = x
         \/ \E i \in 1..Len(windows[e]) : windows[e][i] > TimeOf(x) + Hour

RateInv == posts = 0 => \A e \in Entities : \E g : Tracks(g, e)

\* The window of an entity whose next message mentions it.
LEMMA TracksNext ==
    ASSUME FlowInv, FlowInv', NodesInv, NEW e \in Entities, NEW g, Tracks(g, e),
           NEW p \in Partitions, applied[p] < fetched[p],
           applied' = [applied EXCEPT ![p] = @ + 1], UNCHANGED input,
           input[p][applied[p] + 1] \in Messages,
           Counted(p, e), MentionsOf(input[p][applied[p] + 1], e) # 0
    PROVE  \E h : Tracks(h, e)'
<1> DEFINE m == input[p][applied[p] + 1]
           now == m.time
           c == MentionsOf(m, e)
           at == <<p, applied[p] + 1>>
           new == {at} \X (1..c)
           w == windows[e]
           L == Len(w)
           W == Window(e, c, now)
<1>1. /\ c \in Nat \ {0}
      /\ windows'[e] = W
  BY DEF Counted
<1>2. /\ now \in Int /\ Hour \in Nat
      /\ w \in Seq(Int) /\ L \in Nat /\ \A i \in 1..L : w[i] \in Int
  <2>1. MaxTime \in Nat /\ Hour \in Nat
    BY BoundsAssumption
  <2>2. w \in Seq(Int)
    BY <2>1 DEF NodesInv
  <2>3. now \in 1..MaxTime
    BY DEF Messages
  <2> HIDE DEF w, now
  <2> QED  BY <2>1, <2>2, <2>3
<1>3. PICK d \in 0..L :
        /\ Len(W) = L + c - d
        /\ \A i \in 1..(L + c - d) : W[i] = IF i + d <= L THEN w[i + d] ELSE now
        /\ \A j \in 1..d : w[j] < now - Hour
  BY <1>1, <1>2, WindowFacts
<1>4. /\ Heard(e)' = Heard(e) \cup new /\ Heard(e) \cap new = {}
  BY HeardNext
<1>5. \A n \in 1..c : <<at, n>> \in new /\ TimeOf(<<at, n>>) = now
  BY DEF TimeOf, Message
<1>6. /\ g \in [1..L -> Heard(e)]
      /\ \A i, j \in 1..L : g[i] = g[j] => i = j
      /\ \A i \in 1..L : TimeOf(g[i]) = w[i]
      /\ \A x \in Heard(e) :
           \/ \E i \in 1..L : g[i] = x
           \/ \E i \in 1..L : w[i] > TimeOf(x) + Hour
  BY DEF Tracks
<1>7. \A x \in new : \E n \in 1..c : x = <<at, n>>
  OBVIOUS
<1>8. \A n, k \in 1..c : <<at, n>> = <<at, k>> => n = k
  OBVIOUS
<1>9. \A x \in Heard(e) : TimeOf(x) \in Int
  BY HeardTimes
<1> HIDE DEF m, now, c, at, new, w, L, W
<1> DEFINE N == L + c - d
           h == [i \in 1..N |-> IF i + d <= L THEN g[i + d] ELSE <<at, i + d - L>>]
<1>10. N \in Nat /\ N >= 1 /\ L - d \in 0..N /\ L - d < N
  BY <1>1, <1>2
<1>11. ASSUME NEW i \in 1..N
       PROVE  \/ /\ i + d <= L /\ i + d \in 1..L /\ h[i] = g[i + d] /\ W[i] = w[i + d]
              \/ /\ ~(i + d <= L) /\ i + d - L \in 1..c
                 /\ h[i] = <<at, i + d - L>> /\ W[i] = now
  <2>1. i + d <= L => i + d \in 1..L
    BY <1>2
  <2>2. ~(i + d <= L) => i + d - L \in 1..c
    BY <1>1, <1>2
  <2> QED  BY <1>3, <2>1, <2>2
<1>12. h \in [1..N -> Heard(e)']
  <2>1. \A i \in 1..N : h[i] \in Heard(e)'
    BY <1>4, <1>5, <1>6, <1>11
  <2>2. h = [i \in 1..N |-> h[i]]
    OBVIOUS
  <2> HIDE DEF h, N
  <2> QED  BY <2>1, <2>2
<1>13. ASSUME NEW i \in 1..N, NEW j \in 1..N, h[i] = h[j] PROVE i = j
  <2> HIDE DEF h
  <2>1. CASE i + d <= L /\ j + d <= L
    <3>1. i + d \in 1..L /\ j + d \in 1..L /\ g[i + d] = g[j + d]
      BY <1>11, <1>13, <2>1
    <3>2. i + d = j + d
      BY <1>6, <3>1
    <3> QED  BY <1>2, <1>10, <3>2
  <2>2. CASE ~(i + d <= L) /\ ~(j + d <= L)
    <3>1. i + d - L \in 1..c /\ j + d - L \in 1..c /\ <<at, i + d - L>> = <<at, j + d - L>>
      BY <1>11, <1>13, <2>2
    <3>2. i + d - L = j + d - L
      BY <1>8, <3>1
    <3> QED  BY <1>2, <1>10, <3>2
  <2>3. CASE i + d <= L /\ ~(j + d <= L)
    <3>1. h[i] \in Heard(e) /\ h[j] \in new
      BY <1>5, <1>6, <1>11, <2>3
    <3> QED  BY <1>4, <1>13, <3>1
  <2>4. CASE ~(i + d <= L) /\ j + d <= L
    <3>1. h[j] \in Heard(e) /\ h[i] \in new
      BY <1>5, <1>6, <1>11, <2>4
    <3> QED  BY <1>4, <1>13, <3>1
  <2> QED  BY <2>1, <2>2, <2>3, <2>4
<1>14. ASSUME NEW i \in 1..N PROVE TimeOf(h[i]) = W[i]
  <2> HIDE DEF h
  <2> QED  BY <1>5, <1>6, <1>11
<1>15. W[N] = now /\ N \in 1..N
  <2>1. N \in 1..N /\ ~(N + d <= L)
    BY <1>1, <1>2, <1>10
  <2> QED  BY <1>11, <2>1
<1>16. ASSUME NEW x \in Heard(e)'
       PROVE  \/ \E i \in 1..N : h[i] = x
              \/ \E i \in 1..N : W[i] > TimeOf(x) + Hour
  <2>1. CASE x \in new
    <3>1. PICK n \in 1..c : x = <<at, n>>
      BY <2>1, <1>7
    <3>2. PICK i : i = L + n - d
      OBVIOUS
    <3>3. i \in 1..N /\ ~(i + d <= L) /\ i + d - L = n
      BY <1>1, <1>2, <3>2
    <3> QED  BY <1>11, <3>1, <3>3
  <2>2. CASE x \in Heard(e)
    <3>1. TimeOf(x) \in Int
      BY <2>2, <1>9
    <3>2. ASSUME NEW j \in 1..d, w[j] >= TimeOf(x)
          PROVE  W[N] > TimeOf(x) + Hour
      <4>1. w[j] < now - Hour /\ w[j] \in Int
        BY <1>2, <1>3
      <4>2. now > TimeOf(x) + Hour
        BY <1>2, <3>1, <3>2, <4>1
      <4> QED  BY <1>15, <3>1, <4>2
    <3>3. ASSUME NEW j \in 1..L, j > d
          PROVE  \E i \in 1..N : i + d = j /\ h[i] = g[j] /\ W[i] = w[j]
      <4>1. PICK i : i = j - d
        OBVIOUS
      <4>2. i \in 1..N /\ i + d = j /\ i + d <= L
        BY <1>1, <1>2, <3>3, <4>1
      <4> QED  BY <1>11, <4>2
    <3> HIDE DEF h, N
    <3>4. CASE \E i \in 1..L : g[i] = x
      <4>1. PICK j \in 1..L : g[j] = x
        BY <3>4
      <4>2. CASE j > d
        BY <3>3, <4>1, <4>2
      <4>3. CASE ~(j > d)
        <5>1. j \in 1..d /\ w[j] = TimeOf(x)
          BY <1>2, <1>6, <4>1, <4>3
        <5>2. w[j] >= TimeOf(x)
          BY <3>1, <5>1
        <5> QED  BY <1>15, <3>2, <5>1, <5>2
      <4> QED  BY <4>2, <4>3
    <3>5. CASE \E i \in 1..L : w[i] > TimeOf(x) + Hour
      <4>1. PICK j \in 1..L : w[j] > TimeOf(x) + Hour
        BY <3>5
      <4>2. CASE j > d
        <5>1. PICK i \in 1..N : W[i] = w[j]
          BY <3>3, <4>2
        <5> QED  BY <3>1, <4>1, <5>1
      <4>3. CASE ~(j > d)
        <5>1. j \in 1..d /\ w[j] \in Int
          BY <1>2, <4>3
        <5>2. w[j] >= TimeOf(x)
          BY <1>2, <3>1, <4>1, <5>1
        <5> QED  BY <1>15, <3>2, <5>1, <5>2
      <4> QED  BY <4>2, <4>3
    <3> QED  BY <2>2, <1>6, <3>4, <3>5
  <2> QED  BY <1>4, <2>1, <2>2
<1> HIDE DEF h
<1>17. \A x : TimeOf(x)' = TimeOf(x)
  BY DEF TimeOf, Message
<1>18. PICK f : f = h
  OBVIOUS
<1>19. Tracks(f, e)'
  <2>1. Len(windows'[e]) = N
    BY <1>1, <1>3
  <2> HIDE DEF N
  <2>2. /\ f \in [1..Len(windows'[e]) -> Heard(e)']
        /\ \A i, j \in 1..Len(windows'[e]) : f[i] = f[j] => i = j
    BY <1>12, <1>13, <1>18, <2>1
  <2>3. \A i \in 1..Len(windows'[e]) : TimeOf(f[i])' = windows'[e][i]
    <3> SUFFICES ASSUME NEW i \in 1..Len(windows'[e]) PROVE TimeOf(f[i])' = windows'[e][i]
      OBVIOUS
    <3>1. TimeOf(f[i]) = W[i]
      BY <1>14, <1>18, <2>1
    <3> QED  BY <1>1, <1>17, <3>1
  <2>4. \A x \in Heard(e)' :
           \/ \E i \in 1..Len(windows'[e]) : f[i] = x
           \/ \E i \in 1..Len(windows'[e]) : windows'[e][i] > TimeOf(x)' + Hour
    BY <1>1, <1>16, <1>18, <1>17, <2>1
  <2> QED  BY <2>2, <2>3, <2>4 DEF Tracks
<1> QED  BY <1>19

\* No step of a service that starts with a fresh group loses track.
LEMMA RateStep ==
    ASSUME FreshGroup, FlowInv, FlowInv', ShapeInv, NodesInv, HistoryInv, RateInv, [Next]_vars
    PROVE  RateInv'
<1>1. ASSUME applied' = applied, UNCHANGED store, UNCHANGED posts,
             \A p \in Partitions : \A o \in 1..applied[p] : input'[p][o] = input[p][o]
      PROVE  RateInv'
  <2> SUFFICES ASSUME posts = 0, NEW e \in Entities PROVE \E g : Tracks(g, e)'
    BY <1>1 DEF RateInv
  <2>1. PICK g : Tracks(g, e)
    BY DEF RateInv
  <2>2. Heard(e)' = Heard(e) /\ \A x \in Heard(e) : TimeOf(x)' = TimeOf(x)
    BY <1>1, HeardUnchanged
  <2>3. windows'[e] = windows[e]
    BY <1>1 DEF store
  <2>4. Tracks(g, e)'
    <3>1. /\ g \in [1..Len(windows[e]) -> Heard(e)]
          /\ \A i, j \in 1..Len(windows[e]) : g[i] = g[j] => i = j
          /\ \A i \in 1..Len(windows[e]) : TimeOf(g[i]) = windows[e][i]
          /\ \A x \in Heard(e) :
               \/ \E i \in 1..Len(windows[e]) : g[i] = x
               \/ \E i \in 1..Len(windows[e]) : windows[e][i] > TimeOf(x) + Hour
      BY <2>1 DEF Tracks
    <3>2. \A i \in 1..Len(windows[e]) : TimeOf(g[i])' = windows[e][i]
      BY <2>2, <3>1
    <3>3. \A x \in Heard(e) :
             \/ \E i \in 1..Len(windows[e]) : g[i] = x
             \/ \E i \in 1..Len(windows[e]) : windows[e][i] > TimeOf(x)' + Hour
      BY <2>2, <3>1
    <3> QED  BY <2>2, <2>3, <3>1, <3>2, <3>3 DEF Tracks
  <2> QED  BY <2>4
<1>2. ASSUME NEW p \in Partitions, applied[p] < fetched[p],
             applied' = [applied EXCEPT ![p] = @ + 1], UNCHANGED <<input, posts>>,
             input[p][applied[p] + 1] \in Messages,
             LET m == input[p][applied[p] + 1]
             IN  IF m.valid THEN ApplyResult(m.result, m.time) ELSE UNCHANGED store
      PROVE  RateInv'
  <2> SUFFICES ASSUME posts = 0, NEW e \in Entities PROVE \E g : Tracks(g, e)'
    BY <1>2 DEF RateInv
  <2>1. PICK g : Tracks(g, e)
    BY DEF RateInv
  <2>2. Counted(p, e)
    BY <1>2, CountedNext
  <2>3. CASE MentionsOf(input[p][applied[p] + 1], e) # 0
    BY <1>2, <2>1, <2>2, <2>3, TracksNext
  <2>4. CASE MentionsOf(input[p][applied[p] + 1], e) = 0
    <3>1. windows'[e] = windows[e]
      BY <2>2, <2>4 DEF Counted
    <3>2. Heard(e)' = Heard(e)
      <4> DEFINE at == <<p, applied[p] + 1>>
      <4>1. Heard(e)' = Heard(e) \cup ({at} \X (1..MentionsOf(input[p][applied[p] + 1], e)))
        BY <1>2, HeardNext
      <4> HIDE DEF at
      <4> QED  BY <2>4, <4>1
    <3>3. \A x : TimeOf(x)' = TimeOf(x)
      BY <1>2 DEF TimeOf, Message
    <3>4. Tracks(g, e)'
      <4>1. /\ g \in [1..Len(windows[e]) -> Heard(e)]
            /\ \A i, j \in 1..Len(windows[e]) : g[i] = g[j] => i = j
            /\ \A i \in 1..Len(windows[e]) : TimeOf(g[i]) = windows[e][i]
            /\ \A x \in Heard(e) :
                 \/ \E i \in 1..Len(windows[e]) : g[i] = x
                 \/ \E i \in 1..Len(windows[e]) : windows[e][i] > TimeOf(x) + Hour
        BY <2>1 DEF Tracks
      <4>2. \A i \in 1..Len(windows[e]) : TimeOf(g[i])' = windows[e][i]
        BY <3>3, <4>1
      <4>3. \A x \in Heard(e) :
               \/ \E i \in 1..Len(windows[e]) : g[i] = x
               \/ \E i \in 1..Len(windows[e]) : windows[e][i] > TimeOf(x)' + Hour
        BY <3>3, <4>1
      <4> QED  BY <3>1, <3>2, <4>1, <4>2, <4>3 DEF Tracks
    <3> QED  BY <3>4
  <2> QED  BY <2>3, <2>4
<1>3. ASSUME EmptyStore, Resume, UNCHANGED <<input, posts>> PROVE RateInv'
  <2> SUFFICES ASSUME NEW e \in Entities PROVE \E g : Tracks(g, e)'
    BY DEF RateInv
  <2>1. applied' = Zero
    BY <1>3 DEF Resume
  <2>2. Heard(e)' = {}
    <3>1. (FlowInv /\ applied = Zero => Heard(e) = {})'
      BY NothingHeard, PTL
    <3>2. Zero' = Zero
      BY DEF Zero
    <3> QED  BY <2>1, <3>1, <3>2
  <2>3. windows'[e] = <<>>
    BY <1>3 DEF EmptyStore
  <2>4. PICK g : g = [i \in 1..0 |-> i]
    OBVIOUS
  <2>5. Tracks(g, e)'
    <3>1. Len(windows'[e]) = 0
      BY <2>3
    <3> QED  BY <2>2, <2>4, <3>1 DEF Tracks
  <2> QED  BY <2>5
<1>4. ASSUME posts' = posts + 1 PROVE RateInv'
  <2>1. posts \in Nat
    BY BoundsAssumption DEF HistoryInv
  <2>2. posts' # 0
    BY <1>4, <2>1
  <2> QED  BY <2>2 DEF RateInv
<1> QED  BY <1>1, <1>2, <1>3, <1>4, StoreSteps

\* The entries of an ascending window are not after the last.
LEMMA LastIsLatest ==
    ASSUME NEW w, Len(w) \in Nat, \A i \in 1..Len(w) : w[i] \in Int, Ascending(w),
           NEW i \in 1..Len(w)
    PROVE  w[i] <= w[Len(w)] /\ w[1] <= w[i]
<1> DEFINE L == Len(w)
           Above == {n \in Nat : i + n > L \/ w[i] <= w[i + n]}
           Below == {n \in Nat : i - n < 1 \/ w[i - n] <= w[i]}
<1>1. L \in Nat /\ i \in 1..L /\ \A j \in 1..L : w[j] \in Int
  OBVIOUS
<1>2. \A j \in 1..(L - 1) : w[j] <= w[j + 1]
  BY DEF Ascending
<1> HIDE DEF L
<1>3. 0 \in Above /\ 0 \in Below
  BY <1>1
<1>4. ASSUME NEW n \in Above PROVE n + 1 \in Above
  <2>1. CASE i + (n + 1) > L
    BY <2>1
  <2>2. CASE ~(i + (n + 1) > L)
    <3>1. i + n \in 1..(L - 1) /\ (i + n) + 1 = i + (n + 1) /\ i + (n + 1) \in 1..L
      BY <1>1, <2>2
    <3>2. w[i] <= w[i + n] /\ w[i + n] <= w[i + (n + 1)]
      BY <1>1, <1>2, <3>1
    <3>3. w[i] \in Int /\ w[i + n] \in Int /\ w[i + (n + 1)] \in Int
      BY <1>1, <3>1
    <3> QED  BY <3>2, <3>3
  <2> QED  BY <2>1, <2>2
<1>5. ASSUME NEW n \in Below PROVE n + 1 \in Below
  <2>1. CASE i - (n + 1) < 1
    BY <2>1
  <2>2. CASE ~(i - (n + 1) < 1)
    <3>1. i - (n + 1) \in 1..(L - 1) /\ (i - (n + 1)) + 1 = i - n /\ i - n \in 1..L
      BY <1>1, <2>2
    <3>2. w[i - n] <= w[i] /\ w[i - (n + 1)] <= w[i - n]
      BY <1>1, <1>2, <3>1
    <3>3. w[i] \in Int /\ w[i - n] \in Int /\ w[i - (n + 1)] \in Int
      BY <1>1, <3>1
    <3> QED  BY <3>2, <3>3
  <2> QED  BY <2>1, <2>2
<1>6. Above = Nat /\ Below = Nat
  <2>1. Above \in SUBSET Nat /\ Below \in SUBSET Nat
    OBVIOUS
  <2> HIDE DEF Above, Below
  <2> QED  BY <1>3, <1>4, <1>5, <2>1, CountingUp
<1>7. L - i \in Above /\ i - 1 \in Below
  <2> HIDE DEF Above, Below
  <2> QED  BY <1>1, <1>6
<1>8. i + (L - i) = L /\ i - (i - 1) = 1 /\ ~(L > L) /\ ~(1 < 1)
  BY <1>1
<1> QED  BY <1>7, <1>8 DEF L

\* The window of a node is its mentions of the last hour, if they came in order.
LEMMA RateIsRight ==
    ASSUME FlowInv, ShapeInv, NodesInv, RateInv, posts = 0, NEW e \in DOMAIN nodes,
           Ascending(windows[e])
    PROVE  nodes[e].hourly_rate =
             MentionsWithin(e, applied, nodes[e].last_seen - Hour, nodes[e].last_seen)
<1> DEFINE w == windows[e]
           L == Len(w)
           last == nodes[e].last_seen
           S == Mentions(e, applied, last - Hour, last)
<1>1. e \in Entities
  BY DEF ShapeInv
<1>2. /\ MaxTime \in Nat /\ Hour \in Nat
      /\ w \in Seq(Int) /\ L \in Nat /\ \A i \in 1..L : w[i] \in Int
  <2>1. MaxTime \in Nat /\ Hour \in Nat
    BY BoundsAssumption
  <2>2. w \in Seq(Int)
    BY <1>1, <2>1 DEF NodesInv
  <2> HIDE DEF w
  <2> QED  BY <2>1, <2>2
<1>3. /\ nodes[e].hourly_rate = L /\ L >= 1
      /\ last = w[L] /\ w[1] >= last - Hour
  BY <1>2 DEF NodesInv
<1>4. \A i \in 1..L : w[i] <= w[L] /\ w[1] <= w[i]
  BY <1>2, LastIsLatest
<1>5. PICK g : Tracks(g, e)
  BY <1>1 DEF RateInv
<1>6. /\ g \in [1..L -> Heard(e)]
      /\ \A i, j \in 1..L : g[i] = g[j] => i = j
      /\ \A i \in 1..L : TimeOf(g[i]) = w[i]
      /\ \A x \in Heard(e) :
           \/ \E i \in 1..L : g[i] = x
           \/ \E i \in 1..L : w[i] > TimeOf(x) + Hour
  BY <1>5 DEF Tracks
<1> HIDE DEF w, L, last
<1>7. last \in Int /\ last - Hour \in Int /\ L \in 1..L /\ 1 \in 1..L
  BY <1>2, <1>3
<1>8. ASSUME NEW x
      PROVE  /\ x \in S <=> x \in Heard(e) /\ last - Hour <= TimeOf(x) /\ TimeOf(x) <= last
             /\ x \in Heard(e) => TimeOf(x) \in Int
  BY <1>7, HeardTimes
<1> HIDE DEF S
<1>9. \A i \in 1..L : g[i] \in S
  <2> SUFFICES ASSUME NEW i \in 1..L PROVE g[i] \in S
    OBVIOUS
  <2>1. w[i] \in Int /\ w[1] \in Int /\ w[i] <= last /\ last - Hour <= w[i]
    BY <1>2, <1>3, <1>4, <1>7
  <2> QED  BY <1>6, <1>8, <2>1
<1>10. ASSUME NEW x \in S PROVE \E i \in 1..L : g[i] = x
  <2>1. x \in Heard(e) /\ last - Hour <= TimeOf(x) /\ TimeOf(x) \in Int
    BY <1>8
  <2>2. ASSUME NEW i \in 1..L, w[i] > TimeOf(x) + Hour PROVE FALSE
    <3>1. w[i] \in Int /\ w[i] <= last
      BY <1>2, <1>3, <1>4
    <3> QED  BY <1>2, <1>7, <2>1, <2>2, <3>1
  <2> QED  BY <1>6, <2>1, <2>2
<1>11. ExistsBijection(1..L, S)
  <2>1. g \in [1..L -> S]
    BY <1>6, <1>9
  <2>2. g \in Bijection(1..L, S)
    BY <1>6, <1>10, <2>1 DEF Bijection, Injection, Surjection, IsInjective
  <2> QED  BY <2>2 DEF ExistsBijection
<1>12. Cardinality(S) = L
  BY <1>2, <1>11, FS_CountingElements
<1> QED  BY <1>3, <1>12 DEF MentionsWithin, S, last

-----------------------------------------------------------------------------
(* The theorems.                                                           *)

\* Every reachable state satisfies the inductive invariant.
LEMMA Invariance == Spec => []IInv
<1>1. Init => IInv
  <2> SUFFICES ASSUME Init PROVE IInv
    OBVIOUS
  <2>1. FlowInv
    BY DEF Init, Zero, FlowInv
  <2>2. StoreInv
    BY EmptyStoreOK DEF Init
  <2>3. QueueInv /\ PublishedInv
    BY DEF Init, QueueInv, IsQueue, PublishedInv, EmptyGraph
  <2> QED  BY <2>1, <2>2, <2>3 DEF IInv
<1>2. IInv /\ [Next]_vars => IInv'
  BY FlowStep, StoreStep, PublishedStep DEF IInv
<1> QED  BY <1>1, <1>2, PTL DEF Spec

\* Nodes, edges and neighbour sets describe one undirected graph, whatever the
\* service is sent and whenever it restarts.
THEOREM GraphIsConsistent == Spec => []StructuresAgree
<1>1. IInv => StructuresAgree
  BY DEF IInv, StoreInv
<1> QED  BY <1>1, Invariance, PTL

\* A centrality is the node's degree over the size of this or a smaller graph,
\* although only the impacted nodes are recalculated.
THEOREM CentralityIsNeverTooLow == Spec => []CentralityNeverTooLow
<1>1. IInv => CentralityNeverTooLow
  BY DEF IInv, StoreInv
<1> QED  BY <1>1, Invariance, PTL

\* What the readers of graph-changes have is what the live graph has, as soon as
\* everything produced is delivered.
THEOREM ReplicaCatchesUp == Spec => []ReplicaHasTheLiveGraph
<1>1. IInv => ReplicaHasTheLiveGraph
  <2> SUFFICES ASSUME IInv, inflight = <<>>, posts = 0, faults = 0
               PROVE  /\ \A e \in DOMAIN nodes :
                           /\ e \in DOMAIN replica_nodes
                           /\ replica_nodes[e] = PublishedNode(nodes[e])
                      /\ DOMAIN edges \subseteq DOMAIN replica_edges
    BY DEF ReplicaHasTheLiveGraph
  <2>1. Len(inflight) = 0
    OBVIOUS
  <2> QED  BY <2>1 DEF IInv, PublishedInv, NodeIsPublished, EdgeIsPublished
<1> QED  BY <1>1, Invariance, PTL

\* Positions stay within the topic, and every count, rate, strength and sentiment
\* within its range, when the scores the service is sent are within theirs.
THEOREM TypeCorrect == ASSUME ScoresInRange PROVE Spec => []TypeOK
<1> DEFINE I == IInv /\ NodesInv /\ ScoresInv /\ HistoryInv
<1>1. Init => NodesInv /\ ScoresInv /\ HistoryInv
  <2>1. <<>> \in Seq(1..MaxTime)
    OBVIOUS
  <2> QED  BY <2>1, BoundsAssumption DEF Init, EmptyGraph, NodesInv, ScoresInv, HistoryInv
<1>2. IInv /\ NodesInv /\ ScoresInv /\ HistoryInv /\ [Next]_vars
        => NodesInv' /\ ScoresInv' /\ HistoryInv'
  BY NodesStep, ScoresStep, HistoryStep DEF IInv, StoreInv
<1>3. IInv /\ NodesInv /\ ScoresInv /\ HistoryInv => TypeOK
  <2> SUFFICES ASSUME IInv, NodesInv, ScoresInv, HistoryInv PROVE TypeOK
    OBVIOUS
  <2>1. ASSUME NEW p \in Partitions
        PROVE  /\ applied[p] \in 0..fetched[p]
               /\ fetched[p] \in 0..Len(input[p])
               /\ committed[p] \in 0..Len(input[p])
    <3>1. Len(input[p]) \in Nat
      BY DEF IInv, FlowInv
    <3> QED  BY <3>1 DEF IInv, FlowInv
  <2>2. ASSUME NEW k \in DOMAIN edges PROVE Cardinality(k) = 2
    <3>1. PICK a, b \in Entities : a # b /\ k = {a, b}
      BY DEF IInv, StoreInv, ShapeInv
    <3>2. {a} \cup {b} = k /\ {a} \cap {b} = {}
      BY <3>1
    <3>3. IsFiniteSet({a}) /\ IsFiniteSet({b}) /\ Cardinality({a}) = 1 /\ Cardinality({b}) = 1
      BY FS_Singleton
    <3>4. Cardinality({a} \cup {b}) = 1 + 1 - Cardinality({a} \cap {b})
      BY <3>3, FS_Union
    <3>5. Cardinality({}) = 0
      BY FS_EmptySet
    <3> QED  BY <3>2, <3>4, <3>5
  <2> QED  BY <2>1, <2>2 DEF IInv, StoreInv, ShapeInv, NodesInv, ScoresInv, Score, HistoryInv, TypeOK
<1> QED  BY <1>1, <1>2, <1>3, Invariance, PTL DEF Spec

\* A service that starts with a fresh group counts every mention before the worker's
\* position once, whatever crashes, commits and undelivered events come between.
THEOREM CountsAreComplete == ASSUME FreshGroup PROVE Spec => []CountsAreTheHistory
<1>1. Init => NodesInv /\ HistoryInv
  BY InitialNodes
<1>2. Init /\ IInv => CountsInv
  <2> SUFFICES ASSUME Init, IInv PROVE CountsInv
    OBVIOUS
  <2>1. \A e : Heard(e) = {}
    BY NothingHeard DEF IInv, Init
  <2>2. \A e \in Entities : CountOf(e) = 0
    BY DEF Init, EmptyGraph, CountOf
  <2> QED  BY <2>1, <2>2, FS_EmptySet DEF CountsInv
<1>3. IInv /\ IInv' /\ NodesInv /\ HistoryInv /\ CountsInv /\ [Next]_vars
        => NodesInv' /\ HistoryInv' /\ CountsInv'
  BY NodesStep, HistoryStep, CountsStep DEF IInv, StoreInv
<1>4. CountsInv => CountsAreTheHistory
  BY DEF CountsInv, CountsAreTheHistory, MentionsWithin, Heard
<1> QED  BY <1>1, <1>2, <1>3, <1>4, Invariance, PTL DEF Spec

\* Where the results of a partition carry ascending times, the hourly rate of a node
\* is the number of its mentions in the hour that ends with the last of them.
THEOREM RateIsTheWindow == ASSUME FreshGroup PROVE Spec => []HourlyRateIsTheWindow
<1>1. Init => NodesInv /\ HistoryInv
  BY InitialNodes
<1>2. Init /\ IInv => RateInv
  <2> SUFFICES ASSUME Init, IInv, NEW e \in Entities PROVE \E g : Tracks(g, e)
    BY DEF RateInv
  <2>1. Heard(e) = {}
    BY NothingHeard DEF IInv, Init
  <2>2. Len(windows[e]) = 0
    BY DEF Init
  <2> DEFINE g == [i \in 1..0 |-> i]
  <2>3. Tracks(g, e)
    BY <2>1, <2>2 DEF Tracks
  <2> QED  BY <2>3
<1>3. IInv /\ IInv' /\ NodesInv /\ HistoryInv /\ RateInv /\ [Next]_vars
        => NodesInv' /\ HistoryInv' /\ RateInv'
  BY NodesStep, HistoryStep, RateStep DEF IInv, StoreInv
<1>4. IInv /\ NodesInv /\ RateInv => HourlyRateIsTheWindow
  BY RateIsRight DEF IInv, StoreInv, HourlyRateIsTheWindow
<1> QED  BY <1>1, <1>2, <1>3, <1>4, Invariance, PTL DEF Spec
=============================================================================

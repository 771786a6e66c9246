-------------------------- MODULE GraphMetricsProofs --------------------------
(***************************************************************************)
(* Proofs about GraphMetrics for every set of entities, messages and       *)
(* deltas, every interval and every bound. The inductive invariants are    *)
(* IInv (what a reader has), TypeInv (the shape of the graph, the moves    *)
(* and the ids), ConnectedInv (a community never leaves a component of the *)
(* graph) and SettledInv (the nodes of a quiet sweep had no better         *)
(* community, and nothing has moved since).                                *)
(***************************************************************************)
EXTENDS GraphMetrics, FiniteSetTheorems, WellFoundedInduction, TLAPS

-----------------------------------------------------------------------------
(* The inductive invariant: while a snapshot waits to be published, the    *)
(* nodes it changes are the only ones a reader may have wrong.             *)

ChangesInv ==
    /\ phase # "publishing" => changes = {}
    /\ \A change \in changes : change.node \in DOMAIN last /\ change.new = last[change.node]

ReaderInv ==
    \A n \in DOMAIN last \ (unpublished \cup Changed) : n \in DOMAIN reader /\ reader[n] = last[n]

IInv == ChangesInv /\ ReaderInv

LEMMA InitIInv == Init => IInv
    BY DEF Init, IInv, ChangesInv, ReaderInv, Empty

\* A step that leaves the engine's ids, the changes and the reader alone.
LEMMA QuietStep ==
    ASSUME IInv, UNCHANGED <<last, changes, reader, unpublished>>,
           phase # "publishing" \/ phase' = "publishing"
    PROVE  IInv'
<1>1. ChangesInv'
    BY DEF IInv, ChangesInv
<1>2. ReaderInv'
    BY DEF IInv, ReaderInv, Changed
<1> QED BY <1>1, <1>2 DEF IInv

\* The id a change carries is the id of the engine, however often a node occurs.
LEMMA NewIsLast ==
    ASSUME ChangesInv, NEW n \in Changed
    PROVE  n \in DOMAIN last /\ NewOf(n) = last[n]
<1>1. PICK change \in changes : change.node = n
    BY DEF Changed
<1> DEFINE chosen == CHOOSE c \in changes : c.node = n
<1>2. chosen \in changes /\ chosen.node = n
    BY <1>1
<1> QED BY <1>2 DEF ChangesInv, NewOf

\* Every node whose id is not the one of the last time is in the changes.
LEMMA CompressStep ==
    ASSUME IInv, Compress
    PROVE  IInv'
<1>1. /\ changes' = Changes
      /\ last' = [n \in Nodes |-> Dense(n)]
      /\ phase' = "publishing"
      /\ reader' = reader /\ unpublished' = unpublished
    BY DEF Compress, published
<1>2. changes = {}
    BY DEF IInv, ChangesInv, Compress
<1>3. ChangesInv'
    BY <1>1 DEF ChangesInv, Changes, Change
<1>4. ASSUME NEW n \in DOMAIN last' \ (unpublished' \cup Changed')
      PROVE  n \in DOMAIN reader' /\ reader'[n] = last'[n]
    <2>1. n \in Nodes /\ last'[n] = Dense(n)
        BY <1>1
    <2>2. Change(n) \notin changes'
        BY DEF Changed, Change
    <2>3. n \in DOMAIN last /\ Dense(n) = last[n]
        BY <1>1, <2>1, <2>2 DEF Changes
    <2>4. n \notin unpublished \cup Changed
        BY <1>1, <1>2 DEF Changed
    <2> QED BY <1>1, <2>1, <2>3, <2>4 DEF IInv, ReaderInv
<1> QED BY <1>3, <1>4 DEF IInv, ReaderInv

\* The reader takes over what the changes carry.
LEMMA PublishStep ==
    ASSUME IInv, Publish
    PROVE  IInv'
<1>1. changes' = {} /\ last' = last /\ unpublished' = unpublished \ Changed
    BY DEF Publish, Forget
<1>2. reader' = [n \in DOMAIN reader \cup Changed |->
                    IF n \in Changed THEN NewOf(n) ELSE reader[n]]
    BY DEF Publish
<1>3. ChangesInv'
    BY <1>1 DEF ChangesInv
<1>4. ASSUME NEW n \in DOMAIN last' \ (unpublished' \cup Changed')
      PROVE  n \in DOMAIN reader' /\ reader'[n] = last'[n]
    <2>1. CASE n \in Changed
        BY <2>1, <1>1, <1>2, NewIsLast DEF IInv
    <2>2. CASE n \notin Changed
        BY <2>2, <1>1, <1>2 DEF IInv, ReaderInv
    <2> QED BY <2>1, <2>2
<1> QED BY <1>3, <1>4 DEF IInv, ReaderInv

\* What was not published is the reader's debt.
LEMMA PublishFailsStep ==
    ASSUME IInv, PublishFails
    PROVE  IInv'
<1>1. changes' = {} /\ last' = last /\ reader' = reader /\ unpublished' = unpublished \cup Changed
    BY DEF PublishFails, Forget
<1>2. ChangesInv'
    BY <1>1 DEF ChangesInv
<1>3. ReaderInv'
    BY <1>1 DEF IInv, ReaderInv, Changed
<1> QED BY <1>2, <1>3 DEF IInv

\* A new engine has no ids yet.
LEMMA RestartStep ==
    ASSUME IInv, Restart
    PROVE  IInv'
<1>1. changes' = {} /\ last' = Empty
    BY DEF Restart, Forget
<1> QED BY <1>1 DEF IInv, ChangesInv, ReaderInv, Empty

LEMMA IInvStep ==
    ASSUME IInv, [Next]_vars
    PROVE  IInv'
<1>1. CASE UNCHANGED vars
    BY <1>1, QuietStep DEF vars, published
<1>2. ASSUME NEW m \in Messages, apply_result(m)
      PROVE  IInv'
    BY <1>2, QuietStep DEF apply_result, published
<1>3. CASE Visit
    BY <1>3, QuietStep DEF Visit, published
<1>4. CASE Sweep
    BY <1>4, QuietStep DEF Sweep, published
<1>5. CASE Compress
    BY <1>5, CompressStep
<1>6. CASE Publish
    BY <1>6, PublishStep
<1>7. CASE PublishFails
    BY <1>7, PublishFailsStep
<1>8. CASE Restart
    BY <1>8, RestartStep
<1> QED BY <1>1, <1>2, <1>3, <1>4, <1>5, <1>6, <1>7, <1>8 DEF Next, run_leiden_like

-----------------------------------------------------------------------------
(* Counting up.                                                            *)

\* A set of numbers that is not empty has a least one.
LEMMA Least ==
    ASSUME NEW S \in SUBSET Nat, S # {}
    PROVE  \E n \in S : \A m \in S : n <= m
<1>1. PICK R : IsWellFoundedOn(R, Nat) /\ \A i, j \in Nat : i < j => <<i, j>> \in R
    <2> DEFINE Q == OpToRel(<, Nat)
    <2>1. IsWellFoundedOn(Q, Nat)
        BY NatLessThanWellFounded
    <2>2. \A i, j \in Nat : i < j => <<i, j>> \in Q
        BY DEF OpToRel
    <2> HIDE DEF Q
    <2> QED BY <2>1, <2>2, Zenon
<1>2. PICK n \in S : \A m \in S : ~(<<m, n>> \in R)
    <2>1. IsWellFoundedOn(R, Nat) /\ S \subseteq Nat /\ S # {}
        BY <1>1
    <2> QED BY ONLY <2>1, WFMin, Zenon
<1>3. \A m \in S : ~(m < n)
    BY <1>1, <1>2
<1> QED BY <1>3

\* A set of numbers that has 0, and n + 1 when it has n, has them all.
LEMMA CountingUp ==
    ASSUME NEW S \in SUBSET Nat, 0 \in S, \A n \in S : n + 1 \in S
    PROVE  S = Nat
<1> SUFFICES ASSUME Nat \ S # {} PROVE FALSE
    OBVIOUS
<1>1. PICK n \in Nat \ S : \A m \in Nat \ S : n <= m
    BY Least, Nat \ S \in SUBSET Nat
<1>2. n # 0 /\ n - 1 \in Nat /\ n - 1 \notin Nat \ S
    BY <1>1
<1> QED BY <1>1, <1>2

\* The least of a set of indices.
LEMMA LeastIndex ==
    ASSUME NEW I \in SUBSET Nat, I # {}
    PROVE  Min(I) \in I /\ \A i \in I : Min(I) <= i
<1>1. \E n \in I : \A m \in I : n <= m
    BY Least
<1> QED BY <1>1 DEF Min

-----------------------------------------------------------------------------
(* The nodes.                                                              *)

\* Nodes in the order of insertion, none twice, with all that there were.
Grown(q) ==
    /\ q \in Seq(Names) /\ IsInjective(q)
    /\ Nodes \subseteq ToSet(q) /\ Len(nodes) <= Len(q)

\* _upsert_node keeps the nodes apart and in their order.
LEMMA UpsertGrows ==
    ASSUME NEW q, Grown(q), nodes \in Seq(Names), NEW n \in Names
    PROVE  Grown(_upsert_node(q, n))
<1>1. CASE n \in ToSet(q)
    BY <1>1 DEF _upsert_node
<1>2. CASE n \notin ToSet(q)
    <2> DEFINE r == Append(q, n)
               L == Len(q)
    <2>1. q \in Seq(Names) /\ L \in Nat /\ DOMAIN q = 1..L
        BY DEF Grown
    <2>2. /\ r \in Seq(Names) /\ Len(r) = L + 1 /\ DOMAIN r = 1..(L + 1)
          /\ r[L + 1] = n /\ \A i \in 1..L : r[i] = q[i]
        BY <2>1
    <2>3. \A i \in 1..L : q[i] # n
        BY <1>2, <2>1 DEF ToSet
    <2> HIDE DEF r, L
    <2>4. IsInjective(r)
        <3> SUFFICES ASSUME NEW i \in 1..(L + 1), NEW j \in 1..(L + 1), r[i] = r[j]
                     PROVE  i = j
            BY <2>2 DEF IsInjective
        <3>1. \A k, l \in 1..L : q[k] = q[l] => k = l
            BY <2>1 DEF Grown, IsInjective
        <3>2. (i \in 1..L \/ i = L + 1) /\ (j \in 1..L \/ j = L + 1)
            BY <2>1
        <3> QED BY <2>2, <2>3, <3>1, <3>2
    <2>5. ToSet(q) \subseteq ToSet(r)
        BY <2>1, <2>2 DEF ToSet
    <2>6. Len(nodes) <= Len(r)
        <3>1. Len(nodes) \in Nat /\ Len(nodes) <= L
            BY DEF Grown, L
        <3> QED BY <2>1, <2>2, <3>1
    <2>7. Grown(r)
        BY <2>2, <2>4, <2>5, <2>6 DEF Grown
    <2> QED BY <1>2, <2>7 DEF _upsert_node, r
<1> QED BY <1>1, <1>2

\* g has the nodes after each of the first n mentions.
Inserts(g, n, mentions) ==
    g = [i \in 0..n |-> IF i = 0 THEN nodes ELSE _upsert_node(g[i - 1], mentions[i])]

LEMMA InsertedGrows ==
    ASSUME nodes \in Seq(Names), IsInjective(nodes), NEW mentions \in Seq(Names)
    PROVE  Grown(Inserted(mentions))
<1> DEFINE L == Len(mentions)
           Some == {n \in Nat : \E g : Inserts(g, n, mentions)}
<1>1. L \in Nat /\ \A i \in 1..L : mentions[i] \in Names
    OBVIOUS
<1> HIDE DEF L
<1>2. 0 \in Some
    <2> DEFINE g == [i \in 0..0 |-> nodes]
    <2>1. Inserts(g, 0, mentions)
        BY DEF Inserts
    <2> HIDE DEF g
    <2> QED BY <2>1
<1>3. ASSUME NEW n \in Some PROVE n + 1 \in Some
    <2>1. PICK g : Inserts(g, n, mentions)
        OBVIOUS
    <2>2. /\ n \in Nat
          /\ \A i \in 0..n : g[i] = IF i = 0 THEN nodes ELSE _upsert_node(g[i - 1], mentions[i])
        BY <2>1 DEF Inserts
    <2> DEFINE h == [i \in 0..(n + 1) |->
                        IF i = n + 1 THEN _upsert_node(g[n], mentions[n + 1]) ELSE g[i]]
    <2>3. ASSUME NEW i \in 0..(n + 1)
          PROVE  h[i] = IF i = 0 THEN nodes ELSE _upsert_node(h[i - 1], mentions[i])
        <3>1. CASE i = n + 1
            <4>1. i # 0 /\ i - 1 = n /\ n \in 0..(n + 1) /\ n # n + 1
                BY <2>2, <3>1
            <4> QED BY <3>1, <4>1
        <3>2. CASE i # n + 1
            <4>1. i \in 0..n /\ (i # 0 => i - 1 \in 0..(n + 1) /\ i - 1 # n + 1)
                BY <2>2, <3>2
            <4> QED BY <2>2, <3>2, <4>1
        <3> QED BY <3>1, <3>2
    <2>4. Inserts(h, n + 1, mentions)
        <3>1. h = [i \in 0..(n + 1) |-> h[i]]
            OBVIOUS
        <3> HIDE DEF h
        <3> QED BY <2>3, <3>1 DEF Inserts
    <2> HIDE DEF h
    <2> QED BY <2>2, <2>4
<1>4. Some = Nat
    <2>1. Some \in SUBSET Nat
        OBVIOUS
    <2> HIDE DEF Some
    <2> QED BY <1>2, <1>3, <2>1, CountingUp
<1> DEFINE after == CHOOSE g : Inserts(g, L, mentions)
<1>5. Inserts(after, L, mentions)
    BY <1>1, <1>4
<1>6. Inserted(mentions) = after[L]
    BY DEF Inserted, Inserts, L
<1> HIDE DEF after, Some
<1>7. \A i \in 0..L :
         after[i] = IF i = 0 THEN nodes ELSE _upsert_node(after[i - 1], mentions[i])
    BY <1>5 DEF Inserts
<1> DEFINE Fine == {n \in Nat : n > L \/ Grown(after[n])}
<1>8. 0 \in Fine
    <2>1. Grown(nodes)
        <3>1. Len(nodes) \in Nat
            OBVIOUS
        <3> QED BY <3>1 DEF Grown, Nodes
    <2> QED BY <1>1, <1>7, <2>1
<1>9. ASSUME NEW n \in Fine PROVE n + 1 \in Fine
    <2>1. CASE n + 1 > L
        BY <2>1
    <2>2. CASE ~(n + 1 > L)
        <3>1. n + 1 \in 0..L /\ n + 1 # 0 /\ n + 1 - 1 = n /\ n + 1 \in 1..L /\ Grown(after[n])
            BY <1>1, <2>2
        <3> QED BY <1>1, <1>7, <3>1, UpsertGrows
    <2> QED BY <2>1, <2>2
<1>10. Fine = Nat
    <2>1. Fine \in SUBSET Nat
        OBVIOUS
    <2> HIDE DEF Fine
    <2> QED BY <1>8, <1>9, <2>1, CountingUp
<1>11. Grown(after[L])
    <2>1. L \in Fine /\ ~(L > L)
        BY <1>1, <1>10
    <2> QED BY <2>1
<1> QED BY <1>6, <1>11

\* A new partition gives every node a community of its own.
LEMMA SingletonIds ==
    ASSUME NEW all \in Seq(Names), NEW n \in ToSet(all)
    PROVE  /\ SelectInSeq(all, LAMBDA o : o = n) \in 1..Len(all)
           /\ all[SelectInSeq(all, LAMBDA o : o = n)] = n
<1> DEFINE I == {i \in 1..Len(all) : all[i] = n}
<1>1. Len(all) \in Nat /\ DOMAIN all = 1..Len(all)
    OBVIOUS
<1>2. I \in SUBSET Nat /\ I # {}
    BY <1>1 DEF ToSet
<1>3. Min(I) \in I
    <2> HIDE DEF I
    <2> QED BY <1>2, LeastIndex
<1>4. SelectInSeq(all, LAMBDA o : o = n) = Min(I)
    BY <1>2 DEF SelectInSeq
<1> QED BY <1>3, <1>4

\* The nodes are finitely many.
LEMMA NodesAreFinite ==
    ASSUME nodes \in Seq(Names)
    PROVE  IsFiniteSet(Nodes)
<1> DEFINE L == Len(nodes)
<1>1. L \in Nat /\ DOMAIN nodes = 1..L
    OBVIOUS
<1>2. IsFiniteSet(1..L)
    BY <1>1, FS_Interval
<1>3. nodes \in Surjection(1..L, Nodes)
    BY <1>1 DEF Surjection, Nodes, ToSet
<1> QED BY <1>2, <1>3, FS_Surjection

-----------------------------------------------------------------------------
(* The numbering.                                                          *)

HasCommunities == nodes \in Seq(Names) /\ communities \in [Nodes -> Nat]

\* The communities of the first i nodes.
Seen(i) == {communities[nodes[j]] : j \in 1..i}

\* The position of the first node of the community of n.
First(n) == SelectInSeq(nodes, LAMBDA o : communities[o] = communities[n])

\* A community has a first node, and its position tells it from the others.
LEMMA FirstOfCommunity ==
    ASSUME HasCommunities, NEW n \in Nodes
    PROVE  /\ First(n) \in 1..Len(nodes)
           /\ communities[nodes[First(n)]] = communities[n]
           /\ \A j \in 1..Len(nodes) : communities[nodes[j]] = communities[n] => First(n) <= j
           /\ Dense(n) = Cardinality(Seen(First(n) - 1))
<1> DEFINE I == {i \in 1..Len(nodes) : communities[nodes[i]] = communities[n]}
<1>1. Len(nodes) \in Nat /\ DOMAIN nodes = 1..Len(nodes)
    BY DEF HasCommunities
<1>2. I \in SUBSET Nat /\ I # {}
    BY <1>1 DEF Nodes, ToSet
<1>3. Min(I) \in I /\ \A i \in I : Min(I) <= i
    <2> HIDE DEF I
    <2> QED BY <1>2, LeastIndex
<1>4. First(n) = Min(I)
    BY <1>2 DEF First, SelectInSeq
<1> HIDE DEF I
<1>5. First(n) \in I /\ \A i \in I : First(n) <= i
    BY <1>3, <1>4
<1>6. Dense(n) = Cardinality(Seen(First(n) - 1))
    BY DEF Dense, Seen, First
<1>7. \A i : i \in I <=> i \in 1..Len(nodes) /\ communities[nodes[i]] = communities[n]
    BY DEF I
<1> QED BY <1>5, <1>6, <1>7

\* How many communities the first nodes have.
LEMMA SeenCount ==
    ASSUME HasCommunities, NEW i \in 0..Len(nodes)
    PROVE  /\ IsFiniteSet(Seen(i)) /\ Cardinality(Seen(i)) \in Nat
           /\ \A j \in 0..i : Cardinality(Seen(j)) <= Cardinality(Seen(i))
           /\ i + 1 \in 1..Len(nodes) =>
                 Cardinality(Seen(i + 1)) =
                    Cardinality(Seen(i)) + (IF communities[nodes[i + 1]] \in Seen(i) THEN 0 ELSE 1)
<1>1. Len(nodes) \in Nat /\ i \in Nat
    BY DEF HasCommunities
<1>2. IsFiniteSet(Seen(i))
    <2> DEFINE S == 1..i
               T == Seen(i)
               f == [j \in S |-> communities[nodes[j]]]
    <2>1. IsFiniteSet(S)
        BY <1>1, FS_Interval
    <2>2. f \in Surjection(S, T)
        BY DEF Surjection, Seen
    <2> HIDE DEF S, T, f
    <2>3. IsFiniteSet(T)
        BY <2>1, <2>2, FS_Surjection
    <2> QED BY <2>3 DEF T
<1>3. Cardinality(Seen(i)) \in Nat
    BY <1>2, FS_CardinalityType
<1>4. ASSUME NEW j \in 0..i PROVE Cardinality(Seen(j)) <= Cardinality(Seen(i))
    <2>1. Seen(j) \subseteq Seen(i)
        BY <1>1 DEF Seen
    <2> QED BY <1>2, <2>1, FS_Subset
<1>5. ASSUME i + 1 \in 1..Len(nodes)
      PROVE  Cardinality(Seen(i + 1)) =
                Cardinality(Seen(i)) + (IF communities[nodes[i + 1]] \in Seen(i) THEN 0 ELSE 1)
    <2> DEFINE c == communities[nodes[i + 1]]
    <2>1. Seen(i + 1) = Seen(i) \cup {c}
        <3>1. 1..(i + 1) = (1..i) \cup {i + 1}
            BY <1>1
        <3> QED BY <3>1 DEF Seen
    <2> HIDE DEF c
    <2>2. CASE c \in Seen(i)
        <3>1. Seen(i + 1) = Seen(i)
            BY <2>1, <2>2
        <3> QED BY <1>3, <2>2, <3>1 DEF c
    <2>3. CASE c \notin Seen(i)
        <3>1. Cardinality(Seen(i) \cup {c}) = Cardinality(Seen(i)) + 1
            BY <1>2, <2>3, FS_AddElement
        <3> QED BY <2>1, <2>3, <3>1 DEF c
    <2> QED BY <2>2, <2>3
<1> QED BY <1>2, <1>3, <1>4, <1>5

\* Two nodes have one id exactly if they have one community.
LEMMA DenseInjective ==
    ASSUME HasCommunities, NEW n \in Nodes, NEW m \in Nodes
    PROVE  Dense(n) = Dense(m) <=> communities[n] = communities[m]
<1> DEFINE L == Len(nodes)
<1>1. L \in Nat
    BY DEF HasCommunities
<1>2. ASSUME NEW u \in Nodes, NEW v \in Nodes, First(u) < First(v)
      PROVE  Dense(u) # Dense(v)
    <2>1. /\ First(u) \in 1..L /\ First(v) \in 1..L
          /\ communities[nodes[First(u)]] = communities[u]
          /\ \A j \in 1..L : communities[nodes[j]] = communities[u] => First(u) <= j
          /\ Dense(u) = Cardinality(Seen(First(u) - 1))
          /\ Dense(v) = Cardinality(Seen(First(v) - 1))
        BY FirstOfCommunity
    <2> DEFINE a == First(u)
               b == First(v) - 1
    <2>2. a \in 1..L /\ b \in 0..L /\ a - 1 \in 0..L /\ a \in 0..b /\ (a - 1) + 1 = a
        BY <1>1, <1>2, <2>1
    <2>3. communities[nodes[a]] \notin Seen(a - 1)
        <3> SUFFICES ASSUME NEW j \in 1..(a - 1), communities[nodes[j]] = communities[u]
                     PROVE  FALSE
            BY <2>1 DEF Seen
        <3>1. j \in 1..L /\ ~(a <= j)
            BY <1>1, <2>2
        <3> QED BY <2>1, <3>1
    <2> HIDE DEF a, b
    <2>4. Cardinality(Seen(a - 1)) \in Nat
          /\ Cardinality(Seen(a)) = Cardinality(Seen(a - 1)) + 1
        <3>1. PICK i : i = a - 1
            OBVIOUS
        <3>2. i \in 0..L /\ i + 1 = a /\ i + 1 \in 1..L
            BY <2>2, <3>1
        <3>3. Cardinality(Seen(i)) \in Nat /\ Cardinality(Seen(i + 1)) = Cardinality(Seen(i)) + 1
            BY <2>3, <3>1, <3>2, SeenCount
        <3> QED BY <3>1, <3>2, <3>3
    <2>5. Cardinality(Seen(b)) \in Nat /\ Cardinality(Seen(a)) <= Cardinality(Seen(b))
        BY <2>2, SeenCount
    <2>6. Dense(u) = Cardinality(Seen(a - 1)) /\ Dense(v) = Cardinality(Seen(b))
        BY <2>1, <2>4, <2>5 DEF a, b
    <2> QED BY <2>4, <2>5, <2>6
<1>3. ASSUME Dense(n) = Dense(m) PROVE communities[n] = communities[m]
    <2>1. First(n) \in 1..L /\ First(m) \in 1..L
          /\ communities[nodes[First(n)]] = communities[n]
          /\ communities[nodes[First(m)]] = communities[m]
        BY FirstOfCommunity
    <2>2. ~(First(n) < First(m)) /\ ~(First(m) < First(n))
        BY <1>2, <1>3
    <2>3. First(n) = First(m)
        BY <1>1, <2>1, <2>2
    <2> QED BY <2>1, <2>3
<1>4. ASSUME communities[n] = communities[m] PROVE Dense(n) = Dense(m)
    BY <1>4 DEF Dense
<1> QED BY <1>3, <1>4

\* The ids have no gap.
LEMMA DenseOnto ==
    ASSUME HasCommunities
    PROVE  \E k \in 0..Len(nodes) : {Dense(n) : n \in Nodes} = 0..(k - 1)
<1> DEFINE L == Len(nodes)
           Ids(i) == {Dense(nodes[j]) : j \in 1..i}
           f(i) == Cardinality(Seen(i))
           Fine == {i \in Nat : i > L \/ (f(i) \in 0..i /\ Ids(i) = 0..(f(i) - 1))}
<1>1. L \in Nat /\ DOMAIN nodes = 1..L /\ \A j \in 1..L : nodes[j] \in Nodes
    BY DEF HasCommunities, Nodes, ToSet
<1>2. 0 \in Fine
    <2>1. Seen(0) = {} /\ Ids(0) = {}
        BY DEF Seen
    <2>2. f(0) = 0
        BY <2>1, FS_EmptySet
    <2> QED BY <2>1, <2>2
<1>3. ASSUME NEW i \in Fine PROVE i + 1 \in Fine
    <2>1. CASE i + 1 > L
        BY <2>1
    <2>2. CASE ~(i + 1 > L)
        <3> DEFINE n == nodes[i + 1]
        <3>1. i \in 0..L /\ i \in Nat /\ i + 1 \in 1..L /\ ~(i > L)
            BY <1>1, <2>2
        <3>2. n \in Nodes
            BY <1>1, <3>1
        <3>3. f(i) \in 0..i /\ Ids(i) = 0..(f(i) - 1)
            BY <3>1
        <3>4. Ids(i + 1) = Ids(i) \cup {Dense(n)}
            <4>1. 1..(i + 1) = (1..i) \cup {i + 1}
                BY <3>1
            <4> QED BY <4>1
        <3>5. f(i + 1) = f(i) + (IF communities[n] \in Seen(i) THEN 0 ELSE 1)
            BY <3>1, SeenCount
        <3>6. CASE communities[n] \in Seen(i)
            <4>1. PICK j \in 1..i : communities[nodes[j]] = communities[n]
                BY <3>6 DEF Seen
            <4>2. j \in 1..L /\ nodes[j] \in Nodes
                BY <1>1, <3>1
            <4>3. Dense(n) = Dense(nodes[j])
                BY <3>2, <4>1, <4>2, DenseInjective
            <4>4. Ids(i + 1) = Ids(i)
                BY <3>4, <4>1, <4>3
            <4>5. f(i + 1) = f(i)
                BY <3>3, <3>5, <3>6
            <4> HIDE DEF Ids, f
            <4> QED BY <3>1, <3>3, <4>4, <4>5
        <3>7. CASE communities[n] \notin Seen(i)
            <4>1. /\ First(n) \in 1..L
                  /\ communities[nodes[First(n)]] = communities[n]
                  /\ \A j \in 1..L : communities[nodes[j]] = communities[n] => First(n) <= j
                  /\ Dense(n) = f(First(n) - 1)
                BY <3>2, FirstOfCommunity
            <4>2. First(n) = i + 1
                <5>1. First(n) <= i + 1
                    BY <3>1, <4>1
                <5>2. First(n) \notin 1..i
                    BY <3>7, <4>1 DEF Seen
                <5> QED BY <1>1, <3>1, <4>1, <5>1, <5>2
            <4>3. (i + 1) - 1 = i
                BY <3>1
            <4>4. Dense(n) = f(i)
                BY <3>3, <4>1, <4>2, <4>3
            <4>5. f(i + 1) = f(i) + 1
                BY <3>5, <3>7
            <4> HIDE DEF Ids, f, n
            <4>6. Ids(i + 1) = 0..(f(i + 1) - 1)
                <5>1. f(i) \in Nat /\ f(i + 1) - 1 = f(i)
                    BY <3>1, <3>3, <4>5
                <5>2. 0..f(i) = (0..(f(i) - 1)) \cup {f(i)}
                    BY <5>1
                <5> QED BY <3>3, <3>4, <4>4, <5>1, <5>2
            <4> QED BY <3>1, <3>3, <4>5, <4>6
        <3> QED BY <3>6, <3>7
    <2> QED BY <2>1, <2>2
<1>4. Fine = Nat
    <2>1. Fine \in SUBSET Nat
        OBVIOUS
    <2> HIDE DEF Fine
    <2> QED BY <1>2, <1>3, <2>1, CountingUp
<1>5. f(L) \in 0..L /\ Ids(L) = 0..(f(L) - 1)
    <2>1. L \in Fine /\ ~(L > L)
        <3> HIDE DEF Fine
        <3> QED BY <1>1, <1>4
    <2> QED BY <2>1
<1>6. Ids(L) = {Dense(n) : n \in Nodes}
    BY <1>1 DEF Nodes, ToSet
<1> QED BY <1>5, <1>6

-----------------------------------------------------------------------------
(* Types.                                                                  *)

\* While nodes move they all have a community, and so they do while the result waits
\* to be published; otherwise none has.
MovingInv ==
    /\ phase \in {"polling", "moving", "publishing"}
    /\ phase = "moving" => communities \in [Nodes -> Nat]
    /\ phase = "publishing" => communities = Empty \/ communities \in [Nodes -> Nat]
    /\ phase = "polling" => communities = Empty
    /\ cursor \in 1..Len(nodes) + 1 /\ improved \in BOOLEAN

GraphInv ==
    /\ nodes \in Seq(Names) /\ IsInjective(nodes)
    /\ DOMAIN strength \subseteq Pairs /\ \A p \in DOMAIN strength : strength[p] \in Nat
    /\ \A p \in DOMAIN strength : p \subseteq Nodes
    /\ updates \in 0..applied
    /\ DOMAIN last \subseteq Nodes
    /\ \E k \in 0..Len(nodes) : Range(last) = 0..(k - 1)
    /\ changes \subseteq [node : Nodes, old : Nat \cup {-1}, new : Nat]
    /\ DOMAIN reader \subseteq Names /\ unpublished \subseteq Names
    /\ applied \in 0..MaxUpdates /\ faults \in 0..MaxFaults

TypeInv == MovingInv /\ GraphInv

LEMMA InitTypes == Init => TypeInv
<1> SUFFICES ASSUME Init PROVE TypeInv
    OBVIOUS
<1>1. MaxUpdates \in Nat /\ MaxFaults \in Nat
    BY BoundsAssumption
<1>2. nodes = <<>> /\ Len(nodes) = 0 /\ DOMAIN nodes = {}
    BY DEF Init
<1>3. GraphInv
    <2>1. Range(last) = 0..(0 - 1)
        BY DEF Init, Empty, Range
    <2>2. DOMAIN strength = {} /\ DOMAIN last = {} /\ DOMAIN reader = {}
        BY DEF Init, Empty
    <2>3. nodes \in Seq(Names) /\ IsInjective(nodes) /\ 0 \in 0..Len(nodes)
        BY <1>2 DEF IsInjective
    <2>4. /\ updates \in 0..applied /\ applied \in 0..MaxUpdates /\ faults \in 0..MaxFaults
          /\ changes = {} /\ unpublished = {}
        BY <1>1 DEF Init
    <2> QED BY <2>1, <2>2, <2>3, <2>4 DEF GraphInv
<1>4. MovingInv
    <2>1. cursor \in 1..Len(nodes) + 1
        BY <1>2 DEF Init
    <2>2. phase = "polling" /\ communities = Empty /\ improved \in BOOLEAN
        BY DEF Init
    <2> QED BY <2>1, <2>2 DEF MovingInv
<1> QED BY <1>3, <1>4 DEF TypeInv

\* A message adds nodes and edges between them.
LEMMA ApplyTypes ==
    ASSUME TypeInv, IInv, NEW m \in Messages, apply_result(m)
    PROVE  TypeInv'
<1>1. /\ phase = "polling" /\ applied < MaxUpdates
      /\ applied' = applied + 1 /\ updates' = updates + 1
      /\ nodes' = Inserted(m.mentions)
      /\ Partition(nodes')
      /\ cursor' = 1 /\ improved' = FALSE
      /\ UNCHANGED <<last, changes, reader, unpublished, faults>>
    BY DEF apply_result, published
<1>2. m.mentions \in Seq(Names) /\ m.pairs \subseteq Pairs /\ Deltas \subseteq Nat
      /\ MaxUpdates \in Nat /\ MaxFaults \in Nat
    BY MessagesAssumption, DeltasAssumption, BoundsAssumption
<1>3. Grown(nodes')
    BY <1>1, <1>2, InsertedGrows DEF TypeInv, GraphInv
<1>4. /\ nodes' \in Seq(Names) /\ IsInjective(nodes')
      /\ Nodes \subseteq Nodes' /\ Len(nodes) <= Len(nodes')
      /\ Len(nodes) \in Nat /\ Len(nodes') \in Nat
    BY <1>3 DEF Grown, Nodes, TypeInv, GraphInv
<1>5. /\ DOMAIN strength' \subseteq Pairs /\ \A p \in DOMAIN strength' : strength'[p] \in Nat
      /\ \A p \in DOMAIN strength' : p \subseteq Nodes'
    <2> DEFINE pairs == {p \in m.pairs : p \subseteq ToSet(nodes')}
    <2>1. PICK delta \in [pairs -> Deltas] : strength' = Strengthened(pairs, delta)
        BY DEF apply_result
    <2>2. pairs \subseteq Pairs /\ \A p \in pairs : p \subseteq Nodes'
        BY <1>2 DEF Nodes
    <2> HIDE DEF pairs
    <2>3. DOMAIN strength' = DOMAIN strength \cup pairs
        BY <2>1 DEF Strengthened
    <2>4. ASSUME NEW p \in DOMAIN strength' PROVE strength'[p] \in Nat
        <3>1. p \in pairs => delta[p] \in Nat
            BY <1>2
        <3>2. p \in DOMAIN strength => strength[p] \in Nat
            BY DEF TypeInv, GraphInv
        <3>3. strength'[p] = (IF p \in DOMAIN strength THEN strength[p] ELSE 0)
                             + (IF p \in pairs THEN delta[p] ELSE 0)
            BY <2>1, <2>3 DEF Strengthened
        <3> QED BY <3>1, <3>2, <3>3
    <2> QED BY <1>4, <2>2, <2>3, <2>4 DEF TypeInv, GraphInv
<1>6. changes' = {}
    BY <1>1 DEF IInv, ChangesInv
<1>7. GraphInv'
    <2>1. \E k \in 0..Len(nodes') : Range(last') = 0..(k - 1)
        <3>1. PICK k \in 0..Len(nodes) : Range(last) = 0..(k - 1)
            BY DEF TypeInv, GraphInv
        <3>2. k \in 0..Len(nodes') /\ last' = last
            BY <1>1, <1>4, <3>1
        <3> QED BY <3>1, <3>2
    <2>2. updates' \in 0..applied' /\ applied' \in 0..MaxUpdates /\ faults' \in 0..MaxFaults
        BY <1>1, <1>2 DEF TypeInv, GraphInv
    <2>3. DOMAIN last' \subseteq Nodes' /\ DOMAIN reader' \subseteq Names
          /\ unpublished' \subseteq Names
        BY <1>1, <1>4 DEF TypeInv, GraphInv
    <2> QED BY <1>4, <1>5, <1>6, <2>1, <2>2, <2>3 DEF GraphInv
<1>8. MovingInv'
    <2>1. cursor' \in 1..Len(nodes') + 1
        BY <1>1, <1>4
    <2>2. CASE updates' % Interval = 0
        <3>1. /\ phase' = "moving"
              /\ communities' = [n \in Nodes' |-> SelectInSeq(nodes', LAMBDA o : o = n) - 1]
            BY <1>1, <2>2 DEF Partition, Nodes
        <3>2. ASSUME NEW n \in Nodes' PROVE communities'[n] \in Nat
            <4>1. SelectInSeq(nodes', LAMBDA o : o = n) \in 1..Len(nodes')
                BY <1>4, SingletonIds DEF Nodes
            <4>2. communities'[n] = SelectInSeq(nodes', LAMBDA o : o = n) - 1
                BY <3>1
            <4> QED BY <1>4, <4>1, <4>2
        <3>3. communities' \in [Nodes' -> Nat]
            <4>1. communities' = [n \in Nodes' |-> communities'[n]]
                BY <3>1
            <4> QED BY <3>2, <4>1
        <3> QED BY <1>1, <2>1, <3>1, <3>3 DEF MovingInv
    <2>3. CASE ~(updates' % Interval = 0)
        <3>1. phase' = "publishing" /\ communities' = communities
            BY <1>1, <2>3 DEF Partition
        <3>2. communities = Empty
            BY <1>1 DEF TypeInv, MovingInv
        <3> QED BY <1>1, <2>1, <3>1, <3>2 DEF MovingInv, Empty
    <2> QED BY <2>2, <2>3
<1> QED BY <1>7, <1>8 DEF TypeInv

\* A node moves to a community that a neighbour has.
LEMMA BestIsNear ==
    ASSUME NEW n, NEW c \in Best(n)
    PROVE  \E o \in neighbors(n) : c = communities[o]
BY DEF Best

\* A node moves to a community that there is, and the moves go on or end.
LEMMA VisitTypes ==
    ASSUME TypeInv, Visit
    PROVE  TypeInv'
<1>1. /\ phase = "moving" /\ cursor <= Len(nodes) /\ cursor' = cursor + 1
      /\ UNCHANGED <<phase, nodes, strength, updates, last, changes, reader, unpublished,
                     applied, faults>>
    BY DEF Visit, graph, published
<1>2. GraphInv'
    BY <1>1 DEF TypeInv, GraphInv, Nodes, Range, ToSet
<1>3. Len(nodes) \in Nat /\ nodes' = nodes /\ Nodes' = Nodes
    BY <1>1 DEF TypeInv, GraphInv, Nodes
<1>4. communities \in [Nodes -> Nat] /\ cursor \in 1..Len(nodes) + 1 /\ improved \in BOOLEAN
    BY <1>1 DEF TypeInv, MovingInv
<1>5. cursor' \in 1..Len(nodes') + 1
    BY <1>1, <1>3, <1>4
<1>6. communities' \in [Nodes' -> Nat] /\ improved' \in BOOLEAN
    <2>1. CASE Best(nodes[cursor]) = {}
        <3>1. UNCHANGED <<communities, improved>>
            BY <2>1 DEF Visit
        <3> QED BY <1>3, <1>4, <3>1
    <2>2. CASE Best(nodes[cursor]) # {}
        <3>1. PICK c \in Best(nodes[cursor]) :
                    communities' = [communities EXCEPT ![nodes[cursor]] = c]
            BY <2>2 DEF Visit
        <3>2. improved' = TRUE
            BY <2>2 DEF Visit
        <3>3. c \in Nat
            <4>1. PICK o \in neighbors(nodes[cursor]) : c = communities[o]
                BY BestIsNear
            <4>2. o \in Nodes
                BY <4>1 DEF neighbors
            <4> QED BY <1>4, <4>1, <4>2
        <3> QED BY <1>3, <1>4, <3>1, <3>2, <3>3
    <2> QED BY <2>1, <2>2
<1>7. MovingInv'
    BY <1>1, <1>5, <1>6 DEF MovingInv
<1> QED BY <1>2, <1>7 DEF TypeInv

\* The numbering gives every node an id, without a gap.
LEMMA CompressTypes ==
    ASSUME TypeInv, Compress
    PROVE  TypeInv'
<1>1. /\ phase = "moving" /\ phase' = "publishing"
      /\ changes' = Changes /\ last' = [n \in Nodes |-> Dense(n)]
      /\ UNCHANGED <<nodes, strength, updates, communities, cursor, improved, reader,
                     unpublished, applied, faults>>
    BY DEF Compress, graph, moving, published
<1>2. communities \in [Nodes -> Nat] /\ nodes \in Seq(Names) /\ Nodes' = Nodes
    BY <1>1 DEF TypeInv, MovingInv, GraphInv, Nodes
<1>3. PICK k \in 0..Len(nodes) : {Dense(n) : n \in Nodes} = 0..(k - 1)
    BY <1>2, DenseOnto DEF HasCommunities
<1>4. \A n \in Nodes : Dense(n) \in Nat
    <2>1. Len(nodes) \in Nat
        BY <1>2
    <2>2. 0..(k - 1) \subseteq Nat
        BY <2>1
    <2> QED BY <1>3, <2>2
<1>5. Range(last') = 0..(k - 1)
    BY <1>1, <1>3 DEF Range
<1>6. changes' \subseteq [node : Nodes, old : Nat \cup {-1}, new : Nat]
    <2>1. \A n \in DOMAIN last : last[n] \in Nat
        <3>1. PICK j \in 0..Len(nodes) : Range(last) = 0..(j - 1)
            BY DEF TypeInv, GraphInv
        <3>2. 0..(j - 1) \subseteq Nat
            BY <1>2
        <3> QED BY <3>1, <3>2 DEF Range
    <2>2. \A n \in Nodes : Change(n) \in [node : Nodes, old : Nat \cup {-1}, new : Nat]
        BY <1>4, <2>1 DEF Change
    <2> QED BY <1>1, <2>2 DEF Changes
<1>7. GraphInv'
    BY <1>1, <1>2, <1>3, <1>5, <1>6 DEF TypeInv, GraphInv
<1>8. MovingInv'
    BY <1>1, <1>2 DEF TypeInv, MovingInv
<1> QED BY <1>7, <1>8 DEF TypeInv

\* What becomes of the changes leaves the graph alone.
LEMMA ReadTypes ==
    ASSUME TypeInv, phase = "publishing", phase' = "polling", Forget,
           UNCHANGED <<nodes, strength, updates, last, applied>>,
           DOMAIN reader' \subseteq DOMAIN reader \cup Changed,
           unpublished' \subseteq unpublished \cup Changed,
           faults' \in 0..MaxFaults
    PROVE  TypeInv'
<1>1. Changed \subseteq Nodes /\ Nodes \subseteq Names
    <2>1. DOMAIN nodes = 1..Len(nodes) /\ \A i \in 1..Len(nodes) : nodes[i] \in Names
        BY DEF TypeInv, GraphInv
    <2> QED BY <2>1 DEF TypeInv, GraphInv, Changed, Nodes, ToSet
<1>2. Len(nodes) \in Nat /\ Nodes' = Nodes
    BY DEF TypeInv, GraphInv, Nodes
<1>3. GraphInv'
    BY <1>1, <1>2 DEF TypeInv, GraphInv, Forget, Range
<1>4. MovingInv'
    <2>1. cursor' \in 1..Len(nodes') + 1
        BY <1>2 DEF Forget
    <2>2. phase' = "polling" /\ communities' = Empty /\ improved' \in BOOLEAN
        BY DEF Forget
    <2>3. Empty' = Empty
        BY DEF Empty
    <2> QED BY <2>1, <2>2, <2>3 DEF MovingInv
<1> QED BY <1>3, <1>4 DEF TypeInv

\* The empty graph has the types of any other.
LEMMA RestartTypes ==
    ASSUME TypeInv, Restart
    PROVE  TypeInv'
<1>1. /\ phase' = "polling" /\ nodes' = <<>> /\ strength' = Empty /\ updates' = 0
      /\ last' = Empty /\ unpublished' = {} /\ communities' = Empty /\ cursor' = 1
      /\ improved' = FALSE /\ changes' = {} /\ reader' = reader /\ applied' = applied
      /\ faults' = faults + 1 /\ faults < MaxFaults
    BY DEF Restart, Forget
<1>2. MaxUpdates \in Nat /\ MaxFaults \in Nat
    BY BoundsAssumption
<1>3. Len(nodes') = 0 /\ DOMAIN nodes' = {}
    BY <1>1
<1>4. GraphInv'
    <2>1. Range(last') = 0..(0 - 1)
        BY <1>1 DEF Empty, Range
    <2>2. nodes' \in Seq(Names)
        BY <1>1
    <2>3. DOMAIN strength' = {} /\ DOMAIN last' = {} /\ DOMAIN reader' \subseteq Names
        BY <1>1 DEF Empty, TypeInv, GraphInv
    <2>4. IsInjective(nodes') /\ 0 \in 0..Len(nodes')
        BY <1>3 DEF IsInjective
    <2>5. updates' \in 0..applied' /\ applied' \in 0..MaxUpdates /\ faults' \in 0..MaxFaults
        BY <1>1, <1>2 DEF TypeInv, GraphInv
    <2> QED BY <1>1, <2>1, <2>2, <2>3, <2>4, <2>5 DEF GraphInv
<1>5. MovingInv'
    <2>1. cursor' \in 1..Len(nodes') + 1
        BY <1>1, <1>3
    <2>2. Empty' = Empty
        BY DEF Empty
    <2> QED BY <1>1, <2>1, <2>2 DEF MovingInv
<1> QED BY <1>4, <1>5 DEF TypeInv

LEMMA TypeStep == TypeInv /\ IInv /\ [Next]_vars => TypeInv'
<1> SUFFICES ASSUME TypeInv, IInv, [Next]_vars PROVE TypeInv'
    OBVIOUS
<1>1. CASE UNCHANGED vars
    BY <1>1 DEF vars, graph, moving, published, TypeInv, MovingInv, GraphInv, Nodes, Range, Empty
<1>2. CASE Sweep
    <2>1. /\ cursor' = 1 /\ improved' = FALSE /\ phase = "moving"
          /\ UNCHANGED <<phase, nodes, strength, updates, last, communities, changes, reader,
                         unpublished, applied, faults>>
        BY <1>2 DEF Sweep, graph, published
    <2>2. Len(nodes) \in Nat
        BY DEF TypeInv, GraphInv
    <2>3. GraphInv'
        BY <2>1 DEF TypeInv, GraphInv, Nodes, Range
    <2>4. cursor' \in 1..Len(nodes') + 1
        BY <2>1, <2>2
    <2>5. phase' = "moving" /\ communities' \in [Nodes' -> Nat] /\ improved' \in BOOLEAN
        BY <2>1 DEF TypeInv, MovingInv, Nodes
    <2>6. MovingInv'
        BY <2>4, <2>5 DEF MovingInv
    <2> QED BY <2>3, <2>6 DEF TypeInv
<1>3. CASE Publish
    BY <1>3, ReadTypes DEF Publish, graph, TypeInv, GraphInv
<1>4. CASE PublishFails
    <2>1. faults' \in 0..MaxFaults
        BY <1>4, BoundsAssumption DEF PublishFails, TypeInv, GraphInv
    <2> QED BY <1>4, <2>1, ReadTypes DEF PublishFails, graph
<1> QED
    BY <1>1, <1>2, <1>3, <1>4, ApplyTypes, VisitTypes, CompressTypes, RestartTypes
    DEF Next, run_leiden_like

-----------------------------------------------------------------------------
(* Communities and paths.                                                  *)

\* Nodes of one community are connected, in a sweep and in the last result.
ConnectedInv ==
    /\ phase = "moving" =>
          \A n, o \in Nodes : communities[n] = communities[o] => Connected(n, o)
    /\ CommunitiesAreConnected

\* Connected is reflexive and transitive, and neighbours are connected both ways.
LEMMA ConnectedIsEquivalence ==
    ASSUME NEW n \in Nodes, NEW o \in Nodes
    PROVE  /\ Connected(n, n)
           /\ o \in neighbors(n) => Connected(n, o) /\ Connected(o, n)
           /\ \A u \in Nodes : Connected(n, o) /\ Connected(o, u) => Connected(n, u)
<1>1. o \in neighbors(n) => n \in neighbors(o)
    <2>1. {n, o} = {o, n}
        OBVIOUS
    <2> QED BY <2>1 DEF neighbors
<1> QED BY <1>1 DEF Connected

\* A graph that grows stays connected where it was.
LEMMA ConnectedGrows ==
    ASSUME NEW n \in Nodes, NEW o, Connected(n, o), Nodes \subseteq Nodes',
           DOMAIN strength \subseteq DOMAIN strength'
    PROVE  Connected(n, o)'
<1> SUFFICES ASSUME NEW part \in SUBSET Nodes', n \in part,
                    \A member \in part : neighbors(member)' \subseteq part
             PROVE  o \in part
    BY DEF Connected
<1> DEFINE old == part \cap Nodes
<1>1. ASSUME NEW member \in old PROVE neighbors(member) \subseteq old
    <2>1. neighbors(member) \subseteq neighbors(member)' /\ neighbors(member) \subseteq Nodes
        BY DEF neighbors
    <2> QED BY <2>1
<1>2. old \in SUBSET Nodes /\ n \in old
    OBVIOUS
<1> HIDE DEF old
<1>3. o \in old
    BY <1>1, <1>2 DEF Connected
<1> QED BY <1>3 DEF old

\* A result adds nodes and edges, which takes no connection away; at the start of the
\* sweeps every node is alone in its community.
LEMMA ApplyConnects ==
    ASSUME TypeInv, ConnectedInv, NEW m \in Messages, apply_result(m)
    PROVE  ConnectedInv'
<1>1. /\ nodes' = Inserted(m.mentions) /\ Partition(nodes') /\ last' = last
      /\ nodes \in Seq(Names) /\ IsInjective(nodes) /\ m.mentions \in Seq(Names)
    BY MessagesAssumption DEF apply_result, TypeInv, GraphInv
<1>2. nodes' \in Seq(Names) /\ Nodes \subseteq Nodes'
    <2>1. Grown(nodes')
        BY <1>1, InsertedGrows
    <2> QED BY <2>1 DEF Grown, Nodes
<1>3. DOMAIN strength \subseteq DOMAIN strength'
    BY DEF apply_result, Strengthened
<1>4. CommunitiesAreConnected'
    <2> SUFFICES ASSUME NEW n \in DOMAIN last, NEW o \in DOMAIN last, last[n] = last[o]
                 PROVE  Connected(n, o)'
        BY <1>1 DEF CommunitiesAreConnected
    <2>1. Connected(n, o) /\ n \in Nodes
        BY DEF ConnectedInv, CommunitiesAreConnected, TypeInv, GraphInv
    <2> QED BY <1>2, <1>3, <2>1, ConnectedGrows
<1>5. ASSUME phase' = "moving", NEW n \in Nodes', NEW o \in Nodes',
             communities'[n] = communities'[o]
      PROVE  Connected(n, o)'
    <2>1. communities' = [u \in Nodes' |-> SelectInSeq(nodes', LAMBDA v : v = u) - 1]
        BY <1>1, <1>5 DEF Partition, Nodes
    <2> DEFINE i == SelectInSeq(nodes', LAMBDA v : v = n)
               j == SelectInSeq(nodes', LAMBDA v : v = o)
    <2>2. i \in 1..Len(nodes') /\ j \in 1..Len(nodes') /\ nodes'[i] = n /\ nodes'[j] = o
        BY <1>2, SingletonIds DEF Nodes
    <2>3. communities'[n] = i - 1 /\ communities'[o] = j - 1
        BY <2>1
    <2> HIDE DEF i, j
    <2>4. i = j
        <3>1. Len(nodes') \in Nat
            BY <1>2
        <3>2. i \in Int /\ j \in Int
            BY <2>2, <3>1
        <3>3. i - 1 = j - 1
            BY <1>5, <2>3
        <3> QED BY <3>2, <3>3
    <2>5. n = o
        BY <2>2, <2>4
    <2> QED BY <2>5 DEF Connected
<1> QED BY <1>4, <1>5 DEF ConnectedInv

\* A step of the sweep and its result leave the graph alone.
LEMMA ConnectedUnchanged ==
    ASSUME UNCHANGED <<nodes, strength>>, NEW n, NEW o
    PROVE  Connected(n, o)' <=> Connected(n, o)
BY DEF Connected, neighbors, Nodes

\* The nodes of the community a node moves to are connected to it.
LEMMA VisitConnects ==
    ASSUME TypeInv, ConnectedInv, Visit
    PROVE  ConnectedInv'
<1>1. phase = "moving" /\ UNCHANGED <<phase, nodes, strength, last>> /\ Nodes' = Nodes
    BY DEF Visit, graph, Nodes
<1>2. CommunitiesAreConnected'
    BY <1>1, ConnectedUnchanged DEF ConnectedInv, CommunitiesAreConnected
<1>3. communities \in [Nodes -> Nat]
    BY <1>1 DEF TypeInv, MovingInv
<1>4. \A n, o \in Nodes : communities[n] = communities[o] => Connected(n, o)
    BY <1>1 DEF ConnectedInv
<1>5. ASSUME NEW n \in Nodes, NEW o \in Nodes, communities'[n] = communities'[o]
      PROVE  Connected(n, o)
    <2> DEFINE v == nodes[cursor]
    <2>1. CASE Best(v) = {}
        BY <2>1, <1>4, <1>5 DEF Visit
    <2>2. CASE Best(v) # {}
        <3>1. PICK c \in Best(v) : communities' = [communities EXCEPT ![v] = c]
            BY <2>2 DEF Visit
        <3>2. PICK u \in neighbors(v) : c = communities[u]
            BY BestIsNear
        <3> HIDE DEF v
        <3>3. u \in Nodes
            BY <3>2 DEF neighbors
        <3>4. CASE n = v /\ o # v
            <4>1. communities[o] = communities[u]
                BY <1>3, <1>5, <3>1, <3>2, <3>4
            <4>2. Connected(u, o)
                BY <1>4, <3>3, <4>1
            <4> QED BY <3>2, <3>3, <3>4, <4>2, ConnectedIsEquivalence
        <3>5. CASE n # v /\ o = v
            <4>1. communities[n] = communities[u]
                BY <1>3, <1>5, <3>1, <3>2, <3>5
            <4>2. Connected(n, u)
                BY <1>4, <3>3, <4>1
            <4> QED BY <3>2, <3>3, <3>5, <4>2, ConnectedIsEquivalence
        <3>6. CASE n # v /\ o # v
            BY <1>3, <1>4, <1>5, <3>1, <3>6
        <3>7. CASE n = v /\ o = v
            BY <3>7, ConnectedIsEquivalence
        <3> QED BY <3>4, <3>5, <3>6, <3>7
    <2> QED BY <2>1, <2>2
<1>6. \A n, o \in Nodes' : communities'[n] = communities'[o] => Connected(n, o)'
    BY <1>1, <1>5, ConnectedUnchanged
<1> QED BY <1>2, <1>6 DEF ConnectedInv

\* Numbering gives connected nodes one id.
LEMMA CompressConnects ==
    ASSUME TypeInv, ConnectedInv, Compress
    PROVE  ConnectedInv'
<1>1. /\ phase = "moving" /\ phase' = "publishing" /\ UNCHANGED <<nodes, strength>>
      /\ last' = [n \in Nodes |-> Dense(n)]
    BY DEF Compress, graph
<1>2. HasCommunities
    BY <1>1 DEF TypeInv, MovingInv, GraphInv, HasCommunities
<1>3. ASSUME NEW n \in Nodes, NEW o \in Nodes, Dense(n) = Dense(o) PROVE Connected(n, o)
    <2>1. communities[n] = communities[o]
        BY <1>2, <1>3, DenseInjective
    <2> QED BY <1>1, <2>1 DEF ConnectedInv
<1>4. CommunitiesAreConnected'
    <2> SUFFICES ASSUME NEW n \in Nodes, NEW o \in Nodes, Dense(n) = Dense(o)
                 PROVE  Connected(n, o)'
        BY <1>1 DEF CommunitiesAreConnected
    <2> QED BY <1>1, <1>3, ConnectedUnchanged
<1> QED BY <1>1, <1>4 DEF ConnectedInv

LEMMA ConnectedStep == TypeInv /\ ConnectedInv /\ [Next]_vars => ConnectedInv'
<1> SUFFICES ASSUME TypeInv, ConnectedInv, [Next]_vars PROVE ConnectedInv'
    OBVIOUS
<1>1. ASSUME UNCHANGED <<nodes, strength, last>>,
             phase' = "moving" => phase = "moving" /\ communities' = communities
      PROVE  ConnectedInv'
    <2>1. Nodes' = Nodes
        BY <1>1 DEF Nodes
    <2> QED BY <1>1, <2>1, ConnectedUnchanged DEF ConnectedInv, CommunitiesAreConnected
<1>2. CASE UNCHANGED vars
    BY <1>1, <1>2 DEF vars, graph, moving
<1>3. CASE Sweep
    BY <1>1, <1>3 DEF Sweep, graph
<1>4. CASE Publish \/ PublishFails
    BY <1>1, <1>4 DEF Publish, PublishFails, graph
<1>5. CASE Restart
    <2>1. last' = Empty /\ phase' = "polling"
        BY <1>5 DEF Restart
    <2> QED BY <2>1 DEF ConnectedInv, CommunitiesAreConnected, Empty
<1> QED
    BY <1>2, <1>3, <1>4, <1>5, ApplyConnects, VisitConnects, CompressConnects
    DEF Next, run_leiden_like

LEMMA InitConnected == Init => ConnectedInv
    BY DEF Init, ConnectedInv, CommunitiesAreConnected, Empty

-----------------------------------------------------------------------------
(* Ties.                                                                   *)

\* total has the sum of every set of at most n of the pairs.
Sums(total, pairs, n) ==
    total = [s \in {s \in SUBSET pairs : Cardinality(s) <= n} |->
                IF s = {} THEN 0
                ELSE strength[CHOOSE p \in s : TRUE] + total[s \ {CHOOSE p \in s : TRUE}]]

\* The sum of the strengths of finitely many edges is a number.
LEMMA SumIsNumber ==
    ASSUME NEW pairs, IsFiniteSet(pairs), \A p \in pairs : strength[p] \in Nat
    PROVE  Sum(pairs) \in Nat
<1> DEFINE Few(n) == {s \in SUBSET pairs : Cardinality(s) <= n}
           pick(s) == CHOOSE p \in s : TRUE
           C == Cardinality(pairs)
           Some == {n \in Nat : \E total : Sums(total, pairs, n)}
<1>1. /\ C \in Nat
      /\ \A s \in SUBSET pairs : IsFiniteSet(s) /\ Cardinality(s) \in Nat /\ Cardinality(s) <= C
    BY FS_CardinalityType, FS_Subset
<1>2. ASSUME NEW s \in SUBSET pairs, s # {}
      PROVE  /\ pick(s) \in s /\ s \ {pick(s)} \in SUBSET pairs
             /\ Cardinality(s \ {pick(s)}) = Cardinality(s) - 1
             /\ Cardinality(s) >= 1
    <2> DEFINE x == pick(s)
    <2>1. x \in s
        BY <1>2
    <2> HIDE DEF x
    <2>2. Cardinality(s \ {x}) = Cardinality(s) - 1
        BY <1>1, <2>1, FS_RemoveElement
    <2>3. Cardinality(s \ {x}) \in Nat /\ Cardinality(s) \in Nat
        BY <1>1
    <2> QED BY <2>1, <2>2, <2>3 DEF x
<1>3. ASSUME NEW s \in SUBSET pairs, Cardinality(s) <= 0 PROVE s = {}
    <2> SUFFICES ASSUME s # {} PROVE FALSE
        OBVIOUS
    <2>1. Cardinality(s) >= 1 /\ Cardinality(s) \in Nat
        BY <1>1, <1>2
    <2> QED BY <1>3, <2>1
<1>4. 0 \in Some
    <2> DEFINE total == [s \in Few(0) |-> 0]
    <2>1. Sums(total, pairs, 0)
        BY <1>3 DEF Sums
    <2> HIDE DEF total
    <2> QED BY <2>1
<1>5. ASSUME NEW n \in Some PROVE n + 1 \in Some
    <2>1. PICK total : Sums(total, pairs, n)
        OBVIOUS
    <2>2. n \in Nat
        OBVIOUS
    <2> DEFINE more == [s \in Few(n + 1) |->
                          IF s = {} THEN 0
                          ELSE strength[pick(s)] +
                               (IF s \ {pick(s)} = {} THEN 0
                                ELSE strength[pick(s \ {pick(s)})]
                                     + total[(s \ {pick(s)}) \ {pick(s \ {pick(s)})}])]
    <2> HIDE DEF pick
    <2>3. \A s \in Few(n) :
             total[s] = IF s = {} THEN 0 ELSE strength[pick(s)] + total[s \ {pick(s)}]
        BY <2>1 DEF Sums, pick
    <2>4. ASSUME NEW s \in Few(n + 1), s # {}
          PROVE  /\ s \ {pick(s)} \in Few(n) /\ s \ {pick(s)} \in Few(n + 1)
                 /\ more[s] = strength[pick(s)] + total[s \ {pick(s)}]
        <3>1. s \ {pick(s)} \in Few(n) /\ s \ {pick(s)} \in Few(n + 1)
            BY <1>1, <1>2, <2>2, <2>4
        <3> QED BY <2>3, <2>4, <3>1
    <2>5. ASSUME NEW s \in Few(n) PROVE s \in Few(n + 1) /\ more[s] = total[s]
        <3>1. s \in Few(n + 1)
            BY <1>1, <2>2
        <3>2. CASE s = {}
            BY <2>3, <3>1, <3>2
        <3>3. CASE s # {}
            BY <2>3, <2>4, <3>1, <3>3
        <3> QED BY <3>1, <3>2, <3>3
    <2>6. ASSUME NEW s \in Few(n + 1)
          PROVE  more[s] = IF s = {} THEN 0 ELSE strength[pick(s)] + more[s \ {pick(s)}]
        <3>1. CASE s = {}
            BY <3>1
        <3>2. CASE s # {}
            <4> HIDE DEF more
            <4> QED BY <2>4, <2>5, <3>2
        <3> QED BY <3>1, <3>2
    <2>7. more = [s \in Few(n + 1) |-> more[s]]
        OBVIOUS
    <2> HIDE DEF more
    <2>8. Sums(more, pairs, n + 1)
        BY <2>6, <2>7 DEF Sums, pick
    <2> QED BY <2>2, <2>8
<1>6. Some = Nat
    <2>1. Some \in SUBSET Nat
        OBVIOUS
    <2> HIDE DEF Some
    <2> QED BY <1>4, <1>5, <2>1, CountingUp
<1>7. Few(C) = SUBSET pairs
    BY <1>1
<1> DEFINE iter == CHOOSE total : total = [s \in SUBSET pairs |->
                      IF s = {} THEN 0
                      ELSE strength[pick(s)] + total[s \ {pick(s)}]]
<1>8. iter = [s \in SUBSET pairs |->
                 IF s = {} THEN 0 ELSE strength[pick(s)] + iter[s \ {pick(s)}]]
    <2>1. PICK total : Sums(total, pairs, C)
        BY <1>1, <1>6
    <2>2. total = [s \in SUBSET pairs |->
                     IF s = {} THEN 0 ELSE strength[pick(s)] + total[s \ {pick(s)}]]
        <3>1. total = [s \in Few(C) |->
                         IF s = {} THEN 0 ELSE strength[pick(s)] + total[s \ {pick(s)}]]
            BY <2>1 DEF Sums
        <3> QED BY <1>7, <3>1
    <2> QED BY <2>2
<1>9. Sum(pairs) = iter[pairs]
    BY DEF Sum, FoldSet, MapThenFoldSet
<1> HIDE DEF iter, pick, Some
<1>10. \A s \in SUBSET pairs : iter[s] = IF s = {} THEN 0 ELSE strength[pick(s)] + iter[s \ {pick(s)}]
    BY <1>8
<1> DEFINE Fine == {n \in Nat : \A s \in Few(n) : iter[s] \in Nat}
<1>11. 0 \in Fine
    <2> SUFFICES ASSUME NEW s \in Few(0) PROVE iter[s] \in Nat
        OBVIOUS
    <2>1. s = {} /\ s \in SUBSET pairs
        BY <1>3
    <2>2. iter[s] = 0
        BY <1>10, <2>1
    <2> QED BY <2>2
<1>12. ASSUME NEW n \in Fine PROVE n + 1 \in Fine
    <2>1. ASSUME NEW s \in Few(n + 1), s # {} PROVE iter[s] \in Nat
        <3>1. s \ {pick(s)} \in Few(n) /\ pick(s) \in s
            BY <1>1, <1>2, <2>1
        <3>2. iter[s \ {pick(s)}] \in Nat /\ strength[pick(s)] \in Nat
            BY <3>1
        <3>3. iter[s] = strength[pick(s)] + iter[s \ {pick(s)}]
            BY <1>10, <2>1
        <3> QED BY <3>2, <3>3
    <2>2. iter[{}] = 0
        <3>1. {} \in SUBSET pairs
            OBVIOUS
        <3> QED BY <1>10, <3>1
    <2>3. ASSUME NEW s \in Few(n + 1) PROVE iter[s] \in Nat
        <3>1. CASE s = {}
            BY <2>2, <3>1
        <3>2. CASE s # {}
            BY <2>1, <3>2
        <3> QED BY <3>1, <3>2
    <2> QED BY <2>3
<1>13. Fine = Nat
    <2>1. Fine \in SUBSET Nat
        OBVIOUS
    <2> HIDE DEF Fine
    <2> QED BY <1>11, <1>12, <2>1, CountingUp
<1> QED BY <1>1, <1>7, <1>9, <1>13

\* What ties a node to a community, and what it gains by a move, are numbers.
LEMMA GainIsNumber ==
    ASSUME TypeInv, NEW n \in Nodes, NEW c
    PROVE  Gain(n, c) \in Int
<1>1. ASSUME NEW d PROVE Tie(n, d) \in Nat
    <2> DEFINE near == {o \in neighbors(n) : communities[o] = d}
               edge == [o \in near |-> {n, o}]
               S == {{n, o} : o \in near}
    <2>1. IsFiniteSet(near)
        <3>1. IsFiniteSet(Nodes)
            BY NodesAreFinite DEF TypeInv, GraphInv
        <3>2. near \subseteq Nodes
            BY DEF neighbors
        <3> QED BY <3>1, <3>2, FS_Subset
    <2>2. edge \in Surjection(near, S)
        BY DEF Surjection
    <2>3. \A p \in S : strength[p] \in Nat
        <3>1. S \subseteq DOMAIN strength
            BY DEF neighbors
        <3> QED BY <3>1 DEF TypeInv, GraphInv
    <2>4. Tie(n, d) = Sum(S)
        BY DEF Tie
    <2> HIDE DEF near, edge, S
    <2>5. IsFiniteSet(S)
        BY <2>1, <2>2, FS_Surjection
    <2> QED BY <2>3, <2>4, <2>5, SumIsNumber
<1> QED BY <1>1 DEF Gain

\* Finitely many numbers have a greatest.
LEMMA Greatest ==
    ASSUME NEW S \in SUBSET Int, IsFiniteSet(S), S # {}
    PROVE  \E m \in S : \A i \in S : i <= m
<1> DEFINE Has(T) == \E m \in T : \A i \in T : i <= m
           Fine == {n \in Nat : \A T \in SUBSET S : Cardinality(T) = n /\ T # {} => Has(T)}
<1>1. \A T \in SUBSET S : IsFiniteSet(T) /\ Cardinality(T) \in Nat
    BY FS_Subset, FS_CardinalityType
<1>2. \A T \in SUBSET S : \A t \in T : Cardinality(T \ {t}) = Cardinality(T) - 1
    BY <1>1, FS_RemoveElement
<1>3. 0 \in Fine
    <2> SUFFICES ASSUME NEW T \in SUBSET S, Cardinality(T) = 0, T # {} PROVE FALSE
        OBVIOUS
    <2>1. PICK t \in T : TRUE
        OBVIOUS
    <2>2. Cardinality(T \ {t}) = 0 - 1 /\ Cardinality(T \ {t}) \in Nat
        BY <1>1, <1>2
    <2> QED BY <2>2
<1>4. ASSUME NEW n \in Fine PROVE n + 1 \in Fine
    <2> SUFFICES ASSUME NEW T \in SUBSET S, Cardinality(T) = n + 1, T # {} PROVE Has(T)
        OBVIOUS
    <2>1. PICK t \in T : TRUE
        OBVIOUS
    <2>2. t \in Int /\ \A i \in T : i \in Int
        OBVIOUS
    <2>3. CASE T \ {t} = {}
        BY <2>1, <2>2, <2>3
    <2>4. CASE T \ {t} # {}
        <3>1. T \ {t} \in SUBSET S /\ Cardinality(T \ {t}) = n
            BY <1>2
        <3>2. PICK m \in T \ {t} : \A i \in T \ {t} : i <= m
            BY <2>4, <3>1
        <3>3. CASE t <= m
            BY <3>2, <3>3
        <3>4. CASE ~(t <= m)
            <4>1. \A i \in T : i <= t
                BY <2>2, <3>2, <3>4
            <4> QED BY <2>1, <4>1
        <3> QED BY <3>3, <3>4
    <2> QED BY <2>3, <2>4
<1>5. Fine = Nat
    <2>1. Fine \in SUBSET Nat
        OBVIOUS
    <2> HIDE DEF Fine
    <2> QED BY <1>3, <1>4, <2>1, CountingUp
<1> QED BY <1>1, <1>5

\* A node that finds no better community gains by no move.
LEMMA NoBetter ==
    ASSUME TypeInv, NEW n \in Nodes, Best(n) = {},
           NEW c \in {communities[o] : o \in neighbors(n)}
    PROVE  Gain(n, c) <= 0
<1> DEFINE near == {communities[o] : o \in neighbors(n)}
           gains == {d \in near : Gain(n, d) > 0}
           gain == [d \in gains |-> Gain(n, d)]
           values == {Gain(n, d) : d \in gains}
<1> SUFFICES ASSUME Gain(n, c) > 0 PROVE FALSE
    BY GainIsNumber
<1>1. IsFiniteSet(near)
    <2> DEFINE N == neighbors(n)
               f == [o \in N |-> communities[o]]
    <2>1. IsFiniteSet(N)
        <3>1. IsFiniteSet(Nodes)
            BY NodesAreFinite DEF TypeInv, GraphInv
        <3>2. N \subseteq Nodes
            BY DEF neighbors
        <3> QED BY <3>1, <3>2, FS_Subset
    <2>2. f \in Surjection(N, near)
        BY DEF Surjection
    <2> HIDE DEF N, f, near
    <2> QED BY <2>1, <2>2, FS_Surjection
<1>2. gains \subseteq near /\ c \in gains
    OBVIOUS
<1>3. values \in SUBSET Int /\ values # {}
    BY <1>2, GainIsNumber
<1>4. gain \in Surjection(gains, values)
    BY DEF Surjection
<1>5. \A v \in values : \E d \in gains : v = Gain(n, d)
    OBVIOUS
<1>6. \A d \in gains : Gain(n, d) \in values
    OBVIOUS
<1>7. Best(n) = {d \in gains : \A other \in gains : Gain(n, other) <= Gain(n, d)}
    BY DEF Best
<1> HIDE DEF near, gains, gain, values
<1>8. IsFiniteSet(values)
    <2>1. IsFiniteSet(gains)
        BY <1>1, <1>2, FS_Subset
    <2> QED BY <1>4, <2>1, FS_Surjection
<1>9. PICK v \in values : \A i \in values : i <= v
    BY <1>3, <1>8, Greatest
<1>10. PICK d \in gains : v = Gain(n, d)
    BY <1>5
<1>11. d \in Best(n)
    BY <1>6, <1>7, <1>9, <1>10
<1> QED BY <1>11

\* In a sweep that has moved nothing the nodes already visited would stay; when the
\* result waits to be published they all would.
SettledInv ==
    /\ phase = "moving" /\ ~improved => \A i \in 1..(cursor - 1) : Best(nodes[i]) = {}
    /\ phase = "publishing" /\ communities # Empty => \A n \in Nodes : Best(n) = {}

\* What is best for a node depends on the graph and the communities.
LEMMA BestUnchanged ==
    ASSUME UNCHANGED <<nodes, strength, communities>>, NEW n
    PROVE  Best(n)' = Best(n) /\ Best(nodes[n])' = Best(nodes[n])
BY DEF Best, Gain, Tie, Sum, FoldSet, MapThenFoldSet, neighbors, Nodes

LEMMA SettledStep == TypeInv /\ SettledInv /\ [Next]_vars => SettledInv'
<1> SUFFICES ASSUME TypeInv, SettledInv, [Next]_vars PROVE SettledInv'
    OBVIOUS
<1>1. CASE UNCHANGED vars
    <2>1. /\ UNCHANGED <<phase, nodes, strength, communities, cursor, improved>>
          /\ Nodes' = Nodes /\ Empty' = Empty
        BY <1>1 DEF vars, graph, moving, Nodes, Empty
    <2>2. \A n : Best(n)' = Best(n)
        BY <2>1, BestUnchanged
    <2> QED BY <2>1, <2>2 DEF SettledInv
<1>2. ASSUME NEW m \in Messages, apply_result(m) PROVE SettledInv'
    <2>1. cursor' = 1 /\ Partition(nodes') /\ phase = "polling"
        BY <1>2 DEF apply_result
    <2>2. phase' = "publishing" => communities' = Empty'
        BY <2>1 DEF Partition, TypeInv, MovingInv, Empty
    <2> QED BY <2>1, <2>2 DEF SettledInv
<1>3. CASE Visit
    <2>1. /\ phase = "moving" /\ phase' = "moving" /\ cursor' = cursor + 1
          /\ UNCHANGED <<nodes, strength>>
        BY <1>3 DEF Visit, graph
    <2>2. ASSUME ~improved', NEW i \in 1..(cursor' - 1) PROVE Best(nodes[i])' = {}
        <3>1. Best(nodes[cursor]) = {} /\ UNCHANGED <<communities, improved>>
            BY <1>3, <2>2 DEF Visit
        <3>2. Best(nodes[i]) = {}
            <4>1. cursor \in 1..Len(nodes) + 1 /\ Len(nodes) \in Nat
                BY DEF TypeInv, MovingInv, GraphInv
            <4>2. i \in 1..(cursor - 1) \/ i = cursor
                BY <2>1, <4>1
            <4> QED BY <2>1, <2>2, <3>1, <4>2 DEF SettledInv
        <3> QED BY <2>1, <3>1, <3>2, BestUnchanged
    <2>3. \A i \in 1..(cursor' - 1) : ~improved' => Best(nodes[i])' = {}
        BY <2>2
    <2> QED BY <2>1, <2>3 DEF SettledInv
<1>4. CASE Sweep
    BY <1>4 DEF Sweep, SettledInv
<1>5. CASE Compress
    <2>1. /\ phase = "moving" /\ cursor > Len(nodes) /\ ~improved
          /\ phase' = "publishing" /\ UNCHANGED <<nodes, strength, communities>>
        BY <1>5 DEF Compress, graph, moving
    <2>2. cursor \in 1..Len(nodes) + 1 /\ Len(nodes) \in Nat /\ DOMAIN nodes = 1..Len(nodes)
        BY DEF TypeInv, MovingInv, GraphInv
    <2>3. \A n \in Nodes : Best(n) = {}
        <3>1. \A i \in 1..Len(nodes) : i \in 1..(cursor - 1)
            BY <2>1, <2>2
        <3> QED BY <2>1, <2>2, <3>1 DEF SettledInv, Nodes, ToSet
    <2>4. Nodes' = Nodes /\ \A n : Best(n)' = Best(n)
        BY <2>1, BestUnchanged DEF Nodes
    <2> QED BY <2>1, <2>3, <2>4 DEF SettledInv
<1>6. CASE Publish \/ PublishFails \/ Restart
    BY <1>6 DEF Publish, PublishFails, Restart, SettledInv
<1> QED BY <1>1, <1>2, <1>3, <1>4, <1>5, <1>6 DEF Next, run_leiden_like

-----------------------------------------------------------------------------
(* The theorems.                                                           *)

\* A reader of graph-metrics who applies every published change has the ids of the
\* engine for all the nodes whose last change was published, whatever the sweeps did
\* and however often the process started anew.
THEOREM ReaderHasTheIds == Spec => []ReaderFollows
<1>1. IInv => ReaderFollows
    BY DEF IInv, ChangesInv, ReaderInv, ReaderFollows, Changed
<1> QED BY <1>1, InitIInv, IInvStep, PTL DEF Spec

\* Nodes, edges, ids and changes keep their shape, and the ids of the communities are
\* 0, 1, ... without a gap, whatever the sweeps did.
THEOREM TypeCorrect == Spec => []TypeOK
<1>1. TypeInv => TypeOK
    BY DEF TypeInv, MovingInv, GraphInv, TypeOK
<1> QED BY <1>1, InitTypes, TypeStep, InitIInv, IInvStep, PTL DEF Spec

\* Nodes with one id are connected in the graph of that time and, until a restart,
\* of any later one, whatever the ties and the order of the visits.
THEOREM SameIdIsConnected == Spec => []CommunitiesAreConnected
<1>1. ConnectedInv => CommunitiesAreConnected
    BY DEF ConnectedInv
<1> QED
    BY <1>1, InitTypes, TypeStep, InitIInv, IInvStep, InitConnected, ConnectedStep, PTL DEF Spec

\* When the communities are numbered no node gains by a move to a neighbour's.
THEOREM ResultIsLocalOptimum == Spec => []LocalOptimum
<1>1. Init => SettledInv
    BY DEF Init, SettledInv
<1>2. TypeInv /\ SettledInv => LocalOptimum
    BY NoBetter DEF SettledInv, LocalOptimum
<1> QED
    BY <1>1, <1>2, InitTypes, TypeStep, InitIInv, IInvStep, SettledStep, PTL DEF Spec
=============================================================================

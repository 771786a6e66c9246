------------------------- MODULE PriorityTopicsProofs -------------------------
(***************************************************************************)
(* Proofs about PriorityTopics for every set of threads, topics and        *)
(* default terms, and every limit.                                         *)
(***************************************************************************)
EXTENDS PriorityTopics, FiniteSetTheorems, TLAPS

\* The requests stamped up to a time.
Past(t) == [topic : Topics, at : 1..t]

LEMMA PastGrows == ASSUME NEW t \in Nat PROVE Past(t) \subseteq Past(t + 1)
    BY DEF Past

-----------------------------------------------------------------------------
(* Pruning.                                                                *)

LEMMA PruneSelects ==
    ASSUME NEW reqs, NEW t
    PROVE  /\ prune_priority_topics(reqs, t) \subseteq reqs
           /\ \A r \in prune_priority_topics(reqs, t) : r.at >= t - Ttl
    BY DEF prune_priority_topics, LastOf, Newest

LEMMA PruneIsOnePerTopic ==
    ASSUME NEW reqs, NEW t, OnePerTopic(reqs)
    PROVE  OnePerTopic(prune_priority_topics(reqs, t))
    BY PruneSelects DEF OnePerTopic

\* A request outlives the pruning when fewer than MaxTopics topics of a finite set that
\* holds all requests are newer, and its own topic is not.
LEMMA PruneKeeps ==
    ASSUME NEW t \in Nat, NEW stamped \in SUBSET Past(t), IsFiniteSet(stamped),
           NEW reqs \in SUBSET stamped, OnePerTopic(reqs),
           NEW r \in reqs, r.at >= t - Ttl,
           Cardinality({o.topic : o \in {s \in stamped : s.at > r.at}}) < MaxTopics
    PROVE  r \in prune_priority_topics(reqs, t)
<1> DEFINE fresh == {s \in reqs : s.at >= t - Ttl}
           later == {o \in Newest(fresh) : o.at > r.at}
           newer == {s \in stamped : s.at > r.at}
           topics == {o.topic : o \in newer}
<1>1. r \in Newest(fresh)
    <2>1. r \in fresh
        OBVIOUS
    <2>2. ASSUME NEW other \in fresh, other.topic = r.topic
          PROVE  other.at <= r.at
        <3>1. other = r
            BY <2>2 DEF OnePerTopic
        <3>2. r.at \in Int
            BY DEF Past
        <3> QED BY <3>1, <3>2
    <2> QED BY <2>1, <2>2 DEF Newest
<1>2. IsFiniteSet(newer)
    <2>1. newer \subseteq stamped
        OBVIOUS
    <2> QED BY <2>1, FS_Subset
<1>3. IsFiniteSet(topics) /\ Cardinality(topics) \in Nat
    <2> DEFINE f == [o \in newer |-> o.topic]
    <2>1. f \in Surjection(newer, topics)
        BY DEF Surjection
    <2>2. IsFiniteSet(topics)
        BY <1>2, <2>1, FS_Surjection
    <2> QED BY <2>2, FS_CardinalityType
<1>4. IsFiniteSet(later) /\ Cardinality(later) \in Nat /\ Cardinality(later) <= Cardinality(topics)
    <2> DEFINE g == [o \in later |-> o.topic]
    <2>1. g \in [later -> topics]
        BY DEF Newest
    <2>2. ASSUME NEW o1 \in later, NEW o2 \in later, g[o1] = g[o2]
          PROVE  o1 = o2
        BY <2>2 DEF Newest, OnePerTopic
    <2>3. g \in Injection(later, topics)
        BY <2>1, <2>2 DEF Injection, IsInjective
    <2>4. IsFiniteSet(later) /\ Cardinality(later) <= Cardinality(topics)
        BY <1>3, <2>3, FS_Injection
    <2> QED BY <2>4, FS_CardinalityType
<1>5. Cardinality(topics) < MaxTopics
    OBVIOUS
<1> HIDE DEF topics, later
<1>6. Cardinality(later) < MaxTopics
    BY <1>3, <1>4, <1>5, BoundsAssumption
<1> QED BY <1>1, <1>6 DEF prune_priority_topics, LastOf, later

-----------------------------------------------------------------------------
(* Shapes.                                                                 *)

Texts == {"list", "nothing", "no JSON"}
Places == {"down", "idle", "loaded", "saving"}

\* Nobody holds a request from the future, or two of one topic.
Shape ==
    /\ now \in Nat
    /\ file \in [text : Texts, items : SUBSET Past(now)] /\ OnePerTopic(file.items)
    /\ pc \in [Actors -> Places]
    /\ items \in [Actors -> SUBSET Past(now)] /\ \A a \in Actors : OnePerTopic(items[a])
    /\ answered \in SUBSET Past(now) /\ IsFiniteSet(answered)
    /\ disturbed \in BOOLEAN

LEMMA InitShape == Init => Shape
<1> SUFFICES ASSUME Init PROVE Shape
    OBVIOUS
<1>1. file \in [text : Texts, items : SUBSET Past(now)] /\ OnePerTopic(file.items)
    BY DEF Init, Texts, OnePerTopic
<1>2. pc \in [Actors -> Places]
    BY DEF Init, Places
<1>3. items \in [Actors -> SUBSET Past(now)] /\ \A a \in Actors : OnePerTopic(items[a])
    BY DEF Init, OnePerTopic
<1> QED BY <1>1, <1>2, <1>3, FS_EmptySet DEF Init, Shape

LEMMA LoadShape ==
    ASSUME Shape, NEW a \in Actors, Load(a), UNCHANGED <<now, file>>
    PROVE  Shape'
<1>1. load_priority_topics \in SUBSET Past(now) /\ OnePerTopic(load_priority_topics)
    BY DEF Shape, load_priority_topics, OnePerTopic
<1>2. items' \in [Actors -> SUBSET Past(now)] /\ \A b \in Actors : OnePerTopic(items'[b])
    BY <1>1 DEF Shape, Load
<1>3. pc' \in [Actors -> Places]
    BY DEF Shape, Load, Places
<1>4. disturbed' \in BOOLEAN /\ answered' \in {answered, {}}
    BY DEF Shape, Load, Disturb
<1>5. answered' \in SUBSET Past(now) /\ IsFiniteSet(answered')
    BY <1>4, FS_EmptySet DEF Shape
<1> QED BY <1>2, <1>3, <1>4, <1>5 DEF Shape, OnePerTopic

\* A call goes on to save requests of the past, with one per topic.
LEMMA OpenShape ==
    ASSUME Shape, NEW a \in Actors, Open(a), now' \in {now, now + 1},
           NEW reqs \in SUBSET Past(now'), OnePerTopic(reqs),
           items' = [items EXCEPT ![a] = reqs], UNCHANGED <<answered, disturbed>>
    PROVE  Shape'
<1>1. now' \in Nat /\ Past(now) \subseteq Past(now')
    BY PastGrows DEF Shape
<1>2. file' \in [text : Texts, items : SUBSET Past(now')] /\ OnePerTopic(file'.items)
    BY DEF Open, Texts, OnePerTopic
<1>3. pc' \in [Actors -> Places]
    BY DEF Shape, Open, Places
<1>4. items' \in [Actors -> SUBSET Past(now')]
    BY <1>1 DEF Shape
<1>5. \A b \in Actors : OnePerTopic(items'[b])
    BY DEF Shape
<1> QED BY <1>1, <1>2, <1>3, <1>4, <1>5 DEF Shape, OnePerTopic

\* The request that is registered.
New(topic) == [topic |-> topic, at |-> now + 1]

LEMMA StampItems ==
    ASSUME Shape, NEW th \in Actors, NEW topic \in Topics
    PROVE  /\ New(topic) \in Past(now + 1)
           /\ WithRequest(th, New(topic)) \in SUBSET Past(now + 1)
           /\ OnePerTopic(WithRequest(th, New(topic)))
<1>1. New(topic) \in Past(now + 1)
    BY DEF Shape, New, Past
<1>2. WithRequest(th, New(topic)) \in SUBSET Past(now + 1)
    BY <1>1, PastGrows DEF Shape, WithRequest
<1>3. OnePerTopic(WithRequest(th, New(topic)))
    BY DEF Shape, WithRequest, OnePerTopic
<1> QED BY <1>1, <1>2, <1>3

LEMMA StampShape ==
    ASSUME Shape, NEW th \in Threads, NEW topic \in Topics, Stamp(th, topic)
    PROVE  Shape'
<1> DEFINE reqs == prune_priority_topics(WithRequest(th, New(topic)), now + 1)
<1>1. th \in Actors /\ now' = now + 1 /\ Open(th) /\ items' = [items EXCEPT ![th] = reqs]
      /\ UNCHANGED <<answered, disturbed>>
    BY DEF Actors, Stamp, New
<1>2. reqs \in SUBSET Past(now') /\ OnePerTopic(reqs)
    BY <1>1, StampItems, PruneSelects, PruneIsOnePerTopic
<1> HIDE DEF reqs
<1> QED BY <1>1, <1>2, OpenShape

LEMMA PruneShape == ASSUME Shape, Prune PROVE Shape'
<1> DEFINE reqs == prune_priority_topics(items[Worker], now)
<1>1. Worker \in Actors
    BY DEF Actors
<1>2. reqs \in SUBSET Past(now) /\ OnePerTopic(reqs)
    BY <1>1, PruneSelects, PruneIsOnePerTopic DEF Shape
<1>3. now' = now /\ Open(Worker) /\ items' = [items EXCEPT ![Worker] = reqs]
      /\ UNCHANGED <<answered, disturbed>>
    BY DEF Prune
<1> HIDE DEF reqs
<1> QED BY <1>1, <1>2, <1>3, OpenShape

LEMMA ReturnShape ==
    ASSUME Shape, NEW a \in Actors, NEW to \in Places, Return(a, to),
           Written(items[a]) \/ UNCHANGED file \/ file' = [text |-> "no JSON", items |-> {}],
           now' = now, disturbed' \in BOOLEAN, answered' \in SUBSET Past(now), IsFiniteSet(answered')
    PROVE  Shape'
<1>1. file' \in [text : Texts, items : SUBSET Past(now)] /\ OnePerTopic(file'.items)
    <2>1. CASE file' = [text |-> "list", items |-> items[a]]
        BY <2>1 DEF Shape, Texts
    <2>2. CASE file' = [text |-> "no JSON", items |-> {}]
        BY <2>2 DEF Texts, OnePerTopic
    <2>3. CASE UNCHANGED file
        BY <2>3 DEF Shape
    <2> QED BY <2>1, <2>2, <2>3 DEF Written
<1>2. pc' \in [Actors -> Places]
    BY DEF Shape, Return
<1>3. items' \in [Actors -> SUBSET Past(now)] /\ \A b \in Actors : OnePerTopic(items'[b])
    BY DEF Shape, Return, OnePerTopic
<1> QED BY <1>1, <1>2, <1>3 DEF Shape, OnePerTopic

LEMMA TickShape == ASSUME Shape, Tick PROVE Shape'
<1>1. now' \in Nat /\ Past(now) \subseteq Past(now')
    BY PastGrows DEF Shape, Tick
<1>2. UNCHANGED <<file, pc, items, answered, disturbed>>
    BY DEF Tick
<1> QED BY <1>1, <1>2 DEF Shape, OnePerTopic

-----------------------------------------------------------------------------
(* While nothing disturbs the file.                                        *)

Busy(a) == pc[a] \in {"loaded", "saving"}

\* One call at a time works on the file: it holds what it has read, the file is a list
\* unless it is being written, and everything stored has been asked for.
Quiet ==
    /\ \A a, b \in Actors : Busy(a) /\ Busy(b) => a = b
    /\ \A a \in Actors : pc[a] = "loaded" => items[a] = file.items
    /\ (\A a \in Actors : pc[a] # "saving") => file.text = "list"
    /\ \A a \in Actors : pc[a] = "saving" => file = [text |-> "nothing", items |-> {}]
    /\ \A th \in Threads : pc[th] = "saving" => RequestOf(th) \in items[th]
    /\ Stored \subseteq Stamped
    /\ AnswersSurvive

LEMMA StampedFinite ==
    ASSUME Shape, Quiet
    PROVE  IsFiniteSet(Stamped) /\ Stamped \in SUBSET Past(now)
<1> DEFINE saving == {RequestOf(th) : th \in Saving \cap Threads}
<1>1. CASE saving = {}
    <2>1. Stamped = answered
        BY <1>1 DEF Stamped
    <2> QED BY <2>1 DEF Shape
<1>2. CASE saving # {}
    <2>1. PICK th \in Threads : th \in Saving
        BY <1>2
    <2>2. Saving \cap Threads = {th} /\ th \in Actors /\ pc[th] = "saving"
        BY <2>1 DEF Saving, Quiet, Busy, Actors
    <2>3. Stamped = answered \cup {RequestOf(th)}
        BY <2>2 DEF Stamped
    <2>4. RequestOf(th) \in Past(now)
        BY <2>2 DEF Quiet, Shape
    <2> QED BY <2>3, <2>4, FS_AddElement DEF Shape
<1> QED BY <1>1, <1>2

\* What is due stays due for a longer list of requests, and at a later time, only if it
\* was due before.
LEMMA DueBefore ==
    ASSUME Shape, Quiet, Stamped \subseteq Stamped', IsFiniteSet(Stamped'),
           now' \in Nat, now <= now', NEW r \in Past(now), Due(r)'
    PROVE  Due(r)
<1> DEFINE newer == {other.topic : other \in {o \in Stamped : o.at > r.at}}
           later == {o \in Stamped' : o.at > r.at}
           latest == {other.topic : other \in later}
<1>1. r.at \in Int /\ Ttl \in Int /\ now \in Int /\ MaxTopics \in Int
    BY BoundsAssumption DEF Shape, Past
<1>2. r.at >= now' - Ttl /\ r.topic \notin latest /\ Cardinality(latest) < MaxTopics
    BY DEF Due
<1>3. newer \subseteq latest
    OBVIOUS
<1>4. IsFiniteSet(latest) /\ Cardinality(latest) \in Nat
    <2>1. IsFiniteSet(later)
        <3>1. later \subseteq Stamped'
            OBVIOUS
        <3> QED BY <3>1, FS_Subset
    <2>2. [o \in later |-> o.topic] \in Surjection(later, latest)
        BY DEF Surjection
    <2>3. IsFiniteSet(latest)
        BY <2>1, <2>2, FS_Surjection
    <2> QED BY <2>3, FS_CardinalityType
<1>5. IsFiniteSet(newer) /\ Cardinality(newer) <= Cardinality(latest)
    <2> HIDE DEF newer, latest
    <2> QED BY <1>3, <1>4, FS_Subset
<1>6. Cardinality(newer) \in Nat
    <2> HIDE DEF newer
    <2> QED BY <1>5, FS_CardinalityType
<1>7. Cardinality(newer) < MaxTopics
    <2> HIDE DEF newer, latest
    <2> QED BY <1>1, <1>2, <1>4, <1>5, <1>6
<1>8. r.at >= now - Ttl
    BY <1>1, <1>2
<1> QED BY <1>2, <1>3, <1>7, <1>8 DEF Due

\* The newest of a set is the one that is newer than all others.
LEMMA NewestIsChosen ==
    ASSUME NEW reqs, NEW r \in reqs, r.at \in Int,
           \A o \in reqs \ {r} : o.at \in Int /\ o.at < r.at
    PROVE  (CHOOSE x \in reqs : \A o \in reqs : o.at <= x.at) = r
<1> DEFINE IsNewest(x) == \A o \in reqs : o.at <= x.at
           newest == CHOOSE x \in reqs : IsNewest(x)
<1>1. IsNewest(r)
    OBVIOUS
<1>2. newest \in reqs /\ IsNewest(newest)
    BY <1>1
<1>3. r.at <= newest.at
    BY <1>2
<1>4. newest \notin reqs \ {r}
    BY <1>3
<1> QED BY <1>2, <1>4

-----------------------------------------------------------------------------
(* The steps that leave the file undisturbed.                              *)

\* Steps that neither stamp, write nor read: only time may pass.
LEMMA QuietKept ==
    ASSUME Shape, Quiet, UNCHANGED <<file, pc, items, answered>>, now' \in {now, now + 1}
    PROVE  Quiet'
<1>1. Stamped' = Stamped /\ Stored' = Stored
    BY DEF Stamped, Stored, Saving, RequestOf
<1>2. now' \in Nat /\ now <= now'
    BY DEF Shape
<1>3. AnswersSurvive'
    <2> SUFFICES ASSUME NEW r \in answered, Due(r)'
                 PROVE  r \in Stored
        BY <1>1 DEF AnswersSurvive
    <2>1. r \in Past(now)
        BY DEF Shape
    <2>2. Due(r)
        BY <1>1, <1>2, <2>1, StampedFinite, DueBefore
    <2> QED BY <2>2 DEF Quiet, AnswersSurvive
<1> QED BY <1>1, <1>3 DEF Quiet, Busy, RequestOf

\* A call reads the file while no other works on it.
LEMMA LoadQuiet ==
    ASSUME Shape, Quiet, NEW a \in Actors, ~Busy(a), Load(a), ~disturbed', UNCHANGED <<now, file>>
    PROVE  Quiet'
<1>1. \A b \in Actors : pc[b] \notin {"loaded", "saving"}
    BY DEF Load, Disturb
<1>2. file.text = "list" /\ load_priority_topics = file.items
    BY <1>1 DEF Quiet, load_priority_topics
<1>3. pc' = [pc EXCEPT ![a] = "loaded"] /\ items' = [items EXCEPT ![a] = file.items]
      /\ answered' = answered
    BY <1>2 DEF Load, Disturb
<1>4. \A b \in Actors : pc'[b] # "saving" /\ (Busy(b)' => b = a)
    BY <1>1, <1>3 DEF Shape, Busy
<1>5. Saving = {} /\ Saving' = {}
    BY <1>1, <1>4 DEF Saving
<1>6. Stored' = Stored /\ Stamped' = Stamped
    BY <1>3, <1>5 DEF Stored, Stamped
<1>7. AnswersSurvive'
    BY <1>3, <1>6 DEF Quiet, AnswersSurvive, Due
<1>8. \A b \in Actors : pc'[b] = "loaded" => items'[b] = file'.items
    BY <1>1, <1>3 DEF Shape
<1>9. \A th \in Threads : pc'[th] # "saving"
    BY <1>4 DEF Actors
<1> QED BY <1>2, <1>4, <1>6, <1>7, <1>8, <1>9 DEF Quiet

\* What holds of a call before it writes, and when it writes.
LEMMA OpenAlone ==
    ASSUME Shape, Quiet, NEW a \in Actors, Open(a), NEW reqs,
           items' = [items EXCEPT ![a] = reqs]
    PROVE  /\ items[a] = file.items /\ Stored = file.items /\ Stamped = answered
           /\ Saving' = {a} /\ Stored' = reqs
           /\ \A b \in Actors : Busy(b)' => b = a
<1>1. \A b \in Actors : Busy(b) => b = a
    BY DEF Quiet, Open, Busy
<1>2. \A b \in Actors : pc[b] # "saving"
    BY <1>1 DEF Open, Busy
<1>3. Saving = {}
    BY <1>2 DEF Saving
<1>4. Stored = file.items /\ Stamped = answered
    <2>1. UNION {items[b] : b \in Saving} = {}
        BY <1>3
    <2>2. {RequestOf(th) : th \in Saving \cap Threads} = {}
        BY <1>3
    <2> QED BY <2>1, <2>2 DEF Stored, Stamped
<1>5. pc'[a] = "saving" /\ \A b \in Actors : Busy(b)' => b = a
    BY <1>1 DEF Shape, Open, Busy
<1>6. Saving' = {a}
    BY <1>5 DEF Saving, Busy
<1>7. Stored' = reqs
    <2>1. items'[a] = reqs /\ file'.items = {}
        BY DEF Shape, Open
    <2> QED BY <1>6, <2>1 DEF Stored
<1> QED BY <1>4, <1>5, <1>6, <1>7 DEF Quiet, Open

LEMMA OpenQuiet ==
    ASSUME Shape, Quiet, NEW a \in Actors, Open(a), NEW reqs,
           items' = [items EXCEPT ![a] = reqs], reqs \subseteq Stamped',
           a \in Threads => RequestOf(a)' \in reqs, AnswersSurvive'
    PROVE  Quiet'
<1>1. Saving' = {a} /\ Stored' = reqs /\ \A b \in Actors : Busy(b)' => b = a
    BY OpenAlone
<1>2. pc'[a] = "saving" /\ file' = [text |-> "nothing", items |-> {}] /\ items'[a] = reqs
    BY DEF Open, Shape
<1>3. \A b \in Actors : pc'[b] # "loaded"
    BY <1>1, <1>2 DEF Busy
<1>4. \A th \in Threads : pc'[th] = "saving" => th = a
    BY <1>1 DEF Actors, Saving
<1> QED BY <1>1, <1>2, <1>3, <1>4 DEF Quiet

LEMMA PruneQuiet == ASSUME Shape, Quiet, Prune PROVE Quiet'
<1> DEFINE reqs == prune_priority_topics(items[Worker], now)
<1>1. Worker \in Actors /\ Worker \notin Threads
    BY ActorsAssumption DEF Actors
<1>2. Open(Worker) /\ items' = [items EXCEPT ![Worker] = reqs] /\ now' = now
      /\ answered' = answered
    BY DEF Prune
<1>3. items[Worker] = Stored /\ Stamped = answered /\ Saving' = {Worker} /\ Stored' = reqs
    <2> HIDE DEF reqs
    <2> QED BY <1>1, <1>2, OpenAlone
<1>4. Stamped' = Stamped
    <2>1. (Saving \cap Threads)' = {}
        BY <1>1, <1>3
    <2> QED BY <1>2, <1>3, <2>1 DEF Stamped
<1>5. reqs \subseteq Stamped'
    BY <1>3, <1>4, PruneSelects DEF Quiet
<1>6. AnswersSurvive'
    <2> SUFFICES ASSUME NEW r \in answered, Due(r)'
                 PROVE  r \in reqs
        BY <1>2, <1>3 DEF AnswersSurvive
    <2>1. Due(r)
        BY <1>2, <1>4 DEF Due
    <2>2. r \in items[Worker]
        BY <1>3, <2>1 DEF Quiet, AnswersSurvive
    <2>3. IsFiniteSet(Stamped) /\ Stamped \in SUBSET Past(now) /\ now \in Nat
        BY StampedFinite DEF Shape
    <2>4. items[Worker] \in SUBSET Stamped /\ OnePerTopic(items[Worker])
        BY <1>1, <1>3 DEF Quiet, Shape
    <2>5. r.at >= now - Ttl
          /\ Cardinality({o.topic : o \in {s \in Stamped : s.at > r.at}}) < MaxTopics
        BY <2>1 DEF Due
    <2> QED BY <2>2, <2>3, <2>4, <2>5, PruneKeeps
<1> HIDE DEF reqs
<1> QED BY <1>1, <1>2, <1>5, <1>6, OpenQuiet

LEMMA StampQuiet ==
    ASSUME Shape, Quiet, NEW th \in Threads, NEW topic \in Topics, Stamp(th, topic)
    PROVE  Quiet'
<1> DEFINE new == New(topic)
           asked == WithRequest(th, new)
           stamped == answered \cup {new}
           reqs == prune_priority_topics(asked, now + 1)
<1>1. th \in Actors /\ Open(th) /\ now' = now + 1 /\ items' = [items EXCEPT ![th] = reqs]
      /\ answered' = answered
    BY DEF Actors, Stamp, New
<1>2. items[th] = Stored /\ Stamped = answered /\ Saving' = {th} /\ Stored' = reqs
    <2> HIDE DEF reqs
    <2> QED BY <1>1, OpenAlone
<1>3. now \in Nat /\ now + 1 \in Nat /\ new.at = now + 1 /\ new.topic = topic /\ Ttl \in Nat
    BY BoundsAssumption DEF Shape, New
<1>4. new \in Past(now + 1) /\ asked \in SUBSET Past(now + 1) /\ OnePerTopic(asked)
    BY <1>1, StampItems
<1>5. asked \subseteq stamped
    BY <1>2 DEF Quiet, WithRequest
<1>6. IsFiniteSet(stamped) /\ stamped \in SUBSET Past(now + 1)
    BY <1>3, <1>4, FS_AddElement, PastGrows DEF Shape
<1>7. \A o \in stamped \ {new} : o.at \in Int /\ o.at < new.at
    BY <1>3 DEF Shape, Past
<1>8. new \in reqs
    <2>1. new \in asked
        BY DEF WithRequest
    <2>2. {o.topic : o \in {s \in stamped : s.at > new.at}} = {}
        BY <1>3, <1>7
    <2>3. Cardinality({o.topic : o \in {s \in stamped : s.at > new.at}}) < MaxTopics
        BY <2>2, FS_EmptySet, BoundsAssumption
    <2>4. new.at >= now + 1 - Ttl
        BY <1>3
    <2> HIDE DEF new, asked, stamped
    <2> QED BY <1>3, <1>4, <1>5, <1>6, <2>1, <2>3, <2>4, PruneKeeps
<1>9. reqs \subseteq asked
    BY PruneSelects
<1>10. RequestOf(th)' = new
    <2>1. items'[th] = reqs
        BY <1>1 DEF Shape
    <2>2. \A o \in reqs \ {new} : o.at \in Int /\ o.at < new.at
        BY <1>5, <1>7, <1>9
    <2>3. new.at \in Int
        BY <1>3
    <2> HIDE DEF new, reqs
    <2>4. (CHOOSE x \in reqs : \A o \in reqs : o.at <= x.at) = new
        BY <1>8, <2>2, <2>3, NewestIsChosen
    <2> QED BY <2>1, <2>4 DEF RequestOf
<1>11. Stamped' = stamped
    <2>1. (Saving \cap Threads)' = {th}
        BY <1>2
    <2> HIDE DEF new
    <2> QED BY <1>1, <1>10, <2>1 DEF Stamped
<1>12. AnswersSurvive'
    <2> SUFFICES ASSUME NEW r \in answered, Due(r)'
                 PROVE  r \in reqs
        BY <1>1, <1>2 DEF AnswersSurvive
    <2>1. Due(r)
        <3>1. r \in Past(now) /\ Stamped \subseteq Stamped' /\ IsFiniteSet(Stamped')
            BY <1>2, <1>6, <1>11 DEF Shape
        <3>2. now' \in Nat /\ now <= now'
            BY <1>1, <1>3
        <3> QED BY <3>1, <3>2, DueBefore
    <2>2. r \in items[th]
        BY <1>2, <2>1 DEF Quiet, AnswersSurvive
    <2>3. /\ r.at >= now + 1 - Ttl
          /\ r.topic \notin {o.topic : o \in {s \in stamped : s.at > r.at}}
          /\ Cardinality({o.topic : o \in {s \in stamped : s.at > r.at}}) < MaxTopics
        <3>1. /\ r.at >= now' - Ttl
              /\ r.topic \notin {o.topic : o \in {s \in Stamped' : s.at > r.at}}
              /\ Cardinality({o.topic : o \in {s \in Stamped' : s.at > r.at}}) < MaxTopics
            BY DEF Due
        <3>2. r.at >= now + 1 - Ttl
            <4>1. now' = now + 1
                BY <1>1
            <4>2. r.at \in Int
                BY DEF Shape, Past
            <4> QED BY <1>3, <3>1, <4>1, <4>2
        <3> HIDE DEF stamped
        <3>3. {o.topic : o \in {s \in Stamped' : s.at > r.at}}
                = {o.topic : o \in {s \in stamped : s.at > r.at}}
            BY <1>11
        <3> QED BY <3>1, <3>2, <3>3
    <2>4. r.at < new.at
        BY <1>3 DEF Shape, Past
    <2>5. r.topic # topic
        BY <1>3, <2>3, <2>4
    <2>6. r \in asked
        BY <1>3, <2>2, <2>5 DEF WithRequest
    <2> HIDE DEF new, asked, stamped
    <2> QED BY <1>3, <1>4, <1>5, <1>6, <2>3, <2>6, PruneKeeps
<1>13. reqs \subseteq Stamped' /\ RequestOf(th)' \in reqs
    BY <1>5, <1>8, <1>9, <1>10, <1>11
<1> HIDE DEF reqs
<1> QED BY <1>1, <1>12, <1>13, OpenQuiet

\* A call writes the file alone.
LEMMA ReturnQuiet ==
    ASSUME Shape, Quiet, NEW a \in Actors, pc[a] = "saving", NEW to \in {"idle", "down"},
           Written(items[a]), Return(a, to), now' = now,
           answered' = IF a \in Threads THEN answered \cup {RequestOf(a)} ELSE answered
    PROVE  Quiet' /\ answered' = Stamped
<1>1. \A b \in Actors : Busy(b) => b = a
    BY DEF Quiet, Busy
<1>2. Saving = {a}
    BY <1>1 DEF Saving, Busy
<1>3. file = [text |-> "nothing", items |-> {}]
    BY DEF Quiet
<1>4. file' = [text |-> "list", items |-> items[a]]
    BY <1>3 DEF Written
<1>5. \A b \in Actors : pc'[b] \notin {"loaded", "saving"}
    BY <1>1 DEF Shape, Return, Busy
<1>6. Saving' = {}
    BY <1>5 DEF Saving
<1>7. Stored = items[a] /\ Stored' = items[a]
    <2>1. UNION {items[b] : b \in Saving} = items[a]
        BY <1>2
    <2>2. (UNION {items[b] : b \in Saving})' = {}
        BY <1>6
    <2> QED BY <1>3, <1>4, <2>1, <2>2 DEF Stored
<1>8. answered' = Stamped /\ Stamped' = Stamped
    <2>1. {RequestOf(th) : th \in Saving \cap Threads}
            = IF a \in Threads THEN {RequestOf(a)} ELSE {}
        BY <1>2
    <2>2. {RequestOf(th) : th \in Saving \cap Threads}' = {}
        BY <1>6
    <2> QED BY <2>1, <2>2 DEF Stamped
<1>9. AnswersSurvive'
    <2> SUFFICES ASSUME NEW r \in answered', Due(r)'
                 PROVE  r \in items[a]
        BY <1>7 DEF AnswersSurvive
    <2>1. CASE r \in answered
        <3>1. Due(r)
            BY <1>8 DEF Due
        <3> QED BY <1>7, <2>1, <3>1 DEF Quiet, AnswersSurvive
    <2>2. CASE r \notin answered
        BY <2>2 DEF Quiet
    <2> QED BY <2>1, <2>2
<1>10. file'.text = "list"
    BY <1>4
<1>11. \A th \in Threads : pc'[th] # "saving"
    BY <1>5 DEF Actors
<1> QED BY <1>5, <1>7, <1>8, <1>9, <1>10, <1>11 DEF Quiet, Busy

-----------------------------------------------------------------------------
(* The invariant.                                                          *)

Inv ==
    /\ Shape
    /\ disturbed => answered = {}
    /\ ~disturbed => Quiet

LEMMA InitInv == Init => Inv
<1> SUFFICES ASSUME Init PROVE Quiet
    BY InitShape DEF Init, Inv
<1>1. \A a \in Actors : pc[a] \in {"down", "idle"} /\ items[a] = {}
    BY DEF Init
<1>2. Stored = {}
    <2>1. Saving = {} /\ file.items = {}
        BY <1>1 DEF Init, Saving
    <2>2. UNION {items[b] : b \in Saving} = {}
        BY <2>1
    <2> QED BY <2>1, <2>2 DEF Stored
<1>3. AnswersSurvive
    BY DEF Init, AnswersSurvive
<1>4. \A th \in Threads : pc[th] # "saving"
    BY <1>1 DEF Actors
<1> QED BY <1>1, <1>2, <1>3, <1>4 DEF Init, Quiet, Busy

LEMMA LoadInv ==
    ASSUME Inv, NEW a \in Actors, ~Busy(a), Load(a), UNCHANGED <<now, file>>
    PROVE  Inv'
<1>1. Shape'
    BY LoadShape DEF Inv
<1>2. disturbed \in BOOLEAN /\ (disturbed => disturbed') /\ (disturbed' => answered' = {})
    BY DEF Inv, Shape, Load, Disturb
<1>3. ~disturbed' => Quiet'
    BY <1>2, LoadQuiet DEF Inv
<1> QED BY <1>1, <1>2, <1>3 DEF Inv

LEMMA AnswerInv == ASSUME Inv, NEW th \in Threads, Answer(th) PROVE Inv'
<1>1. th \in Actors /\ "idle" \in Places /\ UNCHANGED <<now, disturbed>> /\ Return(th, "idle")
      /\ pc[th] = "saving" /\ Written(items[th])
    BY DEF Actors, Places, Answer
<1>2. CASE disturbed
    <2>1. answered' = {}
        BY <1>2 DEF Answer
    <2>2. Shape'
        BY <1>1, <2>1, ReturnShape, FS_EmptySet DEF Inv, Shape
    <2> QED BY <1>1, <1>2, <2>1, <2>2 DEF Inv
<1>3. CASE ~disturbed
    <2>1. answered' = answered \cup {RequestOf(th)}
        BY <1>3 DEF Answer
    <2>2. Shape /\ Quiet
        BY <1>3 DEF Inv
    <2>3. Quiet' /\ answered' = Stamped
        BY <1>1, <2>1, <2>2, ReturnQuiet
    <2>4. answered' \in SUBSET Past(now) /\ IsFiniteSet(answered')
        BY <2>2, <2>3, StampedFinite
    <2>5. Shape'
        BY <1>1, <2>2, <2>4, ReturnShape DEF Shape
    <2> QED BY <1>1, <1>3, <2>3, <2>5 DEF Inv
<1> QED BY <1>2, <1>3

LEMMA SearchInv == ASSUME Inv, Search PROVE Inv'
<1>1. Worker \in Actors /\ Worker \notin Threads /\ "idle" \in Places
    BY ActorsAssumption DEF Actors, Places
<1>2. Return(Worker, "idle") /\ Written(items[Worker]) /\ pc[Worker] = "saving"
      /\ UNCHANGED <<now, answered, disturbed>>
    BY DEF Search
<1>3. Shape'
    BY <1>1, <1>2, ReturnShape DEF Inv, Shape
<1>4. ~disturbed => Quiet'
    BY <1>1, <1>2, ReturnQuiet DEF Inv
<1> QED BY <1>2, <1>3, <1>4 DEF Inv

LEMMA SaveFailsInv == ASSUME Inv, NEW a \in Actors, SaveFails(a) PROVE Inv'
<1> DEFINE to == IF a = Worker THEN "down" ELSE "idle"
<1>1. to \in Places /\ Return(a, to) /\ now' = now /\ disturbed' = TRUE /\ answered' = {}
    BY DEF SaveFails, Disturb, Places
<1>2. UNCHANGED file \/ file' = [text |-> "no JSON", items |-> {}]
    BY DEF SaveFails
<1> HIDE DEF to
<1>3. Shape'
    BY <1>1, <1>2, ReturnShape, FS_EmptySet DEF Inv
<1> QED BY <1>1, <1>3 DEF Inv

LEMMA InvStep == ASSUME Inv, [Next]_vars PROVE Inv'
<1>1. ASSUME Shape', answered' = answered, disturbed' = disturbed, Shape /\ Quiet => Quiet'
      PROVE  Inv'
    BY <1>1 DEF Inv
<1>2. CASE UNCHANGED vars
    <2>1. UNCHANGED <<now, file, pc, items, answered, disturbed>>
        BY <1>2 DEF vars
    <2>2. Shape'
        BY <2>1 DEF Inv, Shape, OnePerTopic
    <2> QED BY <1>1, <2>1, <2>2, QuietKept
<1>3. ASSUME NEW th \in Threads, NEW topic \in Topics, Stamp(th, topic)
      PROVE  Inv'
    BY <1>1, <1>3, StampShape, StampQuiet DEF Inv, Stamp
<1>4. ASSUME NEW th \in Threads, Answer(th)
      PROVE  Inv'
    BY <1>4, AnswerInv
<1>5. ASSUME NEW th \in Threads, Register(th)
      PROVE  Inv'
    BY <1>5, LoadInv DEF Register, Busy, Actors
<1>6. CASE Poll \/ Start
    BY <1>6, LoadInv DEF Poll, Start, Busy, Actors
<1>7. CASE Prune
    BY <1>1, <1>7, PruneShape, PruneQuiet DEF Inv, Prune
<1>8. CASE Search
    BY <1>8, SearchInv
<1>9. CASE Tick
    BY <1>1, <1>9, TickShape, QuietKept DEF Inv, Tick
<1>10. ASSUME NEW a \in Actors, SaveFails(a)
      PROVE  Inv'
    BY <1>10, SaveFailsInv
<1> QED BY <1>2, <1>3, <1>4, <1>5, <1>6, <1>7, <1>8, <1>9, <1>10 DEF Next, Working, Thread

LEMMA InvHolds == Spec => []Inv
    BY InitInv, InvStep, PTL DEF Spec

\* Whoever reads, changes and writes the file at once, nobody writes two requests of one
\* topic, and everything keeps its shape.
THEOREM TypeCorrect == Spec => []TypeOK
<1>1. ASSUME Inv PROVE TypeOK
    <2>1. Past(now) \subseteq [topic : Topics, at : Nat]
        BY <1>1 DEF Inv, Shape, Past
    <2> QED BY <1>1, <2>1 DEF Inv, Shape, TypeOK, Texts, Places
<1> QED BY <1>1, InvHolds, PTL

\* For any number of threads and topics, and any limits: while nothing has disturbed the
\* file, no topic whose registration was answered is lost before it expires, is renewed,
\* or gives way to PRIORITY_MAX_TOPICS newer ones.
THEOREM NoAnswerIsLost == Spec => []AnswersSurvive
<1>1. Inv => AnswersSurvive
    BY DEF Inv, Quiet, AnswersSurvive
<1> QED BY <1>1, InvHolds, PTL

\* Whatever overlaps or fails, the worker prunes to requests of the past that have not
\* expired before it searches.
THEOREM SearchIsRecent == Spec => ActiveIsRecent
<1>1. ASSUME Inv, [Next]_vars
      PROVE  [pc[Worker] = "loaded" /\ pc'[Worker] = "saving" =>
                 \A r \in items'[Worker] : r.at >= now - Ttl /\ r.at \in 1..now]_vars
    <2> SUFFICES ASSUME Next, pc[Worker] = "loaded", pc'[Worker] = "saving",
                        NEW r \in items'[Worker]
                 PROVE  r.at >= now - Ttl /\ r.at \in 1..now
        BY <1>1
    <2>1. Prune
        <3>1. Worker \notin Threads /\ Worker \in Actors
            BY ActorsAssumption DEF Actors
        <3>2. ASSUME NEW a \in Actors, NEW v, pc' = [pc EXCEPT ![a] = v]
              PROVE  a = Worker /\ v = "saving"
            BY <1>1, <3>1, <3>2 DEF Inv, Shape
        <3>3. ASSUME NEW th \in Threads, Thread(th) \/ Register(th)
              PROVE  FALSE
            <4>1. PICK v : pc' = [pc EXCEPT ![th] = v]
                BY <3>3 DEF Thread, Answer, Return, Stamp, Open, Register, Load
            <4> QED BY <3>1, <3>2, <4>1 DEF Actors
        <3>4. ~Poll /\ ~Search /\ ~Start /\ ~Tick
            BY DEF Poll, Search, Start, Tick
        <3>5. ASSUME NEW a \in Actors, SaveFails(a)
              PROVE  FALSE
            <4>1. PICK v \in {"down", "idle"} : pc' = [pc EXCEPT ![a] = v]
                BY <3>5 DEF SaveFails, Return
            <4> QED BY <3>2, <4>1
        <3> QED BY <3>3, <3>4, <3>5 DEF Next, Working
    <2>2. r \in prune_priority_topics(items[Worker], now)
        BY <1>1, <2>1 DEF Prune, Inv, Shape, Actors
    <2>3. r \in items[Worker] /\ r.at >= now - Ttl
        BY <2>2, PruneSelects
    <2>4. r \in Past(now)
        BY <1>1, <2>3 DEF Inv, Shape, Actors
    <2> QED BY <2>3, <2>4 DEF Past
<1> QED BY <1>1, InvHolds, PTL DEF Spec, ActiveIsRecent
=============================================================================

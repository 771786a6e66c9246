----------------------- MODULE IngestionProducerProofs -----------------------
(***************************************************************************)
(* Proofs about IngestionProducer for every set of queries, every limit of *)
(* a poll and of the list of known ids, and every bound.                   *)
(***************************************************************************)
EXTENDS IngestionProducer, FiniteSetTheorems, TLAPS

-----------------------------------------------------------------------------
(* The inductive invariant.                                                *)

Running == pc \notin {"down", "exit"}

\* On its way to raw_ingestion, there, or given up.
Known(s, id) == Settled(s, id) \/ <<s, id>> \in ToSet(buffer)

\* What is fetched is an article of the source being worked on.
TodoInv ==
    /\ pc = "ttrss" => todo \subseteq 1..MaxArticles
    /\ pc = "search" => todo \subseteq 1..MaxPosts

\* Only the list of the query being searched may be longer than allowed.
LengthInv ==
    Running => \A q \in Queries :
        Len(bluesky_state[q]) <= MaxIds \/ (pc = "search" /\ q = query)

PostsInv == Running => \A q \in Queries : \A id \in ToSet(bluesky_state[q]) : Known(q, id)

HeadInv == Running => \A id \in 1..last_seen_id : Settled(Rss, id) \/ id \in passed_over

\* Articles are published in the order of their ids.
ArticlesInv ==
    /\ pc = "ttrss" =>
         \A top \in todo \cup {new_max_id} : \A id \in 1..top :
            id \in todo \/ Known(Rss, id) \/ id \in passed_over
    /\ pc \in {"bluesky", "search"} =>
         \A id \in 1..new_max_id : Known(Rss, id) \/ id \in passed_over

SavingInv == pc \in {"save", "save_bluesky"} => buffer = <<>>

IInv ==
    /\ TypeOK /\ TodoInv /\ LengthInv
    /\ PostsInv /\ HeadInv /\ ArticlesInv /\ SavingInv
    /\ SavedIsDelivered

-----------------------------------------------------------------------------
(* Sequences.                                                              *)

\* A list of ids holds ids.
LEMMA ListedIds ==
    ASSUME NEW S, NEW q \in Seq(S), NEW x \in ToSet(q)
    PROVE  x \in S
BY DEF ToSet

\* Publishing adds one article to the buffer.
LEMMA AppendedSet ==
    ASSUME NEW S, NEW q \in Seq(S), NEW x \in S
    PROVE  Append(q, x) \in Seq(S) /\ ToSet(Append(q, x)) = ToSet(q) \cup {x}
<1>1. Append(q, x) \in Seq(S) /\ Len(Append(q, x)) = Len(q) + 1
  OBVIOUS
<1>2. \A i \in 1..Len(q) : Append(q, x)[i] = q[i]
  OBVIOUS
<1>3. Append(q, x)[Len(q) + 1] = x
  OBVIOUS
<1>4. ToSet(Append(q, x)) \subseteq ToSet(q) \cup {x}
  BY <1>1, <1>2, <1>3 DEF ToSet
<1>5. ToSet(q) \cup {x} \subseteq ToSet(Append(q, x))
  <2>1. \A i \in 1..Len(q) : i \in 1..Len(Append(q, x))
    BY <1>1
  <2>2. ToSet(q) \subseteq ToSet(Append(q, x))
    BY <1>1, <1>2, <2>1 DEF ToSet
  <2>3. x \in ToSet(Append(q, x))
    BY <1>1, <1>3 DEF ToSet
  <2>4. QED
    BY <2>2, <2>3
<1>6. QED
  BY <1>1, <1>4, <1>5

\* What a list holds somewhere it holds.
LEMMA ElementInSet ==
    ASSUME NEW S, NEW q \in Seq(S), NEW i \in 1..Len(q)
    PROVE  q[i] \in ToSet(q)
BY DEF ToSet

\* Delivering takes nothing out of the buffer but its head.
LEMMA TailSet ==
    ASSUME NEW S, NEW q \in Seq(S), q # <<>>
    PROVE  /\ Head(q) \in S /\ Tail(q) \in Seq(S)
           /\ \A x \in ToSet(q) : x = Head(q) \/ x \in ToSet(Tail(q))
<1>1. Head(q) \in S /\ Tail(q) \in Seq(S) /\ Len(Tail(q)) = Len(q) - 1
  OBVIOUS
<1>2. ASSUME NEW i \in 1..Len(q)
      PROVE  q[i] = Head(q) \/ q[i] \in ToSet(Tail(q))
  <2>1. CASE i = 1
    BY <2>1
  <2>2. CASE i # 1
    <3>1. i - 1 \in 1..Len(Tail(q)) /\ Tail(q)[i - 1] = q[i]
      BY <1>1, <2>2
    <3>2. QED
      BY <1>1, <3>1, ElementInSet
  <2>3. QED
    BY <2>1, <2>2
<1>3. \A x \in ToSet(q) : x = Head(q) \/ x \in ToSet(Tail(q))
  BY <1>2 DEF ToSet
<1>4. QED
  BY <1>1, <1>3

\* Cutting a list of ids leaves at most MaxIds of them.
LEMMA LastIdsSet ==
    ASSUME NEW S, NEW ids \in Seq(S)
    PROVE  /\ LastIds(ids) \in Seq(S) /\ Len(LastIds(ids)) <= MaxIds
           /\ ToSet(LastIds(ids)) \subseteq ToSet(ids)
<1>1. MaxIds \in Nat \ {0}
  BY BoundsAssumption
<1>2. CASE Len(ids) > MaxIds
  <2> DEFINE from == Len(ids) - MaxIds + 1
  <2>1. from \in 1..Len(ids)
    BY <1>1, <1>2
  <2>2. LastIds(ids) = SubSeq(ids, from, Len(ids))
    BY <1>2 DEF LastIds
  <2> HIDE DEF from
  <2>3. /\ SubSeq(ids, from, Len(ids)) \in Seq(S)
        /\ Len(SubSeq(ids, from, Len(ids))) = Len(ids) - from + 1
        /\ \A i \in 1..(Len(ids) - from + 1) :
             SubSeq(ids, from, Len(ids))[i] = ids[from + i - 1]
    BY <2>1
  <2>4. \A i \in 1..(Len(ids) - from + 1) : from + i - 1 \in 1..Len(ids)
    BY <2>1
  <2>5. ToSet(LastIds(ids)) \subseteq ToSet(ids)
    BY <2>2, <2>3, <2>4 DEF ToSet
  <2>6. Len(ids) - from + 1 = MaxIds
    BY <1>1, <2>1 DEF from
  <2>7. QED
    BY <1>1, <2>2, <2>3, <2>5, <2>6
<1>3. CASE ~(Len(ids) > MaxIds)
  <2>1. LastIds(ids) = ids
    BY <1>3 DEF LastIds
  <2>2. Len(ids) <= MaxIds
    BY <1>1, <1>3
  <2>3. QED
    BY <2>1, <2>2
<1>4. QED
  BY <1>2, <1>3


-----------------------------------------------------------------------------
(* Type correctness.                                                       *)

\* The limits are numbers.
LEMMA Limits ==
    /\ TtrssLimit \in Nat \ {0} /\ BlueskyLimit \in Nat \ {0} /\ MaxIds \in Nat \ {0}
    /\ MaxArticles \in Nat /\ MaxPosts \in Nat /\ MaxFaults \in Nat /\ MaxCrashes \in Nat
BY BoundsAssumption

\* The articles of TT-RSS and the posts of a query.
LEMMA ArticleIds ==
    /\ \A id \in 1..MaxArticles : <<Rss, id>> \in Articles
    /\ \A q \in Queries : \A id \in 1..MaxPosts : <<q, id>> \in Articles
    /\ MaxId(Rss) = MaxArticles /\ \A q \in Queries : MaxId(q) = MaxPosts
BY SourcesAssumption DEF Articles, Sources, MaxId

\* An answer holds ids the source has.
LEMMA AnswerIds ==
    ASSUME TypeOK, NEW s \in Sources, NEW n
    PROVE  Newest(s, n) \subseteq 1..MaxId(s)
<1>1. offered[s] \in Nat /\ offered[s] <= MaxId(s) /\ MaxId(s) \in Nat
  BY Limits, ArticleIds DEF TypeOK, Sources
<1>2. QED
  BY <1>1 DEF Newest

\* An ended worker without files has the types.
LEMMA TypeInit ==
    ASSUME Init
    PROVE  TypeOK
<1>1. MaxId(Rss) \in Nat /\ \A q \in Queries : MaxId(q) \in Nat
  BY Limits, ArticleIds
<1>2. /\ offered \in [Sources -> Nat] /\ \A s \in Sources : offered[s] <= MaxId(s)
  BY <1>1 DEF Init, Sources
<1>3. delivered \in [Articles -> Nat] /\ buffer \in Seq(Articles)
  BY DEF Init
<1>4. NoIds \in [Queries -> Seq(1..MaxPosts)] /\ \A q \in Queries : Len(NoIds[q]) = 0
  BY DEF NoIds
<1>5. /\ {bluesky_state, bluesky_file} \subseteq [Queries -> Seq(1..MaxPosts)]
      /\ \A q \in Queries : Len(bluesky_file[q]) <= MaxIds
  BY <1>4, Limits DEF Init
<1>6. query \in Sources /\ (pc = "search" => query \in Queries)
  BY DEF Init, Sources
<1>7. /\ {last_seen_id, new_max_id, state_file} \subseteq 0..MaxArticles
      /\ faults \in 0..MaxFaults /\ crashes \in 0..MaxCrashes
  BY Limits DEF Init
<1>8. QED
  BY <1>2, <1>3, <1>5, <1>6, <1>7 DEF Init, TypeOK

\* No step leaves the types; a list is saved only when it is cut.
LEMMA TypeStep ==
    ASSUME TypeOK, TodoInv, LengthInv, [Next]_vars
    PROVE  TypeOK'
<1> USE DEF sources, kafka, poll, memory, files, vars
<1>1. CASE UNCHANGED vars
  BY <1>1 DEF TypeOK
<1>2. ASSUME NEW s \in Sources, Offer(s) PROVE TypeOK'
  <2>1. offered[s] \in Nat /\ MaxId(s) \in Nat /\ offered[s] < MaxId(s)
    BY <1>2, Limits, ArticleIds DEF TypeOK, Sources, Offer
  <2>2. offered' \in [Sources -> Nat]
    BY <1>2, <2>1 DEF TypeOK, Offer
  <2>3. \A r \in Sources : offered'[r] <= MaxId(r)
    BY <1>2, <2>1 DEF TypeOK, Offer
  <2>4. QED
    BY <1>2, <2>2, <2>3 DEF TypeOK, Offer
<1>3. CASE Deliver
  <2>1. Head(buffer) \in Articles /\ Tail(buffer) \in Seq(Articles)
    BY <1>3 DEF TypeOK, Deliver
  <2>2. delivered' \in [Articles -> Nat]
    BY <1>3, <2>1 DEF TypeOK, Deliver
  <2>3. QED
    BY <1>3, <2>1, <2>2 DEF TypeOK, Deliver
<1>4. CASE DeliveryFails
  <2>1. Head(buffer) \in Articles /\ Tail(buffer) \in Seq(Articles)
    BY <1>4 DEF TypeOK, DeliveryFails
  <2>2. faults' \in 0..MaxFaults
    BY <1>4, Limits DEF TypeOK, DeliveryFails
  <2>3. QED
    BY <1>4, <2>1, <2>2 DEF TypeOK, DeliveryFails
<1>5. CASE process_ttrss
  <2>1. Newest(Rss, TtrssLimit) \subseteq 1..MaxArticles
    BY AnswerIds, ArticleIds DEF Sources
  <2>2. todo' \subseteq Nat \ {0}
    BY <1>5, <2>1, Limits DEF process_ttrss
  <2>3. offered[Rss] \in Nat /\ offered[Rss] <= MaxArticles /\ last_seen_id \in Nat
    BY ArticleIds, Limits DEF TypeOK, Sources
  <2>4. (last_seen_id + 1)..offered[Rss] \subseteq 1..MaxArticles
    BY <2>3, Limits
  <2>5. passed_over' \subseteq 1..MaxArticles
    BY <1>5, <2>4 DEF TypeOK, process_ttrss
  <2>6. QED
    BY <1>5, <2>2, <2>5 DEF TypeOK, process_ttrss
<1>6. ASSUME NEW id \in todo, PublishTtrss(id) PROVE TypeOK'
  <2>1. id \in 1..MaxArticles /\ <<Rss, id>> \in Articles
    BY <1>6, ArticleIds DEF TodoInv, PublishTtrss
  <2>2. buffer' \in Seq(Articles)
    BY <1>6, <2>1, AppendedSet DEF TypeOK, PublishTtrss, publish
  <2>3. new_max_id' \in 0..MaxArticles
    BY <1>6, <2>1, Limits DEF TypeOK, PublishTtrss
  <2>4. QED
    BY <1>6, <2>2, <2>3 DEF TypeOK, PublishTtrss
<1>7. ASSUME NEW id \in todo, PublishPost(id) PROVE TypeOK'
  <2>1. id \in 1..MaxPosts /\ query \in Queries /\ <<query, id>> \in Articles
    BY <1>7, ArticleIds DEF TypeOK, TodoInv, PublishPost
  <2>2. buffer' \in Seq(Articles)
    BY <1>7, <2>1, AppendedSet DEF TypeOK, PublishPost, publish
  <2>3. Append(bluesky_state[query], id) \in Seq(1..MaxPosts)
    BY <2>1, AppendedSet DEF TypeOK
  <2>4. bluesky_state' \in [Queries -> Seq(1..MaxPosts)]
    BY <1>7, <2>3 DEF TypeOK, PublishPost
  <2>5. QED
    BY <1>7, <2>2, <2>4 DEF TypeOK, PublishPost
<1>8. ASSUME NEW active \in SUBSET Queries, process_bluesky(active) PROVE TypeOK'
  BY <1>8 DEF TypeOK, process_bluesky
<1>9. ASSUME NEW q \in queries, Search(q) PROVE TypeOK'
  <2>1. q \in Queries
    BY DEF TypeOK
  <2>2. todo' \subseteq 1..MaxPosts
    BY <1>9, <2>1, AnswerIds, ArticleIds DEF Sources, Search
  <2>3. QED
    BY <1>9, <2>1, <2>2, Limits DEF TypeOK, Sources, Search
<1>10. CASE Remember
  <2>1. query \in Queries /\ LastIds(bluesky_state[query]) \in Seq(1..MaxPosts)
    BY <1>10, LastIdsSet DEF TypeOK, Remember
  <2>2. bluesky_state' \in [Queries -> Seq(1..MaxPosts)]
    BY <1>10, <2>1 DEF TypeOK, Remember
  <2>3. QED
    BY <1>10, <2>2 DEF TypeOK, Remember
<1>11. CASE Sleep \/ Exit
  BY <1>11 DEF TypeOK, Sleep, Exit
<1>12. CASE Flush
  BY <1>12 DEF TypeOK, Flush
<1>13. CASE save_last_id
  BY <1>13 DEF TypeOK, save_last_id, AfterSave
<1>14. CASE save_bluesky_state
  <2>1. \A q \in Queries : Len(bluesky_state[q]) <= MaxIds
    BY <1>14 DEF LengthInv, Running, save_bluesky_state
  <2>2. QED
    BY <1>14, <2>1 DEF TypeOK, save_bluesky_state, AfterSave
<1>15. ASSUME NEW active \in SUBSET Queries, Start(active) PROVE TypeOK'
  BY <1>15 DEF TypeOK, Start
<1>16. ASSUME UNCHANGED files \/ Emptied
       PROVE  /\ state_file' \in 0..MaxArticles
              /\ bluesky_file' \in [Queries -> Seq(1..MaxPosts)]
              /\ \A q \in Queries : Len(bluesky_file'[q]) <= MaxIds
  <2>1. NoIds \in [Queries -> Seq(1..MaxPosts)] /\ \A q \in Queries : Len(NoIds[q]) = 0
    BY DEF NoIds
  <2>2. CASE UNCHANGED files
    BY <2>2 DEF TypeOK
  <2>3. CASE state_file' = 0 /\ UNCHANGED bluesky_file
    BY <2>3, Limits DEF TypeOK
  <2>4. CASE bluesky_file' = NoIds /\ UNCHANGED state_file
    <3>1. \A q \in Queries : Len(bluesky_file'[q]) <= MaxIds
      BY <2>1, <2>4, Limits
    <3>2. QED
      BY <2>1, <2>4, <3>1 DEF TypeOK
  <2>5. QED
    BY <1>16, <2>2, <2>3, <2>4 DEF Emptied
<1>17. CASE SaveFails
  <2>1. faults' \in 0..MaxFaults
    BY <1>17, Limits DEF TypeOK, SaveFails
  <2>2. pc' \in {"poll", "save_bluesky"}
    BY <1>17 DEF SaveFails, AfterSave
  <2>3. QED
    BY <1>16, <1>17, <2>1, <2>2 DEF TypeOK, SaveFails
<1>18. CASE Raise
  <2>1. faults' \in 0..MaxFaults
    BY <1>18, Limits DEF TypeOK, Raise
  <2>2. QED
    BY <1>18, <2>1 DEF TypeOK, Raise
<1>19. CASE Crash
  <2>1. crashes' \in 0..MaxCrashes
    BY <1>19, Limits DEF TypeOK, Crash
  <2>2. buffer' \in Seq(Articles)
    BY <1>19 DEF Crash
  <2>3. QED
    BY <1>16, <1>19, <2>1, <2>2 DEF TypeOK, Crash
<1>20. QED
  BY <1>1, <1>2, <1>3, <1>4, <1>5, <1>6, <1>7, <1>8, <1>9, <1>10, <1>11, <1>12, <1>13,
     <1>14, <1>15, <1>17, <1>18, <1>19 DEF Next, Worker, Restart

-----------------------------------------------------------------------------
(* What is settled stays settled, and what is known stays known while the  *)
(* worker runs.                                                            *)

\* raw_ingestion only grows.
LEMMA SettledIsKept ==
    ASSUME TypeOK, [Next]_vars, NEW s, NEW id, <<s, id>> \in Articles, Settled(s, id)
    PROVE  Settled(s, id)'
<1> USE DEF sources, kafka, poll, memory, files, vars
<1>1. CASE UNCHANGED <<delivered, given_up>>
  BY <1>1 DEF Settled
<1>2. CASE Deliver
  <2>1. ASSUME NEW a \in Articles, delivered[a] > 0 PROVE delivered'[a] > 0
    <3>1. delivered[a] \in Nat /\ delivered \in [Articles -> Nat]
      BY DEF TypeOK
    <3>2. CASE a = Head(buffer)
      BY <1>2, <2>1, <3>1, <3>2 DEF Deliver
    <3>3. CASE a # Head(buffer)
      BY <1>2, <2>1, <3>1, <3>3 DEF Deliver
    <3>4. QED
      BY <3>2, <3>3
  <2>2. given_up' = given_up
    BY <1>2 DEF Deliver
  <2>3. QED
    BY <2>1, <2>2 DEF Settled
<1>3. CASE DeliveryFails
  BY <1>3 DEF Settled, DeliveryFails
<1>4. QED
  BY <1>1, <1>2, <1>3
  DEF Next, Worker, Restart, Offer, Start, process_ttrss, PublishTtrss, publish,
      process_bluesky, Search, PublishPost, Remember, Sleep, Flush, save_last_id,
      save_bluesky_state, SaveFails, Raise, Exit, Crash

\* Only a crash takes something out of the buffer that is not settled thereby.
LEMMA KnownIsKept ==
    ASSUME TypeOK, TodoInv, [Next]_vars, pc' # "down",
           NEW s, NEW id, <<s, id>> \in Articles, Known(s, id)
    PROVE  Known(s, id)'
<1> USE DEF sources, kafka, poll, memory, files, vars
<1>1. CASE Settled(s, id)
  BY <1>1, SettledIsKept DEF Known
<1>2. CASE <<s, id>> \in ToSet(buffer)
  <2>1. CASE UNCHANGED buffer
    BY <1>2, <2>1 DEF Known
  <2>2. ASSUME NEW a \in Articles, buffer' = Append(buffer, a) PROVE Known(s, id)'
    <3>1. ToSet(buffer') = ToSet(buffer) \cup {a}
      BY <2>2, AppendedSet DEF TypeOK
    <3>2. QED
      BY <1>2, <3>1 DEF Known
  <2>3. CASE Deliver
    <3>1. <<s, id>> = Head(buffer) \/ <<s, id>> \in ToSet(Tail(buffer))
      BY <1>2, <2>3, TailSet DEF TypeOK, Deliver
    <3>2. CASE <<s, id>> = Head(buffer)
      <4>1. delivered[<<s, id>>] \in Nat /\ delivered'[<<s, id>>] = delivered[<<s, id>>] + 1
        BY <2>3, <3>2 DEF TypeOK, Deliver
      <4>2. QED
        BY <4>1 DEF Known, Settled
    <3>3. CASE <<s, id>> \in ToSet(Tail(buffer))
      BY <2>3, <3>3 DEF Deliver, Known
    <3>4. QED
      BY <3>1, <3>2, <3>3
  <2>4. CASE DeliveryFails
    <3>1. <<s, id>> = Head(buffer) \/ <<s, id>> \in ToSet(Tail(buffer))
      BY <1>2, <2>4, TailSet DEF TypeOK, DeliveryFails
    <3>2. QED
      BY <2>4, <3>1 DEF DeliveryFails, Known, Settled
  <2>5. ASSUME NEW i \in todo, PublishTtrss(i) PROVE Known(s, id)'
    <3>1. <<Rss, i>> \in Articles
      BY <2>5, ArticleIds DEF TodoInv, PublishTtrss
    <3>2. QED
      BY <2>2, <2>5, <3>1 DEF PublishTtrss, publish
  <2>6. ASSUME NEW i \in todo, PublishPost(i) PROVE Known(s, id)'
    <3>1. <<query, i>> \in Articles
      BY <2>6, ArticleIds DEF TypeOK, TodoInv, PublishPost
    <3>2. QED
      BY <2>2, <2>6, <3>1 DEF PublishPost, publish
  <2>7. QED
    BY <2>1, <2>3, <2>4, <2>5, <2>6
    DEF Next, Worker, Restart, Offer, Start, process_ttrss, process_bluesky, Search,
        Remember, Sleep, Flush, save_last_id, save_bluesky_state, SaveFails, Raise,
        Exit, Crash
<1>3. QED
  BY <1>1, <1>2 DEF Known

\* With nothing in the buffer, what is known is settled.
LEMMA KnownIsSettled ==
    ASSUME buffer = <<>>, NEW s, NEW id, Known(s, id)
    PROVE  Settled(s, id)
<1>1. ToSet(buffer) = {}
  BY DEF ToSet
<1>2. QED
  BY <1>1 DEF Known

-----------------------------------------------------------------------------
(* The steps of the invariant.                                             *)

\* A fetch ends with articles of its source, and the list grows in a search only.
LEMMA BoundsStep ==
    ASSUME IInv, [Next]_vars
    PROVE  TodoInv' /\ LengthInv' /\ SavingInv'
<1> USE DEF sources, kafka, poll, memory, files, vars
<1>1. TypeOK /\ TodoInv /\ LengthInv /\ SavingInv
  BY DEF IInv
<1>2. TodoInv'
  <2>1. CASE process_ttrss
    <3>1. Newest(Rss, TtrssLimit) \subseteq 1..MaxArticles
      BY <1>1, AnswerIds, ArticleIds DEF Sources
    <3>2. QED
      BY <2>1, <3>1 DEF process_ttrss, TodoInv
  <2>2. ASSUME NEW q \in queries, Search(q) PROVE TodoInv'
    <3>1. Newest(q, BlueskyLimit) \subseteq 1..MaxPosts
      BY <1>1, AnswerIds, ArticleIds DEF TypeOK, Sources
    <3>2. QED
      BY <2>2, <3>1 DEF Search, TodoInv
  <2>3. QED
    BY <1>1, <2>1, <2>2
    DEF TodoInv, Next, Worker, Restart, Offer, Deliver, DeliveryFails, Start,
        PublishTtrss, process_bluesky, PublishPost, Remember, Sleep, Flush,
        save_last_id, save_bluesky_state, SaveFails, AfterSave, Raise, Exit, Crash
<1>3. SavingInv'
  BY <1>1
  DEF SavingInv, Next, Worker, Restart, Offer, Deliver, DeliveryFails, Start,
      process_ttrss, PublishTtrss, process_bluesky, Search, PublishPost, Remember,
      Sleep, Flush, save_last_id, save_bluesky_state, SaveFails, AfterSave, Raise,
      Exit, Crash
<1>4. LengthInv'
  <2>1. ASSUME NEW active \in SUBSET Queries, Start(active) PROVE LengthInv'
    BY <1>1, <2>1 DEF TypeOK, LengthInv, Start
  <2>2. ASSUME NEW i \in todo, PublishPost(i) PROVE LengthInv'
    BY <1>1, <2>2 DEF TypeOK, LengthInv, Running, PublishPost
  <2>3. CASE Remember
    <3>1. query \in Queries /\ Len(LastIds(bluesky_state[query])) <= MaxIds
      BY <1>1, <2>3, LastIdsSet DEF TypeOK, Remember
    <3>2. \A q \in Queries : Len(bluesky_state'[q]) <= MaxIds
      BY <1>1, <2>3, <3>1 DEF TypeOK, LengthInv, Running, Remember
    <3>3. QED
      BY <3>2 DEF LengthInv
  <2>4. ASSUME NEW q \in queries, Search(q) PROVE LengthInv'
    BY <1>1, <2>4 DEF LengthInv, Running, Search
  <2>5. QED
    BY <1>1, <2>1, <2>2, <2>3, <2>4
    DEF LengthInv, Running, Next, Worker, Restart, Offer, Deliver, DeliveryFails,
        process_ttrss, PublishTtrss, process_bluesky, Sleep, Flush, save_last_id,
        save_bluesky_state, SaveFails, AfterSave, Raise, Exit, Crash
<1>5. QED
  BY <1>2, <1>3, <1>4

\* The files are written from a memory that is backed, with nothing in the buffer.
LEMMA SavedStep ==
    ASSUME IInv, [Next]_vars
    PROVE  SavedIsDelivered'
<1> USE DEF sources, kafka, poll, memory, files, vars
<1>1. TypeOK /\ SavedIsDelivered /\ HeadInv /\ PostsInv /\ SavingInv
  BY DEF IInv
<1>2. passed_over \subseteq passed_over'
  BY DEF Next, Worker, Restart, Offer, Deliver, DeliveryFails, Start, process_ttrss,
         PublishTtrss, process_bluesky, Search, PublishPost, Remember, Sleep, Flush,
         save_last_id, save_bluesky_state, SaveFails, Raise, Exit, Crash
<1>3. ASSUME NEW q \in Queries, NEW id \in ToSet(bluesky_file'[q]) PROVE Settled(q, id)'
  <2>1. CASE bluesky_file' = bluesky_file
    <3>1. id \in ToSet(bluesky_file[q]) /\ Settled(q, id)
      BY <1>1, <1>3, <2>1 DEF SavedIsDelivered
    <3>2. id \in 1..MaxPosts
      BY <1>1, <3>1, ListedIds DEF TypeOK
    <3>3. QED
      BY <1>1, <3>1, <3>2, ArticleIds, SettledIsKept
  <2>2. CASE bluesky_file' = NoIds
    BY <1>3, <2>2 DEF NoIds, ToSet
  <2>3. CASE save_bluesky_state
    <3>1. id \in ToSet(bluesky_state[q]) /\ Known(q, id) /\ buffer = <<>>
      BY <1>1, <1>3, <2>3 DEF PostsInv, SavingInv, Running, save_bluesky_state
    <3>2. id \in 1..MaxPosts
      BY <1>1, <3>1, ListedIds DEF TypeOK
    <3>3. QED
      BY <1>1, <3>1, <3>2, KnownIsSettled, ArticleIds, SettledIsKept
  <2>4. QED
    BY <2>1, <2>2, <2>3
    DEF Next, Worker, Restart, Offer, Deliver, DeliveryFails, Start, process_ttrss,
        PublishTtrss, process_bluesky, Search, PublishPost, Remember, Sleep, Flush,
        save_last_id, SaveFails, Emptied, Raise, Exit, Crash
<1>4. ASSUME NEW id \in 1..state_file' PROVE Settled(Rss, id)' \/ id \in passed_over'
  <2>1. CASE state_file' = state_file
    <3>1. id \in 1..MaxArticles /\ (Settled(Rss, id) \/ id \in passed_over)
      BY <1>1, <1>4, <2>1, Limits DEF SavedIsDelivered, TypeOK
    <3>2. QED
      BY <1>1, <1>2, <3>1, ArticleIds, SettledIsKept
  <2>2. CASE state_file' = 0
    BY <1>4, <2>2
  <2>3. CASE save_last_id
    <3>1. id \in 1..MaxArticles /\ (Settled(Rss, id) \/ id \in passed_over)
      BY <1>1, <1>4, <2>3, Limits DEF HeadInv, Running, TypeOK, save_last_id
    <3>2. QED
      BY <1>1, <1>2, <3>1, ArticleIds, SettledIsKept
  <2>4. QED
    BY <2>1, <2>2, <2>3
    DEF Next, Worker, Restart, Offer, Deliver, DeliveryFails, Start, process_ttrss,
        PublishTtrss, process_bluesky, Search, PublishPost, Remember, Sleep, Flush,
        save_bluesky_state, SaveFails, Emptied, Raise, Exit, Crash
<1>5. QED
  BY <1>3, <1>4 DEF SavedIsDelivered

\* A poll leaves nothing behind below the id it will save.
LEMMA HeadStep ==
    ASSUME IInv, [Next]_vars
    PROVE  HeadInv'
<1> USE DEF sources, kafka, poll, memory, files, vars
<1>1. TypeOK /\ SavedIsDelivered /\ HeadInv /\ ArticlesInv
  BY DEF IInv
<1>2. passed_over \subseteq passed_over'
  BY DEF Next, Worker, Restart, Offer, Deliver, DeliveryFails, Start, process_ttrss,
         PublishTtrss, process_bluesky, Search, PublishPost, Remember, Sleep, Flush,
         save_last_id, save_bluesky_state, SaveFails, Raise, Exit, Crash
<1>3. ASSUME NEW id \in 1..last_seen_id', Running' PROVE Settled(Rss, id)' \/ id \in passed_over'
  <2>1. CASE last_seen_id' = last_seen_id /\ Running
    <3>1. id \in 1..MaxArticles /\ (Settled(Rss, id) \/ id \in passed_over)
      BY <1>1, <1>3, <2>1, Limits DEF HeadInv, TypeOK
    <3>2. QED
      BY <1>1, <1>2, <3>1, ArticleIds, SettledIsKept
  <2>2. ASSUME NEW active \in SUBSET Queries, Start(active)
        PROVE  Settled(Rss, id)' \/ id \in passed_over'
    <3>1. id \in 1..MaxArticles /\ (Settled(Rss, id) \/ id \in passed_over)
      BY <1>1, <1>3, <2>2, Limits DEF SavedIsDelivered, TypeOK, Start
    <3>2. QED
      BY <1>1, <1>2, <3>1, ArticleIds, SettledIsKept
  <2>3. CASE Flush
    <3>1. id \in 1..MaxArticles /\ (Known(Rss, id) \/ id \in passed_over) /\ buffer = <<>>
      BY <1>1, <1>3, <2>3, Limits DEF ArticlesInv, TypeOK, Flush
    <3>2. Settled(Rss, id) \/ id \in passed_over
      BY <3>1, KnownIsSettled
    <3>3. QED
      BY <1>1, <1>2, <3>1, <3>2, ArticleIds, SettledIsKept
  <2>4. QED
    BY <1>3, <2>1, <2>2, <2>3
    DEF Running, Next, Worker, Restart, Offer, Deliver, DeliveryFails, process_ttrss,
        PublishTtrss, process_bluesky, Search, PublishPost, Remember, Sleep,
        save_last_id, save_bluesky_state, SaveFails, AfterSave, Raise, Exit, Crash
<1>4. QED
  BY <1>3 DEF HeadInv

\* A query remembers what is published.
LEMMA PostsStep ==
    ASSUME IInv, [Next]_vars
    PROVE  PostsInv'
<1> USE DEF sources, kafka, poll, memory, files, vars
<1>1. TypeOK /\ SavedIsDelivered /\ PostsInv /\ TodoInv
  BY DEF IInv
<1>2. ASSUME NEW q \in Queries, NEW id \in ToSet(bluesky_state[q]), Running, Running'
      PROVE  Known(q, id)'
  <2>1. id \in 1..MaxPosts /\ Known(q, id)
    BY <1>1, <1>2, ListedIds DEF PostsInv, TypeOK
  <2>2. pc' # "down"
    BY <1>2 DEF Running
  <2>3. QED
    BY <1>1, <2>1, <2>2, ArticleIds, KnownIsKept
<1>3. ASSUME NEW q \in Queries, NEW id \in ToSet(bluesky_state'[q]), Running'
      PROVE  Known(q, id)'
  <2>1. CASE bluesky_state' = bluesky_state /\ Running
    BY <1>2, <1>3, <2>1
  <2>2. ASSUME NEW active \in SUBSET Queries, Start(active) PROVE Known(q, id)'
    <3>1. id \in ToSet(bluesky_file[q]) /\ Settled(q, id)
      BY <1>1, <1>3, <2>2 DEF SavedIsDelivered, Start
    <3>2. id \in 1..MaxPosts
      BY <1>1, <3>1, ListedIds DEF TypeOK
    <3>3. QED
      BY <1>1, <3>1, <3>2, ArticleIds, SettledIsKept DEF Known
  <2>3. ASSUME NEW i \in todo, PublishPost(i) PROVE Known(q, id)'
    <3>1. CASE q = query
      <4>1. bluesky_state[q] \in Seq(1..MaxPosts) /\ i \in 1..MaxPosts
        BY <1>1, <2>3 DEF TypeOK, TodoInv, PublishPost
      <4>2. bluesky_state'[q] = Append(bluesky_state[q], i)
        BY <1>1, <2>3, <3>1 DEF TypeOK, PublishPost
      <4>3. id = i \/ id \in ToSet(bluesky_state[q])
        <5>1. ToSet(Append(bluesky_state[q], i)) = ToSet(bluesky_state[q]) \cup {i}
          <6> DEFINE list == bluesky_state[q]
                     Ids == 1..MaxPosts
          <6>1. list \in Seq(Ids) /\ i \in Ids
            BY <4>1
          <6> HIDE DEF list, Ids
          <6>2. ToSet(Append(list, i)) = ToSet(list) \cup {i}
            BY <6>1, AppendedSet
          <6>3. QED
            BY <6>2 DEF list
        <5>2. id \in ToSet(Append(bluesky_state[q], i))
          BY <4>2
        <5>3. QED
          BY <5>1, <5>2
      <4>4. <<q, i>> \in Articles /\ buffer' = Append(buffer, <<q, i>>)
        BY <2>3, <3>1, <4>1, ArticleIds DEF PublishPost, publish
      <4>5. <<q, i>> \in ToSet(buffer')
        BY <1>1, <4>4, AppendedSet DEF TypeOK
      <4>6. Running
        BY <2>3 DEF PublishPost, Running
      <4>7. CASE id = i
        BY <4>5, <4>7 DEF Known
      <4>8. CASE id \in ToSet(bluesky_state[q])
        BY <1>2, <1>3, <4>6, <4>8
      <4>9. QED
        BY <4>3, <4>7, <4>8
    <3>2. CASE q # query
      <4>1. id \in ToSet(bluesky_state[q]) /\ Running
        BY <1>1, <1>3, <2>3, <3>2 DEF TypeOK, PublishPost, Running
      <4>2. QED
        BY <1>2, <1>3, <4>1
    <3>3. QED
      BY <3>1, <3>2
  <2>4. CASE Remember
    <3>1. bluesky_state'[q] = LastIds(bluesky_state[q]) \/ bluesky_state'[q] = bluesky_state[q]
      BY <1>1, <2>4 DEF TypeOK, Remember
    <3>2. ToSet(LastIds(bluesky_state[q])) \subseteq ToSet(bluesky_state[q])
      BY <1>1, LastIdsSet DEF TypeOK
    <3>3. id \in ToSet(bluesky_state[q]) /\ Running
      BY <1>3, <2>4, <3>1, <3>2 DEF Remember, Running
    <3>4. QED
      BY <1>2, <1>3, <3>3
  <2>5. QED
    BY <1>3, <2>1, <2>2, <2>3, <2>4
    DEF Running, Next, Worker, Restart, Offer, Deliver, DeliveryFails, process_ttrss,
        PublishTtrss, process_bluesky, Search, Sleep, Flush, save_last_id,
        save_bluesky_state, SaveFails, AfterSave, Raise, Exit, Crash
<1>4. QED
  BY <1>3 DEF PostsInv

\* Every id up to one that a poll has published or fetched is accounted for.
LEMMA ArticlesStep ==
    ASSUME IInv, [Next]_vars
    PROVE  ArticlesInv'
<1> USE DEF sources, kafka, poll, memory, files, vars
<1>1. TypeOK /\ TodoInv /\ HeadInv /\ ArticlesInv
  BY DEF IInv
<1>2. passed_over \subseteq passed_over'
  BY DEF Next, Worker, Restart, Offer, Deliver, DeliveryFails, Start, process_ttrss,
         PublishTtrss, process_bluesky, Search, PublishPost, Remember, Sleep, Flush,
         save_last_id, save_bluesky_state, SaveFails, Raise, Exit, Crash
<1>3. ASSUME NEW id \in 1..MaxArticles, Known(Rss, id) \/ id \in passed_over, pc' # "down"
      PROVE  Known(Rss, id)' \/ id \in passed_over'
  BY <1>1, <1>2, <1>3, ArticleIds, KnownIsKept
<1>4. pc = "ttrss" => \A top \in todo \cup {new_max_id} : top \in 0..MaxArticles
  BY <1>1, Limits DEF TypeOK, TodoInv
<1>5. CASE process_ttrss
  <2>1. ASSUME NEW top \in todo' \cup {new_max_id'}, NEW id \in 1..top
        PROVE  id \in todo' \/ Known(Rss, id)' \/ id \in passed_over'
    <3>1. /\ Newest(Rss, TtrssLimit) \subseteq 1..offered[Rss]
          /\ offered[Rss] \in Nat /\ offered[Rss] <= MaxArticles /\ last_seen_id \in 0..MaxArticles
      BY <1>1, ArticleIds DEF Newest, TypeOK, Sources
    <3>2. id \in 1..last_seen_id \/ id \in (last_seen_id + 1)..offered[Rss]
      BY <1>5, <2>1, <3>1, Limits DEF process_ttrss
    <3>3. CASE id \in 1..last_seen_id
      <4>1. id \in 1..MaxArticles /\ (Known(Rss, id) \/ id \in passed_over)
        BY <1>1, <1>5, <3>1, <3>3, Limits DEF HeadInv, Running, Known, process_ttrss
      <4>2. QED
        BY <1>3, <1>5, <4>1 DEF process_ttrss
    <3>4. CASE id \in (last_seen_id + 1)..offered[Rss]
      <4>1. CASE id \in Newest(Rss, TtrssLimit)
        BY <1>5, <3>1, <3>4, <4>1 DEF process_ttrss
      <4>2. CASE id \notin Newest(Rss, TtrssLimit)
        BY <1>5, <3>4, <4>2 DEF process_ttrss
      <4>3. QED
        BY <4>1, <4>2
    <3>5. QED
      BY <3>2, <3>3, <3>4
  <2>2. QED
    BY <1>5, <2>1 DEF ArticlesInv, process_ttrss
<1>6. ASSUME NEW i \in todo, PublishTtrss(i) PROVE ArticlesInv'
  <2>1. i \in 1..MaxArticles /\ <<Rss, i>> \in Articles
    BY <1>1, <1>6, ArticleIds DEF TodoInv, PublishTtrss
  <2>2. <<Rss, i>> \in ToSet(buffer')
    BY <1>1, <1>6, <2>1, AppendedSet DEF TypeOK, PublishTtrss, publish
  <2>3. ASSUME NEW top \in todo' \cup {new_max_id'}, NEW id \in 1..top
        PROVE  id \in todo' \/ Known(Rss, id)' \/ id \in passed_over'
    <3>1. top \in todo \cup {new_max_id}
      BY <1>6, <2>3 DEF PublishTtrss
    <3>2. id \in 1..MaxArticles /\ (id \in todo \/ Known(Rss, id) \/ id \in passed_over)
      BY <1>1, <1>4, <1>6, <2>3, <3>1, Limits DEF ArticlesInv, PublishTtrss
    <3>3. CASE id = i
      BY <2>2, <3>3 DEF Known
    <3>4. CASE id \in todo /\ id # i
      BY <1>6, <3>4 DEF PublishTtrss
    <3>5. CASE Known(Rss, id) \/ id \in passed_over
      BY <1>3, <1>6, <3>2, <3>5 DEF PublishTtrss
    <3>6. QED
      BY <3>2, <3>3, <3>4, <3>5
  <2>4. QED
    BY <1>6, <2>3 DEF ArticlesInv, PublishTtrss
<1>7. ASSUME NEW active \in SUBSET Queries, process_bluesky(active) PROVE ArticlesInv'
  <2>1. ASSUME NEW id \in 1..new_max_id PROVE Known(Rss, id)' \/ id \in passed_over'
    <3>1. id \in 1..MaxArticles /\ (Known(Rss, id) \/ id \in passed_over)
      BY <1>1, <1>7, <2>1, Limits DEF ArticlesInv, TypeOK, process_bluesky
    <3>2. QED
      BY <1>3, <1>7, <3>1 DEF process_bluesky
  <2>2. QED
    BY <1>7, <2>1 DEF ArticlesInv, process_bluesky
<1>8. CASE pc = "ttrss" /\ pc' = "ttrss" /\ UNCHANGED <<todo, new_max_id>>
  <2>1. ASSUME NEW top \in todo \cup {new_max_id}, NEW id \in 1..top
        PROVE  id \in todo \/ Known(Rss, id)' \/ id \in passed_over'
    <3>1. id \in 1..MaxArticles /\ (id \in todo \/ Known(Rss, id) \/ id \in passed_over)
      BY <1>1, <1>4, <1>8, <2>1, Limits DEF ArticlesInv
    <3>2. QED
      BY <1>3, <1>8, <3>1
  <2>2. QED
    BY <1>8, <2>1 DEF ArticlesInv
<1>9. CASE /\ pc \in {"bluesky", "search"} /\ pc' \in {"bluesky", "search"}
           /\ UNCHANGED new_max_id
  <2>1. ASSUME NEW id \in 1..new_max_id PROVE Known(Rss, id)' \/ id \in passed_over'
    <3>1. id \in 1..MaxArticles /\ (Known(Rss, id) \/ id \in passed_over)
      BY <1>1, <1>9, <2>1, Limits DEF ArticlesInv, TypeOK
    <3>2. QED
      BY <1>3, <1>9, <3>1
  <2>2. QED
    BY <1>9, <2>1 DEF ArticlesInv
<1>10. CASE pc' \notin {"ttrss", "bluesky", "search"}
  BY <1>10 DEF ArticlesInv
<1>11. QED
  BY <1>5, <1>6, <1>7, <1>8, <1>9, <1>10
  DEF Next, Worker, Restart, Offer, Deliver, DeliveryFails, Start, Search, PublishPost,
      Remember, Sleep, Flush, save_last_id, save_bluesky_state, SaveFails, AfterSave,
      Raise, Exit, Crash

\* Empty files say nothing.
LEMMA InvInit ==
    ASSUME Init
    PROVE  IInv
<1>1. SavedIsDelivered
  BY DEF Init, SavedIsDelivered, NoIds, ToSet
<1>2. TodoInv /\ LengthInv /\ PostsInv /\ HeadInv /\ ArticlesInv /\ SavingInv
  BY DEF Init, TodoInv, LengthInv, PostsInv, HeadInv, ArticlesInv, SavingInv, Running
<1>3. QED
  BY <1>1, <1>2, TypeInit DEF IInv

\* The parts of the invariant hold together.
LEMMA InvStep ==
    ASSUME IInv, [Next]_vars
    PROVE  IInv'
<1>1. TypeOK'
  BY TypeStep DEF IInv
<1>2. QED
  BY <1>1, BoundsStep, SavedStep, HeadStep, PostsStep, ArticlesStep DEF IInv

-----------------------------------------------------------------------------
(* What is published twice.                                                *)

\* The ids of a list differ, and none is as old as the answer that another came with.
Spread(list) ==
    \A i, j \in DOMAIN list : i < j => list[i] # list[j] /\ list[j] > list[i] - BlueskyLimit

Offered(q, list) == \A i \in DOMAIN list : list[i] <= offered[q]

MemoryInv ==
    \A q \in Queries : \A list \in {bluesky_state[q], bluesky_file[q]} : Spread(list) /\ Offered(q, list)

SearchInv ==
    pc = "search" => \A id \in todo :
        /\ id <= offered[query] /\ id \notin ToSet(bluesky_state[query])
        /\ \A x \in ToSet(bluesky_state[query]) \cup todo : id > x - BlueskyLimit

Polling == {"ttrss", "bluesky", "search"}

OrderInv ==
    /\ pc = "ttrss" => \A id \in todo : id > new_max_id
    /\ pc \in Polling => last_seen_id <= new_max_id

\* The running worker will not publish it any more.
Done(s, id) ==
    IF s = Rss
    THEN \/ id <= last_seen_id
         \/ pc \in Polling /\ id <= new_max_id
    ELSE \/ id \in ToSet(bluesky_state[s])
         \/ id <= offered[s] - BlueskyLimit /\ ~(pc = "search" /\ query = s /\ id \in todo)

Distinct(s) == \A i, j \in DOMAIN s : s[i] = s[j] => i = j

BufferInv ==
    /\ Distinct(buffer)
    /\ pc = "down" => buffer = <<>>
    /\ Running => \A a \in ToSet(buffer) : Done(a[1], a[2])

Copies(a) == delivered[a] + (IF a \in ToSet(buffer) THEN 1 ELSE 0)
Ends == faults + crashes

\* One copy for every process that has ended, and one of the running one.
CopiesInv ==
    \A a \in Articles : /\ Copies(a) <= Ends + 1
                        /\ ~(Running /\ Done(a[1], a[2])) => Copies(a) <= Ends

OnceInv == MemoryInv /\ SearchInv /\ OrderInv /\ BufferInv /\ CopiesInv

\* A memory as long as two answers, but for the article they share.
LongMemory == 2 * BlueskyLimit - 1 <= MaxIds

\* The elements of a list.
LEMMA Elements ==
    ASSUME NEW S, NEW q \in Seq(S)
    PROVE  DOMAIN q = 1..Len(q) /\ \A i \in DOMAIN q : q[i] \in S
OBVIOUS

\* Cutting a list keeps its end.
LEMMA LastIdsShift ==
    ASSUME NEW S, NEW ids \in Seq(S)
    PROVE  \E d \in Nat : /\ Len(LastIds(ids)) = Len(ids) - d
                          /\ \A i \in 1..(Len(ids) - d) : i + d \in 1..Len(ids) /\ LastIds(ids)[i] = ids[i + d]
                          /\ d = 0 \/ d = Len(ids) - MaxIds
<1>1. MaxIds \in Nat \ {0} /\ Len(ids) \in Nat
  BY BoundsAssumption
<1>2. CASE Len(ids) > MaxIds
  <2> DEFINE d == Len(ids) - MaxIds
  <2>1. d \in Nat /\ d + 1 \in 1..Len(ids) /\ d + 1 = Len(ids) - MaxIds + 1
    BY <1>1, <1>2
  <2>2. LastIds(ids) = SubSeq(ids, d + 1, Len(ids))
    BY <1>2, <2>1 DEF LastIds
  <2> HIDE DEF d
  <2>3. /\ Len(SubSeq(ids, d + 1, Len(ids))) = Len(ids) - d
        /\ \A i \in 1..(Len(ids) - d) :
             i + d \in 1..Len(ids) /\ SubSeq(ids, d + 1, Len(ids))[i] = ids[i + d]
    BY <2>1
  <2>4. QED
    BY <2>1, <2>2, <2>3 DEF d
<1>3. CASE ~(Len(ids) > MaxIds)
  <2>1. LastIds(ids) = ids
    BY <1>3 DEF LastIds
  <2>2. /\ 0 \in Nat /\ Len(ids) = Len(ids) - 0
        /\ \A i \in 1..(Len(ids) - 0) : i + 0 \in 1..Len(ids) /\ ids[i] = ids[i + 0]
    BY <1>1
  <2>3. QED
    BY <2>1, <2>2
<1>4. QED
  BY <1>2, <1>3

\* A list that is cut stays spread, and what it loses is too old for the next answer.
LEMMA Forgotten ==
    ASSUME LongMemory, NEW list \in Seq(1..MaxPosts), Spread(list),
           NEW bound \in Nat, \A i \in DOMAIN list : list[i] <= bound
    PROVE  /\ Spread(LastIds(list)) /\ \A i \in DOMAIN LastIds(list) : LastIds(list)[i] <= bound
           /\ \A x \in ToSet(list) : x \in ToSet(LastIds(list)) \/ x <= bound - BlueskyLimit
<1> DEFINE cut == LastIds(list)
<1>1. PICK d \in Nat : /\ Len(cut) = Len(list) - d
                       /\ \A i \in 1..(Len(list) - d) : i + d \in 1..Len(list) /\ cut[i] = list[i + d]
                       /\ d = 0 \/ d = Len(list) - MaxIds
  BY LastIdsShift
<1>2. /\ cut \in Seq(1..MaxPosts) /\ DOMAIN cut = 1..(Len(list) - d)
      /\ Len(list) \in Nat /\ DOMAIN list = 1..Len(list)
      /\ MaxIds \in Nat /\ BlueskyLimit \in Nat \ {0} /\ MaxPosts \in Nat
  BY <1>1, LastIdsSet, Limits
<1> HIDE DEF cut
<1>3. Spread(cut)
  <2> SUFFICES ASSUME NEW i \in DOMAIN cut, NEW j \in DOMAIN cut, i < j
               PROVE  cut[i] # cut[j] /\ cut[j] > cut[i] - BlueskyLimit
    BY DEF Spread
  <2>1. /\ i + d \in DOMAIN list /\ cut[i] = list[i + d]
        /\ j + d \in DOMAIN list /\ cut[j] = list[j + d] /\ i + d < j + d
    <3>1. i \in 1..(Len(list) - d) /\ j \in 1..(Len(list) - d) /\ i \in Int /\ j \in Int
      BY <1>2
    <3>2. i + d < j + d
      BY <3>1
    <3>3. QED
      BY <1>1, <1>2, <3>1, <3>2
  <2>2. QED
    BY <2>1 DEF Spread
<1>4. \A i \in DOMAIN cut : cut[i] <= bound
  BY <1>1, <1>2
<1>5. ASSUME NEW i \in 1..Len(list), list[i] \notin ToSet(cut)
      PROVE  list[i] <= bound - BlueskyLimit
  <2> DEFINE x == list[i]
             n == Len(list)
             Near == (x - BlueskyLimit + 1)..(x + BlueskyLimit - 1)
  <2>1. i <= d
    <3> SUFFICES ASSUME i > d PROVE FALSE
      BY <1>1
    <3>1. i - d \in 1..(n - d) /\ i - d + d = i
      BY <1>1, <1>2
    <3>2. cut[i - d] = list[i]
      BY <1>1, <3>1
    <3>3. list[i] \in ToSet(cut)
      BY <1>1, <1>2, <3>1, <3>2, ElementInSet
    <3>4. QED
      BY <1>5, <3>3
  <2>2. d = n - MaxIds
    BY <1>1, <1>2, <2>1
  <2>3. x \in Nat /\ \A k \in 1..n : list[k] \in Nat /\ list[k] <= bound
    <3>1. \A k \in 1..n : list[k] \in 1..MaxPosts
      BY Elements
    <3>2. \A k \in 1..n : list[k] <= bound
      BY <1>2
    <3>3. \A k \in 1..n : list[k] \in Nat
      BY <1>2, <3>1
    <3> HIDE DEF n
    <3>4. QED
      BY <1>5, <3>2, <3>3 DEF n
  <2>4. ASSUME x > bound - BlueskyLimit PROVE FALSE
    <3> DEFINE f == [k \in i..n |-> list[k]]
    <3>1. \A k \in i..n : k \in 1..n /\ (k = i \/ i < k)
      BY <1>2
    <3>2. \A k \in i..n : list[k] \in Near
      <4> SUFFICES ASSUME NEW k \in i..n PROVE list[k] \in Near
        OBVIOUS
      <4>1. k = i \/ list[k] > x - BlueskyLimit
        BY <1>2, <3>1 DEF Spread
      <4>2. list[k] <= bound /\ list[k] \in Nat /\ x \in Nat
        BY <2>3, <3>1
      <4>3. QED
        BY <1>2, <2>4, <4>1, <4>2
    <3>3. \A k, m \in i..n : list[k] = list[m] => k = m
      <4> SUFFICES ASSUME NEW k \in i..n, NEW m \in i..n, k < m PROVE list[k] # list[m]
        BY <1>2
      <4>1. QED
        BY <1>2, <3>1 DEF Spread
    <3>4. f \in Injection(i..n, Near)
      BY <3>2, <3>3 DEF Injection, IsInjective
    <3>5. IsFiniteSet(Near) /\ Cardinality(Near) = 2 * BlueskyLimit - 1
      <4> DEFINE a == x - BlueskyLimit + 1
                 b == x + BlueskyLimit - 1
      <4>1. a \in Int /\ b \in Int /\ ~(a > b) /\ b - a + 1 = 2 * BlueskyLimit - 1
        BY <1>2, <2>3
      <4> HIDE DEF a, b
      <4>2. IsFiniteSet(a..b) /\ Cardinality(a..b) = IF a > b THEN 0 ELSE b - a + 1
        BY ONLY <4>1, FS_Interval
      <4>3. QED
        BY <4>1, <4>2 DEF a, b
    <3>6. Cardinality(i..n) = n - i + 1
      <4>1. i \in Int /\ n \in Int /\ ~(i > n)
        BY <1>2
      <4> HIDE DEF n
      <4>2. Cardinality(i..n) = IF i > n THEN 0 ELSE n - i + 1
        BY ONLY <4>1, FS_Interval
      <4>3. QED
        BY <4>1, <4>2
    <3> HIDE DEF f, Near
    <3>7. Cardinality(i..n) <= Cardinality(Near)
      BY <3>4, <3>5, FS_Injection
    <3>8. QED
      BY <1>1, <1>2, <2>1, <2>2, <3>5, <3>6, <3>7 DEF LongMemory
  <2>5. QED
    BY <1>2, <2>3, <2>4
<1>6. \A x \in ToSet(list) : x \in ToSet(cut) \/ x <= bound - BlueskyLimit
  BY <1>2, <1>5 DEF ToSet
<1>7. QED
  BY <1>3, <1>4, <1>6 DEF cut

\* A list stays spread with one more id of the answer.
LEMMA Appended ==
    ASSUME NEW list \in Seq(1..MaxPosts), Spread(list), NEW id \in 1..MaxPosts,
           id \notin ToSet(list), \A x \in ToSet(list) : id > x - BlueskyLimit
    PROVE  Spread(Append(list, id))
<1> DEFINE more == Append(list, id)
<1>1. /\ DOMAIN more = 1..(Len(list) + 1) /\ more[Len(list) + 1] = id /\ Len(list) \in Nat
      /\ DOMAIN list = 1..Len(list) /\ \A i \in 1..Len(list) : more[i] = list[i]
  OBVIOUS
<1> HIDE DEF more
<1>2. \A i \in 1..Len(list) : list[i] \in ToSet(list)
  BY ElementInSet
<1>3. ASSUME NEW i \in DOMAIN more, NEW j \in DOMAIN more, i < j
      PROVE  more[i] # more[j] /\ more[j] > more[i] - BlueskyLimit
  <2>1. i \in 1..Len(list) /\ more[i] = list[i]
    BY <1>1, <1>3
  <2>2. CASE j = Len(list) + 1
    BY <1>1, <1>2, <2>1, <2>2
  <2>3. CASE j # Len(list) + 1
    <3>1. j \in 1..Len(list) /\ more[j] = list[j]
      BY <1>1, <2>3
    <3>2. QED
      BY <1>1, <1>3, <2>1, <3>1 DEF Spread
  <2>4. QED
    BY <2>2, <2>3
<1>4. QED
  BY <1>3 DEF Spread, more

\* The buffer without its head, and with one more article.
LEMMA DistinctBuffer ==
    ASSUME NEW S, NEW q \in Seq(S), Distinct(q)
    PROVE  /\ q # <<>> => /\ Distinct(Tail(q)) /\ Head(q) \notin ToSet(Tail(q)) /\ Head(q) \in S
                          /\ ToSet(q) = {Head(q)} \cup ToSet(Tail(q))
           /\ \A x \in S \ ToSet(q) : Distinct(Append(q, x))
<1>1. ASSUME q # <<>>
      PROVE  /\ Distinct(Tail(q)) /\ Head(q) \notin ToSet(Tail(q)) /\ Head(q) \in S
             /\ ToSet(q) = {Head(q)} \cup ToSet(Tail(q))
  <2> DEFINE r == Tail(q)
  <2>1. /\ r \in Seq(S) /\ Len(q) \in Nat \ {0} /\ DOMAIN q = 1..Len(q) /\ DOMAIN r = 1..(Len(q) - 1)
        /\ Head(q) = q[1] /\ \A i \in 1..(Len(q) - 1) : r[i] = q[i + 1] /\ i + 1 \in 1..Len(q)
    BY <1>1
  <2> HIDE DEF r
  <2>2. Distinct(r)
    <3> SUFFICES ASSUME NEW i \in DOMAIN r, NEW j \in DOMAIN r, r[i] = r[j] PROVE i = j
      BY DEF Distinct
    <3>1. i + 1 = j + 1 /\ i \in Int /\ j \in Int
      BY <2>1 DEF Distinct
    <3>2. QED
      BY <3>1
  <2>3. Head(q) \notin ToSet(r)
    <3> SUFFICES ASSUME NEW i \in DOMAIN r, r[i] = q[1] PROVE FALSE
      BY <2>1 DEF ToSet
    <3>1. i + 1 = 1 /\ i \in 1..(Len(q) - 1)
      BY <2>1 DEF Distinct
    <3>2. QED
      BY <2>1, <3>1
  <2>4. ToSet(r) \subseteq ToSet(q) /\ Head(q) \in ToSet(q) /\ Head(q) \in S
    BY <2>1 DEF ToSet
  <2>5. QED
    BY <1>1, <2>2, <2>3, <2>4, TailSet DEF r
<1>2. ASSUME NEW x \in S \ ToSet(q) PROVE Distinct(Append(q, x))
  <2> DEFINE r == Append(q, x)
  <2>1. /\ DOMAIN r = 1..(Len(q) + 1) /\ r[Len(q) + 1] = x /\ Len(q) \in Nat
        /\ DOMAIN q = 1..Len(q) /\ \A i \in 1..Len(q) : r[i] = q[i]
    OBVIOUS
  <2> HIDE DEF r
  <2>2. \A i \in 1..Len(q) : r[i] # x
    BY <2>1, ElementInSet
  <2>3. \A i \in 1..(Len(q) + 1) : i \in 1..Len(q) \/ i = Len(q) + 1
    BY <2>1
  <2>4. Distinct(r)
    BY <2>1, <2>2, <2>3 DEF Distinct
  <2>5. QED
    BY <2>4 DEF r
<1>3. QED
  BY <1>1, <1>2

\* What a step cannot do: forget offers, or take an end back.
LEMMA Counts ==
    ASSUME TypeOK, [Next]_vars
    PROVE  /\ \A s \in Sources : offered[s] \in Nat /\ offered'[s] \in Nat /\ offered[s] <= offered'[s]
           /\ Ends \in Nat /\ Ends' \in {Ends, Ends + 1}
<1> USE DEF sources, kafka, poll, memory, files, vars
<1>1. /\ \A s \in Sources : offered[s] \in Nat
      /\ faults \in Nat /\ crashes \in Nat
  BY Limits DEF TypeOK
<1>2. \A s \in Sources : offered'[s] \in Nat /\ offered[s] <= offered'[s]
  <2>1. CASE UNCHANGED offered
    BY <1>1, <2>1
  <2>2. ASSUME NEW r \in Sources, Offer(r) PROVE \A s \in Sources : offered'[s] \in Nat /\ offered[s] <= offered'[s]
    <3>1. \A s \in Sources : offered'[s] = IF s = r THEN offered[r] + 1 ELSE offered[s]
      BY <2>2 DEF TypeOK, Offer
    <3>2. QED
      BY <1>1, <3>1
  <2>3. QED
    BY <2>1, <2>2
    DEF Next, Worker, Restart, Deliver, DeliveryFails, Start, process_ttrss, PublishTtrss,
        process_bluesky, Search, PublishPost, Remember, Sleep, Flush, save_last_id,
        save_bluesky_state, SaveFails, Raise, Exit, Crash
<1>3. \/ UNCHANGED <<faults, crashes>>
      \/ faults' = faults + 1 /\ crashes' = crashes
      \/ faults' = faults /\ crashes' = crashes + 1
  BY DEF Next, Worker, Restart, Offer, Deliver, DeliveryFails, Start, process_ttrss, PublishTtrss,
         process_bluesky, Search, PublishPost, Remember, Sleep, Flush, save_last_id,
         save_bluesky_state, SaveFails, Raise, Exit, Crash
<1>4. QED
  BY <1>1, <1>2, <1>3 DEF Ends

\* The lists of ids stay spread.
LEMMA MemoryStep ==
    ASSUME LongMemory, IInv, OnceInv, [Next]_vars
    PROVE  MemoryInv'
<1> USE DEF sources, kafka, poll, memory, files, vars
<1>1. TypeOK /\ TodoInv /\ MemoryInv /\ SearchInv
  BY DEF IInv, OnceInv
<1>2. ASSUME NEW q \in Queries, NEW list, Offered(q, list), NEW T, list \in Seq(1..MaxPosts)
      PROVE  Offered(q, list)'
  <2>1. offered[q] \in Nat /\ offered'[q] \in Nat /\ offered[q] <= offered'[q]
    BY <1>1, Counts DEF Sources
  <2>2. \A i \in DOMAIN list : list[i] \in 1..MaxPosts
    BY <1>2, Elements
  <2>3. MaxPosts \in Nat
    BY Limits
  <2>4. QED
    BY <1>2, <2>1, <2>2, <2>3 DEF Offered
<1> DEFINE Good(q, list) == list \in Seq(1..MaxPosts) /\ Spread(list) /\ Offered(q, list)
<1>3. \A q \in Queries : Good(q, bluesky_state[q]) /\ Good(q, bluesky_file[q]) /\ Good(q, <<>>)
  BY <1>1 DEF MemoryInv, TypeOK, Spread, Offered
<1>4. ASSUME NEW q \in Queries
      PROVE  Good(q, bluesky_state'[q]) /\ Good(q, bluesky_file'[q])
  <2>1. CASE UNCHANGED <<bluesky_state, bluesky_file>>
    BY <1>3, <2>1
  <2>2. ASSUME NEW active \in SUBSET Queries, Start(active)
        PROVE  Good(q, bluesky_state'[q]) /\ Good(q, bluesky_file'[q])
    BY <1>3, <2>2 DEF Start
  <2>3. CASE save_bluesky_state
    BY <1>3, <2>3 DEF save_bluesky_state
  <2>4. CASE SaveFails \/ Crash
    <3>1. bluesky_state' = bluesky_state /\ (bluesky_file' = bluesky_file \/ bluesky_file' = NoIds)
      BY <2>4 DEF SaveFails, Crash, Emptied
    <3>2. QED
      BY <1>3, <3>1 DEF NoIds
  <2>5. CASE Remember
    <3>1. bluesky_state'[q] \in {bluesky_state[q], LastIds(bluesky_state[q])} /\ bluesky_file' = bluesky_file
      BY <1>1, <2>5 DEF TypeOK, Remember
    <3>2. offered[q] \in Nat
      BY <1>1, Counts DEF Sources
    <3>3. Good(q, LastIds(bluesky_state[q]))
      <4> DEFINE list == bluesky_state[q]
      <4>1. list \in Seq(1..MaxPosts) /\ Spread(list) /\ \A i \in DOMAIN list : list[i] <= offered[q]
        BY <1>3 DEF Offered
      <4> HIDE DEF list
      <4>2. Spread(LastIds(list)) /\ \A i \in DOMAIN LastIds(list) : LastIds(list)[i] <= offered[q]
        BY <3>2, <4>1, Forgotten
      <4>3. LastIds(list) \in Seq(1..MaxPosts)
        BY <4>1, LastIdsSet
      <4>4. QED
        BY <4>2, <4>3 DEF list, Offered
    <3>4. QED
      BY <1>3, <3>1, <3>3
  <2>6. ASSUME NEW id \in todo, PublishPost(id)
        PROVE  Good(q, bluesky_state'[q]) /\ Good(q, bluesky_file'[q])
    <3>1. bluesky_file' = bluesky_file /\ query \in Queries /\ id \in 1..MaxPosts
      BY <1>1, <2>6 DEF PublishPost, TypeOK, TodoInv
    <3>2. CASE q # query
      <4>1. bluesky_state'[q] = bluesky_state[q]
        BY <1>1, <2>6, <3>2 DEF TypeOK, PublishPost
      <4>2. QED
        BY <1>3, <3>1, <4>1
    <3>3. CASE q = query
      <4> DEFINE list == bluesky_state[q]
      <4>1. bluesky_state'[q] = Append(list, id)
        BY <1>1, <2>6, <3>1, <3>3 DEF TypeOK, PublishPost
      <4>2. /\ id <= offered[q] /\ id \notin ToSet(list) /\ \A x \in ToSet(list) : id > x - BlueskyLimit
            /\ list \in Seq(1..MaxPosts) /\ Spread(list) /\ \A i \in DOMAIN list : list[i] <= offered[q]
        BY <1>1, <1>3, <2>6, <3>3 DEF SearchInv, PublishPost, Offered
      <4> HIDE DEF list
      <4>3. Append(list, id) \in Seq(1..MaxPosts) /\ Spread(Append(list, id))
        BY <3>1, <4>2, Appended
      <4>4. \A i \in DOMAIN Append(list, id) : Append(list, id)[i] <= offered[q]
        <5>1. /\ DOMAIN Append(list, id) = 1..(Len(list) + 1) /\ Append(list, id)[Len(list) + 1] = id
              /\ Len(list) \in Nat /\ DOMAIN list = 1..Len(list)
              /\ \A i \in 1..Len(list) : Append(list, id)[i] = list[i]
          BY <3>1, <4>2
        <5>2. \A i \in 1..(Len(list) + 1) : i \in 1..Len(list) \/ i = Len(list) + 1
          BY <5>1
        <5>3. QED
          BY <4>2, <5>1, <5>2
      <4>5. QED
        BY <1>3, <3>1, <4>1, <4>3, <4>4 DEF Offered
    <3>4. QED
      BY <3>2, <3>3
  <2>7. QED
    BY <2>1, <2>2, <2>3, <2>4, <2>5, <2>6
    DEF Next, Worker, Restart, Offer, Deliver, DeliveryFails, process_ttrss, PublishTtrss,
        process_bluesky, Search, Sleep, Flush, save_last_id, Raise, Exit
<1>5. \A q \in Queries : \A list \in {bluesky_state'[q], bluesky_file'[q]} :
         Spread(list) /\ Offered(q, list)'
  BY <1>2, <1>4
<1>6. QED
  BY <1>5 DEF MemoryInv, Offered, Spread

\* What a search has found is new, and not older than the answer of another search.
LEMMA SearchStep ==
    ASSUME IInv, OnceInv, [Next]_vars
    PROVE  SearchInv'
<1> USE DEF sources, kafka, poll, memory, files, vars
<1>1. TypeOK /\ TodoInv /\ MemoryInv /\ SearchInv
  BY DEF IInv, OnceInv
<1>2. CASE pc = "search" /\ pc' = "search" /\ UNCHANGED <<todo, query, bluesky_state>>
  <2>1. query \in Queries /\ todo \subseteq 1..MaxPosts
    BY <1>1, <1>2 DEF TypeOK, TodoInv
  <2>2. offered[query] \in Nat /\ offered'[query] \in Nat /\ offered[query] <= offered'[query]
    BY <1>1, <2>1, Counts DEF Sources
  <2>3. \A id \in todo : id \in Nat /\ id <= offered[query]
    BY <1>1, <1>2, <2>1, Limits DEF SearchInv
  <2>4. \A id \in todo : id <= offered'[query]
    BY <2>2, <2>3
  <2>5. QED
    BY <1>1, <1>2, <2>4 DEF SearchInv
<1>3. ASSUME NEW q \in queries, Search(q) PROVE SearchInv'
  <2>1. q \in Queries /\ offered[q] \in Nat /\ offered' = offered
    BY <1>1, <1>3, Counts DEF TypeOK, Sources, Search
  <2>2. /\ query' = q /\ bluesky_state' = bluesky_state
        /\ todo' = Newest(q, BlueskyLimit) \ ToSet(bluesky_state[q])
    BY <1>3 DEF Search
  <2>3. \A id \in todo' : id \in Nat /\ id <= offered[q] /\ id > offered[q] - BlueskyLimit
    BY <2>1, <2>2 DEF Newest
  <2>4. \A x \in ToSet(bluesky_state[q]) : x \in Nat /\ x <= offered[q]
    <3>1. bluesky_state[q] \in Seq(1..MaxPosts) /\ \A i \in DOMAIN bluesky_state[q] : bluesky_state[q][i] <= offered[q]
      BY <1>1, <2>1 DEF TypeOK, MemoryInv, Offered
    <3>2. QED
      BY <3>1, Limits DEF ToSet
  <2>5. \A x \in ToSet(bluesky_state[q]) \cup todo' : x \in Nat /\ x <= offered[q]
    BY <2>3, <2>4
  <2>6. \A id \in todo' : \A x \in ToSet(bluesky_state[q]) \cup todo' : id > x - BlueskyLimit
    BY <2>1, <2>3, <2>5, Limits
  <2>7. QED
    BY <2>1, <2>2, <2>3, <2>6 DEF SearchInv
<1>4. ASSUME NEW i \in todo, PublishPost(i) PROVE SearchInv'
  <2> DEFINE list == bluesky_state[query]
  <2>1. query \in Queries /\ list \in Seq(1..MaxPosts) /\ i \in 1..MaxPosts
    BY <1>1, <1>4 DEF TypeOK, TodoInv, PublishPost
  <2>2. bluesky_state'[query] = Append(list, i) /\ todo' = todo \ {i} /\ query' = query /\ offered' = offered
    BY <1>1, <1>4, <2>1 DEF TypeOK, PublishPost
  <2>3. \A id \in todo : id <= offered[query] /\ id \notin ToSet(list)
                         /\ \A x \in ToSet(list) \cup todo : id > x - BlueskyLimit
    BY <1>1, <1>4 DEF SearchInv, PublishPost
  <2> HIDE DEF list
  <2>4. ToSet(Append(list, i)) = ToSet(list) \cup {i}
    <3> DEFINE Ids == 1..MaxPosts
    <3>1. list \in Seq(Ids) /\ i \in Ids
      BY <2>1
    <3> HIDE DEF Ids
    <3>2. QED
      BY <3>1, AppendedSet
  <2>5. QED
    BY <2>2, <2>3, <2>4 DEF SearchInv
<1>5. CASE pc' # "search"
  BY <1>5 DEF SearchInv
<1>6. QED
  BY <1>2, <1>3, <1>4, <1>5
  DEF Next, Worker, Restart, Offer, Deliver, DeliveryFails, Start, process_ttrss, PublishTtrss,
      process_bluesky, Remember, Sleep, Flush, save_last_id,
      save_bluesky_state, SaveFails, AfterSave, Raise, Exit, Crash

\* Articles of TT-RSS are published in the order of their ids, above all that is known.
LEMMA OrderStep ==
    ASSUME IInv, OnceInv, [Next]_vars
    PROVE  OrderInv'
<1> USE DEF sources, kafka, poll, memory, files, vars
<1>1. /\ OrderInv /\ last_seen_id \in Nat /\ new_max_id \in Nat
      /\ \A id \in todo : id \in Nat
  BY Limits DEF IInv, OnceInv, TypeOK
<1>2. CASE process_ttrss
  BY <1>1, <1>2 DEF OrderInv, process_ttrss
<1>3. ASSUME NEW i \in todo, PublishTtrss(i) PROVE OrderInv'
  <2>1. i > new_max_id /\ new_max_id' = i /\ last_seen_id' = last_seen_id /\ last_seen_id <= new_max_id
    BY <1>1, <1>3 DEF OrderInv, PublishTtrss, Polling
  <2>2. \A id \in todo \ {i} : id > i
    BY <1>1, <1>3 DEF PublishTtrss
  <2>3. QED
    BY <1>1, <1>3, <2>1, <2>2 DEF OrderInv, PublishTtrss
<1>4. CASE pc \in Polling /\ pc' \in Polling /\ UNCHANGED <<last_seen_id, new_max_id>>
           /\ (pc' = "ttrss" => pc = "ttrss" /\ UNCHANGED todo)
  BY <1>1, <1>4 DEF OrderInv
<1>5. CASE pc' \notin Polling
  BY <1>5 DEF OrderInv, Polling
<1>6. QED
  BY <1>2, <1>3, <1>4, <1>5
  DEF Polling, Next, Worker, Restart, Offer, Deliver, DeliveryFails, Start,
      process_bluesky, Search, PublishPost, Remember, Sleep, Flush, save_last_id,
      save_bluesky_state, SaveFails, AfterSave, Raise, Exit, Crash

\* The running worker never takes back what it is done with.
LEMMA DoneIsKept ==
    ASSUME LongMemory, IInv, OnceInv, [Next]_vars, Running, Running',
           NEW a \in Articles, Done(a[1], a[2])
    PROVE  Done(a[1], a[2])'
<1> USE DEF sources, kafka, poll, memory, files, vars
<1>1. TypeOK /\ TodoInv /\ MemoryInv /\ OrderInv
  BY DEF IInv, OnceInv
<1> DEFINE s == a[1]
           id == a[2]
<1>2. /\ s \in Sources /\ id \in Nat
      /\ last_seen_id \in Nat /\ new_max_id \in Nat /\ BlueskyLimit \in Nat
      /\ \A i \in todo : i \in Nat
  BY <1>1, Limits DEF TypeOK, Articles, MaxId
<1> HIDE DEF s, id
<1>3. CASE s = Rss
  <2>1. id <= last_seen_id \/ (pc \in Polling /\ id <= new_max_id)
    BY <1>3 DEF Done, s, id
  <2>2. CASE UNCHANGED <<pc, last_seen_id, new_max_id>>
    BY <1>3, <2>1, <2>2 DEF Done, s, id
  <2>3. CASE last_seen_id' = last_seen_id /\ pc \notin Polling
    BY <1>3, <2>1, <2>3 DEF Done, s, id
  <2>4. CASE pc \in Polling /\ pc' \in Polling /\ UNCHANGED <<last_seen_id, new_max_id>>
    BY <1>3, <2>1, <2>4 DEF Done, s, id
  <2>5. ASSUME NEW i \in todo, PublishTtrss(i) PROVE Done(s, id)'
    <3>1. i > new_max_id /\ new_max_id' = i /\ last_seen_id' = last_seen_id /\ pc' = pc
      BY <1>1, <1>2, <2>5 DEF OrderInv, PublishTtrss
    <3>2. id <= last_seen_id' \/ (pc' \in Polling /\ id <= new_max_id')
      BY <1>2, <2>1, <3>1
    <3>3. QED
      BY <1>3, <3>2 DEF Done
  <2>6. CASE Sleep \/ Flush
    <3>1. last_seen_id <= new_max_id /\ (Sleep => new_max_id <= last_seen_id)
      BY <1>1, <1>2, <2>6 DEF OrderInv, Polling, Sleep, Flush, ttrss_processed
    <3>2. (last_seen_id' = last_seen_id /\ Sleep) \/ last_seen_id' = new_max_id
      BY <2>6 DEF Sleep, Flush
    <3>3. id <= last_seen_id'
      BY <1>2, <2>1, <3>1, <3>2
    <3>4. QED
      BY <1>3, <3>3 DEF Done, s, id
  <2>7. QED
    BY <2>2, <2>3, <2>4, <2>5, <2>6
    DEF s, id, Polling, Running, Next, Worker, Restart, Offer, Deliver, DeliveryFails, Start, process_ttrss,
        process_bluesky, Search, PublishPost, Remember, save_last_id,
        save_bluesky_state, SaveFails, Raise, Exit, Crash
<1>4. CASE s # Rss
  <2>1. /\ s \in Queries /\ offered[s] \in Nat /\ offered'[s] \in Nat /\ offered[s] <= offered'[s]
        /\ bluesky_state[s] \in Seq(1..MaxPosts)
    BY <1>1, <1>2, <1>4, Counts DEF Sources, TypeOK
  <2> DEFINE Old == id <= offered[s] - BlueskyLimit /\ ~(pc = "search" /\ query = s /\ id \in todo)
  <2>2. id \in ToSet(bluesky_state[s]) \/ Old
    BY <1>4 DEF Done, s, id
  <2>3. id <= offered[s] - BlueskyLimit => id <= offered'[s] - BlueskyLimit
    BY <1>2, <2>1
  <2>4. CASE bluesky_state' = bluesky_state /\ (pc' # "search" \/ UNCHANGED <<pc, query, todo>>)
    BY <1>4, <2>2, <2>3, <2>4 DEF Done, s, id
  <2>5. ASSUME NEW q \in queries, Search(q) PROVE Done(s, id)'
    <3>1. /\ bluesky_state' = bluesky_state /\ query' = q /\ offered' = offered
          /\ todo' = Newest(q, BlueskyLimit) \ ToSet(bluesky_state[q])
          /\ pc = "bluesky"
      BY <2>5 DEF Search
    <3>2. CASE id \in ToSet(bluesky_state[s])
      BY <1>4, <3>1, <3>2 DEF Done
    <3>3. CASE Old
      <4>1. s = q => id \notin todo'
        BY <1>2, <2>1, <3>1, <3>3 DEF Newest
      <4>2. QED
        BY <1>4, <3>1, <3>3, <4>1 DEF Done
    <3>4. QED
      BY <2>2, <3>2, <3>3
  <2>6. ASSUME NEW i \in todo, PublishPost(i) PROVE Done(s, id)'
    <3>1. /\ offered' = offered /\ query' = query /\ pc' = pc /\ todo' = todo \ {i}
          /\ query \in Queries /\ i \in 1..MaxPosts
          /\ bluesky_state'[s] = IF s = query THEN Append(bluesky_state[s], i) ELSE bluesky_state[s]
      BY <1>1, <2>1, <2>6 DEF TypeOK, TodoInv, PublishPost
    <3>2. ToSet(bluesky_state[s]) \subseteq ToSet(bluesky_state'[s])
      <4> DEFINE Ids == 1..MaxPosts
                 list == bluesky_state[s]
      <4>1. list \in Seq(Ids) /\ i \in Ids
        BY <2>1, <3>1
      <4> HIDE DEF Ids, list
      <4>2. ToSet(list) \subseteq ToSet(Append(list, i))
        BY <4>1, AppendedSet
      <4>3. QED
        BY <3>1, <4>2 DEF list
    <3>3. QED
      BY <1>4, <2>2, <3>1, <3>2 DEF Done
  <2>7. CASE Remember
    <3>1. /\ offered' = offered /\ pc' = "bluesky"
          /\ bluesky_state'[s] \in {bluesky_state[s], LastIds(bluesky_state[s])}
      BY <1>1, <2>1, <2>7 DEF TypeOK, Remember
    <3>2. \A x \in ToSet(bluesky_state[s]) : x \in ToSet(LastIds(bluesky_state[s])) \/ x <= offered[s] - BlueskyLimit
      <4>1. Spread(bluesky_state[s]) /\ \A i \in DOMAIN bluesky_state[s] : bluesky_state[s][i] <= offered[s]
        BY <1>1, <2>1 DEF MemoryInv, Offered
      <4>2. QED
        BY <2>1, <4>1, Forgotten
    <3>3. QED
      BY <1>4, <2>2, <3>1, <3>2 DEF Done, s, id
  <2>8. QED
    BY <2>4, <2>5, <2>6, <2>7
    DEF s, id, Running, Next, Worker, Restart, Offer, Deliver, DeliveryFails, Start, process_ttrss, PublishTtrss,
        process_bluesky, Sleep, Flush, save_last_id,
        save_bluesky_state, SaveFails, AfterSave, Raise, Exit, Crash
<1>5. QED
  BY <1>3, <1>4 DEF s, id

\* What every step does to the buffer and to the copies of an article.
LEMMA CopiesKept ==
    ASSUME IInv, BufferInv, [Next]_vars
    PROVE  \/ UNCHANGED <<delivered, buffer>>
           \/ /\ \A a \in Articles : Copies(a)' <= Copies(a)
              /\ ToSet(buffer') \subseteq ToSet(buffer) /\ Distinct(buffer')
              /\ (pc' = pc /\ UNCHANGED <<todo, new_max_id, query, bluesky_state, last_seen_id, offered>>) \/ Crash
              /\ Crash => buffer' = <<>>
           \/ \E id \in todo : PublishTtrss(id) \/ PublishPost(id)
<1> USE DEF sources, kafka, poll, memory, files, vars
<1>1. TypeOK /\ \A a \in Articles : delivered[a] \in Nat
  BY DEF IInv, TypeOK
<1>2. CASE Deliver \/ DeliveryFails
  <2>1. buffer # <<>> /\ buffer' = Tail(buffer) /\ buffer \in Seq(Articles) /\ Distinct(buffer)
    BY <1>1, <1>2 DEF Deliver, DeliveryFails, TypeOK, BufferInv
  <2>2. /\ Distinct(Tail(buffer)) /\ Head(buffer) \notin ToSet(Tail(buffer)) /\ Head(buffer) \in Articles
        /\ ToSet(buffer) = {Head(buffer)} \cup ToSet(Tail(buffer))
    BY <2>1, DistinctBuffer
  <2>3. ASSUME NEW a \in Articles PROVE Copies(a)' <= Copies(a)
    <3>1. CASE a = Head(buffer)
      <4>1. delivered'[a] <= delivered[a] + 1 /\ delivered'[a] \in Nat
        BY <1>1, <1>2, <3>1 DEF Deliver, DeliveryFails, TypeOK
      <4>2. a \in ToSet(buffer) /\ a \notin ToSet(buffer')
        BY <2>1, <2>2, <3>1
      <4>3. QED
        BY <1>1, <4>1, <4>2 DEF Copies
    <3>2. CASE a # Head(buffer)
      <4>1. delivered'[a] = delivered[a]
        BY <1>1, <1>2, <3>2 DEF Deliver, DeliveryFails, TypeOK
      <4>2. a \in ToSet(buffer) <=> a \in ToSet(buffer')
        BY <2>1, <2>2, <3>2
      <4>3. QED
        BY <1>1, <4>1, <4>2 DEF Copies
    <3>3. QED
      BY <3>1, <3>2
  <2>4. pc' = pc /\ UNCHANGED <<todo, new_max_id, query, bluesky_state, last_seen_id, offered>> /\ ~Crash
    <3>1. pc' = pc /\ UNCHANGED <<todo, new_max_id, query, bluesky_state, last_seen_id, offered>>
      BY <1>2 DEF Deliver, DeliveryFails
    <3>2. ~Crash
      BY <3>1 DEF Crash
    <3>3. QED
      BY <3>1, <3>2
  <2>5. QED
    BY <2>1, <2>2, <2>3, <2>4
<1>3. CASE Crash
  <2>1. buffer' = <<>> /\ delivered' = delivered /\ ToSet(<<>>) = {}
    BY <1>3 DEF Crash, ToSet
  <2>2. Distinct(<<>>)
    BY DEF Distinct
  <2>3. \A a \in Articles : Copies(a)' <= Copies(a)
    BY <1>1, <2>1 DEF Copies
  <2>4. QED
    BY <1>3, <2>1, <2>2, <2>3
<1>4. QED
  BY <1>2, <1>3
  DEF Next, Worker, Restart, Offer, Start, process_ttrss,
      process_bluesky, Search, Remember, Sleep, Flush, save_last_id,
      save_bluesky_state, SaveFails, Raise, Exit

\* What the worker publishes it was not done with, and is done with afterwards.
LEMMA PublishOnce ==
    ASSUME IInv, OnceInv, [Next]_vars, NEW i \in todo, PublishTtrss(i) \/ PublishPost(i)
    PROVE  \E a \in Articles : /\ ~Done(a[1], a[2]) /\ Done(a[1], a[2])'
                               /\ buffer' = Append(buffer, a) /\ delivered' = delivered
                               /\ Running /\ Running'
<1> USE DEF sources, kafka, poll, memory, files, vars
<1>1. TypeOK /\ TodoInv /\ SearchInv /\ OrderInv
  BY DEF IInv, OnceInv
<1>2. CASE PublishTtrss(i)
  <2>1. i \in 1..MaxArticles /\ <<Rss, i>> \in Articles /\ pc = "ttrss"
    BY <1>1, <1>2, ArticleIds DEF TodoInv, PublishTtrss
  <2>2. /\ last_seen_id \in Nat /\ new_max_id \in Nat /\ MaxArticles \in Nat
        /\ i > new_max_id /\ last_seen_id <= new_max_id
    BY <1>1, <2>1, Limits DEF TypeOK, OrderInv, Polling
  <2>3. new_max_id' = i /\ pc' = "ttrss" /\ buffer' = Append(buffer, <<Rss, i>>) /\ delivered' = delivered
    BY <1>2, <2>1, <2>2 DEF PublishTtrss, publish
  <2>4. ~Done(Rss, i)
    BY <2>1, <2>2 DEF Done
  <2>5. Done(Rss, i)'
    BY <2>1, <2>3 DEF Done, Polling
  <2>6. QED
    BY <2>1, <2>3, <2>4, <2>5 DEF Running
<1>3. CASE PublishPost(i)
  <2>1. i \in 1..MaxPosts /\ query \in Queries /\ <<query, i>> \in Articles /\ pc = "search" /\ query # Rss
    BY <1>1, <1>3, ArticleIds, SourcesAssumption DEF TypeOK, TodoInv, PublishPost
  <2>2. /\ pc' = "search" /\ buffer' = Append(buffer, <<query, i>>) /\ delivered' = delivered
        /\ bluesky_state'[query] = Append(bluesky_state[query], i) /\ query' = query
    BY <1>1, <1>3, <2>1 DEF PublishPost, publish, TypeOK
  <2>3. ~Done(query, i)
    BY <1>1, <2>1 DEF Done, SearchInv
  <2>4. i \in ToSet(Append(bluesky_state[query], i))
    <3> DEFINE Ids == 1..MaxPosts
               list == bluesky_state[query]
    <3>1. list \in Seq(Ids) /\ i \in Ids
      BY <1>1, <2>1 DEF TypeOK
    <3> HIDE DEF Ids, list
    <3>2. i \in ToSet(Append(list, i))
      BY <3>1, AppendedSet
    <3>3. QED
      BY <3>2 DEF list
  <2>5. PICK q \in Queries : q = query
    BY <2>1
  <2>6. Done(q, i)'
    BY <2>1, <2>2, <2>4, <2>5 DEF Done
  <2>7. QED
    BY <2>1, <2>2, <2>3, <2>5, <2>6 DEF Running
<1>4. QED
  BY <1>2, <1>3

\* No article has more copies than it may.
LEMMA CopiesStep ==
    ASSUME LongMemory, IInv, OnceInv, [Next]_vars
    PROVE  BufferInv' /\ CopiesInv'
<1> USE DEF sources, kafka, poll, memory, files, vars
<1>1. TypeOK /\ BufferInv /\ CopiesInv /\ buffer \in Seq(Articles)
  BY DEF IInv, OnceInv, TypeOK
<1>2. /\ Ends \in Nat /\ Ends' \in {Ends, Ends + 1}
      /\ \A a \in Articles : delivered[a] \in Nat /\ Copies(a) \in Nat
  BY <1>1, Counts DEF TypeOK, Copies
<1>3. ToSet(buffer) \subseteq Articles
  BY <1>1 DEF ToSet
<1>4. \A a \in Articles : Running /\ Running' /\ Done(a[1], a[2]) => Done(a[1], a[2])'
  BY DoneIsKept
<1>5. /\ ~Running' /\ Running => Ends' = Ends + 1
      /\ Running' /\ ~Running => buffer = <<>> /\ buffer' = <<>>
      /\ pc' = "down" /\ pc # "down" => buffer' = <<>>
      /\ pc' = "down" /\ pc = "down" => buffer = <<>> /\ buffer' = <<>>
  BY <1>1, <1>2 DEF BufferInv, Ends, Running, Next, Worker, Restart, Offer, Deliver, DeliveryFails, Start, process_ttrss, PublishTtrss,
        process_bluesky, Search, PublishPost, Remember, Sleep, Flush, save_last_id,
        save_bluesky_state, SaveFails, AfterSave, Raise, Exit, Crash, TypeOK
<1>6. ASSUME \A a \in Articles : Copies(a)' \in Nat /\ Copies(a)' <= Copies(a),
             ToSet(buffer') \subseteq ToSet(buffer), Distinct(buffer')
      PROVE  BufferInv' /\ CopiesInv'
  <2>1. CopiesInv'
    <3> SUFFICES ASSUME NEW a \in Articles
                 PROVE  /\ Copies(a)' <= Ends' + 1
                        /\ ~(Running' /\ Done(a[1], a[2])') => Copies(a)' <= Ends'
      BY DEF CopiesInv
    <3>1. /\ Copies(a)' \in Nat /\ Copies(a)' <= Copies(a) /\ Copies(a) \in Nat
          /\ Copies(a) <= Ends + 1 /\ (~(Running /\ Done(a[1], a[2])) => Copies(a) <= Ends)
      BY <1>1, <1>2, <1>6 DEF CopiesInv
    <3>2. CASE Running /\ ~Running'
      BY <1>2, <1>5, <3>1, <3>2
    <3>3. CASE ~(Running /\ ~Running')
      BY <1>2, <1>4, <3>1, <3>3
    <3>4. QED
      BY <3>2, <3>3
  <2>2. Running' => \A a \in ToSet(buffer') : Done(a[1], a[2])'
    <3>1. ToSet(<<>>) = {}
      BY DEF ToSet
    <3>2. QED
      BY <1>1, <1>3, <1>4, <1>5, <1>6, <3>1 DEF BufferInv
  <2>3. pc' = "down" => buffer' = <<>>
    BY <1>5
  <2>4. QED
    BY <1>6, <2>1, <2>2, <2>3 DEF BufferInv
<1>7. CASE UNCHANGED <<delivered, buffer>>
  <2>1. \A a \in Articles : Copies(a)' = Copies(a)
    BY <1>7 DEF Copies
  <2>2. \A a \in Articles : Copies(a)' \in Nat /\ Copies(a)' <= Copies(a)
    BY <1>2, <2>1
  <2>3. Distinct(buffer') /\ ToSet(buffer') \subseteq ToSet(buffer)
    BY <1>1, <1>7 DEF BufferInv
  <2>4. QED
    BY <1>6, <2>2, <2>3
<1>8. CASE /\ \A a \in Articles : Copies(a)' <= Copies(a)
           /\ ToSet(buffer') \subseteq ToSet(buffer) /\ Distinct(buffer')
  <2>1. \A a \in Articles : delivered'[a] \in Nat
    BY TypeStep DEF IInv, TypeOK
  <2>2. \A a \in Articles : Copies(a)' \in Nat
    BY <2>1 DEF Copies
  <2>3. QED
    BY <1>6, <1>8, <2>2
<1>9. ASSUME NEW i \in todo, PublishTtrss(i) \/ PublishPost(i)
      PROVE  BufferInv' /\ CopiesInv'
  <2>1. PICK b \in Articles : /\ ~Done(b[1], b[2]) /\ Done(b[1], b[2])'
                              /\ buffer' = Append(buffer, b) /\ delivered' = delivered
                              /\ Running /\ Running'
    BY <1>9, PublishOnce
  <2>2. b \notin ToSet(buffer) /\ Copies(b) <= Ends
    BY <1>1, <2>1 DEF BufferInv, CopiesInv
  <2>3. ToSet(buffer') = ToSet(buffer) \cup {b} /\ Distinct(buffer')
    BY <1>1, <2>1, <2>2, AppendedSet, DistinctBuffer DEF BufferInv
  <2>4. ASSUME NEW a \in Articles
        PROVE  /\ Copies(a)' <= Ends' + 1
               /\ ~(Running' /\ Done(a[1], a[2])') => Copies(a)' <= Ends'
    <3>1. CASE a = b
      <4>1. Copies(b)' = Copies(b) + 1
        BY <1>2, <2>1, <2>2, <2>3 DEF Copies
      <4>2. Copies(b)' <= Ends' + 1
        BY <1>2, <2>2, <4>1
      <4>3. QED
        BY <2>1, <3>1, <4>2
    <3>2. CASE a # b
      <4>1. Copies(a)' = Copies(a)
        BY <2>1, <2>3, <3>2 DEF Copies
      <4>2. Copies(a) <= Ends + 1 /\ (~Done(a[1], a[2]) => Copies(a) <= Ends) /\ Copies(a) \in Nat
        BY <1>1, <1>2 DEF CopiesInv
      <4>3. QED
        BY <1>2, <1>4, <2>1, <4>1, <4>2
    <3>3. QED
      BY <3>1, <3>2
  <2>5. \A a \in ToSet(buffer') : Done(a[1], a[2])'
    BY <1>1, <1>3, <1>4, <2>1, <2>3 DEF BufferInv
  <2>6. pc' # "down"
    BY <2>1 DEF Running
  <2>7. QED
    BY <2>3, <2>4, <2>5, <2>6 DEF BufferInv, CopiesInv
<1>10. QED
  BY <1>1, <1>7, <1>8, <1>9, CopiesKept

\* A worker that has never run has published nothing.
LEMMA OnceInit ==
    ASSUME Init
    PROVE  OnceInv
<1>1. Ends = 0 /\ pc = "down" /\ buffer = <<>> /\ ToSet(<<>>) = {} /\ \A a \in Articles : delivered[a] = 0
  BY DEF Init, Ends, ToSet
<1>2. MemoryInv
  BY DEF Init, MemoryInv, NoIds, Spread, Offered
<1>3. SearchInv /\ OrderInv
  BY <1>1 DEF SearchInv, OrderInv, Polling
<1>4. BufferInv
  BY <1>1 DEF BufferInv, Running, Distinct
<1>5. CopiesInv
  BY <1>1 DEF CopiesInv, Copies
<1>6. QED
  BY <1>2, <1>3, <1>4, <1>5 DEF OnceInv

-----------------------------------------------------------------------------
(* Theorems.                                                               *)

\* The invariant holds of the worker in every state of every behaviour.
THEOREM InductiveInvariant == Spec => []IInv
<1>1. Init => IInv
  BY InvInit
<1>2. IInv /\ [Next]_vars => IInv'
  BY InvStep
<1>3. QED
  BY <1>1, <1>2, PTL DEF Spec

\* Every variable has its type, and no saved list is longer than
\* BLUESKY_STATE_MAX_IDS (producer.py:345), for any number of queries.
THEOREM TypeCorrect == Spec => []TypeOK
<1>1. IInv => TypeOK
  BY DEF IInv
<1>2. QED
  BY <1>1, InductiveInvariant, PTL

\* main() saves an id only after what it stands for has left the producer's buffer
\* (producer.py:374-382), whatever fails and wherever the process ends.
THEOREM FilesNeverRunAhead == Spec => []SavedIsDelivered
<1>1. IInv => SavedIsDelivered
  BY DEF IInv
<1>2. QED
  BY <1>1, InductiveInvariant, PTL

\* An article is published once, and once more at most for every end of the process, as
\* long as a query remembers the posts of two answers less one (producer.py:46, 345: it is
\* 500 of answers of 20).  A memory of one answer is not enough: posts are published newest
\* first, and the next answer can push out of it what it holds itself.
THEOREM PublishedOnce ==
    ASSUME LongMemory
    PROVE  Spec => []DuplicatesAreExplained
<1>1. Init => OnceInv
  BY OnceInit
<1>2. IInv /\ OnceInv /\ [Next]_vars => OnceInv'
  BY MemoryStep, SearchStep, OrderStep, CopiesStep DEF OnceInv
<1>3. IInv /\ OnceInv => DuplicatesAreExplained
  <2> SUFFICES ASSUME IInv, OnceInv, NEW a \in Articles PROVE delivered[a] <= 1 + faults + crashes
    BY DEF DuplicatesAreExplained
  <2>1. Copies(a) <= Ends + 1 /\ delivered[a] \in Nat /\ faults \in Nat /\ crashes \in Nat
    BY Limits DEF IInv, OnceInv, TypeOK, CopiesInv
  <2>2. QED
    BY <2>1 DEF Copies, Ends
<1>4. QED
  BY <1>1, <1>2, <1>3, InductiveInvariant, PTL DEF Spec
=============================================================================

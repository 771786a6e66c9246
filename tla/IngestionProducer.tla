-------------------------- MODULE IngestionProducer --------------------------
(***************************************************************************)
(* The ingestion worker: ingestion-service/producer.py.                    *)
(*                                                                         *)
(* One process polls TT-RSS and then searches Bluesky, publishes what it   *)
(* does not know to raw_ingestion, flushes the Kafka producer, and writes  *)
(* what it has seen to two files: the highest TT-RSS id, and the last ids  *)
(* of every Bluesky query.  It starts from these files again.              *)
(*                                                                         *)
(* Abstractions.                                                           *)
(*  - A source, TT-RSS (Rss) or a query, offers articles 1, 2, ... in the  *)
(*    order of their appearance, and answers with its newest ones; an      *)
(*    article is <<source, id>>.  One post found by two queries is two     *)
(*    articles, as it is for the worker.                                   *)
(*  - The active queries of a poll are any subset of Queries: priority     *)
(*    topics come and go.  Their order in a poll is left open.             *)
(*  - A file that open(..., "w") has emptied reads as 0, or as no ids.     *)
(*  - bluesky_state and updated_state share their lists and are one: when  *)
(*    they differ, the process ends or writes nothing new.                 *)
(***************************************************************************)
EXTENDS Integers, Sequences, FiniteSets, SequencesExt

CONSTANTS
    Queries,        \* Bluesky queries
    Rss,            \* the TT-RSS instance as a source
    TtrssLimit,     \* TTRSS_BATCH_LIMIT
    BlueskyLimit,   \* BLUESKY_LIMIT
    MaxIds,         \* BLUESKY_STATE_MAX_IDS, at least 1
    MaxArticles,    \* bound: articles of TT-RSS
    MaxPosts,       \* bound: posts of every query
    MaxFaults,      \* bound: failed calls, deliveries and writes
    MaxCrashes      \* bound: kills of the process

ASSUME SourcesAssumption == Rss \notin Queries
ASSUME BoundsAssumption ==
    /\ {TtrssLimit, BlueskyLimit, MaxIds} \subseteq Nat \ {0}
    /\ {MaxArticles, MaxPosts, MaxFaults, MaxCrashes} \subseteq Nat

VARIABLES
    offered,        \* how many articles every source has
    delivered,      \* raw_ingestion: copies of every article
    buffer,         \* messages in the Kafka producer
    pc,             \* where main() is
    todo,           \* fetched and unknown ids, yet to be published
    queries,        \* queries yet to be searched in this poll
    query,          \* the query being worked on
    last_seen_id, new_max_id,
    bluesky_state,  \* known ids of every query
    processed,      \* whether bluesky_processed > 0
    searching,      \* whether there is a bluesky_fetcher
    state_file, bluesky_file,
    given_up,       \* history: articles whose delivery failed
    passed_over,    \* history: TT-RSS ids that no poll returned before newer ones
    faults, crashes \* history: how many of each so far

sources == <<offered, passed_over>>
kafka == <<delivered, buffer, given_up>>
poll == <<todo, queries, query, new_max_id, processed>>
memory == <<last_seen_id, bluesky_state, searching>>
files == <<state_file, bluesky_file>>
vars == <<sources, kafka, pc, poll, memory, files, faults, crashes>>

Sources == Queries \cup {Rss}
MaxId(s) == IF s = Rss THEN MaxArticles ELSE MaxPosts
Articles == UNION {{s} \X (1..MaxId(s)) : s \in Sources}
NoIds == [q \in Queries |-> <<>>]

Init ==
    /\ offered = [s \in Sources |-> 0]
    /\ delivered = [a \in Articles |-> 0]
    /\ buffer = <<>>
    /\ pc = "down"
    /\ todo = {} /\ queries = {} /\ query = Rss
    /\ last_seen_id = 0 /\ new_max_id = 0
    /\ bluesky_state = NoIds
    /\ processed = FALSE /\ searching = FALSE
    /\ state_file = 0 /\ bluesky_file = NoIds
    /\ given_up = {} /\ passed_over = {}
    /\ faults = 0 /\ crashes = 0

-----------------------------------------------------------------------------
(* The sources and the Kafka producer.                                     *)

Offer(s) ==
    /\ offered[s] < MaxId(s)
    /\ offered' = [offered EXCEPT ![s] = @ + 1]
    /\ UNCHANGED <<passed_over, kafka, pc, poll, memory, files, faults, crashes>>

\* What a source answers when asked for n articles.
Newest(s, n) == {id \in 1..offered[s] : id > offered[s] - n}

\* produce() puts the message into the buffer, from where a thread delivers it.
publish(s, id) == buffer' = Append(buffer, <<s, id>>)

Deliver ==
    /\ buffer # <<>>
    /\ delivered' = [delivered EXCEPT ![Head(buffer)] = @ + 1]
    /\ buffer' = Tail(buffer)
    /\ UNCHANGED <<sources, given_up, pc, poll, memory, files, faults, crashes>>

\* The broker is away for too long; nobody has asked for a delivery report.
DeliveryFails ==
    /\ buffer # <<>>
    /\ faults < MaxFaults
    /\ faults' = faults + 1
    /\ given_up' = given_up \cup {Head(buffer)}
    /\ buffer' = Tail(buffer)
    /\ UNCHANGED <<sources, delivered, pc, poll, memory, files, crashes>>

-----------------------------------------------------------------------------
(* main()                                                                  *)

\* Without an active query at the start there is never a fetcher.
Start(active) ==
    /\ pc = "down"
    /\ pc' = "poll"
    /\ last_seen_id' = state_file
    /\ bluesky_state' = bluesky_file
    /\ searching' = (active # {})
    /\ UNCHANGED <<sources, kafka, poll, files, faults, crashes>>

\* Mutant: the id next to the last one is taken for known.
process_ttrss_off_by_one ==
    LET answer == Newest(Rss, TtrssLimit)
    IN  /\ pc = "poll"
        /\ pc' = "ttrss"
        /\ todo' = {id \in answer : id > last_seen_id + 1}
        /\ new_max_id' = last_seen_id
        /\ passed_over' = passed_over \cup ((last_seen_id + 1)..offered[Rss] \ answer)
        /\ UNCHANGED <<offered, kafka, queries, query, processed, memory, files, faults, crashes>>

\* process_ttrss: fetch, sort by id, leave out what is not above last_seen_id.
process_ttrss ==
    LET answer == Newest(Rss, TtrssLimit)
    IN  /\ pc = "poll"
        /\ pc' = "ttrss"
        /\ todo' = {id \in answer : id > last_seen_id}
        /\ new_max_id' = last_seen_id
        /\ passed_over' = passed_over \cup ((last_seen_id + 1)..offered[Rss] \ answer)
        /\ UNCHANGED <<offered, kafka, queries, query, processed, memory, files, faults, crashes>>

PublishTtrss(id) ==
    /\ pc = "ttrss"
    /\ id \in todo /\ \A other \in todo : id <= other
    /\ publish(Rss, id)
    /\ todo' = todo \ {id}
    /\ new_max_id' = IF id > new_max_id THEN id ELSE new_max_id
    /\ UNCHANGED <<sources, delivered, given_up, pc, queries, query, processed, memory,
                   files, faults, crashes>>

\* process_bluesky begins with the active queries; without a fetcher it ends at once.
process_bluesky(active) ==
    /\ pc = "ttrss"
    /\ todo = {}
    /\ pc' = "bluesky"
    /\ queries' = IF searching THEN active ELSE {}
    /\ processed' = FALSE
    /\ UNCHANGED <<sources, kafka, todo, query, new_max_id, memory, files, faults, crashes>>

Search(q) ==
    /\ pc = "bluesky"
    /\ q \in queries
    /\ pc' = "search"
    /\ query' = q
    /\ queries' = queries \ {q}
    /\ todo' = Newest(q, BlueskyLimit) \ ToSet(bluesky_state[q])
    /\ UNCHANGED <<sources, kafka, new_max_id, processed, memory, files, faults, crashes>>

\* The newest post comes first.
PublishPost(id) ==
    /\ pc = "search"
    /\ id \in todo /\ \A other \in todo : id >= other
    /\ publish(query, id)
    /\ todo' = todo \ {id}
    /\ bluesky_state' = [bluesky_state EXCEPT ![query] = Append(@, id)]
    /\ processed' = TRUE
    /\ UNCHANGED <<sources, delivered, given_up, pc, queries, query, new_max_id,
                   last_seen_id, searching, files, faults, crashes>>

\* Mutant: known_ids[:BLUESKY_STATE_MAX_IDS]
FirstIds(ids) == IF Len(ids) > MaxIds THEN SubSeq(ids, 1, MaxIds) ELSE ids

\* known_ids[-BLUESKY_STATE_MAX_IDS:]
LastIds(ids) == IF Len(ids) > MaxIds THEN SubSeq(ids, Len(ids) - MaxIds + 1, Len(ids)) ELSE ids

Remember ==
    /\ pc = "search"
    /\ todo = {}
    /\ pc' = "bluesky"
    /\ bluesky_state' = [bluesky_state EXCEPT ![query] = LastIds(@)]
    /\ UNCHANGED <<sources, kafka, poll, last_seen_id, searching, files, faults, crashes>>

ttrss_processed == new_max_id > last_seen_id

\* Nothing new: sleep and poll again.
Sleep ==
    /\ pc = "bluesky"
    /\ queries = {}
    /\ ~ttrss_processed /\ ~processed
    /\ pc' = "poll"
    /\ UNCHANGED <<sources, kafka, poll, memory, files, faults, crashes>>

\* Mutant: the flush does not wait.
FlushWithoutWaiting ==
    /\ pc = "bluesky"
    /\ queries = {}
    /\ ttrss_processed \/ processed
    /\ pc' = IF ttrss_processed THEN "save" ELSE "save_bluesky"
    /\ last_seen_id' = new_max_id
    /\ UNCHANGED <<sources, kafka, poll, bluesky_state, searching, files, faults, crashes>>

\* flush() returns when the buffer is empty, whatever has become of its messages.
Flush ==
    /\ pc = "bluesky"
    /\ queries = {}
    /\ ttrss_processed \/ processed
    /\ buffer = <<>>
    /\ pc' = IF ttrss_processed THEN "save" ELSE "save_bluesky"
    /\ last_seen_id' = new_max_id
    /\ UNCHANGED <<sources, kafka, poll, bluesky_state, searching, files, faults, crashes>>

AfterSave == IF pc = "save" /\ processed THEN "save_bluesky" ELSE "poll"

save_last_id ==
    /\ pc = "save"
    /\ pc' = AfterSave
    /\ state_file' = last_seen_id
    /\ UNCHANGED <<sources, kafka, poll, memory, bluesky_file, faults, crashes>>

save_bluesky_state ==
    /\ pc = "save_bluesky"
    /\ pc' = AfterSave
    /\ bluesky_file' = bluesky_state
    /\ UNCHANGED <<sources, kafka, poll, memory, state_file, faults, crashes>>

\* open("w") empties a file before anything is written to it.
Emptied ==
    \/ pc = "save" /\ state_file' = 0 /\ UNCHANGED bluesky_file
    \/ pc = "save_bluesky" /\ bluesky_file' = NoIds /\ UNCHANGED state_file

\* An exception of open or write is logged and no more.
SaveFails ==
    /\ pc \in {"save", "save_bluesky"}
    /\ faults < MaxFaults
    /\ faults' = faults + 1
    /\ pc' = AfterSave
    /\ UNCHANGED files \/ Emptied
    /\ UNCHANGED <<sources, kafka, poll, memory, crashes>>

\* A fetch or a publication raises, or Ctrl-C: main flushes and ends.
Raise ==
    /\ pc \in {"poll", "ttrss", "bluesky", "search"}
    /\ faults < MaxFaults
    /\ faults' = faults + 1
    /\ pc' = "exit"
    /\ UNCHANGED <<sources, kafka, poll, memory, files, crashes>>

Exit ==
    /\ pc = "exit"
    /\ buffer = <<>>
    /\ pc' = "down"
    /\ UNCHANGED <<sources, kafka, poll, memory, files, faults, crashes>>

\* The process is killed, or stopped with Ctrl-C while it saves; the file may be empty.
Crash ==
    /\ pc # "down"
    /\ crashes < MaxCrashes
    /\ crashes' = crashes + 1
    /\ pc' = "down"
    /\ buffer' = <<>>
    /\ UNCHANGED files \/ Emptied
    /\ UNCHANGED <<sources, delivered, given_up, poll, memory, faults>>

-----------------------------------------------------------------------------
Worker ==
    \/ process_ttrss
    \/ \E id \in todo : PublishTtrss(id) \/ PublishPost(id)
    \/ \E active \in SUBSET Queries : process_bluesky(active)
    \/ \E q \in queries : Search(q)
    \/ Remember
    \/ Sleep
    \/ Flush
    \/ save_last_id
    \/ save_bluesky_state
    \/ Exit

Restart == \E active \in SUBSET Queries : Start(active)

Next ==
    \/ \E s \in Sources : Offer(s)
    \/ Deliver
    \/ DeliveryFails
    \/ Worker
    \/ Restart
    \/ SaveFails
    \/ Raise
    \/ Crash

Spec == Init /\ [][Next]_vars

\* The loop runs, the producer's thread delivers, and somebody starts the worker again.
FairSpec == Spec /\ WF_vars(Worker) /\ WF_vars(Deliver) /\ WF_vars(Restart)

-----------------------------------------------------------------------------
(* Properties.                                                             *)

TypeOK ==
    /\ offered \in [Sources -> Nat] /\ \A s \in Sources : offered[s] <= MaxId(s)
    /\ delivered \in [Articles -> Nat]
    /\ buffer \in Seq(Articles)
    /\ pc \in {"down", "poll", "ttrss", "bluesky", "search", "save", "save_bluesky", "exit"}
    /\ todo \subseteq Nat \ {0}
    /\ queries \subseteq Queries
    /\ query \in Sources /\ (pc = "search" => query \in Queries)
    /\ {last_seen_id, new_max_id, state_file} \subseteq 0..MaxArticles
    /\ {bluesky_state, bluesky_file} \subseteq [Queries -> Seq(1..MaxPosts)]
    /\ \A q \in Queries : Len(bluesky_file[q]) <= MaxIds
    /\ {processed, searching} \subseteq BOOLEAN
    /\ given_up \subseteq Articles
    /\ passed_over \subseteq 1..MaxArticles
    /\ faults \in 0..MaxFaults /\ crashes \in 0..MaxCrashes

Settled(s, id) == delivered[<<s, id>>] > 0 \/ <<s, id>> \in given_up

\* What the worker will never ask for again is in raw_ingestion: everything up to
\* the saved id, and every saved id of a query, was delivered before it was saved,
\* unless the broker gave it up or a poll passed it over.
SavedIsDelivered ==
    /\ \A id \in 1..state_file : Settled(Rss, id) \/ id \in passed_over
    /\ \A q \in Queries : \A id \in ToSet(bluesky_file[q]) : Settled(q, id)

\* An article is published once, and once more at most for every time the process
\* ended: what a query remembers always covers what its next answer can hold.
DuplicatesAreExplained ==
    \A a \in Articles : delivered[a] <= 1 + faults + crashes

\* Every article of TT-RSS reaches raw_ingestion, however often the worker ends,
\* unless the broker gives it up or too many newer ones come before a poll.
EventuallyIngested ==
    \A id \in 1..MaxArticles :
        (id <= offered[Rss]) ~> (Settled(Rss, id) \/ id \in passed_over)
=============================================================================

---------------------------- MODULE PriorityTopics ----------------------------
(***************************************************************************)
(* The Bluesky priority topics: ingestion-service/bluesky_priority.py, the *)
(* handler of the ingestion API that registers one (main.py), and the part *)
(* of producer.py that reads them before every search.                     *)
(*                                                                         *)
(* The topics stand in a file.  The threads of the API process and the     *)
(* worker process each read it, change what they read and write it back,   *)
(* without a lock.                                                         *)
(*                                                                         *)
(* Abstractions.                                                           *)
(*  - A request is a normalised topic with the time of its stamp; no two   *)
(*    stamps are the same, and their texts sort as they do.                *)
(*  - The text of the file is a list of requests, or nothing since         *)
(*    open(..., "w"), or no JSON: a text written over a longer one leaves  *)
(*    the end of that one.                                                 *)
(*  - The call of active_bluesky_queries for a log line at the start is    *)
(*    one more poll.                                                       *)
(***************************************************************************)
EXTENDS Integers, FiniteSets

CONSTANTS
    Threads,        \* threads of the API
    Worker,         \* producer.py
    Topics,         \* topics that are asked for
    DefaultTerms,   \* BLUESKY_SEARCH_TERMS
    Ttl,            \* PRIORITY_TTL_SECONDS
    MaxTopics,      \* PRIORITY_MAX_TOPICS
    MaxRequests,    \* bound: calls of the API
    MaxTicks,       \* bound: time that passes besides
    MaxFaults       \* bound: failed saves and kills

ASSUME ActorsAssumption == Worker \notin Threads
ASSUME BoundsAssumption ==
    /\ {Ttl, MaxRequests, MaxTicks, MaxFaults} \subseteq Nat
    /\ MaxTopics \in Nat \ {0}

VARIABLES
    now,            \* utcnow()
    file,           \* PRIORITY_STATE_FILE
    pc,             \* where every thread, and the worker, is
    items,          \* what it read, and then what it is about to write
    fetcher,        \* whether the worker has a bluesky_fetcher
    starting,       \* whether the worker is in create_bluesky_fetcher
    searched,       \* the queries of its latest poll
    disturbed,      \* history: two have worked on the file at once, or a save failed
    answered,       \* history: registrations that were answered, until then
    requests, ticks, faults

worker == <<fetcher, starting, searched>>
counts == <<requests, ticks, faults>>
vars == <<now, file, pc, items, worker, answered, disturbed, counts>>

Actors == Threads \cup {Worker}
Times == 0..MaxRequests + MaxTicks

Init ==
    /\ now = 0
    /\ file = [text |-> "list", items |-> {}]
    /\ pc = [a \in Actors |-> IF a = Worker THEN "down" ELSE "idle"]
    /\ items = [a \in Actors |-> {}]
    /\ fetcher = FALSE /\ starting = FALSE /\ searched = {}
    /\ answered = {} /\ disturbed = FALSE
    /\ requests = 0 /\ ticks = 0 /\ faults = 0

-----------------------------------------------------------------------------
(* bluesky_priority.py                                                     *)

Newest(reqs) == {r \in reqs : \A other \in reqs : other.topic = r.topic => other.at <= r.at}

\* Mutant: sorted without reverse=True.
FirstOf(reqs) == {r \in reqs : Cardinality({other \in reqs : other.at < r.at}) < MaxTopics}

LastOf(reqs) == {r \in reqs : Cardinality({other \in reqs : other.at > r.at}) < MaxTopics}

\* Mutant: nothing expires.
prune_without_ttl(reqs, t) == LastOf(Newest(reqs))

\* The newest request of every topic that has not expired; the last MaxTopics of them.
prune_priority_topics(reqs, t) == LastOf(Newest({r \in reqs : r.at >= t - Ttl}))

\* A file that is no list of requests is read as no requests.
load_priority_topics == IF file.text = "list" THEN file.items ELSE {}

Disturb(now_disturbed) ==
    /\ disturbed' = (disturbed \/ now_disturbed)
    /\ answered' = IF disturbed' THEN {} ELSE answered

Load(a) ==
    /\ pc' = [pc EXCEPT ![a] = "loaded"]
    /\ items' = [items EXCEPT ![a] = load_priority_topics]
    /\ Disturb(\E other \in Actors : pc[other] \in {"loaded", "saving"})

\* open(..., "w") empties the file.
Open(a) ==
    /\ pc[a] = "loaded"
    /\ pc' = [pc EXCEPT ![a] = "saving"]
    /\ file' = [text |-> "nothing", items |-> {}]

Return(a, to) == pc' = [pc EXCEPT ![a] = to] /\ items' = [items EXCEPT ![a] = {}]

\* json.dump: somebody may have written a longer text since the file was emptied.
Written(reqs) ==
    \/ file' = [text |-> "list", items |-> reqs]
    \/ file.text # "nothing" /\ file' = [text |-> "no JSON", items |-> {}]

-----------------------------------------------------------------------------
(* POST /api/v1/bluesky/priority-topic: register_priority_topic.           *)

\* The request is not looked at before the file is read.
Register(th) ==
    /\ pc[th] = "idle"
    /\ requests < MaxRequests
    /\ requests' = requests + 1
    /\ Load(th)
    /\ UNCHANGED <<now, file, worker, ticks, faults>>

\* Mutant: only the new request is written.
WithoutLoaded(th, new) == {new}

WithRequest(th, new) == {r \in items[th] : r.topic # new.topic} \cup {new}

Stamp(th, topic) ==
    LET new == [topic |-> topic, at |-> now + 1]
    IN  /\ Open(th)
        /\ now' = now + 1
        /\ items' = [items EXCEPT ![th] = prune_priority_topics(WithRequest(th, new), now')]
        /\ UNCHANGED <<worker, answered, disturbed, counts>>

\* items[0], the request that is being registered
RequestOf(th) == CHOOSE r \in items[th] : \A other \in items[th] : other.at <= r.at

Answer(th) ==
    /\ pc[th] = "saving"
    /\ Written(items[th])
    /\ answered' = IF disturbed THEN {} ELSE answered \cup {RequestOf(th)}
    /\ Return(th, "idle")
    /\ UNCHANGED <<now, worker, disturbed, counts>>

-----------------------------------------------------------------------------
(* The worker: active_bluesky_queries at its start and in every poll.      *)

Start ==
    /\ pc[Worker] = "down"
    /\ starting' = TRUE
    /\ Load(Worker)
    /\ UNCHANGED <<now, file, fetcher, searched, counts>>

Poll ==
    /\ pc[Worker] = "idle"
    /\ Load(Worker)
    /\ UNCHANGED <<now, file, worker, counts>>

Prune ==
    /\ Open(Worker)
    /\ items' = [items EXCEPT ![Worker] = prune_priority_topics(@, now)]
    /\ UNCHANGED <<now, worker, answered, disturbed, counts>>

active_bluesky_queries == {r.topic : r \in items[Worker]} \cup DefaultTerms

\* Mutant: the worker goes on with the queries it started with.
SearchAsStarted ==
    /\ pc[Worker] = "saving"
    /\ Written(items[Worker])
    /\ Return(Worker, "idle")
    /\ fetcher' = IF starting THEN active_bluesky_queries # {} ELSE fetcher
    /\ starting' = FALSE
    /\ searched' = IF starting THEN active_bluesky_queries ELSE searched
    /\ UNCHANGED <<now, answered, disturbed, counts>>

\* Without a query at the start there is no fetcher, and no search, until the next start.
Search ==
    /\ pc[Worker] = "saving"
    /\ Written(items[Worker])
    /\ Return(Worker, "idle")
    /\ fetcher' = IF starting THEN active_bluesky_queries # {} ELSE fetcher
    /\ starting' = FALSE
    /\ searched' = IF fetcher /\ ~starting THEN active_bluesky_queries ELSE {}
    /\ UNCHANGED <<now, answered, disturbed, counts>>

-----------------------------------------------------------------------------
(* Time and faults.                                                        *)

Tick ==
    /\ ticks < MaxTicks
    /\ ticks' = ticks + 1
    /\ now' = now + 1
    /\ UNCHANGED <<file, pc, items, worker, answered, disturbed, requests, faults>>

\* A save raises, or its process is killed: the file may be empty, or cut off.  The API
\* answers 500, the worker ends.
SaveFails(a) ==
    /\ pc[a] \in {"loaded", "saving"}
    /\ faults < MaxFaults
    /\ faults' = faults + 1
    /\ Return(a, IF a = Worker THEN "down" ELSE "idle")
    /\ \/ UNCHANGED file
       \/ pc[a] = "saving" /\ file' = [text |-> "no JSON", items |-> {}]
    /\ Disturb(TRUE)
    /\ UNCHANGED <<now, worker, requests, ticks>>

-----------------------------------------------------------------------------
Thread(th) == Answer(th) \/ \E t \in Topics : Stamp(th, t)
Working == Poll \/ Prune \/ Search

Next ==
    \/ \E th \in Threads : Thread(th) \/ Register(th)
    \/ Working
    \/ Start
    \/ Tick
    \/ \E a \in Actors : SaveFails(a)

Spec == Init /\ [][Next]_vars

\* The threads and the worker run on, and somebody starts the worker again.
FairSpec ==
    /\ Spec
    /\ \A th \in Threads : WF_vars(Thread(th))
    /\ WF_vars(Working)
    /\ WF_vars(Start)

-----------------------------------------------------------------------------
(* Properties.                                                             *)

OnePerTopic(reqs) == \A r1, r2 \in reqs : r1.topic = r2.topic => r1 = r2

\* Types; nobody has in hand, or has written, two requests of one topic.
TypeOK ==
    /\ now \in Nat
    /\ file \in [text : {"list", "nothing", "no JSON"}, items : SUBSET [topic : Topics, at : Nat]]
    /\ pc \in [Actors -> {"down", "idle", "loaded", "saving"}]
    /\ items \in [Actors -> SUBSET [topic : Topics, at : Nat]]
    /\ \A reqs \in {file.items} \cup {items[a] : a \in Actors} : OnePerTopic(reqs)
    /\ answered \subseteq [topic : Topics, at : Nat]
    /\ disturbed \in BOOLEAN

Saving == {a \in Actors : pc[a] = "saving"}
Stamped == answered \cup {RequestOf(th) : th \in Saving \cap Threads}
Stored == (UNION {items[a] : a \in Saving}) \cup file.items

\* A request that has not expired, and not given way to newer ones.
Due(r) ==
    LET newer == {other.topic : other \in {o \in Stamped : o.at > r.at}}
    IN  r.at >= now - Ttl /\ r.topic \notin newer /\ Cardinality(newer) < MaxTopics

\* As long as no two calls work on the file at once and no save fails, no answered
\* request is lost before its time: it stands in the file, or in what a call is about
\* to write, until it expires, is renewed, or MaxTopics newer topics push it out.
AnswersSurvive == \A r \in answered : Due(r) => r \in Stored

\* Also when calls overlap, saves fail or the file is no JSON, the worker searches no
\* topic but the default terms and those somebody asked for in the last Ttl; an old
\* stamp that an overlapping call writes back is not searched beyond its time.
ActiveIsRecent ==
    [][pc[Worker] = "loaded" /\ pc'[Worker] = "saving" =>
        \A r \in items'[Worker] : r.at >= now - Ttl /\ r.at \in 1..now]_vars

\* Whether the topic stamped at n was answered and the latest poll did not search it.
Owed(n) == \E r \in answered : r.at = n /\ Due(r) /\ r.topic \notin searched

\* A topic that was answered is searched, unless it expires or is pushed out first, or
\* another call or a failed save has disturbed the file, or the worker has no fetcher
\* because it started without a query.
EventuallySearched ==
    \A n \in Times \ {0} : Owed(n) ~> (~Owed(n) \/ (~fetcher /\ pc[Worker] = "idle"))
=============================================================================

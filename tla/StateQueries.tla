---------------------------- MODULE StateQueries ----------------------------
(***************************************************************************)
(* GET /state of the graph storage service: get_state of api.py and the    *)
(* ReconstructionCache of state.py, over the tables that GraphStorage      *)
(* writes.                                                                 *)
(*                                                                         *)
(* The threads of the API's pool share one cache, an OrderedDict, without  *)
(* a lock: other threads run between any two of its calls.  A request that *)
(* is not answered from the cache queries the nearest snapshot, then the   *)
(* changes after it, and keeps what it has put together in the cache.      *)
(*                                                                         *)
(* Abstractions.                                                           *)
(*  - The cache is the sequence of its items, least recently used first.   *)
(*  - The clock ticks between any two steps; timestamps of events are not  *)
(*    compared with it.                                                    *)
(*  - This is the life of one process: the next one starts with an empty   *)
(*    cache, and its snapshots lack what happened before.                  *)
(*  - Queries change nothing: of a retry only its last failure counts.     *)
(***************************************************************************)
EXTENDS GraphStorage

CONSTANTS
    Threads,        \* of the API of one instance
    QueryTimes,     \* times asked of GET /state
    Ttl,            \* reconstruction_cache_ttl_seconds, in ticks
    CacheSize,      \* reconstruction_cache_size
    MaxTicks,       \* bound: ticks of the clock
    MaxRequests     \* bound

ASSUME CacheAssumption ==
    /\ IsFiniteSet(Threads)
    /\ QueryTimes \cup {Ttl, CacheSize, MaxTicks, MaxRequests} \subseteq Nat

VARIABLES
    now,            \* utc_now()
    cache,          \* ReconstructionCache._items
    step,           \* where every thread is in get_state
    req,            \* what it has in hand
    stored_at,      \* history: when every row was stored
    requests        \* history

api == <<cache, step, req>>
query_vars == <<vars, now, api, stored_at, requests>>

\* What a request answers, or is about to.  History: how many rows there were when the
\* changes were queried (seen) and when that was (asked); of an answer from the cache, also
\* when the request came and when the answer was cached.
NoRequest == [at |-> 0, from |-> 0, value |-> empty_graph_state,
              came |-> 0, seen |-> 0, asked |-> 0, created |-> 0]

InitQueries ==
    /\ Init
    /\ now = 0 /\ cache = <<>> /\ stored_at = <<>> /\ requests = 0
    /\ step = [t \in Threads |-> "idle"]
    /\ req = [t \in Threads |-> NoRequest]

Goes(t, to) == step' = [step EXCEPT ![t] = to]

\* The request is answered, or fails with status 500.
Ends(t) == Goes(t, "idle") /\ req' = [req EXCEPT ![t] = NoRequest]

-----------------------------------------------------------------------------
(* ReconstructionCache.get                                                 *)

ItemsOf(at) == {n \in DOMAIN cache : cache[n].at = at}
PlaceOf(at) == CHOOSE n \in ItemsOf(at) : TRUE
Without(at) == IF ItemsOf(at) = {} THEN cache ELSE RemoveAt(cache, PlaceOf(at))
MovedToEnd(at) ==
    IF ItemsOf(at) = {} THEN cache ELSE Append(RemoveAt(cache, PlaceOf(at)), cache[PlaceOf(at)])

\* Mutant: the items never expire.
ExpiredNever(item) == FALSE

Expired(item) == now - item.created > Ttl

Lookup(t, at) ==
    /\ step[t] = "idle"
    /\ requests < MaxRequests
    /\ requests' = requests + 1
    /\ IF ItemsOf(at) = {}
       THEN /\ Goes(t, "snapshot")
            /\ req' = [req EXCEPT ![t] = [NoRequest EXCEPT !.at = at]]
       ELSE LET item == cache[PlaceOf(at)]
            IN  IF Expired(item)
                THEN /\ Goes(t, "expired")
                     /\ req' = [req EXCEPT ![t] = [NoRequest EXCEPT !.at = at]]
                ELSE /\ Goes(t, "hit")
                     /\ req' = [req EXCEPT ![t] =
                                  [NoRequest EXCEPT !.at = at, !.came = now, !.value = item.value,
                                   !.seen = item.seen, !.asked = item.asked, !.created = item.created]]
    /\ UNCHANGED cache

\* pop(key, None)
PopExpired(t) ==
    /\ step[t] = "expired"
    /\ Goes(t, "snapshot")
    /\ cache' = Without(req[t].at)
    /\ UNCHANGED req

\* move_to_end raises when the item has been taken out since it was read.
Touch(t) ==
    /\ step[t] = "hit"
    /\ Ends(t)
    /\ cache' = MovedToEnd(req[t].at)

-----------------------------------------------------------------------------
(* The two queries.                                                        *)

\* Mutant: the WHERE clause on the requested time is missing.
fetch_newest_snapshot(at) ==
    {s \in snapshots : \A u \in snapshots : u.snapshot_time <= s.snapshot_time}

\* ORDER BY snapshot_time DESC LIMIT 1 picks any of the snapshots that tie.
fetch_nearest_snapshot_before(at) ==
    {s \in snapshots : /\ s.snapshot_time <= at
                       /\ \A u \in snapshots : u.snapshot_time <= at =>
                                               u.snapshot_time <= s.snapshot_time}

\* event_time > from AND event_time <= to
fetch_changes_between(from, to) ==
    {id \in DOMAIN rows : from < EventOf(rows[id]).time /\ EventOf(rows[id]).time <= to}

\* Without a snapshot the base is the empty graph at the epoch.
QuerySnapshot(t) ==
    /\ step[t] = "snapshot"
    /\ Goes(t, "changes")
    /\ \/ \E s \in fetch_nearest_snapshot_before(req[t].at) :
            req' = [req EXCEPT ![t].from = s.snapshot_time, ![t].value = s.graph_state]
       \/ fetch_nearest_snapshot_before(req[t].at) = {} /\ UNCHANGED req
    /\ UNCHANGED cache

\* ORDER BY id
Replay(base, ids) ==
    LET after[id \in 0..Len(rows)] ==
          CASE id = 0    -> base
            [] id \in ids -> apply_change_event(after[id - 1], EventOf(rows[id]))
            [] OTHER     -> after[id - 1]
    IN  after[Len(rows)]

Reconstruction(t) ==
    Replay(req[t].value, fetch_changes_between(req[t].from, req[t].at))

QueryChanges(t) ==
    /\ step[t] = "changes"
    /\ Goes(t, "set")
    /\ req' = [req EXCEPT ![t] = [@ EXCEPT !.value = Reconstruction(t), !.from = 0,
                                           !.seen = Len(rows), !.asked = now]]
    /\ UNCHANGED cache

-----------------------------------------------------------------------------
(* ReconstructionCache.set                                                 *)

ItemOf(t) == [at |-> req[t].at, value |-> req[t].value, created |-> now,
              seen |-> req[t].seen, asked |-> req[t].asked]

\* An item of the same key keeps its place.
Assign(t) ==
    /\ step[t] = "set"
    /\ Goes(t, "assigned")
    /\ cache' = IF ItemsOf(req[t].at) = {} THEN Append(cache, ItemOf(t))
                ELSE [n \in DOMAIN cache |-> IF n \in ItemsOf(req[t].at) THEN ItemOf(t) ELSE cache[n]]
    /\ UNCHANGED req

\* move_to_end raises when another thread has popped the item.
MoveToEnd(t) ==
    /\ step[t] = "assigned"
    /\ IF ItemsOf(req[t].at) = {} THEN Ends(t) ELSE Goes(t, "evict") /\ UNCHANGED req
    /\ cache' = MovedToEnd(req[t].at)

\* Mutant: one item too many stays.
EvictLate(t) ==
    /\ step[t] = "evict"
    /\ IF Len(cache) > CacheSize + 1 THEN Goes(t, "evicting") /\ UNCHANGED req ELSE Ends(t)
    /\ UNCHANGED cache

\* The condition of the loop; when it is false the request is answered.
Evict(t) ==
    /\ step[t] = "evict"
    /\ IF Len(cache) > CacheSize THEN Goes(t, "evicting") /\ UNCHANGED req ELSE Ends(t)
    /\ UNCHANGED cache

\* popitem(last=False) raises when the others have emptied the cache.
PopItem(t) ==
    /\ step[t] = "evicting"
    /\ IF cache = <<>> THEN Ends(t) /\ UNCHANGED cache
       ELSE Goes(t, "evict") /\ cache' = Tail(cache) /\ UNCHANGED req

-----------------------------------------------------------------------------
\* Every attempt of a query fails, or the pool has no connection for it.
QueryFails(t) ==
    /\ step[t] \in {"snapshot", "changes"}
    /\ Ends(t)
    /\ UNCHANGED cache

get_state(t) ==
    /\ \/ \E at \in QueryTimes : Lookup(t, at)
       \/ /\ UNCHANGED requests
          /\ \/ PopExpired(t) \/ Touch(t)
             \/ QuerySnapshot(t) \/ QueryChanges(t) \/ QueryFails(t)
             \/ Assign(t) \/ MoveToEnd(t) \/ Evict(t) \/ PopItem(t)
    /\ UNCHANGED <<vars, now, stored_at>>

Tick ==
    /\ now < MaxTicks
    /\ now' = now + 1
    /\ UNCHANGED <<vars, api, stored_at, requests>>

\* The workers go on; no process starts anew.
Storage ==
    /\ Next
    /\ UNCHANGED <<crashes, now, api, requests>>
    /\ stored_at' = stored_at \o [n \in 1..(Len(rows') - Len(rows)) |-> now]

NextQueries ==
    \/ \E t \in Threads : get_state(t)
    \/ Tick
    \/ Storage

SpecQueries == InitQueries /\ [][NextQueries]_query_vars

-----------------------------------------------------------------------------
(* Properties.                                                             *)

\* The graph made of the first n rows up to a time: every key has the value of the
\* newest event that touches it.
NewestUpTo(n, at) ==
    [k \in Keys |->
        Max({0} \cup {EventOf(rows[r]).seq : r \in
              {r \in 1..n : EventOf(rows[r]).time <= at /\ k \in EventOf(rows[r]).keys}})]

Answering == {t \in Threads : step[t] \in {"hit", "set", "assigned", "evict", "evicting"}}

\* An answer gives every key the value of the newest event up to the requested time that
\* was stored when the changes were queried, and so does what is in the cache: snapshots,
\* pruning, rows or snapshots written between the two queries are invisible in it.
AnswerIsUpToDate ==
    /\ \A t \in Answering : req[t].value = NewestUpTo(req[t].seen, req[t].at)
    /\ \A item \in ToSet(cache) : item.value = NewestUpTo(item.seen, item.at)

\* An answer from the cache lacks no change that had been stored for more than Ttl when
\* the request came, but for the time that the request that cached it took to do so.
AnswersAreFresh ==
    \A t \in Threads, r \in DOMAIN stored_at :
        /\ step[t] = "hit"
        /\ stored_at[r] + Ttl + (req[t].created - req[t].asked) < req[t].came
        => r <= req[t].seen

\* The cache holds one item for a time, and no more items than it may, but for those
\* whose threads are still in set, whatever threads pop and evict between its calls.
CacheIsBounded ==
    /\ \A n, m \in DOMAIN cache : cache[n].at = cache[m].at => n = m
    /\ Len(cache) <= CacheSize
           + Cardinality({t \in Threads : step[t] \in {"assigned", "evict", "evicting"}})
=============================================================================

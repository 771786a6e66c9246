--------------------------- MODULE BroadcastService ---------------------------
(***************************************************************************)
(* The broadcast service: ai-analysis-service/src/websocket_service.       *)
(*                                                                         *)
(* Instances of one consumer group share the partitions of graph-changes.  *)
(* The Kafka thread of an instance (kafka_consumer.py) hands every event   *)
(* to the event loop and publishes it on a Redis channel; the Redis thread *)
(* (redis_sync.py) hands over the events of other instances.  On the loop  *)
(* (api.py) a bounded queue feeds the broadcast task, which sends batches  *)
(* to the WebSocket clients of the manager and to the queues of the SSE    *)
(* streams.  A client starts from the state in the database, which the     *)
(* storage service fills at its own pace.                                  *)
(*                                                                         *)
(* Abstractions.                                                           *)
(*  - An event is <<partition, offset>>; log has its entity ids.  A topic  *)
(*    filter is the set of entity ids it matches.                          *)
(*  - The partitions of the group are static, and a row of the database is *)
(*    the event it holds (GraphStorage has the rest).                      *)
(*  - The initial state is the set of events whose rows are in the         *)
(*    database when it is read: any, for the storage service reads the     *)
(*    topic at its own pace.  Replay by last_event_id, encodings and       *)
(*    heartbeats that succeed change no state of the service and are left  *)
(*    out.                                                                 *)
(*  - The one-second window of the rate limit may restart at any send.     *)
(*  - A start is one step: the moment between consumer.start() and the     *)
(*    subscription to the Redis channel is left out.                       *)
(***************************************************************************)
EXTENDS ConnectionManager, Integers, Sequences, FiniteSets, SequencesExt

CONSTANTS
    Partitions,     \* partitions of graph-changes
    Owner,          \* [Partitions -> Instances], the group assignment
    InstanceId,     \* [Instances -> ids], WS_INSTANCE_ID
    RedisEnabled,   \* WS_REDIS_ENABLED
    SseClients,     \* SSE streams
    Topic,          \* [Clients \cup SseClients -> SUBSET Keys]
    QueueSize,      \* maxsize of incoming_queue (10000)
    MaxBatch,       \* max_batch_size
    RateLimit,      \* rate_limit_per_sec, at least 1
    SseQueueSize,   \* maxsize of the queue of a stream (200)
    MaxEvents,      \* bound: events per partition
    MaxFaults,      \* bound: failed publications, dead subscribers, hang-ups
    MaxCrashes      \* bound: restarts of instances

ASSUME SizesAssumption ==
    {QueueSize, MaxBatch, RateLimit, SseQueueSize} \subseteq Nat \ {0}
ASSUME ViewersAssumption ==
    Clients \cap SseClients = {} /\ \A c \in SseClients : Home[c] \in Instances
ASSUME OwnerAssumption == \A p \in Partitions : Owner[p] \in Instances
ASSUME RedisAssumption == RedisEnabled \in BOOLEAN
ASSUME BoundsAssumption == {MaxEvents, MaxFaults, MaxCrashes} \subseteq Nat

VARIABLES
    log,            \* graph-changes, [Partitions -> Seq(SUBSET Keys)]
    position,       \* the position of the Kafka thread in every partition
    committed,      \* the group's auto-committed offset, NoOffset before the first
    publishing,     \* events the Kafka thread has yet to publish (none or one)
    channel,        \* events the Redis channel holds for every instance
    subscribed,     \* the instances whose Redis thread is alive
    ready,          \* _enqueue_event tasks that can run, in the order of the loop
    queue,          \* incoming_queue
    putters,        \* _enqueue_event tasks that wait for a free slot
    batch,          \* batch of the broadcast task
    targets,        \* clients the batch has yet to be sent to
    sending,        \* the instances whose broadcast task is past the batching
    recent_events,  \* what an instance has broadcast since its start
    overfull,       \* history: the instances whose queue was full for a put
    conn,           \* "new", "open", "broken" or "closed"; a stream is "waiting" first
    window,         \* sent_in_window of every client
    sse_queue,      \* the queue of every stream
    sse_clients,    \* the streams in sse_clients
    base,           \* the events in the initial state of a client
    got,            \* the batches a client has received, concatenated
    missed,         \* history: broadcast before the client came, and not in base
    denied,         \* history: in batches that were filtered out or rate-limited
    faults, crashes \* history: how many of each so far

pipeline == <<ready, queue, putters, batch, targets, sending, recent_events, overfull>>
kafka == <<position, committed, publishing>>
redis == <<channel, subscribed>>
views == <<conn, window, sse_queue, sse_clients, base, got, missed, denied>>
history == <<faults, crashes>>
vars == <<log, kafka, redis, pipeline, views, manager, history>>

Viewers == Clients \cup SseClients
NoOffset == -1

KeysOf(e) == log[e[1]][e[2]]
BatchKeys(i) == UNION {KeysOf(e) : e \in ToSet(batch[i])}
Events == {<<p, o>> : p \in Partitions, o \in 1..MaxEvents}
Logged == {e \in Events : e[2] <= Len(log[e[1]])}

Empty == [i \in Instances |-> <<>>]

Init ==
    /\ log = [p \in Partitions |-> <<>>]
    /\ position = [p \in Partitions |-> 0]
    /\ committed = [p \in Partitions |-> NoOffset]
    /\ publishing = Empty
    /\ channel = Empty
    /\ subscribed = IF RedisEnabled THEN Instances ELSE {}
    /\ ready = Empty /\ queue = Empty /\ putters = Empty /\ batch = Empty
    /\ targets = [i \in Instances |-> {}]
    /\ sending = {}
    /\ recent_events = Empty
    /\ overfull = {}
    /\ conn = [c \in Viewers |-> "new"]
    /\ window = [c \in Clients |-> 0]
    /\ sse_queue = [c \in SseClients |-> <<>>]
    /\ sse_clients = {}
    /\ base = [c \in Viewers |-> {}]
    /\ got = [c \in Viewers |-> <<>>]
    /\ missed = [c \in Viewers |-> {}]
    /\ denied = [c \in Viewers |-> {}]
    /\ faults = 0
    /\ crashes = 0
    /\ InitManager

-----------------------------------------------------------------------------
(* The other services.                                                     *)

Produce(p, ks) ==
    /\ Len(log[p]) < MaxEvents
    /\ log' = [log EXCEPT ![p] = Append(@, ks)]
    /\ UNCHANGED <<kafka, redis, pipeline, views, manager, history>>

-----------------------------------------------------------------------------
(* The Kafka thread and the Redis thread.                                  *)

\* call_soon_threadsafe(asyncio.create_task, _enqueue_event(event))
_enqueue_from_thread(i, e) == ready' = [ready EXCEPT ![i] = Append(@, e)]

\* _run polls one event and _on_kafka_event hands it to the loop, then publishes.
Poll(p) ==
    LET i == Owner[p]
        e == <<p, position[p] + 1>>
    IN  /\ publishing[i] = <<>>
        /\ position[p] < Len(log[p])
        /\ position' = [position EXCEPT ![p] = @ + 1]
        /\ _enqueue_from_thread(i, e)
        /\ publishing' = [publishing EXCEPT ![i] = IF RedisEnabled THEN <<e>> ELSE <<>>]
        /\ UNCHANGED <<log, committed, redis, queue, putters, batch, targets, sending,
                       recent_events, overfull, views, manager, history>>

Publish(i) ==
    /\ publishing[i] # <<>>
    /\ channel' = [j \in Instances |-> IF j \in subscribed
                                       THEN channel[j] \o publishing[i] ELSE channel[j]]
    /\ publishing' = [publishing EXCEPT ![i] = <<>>]
    /\ UNCHANGED <<log, position, committed, subscribed, pipeline, views, manager, history>>

\* Redis is away: the exception is swallowed in _run.
PublishFails(i) ==
    /\ publishing[i] # <<>>
    /\ faults < MaxFaults
    /\ faults' = faults + 1
    /\ publishing' = [publishing EXCEPT ![i] = <<>>]
    /\ UNCHANGED <<log, position, committed, redis, pipeline, views, manager, crashes>>

\* enable.auto.commit commits what has been polled, from time to time.
AutoCommit(p) ==
    /\ committed[p] < position[p]
    /\ committed' = [committed EXCEPT ![p] = position[p]]
    /\ UNCHANGED <<log, position, publishing, redis, pipeline, views, manager, history>>

Received(i) == channel' = [channel EXCEPT ![i] = Tail(@)]

\* An event of an instance with the same id is dropped, any other goes to the loop.
_on_redis_event(i) ==
    /\ i \in subscribed
    /\ channel[i] # <<>>
    /\ Received(i)
    /\ IF InstanceId[Owner[Head(channel[i])[1]]] = InstanceId[i]
       THEN UNCHANGED ready
       ELSE _enqueue_from_thread(i, Head(channel[i]))
    /\ UNCHANGED <<log, kafka, subscribed, queue, putters, batch, targets, sending,
                   recent_events, overfull, views, manager, history>>

\* get_message is outside the try block: an exception ends the Redis thread.
SubscriberDies(i) ==
    /\ i \in subscribed
    /\ faults < MaxFaults
    /\ faults' = faults + 1
    /\ subscribed' = subscribed \ {i}
    /\ channel' = [channel EXCEPT ![i] = <<>>]
    /\ UNCHANGED <<log, kafka, pipeline, views, manager, crashes>>

-----------------------------------------------------------------------------
(* incoming_queue and _broadcast_loop                                      *)

\* The next _enqueue_event task runs put: when the queue is full it waits, behind
\* the others, even if it had been woken.
RunPut(i) ==
    /\ ready[i] # <<>>
    /\ ready' = [ready EXCEPT ![i] = Tail(@)]
    /\ IF Len(queue[i]) < QueueSize
       THEN /\ queue' = [queue EXCEPT ![i] = Append(@, Head(ready[i]))]
            /\ UNCHANGED <<putters, overfull>>
       ELSE /\ putters' = [putters EXCEPT ![i] = Append(@, Head(ready[i]))]
            /\ overfull' = overfull \cup {i}
            /\ UNCHANGED queue
    /\ UNCHANGED <<log, kafka, redis, batch, targets, sending, recent_events,
                   views, manager, history>>

\* Mutant: a get wakes nobody.
CollectWithoutWaking(i) ==
    /\ i \notin sending
    /\ queue[i] # <<>>
    /\ Len(batch[i]) < MaxBatch
    /\ batch' = [batch EXCEPT ![i] = Append(@, Head(queue[i]))]
    /\ queue' = [queue EXCEPT ![i] = Tail(@)]
    /\ UNCHANGED <<log, kafka, redis, ready, putters, targets, sending, recent_events,
                   overfull, views, manager, history>>

\* Mutant: the batch is built from its end.
CollectInFront(i) ==
    /\ i \notin sending
    /\ queue[i] # <<>>
    /\ Len(batch[i]) < MaxBatch
    /\ batch' = [batch EXCEPT ![i] = <<Head(queue[i])>> \o @]
    /\ queue' = [queue EXCEPT ![i] = Tail(@)]
    /\ putters' = [putters EXCEPT ![i] = IF @ = <<>> THEN @ ELSE Tail(@)]
    /\ ready' = [ready EXCEPT ![i] = IF putters[i] = <<>> THEN @ ELSE Append(@, Head(putters[i]))]
    /\ UNCHANGED <<log, kafka, redis, targets, sending, recent_events, overfull,
                   views, manager, history>>

\* get() takes the first event and wakes the first task that waits for a slot.
Collect(i) ==
    /\ i \notin sending
    /\ queue[i] # <<>>
    /\ Len(batch[i]) < MaxBatch
    /\ batch' = [batch EXCEPT ![i] = Append(@, Head(queue[i]))]
    /\ queue' = [queue EXCEPT ![i] = Tail(@)]
    /\ putters' = [putters EXCEPT ![i] = IF @ = <<>> THEN @ ELSE Tail(@)]
    /\ ready' = [ready EXCEPT ![i] = IF putters[i] = <<>> THEN @ ELSE Append(@, Head(putters[i]))]
    /\ UNCHANGED <<log, kafka, redis, targets, sending, recent_events, overfull,
                   views, manager, history>>

\* The batch is full or the interval over: broadcast takes a list of the clients.
Flush(i) ==
    /\ i \notin sending
    /\ batch[i] # <<>>
    /\ sending' = sending \cup {i}
    /\ recent_events' = [recent_events EXCEPT ![i] = @ \o batch[i]]
    /\ targets' = [targets EXCEPT ![i] = {c \in registered : Home[c] = i}]
    /\ UNCHANGED <<log, kafka, redis, ready, queue, putters, batch, overfull,
                   views, manager, history>>

\* _event_matches_topic and _event_matches_subscriptions
Matches(c, i) ==
    /\ Topic[c] \cap BatchKeys(i) # {}
    /\ subscriptions[c] # {} => subscriptions[c] \cap BatchKeys(i) # {}

\* Mutant: the limit itself still passes.
_passes_rate_limit_late(used) == used <= RateLimit

_passes_rate_limit(used) == used < RateLimit

Deny(c, i) == denied' = [denied EXCEPT ![c] = @ \cup ToSet(batch[i])]

\* One iteration of the loop in broadcast, up to the next await.  The send to a
\* client that has hung up raises, or disappears in a buffer.
Send(i, c) ==
    /\ i \in sending
    /\ c \in targets[i]
    /\ targets' = [targets EXCEPT ![i] = @ \ {c}]
    /\ \/ /\ ~Matches(c, i)
          /\ Deny(c, i)
          /\ UNCHANGED <<window, got, manager>>
       \/ \E used \in {window[c], 0} :
            /\ Matches(c, i)
            /\ IF ~_passes_rate_limit(used)
               THEN Deny(c, i) /\ UNCHANGED <<window, got, manager>>
               ELSE /\ window' = [window EXCEPT ![c] = used + 1]
                    /\ UNCHANGED denied
                    /\ \/ /\ conn[c] = "open"
                          /\ got' = [got EXCEPT ![c] = @ \o batch[i]]
                          /\ UNCHANGED manager
                       \/ conn[c] # "open" /\ disconnect(c) /\ UNCHANGED got
                       \/ conn[c] = "broken" /\ UNCHANGED <<got, manager>>
    /\ UNCHANGED <<log, kafka, redis, ready, queue, putters, batch, sending,
                   recent_events, overfull, conn, sse_queue, sse_clients, base, missed, history>>

Listening(i) == {c \in sse_clients : Home[c] = i /\ Topic[c] \cap BatchKeys(i) # {}}

HasRoom(c) == Len(sse_queue[c]) < SseQueueSize

\* Mutant: QueueFull is ignored.
dead_sse_ignored(i) == {}

\* The streams for which put_nowait raises QueueFull.
dead_sse(i) == {c \in Listening(i) : ~HasRoom(c)}

\* The SSE push at the end of the round.
Finish(i) ==
    /\ i \in sending
    /\ targets[i] = {}
    /\ sending' = sending \ {i}
    /\ batch' = [batch EXCEPT ![i] = <<>>]
    /\ sse_queue' = [c \in SseClients |-> IF c \in Listening(i) /\ HasRoom(c)
                                          THEN Append(sse_queue[c], batch[i]) ELSE sse_queue[c]]
    /\ sse_clients' = sse_clients \ dead_sse(i)
    /\ denied' = [c \in Viewers |-> IF c \in sse_clients \ Listening(i) /\ Home[c] = i
                                    THEN denied[c] \cup ToSet(batch[i]) ELSE denied[c]]
    /\ UNCHANGED <<log, kafka, redis, ready, queue, putters, targets, recent_events,
                   overfull, conn, window, base, got, missed, manager, history>>

-----------------------------------------------------------------------------
(* /ws                                                                     *)

\* After accept the endpoint registers the client and reads the initial state in
\* one step of the loop; a batch whose targets are already listed passes it by.
Connect(c, S, rows) ==
    /\ conn[c] = "new"
    /\ conn' = [conn EXCEPT ![c] = "open"]
    /\ connect(c, S)
    /\ base' = [base EXCEPT ![c] = rows]
    /\ missed' = [missed EXCEPT ![c] = ToSet(recent_events[Home[c]]) \ rows]
    /\ UNCHANGED <<log, kafka, redis, pipeline, window, sse_queue, sse_clients,
                   got, denied, history>>

\* The actions subscribe and join_room; a message may still come out of the buffer
\* of a connection whose client a failing send has already thrown out.
Subscribe(c, S) ==
    /\ conn[c] \in {"open", "broken"}
    /\ set_subscriptions(c, S)
    /\ UNCHANGED <<log, kafka, redis, pipeline, views, history>>

join_room(c, room) == Subscribe(c, subscriptions[c] \cup {room})

HangUp(c) ==
    /\ conn[c] = "open"
    /\ faults < MaxFaults
    /\ faults' = faults + 1
    /\ conn' = [conn EXCEPT ![c] = "broken"]
    /\ UNCHANGED <<log, kafka, redis, pipeline, window, sse_queue, sse_clients,
                   base, got, missed, denied, manager, crashes>>

\* Mutant: the endpoint forgets the finally clause.
EndpointEndsSilently(c) ==
    /\ conn[c] = "broken"
    /\ conn' = [conn EXCEPT ![c] = "closed"]
    /\ UNCHANGED <<log, kafka, redis, pipeline, window, sse_queue, sse_clients,
                   base, got, missed, denied, manager, history>>

\* receive_json or a send raises: finally disconnect.
EndpointEnds(c) ==
    /\ conn[c] = "broken"
    /\ conn' = [conn EXCEPT ![c] = "closed"]
    /\ disconnect(c)
    /\ UNCHANGED <<log, kafka, redis, pipeline, window, sse_queue, sse_clients,
                   base, got, missed, denied, history>>

\* heartbeat finds that the connection is gone.
HeartbeatFails(c) ==
    /\ c \in registered
    /\ conn[c] # "open"
    /\ disconnect(c)
    /\ UNCHANGED <<log, kafka, redis, pipeline, views, history>>

-----------------------------------------------------------------------------
(* /sse                                                                    *)

\* The stream is registered before its generator starts and reads the state, so
\* the batch that is being sent still reaches it.
RegisterStream(c) ==
    LET i == Home[c]
        passed == IF i \in sending THEN Len(recent_events[i]) - Len(batch[i])
                                   ELSE Len(recent_events[i])
    IN  /\ conn[c] = "new"
        /\ conn' = [conn EXCEPT ![c] = "waiting"]
        /\ sse_clients' = sse_clients \cup {c}
        /\ missed' = [missed EXCEPT ![c] = ToSet(SubSeq(recent_events[i], 1, passed))]
        /\ UNCHANGED <<log, kafka, redis, pipeline, window, sse_queue, base, got,
                       denied, manager, history>>

StartStream(c, rows) ==
    /\ conn[c] = "waiting"
    /\ conn' = [conn EXCEPT ![c] = "open"]
    /\ base' = [base EXCEPT ![c] = rows]
    /\ missed' = [missed EXCEPT ![c] = @ \ rows]
    /\ UNCHANGED <<log, kafka, redis, pipeline, window, sse_queue, sse_clients, got,
                   denied, manager, history>>

\* The client leaves before the generator has run: its finally clause never does,
\* and the stream stays registered until its queue is full.
AbandonStream(c) ==
    /\ conn[c] = "waiting"
    /\ faults < MaxFaults
    /\ faults' = faults + 1
    /\ conn' = [conn EXCEPT ![c] = "closed"]
    /\ UNCHANGED <<log, kafka, redis, pipeline, window, sse_queue, sse_clients, base, got,
                   missed, denied, manager, crashes>>

StreamNext(c) ==
    /\ conn[c] = "open"
    /\ sse_queue[c] # <<>>
    /\ got' = [got EXCEPT ![c] = @ \o Head(sse_queue[c])]
    /\ sse_queue' = [sse_queue EXCEPT ![c] = Tail(@)]
    /\ UNCHANGED <<log, kafka, redis, pipeline, conn, window, sse_clients, base,
                   missed, denied, manager, history>>

\* The client leaves: the generator is closed and its finally clause runs.
CloseStream(c) ==
    /\ conn[c] = "open"
    /\ faults < MaxFaults
    /\ faults' = faults + 1
    /\ conn' = [conn EXCEPT ![c] = "closed"]
    /\ sse_clients' = sse_clients \ {c}
    /\ UNCHANGED <<log, kafka, redis, pipeline, window, sse_queue, base, got,
                   missed, denied, manager, crashes>>

-----------------------------------------------------------------------------
\* An instance dies, with everything in its queues, and is started again; a group
\* without an offset begins at the end of the partition (auto.offset.reset).
Crash(i) ==
    LET own == {c \in Viewers : Home[c] = i}
    IN  /\ crashes < MaxCrashes
        /\ crashes' = crashes + 1
        /\ position' = [p \in Partitions |->
                          IF Owner[p] # i THEN position[p]
                          ELSE IF committed[p] = NoOffset THEN Len(log[p]) ELSE committed[p]]
        /\ publishing' = [publishing EXCEPT ![i] = <<>>]
        /\ channel' = [channel EXCEPT ![i] = <<>>]
        /\ subscribed' = IF RedisEnabled THEN subscribed \cup {i} ELSE subscribed
        /\ ready' = [ready EXCEPT ![i] = <<>>]
        /\ queue' = [queue EXCEPT ![i] = <<>>]
        /\ putters' = [putters EXCEPT ![i] = <<>>]
        /\ batch' = [batch EXCEPT ![i] = <<>>]
        /\ targets' = [targets EXCEPT ![i] = {}]
        /\ sending' = sending \ {i}
        /\ recent_events' = [recent_events EXCEPT ![i] = <<>>]
        /\ overfull' = overfull \ {i}
        /\ conn' = [c \in Viewers |-> IF c \in own /\ conn[c] # "new" THEN "closed" ELSE conn[c]]
        /\ sse_clients' = sse_clients \ own
        /\ registered' = registered \ own
        /\ rooms' = [rooms EXCEPT ![i] = [k \in Keys |-> {}]]
        /\ UNCHANGED <<log, committed, window, sse_queue, base, got, missed, denied,
                       subscriptions, faults>>

-----------------------------------------------------------------------------
BroadcastLoop(i) == Collect(i) \/ Flush(i) \/ (\E c \in Clients : Send(i, c)) \/ Finish(i)

KafkaThread(i) == (\E p \in Partitions : Owner[p] = i /\ Poll(p)) \/ Publish(i)

Endpoint(c) ==
    \/ \E S \in SUBSET Keys : Subscribe(c, S) \/ \E rows \in SUBSET Logged : Connect(c, S, rows)
    \/ \E k \in Keys : join_room(c, k)
    \/ HangUp(c)
    \/ EndpointEnds(c)
    \/ HeartbeatFails(c)

Stream(c) ==
    \/ RegisterStream(c)
    \/ \E rows \in SUBSET Logged : StartStream(c, rows)
    \/ AbandonStream(c)
    \/ StreamNext(c)
    \/ CloseStream(c)

Next ==
    \/ \E p \in Partitions, ks \in SUBSET Keys \ {{}} : Produce(p, ks)
    \/ \E p \in Partitions : AutoCommit(p)
    \/ \E i \in Instances :
         \/ KafkaThread(i)
         \/ _on_redis_event(i)
         \/ RunPut(i)
         \/ BroadcastLoop(i)
         \/ PublishFails(i)
         \/ SubscriberDies(i)
         \/ Crash(i)
    \/ \E c \in Clients : Endpoint(c)
    \/ \E c \in SseClients : Stream(c)

Spec == Init /\ [][Next]_vars

\* The threads poll, the event loop runs every task, and every send returns.
FairSpec ==
    /\ Spec
    /\ \A i \in Instances :
         /\ WF_vars(KafkaThread(i)) /\ WF_vars(_on_redis_event(i))
         /\ WF_vars(RunPut(i)) /\ WF_vars(BroadcastLoop(i))

-----------------------------------------------------------------------------
(* Properties.                                                             *)

TypeOK ==
    /\ ManagerType
    /\ \A p \in Partitions : /\ position[p] \in 0..Len(log[p])
                             /\ committed[p] \in NoOffset..Len(log[p])
    /\ \A i \in Instances :
         /\ Len(publishing[i]) <= 1
         /\ Len(queue[i]) <= QueueSize
         /\ Len(batch[i]) <= MaxBatch
         /\ targets[i] \subseteq Clients
    /\ \A c \in Clients : window[c] \in 0..RateLimit
    /\ \A c \in SseClients : Len(sse_queue[c]) <= SseQueueSize
    /\ sse_clients \subseteq SseClients
    /\ faults \in 0..MaxFaults /\ crashes \in 0..MaxCrashes

\* The manager forgets a client before its endpoint has ended at the latest, and
\* keeps every client whose connection is good: nobody is sent to for ever, and
\* nobody is silently cut off.
RegisteredWhileConnected ==
    \A c \in Clients :
        /\ conn[c] = "open" => c \in registered
        /\ c \in registered => conn[c] \in {"open", "broken"}

\* What comes before an event of a partition in s is every earlier one of it.
InOrder(s) ==
    \A n \in DOMAIN s :
        {e \in {s[m] : m \in 1..(n - 1)} : e[1] = s[n][1]} = {<<s[n][1], o>> : o \in 1..(s[n][2] - 1)}

\* An instance broadcasts no event twice, whether it comes from Kafka or from Redis, and
\* as long as its queue was never full and Redis answers, every partition in order and
\* without a gap, its own partitions and those of the others.
BroadcastOnceInOrder ==
    crashes = 0 => \A i \in Instances :
        /\ Len(recent_events[i]) = Cardinality(ToSet(recent_events[i]))
        /\ faults = 0 /\ i \notin overfull => InOrder(recent_events[i])

Queued(c) == UNION {ToSet(b) : b \in ToSet(sse_queue[c])}

\* The viewers that an instance still serves.
Live(c) == (c \in registered /\ conn[c] = "open") \/ c \in sse_clients

\* What the instance of c has broadcast, but for the batch that is on its way to c.
Due(c) ==
    LET i == Home[c]
    IN  ToSet(recent_events[i]) \
            (IF i \in sending /\ c \in targets[i] \cup SseClients THEN ToSet(batch[i]) ELSE {})

Has(c) == base[c] \cup ToSet(got[c]) \cup (IF c \in SseClients THEN Queued(c) ELSE {})

\* What a connected client does not have of the events its instance has broadcast
\* was filtered out, rate-limited, or broadcast before it came and stored after:
\* between the initial state and the stream nothing else falls through.
LossesAreExplained ==
    \A c \in Viewers : Live(c) => Due(c) \subseteq Has(c) \cup missed[c] \cup denied[c]

\* Every event reaches the clients of every instance at last, unless Redis fails or
\* an instance dies; a full queue only delays it.
EventuallyBroadcast ==
    \A i \in Instances, e \in Events :
        (e \in Logged) ~> (e \in ToSet(recent_events[i]) \/ faults > 0 \/ crashes > 0)
=============================================================================

------------------------ MODULE BroadcastServiceProofs ------------------------
(***************************************************************************)
(* Proofs about BroadcastService.  The registry of clients and its rooms   *)
(* stay in step with the connections, whatever happens between two awaits; *)
(* an instance broadcasts every event once, in the order of its partition, *)
(* while nothing fails; and a client lacks only what a filter, a limit, a  *)
(* full queue or the time of its own arrival explains.                     *)
(***************************************************************************)
EXTENDS BroadcastService, SequenceTheorems, FiniteSetTheorems, TLAPS

\* The registry alone: its type and the agreement of rooms and subscriptions.
ManagerInv == ManagerType /\ RoomsAgree

ConnStates == {"new", "waiting", "open", "broken", "closed"}

IInv == conn \in [Viewers -> ConnStates] /\ ManagerInv /\ RegisteredWhileConnected

-----------------------------------------------------------------------------
(* The methods of the manager.                                             *)

\* Seated keeps the shape of the rooms.
LEMMA SeatedType ==
    ASSUME ManagerType, NEW c \in Clients, NEW S \in SUBSET Keys
    PROVE  Seated(c, S) \in [Instances -> [Keys -> SUBSET Clients]]
  BY HomeAssumption DEF Seated, ManagerType

\* It rewrites the rooms of the client's instance and no others.
LEMMA SeatedRooms ==
    ASSUME ManagerType, NEW c \in Clients, NEW S, NEW i \in Instances, NEW k \in Keys
    PROVE  /\ i # Home[c] => Seated(c, S)[i][k] = rooms[i][k]
           /\ i = Home[c] /\ k \in S => Seated(c, S)[i][k] = rooms[i][k] \cup {c}
           /\ i = Home[c] /\ k \notin S => Seated(c, S)[i][k] = rooms[i][k] \ {c}
  BY HomeAssumption DEF Seated, ManagerType

\* A client that is registered with the subscriptions it is seated by.
LEMMA SeatedAgrees ==
    ASSUME ManagerInv, NEW c \in Clients, NEW S \in SUBSET Keys,
           registered' = registered \cup {c},
           subscriptions' = [subscriptions EXCEPT ![c] = S],
           rooms' = Seated(c, S)
    PROVE  ManagerInv'
<1>1. ManagerType'
  BY SeatedType DEF ManagerInv, ManagerType
<1>2. \A d \in Clients : subscriptions'[d] = IF d = c THEN S ELSE subscriptions[d]
  BY DEF ManagerInv, ManagerType
<1>3. RoomsAgree'
  <2> SUFFICES ASSUME NEW i \in Instances, NEW k \in Keys
               PROVE  rooms'[i][k] = {d \in registered' : Home[d] = i /\ k \in subscriptions'[d]}
    BY DEF RoomsAgree
  <2>1. rooms[i][k] = {d \in registered : Home[d] = i /\ k \in subscriptions[d]}
    BY DEF ManagerInv, RoomsAgree
  <2>2. registered \subseteq Clients
    BY DEF ManagerInv, ManagerType
  <2>3. /\ i # Home[c] => rooms'[i][k] = rooms[i][k]
        /\ i = Home[c] /\ k \in S => rooms'[i][k] = rooms[i][k] \cup {c}
        /\ i = Home[c] /\ k \notin S => rooms'[i][k] = rooms[i][k] \ {c}
    BY SeatedRooms DEF ManagerInv
  <2>4. ASSUME NEW d
        PROVE  d \in rooms'[i][k] <=>
                 d \in registered' /\ Home[d] = i /\ k \in subscriptions'[d]
    <3>1. CASE d = c
      BY <1>2, <2>1, <2>3, <3>1
    <3>2. CASE d # c
      BY <1>2, <2>1, <2>2, <2>3, <3>2
    <3> QED  BY <3>1, <3>2
  <2>5. rooms'[i][k] \subseteq {d \in registered' : Home[d] = i /\ k \in subscriptions'[d]}
    BY <2>4
  <2>6. {d \in registered' : Home[d] = i /\ k \in subscriptions'[d]} \subseteq rooms'[i][k]
    BY <2>4
  <2> QED  BY <2>5, <2>6, Zenon
<1> QED  BY <1>1, <1>3 DEF ManagerInv

\* connect registers a client.
LEMMA ConnectKeeps ==
    ASSUME ManagerInv, NEW c \in Clients, NEW S \in SUBSET Keys, connect(c, S)
    PROVE  ManagerInv'
BY SeatedAgrees DEF connect

\* set_subscriptions moves a client that is still registered.
LEMMA SubscriptionsKeep ==
    ASSUME ManagerInv, NEW c \in Clients, NEW S \in SUBSET Keys, set_subscriptions(c, S)
    PROVE  ManagerInv' /\ registered' = registered
<1>1. CASE c \in registered
  <2>1. registered' = registered \cup {c}
    BY <1>1 DEF set_subscriptions
  <2> QED  BY <1>1, <2>1, SeatedAgrees DEF set_subscriptions
<1>2. CASE c \notin registered
  BY <1>2 DEF set_subscriptions, manager, ManagerInv, ManagerType, RoomsAgree
<1> QED  BY <1>1, <1>2

\* disconnect takes a client out of the registry and of every room.
LEMMA DisconnectKeeps ==
    ASSUME ManagerInv, NEW c \in Clients, disconnect(c)
    PROVE  ManagerInv' /\ registered' = registered \ {c}
<1>0. registered' = registered \ {c} /\ subscriptions' = subscriptions
  BY DEF disconnect
<1>1. CASE c \notin registered
  <2>1. registered' = registered /\ rooms' = rooms
    BY <1>0, <1>1 DEF disconnect
  <2> QED  BY <1>0, <2>1 DEF ManagerInv, ManagerType, RoomsAgree
<1>2. CASE c \in registered
  <2>1. rooms' = Seated(c, {})
    BY <1>2 DEF disconnect
  <2>2. ManagerType'
    BY <1>0, <2>1, SeatedType DEF ManagerInv, ManagerType
  <2>3. RoomsAgree'
    <3> SUFFICES ASSUME NEW i \in Instances, NEW k \in Keys
                 PROVE  rooms'[i][k] =
                          {d \in registered' : Home[d] = i /\ k \in subscriptions'[d]}
      BY DEF RoomsAgree
    <3>1. rooms[i][k] = {d \in registered : Home[d] = i /\ k \in subscriptions[d]}
      BY DEF ManagerInv, RoomsAgree
    <3>2. /\ i # Home[c] => rooms'[i][k] = rooms[i][k]
          /\ i = Home[c] => rooms'[i][k] = rooms[i][k] \ {c}
      BY <2>1, SeatedRooms DEF ManagerInv
    <3>3. ASSUME NEW d
          PROVE  d \in rooms'[i][k] <=>
                   d \in registered' /\ Home[d] = i /\ k \in subscriptions'[d]
      <4>1. CASE d = c
        BY <1>0, <3>1, <3>2, <4>1
      <4>2. CASE d # c
        BY <1>0, <3>1, <3>2, <4>2
      <4> QED  BY <4>1, <4>2
    <3>5. rooms'[i][k] \subseteq {d \in registered' : Home[d] = i /\ k \in subscriptions'[d]}
      BY <3>3
    <3>6. {d \in registered' : Home[d] = i /\ k \in subscriptions'[d]} \subseteq rooms'[i][k]
      BY <3>3
    <3> QED  BY <3>5, <3>6, Zenon
  <2> QED  BY <1>0, <2>2, <2>3 DEF ManagerInv
<1> QED  BY <1>1, <1>2

\* What touches neither the registry nor the connections.
LEMMA Frame ==
    ASSUME IInv, UNCHANGED <<manager, conn>>
    PROVE  IInv'
BY DEF IInv, ManagerInv, ManagerType, RoomsAgree, RegisteredWhileConnected, manager

-----------------------------------------------------------------------------
(* The actions.                                                            *)

\* The service starts without clients.
LEMMA InitInv == Init => IInv
<1> SUFFICES ASSUME Init PROVE IInv
  OBVIOUS
<1>1. InitManager /\ conn = [c \in Viewers |-> "new"]
  BY DEF Init
<1>2. conn \in [Viewers -> ConnStates]
  BY <1>1 DEF ConnStates
<1>3. ManagerInv
  BY <1>1 DEF InitManager, ManagerInv, ManagerType, RoomsAgree
<1>4. RegisteredWhileConnected
  BY <1>1 DEF InitManager, RegisteredWhileConnected, Viewers
<1> QED  BY <1>2, <1>3, <1>4 DEF IInv

\* A send throws out only a client whose connection is no longer good.
LEMMA SendStep ==
    ASSUME IInv, NEW i \in Instances, NEW c \in Clients, Send(i, c)
    PROVE  IInv'
<1>1. conn' = conn
  BY DEF Send
<1>2. UNCHANGED manager \/ (conn[c] # "open" /\ disconnect(c))
  BY DEF Send
<1>3. CASE UNCHANGED manager
  BY <1>1, <1>3, Frame
<1>4. CASE conn[c] # "open" /\ disconnect(c)
  <2>1. ManagerInv' /\ registered' = registered \ {c}
    BY <1>4, DisconnectKeeps DEF IInv
  <2> QED  BY <1>1, <1>4, <2>1 DEF IInv, RegisteredWhileConnected
<1> QED  BY <1>2, <1>3, <1>4

\* The endpoint of a connection registers it, moves it and takes it out at its end.
LEMMA EndpointStep ==
    ASSUME IInv, NEW c \in Clients, Endpoint(c)
    PROVE  IInv'
<1>0. c \in Viewers /\ subscriptions[c] \in SUBSET Keys
  BY DEF IInv, ManagerInv, ManagerType, Viewers
<1>1. ASSUME NEW S \in SUBSET Keys, Subscribe(c, S)
      PROVE  IInv'
  <2>1. ManagerInv' /\ registered' = registered
    BY <1>1, SubscriptionsKeep DEF Subscribe, IInv
  <2> QED  BY <1>1, <2>1 DEF Subscribe, IInv, RegisteredWhileConnected, views
<1>2. ASSUME NEW S \in SUBSET Keys, NEW rows \in SUBSET Logged, Connect(c, S, rows)
      PROVE  IInv'
  <2>1. ManagerInv' /\ registered' = registered \cup {c}
    BY <1>2, ConnectKeeps DEF Connect, IInv, connect
  <2> QED  BY <1>0, <1>2, <2>1 DEF Connect, IInv, RegisteredWhileConnected, Viewers, ConnStates
<1>3. CASE HangUp(c)
  BY <1>0, <1>3 DEF HangUp, IInv, ManagerInv, ManagerType, RoomsAgree, RegisteredWhileConnected,
                    manager, Viewers, ConnStates
<1>4. CASE EndpointEnds(c)
  <2>1. ManagerInv' /\ registered' = registered \ {c}
    BY <1>4, DisconnectKeeps DEF EndpointEnds, IInv
  <2> QED  BY <1>0, <1>4, <2>1 DEF EndpointEnds, IInv, RegisteredWhileConnected, Viewers, ConnStates
<1>5. CASE HeartbeatFails(c)
  <2>1. ManagerInv' /\ registered' = registered \ {c}
    BY <1>5, DisconnectKeeps DEF HeartbeatFails, IInv
  <2> QED  BY <1>5, <2>1 DEF HeartbeatFails, IInv, RegisteredWhileConnected, views
<1>6. ASSUME NEW k \in Keys, join_room(c, k)
      PROVE  IInv'
  <2>1. subscriptions[c] \cup {k} \in SUBSET Keys
    BY <1>0
  <2> QED  BY <1>1, <1>6, <2>1 DEF join_room
<1> QED  BY <1>1, <1>2, <1>3, <1>4, <1>5, <1>6 DEF Endpoint

\* A stream is no client of the registry.
LEMMA StreamStep ==
    ASSUME IInv, NEW c \in SseClients, Stream(c)
    PROVE  IInv'
<1>1. UNCHANGED manager
  BY DEF Stream, RegisterStream, StartStream, StreamNext, CloseStream,
         AbandonStream
<1>2. \E v \in ConnStates : conn' = [conn EXCEPT ![c] = v]
  <2>1. CASE RegisterStream(c)
    BY <2>1 DEF RegisterStream, ConnStates
  <2>2. CASE \E rows \in SUBSET Logged : StartStream(c, rows)
    BY <2>2 DEF StartStream, ConnStates
  <2>3. CASE StreamNext(c)
    <3>1. conn[c] = "open" /\ conn' = conn
      BY <2>3 DEF StreamNext
    <3>2. conn' = [conn EXCEPT ![c] = "open"]
      BY <3>1 DEF IInv, Viewers
    <3> QED  BY <3>2 DEF ConnStates
  <2>4. CASE CloseStream(c)
    BY <2>4 DEF CloseStream, ConnStates
  <2>5. CASE AbandonStream(c)
    BY <2>5 DEF AbandonStream, ConnStates
  <2> QED  BY <2>1, <2>2, <2>3, <2>4, <2>5 DEF Stream
<1>3. c \notin Clients
  BY ViewersAssumption
<1> QED  BY <1>1, <1>2, <1>3 DEF IInv, ManagerInv, ManagerType, RoomsAgree,
                                 RegisteredWhileConnected, manager, Viewers

\* A restart empties the registry and the rooms of one instance and closes its
\* connections.
LEMMA CrashStep ==
    ASSUME IInv, NEW i \in Instances, Crash(i)
    PROVE  IInv'
<1> DEFINE own == {c \in Viewers : Home[c] = i}
<1>1. /\ registered' = registered \ own
      /\ subscriptions' = subscriptions
      /\ rooms' = [rooms EXCEPT ![i] = [k \in Keys |-> {}]]
      /\ conn' = [c \in Viewers |-> IF c \in own /\ conn[c] # "new" THEN "closed" ELSE conn[c]]
  BY DEF Crash
<1>2. conn' \in [Viewers -> ConnStates]
  BY <1>1 DEF IInv, ConnStates
<1>3. ManagerType'
  BY <1>1 DEF IInv, ManagerInv, ManagerType
<1>4. RoomsAgree'
  <2> SUFFICES ASSUME NEW j \in Instances, NEW k \in Keys
               PROVE  rooms'[j][k] = {d \in registered' : Home[d] = j /\ k \in subscriptions'[d]}
    BY DEF RoomsAgree
  <2>1. rooms[j][k] = {d \in registered : Home[d] = j /\ k \in subscriptions[d]}
    BY DEF IInv, ManagerInv, RoomsAgree
  <2>2. rooms'[j][k] = IF j = i THEN {} ELSE rooms[j][k]
    BY <1>1 DEF IInv, ManagerInv, ManagerType
  <2>3. registered \subseteq Viewers
    BY DEF IInv, ManagerInv, ManagerType, Viewers
  <2>4. \A d \in registered : d \in registered' <=> Home[d] # i
    BY <1>1, <2>3
  <2> QED  BY <1>1, <2>1, <2>2, <2>4
<1>5. RegisteredWhileConnected'
  BY <1>1 DEF IInv, RegisteredWhileConnected, Viewers
<1> QED  BY <1>2, <1>3, <1>4, <1>5 DEF IInv, ManagerInv

\* Every step preserves the invariant; most do not touch what it is about.
LEMMA NextStep == IInv /\ [Next]_vars => IInv'
<1> SUFFICES ASSUME IInv, [Next]_vars PROVE IInv'
  OBVIOUS
<1>1. CASE UNCHANGED vars
  BY <1>1, Frame DEF vars, views
<1>2. ASSUME NEW p \in Partitions, NEW ks \in SUBSET Keys \ {{}}, Produce(p, ks)
      PROVE  IInv'
  BY <1>2, Frame DEF Produce, views
<1>3. ASSUME NEW p \in Partitions, AutoCommit(p)
      PROVE  IInv'
  BY <1>3, Frame DEF AutoCommit, views
<1>4. ASSUME NEW i \in Instances, KafkaThread(i)
      PROVE  IInv'
  BY <1>4, Frame DEF KafkaThread, Poll, Publish, views
<1>5. ASSUME NEW i \in Instances, _on_redis_event(i)
      PROVE  IInv'
  BY <1>5, Frame DEF _on_redis_event, views
<1>6. ASSUME NEW i \in Instances, RunPut(i)
      PROVE  IInv'
  BY <1>6, Frame DEF RunPut, views
<1>7. ASSUME NEW i \in Instances, BroadcastLoop(i)
      PROVE  IInv'
  <2>1. CASE Collect(i)
    BY <2>1, Frame DEF Collect, views
  <2>2. CASE Flush(i)
    BY <2>2, Frame DEF Flush, views
  <2>3. CASE \E c \in Clients : Send(i, c)
    BY <2>3, SendStep
  <2>4. CASE Finish(i)
    BY <2>4, Frame DEF Finish
  <2> QED  BY <1>7, <2>1, <2>2, <2>3, <2>4 DEF BroadcastLoop
<1>8. ASSUME NEW i \in Instances, PublishFails(i) \/ SubscriberDies(i)
      PROVE  IInv'
  BY <1>8, Frame DEF PublishFails, SubscriberDies, views
<1> QED  BY <1>1, <1>2, <1>3, <1>4, <1>5, <1>6, <1>7, <1>8, CrashStep, EndpointStep, StreamStep
         DEF Next

\* Every reachable state satisfies the invariant.
LEMMA Invariance == Spec => []IInv
BY InitInv, NextStep, PTL DEF Spec

-----------------------------------------------------------------------------
(* Sequences of events.                                                    *)

\* No element occurs twice in s.
Once(s) == \A m, n \in DOMAIN s : s[m] = s[n] => m = n

\* The events of partition p in s are those after a up to b, in order.
Run(s, p, a, b) ==
    /\ \A m, n \in DOMAIN s : m < n /\ s[m][1] = p /\ s[n][1] = p => s[m][2] < s[n][2]
    /\ \A e \in Events : e \in ToSet(s) /\ e[1] = p <=> e[1] = p /\ e[2] \in (a + 1)..b

\* An event is the pair of its partition and its offset.
LEMMA EventType == \A e \in Events : e = <<e[1], e[2]>> /\ e[1] \in Partitions /\ e[2] \in 1..MaxEvents
BY DEF Events

\* The earlier offsets of a partition are events too.
LEMMA EventIn ==
    ASSUME NEW p \in Partitions, NEW o \in Nat, NEW e \in Events, 1 <= o, o <= e[2]
    PROVE  <<p, o>> \in Events
<1>1. MaxEvents \in Nat
  BY BoundsAssumption
<1>2. e[2] \in 1..MaxEvents
  BY EventType
<1> QED  BY <1>1, <1>2 DEF Events

\* The members of a sequence.
LEMMA Elements ==
    ASSUME NEW S, NEW s \in Seq(S)
    PROVE  /\ Len(s) \in Nat /\ DOMAIN s = 1..Len(s)
           /\ \A n \in 1..Len(s) : s[n] \in ToSet(s) /\ s[n] \in S
           /\ \A x \in ToSet(s) : x \in S /\ \E n \in 1..Len(s) : x = s[n]
BY DEF ToSet

\* The members of two sequences one after the other.
LEMMA ConcatElements ==
    ASSUME NEW S, NEW s \in Seq(S), NEW t \in Seq(S)
    PROVE  /\ s \o t \in Seq(S)
           /\ ToSet(s \o t) = ToSet(s) \cup ToSet(t)
<1>1. s \o t \in Seq(S)
  OBVIOUS
<1>2. ASSUME NEW x \in ToSet(s) \cup ToSet(t)
      PROVE  x \in ToSet(s \o t)
  <2>1. CASE x \in ToSet(s)
    <3>1. PICK n \in 1..Len(s) : x = s[n]
      BY <2>1 DEF ToSet
    <3>2. n \in 1..Len(s \o t) /\ (s \o t)[n] = x
      BY <3>1
    <3> QED  BY <3>2 DEF ToSet
  <2>2. CASE x \in ToSet(t)
    <3>1. PICK n \in 1..Len(t) : x = t[n]
      BY <2>2 DEF ToSet
    <3>2. Len(s) + n \in 1..Len(s \o t) /\ (s \o t)[Len(s) + n] = x
      BY <3>1
    <3> QED  BY <3>2 DEF ToSet
  <2> QED  BY <2>1, <2>2
<1>3. ASSUME NEW x \in ToSet(s \o t)
      PROVE  x \in ToSet(s) \cup ToSet(t)
  <2>1. PICK n \in 1..Len(s \o t) : x = (s \o t)[n]
    BY DEF ToSet
  <2>2. CASE n <= Len(s)
    BY <2>1, <2>2 DEF ToSet
  <2>3. CASE n > Len(s)
    <3>1. n - Len(s) \in 1..Len(t) /\ x = t[n - Len(s)]
      BY <2>1, <2>3
    <3> QED  BY <3>1 DEF ToSet
  <2> QED  BY <2>1, <2>2, <2>3
<1> QED  BY <1>1, <1>2, <1>3

\* Two sequences one after the other repeat nothing when neither does and they share
\* nothing.
LEMMA OnceConcat ==
    ASSUME NEW S, NEW s \in Seq(S), NEW t \in Seq(S)
    PROVE  Once(s \o t) <=> Once(s) /\ Once(t) /\ ToSet(s) \cap ToSet(t) = {}
<1>1. ASSUME Once(s \o t)
      PROVE  Once(s) /\ Once(t) /\ ToSet(s) \cap ToSet(t) = {}
  <2>1. Once(s)
    BY <1>1 DEF Once
  <2>2. Once(t)
    <3> SUFFICES ASSUME NEW m \in 1..Len(t), NEW n \in 1..Len(t), t[m] = t[n]
                 PROVE  m = n
      BY DEF Once
    <3>1. /\ Len(s) + m \in 1..Len(s \o t) /\ Len(s) + n \in 1..Len(s \o t)
          /\ (s \o t)[Len(s) + m] = (s \o t)[Len(s) + n]
      OBVIOUS
    <3> QED  BY <1>1, <3>1 DEF Once
  <2>3. ASSUME NEW m \in 1..Len(s), NEW n \in 1..Len(t), s[m] = t[n]
        PROVE  FALSE
    <3>1. /\ m \in 1..Len(s \o t) /\ Len(s) + n \in 1..Len(s \o t)
          /\ (s \o t)[m] = (s \o t)[Len(s) + n]
      BY <2>3
    <3> QED  BY <1>1, <3>1 DEF Once
  <2> QED  BY <2>1, <2>2, <2>3 DEF ToSet
<1>2. ASSUME Once(s), Once(t), ToSet(s) \cap ToSet(t) = {}
      PROVE  Once(s \o t)
  <2> SUFFICES ASSUME NEW m \in 1..Len(s \o t), NEW n \in 1..Len(s \o t),
                      (s \o t)[m] = (s \o t)[n]
               PROVE  m = n
    BY DEF Once
  <2>1. \A k \in 1..Len(s \o t) : \/ k \in 1..Len(s) /\ (s \o t)[k] = s[k]
                                  \/ k - Len(s) \in 1..Len(t) /\ (s \o t)[k] = t[k - Len(s)]
    OBVIOUS
  <2>2. \A j \in 1..Len(s), k \in 1..Len(t) : s[j] # t[k]
    BY <1>2, Elements
  <2> QED  BY <1>2, <2>1, <2>2 DEF Once
<1> QED  BY <1>1, <1>2

\* A sequence that repeats nothing is as long as the set of its members.
LEMMA OnceCardinality ==
    ASSUME NEW S, NEW s \in Seq(S), Once(s)
    PROVE  Len(s) = Cardinality(ToSet(s))
<1>1. s \in Bijection(1..Len(s), ToSet(s))
  <2>1. s \in [1..Len(s) -> ToSet(s)]
    BY DEF ToSet
  <2>2. \A m, n \in 1..Len(s) : s[m] = s[n] => m = n
    BY DEF Once
  <2>3. \A x \in ToSet(s) : \E n \in 1..Len(s) : s[n] = x
    BY DEF ToSet
  <2> QED  BY <2>1, <2>2, <2>3 DEF Bijection, Injection, Surjection, IsInjective
<1>2. IsFiniteSet(1..Len(s)) /\ Cardinality(1..Len(s)) = Len(s)
  <2>1. Len(s) \in Nat
    OBVIOUS
  <2>2. 1 \in Int /\ Len(s) \in Int
    BY <2>1
  <2> QED  BY <2>1, <2>2, FS_Interval
<1>3. ExistsBijection(1..Len(s), ToSet(s))
  BY <1>1 DEF ExistsBijection
<1> QED  BY <1>2, <1>3, FS_Bijection

\* A run of offsets goes on at its end only with the next offset.
LEMMA RunAppend ==
    ASSUME NEW s \in Seq(Events), NEW p \in Partitions, NEW a \in Nat, NEW b \in Nat,
           a <= b, Run(s, p, a, b), NEW e \in Events
    PROVE  /\ e[1] # p => Run(Append(s, e), p, a, b)
           /\ e = <<p, b + 1>> => Run(Append(s, e), p, a, b + 1)
<1>0. ToSet(Append(s, e)) = ToSet(s) \cup {e}
  <2>1. <<e>> \in Seq(Events) /\ ToSet(<<e>>) = {e} /\ Append(s, e) = s \o <<e>>
    BY DEF ToSet
  <2>2. ToSet(s \o <<e>>) = ToSet(s) \cup ToSet(<<e>>)
    BY <2>1, ConcatElements
  <2> QED  BY <2>1, <2>2
<1>1. \A n \in 1..Len(Append(s, e)) : \/ n \in 1..Len(s) /\ Append(s, e)[n] = s[n]
                                      \/ n = Len(s) + 1 /\ Append(s, e)[n] = e
  OBVIOUS
<1>2. \A n \in 1..Len(s) : s[n] \in Events /\ (s[n][1] = p => s[n][2] <= b)
  BY EventType DEF Run, ToSet
<1>3. CASE e[1] # p
  BY <1>0, <1>1, <1>2, <1>3, EventType DEF Run
<1>4. CASE e = <<p, b + 1>>
  <2>1. \A m, n \in 1..Len(Append(s, e)) :
          m < n /\ Append(s, e)[m][1] = p /\ Append(s, e)[n][1] = p
            => Append(s, e)[m][2] < Append(s, e)[n][2]
    BY <1>1, <1>2, <1>4, EventType DEF Run
  <2>2. \A f \in Events : f \in ToSet(Append(s, e)) /\ f[1] = p
                            <=> f[1] = p /\ f[2] \in (a + 1)..(b + 1)
    BY <1>0, <1>4, EventType DEF Run
  <2>3. DOMAIN Append(s, e) = 1..Len(Append(s, e))
    OBVIOUS
  <2> QED  BY <1>4, <2>1, <2>2, <2>3 DEF Run
<1> QED  BY <1>3, <1>4

\* A run of offsets without its first event is a run.
LEMMA RunTail ==
    ASSUME NEW s \in Seq(Events), NEW p \in Partitions, NEW a \in Nat, NEW b \in Nat,
           a <= b, Run(s, p, a, b), s # <<>>
    PROVE  /\ Head(s)[1] # p => Run(Tail(s), p, a, b)
           /\ Head(s)[1] = p => a < b /\ Head(s) = <<p, a + 1>> /\ Run(Tail(s), p, a + 1, b)
<1>0. /\ \A n \in 1..Len(Tail(s)) : n + 1 \in 1..Len(s) /\ Tail(s)[n] = s[n + 1]
      /\ DOMAIN Tail(s) = 1..Len(Tail(s)) /\ Len(Tail(s)) = Len(s) - 1
      /\ Head(s) = s[1] /\ s[1] \in Events /\ 1 \in DOMAIN s /\ DOMAIN s = 1..Len(s)
  OBVIOUS
<1>1. \A m, n \in DOMAIN Tail(s) : m < n /\ Tail(s)[m][1] = p /\ Tail(s)[n][1] = p
                                      => Tail(s)[m][2] < Tail(s)[n][2]
  BY <1>0 DEF Run
<1>2. ToSet(s) = ToSet(Tail(s)) \cup {Head(s)}
  <2>1. \A n \in 1..Len(s) : n = 1 \/ (n - 1 \in 1..Len(Tail(s)) /\ s[n] = Tail(s)[n - 1])
    BY <1>0
  <2>2. ASSUME NEW x \in ToSet(s)
        PROVE  x \in ToSet(Tail(s)) \cup {Head(s)}
    <3>1. PICK n \in 1..Len(s) : x = s[n]
      BY Elements
    <3> QED  BY <1>0, <2>1, <3>1 DEF ToSet
  <2>3. ASSUME NEW x \in ToSet(Tail(s)) \cup {Head(s)}
        PROVE  x \in ToSet(s)
    BY <1>0 DEF ToSet
  <2> QED  BY <2>2, <2>3
<1>3. CASE Head(s)[1] # p
  BY <1>1, <1>2, <1>3 DEF Run
<1>4. CASE Head(s)[1] = p
  <2>1. Head(s) \in ToSet(s) /\ Head(s)[2] \in (a + 1)..b
    BY <1>0, <1>2, <1>4 DEF Run
  <2>2. <<p, a + 1>> \in Events
    BY <1>0, <2>1, EventIn
  <2>3. <<p, a + 1>> \in ToSet(s)
    BY <2>1, <2>2 DEF Run
  <2>4. PICK n \in 1..Len(s) : s[n] = <<p, a + 1>>
    BY <2>3 DEF ToSet
  <2>5. n = 1
    BY <1>0, <1>4, <2>1, <2>4 DEF Run
  <2>6. \A k \in 1..Len(s) : k > 1 /\ s[k][1] = p => s[k][2] > a + 1
    BY <1>0, <1>4, <2>4, <2>5 DEF Run
  <2>7. \A f \in ToSet(Tail(s)) : f[1] = p => f[2] > a + 1
    BY <1>0, <2>6 DEF ToSet
  <2>8. \A f \in Events : f \in ToSet(Tail(s)) /\ f[1] = p <=> f[1] = p /\ f[2] \in (a + 2)..b
    BY <1>0, <1>2, <2>1, <2>4, <2>5, <2>7, EventType DEF Run
  <2> QED  BY <1>0, <1>1, <2>1, <2>4, <2>5, <2>8 DEF Run
<1> QED  BY <1>3, <1>4

\* A prefix of a run from the first event on has its events in order and without a gap.
LEMMA RunInOrder ==
    ASSUME NEW s \in Seq(Events), NEW t \in Seq(Events),
           \A p \in Partitions : \E b \in Nat : Run(s \o t, p, 0, b)
    PROVE  InOrder(s)
<1> SUFFICES ASSUME NEW n \in 1..Len(s)
             PROVE  {e \in {s[m] : m \in 1..(n - 1)} : e[1] = s[n][1]}
                      = {<<s[n][1], o>> : o \in 1..(s[n][2] - 1)}
  BY DEF InOrder
<1> DEFINE p == s[n][1]
           r == s \o t
<1>0. /\ s[n] \in Events /\ p \in Partitions /\ s[n][2] \in Nat
      /\ r \in Seq(Events) /\ DOMAIN r = 1..Len(r) /\ n \in 1..Len(r)
      /\ \A m \in 1..n : m \in 1..Len(r) /\ m \in 1..Len(s) /\ r[m] = s[m] /\ s[m] \in Events
      /\ \A m \in 1..Len(r) : r[m] \in Events
  BY EventType
<1> HIDE DEF r
<1>1. PICK b \in Nat : Run(r, p, 0, b)
  BY <1>0 DEF r
<1>2. s[n] \in ToSet(r)
  BY <1>0 DEF ToSet
<1>3. s[n][2] \in 1..b
  BY <1>0, <1>1, <1>2, EventType DEF Run
<1>4. ASSUME NEW m \in 1..(n - 1), s[m][1] = p
      PROVE  s[m][2] \in 1..(s[n][2] - 1) /\ s[m] = <<p, s[m][2]>>
  <2>1. m \in DOMAIN r /\ n \in DOMAIN r /\ m < n /\ r[m] = s[m] /\ r[n] = s[n]
    BY <1>0
  <2>2. s[m][2] < s[n][2]
    BY <1>1, <1>4, <2>1 DEF Run
  <2>3. s[m] \in Events
    BY <1>0
  <2>4. s[m] = <<p, s[m][2]>> /\ s[m][2] \in 1..MaxEvents
    BY <1>4, <2>3, EventType
  <2> QED  BY <1>0, <2>2, <2>4
<1>5. ASSUME NEW o \in 1..(s[n][2] - 1)
      PROVE  \E m \in 1..(n - 1) : s[m] = <<p, o>>
  <2>1. <<p, o>> \in Events
    BY <1>0, <1>3, EventIn
  <2>2. <<p, o>> \in ToSet(r)
    BY <1>1, <1>3, <2>1 DEF Run
  <2>3. PICK m \in 1..Len(r) : r[m] = <<p, o>>
    BY <1>0, <2>2 DEF ToSet
  <2>4. ~(n < m) /\ m # n
    <3>1. r[n] = s[n] /\ r[m][2] = o /\ r[m][1] = p /\ o < s[n][2]
      BY <1>0, <1>3, <2>3
    <3>2. n < m => r[n][2] < r[m][2]
      BY <1>0, <1>1, <3>1 DEF Run
    <3>3. ~(s[n][2] < o) /\ s[n][2] # o
      BY <1>3, <3>1
    <3> QED  BY <3>1, <3>2, <3>3
  <2> QED  BY <1>0, <2>3, <2>4
<1>6. {e \in {s[m] : m \in 1..(n - 1)} : e[1] = p} \subseteq {<<p, o>> : o \in 1..(s[n][2] - 1)}
  BY <1>4
<1>7. ASSUME NEW o \in 1..(s[n][2] - 1)
      PROVE  <<p, o>> \in {e \in {s[m] : m \in 1..(n - 1)} : e[1] = p}
  BY <1>5
<1>8. {<<p, o>> : o \in 1..(s[n][2] - 1)} \subseteq {e \in {s[m] : m \in 1..(n - 1)} : e[1] = p}
  BY <1>7
<1> QED  BY <1>6, <1>8

-----------------------------------------------------------------------------
(* The shape of the state.                                                 *)

KafkaType ==
    /\ log \in [Partitions -> Seq(SUBSET Keys)]
    /\ position \in [Partitions -> Nat]
    /\ committed \in [Partitions -> Int]
    /\ \A p \in Partitions : /\ Len(log[p]) <= MaxEvents
                             /\ position[p] <= Len(log[p])
                             /\ committed[p] \in NoOffset..Len(log[p])
    /\ publishing \in [Instances -> Seq(Events)]
    /\ \A i \in Instances : Len(publishing[i]) <= 1
    /\ channel \in [Instances -> Seq(Events)]
    /\ subscribed \subseteq Instances

LoopType ==
    /\ ready \in [Instances -> Seq(Events)]
    /\ queue \in [Instances -> Seq(Events)]
    /\ putters \in [Instances -> Seq(Events)]
    /\ batch \in [Instances -> Seq(Events)]
    /\ recent_events \in [Instances -> Seq(Events)]
    /\ targets \in [Instances -> SUBSET Clients]
    /\ \A i \in Instances : Len(queue[i]) <= QueueSize /\ Len(batch[i]) <= MaxBatch
    /\ sending \subseteq Instances
    /\ overfull \subseteq Instances

ViewType ==
    /\ window \in [Clients -> 0..RateLimit]
    /\ sse_queue \in [SseClients -> Seq(Seq(Events))]
    /\ \A c \in SseClients : Len(sse_queue[c]) <= SseQueueSize
    /\ sse_clients \subseteq SseClients
    /\ base \in [Viewers -> SUBSET Events]
    /\ got \in [Viewers -> Seq(Events)]
    /\ missed \in [Viewers -> SUBSET Events]
    /\ denied \in [Viewers -> SUBSET Events]

CountType == faults \in 0..MaxFaults /\ crashes \in 0..MaxCrashes

Shape == KafkaType /\ LoopType /\ ViewType /\ CountType

\* The limits of the code are positive.
LEMMA Sizes ==
    /\ QueueSize \in Nat /\ MaxBatch \in Nat /\ RateLimit \in Nat /\ SseQueueSize \in Nat
    /\ QueueSize > 0 /\ MaxBatch > 0 /\ RateLimit > 0 /\ SseQueueSize > 0
    /\ MaxEvents \in Nat /\ MaxFaults \in Nat /\ MaxCrashes \in Nat
BY SizesAssumption, BoundsAssumption

\* The types hold at the start.
LEMMA InitShape == Init => Shape
BY Sizes DEF Init, Shape, KafkaType, LoopType, ViewType, CountType, Empty, NoOffset

\* The topic and the two threads.
LEMMA KafkaShape ==
    ASSUME Shape, [Next]_vars
    PROVE  KafkaType'
<1> USE Sizes, OwnerAssumption DEF Shape, KafkaType, LoopType
<1>1. ASSUME NEW p \in Partitions, NEW ks \in SUBSET Keys \ {{}}, Produce(p, ks)
      PROVE  KafkaType'
  BY <1>1 DEF Produce, kafka, redis
<1>2. ASSUME NEW p \in Partitions, AutoCommit(p)
      PROVE  KafkaType'
  BY <1>2 DEF AutoCommit, redis, NoOffset
<1>3. ASSUME NEW p \in Partitions, Poll(p)
      PROVE  KafkaType'
  <2>1. <<p, position[p] + 1>> \in Events
    BY <1>3 DEF Poll, Events
  <2>2. publishing' \in [Instances -> Seq(Events)] /\ \A i \in Instances : Len(publishing'[i]) <= 1
    BY <1>3, <2>1 DEF Poll
  <2>3. position' \in [Partitions -> Nat] /\ \A q \in Partitions : position'[q] <= Len(log[q])
    BY <1>3 DEF Poll
  <2>4. UNCHANGED <<log, committed, channel, subscribed>>
    BY <1>3 DEF Poll, redis
  <2> QED  BY <2>2, <2>3, <2>4
<1>4. ASSUME NEW i \in Instances, Publish(i)
      PROVE  KafkaType'
  <2>1. channel' \in [Instances -> Seq(Events)]
    BY <1>4 DEF Publish
  <2> QED  BY <1>4, <2>1 DEF Publish
<1>5. ASSUME NEW i \in Instances, PublishFails(i)
      PROVE  KafkaType'
  BY <1>5 DEF PublishFails, redis
<1>6. ASSUME NEW i \in Instances, _on_redis_event(i)
      PROVE  KafkaType'
  BY <1>6 DEF _on_redis_event, Received, kafka
<1>7. ASSUME NEW i \in Instances, SubscriberDies(i)
      PROVE  KafkaType'
  BY <1>7 DEF SubscriberDies, kafka
<1>8. ASSUME NEW i \in Instances, Crash(i)
      PROVE  KafkaType'
  <2>1. position' \in [Partitions -> Nat] /\ \A p \in Partitions : position'[p] <= Len(log[p])
    BY <1>8 DEF Crash, NoOffset
  <2> QED  BY <1>8, <2>1 DEF Crash
<1>9. ASSUME UNCHANGED <<log, kafka, redis>>
      PROVE  KafkaType'
  BY <1>9 DEF kafka, redis
<1>10. ASSUME NEW i \in Instances, RunPut(i) \/ BroadcastLoop(i)
       PROVE  KafkaType'
  BY <1>9, <1>10 DEF RunPut, BroadcastLoop, Collect, Flush, Send, Finish
<1>11. ASSUME NEW c \in Clients, Endpoint(c)
       PROVE  KafkaType'
  BY <1>9, <1>11 DEF Endpoint, Subscribe, Connect, join_room, HangUp, EndpointEnds, HeartbeatFails
<1>12. ASSUME NEW c \in SseClients, Stream(c)
       PROVE  KafkaType'
  BY <1>9, <1>12 DEF Stream, RegisterStream, StartStream, AbandonStream, StreamNext, CloseStream
<1>13. CASE UNCHANGED vars
  BY <1>9, <1>13 DEF vars
<1> QED  BY <1>1, <1>2, <1>3, <1>4, <1>5, <1>6, <1>7, <1>8, <1>10, <1>11, <1>12, <1>13
         DEF Next, KafkaThread

\* The queue, the batch and the tasks of the event loop.
LEMMA LoopShape ==
    ASSUME IInv, Shape, [Next]_vars
    PROVE  LoopType'
<1> USE Sizes, OwnerAssumption DEF Shape, KafkaType, LoopType
<1>1. ASSUME NEW p \in Partitions, Poll(p)
      PROVE  LoopType'
  <2>1. <<p, position[p] + 1>> \in Events
    BY <1>1 DEF Poll, Events
  <2>2. ready' \in [Instances -> Seq(Events)]
    BY <1>1, <2>1 DEF Poll, _enqueue_from_thread
  <2> QED  BY <1>1, <2>2 DEF Poll
<1>2. ASSUME NEW i \in Instances, _on_redis_event(i)
      PROVE  LoopType'
  <2>1. channel[i] # <<>> /\ Head(channel[i]) \in Events
    BY <1>2 DEF _on_redis_event
  <2>2. ready' = ready \/ ready' = [ready EXCEPT ![i] = Append(@, Head(channel[i]))]
    BY <1>2 DEF _on_redis_event, _enqueue_from_thread
  <2>3. ready' \in [Instances -> Seq(Events)]
    <3>1. CASE ready' = ready
      BY <3>1
    <3>2. CASE ready' = [ready EXCEPT ![i] = Append(@, Head(channel[i]))]
      <4>1. Append(ready[i], Head(channel[i])) \in Seq(Events)
        BY <2>1
      <4> QED  BY <3>2, <4>1
    <3> QED  BY <2>2, <3>1, <3>2
  <2> QED  BY <1>2, <2>3 DEF _on_redis_event
<1>3. ASSUME NEW i \in Instances, RunPut(i)
      PROVE  LoopType'
  <2>0. ready[i] # <<>> /\ Head(ready[i]) \in Events /\ Tail(ready[i]) \in Seq(Events)
    BY <1>3 DEF RunPut
  <2>1. CASE Len(queue[i]) < QueueSize
    <3>1. /\ queue' = [queue EXCEPT ![i] = Append(@, Head(ready[i]))]
          /\ ready' = [ready EXCEPT ![i] = Tail(@)]
          /\ UNCHANGED <<putters, overfull, batch, targets, sending, recent_events>>
      BY <1>3, <2>1 DEF RunPut
    <3> QED  BY <2>0, <2>1, <3>1
  <2>2. CASE ~(Len(queue[i]) < QueueSize)
    <3>1. /\ putters' = [putters EXCEPT ![i] = Append(@, Head(ready[i]))]
          /\ overfull' = overfull \cup {i}
          /\ ready' = [ready EXCEPT ![i] = Tail(@)]
          /\ UNCHANGED <<queue, batch, targets, sending, recent_events>>
      BY <1>3, <2>2 DEF RunPut
    <3> QED  BY <2>0, <3>1
  <2> QED  BY <2>1, <2>2
<1>4. ASSUME NEW i \in Instances, Collect(i)
      PROVE  LoopType'
  <2>1. CASE putters[i] = <<>>
    BY <1>4, <2>1 DEF Collect
  <2>2. CASE putters[i] # <<>>
    BY <1>4, <2>2 DEF Collect
  <2> QED  BY <2>1, <2>2
<1>5. ASSUME NEW i \in Instances, Flush(i)
      PROVE  LoopType'
  <2>1. {c \in registered : Home[c] = i} \in SUBSET Clients
    BY DEF IInv, ManagerInv, ManagerType
  <2> QED  BY <1>5, <2>1 DEF Flush
<1>6. ASSUME NEW i \in Instances, NEW c \in Clients, Send(i, c)
      PROVE  LoopType'
  BY <1>6 DEF Send
<1>7. ASSUME NEW i \in Instances, Finish(i)
      PROVE  LoopType'
  BY <1>7 DEF Finish
<1>8. ASSUME NEW i \in Instances, Crash(i)
      PROVE  LoopType'
  BY <1>8 DEF Crash
<1>9. ASSUME UNCHANGED pipeline
      PROVE  LoopType'
  BY <1>9 DEF pipeline
<1>10. ASSUME NEW p \in Partitions, AutoCommit(p) \/ \E ks \in SUBSET Keys \ {{}} : Produce(p, ks)
       PROVE  LoopType'
  BY <1>9, <1>10 DEF AutoCommit, Produce
<1>11. ASSUME NEW i \in Instances, Publish(i) \/ PublishFails(i) \/ SubscriberDies(i)
       PROVE  LoopType'
  BY <1>9, <1>11 DEF Publish, PublishFails, SubscriberDies
<1>12. ASSUME NEW c \in Clients, Endpoint(c)
       PROVE  LoopType'
  BY <1>9, <1>12 DEF Endpoint, Subscribe, Connect, join_room, HangUp, EndpointEnds, HeartbeatFails
<1>13. ASSUME NEW c \in SseClients, Stream(c)
       PROVE  LoopType'
  BY <1>9, <1>13 DEF Stream, RegisterStream, StartStream, AbandonStream, StreamNext, CloseStream
<1>14. CASE UNCHANGED vars
  BY <1>9, <1>14 DEF vars
<1> QED  BY <1>1, <1>2, <1>3, <1>4, <1>5, <1>6, <1>7, <1>8, <1>10, <1>11, <1>12, <1>13, <1>14
         DEF Next, KafkaThread, BroadcastLoop

\* What the viewers have.
LEMMA ViewShape ==
    ASSUME IInv, Shape, [Next]_vars
    PROVE  ViewType' /\ CountType'
<1> USE Sizes, HomeAssumption, ViewersAssumption DEF Shape, LoopType, ViewType, CountType, Viewers
<1>0. /\ \A i \in Instances : ToSet(batch[i]) \in SUBSET Events /\ ToSet(recent_events[i]) \in SUBSET Events
      /\ \A c \in Viewers : Home[c] \in Instances
  BY Elements
<1>1. ASSUME NEW i \in Instances, NEW c \in Clients, Send(i, c)
      PROVE  ViewType' /\ CountType'
  <2>1. window' \in [Clients -> 0..RateLimit]
    <3>1. CASE UNCHANGED window
      BY <3>1
    <3>2. CASE \E used \in {window[c], 0} : _passes_rate_limit(used) /\ window' = [window EXCEPT ![c] = used + 1]
      BY <3>2 DEF _passes_rate_limit
    <3> QED  BY <1>1, <3>1, <3>2 DEF Send, Deny
  <2>2. denied' \in [Viewers -> SUBSET Events]
    <3>1. UNCHANGED denied \/ denied' = [denied EXCEPT ![c] = @ \cup ToSet(batch[i])]
      BY <1>1 DEF Send, Deny
    <3>2. c \in Viewers /\ denied[c] \cup ToSet(batch[i]) \in SUBSET Events
      BY <1>0
    <3> QED  BY <3>1, <3>2
  <2>3. got' \in [Viewers -> Seq(Events)]
    <3>1. UNCHANGED got \/ got' = [got EXCEPT ![c] = @ \o batch[i]]
      BY <1>1 DEF Send
    <3>2. c \in Viewers /\ got[c] \o batch[i] \in Seq(Events)
      OBVIOUS
    <3> QED  BY <3>1, <3>2
  <2> QED  BY <1>1, <2>1, <2>2, <2>3 DEF Send, history
<1>2. ASSUME NEW i \in Instances, Finish(i)
      PROVE  ViewType' /\ CountType'
  <2>1. sse_queue' \in [SseClients -> Seq(Seq(Events))] /\ \A c \in SseClients : Len(sse_queue'[c]) <= SseQueueSize
    BY <1>2 DEF Finish, HasRoom
  <2>2. denied' \in [Viewers -> SUBSET Events]
    BY <1>0, <1>2 DEF Finish
  <2> QED  BY <1>2, <2>1, <2>2 DEF Finish, history
<1>3. ASSUME NEW c \in Clients, Endpoint(c)
      PROVE  ViewType' /\ CountType'
  <2>1. ASSUME NEW S \in SUBSET Keys, NEW rows \in SUBSET Logged, Connect(c, S, rows)
        PROVE  ViewType' /\ CountType'
    <3>1. rows \in SUBSET Events /\ ToSet(recent_events[Home[c]]) \ rows \in SUBSET Events
      BY <1>0 DEF Logged
    <3> QED  BY <2>1, <3>1 DEF Connect, history
  <2>2. CASE HangUp(c)
    BY <2>2 DEF HangUp
  <2> QED  BY <1>3, <2>1, <2>2 DEF Endpoint, Subscribe, join_room, EndpointEnds, HeartbeatFails, views, history
<1>4. ASSUME NEW c \in SseClients, Stream(c)
      PROVE  ViewType' /\ CountType'
  <2>1. CASE RegisterStream(c)
    <3> DEFINE s == recent_events[Home[c]]
               k == IF Home[c] \in sending THEN Len(s) - Len(batch[Home[c]]) ELSE Len(s)
    <3>1. s \in Seq(Events) /\ k \in Int /\ k <= Len(s)
      OBVIOUS
    <3> DEFINE u == SubSeq(s, 1, k)
    <3>2. u \in Seq(Events)
      BY <3>1, SubSeqProperties
    <3>3. missed' = [missed EXCEPT ![c] = ToSet(u)]
      BY <2>1 DEF RegisterStream
    <3> HIDE DEF u
    <3>4. ToSet(u) \in SUBSET Events
      BY <3>2, Elements
    <3> QED  BY <2>1, <3>3, <3>4 DEF RegisterStream, history
  <2>2. ASSUME NEW rows \in SUBSET Logged, StartStream(c, rows)
        PROVE  ViewType' /\ CountType'
    <3>1. rows \in SUBSET Events
      BY DEF Logged
    <3> QED  BY <2>2, <3>1 DEF StartStream, history
  <2>3. CASE AbandonStream(c) \/ CloseStream(c)
    BY <2>3 DEF AbandonStream, CloseStream
  <2>4. CASE StreamNext(c)
    BY <2>4 DEF StreamNext, history
  <2> QED  BY <1>4, <2>1, <2>2, <2>3, <2>4 DEF Stream
<1>5. ASSUME NEW i \in Instances, Crash(i)
      PROVE  ViewType' /\ CountType'
  BY <1>5 DEF Crash
<1>6. ASSUME UNCHANGED views, UNCHANGED crashes, UNCHANGED faults \/ (faults < MaxFaults /\ faults' = faults + 1)
      PROVE  ViewType' /\ CountType'
  BY <1>6 DEF views
<1>7. ASSUME NEW p \in Partitions, AutoCommit(p) \/ Poll(p) \/ \E ks \in SUBSET Keys \ {{}} : Produce(p, ks)
      PROVE  ViewType' /\ CountType'
  BY <1>6, <1>7 DEF AutoCommit, Poll, Produce, history
<1>8. ASSUME NEW i \in Instances,
             Publish(i) \/ PublishFails(i) \/ SubscriberDies(i) \/ _on_redis_event(i) \/ RunPut(i)
               \/ Collect(i) \/ Flush(i)
      PROVE  ViewType' /\ CountType'
  BY <1>6, <1>8 DEF Publish, PublishFails, SubscriberDies, _on_redis_event, RunPut, Collect, Flush, history
<1>9. CASE UNCHANGED vars
  BY <1>6, <1>9 DEF vars, history
<1> QED  BY <1>1, <1>2, <1>3, <1>4, <1>5, <1>7, <1>8, <1>9 DEF Next, KafkaThread, BroadcastLoop

-----------------------------------------------------------------------------
(* What an instance has taken over, in the order of its broadcasts.        *)

\* Concatenation under a name of its own: the provers then use the facts below
\* and nothing else of it.
Then(s, t) == s \o t
One(e) == <<e>>

\* What Then makes, and of which members.
LEMMA ThenType ==
    ASSUME NEW S, NEW s \in Seq(S), NEW t \in Seq(S)
    PROVE  Then(s, t) \in Seq(S) /\ ToSet(Then(s, t)) = ToSet(s) \cup ToSet(t)
BY ConcatElements DEF Then

\* Three sequences are the same however they are put together.
LEMMA ThenAssociative ==
    ASSUME NEW S, NEW s \in Seq(S), NEW t \in Seq(S), NEW u \in Seq(S)
    PROVE  Then(Then(s, t), u) = Then(s, Then(t, u))
BY DEF Then

\* Append puts a sequence of one element after another.
LEMMA ThenOne ==
    ASSUME NEW S, NEW s \in Seq(S), NEW e \in S
    PROVE  One(e) \in Seq(S) /\ Append(s, e) = Then(s, One(e))
BY DEF Then, One

\* The first element of the second sequence may belong to the first.
LEMMA ThenShift ==
    ASSUME NEW S, NEW s \in Seq(S), NEW t \in Seq(S), t # <<>>
    PROVE  Then(Append(s, Head(t)), Tail(t)) = Then(s, t)
BY DEF Then

\* Nothing is added by the empty sequence.
LEMMA ThenEmpty ==
    ASSUME NEW S, NEW s \in Seq(S)
    PROVE  Then(s, <<>>) = s
BY DEF Then

\* What comes after the last of three comes after them all.
LEMMA ThenLast ==
    ASSUME NEW S, NEW s \in Seq(S), NEW t \in Seq(S), NEW u \in Seq(S), NEW v \in Seq(S)
    PROVE  Then(s, Then(t, Then(u, v))) = Then(Then(s, Then(t, u)), v)
<1>1. Then(t, Then(u, v)) = Then(Then(t, u), v)
  BY ThenAssociative
<1>2. Then(t, u) \in Seq(S)
  BY ThenType
<1>3. Then(s, Then(Then(t, u), v)) = Then(Then(s, Then(t, u)), v)
  BY <1>2, ThenAssociative
<1> QED  BY <1>1, <1>3

\* The head of t moves to the end of s, between two other sequences.
LEMMA ThenMoves ==
    ASSUME NEW S, NEW r \in Seq(S), NEW s \in Seq(S), NEW t \in Seq(S), NEW u \in Seq(S), t # <<>>
    PROVE  Then(Then(r, Append(s, Head(t))), Then(Tail(t), u)) = Then(Then(r, s), Then(t, u))
<1> DEFINE a == Append(s, Head(t))
           b == Tail(t)
<1>1. a \in Seq(S) /\ b \in Seq(S) /\ Then(a, b) = Then(s, t)
  BY ThenShift
<1> HIDE DEF a, b
<1>2. \A v \in Seq(S) : Then(v, u) \in Seq(S)
  BY ThenType
<1>3. Then(Then(r, a), Then(b, u)) = Then(r, Then(a, Then(b, u)))
  BY <1>1, <1>2, ThenAssociative
<1>4. Then(a, Then(b, u)) = Then(Then(a, b), u)
  BY <1>1, ThenAssociative
<1>5. Then(s, Then(t, u)) = Then(Then(s, t), u)
  BY ThenAssociative
<1>6. Then(Then(r, s), Then(t, u)) = Then(r, Then(s, Then(t, u)))
  BY <1>2, ThenAssociative
<1>7. Then(Then(r, a), Then(b, u)) = Then(Then(r, s), Then(t, u))
  BY <1>1, <1>3, <1>4, <1>5, <1>6
<1> QED  BY <1>7 DEF a, b

Sent(i) == IF i \in sending THEN recent_events[i] ELSE Then(recent_events[i], batch[i])

\* Broadcast, collected, queued and about to be queued.
Held(i) == Then(Sent(i), Then(queue[i], ready[i]))

\* The type of the sequences.
LEMMA HeldType ==
    ASSUME Shape, NEW i \in Instances
    PROVE  /\ Sent(i) \in Seq(Events) /\ Held(i) \in Seq(Events)
           /\ queue[i] \in Seq(Events) /\ ready[i] \in Seq(Events) /\ putters[i] \in Seq(Events)
           /\ batch[i] \in Seq(Events) /\ recent_events[i] \in Seq(Events)
           /\ channel[i] \in Seq(Events) /\ publishing[i] \in Seq(Events)
           /\ Then(queue[i], ready[i]) \in Seq(Events)
BY ThenType DEF Shape, KafkaType, LoopType, Sent, Held

\* An event from a thread comes last.
LEMMA HeldArrives ==
    ASSUME Shape, NEW i \in Instances, NEW e \in Events, _enqueue_from_thread(i, e),
           UNCHANGED <<queue, batch, sending, recent_events>>, NEW j \in Instances
    PROVE  Held(j)' = IF j = i THEN Then(Held(j), One(e)) ELSE Held(j)
<1>1. Sent(j)' = Sent(j) /\ queue'[j] = queue[j]
  BY DEF Sent
<1>2. ready'[j] = IF j = i THEN Append(ready[j], e) ELSE ready[j]
  BY DEF _enqueue_from_thread, Shape, LoopType
<1>3. Held(j)' = Then(Sent(j), Then(queue[j], ready'[j]))
  BY <1>1 DEF Held
<1>4. Held(j) = Then(Sent(j), Then(queue[j], ready[j]))
  BY DEF Held
<1>5. /\ Sent(j) \in Seq(Events) /\ queue[j] \in Seq(Events) /\ ready[j] \in Seq(Events)
      /\ One(e) \in Seq(Events) /\ Append(ready[j], e) = Then(ready[j], One(e))
  BY HeldType, ThenOne
<1>6. Then(Sent(j), Then(queue[j], Then(ready[j], One(e)))) = Then(Held(j), One(e))
  BY <1>4, <1>5, ThenLast
<1> QED  BY <1>2, <1>3, <1>4, <1>5, <1>6

\* A put with room keeps the order.
LEMMA HeldPut ==
    ASSUME Shape, NEW i \in Instances, RunPut(i), Len(queue[i]) < QueueSize, NEW j \in Instances
    PROVE  Held(j)' = Held(j)
<1>1. /\ Sent(j)' = Sent(j)
      /\ ready[i] # <<>>
      /\ queue' = [queue EXCEPT ![i] = Append(@, Head(ready[i]))]
      /\ ready' = [ready EXCEPT ![i] = Tail(@)]
  BY DEF RunPut, Sent
<1>2. CASE j = i
  <2>1. queue'[i] = Append(queue[i], Head(ready[i])) /\ ready'[i] = Tail(ready[i])
    BY <1>1 DEF Shape, LoopType
  <2>2. Then(queue'[i], ready'[i]) = Then(queue[i], ready[i])
    BY <1>1, <2>1, HeldType, ThenShift
  <2> QED  BY <1>1, <1>2, <2>2 DEF Held
<1>3. CASE j # i
  BY <1>1, <1>3 DEF Held, Shape, LoopType
<1> QED  BY <1>2, <1>3

\* Collecting keeps the order, and a task that it wakes comes last.
LEMMA HeldCollect ==
    ASSUME Shape, NEW i \in Instances, Collect(i), NEW j \in Instances
    PROVE  Held(j)' = IF j = i /\ putters[i] # <<>> THEN Then(Held(j), One(Head(putters[i]))) ELSE Held(j)
<1>1. /\ i \notin sending /\ queue[i] # <<>> /\ sending' = sending /\ recent_events' = recent_events
      /\ batch' = [batch EXCEPT ![i] = Append(@, Head(queue[i]))]
      /\ queue' = [queue EXCEPT ![i] = Tail(@)]
      /\ ready' = [ready EXCEPT ![i] = IF putters[i] = <<>> THEN @ ELSE Append(@, Head(putters[i]))]
  BY DEF Collect
<1>2. CASE j = i
  <2> DEFINE s == Then(recent_events[i], Append(batch[i], Head(queue[i])))
             q == Tail(queue[i])
             e == Head(putters[i])
  <2>1. /\ batch'[i] = Append(batch[i], Head(queue[i])) /\ queue'[i] = q
        /\ ready'[i] = IF putters[i] = <<>> THEN ready[i] ELSE Append(ready[i], e)
    BY <1>1 DEF Shape, LoopType
  <2>2. /\ recent_events[i] \in Seq(Events) /\ batch[i] \in Seq(Events) /\ queue[i] \in Seq(Events)
        /\ ready[i] \in Seq(Events) /\ q \in Seq(Events)
        /\ Append(batch[i], Head(queue[i])) \in Seq(Events)
        /\ putters[i] # <<>> => e \in Events
    BY <1>1, HeldType
  <2>3. s \in Seq(Events) /\ Then(q, ready[i]) \in Seq(Events)
    BY <2>2, ThenType
  <2>4. Then(s, Then(q, ready[i])) = Held(i)
    BY <1>1, <2>2, ThenMoves DEF Held, Sent
  <2>5. Held(i)' = Then(s, Then(q, ready'[i]))
    BY <1>1, <2>1 DEF Held, Sent
  <2> HIDE DEF s, q, e
  <2>7. CASE putters[i] = <<>>
    BY <1>2, <2>1, <2>4, <2>5, <2>7
  <2>8. CASE putters[i] # <<>>
    <3>1. One(e) \in Seq(Events) /\ ready'[i] = Then(ready[i], One(e))
      BY <2>1, <2>2, <2>8, ThenOne
    <3>2. Then(s, Then(q, Then(ready[i], One(e)))) = Then(Held(i), One(e))
      BY <2>2, <2>3, <2>4, <3>1, ThenLast
    <3> QED  BY <1>2, <2>5, <2>8, <3>1, <3>2 DEF e
  <2> QED  BY <2>7, <2>8
<1>3. CASE j # i
  BY <1>1, <1>3 DEF Held, Sent, Shape, LoopType
<1> QED  BY <1>2, <1>3

\* The rounds of the broadcast task only rename what is sent.
LEMMA HeldRound ==
    ASSUME Shape, NEW i \in Instances,
           Flush(i) \/ Finish(i) \/ \E c \in Clients : Send(i, c), NEW j \in Instances
    PROVE  Held(j)' = Held(j)
<1>1. CASE Flush(i)
  BY <1>1 DEF Flush, Held, Sent, Then, Shape, LoopType
<1>2. CASE Finish(i)
  <2>1. Then(recent_events[i], <<>>) = recent_events[i]
    BY HeldType, ThenEmpty
  <2> QED  BY <1>2, <2>1 DEF Finish, Held, Sent, Shape, LoopType
<1>3. CASE \E c \in Clients : Send(i, c)
  BY <1>3 DEF Send, Held, Sent
<1> QED  BY <1>1, <1>2, <1>3

\* The sequence of one element.
LEMMA OneFacts ==
    ASSUME NEW S, NEW e \in S
    PROVE  One(e) \in Seq(S) /\ Once(One(e)) /\ ToSet(One(e)) = {e}
BY DEF One, Once, ToSet

\* When two sequences one after the other repeat nothing.
LEMMA OnceThen ==
    ASSUME NEW S, NEW s \in Seq(S), NEW t \in Seq(S)
    PROVE  Once(Then(s, t)) <=> Once(s) /\ Once(t) /\ ToSet(s) \cap ToSet(t) = {}
BY OnceConcat DEF Then

\* A sequence is its head and then its tail.
LEMMA HeadThenTail ==
    ASSUME NEW S, NEW s \in Seq(S), s # <<>>
    PROVE  Head(s) \in S /\ Tail(s) \in Seq(S) /\ s = Then(One(Head(s)), Tail(s))
BY DEF One, Then

\* The empty sequence.
LEMMA EmptyFacts == ToSet(<<>>) = {} /\ Once(<<>>) /\ \A S : <<>> \in Seq(S)
BY DEF ToSet, Once

-----------------------------------------------------------------------------
(* No event twice.                                                         *)

\* The events an instance has taken over from its two threads.
Got(i) == ToSet(Held(i)) \cup ToSet(putters[i])

\* The partitions whose events an instance takes from Redis.
Foreign(i, p) == InstanceId[Owner[p]] # InstanceId[i]

\* An event is in one place of an instance, once.
OnceOf(i) ==
    /\ Once(Held(i)) /\ Once(putters[i]) /\ ToSet(Held(i)) \cap ToSet(putters[i]) = {}
    /\ Once(channel[i])
    /\ \A e \in Got(i) \cup ToSet(channel[i]) : e[2] <= position[e[1]]
    /\ \A e \in ToSet(channel[i]) : Foreign(i, e[1]) => e \notin Got(i)
    /\ \A j \in Instances : \A e \in ToSet(publishing[j]) :
         e \notin ToSet(channel[i]) /\ (Foreign(i, e[1]) => e \notin Got(i))

OnceInv ==
    crashes = 0 =>
        /\ \A j \in Instances : \A e \in ToSet(publishing[j]) : Owner[e[1]] = j /\ e[2] <= position[e[1]]
        /\ \A i \in Instances : OnceOf(i)

\* At the start nothing has arrived.
LEMMA InitOnce == Init => OnceInv
<1> SUFFICES ASSUME Init PROVE OnceInv
  OBVIOUS
<1>1. \A i \in Instances : /\ Held(i) = <<>> /\ putters[i] = <<>>
                           /\ channel[i] = <<>> /\ publishing[i] = <<>>
  <2>1. Then(<<>>, <<>>) = <<>>
    BY EmptyFacts, ThenEmpty
  <2> QED  BY <2>1 DEF Init, Empty, Held, Sent
<1> QED  BY <1>1, EmptyFacts DEF OnceInv, OnceOf, Got

\* What the invariant looks at.
LEMMA OnceFrame ==
    ASSUME OnceInv, UNCHANGED <<position, publishing, channel, putters, crashes>>,
           \A j \in Instances : Held(j)' = Held(j)
    PROVE  OnceInv'
BY DEF OnceInv, OnceOf, Got

\* A new event is nowhere yet.
LEMMA OncePoll ==
    ASSUME Shape, OnceInv, NEW p \in Partitions, Poll(p)
    PROVE  OnceInv'
<1> DEFINE i == Owner[p]
           e == <<p, position[p] + 1>>
<1>0. i \in Instances /\ e \in Events /\ e[1] = p /\ e[2] = position[p] + 1 /\ position[p] \in Nat
  <2>1. position[p] \in Nat /\ position[p] + 1 \in 1..MaxEvents
    BY Sizes DEF Poll, Shape, KafkaType
  <2> QED  BY <2>1, OwnerAssumption DEF Events
<1>1. /\ position' = [position EXCEPT ![p] = @ + 1]
      /\ publishing' = [publishing EXCEPT ![i] = IF RedisEnabled THEN <<e>> ELSE <<>>]
      /\ publishing[i] = <<>>
      /\ UNCHANGED <<channel, putters, crashes, queue, batch, sending, recent_events>>
      /\ _enqueue_from_thread(i, e)
  BY DEF Poll, redis, history
<1> HIDE DEF e, i
<1>2. SUFFICES ASSUME crashes = 0
               PROVE  OnceInv'
  BY <1>1 DEF OnceInv
<1>3. \A j \in Instances : Held(j)' = IF j = i THEN Then(Held(j), One(e)) ELSE Held(j)
  BY <1>0, <1>1, HeldArrives
<1>4. \A j \in Instances : \A f \in Got(j) \cup ToSet(channel[j]) : f \in Events /\ f[2] <= position[f[1]] /\ f # e
  <2> SUFFICES ASSUME NEW j \in Instances, NEW f \in Got(j) \cup ToSet(channel[j])
               PROVE  f \in Events /\ f[2] <= position[f[1]] /\ f # e
    OBVIOUS
  <2>1. f \in Events
    BY HeldType, Elements DEF Got
  <2>2. f[2] <= position[f[1]]
    BY <1>2 DEF OnceInv, OnceOf
  <2> QED  BY <1>0, <2>1, <2>2, EventType
<1>5. \A f \in Events : f[2] <= position[f[1]] => f[2] <= position'[f[1]]
  BY <1>1, EventType DEF Shape, KafkaType
<1>6. e[2] <= position'[e[1]]
  BY <1>0, <1>1 DEF Shape, KafkaType
<1>7. \A j \in Instances : ToSet(publishing'[j]) \subseteq IF j = i THEN {e} ELSE ToSet(publishing[j])
  <2>1. ToSet(<<e>>) = {e} /\ ToSet(<<>>) = {}
    BY EmptyFacts DEF ToSet
  <2> QED  BY <1>0, <1>1, <2>1 DEF Shape, KafkaType
<1>8. \A j \in Instances : \A f \in ToSet(publishing[j]) :
        f \in Events /\ Owner[f[1]] = j /\ f[2] <= position[f[1]] /\ f # e
  <2> SUFFICES ASSUME NEW j \in Instances, NEW f \in ToSet(publishing[j])
               PROVE  f \in Events /\ Owner[f[1]] = j /\ f[2] <= position[f[1]] /\ f # e
    OBVIOUS
  <2>1. f \in Events
    BY HeldType, Elements
  <2>2. Owner[f[1]] = j /\ f[2] <= position[f[1]]
    BY <1>2 DEF OnceInv
  <2> QED  BY <1>0, <2>1, <2>2, EventType
<1>9. ASSUME NEW j \in Instances
      PROVE  OnceOf(j)'
  <2>1. /\ Once(Held(j)) /\ Once(putters[j]) /\ ToSet(Held(j)) \cap ToSet(putters[j]) = {}
        /\ Once(channel[j])
        /\ \A f \in ToSet(channel[j]) : Foreign(j, f[1]) => f \notin Got(j)
        /\ \A k \in Instances : \A f \in ToSet(publishing[k]) :
             f \notin ToSet(channel[j]) /\ (Foreign(j, f[1]) => f \notin Got(j))
    BY <1>2 DEF OnceInv, OnceOf
  <2>2. Held(j) \in Seq(Events) /\ One(e) \in Seq(Events) /\ Once(One(e)) /\ ToSet(One(e)) = {e}
    BY <1>0, HeldType, OneFacts
  <2>3. ToSet(Held(j)') = IF j = i THEN ToSet(Held(j)) \cup {e} ELSE ToSet(Held(j))
    BY <1>3, <2>2, ThenType
  <2>4. e \notin ToSet(Held(j)) /\ e \notin ToSet(putters[j]) /\ e \notin ToSet(channel[j])
    BY <1>4 DEF Got
  <2>5. Once(Held(j)')
    BY <1>3, <2>1, <2>2, <2>4, OnceThen
  <2>6. Got(j)' = IF j = i THEN Got(j) \cup {e} ELSE Got(j)
    BY <1>1, <2>3 DEF Got
  <2>7. Foreign(j, e[1]) => j # i
    BY <1>0 DEF Foreign, i
  <2>8. \A f \in Got(j)' \cup ToSet(channel'[j]) : f[2] <= position'[f[1]]
    BY <1>1, <1>4, <1>5, <1>6, <2>6
  <2>9. \A f \in ToSet(channel'[j]) : Foreign(j, f[1]) => f \notin Got(j)'
    BY <1>1, <2>1, <2>4, <2>6, <2>7
  <2>10. \A k \in Instances : \A f \in ToSet(publishing'[k]) :
            f \notin ToSet(channel'[j]) /\ (Foreign(j, f[1]) => f \notin Got(j)')
    <3> SUFFICES ASSUME NEW k \in Instances, NEW f \in ToSet(publishing'[k])
                 PROVE  f \notin ToSet(channel'[j]) /\ (Foreign(j, f[1]) => f \notin Got(j)')
      OBVIOUS
    <3>1. CASE f = e
      BY <1>1, <2>4, <2>6, <2>7, <3>1 DEF Got
    <3>2. CASE f # e
      <4>1. f \in ToSet(publishing[k])
        BY <1>7, <3>2
      <4> QED  BY <1>1, <2>1, <2>6, <3>2, <4>1
    <3> QED  BY <3>1, <3>2
  <2> QED  BY <1>1, <2>1, <2>3, <2>4, <2>5, <2>8, <2>9, <2>10 DEF OnceOf, Foreign
<1>10. \A j \in Instances : \A f \in ToSet(publishing'[j]) : Owner[f[1]] = j /\ f[2] <= position'[f[1]]
  BY <1>0, <1>5, <1>6, <1>7, <1>8 DEF i
<1> QED  BY <1>9, <1>10 DEF OnceInv

\* The event goes into every channel; it was in none.
LEMMA OncePublish ==
    ASSUME Shape, OnceInv, NEW i \in Instances, Publish(i)
    PROVE  OnceInv'
<1>1. /\ publishing' = [publishing EXCEPT ![i] = <<>>]
      /\ channel' = [j \in Instances |-> IF j \in subscribed
                                         THEN Then(channel[j], publishing[i]) ELSE channel[j]]
      /\ UNCHANGED <<position, putters, crashes, queue, ready, batch, sending, recent_events>>
  BY DEF Publish, pipeline, history, Then
<1>2. SUFFICES ASSUME crashes = 0
               PROVE  OnceInv'
  BY <1>1 DEF OnceInv
<1>3. \A j \in Instances : Held(j)' = Held(j) /\ Got(j)' = Got(j)
  BY <1>1 DEF Held, Sent, Got
<1>4. /\ publishing[i] \in Seq(Events) /\ Once(publishing[i])
      /\ \A f \in ToSet(publishing[i]) : Owner[f[1]] = i /\ f[2] <= position[f[1]]
  <2>1. publishing[i] \in Seq(Events) /\ Len(publishing[i]) <= 1
    BY DEF Shape, KafkaType
  <2>2. Once(publishing[i])
    BY <2>1 DEF Once
  <2> QED  BY <1>2, <2>1, <2>2 DEF OnceInv
<1>5. \A j \in Instances : ToSet(publishing'[j]) = IF j = i THEN {} ELSE ToSet(publishing[j])
  BY <1>1, EmptyFacts DEF Shape, KafkaType
<1>6. ASSUME NEW j \in Instances
      PROVE  OnceOf(j)'
  <2>1. OnceOf(j) /\ channel[j] \in Seq(Events)
    BY <1>2, HeldType DEF OnceInv
  <2>2. ToSet(channel'[j]) \subseteq ToSet(channel[j]) \cup ToSet(publishing[i])
    BY <1>1, <1>4, <2>1, ThenType
  <2>3. Once(channel'[j])
    <3>1. ToSet(channel[j]) \cap ToSet(publishing[i]) = {}
      BY <2>1 DEF OnceOf
    <3> QED  BY <1>1, <1>4, <2>1, <3>1, OnceThen DEF OnceOf
  <2>4. \A k \in Instances : \A f \in ToSet(publishing'[k]) : f \notin ToSet(publishing[i])
    BY <1>2, <1>4, <1>5 DEF OnceInv
  <2>5. \A f \in Got(j) \cup ToSet(channel'[j]) : f[2] <= position[f[1]]
    BY <1>4, <2>1, <2>2 DEF OnceOf
  <2>6. \A f \in ToSet(channel'[j]) : Foreign(j, f[1]) => f \notin Got(j)
    BY <2>1, <2>2 DEF OnceOf
  <2>7. \A k \in Instances : \A f \in ToSet(publishing'[k]) :
            f \notin ToSet(channel'[j]) /\ (Foreign(j, f[1]) => f \notin Got(j))
    BY <1>5, <2>1, <2>2, <2>4 DEF OnceOf
  <2>8. Once(Held(j)) /\ Once(putters[j]) /\ ToSet(Held(j)) \cap ToSet(putters[j]) = {}
    BY <2>1 DEF OnceOf
  <2> QED  BY <1>1, <1>3, <2>3, <2>5, <2>6, <2>7, <2>8 DEF OnceOf, Foreign
<1>7. \A j \in Instances : \A f \in ToSet(publishing'[j]) : Owner[f[1]] = j /\ f[2] <= position'[f[1]]
  BY <1>1, <1>2, <1>5 DEF OnceInv
<1> QED  BY <1>6, <1>7 DEF OnceInv

\* An event of the channel is dropped or taken over, and gone from the channel.
LEMMA OnceRedis ==
    ASSUME Shape, OnceInv, NEW i \in Instances, _on_redis_event(i)
    PROVE  OnceInv'
<1> DEFINE e == Head(channel[i])
           t == Tail(channel[i])
<1>1. /\ channel[i] # <<>>
      /\ channel' = [channel EXCEPT ![i] = t]
      /\ IF Foreign(i, e[1]) THEN _enqueue_from_thread(i, e) ELSE UNCHANGED ready
      /\ UNCHANGED <<position, publishing, putters, crashes, queue, batch, sending, recent_events>>
  BY DEF _on_redis_event, Received, Foreign, kafka, history
<1>2. SUFFICES ASSUME crashes = 0
               PROVE  OnceInv'
  BY <1>1 DEF OnceInv
<1>3. e \in Events /\ t \in Seq(Events) /\ channel[i] = Then(One(e), t) /\ channel[i] \in Seq(Events)
  BY <1>1, HeldType, HeadThenTail
<1> HIDE DEF e, t
<1>4. One(e) \in Seq(Events) /\ Once(One(e)) /\ ToSet(One(e)) = {e}
  BY <1>3, OneFacts
<1>5. ToSet(channel[i]) = {e} \cup ToSet(t)
  BY <1>3, <1>4, ThenType
<1>6. Once(channel[i]) => Once(t) /\ e \notin ToSet(t)
  BY <1>3, <1>4, OnceThen
<1>7. \A j \in Instances : channel'[j] = IF j = i THEN t ELSE channel[j]
  BY <1>1 DEF Shape, KafkaType
<1>8. \A j \in Instances : Held(j)' = IF j = i /\ Foreign(i, e[1]) THEN Then(Held(j), One(e)) ELSE Held(j)
  <2>1. CASE Foreign(i, e[1])
    BY <1>1, <1>3, <2>1, HeldArrives
  <2>2. CASE ~Foreign(i, e[1])
    BY <1>1, <2>2 DEF Held, Sent
  <2> QED  BY <2>1, <2>2
<1>9. ASSUME NEW j \in Instances
      PROVE  OnceOf(j)'
  <2>1. OnceOf(j) /\ Held(j) \in Seq(Events)
    BY <1>2, HeldType DEF OnceInv
  <2>2. CASE j = i /\ Foreign(i, e[1])
    <3>1. Held(j)' = Then(Held(j), One(e)) /\ channel'[j] = t
      BY <1>7, <1>8, <2>2
    <3>2. e \notin Got(j) /\ Once(t) /\ e \notin ToSet(t)
      BY <1>5, <1>6, <2>1, <2>2 DEF OnceOf
    <3>3. ToSet(Held(j)') = ToSet(Held(j)) \cup {e} /\ Once(Held(j)')
      BY <1>4, <2>1, <3>1, <3>2, ThenType, OnceThen DEF OnceOf, Got
    <3>4. Got(j)' = Got(j) \cup {e}
      BY <1>1, <3>3 DEF Got
    <3>5. ToSet(Held(j)') \cap ToSet(putters'[j]) = {}
      BY <1>1, <2>1, <3>2, <3>3 DEF OnceOf, Got
    <3>6. \A f \in Got(j)' \cup ToSet(channel'[j]) : f[2] <= position'[f[1]]
      BY <1>1, <1>5, <2>1, <2>2, <3>1, <3>4 DEF OnceOf
    <3>7. \A f \in ToSet(channel'[j]) : Foreign(j, f[1]) => f \notin Got(j)'
      BY <1>5, <2>1, <2>2, <3>1, <3>2, <3>4 DEF OnceOf
    <3>8. \A k \in Instances : \A f \in ToSet(publishing'[k]) :
            f \notin ToSet(channel'[j]) /\ (Foreign(j, f[1]) => f \notin Got(j)')
      BY <1>1, <1>5, <2>1, <2>2, <3>1, <3>4 DEF OnceOf
    <3> QED  BY <1>1, <2>1, <3>1, <3>2, <3>3, <3>5, <3>6, <3>7, <3>8 DEF OnceOf, Foreign
  <2>3. CASE ~(j = i /\ Foreign(i, e[1]))
    <3>1. Held(j)' = Held(j) /\ Got(j)' = Got(j)
      BY <1>1, <1>8, <2>3 DEF Got
    <3>2. ToSet(channel'[j]) \subseteq ToSet(channel[j]) /\ Once(channel'[j])
      BY <1>5, <1>6, <1>7, <2>1 DEF OnceOf
    <3> QED  BY <1>1, <2>1, <3>1, <3>2 DEF OnceOf, Foreign
  <2> QED  BY <2>2, <2>3
<1> QED  BY <1>1, <1>2, <1>9 DEF OnceInv

\* A put moves the first ready task into the queue, or behind the other waiting ones.
LEMMA OncePut ==
    ASSUME Shape, OnceInv, NEW i \in Instances, RunPut(i)
    PROVE  OnceInv'
<1>0. UNCHANGED <<position, publishing, channel, crashes>>
  BY DEF RunPut, kafka, redis, history
<1>1. CASE Len(queue[i]) < QueueSize
  <2>1. UNCHANGED putters
    BY <1>1 DEF RunPut
  <2>2. \A j \in Instances : Held(j)' = Held(j)
    BY <1>1, HeldPut
  <2> QED  BY <1>0, <2>1, <2>2, OnceFrame
<1>2. CASE ~(Len(queue[i]) < QueueSize)
  <2> DEFINE e == Head(ready[i])
             t == Tail(ready[i])
  <2>1. /\ ready[i] # <<>> /\ ready' = [ready EXCEPT ![i] = t]
        /\ putters' = [putters EXCEPT ![i] = Append(@, e)]
        /\ UNCHANGED <<queue, batch, sending, recent_events>>
    BY <1>2 DEF RunPut
  <2>2. e \in Events /\ t \in Seq(Events) /\ ready[i] = Then(One(e), t)
    BY <2>1, HeldType, HeadThenTail
  <2> HIDE DEF e, t
  <2>3. One(e) \in Seq(Events) /\ Once(One(e)) /\ ToSet(One(e)) = {e}
    BY <2>2, OneFacts
  <2>4. SUFFICES ASSUME crashes = 0
                 PROVE  OnceInv'
    BY <1>0 DEF OnceInv
  <2>5. ASSUME NEW j \in Instances, j # i
        PROVE  Held(j)' = Held(j) /\ putters'[j] = putters[j]
    BY <2>1, <2>5 DEF Held, Sent, Shape, LoopType
  <2>6. /\ putters'[i] = Then(putters[i], One(e))
        /\ Held(i)' = Then(Sent(i), Then(queue[i], t))
    <3>1. putters'[i] = Append(putters[i], e) /\ ready'[i] = t /\ putters[i] \in Seq(Events)
      BY <2>1 DEF Shape, LoopType
    <3>2. putters'[i] = Then(putters[i], One(e))
      BY <2>2, <3>1, ThenOne
    <3> QED  BY <2>1, <3>1, <3>2 DEF Held, Sent
  <2>7. /\ Sent(i) \in Seq(Events) /\ queue[i] \in Seq(Events) /\ putters[i] \in Seq(Events)
        /\ Held(i) \in Seq(Events) /\ ready[i] \in Seq(Events)
        /\ Then(queue[i], t) \in Seq(Events) /\ Then(queue[i], ready[i]) \in Seq(Events)
    BY <2>2, HeldType, ThenType
  <2>8. /\ ToSet(ready[i]) = {e} \cup ToSet(t)
        /\ ToSet(Held(i)) = ToSet(Sent(i)) \cup ToSet(queue[i]) \cup ToSet(ready[i])
        /\ ToSet(Held(i)') = ToSet(Sent(i)) \cup ToSet(queue[i]) \cup ToSet(t)
        /\ ToSet(putters'[i]) = ToSet(putters[i]) \cup {e}
    <3>1. ToSet(Then(queue[i], ready[i])) = ToSet(queue[i]) \cup ToSet(ready[i])
      BY <2>7, ThenType
    <3>2. ToSet(Then(queue[i], t)) = ToSet(queue[i]) \cup ToSet(t)
      BY <2>2, <2>7, ThenType
    <3>3. ToSet(Held(i)) = ToSet(Sent(i)) \cup ToSet(Then(queue[i], ready[i]))
      BY <2>7, ThenType DEF Held
    <3>4. ToSet(Held(i)') = ToSet(Sent(i)) \cup ToSet(Then(queue[i], t))
      BY <2>6, <2>7, ThenType
    <3>5. ToSet(ready[i]) = {e} \cup ToSet(t) /\ ToSet(putters'[i]) = ToSet(putters[i]) \cup {e}
      BY <2>2, <2>3, <2>6, <2>7, ThenType
    <3> QED  BY <3>1, <3>2, <3>3, <3>4, <3>5
  <2>9. Once(Held(i)) => Once(Held(i)') /\ e \notin ToSet(Held(i)')
    <3> SUFFICES ASSUME Once(Held(i))
                 PROVE  Once(Held(i)') /\ e \notin ToSet(Held(i)')
      OBVIOUS
    <3>1. /\ Once(Sent(i)) /\ Once(Then(queue[i], ready[i]))
          /\ ToSet(Sent(i)) \cap ToSet(Then(queue[i], ready[i])) = {}
      BY <2>7, OnceThen DEF Held
    <3>2. Once(queue[i]) /\ Once(ready[i]) /\ ToSet(queue[i]) \cap ToSet(ready[i]) = {}
      BY <2>7, <3>1, OnceThen
    <3>3. Once(t) /\ {e} \cap ToSet(t) = {}
      BY <2>2, <2>3, <3>2, OnceThen
    <3>4. ToSet(Then(queue[i], ready[i])) = ToSet(queue[i]) \cup ToSet(ready[i])
      BY <2>7, ThenType
    <3>5. ToSet(Then(queue[i], t)) = ToSet(queue[i]) \cup ToSet(t)
      BY <2>2, <2>7, ThenType
    <3>6. Once(Then(queue[i], t))
      BY <2>2, <2>7, <2>8, <3>2, <3>3, OnceThen
    <3>7. Once(Held(i)')
      <4>1. ToSet(Sent(i)) \cap ToSet(Then(queue[i], t)) = {}
        BY <2>8, <3>1, <3>4, <3>5
      <4> QED  BY <2>6, <2>7, <3>1, <3>6, <4>1, OnceThen
    <3> QED  BY <2>8, <3>1, <3>2, <3>3, <3>4, <3>7
  <2>10. \A j \in Instances : Got(j)' = Got(j)
    BY <2>5, <2>8 DEF Got
  <2>11. ASSUME NEW j \in Instances
         PROVE  OnceOf(j)'
    <3>1. OnceOf(j)
      BY <2>4 DEF OnceInv
    <3>2. Once(Held(j)') /\ Once(putters'[j]) /\ ToSet(Held(j)') \cap ToSet(putters'[j]) = {}
      <4>1. CASE j = i
        <5>1. e \notin ToSet(putters[i])
          BY <2>8, <3>1, <4>1 DEF OnceOf
        <5>2. Once(putters'[i])
          BY <2>3, <2>6, <2>7, <3>1, <4>1, <5>1, OnceThen DEF OnceOf
        <5> QED  BY <2>8, <2>9, <3>1, <4>1, <5>2 DEF OnceOf
      <4>2. CASE j # i
        BY <2>5, <3>1, <4>2 DEF OnceOf
      <4> QED  BY <4>1, <4>2
    <3> QED  BY <1>0, <2>10, <3>1, <3>2 DEF OnceOf, Foreign
  <2> QED  BY <1>0, <2>4, <2>11 DEF OnceInv
<1> QED  BY <1>1, <1>2

\* A get takes an event out of the queue, and a woken task's from the waiting ones.
LEMMA OnceCollect ==
    ASSUME Shape, OnceInv, NEW i \in Instances, Collect(i)
    PROVE  OnceInv'
<1>0. UNCHANGED <<position, publishing, channel, crashes>>
  BY DEF Collect, kafka, redis, history
<1>1. \A j \in Instances :
        Held(j)' = IF j = i /\ putters[i] # <<>> THEN Then(Held(j), One(Head(putters[i]))) ELSE Held(j)
  BY HeldCollect
<1>2. putters' = [putters EXCEPT ![i] = IF @ = <<>> THEN @ ELSE Tail(@)]
  BY DEF Collect
<1>3. CASE putters[i] = <<>>
  <2>1. putters' = putters
    BY <1>2, <1>3 DEF Shape, LoopType
  <2> QED  BY <1>0, <1>1, <1>3, <2>1, OnceFrame
<1>4. CASE putters[i] # <<>>
  <2> DEFINE e == Head(putters[i])
             t == Tail(putters[i])
  <2>1. e \in Events /\ t \in Seq(Events) /\ putters[i] = Then(One(e), t) /\ putters[i] \in Seq(Events)
    BY <1>4, HeldType, HeadThenTail
  <2>2. /\ \A j \in Instances : Held(j)' = IF j = i THEN Then(Held(j), One(e)) ELSE Held(j)
        /\ \A j \in Instances : putters'[j] = IF j = i THEN t ELSE putters[j]
    BY <1>1, <1>2, <1>4 DEF Shape, LoopType
  <2> HIDE DEF e, t
  <2>3. One(e) \in Seq(Events) /\ Once(One(e)) /\ ToSet(One(e)) = {e}
    BY <2>1, OneFacts
  <2>4. ToSet(putters[i]) = {e} \cup ToSet(t)
    BY <2>1, <2>3, ThenType
  <2>5. Once(putters[i]) => Once(t) /\ e \notin ToSet(t)
    BY <2>1, <2>3, OnceThen
  <2>6. SUFFICES ASSUME crashes = 0
                 PROVE  OnceInv'
    BY <1>0 DEF OnceInv
  <2>7. ASSUME NEW j \in Instances
        PROVE  OnceOf(j)'
    <3>1. OnceOf(j) /\ Held(j) \in Seq(Events)
      BY <2>6, HeldType DEF OnceInv
    <3>2. /\ Got(j)' = Got(j)
          /\ Once(Held(j)') /\ Once(putters'[j]) /\ ToSet(Held(j)') \cap ToSet(putters'[j]) = {}
      <4>1. CASE j = i
        <5>1. e \notin ToSet(Held(i)) /\ Once(t) /\ e \notin ToSet(t)
          BY <2>4, <2>5, <3>1, <4>1 DEF OnceOf
        <5>2. ToSet(Held(i)') = ToSet(Held(i)) \cup {e} /\ Once(Held(i)')
          BY <2>2, <2>3, <3>1, <4>1, <5>1, ThenType, OnceThen DEF OnceOf
        <5> QED  BY <2>2, <2>4, <3>1, <4>1, <5>1, <5>2 DEF OnceOf, Got
      <4>2. CASE j # i
        BY <2>2, <3>1, <4>2 DEF OnceOf, Got
      <4> QED  BY <4>1, <4>2
    <3> QED  BY <1>0, <3>1, <3>2 DEF OnceOf, Foreign
  <2> QED  BY <1>0, <2>6, <2>7 DEF OnceInv
<1> QED  BY <1>3, <1>4

\* Every step keeps the events apart.
LEMMA NextOnce ==
    ASSUME Shape, OnceInv, [Next]_vars
    PROVE  OnceInv'
<1>1. ASSUME UNCHANGED <<position, publishing, channel, crashes>>, UNCHANGED pipeline
      PROVE  OnceInv'
  BY <1>1, OnceFrame DEF pipeline, Held, Sent
<1>2. CASE UNCHANGED vars
  BY <1>1, <1>2 DEF vars, kafka, redis, history
<1>3. ASSUME NEW p \in Partitions, AutoCommit(p) \/ \E ks \in SUBSET Keys \ {{}} : Produce(p, ks)
      PROVE  OnceInv'
  BY <1>1, <1>3 DEF AutoCommit, Produce, kafka, redis, history
<1>4. ASSUME NEW i \in Instances, PublishFails(i) \/ SubscriberDies(i)
      PROVE  OnceInv'
  <2>1. UNCHANGED <<position, putters, crashes>> /\ \A j \in Instances : Held(j)' = Held(j)
    BY <1>4 DEF PublishFails, SubscriberDies, pipeline, kafka, Held, Sent
  <2>2. \A j \in Instances : publishing'[j] = publishing[j] \/ publishing'[j] = <<>>
    BY <1>4 DEF PublishFails, SubscriberDies, kafka, Shape, KafkaType
  <2>3. \A j \in Instances : channel'[j] = channel[j] \/ channel'[j] = <<>>
    BY <1>4 DEF PublishFails, SubscriberDies, redis, Shape, KafkaType
  <2>4. \A j \in Instances : /\ ToSet(publishing'[j]) \subseteq ToSet(publishing[j])
                             /\ ToSet(channel'[j]) \subseteq ToSet(channel[j])
                             /\ Once(channel[j]) => Once(channel'[j])
    BY <2>2, <2>3, EmptyFacts
  <2> QED  BY <2>1, <2>4 DEF OnceInv, OnceOf, Got, Foreign
<1>5. ASSUME NEW i \in Instances, Flush(i) \/ Finish(i) \/ \E c \in Clients : Send(i, c)
      PROVE  OnceInv'
  <2>1. UNCHANGED <<position, publishing, channel, putters, crashes>>
    BY <1>5 DEF Flush, Finish, Send, kafka, redis, history
  <2> QED  BY <1>5, <2>1, HeldRound, OnceFrame
<1>6. ASSUME NEW c \in Clients, Endpoint(c)
      PROVE  OnceInv'
  BY <1>1, <1>6 DEF Endpoint, Subscribe, Connect, join_room, HangUp, EndpointEnds, HeartbeatFails,
                    kafka, redis, history
<1>7. ASSUME NEW c \in SseClients, Stream(c)
      PROVE  OnceInv'
  BY <1>1, <1>7 DEF Stream, RegisterStream, StartStream, AbandonStream, StreamNext, CloseStream,
                    kafka, redis, history
<1>8. ASSUME NEW i \in Instances, Crash(i)
      PROVE  OnceInv'
  <2>1. crashes' # 0
    BY <1>8 DEF Crash, Shape, CountType
  <2> QED  BY <2>1 DEF OnceInv
<1> QED  BY <1>2, <1>3, <1>4, <1>5, <1>6, <1>7, <1>8, OncePoll, OncePublish, OnceRedis, OncePut, OnceCollect
         DEF Next, KafkaThread, BroadcastLoop
-----------------------------------------------------------------------------
(* The events of a partition in order.                                     *)

\* A run goes on with the next offset, said with Then.
LEMMA RunThen ==
    ASSUME NEW s \in Seq(Events), NEW p \in Partitions, NEW a \in Nat, NEW b \in Nat,
           a <= b, Run(s, p, a, b), NEW e \in Events
    PROVE  /\ e[1] # p => Run(Then(s, One(e)), p, a, b)
           /\ e = <<p, b + 1>> => Run(Then(s, One(e)), p, a, b + 1)
<1>1. Then(s, One(e)) = Append(s, e)
  BY ThenOne
<1> QED  BY <1>1, RunAppend

\* Without events of the partition a run goes nowhere.
LEMMA RunEmpty ==
    ASSUME NEW p \in Partitions, NEW a \in Nat, NEW b \in Nat, a <= b, b <= MaxEvents
    PROVE  Run(<<>>, p, a, b) <=> a = b
<1>1. \A m, n \in DOMAIN <<>> : m < n /\ <<>>[m][1] = p /\ <<>>[n][1] = p => <<>>[m][2] < <<>>[n][2]
  OBVIOUS
<1>2. CASE a = b
  BY <1>1, <1>2, EmptyFacts DEF Run
<1>3. CASE a # b
  <2>1. b \in (a + 1)..b /\ b \in 1..MaxEvents
    BY <1>3, Sizes
  <2>2. <<p, b>> \in Events
    BY <2>1 DEF Events
  <2> QED  BY <1>3, <2>1, <2>2, EmptyFacts DEF Run
<1> QED  BY <1>2, <1>3

\* A first event.
LEMMA RunFirst ==
    ASSUME NEW p \in Partitions, NEW a \in Nat, NEW b \in Nat,
           a <= b, Run(<<>>, p, a, b), NEW e \in Events
    PROVE  /\ e[1] # p => Run(One(e), p, a, b)
           /\ e = <<p, b + 1>> => Run(One(e), p, a, b + 1)
<1>1. PICK s \in Seq(Events) : s = <<>>
  BY EmptyFacts
<1>2. Then(s, One(e)) = One(e)
  BY <1>1 DEF Then, One
<1>3. Run(s, p, a, b)
  BY <1>1
<1> QED  BY <1>2, <1>3, RunThen

\* A sequence of one event is the run of that event, or of none if it is of another partition.
LEMMA RunOne ==
    ASSUME NEW e \in Events, NEW p \in Partitions, NEW a \in Nat, NEW b \in Nat,
           a <= b, b <= MaxEvents, Run(One(e), p, a, b)
    PROVE  /\ e[1] # p => a = b
           /\ e[1] = p => e = <<p, a + 1>> /\ b = a + 1
<1>1. /\ One(e) \in Seq(Events) /\ One(e) # <<>> /\ Head(One(e)) = e /\ Tail(One(e)) = <<>>
  BY DEF One
<1>2. CASE e[1] # p
  <2>1. Run(<<>>, p, a, b)
    BY <1>1, <1>2, RunTail
  <2> QED  BY <1>2, <2>1, RunEmpty
<1>3. CASE e[1] = p
  <2>1. a < b /\ e = <<p, a + 1>> /\ Run(<<>>, p, a + 1, b)
    BY <1>1, <1>3, RunTail
  <2>2. a + 1 = b
    BY <2>1, RunEmpty
  <2> QED  BY <1>3, <2>1, <2>2
<1> QED  BY <1>2, <1>3

\* The events of a partition on their way through an instance: those taken over, in the
\* channel and about to be published are three runs, one after the other.
OrderOf(i, p) ==
    /\ Owner[p] = i => Run(Held(i), p, 0, position[p])
    /\ Owner[p] # i /\ Foreign(i, p) /\ RedisEnabled =>
         \E a, b \in 0..position[p] :
             /\ a <= b
             /\ Run(Held(i), p, 0, a)
             /\ Run(channel[i], p, a, b)
             /\ Run(publishing[Owner[p]], p, b, position[p])
    /\ Owner[p] # i /\ ~(Foreign(i, p) /\ RedisEnabled) => Run(Held(i), p, 0, 0)

OrderInv ==
    faults = 0 /\ crashes = 0 =>
        /\ subscribed = IF RedisEnabled THEN Instances ELSE {}
        /\ \A j \in Instances : \A e \in ToSet(publishing[j]) : Owner[e[1]] = j
        /\ \A i \in Instances \ overfull :
             putters[i] = <<>> /\ \A p \in Partitions : OrderOf(i, p)

\* At the start every run is empty.
LEMMA InitOrder == Init => OrderInv
<1> SUFFICES ASSUME Init PROVE OrderInv
  OBVIOUS
<1>1. \A i \in Instances : /\ Held(i) = <<>> /\ putters[i] = <<>>
                           /\ channel[i] = <<>> /\ publishing[i] = <<>>
  <2>1. Then(<<>>, <<>>) = <<>>
    BY EmptyFacts, ThenEmpty
  <2> QED  BY <2>1 DEF Init, Empty, Held, Sent
<1>2. \A p \in Partitions : position[p] = 0 /\ Owner[p] \in Instances /\ Run(<<>>, p, 0, 0)
  BY OwnerAssumption, RunEmpty, Sizes DEF Init
<1>3. ASSUME NEW i \in Instances, NEW p \in Partitions
      PROVE  OrderOf(i, p)
  <2>1. 0 \in 0..position[p]
    BY <1>2
  <2> QED  BY <1>1, <1>2, <2>1 DEF OrderOf
<1>4. subscribed = IF RedisEnabled THEN Instances ELSE {}
  BY DEF Init
<1> QED  BY <1>1, <1>3, <1>4, EmptyFacts DEF OrderInv

\* What the order of one partition at one instance depends on.
LEMMA OrderFrame ==
    ASSUME NEW i \in Instances, NEW p \in Partitions, OrderOf(i, p),
           position'[p] = position[p], Held(i)' = Held(i), channel'[i] = channel[i],
           publishing'[Owner[p]] = publishing[Owner[p]]
    PROVE  OrderOf(i, p)'
<1>1. CASE Owner[p] = i
  BY <1>1 DEF OrderOf
<1>2. CASE Owner[p] # i /\ Foreign(i, p) /\ RedisEnabled
  BY <1>2 DEF OrderOf, Foreign
<1>3. CASE Owner[p] # i /\ ~(Foreign(i, p) /\ RedisEnabled)
  BY <1>3 DEF OrderOf, Foreign
<1> QED  BY <1>1, <1>2, <1>3

\* The next event of a partition comes last at its owner and is the next to publish.
LEMMA OrderPoll ==
    ASSUME Shape, OrderInv, NEW q \in Partitions, Poll(q)
    PROVE  OrderInv'
<1> DEFINE k == Owner[q]
           e == <<q, position[q] + 1>>
<1>0. k \in Instances /\ e \in Events /\ e[1] = q /\ e[2] = position[q] + 1
  <2>1. position[q] \in Nat /\ position[q] + 1 \in 1..MaxEvents
    BY Sizes DEF Poll, Shape, KafkaType
  <2> QED  BY <2>1, OwnerAssumption DEF Events
<1>1. /\ position' = [position EXCEPT ![q] = @ + 1]
      /\ publishing' = [publishing EXCEPT ![k] = IF RedisEnabled THEN <<e>> ELSE <<>>]
      /\ publishing[k] = <<>>
      /\ UNCHANGED <<channel, subscribed, putters, overfull, crashes, faults,
                     queue, batch, sending, recent_events>>
      /\ _enqueue_from_thread(k, e)
  BY DEF Poll, redis, history
<1>2. SUFFICES ASSUME faults = 0, crashes = 0
               PROVE  OrderInv'
  BY <1>1 DEF OrderInv
<1>3. \A i \in Instances : Held(i)' = IF i = k THEN Then(Held(i), One(e)) ELSE Held(i)
  BY <1>0, <1>1, HeldArrives
<1>4. \A p \in Partitions : /\ position[p] \in Nat /\ position'[p] \in Nat /\ position[p] <= MaxEvents
                            /\ position'[p] = IF p = q THEN position[p] + 1 ELSE position[p]
  <2>1. \A p \in Partitions : position[p] \in Nat /\ position[p] <= Len(log[p])
                                /\ Len(log[p]) \in Nat /\ Len(log[p]) <= MaxEvents
    BY DEF Shape, KafkaType
  <2> QED  BY <1>1, <2>1, Sizes DEF Shape, KafkaType
<1>5. \A j \in Instances :
        publishing'[j] = IF j = k THEN (IF RedisEnabled THEN One(e) ELSE <<>>) ELSE publishing[j]
  BY <1>1 DEF Shape, KafkaType, One
<1>6. ToSet(One(e)) = {e}
  BY <1>0, OneFacts
<1>7. \A j \in Instances : \A f \in ToSet(publishing'[j]) : Owner[f[1]] = j
  BY <1>0, <1>2, <1>5, <1>6, EmptyFacts DEF OrderInv
<1> HIDE DEF e
<1>8. ASSUME NEW i \in Instances \ overfull, NEW p \in Partitions
      PROVE  OrderOf(i, p)'
  <2>0. OrderOf(i, p) /\ Held(i) \in Seq(Events) /\ Owner[p] \in Instances
    BY <1>2, HeldType, OwnerAssumption DEF OrderInv
  <2>1. CASE Owner[p] = i
    <3>1. Run(Held(i), p, 0, position[p])
      BY <2>0, <2>1 DEF OrderOf
    <3>2. Run(Held(i)', p, 0, position'[p])
      <4>1. CASE p = q
        <5>1. e = <<p, position[p] + 1>>
          BY <4>1 DEF e
        <5>2. Run(Then(Held(i), One(e)), p, 0, position[p] + 1)
          BY <1>0, <1>4, <2>0, <3>1, <5>1, RunThen
        <5> QED  BY <1>3, <1>4, <2>1, <4>1, <5>2
      <4>2. CASE p # q /\ i = k
        <5>1. Run(Then(Held(i), One(e)), p, 0, position[p])
          BY <1>0, <1>4, <2>0, <3>1, <4>2, RunThen
        <5> QED  BY <1>3, <1>4, <4>2, <5>1
      <4>3. CASE p # q /\ i # k
        BY <1>3, <1>4, <3>1, <4>3
      <4> QED  BY <4>1, <4>2, <4>3
    <3> QED  BY <2>1, <3>2 DEF OrderOf
  <2>2. CASE Owner[p] # i /\ Foreign(i, p) /\ RedisEnabled
    <3>1. PICK a, b \in 0..position[p] :
            a <= b /\ Run(Held(i), p, 0, a) /\ Run(channel[i], p, a, b)
              /\ Run(publishing[Owner[p]], p, b, position[p])
      BY <2>0, <2>2 DEF OrderOf
    <3>2. Run(Held(i)', p, 0, a)
      <4>1. CASE i = k
        <5>1. Run(Then(Held(i), One(e)), p, 0, a)
          BY <1>0, <1>4, <2>0, <2>2, <3>1, <4>1, RunThen
        <5> QED  BY <1>3, <4>1, <5>1
      <4>2. CASE i # k
        BY <1>3, <3>1, <4>2
      <4> QED  BY <4>1, <4>2
    <3>3. Run(publishing'[Owner[p]], p, b, position'[p])
      <4>1. CASE p = q
        <5>1. e = <<p, position[p] + 1>> /\ publishing[Owner[p]] = <<>> /\ publishing'[Owner[p]] = One(e)
          BY <1>0, <1>1, <1>5, <2>2, <4>1 DEF e
        <5>2. Run(One(e), p, b, position[p] + 1)
          BY <1>0, <1>4, <3>1, <5>1, RunFirst
        <5> QED  BY <1>4, <4>1, <5>1, <5>2
      <4>2. CASE p # q /\ Owner[p] = k
        <5>1. publishing[Owner[p]] = <<>> /\ publishing'[Owner[p]] = One(e)
          BY <1>0, <1>1, <1>5, <2>2, <4>2
        <5>2. Run(One(e), p, b, position[p])
          BY <1>0, <1>4, <3>1, <4>2, <5>1, RunFirst
        <5> QED  BY <1>4, <4>2, <5>1, <5>2
      <4>3. CASE p # q /\ Owner[p] # k
        BY <1>4, <1>5, <2>0, <3>1, <4>3
      <4> QED  BY <4>1, <4>2, <4>3
    <3>4. a \in 0..position'[p] /\ b \in 0..position'[p] /\ channel'[i] = channel[i]
      BY <1>1, <1>4, <3>1
    <3> QED  BY <2>2, <3>1, <3>2, <3>3, <3>4 DEF OrderOf, Foreign
  <2>3. CASE Owner[p] # i /\ ~(Foreign(i, p) /\ RedisEnabled)
    <3>1. Run(Held(i), p, 0, 0)
      BY <2>0, <2>3 DEF OrderOf
    <3>2. Run(Held(i)', p, 0, 0)
      <4>1. CASE i = k
        <5>1. Run(Then(Held(i), One(e)), p, 0, 0)
          BY <1>0, <2>0, <2>3, <3>1, <4>1, RunThen
        <5> QED  BY <1>3, <4>1, <5>1
      <4>2. CASE i # k
        BY <1>3, <3>1, <4>2
      <4> QED  BY <4>1, <4>2
    <3> QED  BY <2>3, <3>2 DEF OrderOf, Foreign
  <2> QED  BY <2>1, <2>2, <2>3
<1>9. \A i \in Instances \ overfull' : putters'[i] = <<>>
  BY <1>1, <1>2 DEF OrderInv
<1>10. subscribed' = IF RedisEnabled THEN Instances ELSE {}
  BY <1>1, <1>2 DEF OrderInv
<1>11. \A i \in Instances \ overfull' : \A p \in Partitions : OrderOf(i, p)'
  BY <1>1, <1>8
<1> QED  BY <1>7, <1>9, <1>10, <1>11 DEF OrderInv

\* A publication moves the event to the end of every channel.
LEMMA OrderPublish ==
    ASSUME Shape, OrderInv, NEW k \in Instances, Publish(k)
    PROVE  OrderInv'
<1>1. /\ publishing' = [publishing EXCEPT ![k] = <<>>] /\ publishing[k] # <<>>
      /\ channel' = [j \in Instances |-> IF j \in subscribed
                                         THEN Then(channel[j], publishing[k]) ELSE channel[j]]
      /\ UNCHANGED <<position, subscribed, putters, overfull, crashes, faults,
                     queue, ready, batch, sending, recent_events>>
  BY DEF Publish, pipeline, history, Then
<1>2. SUFFICES ASSUME faults = 0, crashes = 0
               PROVE  OrderInv'
  BY <1>1 DEF OrderInv
<1>3. \A i \in Instances : Held(i)' = Held(i)
  BY <1>1 DEF Held, Sent
<1>4. PICK e \in Events : publishing[k] = One(e)
  <2>1. publishing[k] \in Seq(Events) /\ Len(publishing[k]) <= 1 /\ publishing[k] # <<>>
    BY <1>1 DEF Shape, KafkaType
  <2>2. publishing[k][1] \in Events /\ publishing[k] = <<publishing[k][1]>>
    BY <2>1
  <2> QED  BY <2>2 DEF One
<1>5. Owner[e[1]] = k /\ e[1] \in Partitions
  <2>1. e \in ToSet(publishing[k])
    BY <1>4, OneFacts
  <2> QED  BY <1>2, <2>1, EventType DEF OrderInv
<1>6. \A j \in Instances : publishing'[j] = IF j = k THEN <<>> ELSE publishing[j]
  BY <1>1 DEF Shape, KafkaType
<1>7. \A j \in Instances : \A f \in ToSet(publishing'[j]) : Owner[f[1]] = j
  BY <1>2, <1>6, EmptyFacts DEF OrderInv
<1>8. ASSUME NEW i \in Instances \ overfull, NEW p \in Partitions
      PROVE  OrderOf(i, p)'
  <2>0. OrderOf(i, p) /\ channel[i] \in Seq(Events) /\ Owner[p] \in Instances
    BY <1>2, HeldType, OwnerAssumption DEF OrderInv
  <2>1. CASE Owner[p] = i
    BY <1>1, <1>3, <2>0, <2>1 DEF OrderOf
  <2>2. CASE Owner[p] # i /\ Foreign(i, p) /\ RedisEnabled
    <3>1. PICK a, b \in 0..position[p] :
            a <= b /\ Run(Held(i), p, 0, a) /\ Run(channel[i], p, a, b)
              /\ Run(publishing[Owner[p]], p, b, position[p])
      BY <2>0, <2>2 DEF OrderOf
    <3>2. a \in Nat /\ b \in Nat /\ position[p] \in Nat /\ b <= position[p] /\ position[p] <= MaxEvents
      <4>1. position[p] \in Nat /\ position[p] <= Len(log[p])
              /\ Len(log[p]) \in Nat /\ Len(log[p]) <= MaxEvents
        BY DEF Shape, KafkaType
      <4> QED  BY <3>1, <4>1, Sizes
    <3>3. channel'[i] = Then(channel[i], One(e))
      BY <1>1, <1>2, <1>4, <2>2 DEF OrderInv
    <3>4. CASE e[1] = p
      <4>1. e = <<p, b + 1>> /\ position[p] = b + 1
        BY <1>4, <1>5, <3>1, <3>2, <3>4, RunOne
      <4>2. Run(channel'[i], p, a, position[p])
        BY <2>0, <3>1, <3>2, <3>3, <4>1, RunThen
      <4>3. publishing'[Owner[p]] = <<>>
        BY <1>5, <1>6, <3>4, <2>0
      <4>4. Run(publishing'[Owner[p]], p, position[p], position[p])
        BY <3>2, <4>3, RunEmpty
      <4>5. a \in 0..position'[p] /\ position[p] \in 0..position'[p] /\ a <= position[p]
        BY <1>1, <3>1, <3>2
      <4> QED  BY <1>1, <1>3, <2>2, <3>1, <4>2, <4>4, <4>5 DEF OrderOf, Foreign
    <3>5. CASE e[1] # p
      <4>1. Run(channel'[i], p, a, b)
        BY <2>0, <3>1, <3>2, <3>3, <3>5, RunThen
      <4>2. Run(publishing'[Owner[p]], p, b, position[p])
        <5>1. CASE Owner[p] = k
          <6>1. b = position[p]
            BY <1>4, <3>1, <3>2, <3>5, <5>1, RunOne
          <6> QED  BY <1>6, <2>0, <3>2, <5>1, <6>1, RunEmpty
        <5>2. CASE Owner[p] # k
          BY <1>6, <2>0, <3>1, <5>2
        <5> QED  BY <5>1, <5>2
      <4> QED  BY <1>1, <1>3, <2>2, <3>1, <4>1, <4>2 DEF OrderOf, Foreign
    <3> QED  BY <3>4, <3>5
  <2>3. CASE Owner[p] # i /\ ~(Foreign(i, p) /\ RedisEnabled)
    BY <1>1, <1>3, <2>0, <2>3 DEF OrderOf, Foreign
  <2> QED  BY <2>1, <2>2, <2>3
<1>9. \A i \in Instances \ overfull' : putters'[i] = <<>> /\ \A p \in Partitions : OrderOf(i, p)'
  BY <1>1, <1>2, <1>8 DEF OrderInv
<1>10. subscribed' = IF RedisEnabled THEN Instances ELSE {}
  BY <1>1, <1>2 DEF OrderInv
<1> QED  BY <1>7, <1>9, <1>10 DEF OrderInv

\* The first event of the channel goes behind those already taken over.
LEMMA OrderRedis ==
    ASSUME Shape, OrderInv, NEW k \in Instances, _on_redis_event(k)
    PROVE  OrderInv'
<1> DEFINE e == Head(channel[k])
           t == Tail(channel[k])
<1>1. /\ channel[k] # <<>> /\ k \in subscribed
      /\ channel' = [channel EXCEPT ![k] = t]
      /\ IF Foreign(k, e[1]) THEN _enqueue_from_thread(k, e) ELSE UNCHANGED ready
      /\ UNCHANGED <<position, publishing, subscribed, putters, overfull, crashes, faults,
                     queue, batch, sending, recent_events>>
  BY DEF _on_redis_event, Received, Foreign, kafka, history
<1>2. SUFFICES ASSUME faults = 0, crashes = 0
               PROVE  OrderInv'
  BY <1>1 DEF OrderInv
<1>3. e \in Events /\ t \in Seq(Events) /\ channel[k] \in Seq(Events)
  BY <1>1, HeldType
<1>4. \A i \in Instances : channel'[i] = IF i = k THEN t ELSE channel[i]
  BY <1>1 DEF Shape, KafkaType
<1>5. \A i \in Instances : Held(i)' = IF i = k /\ Foreign(k, e[1]) THEN Then(Held(i), One(e)) ELSE Held(i)
  <2>1. CASE Foreign(k, e[1])
    BY <1>1, <1>3, <2>1, HeldArrives
  <2>2. CASE ~Foreign(k, e[1])
    BY <1>1, <2>2 DEF Held, Sent
  <2> QED  BY <2>1, <2>2
<1>6. RedisEnabled
  BY <1>1, <1>2 DEF OrderInv
<1>7. ASSUME NEW i \in Instances \ overfull, NEW p \in Partitions
      PROVE  OrderOf(i, p)'
  <2>0. OrderOf(i, p) /\ Held(i) \in Seq(Events) /\ position[p] \in Nat
    BY <1>2, HeldType DEF OrderInv, Shape, KafkaType
  <2>1. CASE i # k
    BY <1>1, <1>4, <1>5, <2>0, <2>1, OrderFrame
  <2>2. CASE i = k /\ Owner[p] # i /\ Foreign(i, p)
    <3>1. PICK a, b \in 0..position[p] :
            a <= b /\ Run(Held(i), p, 0, a) /\ Run(channel[i], p, a, b)
              /\ Run(publishing[Owner[p]], p, b, position[p])
      BY <1>6, <2>0, <2>2 DEF OrderOf
    <3>2. CASE e[1] = p
      <4>1. a < b /\ e = <<p, a + 1>> /\ Run(t, p, a + 1, b)
        BY <1>1, <1>3, <2>2, <3>1, <3>2, RunTail
      <4>2. Held(i)' = Then(Held(i), One(e)) /\ channel'[i] = t
        BY <1>4, <1>5, <2>2, <3>2
      <4> HIDE DEF e, t
      <4>3. Run(Held(i)', p, 0, a + 1)
        <5>1. a \in Nat /\ 0 <= a
          BY <2>0, <3>1
        <5>2. Run(Then(Held(i), One(e)), p, 0, a + 1)
          BY <1>3, <2>0, <3>1, <4>1, <5>1, RunThen
        <5> QED  BY <4>2, <5>2
      <4>4. a + 1 \in 0..position[p] /\ a + 1 <= b
        BY <2>0, <3>1, <4>1
      <4> QED  BY <1>1, <1>6, <2>2, <3>1, <4>1, <4>2, <4>3, <4>4 DEF OrderOf, Foreign
    <3>3. CASE e[1] # p
      <4>1. Run(t, p, a, b) /\ channel'[i] = t
        BY <1>1, <1>3, <1>4, <2>2, <3>1, <3>3, RunTail
      <4> HIDE DEF e, t
      <4>2. Run(Held(i)', p, 0, a)
        <5>1. Run(Then(Held(i), One(e)), p, 0, a)
          BY <1>3, <2>0, <3>1, <3>3, RunThen
        <5> QED  BY <1>5, <3>1, <5>1
      <4> QED  BY <1>1, <1>6, <2>2, <3>1, <4>1, <4>2 DEF OrderOf, Foreign
    <3> QED  BY <3>2, <3>3
  <2>3. CASE i = k /\ (Owner[p] = i \/ ~Foreign(i, p))
    <3>1. PICK m \in {0, position[p]} :
            /\ Run(Held(i), p, 0, m)
            /\ m = IF Owner[p] = i THEN position[p] ELSE 0
      BY <2>0, <2>3 DEF OrderOf
    <3>2. m \in Nat
      BY <2>0
    <3>3. Foreign(k, e[1]) => e[1] # p
      BY <2>3 DEF Foreign
    <3> HIDE DEF e
    <3>4. Run(Held(i)', p, 0, m)
      <4>1. CASE Foreign(k, e[1])
        <5>1. Run(Then(Held(i), One(e)), p, 0, m)
          BY <1>3, <2>0, <3>1, <3>2, <3>3, <4>1, RunThen
        <5> QED  BY <1>5, <2>3, <4>1, <5>1
      <4>2. CASE ~Foreign(k, e[1])
        BY <1>5, <3>1, <4>2
      <4> QED  BY <4>1, <4>2
    <3> QED  BY <1>1, <2>3, <3>1, <3>4 DEF OrderOf, Foreign
  <2> QED  BY <2>1, <2>2, <2>3
<1>8. \A i \in Instances \ overfull' : putters'[i] = <<>> /\ \A p \in Partitions : OrderOf(i, p)'
  BY <1>1, <1>2, <1>7 DEF OrderInv
<1> QED  BY <1>1, <1>2, <1>8 DEF OrderInv

\* Every step keeps the partitions in order.
LEMMA NextOrder ==
    ASSUME Shape, OrderInv, [Next]_vars
    PROVE  OrderInv'
<1>1. ASSUME UNCHANGED <<position, publishing, channel, subscribed>>,
             faults' = 0 /\ crashes' = 0 => faults = 0 /\ crashes = 0,
             \A i \in Instances \ overfull' :
               i \notin overfull /\ Held(i)' = Held(i) /\ (putters[i] = <<>> => putters'[i] = <<>>)
      PROVE  OrderInv'
  <2>1. ASSUME faults = 0, crashes = 0, NEW i \in Instances \ overfull', NEW p \in Partitions
        PROVE  OrderOf(i, p)'
    <3>1. OrderOf(i, p)
      BY <1>1, <2>1 DEF OrderInv
    <3> QED  BY <1>1, <3>1, OrderFrame
  <2> QED  BY <1>1, <2>1 DEF OrderInv
<1>2. ASSUME UNCHANGED <<position, publishing, channel, subscribed, crashes>>, UNCHANGED pipeline,
             faults' = faults \/ faults' = faults + 1
      PROVE  OrderInv'
  <2>1. faults' = 0 => faults = 0
    BY <1>2 DEF Shape, CountType
  <2> QED  BY <1>1, <1>2, <2>1 DEF pipeline, Held, Sent
<1>3. CASE UNCHANGED vars
  BY <1>2, <1>3 DEF vars, kafka, redis, history
<1>4. ASSUME NEW p \in Partitions, AutoCommit(p) \/ \E ks \in SUBSET Keys \ {{}} : Produce(p, ks)
      PROVE  OrderInv'
  BY <1>2, <1>4 DEF AutoCommit, Produce, kafka, redis, history
<1>5. ASSUME NEW i \in Instances, PublishFails(i) \/ SubscriberDies(i) \/ Crash(i)
      PROVE  OrderInv'
  <2>1. faults' # 0 \/ crashes' # 0
    BY <1>5 DEF PublishFails, SubscriberDies, Crash, Shape, CountType
  <2> QED  BY <2>1 DEF OrderInv
<1>6. ASSUME NEW i \in Instances, RunPut(i)
      PROVE  OrderInv'
  <2>1. UNCHANGED <<position, publishing, channel, subscribed, faults, crashes>>
    BY <1>6 DEF RunPut, kafka, redis, history
  <2>2. CASE Len(queue[i]) < QueueSize
    <3>1. UNCHANGED <<putters, overfull>>
      BY <1>6, <2>2 DEF RunPut
    <3> QED  BY <1>1, <1>6, <2>1, <2>2, <3>1, HeldPut
  <2>3. CASE ~(Len(queue[i]) < QueueSize)
    <3>1. /\ overfull' = overfull \cup {i}
          /\ \A j \in Instances \ {i} : putters'[j] = putters[j] /\ ready'[j] = ready[j]
          /\ UNCHANGED <<queue, batch, sending, recent_events>>
      BY <1>6, <2>3 DEF RunPut, Shape, LoopType
    <3> QED  BY <1>1, <2>1, <3>1 DEF Held, Sent
  <2> QED  BY <2>2, <2>3
<1>7. ASSUME NEW i \in Instances, Collect(i)
      PROVE  OrderInv'
  <2>1. /\ UNCHANGED <<position, publishing, channel, subscribed, overfull, faults, crashes>>
        /\ \A j \in Instances : putters[j] = <<>> => putters'[j] = <<>>
    BY <1>7 DEF Collect, kafka, redis, history, Shape, LoopType
  <2>2. \A j \in Instances : putters[j] = <<>> => Held(j)' = Held(j)
    BY <1>7, HeldCollect
  <2>3. SUFFICES ASSUME faults = 0, crashes = 0
                 PROVE  OrderInv'
    BY <2>1 DEF OrderInv
  <2>4. \A j \in Instances \ overfull' : j \notin overfull /\ putters[j] = <<>>
    BY <2>1, <2>3 DEF OrderInv
  <2> QED  BY <1>1, <2>1, <2>2, <2>4
<1>8. ASSUME NEW i \in Instances, Flush(i) \/ Finish(i) \/ \E c \in Clients : Send(i, c)
      PROVE  OrderInv'
  <2>1. UNCHANGED <<position, publishing, channel, subscribed, putters, overfull, faults, crashes>>
    BY <1>8 DEF Flush, Finish, Send, kafka, redis, history
  <2> QED  BY <1>1, <1>8, <2>1, HeldRound
<1>9. ASSUME NEW c \in Clients, Endpoint(c)
      PROVE  OrderInv'
  BY <1>2, <1>9 DEF Endpoint, Subscribe, Connect, join_room, HangUp, EndpointEnds, HeartbeatFails,
                    kafka, redis, history
<1>10. ASSUME NEW c \in SseClients, Stream(c)
       PROVE  OrderInv'
  BY <1>2, <1>10 DEF Stream, RegisterStream, StartStream, AbandonStream, StreamNext, CloseStream,
                     kafka, redis, history
<1> QED  BY <1>3, <1>4, <1>5, <1>6, <1>7, <1>8, <1>9, <1>10, OrderPoll, OrderPublish, OrderRedis
         DEF Next, KafkaThread, BroadcastLoop

\* What an instance has broadcast is the beginning of what it has taken over.
LEMMA OrderGivesProperty ==
    ASSUME Shape, OnceInv, OrderInv
    PROVE  BroadcastOnceInOrder
<1> SUFFICES ASSUME crashes = 0, NEW i \in Instances
             PROVE  /\ Len(recent_events[i]) = Cardinality(ToSet(recent_events[i]))
                    /\ faults = 0 /\ i \notin overfull => InOrder(recent_events[i])
  BY DEF BroadcastOnceInOrder
<1>1. PICK w \in Seq(Events) : Held(i) = Then(recent_events[i], w)
  <2> DEFINE b == IF i \in sending THEN <<>> ELSE batch[i]
             v == Then(queue[i], ready[i])
  <2>1. recent_events[i] \in Seq(Events) /\ b \in Seq(Events) /\ v \in Seq(Events)
    BY HeldType, EmptyFacts
  <2>2. Sent(i) = Then(recent_events[i], b)
    BY <2>1, ThenEmpty DEF Sent
  <2>3. Held(i) = Then(Then(recent_events[i], b), v)
    BY <2>2 DEF Held
  <2> HIDE DEF b, v
  <2>4. Then(b, v) \in Seq(Events)
    BY <2>1, ThenType
  <2>5. Then(Then(recent_events[i], b), v) = Then(recent_events[i], Then(b, v))
    BY ONLY <2>1, ThenAssociative
  <2> QED  BY <2>3, <2>4, <2>5
<1>2. recent_events[i] \in Seq(Events)
  BY HeldType
<1>3. Once(recent_events[i])
  BY <1>1, <1>2, OnceThen DEF OnceInv, OnceOf
<1>4. ASSUME faults = 0, i \notin overfull
      PROVE  InOrder(recent_events[i])
  <2>1. ASSUME NEW p \in Partitions
        PROVE  \E b \in Nat : Run(recent_events[i] \o w, p, 0, b)
    <3>1. OrderOf(i, p) /\ position[p] \in Nat
      BY <1>4 DEF OrderInv, Shape, KafkaType
    <3>2. \E b \in Nat : Run(Held(i), p, 0, b)
      BY <3>1 DEF OrderOf
    <3> QED  BY <1>1, <3>2 DEF Then
  <2> QED  BY <1>1, <1>2, <2>1, RunInOrder
<1> QED  BY <1>2, <1>3, <1>4, OnceCardinality

-----------------------------------------------------------------------------
(* What a viewer lacks.                                                    *)

\* The batch that is being sent ends what has been broadcast; it is sent to clients of
\* the instance; a viewer that has not read the initial state has none.
LossInv ==
    /\ \A i \in sending : \E s \in Seq(Events) : recent_events[i] = Then(s, batch[i])
    /\ \A i \in Instances : \A c \in targets[i] : Home[c] = i
    /\ \A c \in Viewers : conn[c] \in {"new", "waiting"} => base[c] = {}
    /\ LossesAreExplained

\* At the start nothing is due.
LEMMA InitLoss == Init => LossInv
<1> SUFFICES ASSUME Init PROVE LossInv
  OBVIOUS
<1>1. \A c \in Viewers : Home[c] \in Instances
  BY HomeAssumption, ViewersAssumption DEF Viewers
<1>2. \A c \in Viewers : Due(c) = {}
  BY <1>1, EmptyFacts DEF Init, Due, Empty
<1> QED  BY <1>2 DEF Init, LossInv, LossesAreExplained, Empty

\* Losses stay explained where no more is due and nothing is taken away.
LEMMA LossFrame ==
    ASSUME LossInv, NEW c \in Viewers,
           Live(c)' => Live(c), Due(c)' \subseteq Due(c),
           Has(c) \cup missed[c] \cup denied[c] \subseteq Has(c)' \cup missed'[c] \cup denied'[c]
    PROVE  Live(c)' => Due(c)' \subseteq Has(c)' \cup missed'[c] \cup denied'[c]
BY DEF LossInv, LossesAreExplained

\* The elements of the members of a sequence of sequences.
Flat(s) == UNION {ToSet(b) : b \in ToSet(s)}

\* The elements of two sequences of sequences, one after the other.
LEMMA FlatThen ==
    ASSUME NEW S, NEW s \in Seq(S), NEW t \in Seq(S)
    PROVE  Flat(Then(s, t)) = Flat(s) \cup Flat(t)
<1>1. ToSet(Then(s, t)) = ToSet(s) \cup ToSet(t)
  BY ThenType
<1> QED  BY ONLY <1>1, Zenon DEF Flat

\* The elements of one sequence of a sequence.
LEMMA FlatOne ==
    ASSUME NEW S, NEW b \in S
    PROVE  One(b) \in Seq(S) /\ Flat(One(b)) = ToSet(b)
<1>1. ToSet(One(b)) = {b} /\ One(b) \in Seq(S)
  BY OneFacts
<1>2. Flat(One(b)) = ToSet(b)
  <2> HIDE DEF Flat
  <2>1. Flat(One(b)) = UNION {ToSet(x) : x \in {b}}
    BY ONLY <1>1 DEF Flat
  <2> QED  BY ONLY <2>1, Zenon
<1> QED  BY <1>1, <1>2

\* A queue that takes a batch in, or gives its first batch out.
LEMMA QueuedFacts ==
    ASSUME NEW s \in Seq(Seq(Events)), NEW b \in Seq(Events)
    PROVE  /\ Flat(Append(s, b)) = Flat(s) \cup ToSet(b)
           /\ s # <<>> => Flat(s) = Flat(Tail(s)) \cup ToSet(Head(s))
<1> DEFINE S == Seq(Events)
<1>0. s \in Seq(S) /\ b \in S
  OBVIOUS
<1> HIDE DEF S
<1>1. Flat(Append(s, b)) = Flat(s) \cup ToSet(b)
  <2>1. Append(s, b) = Then(s, One(b))
    BY <1>0, ThenOne
  <2>2. One(b) \in Seq(S) /\ Flat(One(b)) = ToSet(b)
    BY <1>0, FlatOne
  <2>3. Flat(Then(s, One(b))) = Flat(s) \cup Flat(One(b))
    BY <1>0, <2>2, FlatThen
  <2> QED  BY <2>1, <2>2, <2>3
<1>2. ASSUME s # <<>>
      PROVE  Flat(s) = Flat(Tail(s)) \cup ToSet(Head(s))
  <2>1. Head(s) \in S /\ Tail(s) \in Seq(S) /\ s = Then(One(Head(s)), Tail(s))
    BY <1>0, <1>2, HeadThenTail
  <2>2. One(Head(s)) \in Seq(S) /\ Flat(One(Head(s))) = ToSet(Head(s))
    BY <2>1, FlatOne
  <2>3. Flat(Then(One(Head(s)), Tail(s))) = Flat(One(Head(s))) \cup Flat(Tail(s))
    <3>1. One(Head(s)) \in Seq(S) /\ Tail(s) \in Seq(S)
      BY <2>1, <2>2
    <3> QED  BY ONLY <3>1, FlatThen
  <2> QED  BY <2>1, <2>2, <2>3
<1> QED  BY <1>1, <1>2

\* A batch begins to be sent: to its targets it is not yet due.
LEMMA LossFlush ==
    ASSUME IInv, Shape, LossInv, NEW i \in Instances, Flush(i)
    PROVE  LossInv'
<1>1. /\ sending' = sending \cup {i} /\ i \notin sending /\ batch' = batch
      /\ recent_events' = [recent_events EXCEPT ![i] = Then(@, batch[i])]
      /\ targets' = [targets EXCEPT ![i] = {c \in registered : Home[c] = i}]
      /\ UNCHANGED <<views, manager>>
  BY DEF Flush, Then
<1>2. /\ recent_events'[i] = Then(recent_events[i], batch[i]) /\ targets'[i] = {c \in registered : Home[c] = i}
      /\ \A j \in Instances \ {i} : recent_events'[j] = recent_events[j] /\ targets'[j] = targets[j]
      /\ recent_events[i] \in Seq(Events)
  BY <1>1 DEF Shape, LoopType
<1>3. \A j \in sending' : \E s \in Seq(Events) : recent_events'[j] = Then(s, batch'[j])
  <2> SUFFICES ASSUME NEW j \in sending'
               PROVE  \E s \in Seq(Events) : recent_events'[j] = Then(s, batch'[j])
    OBVIOUS
  <2>1. CASE j = i
    BY <1>1, <1>2, <2>1
  <2>2. CASE j # i
    BY <1>1, <1>2, <2>2 DEF LossInv, Shape, LoopType
  <2> QED  BY <2>1, <2>2
<1>4. ASSUME NEW c \in Viewers
      PROVE  Live(c)' => Due(c)' \subseteq Has(c)' \cup missed'[c] \cup denied'[c]
  <2>1. /\ Live(c)' = Live(c) /\ Has(c)' = Has(c) /\ missed' = missed /\ denied' = denied
        /\ registered' = registered /\ conn' = conn
    BY <1>1 DEF Live, Has, Queued, views, manager
  <2>2. Home[c] \in Instances
    BY HomeAssumption, ViewersAssumption DEF Viewers
  <2>3. CASE Home[c] # i
    <3>1. Due(c)' = Due(c)
      BY <1>1, <1>2, <2>2, <2>3 DEF Due
    <3> QED  BY <2>1, <3>1, LossFrame
  <2>4. CASE Home[c] = i /\ Live(c)
    <3>1. c \in targets'[i] \cup SseClients
      BY <1>2, <2>4 DEF Live, Shape, ViewType
    <3>2. Due(c)' = ToSet(recent_events'[i]) \ ToSet(batch[i])
      BY <1>1, <2>4, <3>1 DEF Due
    <3>3. ToSet(recent_events'[i]) = ToSet(recent_events[i]) \cup ToSet(batch[i])
      BY <1>2, HeldType, ThenType
    <3>4. Due(c) = ToSet(recent_events[i])
      BY <1>1, <2>4 DEF Due
    <3> QED  BY <2>1, <3>2, <3>3, <3>4, LossFrame
  <2>5. CASE ~Live(c)
    BY <2>1, <2>5
  <2> QED  BY <2>3, <2>4, <2>5
<1>5. \A j \in Instances : \A c \in targets'[j] : Home[c] = j
  BY <1>2 DEF LossInv
<1>6. \A c \in Viewers : conn'[c] \in {"new", "waiting"} => base'[c] = {}
  BY <1>1 DEF views, LossInv
<1> QED  BY <1>3, <1>4, <1>5, <1>6 DEF LossInv, LossesAreExplained

\* A client that has been sent the batch has it, unless it was denied or is no longer good.
LEMMA LossSend ==
    ASSUME IInv, Shape, LossInv, NEW i \in Instances, NEW d \in Clients, Send(i, d)
    PROVE  LossInv'
<1>1. /\ i \in sending /\ d \in targets[i] /\ Home[d] = i /\ d \in Viewers
      /\ targets' = [targets EXCEPT ![i] = @ \ {d}]
      /\ UNCHANGED <<batch, sending, recent_events, conn, sse_queue, sse_clients, base, missed>>
  BY DEF Send, LossInv, Viewers
<1>2. \/ /\ denied' = [denied EXCEPT ![d] = @ \cup ToSet(batch[i])] /\ got' = got
      \/ /\ denied' = denied /\ conn[d] = "open" /\ got' = [got EXCEPT ![d] = Then(@, batch[i])]
      \/ /\ denied' = denied /\ conn[d] # "open" /\ got' = got
  BY DEF Send, Deny, Then
<1>3. registered' = registered \/ registered' = registered \ {d}
  BY DEF Send, disconnect, manager
<1>4. /\ targets'[i] = targets[i] \ {d}
      /\ \A j \in Instances \ {i} : targets'[j] = targets[j]
  BY <1>1 DEF Shape, LoopType
<1>5. /\ ToSet(got[d]) \subseteq ToSet(got'[d])
      /\ denied[d] \subseteq denied'[d]
      /\ Live(d) => ToSet(batch[i]) \subseteq denied'[d] \cup ToSet(got'[d])
  <2>1. /\ got[d] \in Seq(Events) /\ batch[i] \in Seq(Events) /\ d \in Viewers
        /\ got \in [Viewers -> Seq(Events)] /\ denied \in [Viewers -> SUBSET Events]
    BY <1>1 DEF Shape, ViewType, LoopType
  <2>2. Live(d) => conn[d] = "open"
    BY ViewersAssumption DEF Live, Shape, ViewType
  <2>3. CASE denied' = [denied EXCEPT ![d] = @ \cup ToSet(batch[i])] /\ got' = got
    BY <2>1, <2>3
  <2>4. CASE denied' = denied /\ conn[d] = "open" /\ got' = [got EXCEPT ![d] = Then(@, batch[i])]
    <3>1. ToSet(got'[d]) = ToSet(got[d]) \cup ToSet(batch[i])
      BY <2>1, <2>4, ThenType
    <3> QED  BY <2>4, <3>1
  <2>5. CASE denied' = denied /\ conn[d] # "open" /\ got' = got
    BY <2>2, <2>5
  <2> QED  BY <1>2, <2>3, <2>4, <2>5
<1>6. ASSUME NEW c \in Viewers
      PROVE  Live(c)' => Due(c)' \subseteq Has(c)' \cup missed'[c] \cup denied'[c]
  <2>1. Live(c)' => Live(c)
    BY <1>1, <1>3 DEF Live
  <2>2. CASE c # d
    <3>1. got'[c] = got[c] /\ denied'[c] = denied[c]
      BY <1>2, <2>2 DEF Shape, ViewType
    <3>2. Due(c)' = Due(c)
      <4>1. Home[c] \in Instances
        BY HomeAssumption, ViewersAssumption DEF Viewers
      <4> QED  BY <1>1, <1>4, <2>2, <4>1 DEF Due
    <3> QED  BY <1>1, <2>1, <3>1, <3>2, LossFrame DEF Has, Queued
  <2>3. CASE c = d
    <3>1. Due(d)' \subseteq Due(d) \cup ToSet(batch[i])
      BY <1>1 DEF Due
    <3>2. Has(d) \subseteq Has(d)' /\ ToSet(got'[d]) \subseteq Has(d)'
      BY <1>1, <1>5 DEF Has, Queued
    <3>3. Live(d) => Due(d) \subseteq Has(d) \cup missed[d] \cup denied[d]
      BY <1>1 DEF LossInv, LossesAreExplained
    <3> QED  BY <1>1, <1>5, <2>1, <2>3, <3>1, <3>2, <3>3
  <2> QED  BY <2>2, <2>3
<1>7. \A j \in Instances : \A c \in targets'[j] : Home[c] = j
  BY <1>4 DEF LossInv
<1> QED  BY <1>1, <1>6, <1>7 DEF LossInv, LossesAreExplained

\* At the end of a round every stream has the batch in its queue, or was denied it, or is gone.
LEMMA LossFinish ==
    ASSUME IInv, Shape, LossInv, NEW i \in Instances, Finish(i)
    PROVE  LossInv'
<1>1. /\ i \in sending /\ targets[i] = {} /\ sending' = sending \ {i}
      /\ batch' = [batch EXCEPT ![i] = <<>>]
      /\ sse_queue' = [c \in SseClients |-> IF c \in Listening(i) /\ HasRoom(c)
                                            THEN Append(sse_queue[c], batch[i]) ELSE sse_queue[c]]
      /\ sse_clients' = sse_clients \ dead_sse(i)
      /\ denied' = [c \in Viewers |-> IF c \in sse_clients \ Listening(i) /\ Home[c] = i
                                      THEN denied[c] \cup ToSet(batch[i]) ELSE denied[c]]
      /\ UNCHANGED <<targets, recent_events, conn, base, got, missed, manager>>
  BY DEF Finish
<1>2. \A j \in Instances \ {i} : batch'[j] = batch[j]
  BY <1>1 DEF Shape, LoopType
<1>3. \A j \in sending' : \E s \in Seq(Events) : recent_events'[j] = Then(s, batch'[j])
  BY <1>1, <1>2 DEF LossInv, Shape, LoopType
<1>4. ASSUME NEW c \in Viewers
      PROVE  Live(c)' => Due(c)' \subseteq Has(c)' \cup missed'[c] \cup denied'[c]
  <2>1. Home[c] \in Instances /\ (Live(c)' => Live(c)) /\ denied[c] \subseteq denied'[c]
    BY <1>1, HomeAssumption, ViewersAssumption DEF Viewers, Live, manager
  <2>2. c \in SseClients =>
           /\ Queued(c) \subseteq Queued(c)'
           /\ c \in Listening(i) /\ HasRoom(c) => ToSet(batch[i]) \subseteq Queued(c)'
    <3> SUFFICES ASSUME c \in SseClients
                 PROVE  /\ Queued(c) \subseteq Queued(c)'
                        /\ c \in Listening(i) /\ HasRoom(c) => ToSet(batch[i]) \subseteq Queued(c)'
      OBVIOUS
    <3>1. sse_queue[c] \in Seq(Seq(Events)) /\ batch[i] \in Seq(Events)
      BY DEF Shape, ViewType, LoopType
    <3>2. CASE c \in Listening(i) /\ HasRoom(c)
      <4>1. sse_queue'[c] = Append(sse_queue[c], batch[i])
        BY <1>1, <3>2
      <4>2. Queued(c)' = Flat(Append(sse_queue[c], batch[i])) /\ Queued(c) = Flat(sse_queue[c])
        BY <4>1 DEF Queued, Flat
      <4>3. Queued(c)' = Queued(c) \cup ToSet(batch[i])
        BY <3>1, <4>2, QueuedFacts
      <4> QED  BY <4>3
    <3>3. CASE ~(c \in Listening(i) /\ HasRoom(c))
      BY <1>1, <3>3 DEF Queued
    <3> QED  BY <3>2, <3>3
  <2>3. Has(c) \subseteq Has(c)'
    BY <1>1, <2>2 DEF Has
  <2>4. CASE Home[c] # i \/ c \notin SseClients
    <3>1. Due(c)' = Due(c)
      BY <1>1, <1>2, <2>1, <2>4 DEF Due
    <3> QED  BY <1>1, <2>1, <2>3, <3>1, LossFrame
  <2>5. CASE Home[c] = i /\ c \in SseClients
    <3>1. Due(c)' \subseteq Due(c) \cup ToSet(batch[i])
      BY <1>1, <2>5 DEF Due
    <3>2. Live(c)' => ToSet(batch[i]) \subseteq Has(c)' \cup denied'[c]
      <4>1. Live(c)' => c \in sse_clients /\ c \notin dead_sse(i)
        BY <1>1, <2>5, ViewersAssumption DEF Live, manager, IInv, ManagerInv, ManagerType
      <4>2. c \in Listening(i) /\ HasRoom(c) => ToSet(batch[i]) \subseteq Has(c)'
        BY <2>2, <2>5 DEF Has
      <4>3. c \in sse_clients \ Listening(i) => ToSet(batch[i]) \subseteq denied'[c]
        BY <1>1, <2>5
      <4> QED  BY <4>1, <4>2, <4>3 DEF dead_sse
    <3>3. Live(c) => Due(c) \subseteq Has(c) \cup missed[c] \cup denied[c]
      BY DEF LossInv, LossesAreExplained
    <3> QED  BY <1>1, <2>1, <2>3, <3>1, <3>2, <3>3
  <2> QED  BY <2>4, <2>5
<1> QED  BY <1>1, <1>3, <1>4 DEF LossInv, LossesAreExplained

\* A client or a stream that comes has missed what was sent before and is not in its state.
LEMMA LossViewer ==
    ASSUME IInv, Shape, LossInv,
           (\E c \in Clients : Endpoint(c)) \/ (\E c \in SseClients : Stream(c))
    PROVE  LossInv'
<1> USE DEF Shape, ViewType, IInv
<1>0. \A c \in Viewers : Home[c] \in Instances
  BY HomeAssumption, ViewersAssumption DEF Viewers
<1>1. UNCHANGED <<recent_events, batch, sending, targets>>
  BY DEF Endpoint, Subscribe, Connect, join_room, HangUp, EndpointEnds, HeartbeatFails, Stream,
         RegisterStream, StartStream, AbandonStream, StreamNext, CloseStream, pipeline
<1>2. \A c \in Viewers : Due(c)' = Due(c) /\ Due(c) \subseteq ToSet(recent_events[Home[c]])
  BY <1>1 DEF Due
<1>3. ASSUME \A c \in Viewers : conn'[c] \in {"new", "waiting"} => base'[c] = {},
             \A c \in Viewers : Live(c)' => Due(c) \subseteq Has(c)' \cup missed'[c] \cup denied'[c]
      PROVE  LossInv'
  BY <1>1, <1>2, <1>3 DEF LossInv, LossesAreExplained
<1>4. ASSUME UNCHANGED <<base, got, missed, denied, sse_queue>>,
             \A c \in Viewers : Live(c)' => Live(c),
             \A c \in Viewers : conn'[c] \in {"new", "waiting"} => conn[c] \in {"new", "waiting"}
      PROVE  LossInv'
  <2>1. \A c \in Viewers : Has(c)' = Has(c)
    BY <1>4 DEF Has, Queued
  <2> QED  BY <1>3, <1>4, <2>1 DEF LossInv, LossesAreExplained
<1>5. ASSUME NEW c \in Clients, NEW S \in SUBSET Keys, Subscribe(c, S)
      PROVE  LossInv'
  <2>1. registered' = registered
    BY <1>5 DEF Subscribe, set_subscriptions, manager
  <2> QED  BY <1>4, <1>5, <2>1 DEF Subscribe, views, Live
<1>6. ASSUME NEW c \in Clients, NEW S \in SUBSET Keys, NEW rows \in SUBSET Logged, Connect(c, S, rows)
      PROVE  LossInv'
  <2>1. /\ conn' = [conn EXCEPT ![c] = "open"] /\ registered' = registered \cup {c} /\ c \in Viewers
        /\ base' = [base EXCEPT ![c] = rows]
        /\ missed' = [missed EXCEPT ![c] = ToSet(recent_events[Home[c]]) \ rows]
        /\ UNCHANGED <<sse_queue, sse_clients, got, denied>>
    BY <1>6 DEF Connect, connect, Viewers
  <2>2. \A d \in Viewers \ {c} : /\ Live(d)' => Live(d)
                                 /\ Has(d)' = Has(d) /\ missed'[d] = missed[d] /\ denied'[d] = denied[d]
                                 /\ conn'[d] = conn[d] /\ base'[d] = base[d]
    BY <2>1 DEF Live, Has, Queued
  <2>3. Due(c) \subseteq Has(c)' \cup missed'[c] /\ conn'[c] = "open"
    BY <1>2, <2>1 DEF Has
  <2> QED  BY <1>3, <2>2, <2>3 DEF LossInv, LossesAreExplained
<1>7. ASSUME NEW c \in Clients, HangUp(c)
      PROVE  LossInv'
  BY <1>4, <1>7 DEF HangUp, Live, manager, Viewers
<1>8. ASSUME NEW c \in Clients, EndpointEnds(c)
      PROVE  LossInv'
  <2>1. registered' = registered \ {c}
    BY <1>8 DEF EndpointEnds, disconnect
  <2> QED  BY <1>4, <1>8, <2>1 DEF EndpointEnds, Live, Viewers
<1>9. ASSUME NEW c \in Clients, HeartbeatFails(c)
      PROVE  LossInv'
  <2>1. registered' = registered \ {c}
    BY <1>9 DEF HeartbeatFails, disconnect
  <2> QED  BY <1>4, <1>9, <2>1 DEF HeartbeatFails, views, Live
<1>10. ASSUME NEW c \in SseClients, RegisterStream(c)
       PROVE  LossInv'
  <2> DEFINE i == Home[c]
             r == recent_events[i]
             n == IF i \in sending THEN Len(r) - Len(batch[i]) ELSE Len(r)
  <2>1. /\ conn[c] = "new" /\ conn' = [conn EXCEPT ![c] = "waiting"] /\ sse_clients' = sse_clients \cup {c}
        /\ missed' = [missed EXCEPT ![c] = ToSet(SubSeq(r, 1, n))] /\ c \in Viewers
        /\ UNCHANGED <<sse_queue, base, got, denied, registered>>
    BY <1>10 DEF RegisterStream, manager, Viewers
  <2>2. \A d \in Viewers \ {c} : /\ Live(d)' => Live(d)
                                 /\ Has(d)' = Has(d) /\ missed'[d] = missed[d] /\ denied'[d] = denied[d]
                                 /\ conn'[d] = conn[d] /\ base'[d] = base[d]
    BY <2>1 DEF Live, Has, Queued
  <2>3. i \in Instances /\ r \in Seq(Events) /\ batch[i] \in Seq(Events)
    BY <1>0, <2>1, HeldType
  <2>4. Due(c) \subseteq ToSet(SubSeq(r, 1, n))
    <3>1. CASE i \in sending
      <4>1. PICK s \in Seq(Events) : r = Then(s, batch[i])
        BY <3>1 DEF LossInv
      <4>2. SubSeq(r, 1, n) = s
        <5>1. Len(r) = Len(s) + Len(batch[i]) /\ n = Len(s)
          BY <2>3, <3>1, <4>1 DEF Then
        <5>2. SubSeq(s \o batch[i], 1, Len(s)) = s
          BY <2>3
        <5> QED  BY <4>1, <5>1, <5>2 DEF Then
      <4>3. ToSet(r) = ToSet(s) \cup ToSet(batch[i])
        BY <2>3, <4>1, ThenType
      <4>4. Due(c) = ToSet(r) \ ToSet(batch[i])
        BY <3>1, <2>1 DEF Due
      <4> QED  BY <4>2, <4>3, <4>4
    <3>2. CASE i \notin sending
      <4>1. n = Len(r) /\ SubSeq(r, 1, Len(r)) = r
        BY <2>3, <3>2, SubSeqFull
      <4> QED  BY <1>2, <2>1, <4>1
    <3> QED  BY <3>1, <3>2
  <2>5. Due(c) \subseteq missed'[c] /\ base'[c] = {}
    BY <2>1, <2>4 DEF LossInv
  <2> QED  BY <1>3, <2>2, <2>5 DEF LossInv, LossesAreExplained
<1>11. ASSUME NEW c \in SseClients, NEW rows \in SUBSET Logged, StartStream(c, rows)
       PROVE  LossInv'
  <2>1. /\ conn[c] = "waiting" /\ conn' = [conn EXCEPT ![c] = "open"] /\ c \in Viewers
        /\ base' = [base EXCEPT ![c] = rows] /\ missed' = [missed EXCEPT ![c] = @ \ rows]
        /\ UNCHANGED <<sse_queue, sse_clients, got, denied, registered>>
    BY <1>11 DEF StartStream, manager, Viewers
  <2>2. \A d \in Viewers \ {c} : /\ Live(d)' => Live(d)
                                 /\ Has(d)' = Has(d) /\ missed'[d] = missed[d] /\ denied'[d] = denied[d]
                                 /\ conn'[d] = conn[d] /\ base'[d] = base[d]
    BY <2>1 DEF Live, Has, Queued
  <2>3. Live(c)' => Live(c)
    BY <2>1, ViewersAssumption DEF Live, ManagerInv, ManagerType
  <2>4. base[c] = {} /\ conn'[c] = "open"
    BY <2>1 DEF LossInv
  <2>5. Has(c) \cup missed[c] \subseteq Has(c)' \cup missed'[c]
    BY <2>1, <2>4 DEF Has, Queued
  <2> QED  BY <1>3, <2>1, <2>2, <2>3, <2>4, <2>5 DEF LossInv, LossesAreExplained
<1>12. ASSUME NEW c \in SseClients, AbandonStream(c) \/ CloseStream(c)
       PROVE  LossInv'
  BY <1>4, <1>12 DEF AbandonStream, CloseStream, Live, manager, Viewers
<1>13. ASSUME NEW c \in SseClients, StreamNext(c)
       PROVE  LossInv'
  <2>1. /\ sse_queue[c] # <<>> /\ got' = [got EXCEPT ![c] = Then(@, Head(sse_queue[c]))]
        /\ sse_queue' = [sse_queue EXCEPT ![c] = Tail(@)] /\ c \in Viewers
        /\ UNCHANGED <<conn, sse_clients, base, missed, denied, registered>>
    BY <1>13 DEF StreamNext, manager, Viewers, Then
  <2>2. sse_queue[c] \in Seq(Seq(Events)) /\ Head(sse_queue[c]) \in Seq(Events) /\ got[c] \in Seq(Events)
    BY <2>1
  <2>3. Queued(c) = Queued(c)' \cup ToSet(Head(sse_queue[c]))
    <3>1. Queued(c) = Flat(sse_queue[c]) /\ Queued(c)' = Flat(sse_queue'[c])
      BY DEF Queued, Flat
    <3>2. sse_queue'[c] = Tail(sse_queue[c])
      BY <2>1 DEF Shape, ViewType
    <3>3. <<>> \in Seq(Events)
      BY EmptyFacts
    <3> QED  BY <2>1, <2>2, <3>1, <3>2, <3>3, QueuedFacts
  <2>4. ToSet(got'[c]) = ToSet(got[c]) \cup ToSet(Head(sse_queue[c]))
    BY <2>1, <2>2, ThenType
  <2>5. \A d \in Viewers : Has(d)' = Has(d) /\ (Live(d)' => Live(d))
    BY <2>1, <2>3, <2>4 DEF Has, Live, Queued
  <2> QED  BY <1>3, <2>1, <2>5 DEF LossInv, LossesAreExplained
<1> QED  BY <1>5, <1>6, <1>7, <1>8, <1>9, <1>10, <1>11, <1>12, <1>13 DEF Endpoint, Stream, join_room,
            ManagerInv, ManagerType

\* Every step keeps the losses explained.
LEMMA NextLoss ==
    ASSUME IInv, Shape, LossInv, [Next]_vars
    PROVE  LossInv'
<1>1. ASSUME UNCHANGED <<views, manager, recent_events, targets, sending>>,
             \A i \in sending : batch'[i] = batch[i]
      PROVE  LossInv'
  <2>1. \A c \in Viewers : Due(c)' = Due(c) /\ Has(c)' = Has(c) /\ Live(c)' = Live(c)
    BY <1>1 DEF Due, Has, Live, Queued, views, manager
  <2> QED  BY <1>1, <2>1 DEF LossInv, LossesAreExplained, views
<1>2. ASSUME UNCHANGED <<pipeline, views, manager>>
      PROVE  LossInv'
  BY <1>1, <1>2 DEF pipeline
<1>3. CASE UNCHANGED vars
  BY <1>2, <1>3 DEF vars
<1>4. ASSUME NEW p \in Partitions, AutoCommit(p) \/ Poll(p) \/ \E ks \in SUBSET Keys \ {{}} : Produce(p, ks)
      PROVE  LossInv'
  BY <1>1, <1>2, <1>4 DEF AutoCommit, Poll, Produce
<1>5. ASSUME NEW i \in Instances,
             Publish(i) \/ PublishFails(i) \/ SubscriberDies(i) \/ _on_redis_event(i) \/ RunPut(i)
      PROVE  LossInv'
  BY <1>1, <1>2, <1>5 DEF Publish, PublishFails, SubscriberDies, _on_redis_event, RunPut
<1>6. ASSUME NEW i \in Instances, Collect(i)
      PROVE  LossInv'
  BY <1>1, <1>6 DEF Collect, Shape, LoopType
<1>7. ASSUME NEW i \in Instances, Crash(i)
      PROVE  LossInv'
  <2>1. /\ sending' = sending \ {i} /\ registered' = registered \ {c \in Viewers : Home[c] = i}
        /\ sse_clients' = sse_clients \ {c \in Viewers : Home[c] = i}
        /\ \A j \in Instances \ {i} : /\ recent_events'[j] = recent_events[j]
                                      /\ batch'[j] = batch[j] /\ targets'[j] = targets[j]
        /\ targets'[i] = {}
        /\ UNCHANGED <<sse_queue, base, got, missed, denied>>
        /\ \A c \in Viewers : /\ Home[c] # i => conn'[c] = conn[c]
                              /\ conn'[c] \in {"new", "waiting"} => conn[c] \in {"new", "waiting"}
    BY <1>7 DEF Crash, Shape, LoopType
  <2>2. ASSUME NEW c \in Viewers
        PROVE  Live(c)' => Due(c)' \subseteq Has(c)' \cup missed'[c] \cup denied'[c]
    <3>1. Home[c] \in Instances
      BY HomeAssumption, ViewersAssumption DEF Viewers
    <3>2. CASE Home[c] = i
      <4>1. ~Live(c)'
        BY <2>1, <3>2 DEF Live
      <4> QED  BY <4>1
    <3>3. CASE Home[c] # i
      <4>1. (Live(c)' => Live(c)) /\ Due(c)' = Due(c) /\ Has(c)' = Has(c)
        BY <2>1, <3>1, <3>3 DEF Live, Due, Has, Queued
      <4> QED  BY <2>1, <4>1, LossFrame
    <3> QED  BY <3>2, <3>3
  <2>3. \A j \in sending' : \E s \in Seq(Events) : recent_events'[j] = Then(s, batch'[j])
    BY <2>1 DEF LossInv, Shape, LoopType
  <2>4. \A j \in Instances : \A c \in targets'[j] : Home[c] = j
    BY <2>1 DEF LossInv
  <2> QED  BY <2>1, <2>2, <2>3, <2>4 DEF LossInv, LossesAreExplained
<1> QED  BY <1>3, <1>4, <1>5, <1>6, <1>7, LossFlush, LossSend, LossFinish, LossViewer
         DEF Next, KafkaThread, BroadcastLoop

\* Everything above holds of every reachable state.
LEMMA FullInvariance == Spec => [](IInv /\ Shape /\ OnceInv /\ OrderInv /\ LossInv)
<1> DEFINE Inv == IInv /\ Shape /\ OnceInv /\ OrderInv /\ LossInv
<1>1. Init => Inv
  BY InitInv, InitShape, InitOnce, InitOrder, InitLoss
<1>2. Inv /\ [Next]_vars => Inv'
  BY NextStep, KafkaShape, LoopShape, ViewShape, NextOnce, NextOrder, NextLoss DEF Shape
<1> QED  BY <1>1, <1>2, PTL DEF Spec

-----------------------------------------------------------------------------
(* The theorems.                                                           *)

\* The room index of every instance is the subscriptions of its registered clients,
\* although endpoints, sends and heartbeats change it in any order.
THEOREM RoomsAreSubscriptions == Spec => []RoomsAgree
<1>1. IInv => RoomsAgree
  BY DEF IInv, ManagerInv
<1> QED  BY <1>1, Invariance, PTL

\* A client with a good connection is registered, and a registered one has a
\* connection that its endpoint has not left.
THEOREM RegistryFollowsConnections == Spec => []RegisteredWhileConnected
<1>1. IInv => RegisteredWhileConnected
  BY DEF IInv
<1> QED  BY <1>1, Invariance, PTL

\* Types and bounds: the queue, the batch, the streams' queues and the rate limit never
\* exceed their sizes, and no commit or position is past the end of a partition.
THEOREM TypeCorrect == Spec => []TypeOK
<1>1. IInv /\ Shape => TypeOK
  BY DEF IInv, ManagerInv, Shape, KafkaType, LoopType, ViewType, CountType, TypeOK
<1> QED  BY <1>1, FullInvariance, PTL

\* While no instance restarts, an instance broadcasts no event twice, and without a full
\* queue or a failure of Redis every partition in order and without a gap.
THEOREM OrderedOnce == Spec => []BroadcastOnceInOrder
<1>1. Shape /\ OnceInv /\ OrderInv => BroadcastOnceInOrder
  BY OrderGivesProperty
<1> QED  BY <1>1, FullInvariance, PTL

\* Whatever comes and goes while batches are sent, what a served viewer lacks of the
\* broadcast events was filtered, rate-limited, or sent before it came.
THEOREM NoSilentLoss == Spec => []LossesAreExplained
<1>1. LossInv => LossesAreExplained
  BY DEF LossInv
<1> QED  BY <1>1, FullInvariance, PTL
=============================================================================

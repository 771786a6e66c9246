-------------------------- MODULE ConnectionManager --------------------------
(***************************************************************************)
(* The registry of WebSocket clients:                                      *)
(* ai-analysis-service/src/websocket_service/manager.py.                   *)
(*                                                                         *)
(* Every method takes the asyncio lock around code without an await, so    *)
(* each is one step of the event loop; they are operators on the three     *)
(* variables here, and BroadcastService calls them from its handlers.      *)
(*                                                                         *)
(* Abstractions.                                                           *)
(*  - A client belongs to the instance it is connected to, Home, and has   *)
(*    one connection: the service gives every connection a fresh uuid.     *)
(*  - state.rooms and state.subscriptions of a client always hold the same *)
(*    entities and are one set.  A room that is not in _rooms is empty.    *)
(***************************************************************************)
CONSTANTS
    Instances,      \* running websocket services
    Clients,        \* WebSocket connections
    Keys,           \* entity ids
    Home            \* [client -> the instance it is connected to]

ASSUME HomeAssumption == \A c \in Clients : Home[c] \in Instances

VARIABLES
    registered,     \* the clients in _clients
    subscriptions,  \* state.subscriptions of every client
    rooms           \* _rooms of every instance, [Instances -> [Keys -> SUBSET Clients]]

manager == <<registered, subscriptions, rooms>>

InitManager ==
    /\ registered = {}
    /\ subscriptions = [c \in Clients |-> {}]
    /\ rooms = [i \in Instances |-> [k \in Keys |-> {}]]

\* The rooms with c in exactly those of S.
Seated(c, S) ==
    [rooms EXCEPT ![Home[c]] =
        [k \in Keys |-> IF k \in S THEN @[k] \cup {c} ELSE @[k] \ {c}]]

connect(c, S) ==
    /\ registered' = registered \cup {c}
    /\ subscriptions' = [subscriptions EXCEPT ![c] = S]
    /\ rooms' = Seated(c, S)

disconnect(c) ==
    /\ registered' = registered \ {c}
    /\ rooms' = IF c \in registered THEN Seated(c, {}) ELSE rooms
    /\ UNCHANGED subscriptions

\* Mutant: the lookup of the client is not checked.
set_subscriptions_unchecked(c, S) ==
    /\ subscriptions' = [subscriptions EXCEPT ![c] = S]
    /\ rooms' = Seated(c, S)
    /\ UNCHANGED registered

\* A client that was disconnected meanwhile is left alone.
set_subscriptions(c, S) ==
    IF c \in registered
    THEN /\ subscriptions' = [subscriptions EXCEPT ![c] = S]
         /\ rooms' = Seated(c, S)
         /\ UNCHANGED registered
    ELSE UNCHANGED manager

ManagerType ==
    /\ registered \subseteq Clients
    /\ subscriptions \in [Clients -> SUBSET Keys]
    /\ rooms \in [Instances -> [Keys -> SUBSET Clients]]

\* The room index is the subscriptions read the other way round: whatever connects,
\* changes its subscriptions or is thrown out by a failing send, no client stays
\* in a room it has left and none is missing from one it has joined.
RoomsAgree ==
    \A i \in Instances, k \in Keys :
        rooms[i][k] = {c \in registered : Home[c] = i /\ k \in subscriptions[c]}
=============================================================================

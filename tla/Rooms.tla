-------------------------------- MODULE Rooms --------------------------------
(***************************************************************************)
(* Core::rooms_, the registry of rooms: requests look a room up or create  *)
(* it, API calls make rooms inactive, and Core::applyCurrentConfig erases  *)
(* the inactive ones and stops the server with the last of them.  No lock  *)
(* protects the registry.  A room object lives as long as the registry     *)
(* holds it: an HTTP handler has a reference into the registry, a          *)
(* websocket session a weak_ptr.  What happens inside a room is in module  *)
(* Room.                                                                   *)
(* A definition Name_How is Name with a fault in it; it is no part of the   *)
(* specification and only tests the properties.                            *)
(***************************************************************************)
EXTENDS Naturals, FiniteSets

CONSTANTS
    Ids,         \* what follows "room-" in the name of a room
    NoId,        \* no id
    Nobody,      \* the owner of a free mutex
    Clients,     \* HTTP connections, each with its own strand
    Threads,     \* threads that run the io_context (main.cpp)
    BareNames,   \* TRUE if clients leave "room-" out of a URL at times
    MaxRooms     \* bound: rooms created

ASSUME ThreadsAssumption == Threads \in Nat \ {0}
ASSUME BareNamesAssumption == BareNames \in BOOLEAN
ASSUME MaxRoomsAssumption == MaxRooms \in Nat

VARIABLES
    rooms,      \* rooms_: room number by id, 0 where there is none
    made,       \* rooms created so far; room n is the n-th
    inactive,   \* rooms whose config.active is false
    peopled,    \* rooms that some open websocket session was made for
    owner,      \* the client in each room's mutexRoom_, or Nobody
    pc,         \* where the handler on each strand is
    target,     \* the id a handler looks up
    at,         \* the room a handler has a reference to
    stopped,    \* Core::shutdown stopped the io_context
    stranded,   \* history: Core::shutdown threw, and no room was made since
    misused     \* a handler used a room that was destroyed

vars == <<rooms, made, inactive, peopled, owner, pc, target, at, stopped,
          stranded, misused>>

RoomNumbers == 1..MaxRooms
Registered == {rooms[id] : id \in Ids} \ {0}
Handlers == {c \in Clients : pc[c] # "idle"}

\* A thread is free to take up an event.
CanStart == ~stopped /\ ~misused /\ Cardinality(Handlers) < Threads
At(c, place) == ~misused /\ pc[c] = place
Goto(c, place) == pc' = [pc EXCEPT ![c] = place]

Init ==
    /\ rooms = [id \in Ids |-> 0]
    /\ made = 0
    /\ inactive = {}
    /\ peopled = {}
    /\ owner = [r \in RoomNumbers |-> Nobody]
    /\ pc = [c \in Clients |-> "idle"]
    /\ target = [c \in Clients |-> NoId]
    /\ at = [c \in Clients |-> 0]
    /\ stopped = FALSE
    /\ stranded = FALSE
    /\ misused = FALSE

-----------------------------------------------------------------------------
(* HTTPSession::onRead *)

\* rooms_ has no room of the name in the URL: the handler will create one.  The
\* lookup is by the name as it came, so a bare name is never found; "/" gets a
\* new UUID, which is an id without a room.
LookupFails(c) ==
    /\ At(c, "idle") /\ CanStart
    /\ made + Cardinality({d \in Clients : pc[d] = "create"}) < MaxRooms
    /\ \E id \in Ids :
         /\ BareNames \/ rooms[id] = 0
         /\ target' = [target EXCEPT ![c] = id]
    /\ Goto(c, "create")
    /\ UNCHANGED <<rooms, made, inactive, peopled, owner, at, stopped, stranded,
                   misused>>

\* The room is set up and assigned to rooms_ under its full name, whatever was
\* there; the request is answered from the new room.
Create(c) ==
    /\ At(c, "create")
    /\ made' = made + 1
    /\ rooms' = [rooms EXCEPT ![target[c]] = made + 1]
    /\ target' = [target EXCEPT ![c] = NoId]
    /\ stranded' = FALSE
    /\ Goto(c, "idle")
    /\ UNCHANGED <<inactive, peopled, owner, at, stopped, misused>>

\* The room exists: the handler gets a reference into rooms_.
LookupSucceeds(c) ==
    /\ At(c, "idle") /\ CanStart
    /\ \E id \in Ids :
         /\ rooms[id] # 0
         /\ at' = [at EXCEPT ![c] = rooms[id]]
    /\ Goto(c, "found")
    /\ UNCHANGED <<rooms, made, inactive, peopled, owner, target, stopped, stranded,
                   misused>>

\* A handler that uses a room the registry no longer holds uses freed memory.
Uses(c) == misused' = (at[c] \notin Registered)

\* An upgrade makes a websocket session with a weak_ptr to the room.
Upgrade_ResetsFirst(c) ==
    /\ At(c, "found")
    /\ Uses(c)
    /\ at' = [at EXCEPT ![c] = 0]
    /\ peopled' = peopled \cup {at'[c]}
    /\ Goto(c, "idle")
    /\ UNCHANGED <<rooms, made, inactive, owner, target, stopped, stranded>>
Upgrade(c) ==
    /\ At(c, "found")
    /\ Uses(c)
    /\ peopled' = peopled \cup {at[c]}
    /\ at' = [at EXCEPT ![c] = 0]
    /\ Goto(c, "idle")
    /\ UNCHANGED <<rooms, made, inactive, owner, target, stopped, stranded>>

\* handleRequest: a resource or a redirection needs no lock.
Serve(c) ==
    /\ At(c, "found")
    /\ Uses(c)
    /\ at' = [at EXCEPT ![c] = 0]
    /\ Goto(c, "idle")
    /\ UNCHANGED <<rooms, made, inactive, peopled, owner, target, stopped, stranded>>

\* handleRequest: an API call locks the room.
LockRoom(c) ==
    /\ At(c, "found")
    /\ owner[at[c]] = Nobody
    /\ Uses(c)
    /\ owner' = [owner EXCEPT ![at[c]] = c]
    /\ Goto(c, "call")
    /\ UNCHANGED <<rooms, made, inactive, peopled, target, at, stopped, stranded>>

\* The plugin's patch of a room sets "active": to false, which closes the room's
\* sessions, or to true; an exception may come before the sessions are closed.
Patch(r) ==
    \/ UNCHANGED <<inactive, peopled>>
    \/ inactive' = inactive \cup {r} /\ peopled' = peopled \ {r}
    \/ inactive' = inactive \ {r} /\ UNCHANGED peopled
PatchThrows(r) == inactive' = inactive \cup {r} /\ UNCHANGED peopled

\* pluginProcess: the plugin may patch the room and then the core.
Call(c) ==
    /\ At(c, "call")
    /\ Uses(c)
    /\ \/ Patch(at[c]) /\ \E next \in {"core", "return"} : Goto(c, next)
       \/ PatchThrows(at[c]) /\ Goto(c, "return")
    /\ UNCHANGED <<rooms, made, owner, target, at, stopped, stranded>>

\* Core::applyCurrentConfig: erase the inactive rooms and shut the core down if
\* none is left.
EraseInactive ==
    rooms' = [id \in Ids |-> IF rooms[id] \in inactive THEN 0 ELSE rooms[id]]
NoneLeft == \A id \in Ids : rooms'[id] = 0

ApplyCore_KeepsActive(c) ==
    /\ At(c, "core")
    /\ rooms' = [id \in Ids |-> IF rooms[id] \notin inactive THEN 0 ELSE rooms[id]]
    /\ stopped' = (stopped \/ NoneLeft)
    /\ Goto(c, "return")
    /\ UNCHANGED <<made, inactive, peopled, owner, target, at, stranded, misused>>
ApplyCore_StopsEarly(c) ==
    /\ At(c, "core")
    /\ EraseInactive
    /\ stopped' = (stopped \/ \E id \in Ids : rooms'[id] # rooms[id])
    /\ Goto(c, "return")
    /\ UNCHANGED <<made, inactive, peopled, owner, target, at, stranded, misused>>
ApplyCore(c) ==
    /\ At(c, "core")
    /\ EraseInactive
    /\ stopped' = (stopped \/ NoneLeft)
    /\ Goto(c, "return")
    /\ UNCHANGED <<made, inactive, peopled, owner, target, at, stranded, misused>>

\* Core::applyCurrentConfig throws: before it erased a room, or after, with some
\* left or in Core::shutdown, so that the io_context runs on without a room.
\* handleRequest catches the exception.
ApplyCoreThrows(c) ==
    /\ At(c, "core")
    /\ \/ UNCHANGED <<rooms, stranded>>
       \/ EraseInactive /\ stranded' = (stranded \/ NoneLeft)
    /\ Goto(c, "return")
    /\ UNCHANGED <<made, inactive, peopled, owner, target, at, stopped, misused>>

\* Back in handleRequest: broadcast in the room, unless an exception was caught,
\* unlock it and answer.
Return(c) ==
    /\ At(c, "return")
    /\ Uses(c)
    /\ owner' = [owner EXCEPT ![at[c]] = Nobody]
    /\ at' = [at EXCEPT ![c] = 0]
    /\ Goto(c, "idle")
    /\ UNCHANGED <<rooms, made, inactive, peopled, target, stopped, stranded>>

-----------------------------------------------------------------------------
(* Websocket sessions: their handlers hold the room with room_.lock(). *)

\* A call over a websocket patches its room; it cannot patch the core.
SessionCall(r) ==
    /\ CanStart
    /\ r \in peopled \cap Registered
    /\ owner[r] = Nobody
    /\ Patch(r) \/ PatchThrows(r)
    /\ UNCHANGED <<rooms, made, owner, pc, target, at, stopped, stranded, misused>>

\* The last session of a room ends; one whose room is gone ends at its next
\* event without a word.
SessionsEnd(r) ==
    /\ CanStart
    /\ r \in peopled
    /\ peopled' = peopled \ {r}
    /\ UNCHANGED <<rooms, made, inactive, owner, pc, target, at, stopped, stranded,
                   misused>>

-----------------------------------------------------------------------------
Handle(c) ==
    \/ LookupFails(c) \/ Create(c) \/ LookupSucceeds(c) \/ Upgrade(c)
    \/ Serve(c) \/ LockRoom(c) \/ Call(c) \/ ApplyCore(c)
    \/ ApplyCoreThrows(c) \/ Return(c)

Next ==
    \/ \E c \in Clients : Handle(c)
    \/ \E r \in RoomNumbers : SessionCall(r) \/ SessionsEnd(r)

Spec == Init /\ [][Next]_vars

-----------------------------------------------------------------------------
TypeOK ==
    /\ rooms \in [Ids -> 0..MaxRooms]
    /\ made \in 0..MaxRooms
    /\ inactive \subseteq RoomNumbers
    /\ peopled \subseteq RoomNumbers
    /\ owner \in [RoomNumbers -> Clients \cup {Nobody}]
    /\ pc \in [Clients -> {"idle", "create", "found", "call", "core", "return"}]
    /\ target \in [Clients -> Ids \cup {NoId}]
    /\ at \in [Clients -> 0..MaxRooms]
    /\ stopped \in BOOLEAN
    /\ stranded \in BOOLEAN
    /\ misused \in BOOLEAN

\* A room leaves the registry only after it was made inactive (Core.cpp:613
\* "filter inactive rooms"): no request throws a room away.
RoomsKept ==
    \A r \in RoomNumbers : r <= made => r \in Registered \cup inactive

\* The server stops with its last room, and only once every room it ever made
\* was shut down.  Without a room it runs on only if Core::shutdown failed, and
\* then until a room is made again.
StopsWithLastRoom ==
    /\ stopped \/ stranded => Registered = {} /\ 1..made \subseteq inactive
    /\ (made > 0 /\ Registered = {}) => stopped \/ stranded

-----------------------------------------------------------------------------
(* A statement of the code's comments that the code does not keep. *)

\* Core.cpp:398 "graceful shutdown": a handler never goes on in a room that was
\* destroyed under it.
NoUseAfterFree == ~misused

==============================================================================

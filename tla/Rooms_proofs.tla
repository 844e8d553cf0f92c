----------------------------- MODULE Rooms_proofs -----------------------------
(***************************************************************************)
(* The registry on one thread, for clients that write full names in their   *)
(* URLs: no room is lost, and the server stops with the last one unless its *)
(* shutdown fails, for every number of ids, clients and rooms.  (With bare  *)
(* names TLC finds a room replaced.)                                        *)
(***************************************************************************)
EXTENDS Rooms, FiniteSetTheorems, TLAPS

\* One handler runs at a time.
OneHandler == \A c, d \in Clients : pc[c] # "idle" /\ pc[d] # "idle" => c = d

\* A handler that creates a room still knows that there is none.
CreatesMissing ==
    \A c \in Clients : pc[c] = "create" =>
        target[c] \in Ids /\ rooms[target[c]] = 0 /\ made < MaxRooms

\* A handler that found a room refers to one that was made.
FoundWasMade ==
    \A c \in Clients : pc[c] \in {"found", "call", "core", "return"} => at[c] \in 1..made

\* A handler that has yet to call the plugin finds its room in the registry.
FoundIsThere ==
    \A c \in Clients : pc[c] \in {"found", "call"} => at[c] \in Registered

\* Only rooms that were made are in the registry, in use or shut down.
NumbersWereMade ==
    /\ \A id \in Ids : rooms[id] \in 0..made
    /\ inactive \subseteq 1..made
    /\ peopled \subseteq 1..made

\* Only a handler that is about to return sees the server stopped.
StoppedAtTheEnd == stopped => \A c \in Clients : pc[c] \in {"idle", "return"}

IInv ==
    /\ TypeOK
    /\ OneHandler /\ CreatesMissing /\ FoundWasMade /\ FoundIsThere /\ NumbersWereMade
    /\ StoppedAtTheEnd
    /\ RoomsKept /\ StopsWithLastRoom

-----------------------------------------------------------------------------
\* With one thread a handler starts only when no other is running.
LEMMA StartsAlone ==
    ASSUME Threads = 1, IInv, CanStart
    PROVE  /\ \A c \in Clients : pc[c] = "idle"
           /\ ~stopped
<1>1. SUFFICES ASSUME NEW c \in Clients, pc[c] # "idle" PROVE FALSE
  BY DEF CanStart
<1>2. Handlers = {c}
  BY <1>1 DEF Handlers, IInv, OneHandler
<1>3. Cardinality(Handlers) = 1
  BY <1>2, FS_Singleton
<1> QED
  BY <1>3 DEF CanStart

\* An empty registry satisfies the invariant.
LEMMA InitInv == Init => IInv
<1> SUFFICES ASSUME Init PROVE IInv
  OBVIOUS
<1>1. TypeOK
  <2>1. 0 \in 0..MaxRooms
    BY MaxRoomsAssumption
  <2>2. /\ rooms \in [Ids -> 0..MaxRooms] /\ made \in 0..MaxRooms
        /\ at \in [Clients -> 0..MaxRooms]
    BY <2>1 DEF Init
  <2>3. /\ owner \in [RoomNumbers -> Clients \cup {Nobody}]
        /\ pc \in [Clients -> {"idle", "create", "found", "call", "core", "return"}]
        /\ target \in [Clients -> Ids \cup {NoId}]
    BY DEF Init
  <2>4. /\ inactive \subseteq RoomNumbers /\ peopled \subseteq RoomNumbers
        /\ stopped \in BOOLEAN /\ stranded \in BOOLEAN /\ misused \in BOOLEAN
    BY DEF Init
  <2> QED
    BY <2>2, <2>3, <2>4 DEF TypeOK
<1>2. /\ OneHandler /\ CreatesMissing /\ FoundWasMade /\ FoundIsThere
      /\ NumbersWereMade /\ StoppedAtTheEnd
  BY DEF Init, OneHandler, CreatesMissing, FoundWasMade, FoundIsThere, NumbersWereMade,
         StoppedAtTheEnd
<1>3. RoomsKept /\ StopsWithLastRoom
  BY MaxRoomsAssumption DEF Init, RoomsKept, StopsWithLastRoom, RoomNumbers
<1> QED
  BY <1>1, <1>2, <1>3 DEF IInv

\* What depends on the registry alone survives a step that leaves it alone: a room
\* that is no longer there stays inactive.
LEMMA RegistryAlone ==
    ASSUME IInv, UNCHANGED <<rooms, made, stopped, stranded>>,
           inactive \ Registered \subseteq inactive', inactive' \subseteq 1..made,
           peopled' \subseteq 1..made
    PROVE  NumbersWereMade' /\ RoomsKept' /\ StopsWithLastRoom'
<1>1. Registered' = Registered
  BY DEF Registered
<1>2. NumbersWereMade'
  BY DEF IInv, NumbersWereMade
<1>3. RoomsKept'
  BY <1>1 DEF IInv, RoomsKept
<1>4. StopsWithLastRoom'
  BY <1>1 DEF IInv, StopsWithLastRoom
<1> QED
  BY <1>2, <1>3, <1>4

\* A step of one handler to another place, or back, keeps it the only one.
LEMMA StaysAlone ==
    ASSUME IInv, NEW c \in Clients, NEW place, Goto(c, place),
           \A d \in Clients \ {c} : pc[d] = "idle"
    PROVE  /\ OneHandler'
           /\ pc'[c] = place
           /\ \A d \in Clients \ {c} : pc'[d] = "idle"
BY DEF IInv, TypeOK, Goto, OneHandler

-----------------------------------------------------------------------------
\* On one thread and with full names every step preserves the invariant.
LEMMA StepInv ==
    ASSUME Threads = 1, ~BareNames
    PROVE  IInv /\ [Next]_vars => IInv'
<1> SUFFICES ASSUME IInv, [Next]_vars PROVE IInv'
  OBVIOUS
<1> USE MaxRoomsAssumption
<1>a. ASSUME NEW c \in Clients, pc[c] # "idle" \/ CanStart
      PROVE  \A d \in Clients \ {c} : pc[d] = "idle"
  BY <1>a, StartsAlone DEF IInv, OneHandler
<1>1. ASSUME NEW c \in Clients, LookupFails(c) PROVE IInv'
  <2>1. /\ \A d \in Clients : pc[d] = "idle"
        /\ ~stopped /\ Goto(c, "create")
        /\ UNCHANGED <<rooms, made, inactive, peopled, owner, at, stopped, stranded, misused>>
    BY <1>1, StartsAlone DEF LookupFails
  <2>2. PICK id \in Ids : rooms[id] = 0 /\ target' = [target EXCEPT ![c] = id]
    BY <1>1 DEF LookupFails
  <2>3. made < MaxRooms
    <3>1. {d \in Clients : pc[d] = "create"} = {}
      BY <2>1
    <3>2. made + 0 < MaxRooms
      BY <1>1, <3>1, FS_EmptySet DEF LookupFails
    <3> QED
      BY <3>2 DEF IInv, TypeOK
  <2>4. OneHandler' /\ pc'[c] = "create" /\ \A d \in Clients \ {c} : pc'[d] = "idle"
    BY <2>1, StaysAlone
  <2>5. TypeOK'
    BY <2>1, <2>2 DEF IInv, TypeOK, Goto
  <2>6. CreatesMissing' /\ FoundWasMade' /\ FoundIsThere' /\ StoppedAtTheEnd'
    BY <2>1, <2>2, <2>3, <2>4
       DEF IInv, TypeOK, CreatesMissing, FoundWasMade, FoundIsThere, StoppedAtTheEnd
  <2>7. NumbersWereMade' /\ RoomsKept' /\ StopsWithLastRoom'
    BY <2>1, RegistryAlone DEF IInv, NumbersWereMade
  <2> QED
    BY <2>4, <2>5, <2>6, <2>7 DEF IInv
<1>2. ASSUME NEW c \in Clients, Create(c) PROVE IInv'
  <2>1. /\ pc[c] = "create" /\ Goto(c, "idle")
        /\ made' = made + 1
        /\ rooms' = [rooms EXCEPT ![target[c]] = made + 1]
        /\ target' = [target EXCEPT ![c] = NoId]
        /\ stranded' = FALSE
        /\ UNCHANGED <<inactive, peopled, owner, at, stopped, misused>>
    BY <1>2 DEF Create, At
  <2>2. target[c] \in Ids /\ rooms[target[c]] = 0 /\ made < MaxRooms /\ ~stopped
    BY <2>1 DEF IInv, CreatesMissing, StoppedAtTheEnd
  <2>3. OneHandler' /\ \A d \in Clients : pc'[d] = "idle"
    BY <1>a, <2>1, StaysAlone
  <2>4. TypeOK'
    <3>1. made' \in 0..MaxRooms /\ rooms' \in [Ids -> 0..MaxRooms]
      BY <2>1, <2>2 DEF IInv, TypeOK
    <3>2. /\ pc' \in [Clients -> {"idle", "create", "found", "call", "core", "return"}]
          /\ target' \in [Clients -> Ids \cup {NoId}]
      BY <2>1 DEF IInv, TypeOK, Goto
    <3> QED
      BY <2>1, <3>1, <3>2 DEF IInv, TypeOK
  <2>5. CreatesMissing' /\ FoundWasMade' /\ FoundIsThere' /\ StoppedAtTheEnd'
    BY <2>3 DEF CreatesMissing, FoundWasMade, FoundIsThere, StoppedAtTheEnd
  <2>6. Registered' = Registered \cup {made + 1}
    <3>1. \A id \in Ids : rooms'[id] = IF id = target[c] THEN made + 1 ELSE rooms[id]
      BY <2>1, <2>2 DEF IInv, TypeOK
    <3>2. made + 1 # 0
      BY DEF IInv, TypeOK
    <3> QED
      BY <2>2, <3>1, <3>2 DEF Registered
  <2>7. NumbersWereMade'
    BY <2>1, <2>2 DEF IInv, TypeOK, NumbersWereMade
  <2>8. RoomsKept'
    BY <2>1, <2>6 DEF IInv, TypeOK, RoomsKept, RoomNumbers
  <2>9. StopsWithLastRoom'
    BY <2>1, <2>2, <2>6 DEF StopsWithLastRoom
  <2> QED
    BY <2>3, <2>4, <2>5, <2>7, <2>8, <2>9 DEF IInv
<1>3. ASSUME NEW c \in Clients, LookupSucceeds(c) PROVE IInv'
  <2>1. /\ \A d \in Clients : pc[d] = "idle"
        /\ ~stopped /\ Goto(c, "found")
        /\ UNCHANGED <<rooms, made, inactive, peopled, owner, target, stopped, stranded, misused>>
    BY <1>3, StartsAlone DEF LookupSucceeds
  <2>2. PICK id \in Ids : rooms[id] # 0 /\ at' = [at EXCEPT ![c] = rooms[id]]
    BY <1>3 DEF LookupSucceeds
  <2>3. rooms[id] \in 1..made /\ rooms[id] \in Registered /\ Registered' = Registered
    BY <2>1, <2>2 DEF IInv, TypeOK, NumbersWereMade, Registered
  <2>4. OneHandler' /\ pc'[c] = "found" /\ \A d \in Clients \ {c} : pc'[d] = "idle"
    BY <2>1, StaysAlone
  <2>5. TypeOK'
    BY <2>1, <2>2 DEF IInv, TypeOK, Goto
  <2>6. CreatesMissing' /\ FoundWasMade' /\ FoundIsThere' /\ StoppedAtTheEnd'
    BY <2>1, <2>2, <2>3, <2>4
       DEF IInv, TypeOK, CreatesMissing, FoundWasMade, FoundIsThere, StoppedAtTheEnd
  <2>7. NumbersWereMade' /\ RoomsKept' /\ StopsWithLastRoom'
    BY <2>1, RegistryAlone DEF IInv, NumbersWereMade
  <2> QED
    BY <2>4, <2>5, <2>6, <2>7 DEF IInv
<1>4. ASSUME NEW c \in Clients, Upgrade(c) \/ Serve(c) \/ Return(c) PROVE IInv'
  <2>1. /\ pc[c] \in {"found", "return"} /\ Goto(c, "idle")
        /\ at' = [at EXCEPT ![c] = 0]
        /\ peopled' \subseteq peopled \cup {at[c]}
        /\ owner' \in {owner, [owner EXCEPT ![at[c]] = Nobody]}
        /\ misused' \in BOOLEAN
        /\ UNCHANGED <<rooms, made, inactive, target, stopped, stranded>>
    BY <1>4 DEF Upgrade, Serve, Return, At, Uses
  <2>2. at[c] \in 1..made
    BY <2>1 DEF IInv, FoundWasMade
  <2>3. OneHandler' /\ \A d \in Clients : pc'[d] = "idle"
    BY <1>a, <2>1, StaysAlone
  <2>4. peopled' \subseteq 1..made
    BY <2>1, <2>2 DEF IInv, NumbersWereMade
  <2>5. TypeOK'
    BY <2>1, <2>4 DEF IInv, TypeOK, Goto, RoomNumbers
  <2>6. CreatesMissing' /\ FoundWasMade' /\ FoundIsThere' /\ StoppedAtTheEnd'
    BY <2>3 DEF CreatesMissing, FoundWasMade, FoundIsThere, StoppedAtTheEnd
  <2>7. NumbersWereMade' /\ RoomsKept' /\ StopsWithLastRoom'
    BY <2>1, <2>4, RegistryAlone DEF IInv, NumbersWereMade
  <2> QED
    BY <2>3, <2>5, <2>6, <2>7 DEF IInv
<1>5. ASSUME NEW c \in Clients, LockRoom(c) \/ Call(c) PROVE IInv'
  <2>1. /\ pc[c] \in {"found", "call"} /\ UNCHANGED <<rooms, made, target, at, stopped, stranded>>
        /\ inactive' \in {inactive, inactive \cup {at[c]}, inactive \ {at[c]}}
        /\ peopled' \subseteq peopled
        /\ owner' \in {owner, [owner EXCEPT ![at[c]] = c]}
        /\ misused' \in BOOLEAN
    BY <1>5 DEF LockRoom, Call, Patch, PatchThrows, At, Uses
  <2>2. PICK place \in {"call", "core", "return"} :
          Goto(c, place) /\ (place = "call" => pc[c] = "found")
    BY <1>5 DEF LockRoom, Call, At
  <2>3. at[c] \in 1..made /\ ~stopped /\ at[c] \in Registered /\ Registered' = Registered
    BY <2>1 DEF IInv, FoundWasMade, FoundIsThere, StoppedAtTheEnd, Registered
  <2>4. OneHandler' /\ pc'[c] = place /\ \A d \in Clients \ {c} : pc'[d] = "idle"
    BY <1>a, <2>1, <2>2, StaysAlone
  <2>5. inactive' \subseteq 1..made /\ peopled' \subseteq 1..made
    BY <2>1, <2>3 DEF IInv, NumbersWereMade
  <2>6. TypeOK'
    <3>1. pc' \in [Clients -> {"idle", "create", "found", "call", "core", "return"}]
      BY <2>2 DEF IInv, TypeOK, Goto
    <3>2. owner' \in [RoomNumbers -> Clients \cup {Nobody}]
      BY <2>1 DEF IInv, TypeOK
    <3>3. inactive' \subseteq RoomNumbers /\ peopled' \subseteq RoomNumbers
      BY <2>1, <2>5 DEF IInv, TypeOK, RoomNumbers
    <3> QED
      BY <2>1, <3>1, <3>2, <3>3 DEF IInv, TypeOK
  <2>7. CreatesMissing' /\ FoundWasMade' /\ FoundIsThere' /\ StoppedAtTheEnd'
    BY <2>1, <2>2, <2>3, <2>4
       DEF CreatesMissing, FoundWasMade, FoundIsThere, StoppedAtTheEnd
  <2>8. inactive \ Registered \subseteq inactive'
    BY <2>1, <2>3
  <2>9. NumbersWereMade' /\ RoomsKept' /\ StopsWithLastRoom'
    BY <2>1, <2>5, <2>8, RegistryAlone
  <2> QED
    BY <2>4, <2>6, <2>7, <2>9 DEF IInv
<1>6. ASSUME NEW c \in Clients, ApplyCore(c) \/ ApplyCoreThrows(c) PROVE IInv'
  <2>1. /\ pc[c] = "core" /\ Goto(c, "return")
        /\ UNCHANGED <<made, inactive, peopled, owner, target, at, misused>>
    BY <1>6 DEF ApplyCore, ApplyCoreThrows, At
  <2>2. at[c] \in 1..made /\ ~stopped
    BY <2>1 DEF IInv, FoundWasMade, StoppedAtTheEnd
  <2>3. OneHandler' /\ pc'[c] = "return" /\ \A d \in Clients \ {c} : pc'[d] = "idle"
    BY <1>a, <2>1, StaysAlone
  <2>4. CreatesMissing' /\ FoundWasMade' /\ FoundIsThere' /\ StoppedAtTheEnd'
    BY <2>1, <2>2, <2>3
       DEF CreatesMissing, FoundWasMade, FoundIsThere, StoppedAtTheEnd
  <2>5. CASE UNCHANGED <<rooms, stopped, stranded>>
    <3>1. TypeOK'
      BY <2>1, <2>5 DEF IInv, TypeOK, Goto
    <3>2. NumbersWereMade' /\ RoomsKept' /\ StopsWithLastRoom'
      BY <2>1, <2>5, RegistryAlone DEF IInv, NumbersWereMade
    <3> QED
      BY <2>3, <2>4, <3>1, <3>2 DEF IInv
  <2>6. CASE /\ EraseInactive /\ stopped' \in BOOLEAN /\ stranded' \in BOOLEAN
             /\ stopped' \/ stranded' <=> stranded \/ NoneLeft
    <3>1. TypeOK'
      BY <2>1, <2>6 DEF IInv, TypeOK, Goto, EraseInactive
    <3>2. Registered' = Registered \ inactive
      <4>1. \A id \in Ids : rooms'[id] = IF rooms[id] \in inactive THEN 0 ELSE rooms[id]
        BY <2>6 DEF EraseInactive
      <4>2. 0 \notin inactive
        BY DEF IInv, TypeOK, RoomNumbers
      <4> QED
        BY <4>1, <4>2 DEF Registered
    <3>3. NumbersWereMade'
      BY <2>1, <2>6 DEF IInv, TypeOK, NumbersWereMade, EraseInactive
    <3>4. RoomsKept'
      BY <2>1, <3>2 DEF IInv, RoomsKept
    <3>5. StopsWithLastRoom'
      <4>1. NoneLeft <=> Registered' = {}
        BY DEF NoneLeft, Registered
      <4>2. Registered' = {} => 1..made \subseteq inactive
        BY <3>2 DEF IInv, TypeOK, RoomsKept, RoomNumbers
      <4>3. stranded => Registered' = {}
        BY <3>2 DEF IInv, StopsWithLastRoom
      <4> QED
        BY <2>1, <2>6, <4>1, <4>2, <4>3 DEF StopsWithLastRoom
    <3> QED
      BY <2>3, <2>4, <3>1, <3>3, <3>4, <3>5 DEF IInv
  <2>7. stopped \in BOOLEAN /\ stranded \in BOOLEAN /\ NoneLeft \in BOOLEAN
    BY DEF IInv, TypeOK, NoneLeft
  <2> QED
    BY <1>6, <2>2, <2>5, <2>6, <2>7 DEF ApplyCore, ApplyCoreThrows
<1>7. ASSUME NEW r \in RoomNumbers, SessionCall(r) \/ SessionsEnd(r) PROVE IInv'
  <2>1. /\ r \in peopled
        /\ inactive' = inactive \/ r \in Registered
        /\ inactive' \in {inactive, inactive \cup {r}, inactive \ {r}}
        /\ peopled' \subseteq peopled
        /\ UNCHANGED <<rooms, made, owner, pc, target, at, stopped, stranded, misused>>
    BY <1>7 DEF SessionCall, SessionsEnd, Patch, PatchThrows
  <2>2. inactive' \subseteq 1..made /\ peopled' \subseteq 1..made
    BY <2>1 DEF IInv, NumbersWereMade
  <2>3. TypeOK'
    BY <2>1 DEF IInv, TypeOK
  <2>4. OneHandler' /\ CreatesMissing' /\ FoundWasMade' /\ FoundIsThere' /\ StoppedAtTheEnd'
    BY <2>1 DEF IInv, OneHandler, CreatesMissing, FoundWasMade, FoundIsThere, Registered,
                StoppedAtTheEnd
  <2>5. NumbersWereMade' /\ RoomsKept' /\ StopsWithLastRoom'
    BY <2>1, <2>2, RegistryAlone
  <2> QED
    BY <2>3, <2>4, <2>5 DEF IInv
<1>8. CASE UNCHANGED vars
  <2>1. UNCHANGED <<rooms, made, inactive, peopled, owner, pc, target, at, stopped, stranded, misused>>
    BY <1>8 DEF vars
  <2>2. TypeOK'
    BY <2>1 DEF IInv, TypeOK
  <2>3. OneHandler' /\ CreatesMissing' /\ FoundWasMade' /\ FoundIsThere' /\ StoppedAtTheEnd'
    BY <2>1 DEF IInv, OneHandler, CreatesMissing, FoundWasMade, FoundIsThere, Registered,
                StoppedAtTheEnd
  <2>4. NumbersWereMade' /\ RoomsKept' /\ StopsWithLastRoom'
    BY <2>1, RegistryAlone DEF IInv, NumbersWereMade
  <2> QED
    BY <2>2, <2>3, <2>4 DEF IInv
<1> QED
  BY <1>1, <1>2, <1>3, <1>4, <1>5, <1>6, <1>7, <1>8 DEF Next, Handle

\* IInv is an invariant of the registry on one thread and with full names.
THEOREM Invariance ==
    ASSUME Threads = 1, ~BareNames
    PROVE  Spec => []IInv
<1>1. IInv /\ [Next]_vars => IInv'
  BY StepInv
<1> QED
  BY InitInv, <1>1, PTL DEF Spec

-----------------------------------------------------------------------------
(* The properties. *)

\* The state of the registry keeps its types.
THEOREM TypeCorrect ==
    ASSUME Threads = 1, ~BareNames
    PROVE  Spec => []TypeOK
<1>1. IInv => TypeOK
  BY DEF IInv
<1> QED
  BY Invariance, <1>1, PTL

\* A room leaves the registry only after it was made inactive.
THEOREM NoRoomIsLost ==
    ASSUME Threads = 1, ~BareNames
    PROVE  Spec => []RoomsKept
<1>1. IInv => RoomsKept
  BY DEF IInv
<1> QED
  BY Invariance, <1>1, PTL

\* The server stops with its last room and not before; without a room it runs on
\* only if Core::shutdown failed, until a room is made again.
THEOREM StopsInTheEnd ==
    ASSUME Threads = 1, ~BareNames
    PROVE  Spec => []StopsWithLastRoom
<1>1. IInv => StopsWithLastRoom
  BY DEF IInv
<1> QED
  BY Invariance, <1>1, PTL

==============================================================================

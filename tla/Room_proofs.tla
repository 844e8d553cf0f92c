------------------------------ MODULE Room_proofs ------------------------------
(***************************************************************************)
(* A room keeps its promises for every number of sessions, clients, threads *)
(* and calls.  Everything rests on who holds the two mutexes: Where says how *)
(* far a handler is, seen through the broadcastWS or leaveWS it is in, and   *)
(* Locks that a handler which is past the lock of the room is its owner.     *)
(* IInv adds, for each place, what the handler broadcasts and what that      *)
(* leaves in the inboxes.                                                    *)
(***************************************************************************)
EXTENDS Room, TLAPS

\* Where a handler is, or goes on after the broadcast or the leaving it is in.
Where(p) == IF pc[p] \in {"bcLock", "bcSend", "leave"} THEN ret[p] ELSE pc[p]

Sending(p) == pc[p] \in {"bcLock", "bcSend"}

\* The places between the locking of mutexRoom_ and its unlocking.
InRoom == {"plugin", "closeAll", "closing", "finish", "publish", "unlock", "unlockGone"}

Locks ==
    \A p \in Strands :
        /\ Where(p) \in InRoom <=> mutexRoom = p
        /\ pc[p] = "bcSend" <=> mutexWS = p

\* Only sessions join and leave; only clients tell that the server is busy.
Place(p) ==
    /\ p \in Clients =>
         /\ pc[p] \in {"idle", "callLock", "plugin", "closeAll", "closing", "finish",
                       "publish", "unlock", "bcLock", "bcSend"}
         /\ Sending(p) => ret[p] # "reading"
    /\ p \in Sessions => Where(p) \notin {"publish", "idle"}
    /\ p \in Sessions /\ ret[p] = "plugin" => ~Sending(p)
    /\ Sending(p) => ret[p] \in {"reading", "plugin", "closeAll", "finish", "publish", "unlock"}
    /\ pc[p] = "leave" => ret[p] \in {"gone", "unlockGone", "reading", "closed"}

PlacesOK == \A p \in Strands : Place(p)

\* The message by which a session that joins greets itself.
Greets(m, s) ==
    /\ m \in Message
    /\ m.kind = "init" /\ m.source = s /\ m.others = FALSE /\ m.back = TRUE

\* What a handler broadcasts, by where it goes on.
Says(p) ==
    Sending(p) =>
        /\ ret[p] = "reading" => p \in table /\ Greets(msg[p], p)
        /\ ret[p] # "reading" => msg[p].kind # "init" /\ msg[p].call = calls
        /\ msg[p].kind = "busy" => ret[p] = "plugin"
        /\ msg[p].kind = "idle" <=> ret[p] = "publish"
        /\ msg[p].kind = "idle" => msg[p].others /\ msg[p].source = NoOne
        /\ msg[p].kind = "shutdown" => ret[p] = "closeAll"

Messages == \A p \in Strands : Says(p)

\* A session that has not joined is in no loop and was handed nothing.
Unheard ==
    \A s \in Sessions : pc[s] \in {"accepting", "join"} =>
        s \notin table /\ inbox[s] = <<>> /\ \A p \in Strands : s \notin todo[p]

\* A session is handed its UUID by its own broadcast, the first after it joined.
Greeted(s) == \E i \in DOMAIN inbox[s] : Heard(s, "init") = {i}

Awaits(s) ==
    \/ pc[s] \in {"accepting", "join"}
    \/ pc[s] = "bcLock" /\ ret[s] = "reading"
    \/ pc[s] = "bcSend" /\ ret[s] = "reading" /\ s \in todo[s]

Greeting ==
    \A s \in Sessions :
        /\ \A i \in Heard(s, "init") : inbox[s][i].source = s
        /\ Awaits(s) => Heard(s, "init") = {}
        /\ Awaits(s) \/ Where(s) = "gone" \/ Greeted(s)

\* The calls that a session heard of are in order, and none is of the future.
Order ==
    \A s \in Sessions :
        /\ \A i \in DOMAIN inbox[s] \ Heard(s, "init") : inbox[s][i].call <= calls
        /\ \A i, j \in DOMAIN inbox[s] \ Heard(s, "init") :
             i < j => inbox[s][i].call <= inbox[s][j].call

\* A client that holds the room has told s that the server is idle.
ToldIdle(c, s) ==
    \/ pc[c] \in {"publish", "unlock"}
    \/ Sending(c) /\ ret[c] = "unlock"
    \/ pc[c] = "bcSend" /\ ret[c] = "publish" /\ s \notin todo[c]

Settled(s) ==
    \/ threw
    \/ \A i \in Heard(s, "busy") : \E j \in Heard(s, "idle") : i < j

Busy ==
    \A s \in table :
        (\A c \in Clients : Where(c) \in InRoom => ToldIdle(c, s)) => Settled(s)

\* A session that was told of the shutdown is closed, or soon will be.
Closes(p, s) == Where(p) = "closeAll" \/ (pc[p] = "closing" /\ s \in todo[p])

Closing ==
    \A s \in table :
        Heard(s, "shutdown") # {} /\ stream[s] = "ok" => \E p \in Strands : Closes(p, s)

IInv ==
    /\ TypeOK /\ Locks /\ PlacesOK /\ Messages
    /\ Unheard /\ Greeting /\ Order /\ Busy /\ Closing

-----------------------------------------------------------------------------
\* A step of the handler on p, or of the event that starts it.
PStep(p) ==
    \/ Running(p)
    \/ p \in Sessions /\ SessionEvent(p)
    \/ p \in Clients /\ OnRequest(p)

\* The other strands stay where they are, with what they broadcast.
Others(p) ==
    \A q \in Strands \ {p} : pc'[q] = pc[q] /\ ret'[q] = ret[q] /\ msg'[q] = msg[q]

\* p goes on without a broadcast, or calls broadcastWS with such a message.
Proceeds(p, place) ==
    Others(p) /\ pc'[p] = place /\ ret'[p] = ret[p] /\ msg'[p] = msg[p]
Sends(p, kind, next) ==
    /\ Others(p)
    /\ pc'[p] = "bcLock" /\ ret'[p] = next
    /\ msg'[p] \in Message
    /\ msg'[p].kind = kind /\ msg'[p].call = calls'
    /\ kind # "result" => msg'[p].others /\ msg'[p].source = NoOne

\* The frame of a handler has its type.
Shapes == pc \in [Strands -> Places] /\ ret \in [Strands -> Returns] /\ msg \in [Strands -> Message]

\* broadcastWS is called with a message and a place to go on.
LEMMA BroadcastShapes ==
    ASSUME TypeOK, NEW p \in Strands, NEW m \in Message, NEW next \in Returns,
           Broadcast(p, m, next)
    PROVE  Shapes'
<1>1. "bcLock" \in Places
  BY DEF Places, InHandler
<1> QED
  BY <1>1 DEF TypeOK, Broadcast, Goto, Shapes

\* How broadcastWS is called with a message for all.
LEMMA SendsToAll ==
    ASSUME TypeOK, NEW p \in Strands, NEW kind \in Kinds, NEW next \in Returns,
           calls' \in Nat, Broadcast(p, ToAll(kind), next)
    PROVE  Sends(p, kind, next) /\ Shapes'
<1> DEFINE m == ToAll(kind)
<1>1. /\ m.kind = kind /\ m.call = calls' /\ m.others = TRUE /\ m.source = NoOne
  BY DEF ToAll
<1>2. m \in Message
  BY DEF ToAll, Message, MessageOf, Strands
<1>3. Broadcast(p, m, next)
  OBVIOUS
<1> HIDE DEF m
<1>4. pc'[p] = "bcLock" /\ ret'[p] = next /\ msg'[p] = m /\ Others(p)
  BY <1>3 DEF TypeOK, Broadcast, Goto, Others
<1> QED
  BY <1>1, <1>2, <1>3, <1>4, BroadcastShapes DEF Sends

\* How a handler goes on without one.
LEMMA GoesOn ==
    ASSUME TypeOK, NEW p \in Strands, NEW place \in Places, Goto(p, place), UNCHANGED <<ret, msg>>
    PROVE  Proceeds(p, place) /\ Shapes'
BY DEF TypeOK, Goto, Proceeds, Others, Shapes

\* Whom the handlers of a call send what, and where they go on.
LEMMA CallLockSends ==
    ASSUME TypeOK, NEW p \in Strands, CallLock(p)
    PROVE  /\ p \in Clients => Sends(p, "busy", "plugin")
           /\ p \notin Clients => Proceeds(p, "plugin")
           /\ Shapes'
<1>1. calls' \in Nat
  BY DEF CallLock, TypeOK
<1> QED
  BY <1>1, SendsToAll, GoesOn DEF CallLock, Kinds, Places, InHandler, Returns

\* A patch that shuts the room down or reloads it is told to all.
LEMMA PluginReturnsSends ==
    ASSUME TypeOK, NEW p \in Strands, PluginReturns(p)
    PROVE  /\ \/ Sends(p, "shutdown", "closeAll")
              \/ Sends(p, "reload", "finish")
              \/ Proceeds(p, "finish")
           /\ Shapes'
<1>1. calls' \in Nat
  BY DEF PluginReturns, TypeOK
<1> QED
  BY <1>1, SendsToAll, GoesOn DEF PluginReturns, Kinds, Places, InHandler, Returns

\* The result of a session's call goes out; an HTTP call first ends being busy.
LEMMA FinishSends ==
    ASSUME TypeOK, NEW p \in Strands, Finish(p)
    PROVE  /\ p \in Clients => Sends(p, "idle", "publish")
           /\ p \notin Clients => Sends(p, "result", "unlock") \/ Proceeds(p, "unlock")
           /\ Shapes'
<1>1. calls' \in Nat
  BY DEF Finish, TypeOK
<1> DEFINE m == [kind |-> "result", call |-> calls, source |-> p,
                 others |-> result[p].others, back |-> result[p].back]
<1>2. CASE p \notin Clients /\ (result[p].others \/ result[p].back)
  <2>1. Broadcast(p, m, "unlock")
    BY <1>2 DEF Finish
  <2>2. m.kind = "result" /\ m.call = calls /\ calls' = calls
    BY DEF Finish
  <2>3. result[p] \in Outcome
    BY DEF TypeOK
  <2>4. result[p].others \in BOOLEAN /\ result[p].back \in BOOLEAN
    BY <2>3 DEF Outcome
  <2>5. calls \in Nat
    BY DEF TypeOK
  <2>6. m \in Message
    BY <2>4, <2>5 DEF Message, MessageOf, Kinds
  <2> HIDE DEF m
  <2>7. pc'[p] = "bcLock" /\ ret'[p] = "unlock" /\ msg'[p] = m /\ Others(p)
    BY <2>1 DEF TypeOK, Broadcast, Goto, Others
  <2> QED
    BY <1>2, <2>1, <2>2, <2>6, <2>7, BroadcastShapes DEF Sends, Returns
<1>3. CASE p \notin Clients /\ ~(result[p].others \/ result[p].back)
  BY <1>3, GoesOn DEF Finish, Places, InHandler
<1>4. CASE p \in Clients
  BY <1>1, <1>4, SendsToAll DEF Finish, Kinds, Returns
<1> QED
  BY <1>2, <1>3, <1>4

\* Only then does the result of an HTTP call go out.
LEMMA PublishSends ==
    ASSUME TypeOK, NEW p \in Strands, Publish(p)
    PROVE  /\ Sends(p, "result", "unlock") \/ Proceeds(p, "unlock")
           /\ Shapes'
<1>1. calls' \in Nat
  BY DEF Publish, TypeOK
<1> QED
  BY <1>1, SendsToAll, GoesOn DEF Publish, Kinds, Places, InHandler, Returns

\* A session that joins greets itself.
LEMMA JoinSends ==
    ASSUME TypeOK, NEW s \in Sessions, Join(s)
    PROVE  /\ Others(s) /\ pc'[s] = "bcLock" /\ ret'[s] = "reading"
           /\ Greets(msg'[s], s)
           /\ Shapes'
<1> DEFINE m == [kind |-> "init", call |-> 0, source |-> s,
                 others |-> FALSE, back |-> TRUE]
<1>1. Broadcast(s, m, "reading")
  BY DEF Join
<1>2. m.kind = "init" /\ m.source = s /\ m.others = FALSE /\ m.back = TRUE
  OBVIOUS
<1>3. m \in Message
  BY DEF Message, MessageOf, Kinds, Strands
<1> HIDE DEF m
<1>4. pc'[s] = "bcLock" /\ ret'[s] = "reading" /\ msg'[s] = m /\ Others(s)
  BY <1>1 DEF TypeOK, Broadcast, Goto, Others, Strands
<1> QED
  BY <1>1, <1>2, <1>3, <1>4, BroadcastShapes DEF Greets, Strands, Returns

\* Nothing changes for the other strands.
LEMMA OthersStay ==
    ASSUME NEW p \in Strands, Others(p), NEW q \in Strands, q # p
    PROVE  /\ Where(q)' = Where(q) /\ Sending(q)' = Sending(q)
           /\ pc'[q] = pc[q] /\ ret'[q] = ret[q] /\ msg'[q] = msg[q]
BY DEF Others, Where, Sending

\* Only a session joins or ends.
LEMMA OnlySessions ==
    ASSUME PlacesOK, NEW p \in Strands, Join(p) \/ Ending(p)
    PROVE  p \in Sessions
BY DEF PlacesOK, Place, Strands, Join, Ending, ClosedLock, FailLock, Leave, UnlockGone, At

\* Every step leaves the other strands where they are.
LEMMA StepOthers ==
    ASSUME TypeOK, PlacesOK, NEW p \in Strands, PStep(p)
    PROVE  Others(p)
<1>1. CASE CallLock(p) \/ PluginReturns(p) \/ Finish(p) \/ Publish(p)
  BY <1>1, CallLockSends, PluginReturnsSends, FinishSends, PublishSends DEF Sends, Proceeds
<1>2. CASE Join(p)
  BY <1>2, JoinSends, OnlySessions
<1>3. CASE Broadcasting(p)
  BY <1>3 DEF Broadcasting, BcLock, BcSend, BcUnlock, Goto, Return, TypeOK, Others
<1>4. CASE PluginThrows(p) \/ CloseAll(p) \/ CloseOne(p)
             \/ ClosedAll(p) \/ ShutdownThrows(p) \/ Unlock(p)
  BY <1>4 DEF PluginThrows, CloseAll, CloseOne, ClosedAll, ShutdownThrows, Unlock, Goto,
              TypeOK, Others, frame
<1>5. CASE Ending(p)
  BY <1>5 DEF Ending, ClosedLock, FailLock, Leave, UnlockGone, Goto, Return, TypeOK, Others,
              frame
<1>6. CASE SessionEvent(p) \/ OnRequest(p)
  BY <1>6 DEF SessionEvent, OnAccept, OnAcceptFail, OnMessage, OnReadClosed, OnReadFail,
              OnWriteFail, OnRequest, Goto, TypeOK, Others, frame
<1> QED
  BY <1>1, <1>2, <1>3, <1>4, <1>5, <1>6 DEF PStep, Running, Calling

-----------------------------------------------------------------------------
\* A step keeps the mutex of the room, or takes it free, or releases its own.
RoomMutex(p) ==
    \/ mutexRoom' = mutexRoom /\ (Where(p)' \in InRoom <=> Where(p) \in InRoom)
    \/ mutexRoom = NoOne /\ mutexRoom' = p /\ Where(p)' \in InRoom
    \/ mutexRoom' = NoOne /\ Where(p) \in InRoom /\ Where(p)' \notin InRoom

\* Every step does one of these.
LEMMA StepRoomMutex ==
    ASSUME TypeOK, PlacesOK, NEW p \in Strands, PStep(p)
    PROVE  RoomMutex(p)
<1> USE DEF At, Where, InRoom, RoomMutex
<1>1. CASE CallLock(p)
  BY <1>1, CallLockSends DEF CallLock, Sends, Proceeds
<1>2. CASE PluginReturns(p)
  BY <1>2, PluginReturnsSends DEF PluginReturns, Sends, Proceeds
<1>3. CASE Finish(p) \/ Publish(p)
  BY <1>3, FinishSends, PublishSends DEF Finish, Publish, Sends, Proceeds
<1>4. CASE Join(p)
  BY <1>4, JoinSends, OnlySessions DEF Join
<1>5. CASE Broadcasting(p)
  BY <1>5 DEF Broadcasting, BcLock, BcSend, BcUnlock, Goto, Return, TypeOK, PlacesOK, Place,
              Sending, room
<1>6. CASE PluginThrows(p) \/ CloseAll(p) \/ CloseOne(p) \/ ClosedAll(p) \/ ShutdownThrows(p)
  BY <1>6 DEF PluginThrows, CloseAll, CloseOne, ClosedAll, ShutdownThrows, Goto, TypeOK,
              frame, room
<1>7. CASE Unlock(p)
  BY <1>7 DEF Unlock, Goto, TypeOK
<1>8. CASE ClosedLock(p) \/ FailLock(p) \/ UnlockGone(p)
  BY <1>8 DEF ClosedLock, FailLock, UnlockGone, Goto, TypeOK, frame, room
<1>9. CASE Leave(p)
  BY <1>9 DEF Leave, Return, Goto, TypeOK, PlacesOK, Place
<1>10. CASE SessionEvent(p) \/ OnRequest(p)
  BY <1>10 DEF SessionEvent, OnAccept, OnAcceptFail, OnMessage, OnReadClosed, OnReadFail,
               OnWriteFail, OnRequest, Starts, Goto, TypeOK, frame, room
<1> QED
  BY <1>1, <1>2, <1>3, <1>4, <1>5, <1>6, <1>7, <1>8, <1>9, <1>10 DEF PStep, Running, Calling, Ending

\* The same of the mutex of the table of sessions, which only broadcastWS keeps.
TableMutex(p) ==
    \/ mutexWS' = mutexWS /\ (pc'[p] = "bcSend" <=> pc[p] = "bcSend")
    \/ mutexWS = NoOne /\ mutexWS' = p /\ pc'[p] = "bcSend"
    \/ mutexWS' = NoOne /\ pc[p] = "bcSend" /\ pc'[p] # "bcSend"

\* Every step does one of these.
LEMMA StepTableMutex ==
    ASSUME TypeOK, PlacesOK, NEW p \in Strands, PStep(p)
    PROVE  TableMutex(p)
<1> USE DEF At, TableMutex
<1>1. CASE CallLock(p) \/ PluginReturns(p) \/ Finish(p) \/ Publish(p)
  BY <1>1, CallLockSends, PluginReturnsSends, FinishSends, PublishSends
     DEF CallLock, PluginReturns, Finish, Publish, Sends, Proceeds
<1>2. CASE Join(p)
  BY <1>2, JoinSends, OnlySessions DEF Join
<1>3. CASE Broadcasting(p)
  BY <1>3 DEF Broadcasting, BcLock, BcSend, BcUnlock, Goto, Return, TypeOK, PlacesOK, Place,
              Sending, room
<1>4. CASE PluginThrows(p) \/ CloseAll(p) \/ CloseOne(p)
             \/ ClosedAll(p) \/ ShutdownThrows(p) \/ Unlock(p)
  BY <1>4 DEF PluginThrows, CloseAll, CloseOne, ClosedAll, ShutdownThrows, Unlock, Goto,
              TypeOK, frame, room
<1>5. CASE Ending(p)
  BY <1>5 DEF Ending, ClosedLock, FailLock, Leave, UnlockGone, Return, Goto, TypeOK,
              PlacesOK, Place,
              frame, room
<1>6. CASE SessionEvent(p) \/ OnRequest(p)
  BY <1>6 DEF SessionEvent, OnAccept, OnAcceptFail, OnMessage, OnReadClosed, OnReadFail,
              OnWriteFail, OnRequest, Starts, Goto, TypeOK, frame, room
<1> QED
  BY <1>1, <1>2, <1>3, <1>4, <1>5, <1>6 DEF PStep, Running, Calling

\* So the owners of the mutexes stay those whose places say so.
LEMMA LocksKept ==
    ASSUME TypeOK, PlacesOK, Locks, NEW p \in Strands, PStep(p)
    PROVE  Locks'
<1>1. SUFFICES ASSUME NEW q \in Strands
               PROVE  /\ Where(q)' \in InRoom <=> mutexRoom' = q
                      /\ pc'[q] = "bcSend" <=> mutexWS' = q
  BY DEF Locks
<1>2. RoomMutex(p) /\ TableMutex(p)
  BY StepRoomMutex, StepTableMutex
<1>3. q # p => Where(q)' = Where(q) /\ pc'[q] = pc[q]
  BY StepOthers, OthersStay
<1>4. NoOne # q /\ NoOne # p
  BY StrandsAssumption DEF Strands
<1> QED
  BY <1>2, <1>3, <1>4 DEF RoomMutex, TableMutex, Locks

-----------------------------------------------------------------------------
\* A step leaves its strand at a place of its kind.
LEMMA StepPlace ==
    ASSUME TypeOK, PlacesOK, NEW p \in Strands, PStep(p)
    PROVE  Place(p)'
<1> USE StrandsAssumption DEF Strands, At, Where, Sending, Place, PlacesOK
<1>1. CASE CallLock(p)
  BY <1>1, CallLockSends DEF CallLock, Sends, Proceeds
<1>2. CASE PluginReturns(p)
  BY <1>2, PluginReturnsSends DEF PluginReturns, Sends, Proceeds
<1>3. CASE Finish(p)
  BY <1>3, FinishSends DEF Finish, Sends, Proceeds
<1>4. CASE Publish(p)
  BY <1>4, PublishSends DEF Publish, Sends, Proceeds
<1>5. CASE Join(p)
  BY <1>5, JoinSends, OnlySessions DEF Join
<1>6. CASE Broadcasting(p)
  BY <1>6 DEF Broadcasting, BcLock, BcSend, BcUnlock, Goto, Return, TypeOK
<1>7. CASE PluginThrows(p) \/ CloseAll(p) \/ CloseOne(p)
             \/ ClosedAll(p) \/ ShutdownThrows(p) \/ Unlock(p)
  BY <1>7 DEF PluginThrows, CloseAll, CloseOne, ClosedAll, ShutdownThrows, Unlock, Goto,
              TypeOK, frame
<1>8. CASE Ending(p)
  BY <1>8 DEF Ending, ClosedLock, FailLock, Leave, UnlockGone, Return, Goto, TypeOK, frame
<1>9. CASE p \in Sessions /\ SessionEvent(p)
  BY <1>9 DEF SessionEvent, OnAccept, OnAcceptFail, OnMessage, OnReadClosed, OnReadFail,
              OnWriteFail, Starts, Goto, TypeOK, frame
<1>10. CASE p \in Clients /\ OnRequest(p)
  BY <1>10 DEF OnRequest, Starts, Goto, TypeOK, frame
<1> QED
  BY <1>1, <1>2, <1>3, <1>4, <1>5, <1>6, <1>7, <1>8, <1>9, <1>10 DEF PStep, Running, Calling

\* And the others stay at theirs.
LEMMA PlacesKept ==
    ASSUME TypeOK, PlacesOK, NEW p \in Strands, PStep(p)
    PROVE  PlacesOK'
BY StepPlace, StepOthers, OthersStay DEF PlacesOK, Place

-----------------------------------------------------------------------------
\* What a step broadcasts is what its place says.
LEMMA StepSays ==
    ASSUME TypeOK, PlacesOK, Messages, NEW p \in Strands, PStep(p)
    PROVE  Says(p)'
<1> USE StrandsAssumption DEF Strands, At, Sending, Says
<1>1. CASE CallLock(p)
  BY <1>1, CallLockSends DEF CallLock, Sends, Proceeds
<1>2. CASE PluginReturns(p)
  BY <1>2, PluginReturnsSends DEF PluginReturns, Sends, Proceeds
<1>3. CASE Finish(p)
  BY <1>3, FinishSends DEF Finish, Sends, Proceeds
<1>4. CASE Publish(p)
  BY <1>4, PublishSends DEF Publish, Sends, Proceeds
<1>5. CASE Join(p)
  BY <1>5, JoinSends, OnlySessions DEF Join, TableChanges, Greets
<1>6. CASE BcLock(p) \/ BcSend(p)
  BY <1>6 DEF BcLock, BcSend, Goto, TypeOK, Messages, Greets, room
<1>7. CASE BcUnlock(p)
  BY <1>7 DEF BcUnlock, Return, Goto, TypeOK, PlacesOK, Place
<1>8. CASE PluginThrows(p) \/ CloseAll(p) \/ CloseOne(p)
             \/ ClosedAll(p) \/ ShutdownThrows(p) \/ Unlock(p)
  BY <1>8 DEF PluginThrows, CloseAll, CloseOne, ClosedAll, ShutdownThrows, Unlock, Goto, TypeOK
<1>9. CASE Ending(p)
  BY <1>9 DEF Ending, ClosedLock, FailLock, Leave, UnlockGone, Return, Goto, TypeOK,
              PlacesOK, Place
<1>10. CASE SessionEvent(p) \/ OnRequest(p)
  BY <1>10 DEF SessionEvent, OnAccept, OnAcceptFail, OnMessage, OnReadClosed, OnReadFail,
               OnWriteFail, OnRequest, Goto, TypeOK
<1> QED
  BY <1>1, <1>2, <1>3, <1>4, <1>5, <1>6, <1>7, <1>8, <1>9, <1>10
     DEF PStep, Running, Broadcasting, Calling

\* A step begins a call only when the room is free, and only its own session
\* joins the table or leaves it.
LEMMA StepRoom ==
    ASSUME TypeOK, PlacesOK, NEW p \in Strands, PStep(p)
    PROVE  /\ calls' = calls \/ (CallLock(p) /\ mutexRoom = NoOne /\ calls' = calls + 1)
           /\ \/ table' = table
              \/ Join(p) /\ table' = table \cup {p}
              \/ Leave(p) /\ table' = table \ {p}
<1>1. CASE Calling(p)
  BY <1>1 DEF Calling, CallLock, PluginReturns, Finish, Publish, PluginThrows, CloseAll,
              CloseOne, ClosedAll, ShutdownThrows, Unlock, room
<1>2. CASE Join(p) \/ Broadcasting(p) \/ Ending(p)
  BY <1>2 DEF Join, TableChanges, Broadcasting, BcLock, BcSend, BcUnlock, Ending, ClosedLock,
              FailLock, Leave, UnlockGone, room
<1>3. CASE SessionEvent(p) \/ OnRequest(p)
  BY <1>3 DEF SessionEvent, OnAccept, OnAcceptFail, OnMessage, OnReadClosed, OnReadFail,
              OnWriteFail, OnRequest, room
<1> QED
  BY <1>1, <1>2, <1>3 DEF PStep, Running

\* While a handler of a call broadcasts, no other call begins.
LEMMA MessagesKept ==
    ASSUME TypeOK, PlacesOK, Locks, Messages, NEW p \in Strands, PStep(p)
    PROVE  Messages'
<1>1. SUFFICES ASSUME NEW q \in Strands, q # p, Sending(q) PROVE Says(q)'
  BY StepSays, StepOthers, OthersStay DEF Messages, Says
<1>2. /\ Sending(q)' = Sending(q) /\ ret'[q] = ret[q] /\ msg'[q] = msg[q]
  BY <1>1, StepOthers, OthersStay
<1>3. q \in table => q \in table'
  BY <1>1, StepRoom
<1>4. ret[q] # "reading" => calls' = calls
  <2>1. ret[q] # "reading" => Where(q) \in InRoom
    BY <1>1 DEF PlacesOK, Place, Where, Sending, InRoom
  <2>2. ret[q] # "reading" => mutexRoom = q
    BY <2>1 DEF Locks
  <2> QED
    BY <2>2, StepRoom, StrandsAssumption DEF Strands
<1>5. Says(q)
  BY DEF Messages
<1> QED
  BY <1>2, <1>3, <1>4, <1>5 DEF Says, Greets

-----------------------------------------------------------------------------
\* The frame of a handler keeps its type.
LEMMA StepShapes ==
    ASSUME TypeOK, PlacesOK, NEW p \in Strands, PStep(p)
    PROVE  Shapes'
<1> USE StrandsAssumption DEF At, Shapes, Places, AtRest, InHandler, Returns
<1>1. CASE CallLock(p) \/ PluginReturns(p) \/ Finish(p) \/ Publish(p)
  BY <1>1, CallLockSends, PluginReturnsSends, FinishSends, PublishSends
<1>2. CASE Join(p)
  BY <1>2, JoinSends, OnlySessions
<1>3. CASE BcLock(p) \/ BcSend(p)
  BY <1>3 DEF BcLock, BcSend, Goto, TypeOK
<1>4. CASE BcUnlock(p)
  <2>1. NoMessage \in Message /\ ret[p] \in Places
    BY <1>4 DEF NoMessage, Message, MessageOf, Kinds, BcUnlock, PlacesOK, Place, Sending
  <2> QED
    BY <1>4, <2>1 DEF BcUnlock, Return, Goto, TypeOK
<1>5. CASE PluginThrows(p) \/ CloseAll(p) \/ CloseOne(p)
             \/ ClosedAll(p) \/ ShutdownThrows(p) \/ Unlock(p)
  BY <1>5 DEF PluginThrows, CloseAll, CloseOne, ClosedAll, ShutdownThrows, Unlock, Goto,
              TypeOK, frame
<1>6. CASE Ending(p)
  BY <1>6 DEF Ending, ClosedLock, FailLock, Leave, UnlockGone, Return, Goto, TypeOK,
              PlacesOK, Place, frame
<1>7. CASE OnAccept(p) \/ OnAcceptFail(p) \/ OnMessage(p) \/ OnReadClosed(p) \/ OnReadFail(p)
  BY <1>7 DEF OnAccept, OnAcceptFail, OnMessage, OnReadClosed, OnReadFail, Goto, TypeOK, frame
<1>8. CASE OnWriteFail(p)
  BY <1>8 DEF OnWriteFail, Goto, TypeOK
<1>9. CASE OnRequest(p)
  BY <1>9 DEF OnRequest, Goto, TypeOK, frame
<1> QED
  BY <1>1, <1>2, <1>3, <1>4, <1>5, <1>6, <1>7, <1>8, <1>9
     DEF PStep, Running, Broadcasting, Calling, SessionEvent

\* The room, its sessions and the history keep their types.
Rest ==
    /\ todo \in [Strands -> SUBSET Sessions]
    /\ result \in [Strands -> Outcome]
    /\ mutexRoom \in Strands \cup {NoOne} /\ mutexWS \in Strands \cup {NoOne}
    /\ table \subseteq Sessions /\ active \in BOOLEAN /\ calls \in Nat
    /\ stream \in [Sessions -> {"ok", "closing", "ended", "failed"}]
    /\ inbox \in [Sessions -> Seq(Message)]
    /\ log \in Seq(Message) /\ joinedAt \in [Sessions -> Nat]
    /\ threw \in BOOLEAN /\ raced \in BOOLEAN

\* And so does the rest of the state.
LEMMA StepRest ==
    ASSUME TypeOK, PlacesOK, NEW p \in Strands, PStep(p)
    PROVE  Rest'
<1> USE DEF Rest, TypeOK
<1>1. CASE CallLock(p) \/ Finish(p) \/ Publish(p)
  BY <1>1 DEF CallLock, Finish, Publish, history
<1>2. CASE PluginReturns(p)
  BY <1>2, OutcomesAssumption DEF PluginReturns
<1>3. CASE Join(p)
  <2>1. Len(log) \in Nat
    OBVIOUS
  <2> QED
    BY <1>3, <2>1, OnlySessions DEF Join, TableChanges, frame
<1>4. CASE BcLock(p)
  <2>1. Append(log, msg[p]) \in Seq(Message)
    OBVIOUS
  <2> QED
    BY <1>4, <2>1 DEF BcLock
<1>5. CASE BcSend(p)
  <2>1. PICK s \in todo[p] :
             /\ todo' = [todo EXCEPT ![p] = @ \ {s}]
             /\ inbox' = IF Addressed(msg[p], s)
                         THEN [inbox EXCEPT ![s] = Append(@, msg[p])]
                         ELSE inbox
    BY <1>5 DEF BcSend
  <2>2. s \in Sessions
    OBVIOUS
  <2>3. inbox[s] \in Seq(Message) /\ msg[p] \in Message
    BY <2>2
  <2>4. Append(inbox[s], msg[p]) \in Seq(Message)
    BY <2>3
  <2>5. inbox' \in [Sessions -> Seq(Message)]
    BY <2>1, <2>2, <2>4
  <2>6. todo' \in [Strands -> SUBSET Sessions]
    BY <2>1
  <2> QED
    BY <1>5, <2>5, <2>6 DEF BcSend, room, history
<1>6. CASE BcUnlock(p)
  BY <1>6 DEF BcUnlock, history
<1>7. CASE PluginThrows(p) \/ CloseAll(p) \/ ClosedAll(p) \/ ShutdownThrows(p) \/ Unlock(p)
  <2>1. NoOutcome \in Outcome
    BY DEF NoOutcome, Outcome, Patches
  <2> QED
    BY <1>7, <2>1 DEF PluginThrows, CloseAll, ClosedAll, ShutdownThrows, Unlock, frame,
                      room, history
<1>8. CASE CloseOne(p)
  <2>1. PICK s \in todo[p] :
             /\ todo' = [todo EXCEPT ![p] = @ \ {s}]
             /\ stream' = [stream EXCEPT ![s] = IF @ = "ok" THEN "closing" ELSE @]
    BY <1>8 DEF CloseOne
  <2> QED
    BY <1>8, <2>1 DEF CloseOne, room, history
<1>9. CASE Ending(p)
  BY <1>9, OnlySessions DEF Ending, ClosedLock, FailLock, Leave, UnlockGone, TableChanges,
                            frame, room, history
<1>10. CASE SessionEvent(p)
  BY <1>10 DEF SessionEvent, OnAccept, OnAcceptFail, OnMessage, OnReadClosed, OnReadFail,
               OnWriteFail, frame, room, history
<1>11. CASE OnRequest(p)
  BY <1>11 DEF OnRequest, frame, room, history
<1> QED
  BY <1>1, <1>2, <1>3, <1>4, <1>5, <1>6, <1>7, <1>8, <1>9, <1>10, <1>11
     DEF PStep, Running, Broadcasting, Calling

\* Together these are the type invariant.
LEMMA TypesKept ==
    ASSUME TypeOK, PlacesOK, NEW p \in Strands, PStep(p)
    PROVE  TypeOK'
<1>1. Shapes' /\ Rest'
  BY StepShapes, StepRest
<1>2. \A s \in Sessions : pc'[s] # "idle"
  BY PlacesKept DEF PlacesOK, Place, Where, Strands
<1> QED
  BY <1>1, <1>2 DEF Shapes, Rest, TypeOK

-----------------------------------------------------------------------------
\* s is handed m: its inbox grows by m.
Hears(s, m) ==
    \E n \in Nat :
        /\ DOMAIN inbox[s] = 1..n /\ DOMAIN inbox'[s] = 1..(n + 1)
        /\ inbox'[s][n + 1] = m
        /\ \A i \in 1..n : inbox'[s][i] = inbox[s][i]

\* A turn of the loop of broadcastWS is about one session of those left.
Turn(p, s) ==
    /\ s \in Sessions /\ s \in todo[p]
    /\ todo'[p] = todo[p] \ {s}
    /\ \A q \in Strands \ {p} : todo'[q] = todo[q]
    /\ \A t \in Sessions \ {s} : inbox'[t] = inbox[t]
    /\ Addressed(msg[p], s) => Hears(s, msg[p])
    /\ ~Addressed(msg[p], s) => inbox'[s] = inbox[s]

\* BcSend is such a turn.
LEMMA SendTurn ==
    ASSUME TypeOK, NEW p \in Strands, BcSend(p)
    PROVE  \E s \in Sessions : Turn(p, s)
<1>1. PICK s \in todo[p] :
           /\ todo' = [todo EXCEPT ![p] = @ \ {s}]
           /\ inbox' = IF Addressed(msg[p], s)
                       THEN [inbox EXCEPT ![s] = Append(@, msg[p])]
                       ELSE inbox
  BY DEF BcSend
<1>2. s \in Sessions
  BY DEF TypeOK
<1>3. inbox[s] \in Seq(Message) /\ msg[p] \in Message
  BY <1>2 DEF TypeOK
<1>4. /\ todo'[p] = todo[p] \ {s}
      /\ \A q \in Strands \ {p} : todo'[q] = todo[q]
  BY <1>1 DEF TypeOK
<1>5. /\ \A t \in Sessions \ {s} : inbox'[t] = inbox[t]
      /\ Addressed(msg[p], s) => inbox'[s] = Append(inbox[s], msg[p])
      /\ ~Addressed(msg[p], s) => inbox'[s] = inbox[s]
  BY <1>1, <1>2 DEF TypeOK
<1>6. ASSUME inbox'[s] = Append(inbox[s], msg[p]) PROVE Hears(s, msg[p])
  <2>1. /\ Len(inbox[s]) \in Nat /\ DOMAIN inbox[s] = 1..Len(inbox[s])
        /\ DOMAIN inbox'[s] = 1..(Len(inbox[s]) + 1)
        /\ inbox'[s][Len(inbox[s]) + 1] = msg[p]
        /\ \A i \in 1..Len(inbox[s]) : inbox'[s][i] = inbox[s][i]
    BY <1>3, <1>6
  <2> QED
    BY <2>1 DEF Hears
<1> QED
  BY <1>2, <1>4, <1>5, <1>6 DEF Turn

\* Only that changes an inbox.
LEMMA StepInbox ==
    ASSUME NEW p \in Strands, PStep(p)
    PROVE  inbox' = inbox \/ BcSend(p)
<1>1. CASE Calling(p)
  BY <1>1 DEF Calling, CallLock, PluginReturns, Finish, Publish, PluginThrows, CloseAll,
              CloseOne, ClosedAll, ShutdownThrows, Unlock
<1>2. CASE Join(p) \/ Broadcasting(p) \/ Ending(p)
  BY <1>2 DEF Join, Broadcasting, BcLock, BcUnlock, Ending, ClosedLock, FailLock, Leave,
              UnlockGone
<1>3. CASE SessionEvent(p) \/ OnRequest(p)
  BY <1>3 DEF SessionEvent, OnAccept, OnAcceptFail, OnMessage, OnReadClosed, OnReadFail,
              OnWriteFail, OnRequest
<1> QED
  BY <1>1, <1>2, <1>3 DEF PStep, Running

\* So a session hears nothing, or what a strand broadcasts that visits it.
LEMMA StepHears ==
    ASSUME TypeOK, NEW p \in Strands, PStep(p), NEW s \in Sessions
    PROVE  \/ inbox'[s] = inbox[s]
           \/ BcSend(p) /\ Turn(p, s) /\ Addressed(msg[p], s) /\ Hears(s, msg[p])
BY StepInbox, SendTurn DEF Turn

\* What is in an inbox after that.
LEMMA HeardSame ==
    ASSUME NEW s \in Sessions, inbox'[s] = inbox[s], NEW kind
    PROVE  Heard(s, kind)' = Heard(s, kind)
BY DEF Heard

\* What is in an inbox that grew by a message.
LEMMA HeardMore ==
    ASSUME NEW s \in Sessions, NEW m, Hears(s, m)
    PROVE  \E n \in Nat :
              /\ DOMAIN inbox[s] = 1..n /\ DOMAIN inbox'[s] = 1..(n + 1)
              /\ inbox'[s][n + 1] = m
              /\ \A i \in 1..n : inbox'[s][i] = inbox[s][i]
              /\ \A kind : Heard(s, kind) \subseteq 1..n
              /\ \A kind : Heard(s, kind)' = IF m.kind = kind THEN Heard(s, kind) \cup {n + 1}
                                             ELSE Heard(s, kind)
<1>1. PICK n \in Nat :
        /\ DOMAIN inbox[s] = 1..n /\ DOMAIN inbox'[s] = 1..(n + 1)
        /\ inbox'[s][n + 1] = m
        /\ \A i \in 1..n : inbox'[s][i] = inbox[s][i]
  BY DEF Hears
<1>2. \A kind : Heard(s, kind) \subseteq 1..n
  BY <1>1 DEF Heard
<1>3. 1..(n + 1) = 1..n \cup {n + 1}
  OBVIOUS
<1>4. ASSUME NEW kind
      PROVE  Heard(s, kind)' = IF m.kind = kind THEN Heard(s, kind) \cup {n + 1}
                               ELSE Heard(s, kind)
  BY <1>1, <1>3 DEF Heard
<1> QED
  BY <1>1, <1>2, <1>4

-----------------------------------------------------------------------------
\* A loop visits what is left of it, or begins with the table.
LEMMA StepTodo ==
    ASSUME TypeOK, PlacesOK, NEW p \in Strands, PStep(p), NEW q \in Strands
    PROVE  todo'[q] \subseteq todo[q] \/ todo'[q] = table
<1>1. CASE CallLock(p) \/ PluginReturns(p) \/ Finish(p) \/ Publish(p) \/ PluginThrows(p)
           \/ ClosedAll(p) \/ ShutdownThrows(p) \/ Unlock(p)
  BY <1>1 DEF CallLock, PluginReturns, Finish, Publish, PluginThrows, ClosedAll,
              ShutdownThrows, Unlock, frame
<1>5. CASE CloseAll(p)
  BY <1>5 DEF CloseAll, TypeOK
<1>6. CASE CloseOne(p)
  <2>1. PICK s \in todo[p] : todo' = [todo EXCEPT ![p] = @ \ {s}]
    BY <1>6 DEF CloseOne
  <2> QED
    BY <2>1 DEF TypeOK
<1>2. CASE BcSend(p)
  BY <1>2, SendTurn DEF Turn
<1>3. CASE Join(p) \/ BcLock(p) \/ BcUnlock(p) \/ Ending(p)
  BY <1>3 DEF Join, BcLock, BcUnlock, Ending, ClosedLock, FailLock, Leave, UnlockGone,
              frame, TypeOK
<1>4. CASE SessionEvent(p) \/ OnRequest(p)
  BY <1>4 DEF SessionEvent, OnAccept, OnAcceptFail, OnMessage, OnReadClosed, OnReadFail,
              OnWriteFail, OnRequest, frame
<1> QED
  BY <1>1, <1>2, <1>3, <1>4, <1>5, <1>6 DEF PStep, Running, Broadcasting, Calling

\* Who has not joined before the step had not joined before.
LEMMA StepNotJoined ==
    ASSUME TypeOK, PlacesOK, NEW p \in Strands, PStep(p), NEW s \in Sessions,
           pc'[s] \in {"accepting", "join"}
    PROVE  pc[s] \in {"accepting", "join"} /\ ~Join(s)
<1> USE DEF At, Strands
<1>1. s \in Strands /\ (s # p => pc'[s] = pc[s])
  BY StepOthers, OthersStay
<1>2. CASE s = p
  <2>1. CASE CallLock(p) \/ PluginReturns(p) \/ Finish(p) \/ Publish(p)
    BY <1>2, <2>1, CallLockSends, PluginReturnsSends, FinishSends, PublishSends DEF Sends, Proceeds
  <2>2. CASE Join(p)
    BY <1>2, <2>2, JoinSends
  <2>3. CASE BcLock(p) \/ BcSend(p) \/ BcUnlock(p)
    BY <1>2, <2>3 DEF BcLock, BcSend, BcUnlock, Goto, Return, TypeOK, PlacesOK, Place, Sending
  <2>4. CASE PluginThrows(p) \/ CloseAll(p) \/ CloseOne(p)
               \/ ClosedAll(p) \/ ShutdownThrows(p) \/ Unlock(p)
    BY <1>2, <2>4 DEF PluginThrows, CloseAll, CloseOne, ClosedAll, ShutdownThrows, Unlock,
                      Goto, TypeOK
  <2>5. CASE Ending(p)
    BY <1>2, <2>5 DEF Ending, ClosedLock, FailLock, Leave, UnlockGone, Goto, Return, TypeOK,
                      PlacesOK, Place
  <2>6. CASE SessionEvent(p) \/ OnRequest(p)
    BY <1>2, <2>6 DEF SessionEvent, OnAccept, OnAcceptFail, OnMessage, OnReadClosed, OnReadFail,
                OnWriteFail, OnRequest, Starts, Goto, Join, TypeOK
  <2> QED
    BY <2>1, <2>2, <2>3, <2>4, <2>5, <2>6 DEF PStep, Running, Broadcasting, Calling
<1>3. CASE s # p
  <2>1. ~Join(s)
    <3>1. SUFFICES ASSUME Join(s) PROVE FALSE
      OBVIOUS
    <3>2. pc'[s] = "bcLock"
      BY <3>1, JoinSends
    <3> QED
      BY <3>2
  <2> QED
    BY <1>1, <1>3, <2>1
<1> QED
  BY <1>2, <1>3

\* So whoever has not joined is still in no loop.
LEMMA UnheardKept ==
    ASSUME TypeOK, PlacesOK, Unheard, NEW p \in Strands, PStep(p)
    PROVE  Unheard'
<1>1. SUFFICES ASSUME NEW s \in Sessions, pc'[s] \in {"accepting", "join"}
               PROVE  s \notin table' /\ inbox'[s] = <<>> /\ \A q \in Strands : s \notin todo'[q]
  BY DEF Unheard
<1>2. pc[s] \in {"accepting", "join"} /\ ~Join(s)
  BY <1>1, StepNotJoined
<1>3. s \notin table /\ inbox[s] = <<>> /\ \A q \in Strands : s \notin todo[q]
  BY <1>2 DEF Unheard
<1>4. s \notin table'
  BY <1>2, <1>3, StepRoom DEF Strands
<1>5. inbox'[s] = inbox[s]
  BY <1>3, StepHears DEF Turn
<1>6. \A q \in Strands : s \notin todo'[q]
  BY <1>3, StepTodo
<1> QED
  BY <1>3, <1>4, <1>5, <1>6

\* A message is of the latest call, unless it greets.
LEMMA OrderKept ==
    ASSUME TypeOK, PlacesOK, Messages, Order, NEW p \in Strands, PStep(p)
    PROVE  Order'
<1>1. SUFFICES ASSUME NEW s \in Sessions
               PROVE  /\ \A i \in DOMAIN inbox'[s] \ Heard(s, "init")' : inbox'[s][i].call <= calls'
                      /\ \A i, j \in DOMAIN inbox'[s] \ Heard(s, "init")' :
                           i < j => inbox'[s][i].call <= inbox'[s][j].call
  BY DEF Order
<1>2. /\ \A i \in DOMAIN inbox[s] \ Heard(s, "init") : inbox[s][i].call <= calls
      /\ \A i, j \in DOMAIN inbox[s] \ Heard(s, "init") :
           i < j => inbox[s][i].call <= inbox[s][j].call
  BY DEF Order
<1>3. inbox[s] \in Seq(Message) /\ \A i \in DOMAIN inbox[s] : inbox[s][i].call \in Nat
  <2>1. inbox[s] \in Seq(Message)
    BY DEF TypeOK
  <2>2. \A i \in DOMAIN inbox[s] : inbox[s][i] \in Message
    BY <2>1
  <2>3. \A m \in Message : m.call \in Nat
    BY DEF Message, MessageOf
  <2> QED
    BY <2>1, <2>2, <2>3
<1>4. calls \in Nat /\ (calls' = calls \/ calls' = calls + 1)
  BY StepRoom DEF TypeOK
<1>5. CASE inbox'[s] = inbox[s]
  BY <1>2, <1>3, <1>4, <1>5, HeardSame
<1>6. CASE BcSend(p) /\ Hears(s, msg[p])
  <2>1. PICK n \in Nat :
              /\ DOMAIN inbox[s] = 1..n /\ DOMAIN inbox'[s] = 1..(n + 1)
              /\ inbox'[s][n + 1] = msg[p]
              /\ \A i \in 1..n : inbox'[s][i] = inbox[s][i]
              /\ Heard(s, "init") \subseteq 1..n
              /\ Heard(s, "init")' = IF msg[p].kind = "init" THEN Heard(s, "init") \cup {n + 1}
                                     ELSE Heard(s, "init")
    BY <1>6, HeardMore
  <2>2. calls' = calls
    BY <1>6 DEF BcSend, room
  <2>3. msg[p].kind # "init" => msg[p].call = calls
    BY <1>6 DEF BcSend, At, Messages, Says, Sending, Greets
  <2>4. \A i \in DOMAIN inbox'[s] \ Heard(s, "init")' :
          \/ i \in 1..n /\ i \notin Heard(s, "init") /\ inbox'[s][i] = inbox[s][i]
          \/ i = n + 1 /\ inbox'[s][i].call = calls
    BY <2>1, <2>3
  <2>5. \A i \in 1..n : i \in DOMAIN inbox[s]
    BY <2>1
  <2>6. \A i \in DOMAIN inbox'[s] \ Heard(s, "init")' : inbox'[s][i].call <= calls'
    BY <1>2, <1>4, <2>2, <2>4, <2>5
  <2>7. ASSUME NEW i \in DOMAIN inbox'[s] \ Heard(s, "init")',
               NEW j \in DOMAIN inbox'[s] \ Heard(s, "init")', i < j
        PROVE  inbox'[s][i].call <= inbox'[s][j].call
    <3>1. i \in 1..n /\ i \notin Heard(s, "init") /\ inbox'[s][i] = inbox[s][i]
      BY <2>1, <2>4, <2>7
    <3>2. CASE j = n + 1 /\ inbox'[s][j].call = calls
      BY <1>2, <2>5, <3>1, <3>2
    <3>3. CASE j \in 1..n /\ j \notin Heard(s, "init") /\ inbox'[s][j] = inbox[s][j]
      BY <1>2, <2>5, <2>7, <3>1, <3>3
    <3> QED
      BY <2>4, <3>2, <3>3
  <2> QED
    BY <2>6, <2>7
<1> QED
  BY <1>5, <1>6, StepHears

-----------------------------------------------------------------------------
\* The loops of the other strands go on where they are.
LEMMA StepLoops ==
    ASSUME TypeOK, PlacesOK, NEW p \in Strands, PStep(p), NEW q \in Strands, q # p
    PROVE  todo'[q] = todo[q]
<1>1. CASE CallLock(p) \/ PluginReturns(p) \/ Finish(p) \/ Publish(p) \/ PluginThrows(p)
           \/ ClosedAll(p) \/ ShutdownThrows(p) \/ Unlock(p)
  BY <1>1 DEF CallLock, PluginReturns, Finish, Publish, PluginThrows, ClosedAll,
              ShutdownThrows, Unlock, frame
<1>2. CASE CloseAll(p)
  BY <1>2 DEF CloseAll, TypeOK
<1>3. CASE CloseOne(p)
  BY <1>3 DEF CloseOne, TypeOK
<1>4. CASE BcSend(p)
  BY <1>4, SendTurn DEF Turn
<1>5. CASE Join(p) \/ BcLock(p) \/ BcUnlock(p) \/ Ending(p)
  BY <1>5 DEF Join, BcLock, BcUnlock, Ending, ClosedLock, FailLock, Leave, UnlockGone,
              frame, TypeOK
<1>6. CASE SessionEvent(p) \/ OnRequest(p)
  BY <1>6 DEF SessionEvent, OnAccept, OnAcceptFail, OnMessage, OnReadClosed, OnReadFail,
              OnWriteFail, OnRequest, frame
<1> QED
  BY <1>1, <1>2, <1>3, <1>4, <1>5, <1>6 DEF PStep, Running, Broadcasting, Calling

\* What a strand does next, by its place.
LEMMA StepAt ==
    ASSUME NEW p \in Strands, PStep(p)
    PROVE  /\ pc[p] = "accepting" => OnAccept(p) \/ OnAcceptFail(p)
           /\ pc[p] = "join" => Join(p)
           /\ pc[p] = "bcLock" => BcLock(p)
           /\ pc[p] = "bcSend" => BcSend(p) \/ (BcUnlock(p) /\ todo[p] = {})
           /\ pc[p] = "plugin" => PluginThrows(p) \/ PluginReturns(p)
           /\ pc[p] = "closeAll" => CloseAll(p)
           /\ pc[p] = "closing" =>
                CloseOne(p) \/ (todo[p] = {} /\ (ClosedAll(p) \/ ShutdownThrows(p)))
           /\ pc[p] = "finish" => Finish(p)
BY StrandsAssumption
   DEF At, Starts, PStep, Running, Broadcasting, BcLock, BcSend, BcUnlock, Calling, CallLock,
       PluginThrows, PluginReturns, CloseAll, CloseOne, ClosedAll, ShutdownThrows, Finish, Publish,
       Unlock, Join, Ending, ClosedLock, FailLock, Leave, UnlockGone, SessionEvent, OnAccept,
       OnAcceptFail, OnMessage, OnReadClosed, OnReadFail, OnWriteFail, OnRequest

\* A session that awaits its greeting goes on awaiting it, until it is handed
\* it or its handshake fails.
LEMMA AwaitsOrGreets ==
    ASSUME TypeOK, PlacesOK, Messages, NEW s \in Sessions, PStep(s), Awaits(s)
    PROVE  Awaits(s)' \/ Where(s)' = "gone" \/ (Turn(s, s) /\ Hears(s, msg[s]))
<1> USE DEF Strands, At
<1>1. CASE pc[s] = "accepting"
  <2>1. OnAccept(s) \/ OnAcceptFail(s)
    BY <1>1, StepAt
  <2> QED
    BY <2>1 DEF OnAccept, OnAcceptFail, Goto, TypeOK, Awaits, Where
<1>2. CASE pc[s] = "join"
  <2>1. Join(s)
    BY <1>2, StepAt
  <2> QED
    BY <2>1, JoinSends DEF Awaits
<1>3. CASE pc[s] = "bcLock" /\ ret[s] = "reading"
  <2>1. BcLock(s)
    BY <1>3, StepAt
  <2>2. s \in table
    BY <1>3 DEF Messages, Says, Sending
  <2> QED
    BY <1>3, <2>1, <2>2 DEF BcLock, Goto, TypeOK, Awaits
<1>4. CASE pc[s] = "bcSend" /\ ret[s] = "reading" /\ s \in todo[s]
  <2>1. BcSend(s)
    BY <1>4, StepAt
  <2>2. PICK t \in Sessions : Turn(s, t)
    BY <2>1, SendTurn
  <2>3. Addressed(msg[s], s)
    BY <1>4 DEF Messages, Says, Sending, Greets, Addressed
  <2>4. CASE t = s
    BY <2>2, <2>3, <2>4 DEF Turn
  <2>5. CASE t # s
    BY <1>4, <2>1, <2>2, <2>5 DEF Turn, BcSend, Awaits
  <2> QED
    BY <2>4, <2>5
<1> QED
  BY <1>1, <1>2, <1>3, <1>4 DEF Awaits

\* Whoever does not await it never does again, and a session that is gone is gone.
LEMMA NeverAgain ==
    ASSUME TypeOK, PlacesOK, Messages, NEW s \in Sessions, PStep(s)
    PROVE  /\ Awaits(s)' => Awaits(s)
           /\ Where(s) = "gone" => Where(s)' = "gone"
<1> USE StrandsAssumption DEF Strands, At, Awaits, Where
<1>1. CASE CallLock(s)
  BY <1>1, CallLockSends DEF CallLock, Sends, Proceeds
<1>2. CASE PluginReturns(s)
  BY <1>2, PluginReturnsSends DEF PluginReturns, Sends, Proceeds
<1>3. CASE Finish(s)
  BY <1>3, FinishSends DEF Finish, Sends, Proceeds
<1>4. CASE Publish(s)
  BY <1>4, PublishSends DEF Publish, Sends, Proceeds
<1>5. CASE Join(s)
  BY <1>5 DEF Join
<1>6. CASE BcLock(s)
  BY <1>6 DEF BcLock, Goto, TypeOK, PlacesOK, Place, Sending
<1>7. CASE BcSend(s)
  BY <1>7, SendTurn DEF BcSend, Turn, PlacesOK, Place, Sending
<1>8. CASE BcUnlock(s)
  BY <1>8 DEF BcUnlock, Return, Goto, TypeOK, PlacesOK, Place, Sending
<1>9. CASE PluginThrows(s) \/ CloseAll(s) \/ CloseOne(s)
             \/ ClosedAll(s) \/ ShutdownThrows(s) \/ Unlock(s)
  BY <1>9 DEF PluginThrows, CloseAll, CloseOne, ClosedAll, ShutdownThrows, Unlock, Goto, TypeOK
<1>10. CASE Ending(s)
  BY <1>10 DEF Ending, ClosedLock, FailLock, Leave, UnlockGone, Return, Goto, TypeOK,
               PlacesOK, Place, Sending, frame
<1>11. CASE SessionEvent(s)
  BY <1>11 DEF SessionEvent, OnAccept, OnAcceptFail, OnMessage, OnReadClosed, OnReadFail,
               OnWriteFail, Starts, Goto, TypeOK
<1>12. CASE OnRequest(s)
  BY <1>12 DEF OnRequest, Starts, TypeOK
<1> QED
  BY <1>1, <1>2, <1>3, <1>4, <1>5, <1>6, <1>7, <1>8, <1>9, <1>10, <1>11, <1>12
     DEF PStep, Running, Broadcasting, Calling

\* So a session is greeted once, by itself and before its client calls.
LEMMA GreetingKept ==
    ASSUME TypeOK, PlacesOK, Messages, Unheard, Greeting, NEW p \in Strands, PStep(p)
    PROVE  Greeting'
<1>1. SUFFICES ASSUME NEW s \in Sessions
               PROVE  /\ \A i \in Heard(s, "init")' : inbox'[s][i].source = s
                      /\ Awaits(s)' => Heard(s, "init")' = {}
                      /\ Awaits(s)' \/ Where(s)' = "gone" \/ Greeted(s)'
  BY DEF Greeting
<1>2. /\ \A i \in Heard(s, "init") : inbox[s][i].source = s
      /\ Awaits(s) => Heard(s, "init") = {}
      /\ Awaits(s) \/ Where(s) = "gone" \/ Greeted(s)
  BY DEF Greeting
<1> s \in Strands
  BY DEF Strands
\* The states of s that matter stay, unless s itself steps.
<1>3. ASSUME s # p
      PROVE  Awaits(s)' = Awaits(s) /\ Where(s)' = Where(s)
  <2>1. pc'[s] = pc[s] /\ ret'[s] = ret[s] /\ todo'[s] = todo[s]
    BY <1>3, StepOthers, OthersStay, StepLoops
  <2> QED
    BY <2>1 DEF Awaits, Where
<1>4. /\ Awaits(s)' => Awaits(s)
      /\ Where(s) = "gone" => Where(s)' = "gone"
  BY <1>3, NeverAgain
\* A session hears no greeting.
<1>5. ASSUME Heard(s, "init")' = Heard(s, "init"),
             \A i \in Heard(s, "init") : inbox'[s][i] = inbox[s][i],
             DOMAIN inbox[s] \subseteq DOMAIN inbox'[s],
             ~ (s = p /\ Hears(s, msg[s]))
      PROVE  /\ \A i \in Heard(s, "init")' : inbox'[s][i].source = s
             /\ Awaits(s)' => Heard(s, "init")' = {}
             /\ Awaits(s)' \/ Where(s)' = "gone" \/ Greeted(s)'
  <2>1. Greeted(s) => Greeted(s)'
    BY <1>5 DEF Greeted
  <2>2. Awaits(s) => Awaits(s)' \/ Where(s)' = "gone"
    BY <1>3, <1>5, AwaitsOrGreets
  <2> QED
    BY <1>2, <1>4, <1>5, <2>1, <2>2
<1>6. CASE inbox'[s] = inbox[s]
  <2>1. ~ Hears(s, msg[s])
    <3>1. SUFFICES ASSUME Hears(s, msg[s]) PROVE FALSE
      OBVIOUS
    <3>2. PICK n \in Nat : DOMAIN inbox[s] = 1..n /\ DOMAIN inbox'[s] = 1..(n + 1)
      BY <3>1 DEF Hears
    <3>3. n + 1 \in DOMAIN inbox'[s] /\ n + 1 \notin DOMAIN inbox[s]
      BY <3>2
    <3> QED
      BY <1>6, <3>3
  <2> QED
    BY <1>5, <1>6, <2>1, HeardSame
<1>7. CASE BcSend(p) /\ Turn(p, s) /\ Addressed(msg[p], s) /\ Hears(s, msg[p])
  <2>1. PICK n \in Nat :
              /\ DOMAIN inbox[s] = 1..n /\ DOMAIN inbox'[s] = 1..(n + 1)
              /\ inbox'[s][n + 1] = msg[p]
              /\ \A i \in 1..n : inbox'[s][i] = inbox[s][i]
              /\ Heard(s, "init") \subseteq 1..n
              /\ Heard(s, "init")' = IF msg[p].kind = "init" THEN Heard(s, "init") \cup {n + 1}
                                     ELSE Heard(s, "init")
    BY <1>7, HeardMore
  <2>2. Says(p) /\ Sending(p)
    BY <1>7 DEF Messages, BcSend, At, Sending
  <2>3. CASE msg[p].kind = "init"
    <3>1. ret[p] = "reading" /\ Greets(msg[p], p)
      BY <2>2, <2>3 DEF Says
    <3>2. s = p
      BY <1>7, <3>1 DEF Addressed, Greets
    <3>3. Awaits(s)
      BY <1>7, <3>1, <3>2 DEF Awaits, BcSend, At, Turn
    <3>4. Heard(s, "init")' = {n + 1}
      BY <1>2, <2>1, <2>3, <3>3
    <3>5. ~ Awaits(s)'
      <4>1. pc'[s] = "bcSend" /\ s \notin todo'[s]
        BY <1>7, <3>2 DEF BcSend, At, Turn
      <4> QED
        BY <4>1 DEF Awaits
    <3>6. inbox'[s][n + 1].source = s
      BY <2>1, <3>1, <3>2 DEF Greets
    <3>7. n + 1 \in DOMAIN inbox'[s]
      BY <2>1
    <3> QED
      BY <3>4, <3>5, <3>6, <3>7 DEF Greeted
  <2>4. CASE msg[p].kind # "init"
    <3>1. DOMAIN inbox[s] \subseteq DOMAIN inbox'[s]
      BY <2>1
    <3>2. CASE s # p
      BY <1>5, <2>1, <2>4, <3>1, <3>2
    <3>3. CASE s = p
      <4>1. ~Awaits(s)
        BY <2>2, <2>4, <3>3, <1>7 DEF Awaits, Says, Greets, BcSend, At
      <4>2. Greeted(s) => Greeted(s)'
        BY <2>1, <2>4, <3>1 DEF Greeted
      <4> QED
        BY <1>2, <1>4, <2>1, <2>4, <4>1, <4>2
    <3> QED
      BY <3>2, <3>3
  <2> QED
    BY <2>3, <2>4
<1> QED
  BY <1>6, <1>7, StepHears

-----------------------------------------------------------------------------
\* Who joins has been handed nothing.
LEMMA JoinsEmpty ==
    ASSUME TypeOK, PlacesOK, Unheard, NEW p \in Strands, PStep(p),
           NEW s \in Sessions, s \in table', s \notin table, NEW kind
    PROVE  Heard(s, kind)' = {}
<1>1. p = s /\ Join(p)
  BY StepRoom
<1>2. inbox'[s] = inbox[s] /\ inbox[s] = <<>>
  BY <1>1 DEF Join, At, Unheard
<1> QED
  BY <1>2 DEF Heard

\* A client is serving a call and has yet to tell s that the server is idle.
Owes(c, s) == c \in Clients /\ Where(c) \in InRoom /\ ~ToldIdle(c, s)

\* It pays its debt, unless its call throws.
LEMMA OwesOrPays ==
    ASSUME TypeOK, PlacesOK, Messages, NEW c \in Clients, PStep(c),
           NEW s \in Sessions, s \in table, Owes(c, s)
    PROVE  \/ Owes(c, s)'
           \/ threw'
           \/ Turn(c, s) /\ msg[c].kind = "idle" /\ Hears(s, msg[c])
<1> USE StrandsAssumption DEF Strands, Owes, ToldIdle, Where, InRoom, Sending, At
<1>1. CASE pc[c] = "plugin"
  <2>1. CASE PluginThrows(c)
    BY <2>1 DEF PluginThrows
  <2>2. CASE PluginReturns(c)
    BY <2>2, PluginReturnsSends DEF Sends, Proceeds
  <2> QED
    BY <1>1, <2>1, <2>2, StepAt
<1>2. CASE pc[c] = "closeAll"
  BY <1>2, StepAt DEF CloseAll, Goto, TypeOK
<1>3. CASE pc[c] = "closing"
  <2>1. CASE CloseOne(c)
    BY <1>3, <2>1 DEF CloseOne
  <2>2. CASE ClosedAll(c)
    BY <2>2 DEF ClosedAll, Goto, TypeOK
  <2>3. CASE ShutdownThrows(c)
    BY <2>3 DEF ShutdownThrows
  <2> QED
    BY <1>3, <2>1, <2>2, <2>3, StepAt
<1>4. CASE pc[c] = "finish"
  BY <1>4, StepAt, FinishSends DEF Sends
<1>5. CASE pc[c] = "bcLock"
  <2>1. BcLock(c)
    BY <1>5, StepAt
  <2>2. pc'[c] = "bcSend" /\ ret'[c] = ret[c] /\ todo'[c] = table
    BY <2>1 DEF BcLock, Goto, TypeOK
  <2> QED
    BY <1>5, <2>2
<1>6. CASE pc[c] = "bcSend" /\ ret[c] # "publish"
  <2>1. CASE BcSend(c)
    BY <1>6, <2>1 DEF BcSend
  <2>2. CASE BcUnlock(c)
    <3>1. pc'[c] = ret[c]
      BY <2>2 DEF BcUnlock, Return, Goto, TypeOK
    <3>2. ret[c] \in {"plugin", "closeAll", "finish"}
      BY <1>6 DEF PlacesOK, Place
    <3> QED
      BY <3>1, <3>2
  <2> QED
    BY <1>6, <2>1, <2>2, StepAt
<1>7. CASE pc[c] = "bcSend" /\ ret[c] = "publish"
  <2>1. s \in todo[c]
    BY <1>7
  <2>2. BcSend(c)
    BY <1>7, <2>1, StepAt
  <2>3. msg[c].kind = "idle" /\ msg[c].others /\ msg[c].source = NoOne
    BY <1>7 DEF Messages, Says
  <2>4. Addressed(msg[c], s)
    BY <2>3 DEF Addressed
  <2>5. PICK t \in Sessions : Turn(c, t)
    BY <2>2, SendTurn
  <2>6. CASE t = s
    BY <2>3, <2>4, <2>5, <2>6 DEF Turn
  <2>7. CASE t # s
    <3>1. s \in todo'[c] /\ pc' = pc /\ ret' = ret
      BY <2>1, <2>2, <2>5, <2>7 DEF Turn, BcSend
    <3> QED
      BY <1>7, <3>1
  <2> QED
    BY <2>6, <2>7
<1> QED
  <2>1. pc[c] \in {"plugin", "closeAll", "closing", "finish", "publish", "unlock",
                   "bcLock", "bcSend"}
    BY DEF PlacesOK, Place
  <2> QED
    BY <1>1, <1>2, <1>3, <1>4, <1>5, <1>6, <1>7, <2>1

\* The latest HTTP call has thrown until the next one returns, and that one owes.
LEMMA ThrewOrOwes ==
    ASSUME TypeOK, PlacesOK, NEW p \in Strands, PStep(p), threw, ~threw', NEW s \in Sessions
    PROVE  Owes(p, s)'
<1>1. PluginReturns(p) /\ p \in Clients
  <2>1. CASE Calling(p)
    BY <2>1 DEF Calling, CallLock, PluginReturns, Finish, Publish, PluginThrows, CloseAll,
                CloseOne, ClosedAll, ShutdownThrows, Unlock, history, TypeOK
  <2>2. CASE Join(p) \/ Broadcasting(p) \/ Ending(p)
    BY <2>2 DEF Join, Broadcasting, BcLock, BcSend, BcUnlock, Ending, ClosedLock,
                FailLock, Leave, UnlockGone, history
  <2>3. CASE SessionEvent(p) \/ OnRequest(p)
    BY <2>3 DEF SessionEvent, OnAccept, OnAcceptFail, OnMessage, OnReadClosed, OnReadFail,
                OnWriteFail, OnRequest, history
  <2> QED
    BY <2>1, <2>2, <2>3 DEF PStep, Running
<1> QED
  BY <1>1, PluginReturnsSends DEF Sends, Proceeds, Owes, ToldIdle, Where, InRoom, Sending

\* So a session that heard "busy" is owed an "idle", or has heard one.
LEMMA BusyKept ==
    ASSUME TypeOK, PlacesOK, Messages, Unheard, Busy, NEW p \in Strands, PStep(p)
    PROVE  Busy'
<1>1. SUFFICES ASSUME NEW s \in Sessions, s \in table',
                      \A c \in Clients : ~Owes(c, s)'
               PROVE  Settled(s)'
  <2>1. table' \subseteq Sessions
    BY TypesKept DEF TypeOK
  <2> QED
    BY <2>1 DEF Busy, Owes
<1>2. CASE s \notin table
  BY <1>1, <1>2, JoinsEmpty DEF Settled
<1>3. ASSUME s \in table, \A c \in Clients : ~Owes(c, s)
      PROVE  Settled(s)
  BY <1>3 DEF Busy, Owes
<1>4. ASSUME s \in table, NEW c \in Clients, Owes(c, s)
      PROVE  threw' \/ (msg[c].kind = "idle" /\ Hears(s, msg[c]))
  <2>1. CASE c = p
    <3>1. PStep(c)
      BY <2>1
    <3>2. \/ Owes(c, s)'
          \/ threw'
          \/ Turn(c, s) /\ msg[c].kind = "idle" /\ Hears(s, msg[c])
      BY <1>4, <3>1, OwesOrPays
    <3>3. ~Owes(c, s)'
      BY <1>1
    <3> QED
      BY <2>1, <3>2, <3>3
  <2>2. CASE c # p
    <3>1. pc'[c] = pc[c] /\ ret'[c] = ret[c] /\ todo'[c] = todo[c]
      BY <2>2, StepOthers, OthersStay, StepLoops DEF Strands
    <3>2. Owes(c, s)'
      BY <1>4, <3>1 DEF Owes, Where, ToldIdle, Sending
    <3> QED
      BY <1>1, <3>2
  <2> QED
    BY <2>1, <2>2
\* Everyone who hears that the server is idle is settled.
<1>5. ASSUME NEW c \in Clients, Hears(s, msg[c]), msg[c].kind = "idle" PROVE Settled(s)'
  <2>1. PICK n \in Nat :
              /\ Heard(s, "busy") \subseteq 1..n
              /\ Heard(s, "busy")' = Heard(s, "busy")
              /\ Heard(s, "idle")' = Heard(s, "idle") \cup {n + 1}
    BY <1>5, HeardMore
  <2>2. \A i \in Heard(s, "busy")' : n + 1 \in Heard(s, "idle")' /\ i < n + 1
    BY <2>1
  <2> QED
    BY <2>2 DEF Settled
\* Whoever hears that it is busy hears it from a client that owes.
<1>6. ASSUME BcSend(p), msg[p].kind = "busy" PROVE FALSE
  <2>1. pc[p] = "bcSend" /\ ret[p] = "plugin" /\ pc' = pc /\ ret' = ret
    BY <1>6 DEF BcSend, At, Messages, Says, Sending
  <2>2. p \in Clients
    BY <2>1 DEF PlacesOK, Place, Sending, Strands
  <2>3. Owes(p, s)'
    BY <2>1, <2>2 DEF Owes, Where, InRoom, ToldIdle, Sending
  <2> QED
    BY <1>1, <2>2, <2>3
<1>7. threw => threw'
  <2>1. SUFFICES ASSUME threw, ~threw' PROVE FALSE
    OBVIOUS
  <2>2. Owes(p, s)'
    BY <2>1, ThrewOrOwes
  <2> QED
    BY <1>1, <2>2 DEF Owes
<1>8. CASE s \in table /\ \A c \in Clients : ~Owes(c, s)
  <2>1. threw \/ \A i \in Heard(s, "busy") : \E j \in Heard(s, "idle") : i < j
    BY <1>3, <1>8 DEF Settled
  <2>2. /\ Heard(s, "busy")' = Heard(s, "busy")
        /\ Heard(s, "idle") \subseteq Heard(s, "idle")'
    <3>1. CASE inbox'[s] = inbox[s]
      BY <3>1, HeardSame
    <3>2. CASE BcSend(p) /\ Hears(s, msg[p])
      BY <1>6, <3>2, HeardMore
    <3> QED
      BY <3>1, <3>2, StepHears
  <2> QED
    BY <1>7, <2>1, <2>2 DEF Settled
<1>9. CASE s \in table /\ \E c \in Clients : Owes(c, s)
  BY <1>4, <1>5, <1>9 DEF Settled
<1> QED
  BY <1>2, <1>8, <1>9

-----------------------------------------------------------------------------
\* A stream that is no longer open never is again.
LEMMA StepStream ==
    ASSUME TypeOK, PlacesOK, NEW p \in Strands, PStep(p), NEW s \in Sessions, stream'[s] = "ok"
    PROVE  stream[s] = "ok"
<1>1. CASE CloseOne(p)
  <2>1. PICK t \in todo[p] :
           stream' = [stream EXCEPT ![t] = IF @ = "ok" THEN "closing" ELSE @]
    BY <1>1 DEF CloseOne
  <2> QED
    BY <2>1 DEF TypeOK
<1>2. CASE CallLock(p) \/ PluginReturns(p) \/ Finish(p) \/ Publish(p) \/ PluginThrows(p)
           \/ CloseAll(p) \/ ClosedAll(p) \/ ShutdownThrows(p) \/ Unlock(p)
  BY <1>2 DEF CallLock, PluginReturns, Finish, Publish, PluginThrows, CloseAll, ClosedAll,
              ShutdownThrows, Unlock
<1>3. CASE Join(p) \/ Broadcasting(p) \/ Ending(p)
  BY <1>3 DEF Join, Broadcasting, BcLock, BcSend, BcUnlock, Ending, ClosedLock, FailLock,
              Leave, UnlockGone
<1>4. CASE SessionEvent(p) \/ OnRequest(p)
  BY <1>4 DEF SessionEvent, OnAccept, OnAcceptFail, OnMessage, OnReadClosed, OnReadFail,
              OnWriteFail, OnRequest, TypeOK
<1> QED
  BY <1>1, <1>2, <1>3, <1>4 DEF PStep, Running, Calling

\* Who is to close a session still is after its step, or has closed it.
LEMMA ClosesOrClosed ==
    ASSUME TypeOK, PlacesOK, NEW p \in Strands, PStep(p),
           NEW s \in Sessions, s \in table, stream[s] = "ok", Closes(p, s)
    PROVE  Closes(p, s)' \/ stream'[s] # "ok"
<1> USE DEF Closes, Where
<1>1. CASE pc[p] = "bcLock" /\ ret[p] = "closeAll"
  BY <1>1, StepAt DEF BcLock, Goto, TypeOK
<1>2. CASE pc[p] = "bcSend" /\ ret[p] = "closeAll"
  BY <1>2, StepAt DEF BcSend, BcUnlock, Return, Goto, TypeOK
<1>3. CASE pc[p] = "closeAll"
  BY <1>3, StepAt DEF CloseAll, Goto, TypeOK
<1>4. CASE pc[p] = "closing" /\ s \in todo[p]
  <2>1. CloseOne(p)
    BY <1>4, StepAt
  <2>2. PICK t \in todo[p] :
           /\ todo' = [todo EXCEPT ![p] = @ \ {t}]
           /\ stream' = [stream EXCEPT ![t] = IF @ = "ok" THEN "closing" ELSE @]
    BY <2>1 DEF CloseOne
  <2>3. CASE t = s
    BY <2>2, <2>3 DEF TypeOK
  <2>4. CASE t # s
    BY <1>4, <2>1, <2>2, <2>4 DEF CloseOne, TypeOK
  <2> QED
    BY <2>3, <2>4
<1> QED
  BY <1>1, <1>2, <1>3, <1>4 DEF PlacesOK, Place

\* So whoever was told of the shutdown is closed or has a closer.
LEMMA ClosingKept ==
    ASSUME TypeOK, PlacesOK, Messages, Unheard, Closing, NEW p \in Strands, PStep(p)
    PROVE  Closing'
<1>1. SUFFICES ASSUME NEW s \in Sessions, s \in table',
                      Heard(s, "shutdown")' # {}, stream'[s] = "ok"
               PROVE  \E q \in Strands : Closes(q, s)'
  <2>1. table' \subseteq Sessions
    BY TypesKept DEF TypeOK
  <2> QED
    BY <2>1 DEF Closing
<1>2. s \in table /\ stream[s] = "ok"
  BY <1>1, JoinsEmpty, StepStream
<1>3. CASE Heard(s, "shutdown") # {}
  <2>1. PICK q \in Strands : Closes(q, s)
    BY <1>2, <1>3 DEF Closing
  <2>2. CASE q = p
    <3>1. PStep(q)
      BY <2>2
    <3> QED
      BY <1>1, <1>2, <2>1, <3>1, ClosesOrClosed
  <2>3. CASE q # p
    <3>1. pc'[q] = pc[q] /\ ret'[q] = ret[q] /\ todo'[q] = todo[q]
      BY <2>3, StepOthers, OthersStay, StepLoops
    <3>2. Closes(q, s)'
      BY <2>1, <3>1 DEF Closes, Where
    <3> QED
      BY <3>2
  <2> QED
    BY <2>2, <2>3
<1>4. CASE Heard(s, "shutdown") = {}
  <2>1. BcSend(p) /\ msg[p].kind = "shutdown"
    BY <1>1, <1>4, StepHears, HeardSame, HeardMore
  <2>2. pc[p] = "bcSend" /\ ret[p] = "closeAll" /\ pc' = pc /\ ret' = ret
    BY <2>1 DEF BcSend, At, Messages, Says, Sending
  <2>3. Closes(p, s)'
    BY <2>2 DEF Closes, Where
  <2> QED
    BY <2>3
<1> QED
  BY <1>3, <1>4

-----------------------------------------------------------------------------
\* The room of the constructor satisfies the invariant.
LEMMA InitInv == Init => IInv
<1> SUFFICES ASSUME Init PROVE IInv
  OBVIOUS
<1> USE StrandsAssumption DEF Strands
<1>1. TypeOK
  <2>1. NoMessage \in Message /\ NoOutcome \in Outcome
    BY DEF NoMessage, NoOutcome, Message, MessageOf, Outcome, Kinds, Patches
  <2>2. pc \in [Strands -> Places] /\ \A s \in Sessions : pc[s] # "idle"
    BY DEF Init, Places, AtRest
  <2>3. <<>> \in Seq(Message)
    OBVIOUS
  <2>4. /\ ret \in [Strands -> Returns] /\ msg \in [Strands -> Message]
        /\ todo \in [Strands -> SUBSET Sessions] /\ result \in [Strands -> Outcome]
    BY <2>1 DEF Init, Returns
  <2>5. /\ stream \in [Sessions -> {"ok", "closing", "ended", "failed"}]
        /\ inbox \in [Sessions -> Seq(Message)] /\ log \in Seq(Message)
        /\ joinedAt \in [Sessions -> Nat]
    BY <2>3 DEF Init
  <2> QED
    BY <2>2, <2>4, <2>5 DEF Init, TypeOK
<1>2. Locks /\ PlacesOK
  BY DEF Init, Locks, PlacesOK, Place, Where, InRoom, Sending
<1>3. Messages /\ Unheard
  BY DEF Init, Messages, Says, Sending, Unheard
<1>4. \A s \in Sessions : \A kind : Heard(s, kind) = {}
  BY DEF Init, Heard
<1>5. Greeting
  BY <1>4 DEF Init, Greeting, Awaits
<1>6. Order
  BY DEF Init, Order
<1>7. Busy /\ Closing
  BY DEF Init, Busy, Closing
<1> QED
  BY <1>1, <1>2, <1>3, <1>5, <1>6, <1>7 DEF IInv

\* Every step preserves it.
LEMMA StepInv == IInv /\ [Next]_vars => IInv'
<1> SUFFICES ASSUME IInv, [Next]_vars PROVE IInv'
  OBVIOUS
<1>1. ASSUME NEW p \in Strands, PStep(p) PROVE IInv'
  BY <1>1, TypesKept, LocksKept, PlacesKept, MessagesKept, UnheardKept, GreetingKept, OrderKept,
     BusyKept, ClosingKept DEF IInv
<1>2. CASE Next
  BY <1>1, <1>2 DEF Next, PStep, Strands
<1>3. CASE UNCHANGED vars
  <2> USE <1>3 DEF vars, frame, room, history
  <2>1. TypeOK' /\ Locks' /\ PlacesOK' /\ Messages'
    BY DEF IInv, TypeOK, Locks, PlacesOK, Place, Where, Sending, Messages, Says
  <2>2. Unheard' /\ Order'
    BY DEF IInv, Unheard, Order, Heard
  <2>3. Greeting'
    BY DEF IInv, Greeting, Greeted, Awaits, Where, Heard
  <2>4. Busy'
    BY DEF IInv, Busy, Settled, ToldIdle, Sending, Where, Heard
  <2>5. Closing'
    BY DEF IInv, Closing, Closes, Where, Heard
  <2> QED
    BY <2>1, <2>2, <2>3, <2>4, <2>5 DEF IInv
<1> QED
  BY <1>2, <1>3

\* So it holds of every state a room can reach.
THEOREM Invariance == Spec => []IInv
BY InitInv, StepInv, PTL DEF Spec

\* Every variable of a room keeps to its values, for any number of sessions,
\* clients, threads and calls.
THEOREM TypeCorrect == Spec => []TypeOK
<1>1. IInv => TypeOK
  BY DEF IInv
<1> QED
  BY Invariance, <1>1, PTL

\* Every client hears of the API calls in the order they were applied to the
\* room's configuration: broadcastWS runs under the room's mutex.
THEOREM CallsAreHeardInOrder == Spec => []CallsInOrder
<1>1. IInv => CallsInOrder
  BY DEF IInv, Order, CallsInOrder
<1> QED
  BY Invariance, <1>1, PTL

\* A session that was told that the server is busy is told when it is not, unless
\* the latest call of an HTTP client threw: the catch block of handleRequest
\* broadcasts nothing.
THEOREM BusyEnds == Spec => []BusyUnlessThrew
<1>1. IInv => BusyUnlessThrew
  <2> SUFFICES ASSUME IInv, mutexRoom \notin Clients, ~threw,
                      NEW s \in table, NEW i \in Heard(s, "busy")
               PROVE  \E j \in Heard(s, "idle") : i < j
    BY DEF BusyUnlessThrew
  <2>1. \A c \in Clients : Where(c) \notin InRoom
    BY DEF IInv, Locks, Strands
  <2>2. Settled(s)
    BY <2>1 DEF IInv, Busy
  <2> QED
    BY <2>2 DEF Settled
<1> QED
  BY Invariance, <1>1, PTL

\* A session knows its own UUID, and no other's, before its client can call an
\* API: onAccept sends it before doRead.
THEOREM SessionsKnowThemselves == Spec => []KnowsItself
<1>1. IInv => KnowsItself
  <2> SUFFICES ASSUME IInv, NEW s \in Sessions
               PROVE  /\ \A i \in Heard(s, "init") : inbox[s][i].source = s
                      /\ pc[s] \in {"reading", "callLock", "plugin"} => Greeted(s)
    BY DEF KnowsItself, Greeted
  <2> QED
    BY DEF IInv, Greeting, Awaits, Where
<1> QED
  BY Invariance, <1>1, PTL

\* Nobody who was told of the shutdown is left with an open websocket when the
\* handlers have returned, in any table and whatever the threads do.
THEOREM TheToldAreClosed == Spec => []ToldIsClosed
<1>1. IInv => ToldIsClosed
  <2> SUFFICES ASSUME IInv, NEW s \in table, Heard(s, "shutdown") # {},
                      \A p \in Strands : pc[p] \in AtRest, stream[s] = "ok"
               PROVE  FALSE
    BY DEF ToldIsClosed
  <2>1. PICK p \in Strands : Closes(p, s)
    BY DEF IInv, Closing
  <2> QED
    BY <2>1 DEF Closes, Where, AtRest
<1> QED
  BY Invariance, <1>1, PTL

-----------------------------------------------------------------------------
\* Who waits for a mutex, and who could go on with the handler it is in.
ForRoom == {"callLock", "failLock", "closedLock"}
ForTable == {"bcLock", "join", "leave"}

CanGoOn(p) ==
    /\ pc[p] \notin AtRest
    /\ pc[p] \in ForRoom => mutexRoom = NoOne
    /\ pc[p] \in ForTable => mutexWS = NoOne

NoDeadlock == (\A p \in Strands : pc[p] \in AtRest) \/ \E p \in Strands : CanGoOn(p)

\* While handlers run, one of them can go on, for any number of threads: mutexRoom_
\* is always taken before mutexWS_, and whoever has mutexWS_ waits for nothing.
THEOREM NeverDeadlocked == Spec => []NoDeadlock
<1>1. IInv => NoDeadlock
  <2> SUFFICES ASSUME IInv, NEW p \in Strands, pc[p] \notin AtRest
               PROVE  \E q \in Strands : CanGoOn(q)
    BY DEF NoDeadlock
  <2> USE DEF CanGoOn, ForRoom, ForTable, AtRest
  <2>1. mutexWS # NoOne => \E q \in Strands : CanGoOn(q)
    BY DEF IInv, TypeOK, Locks
  <2>2. ASSUME mutexWS = NoOne, mutexRoom # NoOne
        PROVE  \E q \in Strands : CanGoOn(q)
    <3>1. PICK q \in Strands : Where(q) \in InRoom
      BY <2>2 DEF IInv, TypeOK, Locks
    <3>2. pc[q] \notin AtRest /\ pc[q] \notin ForRoom
      BY <3>1 DEF Where, InRoom
    <3> QED
      BY <2>2, <3>2
  <2>3. ASSUME mutexWS = NoOne, mutexRoom = NoOne
        PROVE  \E q \in Strands : CanGoOn(q)
    BY <2>3
  <2> QED
    BY <2>1, <2>2, <2>3
<1> QED
  BY Invariance, <1>1, PTL

-----------------------------------------------------------------------------
\* How far it is from a place to the end of the handler; a broadcast or a leaving
\* comes on top of the place where it returns to.
Ahead ==
    [callLock |-> 21, plugin |-> 18, closeAll |-> 15, closing |-> 12, finish |-> 9,
     publish |-> 6, unlock |-> 3, join |-> 3, failLock |-> 6, unlockGone |-> 3,
     closedLock |-> 3, accepting |-> 0, reading |-> 0, closed |-> 0, gone |-> 0, idle |-> 0]

Distance(p) ==
    CASE pc[p] = "bcLock" -> Ahead[ret[p]] + 2
      [] pc[p] \in {"bcSend", "leave"} -> Ahead[ret[p]] + 1
      [] OTHER -> Ahead[pc[p]]

\* A handler gets nearer to its end, or has one session less to visit on the way.
Nearer(p) ==
    \/ Distance(p)' < Distance(p)
    \/ Distance(p)' = Distance(p) /\ todo'[p] \subseteq todo[p] /\ todo'[p] # todo[p]

HandlersAdvance ==
    [][\A p \in Strands : pc[p] \notin AtRest =>
          Nearer(p) \/ UNCHANGED <<pc[p], ret[p], todo[p]>>]_vars

\* A loop is visited only by its own strand.
LEMMA OwnTodo ==
    ASSUME TypeOK, NEW p \in Strands, PStep(p), NEW q \in Strands, q # p
    PROVE  todo'[q] = todo[q]
<1>1. CASE Calling(p)
  BY <1>1 DEF Calling, CallLock, PluginThrows, PluginReturns, CloseAll, CloseOne, ClosedAll,
              ShutdownThrows, Finish, Publish, Unlock, TypeOK, frame
<1>2. CASE Join(p) \/ Broadcasting(p) \/ Ending(p)
  BY <1>2 DEF Join, Broadcasting, BcLock, BcSend, BcUnlock, Ending, ClosedLock, FailLock, Leave,
              UnlockGone, TypeOK, frame
<1>3. CASE SessionEvent(p) \/ OnRequest(p)
  BY <1>3 DEF SessionEvent, OnAccept, OnAcceptFail, OnMessage, OnReadClosed, OnReadFail,
              OnWriteFail, OnRequest, frame
<1> QED
  BY <1>1, <1>2, <1>3 DEF PStep, Running

\* Every step of a handler brings it nearer to its end.
LEMMA StepNearer ==
    ASSUME TypeOK, PlacesOK, NEW p \in Strands, PStep(p), pc[p] \notin AtRest
    PROVE  Nearer(p)
<1> USE DEF At, AtRest, Nearer, Distance, Ahead
<1>1. CASE CallLock(p)
  BY <1>1, CallLockSends DEF CallLock, Sends, Proceeds
<1>2. CASE PluginReturns(p)
  <2>1. pc[p] = "plugin"
    BY <1>2 DEF PluginReturns
  <2>2. \/ pc'[p] = "bcLock" /\ ret'[p] \in {"closeAll", "finish"}
        \/ pc'[p] = "finish"
    BY <1>2, PluginReturnsSends DEF Sends, Proceeds
  <2> QED
    BY <2>1, <2>2
<1>3. CASE Finish(p)
  BY <1>3, FinishSends DEF Finish, Sends, Proceeds
<1>4. CASE Publish(p)
  BY <1>4, PublishSends DEF Publish, Sends, Proceeds
<1>5. CASE Join(p)
  <2>1. pc[p] = "join" /\ p \in Sessions
    BY <1>5, OnlySessions DEF Join
  <2>2. pc'[p] = "bcLock" /\ ret'[p] = "reading"
    BY <1>5, <2>1, JoinSends
  <2> QED
    BY <2>1, <2>2
<1>6. CASE BcLock(p)
  BY <1>6 DEF BcLock, Goto, TypeOK, PlacesOK, Place, Sending
<1>7. CASE BcSend(p)
  <2>1. PICK s \in todo[p] : todo' = [todo EXCEPT ![p] = @ \ {s}]
    BY <1>7 DEF BcSend
  <2> QED
    BY <1>7, <2>1 DEF BcSend, TypeOK
<1>8. CASE BcUnlock(p)
  BY <1>8 DEF BcUnlock, Return, Goto, TypeOK, PlacesOK, Place, Sending
<1>9. CASE PluginThrows(p) \/ CloseAll(p) \/ ClosedAll(p) \/ ShutdownThrows(p) \/ Unlock(p)
  <2>1. \/ pc[p] = "plugin" /\ pc'[p] = "unlock"
        \/ pc[p] = "closeAll" /\ pc'[p] = "closing"
        \/ pc[p] = "closing" /\ pc'[p] \in {"finish", "unlock"}
        \/ pc[p] = "unlock" /\ pc'[p] \in {"idle", "reading"}
    BY <1>9 DEF PluginThrows, CloseAll, ClosedAll, ShutdownThrows, Unlock, Goto, TypeOK
  <2> QED
    BY <2>1
<1>10. CASE CloseOne(p)
  <2>1. PICK s \in todo[p] : todo' = [todo EXCEPT ![p] = @ \ {s}]
    BY <1>10 DEF CloseOne
  <2> QED
    BY <1>10, <2>1 DEF CloseOne, TypeOK
<1>11. CASE ClosedLock(p) \/ FailLock(p) \/ UnlockGone(p)
  BY <1>11 DEF ClosedLock, FailLock, UnlockGone, Goto, TypeOK
<1>12. CASE Leave(p)
  BY <1>12 DEF Leave, Return, Goto, TypeOK, PlacesOK, Place
<1>13. CASE SessionEvent(p) \/ OnRequest(p)
  BY <1>13 DEF SessionEvent, OnAccept, OnAcceptFail, OnMessage, OnReadClosed, OnReadFail,
               OnWriteFail, OnRequest, Starts
<1> QED
  BY <1>1, <1>2, <1>3, <1>4, <1>5, <1>6, <1>7, <1>8, <1>9, <1>10, <1>11, <1>12, <1>13
     DEF PStep, Running, Broadcasting, Calling, Ending

\* A handler has no way back and no endless loop: each of its own steps brings it
\* nearer to its end, and no step of another strand takes it away from there.  A
\* distance is a natural number and a loop has finitely many sessions to visit; so,
\* with NeverDeadlocked, every handler returns if only the threads keep running and
\* no data race stops the program.
THEOREM HandlersDoAdvance == Spec => HandlersAdvance
<1>1. IInv /\ [Next]_vars =>
         [\A p \in Strands : pc[p] \notin AtRest =>
             Nearer(p) \/ UNCHANGED <<pc[p], ret[p], todo[p]>>]_vars
  <2> SUFFICES ASSUME IInv, Next, NEW p \in Strands, pc[p] \notin AtRest
               PROVE  Nearer(p) \/ UNCHANGED <<pc[p], ret[p], todo[p]>>
    OBVIOUS
  <2>1. PICK q \in Strands : PStep(q)
    BY DEF Next, PStep, Strands
  <2>2. CASE q = p
    BY <2>1, <2>2, StepNearer DEF IInv
  <2>3. CASE q # p
    <3>1. pc'[p] = pc[p] /\ ret'[p] = ret[p]
      BY <2>1, <2>3, StepOthers DEF IInv, Others
    <3>2. todo'[p] = todo[p]
      BY <2>1, <2>3, OwnTodo DEF IInv
    <3> QED
      BY <3>1, <3>2
  <2> QED
    BY <2>2, <2>3
<1> QED
  BY Invariance, <1>1, PTL DEF Spec, HandlersAdvance

================================================================================

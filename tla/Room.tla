--------------------------------- MODULE Room ---------------------------------
(***************************************************************************)
(* One room: its two mutexes, its table of websocket sessions and the      *)
(* handlers that use them, each on the strand of its session or of its     *)
(* HTTP connection.  A session is accepted, joins, calls APIs and leaves;  *)
(* an HTTP client calls APIs.  A call runs a plugin under mutexRoom_,      *)
(* applies the plugin's patch to the room's configuration and broadcasts;  *)
(* every broadcast sends to the sessions one by one under mutexWS_.  The   *)
(* queue of a session (WebsocketSession) is its inbox here: the messages   *)
(* handed to send(), in order.                                             *)
(* A definition Name_How is Name with a fault in it; it is no part of the   *)
(* specification and only tests the properties.                            *)
(***************************************************************************)
EXTENDS Naturals, Sequences, FiniteSets

CONSTANTS
    Sessions,   \* websocket sessions, each with its own strand
    Clients,    \* HTTP connections that call APIs, each with its own strand
    NoOne,      \* the owner of a free mutex, and the source "" of a message
    Threads,    \* threads that run the io_context (main.cpp)
    Outcomes,   \* what plugins return: records of the set Outcome below
    MaxCalls    \* bound: API calls

ASSUME StrandsAssumption ==
    /\ Sessions \cap Clients = {}
    /\ NoOne \notin Sessions \cup Clients
    /\ IsFiniteSet(Sessions) /\ IsFiniteSet(Clients)
ASSUME ThreadsAssumption == Threads \in Nat \ {0}
ASSUME MaxCallsAssumption == MaxCalls \in Nat

Strands == Sessions \cup Clients

VARIABLES
    pc,         \* where the handler on each strand is, or what the strand awaits
    ret,        \* where a handler goes on after its broadcastWS or leaveWS
    msg,        \* the message a handler broadcasts
    todo,       \* the sessions its loop over the table has still to visit
    result,     \* what the plugin of a handler's call returned
    mutexRoom,  \* owner of mutexRoom_
    mutexWS,    \* owner of mutexWS_
    table,      \* the sessions in websocketSessions_
    active,     \* config.active
    calls,      \* API calls begun so far; call n is the n-th under mutexRoom_
    stream,     \* each session's stream: "ok", "closing", "ended" or "failed"
    inbox,      \* the messages handed to each session's send()
    log,        \* history: the broadcasts, in the order they took mutexWS_
    joinedAt,   \* history: how many broadcasts there were when a session joined
    threw,      \* history: the latest HTTP call ended in its catch block
    raced       \* the table changed under a loop that holds no lock

frame == <<ret, msg, todo, result>>
room == <<mutexRoom, mutexWS, table, active, calls>>
history == <<log, joinedAt, threw, raced>>
vars == <<pc, frame, room, stream, inbox, history>>

\* Between handlers: the strand waits for an event, or is done.
AtRest == {"accepting", "reading", "closed", "gone", "idle"}
InHandler == {"join", "leave", "failLock", "closedLock", "callLock", "plugin",
              "closeAll", "finish", "publish", "unlock", "unlockGone",
              "bcLock", "bcSend"}
Kinds == {"init", "busy", "idle", "result", "reload", "shutdown"}
Patches == {"none", "data", "reload", "shutdown", "activate"}
MessageOf(numbers) == [kind : Kinds, call : numbers, source : Strands \cup {NoOne},
                       others : BOOLEAN, back : BOOLEAN]
Message == MessageOf(Nat)

\* A patch of the room's configuration, and whether there is a broadcast for the
\* other sessions and a response for the caller.
Outcome == [patch : Patches, others : BOOLEAN, back : BOOLEAN]
ASSUME OutcomesAssumption == Outcomes \subseteq Outcome

-----------------------------------------------------------------------------
At(p, place) == ~raced /\ pc[p] = place
Goto(p, place) == pc' = [pc EXCEPT ![p] = place]

\* A free thread takes up the event a strand was waiting for.
CanStart == Cardinality({p \in Strands : pc[p] \notin AtRest}) < Threads
Starts(p, place) == At(p, place) /\ CanStart

NoMessage == [kind |-> "init", call |-> 0, source |-> NoOne,
              others |-> FALSE, back |-> FALSE]
NoOutcome == [patch |-> "none", others |-> FALSE, back |-> FALSE]

\* broadcastWS or leaveWS returns to its caller.
Return(p) == Goto(p, ret[p]) /\ ret' = [ret EXCEPT ![p] = "gone"]

\* A handler calls broadcastWS and goes on at "next" when it returns.
Broadcast(p, m, next) ==
    /\ Goto(p, "bcLock")
    /\ msg' = [msg EXCEPT ![p] = m]
    /\ ret' = [ret EXCEPT ![p] = next]
ToAll(kind) == [kind |-> kind, call |-> calls', source |-> NoOne,
                others |-> TRUE, back |-> FALSE]

\* broadcastWS: the response goes to the source, the broadcast to the others.
Addressed(m, s) == IF s = m.source THEN m.back ELSE m.others

\* websocketSessions_ is inserted into or erased from: a data race if another
\* handler is in the middle of iterating over it without the lock.  What happens
\* then is undefined, and the model stops.
TableChanges(to) ==
    /\ table' = to
    /\ raced' = (/\ to # table
                 /\ \E p \in Strands : pc[p] = "closing" /\ todo[p] # {})

Init ==
    /\ pc = [p \in Strands |-> IF p \in Sessions THEN "accepting" ELSE "idle"]
    /\ ret = [p \in Strands |-> "gone"]
    /\ msg = [p \in Strands |-> NoMessage]
    /\ todo = [p \in Strands |-> {}]
    /\ result = [p \in Strands |-> NoOutcome]
    /\ mutexRoom = NoOne
    /\ mutexWS = NoOne
    /\ table = {}
    /\ active = TRUE
    /\ calls = 0
    /\ stream = [s \in Sessions |-> "ok"]
    /\ inbox = [s \in Sessions |-> <<>>]
    /\ log = <<>>
    /\ joinedAt = [s \in Sessions |-> 0]
    /\ threw = FALSE
    /\ raced = FALSE

-----------------------------------------------------------------------------
(* Room::broadcastWS *)

BcLock_NoLock(p) ==
    /\ At(p, "bcLock")
    /\ todo' = [todo EXCEPT ![p] = table]
    /\ log' = Append(log, msg[p])
    /\ Goto(p, "bcSend")
    /\ UNCHANGED <<ret, msg, result, room, stream, inbox, joinedAt, threw, raced>>
BcLock(p) ==
    /\ At(p, "bcLock")
    /\ mutexWS = NoOne
    /\ mutexWS' = p
    /\ todo' = [todo EXCEPT ![p] = table]
    /\ log' = Append(log, msg[p])
    /\ Goto(p, "bcSend")
    /\ UNCHANGED <<ret, msg, result, mutexRoom, table, active, calls, stream,
                   inbox, joinedAt, threw, raced>>

\* One turn of the loop; the order of an unordered_map is anyone's guess.
BcSend(p) ==
    /\ At(p, "bcSend")
    /\ \E s \in todo[p] :
         /\ todo' = [todo EXCEPT ![p] = @ \ {s}]
         /\ inbox' = IF Addressed(msg[p], s)
                     THEN [inbox EXCEPT ![s] = Append(@, msg[p])]
                     ELSE inbox
    /\ UNCHANGED <<pc, ret, msg, result, room, stream, history>>

BcUnlock_LeavesLoop(p) ==
    /\ At(p, "bcSend")
    /\ mutexWS' = NoOne
    /\ Return(p)
    /\ msg' = [msg EXCEPT ![p] = NoMessage]
    /\ UNCHANGED <<todo, result, mutexRoom, table, active, calls, stream, inbox,
                   history>>
BcUnlock(p) ==
    /\ At(p, "bcSend")
    /\ todo[p] = {}
    /\ mutexWS' = NoOne
    /\ Return(p)
    /\ msg' = [msg EXCEPT ![p] = NoMessage]
    /\ UNCHANGED <<todo, result, mutexRoom, table, active, calls, stream, inbox,
                   history>>

-----------------------------------------------------------------------------
(* WebsocketSession::onAccept *)

OnAccept(s) ==
    /\ Starts(s, "accepting")
    /\ Goto(s, "join")
    /\ UNCHANGED <<frame, room, stream, inbox, history>>

\* joinWS, then the session's UUID is sent to it alone, then doRead.
Join_ReadsAtOnce(s) ==
    /\ At(s, "join")
    /\ mutexWS = NoOne
    /\ TableChanges(table \cup {s})
    /\ joinedAt' = [joinedAt EXCEPT ![s] = Len(log)]
    /\ Goto(s, "reading")
    /\ UNCHANGED <<frame, mutexRoom, mutexWS, active, calls, stream, inbox,
                   log, threw>>
Join(s) ==
    /\ At(s, "join")
    /\ mutexWS = NoOne
    /\ TableChanges(table \cup {s})
    /\ joinedAt' = [joinedAt EXCEPT ![s] = Len(log)]
    /\ Broadcast(s, [kind |-> "init", call |-> 0, source |-> s,
                     others |-> FALSE, back |-> TRUE], "reading")
    /\ UNCHANGED <<todo, result, mutexRoom, mutexWS, active, calls, stream,
                   inbox, log, threw>>

\* The handshake failed: fail() leaves a room the session never joined.
OnAcceptFail(s) ==
    /\ Starts(s, "accepting")
    /\ Goto(s, "leave")
    /\ ret' = [ret EXCEPT ![s] = "gone"]
    /\ stream' = [stream EXCEPT ![s] = "failed"]
    /\ UNCHANGED <<msg, todo, result, room, inbox, history>>

-----------------------------------------------------------------------------
(* The end of a session: onRead and onWrite with an error. *)

\* onRead(closed) takes mutexRoom_ and returns.
OnReadClosed(s) ==
    /\ Starts(s, "reading")
    /\ stream' = [stream EXCEPT ![s] = IF @ = "failed" THEN @ ELSE "ended"]
    /\ Goto(s, "closedLock")
    /\ UNCHANGED <<frame, room, inbox, history>>

ClosedLock(s) ==
    /\ At(s, "closedLock")
    /\ mutexRoom = NoOne
    /\ Goto(s, "closed")
    /\ UNCHANGED <<frame, room, stream, inbox, history>>

\* onRead with another error takes mutexRoom_ and, inside, leaves.
OnReadFail(s) ==
    /\ Starts(s, "reading")
    /\ stream' = [stream EXCEPT ![s] = IF @ = "failed" THEN @ ELSE "ended"]
    /\ Goto(s, "failLock")
    /\ UNCHANGED <<frame, room, inbox, history>>

FailLock(s) ==
    /\ At(s, "failLock")
    /\ mutexRoom = NoOne
    /\ mutexRoom' = s
    /\ Goto(s, "leave")
    /\ ret' = [ret EXCEPT ![s] = "unlockGone"]
    /\ UNCHANGED <<msg, todo, result, mutexWS, table, active, calls, stream,
                   inbox, history>>

\* A write failed: onWrite leaves without mutexRoom_; a pending read stays.
OnWriteFail(s) ==
    /\ \E place \in {"reading", "closed"} :
         /\ Starts(s, place)
         /\ ret' = [ret EXCEPT ![s] = place]
    /\ inbox[s] # <<>>
    /\ stream[s] # "failed"
    /\ stream' = [stream EXCEPT ![s] = "failed"]
    /\ Goto(s, "leave")
    /\ UNCHANGED <<msg, todo, result, room, inbox, history>>

\* leaveWS
Leave(s) ==
    /\ At(s, "leave")
    /\ mutexWS = NoOne
    /\ TableChanges(table \ {s})
    /\ Return(s)
    /\ UNCHANGED <<msg, todo, result, mutexRoom, mutexWS, active, calls, stream, inbox, log,
                   joinedAt, threw>>

UnlockGone(s) ==
    /\ At(s, "unlockGone")
    /\ mutexRoom' = NoOne
    /\ Goto(s, "gone")
    /\ UNCHANGED <<frame, mutexWS, table, active, calls, stream, inbox, history>>

-----------------------------------------------------------------------------
(* An API call: WebsocketSession::onRead, handleRequest for HTTP. *)

\* Bound: calls begun and calls waiting to begin.
CallsLeft == calls + Cardinality({p \in Strands : pc[p] = "callLock"}) < MaxCalls

OnMessage(s) ==
    /\ Starts(s, "reading")
    /\ stream[s] = "ok"
    /\ CallsLeft
    /\ Goto(s, "callLock")
    /\ UNCHANGED <<frame, room, stream, inbox, history>>

OnRequest(c) ==
    /\ Starts(c, "idle")
    /\ CallsLeft
    /\ Goto(c, "callLock")
    /\ UNCHANGED <<frame, room, stream, inbox, history>>

\* The room is locked; an HTTP call first tells everyone the server is busy.
CallLock(p) ==
    /\ At(p, "callLock")
    /\ mutexRoom = NoOne
    /\ mutexRoom' = p
    /\ calls' = calls + 1
    /\ IF p \in Clients
       THEN Broadcast(p, ToAll("busy"), "plugin")
       ELSE Goto(p, "plugin") /\ UNCHANGED <<ret, msg>>
    /\ UNCHANGED <<todo, result, mutexWS, table, active, stream, inbox, history>>

\* pluginProcess throws (or the call is malformed): the catch block logs, or
\* answers with an error; nothing else is broadcast.  A patch may have been merged
\* before, "active" with it, without the shutdown that follows where nothing throws.
PluginThrows_KeepsLock(p) ==
    /\ At(p, "plugin")
    /\ Goto(p, IF p \in Clients THEN "idle" ELSE "reading")
    /\ threw' = (IF p \in Clients THEN TRUE ELSE threw)
    /\ active' \in BOOLEAN
    /\ UNCHANGED <<frame, mutexRoom, mutexWS, table, calls, stream, inbox, log, joinedAt,
                   raced>>
PluginThrows(p) ==
    /\ At(p, "plugin")
    /\ Goto(p, "unlock")
    /\ threw' = (IF p \in Clients THEN TRUE ELSE threw)
    /\ active' \in BOOLEAN
    /\ UNCHANGED <<frame, mutexRoom, mutexWS, table, calls, stream, inbox, log, joinedAt,
                   raced>>

\* pluginProcess returns; merge_patch and applyCurrentConfig follow.  An inactive
\* room shuts down every time a patch is applied to it; otherwise forceReload is
\* broadcast and cleared.
PluginReturns_NoClose(p) ==
    \E r \in Outcomes :
        /\ At(p, "plugin")
        /\ result' = [result EXCEPT ![p] = r]
        /\ threw' = (IF p \in Clients THEN FALSE ELSE threw)
        /\ active' = (r.patch = "activate" \/ (active /\ r.patch # "shutdown"))
        /\ UNCHANGED calls
        /\ IF r.patch # "none" /\ ~active'
           THEN Broadcast(p, ToAll("shutdown"), "finish")
           ELSE IF r.patch = "reload"
           THEN Broadcast(p, ToAll("reload"), "finish")
           ELSE Goto(p, "finish") /\ UNCHANGED <<ret, msg>>
        /\ UNCHANGED <<todo, mutexRoom, mutexWS, table, stream, inbox, log,
                       joinedAt, raced>>
PluginReturns(p) ==
    \E r \in Outcomes :
        /\ At(p, "plugin")
        /\ result' = [result EXCEPT ![p] = r]
        /\ threw' = (IF p \in Clients THEN FALSE ELSE threw)
        /\ active' = (r.patch = "activate" \/ (active /\ r.patch # "shutdown"))
        /\ UNCHANGED calls
        /\ IF r.patch # "none" /\ ~active'
           THEN Broadcast(p, ToAll("shutdown"), "closeAll")
           ELSE IF r.patch = "reload"
           THEN Broadcast(p, ToAll("reload"), "finish")
           ELSE Goto(p, "finish") /\ UNCHANGED <<ret, msg>>
        /\ UNCHANGED <<todo, mutexRoom, mutexWS, table, stream, inbox, log,
                       joinedAt, raced>>

\* Room::shutdown: close every session, iterating without mutexWS_, and remove
\* the room's directories.
CloseAll(p) ==
    /\ At(p, "closeAll")
    /\ todo' = [todo EXCEPT ![p] = table]
    /\ Goto(p, "closing")
    /\ UNCHANGED <<ret, msg, result, room, stream, inbox, history>>

CloseOne(p) ==
    /\ At(p, "closing")
    /\ \E s \in todo[p] :
         /\ todo' = [todo EXCEPT ![p] = @ \ {s}]
         /\ stream' = [stream EXCEPT ![s] = IF @ = "ok" THEN "closing" ELSE @]
    /\ UNCHANGED <<pc, ret, msg, result, room, inbox, history>>

ClosedAll(p) ==
    /\ At(p, "closing")
    /\ todo[p] = {}
    /\ Goto(p, "finish")
    /\ UNCHANGED <<frame, room, stream, inbox, history>>

\* Removing the room's directories failed: the catch block of the call.
ShutdownThrows(p) ==
    /\ At(p, "closing")
    /\ todo[p] = {}
    /\ Goto(p, "unlock")
    /\ threw' = (IF p \in Clients THEN TRUE ELSE threw)
    /\ UNCHANGED <<frame, room, stream, inbox, log, joinedAt, raced>>

\* A session's call goes to the others and back to it; after an HTTP call the
\* server is no longer busy, and that is broadcast first.
Finish_UnlocksFirst(p) ==
    /\ At(p, "finish")
    /\ UNCHANGED calls
    /\ mutexRoom' = NoOne
    /\ IF p \in Clients
       THEN Broadcast(p, ToAll("idle"), "publish")
       ELSE IF result[p].others \/ result[p].back
       THEN Broadcast(p, [kind |-> "result", call |-> calls, source |-> p,
                          others |-> result[p].others, back |-> result[p].back],
                      "reading")
       ELSE Goto(p, "reading") /\ UNCHANGED <<ret, msg>>
    /\ UNCHANGED <<todo, result, mutexWS, table, active, stream, inbox, history>>
Finish_StaysBusy(p) ==
    /\ At(p, "finish")
    /\ UNCHANGED calls
    /\ IF p \in Clients
       THEN Goto(p, "publish") /\ UNCHANGED <<ret, msg>>
       ELSE IF result[p].others \/ result[p].back
       THEN Broadcast(p, [kind |-> "result", call |-> calls, source |-> p,
                          others |-> result[p].others, back |-> result[p].back],
                      "unlock")
       ELSE Goto(p, "unlock") /\ UNCHANGED <<ret, msg>>
    /\ UNCHANGED <<todo, result, mutexRoom, mutexWS, table, active, stream,
                   inbox, history>>
Finish(p) ==
    /\ At(p, "finish")
    /\ UNCHANGED calls
    /\ IF p \in Clients
       THEN Broadcast(p, ToAll("idle"), "publish")
       ELSE IF result[p].others \/ result[p].back
       THEN Broadcast(p, [kind |-> "result", call |-> calls, source |-> p,
                          others |-> result[p].others, back |-> result[p].back],
                      "unlock")
       ELSE Goto(p, "unlock") /\ UNCHANGED <<ret, msg>>
    /\ UNCHANGED <<todo, result, mutexRoom, mutexWS, table, active, stream,
                   inbox, history>>

\* The broadcast of an HTTP call, from the source "".
Publish(c) ==
    /\ At(c, "publish")
    /\ UNCHANGED calls
    /\ IF result[c].others
       THEN Broadcast(c, ToAll("result"), "unlock")
       ELSE Goto(c, "unlock") /\ UNCHANGED <<ret, msg>>
    /\ UNCHANGED <<todo, result, mutexRoom, mutexWS, table, active, stream,
                   inbox, history>>

\* The lock_guard ends; a session reads its next message.
Unlock_AllIdle(p) ==
    /\ At(p, "unlock")
    /\ mutexRoom' = NoOne
    /\ result' = [result EXCEPT ![p] = NoOutcome]
    /\ Goto(p, "idle")
    /\ UNCHANGED <<ret, msg, todo, mutexWS, table, active, calls, stream, inbox, history>>
Unlock(p) ==
    /\ At(p, "unlock")
    /\ mutexRoom' = NoOne
    /\ result' = [result EXCEPT ![p] = NoOutcome]
    /\ Goto(p, IF p \in Clients THEN "idle" ELSE "reading")
    /\ UNCHANGED <<ret, msg, todo, mutexWS, table, active, calls, stream, inbox, history>>

-----------------------------------------------------------------------------
\* The steps of a handler once it runs.
Broadcasting(p) == BcLock(p) \/ BcSend(p) \/ BcUnlock(p)
Calling(p) ==
    \/ CallLock(p) \/ PluginThrows(p) \/ PluginReturns(p)
    \/ CloseAll(p) \/ CloseOne(p) \/ ClosedAll(p) \/ ShutdownThrows(p)
    \/ Finish(p) \/ Publish(p) \/ Unlock(p)
Ending(s) == ClosedLock(s) \/ FailLock(s) \/ Leave(s) \/ UnlockGone(s)
Running(p) == Broadcasting(p) \/ Calling(p) \/ Join(p) \/ Ending(p)

\* The events that start a handler.
SessionEvent(s) ==
    \/ OnAccept(s) \/ OnAcceptFail(s) \/ OnMessage(s)
    \/ OnReadClosed(s) \/ OnReadFail(s) \/ OnWriteFail(s)

Next ==
    \/ \E p \in Strands : Running(p)
    \/ \E s \in Sessions : SessionEvent(s)
    \/ \E c \in Clients : OnRequest(c)

Spec == Init /\ [][Next]_vars

\* A handler that runs keeps running: a thread is its own until it returns.  No
\* event need ever happen.
FairSpec == Spec /\ \A p \in Strands : WF_vars(Running(p))

-----------------------------------------------------------------------------
Places == AtRest \cup InHandler \cup {"closing"}
Returns == {"reading", "closed", "gone", "plugin", "closeAll", "finish", "publish",
            "unlock", "unlockGone"}

TypeOK ==
    /\ pc \in [Strands -> Places]
    /\ \A s \in Sessions : pc[s] # "idle"
    /\ ret \in [Strands -> Returns]
    /\ msg \in [Strands -> Message]
    /\ todo \in [Strands -> SUBSET Sessions]
    /\ result \in [Strands -> Outcome]
    /\ mutexRoom \in Strands \cup {NoOne}
    /\ mutexWS \in Strands \cup {NoOne}
    /\ table \subseteq Sessions
    /\ active \in BOOLEAN
    /\ calls \in Nat
    /\ stream \in [Sessions -> {"ok", "closing", "ended", "failed"}]
    /\ inbox \in [Sessions -> Seq(Message)]
    /\ log \in Seq(Message)
    /\ joinedAt \in [Sessions -> Nat]
    /\ threw \in BOOLEAN
    /\ raced \in BOOLEAN

\* The messages of a kind that a session was handed, by their places.
Heard(s, kind) == {i \in DOMAIN inbox[s] : inbox[s][i].kind = kind}

\* What a session will have been handed when the broadcast under way is over.
WillHear(s) ==
    IF mutexWS # NoOne /\ s \in todo[mutexWS] /\ Addressed(msg[mutexWS], s)
    THEN Append(inbox[s], msg[mutexWS])
    ELSE inbox[s]

Told == INSTANCE AtomicBroadcast
            WITH Messages <- MessageOf(0..MaxCalls), present <- table,
                 heard <- [s \in Sessions |-> WillHear(s)]

\* However handlers interleave, a broadcast is one step for the sessions, taken
\* when broadcastWS locks mutexWS_: who is in the table then hears it, next after
\* what was broadcast before, also if the session leaves in the meantime.
ImplementsAtomicBroadcast == Told!Spec

\* The broadcasts addressed to a session since it joined, by their places in log.
Since(s) == {i \in joinedAt[s] + 1 .. Len(log) : Addressed(log[i], s)}

\* Whenever no broadcast is under way, every session in the room was handed exactly
\* the broadcasts addressed to it since it joined, in the one order in which they
\* were made: the n-th of them is the n-th in its inbox.
BroadcastIsAtomic ==
    (\A p \in Strands : pc[p] # "bcSend") =>
        \A s \in table :
            /\ Len(inbox[s]) = Cardinality(Since(s))
            /\ \A i \in Since(s) :
                 inbox[s][Cardinality({j \in Since(s) : j <= i})] = log[i]

\* Clients hear of API calls in the order the calls were applied to the room's
\* configuration, one call's messages never between another's.
CallsInOrder ==
    \A s \in Sessions : \A i, j \in DOMAIN inbox[s] \ Heard(s, "init") :
        i < j => inbox[s][i].call <= inbox[s][j].call

\* When no HTTP call is being served, whoever heard that the server is busy has
\* heard since that it is not, unless the latest HTTP call threw.
BusyUnlessThrew ==
    mutexRoom \notin Clients /\ ~threw =>
        \A s \in table : \A i \in Heard(s, "busy") : \E j \in Heard(s, "idle") : i < j

\* Every handler that starts returns: the two mutexes are never held in a way
\* that leaves a handler waiting for ever.
HandlersReturn ==
    \A p \in Strands : (pc[p] \notin AtRest) ~> (pc[p] \in AtRest \/ raced)

\* A session whose client can call APIs was handed its own UUID, by which
\* broadcastWS tells it from the others, and no other session's.
KnowsItself ==
    \A s \in Sessions :
        /\ \A i \in Heard(s, "init") : inbox[s][i].source = s
        /\ pc[s] \in {"reading", "callLock", "plugin"} => \E i \in DOMAIN inbox[s] : Heard(s, "init") = {i}

\* A session that was told of the shutdown is closed by the time the handler
\* that told it returns.
ToldIsClosed ==
    \A s \in table :
        Heard(s, "shutdown") # {} /\ (\A p \in Strands : pc[p] \in AtRest) => stream[s] # "ok"

==============================================================================

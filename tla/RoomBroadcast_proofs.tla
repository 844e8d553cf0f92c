------------------------- MODULE RoomBroadcast_proofs -------------------------
(***************************************************************************)
(* A broadcast of a room is atomic, for any number of sessions, clients,   *)
(* threads and calls.  A step tells a message to everyone in the table, or *)
(* lets a session come or go, or changes nothing that a session was or     *)
(* will be handed (StepTells): the loop of broadcastWS only hands out what *)
(* was decided when it locked mutexWS_.  From that follow the refinement   *)
(* of AtomicBroadcast and BroadcastIsAtomic.                               *)
(***************************************************************************)
EXTENDS Room_proofs, FiniteSetTheorems

-----------------------------------------------------------------------------
\* The strands at the lock of a call, and what the bound of calls means for the
\* number of a message.
Waiting == {p \in Strands : pc[p] = "callLock"}

Numbered ==
    /\ calls + Cardinality(Waiting) <= MaxCalls
    /\ \A p \in Strands : Sending(p) /\ ret[p] = "reading" => msg[p].call = 0

\* There are finitely many strands at any place.
LEMMA WaitingIsFinite == IsFiniteSet(Waiting) /\ Cardinality(Waiting) \in Nat
<1>1. IsFiniteSet(Strands)
  BY StrandsAssumption, FS_Union DEF Strands
<1>2. Waiting \in SUBSET Strands
  BY DEF Waiting
<1> QED
  BY <1>1, <1>2, FS_Subset, FS_CardinalityType

\* A strand comes to the lock of a call within the bound, goes on with the call,
\* or is at neither end of such a step.
Waits(p) ==
    \/ pc[p] # "callLock" /\ pc'[p] = "callLock" /\ CallsLeft /\ calls' = calls
    \/ pc[p] = "callLock" /\ pc'[p] # "callLock" /\ calls' = calls + 1
    \/ pc[p] # "callLock" /\ pc'[p] # "callLock" /\ calls' = calls

\* Every step is one of the three.
LEMMA StepWaits ==
    ASSUME TypeOK, PlacesOK, NEW p \in Strands, PStep(p)
    PROVE  Waits(p)
<1> USE DEF At, Waits
<1>1. CASE CallLock(p)
  BY <1>1, CallLockSends DEF CallLock, Sends, Proceeds
<1>2. CASE PluginReturns(p) \/ Finish(p) \/ Publish(p)
  BY <1>2, PluginReturnsSends, FinishSends, PublishSends
     DEF PluginReturns, Finish, Publish, Sends, Proceeds
<1>3. CASE Join(p)
  BY <1>3, JoinSends, OnlySessions DEF Join
<1>4. CASE Broadcasting(p)
  BY <1>4 DEF Broadcasting, BcLock, BcSend, BcUnlock, Goto, Return, TypeOK, PlacesOK, Place,
              Sending, room
<1>5. CASE PluginThrows(p) \/ CloseAll(p) \/ CloseOne(p)
             \/ ClosedAll(p) \/ ShutdownThrows(p) \/ Unlock(p)
  BY <1>5 DEF PluginThrows, CloseAll, CloseOne, ClosedAll, ShutdownThrows, Unlock, Goto,
              TypeOK, frame, room
<1>6. CASE Ending(p)
  BY <1>6 DEF Ending, ClosedLock, FailLock, Leave, UnlockGone, Return, Goto, TypeOK, PlacesOK,
              Place, frame, room
<1>7. CASE SessionEvent(p)
  BY <1>7 DEF SessionEvent, OnAccept, OnAcceptFail, OnMessage, OnReadClosed, OnReadFail,
              OnWriteFail, Starts, Goto, TypeOK, frame, room
<1>8. CASE OnRequest(p)
  BY <1>8 DEF OnRequest, Starts, Goto, TypeOK, frame, room
<1> QED
  BY <1>1, <1>2, <1>3, <1>4, <1>5, <1>6, <1>7, <1>8 DEF PStep, Running, Calling

\* So the bound holds of the calls that began.
LEMMA WaitingKept ==
    ASSUME TypeOK, PlacesOK, calls + Cardinality(Waiting) <= MaxCalls,
           NEW p \in Strands, PStep(p)
    PROVE  calls' + Cardinality(Waiting') <= MaxCalls
<1>1. Waits(p) /\ \A q \in Strands \ {p} : pc'[q] = pc[q]
  BY StepWaits, StepOthers DEF Others
<1>2. IsFiniteSet(Waiting) /\ Cardinality(Waiting) \in Nat /\ calls \in Nat
  BY WaitingIsFinite DEF TypeOK
<1>3. CASE pc[p] # "callLock" /\ pc'[p] = "callLock" /\ CallsLeft /\ calls' = calls
  <2>1. Waiting' = Waiting \cup {p} /\ p \notin Waiting
    BY <1>1, <1>3 DEF Waiting
  <2>2. Cardinality(Waiting') = Cardinality(Waiting) + 1
    BY <1>2, <2>1, FS_AddElement
  <2>3. calls + Cardinality(Waiting) < MaxCalls
    BY <1>3 DEF CallsLeft, Waiting
  <2> QED
    BY <1>2, <1>3, <2>2, <2>3, MaxCallsAssumption
<1>4. CASE pc[p] = "callLock" /\ pc'[p] # "callLock" /\ calls' = calls + 1
  <2>1. Waiting' = Waiting \ {p} /\ p \in Waiting
    BY <1>1, <1>4 DEF Waiting
  <2>2. Cardinality(Waiting') = Cardinality(Waiting) - 1
    BY <1>2, <2>1, FS_RemoveElement
  <2> QED
    BY <1>2, <1>4, <2>2, MaxCallsAssumption
<1>5. CASE pc[p] # "callLock" /\ pc'[p] # "callLock" /\ calls' = calls
  <2>1. Waiting' = Waiting
    BY <1>1, <1>5 DEF Waiting
  <2> QED
    BY <1>5, <2>1
<1> QED
  BY <1>1, <1>3, <1>4, <1>5 DEF Waits

\* A greeting is of no call, and only a session that joins broadcasts one.
LEMMA NumberedKept ==
    ASSUME TypeOK, PlacesOK, Numbered, NEW p \in Strands, PStep(p)
    PROVE  Numbered'
<1>1. calls' + Cardinality(Waiting') <= MaxCalls
  BY WaitingKept DEF Numbered
<1>2. SUFFICES ASSUME (Sending(p) /\ ret[p] = "reading")' PROVE msg'[p].call = 0
  BY <1>1, StepOthers, OthersStay DEF Numbered
<1> USE DEF At, Sending
<1>3. CASE CallLock(p) \/ PluginReturns(p) \/ Finish(p) \/ Publish(p)
  BY <1>2, <1>3, CallLockSends, PluginReturnsSends, FinishSends, PublishSends
     DEF CallLock, PluginReturns, Finish, Publish, Sends, Proceeds
<1>4. CASE Join(p)
  BY <1>4 DEF Join, Broadcast, TypeOK
<1>5. CASE BcLock(p) \/ BcSend(p)
  BY <1>2, <1>5 DEF BcLock, BcSend, Goto, TypeOK, Numbered
<1>6. CASE BcUnlock(p)
  BY <1>2, <1>6 DEF BcUnlock, Return, Goto, TypeOK, PlacesOK, Place
<1>7. CASE PluginThrows(p) \/ CloseAll(p) \/ CloseOne(p)
             \/ ClosedAll(p) \/ ShutdownThrows(p) \/ Unlock(p)
  BY <1>2, <1>7 DEF PluginThrows, CloseAll, CloseOne, ClosedAll, ShutdownThrows, Unlock, Goto,
                    TypeOK
<1>8. CASE Ending(p)
  BY <1>2, <1>8 DEF Ending, ClosedLock, FailLock, Leave, UnlockGone, Return, Goto, TypeOK,
                    PlacesOK, Place
<1>9. CASE SessionEvent(p) \/ OnRequest(p)
  BY <1>2, <1>9 DEF SessionEvent, OnAccept, OnAcceptFail, OnMessage, OnReadClosed, OnReadFail,
                    OnWriteFail, OnRequest, Goto, TypeOK
<1> QED
  BY <1>3, <1>4, <1>5, <1>6, <1>7, <1>8, <1>9 DEF PStep, Running, Broadcasting, Calling

\* So what is broadcast is a message of a call within the bound, or of none.
LEMMA SaysWithinBound ==
    ASSUME TypeOK, Messages, Numbered, NEW p \in Strands, Sending(p)
    PROVE  msg[p] \in MessageOf(0..MaxCalls)
<1>1. msg[p] \in Message
  BY DEF TypeOK
<1>2. calls \in Nat /\ Cardinality(Waiting) \in Nat
  BY WaitingIsFinite DEF TypeOK
<1>3. msg[p].call \in 0..MaxCalls
  BY <1>2, MaxCallsAssumption DEF Numbered, Messages, Says
<1> QED
  BY <1>1, <1>3 DEF Message, MessageOf

-----------------------------------------------------------------------------
\* What a step may do to who is in the table and to what they will have heard.
SameHeard == \A s \in Sessions : WillHear(s)' = WillHear(s)

Comes(s) ==
    /\ s \in Sessions /\ s \notin table /\ WillHear(s) = <<>>
    /\ table' = table \cup {s}
    /\ joinedAt' = [joinedAt EXCEPT ![s] = Len(log)] /\ log' = log
    /\ SameHeard
Goes(s) ==
    /\ s \in Sessions
    /\ table' = table \ {s}
    /\ UNCHANGED <<log, joinedAt>>
    /\ SameHeard
Tells(m) ==
    /\ table' = table /\ joinedAt' = joinedAt
    /\ log' = Append(log, m)
    /\ \A s \in Sessions :
         WillHear(s)' = IF s \in table /\ Addressed(m, s)
                        THEN Append(WillHear(s), m) ELSE WillHear(s)
TellsNothing == UNCHANGED <<table, log, joinedAt>> /\ SameHeard

\* What is under way is decided by the loop of the owner of mutexWS_ and its message.
LEMMA SameWillHear ==
    ASSUME inbox' = inbox, mutexWS' = mutexWS,
           mutexWS # NoOne => todo'[mutexWS] = todo[mutexWS] /\ msg'[mutexWS] = msg[mutexWS]
    PROVE  SameHeard
<1>1. CASE mutexWS = NoOne
  BY <1>1 DEF SameHeard, WillHear
<1>2. CASE mutexWS # NoOne
  <2>1. todo'[mutexWS] = todo[mutexWS] /\ msg'[mutexWS] = msg[mutexWS]
    BY <1>2
  <2>2. \A s : Addressed(msg[mutexWS], s)' = Addressed(msg[mutexWS], s)
    BY <2>1 DEF Addressed
  <2> QED
    BY <1>2, <2>1, <2>2 DEF SameHeard, WillHear
<1> QED
  BY <1>1, <1>2

\* broadcastWS tells its message when it locks mutexWS_.
LEMMA LockTells ==
    ASSUME TypeOK, Locks, NEW p \in Strands, BcLock(p)
    PROVE  Tells(msg[p])
<1>1. /\ mutexWS = NoOne /\ mutexWS' = p /\ p # NoOne
      /\ todo'[p] = table /\ msg' = msg /\ inbox' = inbox
  BY StrandsAssumption DEF BcLock, TypeOK, Strands
<1>2. \A s \in Sessions : WillHear(s) = inbox[s]
  BY <1>1 DEF WillHear
<1>3. \A s \in Sessions : WillHear(s)' = IF s \in table /\ Addressed(msg[p], s)
                                         THEN Append(inbox[s], msg[p]) ELSE inbox[s]
  BY <1>1 DEF WillHear, Addressed
<1> QED
  BY <1>1, <1>2, <1>3 DEF BcLock, Tells

\* A turn of its loop hands out what was told.
LEMMA SendTellsNothing ==
    ASSUME TypeOK, Locks, NEW p \in Strands, BcSend(p)
    PROVE  TellsNothing
<1>1. mutexWS = p /\ p # NoOne /\ mutexWS' = p /\ msg' = msg /\ UNCHANGED <<table, log, joinedAt>>
  BY StrandsAssumption DEF BcSend, At, Locks, Strands, room, history
<1>2. PICK t \in todo[p] :
           /\ todo' = [todo EXCEPT ![p] = @ \ {t}]
           /\ inbox' = IF Addressed(msg[p], t)
                       THEN [inbox EXCEPT ![t] = Append(@, msg[p])]
                       ELSE inbox
  BY DEF BcSend
<1>3. todo'[p] = todo[p] \ {t} /\ t \in Sessions
  BY <1>2 DEF TypeOK
<1>4. ASSUME NEW s \in Sessions PROVE WillHear(s)' = WillHear(s)
  <2>1. WillHear(s) = IF s \in todo[p] /\ Addressed(msg[p], s) THEN Append(inbox[s], msg[p])
                      ELSE inbox[s]
    BY <1>1 DEF WillHear
  <2>2. WillHear(s)' = IF s \in todo'[p] /\ Addressed(msg[p], s) THEN Append(inbox'[s], msg[p])
                       ELSE inbox'[s]
    BY <1>1 DEF WillHear, Addressed
  <2>3. CASE s = t
    <3>1. inbox'[s] = IF Addressed(msg[p], s) THEN Append(inbox[s], msg[p]) ELSE inbox[s]
      BY <1>2, <2>3 DEF TypeOK
    <3> QED
      BY <1>3, <2>1, <2>2, <2>3, <3>1
  <2>4. CASE s # t
    <3>1. inbox'[s] = inbox[s] /\ (s \in todo'[p] <=> s \in todo[p])
      BY <1>2, <1>3, <2>4 DEF TypeOK
    <3> QED
      BY <2>1, <2>2, <3>1
  <2> QED
    BY <2>3, <2>4
<1> QED
  BY <1>1, <1>4 DEF TellsNothing, SameHeard

\* When it unlocks, all of it is handed out.
LEMMA UnlockTellsNothing ==
    ASSUME TypeOK, Locks, NEW p \in Strands, BcUnlock(p)
    PROVE  TellsNothing
<1>1. /\ mutexWS = p /\ mutexWS' = NoOne /\ todo[p] = {} /\ inbox' = inbox
      /\ UNCHANGED <<table, log, joinedAt>>
  BY DEF BcUnlock, At, Locks, history
<1>2. \A s \in Sessions : WillHear(s) = inbox[s] /\ WillHear(s)' = inbox[s]
  BY <1>1 DEF WillHear
<1> QED
  BY <1>1, <1>2 DEF TellsNothing, SameHeard

\* A session comes to the table having heard nothing.
LEMMA JoinComes ==
    ASSUME TypeOK, Locks, Unheard, NEW s \in Sessions, Join(s)
    PROVE  Comes(s)
<1>1. /\ mutexWS = NoOne /\ mutexWS' = mutexWS /\ inbox' = inbox
      /\ table' = table \cup {s} /\ log' = log
      /\ joinedAt' = [joinedAt EXCEPT ![s] = Len(log)]
  BY DEF Join, TableChanges
<1>2. s \notin table /\ inbox[s] = <<>>
  BY DEF Join, At, Unheard
<1>3. WillHear(s) = <<>>
  BY <1>1, <1>2 DEF WillHear
<1>4. SameHeard
  BY <1>1, SameWillHear
<1> QED
  BY <1>1, <1>2, <1>3, <1>4 DEF Comes

\* It goes while no broadcast is under way.
LEMMA LeaveGoes ==
    ASSUME NEW s \in Sessions, Leave(s)
    PROVE  Goes(s)
<1>1. /\ mutexWS = NoOne /\ mutexWS' = mutexWS /\ inbox' = inbox
      /\ table' = table \ {s} /\ UNCHANGED <<log, joinedAt>>
  BY DEF Leave, TableChanges
<1> QED
  BY <1>1, SameWillHear DEF Goes

\* A step of a strand that neither has nor takes mutexWS_ leaves a broadcast alone.
LEMMA RestTellsNothing ==
    ASSUME TypeOK, PlacesOK, Locks, NEW p \in Strands, PStep(p), pc[p] # "bcSend",
           UNCHANGED <<inbox, mutexWS, table, log, joinedAt>>,
           \A q \in Strands \ {p} : todo'[q] = todo[q]
    PROVE  TellsNothing
<1>1. mutexWS # NoOne => mutexWS \in Strands \ {p}
  BY DEF Locks, TypeOK
<1>2. \A q \in Strands \ {p} : msg'[q] = msg[q]
  BY StepOthers DEF Others
<1> QED
  BY <1>1, <1>2, SameWillHear DEF TellsNothing

\* Every step tells someone's message, or lets a session come or go, or does
\* nothing that the sessions could hear of.
LEMMA StepTells ==
    ASSUME TypeOK, PlacesOK, Locks, Unheard, NEW p \in Strands, PStep(p)
    PROVE  \/ pc[p] = "bcLock" /\ Tells(msg[p])
           \/ Comes(p) \/ Goes(p) \/ TellsNothing
<1>1. CASE BcLock(p)
  BY <1>1, LockTells DEF BcLock, At
<1>2. CASE BcSend(p) \/ BcUnlock(p)
  BY <1>2, SendTellsNothing, UnlockTellsNothing
<1>3. CASE Join(p)
  BY <1>3, JoinComes, OnlySessions
<1>4. CASE Leave(p)
  BY <1>4, LeaveGoes, OnlySessions DEF Ending
<1>5. CASE Calling(p)
  BY <1>5, RestTellsNothing
     DEF Calling, CallLock, PluginThrows, PluginReturns, CloseAll, CloseOne, ClosedAll,
         ShutdownThrows, Finish, Publish, Unlock, At, TypeOK, frame, room, history
<1>6. CASE ClosedLock(p) \/ FailLock(p) \/ UnlockGone(p)
  BY <1>6, RestTellsNothing DEF ClosedLock, FailLock, UnlockGone, At, frame, room, history
<1>7. CASE SessionEvent(p) \/ OnRequest(p)
  BY <1>7, RestTellsNothing
     DEF SessionEvent, OnAccept, OnAcceptFail, OnMessage, OnReadClosed, OnReadFail, OnWriteFail,
         OnRequest, Starts, At, frame, room, history
<1> QED
  BY <1>1, <1>2, <1>3, <1>4, <1>5, <1>6, <1>7 DEF PStep, Running, Broadcasting, Ending

-----------------------------------------------------------------------------
\* Initially nobody came and nothing was told.
LEMMA InitTold == Init => Told!Init
<1> SUFFICES ASSUME Init PROVE Told!Init
  OBVIOUS
<1>1. \A s \in Sessions : WillHear(s) = <<>>
  BY DEF Init, WillHear
<1> QED
  BY <1>1 DEF Init, Told!Init

\* Each of those steps is a step of AtomicBroadcast or none.
LEMMA StepTold ==
    ASSUME IInv, Numbered, NEW p \in Strands, PStep(p)
    PROVE  [Told!Next]_(Told!vars)
<1> DEFINE heard == [s \in Sessions |-> WillHear(s)]
<1>1. CASE pc[p] = "bcLock" /\ Tells(msg[p])
  <2>1. msg[p] \in MessageOf(0..MaxCalls)
    BY <1>1, SaysWithinBound DEF IInv, Sending
  <2>2. Told!Tell(msg[p])
    BY <1>1 DEF Tells, Told!Tell
  <2> QED
    BY <2>1, <2>2 DEF Told!Next
<1>2. CASE Comes(p)
  <2>1. heard' = heard /\ heard[p] = <<>>
    BY <1>2 DEF Comes, SameHeard
  <2> QED
    BY <1>2, <2>1 DEF Comes, Told!Come, Told!Next
<1>3. CASE Goes(p)
  <2>1. heard' = heard
    BY <1>3 DEF Goes, SameHeard
  <2> QED
    BY <1>3, <2>1 DEF Goes, Told!Go, Told!Next
<1>4. CASE TellsNothing
  <2>1. heard' = heard
    BY <1>4 DEF TellsNothing, SameHeard
  <2> QED
    BY <1>4, <2>1 DEF TellsNothing, Told!vars
<1> QED
  BY <1>1, <1>2, <1>3, <1>4, StepTells DEF IInv

\* Nothing happens, nothing is told.
LEMMA StutterTold == UNCHANGED vars => UNCHANGED Told!vars
<1> SUFFICES ASSUME UNCHANGED vars PROVE UNCHANGED Told!vars
  OBVIOUS
<1>1. \A s \in Sessions : WillHear(s)' = WillHear(s)
  BY SameWillHear DEF vars, frame, room, SameHeard
<1> QED
  BY <1>1 DEF vars, room, Told!vars

-----------------------------------------------------------------------------
\* Where a broadcast is among those that a session is owed.
Rank(s, i) == Cardinality({j \in Since(s) : j <= i})

\* s has heard or is just hearing exactly the broadcasts it is owed, in order.
HearsAll(s) ==
    /\ joinedAt[s] <= Len(log)
    /\ Len(WillHear(s)) = Cardinality(Since(s))
    /\ \A i \in Since(s) : WillHear(s)[Rank(s, i)] = log[i]

AllHear == \A s \in table : HearsAll(s)

\* What a session will have heard is a sequence of messages.
LEMMA WillHearIsSeq ==
    ASSUME TypeOK, NEW s \in Sessions
    PROVE  WillHear(s) \in Seq(Message) /\ Len(WillHear(s)) \in Nat
<1>1. inbox[s] \in Seq(Message)
  BY DEF TypeOK
<1>2. mutexWS # NoOne => msg[mutexWS] \in Message
  BY DEF TypeOK
<1> QED
  BY <1>1, <1>2 DEF WillHear

\* The broadcasts owed are finitely many, and each has a rank among them.
LEMMA SinceIsFinite ==
    ASSUME TypeOK, NEW s \in Sessions
    PROVE  /\ IsFiniteSet(Since(s)) /\ Cardinality(Since(s)) \in Nat
           /\ Since(s) \subseteq 1..Len(log) /\ Len(log) \in Nat
           /\ \A i \in Since(s) : Rank(s, i) \in 1..Cardinality(Since(s))
<1>1. Len(log) \in Nat /\ joinedAt[s] \in Nat
  BY DEF TypeOK
<1>2. Since(s) \subseteq 1..Len(log)
  BY <1>1 DEF Since
<1>3. IsFiniteSet(1..Len(log))
  BY <1>1, FS_Interval
<1>4. IsFiniteSet(Since(s)) /\ Cardinality(Since(s)) \in Nat
  BY <1>2, <1>3, FS_Subset, FS_CardinalityType
<1>5. ASSUME NEW i \in Since(s) PROVE Rank(s, i) \in 1..Cardinality(Since(s))
  <2> DEFINE T == {j \in Since(s) : j <= i}
  <2>1. T \in SUBSET Since(s)
    OBVIOUS
  <2>2. i \in T
    BY <1>1, <1>2
  <2> HIDE DEF T
  <2>3. IsFiniteSet(T) /\ Cardinality(T) <= Cardinality(Since(s))
    BY <1>4, <2>1, FS_Subset
  <2>4. Cardinality(T) \in Nat /\ Cardinality(T) # 0
    BY <2>2, <2>3, FS_CardinalityType, FS_EmptySet
  <2> QED
    BY <1>4, <2>3, <2>4 DEF Rank, T
<1> QED
  BY <1>1, <1>2, <1>4, <1>5

\* A broadcast that a session is owed becomes the last of those.
LEMMA HearsOneMore ==
    ASSUME TypeOK, NEW s \in Sessions, HearsAll(s), NEW m \in Message, Addressed(m, s),
           log' = Append(log, m), joinedAt' = joinedAt,
           WillHear(s)' = Append(WillHear(s), m)
    PROVE  HearsAll(s)'
<1>0. PICK n \in Nat : n = Len(log) + 1
  BY DEF TypeOK
<1>1. /\ IsFiniteSet(Since(s)) /\ Cardinality(Since(s)) \in Nat
      /\ Since(s) \subseteq 1..Len(log) /\ Len(log) \in Nat
      /\ \A i \in Since(s) : Rank(s, i) \in 1..Cardinality(Since(s))
  BY SinceIsFinite
<1>2. /\ Len(log') = n /\ log'[n] = m /\ \A i \in 1..Len(log) : log'[i] = log[i]
      /\ joinedAt[s] \in Nat /\ joinedAt[s] <= Len(log)
  BY <1>0 DEF TypeOK, HearsAll
<1>3. Since(s)' = Since(s) \cup {n} /\ n \notin Since(s)
  <2>1. \A i \in Since(s) : i \in Since(s)'
    BY <1>0, <1>1, <1>2 DEF Since, Addressed
  <2>2. n \in Since(s)'
    BY <1>0, <1>1, <1>2 DEF Since, Addressed
  <2>3. \A i \in Since(s)' : i \in Since(s) \/ i = n
    BY <1>0, <1>1, <1>2 DEF Since, Addressed
  <2>4. n \notin Since(s)
    BY <1>0, <1>1
  <2> QED
    BY <2>1, <2>2, <2>3, <2>4
<1>4. Cardinality(Since(s)') = Cardinality(Since(s)) + 1
  BY <1>1, <1>3, FS_AddElement
<1>5. /\ Len(WillHear(s)') = Len(WillHear(s)) + 1
      /\ WillHear(s)'[Len(WillHear(s)) + 1] = m
      /\ \A k \in 1..Len(WillHear(s)) : WillHear(s)'[k] = WillHear(s)[k]
  BY WillHearIsSeq
<1>6. ASSUME NEW i \in Since(s) PROVE WillHear(s)'[Rank(s, i)'] = log'[i]
  <2>1. {j \in Since(s)' : j <= i} = {j \in Since(s) : j <= i}
    BY <1>0, <1>1, <1>3
  <2>2. Rank(s, i)' = Rank(s, i)
    BY <2>1 DEF Rank
  <2> QED
    BY <1>1, <1>2, <1>5, <2>2 DEF HearsAll
<1>7. WillHear(s)'[Rank(s, n)'] = log'[n]
  <2>1. {j \in Since(s)' : j <= n} = Since(s)'
    BY <1>0, <1>1, <1>3
  <2>2. Rank(s, n)' = Len(WillHear(s)) + 1
    BY <1>4, <2>1 DEF Rank, HearsAll
  <2> QED
    BY <1>2, <1>5, <2>2
<1>8. /\ joinedAt'[s] <= Len(log')
      /\ Len(WillHear(s)') = Cardinality(Since(s)')
  BY <1>0, <1>1, <1>2, <1>4, <1>5 DEF HearsAll
<1>9. \A i \in Since(s)' : WillHear(s)'[Rank(s, i)'] = log'[i]
  BY <1>3, <1>6, <1>7
<1> QED
  BY <1>8, <1>9 DEF HearsAll

\* One that it is not owed changes nothing for it.
LEMMA HearsNoMore ==
    ASSUME TypeOK, NEW s \in Sessions, HearsAll(s), NEW m \in Message, ~Addressed(m, s),
           log' = Append(log, m), joinedAt' = joinedAt, WillHear(s)' = WillHear(s)
    PROVE  HearsAll(s)'
<1>1. Since(s) \subseteq 1..Len(log) /\ Len(log) \in Nat
  BY SinceIsFinite
<1>2. /\ Len(log') = Len(log) + 1 /\ log'[Len(log) + 1] = m
      /\ \A i \in 1..Len(log) : log'[i] = log[i]
      /\ joinedAt[s] \in Nat /\ joinedAt[s] <= Len(log)
  BY DEF TypeOK, HearsAll
<1>3. Since(s)' = Since(s)
  <2>1. \A i \in Since(s) : i \in Since(s)'
    BY <1>1, <1>2 DEF Since, Addressed
  <2>2. \A i \in Since(s)' : i \in Since(s)
    BY <1>1, <1>2 DEF Since, Addressed
  <2> QED
    BY <2>1, <2>2
<1>4. \A i \in Since(s) : Rank(s, i)' = Rank(s, i)
  BY <1>3 DEF Rank
<1> QED
  BY <1>1, <1>2, <1>3, <1>4 DEF HearsAll

\* A session that comes is owed nothing yet.
LEMMA HearsFromNowOn ==
    ASSUME TypeOK, NEW s \in Sessions, Comes(s)
    PROVE  HearsAll(s)'
<1>1. /\ WillHear(s)' = <<>> /\ log' = log /\ Len(log) \in Nat
      /\ joinedAt'[s] = Len(log)
  BY DEF Comes, SameHeard, TypeOK
<1>2. Since(s)' = {}
  BY <1>1 DEF Since
<1> QED
  BY <1>1, <1>2, FS_EmptySet DEF HearsAll

\* So every session in the table hears all it is owed.
LEMMA AllHearKept ==
    ASSUME IInv, AllHear, NEW p \in Strands, PStep(p)
    PROVE  AllHear'
<1>1. TypeOK /\ table \subseteq Sessions
  BY DEF IInv, TypeOK
<1>2. ASSUME NEW s \in table, WillHear(s)' = WillHear(s), log' = log, joinedAt'[s] = joinedAt[s]
      PROVE  HearsAll(s)'
  <2>1. HearsAll(s)
    BY DEF AllHear
  <2>2. Since(s)' = Since(s)
    BY <1>2 DEF Since, Addressed
  <2>3. \A i \in Since(s) : Rank(s, i)' = Rank(s, i)
    BY <2>2 DEF Rank
  <2> QED
    BY <1>2, <2>1, <2>2, <2>3 DEF HearsAll
<1>3. CASE Tells(msg[p])
  <2>1. msg[p] \in Message
    BY <1>1 DEF TypeOK
  <2> QED
    BY <1>1, <1>3, <2>1, HearsOneMore, HearsNoMore DEF Tells, AllHear
<1>4. CASE Comes(p)
  <2>1. p \in Sessions /\ table' = table \cup {p} /\ log' = log
        /\ joinedAt' = [joinedAt EXCEPT ![p] = Len(log)] /\ SameHeard
    BY <1>4 DEF Comes
  <2>2. \A s \in table : joinedAt'[s] = joinedAt[s]
    BY <1>1, <1>4, <2>1 DEF Comes, TypeOK
  <2>3. HearsAll(p)'
    BY <1>1, <1>4, <2>1, HearsFromNowOn
  <2> QED
    BY <1>1, <1>2, <2>1, <2>2, <2>3 DEF AllHear, SameHeard
<1>5. CASE Goes(p) \/ TellsNothing
  BY <1>1, <1>2, <1>5 DEF Goes, TellsNothing, AllHear, SameHeard
<1> QED
  BY <1>3, <1>4, <1>5, StepTells DEF IInv

-----------------------------------------------------------------------------
\* What holds of broadcasts, besides IInv.
BroadcastInv == Numbered /\ AllHear

\* Nothing was called and nobody is in the table.
LEMMA InitBroadcast == Init => BroadcastInv
<1> SUFFICES ASSUME Init PROVE BroadcastInv
  OBVIOUS
<1>1. Waiting = {}
  BY StrandsAssumption DEF Init, Waiting, Strands
<1> QED
  BY <1>1, FS_EmptySet, MaxCallsAssumption DEF Init, BroadcastInv, Numbered, AllHear, Sending, Strands

\* Every step keeps it so.
LEMMA StepBroadcast == IInv /\ BroadcastInv /\ [Next]_vars => BroadcastInv'
<1> SUFFICES ASSUME IInv, BroadcastInv, [Next]_vars PROVE BroadcastInv'
  OBVIOUS
<1>1. CASE Next
  <2>1. PICK p \in Strands : PStep(p)
    BY <1>1 DEF Next, PStep, Strands
  <2> QED
    BY <2>1, NumberedKept, AllHearKept DEF IInv, BroadcastInv
<1>2. CASE UNCHANGED vars
  <2>1. SameHeard
    BY <1>2, SameWillHear DEF vars, frame, room
  <2>2. Waiting' = Waiting /\ Numbered'
    BY <1>2 DEF vars, frame, room, Waiting, BroadcastInv, Numbered, Sending
  <2>3. \A s \in table : s \in Sessions
    BY DEF IInv, TypeOK
  <2>4. \A s \in Sessions : Since(s)' = Since(s)
    BY <1>2 DEF vars, history, Since, Addressed
  <2>5. \A s \in Sessions : \A i : Rank(s, i)' = Rank(s, i)
    BY <2>4 DEF Rank
  <2>6. AllHear'
    BY <1>2, <2>1, <2>3, <2>4, <2>5
       DEF vars, room, history, BroadcastInv, AllHear, HearsAll, SameHeard
  <2> QED
    BY <2>2, <2>6 DEF BroadcastInv
<1> QED
  BY <1>1, <1>2

\* broadcastWS is atomic however the handlers of any number of threads interleave:
\* every step is a step of AtomicBroadcast or a stutter.
THEOREM BroadcastsAsOne == Spec => ImplementsAtomicBroadcast
<1>1. IInv /\ BroadcastInv /\ [Next]_vars => [Told!Next]_(Told!vars)
  <2> SUFFICES ASSUME IInv, BroadcastInv, [Next]_vars PROVE [Told!Next]_(Told!vars)
    OBVIOUS
  <2>1. CASE Next
    <3>1. PICK p \in Strands : PStep(p)
      BY <2>1 DEF Next, PStep, Strands
    <3> QED
      BY <3>1, StepTold DEF BroadcastInv
  <2>2. CASE UNCHANGED vars
    BY <2>2, StutterTold
  <2> QED
    BY <2>1, <2>2
<1> QED
  BY Invariance, InitTold, InitBroadcast, StepBroadcast, <1>1, PTL
     DEF Spec, ImplementsAtomicBroadcast, Told!Spec

\* Between broadcasts, every session in the table was handed exactly what was
\* addressed to it since joinWS, in the order in which mutexWS_ was locked.
THEOREM EveryoneHearsAll == Spec => []BroadcastIsAtomic
<1>1. IInv /\ BroadcastInv => BroadcastIsAtomic
  <2> SUFFICES ASSUME IInv, BroadcastInv, \A p \in Strands : pc[p] # "bcSend", NEW s \in table
               PROVE  /\ Len(inbox[s]) = Cardinality(Since(s))
                      /\ \A i \in Since(s) : inbox[s][Rank(s, i)] = log[i]
    BY DEF BroadcastIsAtomic, Rank
  <2>1. mutexWS = NoOne
    BY DEF IInv, Locks, TypeOK
  <2>2. WillHear(s) = inbox[s]
    BY <2>1 DEF WillHear
  <2> QED
    BY <2>2 DEF BroadcastInv, AllHear, HearsAll
<1> QED
  BY Invariance, InitBroadcast, StepBroadcast, <1>1, PTL DEF Spec

==============================================================================

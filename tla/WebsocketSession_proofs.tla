------------------------ MODULE WebsocketSession_proofs ------------------------
(***************************************************************************)
(* The outgoing side of a websocket session is correct on one server       *)
(* thread, for every number of messages: it implements FifoDelivery.  (On  *)
(* two threads it does not: TLC finds two writes at a time.)  IInv says,   *)
(* for each place the one running handler can be at, what the queue and    *)
(* the outstanding write look like.  On any number of threads InOrder and  *)
(* Attended still hold: no message overtakes another, and none is left     *)
(* without someone who will write it or give it up.                        *)
(***************************************************************************)
EXTENDS WebsocketSession, TLAPS

\* One handler runs at a time: the call of send(), or the strand's handler.
OneHandler == sender = "idle" \/ strand = "idle"

\* An outstanding write is alone and is a write of the queue's head.
WriteHasMessage == writes # <<>> => Len(writes) = 1 /\ queue # <<>>

\* What send() knows of the queue between its steps.
SenderKnows ==
    /\ sender = "pushed" =>
         /\ queue # <<>>
         /\ Len(queue) = 1 => writes = <<>>
         /\ (Len(queue) > 1 /\ stream = "open") => writes # <<>>
    /\ sender = "write" => queue # <<>> /\ writes = <<>>

\* What onWrite() knows of it.
StrandKnows ==
    /\ strand = "erase" => writes = <<>> /\ queue # <<>> /\ seen = queue
    /\ strand = "test" => writes = <<>>
    /\ strand = "leave" => stream # "open"

IInv ==
    /\ TypeOK
    /\ OneHandler
    /\ ~aborted
    /\ WriteHasMessage
    /\ SenderKnows
    /\ StrandKnows
    /\ NoStall

\* With one thread a handler starts only when no other is running.
LEMMA StartsAlone ==
    ASSUME Threads = 1, CanStart
    PROVE  sender = "idle" /\ strand = "idle"
BY DEF CanStart, Running

\* Nothing is running exactly when both places are idle.
LEMMA NothingRuns == Running = 0 <=> sender = "idle" /\ strand = "idle"
BY DEF Running

\* A session that just joined satisfies the invariant.
LEMMA InitInv == Init => IInv
<1> SUFFICES ASSUME Init PROVE IInv
  OBVIOUS
<1>1. TypeOK
  <2>1. sent \in 0..MaxMessages
    BY MaxMessagesAssumption DEF Init
  <2>2. /\ queue \in Seq(Messages) /\ seen \in Seq(Messages)
        /\ writes \in Seq(Messages) /\ wire \in Seq(Messages)
    BY DEF Init
  <2>3. /\ sender \in {"idle", "pushed", "write"}
        /\ strand \in {"idle", "erase", "test", "leave"}
        /\ stream \in {"open", "closing", "closed"}
    BY DEF Init
  <2>4. /\ ownStrand \in BOOLEAN /\ inTable \in BOOLEAN
        /\ doomed \in BOOLEAN /\ aborted \in BOOLEAN
    BY DEF Init
  <2> QED
    BY <2>1, <2>2, <2>3, <2>4 DEF TypeOK
<1>2. OneHandler /\ ~aborted /\ WriteHasMessage /\ NoStall
  BY DEF Init, OneHandler, WriteHasMessage, NoStall
<1>3. SenderKnows /\ StrandKnows
  BY DEF Init, SenderKnows, StrandKnows
<1> QED
  BY <1>1, <1>2, <1>3 DEF IInv

\* Starting the head's write when none is outstanding leaves exactly that one.
LEMMA WriteStarts ==
    ASSUME queue \in Seq(Messages), queue # <<>>, writes = <<>>, ~aborted,
           DoWrite
    PROVE  /\ writes' \in Seq(Messages)
           /\ Len(writes') = 1
           /\ writes' # <<>>
           /\ aborted' = aborted
           /\ doomed' \in BOOLEAN
<1>1. writes' = Append(<<>>, Head(queue)) /\ aborted' = aborted
  BY DEF DoWrite
<1>2. Head(queue) \in Messages
  OBVIOUS
<1>3. doomed' = (doomed \/ stream = "closed")
  BY DEF DoWrite
<1>4. doomed' \in BOOLEAN
  BY <1>3
<1> QED
  BY <1>1, <1>2, <1>4

\* On one thread every step preserves the invariant.
LEMMA StepInv ==
    ASSUME Threads = 1
    PROVE  IInv /\ [Next]_vars => IInv'
<1> SUFFICES ASSUME IInv, [Next]_vars PROVE IInv'
  OBVIOUS
<1> USE MaxMessagesAssumption
<1>1. ASSUME NEW own \in BOOLEAN, SendPush(own) PROVE IInv'
  <2>1. sender = "idle" /\ strand = "idle"
    BY <1>1, StartsAlone DEF SendPush
  <2>2. /\ queue' = Append(queue, sent + 1)
        /\ sent + 1 \in Messages
        /\ queue' \in Seq(Messages)
        /\ Len(queue') = Len(queue) + 1
        /\ queue' # <<>>
    <3>1. /\ queue' = Append(queue, sent + 1)
          /\ queue \in Seq(Messages)
          /\ sent \in 0..MaxMessages
          /\ sent < MaxMessages
      BY <1>1 DEF SendPush, IInv, TypeOK
    <3>2. sent + 1 \in Messages
      BY <3>1 DEF Messages
    <3> QED
      BY <3>1, <3>2
  <2>3. TypeOK'
    <3>1. sent' \in 0..MaxMessages /\ sender' = "pushed" /\ ownStrand' \in BOOLEAN
      BY <1>1 DEF SendPush, IInv, TypeOK
    <3> QED
      BY <1>1, <2>2, <3>1 DEF SendPush, IInv, TypeOK
  <2>4. SenderKnows'
    <3>1. queue = <<>> => writes = <<>>
      BY DEF IInv, WriteHasMessage
    <3>2. (queue # <<>> /\ stream = "open") => writes # <<>>
      BY <2>1, NothingRuns DEF IInv, NoStall
    <3>3. Len(queue') = 1 => queue = <<>>
      BY <2>2 DEF IInv, TypeOK
    <3>4. Len(queue') > 1 => queue # <<>>
      BY <2>2
    <3> QED
      BY <1>1, <2>2, <3>1, <3>2, <3>3, <3>4 DEF SendPush, SenderKnows
  <2>5. NoStall'
    BY <1>1 DEF SendPush, NoStall, Running
  <2> QED
    BY <1>1, <2>1, <2>2, <2>3, <2>4, <2>5
       DEF SendPush, IInv, OneHandler, WriteHasMessage, StrandKnows
<1>2. ASSUME SendTest PROVE IInv'
  <2>1. strand = "idle" /\ sender = "pushed"
    BY <1>2 DEF SendTest, IInv, OneHandler
  <2>2. TypeOK'
    <3>1. sender' \in {"idle", "pushed", "write"}
      BY <1>2 DEF SendTest
    <3> QED
      BY <1>2, <3>1 DEF SendTest, IInv, TypeOK
  <2>3. queue \in Seq(Messages) /\ queue # <<>>
    BY <2>1 DEF IInv, TypeOK, SenderKnows
  <2>4. SenderKnows'
    <3>1. Len(queue) > 1 \/ Len(queue) = 1
      BY <2>3
    <3>2. CASE Len(queue) > 1
      BY <1>2, <3>2 DEF SendTest, SenderKnows
    <3>3. CASE Len(queue) = 1
      <4>1. sender' = "write" /\ queue' = queue /\ writes' = writes
        BY <1>2, <3>3 DEF SendTest
      <4>2. writes = <<>>
        BY <2>1, <3>3 DEF IInv, SenderKnows
      <4> QED
        BY <2>3, <4>1, <4>2 DEF SenderKnows
    <3> QED
      BY <3>1, <3>2, <3>3
  <2>5. NoStall'
    BY <1>2, <2>1, <2>3 DEF SendTest, IInv, SenderKnows, NoStall, Running
  <2> QED
    BY <1>2, <2>1, <2>2, <2>4, <2>5
       DEF SendTest, IInv, OneHandler, WriteHasMessage, StrandKnows
<1>3. ASSUME SendWrite PROVE IInv'
  <2>1. strand = "idle" /\ sender = "write" /\ queue # <<>> /\ writes = <<>>
    BY <1>3 DEF SendWrite, IInv, OneHandler, SenderKnows
  <2>2. /\ writes' \in Seq(Messages)
        /\ Len(writes') = 1
        /\ writes' # <<>>
        /\ aborted' = aborted
        /\ doomed' \in BOOLEAN
    BY <1>3, <2>1, WriteStarts DEF SendWrite, IInv, TypeOK
  <2> QED
    BY <1>3, <2>1, <2>2
       DEF SendWrite, IInv, TypeOK, OneHandler, WriteHasMessage, SenderKnows,
           StrandKnows, NoStall
<1>4. ASSUME OnWrite PROVE IInv'
  <2>1. sender = "idle" /\ strand = "idle"
    BY <1>4, StartsAlone DEF OnWrite
  <2>2. /\ writes \in Seq(Messages) /\ Len(writes) = 1 /\ queue # <<>>
    BY <1>4 DEF OnWrite, IInv, TypeOK, WriteHasMessage
  <2>3. /\ writes' = <<>>
        /\ writes' \in Seq(Messages)
        /\ wire' \in Seq(Messages)
    BY <1>4, <2>2 DEF OnWrite, IInv, TypeOK
  <2> QED
    BY <1>4, <2>1, <2>2, <2>3
       DEF OnWrite, IInv, TypeOK, OneHandler, WriteHasMessage, SenderKnows,
           StrandKnows, NoStall, Running
<1>5. ASSUME OnWriteErase PROVE IInv'
  <2>1. sender = "idle" /\ writes = <<>> /\ queue # <<>> /\ seen = queue
    BY <1>5 DEF OnWriteErase, IInv, OneHandler, StrandKnows
  <2>2. queue' = Tail(queue) /\ aborted' = aborted /\ strand' = "test"
    BY <1>5, <2>1 DEF OnWriteErase
  <2>3. queue' \in Seq(Messages)
    BY <2>1, <2>2 DEF IInv, TypeOK
  <2> QED
    BY <1>5, <2>1, <2>2, <2>3
       DEF OnWriteErase, IInv, TypeOK, OneHandler, WriteHasMessage, SenderKnows,
           StrandKnows, NoStall, Running
<1>6. ASSUME OnWriteTest PROVE IInv'
  <2>1. sender = "idle" /\ writes = <<>> /\ strand = "test" /\ strand' = "idle"
    BY <1>6 DEF OnWriteTest, IInv, OneHandler, StrandKnows
  <2>2. CASE queue = <<>>
    <3>1. writes' = <<>> /\ aborted' = aborted /\ doomed' = doomed
      BY <1>6, <2>1, <2>2 DEF OnWriteTest
    <3> QED
      BY <1>6, <2>1, <2>2, <3>1
         DEF OnWriteTest, IInv, TypeOK, OneHandler, WriteHasMessage,
             SenderKnows, StrandKnows, NoStall
  <2>3. CASE queue # <<>>
    <3>1. /\ writes' \in Seq(Messages)
          /\ Len(writes') = 1
          /\ writes' # <<>>
          /\ aborted' = aborted
          /\ doomed' \in BOOLEAN
      BY <1>6, <2>1, <2>3, WriteStarts DEF OnWriteTest, IInv, TypeOK
    <3> QED
      BY <1>6, <2>1, <2>3, <3>1
         DEF OnWriteTest, IInv, TypeOK, OneHandler, WriteHasMessage,
             SenderKnows, StrandKnows, NoStall
  <2> QED
    BY <2>2, <2>3
<1>7. ASSUME OnWriteFail PROVE IInv'
  <2>1. sender = "idle" /\ strand = "idle"
    BY <1>7, StartsAlone DEF OnWriteFail
  <2>2. writes' = <<>> /\ writes' \in Seq(Messages)
    BY <1>7 DEF OnWriteFail, IInv, TypeOK, WriteHasMessage
  <2> QED
    BY <1>7, <2>1, <2>2
       DEF OnWriteFail, IInv, TypeOK, OneHandler, WriteHasMessage, SenderKnows,
           StrandKnows, NoStall
<1>8. ASSUME Close PROVE IInv'
  <2>1. sender = "idle" /\ strand = "idle"
    BY <1>8, StartsAlone DEF Close
  <2> QED
    BY <1>8, <2>1
       DEF Close, IInv, TypeOK, OneHandler, WriteHasMessage, SenderKnows,
           StrandKnows, NoStall
<1>9. ASSUME OnReadClosed PROVE IInv'
  <2>1. sender = "idle" /\ strand = "idle"
    BY <1>9, StartsAlone DEF OnReadClosed
  <2> QED
    BY <1>9, <2>1
       DEF OnReadClosed, IInv, TypeOK, OneHandler, WriteHasMessage, SenderKnows,
           StrandKnows, NoStall
<1>10. ASSUME OnReadFail PROVE IInv'
  <2>1. sender = "idle" /\ strand = "idle"
    BY <1>10, StartsAlone DEF OnReadFail
  <2> QED
    BY <1>10, <2>1
       DEF OnReadFail, IInv, TypeOK, OneHandler, WriteHasMessage, SenderKnows,
           StrandKnows, NoStall
<1>11. ASSUME Leave PROVE IInv'
  <2>1. sender = "idle" /\ stream # "open"
    BY <1>11 DEF Leave, IInv, StrandKnows
  <2> QED
    BY <1>11, <2>1
       DEF Leave, IInv, TypeOK, OneHandler, WriteHasMessage, SenderKnows,
           StrandKnows, NoStall
<1>12. CASE UNCHANGED vars
  BY <1>12
     DEF vars, IInv, TypeOK, OneHandler, WriteHasMessage, SenderKnows,
         StrandKnows, NoStall, Running
<1> QED
  BY <1>1, <1>2, <1>3, <1>4, <1>5, <1>6, <1>7, <1>8, <1>9, <1>10, <1>11, <1>12
     DEF Next, Sends, Writing, Ending

\* On one thread the invariant holds of every session.
THEOREM Invariance ==
    ASSUME Threads = 1
    PROVE  Spec => []IInv
BY InitInv, StepInv, PTL DEF Spec

\* On one thread, "Are we already writing?" never starts a second async_write,
\* and front() and erase() never meet an empty queue.
THEOREM WritesOneAtATime ==
    ASSUME Threads = 1
    PROVE  Spec => []SingleWriter
<1>1. writes = <<>> => Len(writes) <= 1
  OBVIOUS
<1>2. IInv => SingleWriter
  <2> SUFFICES ASSUME IInv PROVE Len(writes) <= 1 /\ ~aborted
    BY DEF SingleWriter, OneWriteAtATime
  <2>1. ~aborted /\ (writes # <<>> => Len(writes) = 1)
    BY DEF IInv, WriteHasMessage
  <2> QED
    BY <1>1, <2>1
<1> QED
  BY <1>2, Invariance, PTL

-----------------------------------------------------------------------------
\* On any number of threads, a session leaves only while nobody sends to it, and
\* nobody begins to once it has left.
THEOREM NoneSendsToTheLeft == Spec => []LeftIsQuiet
<1>1. Init => LeftIsQuiet
  BY DEF Init, LeftIsQuiet
<1>2. LeftIsQuiet /\ [Next]_vars => LeftIsQuiet'
  BY DEF LeftIsQuiet, vars, Next, Sends, SendTest, SendWrite, SendPush, Writing, OnWrite,
         OnWriteErase, OnWriteTest, OnWriteFail, Ending, Close, OnReadClosed, OnReadFail, Leave
<1> QED
  BY <1>1, <1>2, PTL DEF Spec

-----------------------------------------------------------------------------
\* What holds of the queue on any number of threads.  Messages are numbered as
\* they were sent; what was written is not younger than what is being written,
\* nor that than what waits.  While erase() runs the queue only grows.
Increasing(q) == \A i, j \in DOMAIN q : i < j => q[i] < q[j]
NotYounger(q, r) == \A i \in DOMAIN q, j \in DOMAIN r : q[i] <= r[j]
Sorted(q) == \A i, j \in DOMAIN q : i < j => q[i] <= q[j]
SentBefore(q) == \A i \in DOMAIN q : q[i] <= sent

Grown ==
    strand = "erase" =>
        Len(seen) <= Len(queue) /\ \A i \in DOMAIN seen : queue[i] = seen[i]

InOrder ==
    /\ TypeOK
    /\ SentBefore(queue) /\ SentBefore(writes) /\ SentBefore(wire)
    /\ Increasing(queue)
    /\ Sorted(writes) /\ Sorted(wire)
    /\ NotYounger(writes, queue) /\ NotYounger(wire, writes) /\ NotYounger(wire, queue)
    /\ Grown

\* A sequence of messages, its end and its rest.
LEMMA MessagesAreNumbers ==
    ASSUME NEW q \in Seq(Messages)
    PROVE  /\ Len(q) \in Nat /\ DOMAIN q = 1..Len(q)
           /\ \A i \in DOMAIN q : q[i] \in Messages /\ q[i] \in Nat
<1>1. \A i \in DOMAIN q : q[i] \in Messages
  OBVIOUS
<1>2. \A m \in Messages : m \in Nat
  BY DEF Messages
<1> QED
  BY <1>1, <1>2

\* One message more at the end.
LEMMA AppendMessage ==
    ASSUME NEW q \in Seq(Messages), NEW m \in Messages
    PROVE  /\ Append(q, m) \in Seq(Messages)
           /\ DOMAIN Append(q, m) = 1..(Len(q) + 1)
           /\ Append(q, m)[Len(q) + 1] = m
           /\ \A i \in 1..Len(q) : Append(q, m)[i] = q[i]
OBVIOUS

\* What is left without the first.
LEMMA TailMessages ==
    ASSUME NEW q \in Seq(Messages), q # <<>>
    PROVE  /\ Len(q) > 0 /\ Head(q) = q[1] /\ Head(q) \in Messages
           /\ Tail(q) \in Seq(Messages)
           /\ Len(Tail(q)) = Len(q) - 1 /\ DOMAIN Tail(q) = 1..(Len(q) - 1)
           /\ \A i \in 1..(Len(q) - 1) : Tail(q)[i] = q[i + 1]
OBVIOUS

\* A new session has sent nothing.
LEMMA InitOrder == Init => InOrder
<1> SUFFICES ASSUME Init PROVE InOrder
  OBVIOUS
<1>1. TypeOK
  BY InitInv DEF IInv
<1> QED
  BY <1>1 DEF Init, InOrder, SentBefore, Increasing, Sorted, NotYounger, Grown

\* DoWrite writes the oldest that waits.
LEMMA WriteInOrder ==
    ASSUME InOrder, DoWrite, UNCHANGED <<queue, sent, seen, wire, stream, inTable>>
    PROVE  /\ writes' \in Seq(Messages)
           /\ doomed' \in BOOLEAN /\ aborted' \in BOOLEAN
           /\ SentBefore(writes)' /\ Sorted(writes)'
           /\ NotYounger(writes, queue)' /\ NotYounger(wire, writes)'
<1>1. writes \in Seq(Messages) /\ queue \in Seq(Messages) /\ wire \in Seq(Messages)
  BY DEF InOrder, TypeOK
<1>2. doomed' \in BOOLEAN /\ aborted' \in BOOLEAN
  BY DEF DoWrite, InOrder, TypeOK
<1>3. CASE writes' = writes
  BY <1>2, <1>3 DEF InOrder, TypeOK, SentBefore, Sorted, NotYounger
<1>4. CASE queue # <<>> /\ writes' = Append(writes, Head(queue))
  <2> DEFINE m == Head(queue)
  <2>1. m \in Messages /\ m = queue[1] /\ 1 \in DOMAIN queue
    BY <1>1, <1>4, TailMessages
  <2>2. /\ writes' \in Seq(Messages)
        /\ DOMAIN writes' = 1..(Len(writes) + 1) /\ writes'[Len(writes) + 1] = m
        /\ \A i \in 1..Len(writes) : writes'[i] = writes[i]
    BY <1>1, <1>4, <2>1, AppendMessage
  <2>3. Len(writes) \in Nat /\ DOMAIN writes = 1..Len(writes)
    BY <1>1
  <2>4. \A i \in DOMAIN writes' : \/ i \in DOMAIN writes /\ writes'[i] = writes[i]
                                  \/ i = Len(writes) + 1 /\ writes'[i] = m
    BY <2>2, <2>3
  <2>5. \A j \in DOMAIN queue : m <= queue[j]
    <3>1. \A j \in DOMAIN queue : queue[j] \in Nat /\ (1 < j \/ 1 = j)
      BY <1>1, MessagesAreNumbers
    <3> QED
      BY <2>1, <3>1 DEF InOrder, Increasing
  <2> HIDE DEF m
  <2>6. SentBefore(writes)'
    BY <2>1, <2>4 DEF InOrder, SentBefore
  <2>7. Sorted(writes)'
    BY <2>1, <2>3, <2>4 DEF InOrder, Sorted, NotYounger
  <2>8. NotYounger(writes, queue)'
    BY <2>4, <2>5 DEF InOrder, NotYounger
  <2>9. NotYounger(wire, writes)'
    BY <2>1, <2>4 DEF InOrder, NotYounger
  <2> QED
    BY <1>2, <2>2, <2>6, <2>7, <2>8, <2>9
<1> QED
  BY <1>3, <1>4 DEF DoWrite

\* On any number of threads every step keeps the order.
LEMMA StepOrder == InOrder /\ [Next]_vars => InOrder'
<1> SUFFICES ASSUME InOrder, [Next]_vars PROVE InOrder'
  OBVIOUS
<1>a. /\ TypeOK /\ queue \in Seq(Messages) /\ writes \in Seq(Messages)
      /\ wire \in Seq(Messages) /\ seen \in Seq(Messages)
      /\ sent \in Nat
  BY MaxMessagesAssumption DEF InOrder, TypeOK
<1>1. ASSUME NEW own \in BOOLEAN, SendPush(own) PROVE InOrder'
  <2> DEFINE m == sent + 1
  <2>1. m \in Messages /\ sent' = m /\ queue' = Append(queue, m)
        /\ UNCHANGED <<strand, seen, writes, doomed, wire, stream, inTable, aborted>>
    <3>1. sent < MaxMessages /\ sent \in 0..MaxMessages
      BY <1>1, <1>a DEF SendPush, TypeOK
    <3>2. sent + 1 \in Messages
      BY <3>1, MaxMessagesAssumption DEF Messages
    <3> QED
      BY <1>1, <3>2 DEF SendPush
  <2>2. /\ queue' \in Seq(Messages) /\ DOMAIN queue' = 1..(Len(queue) + 1)
        /\ queue'[Len(queue) + 1] = m
        /\ \A i \in 1..Len(queue) : queue'[i] = queue[i]
    BY <1>a, <2>1, AppendMessage
  <2>3. Len(queue) \in Nat /\ DOMAIN queue = 1..Len(queue) /\ Len(queue') = Len(queue) + 1
    BY <1>a, <2>1
  <2>4. \A i \in DOMAIN queue' : (i \in DOMAIN queue /\ queue'[i] = queue[i])
                                  \/ (i = Len(queue) + 1 /\ queue'[i] = m)
    BY <2>2, <2>3
  <2>5. /\ \A i \in DOMAIN queue : queue[i] \in Nat /\ queue[i] <= sent
        /\ \A i \in DOMAIN writes : writes[i] \in Nat /\ writes[i] <= sent
        /\ \A i \in DOMAIN wire : wire[i] \in Nat /\ wire[i] <= sent
    BY <1>a, MessagesAreNumbers DEF InOrder, SentBefore
  <2>6. TypeOK'
    <3>1. sent' \in 0..MaxMessages
      BY <2>1, MaxMessagesAssumption DEF Messages
    <3>2. sender' = "pushed" /\ ownStrand' \in BOOLEAN
      BY <1>1 DEF SendPush
    <3> QED
      BY <1>a, <2>1, <2>2, <3>1, <3>2 DEF TypeOK
  <2>7. Grown'
    <3>1. seen \in Seq(Messages) /\ DOMAIN seen = 1..Len(seen) /\ Len(seen) \in Nat
      BY <1>a
    <3> QED
      BY <2>1, <2>2, <2>3, <3>1 DEF InOrder, Grown
  <2>8. m = sent + 1
    OBVIOUS
  <2> HIDE DEF m
  <2>9. SentBefore(queue)' /\ SentBefore(writes)' /\ SentBefore(wire)'
    BY <1>a, <2>1, <2>4, <2>5, <2>8 DEF SentBefore
  <2>10. Increasing(queue)'
    <3> SUFFICES ASSUME NEW i \in DOMAIN queue', NEW j \in DOMAIN queue', i < j
                 PROVE  queue'[i] < queue'[j]
      BY DEF Increasing
    <3>1. i \in DOMAIN queue /\ queue'[i] = queue[i]
      BY <2>2, <2>3
    <3>2. CASE j \in DOMAIN queue /\ queue'[j] = queue[j]
      BY <3>1, <3>2 DEF InOrder, Increasing
    <3>3. CASE queue'[j] = m
      BY <1>a, <2>5, <2>8, <3>1, <3>3
    <3> QED
      BY <2>4, <3>2, <3>3
  <2>11. NotYounger(writes, queue)' /\ NotYounger(wire, queue)'
    BY <1>a, <2>1, <2>4, <2>5, <2>8 DEF InOrder, NotYounger
  <2>12. Sorted(writes)' /\ Sorted(wire)' /\ NotYounger(wire, writes)'
    BY <2>1 DEF InOrder, Sorted, NotYounger
  <2> QED
    BY <2>6, <2>7, <2>9, <2>10, <2>11, <2>12 DEF InOrder
<1>2. ASSUME SendWrite \/ (OnWriteTest /\ DoWrite) PROVE InOrder'
  <2>1. DoWrite /\ UNCHANGED <<queue, sent, seen, wire, stream, inTable>>
    BY <1>2 DEF SendWrite, OnWriteTest
  <2>2. /\ writes' \in Seq(Messages)
        /\ doomed' \in BOOLEAN /\ aborted' \in BOOLEAN
        /\ SentBefore(writes)' /\ Sorted(writes)'
        /\ NotYounger(writes, queue)' /\ NotYounger(wire, writes)'
    BY <2>1, WriteInOrder
  <2>3. /\ sender' \in {"idle", "pushed", "write"} /\ ownStrand' \in BOOLEAN
        /\ strand' \in {"idle", "erase", "test", "leave"}
        /\ strand' = "erase" => strand = "erase"
    BY <1>2, <1>a DEF SendWrite, OnWriteTest, TypeOK
  <2>4. TypeOK'
    BY <1>a, <2>1, <2>2, <2>3 DEF TypeOK
  <2>5. SentBefore(queue)' /\ SentBefore(wire)' /\ Increasing(queue)' /\ Sorted(wire)'
        /\ NotYounger(wire, queue)' /\ Grown'
    BY <2>1, <2>3 DEF InOrder, SentBefore, Increasing, Sorted, NotYounger, Grown
  <2> QED
    BY <2>2, <2>4, <2>5 DEF InOrder
<1>3. ASSUME OnWrite PROVE InOrder'
  <2> DEFINE m == Head(writes)
  <2>1. /\ writes # <<>> /\ writes' = Tail(writes) /\ wire' = Append(wire, m)
        /\ strand' = "erase" /\ seen' = queue
        /\ UNCHANGED <<queue, sent, sender, ownStrand, doomed, stream, inTable, aborted>>
    BY <1>3 DEF OnWrite
  <2>2. /\ Len(writes) > 0 /\ m = writes[1] /\ m \in Messages
        /\ writes' \in Seq(Messages) /\ DOMAIN writes' = 1..(Len(writes) - 1)
        /\ \A i \in 1..(Len(writes) - 1) : writes'[i] = writes[i + 1]
    BY <1>a, <2>1, TailMessages
  <2>3. /\ wire' \in Seq(Messages) /\ DOMAIN wire' = 1..(Len(wire) + 1)
        /\ wire'[Len(wire) + 1] = m
        /\ \A i \in 1..Len(wire) : wire'[i] = wire[i]
    BY <1>a, <2>1, <2>2, AppendMessage
  <2>4. /\ Len(writes) \in Nat /\ DOMAIN writes = 1..Len(writes)
        /\ Len(wire) \in Nat /\ DOMAIN wire = 1..Len(wire)
    BY <1>a
  <2>5. /\ 1 \in DOMAIN writes
        /\ \A i \in DOMAIN writes' : /\ i \in Nat /\ i + 1 \in DOMAIN writes /\ 1 < i + 1
                                     /\ writes'[i] = writes[i + 1]
    BY <2>2, <2>4
  <2>6. \A i \in DOMAIN wire' : (i \in DOMAIN wire /\ wire'[i] = wire[i])
                                 \/ (i = Len(wire) + 1 /\ wire'[i] = m)
    BY <2>3, <2>4
  <2>7. TypeOK'
    BY <1>a, <2>1, <2>2, <2>3 DEF TypeOK
  <2> HIDE DEF m
  <2>8. SentBefore(queue)' /\ SentBefore(writes)' /\ SentBefore(wire)'
    BY <2>1, <2>2, <2>5, <2>6 DEF InOrder, SentBefore
  <2>9. Sorted(writes)'
    BY <2>5 DEF InOrder, Sorted
  <2>10. Sorted(wire)'
    <3>1. m <= m
      BY <2>2 DEF Messages
    <3>2. \A i \in DOMAIN wire : wire[i] <= m
      BY <2>2, <2>5 DEF InOrder, NotYounger
    <3> QED
      BY <2>4, <2>6, <3>1, <3>2 DEF InOrder, Sorted
  <2>11. NotYounger(wire, writes)'
    <3>1. \A i \in DOMAIN writes' : m <= writes'[i]
      BY <2>2, <2>5 DEF InOrder, Sorted
    <3> QED
      BY <2>5, <2>6, <3>1 DEF InOrder, NotYounger
  <2>12. NotYounger(writes, queue)' /\ NotYounger(wire, queue)'
    BY <2>1, <2>2, <2>5, <2>6 DEF InOrder, NotYounger
  <2>13. Increasing(queue)' /\ Grown'
    <3>1. Len(queue) \in Nat
      BY <1>a
    <3> QED
      BY <2>1, <3>1 DEF InOrder, Increasing, Grown
  <2> QED
    BY <2>7, <2>8, <2>9, <2>10, <2>11, <2>12, <2>13 DEF InOrder
<1>4. ASSUME OnWriteErase PROVE InOrder'
  <2>1. /\ UNCHANGED <<sent, sender, ownStrand, seen, writes, doomed, wire, stream, inTable>>
        /\ strand' \in {"erase", "test"} /\ aborted' \in BOOLEAN
    BY <1>4, <1>a DEF OnWriteErase, TypeOK
  <2>2. CASE queue' = queue
    BY <1>a, <2>1, <2>2, <1>4
       DEF OnWriteErase, InOrder, TypeOK, SentBefore, Increasing, Sorted, NotYounger, Grown
  <2>3. CASE /\ strand' = "test" /\ queue # <<>> /\ seen # <<>>
             /\ queue' = Tail(queue) \/ queue' = Tail(seen)
    <3>1. /\ Len(queue) \in Nat /\ DOMAIN queue = 1..Len(queue)
          /\ Len(seen) \in Nat /\ DOMAIN seen = 1..Len(seen)
      BY <1>a
    <3>2. Len(seen) <= Len(queue) /\ \A i \in DOMAIN seen : queue[i] = seen[i]
      BY <1>4 DEF OnWriteErase, InOrder, Grown
    <3>3. CASE queue' = Tail(queue)
      <4>1. queue' \in Seq(Messages)
            /\ \A i \in DOMAIN queue' :
                 i \in Nat /\ i + 1 \in DOMAIN queue /\ queue'[i] = queue[i + 1]
        BY <1>a, <2>3, <3>1, <3>3, TailMessages
      <4> QED
        BY <1>a, <2>1, <2>3, <4>1
           DEF InOrder, TypeOK, SentBefore, Increasing, Sorted, NotYounger, Grown
    <3>4. CASE queue' = Tail(seen)
      <4>1. queue' \in Seq(Messages)
            /\ \A i \in DOMAIN queue' :
                 i \in Nat /\ i + 1 \in DOMAIN seen /\ queue'[i] = seen[i + 1]
        BY <1>a, <2>3, <3>1, <3>4, TailMessages
      <4>2. \A i \in DOMAIN queue' :
              i \in Nat /\ i + 1 \in DOMAIN queue /\ queue'[i] = queue[i + 1]
        BY <3>1, <3>2, <4>1
      <4> QED
        BY <1>a, <2>1, <2>3, <4>1, <4>2
           DEF InOrder, TypeOK, SentBefore, Increasing, Sorted, NotYounger, Grown
    <3> QED
      BY <2>3, <3>3, <3>4
  <2> QED
    BY <1>4, <2>2, <2>3 DEF OnWriteErase
<1>5. CASE OnWriteFail
  <2>1. /\ writes # <<>> /\ writes' = Tail(writes)
        /\ stream' = "closed" /\ strand' = "leave"
        /\ UNCHANGED <<queue, sent, sender, ownStrand, seen, doomed, wire, inTable, aborted>>
    BY <1>5 DEF OnWriteFail
  <2>2. /\ writes' \in Seq(Messages)
        /\ \A i \in DOMAIN writes' :
             i \in Nat /\ i + 1 \in DOMAIN writes /\ writes'[i] = writes[i + 1]
    <3>1. Len(writes) \in Nat /\ DOMAIN writes = 1..Len(writes)
      BY <1>a
    <3> QED
      BY <1>a, <2>1, <3>1, TailMessages
  <2> QED
    BY <1>a, <2>1, <2>2
       DEF InOrder, TypeOK, SentBefore, Increasing, Sorted, NotYounger, Grown
<1>6. CASE SendTest \/ (OnWriteTest /\ queue = <<>>) \/ Ending \/ UNCHANGED vars
  <2>1. /\ UNCHANGED <<queue, sent, seen, writes, wire>>
        /\ strand' = "erase" => strand = "erase"
    BY <1>6 DEF SendTest, OnWriteTest, Ending, Close, OnReadClosed, OnReadFail, Leave, vars
  <2>2. TypeOK'
    BY <1>a, <1>6
       DEF TypeOK, SendTest, OnWriteTest, Ending, Close, OnReadClosed, OnReadFail, Leave, vars
  <2> QED
    BY <2>1, <2>2 DEF InOrder, SentBefore, Increasing, Sorted, NotYounger, Grown
<1> QED
  BY <1>1, <1>2, <1>3, <1>4, <1>5, <1>6 DEF Next, Sends, Writing, OnWriteTest

\* However push_back and erase race, on any number of threads, no message reaches
\* the client before an older one.
THEOREM NoneOvertakes == Spec => []OrderKept
<1>1. InOrder => OrderKept
  BY DEF InOrder, Sorted, OrderKept
<1> QED
  BY InitOrder, StepOrder, <1>1, PTL DEF Spec

\* The session's state keeps its types (TypeOK), on any number of threads.
THEOREM TypeCorrect == Spec => []TypeOK
<1>1. InOrder => TypeOK
  BY DEF InOrder
<1> QED
  BY InitOrder, StepOrder, <1>1, PTL DEF Spec

-----------------------------------------------------------------------------
\* A queue that is not empty has someone attending to it, on any number of threads:
\* a write, the handler on the strand, or send(), which may leave a single message
\* to itself only.
Attended ==
    queue # <<>> /\ inTable =>
        \/ writes # <<>>
        \/ strand # "idle"
        \/ sender = "write"
        \/ sender = "pushed" /\ Len(queue) = 1

\* An open session is in its room and is not leaving it.
OpenStays == stream = "open" => inTable /\ strand # "leave"

\* A session whose handlers are done is writing if it has messages left: open or
\* not, it does not keep them without a write whose end makes it go on or leave.
LeftIsWritten == queue # <<>> /\ inTable /\ Running = 0 => writes # <<>>

\* doWrite ends with a write outstanding unless the queue is empty.
LEMMA WriteAttends ==
    ASSUME TypeOK, DoWrite, queue # <<>>
    PROVE  writes' # <<>>
<1>1. CASE writes' = Append(writes, Head(queue))
  <2>1. Head(queue) \in Messages /\ writes \in Seq(Messages)
    BY DEF TypeOK
  <2>2. Len(writes') = Len(writes) + 1 /\ Len(writes) \in Nat
    BY <1>1, <2>1
  <2>3. Len(<<>>) = 0
    OBVIOUS
  <2> QED
    BY <2>2, <2>3
<1>2. CASE writes # <<>> /\ writes' = writes
  BY <1>2
<1> QED
  BY <1>1, <1>2 DEF DoWrite

\* Every step leaves the queue attended to.  push_back leaves an attended queue so,
\* or its own message alone; send() counts on the other side only if it finds more
\* than its own; and onWrite() goes on while it finds any.
LEMMA StepAttended == TypeOK /\ Attended /\ OpenStays /\ [Next]_vars => Attended' /\ OpenStays'
<1> SUFFICES ASSUME TypeOK, Attended, OpenStays, [Next]_vars PROVE Attended' /\ OpenStays'
  OBVIOUS
<1>1. ASSUME NEW own \in BOOLEAN, SendPush(own) PROVE Attended' /\ OpenStays'
  <2>1. sender = "idle" /\ sender' = "pushed" /\ UNCHANGED <<strand, writes, stream, inTable>>
    BY <1>1 DEF SendPush
  <2>2. queue = <<>> => Len(queue') = 1
    <3>1. sent + 1 \in Messages
      BY <1>1, MaxMessagesAssumption DEF SendPush, TypeOK, Messages
    <3> QED
      BY <1>1, <3>1 DEF SendPush
  <2> QED
    BY <2>1, <2>2 DEF Attended, OpenStays
<1>2. CASE SendTest
  <2>1. /\ sender = "pushed" /\ UNCHANGED <<queue, strand, writes, stream, inTable>>
        /\ sender' = "write" \/ Len(queue) > 1
    BY <1>2 DEF SendTest
  <2>2. Len(queue) > 1 => Len(queue) # 1
    OBVIOUS
  <2> QED
    BY <2>1, <2>2 DEF Attended, OpenStays
<1>3. CASE SendWrite
  BY <1>3, WriteAttends DEF SendWrite, Attended, OpenStays
<1>4. CASE OnWriteTest
  BY <1>4, WriteAttends DEF OnWriteTest, Attended, OpenStays
<1>5. CASE OnWrite \/ OnWriteErase \/ OnWriteFail
  BY <1>5 DEF OnWrite, OnWriteErase, OnWriteFail, Attended, OpenStays
<1>6. CASE Close \/ OnReadClosed \/ OnReadFail \/ Leave
  BY <1>6 DEF Close, OnReadClosed, OnReadFail, Leave, CanStart, StrandFree, Attended, OpenStays
<1>7. CASE UNCHANGED vars
  BY <1>7 DEF vars, Attended, OpenStays
<1> QED
  BY <1>1, <1>2, <1>3, <1>4, <1>5, <1>6, <1>7 DEF Next, Sends, Writing, Ending

\* Messages are attended to and open sessions stay, on any number of threads.
LEMMA AlwaysAttended == Spec => [](Attended /\ OpenStays)
<1>1. Init => Attended /\ OpenStays
  BY DEF Init, Attended, OpenStays
<1> QED
  BY <1>1, StepAttended, TypeCorrect, PTL DEF Spec

\* A message never waits in the queue of an open session whose handlers are done
\* without a write under way (NoStall), on any number of threads: what a race of
\* push_back and erase can do is lose a message, not stop the queue.
THEOREM NeverStalls == Spec => []NoStall
<1>1. Attended /\ OpenStays => NoStall
  BY NothingRuns DEF Attended, OpenStays, NoStall
<1> QED
  BY <1>1, AlwaysAttended, PTL

\* Nor does a session that ended in any way stay in its room with messages that
\* nothing will write or give up: the safety half of FailedLeaves, on any number
\* of threads.
THEOREM NothingIsAbandoned == Spec => []LeftIsWritten
<1>1. Attended => LeftIsWritten
  BY NothingRuns DEF Attended, LeftIsWritten
<1> QED
  BY <1>1, AlwaysAttended, PTL

-----------------------------------------------------------------------------
\* On one thread, what is being written is the head of the queue.
WritesHead == writes # <<>> => Head(writes) = Head(queue)

\* doWrite with nothing outstanding writes the head of the queue.
LEMMA WriteOfHead ==
    ASSUME queue # <<>>, writes = <<>>, queue \in Seq(Messages), DoWrite, queue' = queue
    PROVE  WritesHead'
<1>1. writes' = Append(<<>>, Head(queue))
  BY DEF DoWrite
<1>2. Head(queue) \in Messages
  OBVIOUS
<1> QED
  BY <1>1, <1>2 DEF WritesHead

\* On one thread every step keeps it so: the queue loses its head only in onWrite.
LEMMA StepHead ==
    ASSUME Threads = 1
    PROVE  IInv /\ WritesHead /\ [Next]_vars => WritesHead'
<1> SUFFICES ASSUME IInv, WritesHead, [Next]_vars PROVE WritesHead'
  OBVIOUS
<1>a. queue \in Seq(Messages) /\ writes \in Seq(Messages)
  BY DEF IInv, TypeOK
<1>1. CASE \E own \in BOOLEAN : SendPush(own)
  <2>1. queue' = Append(queue, sent + 1) /\ writes' = writes
    BY <1>1 DEF SendPush
  <2>2. writes # <<>> => queue # <<>> /\ Head(Append(queue, sent + 1)) = Head(queue)
    BY <1>a DEF IInv, WriteHasMessage
  <2> QED
    BY <2>1, <2>2 DEF WritesHead
<1>2. CASE SendWrite
  BY <1>2, <1>a, WriteOfHead DEF SendWrite, IInv, SenderKnows
<1>3. CASE OnWriteTest
  BY <1>3, <1>a, WriteOfHead DEF OnWriteTest, IInv, StrandKnows, WritesHead
<1>4. CASE OnWrite \/ OnWriteFail
  <2>1. writes' = <<>>
    BY <1>4, <1>a DEF OnWrite, OnWriteFail, IInv, WriteHasMessage
  <2> QED
    BY <2>1 DEF WritesHead
<1>5. CASE OnWriteErase
  BY <1>5 DEF OnWriteErase, IInv, StrandKnows, WritesHead
<1>6. CASE SendTest \/ Ending \/ UNCHANGED vars
  BY <1>6 DEF SendTest, Ending, Close, OnReadClosed, OnReadFail, Leave, vars, WritesHead
<1> QED
  BY <1>1, <1>2, <1>3, <1>4, <1>5, <1>6 DEF Next, Sends, Writing

\* Pushing is accepting and the end of a write is delivering.
LEMMA PushAccepts ==
    ASSUME Threads = 1, IInv, InOrder, NEW own \in BOOLEAN, SendPush(own),
           NEW n \in Messages, n = sent + 1
    PROVE  Channel!Accept(n)
<1>1. strand = "idle"
  BY StartsAlone DEF SendPush
<1>2. Pending = queue /\ Pending' = Append(queue, n) /\ wire' = wire
  BY <1>1 DEF Pending, SendPush
<1>3. sent \in Nat /\ queue \in Seq(Messages) /\ wire \in Seq(Messages)
  BY MaxMessagesAssumption DEF IInv, TypeOK
<1>4. /\ \A i \in DOMAIN queue : queue[i] \in Nat /\ queue[i] <= sent
      /\ \A i \in DOMAIN wire : wire[i] \in Nat /\ wire[i] <= sent
  BY <1>3, MessagesAreNumbers DEF InOrder, SentBefore
<1> QED
  BY <1>2, <1>3, <1>4 DEF Channel!Accept

\* The end of a write delivers the head of what is pending.
LEMMA WriteDelivers ==
    ASSUME Threads = 1, IInv, WritesHead, OnWrite
    PROVE  Channel!Deliver
<1>1. strand = "idle" /\ strand' = "erase" /\ queue' = queue /\ writes # <<>>
  BY StartsAlone DEF OnWrite
<1>2. queue # <<>> /\ wire' = Append(wire, Head(queue))
  BY <1>1 DEF OnWrite, WritesHead, IInv, WriteHasMessage
<1>3. Pending = queue /\ Pending' = Tail(queue)
  BY <1>1 DEF Pending
<1> QED
  BY <1>2, <1>3 DEF Channel!Deliver

\* On one thread every step is a step of FifoDelivery or a stutter.
LEMMA ChannelStep ==
    ASSUME Threads = 1
    PROVE  IInv /\ InOrder /\ WritesHead /\ [Next]_vars => [Channel!Next]_(Channel!vars)
<1> SUFFICES ASSUME IInv, InOrder, WritesHead, [Next]_vars PROVE [Channel!Next]_(Channel!vars)
  OBVIOUS
<1>1. ASSUME NEW own \in BOOLEAN, SendPush(own) PROVE Channel!Next
  <2>1. PICK n \in Messages : n = sent + 1
    <3>1. sent < MaxMessages /\ sent \in 0..MaxMessages
      BY <1>1 DEF SendPush, IInv, TypeOK
    <3> QED
      BY <3>1, MaxMessagesAssumption DEF Messages
  <2>2. Channel!Accept(n)
    BY <1>1, <2>1, PushAccepts
  <2> QED
    BY <2>2 DEF Channel!Next
<1>2. CASE OnWrite
  BY <1>2, WriteDelivers DEF Channel!Next
<1>3. CASE OnWriteErase
  <2>1. queue' = Tail(queue) /\ strand = "erase" /\ strand' = "test" /\ wire' = wire
    BY <1>3 DEF OnWriteErase, IInv, StrandKnows
  <2> QED
    BY <2>1 DEF Pending, Channel!vars
<1>4. CASE SendTest \/ SendWrite \/ OnWriteTest \/ OnWriteFail \/ Ending \/ UNCHANGED vars
  <2>1. /\ UNCHANGED <<queue, wire>>
        /\ strand' = strand \/ (strand # "erase" /\ strand' # "erase")
    BY <1>4, StartsAlone
       DEF SendTest, SendWrite, OnWriteTest, OnWriteFail, Ending, Close, OnReadClosed,
           OnReadFail, Leave, vars
  <2> QED
    BY <2>1 DEF Pending, Channel!vars
<1> QED
  BY <1>1, <1>2, <1>3, <1>4 DEF Next, Sends, Writing

\* On one thread a client gets the messages that were broadcast while its session
\* was in the room, in that order and each once: the session implements FifoDelivery.
THEOREM DeliversInOrder ==
    ASSUME Threads = 1
    PROVE  Spec => ImplementsFifoDelivery
<1>1. Init => Channel!Init /\ WritesHead
  BY DEF Init, Channel!Init, Pending, WritesHead
<1> QED
  BY Invariance, InitOrder, StepOrder, StepHead, ChannelStep, <1>1, PTL
     DEF Spec, ImplementsFifoDelivery, Channel!Spec

==============================================================================

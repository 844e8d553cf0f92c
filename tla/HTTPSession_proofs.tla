-------------------------- MODULE HTTPSession_proofs --------------------------
(***************************************************************************)
(* Proofs about the HTTP connection, for every queue limit and every       *)
(* number of requests.  IInv strengthens the invariants the runs check:    *)
(* an outstanding read implies room in the queue, and a failed or final    *)
(* response stays at the head of the queue with no write under way, so     *)
(* that nothing restarts the writing.  With Answered, which bounds the     *)
(* numbers on the wire by the requests read, it shows that the connection  *)
(* implements FifoDelivery.                                                *)
(***************************************************************************)
EXTENDS HTTPSession, TLAPS

\* One read at a time, and only while the queue has room.
ReadsHaveRoom == reads <= 1 /\ (reads = 1 => Len(items) < Limit)

\* A connection whose writing ended keeps what it had queued and writes no more.
WritingEnded ==
    (failed \/ eofSent) => writes = 0 /\ items # <<>>

\* Before the session runs there is nothing to read or to answer.
Starting == stream \in {"detect", "handshake"} => reads = 0 /\ items = <<>>

IInv ==
    /\ TypeOK
    /\ Starting
    /\ ReadsHaveRoom
    /\ QueueWithinLimit
    /\ OneWriteOutstanding
    /\ NoForgottenResponse
    /\ WritingEnded

\* A new connection satisfies the invariant.
LEMMA InitInv == Init => IInv
<1> SUFFICES ASSUME Init PROVE IInv
  OBVIOUS
<1>1. Len(items) = 0 /\ items \in Seq(Response) /\ wire \in Seq(1..MaxRequests)
  BY DEF Init
<1>2. TypeOK
  <2>1. received \in 0..MaxRequests /\ reads \in Nat /\ writes \in Nat
    BY MaxRequestsAssumption DEF Init
  <2>2. stream \in Streams /\ lastBranch \in Branches
    BY DEF Init, Streams, Branches
  <2>3. doomed \in BOOLEAN /\ failed \in BOOLEAN /\ eofSent \in BOOLEAN
    BY DEF Init
  <2> QED
    BY <1>1, <2>1, <2>2, <2>3 DEF TypeOK
<1>3. ReadsHaveRoom /\ QueueWithinLimit /\ OneWriteOutstanding
  BY <1>1, LimitAssumption
     DEF Init, ReadsHaveRoom, QueueWithinLimit, OneWriteOutstanding
<1>4. Starting /\ NoForgottenResponse /\ WritingEnded
  BY DEF Init, Starting, NoForgottenResponse, WritingEnded
<1> QED
  BY <1>2, <1>3, <1>4 DEF IInv

\* Queueing a response during a read keeps what the invariant says of the
\* queue and of the writes.
LEMMA SendInv ==
    ASSUME IInv, reads = 1,
           NEW r \in Response, Send(r),
           UNCHANGED <<wire, failed, eofSent>>
    PROVE  /\ items' \in Seq(Response)
           /\ writes' \in Nat
           /\ doomed' \in BOOLEAN
           /\ Len(items') <= Limit
           /\ OneWriteOutstanding'
           /\ NoForgottenResponse'
           /\ WritingEnded'
<1>1. /\ items \in Seq(Response)
      /\ items' = Append(items, r)
      /\ Len(items') = Len(items) + 1
      /\ items' # <<>>
      /\ items' \in Seq(Response)
  BY DEF IInv, TypeOK, Send
<1>2. Len(items') <= Limit
  BY <1>1, LimitAssumption DEF IInv, ReadsHaveRoom
<1>3. doomed' \in BOOLEAN
  BY DEF Send, IInv, TypeOK
<1>4. CASE items = <<>>
  <2>1. writes = 0 /\ writes' = 1 /\ ~failed /\ ~eofSent
    BY <1>4 DEF Send, IInv, TypeOK, OneWriteOutstanding, WritingEnded
  <2> QED
    BY <1>1, <1>2, <1>3, <2>1
       DEF OneWriteOutstanding, NoForgottenResponse, WritingEnded
<1>5. CASE items # <<>>
  <2>1. writes' = writes
    BY <1>5 DEF Send
  <2> QED
    BY <1>1, <1>2, <1>3, <1>5, <2>1
       DEF IInv, TypeOK, OneWriteOutstanding, NoForgottenResponse, WritingEnded
<1> QED
  BY <1>4, <1>5

\* Reading on or not, onRead leaves at most one read and only with room for
\* its response.
LEMMA ReadOnInv ==
    ASSUME IInv, reads = 1,
           items' \in Seq(Response), Len(items') <= Limit,
           ReadOnUnlessFull(items')
    PROVE  reads' \in Nat /\ ReadsHaveRoom'
BY LimitAssumption DEF ReadOnUnlessFull, IsFull, ReadsHaveRoom

\* Every step of the connection preserves the invariant.
LEMMA StepInv == IInv /\ [Next]_vars => IInv'
<1> SUFFICES ASSUME IInv, [Next]_vars PROVE IInv'
  OBVIOUS
<1> USE LimitAssumption, MaxRequestsAssumption
<1>1. reads > 0 => reads = 1 /\ stream \notin {"detect", "handshake"}
  BY DEF IInv, TypeOK, ReadsHaveRoom, Starting
<1>2. CASE OnDetect
  BY <1>2 DEF OnDetect, IInv, TypeOK, Streams, ReadsHaveRoom,
              QueueWithinLimit, OneWriteOutstanding, NoForgottenResponse,
              WritingEnded, Starting
<1>3. CASE OnHandshake
  BY <1>3 DEF OnHandshake, IInv, TypeOK, Streams, ReadsHaveRoom,
              QueueWithinLimit, OneWriteOutstanding, NoForgottenResponse,
              WritingEnded, Starting
<1>4. CASE OnReadIgnored
  <2>1. reads = 1 /\ items' = items
    BY <1>1, <1>4 DEF OnReadIgnored, ReadCompletes
  <2>2. reads' \in Nat /\ ReadsHaveRoom'
    BY <2>1, <1>4, ReadOnInv
       DEF OnReadIgnored, IInv, TypeOK, QueueWithinLimit, ReadOnUnlessFull
  <2> QED
    BY <1>4, <2>2
       DEF OnReadIgnored, ReadCompletes, IInv, TypeOK, Branches,
           QueueWithinLimit, OneWriteOutstanding, NoForgottenResponse,
           WritingEnded, Starting
<1>5. CASE OnReadNewRoom
  <2>1. reads = 1 /\ received' = received + 1 /\ received' \in 1..MaxRequests
    BY <1>1, <1>5 DEF OnReadNewRoom, ReadCompletes, IInv, TypeOK
  <2>2. PICK eof \in BOOLEAN : Send([req |-> received + 1, eof |-> eof])
    BY <1>5 DEF OnReadNewRoom
  <2>3. [req |-> received + 1, eof |-> eof] \in Response
    BY <2>1 DEF Response
  <2>4. /\ items' \in Seq(Response)
        /\ writes' \in Nat
        /\ doomed' \in BOOLEAN
        /\ Len(items') <= Limit
        /\ OneWriteOutstanding'
        /\ NoForgottenResponse'
        /\ WritingEnded'
    BY <1>5, <2>1, <2>2, <2>3, SendInv DEF OnReadNewRoom
  <2>5. reads' \in Nat /\ ReadsHaveRoom'
    BY <1>5, <2>1, <2>4, ReadOnInv DEF OnReadNewRoom
  <2> QED
    BY <1>5, <2>1, <2>4, <2>5
       DEF OnReadNewRoom, ReadCompletes, IInv, TypeOK, Branches,
           QueueWithinLimit, Starting
<1>6. CASE OnReadExistingRoom
  <2>1. reads = 1 /\ received' = received + 1 /\ received' \in 1..MaxRequests
    BY <1>1, <1>6 DEF OnReadExistingRoom, ReadCompletes, IInv, TypeOK
  <2>2. PICK eof \in BOOLEAN : Send([req |-> received + 1, eof |-> eof])
    BY <1>6 DEF OnReadExistingRoom
  <2>3. [req |-> received + 1, eof |-> eof] \in Response
    BY <2>1 DEF Response
  <2>4. /\ items' \in Seq(Response)
        /\ writes' \in Nat
        /\ doomed' \in BOOLEAN
        /\ Len(items') <= Limit
        /\ OneWriteOutstanding'
        /\ NoForgottenResponse'
        /\ WritingEnded'
    BY <1>6, <2>1, <2>2, <2>3, SendInv DEF OnReadExistingRoom
  <2>5. reads' = 0
    BY <1>6, <2>1 DEF OnReadExistingRoom
  <2> QED
    BY <1>6, <2>1, <2>4, <2>5
       DEF OnReadExistingRoom, ReadCompletes, IInv, TypeOK, Branches,
           ReadsHaveRoom, QueueWithinLimit, Starting
<1>7. CASE OnReadUpgrade
  BY <1>1, <1>7
     DEF OnReadUpgrade, ReadCompletes, IInv, TypeOK, Branches, Streams,
         ReadsHaveRoom, QueueWithinLimit, OneWriteOutstanding,
         NoForgottenResponse, WritingEnded, Starting
<1>8. CASE OnReadEof
  BY <1>1, <1>8
     DEF OnReadEof, DoEof, IInv, TypeOK, Branches, Streams,
         ReadsHaveRoom, QueueWithinLimit, OneWriteOutstanding,
         NoForgottenResponse, WritingEnded, Starting
<1>9. CASE OnReadFail
  BY <1>1, <1>9
     DEF OnReadFail, IInv, TypeOK, Branches, Streams,
         ReadsHaveRoom, QueueWithinLimit, OneWriteOutstanding,
         NoForgottenResponse, WritingEnded, Starting
<1>10. writes > 0 =>
         /\ writes = 1
         /\ items \in Seq(Response)
         /\ items # <<>>
         /\ Head(items) \in Response
         /\ Head(items).req \in 1..MaxRequests
         /\ Tail(items) \in Seq(Response)
         /\ Len(Tail(items)) = Len(items) - 1
         /\ ~failed
         /\ ~eofSent
         /\ stream \notin {"detect", "handshake"}
  <2> SUFFICES ASSUME writes > 0
      PROVE  /\ writes = 1
             /\ items \in Seq(Response)
             /\ items # <<>>
             /\ Head(items) \in Response
             /\ Head(items).req \in 1..MaxRequests
             /\ Tail(items) \in Seq(Response)
             /\ Len(Tail(items)) = Len(items) - 1
             /\ ~failed
             /\ ~eofSent
             /\ stream \notin {"detect", "handshake"}
    OBVIOUS
  <2>1. writes = 1 /\ items \in Seq(Response) /\ items # <<>>
    BY DEF IInv, TypeOK, OneWriteOutstanding
  <2>2. Head(items) \in Response
    BY <2>1
  <2>3. Head(items).req \in 1..MaxRequests
    BY <2>2 DEF Response
  <2>4. Tail(items) \in Seq(Response) /\ Len(Tail(items)) = Len(items) - 1
    BY <2>1
  <2>5. ~failed /\ ~eofSent /\ stream \notin {"detect", "handshake"}
    BY <2>1 DEF IInv, WritingEnded, Starting
  <2> QED
    BY <2>1, <2>2, <2>3, <2>4, <2>5
<1>11. CASE OnWrite
  <2>1. items' = Tail(items) /\ writes > 0
    BY <1>11 DEF OnWrite, QueueOnWrite
  <2>2. items' \in Seq(Response) /\ Len(items') = Len(items) - 1
    BY <1>10, <2>1
  <2>3. /\ writes' = IF items' = <<>> THEN 0 ELSE 1
        /\ doomed' \in BOOLEAN
    BY <1>10, <1>11, <2>1 DEF OnWrite, QueueOnWrite
  <2>4. reads' \in Nat /\ ReadsHaveRoom'
    BY <1>10, <1>11, <2>1, <2>2
       DEF OnWrite, QueueOnWrite, IsFull, IInv, TypeOK, ReadsHaveRoom,
           QueueWithinLimit
  <2>5. wire' \in Seq(1..MaxRequests)
    BY <1>10, <1>11, <2>1 DEF OnWrite, IInv, TypeOK
  <2> QED
    BY <1>10, <1>11, <2>1, <2>2, <2>3, <2>4, <2>5
       DEF OnWrite, IInv, TypeOK, QueueWithinLimit, OneWriteOutstanding,
           NoForgottenResponse, WritingEnded, Starting
<1>12. CASE OnWriteClose
  <2>1. wire' \in Seq(1..MaxRequests)
    BY <1>10, <1>12 DEF OnWriteClose, IInv, TypeOK
  <2> QED
    BY <1>10, <1>12, <2>1
       DEF OnWriteClose, DoEof, IInv, TypeOK, Streams, ReadsHaveRoom,
           QueueWithinLimit, OneWriteOutstanding, NoForgottenResponse,
           WritingEnded, Starting
<1>13. CASE OnWriteFail
  <2>1. /\ writes = 1 /\ writes' = 0
        /\ doomed' = FALSE
        /\ failed' = TRUE
        /\ items # <<>>
        /\ UNCHANGED <<reads, items, stream, received, lastBranch, wire, eofSent>>
    BY <1>10, <1>13 DEF OnWriteFail
  <2>2. TypeOK'
    BY <2>1 DEF IInv, TypeOK
  <2>3. /\ ReadsHaveRoom' /\ QueueWithinLimit' /\ OneWriteOutstanding'
        /\ NoForgottenResponse' /\ WritingEnded' /\ Starting'
    BY <2>1
       DEF IInv, ReadsHaveRoom, QueueWithinLimit, OneWriteOutstanding,
           NoForgottenResponse, WritingEnded, Starting
  <2> QED
    BY <2>2, <2>3 DEF IInv
<1>14. CASE UNCHANGED vars
  BY <1>14
     DEF vars, IInv, TypeOK, ReadsHaveRoom, QueueWithinLimit,
         OneWriteOutstanding, NoForgottenResponse, WritingEnded, Starting
<1> QED
  BY <1>2, <1>3, <1>4, <1>5, <1>6, <1>7, <1>8, <1>9, <1>11, <1>12, <1>13, <1>14
     DEF Next, OnRead, OnWriteAny

\* The strengthened invariant holds of every connection.
THEOREM Invariance == Spec => []IInv
BY InitInv, StepInv, PTL DEF Spec

\* The variables of a connection keep their types (HTTPSession's members).
THEOREM TypeCorrect == Spec => []TypeOK
<1>1. IInv => TypeOK
  BY DEF IInv
<1> QED
  BY <1>1, Invariance, PTL

\* Whatever the pipelining and however late the writes complete, the read loop
\* resumed from onRead and from onWrite has one read outstanding at a time.
THEOREM AtMostOneRead == Spec => []OneReadOutstanding
<1>1. IInv => OneReadOutstanding
  BY DEF IInv, ReadsHaveRoom, OneReadOutstanding
<1> QED
  BY <1>1, Invariance, PTL

\* The queue of responses never outgrows queue::limit: reading stops in time.
THEOREM Backpressure == Spec => []QueueWithinLimit
<1>1. IInv => QueueWithinLimit
  BY DEF IInv
<1> QED
  BY <1>1, Invariance, PTL

\* Writes never overlap, and onWrite's BOOST_ASSERT on a non-empty queue holds.
THEOREM AtMostOneWrite == Spec => []OneWriteOutstanding
<1>1. IInv => OneWriteOutstanding
  BY DEF IInv
<1> QED
  BY <1>1, Invariance, PTL

\* A queued response always has the write going that will reach it, unless a
\* write failed or a response closed the connection.
THEOREM NoneForgotten == Spec => []NoForgottenResponse
<1>1. IInv => NoForgottenResponse
  BY DEF IInv
<1> QED
  BY <1>1, Invariance, PTL

\* Nothing is written after a response that announced the end of the
\* connection: the queue keeps it at its head and no write is started.
THEOREM SilentAfterClose == Spec => NothingAfterClose
<1>1. IInv /\ [Next]_vars => [eofSent => wire' = wire]_vars
  <2> SUFFICES ASSUME IInv, [Next]_vars, eofSent PROVE wire' = wire
    BY DEF vars
  <2>1. ~(writes > 0)
    BY DEF IInv, TypeOK, WritingEnded
  <2> QED
    BY <2>1 DEF Next, OnDetect, OnHandshake, OnRead, OnReadIgnored,
                OnReadNewRoom, OnReadExistingRoom, OnReadUpgrade, OnReadEof,
                OnReadFail, OnWriteAny, OnWrite, OnWriteClose, OnWriteFail, vars
<1> QED
  BY <1>1, Invariance, PTL DEF Spec, NothingAfterClose

-----------------------------------------------------------------------------
\* While the branches of onRead read on, a read is outstanding or the queue is
\* full: both places that could stop reading agree on what full is.
LEMMA StepReads == IInv /\ ReadsOrIsFull /\ [Next]_vars => ReadsOrIsFull'
<1> SUFFICES ASSUME IInv, ReadsOrIsFull, [Next]_vars,
                    lastBranch' \in {"none", "ignored", "newRoom"}, stream' = "open", ~failed'
             PROVE  reads' = 1 \/ IsFull(items')
  BY DEF ReadsOrIsFull, IsFull
<1>1. reads \in Nat /\ reads <= 1
  BY DEF IInv, TypeOK, ReadsHaveRoom
<1>2. CASE OnDetect \/ OnHandshake
  BY <1>2 DEF OnDetect, OnHandshake, IInv, Starting
<1>3. CASE OnReadIgnored
  BY <1>1, <1>3 DEF OnReadIgnored, ReadCompletes, ReadOnUnlessFull
<1>4. CASE OnReadNewRoom
  BY <1>1, <1>4 DEF OnReadNewRoom, ReadCompletes, ReadOnUnlessFull
<1>5. CASE OnReadExistingRoom \/ OnReadUpgrade \/ OnReadEof \/ OnReadFail
  BY <1>5 DEF OnReadExistingRoom, OnReadUpgrade, OnReadEof, OnReadFail, ReadCompletes
<1>6. CASE OnWrite
  <2>1. reads = 1 \/ IsFull(items)
    BY <1>6 DEF OnWrite, ReadsOrIsFull
  <2>2. reads' = IF IsFull(items) THEN reads + 1 ELSE reads
    BY <1>6 DEF OnWrite, QueueOnWrite
  <2>3. reads = 1 => ~IsFull(items)
    BY LimitAssumption DEF IsFull, IInv, TypeOK, ReadsHaveRoom
  <2> QED
    BY <1>1, <2>1, <2>2, <2>3
<1>7. CASE OnWriteClose
  BY <1>7 DEF OnWriteClose, DoEof
<1>8. CASE OnWriteFail
  BY <1>8 DEF OnWriteFail
<1>9. CASE UNCHANGED vars
  BY <1>9 DEF vars, ReadsOrIsFull, IsFull
<1> QED
  BY <1>2, <1>3, <1>4, <1>5, <1>6, <1>7, <1>8, <1>9 DEF Next, OnRead, OnWriteAny

\* The read loop never stops by itself with room in the queue: onRead and
\* queue::onWrite agree on who reads next.
THEOREM ReadingResumes == Spec => []ReadsOrIsFull
<1>1. Init => ReadsOrIsFull
  BY DEF Init, ReadsOrIsFull
<1> QED
  BY <1>1, StepReads, Invariance, PTL DEF Spec

-----------------------------------------------------------------------------
\* Responses are to requests that came, on the wire as in the queue.
Answered ==
    /\ \A i \in DOMAIN wire : wire[i] <= received
    /\ \A i \in DOMAIN items : items[i].req <= received

\* The numbers of the requests that a queue answers: what FifoDelivery has pending.
Reqs(q) == [i \in DOMAIN q |-> q[i].req]

\* The elements of a sequence over S are in S.
LEMMA Elements ==
    ASSUME NEW S, NEW q \in Seq(S)
    PROVE  \A i \in DOMAIN q : q[i] \in S
OBVIOUS

\* The requests that a queue answers are a sequence as long as the queue.
LEMMA ReqsIsSeq ==
    ASSUME NEW q \in Seq(Response)
    PROVE  Reqs(q) \in Seq(1..MaxRequests) /\ Len(Reqs(q)) = Len(q)
<1>1. DOMAIN q = 1..Len(q) /\ Len(q) \in Nat
  OBVIOUS
<1>2. \A i \in 1..Len(q) : q[i].req \in 1..MaxRequests
  <2>1. \A i \in 1..Len(q) : q[i] \in Response
    OBVIOUS
  <2>2. \A r \in Response : r.req \in 1..MaxRequests
    BY DEF Response
  <2> QED
    BY <2>1, <2>2
<1>3. Reqs(q) = [i \in 1..Len(q) |-> q[i].req]
  BY <1>1 DEF Reqs
<1>4. [i \in 1..Len(q) |-> q[i].req] \in Seq(1..MaxRequests)
  BY <1>1, <1>2
<1>5. Len([i \in 1..Len(q) |-> q[i].req]) = Len(q)
  BY <1>1
<1> QED
  BY <1>3, <1>4, <1>5

\* Queueing a response appends the number of its request.
LEMMA ReqsAppend ==
    ASSUME NEW q \in Seq(Response), NEW r \in Response
    PROVE  Reqs(Append(q, r)) = Append(Reqs(q), r.req)
<1>1. Reqs(q) \in Seq(1..MaxRequests) /\ Len(Reqs(q)) = Len(q)
  BY ReqsIsSeq
<1>2. r.req \in 1..MaxRequests
  BY DEF Response
<1>3. Append(q, r) \in Seq(Response) /\ Len(Append(q, r)) = Len(q) + 1
  OBVIOUS
<1>4. /\ Append(Reqs(q), r.req) \in Seq(1..MaxRequests)
      /\ DOMAIN Append(Reqs(q), r.req) = 1..(Len(q) + 1)
  BY <1>1, <1>2
<1>5. DOMAIN Reqs(Append(q, r)) = 1..(Len(q) + 1)
  BY <1>3 DEF Reqs
<1>6. \A i \in 1..(Len(q) + 1) : Reqs(Append(q, r))[i] = Append(Reqs(q), r.req)[i]
  <2> SUFFICES ASSUME NEW i \in 1..(Len(q) + 1)
               PROVE  Append(q, r)[i].req = Append(Reqs(q), r.req)[i]
    BY <1>3 DEF Reqs
  <2>1. CASE i = Len(q) + 1
    BY <1>1, <1>2, <2>1
  <2>2. CASE i \in 1..Len(q)
    BY <1>1, <1>2, <2>2 DEF Reqs
  <2>3. Len(q) \in Nat
    OBVIOUS
  <2>4. i = Len(q) + 1 \/ i \in 1..Len(q)
    BY <2>3
  <2> QED
    BY <2>1, <2>2, <2>4, Zenon
<1> QED
  BY <1>1, <1>4, <1>5, <1>6 DEF Reqs

\* Taking the head off the queue takes the first number off.
LEMMA ReqsTail ==
    ASSUME NEW q \in Seq(Response), q # <<>>
    PROVE  /\ Reqs(q) # <<>>
           /\ Head(Reqs(q)) = Head(q).req
           /\ Reqs(Tail(q)) = Tail(Reqs(q))
<1>1. /\ DOMAIN q = 1..Len(q) /\ Len(q) \in Nat /\ Len(q) > 0
      /\ DOMAIN Tail(q) = 1..(Len(q) - 1)
      /\ \A i \in 1..(Len(q) - 1) : Tail(q)[i] = q[i + 1]
  OBVIOUS
<1>2. Reqs(q) \in Seq(1..MaxRequests) /\ Len(Reqs(q)) = Len(q)
  BY ReqsIsSeq
<1>3. Reqs(q) # <<>> /\ Head(Reqs(q)) = Head(q).req
  BY <1>1, <1>2 DEF Reqs
<1>4. /\ DOMAIN Tail(Reqs(q)) = 1..(Len(q) - 1)
      /\ \A i \in 1..(Len(q) - 1) : Tail(Reqs(q))[i] = Reqs(q)[i + 1]
      /\ Tail(Reqs(q)) \in Seq(1..MaxRequests)
  BY <1>1, <1>2, <1>3
<1>5. DOMAIN Reqs(Tail(q)) = 1..(Len(q) - 1)
  BY <1>1 DEF Reqs
<1>6. \A i \in 1..(Len(q) - 1) : Reqs(Tail(q))[i] = Tail(Reqs(q))[i]
  BY <1>1, <1>4 DEF Reqs
<1> QED
  BY <1>3, <1>4, <1>5, <1>6 DEF Reqs

-----------------------------------------------------------------------------
\* A new response is the youngest.
LEMMA AnsweredInit == Init => Answered
BY DEF Init, Answered

LEMMA AnsweredSend ==
    ASSUME IInv, Answered, received' = received + 1, wire' = wire, NEW r,
           r = [req |-> received + 1, eof |-> r.eof], items' = Append(items, r)
    PROVE  Answered'
<1>1. items \in Seq(Response) /\ received \in Nat /\ r.req = received + 1
  BY DEF IInv, TypeOK
<1>2. wire \in Seq(1..MaxRequests) /\ \A i \in DOMAIN wire : wire[i] \in Nat
  <2>1. wire \in Seq(1..MaxRequests)
    BY DEF IInv, TypeOK
  <2>2. \A i \in DOMAIN wire : wire[i] \in 1..MaxRequests
    BY <2>1, Elements
  <2> QED
    BY <2>1, <2>2
<1>3. \A i \in DOMAIN items : items[i].req \in Nat
  <2>1. \A i \in DOMAIN items : items[i] \in Response
    BY <1>1
  <2>2. \A m \in Response : m.req \in Nat
    BY DEF Response
  <2> QED
    BY <2>1, <2>2
<1>4. \A i \in DOMAIN items' : (i \in DOMAIN items /\ items'[i] = items[i]) \/ items'[i] = r
  BY <1>1
<1> QED
  BY <1>1, <1>2, <1>3, <1>4 DEF Answered

\* The numbers a connection has read and answered.
LEMMA StepAnswered == IInv /\ Answered /\ [Next]_vars => Answered'
<1> SUFFICES ASSUME IInv, Answered, [Next]_vars PROVE Answered'
  OBVIOUS
<1>a. /\ received \in Nat /\ items \in Seq(Response)
      /\ wire \in Seq(1..MaxRequests) /\ \A i \in DOMAIN wire : wire[i] \in Nat
  <2>1. wire \in Seq(1..MaxRequests) /\ received \in Nat /\ items \in Seq(Response)
    BY DEF IInv, TypeOK
  <2>2. \A i \in DOMAIN wire : wire[i] \in 1..MaxRequests
    BY <2>1, Elements
  <2> QED
    BY <2>1, <2>2
<1>b. \A i \in DOMAIN items : items[i].req \in Nat
  <2>1. \A i \in DOMAIN items : items[i] \in Response
    BY <1>a
  <2>2. \A m \in Response : m.req \in Nat
    BY DEF Response
  <2> QED
    BY <2>1, <2>2
<1>1. CASE received' \in {received, received + 1} /\ items' = items /\ wire' = wire
  BY <1>a, <1>b, <1>1 DEF Answered
<1>2. CASE OnReadNewRoom \/ OnReadExistingRoom
  <2>1. PICK eof \in BOOLEAN : Send([req |-> received + 1, eof |-> eof])
    BY <1>2 DEF OnReadNewRoom, OnReadExistingRoom
  <2> DEFINE r == [req |-> received + 1, eof |-> eof]
  <2>2. items' = Append(items, r) /\ r.eof = eof
    BY <2>1 DEF Send
  <2>3. received' = received + 1 /\ wire' = wire
    BY <1>2 DEF OnReadNewRoom, OnReadExistingRoom, ReadCompletes
  <2>4. r = [req |-> received + 1, eof |-> r.eof]
    BY <2>2
  <2> HIDE DEF r
  <2> QED
    BY <2>2, <2>3, <2>4, AnsweredSend
<1>3. CASE OnWrite \/ OnWriteClose
  <2>1. /\ writes > 0 /\ received' = received
        /\ wire' = Append(wire, Head(items).req)
        /\ items' = items \/ items' = Tail(items)
    BY <1>3 DEF OnWrite, OnWriteClose, QueueOnWrite
  <2>2. items # <<>>
    BY <2>1 DEF IInv, TypeOK, OneWriteOutstanding
  <2>3. Head(items) = items[1] /\ 1 \in DOMAIN items
    BY <1>a, <2>2
  <2>4. \A i \in DOMAIN items' : \E j \in DOMAIN items : items'[i] = items[j]
    <3>1. /\ DOMAIN items = 1..Len(items) /\ Len(items) \in Nat
          /\ DOMAIN Tail(items) = 1..(Len(items) - 1)
          /\ \A i \in 1..(Len(items) - 1) : Tail(items)[i] = items[i + 1]
      BY <1>a, <2>2
    <3>2. CASE items' = items
      BY <3>2
    <3>3. CASE items' = Tail(items)
      BY <3>1, <3>3
    <3> QED
      BY <2>1, <3>2, <3>3
  <2>5. \A i \in DOMAIN wire' :
          (i \in DOMAIN wire /\ wire'[i] = wire[i]) \/ wire'[i] = items[1].req
    BY <1>a, <2>1, <2>3
  <2> QED
    BY <2>1, <2>3, <2>4, <2>5 DEF Answered
<1> QED
  <2>1. CASE OnDetect \/ OnHandshake \/ OnReadIgnored \/ OnReadUpgrade \/ OnReadEof
             \/ OnReadFail \/ OnWriteFail
    BY <1>1, <2>1 DEF OnDetect, OnHandshake, OnReadIgnored, OnReadUpgrade, OnReadEof,
                      OnReadFail, OnWriteFail, ReadCompletes
  <2>2. CASE UNCHANGED vars
    BY <1>1, <2>2 DEF vars
  <2> QED
    BY <1>2, <1>3, <2>1, <2>2 DEF Next, OnRead, OnWriteAny

-----------------------------------------------------------------------------
\* What FifoDelivery has pending is what Unsent answers.
LEMMA OrderInit == Init => Order!Init
<1> SUFFICES ASSUME Init PROVE Order!Init
  OBVIOUS
<1>1. Unsent = <<>> /\ wire = <<>>
  BY DEF Init, Unsent
<1>2. [i \in DOMAIN Unsent |-> Unsent[i].req] = <<>>
  BY <1>1
<1> QED
  BY <1>1, <1>2 DEF Order!Init

\* A step that leaves the queue alone is no step of it.
LEMMA OrderStutters ==
    ASSUME items' = items, wire' = wire, eofSent' = eofSent
    PROVE  UNCHANGED Order!vars
BY DEF Order!vars, Unsent

\* Queueing the response to the latest request is accepting it.
LEMMA SendAccepts ==
    ASSUME IInv, Answered, NEW eof \in BOOLEAN, NEW n \in 1..MaxRequests, n = received + 1,
           items' = Append(items, [req |-> received + 1, eof |-> eof]),
           wire' = wire, eofSent' = eofSent
    PROVE  Order!Accept(n)
<1> DEFINE r == [req |-> received + 1, eof |-> eof]
<1>1. r \in Response /\ r.req = received + 1 /\ items' = Append(items, r)
  BY DEF Response
<1> HIDE DEF r
<1>2. items \in Seq(Response) /\ received \in Nat
  BY DEF IInv, TypeOK
<1>3. Unsent \in Seq(Response) /\ Unsent' = Append(Unsent, r)
  <2>1. CASE ~eofSent
    BY <1>1, <1>2, <2>1 DEF Unsent
  <2>2. CASE eofSent
    <3>1. items # <<>>
      BY <2>2 DEF IInv, WritingEnded
    <3>2. Tail(items) \in Seq(Response) /\ Tail(Append(items, r)) = Append(Tail(items), r)
      BY <1>1, <1>2, <3>1
    <3> QED
      BY <1>1, <2>2, <3>2 DEF Unsent
  <2> QED
    BY <2>1, <2>2
<1>4. Reqs(Unsent)' = Append(Reqs(Unsent), n)
  BY <1>1, <1>3, ReqsAppend DEF Reqs
<1>5. \A i \in DOMAIN Reqs(Unsent) : Reqs(Unsent)[i] < n
  <2> SUFFICES ASSUME NEW i \in DOMAIN Unsent PROVE Unsent[i].req < n
    BY DEF Reqs
  <2>1. \E j \in DOMAIN items : Unsent[i] = items[j]
    <3>1. CASE ~eofSent
      BY <3>1 DEF Unsent
    <3>2. CASE eofSent
      <4>1. items # <<>>
        BY <3>2 DEF IInv, WritingEnded
      <4>2. i + 1 \in DOMAIN items /\ Unsent[i] = items[i + 1]
        BY <1>2, <3>2, <4>1 DEF Unsent
      <4> QED
        BY <4>2
    <3> QED
      BY <3>1, <3>2
  <2>2. Unsent[i].req <= received
    BY <2>1 DEF Answered
  <2>3. Unsent[i] \in Response
    BY <1>3
  <2>4. Unsent[i].req \in Nat
    BY <2>3 DEF Response
  <2> QED
    BY <1>2, <2>2, <2>4
<1>6. \A i \in DOMAIN wire : wire[i] < n
  <2>1. wire \in Seq(1..MaxRequests)
    BY DEF IInv, TypeOK
  <2>2. \A i \in DOMAIN wire : wire[i] \in 1..MaxRequests
    BY <2>1, Elements
  <2> QED
    BY <1>2, <2>2 DEF Answered
<1> QED
  BY <1>4, <1>5, <1>6 DEF Order!Accept, Reqs

\* Writing the head of the queue is delivering it.
LEMMA WriteDelivers ==
    ASSUME IInv, writes > 0, OnWrite \/ OnWriteClose
    PROVE  Order!Deliver
<1>1. items \in Seq(Response) /\ items # <<>> /\ ~eofSent
  BY DEF IInv, TypeOK, OneWriteOutstanding, WritingEnded
<1>2. Unsent = items /\ wire' = Append(wire, Head(items).req)
  BY <1>1 DEF Unsent, OnWrite, OnWriteClose
<1>3. Unsent' = Tail(items)
  BY <1>1 DEF Unsent, OnWrite, OnWriteClose, QueueOnWrite
<1>4. /\ Reqs(Unsent) # <<>> /\ Head(Reqs(Unsent)) = Head(items).req
      /\ Reqs(Unsent)' = Tail(Reqs(Unsent))
  BY <1>1, <1>2, <1>3, ReqsTail DEF Reqs
<1> QED
  BY <1>2, <1>4 DEF Order!Deliver, Reqs

\* Every step of the connection is a step of FifoDelivery or a stutter.
LEMMA OrderStep == IInv /\ Answered /\ [Next]_vars => [Order!Next]_(Order!vars)
<1> SUFFICES ASSUME IInv, Answered, [Next]_vars PROVE [Order!Next]_(Order!vars)
  OBVIOUS
<1>1. CASE OnReadNewRoom \/ OnReadExistingRoom
  <2>1. PICK eof \in BOOLEAN : Send([req |-> received + 1, eof |-> eof])
    BY <1>1 DEF OnReadNewRoom, OnReadExistingRoom
  <2>2. /\ items' = Append(items, [req |-> received + 1, eof |-> eof])
        /\ wire' = wire /\ eofSent' = eofSent
    BY <1>1, <2>1 DEF OnReadNewRoom, OnReadExistingRoom, Send
  <2>3. PICK n \in 1..MaxRequests : n = received + 1
    BY <1>1, MaxRequestsAssumption
       DEF OnReadNewRoom, OnReadExistingRoom, ReadCompletes, IInv, TypeOK
  <2>4. Order!Accept(n)
    BY <2>2, <2>3, SendAccepts
  <2> QED
    BY <2>4 DEF Order!Next
<1>2. CASE OnWrite \/ OnWriteClose
  BY <1>2, WriteDelivers DEF OnWrite, OnWriteClose, Order!Next
<1>3. CASE OnDetect \/ OnHandshake \/ OnReadIgnored \/ OnReadUpgrade \/ OnReadEof \/ OnReadFail
           \/ OnWriteFail
  BY <1>3, OrderStutters DEF OnDetect, OnHandshake, OnReadIgnored, OnReadUpgrade, OnReadEof,
                             OnReadFail, OnWriteFail
<1>4. CASE UNCHANGED vars
  BY <1>4, OrderStutters DEF vars
<1> QED
  BY <1>1, <1>2, <1>3, <1>4 DEF Next, OnRead, OnWriteAny

\* Responses leave in the order of their requests, each once, however many
\* requests a client pipelines: the connection implements FifoDelivery.
THEOREM DeliversInOrder == Spec => ImplementsFifoDelivery
BY Invariance, AnsweredInit, StepAnswered, OrderInit, OrderStep, PTL
   DEF Spec, ImplementsFifoDelivery, Order!Spec

==============================================================================

--------------------------- MODULE WebsocketSession ---------------------------
(***************************************************************************)
(* The outgoing side of one websocket session: queue_, send(), doWrite()   *)
(* and onWrite(), from the moment the session joined its room.  send() is  *)
(* called by Room::broadcastWS under the room's mutexWS_, on whatever      *)
(* thread broadcasts; onWrite() runs on the session's own strand and takes *)
(* no lock.  With one server thread the two never overlap; with more they  *)
(* do, step by step.                                                       *)
(* A definition Name_How is Name with a fault in it; it is no part of the   *)
(* specification and only tests the properties.                            *)
(***************************************************************************)
EXTENDS Naturals, Sequences

CONSTANTS
    Threads,      \* threads that run the io_context (main.cpp)
    MaxMessages   \* bound: messages broadcast to this session

ASSUME ThreadsAssumption == Threads \in Nat \ {0}
ASSUME MaxMessagesAssumption == MaxMessages \in Nat

VARIABLES
    queue,      \* queue_
    sent,       \* messages handed to send() so far; message n is the n-th
    sender,     \* where the call of send() under mutexWS_ is
    ownStrand,  \* that call runs on this session's strand
    strand,     \* where the handler on this session's strand is
    seen,       \* queue_ as erase() found it
    writes,     \* outstanding ws().async_write operations, oldest first
    doomed,     \* a write was started on a closed stream
    wire,       \* history: messages written, in order
    stream,     \* "open", "closing" (close() was called) or "closed"
    inTable,    \* the session is in the room's websocketSessions_
    aborted     \* the process died of an assertion or of undefined behaviour

vars == <<queue, sent, sender, ownStrand, strand, seen, writes, doomed, wire,
          stream, inTable, aborted>>

Messages == 1..MaxMessages

\* The handlers that are running, each on a thread of its own.
Running ==
    (IF sender = "idle" THEN 0 ELSE 1) + (IF strand = "idle" THEN 0 ELSE 1)

\* Only one handler at a time runs on the session's strand.
StrandFree == strand = "idle" /\ (sender = "idle" \/ ~ownStrand)
CanStart == ~aborted /\ Running < Threads

-----------------------------------------------------------------------------
\* ws().async_write(front()).  There is no front() of an empty queue, and a
\* second write is an assertion in a debug build and waits in a release build.
DoWrite ==
    IF queue = <<>>
    THEN aborted' = TRUE /\ UNCHANGED <<writes, doomed>>
    ELSE \/ /\ writes' = Append(writes, Head(queue))
            /\ doomed' = (doomed \/ stream = "closed")
            /\ UNCHANGED aborted
         \/ /\ writes # <<>>
            /\ aborted' = TRUE
            /\ UNCHANGED <<writes, doomed>>

Init ==
    /\ queue = <<>>
    /\ sent = 0
    /\ sender = "idle"
    /\ ownStrand = FALSE
    /\ strand = "idle"
    /\ seen = <<>>
    /\ writes = <<>>
    /\ doomed = FALSE
    /\ wire = <<>>
    /\ stream = "open"
    /\ inTable = TRUE
    /\ aborted = FALSE

-----------------------------------------------------------------------------
(* send(), called with mutexWS_ held. *)

\* queue_.push_back: from a handler of this session or from another's.
SendPush_Previous(own) ==
    /\ sender = "idle"
    /\ inTable
    /\ sent < MaxMessages
    /\ CanStart
    /\ own => StrandFree
    /\ sent' = sent + 1
    /\ queue' = Append(queue, sent)
    /\ sender' = "pushed"
    /\ ownStrand' = own
    /\ UNCHANGED <<strand, seen, writes, doomed, wire, stream, inTable,
                   aborted>>
SendPush_Front(own) ==
    /\ sender = "idle"
    /\ inTable
    /\ sent < MaxMessages
    /\ CanStart
    /\ own => StrandFree
    /\ sent' = sent + 1
    /\ queue' = <<sent + 1>> \o queue
    /\ sender' = "pushed"
    /\ ownStrand' = own
    /\ UNCHANGED <<strand, seen, writes, doomed, wire, stream, inTable,
                   aborted>>
SendPush(own) ==
    /\ sender = "idle"
    /\ inTable
    /\ sent < MaxMessages
    /\ CanStart
    /\ own => StrandFree
    /\ sent' = sent + 1
    /\ queue' = Append(queue, sent + 1)
    /\ sender' = "pushed"
    /\ ownStrand' = own
    /\ UNCHANGED <<strand, seen, writes, doomed, wire, stream, inTable,
                   aborted>>

\* "Are we already writing?": queue_.size() > 1.
SendTest_NotEmpty ==
    /\ ~aborted /\ sender = "pushed"
    /\ sender' = IF queue # <<>> THEN "write" ELSE "idle"
    /\ UNCHANGED <<queue, sent, ownStrand, strand, seen, writes, doomed, wire,
                   stream, inTable, aborted>>
SendTest_OffByOne ==
    /\ ~aborted /\ sender = "pushed"
    /\ sender' = IF Len(queue) >= 1 THEN "idle" ELSE "write"
    /\ UNCHANGED <<queue, sent, ownStrand, strand, seen, writes, doomed, wire,
                   stream, inTable, aborted>>
SendTest ==
    /\ ~aborted /\ sender = "pushed"
    /\ sender' = IF Len(queue) > 1 THEN "idle" ELSE "write"
    /\ UNCHANGED <<queue, sent, ownStrand, strand, seen, writes, doomed, wire,
                   stream, inTable, aborted>>

SendWrite ==
    /\ ~aborted /\ sender = "write"
    /\ sender' = "idle"
    /\ DoWrite
    /\ UNCHANGED <<queue, sent, ownStrand, strand, seen, wire, stream, inTable>>

-----------------------------------------------------------------------------
(* onWrite(), on the session's strand, without a lock. *)

\* The oldest write completed, in time if the stream was closed since, and its
\* handler enters queue_.erase.
OnWrite ==
    /\ writes # <<>>
    /\ ~doomed
    /\ CanStart /\ StrandFree
    /\ writes' = Tail(writes)
    /\ wire' = Append(wire, Head(writes))
    /\ strand' = "erase"
    /\ seen' = queue
    /\ UNCHANGED <<queue, sent, sender, ownStrand, doomed, stream, inTable,
                   aborted>>

\* erase(begin()).  Overlapping a push_back it is a data race: both updates
\* survive, the push is lost, or the vector is corrupted.
OnWriteErase ==
    /\ ~aborted /\ strand = "erase"
    /\ IF queue = <<>> \/ seen = <<>>
       THEN aborted' = TRUE /\ UNCHANGED <<queue, strand>>
       ELSE /\ strand' = "test"
            /\ \/ queue' = Tail(queue) /\ UNCHANGED aborted
               \/ queue # seen /\ queue' = Tail(seen) /\ UNCHANGED aborted
               \/ queue # seen /\ aborted' = TRUE /\ UNCHANGED queue
    /\ UNCHANGED <<sent, sender, ownStrand, seen, writes, doomed, wire, stream,
                   inTable>>

\* Write the next message if there is one.
OnWriteTest_Stops ==
    /\ ~aborted /\ strand = "test"
    /\ strand' = "idle"
    /\ UNCHANGED <<queue, sent, sender, ownStrand, seen, writes, doomed, wire,
                   stream, inTable, aborted>>
OnWriteTest ==
    /\ ~aborted /\ strand = "test"
    /\ strand' = "idle"
    /\ IF queue = <<>> THEN UNCHANGED <<writes, doomed, aborted>> ELSE DoWrite
    /\ UNCHANGED <<queue, sent, sender, ownStrand, seen, wire, stream, inTable>>

\* The write failed: fail() leaves the room; the queue is left as it is.
OnWriteFail ==
    /\ writes # <<>>
    /\ CanStart /\ StrandFree
    /\ writes' = Tail(writes)
    /\ stream' = "closed"
    /\ strand' = "leave"
    /\ UNCHANGED <<queue, sent, sender, ownStrand, seen, doomed, wire, inTable,
                   aborted>>

-----------------------------------------------------------------------------
(* The end of the session. *)

\* Room::shutdown calls close(): a write that is not done yet may fail.
Close ==
    /\ stream = "open"
    /\ inTable
    /\ CanStart
    /\ stream' = "closing"
    /\ UNCHANGED <<queue, sent, sender, ownStrand, strand, seen, writes,
                   doomed, wire, inTable, aborted>>

\* onRead(websocket::error::closed): the close handshake ended; just return.
OnReadClosed ==
    /\ stream # "closed"
    /\ CanStart /\ StrandFree
    /\ stream' = "closed"
    /\ UNCHANGED <<queue, sent, sender, ownStrand, strand, seen, writes,
                   doomed, wire, inTable, aborted>>

\* onRead with another error, a timeout included: fail() leaves the room.
OnReadFail ==
    /\ stream # "closed"
    /\ CanStart /\ StrandFree
    /\ stream' = "closed"
    /\ strand' = "leave"
    /\ UNCHANGED <<queue, sent, sender, ownStrand, seen, writes, doomed, wire,
                   inTable, aborted>>

\* fail(): leaveWS waits for mutexWS_, which the sender holds.
Leave_NoLock ==
    /\ ~aborted /\ strand = "leave"
    /\ inTable' = FALSE
    /\ strand' = "idle"
    /\ UNCHANGED <<queue, sent, sender, ownStrand, seen, writes, doomed, wire,
                   stream, aborted>>
Leave_Skipped ==
    /\ ~aborted /\ strand = "leave"
    /\ sender = "idle"
    /\ strand' = "idle"
    /\ UNCHANGED <<queue, sent, sender, ownStrand, seen, writes, doomed, wire,
                   stream, inTable, aborted>>
Leave ==
    /\ ~aborted /\ strand = "leave"
    /\ sender = "idle"
    /\ inTable' = FALSE
    /\ strand' = "idle"
    /\ UNCHANGED <<queue, sent, sender, ownStrand, seen, writes, doomed, wire,
                   stream, aborted>>

-----------------------------------------------------------------------------
Sends == SendTest \/ SendWrite \/ \E own \in BOOLEAN : SendPush(own)
Writing == OnWrite \/ OnWriteErase \/ OnWriteTest \/ OnWriteFail
Ending == Close \/ OnReadClosed \/ OnReadFail \/ Leave

Next == Sends \/ Writing \/ Ending

Spec == Init /\ [][Next]_vars

\* A handler that has started runs on, and an outstanding write completes: the
\* stream has beast's suggested timeouts.  No client need send or close anything.
FairSpec ==
    /\ Spec
    /\ WF_vars(SendTest \/ SendWrite)
    /\ WF_vars(Writing)
    /\ WF_vars(Leave)

-----------------------------------------------------------------------------
TypeOK ==
    /\ queue \in Seq(Messages)
    /\ sent \in 0..MaxMessages
    /\ sender \in {"idle", "pushed", "write"}
    /\ ownStrand \in BOOLEAN
    /\ strand \in {"idle", "erase", "test", "leave"}
    /\ seen \in Seq(Messages)
    /\ writes \in Seq(Messages)
    /\ doomed \in BOOLEAN
    /\ wire \in Seq(Messages)
    /\ stream \in {"open", "closing", "closed"}
    /\ inTable \in BOOLEAN
    /\ aborted \in BOOLEAN

\* "Are we already writing?" (WebsocketSession.cpp:195) keeps the session to one
\* async_write at a time.
OneWriteAtATime == Len(writes) <= 1

\* And neither front() nor erase() meets an empty queue.
SingleWriter == OneWriteAtATime /\ ~aborted

\* A message waits only behind a write that will reach it: in an open session
\* whose handlers are done, a queue that is not empty is being written.
NoStall ==
    (queue # <<>> /\ stream = "open" /\ Running = 0) => writes # <<>>

\* What the client gets are the broadcast messages, in order, each once.
Pending == IF strand = "erase" THEN Tail(queue) ELSE queue
Channel == INSTANCE FifoDelivery
             WITH Items <- Messages, pending <- Pending, delivered <- wire
ImplementsFifoDelivery == Channel!Spec

\* Every message is written while the session stays open.
EveryMessageWritten ==
    \A n \in Messages :
        (sent >= n) ~> (stream # "open" \/ \E i \in DOMAIN wire : wire[i] = n)

\* A closed session with messages left in its queue does not stay in its room,
\* where more would be queued for it: either the write under way was still in
\* time, or it fails and the session leaves.
FailedLeaves ==
    (stream = "closed" /\ queue # <<>>) ~> (~inTable \/ queue = <<>> \/ aborted)

\* A broadcast never sends to a session that has left: leaveWS waits for it.
LeftIsQuiet == ~inTable => sender = "idle"

\* However push and erase race, messages may be lost or repeated but never
\* overtake each other.
OrderKept ==
    \A i, j \in DOMAIN wire : i < j => wire[i] <= wire[j]

==============================================================================

----------------------------- MODULE HTTPSession -----------------------------
(***************************************************************************)
(* One HTTP connection (SSLDetector, then HTTPSession in its plain or TLS  *)
(* form): the start, the read loop, the bounded queue of responses and the *)
(* hand-over of the socket to a websocket session.  Every handler of a     *)
(* connection runs on the connection's strand, so a handler is one atomic  *)
(* action.  What handleRequest computes is abstracted to the one response  *)
(* it sends; the actions differ in which branch of onRead a request takes. *)
(* A definition Name_How is Name with a fault in it; it is no part of the   *)
(* specification and only tests the properties.                            *)
(***************************************************************************)
EXTENDS Naturals, Sequences

CONSTANTS
    Limit,         \* queue::limit, 64 in the code
    MaxRequests    \* bound: requests the client sends on this connection

ASSUME LimitAssumption == Limit \in Nat \ {0}
ASSUME MaxRequestsAssumption == MaxRequests \in Nat

VARIABLES
    reads,      \* outstanding http::async_read operations
    items,      \* queue_.items_: the responses accepted, the head being written
    writes,     \* outstanding http::async_write operations
    doomed,     \* the outstanding write was started on an unusable stream
    stream,     \* the stream: "detect" (SSLDetector), "handshake", "open",
                \* "shut" (send side), "closed" or "moved"
    received,   \* requests parsed so far; request n is the n-th of them
    lastBranch, \* the branch of onRead its latest call took
    wire,       \* history: requests whose response was written, in order
    failed,     \* history: a write ended in fail()
    eofSent     \* history: a response that needs EOF was written

vars == <<reads, items, writes, doomed, stream, received, lastBranch,
          wire, failed, eofSent>>

Branches ==
    {"none", "ignored", "newRoom", "existingRoom", "upgrade", "eof", "error"}
Streams == {"detect", "handshake", "open", "shut", "closed", "moved"}
Response == [req : 1..MaxRequests, eof : BOOLEAN]

-----------------------------------------------------------------------------
\* queue::isFull
IsFull_OffByOne(q) == Len(q) > Limit
IsFull(q) == Len(q) >= Limit

\* queue::operator(): append the response, write it at once if it is alone.
Send_AlwaysWrites(r) ==
    /\ items' = Append(items, r)
    /\ writes' = writes + 1
    /\ doomed' = (doomed \/ stream # "open")
Send_Front(r) ==
    /\ items' = <<r>> \o items
    /\ IF items = <<>>
       THEN writes' = writes + 1 /\ doomed' = (stream # "open")
       ELSE UNCHANGED <<writes, doomed>>
Send(r) ==
    /\ items' = Append(items, r)
    /\ IF items = <<>>
       THEN writes' = writes + 1 /\ doomed' = (stream # "open")
       ELSE UNCHANGED <<writes, doomed>>

\* doEof: shut the send side down.  On a stream that was closed or moved away
\* the shutdown has no effect and its error is dropped.
DoEof == stream' = IF stream = "open" THEN "shut" ELSE stream

\* A connection starts with SSLDetector looking at its first bytes.
Init ==
    /\ stream = "detect"
    /\ reads = 0
    /\ items = <<>>
    /\ writes = 0
    /\ doomed = FALSE
    /\ received = 0
    /\ lastBranch = "none"
    /\ wire = <<>>
    /\ failed = FALSE
    /\ eofSent = FALSE

\* SSLDetector::onDetect and run() of the session it makes: a plain session
\* reads, a TLS session shakes hands first.
OnDetect ==
    /\ stream = "detect"
    /\ \/ stream' = "open" /\ reads' = 1
       \/ stream' \in {"handshake", "closed"} /\ UNCHANGED reads
    /\ UNCHANGED <<items, writes, doomed, received, lastBranch, wire, failed,
                   eofSent>>

\* SSLHTTPSession::onHandshake: read, or log and let the session go.
OnHandshake ==
    /\ stream = "handshake"
    /\ \/ stream' = "open" /\ reads' = 1
       \/ stream' = "closed" /\ UNCHANGED reads
    /\ UNCHANGED <<items, writes, doomed, received, lastBranch, wire, failed,
                   eofSent>>

-----------------------------------------------------------------------------
(* Completions of http::async_read (HTTPSession::onRead). *)

\* The client's next request arrives whole.
ReadCompletes(branch) ==
    /\ reads > 0
    /\ stream \in {"open", "shut"}
    /\ received < MaxRequests
    /\ received' = received + 1
    /\ lastBranch' = branch

\* onRead's last statement: read on unless the queue is full.
ReadOnUnlessFull_Always(q) == reads' = reads
ReadOnUnlessFull(q) == reads' = IF IsFull(q) THEN reads - 1 ELSE reads

\* favicon.ico, or a resource or API of a room that does not exist: nothing is
\* sent and the connection reads on.
OnReadIgnored ==
    /\ ReadCompletes("ignored")
    /\ ReadOnUnlessFull(items)
    /\ UNCHANGED <<items, writes, doomed, stream, wire, failed, eofSent>>

\* A new room is created and the request handled in it; then read on.
OnReadNewRoom ==
    /\ ReadCompletes("newRoom")
    /\ \E eof \in BOOLEAN : Send([req |-> received + 1, eof |-> eof])
    /\ ReadOnUnlessFull(items')
    /\ UNCHANGED <<stream, wire, failed, eofSent>>

\* The request is handled in its room and onRead returns without reading on.
OnReadExistingRoom ==
    /\ ReadCompletes("existingRoom")
    /\ \E eof \in BOOLEAN : Send([req |-> received + 1, eof |-> eof])
    /\ reads' = reads - 1
    /\ UNCHANGED <<stream, wire, failed, eofSent>>

\* A websocket upgrade of an existing room: the stream is moved out.
OnReadUpgrade ==
    /\ ReadCompletes("upgrade")
    /\ reads' = reads - 1
    /\ stream' = "moved"
    /\ UNCHANGED <<items, writes, doomed, wire, failed, eofSent>>

\* http::error::end_of_stream: the client closed its side.
OnReadEof_NoRead ==
    /\ stream \in {"open", "shut"}
    /\ reads' = reads - 1
    /\ lastBranch' = "eof"
    /\ DoEof
    /\ UNCHANGED <<items, writes, doomed, received, wire, failed, eofSent>>
OnReadEof ==
    /\ reads > 0
    /\ stream \in {"open", "shut"}
    /\ reads' = reads - 1
    /\ lastBranch' = "eof"
    /\ DoEof
    /\ UNCHANGED <<items, writes, doomed, received, wire, failed, eofSent>>

\* Any other error: a malformed request leaves the socket as it is, a reset or
\* the 30 second timeout closes it.  fail() only logs.
OnReadFail ==
    /\ reads > 0
    /\ reads' = reads - 1
    /\ lastBranch' = "error"
    /\ stream' \in {stream, "closed"}
    /\ UNCHANGED <<items, writes, doomed, received, wire, failed, eofSent>>

-----------------------------------------------------------------------------
(* Completions of http::async_write (HTTPSession::onWrite, queue::onWrite). *)

\* queue::onWrite: drop the written response, write the next one if there is
\* one, and read again if the queue was full.
QueueOnWrite_WasFullAfterErase ==
    /\ items' = Tail(items)
    /\ writes' = IF items' = <<>> THEN writes - 1 ELSE writes
    /\ doomed' = (items' # <<>> /\ stream # "open")
    /\ reads' = IF IsFull(items') THEN reads + 1 ELSE reads
QueueOnWrite_NoNext ==
    /\ items' = Tail(items)
    /\ writes' = writes - 1
    /\ doomed' = FALSE
    /\ reads' = IF IsFull(items) THEN reads + 1 ELSE reads
QueueOnWrite ==
    /\ items' = Tail(items)
    /\ writes' = IF items' = <<>> THEN writes - 1 ELSE writes
    /\ doomed' = (items' # <<>> /\ stream # "open")
    /\ reads' = IF IsFull(items) THEN reads + 1 ELSE reads

\* The response is on the wire and did not ask to close.
OnWrite ==
    /\ writes > 0
    /\ ~doomed
    /\ ~Head(items).eof
    /\ wire' = Append(wire, Head(items).req)
    /\ QueueOnWrite
    /\ UNCHANGED <<stream, received, lastBranch, failed, eofSent>>

\* The response is on the wire and needs EOF: the queue is left as it is.
OnWriteClose_GoesOn ==
    /\ writes > 0
    /\ ~doomed
    /\ Head(items).eof
    /\ wire' = Append(wire, Head(items).req)
    /\ eofSent' = TRUE
    /\ QueueOnWrite
    /\ DoEof
    /\ UNCHANGED <<received, lastBranch, failed>>
OnWriteClose ==
    /\ writes > 0
    /\ ~doomed
    /\ Head(items).eof
    /\ wire' = Append(wire, Head(items).req)
    /\ eofSent' = TRUE
    /\ writes' = writes - 1
    /\ DoEof
    /\ UNCHANGED <<reads, items, doomed, received, lastBranch, failed>>

\* The write failed: fail() logs and the queue is left as it is.
OnWriteFail ==
    /\ writes > 0
    /\ writes' = writes - 1
    /\ doomed' = FALSE
    /\ failed' = TRUE
    /\ UNCHANGED <<reads, items, stream, received, lastBranch, wire, eofSent>>

-----------------------------------------------------------------------------
OnRead ==
    \/ OnReadIgnored
    \/ OnReadNewRoom
    \/ OnReadExistingRoom
    \/ OnReadUpgrade
    \/ OnReadEof
    \/ OnReadFail

OnWriteAny == OnWrite \/ OnWriteClose \/ OnWriteFail

Next == OnDetect \/ OnHandshake \/ OnRead \/ OnWriteAny

Spec == Init /\ [][Next]_vars

\* doRead sets a 30 second deadline on the stream, so an outstanding read always
\* completes, and so does a write as long as the stream is neither shut nor
\* handed over (the upgrade cancels the deadline).
FairSpec ==
    /\ Spec
    /\ WF_vars(OnDetect \/ OnHandshake)
    /\ WF_vars(OnRead)
    /\ WF_vars(stream = "open" /\ OnWriteAny)

-----------------------------------------------------------------------------
TypeOK ==
    /\ reads \in Nat
    /\ items \in Seq(Response)
    /\ writes \in Nat
    /\ doomed \in BOOLEAN
    /\ stream \in Streams
    /\ received \in 0..MaxRequests
    /\ lastBranch \in Branches
    /\ wire \in Seq(1..MaxRequests)
    /\ failed \in BOOLEAN
    /\ eofSent \in BOOLEAN

\* A connection never has two reads outstanding: the read loop is resumed from
\* onRead and from onWrite, and never from both for the same request.
OneReadOutstanding == reads <= 1

\* The queue of responses never outgrows queue::limit, whatever the client
\* pipelines and however late the writes complete.
QueueWithinLimit == Len(items) <= Limit

\* There is never more than one write outstanding, and onWrite always finds the
\* response it wrote at the head of the queue (its BOOST_ASSERT).
OneWriteOutstanding == writes <= 1 /\ (writes = 1 => items # <<>>)

\* No response waits in the queue without a write under way, unless a write
\* failed or the connection was told to close.
NoForgottenResponse ==
    (items # <<>> /\ ~failed /\ ~eofSent) => writes = 1

\* Backpressure is released: after a request whose branch reads on, the
\* connection is reading or its queue is full (and then onWrite resumes it).
ReadsOrIsFull ==
    (lastBranch \in {"none", "ignored", "newRoom"} /\ stream = "open" /\ ~failed)
        => \/ reads = 1
           \/ IsFull(items)

\* Nothing is written behind a response that announced the end of the
\* connection.
NothingAfterClose ==
    [][eofSent => wire' = wire]_vars

\* The responses accepted and not yet on the wire.
Unsent == IF eofSent THEN Tail(items) ELSE items

\* Responses leave in the order of their requests, each once.
Order == INSTANCE FifoDelivery
            WITH Items <- 1..MaxRequests,
                 pending <- [i \in DOMAIN Unsent |-> Unsent[i].req],
                 delivered <- wire
ImplementsFifoDelivery == Order!Spec

\* Every response that was queued gets written, unless a write fails or the
\* connection ends.
EveryResponseSettles ==
    \A n \in 1..MaxRequests :
        (\E i \in DOMAIN items : items[i].req = n)
            ~> \/ \E i \in DOMAIN wire : wire[i] = n
               \/ failed
               \/ stream # "open"

-----------------------------------------------------------------------------
(* A statement of the code's comments that the code does not keep. *)

\* HTTPSession.cpp:568 closes the connection because "the response indicated the
\* Connection: close semantic": a healthy connection whose responses all said
\* keep-alive goes on reading once they are written.
KeepAliveHonoured ==
    (lastBranch = "existingRoom" /\ items = <<>> /\ stream = "open" /\ ~failed)
        => reads = 1

==============================================================================

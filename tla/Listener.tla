------------------------------ MODULE Listener ------------------------------
(***************************************************************************)
(* The acceptor and its loop: the constructor opens, binds and listens and  *)
(* gives up at the first error without a word to its caller; run() starts   *)
(* one accept, whose handler starts the next one whatever became of it.     *)
(* The actions are conjoined with those of Core, which owns the listener.   *)
(* A definition Name_How is Name with a fault in it; it is no part of the   *)
(* specification and only tests the properties.                            *)
(***************************************************************************)
EXTENDS Naturals

CONSTANT Connections   \* clients that connect

VARIABLES
    acceptor,   \* how far the constructor came; "none" if there is no listener
    accepts,    \* async_accept operations outstanding
    waiting     \* connections the kernel made that were not accepted yet

listenerVars == <<acceptor, accepts, waiting>>

\* The constructor returns at the first failing step: set_option or bind leave
\* the acceptor open, listen leaves it bound.  (If open fails, Core, which asks
\* for the port, throws.)
Stages == {"open", "bound", "listening"}

\* acceptor_.local_endpoint().port() is 0 unless the acceptor is bound.
HasPort == acceptor \in {"bound", "listening"}

ListenerInit ==
    /\ acceptor = "none"
    /\ accepts = 0
    /\ waiting = {}

Construct(stage) ==
    /\ acceptor' = stage
    /\ UNCHANGED <<accepts, waiting>>

\* Listener::run, doAccept
DoAccept ==
    /\ accepts' = accepts + 1
    /\ UNCHANGED <<acceptor, waiting>>

\* The kernel completes the handshake of a client: it waits to be accepted.
Connect(c) ==
    /\ acceptor = "listening"
    /\ c \notin waiting
    /\ waiting' = waiting \cup {c}
    /\ UNCHANGED <<acceptor, accepts>>

\* A connection gets a detector, which goes on without the listener (module
\* HTTPSession), and the next accept starts.
OnAccept_Twice(c) ==
    /\ accepts > 0
    /\ c \in waiting
    /\ waiting' = waiting \ {c}
    /\ accepts' = (accepts - 1) + 2
    /\ UNCHANGED acceptor
OnAccept(c) ==
    /\ accepts > 0
    /\ c \in waiting
    /\ waiting' = waiting \ {c}
    /\ accepts' = (accepts - 1) + 1
    /\ UNCHANGED acceptor

\* An accept fails, at once if the acceptor does not listen: the error is
\* logged and the next accept starts.
OnAcceptFail_Returns ==
    /\ accepts > 0
    /\ accepts' = accepts - 1
    /\ UNCHANGED <<acceptor, waiting>>
OnAcceptFail ==
    /\ accepts > 0
    /\ accepts' = (accepts - 1) + 1
    /\ UNCHANGED <<acceptor, waiting>>

\* The process ends and its sockets with it.
Destroy ==
    /\ acceptor' = "none"
    /\ accepts' = 0
    /\ waiting' = {}

ListenerTypeOK ==
    /\ acceptor \in Stages \cup {"none"}
    /\ accepts \in 0..1
    /\ waiting \subseteq Connections

==============================================================================

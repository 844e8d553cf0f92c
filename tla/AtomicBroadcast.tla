---------------------------- MODULE AtomicBroadcast ----------------------------
(***************************************************************************)
(* What a room promises its sessions: a message is told to everyone who is *)
(* present, and whom it is addressed to, in one step.  So all hear what    *)
(* they hear in one order, from the moment they come until they go, and a  *)
(* session comes once.                                                     *)
(***************************************************************************)
EXTENDS Sequences

CONSTANTS Sessions,         \* who may come
          Messages,
          Addressed(_, _)   \* whether a message is addressed to a session

VARIABLES present,   \* who has come and not gone
          heard      \* what each session was told, in order

vars == <<present, heard>>

Init ==
    /\ present = {}
    /\ heard = [s \in Sessions |-> <<>>]

Come(s) ==
    /\ s \notin present /\ heard[s] = <<>>
    /\ present' = present \cup {s}
    /\ UNCHANGED heard

Go(s) ==
    /\ present' = present \ {s}
    /\ UNCHANGED heard

Tell(m) ==
    /\ heard' = [s \in Sessions |-> IF s \in present /\ Addressed(m, s)
                                    THEN Append(heard[s], m) ELSE heard[s]]
    /\ UNCHANGED present

Next ==
    \/ \E s \in Sessions : Come(s) \/ Go(s)
    \/ \E m \in Messages : Tell(m)

Spec == Init /\ [][Next]_vars

==============================================================================

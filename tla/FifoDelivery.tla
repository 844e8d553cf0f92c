----------------------------- MODULE FifoDelivery -----------------------------
(***************************************************************************)
(* What a connection promises the client at its other end: what was        *)
(* accepted for it (a request to answer, a message to forward) comes out   *)
(* in the order it was accepted, each item once, and nothing comes out     *)
(* that was not accepted.  A connection may end at any time, so nothing is *)
(* promised about how much comes out.                                      *)
(***************************************************************************)
EXTENDS Naturals, Sequences

CONSTANT Items   \* the numbers items may have, in the order of acceptance

VARIABLES pending,    \* accepted and not yet out
          delivered   \* out, in order

vars == <<pending, delivered>>

Init ==
    /\ pending = <<>>
    /\ delivered = <<>>

\* The next item is accepted; it is younger than every item before it.
Accept(item) ==
    /\ \A i \in DOMAIN pending : pending[i] < item
    /\ \A i \in DOMAIN delivered : delivered[i] < item
    /\ pending' = Append(pending, item)
    /\ UNCHANGED delivered

\* The oldest pending item comes out.
Deliver ==
    /\ pending # <<>>
    /\ delivered' = Append(delivered, Head(pending))
    /\ pending' = Tail(pending)

Next == Deliver \/ \E item \in Items : Accept(item)

Spec == Init /\ [][Next]_vars

==============================================================================

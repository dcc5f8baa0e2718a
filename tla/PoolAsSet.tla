------------------------------ MODULE PoolAsSet ------------------------------
(***************************************************************************)
(* What the event pool promises when order is ignored: it holds a set of   *)
(* pending instructions; a dequeue hands out one pending instruction and   *)
(* forgets it, or hands out nothing; a delete forgets instructions.        *)
(* Nothing is handed out twice for one enqueue, nothing deleted is handed  *)
(* out, and nothing leaves the set otherwise.                              *)
(***************************************************************************)
CONSTANTS Events, NoEvent

VARIABLES pending, out

vars == <<pending, out>>

Init == pending = {} /\ out = NoEvent

Enqueue(e) == pending' = pending \cup {e} /\ UNCHANGED out

Dequeue == \E e \in pending : pending' = pending \ {e} /\ out' = e

NothingToHand == out' = NoEvent /\ UNCHANGED pending

Forget(hs) == pending' = pending \ hs /\ UNCHANGED out

Next ==
    \/ \E e \in Events : Enqueue(e)
    \/ Dequeue
    \/ NothingToHand
    \/ \E hs \in SUBSET Events : Forget(hs)

Spec == Init /\ [][Next]_vars

=============================================================================

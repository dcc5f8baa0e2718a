----------------------------- MODULE PoolAsFifo -----------------------------
(***************************************************************************)
(* The event pool as spec.md section 4.1 describes it: a FIFO of distinct  *)
(* pending instructions ordered by arrival.  Enqueuing an instruction that *)
(* is already pending keeps its place; dequeue pops the oldest surviving   *)
(* entry; delete removes entries.                                          *)
(***************************************************************************)
EXTENDS Sequences, SequencesExt

CONSTANTS Events, NoEvent

VARIABLES pending, out

vars == <<pending, out>>

Init == pending = <<>> /\ out = NoEvent

Enqueue(e) ==
    /\ pending' = IF e \in ToSet(pending) THEN pending ELSE Append(pending, e)
    /\ UNCHANGED out

Dequeue ==
    /\ pending # <<>>
    /\ out' = Head(pending)
    /\ pending' = Tail(pending)

NothingToHand == out' = NoEvent /\ UNCHANGED pending

Forget(hs) ==
    /\ pending' = SelectSeq(pending, LAMBDA h : h \notin hs)
    /\ UNCHANGED out

Next ==
    \/ \E e \in Events : Enqueue(e)
    \/ Dequeue
    \/ NothingToHand
    \/ \E hs \in SUBSET Events : Forget(hs)

Spec == Init /\ [][Next]_vars

=============================================================================

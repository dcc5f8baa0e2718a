---------------------------- MODULE MCEventsPool ----------------------------
(***************************************************************************)
(* Model-checking harness for EventsPool: refinement mappings to the two   *)
(* abstract pools.                                                          *)
(***************************************************************************)
EXTENDS EventsPool

\* The pending instructions in the order the pool will hand them out: the
\* live hashes of the queue, each at its first live position.
LiveOrder ==
    LET live == SelectSeq(queue, LAMBDA h : h \in events)
        keep == {i \in DOMAIN live : \A j \in 1..(i - 1) : live[j] # live[i]}
        idx  == SetToSortSeq(keep, <)
    IN  [k \in 1..Len(idx) |-> live[idx[k]]]

AsSet  == INSTANCE PoolAsSet WITH pending <- events
AsFifo == INSTANCE PoolAsFifo WITH pending <- LiveOrder

(***************************************************************************)
(* The pool implements the set abstraction: Unqueue only ever returns an   *)
(* instruction that is in the map and removes exactly it; a stale or      *)
(* duplicate hash left in the queue is never handed out again.             *)
(***************************************************************************)
SetRefinement == AsSet!Spec

(***************************************************************************)
(* The pool implements the FIFO of spec.md 4.1: Unqueue returns the oldest *)
(* surviving entry.  A hash re-queued after being dequeued or deleted is   *)
(* found by Unqueue at the place of its stale copy.                        *)
(***************************************************************************)
FifoRefinement == AsFifo!Spec

=============================================================================

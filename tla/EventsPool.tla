----------------------------- MODULE EventsPool -----------------------------
(***************************************************************************)
(* The instruction pool of src/consensus/pool.go (an identical copy is     *)
(* EventsPool in src/events.go).  An instruction is identified by its      *)
(* hash, so a hash stands for the instruction itself here.                 *)
(*                                                                         *)
(*   queue   the slice of hashes in arrival order; it may hold stale       *)
(*           hashes (already dequeued or deleted) and duplicates           *)
(*   events  the key set of the map hash -> instruction                    *)
(*   out     what the last Unqueue returned to its caller (NoEvent = nil)  *)
(***************************************************************************)
EXTENDS Naturals, Sequences, SequencesExt

CONSTANTS
    Events,     \* instruction hashes (model values)
    NoEvent,    \* the (nil, ZeroHash) result of Unqueue
    MaxQueue    \* bound on the length of the queue slice

ASSUME NoEvent \notin Events /\ MaxQueue \in Nat \ {0}

VARIABLES queue, events, out

poolVars == <<queue, events, out>>

\* NewInstructionPool: empty slice and empty map.
PoolInit ==
    /\ queue = <<>>
    /\ events = {}
    /\ out = NoEvent

\* Positions of the queue whose hash is still a key of the map.
LiveIndex == {n \in 1..Len(queue) : queue[n] \in events}

\* Mutants of Unqueue (plausible slips in the scan).
UnqueueSkipNext ==
    /\ queue # <<>>
    /\ IF LiveIndex = {}
         THEN queue' = <<>> /\ out' = NoEvent /\ UNCHANGED events
         ELSE LET n == Min(LiveIndex) IN
              /\ queue' = SubSeq(queue, n + 2, Len(queue))
              /\ events' = events \ {queue[n]}
              /\ out' = queue[n]

UnqueueNoMapCheck ==
    /\ queue # <<>>
    /\ queue' = Tail(queue)
    /\ events' = events \ {Head(queue)}
    /\ out' = Head(queue)

UnqueueReturnsPosition ==
    /\ queue # <<>>
    /\ IF LiveIndex = {}
         THEN queue' = <<>> /\ out' = NoEvent /\ UNCHANGED events
         ELSE LET n == Min(LiveIndex) IN
              /\ queue' = SubSeq(queue, n + 1, Len(queue))
              /\ events' = events \ {queue[n]}
              /\ out' = n

(***************************************************************************)
(* Unqueue, the locked part: scan the queue for the first hash still in    *)
(* the map, cut the queue after it, delete it from the map and return it;  *)
(* if no hash is live, truncate the queue and return nil.                  *)
(***************************************************************************)
Unqueue ==
    /\ queue # <<>>
    /\ IF LiveIndex = {}
         THEN /\ queue' = <<>>
              /\ out' = NoEvent
              /\ UNCHANGED events
         ELSE LET n == Min(LiveIndex) IN
              /\ queue' = SubSeq(queue, n + 1, Len(queue))
              /\ events' = events \ {queue[n]}
              /\ out' = queue[n]

(***************************************************************************)
(* Unqueue, the early return: len(pool.queue) is read before the lock is   *)
(* taken, racing with Queue.  The read may see the queue empty (really     *)
(* empty, or a stale length), and then nil is returned with no change.     *)
(***************************************************************************)
UnqueueEmpty ==
    /\ out' = NoEvent
    /\ UNCHANGED <<queue, events>>

\* Queue: append the hash and (over)write the map entry, under the lock.
Queue(e) ==
    /\ queue' = Append(queue, e)
    /\ events' = events \cup {e}
    /\ UNCHANGED out

\* Delete: remove the map entry only; the hash stays in the queue.
Delete(e) ==
    /\ events' = events \ {e}
    /\ UNCHANGED <<queue, out>>

\* DeleteArray: Delete for every hash of the array, under one lock.
DeleteArray(hs) ==
    /\ events' = events \ hs
    /\ UNCHANGED <<queue, out>>

-----------------------------------------------------------------------------
(***************************************************************************)
(* The pool on its own, under any sequence of calls by its clients: the    *)
(* network intake and the block builder queue, the builder's feeder        *)
(* unqueues, and finalisation deletes.  Every method holds pool.mu for     *)
(* its whole body, so each call is one atomic step.                        *)
(***************************************************************************)
PoolNext ==
    \/ \E e \in Events : Len(queue) < MaxQueue /\ Queue(e)
    \/ Unqueue
    \/ UnqueueEmpty
    \/ \E e \in Events : Delete(e)
    \/ \E hs \in SUBSET Events : DeleteArray(hs)

\* The feeder calls Unqueue in a loop, so a non-empty queue is eventually
\* taken through the locked path.
PoolSpec == PoolInit /\ [][PoolNext]_poolVars /\ WF_poolVars(Unqueue)

-----------------------------------------------------------------------------
TypeOK ==
    /\ queue \in Seq(Events)
    /\ events \subseteq Events
    /\ out \in Events \cup {NoEvent}

(***************************************************************************)
(* Every instruction held in the map still has its hash somewhere in the   *)
(* queue slice.  Unqueue cuts the slice after the entry it returns and     *)
(* truncates it when it finds nothing live; were an entry whose map key is *)
(* live ever cut away, the instruction would sit in the map for ever and   *)
(* never be dequeued.                                                      *)
(***************************************************************************)
MapCoveredByQueue == events \subseteq ToSet(queue)

(***************************************************************************)
(* Every instruction put into the pool is eventually taken out of it, by   *)
(* Unqueue or by a delete, as long as the feeder keeps calling Unqueue.    *)
(***************************************************************************)
EventuallyServed == \A e \in Events : (e \in events) ~> (e \notin events)

=============================================================================

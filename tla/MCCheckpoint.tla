---------------------------- MODULE MCCheckpoint ----------------------------
(***************************************************************************)
(* GetLastCheckpoint checked against a reference definition over every     *)
(* committed epoch and every RecentBlocks list within the bounds that is   *)
(* sorted by epoch and holds only epochs after the committed one, as the   *)
(* finality step keeps it (spec.md 3).  Each initial state is one input; *)
(* there are no further steps.                                            *)
(***************************************************************************)
EXTENDS Checkpoint, FiniteSets

CONSTANTS MaxEpoch, MaxRecent

VARIABLES committed, recent

vars == <<committed, recent>>

BlocksAt(e) == [epoch : {e}, hash : Hashes, txs : SUBSET Events]

\* Block lists whose epochs are the given list.
RECURSIVE BlockLists(_)
BlockLists(es) ==
    IF es = <<>> THEN {<<>>}
    ELSE {<<b>> \o t : b \in BlocksAt(Head(es)), t \in BlockLists(Tail(es))}

\* Strictly increasing epoch lists of at most MaxRecent blocks.
SortedRecent ==
    UNION {BlockLists(SetToSortSeq(S, <)) :
             S \in {S \in SUBSET (1..MaxEpoch) : Cardinality(S) <= MaxRecent}}

Init ==
    /\ committed \in 0..MaxEpoch
    /\ recent \in {s \in SortedRecent : \A i \in DOMAIN s : s[i].epoch > committed}

Next == UNCHANGED vars

Spec == Init /\ [][Next]_vars

(***************************************************************************)
(* Reference: the checkpoint is the highest epoch k such that every epoch  *)
(* committed+1 .. k has a block in RecentBlocks; its hash is that of the   *)
(* block of epoch k (the committed state's zero hash when k = committed), *)
(* and its mutations are those of the blocks of epochs committed+1 .. k:   *)
(* block N+1 is validated against every certified block after the         *)
(* committed state, and against no block beyond a gap (spec.md 4.3).       *)
(***************************************************************************)
ReferenceCheckpoint(c, r) ==
    LET present == {r[i].epoch : i \in DOMAIN r}
        k == CHOOSE k \in c..(c + Len(r)) :
                 /\ \A j \in (c + 1)..k : j \in present
                 /\ (k + 1) \notin present
        run == {i \in DOMAIN r : r[i].epoch \in (c + 1)..k}
    IN  [epoch     |-> k,
         hash      |-> IF k = c THEN ZeroHash
                       ELSE r[CHOOSE i \in DOMAIN r : r[i].epoch = k].hash,
         mutations |-> UNION {r[i].txs : i \in run}]

CheckpointMatchesReference ==
    GetLastCheckpoint(committed, recent) = ReferenceCheckpoint(committed, recent)

=============================================================================

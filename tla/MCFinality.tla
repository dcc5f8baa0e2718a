----------------------------- MODULE MCFinality -----------------------------
(***************************************************************************)
(* Two competing blocks for epoch 1 and one for epoch 2, three validators *)
(* of equal stake (a quorum is any two of them), nothing committed yet.   *)
(***************************************************************************)
EXTENDS Finality

CONSTANTS h1, h2, h3, v1, v2, v3

MCProposals ==
    {[epoch |-> 1, hash |-> h1, txs |-> {}],
     [epoch |-> 1, hash |-> h2, txs |-> {}],
     [epoch |-> 2, hash |-> h3, txs |-> {}]}

MCDeposited == [v \in {v1, v2, v3} |-> 1]

=============================================================================

----------------------------- MODULE Checkpoint -----------------------------
(***************************************************************************)
(* BlockChain.GetLastCheckpoint (src/consensus/blockchain.go): the point   *)
(* from which the next block is built.  Starting at the committed epoch,   *)
(* it walks RecentBlocks while each block continues the previous epoch by  *)
(* one, and returns the last such block's epoch and hash together with a   *)
(* validator whose mutations group every block of that run.                *)
(*                                                                         *)
(* A block is abstracted to its epoch, its hash and the set of             *)
(* instructions it applies.                                                *)
(***************************************************************************)
EXTENDS Naturals, Sequences, SequencesExt

CONSTANTS
    Hashes,     \* block hashes (model values)
    ZeroHash,   \* the zero value of crypto.Hash
    Events      \* instructions

Blocks == [epoch : Nat, hash : Hashes, txs : SUBSET Events]

\* block.GroupBlockMutations: the union of the blocks' mutations, in order.
GroupBlockMutations(seq) == UNION {seq[i].txs : i \in DOMAIN seq}

\* Mutant: the loop compares against starting instead of starting+1.
SequentialOffByOne(recent, starting) ==
    SelectSeq(recent, LAMBDA b : b.epoch > starting)

\* The loop: keep blocks while block.Epoch() == starting+1, then break.
RECURSIVE Sequential(_, _)
Sequential(recent, starting) ==
    IF recent # <<>> /\ Head(recent).epoch = starting + 1
      THEN <<Head(recent)>> \o Sequential(Tail(recent), starting + 1)
      ELSE <<>>

GetLastCheckpoint(committed, recent) ==
    IF recent = <<>> \/ Head(recent).epoch # committed + 1
      THEN [epoch |-> committed, hash |-> ZeroHash, mutations |-> {}]
      ELSE LET run == Sequential(recent, committed) IN
           [epoch     |-> Last(run).epoch,
            hash      |-> Last(run).hash,
            mutations |-> GroupBlockMutations(run)]

=============================================================================

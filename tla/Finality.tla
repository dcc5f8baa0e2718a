------------------------------ MODULE Finality ------------------------------
(***************************************************************************)
(* The candidate pool and finality step: Consensus.PushNewBlock and        *)
(* BlockChain.AppendSignature, as drafted (commented out) in               *)
(* src/consensus/consensus.go, over the BlockChain of                      *)
(* src/consensus/blockchain.go, with the quorum rule of spec.md 4.5 as the *)
(* engine's GetConsensus.  Composed with GetLastCheckpoint (Checkpoint),   *)
(* which the next block builder takes its state from.                      *)
(*                                                                         *)
(* A signed block is its block and the list of tokens whose signatures    *)
(* were appended.  Nothing commits: CurrentState stays at epoch Committed  *)
(* (IncorporateBlocks is empty).                                            *)
(***************************************************************************)
EXTENDS Checkpoint, FiniteSets

CONSTANTS
    Proposals,  \* blocks that publishers may push (Checkpoint's Blocks)
    Validators, \* signer tokens
    Deposited,  \* State.Deposited: stake of each token
    TotalStake, \* BlockChain.TotalStake
    Committed,  \* CurrentState.Epoch
    MaxRecent   \* bound on RecentBlocks

ASSUME /\ Proposals \subseteq Blocks
       /\ Deposited \in [Validators -> Nat]

VARIABLES
    candidates, \* CandidateBlocks: epoch -> SignedBlocks
    recent      \* RecentBlocks

vars == <<candidates, recent>>

\* Backing stake: Deposited summed over the distinct signers.
Backing(sb) == MapThenSumSet(LAMBDA t : Deposited[t], ToSet(sb.sigs))

\* Engine.GetConsensus (spec.md 4.5): a signed block whose backing stake
\* reaches 2/3 of the total stake; the empty set for nil.
GetConsensus(sbs) == {i \in DOMAIN sbs : 3 * Backing(sbs[i]) >= 2 * TotalStake}

\* sort.Sort(RecentBlocks) by Block.Epoch(): not stable, so blocks of one
\* epoch may come out in either order.
SortByEpoch(s) ==
    {t \in {[i \in DOMAIN s |-> s[q[i]]] : q \in SetToSeqs(DOMAIN s)} :
        IsSorted(t, LAMBDA x, y : x.block.epoch <= y.block.epoch)}

Init ==
    /\ candidates = <<>>
    /\ recent = <<>>

(***************************************************************************)
(* PushNewBlock: a new signed block with no signatures.  When the epoch   *)
(* already has candidates, `blocks = append(blocks, ...)` appends to a    *)
(* local copy of the slice and the map is left unchanged.  If the engine  *)
(* finds consensus among the epoch's candidates, the block just pushed   *)
(* (newSignedBlock) is appended to RecentBlocks, the epoch's candidates   *)
(* are deleted and RecentBlocks is sorted.                                  *)
(***************************************************************************)
PushNewBlock(b) ==
    LET e == b.epoch
        new == [block |-> b, sigs |-> <<>>]
        cands == IF e \in DOMAIN candidates THEN candidates
                 ELSE candidates @@ (e :> <<new>>)
    IN  /\ Len(recent) < MaxRecent
        /\ IF GetConsensus(cands[e]) # {}
             THEN /\ recent' \in SortByEpoch(Append(recent, new))
                  /\ candidates' = [x \in DOMAIN cands \ {e} |-> cands[x]]
             ELSE /\ candidates' = cands
                  /\ UNCHANGED recent

(***************************************************************************)
(* AppendSignature: the signature is appended to the candidate block with *)
(* its hash, unless that token has already signed it; no candidate with   *)
(* the hash, or a repeated signer, leaves everything unchanged.           *)
(***************************************************************************)
AppendSignature(h, v) ==
    \E e \in DOMAIN candidates : \E i \in DOMAIN candidates[e] :
        /\ candidates[e][i].block.hash = h
        /\ v \notin ToSet(candidates[e][i].sigs)
        /\ candidates' = [candidates EXCEPT ![e][i].sigs = Append(@, v)]
        /\ UNCHANGED recent

Next ==
    \/ \E b \in Proposals : PushNewBlock(b)
    \/ \E b \in Proposals, v \in Validators : AppendSignature(b.hash, v)

Spec == Init /\ [][Next]_vars

\* The blocks of RecentBlocks, and the checkpoint the next builder gets.
RecentChain == [i \in DOMAIN recent |-> recent[i].block]
Current == GetLastCheckpoint(Committed, RecentChain)

(***************************************************************************)
(* Finalizing a block never moves the checkpoint the builder starts from *)
(* back to an earlier epoch: RecentBlocks holds at most one block per    *)
(* epoch (spec.md 3), so a block once in the sequential run stays in it. *)
(***************************************************************************)
CheckpointMonotone == [][Current'.epoch >= Current.epoch]_vars

=============================================================================

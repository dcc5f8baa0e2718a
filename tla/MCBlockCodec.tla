---------------------------- MODULE MCBlockCodec ----------------------------
(***************************************************************************)
(* Blocks signed, serialized and parsed back.  Each initial state is one  *)
(* input; there are no steps.                                              *)
(***************************************************************************)
EXTENDS BlockCodec

VARIABLES blk

vars == <<blk>>

Ones(n) == [i \in 1..n |-> ByteBase - 1]

\* Signed blocks: the signature field holds what Sign wrote.
Blocks ==
    [epoch : {0, 3}, parent : {Zeros(HashSize), Ones(HashSize)},
     checkpoint : {0}, publisher : {Zeros(TokenSize), Ones(TokenSize)},
     publishedAt : Byte, txs : BoundedSeq({<<>>, <<1>>}, 1),
     hash : {Ones(HashSize)}, fees : {0}, signature : {SigBytes}]

Init == blk \in Blocks

Next == UNCHANGED vars

Spec == Init /\ [][Next]_vars

(***************************************************************************)
(* Round trip (spec.md 8): a block signed and serialized by its publisher *)
(* is parsed back by ParseBlock into the same block, in both the block    *)
(* package and the root package.                                           *)
(***************************************************************************)
BlockRoundTrip ==
    /\ ParseBlock(SignedBytes(blk), {SignedSpan(blk)}) = Outcome("block", blk)
    /\ RootParseBlock(RootSignedBytes(blk), {RootSignedSpan(blk)})
          = Outcome("block", blk)

=============================================================================

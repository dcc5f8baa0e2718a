----------------------------- MODULE BlockCodec -----------------------------
(***************************************************************************)
(* The wire form of a block: Sign, Serialize, serializeWithoutSignature,   *)
(* ParseBlock and GetBlockEpoch of src/block/block.go, and the older       *)
(* layout of the root package, src/block.go, built on the primitives of    *)
(* Serialization.                                                          *)
(*                                                                         *)
(* A block is a record; its hashes, token and transactions are byte        *)
(* sequences.  Parsing has three outcomes: a block, nil (the signature     *)
(* does not verify or, in the root package, the count is missing), or a   *)
(* panic (ParseTime on bytes UnmarshalBinary refuses, or data[0:position] *)
(* past the end of a buffer whose capacity is its length, as the buffers  *)
(* ReadMessage allocates are).                                             *)
(*                                                                         *)
(* The signature scheme is modelled by its contract: a signature verifies *)
(* exactly when the token signed exactly these bytes.  `signed` is the set *)
(* of pairs <<token, bytes>> signed so far, and the signature bytes are   *)
(* the constant SigBytes.                                                  *)
(***************************************************************************)
EXTENDS Serialization

SigBytes == [i \in 1..SignatureSize |-> ByteBase - 1]

Verify(signed, token, msg, sig) == <<token, msg>> \in signed /\ sig = SigBytes

\* Block.serializeWithoutSignature (src/block/block.go): Parent and
\* Publisher are written with PutByteArray, a length prefix included.
SerializeWithoutSignature(b) ==
    LET d5 == PutTime(b.publishedAt,
                PutByteArray(b.publisher,
                  PutUint64(b.checkpoint,
                    PutByteArray(b.parent, PutUint64(b.epoch, <<>>)))))
        d6 == PutUint16(Len(b.txs) % (MaxArray + 1), d5)
        d7 == FoldLeft(LAMBDA d, tx : PutByteArray(tx, d), d6, b.txs)
    IN  PutUint64(b.fees, PutByteArray(b.hash, d7))

\* Block.Sign then Block.Serialize: the signature over the span, appended.
SignedBytes(b) == PutFixed(SigBytes, SerializeWithoutSignature(b))
SignedSpan(b) == <<b.publisher, SerializeWithoutSignature(b)>>

Outcome(kind, b) == [result |-> kind, block |-> b]

\* The block returned with nil or a panic: it carries no information.
NoBlock == [epoch |-> 0, parent |-> <<>>, checkpoint |-> 0, publisher |-> <<>>,
            publishedAt |-> 0, txs |-> <<>>, hash |-> <<>>, fees |-> 0,
            signature |-> <<>>]

\* ParseBlock (src/block/block.go): Parent and Publisher read as
\* fixed-size ParseHash and ParseToken.
ParseBlock(data, signed) ==
    LET r1 == ParseUint64(data, 0)
        r2 == ParseFixed(data, r1[2], HashSize)
        r3 == ParseUint64(data, r2[2])
        r4 == ParseFixed(data, r3[2], TokenSize)
        r5 == ParseTime(data, r4[2])
        r6 == ParseByteArrayArray(data, r5[2])
        r7 == ParseFixed(data, r6[2], HashSize)
        r8 == ParseUint64(data, r7[2])
        sg == ParseFixed(data, r8[2], SignatureSize)
        b  == [epoch |-> r1[1], parent |-> r2[1], checkpoint |-> r3[1],
               publisher |-> r4[1], publishedAt |-> r5[1], txs |-> r6[1],
               hash |-> r7[1], fees |-> r8[1], signature |-> sg[1]]
    IN  CASE TimePanics(data, r4[2])                           -> Outcome("panic", NoBlock)
          [] r8[2] > Len(data)                                 -> Outcome("panic", NoBlock)
          [] ~Verify(signed, r4[1], Slice(data, 0, r8[2]), sg[1]) -> Outcome("nil", NoBlock)
          [] OTHER                                             -> Outcome("block", b)

GetBlockEpoch(data) == IF Len(data) < 8 THEN 0 ELSE ParseUint64(data, 0)[1]

-----------------------------------------------------------------------------
\* The root package (src/block.go): Clock for epoch, no FeesCollected, and
\* make([]byte, Version) with Version = 0 starts from empty data.
RootSerializeWithoutSignature(b) ==
    LET d5 == PutTime(b.publishedAt,
                PutByteArray(b.publisher,
                  PutUint64(b.checkpoint,
                    PutByteArray(b.parent, PutUint64(b.epoch, Zeros(Version))))))
        d6 == PutUint16(Len(b.txs) % (MaxArray + 1), d5)
        d7 == FoldLeft(LAMBDA d, tx : PutByteArray(tx, d), d6, b.txs)
    IN  PutByteArray(b.hash, d7)

RootSignedBytes(b) == PutFixed(SigBytes, RootSerializeWithoutSignature(b))
RootSignedSpan(b) == <<b.publisher, RootSerializeWithoutSignature(b)>>

\* ParseBlock (src/block.go): the count is read inline, nil if absent.
RootParseBlock(data, signed) ==
    LET r1 == ParseUint64(data, 0)
        r2 == ParseFixed(data, r1[2], HashSize)
        r3 == ParseUint64(data, r2[2])
        r4 == ParseFixed(data, r3[2], TokenSize)
        r5 == ParseTime(data, r4[2])
        p  == r5[2]
        r6 == ParseArrays(data, p + 2, PrefixAt(data, p))
        r7 == ParseFixed(data, r6[2], HashSize)
        sg == ParseFixed(data, r7[2], SignatureSize)
        b  == [epoch |-> r1[1], parent |-> r2[1], checkpoint |-> r3[1],
               publisher |-> r4[1], publishedAt |-> r5[1], txs |-> r6[1],
               hash |-> r7[1], fees |-> 0, signature |-> sg[1]]
    IN  CASE TimePanics(data, r4[2])                           -> Outcome("panic", NoBlock)
          [] p + 1 >= Len(data)                                -> Outcome("nil", NoBlock)
          [] r7[2] > Len(data)                                 -> Outcome("panic", NoBlock)
          [] ~Verify(signed, r4[1], Slice(data, 0, r7[2]), sg[1]) -> Outcome("nil", NoBlock)
          [] OTHER                                             -> Outcome("block", b)

=============================================================================

--------------------------- MODULE MCSerialization ---------------------------
(***************************************************************************)
(* The encoders of src/util/serialization.go checked against their        *)
(* decoders.  Each initial state is one input: an integer, a pair of byte *)
(* arrays, written after a prefix `pre` so that parsing starts at a      *)
(* non-zero position too; there are no steps.                            *)
(***************************************************************************)
EXTENDS Serialization

VARIABLES pre, v, b1, b2

vars == <<pre, v, b1, b2>>

Arrays == BoundedSeq(Byte, MaxArray + 1)

Init ==
    /\ pre \in {<<>>, <<ByteBase - 1>>}
    /\ \/ v \in 0..(ByteBase^8 - 1) /\ b1 = <<>> /\ b2 = <<>>
       \/ v = 0 /\ b1 \in Arrays /\ b2 \in Arrays

Next == UNCHANGED vars

Spec == Init /\ [][Next]_vars

\* What a 2-byte length prefix can carry of an array.
Truncated(b) == SubSeq(b, 1, IF Len(b) > MaxArray THEN MaxArray ELSE Len(b))

(***************************************************************************)
(* PutUint64 then PutUint16 (of the same value, cast to uint16 as the     *)
(* block's instruction count is) read back by ParseUint64 and ParseUint16 *)
(* give the value, the wrapped value, and advance by exactly 8 and 2.     *)
(* Event.Clock reads the value back from a version-0 event, and returns   *)
(* 0 for the other versions.                                               *)
(***************************************************************************)
IntegersRoundTrip ==
    LET d == PutUint16(v % (MaxArray + 1), PutUint64(v, pre))
        p == Len(pre)
    IN  /\ ParseUint64(d, p) = <<v, p + 8>>
        /\ ParseUint16(d, p + 8) = <<v % (MaxArray + 1), p + 10>>
        /\ Clock(PutUint64(v, <<Version>>)) = v
        /\ Clock(PutUint64(v, <<1>>)) = 0

(***************************************************************************)
(* Two byte arrays written one after the other with PutByteArray are read *)
(* back by ParseByteArray, each cut to 1<<16-1 bytes, and the second read *)
(* ends at the end of the data; written as the block writes instructions  *)
(* (a uint16 count, then each array) they are read back by                *)
(* ParseByteArrayArray.  An empty array at the very end of the data is    *)
(* the edge of ParseByteArray's bounds check.                             *)
(***************************************************************************)
ByteArraysRoundTrip ==
    LET d  == PutByteArray(b2, PutByteArray(b1, pre))
        r1 == ParseByteArray(d, Len(pre))
        r2 == ParseByteArray(d, r1[2])
        l  == PutByteArray(b2, PutByteArray(b1, PutUint16(2, pre)))
    IN  /\ r1[1] = Truncated(b1)
        /\ r2[1] = Truncated(b2)
        /\ r2[2] = Len(d)
        /\ ParseByteArrayArray(l, Len(pre)) = <<<<Truncated(b1), Truncated(b2)>>, Len(l)>>

=============================================================================

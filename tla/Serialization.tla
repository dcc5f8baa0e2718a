--------------------------- MODULE Serialization ---------------------------
(***************************************************************************)
(* The byte encoders and decoders of src/util/serialization.go, as pure   *)
(* operators over sequences of bytes.                                      *)
(*                                                                         *)
(* A byte is a digit of base ByteBase (256 in the code): byte(v) is        *)
(* v % ByteBase, v >> 8k is v \div ByteBase^k, and the 2-byte length      *)
(* prefix saturates at ByteBase^2 - 1 (1<<16-1 in the code).  A smaller   *)
(* base keeps every boundary of the code (empty array, longest array,     *)
(* truncation, uint16 wrap) within reach of TLC.                          *)
(*                                                                         *)
(* Positions are Go's 0-based offsets: data[p] is At(data, p), data[a:b]  *)
(* is Slice(data, a, b).  A parser returns <<value, new position>>.       *)
(***************************************************************************)
EXTENDS Naturals, Sequences, SequencesExt

CONSTANTS
    ByteBase,       \* number of values of a byte (256)
    HashSize,       \* crypto.Size
    TokenSize,      \* crypto.TokenSize
    SignatureSize,  \* crypto.SignatureSize
    TimeLen         \* length of time.Time.MarshalBinary (15, version 1)

ASSUME ByteBase >= 2 /\ TimeLen >= 2

Byte == 0..(ByteBase - 1)
MaxArray == ByteBase^2 - 1          \* 1<<16 - 1

LowByte(v) == v % ByteBase          \* byte(v)
Shift(v, k) == v \div (ByteBase^k)  \* v >> (8 * k)
At(data, p) == data[p + 1]
Slice(data, a, b) == SubSeq(data, a + 1, b)
Zeros(n) == [i \in 1..n |-> 0]      \* a zero-valued Hash, Token, Signature

\* Little-endian value of a sequence of bytes.
LittleEndian(bs) == FoldLeft(LAMBDA acc, x : acc * ByteBase + x, 0, Reverse(bs))

\* PutToken, PutHash, PutSignature: append the fixed-size array.
PutFixed(x, data) == data \o x

\* PutByteArray: 2-byte little-endian length, then the bytes; an array
\* longer than 1<<16-1 is cut to that length under the prefix 255, 255.
PutByteArray(b, data) ==
    CASE Len(b) = 0        -> data \o <<0, 0>>
      [] Len(b) > MaxArray -> data \o (<<ByteBase - 1, ByteBase - 1>>
                                       \o SubSeq(b, 1, MaxArray))
      [] OTHER             -> data \o (<<LowByte(Len(b)), LowByte(Shift(Len(b), 1))>>
                                       \o b)

PutUint16(v, data) == data \o <<LowByte(v), LowByte(Shift(v, 1))>>

PutUint64(v, data) == data \o [k \in 1..8 |-> LowByte(Shift(v, k - 1))]

\* time.Time.MarshalBinary: a version byte 1 and the encoded instant; the
\* instant t is abstracted to one byte repeated.
MarshalTime(t) == <<1>> \o [k \in 1..(TimeLen - 1) |-> t]

\* time.Time.UnmarshalBinary succeeds on version 1 data of the exact length.
UnmarshalTimeOK(bs) == Len(bs) = TimeLen /\ bs[1] = 1

PutTime(t, data) == PutByteArray(MarshalTime(t), data)

PutBool(b, data) == data \o <<IF b THEN 1 ELSE 0>>

PutByte(b, data) == data \o <<b>>

\* ParseToken, ParseHash, ParseSignature: a zero value and an unchanged
\* position when fewer than size bytes remain.
ParseFixed(data, p, size) ==
    IF p + size > Len(data) THEN <<Zeros(size), p>>
    ELSE <<Slice(data, p, p + size), p + size>>

PrefixAt(data, p) == At(data, p) + At(data, p + 1) * ByteBase

\* Mutant: the bounds check off by one.
ParseByteArrayEdge(data, p) ==
    IF p + 1 >= Len(data) THEN <<<<>>, p>>
    ELSE LET n == PrefixAt(data, p) IN
         CASE n = 0                  -> <<<<>>, p + 2>>
           [] p + n + 2 >= Len(data) -> <<<<>>, p + n + 2>>
           [] OTHER                  -> <<Slice(data, p + 2, p + n + 2), p + n + 2>>

ParseByteArray(data, p) ==
    IF p + 1 >= Len(data) THEN <<<<>>, p>>
    ELSE LET n == PrefixAt(data, p) IN
         CASE n = 0                  -> <<<<>>, p + 2>>
           [] p + n + 2 > Len(data)  -> <<<<>>, p + n + 2>>
           [] OTHER                  -> <<Slice(data, p + 2, p + n + 2), p + n + 2>>

\* The loop of ParseByteArrayArray: n arrays from position p.
RECURSIVE ParseArrays(_, _, _)
ParseArrays(data, p, n) ==
    IF n = 0 THEN <<<<>>, p>>
    ELSE LET r == ParseByteArray(data, p)
             rest == ParseArrays(data, r[2], n - 1)
         IN  <<<<r[1]>> \o rest[1], rest[2]>>

ParseByteArrayArray(data, p) ==
    IF p + 1 >= Len(data) THEN <<<<>>, p>>
    ELSE ParseArrays(data, p + 2, PrefixAt(data, p))

ParseUint16(data, p) ==
    IF p + 1 >= Len(data) THEN <<0, p + 2>>
    ELSE <<PrefixAt(data, p), p + 2>>

\* Mutant: the bytes read in big-endian order.
ParseUint64BigEndian(data, p) ==
    IF p + 7 >= Len(data) THEN <<0, p + 8>>
    ELSE <<FoldLeft(LAMBDA acc, x : acc * ByteBase + x, 0, Slice(data, p, p + 8)),
           p + 8>>

ParseUint64(data, p) ==
    IF p + 7 >= Len(data) THEN <<0, p + 8>>
    ELSE <<LittleEndian(Slice(data, p, p + 8)), p + 8>>

\* ParseTime panics when UnmarshalBinary fails; TimePanics says when.
ParseTime(data, p) ==
    LET r == ParseByteArray(data, p)
    IN  <<IF UnmarshalTimeOK(r[1]) THEN r[1][2] ELSE 0, r[2]>>
TimePanics(data, p) == ~UnmarshalTimeOK(ParseByteArray(data, p)[1])

ParseBool(data, p) ==
    IF p >= Len(data) THEN <<FALSE, p + 1>> ELSE <<At(data, p) # 0, p + 1>>

ParseByte(data, p) ==
    IF p >= Len(data) THEN <<0, p + 1>> ELSE <<At(data, p), p + 1>>

\* crypto.TokenCipher: a token and a length-prefixed cipher.
PutTokenCipher(tc, data) == PutByteArray(tc.cipher, PutFixed(tc.token, data))

\* PutTokenCiphers: a 2-byte count, then each token cipher; a list longer
\* than 1<<16-1 writes the count 1<<16, whose two low bytes are 0, 0.
PutTokenCiphers(tcs, data) ==
    IF Len(tcs) = 0 THEN data \o <<0, 0>>
    ELSE LET maxLen == IF Len(tcs) > MaxArray THEN MaxArray + 1 ELSE Len(tcs)
         IN  FoldLeft(LAMBDA d, tc : PutTokenCipher(tc, d),
                      data \o <<LowByte(maxLen), LowByte(Shift(maxLen, 1))>>,
                      SubSeq(tcs, 1, maxLen))

NoTokenCipher == [token |-> Zeros(TokenSize), cipher |-> <<>>]

ParseTokenCipher(data, p) ==
    IF p + 1 >= Len(data) THEN <<NoTokenCipher, p>>
    ELSE LET t == ParseFixed(data, p, TokenSize)
             c == ParseByteArray(data, t[2])
         IN  <<[token |-> t[1], cipher |-> c[1]], c[2]>>

RECURSIVE ParseCiphers(_, _, _)
ParseCiphers(data, p, n) ==
    IF n = 0 THEN <<<<>>, p>>
    ELSE LET r == ParseTokenCipher(data, p)
             rest == ParseCiphers(data, r[2], n - 1)
         IN  <<<<r[1]>> \o rest[1], rest[2]>>

ParseTokenCiphers(data, p) ==
    IF p + 1 >= Len(data) THEN <<<<>>, p>>
    ELSE LET n == PrefixAt(data, p) IN
         CASE n = 0                  -> <<<<>>, p + 4>>
           [] p + 2 + n + 2 > Len(data) -> <<<<>>, p + 2 + n + 2>>
           [] OTHER                  -> ParseCiphers(data, p + 2, n)

-----------------------------------------------------------------------------
\* Event.Clock (src/events.go): byte 0 must be Version (0) and the event at
\* least 9 bytes long, else the clock is 0; t[0] is read before the length
\* is checked, so an empty event panics (index out of range).
Version == 0
ClockPanics(t) == t = <<>>
Clock(t) ==
    IF At(t, 0) # Version \/ Len(t) < 9 THEN 0 ELSE ParseUint64(t, 1)[1]

=============================================================================

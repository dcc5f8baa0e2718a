------------------------------- MODULE Intake -------------------------------
(***************************************************************************)
(* One client connection of the instruction server: the client writes     *)
(* framed messages with SecureConnection.WriteMessage, TCP delivers the   *)
(* byte stream in segments, and InstructionConnectionHandler               *)
(* (src/network/instructions_server.go) loops on ReadMessage              *)
(* (src/p2p/conn.go), computes the event's clock and hands it to the      *)
(* broker.                                                                 *)
(*                                                                         *)
(* A frame is nonce | 4-byte length | sealed message; the sealed message  *)
(* is the event plus Overhead bytes of authentication.  Only counts of    *)
(* bytes are kept: `delivered` bytes of the stream have reached the       *)
(* socket and the handler has `consumed` of them.  Each conn.Read returns *)
(* what is available, up to the buffer's size, and blocks while nothing   *)
(* is; at the end of a closed stream it returns 0 and io.EOF.             *)
(***************************************************************************)
EXTENDS Serialization, FiniteSets

CONSTANTS
    Events,     \* event payloads a client may send (byte sequences)
    NonceSize,  \* crypto.NonceSize
    Overhead,   \* bytes the AEAD seal adds
    MaxMsgs,    \* bound on the messages one client writes
    Segmented   \* whether TCP may split a frame across deliveries

LengthSize == 4   \* the length field of a frame

VARIABLES
    sent,       \* events the client has written, in order
    closed,     \* the client has closed its side
    delivered,  \* bytes of the stream that have reached the socket
    consumed,   \* bytes the handler has read
    hpc,        \* handler: where it is in its loop
    data,       \* what ReadMessage returned; nil is the empty sequence
    forwarded   \* events handed to the broker, in order

vars == <<sent, closed, delivered, consumed, hpc, data, forwarded>>

FrameLen(e) == NonceSize + LengthSize + Len(e) + Overhead
StreamLen(s) == FoldLeft(LAMBDA acc, e : acc + FrameLen(e), 0, s)

\* The frame the handler is reading comes after the frames it forwarded.
Frame == Len(forwarded) + 1
FrameEnd == StreamLen(SubSeq(sent, 1, Frame))
\* Mutants of Want and Read.
WantNoOverhead(part) ==
    CASE part = "nonce"  -> NonceSize
      [] part = "length" -> LengthSize
      [] part = "body"   -> Len(sent[Frame])

\* What each conn.Read of ReadMessage asks for, by the part being read:
\* the body's size is the frame's length field.
Want(part) ==
    CASE part = "nonce"  -> NonceSize
      [] part = "length" -> LengthSize
      [] part = "body"   -> Len(sent[Frame]) + Overhead
NextPart(part) ==
    CASE part = "nonce" -> "length" [] part = "length" -> "body" [] part = "body" -> "open"

Init ==
    /\ sent = <<>>
    /\ closed = FALSE
    /\ delivered = 0
    /\ consumed = 0
    /\ hpc = "nonce"
    /\ data = <<>>
    /\ forwarded = <<>>

\* WriteMessage: one conn.Write of the whole frame.
Write(e) ==
    /\ ~closed /\ Len(sent) < MaxMsgs
    /\ sent' = Append(sent, e)
    /\ UNCHANGED <<closed, delivered, consumed, hpc, data, forwarded>>

Close ==
    /\ ~closed
    /\ closed' = TRUE
    /\ UNCHANGED <<sent, delivered, consumed, hpc, data, forwarded>>

\* TCP delivers the next bytes of the stream: any number of them when a
\* frame may be split, else up to the end of a frame.
Deliver ==
    \E n \in (delivered + 1)..StreamLen(sent) :
        /\ Segmented \/ \E k \in 1..Len(sent) : n = StreamLen(SubSeq(sent, 1, k))
        /\ delivered' = n
        /\ UNCHANGED <<sent, closed, consumed, hpc, data, forwarded>>

(***************************************************************************)
(* ReadMessage, one conn.Read: at the end of the closed stream the read   *)
(* fails with io.EOF and the handler closes the connection and returns;   *)
(* a read that gets fewer bytes than it asked for returns (nil, nil), as  *)
(* the error of a short read is nil, and the handler goes on with nil;    *)
(* a full read moves to the next part of the frame.                        *)
(***************************************************************************)
Read ==
    /\ hpc \in {"nonce", "length", "body"}
    /\ LET avail == delivered - consumed
           want == Want(hpc)
       IN  \/ /\ avail = 0 /\ closed /\ delivered = StreamLen(sent)
              /\ hpc' = "closed"
              /\ UNCHANGED <<consumed, data>>
           \/ /\ avail > 0
              /\ consumed' = consumed + (IF avail < want THEN avail ELSE want)
              /\ IF avail >= want THEN hpc' = NextPart(hpc) /\ UNCHANGED data
                 ELSE hpc' = "clock" /\ data' = <<>>
    /\ UNCHANGED <<sent, closed, delivered, forwarded>>

OpenKeepsTag ==
    /\ hpc = "open"
    /\ IF consumed = FrameEnd
         THEN hpc' = "clock" /\ data' = sent[Frame] \o Zeros(Overhead)
         ELSE hpc' = "closed" /\ UNCHANGED data
    /\ UNCHANGED <<sent, closed, delivered, consumed, forwarded>>

\* OpenNewNonce authenticates the sealed bytes under the nonce: it gives
\* the event when exactly one frame was read, else an error, and then the
\* handler closes the connection and returns.
Open ==
    /\ hpc = "open"
    /\ IF consumed = FrameEnd
         THEN hpc' = "clock" /\ data' = sent[Frame]
         ELSE hpc' = "closed" /\ UNCHANGED data
    /\ UNCHANGED <<sent, closed, delivered, consumed, forwarded>>

\* Event.Clock, then broker <- &hashed; Clock panics on nil and on an
\* empty event, and the panic ends the process.
Hand ==
    /\ hpc = "clock"
    /\ IF ClockPanics(data)
         THEN hpc' = "crashed" /\ UNCHANGED forwarded
         ELSE hpc' = "nonce" /\ forwarded' = Append(forwarded, data)
    /\ data' = <<>>
    /\ UNCHANGED <<sent, closed, delivered, consumed>>

Next ==
    \/ \E e \in Events : Write(e)
    \/ Close
    \/ Deliver
    \/ Read
    \/ Open
    \/ Hand

(***************************************************************************)
(* TCP delivers what was written, and the handler goroutine keeps running *)
(* while it has bytes to read.                                             *)
(***************************************************************************)
Spec == Init /\ [][Next]_vars /\ WF_vars(Deliver) /\ WF_vars(Read \/ Open \/ Hand)

-----------------------------------------------------------------------------
TypeOK ==
    /\ sent \in Seq(Events) /\ Len(sent) <= MaxMsgs
    /\ closed \in BOOLEAN
    /\ consumed <= delivered /\ delivered <= StreamLen(sent)
    /\ hpc \in {"nonce", "length", "body", "open", "clock", "closed", "crashed"}
    /\ data \in Events \cup {<<>>}
    /\ forwarded \in Seq(Events)

(***************************************************************************)
(* The handler never ends the process: malformed input, a short read or a *)
(* closed connection are handled by dropping the unit or the connection   *)
(* (spec.md 7).                                                            *)
(***************************************************************************)
NeverCrashes == hpc # "crashed"

(***************************************************************************)
(* Every event the client writes is eventually handed to the broker, in   *)
(* the order written: ReadMessage stays aligned on the frames.            *)
(***************************************************************************)
AllForwarded ==
    \A i \in 1..MaxMsgs :
        Len(sent) >= i ~> (Len(forwarded) >= i /\ forwarded[i] = sent[i])

=============================================================================

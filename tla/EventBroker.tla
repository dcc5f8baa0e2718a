----------------------------- MODULE EventBroker -----------------------------
(***************************************************************************)
(* The event broker of src/p2p/gateway.go (NewEventBroker): one goroutine  *)
(* that receives hashed events from the connection handlers and forwards   *)
(* each to the consensus engine (comm.Events) at most once, remembering    *)
(* the hashes seen per epoch in a window of maxEpochReceiveMessage maps;   *)
(* and that advances its epoch on newBlockSignal, sent by the node's       *)
(* checkpoint loop (src/p2p/node.go) as the checkpoint's clock + 1.        *)
(***************************************************************************)
EXTENDS Integers, Sequences, SequencesExt

CONSTANTS
    Hashes,         \* event hashes (model values)
    EventEpoch,     \* the clock each event carries (0: none or malformed)
    Window,         \* maxEpochReceiveMessage (100 in the code)
    StartEpoch,     \* the epoch NewEventBroker is started with
    MaxEpoch,       \* bound on the epochs signalled
    MaxForward      \* bound on the number of forwarded events

ASSUME /\ EventEpoch \in [Hashes -> 0..MaxEpoch]
       /\ Window \in Nat \ {0}
       /\ StartEpoch \in 0..MaxEpoch

VARIABLES
    currentEpoch,   \* currentEpoch
    recentHashes,   \* recentHashes: Window sets, index 1 is recentHashes[0]
    forwarded,      \* events sent on comm.Events, with the epoch at sending
    crashed         \* the goroutine panicked on an out-of-sequence epoch

vars == <<currentEpoch, recentHashes, forwarded, crashed>>

Init ==
    /\ currentEpoch = StartEpoch
    /\ recentHashes = [n \in 1..Window |-> {}]
    /\ forwarded = <<>>
    /\ crashed = FALSE

(***************************************************************************)
(* case hashInst := <-broker: an event within the window whose hash is not *)
(* in the map of its epoch distance is recorded and forwarded; any other   *)
(* event is dropped.                                                       *)
(***************************************************************************)
Receive(h) ==
    LET delta == currentEpoch - EventEpoch[h] IN
    /\ ~crashed
    /\ IF 0 <= delta /\ delta < Window /\ h \notin recentHashes[delta + 1]
         THEN /\ Len(forwarded) < MaxForward
              /\ recentHashes' = [recentHashes EXCEPT ![delta + 1] = @ \cup {h}]
              /\ forwarded' = Append(forwarded, [hash |-> h, at |-> currentEpoch])
         ELSE UNCHANGED <<recentHashes, forwarded>>
    /\ UNCHANGED <<currentEpoch, crashed>>

(***************************************************************************)
(* case newEpoch := <-newBlockSignal: an epoch other than currentEpoch+1   *)
(* panics; otherwise the window drops recentHashes[0], appends an empty    *)
(* map and the epoch advances.                                             *)
(***************************************************************************)
NewEpoch(n) ==
    /\ ~crashed
    /\ IF n - currentEpoch # 1
         THEN /\ crashed' = TRUE
              /\ UNCHANGED <<currentEpoch, recentHashes, forwarded>>
         ELSE /\ recentHashes' = Append(Tail(recentHashes), {})
              /\ currentEpoch' = n
              /\ UNCHANGED <<forwarded, crashed>>

\* The node signals checkpoint clock + 1; checkpoints may repeat or skip.
Next ==
    \/ \E h \in Hashes : Receive(h)
    \/ \E n \in currentEpoch..MaxEpoch : NewEpoch(n)

Spec == Init /\ [][Next]_vars

-----------------------------------------------------------------------------
(***************************************************************************)
(* No event is forwarded to the consensus engine twice, whatever epochs    *)
(* pass between the deliveries: an event received again in a later epoch  *)
(* is still recognised while its clock is within the window.               *)
(***************************************************************************)
NoDuplicateForward ==
    \A i, j \in DOMAIN forwarded :
        i < j => forwarded[i].hash # forwarded[j].hash

=============================================================================

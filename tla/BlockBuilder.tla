---------------------------- MODULE BlockBuilder ----------------------------
(***************************************************************************)
(* One epoch of BlockBuilder (src/consensus/signed_block.go): an owner     *)
(* goroutine that holds the block and its validator and selects between   *)
(* the deadline ticker and admission requests, and a feeder goroutine that *)
(* drains the instruction pool, caches each instruction and asks the owner *)
(* to incorporate it.  The network intake keeps queueing into the pool.    *)
(*                                                                         *)
(* The two goroutines share `running` and `cache` without synchronisation; *)
(* their steps are interleaved one memory access or channel operation at   *)
(* a time, so a read may see any value written before it.                  *)
(***************************************************************************)
EXTENDS Naturals, Sequences, SequencesExt, FiniteSets

CONSTANTS
    Events,     \* instruction hashes (model values)
    NoEvent,    \* nil instruction
    MaxQueue,   \* bound on the pool's queue slice for network intake
    Conflicts,  \* pairs {e, f} of instructions that cannot both be applied
    Base        \* instructions already applied in the checkpoint's state

ASSUME /\ Conflicts \subseteq SUBSET Events
       /\ Base \subseteq Events

VARIABLES
    queue, events,  \* the shared InstructionPool
    fitem,          \* feeder: newInstruction, the result of pool.Unqueue
    fpc,            \* feeder: program counter
    fvalid,         \* the bool the owner sent back on the valid channel
    cache,          \* the shared instructionCache slice
    running,        \* the shared running flag
    opc,            \* owner: program counter
    requeue,        \* owner: the cache slice as the range loop read it
    block,          \* build.Transactions
    mutations,      \* the pending mutations of the block's MutatingState
    deadline,       \* stop.C has a tick ready
    delivered,      \* history: the caller has received the block on `finished`
    sent,           \* instructions the network intake has queued
    taken,          \* history: instructions the feeder got from Unqueue
    rejected        \* history: instructions the validator refused

vars == <<queue, events, fitem, fpc, fvalid, cache, running, opc, requeue,
          block, mutations, deadline, delivered, sent, taken, rejected>>

Pool == INSTANCE EventsPool WITH out <- fitem

FeederPC == {"check", "unqueue", "append", "send", "wait", "popcheck", "exit"}
OwnerPC  == {"select", "incorporate", "finish", "flag", "range", "requeue", "done"}

Init ==
    /\ Pool!PoolInit
    /\ fpc = "check"
    /\ fvalid = FALSE
    /\ cache = <<>>
    /\ running = TRUE
    /\ opc = "select"
    /\ requeue = <<>>
    /\ block = <<>>
    /\ mutations = {}
    /\ deadline = FALSE
    /\ delivered = FALSE
    /\ sent = {}
    /\ taken = {}
    /\ rejected = {}

-----------------------------------------------------------------------------
(* The block and its validator (src/block/block.go).                        *)

\* MutatingState.Validate: admissible against checkpoint state + overlay.
Applied == Base \cup mutations

Validate(e) ==
    /\ e \notin Applied
    /\ \A f \in Applied : {e, f} \notin Conflicts

\* Block.Incorporate: on success the validator has applied the mutation
\* and the instruction is appended; on failure nothing changes.
Incorporate(e) ==
    IF Validate(e)
      THEN /\ block' = Append(block, e)
           /\ mutations' = mutations \cup {e}
      ELSE UNCHANGED <<block, mutations>>

-----------------------------------------------------------------------------
(* Network intake: pool.Queue of a new instruction.                         *)

Submit(e) ==
    /\ e \notin sent
    /\ Len(queue) < MaxQueue
    /\ Pool!Queue(e)
    /\ sent' = sent \cup {e}
    /\ UNCHANGED <<fpc, fvalid, cache, running, opc, requeue, block,
                   mutations, deadline, delivered, taken, rejected>>

\* The ticker fires once the epoch's finish time has passed.
Tick ==
    /\ ~deadline
    /\ deadline' = TRUE
    /\ UNCHANGED <<queue, events, fitem, fpc, fvalid, cache, running, opc,
                   delivered, requeue, block, mutations, sent, taken, rejected>>

-----------------------------------------------------------------------------
(* Feeder goroutine.                                                        *)

\* for { if !running { break } ...
FeederCheck ==
    /\ fpc = "check"
    /\ fpc' = IF running THEN "unqueue" ELSE "exit"
    /\ UNCHANGED <<queue, events, fitem, fvalid, cache, running, opc,
                   requeue, block, mutations, deadline, delivered, sent, taken, rejected>>

\* newInstruction, newHash := pool.Unqueue(); if nil, loop again.
FeederUnqueue ==
    /\ fpc = "unqueue"
    /\ \/ /\ Pool!Unqueue
          /\ fpc' = IF fitem' = NoEvent THEN "check" ELSE "append"
          /\ taken' = IF fitem' = NoEvent THEN taken ELSE taken \cup {fitem'}
       \/ /\ Pool!UnqueueEmpty
          /\ fpc' = "check"
          /\ UNCHANGED taken
    /\ UNCHANGED <<fvalid, cache, running, opc, requeue, block, mutations,
                   deadline, delivered, sent, rejected>>

\* cache = append(cache, instructionCache{...})
FeederCache ==
    /\ fpc = "append"
    /\ cache' = Append(cache, fitem)
    /\ fpc' = "send"
    /\ UNCHANGED <<queue, events, fitem, fvalid, running, opc, requeue,
                   block, mutations, deadline, delivered, sent, taken, rejected>>

\* if <-valid { cache = cache[0 : len(cache)-1] }
FeederPop ==
    /\ fpc = "popcheck"
    /\ cache' = IF fvalid THEN SubSeq(cache, 1, Len(cache) - 1) ELSE cache
    /\ fpc' = "check"
    /\ UNCHANGED <<queue, events, fitem, fvalid, running, opc, requeue,
                   block, mutations, deadline, delivered, sent, taken, rejected>>

-----------------------------------------------------------------------------
(* Owner goroutine.  `communication` and `valid` are unbuffered: a send    *)
(* and its receive are one step.                                           *)

\* select: case process := <-communication (the feeder is sending).
OwnerReceive ==
    /\ opc = "select"
    /\ fpc = "send"
    /\ opc' = "incorporate"
    /\ fpc' = "wait"
    /\ UNCHANGED <<queue, events, fitem, fvalid, cache, running, requeue,
                   block, mutations, deadline, delivered, sent, taken, rejected>>

\* process.valid <- build.Incorporate(process.instruction), received by
\* the feeder waiting on <-valid.
OwnerIncorporate ==
    /\ opc = "incorporate"
    /\ Incorporate(fitem)
    /\ fvalid' = Validate(fitem)
    /\ rejected' = IF Validate(fitem) THEN rejected ELSE rejected \cup {fitem}
    /\ opc' = "select"
    /\ fpc' = "popcheck"
    /\ UNCHANGED <<queue, events, fitem, cache, running, requeue, deadline, delivered,
                   sent, taken>>

\* select: case <-stop.C (Go picks at random when both cases are ready).
OwnerStop ==
    /\ opc = "select"
    /\ deadline
    /\ opc' = "finish"
    /\ UNCHANGED <<queue, events, fitem, fpc, fvalid, cache, running,
                   requeue, block, mutations, deadline, delivered, sent, taken, rejected>>

\* finished <- build, received by the caller of BlockBuilder.
OwnerFinish ==
    /\ opc = "finish"
    /\ opc' = "flag"
    /\ delivered' = TRUE
    /\ UNCHANGED <<queue, events, fitem, fpc, fvalid, cache, running,
                   requeue, block, mutations, deadline, sent, taken, rejected>>

\* running = false
OwnerFlag ==
    /\ opc = "flag"
    /\ running' = FALSE
    /\ opc' = "range"
    /\ UNCHANGED <<queue, events, fitem, fpc, fvalid, cache, requeue, block,
                   mutations, deadline, delivered, sent, taken, rejected>>

\* for _, cached := range cache: the slice is read once.
OwnerRange ==
    /\ opc = "range"
    /\ requeue' = cache
    /\ opc' = "requeue"
    /\ UNCHANGED <<queue, events, fitem, fpc, fvalid, cache, running, block,
                   mutations, deadline, delivered, sent, taken, rejected>>

\* pool.Queue(cached.instruction, cached.hash), one call per entry.
OwnerRequeue ==
    /\ opc = "requeue"
    /\ requeue # <<>>
    /\ Pool!Queue(Head(requeue))
    /\ requeue' = Tail(requeue)
    /\ UNCHANGED <<fpc, fvalid, cache, running, opc, block, mutations,
                   deadline, delivered, sent, taken, rejected>>

\* Mutant: the stop case falls through to the select loop.
OwnerReturnToSelect ==
    /\ opc = "requeue"
    /\ requeue = <<>>
    /\ opc' = "select"
    /\ UNCHANGED <<queue, events, fitem, fpc, fvalid, cache, running,
                   requeue, block, mutations, deadline, delivered, sent, taken, rejected>>

\* return
OwnerReturn ==
    /\ opc = "requeue"
    /\ requeue = <<>>
    /\ opc' = "done"
    /\ UNCHANGED <<queue, events, fitem, fpc, fvalid, cache, running,
                   requeue, block, mutations, deadline, delivered, sent, taken, rejected>>

-----------------------------------------------------------------------------
Next ==
    \/ \E e \in Events : Submit(e)
    \/ Tick
    \/ FeederCheck \/ FeederUnqueue \/ FeederCache \/ FeederPop
    \/ OwnerReceive \/ OwnerIncorporate \/ OwnerStop \/ OwnerFinish
    \/ OwnerFlag \/ OwnerRange \/ OwnerRequeue \/ OwnerReturn

Spec == Init /\ [][Next]_vars

-----------------------------------------------------------------------------
TypeOK ==
    /\ Pool!TypeOK
    /\ fpc \in FeederPC
    /\ opc \in OwnerPC
    /\ fvalid \in BOOLEAN
    /\ delivered \in BOOLEAN
    /\ running \in BOOLEAN
    /\ deadline \in BOOLEAN
    /\ cache \in Seq(Events)
    /\ requeue \in Seq(Events)
    /\ block \in Seq(Events)
    /\ mutations \subseteq Events
    /\ sent \subseteq Events /\ taken \subseteq Events /\ rejected \subseteq Events

(***************************************************************************)
(* Once the owner has handed the block over on `finished`, no step changes *)
(* its instructions or its validator's mutations (spec.md 4.4: no further  *)
(* admissions after sealing, even if in flight).  The feeder may still be  *)
(* blocked sending an admission request at that point.                     *)
(***************************************************************************)
SealedBlockFrozen ==
    [][delivered => UNCHANGED <<block, mutations>>]_vars

(***************************************************************************)
(* An event is consumed exactly once by the builder (spec.md 3, 7, 8):   *)
(* when the owner returns, every instruction the feeder took from the    *)
(* pool is in the block, was refused by the validator, or is back in the *)
(* pool; an instruction of the block is never also pending in the pool;  *)
(* and one the validator refused is discarded, never requeued (spec.md  *)
(* 3 and 7; 4.4 instead keeps refused entries for requeue).  The        *)
(* feeder's cache, its pop after `<-valid`, the `running` flag and the   *)
(* owner's final range over the cache decide all three.                  *)
(***************************************************************************)
EventConsumedOnce ==
    /\ opc = "done" => taken \subseteq ToSet(block) \cup rejected \cup events
    /\ ToSet(block) \cap events = {}
    /\ rejected \cap events = {}

=============================================================================

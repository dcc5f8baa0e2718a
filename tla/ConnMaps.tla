------------------------------ MODULE ConnMaps ------------------------------
(***************************************************************************)
(* The connection maps of the peer networks and the goroutines that touch *)
(* them; only the trusted router takes a lock:                           *)
(*   - ConnectTCPPool (src/p2p/conn.go): one dialer goroutine per trusted  *)
(*     peer sends its result to a collector goroutine, which fills the    *)
(*     map `pool` after the function has returned it; NewNode wraps it as *)
(*     the ValidatorNetwork whose Broadcast the event broker ranges over. *)
(*   - NewGatewayNetwork (src/p2p/listeners.go): an accept goroutine adds *)
(*     attendees; the write loop ranges over them and deletes those a     *)
(*     write to fails.                                                     *)
(*   - NewValidatorNetwork (src/p2p/validators.go): an accept goroutine   *)
(*     and one dialer goroutine per address add to `network`, then each   *)
(*     runs handleValidatorConnection inline until its connection closes. *)
(*   - NewGateway (src/trusted/routing.go): the accept goroutine adds to  *)
(*     `outbound` under router.mu.  Its termination loop waits on a       *)
(*     channel nothing in the repository sends on, so it never runs.     *)
(*                                                                         *)
(* A Go map access is not atomic: a write, or a range loop, is an interval *)
(* from its first to its last step, recorded in `inside`.  Dial, accept    *)
(* and handshake outcomes, and write errors, are the environment's choice. *)
(***************************************************************************)
EXTENDS Naturals, FiniteSets, TLC

CONSTANTS
    Trusted,        \* peers ConnectTCPPool dials
    Attendees,      \* gateways that connect to the block broadcast port
    Inbound,        \* validators that connect to the validator port
    Dialed,         \* validators NewValidatorNetwork dials
    Routed,         \* gateways that connect to the trusted router
    None,           \* no connection held
    MaxBroadcasts,  \* bound on Broadcast calls by the event broker
    MaxBlocks       \* bound on blocks sent to the write loop

Maps == {"pool", "attendees", "network", "outbound"}

\* The goroutines, each with the map it writes.
Dialers    == {<<"dial", p>> : p \in Trusted}
VDialers   == {<<"vdial", p>> : p \in Dialed}
Collector  == <<"collector", None>>
Broadcaster == <<"broadcast", None>>
GwAccept   == <<"gwaccept", None>>
GwWrite    == <<"gwwrite", None>>
VAccept    == <<"vaccept", None>>
RAccept    == <<"raccept", None>>
Goroutines == Dialers \cup VDialers \cup
              {Collector, Broadcaster, GwAccept, GwWrite, VAccept, RAccept}

MapOf(g) == CASE g = Collector                -> "pool"
              [] g \in {GwAccept, GwWrite}     -> "attendees"
              [] g = RAccept                   -> "outbound"
              [] OTHER                         -> "network"

VARIABLES
    pc,         \* each goroutine's place in its code
    held,       \* the connection a goroutine is about to store or serve
    maps,       \* contents of the four maps
    inside,     \* map -> accesses in progress: [g, write]
    remaining,  \* ConnectTCPPool's count of dialers not yet collected
    offered,    \* the results dialers are sending on resp: peer -> ok
    joined,     \* connections that have come to an accept loop
    closed,     \* connections closed by the remote side
    toSend,     \* attendees the write loop's range has still to visit
    mu,         \* the goroutine holding router.mu, or None
    broadcasts, blocks

vars == <<pc, held, maps, inside, remaining, offered, joined, closed, toSend,
          mu, broadcasts, blocks>>

Init ==
    /\ pc = [g \in Goroutines |->
               CASE g \in Dialers \cup VDialers        -> "dial"
                 [] g = Collector                      -> "recv"
                 [] g \in {GwAccept, VAccept, RAccept} -> "accept"
                 [] OTHER                              -> "idle"]
    /\ held = [g \in Goroutines |-> None]
    /\ maps = [m \in Maps |-> {}]
    /\ inside = [m \in Maps |-> {}]
    /\ remaining = Cardinality(Trusted)
    /\ offered = [p \in {} |-> FALSE]
    /\ joined = {}
    /\ closed = {}
    /\ toSend = {}
    /\ mu = None
    /\ broadcasts = 0
    /\ blocks = 0

\* Moving goroutine g from one place of its code to the next.
Goto(g, from, to) == pc[g] = from /\ pc' = [pc EXCEPT ![g] = to]
Enter(g, w) == inside' = [inside EXCEPT ![MapOf(g)] = @ \cup {[g |-> g, w |-> w]}]
Leave(g) == inside' = [inside EXCEPT ![MapOf(g)] = {a \in @ : a.g # g}]

\* ConnectTCP in a dialer goroutine: nil on a failed dial or handshake;
\* then the unbuffered send on resp.
Dial(p) ==
    /\ Goto(<<"dial", p>>, "dial", "send")
    /\ \E ok \in BOOLEAN : offered' = offered @@ (p :> ok)
    /\ UNCHANGED <<held, maps, inside, remaining, joined, closed, toSend, mu, broadcasts, blocks>>

\* The collector receives a result and counts it; a non-nil connection is
\* stored in the map, then the loop breaks when no dialer remains.
Collect(p) ==
    /\ pc[<<"dial", p>>] = "send" /\ pc[Collector] = "recv"
    /\ pc'= [pc EXCEPT ![<<"dial", p>>] = "done",
                        ![Collector] = IF offered[p] THEN "write" ELSE "check"]
    /\ remaining' = remaining - 1
    /\ held' = [held EXCEPT ![Collector] = p]
    /\ UNCHANGED <<maps, inside, offered, joined, closed, toSend, mu, broadcasts, blocks>>

CollectCheck ==
    /\ Goto(Collector, "check", IF remaining = 0 THEN "done" ELSE "recv")
    /\ UNCHANGED <<held, maps, inside, remaining, offered, joined, closed, toSend, mu, broadcasts, blocks>>

\* A map assignment m[k] = v: begins, then ends with the entry stored.
WriteBegin(g) ==
    /\ Goto(g, "write", "writing")
    /\ Enter(g, TRUE)
    /\ UNCHANGED <<held, maps, remaining, offered, joined, closed, toSend, mu, broadcasts, blocks>>

WriteEnd(g) ==
    /\ pc[g] = "writing"
    /\ pc' = [pc EXCEPT ![g] = CASE g = Collector -> "check"
                                 [] g = GwAccept  -> "accept"
                                 [] g = RAccept   -> "unlock"
                                 [] OTHER         -> "handle"]
    /\ maps' = [maps EXCEPT ![MapOf(g)] = @ \cup {held[g]}]
    /\ Leave(g)
    /\ UNCHANGED <<held, remaining, offered, joined, closed, toSend, mu, broadcasts, blocks>>

\* ValidatorNetwork.Broadcast: range over the pool, WriteMessage to each.
BroadcastBegin ==
    /\ broadcasts < MaxBroadcasts
    /\ Goto(Broadcaster, "idle", "range")
    /\ inside' = [inside EXCEPT !["pool"] = @ \cup {[g |-> Broadcaster, w |-> FALSE]}]
    /\ broadcasts' = broadcasts + 1
    /\ UNCHANGED <<held, maps, remaining, offered, joined, closed, toSend, mu, blocks>>

BroadcastEnd ==
    /\ Goto(Broadcaster, "range", "idle")
    /\ inside' = [inside EXCEPT !["pool"] = {a \in @ : a.g # Broadcaster}]
    /\ UNCHANGED <<held, maps, remaining, offered, joined, closed, toSend, mu, broadcasts, blocks>>

\* listener.Accept and PerformServerHandShake: a failed handshake closes
\* the connection and the loop accepts again.
Accept(g, c) ==
    /\ c \notin joined
    /\ pc[g] = "accept"
    /\ joined' = joined \cup {c}
    /\ \E ok \in BOOLEAN :
         /\ pc' = [pc EXCEPT ![g] = IF ~ok THEN "accept"
                                    ELSE IF g = RAccept THEN "lock" ELSE "write"]
         /\ held' = [held EXCEPT ![g] = IF ok THEN c ELSE None]
    /\ UNCHANGED <<maps, inside, remaining, offered, closed, toSend, mu, broadcasts, blocks>>

\* router.mu.Lock() and Unlock() around the store into router.outbound.
RouterLock ==
    /\ mu = None
    /\ Goto(RAccept, "lock", "write")
    /\ mu' = RAccept
    /\ UNCHANGED <<held, maps, inside, remaining, offered, joined, closed, toSend, broadcasts, blocks>>

RouterUnlock ==
    /\ Goto(RAccept, "unlock", "accept")
    /\ mu' = None
    /\ UNCHANGED <<held, maps, inside, remaining, offered, joined, closed, toSend, broadcasts, blocks>>

\* The write loop: a block from network.comm, then a range over attendees
\* in which a failed WriteMessage closes the connection and deletes it.
GwRangeBegin ==
    /\ blocks < MaxBlocks
    /\ Goto(GwWrite, "idle", "range")
    /\ Enter(GwWrite, FALSE)
    /\ toSend' = maps["attendees"]
    /\ blocks' = blocks + 1
    /\ UNCHANGED <<held, maps, remaining, offered, joined, closed, mu, broadcasts>>

GwSend(a) ==
    /\ pc[GwWrite] = "range" /\ a \in toSend
    /\ toSend' = toSend \ {a}
    /\ \/ UNCHANGED maps
       \/ maps' = [maps EXCEPT !["attendees"] = @ \ {a}]
    /\ UNCHANGED <<pc, held, inside, remaining, offered, joined, closed, mu, broadcasts, blocks>>

GwRangeEnd ==
    /\ toSend = {}
    /\ Goto(GwWrite, "range", "idle")
    /\ Leave(GwWrite)
    /\ UNCHANGED <<held, maps, remaining, offered, joined, closed, toSend, mu, broadcasts, blocks>>

\* A dialer of NewValidatorNetwork: net.Dial and the client handshake; on
\* failure the goroutine returns.
VDial(p) ==
    /\ \E ok \in BOOLEAN :
         /\ Goto(<<"vdial", p>>, "dial", IF ok THEN "write" ELSE "done")
         /\ held' = [held EXCEPT ![<<"vdial", p>>] = IF ok THEN p ELSE None]
    /\ UNCHANGED <<maps, inside, remaining, offered, joined, closed, toSend, mu, broadcasts, blocks>>

\* The remote side closes a served connection.
Close(c) ==
    /\ \E g \in Goroutines : pc[g] = "handle" /\ held[g] = c
    /\ c \notin closed
    /\ closed' = closed \cup {c}
    /\ UNCHANGED <<pc, held, maps, inside, remaining, offered, joined, toSend, mu, broadcasts, blocks>>

\* handleValidatorConnection returns when ReadMessage fails: the accept
\* goroutine accepts again, a dialer goroutine ends.
HandleReturn(g) ==
    /\ pc[g] = "handle" /\ held[g] \in closed
    /\ pc' = [pc EXCEPT ![g] = IF g = VAccept THEN "accept" ELSE "done"]
    /\ held' = [held EXCEPT ![g] = None]
    /\ UNCHANGED <<maps, inside, remaining, offered, joined, closed, toSend, mu, broadcasts, blocks>>

Next ==
    \/ \E p \in Trusted : Dial(p) \/ Collect(p)
    \/ CollectCheck
    \/ \E g \in Goroutines : WriteBegin(g) \/ WriteEnd(g) \/ HandleReturn(g)
    \/ BroadcastBegin \/ BroadcastEnd
    \/ \E c \in Attendees : Accept(GwAccept, c)
    \/ \E c \in Inbound : Accept(VAccept, c)
    \/ \E c \in Routed : Accept(RAccept, c)
    \/ RouterLock \/ RouterUnlock
    \/ GwRangeBegin \/ GwRangeEnd \/ \E a \in Attendees : GwSend(a)
    \/ \E p \in Dialed : VDial(p)
    \/ \E c \in Inbound \cup Dialed : Close(c)

Spec == Init /\ [][Next]_vars

-----------------------------------------------------------------------------
(***************************************************************************)
(* No goroutine accesses a connection map while another goroutine writes *)
(* it: in Go a map written concurrently with another access is a data    *)
(* race, which the runtime may stop with "concurrent map writes" or      *)
(* "concurrent map iteration and map write".                              *)
(***************************************************************************)
NoMapRace ==
    \A m \in Maps : \A a, b \in inside[m] : a.g # b.g => ~(a.w \/ b.w)

=============================================================================

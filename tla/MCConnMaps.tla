----------------------------- MODULE MCConnMaps -----------------------------
(***************************************************************************)
(* ConnMaps with two trusted peers for ConnectTCPPool, two gateways, one  *)
(* inbound and one dialed validator, one client of the trusted router,    *)
(* one broadcast and one block.                                            *)
(***************************************************************************)
EXTENDS ConnMaps

CONSTANTS p1, p2, a1, a2, i1, d1, r1

MCTrusted == {p1, p2}
MCAttendees == {a1, a2}

=============================================================================

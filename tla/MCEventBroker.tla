---------------------------- MODULE MCEventBroker ----------------------------
EXTENDS EventBroker

CONSTANTS a, b, z

\* a and b carry epochs 1 and 2; z carries no valid clock (Clock() = 0).
MCHashes     == {a, b, z}
MCEventEpoch == [h \in MCHashes |-> CASE h = a -> 1 [] h = b -> 2 [] h = z -> 0]

=============================================================================

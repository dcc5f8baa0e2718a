------------------------------ MODULE MCIntake ------------------------------
EXTENDS Intake

\* A well-formed event (version 0) and a malformed one (version 1); the
\* empty event a client can also seal and send.
MCEvents == {<<0>>, <<1>>}
MCEventsWithEmpty == {<<>>, <<0>>}

=============================================================================

--------------------------- MODULE MCBlockBuilder ---------------------------
EXTENDS BlockBuilder

CONSTANTS e1, e2, e3

\* e1 and e2 spend the same funds; e3 is already applied at the checkpoint.
MCEvents    == {e1, e2, e3}
MCConflicts == {{e1, e2}}
MCBase      == {e3}

=============================================================================

---------------------------------- MODULE MCGc ----------------------------------
\* Gc with two concurrent Apply callers.
EXTENDS Gc

CONSTANTS p1, p2

MCCallers == {p1, p2}

=============================================================================

------------------------------ MODULE MCHealth ------------------------------
EXTENDS Health

CONSTANTS p1, p2, q1

\* Two parts, so a copy can be half done while the other part reports; one
\* request goroutine serving request after request.
MCParts == {p1, p2}
MCRequests == {q1}
=============================================================================

---------------------------- MODULE MCRepository ----------------------------
(* Instantiates Repository for TLC: three callers, two external commits.  *)
EXTENDS Repository

CONSTANTS c1, c2, c3, x1, x2

MCClients == {c1, c2, c3}
MCExtCommits == {x1, x2}
=============================================================================

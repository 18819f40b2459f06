---------------------------- MODULE HealthEndpoint ----------------------------
(***************************************************************************)
(* What the health server of package setup promises: a map from part      *)
(* names to their last reported health, and an HTTP handler that answers  *)
(* 200 when every part that has reported is ready and 500 otherwise, as   *)
(* if it read the whole map at one instant.                               *)
(***************************************************************************)
CONSTANTS
    Parts,      \* names given to HealthServer.Reporter
    Requests,   \* goroutines serving GET requests on the health endpoint
    Absent      \* no report of that part (parts is nil or has no entry)

Healths == {"starting", "ready", "failed"}

VARIABLES
    parts,      \* per part its last reported Health, or Absent
    answer      \* per request goroutine the status of its last answer

\* HealthServer.IsReady: a missing entry has the zero Health (starting).
IsReady(p) == parts[p] = "ready"

Init ==
    /\ parts = [p \in Parts |-> Absent]
    /\ answer = [r \in Requests |-> "none"]

Report(p, h) ==
    /\ parts' = [parts EXCEPT ![p] = h]
    /\ UNCHANGED answer

Serve(r) ==
    /\ answer' = [answer EXCEPT ![r] = IF \A p \in Parts : parts[p] = Absent \/ IsReady(p)
                                       THEN "200" ELSE "500"]
    /\ UNCHANGED parts

Next ==
    \/ \E p \in Parts, h \in Healths : Report(p, h)
    \/ \E r \in Requests : Serve(r)

Spec == Init /\ [][Next]_<<parts, answer>>

=============================================================================

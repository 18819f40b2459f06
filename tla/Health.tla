-------------------------------- MODULE Health --------------------------------
(***************************************************************************)
(* The health server of package setup (src/pkg/setup/health.go, and the   *)
(* later version with a TTL per report that src/pkg/auth/auth.go carries  *)
(* from line 620 on).                                                     *)
(*                                                                         *)
(* Reporter goroutines write their part's report into HealthServer.parts  *)
(* under mx; a request goroutine's ServeHTTP copies the map under mx      *)
(* (reports()), entry by entry in Go's map order, and answers from the    *)
(* copy after unlocking.  A report's time, message and TTL are never read *)
(* by the server and are left out.                                        *)
(*                                                                         *)
(* The watchdog of health.go: a goroutine that on every tick offers a     *)
(* ping on a channel of capacity 1 and, when the channel is full, counts  *)
(* a missed ping; the consumer takes pings and calls Pong, which resets   *)
(* the count.  Count and reset are not synchronised: the increment is a   *)
(* load and a store.                                                      *)
(***************************************************************************)
EXTENDS Naturals

CONSTANTS
    Parts,      \* names given to Reporter
    Requests,   \* goroutines serving the health endpoint, one request at a time
    Absent,     \* no entry in parts
    NoOwner,    \* mx is not held
    MaxTicks    \* ticks of the watchdog's ticker in a behaviour

ASSUME NoOwner \notin Requests /\ MaxTicks \in Nat

VARIABLES
    parts,      \* HealthServer.parts: per part its Health, or Absent
    mx,         \* the request goroutine holding HealthServer.mx, or NoOwner
    pc,         \* per request goroutine: "idle", "copy", "respond"
    snap,       \* per request goroutine: the map reports() builds
    answer,     \* per request goroutine: the status it last wrote
    ch,         \* pings waiting in the watchdog channel (0 or 1)
    missed,     \* watchDog.missedPings
    wdPc,       \* the watchdog goroutine: "loop", "store" (mid-increment), "exited"
    wdTmp,      \* the value of missedPings its increment loaded
    consumer,   \* the ping consumer: "wait" or "got" (holds a ping)
    canceled,   \* the watchdog's cancel function was called
    ticks       \* ticks so far (bounded by MaxTicks)

serverVars == <<parts, mx, pc, snap, answer>>
wdVars == <<ch, missed, wdPc, wdTmp, consumer, canceled, ticks>>
vars == <<serverVars, wdVars>>

Healths == {"starting", "ready", "failed"}

EmptyMap == [p \in Parts |-> Absent]

\* The loop of ServeHTTP over the copy: any report that is not ready makes
\* the answer 500; no report, or only ready ones, make it 200.
Status(view) == IF \A p \in Parts : view[p] \in {Absent, "ready"} THEN "200" ELSE "500"

-----------------------------------------------------------------------------
(* The server.                                                             *)

\* Mutant: the report is stored without taking mx.
ReportHealthUnlocked(p, h) ==
    /\ parts[p] # Absent
    /\ parts' = [parts EXCEPT ![p] = h]
    /\ UNCHANGED <<mx, pc, snap, answer>> /\ UNCHANGED wdVars

\* ReportHealth: lock mx, create the map if it is nil, store the report.
\* The whole body runs under mx, so it is one step taken while no request
\* goroutine holds mx.
ReportHealth(p, h) ==
    /\ parts[p] # Absent
    /\ mx = NoOwner
    /\ parts' = [parts EXCEPT ![p] = h]
    /\ UNCHANGED <<mx, pc, snap, answer>> /\ UNCHANGED wdVars

\* ReportReady and ReportReadyTtl: ReportHealth with HealthReady (and a TTL
\* nothing reads).
ReportReady(p) == ReportHealth(p, "ready")
ReportReadyTtl(p) == ReportHealth(p, "ready")

\* HealthServer.Reporter: a new reporter reports HealthStarting.
Reporter(p) ==
    /\ parts[p] = Absent
    /\ mx = NoOwner
    /\ parts' = [parts EXCEPT ![p] = "starting"]
    /\ UNCHANGED <<mx, pc, snap, answer>> /\ UNCHANGED wdVars

\* ServeHTTP calls reports(), which locks mx and makes an empty map ...
LockParts(r) ==
    /\ pc[r] = "idle"
    /\ mx = NoOwner
    /\ mx' = r
    /\ snap' = [snap EXCEPT ![r] = EmptyMap]
    /\ pc' = [pc EXCEPT ![r] = "copy"]
    /\ UNCHANGED <<parts, answer>> /\ UNCHANGED wdVars

\* ... copies one entry per iteration, in map order ...
CopyPart(r, p) ==
    /\ pc[r] = "copy"
    /\ parts[p] # Absent /\ snap[r][p] = Absent
    /\ snap' = [snap EXCEPT ![r][p] = parts[p]]
    /\ UNCHANGED <<parts, mx, pc, answer>> /\ UNCHANGED wdVars

\* ... and returns the copy, unlocking mx (defer).
UnlockParts(r) ==
    /\ pc[r] = "copy"
    /\ \A p \in Parts : parts[p] # Absent => snap[r][p] # Absent
    /\ mx' = NoOwner
    /\ pc' = [pc EXCEPT ![r] = "respond"]
    /\ UNCHANGED <<parts, snap, answer>> /\ UNCHANGED wdVars

\* ServeHTTP then answers from the copy: 200 or 500, with the JSON body.
Respond(r) ==
    /\ pc[r] = "respond"
    /\ answer' = [answer EXCEPT ![r] = Status(snap[r])]
    /\ pc' = [pc EXCEPT ![r] = "idle"]
    /\ UNCHANGED <<parts, mx, snap>> /\ UNCHANGED wdVars

-----------------------------------------------------------------------------
(* The watchdog.                                                           *)

\* newWatchDog's loop, the ticker case: offer a ping without blocking; when
\* the channel is full, missedPing loads missedPings ...
Tick ==
    /\ wdPc = "loop"
    /\ ticks < MaxTicks
    /\ ticks' = ticks + 1
    /\ IF ch = 0
       THEN ch' = 1 /\ UNCHANGED <<wdPc, wdTmp>>
       ELSE /\ wdPc' = "store" /\ wdTmp' = missed
            /\ UNCHANGED ch
    /\ UNCHANGED <<missed, consumer, canceled>> /\ UNCHANGED serverVars

\* ... and stores it plus one.
StoreMissed ==
    /\ wdPc = "store"
    /\ missed' = wdTmp + 1
    /\ wdPc' = "loop"
    /\ UNCHANGED <<ch, wdTmp, consumer, canceled, ticks>> /\ UNCHANGED serverVars

\* The ctx.Done case: the goroutine returns.
WatchdogExit ==
    /\ wdPc = "loop" /\ canceled
    /\ wdPc' = "exited"
    /\ UNCHANGED <<ch, missed, wdTmp, consumer, canceled, ticks>> /\ UNCHANGED serverVars

\* The consumer of StartWatchDog's channel takes a ping ...
TakePing ==
    /\ consumer = "wait" /\ ch = 1
    /\ ch' = 0 /\ consumer' = "got"
    /\ UNCHANGED <<missed, wdPc, wdTmp, canceled, ticks>> /\ UNCHANGED serverVars

\* ... and calls Pong: gotPing sets the latency and resets missedPings.
Pong ==
    /\ consumer = "got"
    /\ missed' = 0
    /\ consumer' = "wait"
    /\ UNCHANGED <<ch, wdPc, wdTmp, canceled, ticks>> /\ UNCHANGED serverVars

\* The consumer calls the cancel function StartWatchDog returned.
CancelWatchdog ==
    /\ ~canceled
    /\ canceled' = TRUE
    /\ UNCHANGED <<ch, missed, wdPc, wdTmp, consumer, ticks>> /\ UNCHANGED serverVars

-----------------------------------------------------------------------------

Init ==
    /\ parts = EmptyMap
    /\ mx = NoOwner
    /\ pc = [r \in Requests |-> "idle"]
    /\ snap = [r \in Requests |-> EmptyMap]
    /\ answer = [r \in Requests |-> "none"]
    /\ ch = 0 /\ missed = 0 /\ wdPc = "loop" /\ wdTmp = 0
    /\ consumer = "wait" /\ canceled = FALSE /\ ticks = 0

Next ==
    \/ \E p \in Parts :
          \/ Reporter(p) \/ ReportReady(p) \/ ReportReadyTtl(p)
          \/ \E h \in Healths \ {"ready"} : ReportHealth(p, h)
    \/ \E r \in Requests :
          LockParts(r) \/ UnlockParts(r) \/ Respond(r) \/ \E p \in Parts : CopyPart(r, p)
    \/ Tick \/ StoreMissed \/ WatchdogExit \/ TakePing \/ Pong \/ CancelWatchdog

Spec == Init /\ [][Next]_vars

-----------------------------------------------------------------------------

\* Type invariant.
TypeOK ==
    /\ parts \in [Parts -> Healths \cup {Absent}]
    /\ mx \in Requests \cup {NoOwner}
    /\ pc \in [Requests -> {"idle", "copy", "respond"}]
    /\ snap \in [Requests -> [Parts -> Healths \cup {Absent}]]
    /\ answer \in [Requests -> {"none", "200", "500"}]
    /\ ch \in 0..1 /\ missed \in Nat /\ wdTmp \in Nat
    /\ wdPc \in {"loop", "store", "exited"} /\ consumer \in {"wait", "got"}
    /\ canceled \in BOOLEAN /\ ticks \in 0..MaxTicks

\* ServeHTTP implements the abstract health endpoint: although it copies the
\* map entry by entry while reporters keep reporting, the copy it answers
\* from is the map at one instant (the unlock), so its status is the one an
\* atomic read would give.
Endpoint == INSTANCE HealthEndpoint
    WITH answer <- [r \in Requests |-> IF pc[r] = "respond" THEN Status(snap[r]) ELSE answer[r]]

HealthRefinement == Endpoint!Spec

=============================================================================

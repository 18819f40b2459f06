---------------------------------- MODULE Gc ----------------------------------
(***************************************************************************)
(* Garbage collection of the cd-service repository.  When Apply returns,   *)
(* its deferred function - on the caller's goroutine, not the writer's -   *)
(* adds len(transformers) to r.writesDone and calls maybeGc, which, once  *)
(* writesDone reaches GcFrequency (and the backend is not sqlite), resets  *)
(* the counter, counts objects, runs `git repack -a -d` and counts again.  *)
(* Nothing guards writesDone, and the writer goroutine keeps committing   *)
(* other callers' elements meanwhile.                                     *)
(*                                                                         *)
(* Objects are numbered; `loose` are the loose ones, which count-objects  *)
(* reports as "count:" and repack moves into a pack.                      *)
(***************************************************************************)
EXTENDS Naturals, Sequences, FiniteSets

CONSTANTS
    Callers,         \* goroutines calling Apply
    Calls,           \* Apply calls each caller makes, one after another
    Writes,          \* len(transformers) of every call
    GcFrequency,     \* config.GcFrequency
    SqliteBackend,   \* config.StorageBackend = SqliteBackend
    Cancellable,     \* callers whose request context may be cancelled
    UintBits         \* width of the uint64 counts (see README)

ASSUME /\ Calls \in Nat /\ Writes \in Nat \ {0} /\ GcFrequency \in Nat
       /\ SqliteBackend \in BOOLEAN /\ UintBits \in Nat \ {0}
       /\ Cancellable \subseteq Callers

UintMod == 2 ^ UintBits

VARIABLES
    pc,           \* per caller: where it is
    left,         \* per caller: Apply calls still to make
    tmp,          \* per caller: the value of writesDone it loaded
    writesDone,   \* r.writesDone
    nextObj,      \* id of the next object the writer creates
    loose,        \* loose objects of the repository
    snap,         \* per caller: loose objects its running repack packs
    before,       \* per caller: statsBefore.Count
    collected,    \* the "collected" value of every git.repack log line (history)
    canceled,     \* callers whose current request context is done
    exited,       \* log.Fatal ended the process
    applied,      \* history: transformers of all Apply calls that returned
    resets        \* history: times maybeGc reset writesDone

vars == <<pc, left, tmp, writesDone, nextObj, loose, snap, before, collected,
          canceled, exited, applied, resets>>
hist == <<applied, resets>>

GcPhases == {"countBefore", "repack", "packed", "countAfter"}

\* countObjects(ctx): the "count:" line of `git count-objects --verbose`;
\* maybeGc drops its error, so with a done ctx (the command is not run)
\* the count is the zero ObjectCount's.
CountObjects(c) == IF c \in canceled THEN 0 ELSE Cardinality(loose)

\* statsBefore.Count - statsAfter.Count on unsigned integers.
USub(a, b) == (a - b + UintMod) % UintMod

Init ==
    /\ pc = [c \in Callers |-> "idle"]
    /\ left = [c \in Callers |-> Calls]
    /\ tmp = [c \in Callers |-> 0]
    /\ writesDone = 0
    /\ nextObj = 1
    /\ loose = {}
    /\ snap = [c \in Callers |-> {}]
    /\ before = [c \in Callers |-> 0]
    /\ collected = <<>>
    /\ canceled = {}
    /\ exited = FALSE
    /\ applied = 0 /\ resets = 0

\* Apply: the writer commits the caller's element (a new loose object) and
\* the caller's select returns.
Commit(c) ==
    /\ pc[c] = "idle"
    /\ left[c] > 0
    /\ left' = [left EXCEPT ![c] = @ - 1]
    /\ loose' = loose \cup {nextObj}
    /\ nextObj' = nextObj + 1
    /\ pc' = [pc EXCEPT ![c] = "load"]
    /\ applied' = applied + Writes
    /\ UNCHANGED <<tmp, writesDone, snap, before, collected, exited, resets>>
    /\ canceled' = canceled \ {c}

\* The deferred `r.writesDone = r.writesDone + uint(len(transformers))`:
\* a load ...
Load(c) ==
    /\ pc[c] = "load"
    /\ tmp' = [tmp EXCEPT ![c] = writesDone]
    /\ pc' = [pc EXCEPT ![c] = "store"]
    /\ UNCHANGED <<left, writesDone, nextObj, loose, snap, before, collected,
                   canceled, exited>> /\ UNCHANGED hist

\* ... and a store.
Store(c) ==
    /\ pc[c] = "store"
    /\ writesDone' = tmp[c] + Writes
    /\ pc' = [pc EXCEPT ![c] = "check"]
    /\ UNCHANGED <<left, tmp, nextObj, loose, snap, before, collected, canceled, exited>> /\ UNCHANGED hist

\* maybeGc: return unless the file backend is used, GC is enabled and
\* writesDone reached the frequency; otherwise reset the counter.
MaybeGc(c) ==
    /\ pc[c] = "check"
    /\ IF SqliteBackend \/ GcFrequency = 0 \/ writesDone < GcFrequency
       THEN pc' = [pc EXCEPT ![c] = "idle"] /\ UNCHANGED <<writesDone, resets>>
       ELSE /\ writesDone' = 0
            /\ pc' = [pc EXCEPT ![c] = "countBefore"]
            /\ resets' = resets + 1
    /\ UNCHANGED <<left, tmp, nextObj, loose, snap, before, collected, canceled, exited, applied>>

\* statsBefore, _ := r.countObjects(ctx)
CountBefore(c) ==
    /\ pc[c] = "countBefore"
    /\ before' = [before EXCEPT ![c] = CountObjects(c)]
    /\ pc' = [pc EXCEPT ![c] = "repack"]
    /\ UNCHANGED <<left, tmp, writesDone, nextObj, loose, snap, collected,
                   canceled, exited>> /\ UNCHANGED hist

\* `git repack -a -d` starts and takes the loose objects that exist now ...
RepackStart(c) ==
    /\ pc[c] = "repack"
    /\ c \notin canceled
    /\ snap' = [snap EXCEPT ![c] = loose]
    /\ pc' = [pc EXCEPT ![c] = "packed"]
    /\ UNCHANGED <<left, tmp, writesDone, nextObj, loose, before, collected,
                   canceled, exited>> /\ UNCHANGED hist

\* ... and, when it exits, they are packed and no longer loose.
RepackEnd(c) ==
    /\ pc[c] = "packed"
    /\ c \notin canceled
    /\ loose' = loose \ snap[c]
    /\ pc' = [pc EXCEPT ![c] = "countAfter"]
    /\ UNCHANGED <<left, tmp, writesDone, nextObj, snap, before, collected,
                   canceled, exited>> /\ UNCHANGED hist

\* statsAfter, _ := r.countObjects(ctx); log "collected".
CountAfter(c) ==
    /\ pc[c] = "countAfter"
    /\ collected' = Append(collected, [before |-> before[c],
                                       value |-> USub(before[c], CountObjects(c))])
    /\ pc' = [pc EXCEPT ![c] = "idle"]
    /\ UNCHANGED <<left, tmp, writesDone, nextObj, loose, snap, before,
                   canceled, exited>> /\ UNCHANGED hist

\* The caller's request context is cancelled or its deadline passes; the
\* deferred function still runs with that ctx.
Cancel(c) ==
    /\ c \in Cancellable \ canceled
    /\ pc[c] # "idle"
    /\ canceled' = canceled \cup {c}
    /\ UNCHANGED <<pc, left, tmp, writesDone, nextObj, loose, snap, before,
                   collected, exited>> /\ UNCHANGED hist

\* exec.CommandContext(ctx, "git", "repack", ...) with a done ctx: the
\* command is not started or is killed, cmd.Run fails and log.Fatal exits.
RepackFails(c) ==
    /\ pc[c] \in {"repack", "packed"}
    /\ c \in canceled
    /\ exited' = TRUE
    /\ UNCHANGED <<pc, left, tmp, writesDone, nextObj, loose, snap, before,
                   collected, canceled>> /\ UNCHANGED hist

Next == ~exited /\ \E c \in Callers :
            \/ Commit(c) \/ Load(c) \/ Store(c) \/ MaybeGc(c)
            \/ CountBefore(c) \/ RepackStart(c) \/ RepackEnd(c) \/ CountAfter(c)
            \/ Cancel(c) \/ RepackFails(c)

Spec == Init /\ [][Next]_vars

-----------------------------------------------------------------------------

\* Every write is counted toward a GC exactly once: whenever no caller is
\* inside the deferred counter update, writesDone holds the transformers
\* applied since the last reset (spec 4.6: "a write counter increments by
\* the number of transformers applied"; it runs in the writer, so "it never
\* races writers").
GcCountsEveryWrite ==
    (~SqliteBackend /\ GcFrequency > 0 /\ \A c \in Callers : pc[c] \notin {"load", "store", "check"})
        => writesDone + GcFrequency * resets = applied

\* The "collected" value logged after a repack is a number of objects the
\* repack removed: never more than the loose objects counted before it
\* (spec 4.6: log the before/after object counts).
CollectedNotWrapped == \A k \in DOMAIN collected : collected[k].value <= collected[k].before

\* A GC never takes the process down: its failures are logged only and
\* never fail a request (spec 7), in particular not a cancelled request.
NeverExits == ~exited

=============================================================================

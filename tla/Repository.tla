----------------------------- MODULE Repository -----------------------------
(***************************************************************************)
(* The manifest-repository writer of the cd-service                        *)
(* (services/cd-service/pkg/repository/repository.go): callers of Apply    *)
(* put an element (a batch of transformers and a result channel) on the   *)
(* queue; the single writer goroutine (ProcessQueue / ProcessQueueOnce)   *)
(* takes one element, drains the rest of the queue, applies every element  *)
(* as one local commit on the branch, pushes the branch with backoff, on a *)
(* non-fast-forward fetches, resets and re-applies, sends the Argo CD      *)
(* webhook, notifies subscribers and finally answers every element.        *)
(*                                                                         *)
(* A branch is a sequence of commits [id, src]: src is the client whose    *)
(* element produced the commit, or an external commit pushed to the       *)
(* remote by someone else.  Transformer contents are abstracted to "the    *)
(* element's change"; a transformer fails either by itself (Bad) or        *)
(* because the tree holds a malformed environment config.json.            *)
(***************************************************************************)
EXTENDS Naturals, Sequences, FiniteSets, SequencesExt

CONSTANTS
    Clients,          \* callers of Repository.Apply, one element each
    Bad,              \* clients whose transformers return an error
    Cancellable,      \* clients whose request context may be cancelled
    ExtCommits,       \* commits pushed to the remote branch by other writers
    Breaking,         \* external commits that leave a malformed config.json
    ConfigReaders,    \* clients whose transformers read the environment configs
    Faults,           \* network faults the remote may show
    QueueCapacity,    \* capacity of queue.elements
    MaxPushAttempts,  \* attempts of one backoff.Retry around a push
    ArgoWebhook       \* TRUE iff ArgoWebhookUrl is configured

ASSUME
    /\ Bad \subseteq Clients /\ Cancellable \subseteq Clients /\ ConfigReaders \subseteq Clients
    /\ Breaking \subseteq ExtCommits /\ Clients \cap ExtCommits = {}
    /\ Faults \subseteq {"transient", "timeout", "rejected", "fetch"}
    /\ QueueCapacity \in Nat \ {0} /\ MaxPushAttempts \in Nat \ {0}
    /\ ArgoWebhook \in BOOLEAN

VARIABLES
    queue,      \* queue.elements: clients whose element is buffered
    cstate,     \* per caller: "idle", "waiting" inside Apply, "done"
    canceled,   \* callers whose ctx is done
    result,     \* per caller: the buffered result channel (capacity 1)
    outcome,    \* per caller: what Apply returned
    enqOrder,   \* the order in which elements entered the queue (history)
    local,      \* refs/heads/<branch> in the local repository
    remote,     \* refs/heads/<branch> on the remote
    nextId,     \* next commit object id
    wpc,        \* where the writer goroutine is in ProcessQueueOnce
    batch,      \* the writer's `elements`
    err,        \* the writer's `err`, sent to every element at the end
    changes,    \* the writer's aggregate TransformerResult
    tries,      \* attempts made by the running backoff.Retry
    pushOk,     \* pushSuccess, set by the push-update-reference callback
    hooks       \* webhook payloads sent to Argo CD (history)

vars == <<queue, cstate, canceled, result, outcome, enqOrder, local, remote,
          nextId, wpc, batch, err, changes, tries, pushOk, hooks>>

Results == {"ok", "err", "canceled"}
Commit == [id : Nat \ {0}, src : Clients \cup ExtCommits]
NoChanges == [apps |-> {}, prev |-> 0, cur |-> 0]

-----------------------------------------------------------------------------
(* Branches                                                                *)

Srcs(h) == {h[i].src : i \in DOMAIN h}
Ids(h) == {h[i].id : i \in DOMAIN h}
HeadId(h) == IF h = <<>> THEN 0 ELSE h[Len(h)].id

\* GetEnvironmentConfigs fails with invalidJson iff the last external commit
\* of the branch left a malformed config.json (elements never touch it).
ConfigValid(h) ==
    LET ext == {i \in DOMAIN h : h[i].src \in ExtCommits}
    IN  ext = {} \/ h[CHOOSE i \in ext : \A j \in ext : j <= i].src \notin Breaking

\* afterTransform: reads every environment's config.json (GetEnvironmentConfigs)
\* and renders and writes the Argo CD applications of the Argo-managed
\* environments (updateArgoCdApps); of its errors the model keeps the one a
\* malformed config gives, which reaches ApplyTransformers as an opaque error.
AfterTransformFails(h) == ~ConfigValid(h)

\* TransformerResult.Combine: the changed apps are united, the commit ids
\* are those of the first result that has any.
Combine(r, o) ==
    [apps |-> r.apps \cup o.apps,
     prev |-> IF r.cur = 0 THEN o.prev ELSE r.prev,
     cur  |-> IF r.cur = 0 THEN o.cur ELSE r.cur]

\* One iteration of the loop of applyElements: ApplyTransformers(e) on the
\* current branch.  A failing element gets its error at once and is dropped;
\* an invalidJson error while a reset is still allowed stops the pass.  A
\* malformed config.json surfaces as invalidJson only to a transformer that
\* reads the configs itself: afterTransform's error is wrapped by
\* grpc.InternalError, which does not keep the wrapped error.
ApplyStep(s, e) ==
    CASE s.stop -> [s EXCEPT !.kept = Append(@, e)]
      [] e \in Bad -> [s EXCEPT !.failed = @ \cup {e}]
      [] ~ConfigValid(s.hist) /\ e \in ConfigReaders /\ s.allow ->
            [s EXCEPT !.stop = TRUE, !.kept = Append(@, e)]
      [] AfterTransformFails(s.hist) -> [s EXCEPT !.failed = @ \cup {e}]
      [] OTHER ->
            [s EXCEPT !.hist = Append(@, [id |-> s.next, src |-> e]),
                      !.next = @ + 1,
                      !.kept = Append(@, e),
                      !.changes = Combine(@, [apps |-> {e},
                                              prev |-> HeadId(s.hist),
                                              cur  |-> s.next])]

\* applyElements(elements, allowFetchAndReset) on branch h, up to the point
\* where it returns or calls FetchAndReset.
ApplyElements(elements, allow, h) ==
    FoldLeft(ApplyStep,
             [kept |-> <<>>, failed |-> {}, hist |-> h, next |-> nextId,
              changes |-> NoChanges, stop |-> FALSE, allow |-> allow],
             elements)

Send(cs, v) == [c \in Clients |-> IF c \in cs THEN Append(result[c], v) ELSE result[c]]

\* The deferred loop of ProcessQueueOnce answers every element left.
Finish(b) == wpc' = IF b = <<>> THEN "idle" ELSE "deliver"

-----------------------------------------------------------------------------
(* Callers of Repository.Apply                                             *)

\* queue.add: the element enters the buffered channel.
Enqueue(c) ==
    /\ cstate[c] = "idle"
    /\ Len(queue) < QueueCapacity
    /\ queue' = Append(queue, c)
    /\ enqOrder' = Append(enqOrder, c)
    /\ cstate' = [cstate EXCEPT ![c] = "waiting"]
    /\ UNCHANGED <<canceled, result, outcome, local, remote, nextId, wpc,
                   batch, err, changes, tries, pushOk, hooks>>

\* queue.add: the context is done first; the result channel gets ctx.Err().
EnqueueCanceled(c) ==
    /\ cstate[c] = "idle"
    /\ c \in canceled
    /\ result' = [result EXCEPT ![c] = <<"canceled">>]
    /\ cstate' = [cstate EXCEPT ![c] = "waiting"]
    /\ UNCHANGED <<queue, canceled, outcome, enqOrder, local, remote, nextId,
                   wpc, batch, err, changes, tries, pushOk, hooks>>

\* The caller's context is cancelled or its deadline passes.
Cancel(c) ==
    /\ c \in Cancellable \ canceled
    /\ cstate[c] # "done"
    /\ canceled' = canceled \cup {c}
    /\ UNCHANGED <<queue, cstate, result, outcome, enqOrder, local, remote,
                   nextId, wpc, batch, err, changes, tries, pushOk, hooks>>

\* Apply: select on the result channel and on ctx.Done().
Await(c) ==
    /\ cstate[c] = "waiting"
    /\ \/ /\ result[c] # <<>>
          /\ outcome' = [outcome EXCEPT ![c] = Head(result[c])]
          /\ result' = [result EXCEPT ![c] = Tail(@)]
       \/ /\ c \in canceled
          /\ outcome' = [outcome EXCEPT ![c] = "canceled"]
          /\ UNCHANGED result
    /\ cstate' = [cstate EXCEPT ![c] = "done"]
    /\ UNCHANGED <<queue, canceled, enqOrder, local, remote, nextId, wpc,
                   batch, err, changes, tries, pushOk, hooks>>

\* Another writer pushes to the remote branch.
ExternalPush(x) ==
    /\ x \notin Srcs(remote)
    /\ remote' = Append(remote, [id |-> nextId, src |-> x])
    /\ nextId' = nextId + 1
    /\ UNCHANGED <<queue, cstate, canceled, result, outcome, enqOrder, local,
                   wpc, batch, err, changes, tries, pushOk, hooks>>

-----------------------------------------------------------------------------
(* The writer goroutine                                                    *)

\* ProcessQueueOnce with a first element whose context is already done: it
\* gets ctx.Err(), and the deferred loop then sends err to it again.
ReceiveCanceled ==
    /\ wpc = "idle"
    /\ queue # <<>>
    /\ Head(queue) \in canceled
    /\ result' = Send({Head(queue)}, "canceled")
    /\ queue' = Tail(queue)
    /\ batch' = <<Head(queue)>>
    /\ err' = "err"
    /\ wpc' = "deliver"
    /\ UNCHANGED <<cstate, canceled, outcome, enqOrder, local, remote, nextId,
                   changes, tries, pushOk, hooks>>

\* Mutant: the first element is put behind the drained ones.
ReceiveHeadLast ==
    /\ wpc = "idle"
    /\ queue # <<>>
    /\ Head(queue) \notin canceled
    /\ LET rest == Tail(queue)
           dropped == {c \in Range(rest) : c \in canceled}
       IN  /\ batch' = SelectSeq(rest, LAMBDA c : c \notin canceled) \o <<Head(queue)>>
           /\ result' = Send(dropped, "canceled")
    /\ queue' = <<>>
    /\ pushOk' = TRUE
    /\ wpc' = "apply"
    /\ UNCHANGED <<cstate, canceled, outcome, enqOrder, local, remote, nextId,
                   err, changes, tries, hooks>>

\* ProcessQueueOnce takes the first element and drainQueue the others;
\* drained elements whose context is done get ctx.Err() and are left out.
Receive ==
    /\ wpc = "idle"
    /\ queue # <<>>
    /\ Head(queue) \notin canceled
    /\ LET rest == Tail(queue)
           dropped == {c \in Range(rest) : c \in canceled}
       IN  /\ batch' = <<Head(queue)>> \o SelectSeq(rest, LAMBDA c : c \notin canceled)
           /\ result' = Send(dropped, "canceled")
    /\ queue' = <<>>
    /\ pushOk' = TRUE
    /\ wpc' = "apply"
    /\ UNCHANGED <<cstate, canceled, outcome, enqOrder, local, remote, nextId,
                   err, changes, tries, hooks>>

\* Mutant: an element whose transformers fail is dropped without an answer.
ApplyNoFailSend ==
    /\ wpc = "apply"
    /\ LET p == ApplyElements(batch, TRUE, local)
       IN  /\ local' = p.hist
           /\ nextId' = p.next
           /\ batch' = p.kept
           /\ changes' = p.changes
           /\ IF p.stop THEN wpc' = "resetJson"
              ELSE IF p.kept = <<>> THEN wpc' = "idle" ELSE wpc' = "push"
    /\ err' = "ok"
    /\ tries' = 0
    /\ UNCHANGED <<queue, cstate, canceled, result, outcome, enqOrder, remote, pushOk, hooks>>

\* applyElements(elements, true).
Apply ==
    /\ wpc = "apply"
    /\ LET p == ApplyElements(batch, TRUE, local)
       IN  /\ local' = p.hist
           /\ nextId' = p.next
           /\ result' = Send(p.failed, "err")
           /\ batch' = p.kept
           /\ changes' = p.changes
           /\ IF p.stop THEN wpc' = "resetJson"
              ELSE IF p.kept = <<>> THEN wpc' = "idle" ELSE wpc' = "push"
    /\ err' = "ok"
    /\ tries' = 0
    /\ UNCHANGED <<queue, cstate, canceled, outcome, enqOrder, remote, pushOk, hooks>>

\* FetchAndReset fails: the fetch fails, or the remote branch does not
\* exist and the zero oid cannot be looked up.
FetchFails ==
    /\ wpc \in {"resetJson", "resetNff"}
    /\ "fetch" \in Faults \/ remote = <<>>
    /\ err' = "err"
    /\ Finish(batch)
    /\ UNCHANGED <<queue, cstate, canceled, result, outcome, enqOrder, local,
                   remote, nextId, batch, changes, tries, pushOk, hooks>>

\* FetchAndReset, then applyElements(elements, false).  After invalidJson the
\* changes of this pass are returned; after a non-fast-forward the writer
\* keeps the changes of the first pass and pushes once more.
FetchResetApply ==
    /\ wpc \in {"resetJson", "resetNff"}
    /\ remote # <<>>
    /\ LET p == ApplyElements(batch, FALSE, remote)
       IN  /\ local' = p.hist
           /\ nextId' = p.next
           /\ result' = Send(p.failed, "err")
           /\ batch' = p.kept
           /\ changes' = IF wpc = "resetJson" THEN p.changes ELSE changes
           /\ IF p.kept = <<>> THEN wpc' = "idle"
              ELSE wpc' = IF wpc = "resetJson" THEN "push" ELSE "push2"
    /\ tries' = 0
    /\ UNCHANGED <<queue, cstate, canceled, outcome, enqOrder, remote, err,
                   pushOk, hooks>>

\* What one attempt of remote.Push may do.
FastForward == IsPrefix(remote, local)
PushOutcomes == {"accepted", "rejected", "nonFastForward", "transient",
                 "timeoutLanded", "timeoutLost"}
CanHappen(o) ==
    \/ o = "accepted" /\ FastForward
    \/ o = "nonFastForward" /\ ~FastForward
    \/ o = "rejected" /\ "rejected" \in Faults
    \/ o = "transient" /\ "transient" \in Faults
    \/ o = "timeoutLost" /\ "timeout" \in Faults
    \/ o = "timeoutLanded" /\ "timeout" \in Faults /\ FastForward
\* The error the attempt returns: a rejected ref update is only reported
\* through the callback; useRemote returns DeadlineExceeded on a timeout.
PushError(o) ==
    CASE o \in {"accepted", "rejected"} -> "none"
      [] o = "nonFastForward" -> "nff"
      [] o \in {"timeoutLanded", "timeoutLost"} -> "timeout"
      [] o = "transient" -> "transient"

\* How ProcessQueueOnce classifies the error that Push returned.
AfterPush(e) ==
    IF wpc = "push"
    THEN CASE e = "none" -> err' = (IF pushOk' THEN "ok" ELSE "err") /\ wpc' = "post"
           [] e = "nff" -> UNCHANGED err /\ wpc' = "resetNff"
           [] e = "timeout" -> err' = "canceled" /\ wpc' = "post"
           [] e = "transient" -> err' = "err" /\ wpc' = "post"
    ELSE /\ err' = IF e = "none" THEN "ok" ELSE "err"
         /\ wpc' = "post"

BackoffRetries(e) == e = "transient" /\ tries + 1 < MaxPushAttempts

\* One attempt of the push inside Push's backoff.Retry.  A non-fast-forward
\* is permanent; other errors are retried while the backoff allows it.
PushAttempt ==
    /\ wpc \in {"push", "push2"}
    /\ \E o \in PushOutcomes :
        /\ CanHappen(o)
        /\ remote' = IF o \in {"accepted", "timeoutLanded"} THEN local ELSE remote
        /\ pushOk' = CASE o = "accepted" -> TRUE
                       [] o = "rejected" -> FALSE
                       [] OTHER -> pushOk
        /\ IF BackoffRetries(PushError(o))
           THEN tries' = tries + 1 /\ UNCHANGED <<wpc, err>>
           ELSE tries' = 0 /\ AfterPush(PushError(o))
    /\ UNCHANGED <<queue, cstate, canceled, result, outcome, enqOrder, local,
                   nextId, batch, changes, hooks>>

\* The payload of sendWebhookToArgoCd: "after" is Commits.Current, "before"
\* Commits.Previous (0 for none), one modified manifest per changed app.
WebhookPayload(c) == [after |-> c.cur, before |-> c.prev, apps |-> c.apps]

\* After the push, whatever its result: sendWebhookToArgoCd with the
\* aggregate changes, then notify.Notify().
PostPush ==
    /\ wpc = "post"
    /\ hooks' = IF ArgoWebhook THEN Append(hooks, WebhookPayload(changes)) ELSE hooks
    /\ Finish(batch)
    /\ UNCHANGED <<queue, cstate, canceled, result, outcome, enqOrder, local,
                   remote, nextId, batch, err, changes, tries, pushOk>>

\* Mutant: the send never waits for room in the result channel.
DeliverNoWait ==
    /\ wpc = "deliver"
    /\ result' = Send({Head(batch)}, err)
    /\ batch' = Tail(batch)
    /\ Finish(Tail(batch))
    /\ UNCHANGED <<queue, cstate, canceled, outcome, enqOrder, local, remote,
                   nextId, err, changes, tries, pushOk, hooks>>

\* The deferred loop: `el.result <- err` blocks while the channel is full.
Deliver ==
    /\ wpc = "deliver"
    /\ Len(result[Head(batch)]) < 1
    /\ result' = Send({Head(batch)}, err)
    /\ batch' = Tail(batch)
    /\ Finish(Tail(batch))
    /\ UNCHANGED <<queue, cstate, canceled, outcome, enqOrder, local, remote,
                   nextId, err, changes, tries, pushOk, hooks>>

-----------------------------------------------------------------------------

Init ==
    /\ queue = <<>>
    /\ cstate = [c \in Clients |-> "idle"]
    /\ canceled = {}
    /\ result = [c \in Clients |-> <<>>]
    /\ outcome = [c \in Clients |-> "none"]
    /\ enqOrder = <<>>
    /\ local = <<>>
    /\ remote = <<>>
    /\ nextId = 1
    /\ wpc = "idle"
    /\ batch = <<>>
    /\ err = "err"
    /\ changes = NoChanges
    /\ tries = 0
    /\ pushOk = TRUE
    /\ hooks = <<>>

Writer == ReceiveCanceled \/ Receive \/ Apply \/ FetchFails \/ FetchResetApply
          \/ PushAttempt \/ PostPush \/ Deliver

Next ==
    \/ \E c \in Clients : Enqueue(c) \/ EnqueueCanceled(c) \/ Cancel(c) \/ Await(c)
    \/ \E x \in ExtCommits : ExternalPush(x)
    \/ Writer

\* The writer goroutine runs whenever it can: every network call it makes
\* (fetch, push) is bounded by useRemote's NetworkTimeout.  The webhook POST
\* in PostPush is not (the http.Client has no timeout), so PostPush is only
\* assumed to happen when no ArgoWebhookUrl is configured.  A caller blocked
\* in Apply's select wakes up once a case is ready.  Callers, cancellation
\* and other writers are not obliged to do anything.
WriterSteps == ReceiveCanceled \/ Receive \/ Apply \/ FetchFails \/ FetchResetApply
               \/ PushAttempt \/ Deliver
Fairness ==
    /\ WF_vars(WriterSteps)
    /\ ~ArgoWebhook => WF_vars(PostPush)
    /\ \A c \in Clients : WF_vars(Await(c))

Spec == Init /\ [][Next]_vars /\ Fairness

-----------------------------------------------------------------------------
(* Properties                                                              *)

\* Type invariant; in particular a result channel (make(chan error, 1))
\* never holds more than one value, so no send of the writer is lost.
TypeOK ==
    /\ queue \in Seq(Clients) /\ Len(queue) <= QueueCapacity
    /\ cstate \in [Clients -> {"idle", "waiting", "done"}]
    /\ canceled \subseteq Cancellable
    /\ result \in [Clients -> Seq(Results)] /\ \A c \in Clients : Len(result[c]) <= 1
    /\ outcome \in [Clients -> Results \cup {"none"}]
    /\ enqOrder \in Seq(Clients)
    /\ local \in Seq(Commit) /\ remote \in Seq(Commit)
    /\ nextId \in Nat \ {0}
    /\ wpc \in {"idle", "apply", "resetJson", "resetNff", "push", "push2",
                "post", "deliver"}
    /\ batch \in Seq(Clients)
    /\ err \in Results
    /\ changes \in [apps : SUBSET Clients, prev : Nat, cur : Nat]
    /\ tries \in 0..MaxPushAttempts
    /\ pushOk \in BOOLEAN
    /\ hooks \in Seq([after : Nat, before : Nat, apps : SUBSET Clients])

\* Position of a client's element in the queue, and of the first commit a
\* client's element produced on a branch.
EnqPos(c) == CHOOSE i \in DOMAIN enqOrder : enqOrder[i] = c
FirstIndex(h, c) ==
    CHOOSE i \in DOMAIN h : h[i].src = c /\ \A j \in DOMAIN h : h[j].src = c => i <= j

\* Commits of elements reach the remote branch in the order in which the
\* elements entered the queue, across drainQueue batching, dropped failing
\* elements, the fetch-and-reset after invalidJson and the re-apply after a
\* non-fast-forward push (spec: "relative order equals enqueue order").
OrderPreserved ==
    \A a, b \in Srcs(remote) \cap Clients :
        EnqPos(a) < EnqPos(b) => FirstIndex(remote, a) < FirstIndex(remote, b)

\* Every caller blocked in Apply eventually returns: the writer answers each
\* element exactly once and never blocks on a result channel for good.
EveryRequestAnswered == \A c \in Clients : cstate[c] = "waiting" ~> cstate[c] = "done"

\* In every behaviour in which no request context is ever cancelled, every
\* caller blocked in Apply returns: the writer answers each element once on
\* every path (drained, failed, pushed or not) and never blocks on a result
\* channel.  Checked without an ArgoWebhookUrl, whose POST may never return
\* (see ArgoWebhook); with a cancellation it may not hold (EveryRequestAnswered).
AnsweredWithoutCancel == [](canceled = {}) => EveryRequestAnswered

\* An Apply that returned nil has its change on the remote branch (spec:
\* Apply "returns after the batch is committed and pushed").
AckedIsPushed == \A c \in Clients : outcome[c] = "ok" => c \in Srcs(remote)

\* Every webhook names as "after" a commit that is on the remote: it is never
\* sent for a commit that non-fast-forward recovery threw away (spec 8.7),
\* which requires the changes of the re-apply pass to replace those of the
\* first pass, nor for one whose push failed (spec 5).
WebhookNamesPushedCommit == \A i \in DOMAIN hooks : hooks[i].after \in Ids(remote)

FailedNotPushed == \A c \in Clients : outcome[c] = "err" => c \notin Srcs(remote)

=============================================================================

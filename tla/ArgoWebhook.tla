----------------------------- MODULE ArgoWebhook -----------------------------
(***************************************************************************)
(* The Argo CD webhook dispatcher of the cd-service writer:               *)
(* sendWebhookToArgoCd runs up to maxArgoRequests POSTs of one payload     *)
(* (doWebhookPostRequest), sleeping 100*i ms after a retryable failure.    *)
(* It runs inside ProcessQueueOnce, on the single writer goroutine, so    *)
(* while it runs no other element is processed.                           *)
(*                                                                         *)
(* The payload is abstracted away; what matters is the answer of each    *)
(* POST.  The request is built with http.NewRequest (no context) and sent *)
(* by an http.Client without Timeout, so a POST ends only when Argo CD (or *)
(* the network) answers.                                                   *)
(***************************************************************************)
EXTENDS Naturals, Sequences

CONSTANTS
    MaxArgoRequests,   \* maxArgoRequests
    Answers,           \* what one POST may end with
    Pushes             \* successive batches whose PostPush sends a webhook

\* The answers a POST can get: status 200, another 2xx, a 4xx, a 5xx, or a
\* transport error from client.Do.
AllAnswers == {"200", "2xx", "4xx", "5xx", "connErr"}

ASSUME MaxArgoRequests \in Nat \ {0} /\ Answers \subseteq AllAnswers /\ Answers # {}
       /\ Pushes \in Nat \ {0}

VARIABLES
    i,          \* the loop counter of sendWebhookToArgoCd
    phase,      \* "send", "waiting" (client.Do blocked), "sleep", "done"
    success,    \* the local `success`
    answers,    \* the answers of this dispatch's POSTs (history)
    results     \* `success` of every finished dispatch (history)

vars == <<i, phase, success, answers, results>>

\* `answers` is a history kept for the properties; it records one answer
\* more than the loop may ever get, enough to show a loop that runs longer.
HistoryBound == MaxArgoRequests + 1

\* doWebhookPostRequest's (err != nil, shouldRetry) for an answer: only a
\* status >= 500 is retryable; only 200 is valid; anything else is an error
\* that must not be retried.
IsError(a) == a # "200"
\* Mutant: transport errors are retried as well.
ShouldRetryConn(a) == a \in {"5xx", "connErr"}
ShouldRetry(a) == a = "5xx"

\* sendWebhookToArgoCd starts: success := false; i := 1.
Start ==
    /\ i' = 1
    /\ phase' = "send"
    /\ success' = FALSE
    /\ answers' = <<>>

Init ==
    /\ i = 1
    /\ phase = "send"
    /\ success = FALSE
    /\ answers = <<>>
    /\ results = <<>>

\* client.Do(req): the POST is on the wire.
Post ==
    /\ phase = "send"
    /\ phase' = "waiting"
    /\ UNCHANGED <<i, success, answers, results>>

\* The POST returns.  `if err != nil && shouldRetry` sleeps and goes on; the
\* else branch logs "sent successfully", sets success and breaks - for every
\* answer that is not a retryable error.
Answer(a) ==
    /\ phase = "waiting"
    /\ answers' = IF Len(answers) < HistoryBound THEN Append(answers, a) ELSE answers
    /\ IF IsError(a) /\ ShouldRetry(a)
       THEN phase' = "sleep" /\ UNCHANGED success
       ELSE phase' = "done" /\ success' = TRUE
    /\ UNCHANGED <<i, results>>

\* Mutant: the loop has no bound.
SleepNoBound ==
    /\ phase = "sleep"
    /\ i' = i + 1
    /\ phase' = "send"
    /\ UNCHANGED <<success, answers, results>>

\* time.Sleep(100*i ms), then the loop's i++ and its test i <= maxArgoRequests.
Sleep ==
    /\ phase = "sleep"
    /\ i' = i + 1
    /\ phase' = IF i + 1 <= MaxArgoRequests THEN "send" ELSE "done"
    /\ UNCHANGED <<success, answers, results>>

\* sendWebhookToArgoCd returns (logging the error if !success); the writer
\* notifies, answers the batch and later pushes the next batch, whose
\* PostPush calls sendWebhookToArgoCd again.
Return ==
    /\ phase = "done"
    /\ results' = Append(results, success)
    /\ IF Len(results) + 1 < Pushes
       THEN Start
       ELSE phase' = "idle" /\ UNCHANGED <<i, success, answers>>

Dispatcher == Post \/ Sleep \/ Return

Next == Dispatcher \/ \E a \in Answers : Answer(a)

\* The writer goroutine always runs; whether Argo CD or the network ever
\* answers is not in its hands.
Spec == Init /\ [][Next]_vars /\ WF_vars(Dispatcher)

-----------------------------------------------------------------------------

\* Type invariant.
TypeOK ==
    /\ i \in 1..MaxArgoRequests + 1
    /\ phase \in {"send", "waiting", "sleep", "done", "idle"}
    /\ success \in BOOLEAN
    /\ answers \in Seq(Answers)
    /\ results \in Seq(BOOLEAN) /\ Len(results) <= Pushes

\* The retry policy of spec 4.5 as the loop implements it: at most
\* maxArgoRequests POSTs; a POST is only ever followed by another after a
\* 5xx; and the dispatcher gives up on 5xx answers only after the last try.
RetryPolicy ==
    /\ Len(answers) <= MaxArgoRequests
    /\ \A k \in 1..Len(answers) - 1 : answers[k] = "5xx"
    /\ (phase \in {"done", "idle"} /\ answers[Len(answers)] = "5xx")
           => Len(answers) = MaxArgoRequests

=============================================================================

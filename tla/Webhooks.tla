------------------------------ MODULE Webhooks ------------------------------
(***************************************************************************)
(* WebhookService (webhook_service.py, api/webhooks.py): one webhook and   *)
(* the deliveries of events to it.                                         *)
(*                                                                         *)
(* A delivery is a task of its own, started by an event, by a test or by a *)
(* manual retry, with a row of its own.  It posts up to MaxPosts times and *)
(* writes each outcome to its row; it counts failures on the webhook with  *)
(* a read and a write.  Every step between two awaits is an action; an     *)
(* awaited write is applied or raises.  The task is in memory only: when   *)
(* the process ends, it is gone and its row stays as it was.  The url, the *)
(* secret and the time of the last trigger are left out.                   *)
(***************************************************************************)
EXTENDS Naturals

CONSTANTS
    Deliveries,   \* the ids of deliveries
    None,         \* no delivery
    MaxPosts      \* MAX_ATTEMPTS

ASSUME WebhookAssumption ==
    /\ None \notin Deliveries
    /\ MaxPosts \in Nat \ {0}

VARIABLES
    hook,         \* the webhook's row
    row,          \* row[d]: the row of delivery d
    task,         \* task[d]: the task that delivers d
    receiver,     \* receiver[d]: how many times the receiver took d
    missed,       \* missed[d]: the outcome of d was never written, or failed over it
    early,        \* early[d]: d retries a delivery that was still running
    ledger        \* what the failure counter should say, as far as that is known

vars == <<hook, row, task, receiver, missed, early, ledger>>

Over == {"done", "dead"}

PCs == Over \cup
    {"unborn", "fetching", "creating", "posting", "recording", "resetting", "counting",
     "adding", "waiting", "failing", "recounting", "readding", "stamping"}

Outcomes == {"ok", "refused", "error", "silent"}

Hook == [present: BOOLEAN, status: {"active", "inactive"}, failures: Nat]

Row == [status: {"none", "pending", "success", "failed"}, attempts: Nat]

\* seen is the failure count a task has read and not written yet; of is the
\* delivery that it retries.
Task == [pc: PCs, posts: Nat, last: Outcomes \cup {"none"}, seen: Nat,
         of: Deliveries \cup {None}]

\* owed is the number of failed attempts since the last accepted one; it is
\* only to be expected on the webhook as long as nothing blurred it.  counted
\* is the number of failures written to the counter since a success was; it is
\* torn when a task went on to write what the counter no longer is.
Ledger == [owed: Nat, blurred: BOOLEAN, counted: Nat, torn: BOOLEAN]

TypeOK ==
    /\ hook \in Hook
    /\ row \in [Deliveries -> Row]
    /\ task \in [Deliveries -> Task]
    /\ receiver \in [Deliveries -> Nat]
    /\ missed \in [Deliveries -> BOOLEAN]
    /\ early \in [Deliveries -> BOOLEAN]
    /\ ledger \in Ledger

NoTask == [pc |-> "unborn", posts |-> 0, last |-> "none", seen |-> 0, of |-> None]

\* The webhook as create makes it.
Init ==
    /\ hook = [present |-> TRUE, status |-> "active", failures |-> 0]
    /\ row = [d \in Deliveries |-> [status |-> "none", attempts |-> 0]]
    /\ task = [d \in Deliveries |-> NoTask]
    /\ receiver = [d \in Deliveries |-> 0]
    /\ missed = [d \in Deliveries |-> FALSE]
    /\ early = [d \in Deliveries |-> FALSE]
    /\ ledger = [owed |-> 0, blurred |-> FALSE, counted |-> 0, torn |-> FALSE]

Live(d) == task[d].pc \notin Over \cup {"unborn"}

Go(d, pc) == task' = [task EXCEPT ![d].pc = pc]

Write(d, status) == row' = [row EXCEPT ![d] = [status |-> status, attempts |-> task[d].posts]]

\* An update of a row that is gone changes nothing.
Count(n) == hook' = [hook EXCEPT !.failures = IF hook.present THEN n ELSE @]

Blurred == [ledger EXCEPT !.owed = 0, !.blurred = TRUE]

Blur == ledger' = Blurred

\* A task other than d has read the counter and not written it yet.
Amid(d) == \E e \in Deliveries \ {d} : task[e].pc \in {"adding", "readding"}

-----------------------------------------------------------------------------
\* A new task; one that starts beside another blurs the count.
Begin(d, pc, of) ==
    /\ task[d].pc = "unborn"
    /\ task' = [task EXCEPT ![d].pc = pc, ![d].of = of]
    /\ ledger' = IF \E e \in Deliveries : Live(e) THEN Blurred ELSE ledger
    /\ UNCHANGED <<hook, row, receiver, missed>>

\* trigger: the list of the active webhooks that it awaits has this one, which
\* subscribes to the event.
Trigger(d) ==
    /\ hook.present /\ hook.status = "active"
    /\ Begin(d, "creating", None)
    /\ UNCHANGED early

\* test_webhook delivers to an inactive webhook, too.
Test(d) ==
    /\ hook.present
    /\ Begin(d, "creating", None)
    /\ UNCHANGED early

\* Mutant: any delivery that has ended or is waiting can be retried.
RetryAny(d, e) ==
    /\ row[e].status # "none"
    /\ Begin(d, "fetching", e)
    /\ early' = [early EXCEPT ![d] = Live(e)]

\* retry_failed of e: its row says failed, which it also says between two
\* attempts.  The retry is a delivery of its own, d.
Retry(d, e) ==
    /\ row[e].status = "failed"
    /\ Begin(d, "fetching", e)
    /\ early' = [early EXCEPT ![d] = Live(e)]

\* The webhook is read again; it may be gone, or the read fail.
Fetched(d) ==
    /\ task[d].pc = "fetching"
    /\ (hook.present /\ Go(d, "creating")) \/ Go(d, "done")
    /\ UNCHANGED <<hook, row, receiver, missed, early, ledger>>

RowCreated(d) ==
    /\ task[d].pc = "creating"
    /\ Write(d, "pending")
    /\ Go(d, "posting")
    /\ UNCHANGED <<hook, receiver, missed, early, ledger>>

RowNotCreated(d) ==
    /\ task[d].pc = "creating"
    /\ Go(d, "dead")
    /\ Blur
    /\ UNCHANGED <<hook, row, receiver, missed, early>>

-----------------------------------------------------------------------------
\* What the task does with the outcome of a post.
Posted(d, outcome, pc) ==
    /\ task[d].pc = "posting"
    /\ task' = [task EXCEPT ![d].pc = pc, ![d].posts = @ + 1, ![d].last = outcome]
    /\ ledger' = [ledger EXCEPT !.owed = IF ledger.blurred \/ outcome = "ok" THEN 0 ELSE @ + 1]
    /\ UNCHANGED <<hook, row, early>>

Accepted(d) ==
    /\ Posted(d, "ok", "recording")
    /\ receiver' = [receiver EXCEPT ![d] = @ + 1]
    /\ UNCHANGED missed

\* Any other status: 4xx refuses for good.
Rejected(d) ==
    /\ \E outcome \in {"refused", "error"} : Posted(d, outcome, "recording")
    /\ UNCHANGED <<receiver, missed>>

\* No connection, or no answer in 30 seconds: the receiver may have taken it.
Unheard(d) ==
    /\ Posted(d, "silent", "failing")
    /\ \/ UNCHANGED <<receiver, missed>>
       \/ /\ receiver' = [receiver EXCEPT ![d] = @ + 1]
          /\ missed' = [missed EXCEPT ![d] = TRUE]

\* Mutant: a status that is none of the three.
RecordedRetrying(d) ==
    LET success == task[d].last = "ok" IN
    /\ task[d].pc = "recording"
    /\ Write(d, IF success THEN "success" ELSE "retrying")
    /\ Go(d, IF success THEN "resetting" ELSE "counting")
    /\ UNCHANGED <<hook, receiver, missed, early, ledger>>

\* The answer is written to the row, success or failed.
Recorded(d) ==
    LET success == task[d].last = "ok" IN
    /\ task[d].pc = "recording"
    /\ Write(d, IF success THEN "success" ELSE "failed")
    /\ Go(d, IF success THEN "resetting" ELSE "counting")
    /\ UNCHANGED <<hook, receiver, missed, early, ledger>>

\* Mutant: a success does not touch the count.
ResetForgotten(d) ==
    /\ task[d].pc = "resetting"
    /\ Go(d, "stamping")
    /\ UNCHANGED <<hook, row, receiver, missed, early, ledger>>

\* A success sets the count back to zero, and ends the attempts.
Reset(d) ==
    /\ task[d].pc = "resetting"
    /\ Count(0)
    /\ ledger' = [ledger EXCEPT !.counted = 0, !.torn = Amid(d) \/ ~hook.present]
    /\ Go(d, "stamping")
    /\ UNCHANGED <<row, receiver, missed, early>>

\* _increment_failure_count reads the webhook ...
CountRead(d) ==
    /\ task[d].pc \in {"counting", "recounting"}
    /\ hook.present
    /\ task' = [task EXCEPT ![d].seen = hook.failures,
                            ![d].pc = IF @ = "counting" THEN "adding" ELSE "readding"]
    /\ ledger' = IF Amid(d) THEN [ledger EXCEPT !.counted = 0, !.torn = TRUE] ELSE ledger
    /\ UNCHANGED <<hook, row, receiver, missed, early>>

\* The attempts end with a refusal and with the last one.
AfterFailure(d) ==
    IF task[d].last = "refused" \/ task[d].posts >= MaxPosts THEN "stamping" ELSE "waiting"

\* Where the task goes from counting, in the loop or in the handler.
AfterCount(d) ==
    IF task[d].pc \in {"counting", "adding"} THEN AfterFailure(d) ELSE "stamping"

\* ... unless it is gone or cannot be read, then nothing is counted ...
CountSkipped(d) ==
    /\ task[d].pc \in {"counting", "recounting"}
    /\ Go(d, AfterCount(d))
    /\ Blur
    /\ UNCHANGED <<hook, row, receiver, missed, early>>

\* ... and writes one more than it read.
Added(d) ==
    /\ task[d].pc \in {"adding", "readding"}
    /\ Count(task[d].seen + 1)
    /\ task' = [task EXCEPT ![d].seen = 0, ![d].pc = AfterCount(d)]
    /\ ledger' = [ledger EXCEPT !.counted = IF ledger.torn THEN @ ELSE @ + 1]
    /\ UNCHANGED <<row, receiver, missed, early>>

\* After RETRY_DELAYS[attempt] seconds.
Wake(d) ==
    /\ task[d].pc = "waiting"
    /\ Go(d, "posting")
    /\ UNCHANGED <<hook, row, receiver, missed, early, ledger>>

-----------------------------------------------------------------------------
\* Mutant: a write that raises has the payload posted again.
WriteRaisesAgain(d) ==
    /\ task[d].pc \in {"recording", "resetting", "adding"}
    /\ task' = [task EXCEPT ![d].seen = 0, ![d].pc =
           IF task[d].posts < MaxPosts THEN "waiting" ELSE "failing"]
    /\ missed' = [missed EXCEPT ![d] = @ \/ task[d].pc = "recording"]
    /\ Blur
    /\ UNCHANGED <<hook, row, receiver, early>>

\* A write of the loop raises; the handler takes it for a failed attempt.
WriteRaises(d) ==
    /\ task[d].pc \in {"recording", "resetting", "adding"}
    /\ task' = [task EXCEPT ![d].seen = 0, ![d].pc = "failing"]
    /\ missed' = [missed EXCEPT ![d] = @ \/ task[d].pc = "recording"]
    /\ Blur
    /\ UNCHANGED <<hook, row, receiver, early>>

\* Mutant: the handler leaves the row alone.
FailureNotRecorded(d) ==
    /\ task[d].pc = "failing"
    /\ Go(d, "recounting")
    /\ UNCHANGED <<hook, row, receiver, missed, early, ledger>>

\* The handler writes the row, even over a success, counts, and ends the attempts.
FailureRecorded(d) ==
    /\ task[d].pc = "failing"
    /\ Write(d, "failed")
    /\ missed' = [missed EXCEPT ![d] = @ \/ task[d].last = "ok"]
    /\ Go(d, "recounting")
    /\ UNCHANGED <<hook, receiver, early, ledger>>

\* A write of the handler raises, and nothing handles that.
HandlerRaises(d) ==
    /\ task[d].pc \in {"failing", "readding"}
    /\ task' = [task EXCEPT ![d].seen = 0, ![d].pc = "dead"]
    /\ Blur
    /\ UNCHANGED <<hook, row, receiver, missed, early>>

\* last_triggered_at is written, or that raises; nothing follows either way.
Stamp(d) ==
    /\ task[d].pc = "stamping"
    /\ Go(d, "done")
    /\ UNCHANGED <<hook, row, receiver, missed, early, ledger>>

-----------------------------------------------------------------------------
\* update changes the status.
SetStatus(s) ==
    /\ hook.present /\ hook.status # s
    /\ hook' = [hook EXCEPT !.status = s]
    /\ UNCHANGED <<row, task, receiver, missed, early, ledger>>

\* delete; deliveries under way go on, with no counter.
Delete ==
    /\ hook.present
    /\ hook' = [hook EXCEPT !.present = FALSE]
    /\ ledger' = [owed |-> 0, blurred |-> TRUE, counted |-> 0, torn |-> TRUE]
    /\ UNCHANGED <<row, task, receiver, missed, early>>

\* The process ends, and every task with it.
Crash ==
    /\ \E d \in Deliveries : Live(d)
    /\ task' = [d \in Deliveries |->
           IF Live(d) THEN [task[d] EXCEPT !.pc = "dead", !.seen = 0] ELSE task[d]]
    /\ missed' = [d \in Deliveries |-> missed[d] \/ task[d].pc = "recording"]
    /\ Blur
    /\ UNCHANGED <<hook, row, receiver, early>>

\* The steps of a delivery that has begun.
Step(d) ==
    \/ Fetched(d) \/ RowCreated(d) \/ RowNotCreated(d)
    \/ Accepted(d) \/ Rejected(d) \/ Unheard(d)
    \/ Recorded(d) \/ Reset(d)
    \/ CountRead(d) \/ CountSkipped(d) \/ Added(d) \/ Wake(d)
    \/ WriteRaises(d) \/ FailureRecorded(d) \/ HandlerRaises(d)
    \/ Stamp(d)

Next ==
    \/ \E d \in Deliveries :
           \/ Trigger(d) \/ Test(d)
           \/ \E e \in Deliveries : Retry(d, e)
           \/ Step(d)
    \/ \E s \in {"active", "inactive"} : SetStatus(s)
    \/ Delete
    \/ Crash

\* A task is scheduled until it ends; a post is answered or times out, and a
\* call of the database is answered or raises.
Fairness == \A d \in Deliveries : WF_vars(Step(d))

Spec == Init /\ [][Next]_vars /\ Fairness

-----------------------------------------------------------------------------
\* What the row of a delivery tells of its outcome: success only for a payload
\* the receiver was heard to accept, once; failed for one that it took only if
\* the answer or the write was lost, or the handler wrote over it; and once the
\* task is through, the outcome and the count of the attempts made are on the row.
OutcomeOnRecord ==
    \A d \in Deliveries :
        /\ row[d].status = "success" => receiver[d] = 1 /\ task[d].last = "ok"
        /\ row[d].status = "failed" /\ receiver[d] > 0 /\ task[d].pc # "recording" => missed[d]
        /\ task[d].pc = "done" /\ task[d].posts > 0 =>
               row[d].status \in {"success", "failed"} /\ row[d].attempts = task[d].posts

\* A receiver takes both a delivery and its manual retry only if the retry was
\* started while the first was between two attempts, or if the outcome of the
\* first was lost before it was written.
DoubleDeliveryExplained ==
    \A d, e \in Deliveries :
        task[d].of = e /\ receiver[d] > 0 /\ receiver[e] > 0 => early[d] \/ missed[e]

\* Between the outcome of a post and the write to the counter.
Counting(d) ==
    task[d].pc \in {"recording", "resetting", "counting", "adding", "failing",
                     "recounting", "readding"}

\* "Consecutive failure count" (models/webhook.py): whenever no delivery is at
\* work on it, the webhook's counter is the number of failed attempts since the
\* last accepted one, as long as no two deliveries overlapped, no call of the
\* database failed and no task was lost.  And however they overlap, fail or are
\* lost, it is at every moment the number of failures that were written to it
\* since a success was, up to the first time that a task reads or resets it while
\* another is between its read and its write: only then is a failure lost or a
\* success undone, and the next success that no task is amid puts that right.
ConsecutiveFailures ==
    hook.present =>
        /\ ~ledger.blurred /\ (\A d \in Deliveries : ~Counting(d)) =>
               hook.failures = ledger.owed
        /\ ~ledger.torn => hook.failures = ledger.counted

PhaseOf(pc) == CASE pc = "unborn" -> "unborn" [] pc \in Over -> "closed" [] OTHER -> "open"

SeenPhase == [d \in Deliveries |-> PhaseOf(task[d].pc)]

SeenPosts == [d \in Deliveries |-> task[d].posts]

SeenLast == [d \in Deliveries |-> task[d].last]

\* Every delivery keeps the promise, with one outcome that is worth a retry: an
\* answer that is neither 2xx nor 4xx.
Promise == INSTANCE DeliveryPromise WITH
    Again <- {"error"},
    phase <- SeenPhase, posts <- SeenPosts, last <- SeenLast, taken <- receiver

-----------------------------------------------------------------------------
\* The strengthening of OutcomeOnRecord: what a delivery holds at each step.
DeliveryStep(d) ==
    LET t == task[d]
        written == row[d].status \in {"success", "failed"} /\ row[d].attempts = t.posts
    IN
    /\ t.posts = 0 <=> t.last = "none"
    /\ t.posts <= MaxPosts
    /\ row[d].status = "none" => t.posts = 0
    /\ receiver[d] > 0 => receiver[d] = 1 /\ t.last \in {"ok", "silent"}
    /\ t.last = "ok" => receiver[d] = 1
    /\ t.last = "silent" /\ receiver[d] > 0 => missed[d]
    /\ row[d].status = "success" => t.last = "ok"
    /\ row[d].status = "failed" /\ receiver[d] > 0 /\ t.pc # "recording" => missed[d]
    /\ t.pc \in {"unborn", "fetching", "creating"} => t.posts = 0 /\ row[d].status = "none"
    /\ t.pc = "unborn" => t.of = None
    /\ t.pc \in {"posting", "waiting"} => t.posts < MaxPosts /\ t.last \in {"none", "error"}
    /\ t.pc = "posting" => row[d].status # "none"
    /\ t.pc = "recording" => t.last \in {"ok", "refused", "error"}
    /\ t.pc = "resetting" => t.last = "ok" /\ written
    /\ t.pc \in {"counting", "adding", "waiting"} => t.last \in {"refused", "error"} /\ written
    /\ t.pc = "failing" => t.posts > 0
    /\ t.pc \in {"recounting", "readding", "stamping"} => t.posts > 0 /\ written
    /\ t.pc = "done" => t.posts = 0 \/ written

StepsHold == \A d \in Deliveries : DeliveryStep(d)

\* The strengthening of DoubleDeliveryExplained: a delivery that was over when
\* its retry began stays as it was.
RetriedStays ==
    \A d, e \in Deliveries :
        task[d].of = e /\ ~early[d] => task[e].pc \in Over /\ row[e].status = "failed"

\* The strengthening of ConsecutiveFailures: one delivery at a time, and what it
\* has still to count ...
CountStep ==
    ~ledger.blurred =>
        /\ \A d, e \in Deliveries : Live(d) /\ Live(e) => d = e
        /\ hook.present =>
            /\ (\A d \in Deliveries : ~Counting(d)) => hook.failures = ledger.owed
            /\ \A d \in Deliveries :
                LET t == task[d] IN
                /\ t.pc \in {"recording", "resetting"} /\ t.last = "ok" => ledger.owed = 0
                /\ \/ t.pc \in {"counting", "adding", "failing", "recounting", "readding"}
                   \/ t.pc = "recording" /\ t.last # "ok"
                   => ledger.owed = hook.failures + 1
                /\ t.pc \in {"adding", "readding"} => t.seen = hook.failures

\* ... and, where they overlap, what the one that is at the counter has read.
CounterStep ==
    hook.present /\ ~ledger.torn =>
        /\ hook.failures = ledger.counted
        /\ \A d \in Deliveries :
               task[d].pc \in {"adding", "readding"} =>
                   task[d].seen = hook.failures /\ ~Amid(d)
=============================================================================

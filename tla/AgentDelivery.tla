---------------------------- MODULE AgentDelivery ----------------------------
(***************************************************************************)
(* WebhookDeliveryService.deliver (webhook_delivery_service.py) with the   *)
(* retry loop of the adapters (adapters/base_webhook.py): the result of an *)
(* invocation is sent to the platform of the external agent by a task that *)
(* log_invocation leaves behind, and what became of it is written to the   *)
(* row of the invocation.  Here every post that is not accepted is made    *)
(* again, one that was not answered among them.                            *)
(***************************************************************************)
EXTENDS Naturals

CONSTANTS
    Invocations,  \* the rows of invocations whose results are sent
    MaxPosts      \* MAX_RETRY_ATTEMPTS, one at least

VARIABLES
    said,         \* said[i]: webhook_delivery_status on the row of i
    sender,       \* sender[i]: the task that delivers i
    platform,     \* platform[i]: how many times the platform took i
    unsaid        \* unsaid[i]: an outcome of i could not be written

vars == <<said, sender, platform, unsaid>>

Over == {"done", "dead"}

PCs == Over \cup
    {"unborn", "opening", "posting", "waiting", "delivered", "failed", "logging", "handling"}

Outcomes == {"ok", "refused", "error", "silent"}

Sender == [pc: PCs, posts: Nat, last: Outcomes \cup {"none"}]

TypeOK ==
    /\ said \in [Invocations -> {"none", "pending", "delivered", "failed"}]
    /\ sender \in [Invocations -> Sender]
    /\ platform \in [Invocations -> Nat]
    /\ unsaid \in [Invocations -> BOOLEAN]

Init ==
    /\ said = [i \in Invocations |-> "none"]
    /\ sender = [i \in Invocations |-> [pc |-> "unborn", posts |-> 0, last |-> "none"]]
    /\ platform = [i \in Invocations |-> 0]
    /\ unsaid = [i \in Invocations |-> FALSE]

Live(i) == sender[i].pc \notin Over \cup {"unborn"}

Go(i, pc) == sender' = [sender EXCEPT ![i].pc = pc]

Say(i, status) == said' = [said EXCEPT ![i] = status]

-----------------------------------------------------------------------------
\* log_invocation has written the row, pending, and creates the task.
Leave(i) ==
    /\ sender[i].pc = "unborn"
    /\ Say(i, "pending")
    /\ Go(i, "opening")
    /\ UNCHANGED <<platform, unsaid>>

\* The row is written pending once more; then the configuration and the
\* credentials of the agent are read and an adapter is looked for.
Opened(i) ==
    /\ sender[i].pc = "opening"
    /\ Say(i, "pending")
    /\ Go(i, "posting")
    /\ UNCHANGED <<platform, unsaid>>

\* Writing, or reading the configuration, raises: nothing handles that.
OpeningRaises(i) ==
    /\ sender[i].pc = "opening"
    /\ Go(i, "dead")
    /\ UNCHANGED <<said, platform, unsaid>>

\* No adapter for the platform.
Unsupported(i) ==
    /\ sender[i].pc = "opening"
    /\ Say(i, "failed")
    /\ Go(i, "done")
    /\ UNCHANGED <<platform, unsaid>>

\* The payload cannot be made, or the adapter has no address for it, which it
\* finds at every attempt.
NotSendable(i) ==
    /\ sender[i].pc = "posting" /\ sender[i].posts = 0
    /\ \E pc \in {"failed", "handling"} : Go(i, pc)
    /\ UNCHANGED <<said, platform, unsaid>>

Posted(i, outcome, pc) ==
    /\ sender[i].pc = "posting"
    /\ sender' = [sender EXCEPT ![i] = [pc |-> pc, posts |-> @.posts + 1, last |-> outcome]]
    /\ UNCHANGED said

\* Mutant: the loop does not stop at a result that says success.
AcceptedOnwards(i) ==
    /\ Posted(i, "ok", IF sender[i].posts + 1 < MaxPosts THEN "waiting" ELSE "delivered")
    /\ platform' = [platform EXCEPT ![i] = @ + 1]
    /\ UNCHANGED unsaid

Accepted(i) ==
    /\ Posted(i, "ok", "delivered")
    /\ platform' = [platform EXCEPT ![i] = @ + 1]
    /\ UNCHANGED unsaid

AfterFailure(i) == IF sender[i].posts + 1 < MaxPosts THEN "waiting" ELSE "failed"

Rejected(i) ==
    /\ \E outcome \in {"refused", "error"} : Posted(i, outcome, AfterFailure(i))
    /\ UNCHANGED <<platform, unsaid>>

\* A timeout or a broken connection: the platform may have taken the payload.
Unheard(i) ==
    /\ Posted(i, "silent", AfterFailure(i))
    /\ \/ UNCHANGED <<platform, unsaid>>
       \/ /\ platform' = [platform EXCEPT ![i] = @ + 1]
          /\ unsaid' = [unsaid EXCEPT ![i] = TRUE]

\* After RETRY_DELAYS[attempt - 1] seconds.
Wake(i) ==
    /\ sender[i].pc = "waiting"
    /\ Go(i, "posting")
    /\ UNCHANGED <<said, platform, unsaid>>

\* Mutant: the outcome is always written as delivered.
SaidDelivered(i) ==
    /\ sender[i].pc \in {"delivered", "failed"}
    /\ Say(i, "delivered")
    /\ Go(i, "logging")
    /\ UNCHANGED <<platform, unsaid>>

\* The last result is written to the row.
Said(i) ==
    /\ sender[i].pc \in {"delivered", "failed"}
    /\ Say(i, sender[i].pc)
    /\ Go(i, "logging")
    /\ UNCHANGED <<platform, unsaid>>

\* That write raises; the handler will call it a failure.
SayingRaises(i) ==
    /\ sender[i].pc \in {"delivered", "failed"}
    /\ Go(i, "handling")
    /\ unsaid' = [unsaid EXCEPT ![i] = TRUE]
    /\ UNCHANGED <<said, platform>>

\* The audit event; its exceptions are swallowed.
Logged(i) ==
    /\ sender[i].pc = "logging"
    /\ Go(i, "done")
    /\ UNCHANGED <<said, platform, unsaid>>

Handled(i) ==
    /\ sender[i].pc = "handling"
    /\ Say(i, "failed")
    /\ Go(i, "done")
    /\ UNCHANGED <<platform, unsaid>>

HandlerRaises(i) ==
    /\ sender[i].pc = "handling"
    /\ Go(i, "dead")
    /\ UNCHANGED <<said, platform, unsaid>>

\* The process ends, and every task with it.
Crash ==
    /\ \E i \in Invocations : Live(i)
    /\ sender' = [i \in Invocations |->
           IF Live(i) THEN [sender[i] EXCEPT !.pc = "dead"] ELSE sender[i]]
    /\ UNCHANGED <<said, platform, unsaid>>

Step(i) ==
    \/ Opened(i) \/ OpeningRaises(i) \/ Unsupported(i) \/ NotSendable(i)
    \/ Accepted(i) \/ Rejected(i) \/ Unheard(i) \/ Wake(i)
    \/ Said(i) \/ SayingRaises(i) \/ Logged(i) \/ Handled(i) \/ HandlerRaises(i)

Next ==
    \/ \E i \in Invocations : Leave(i) \/ Step(i)
    \/ Crash

\* As for the webhooks.
Fairness == \A i \in Invocations : WF_vars(Step(i))

Spec == Init /\ [][Next]_vars /\ Fairness

-----------------------------------------------------------------------------
\* What the row of an invocation tells of its delivery: delivered only when the
\* platform was heard to accept the payload; failed for one that it took only
\* if an answer or a write was lost; and pending, once the task is over, only
\* if that task died.
DeliveryOnRecord ==
    \A i \in Invocations :
        /\ said[i] = "delivered" => sender[i].last = "ok" /\ platform[i] > 0
        /\ said[i] = "failed" /\ platform[i] > 0 => unsaid[i]
        /\ sender[i].pc = "done" => said[i] \in {"delivered", "failed"}

PhaseOf(pc) == CASE pc = "unborn" -> "unborn" [] pc \in Over -> "closed" [] OTHER -> "open"

SeenPhase == [i \in Invocations |-> PhaseOf(sender[i].pc)]

SeenPosts == [i \in Invocations |-> sender[i].posts]

SeenLast == [i \in Invocations |-> sender[i].last]

\* Every delivery keeps the promise; anything but acceptance is worth a retry.
Promise == INSTANCE DeliveryPromise WITH
    Deliveries <- Invocations,
    Again <- {"refused", "error", "silent"},
    phase <- SeenPhase, posts <- SeenPosts, last <- SeenLast, taken <- platform

-----------------------------------------------------------------------------
\* The strengthening of DeliveryOnRecord: what a sender holds at each step.
SenderStep(i) ==
    LET t == sender[i] IN
    /\ t.posts <= MaxPosts
    /\ t.posts = 0 => t.last = "none" /\ platform[i] = 0
    /\ t.last = "ok" => platform[i] > 0
    /\ t.last # "ok" /\ platform[i] > 0 => unsaid[i]
    /\ said[i] = "delivered" => t.last = "ok"
    /\ said[i] = "failed" /\ platform[i] > 0 => unsaid[i]
    /\ t.pc \in {"unborn", "opening"} => t.posts = 0
    /\ t.pc \in {"posting", "waiting"} => t.last # "ok" /\ t.posts < MaxPosts
    /\ t.pc \in {"posting", "waiting", "delivered", "failed"} => said[i] = "pending"
    /\ t.pc = "delivered" => t.last = "ok"
    /\ t.pc = "failed" => t.last # "ok"
    /\ t.pc = "handling" /\ platform[i] > 0 => unsaid[i]
    /\ t.pc \in {"logging", "done"} => said[i] \in {"delivered", "failed"}

SendersHold == \A i \in Invocations : SenderStep(i)
=============================================================================

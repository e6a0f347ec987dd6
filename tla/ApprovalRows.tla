----------------------------- MODULE ApprovalRows -----------------------------
(***************************************************************************)
(* The requests that a store holds, and what of ApprovalLifecycle is seen  *)
(* in them, whichever store it is.                                         *)
(***************************************************************************)
EXTENDS ApprovalRules

CONSTANT
    Requests      \* the ids that create_approval_request may draw

VARIABLE
    rows          \* rows[r]: what the store holds under r

\* The refinement mapping: rejected, expired and escalated requests are closed.
OutcomeOf(status) ==
    CASE status = "absent"   -> "none"
      [] status = "pending"  -> "open"
      [] status = "approved" -> "granted"
      [] OTHER               -> "closed"

outcomeBar == [r \in Requests |-> OutcomeOf(rows[r].status)]
ownerBar == [r \in Requests |-> rows[r].requester]
votesBar == [r \in Requests |-> rows[r].approvals]

Lifecycle == INSTANCE ApprovalLifecycle WITH
    outcome <- outcomeBar, owner <- ownerBar, votes <- votesBar,
    Nobody <- System, Quorum <- Enough

\* Seen in the rows, the manager keeps the promise of ApprovalLifecycle: quorum,
\* no self-approval, final decisions.  Over the in-memory store it does unless the
\* workflow approves on timeout.
KeepsLifecycle == Lifecycle!Spec
=============================================================================

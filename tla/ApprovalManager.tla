--------------------------- MODULE ApprovalManager ---------------------------
(***************************************************************************)
(* ExternalAgentApprovalManager over InMemoryApprovalStore, the pair that  *)
(* GovernanceService.initialize builds.                                    *)
(*                                                                         *)
(* The store hands out the object it holds, and neither get nor save       *)
(* suspends: on the event loop each handler is one step, up to the         *)
(* notification it ends with.  The exception is process_expired_requests,  *)
(* which takes a list of requests and awaits a notification after each of  *)
(* them: other handlers run between two requests of one sweep.             *)
(***************************************************************************)
EXTENDS ApprovalRows

CONSTANT
    Sweepers      \* concurrent runs of process_expired_requests

\* rows[r] is store._requests.
VARIABLES
    due,          \* due[r]: the clock is past expires_at of r
    todo,         \* todo[s]: what sweep s has listed and not processed yet
    told          \* told[r]: the decisions notify_requestor was called with

vars == <<rows, due, todo, told>>

Notice == {"approved", "rejected", "expired"}

TypeOK ==
    /\ rows \in [Requests -> Row]
    /\ due \in [Requests -> BOOLEAN]
    /\ todo \in [Sweepers -> SUBSET Requests]
    /\ told \in [Requests -> SUBSET Notice]

Init ==
    /\ rows = [r \in Requests |-> Absent]
    /\ due = [r \in Requests |-> FALSE]
    /\ todo = [s \in Sweepers |-> {}]
    /\ told = [r \in Requests |-> {}]

Tell(r, notice) == told' = [told EXCEPT ![r] = @ \cup {notice}]

-----------------------------------------------------------------------------
Create(r, u) ==
    /\ rows[r].status = "absent"
    /\ rows' = [rows EXCEPT ![r] = NewRequest(u)]
    /\ UNCHANGED <<due, todo, told>>

\* The clock moves past expires_at of a request that was created.
PassDeadline(r) ==
    /\ rows[r].status # "absent"
    /\ ~due[r]
    /\ due' = [due EXCEPT ![r] = TRUE]
    /\ UNCHANGED <<rows, todo, told>>

\* approve by somebody whose vote counts; the requestor hears of the last one.
Approve(r, u) ==
    /\ MayVote(rows[r], u, due[r])
    /\ rows' = [rows EXCEPT ![r] = Voted(rows[r], u)]
    /\ IF rows'[r].status = "approved" THEN Tell(r, "approved") ELSE UNCHANGED told
    /\ UNCHANGED <<due, todo>>

\* approve of a request that is past its deadline: it expires, and the caller
\* gets ApprovalExpiredError.
ApproveTooLate(r) ==
    /\ rows[r].status = "pending"
    /\ due[r]
    /\ rows' = [rows EXCEPT ![r] = Lapsed(rows[r])]
    /\ UNCHANGED <<due, todo, told>>

\* Mutant: the check for a request that is already decided is dropped.
RejectDecided(r, u) ==
    /\ rows[r].status # "absent"
    /\ rows' = [rows EXCEPT ![r] = Rejected(rows[r], u)]
    /\ Tell(r, "rejected")
    /\ UNCHANGED <<due, todo>>

\* reject looks neither at the deadline nor at who asked.
Reject(r, u) ==
    /\ rows[r].status = "pending"
    /\ rows' = [rows EXCEPT ![r] = Rejected(rows[r], u)]
    /\ Tell(r, "rejected")
    /\ UNCHANGED <<due, todo>>

Escalate(r) ==
    /\ rows[r].status = "pending"
    /\ rows' = [rows EXCEPT ![r] = Escalated(rows[r])]
    /\ UNCHANGED <<due, todo, told>>

\* store.get_expired: the pending requests that are past their deadline.
Overdue == {r \in Requests : rows[r].status = "pending" /\ due[r]}

SweepList(s) ==
    /\ todo[s] = {}
    /\ Overdue # {}
    /\ todo' = [todo EXCEPT ![s] = Overdue]
    /\ UNCHANGED <<rows, due, told>>

\* One turn of the loop, on the object as it is now, whatever happened to it
\* since it was listed.
SweepOne(s, r) ==
    /\ r \in todo[s]
    /\ rows' = [rows EXCEPT ![r] = TimedOut(rows[r])]
    /\ todo' = [todo EXCEPT ![s] = @ \ {r}]
    /\ Tell(r, "expired")
    /\ UNCHANGED due

Next ==
    \/ \E r \in Requests :
           \/ \E u \in Users : Create(r, u) \/ Approve(r, u) \/ Reject(r, u)
           \/ PassDeadline(r)
           \/ ApproveTooLate(r)
           \/ Escalate(r)
    \/ \E s \in Sweepers :
           \/ SweepList(s)
           \/ \E r \in Requests : SweepOne(s, r)

Spec == Init /\ [][Next]_vars

-----------------------------------------------------------------------------
\* Each stored request's status is the one that its decisions call for, and
\* nobody approved his own request (approve, reject and the sweep write status
\* and decisions of one object from different places).
RowsSound == \A r \in Requests : Consistent(rows[r]) /\ Impartial(rows[r])

\* The notices that go with a status.
Truthful(status, notices) ==
    /\ "approved" \in notices => status = "approved"
    /\ "rejected" \in notices => status \in {"rejected", "expired"}
    /\ "expired" \in notices => status = "expired"

\* Unless the workflow approves on timeout, what a requestor was told stays true:
\* after "approved" the request is and remains approved, although a sweep may
\* hold a list of requests and never looks at their status again; after
\* "rejected" or "expired" it is never approved.
ToldTheTruth ==
    ~ApprovesOnTimeout => \A r \in Requests : Truthful(rows[r].status, told[r])

\* The strengthening that makes it inductive: a sweep holds only requests that
\* were past their deadline when it listed them, hence still are, and no vote
\* counts on such a request.
SweepsHoldOverdue ==
    \A s \in Sweepers : \A r \in todo[s] :
        /\ due[r]
        /\ rows[r].status # "absent"
        /\ rows[r].status = "approved" => ApprovesOnTimeout

=============================================================================

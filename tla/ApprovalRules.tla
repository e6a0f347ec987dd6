---------------------------- MODULE ApprovalRules ----------------------------
(***************************************************************************)
(* What one approval request is, and what the handlers of                  *)
(* ExternalAgentApprovalManager do to it once they have read it from the   *)
(* store (src/studio_kaizen/trust/governance/approval_manager.py).  The    *)
(* modules ApprovalManager and ApprovalDataFlow put these handlers over    *)
(* the two stores of store.py, which differ in what may happen between     *)
(* the read and the save.                                                  *)
(***************************************************************************)
EXTENDS Integers, FiniteSets

CONSTANTS
    Users,        \* the people who request and decide
    System,       \* the decision-maker "system" of process_expired_requests
    Required,     \* workflow_config.require_multiple_approvers
    AllowSelf,    \* workflow_config.allow_self_approval
    AutoReject,   \* workflow_config.auto_reject_on_timeout
    AutoApprove   \* workflow_config.auto_approve_on_timeout

ASSUME ApprovalAssumption ==
    /\ Required \in Nat \ {0}
    /\ System \notin Users
    /\ IsFiniteSet(Users)
    /\ {AllowSelf, AutoReject, AutoApprove} \subseteq BOOLEAN

Deciders == Users \cup {System}

\* ApprovalStatus, and "absent" for an id that no request has yet.
Status == {"absent", "pending", "approved", "rejected", "expired", "escalated"}

\* An approver acts on a request once at most, so the lists of decisions are
\* sets of decision-makers.  An absent request is requested by nobody: System.
Row == [status: Status, requester: Deciders,
        approvals: SUBSET Deciders, rejections: SUBSET Deciders]

Absent == [status |-> "absent", requester |-> System,
           approvals |-> {}, rejections |-> {}]

NewRequest(u) == [status |-> "pending", requester |-> u,
                  approvals |-> {}, rejections |-> {}]

\* The workflow configuration under which a sweep approves.
ApprovesOnTimeout == AutoApprove /\ ~AutoReject

Enough(votes) == Cardinality(votes) >= Required

\* Mutant: nobody looks at who asked.
MayVoteOnOwn(row, u, late) ==
    /\ row.status = "pending"
    /\ ~late
    /\ u \notin row.approvals

\* Mutant: expiry is not looked at.
MayVoteLate(row, u, late) ==
    /\ row.status = "pending"
    /\ AllowSelf \/ row.requester # u
    /\ u \notin row.approvals

\* The guard of approve that lets user u vote on the request as it was read;
\* _can_approve holds for everybody and is not a guard.
MayVote(row, u, late) ==
    /\ row.status = "pending"
    /\ ~late
    /\ AllowSelf \/ row.requester # u
    /\ u \notin row.approvals

\* Mutant: off by one in the count.
VotedEarly(row, u) ==
    LET votes == row.approvals \cup {u} IN
    [row EXCEPT !.approvals = votes,
                !.status = IF Cardinality(votes) + 1 >= Required THEN "approved" ELSE @]

\* Mutant: off by one in the other direction.
VotedStrict(row, u) ==
    LET votes == row.approvals \cup {u} IN
    [row EXCEPT !.approvals = votes,
                !.status = IF Cardinality(votes) > Required THEN "approved" ELSE @]

\* The vote itself: the list grows, and a full list decides.
Voted(row, u) ==
    LET votes == row.approvals \cup {u} IN
    [row EXCEPT !.approvals = votes,
                !.status = IF Enough(votes) THEN "approved" ELSE @]

\* Mutant: a status outside the enumeration.
LapsedMisnamed(row) == [row EXCEPT !.status = "timed_out"]

\* approve on a pending request that is past expires_at.
Lapsed(row) == [row EXCEPT !.status = "expired"]

Rejected(row, u) == [row EXCEPT !.rejections = @ \cup {u}, !.status = "rejected"]

Escalated(row) == [row EXCEPT !.status = "escalated"]

\* The body of the loop of process_expired_requests: it does not look at the
\* status of the request again.
TimedOut(row) ==
    IF AutoReject THEN
        [row EXCEPT !.status = "expired", !.rejections = @ \cup {System}]
    ELSE IF AutoApprove THEN
        [row EXCEPT !.status = "approved", !.approvals = @ \cup {System}]
    ELSE [row EXCEPT !.status = "expired"]

-----------------------------------------------------------------------------
\* What the status of one request says and what its decisions say agree:
\* approved means a full list of approvers (or, where the workflow approves on
\* timeout, the system among them); pending and escalated mean a list of people
\* that is not full and no rejection; rejected means that somebody said no.
Consistent(row) ==
    /\ row.status = "approved" =>
           \/ Enough(row.approvals \cap Users)
           \/ ApprovesOnTimeout /\ System \in row.approvals
    /\ row.status \in {"pending", "escalated"} =>
           /\ ~Enough(row.approvals)
           /\ row.approvals \subseteq Users
           /\ row.rejections = {}
    /\ row.status = "rejected" => row.rejections # {}
    /\ row.status = "absent" => row = Absent

\* Nobody approved what he asked for himself.
Impartial(row) == AllowSelf \/ row.requester \notin (row.approvals \cap Users)
=============================================================================

------------------------- MODULE ApprovalRulesProofs -------------------------
(***************************************************************************)
(* What each handler does to one request: it stays a request, and its      *)
(* status keeps agreeing with its decisions.                               *)
(***************************************************************************)
EXTENDS ApprovalRows, FiniteSetTheorems, TLAPS

\* An empty list of approvers is never full, because at least one is required.
LEMMA NobodyIsNotEnough == ~Enough({})
  BY ApprovalAssumption, FS_EmptySet DEF Enough

\* An id without a request, and a request as create_approval_request makes it.
LEMMA FreshSound ==
  ASSUME NEW u \in Users
  PROVE  /\ Absent \in Row /\ Consistent(Absent) /\ Impartial(Absent)
         /\ NewRequest(u) \in Row /\ NewRequest(u).status = "pending"
         /\ Consistent(NewRequest(u)) /\ Impartial(NewRequest(u))
  BY NobodyIsNotEnough
     DEF Absent, NewRequest, Row, Status, Deciders, Consistent, Impartial

\* Absent alone, also where there are no users.
LEMMA AbsentSound == Absent \in Row /\ Consistent(Absent) /\ Impartial(Absent)
  BY DEF Absent, Row, Status, Deciders, Consistent, Impartial

\* A vote that counts.
LEMMA VotedSound ==
  ASSUME NEW row \in Row, NEW u \in Users, NEW late \in BOOLEAN,
         MayVote(row, u, late), Consistent(row), Impartial(row)
  PROVE  /\ Voted(row, u) \in Row
         /\ Consistent(Voted(row, u)) /\ Impartial(Voted(row, u))
         /\ Voted(row, u).status =
                IF Enough(row.approvals \cup {u}) THEN "approved" ELSE "pending"
         /\ Voted(row, u).approvals = row.approvals \cup {u}
         /\ Voted(row, u).rejections = row.rejections
         /\ Voted(row, u).requester = row.requester
<1> DEFINE votes == row.approvals \cup {u}
           new == Voted(row, u)
<1>1. /\ row.status = "pending" /\ row.approvals \subseteq Users
      /\ row.rejections = {}
      /\ AllowSelf \/ row.requester # u
  BY DEF MayVote, Consistent
<1>2. votes \subseteq Users /\ votes \cap Users = votes
  BY <1>1
<1>3. /\ new \in Row /\ new.approvals = votes /\ new.rejections = {}
      /\ new.requester = row.requester
      /\ new.status = IF Enough(votes) THEN "approved" ELSE "pending"
  BY <1>1, <1>2 DEF Voted, Row, Status, Deciders
<1>4. Consistent(new)
  BY <1>2, <1>3 DEF Consistent
<1>5. Impartial(new)
  BY <1>1, <1>2, <1>3 DEF Impartial
<1> QED
  BY <1>1, <1>3, <1>4, <1>5

\* Expiry, rejection and escalation of a pending request.
LEMMA ClosedSound ==
  ASSUME NEW row \in Row, NEW u \in Users,
         row.status = "pending", Consistent(row), Impartial(row)
  PROVE  /\ Lapsed(row) \in Row /\ Lapsed(row).status = "expired"
         /\ Lapsed(row).rejections = row.rejections
         /\ Consistent(Lapsed(row)) /\ Impartial(Lapsed(row))
         /\ Rejected(row, u) \in Row /\ Rejected(row, u).status = "rejected"
         /\ Rejected(row, u).rejections = row.rejections \cup {u}
         /\ Consistent(Rejected(row, u)) /\ Impartial(Rejected(row, u))
         /\ Escalated(row) \in Row /\ Escalated(row).status = "escalated"
         /\ Escalated(row).rejections = row.rejections
         /\ Consistent(Escalated(row)) /\ Impartial(Escalated(row))
         /\ \A new \in {Lapsed(row), Rejected(row, u), Escalated(row)} :
                new.approvals = row.approvals /\ new.requester = row.requester
<1>1. /\ Lapsed(row) \in Row /\ Lapsed(row).status = "expired"
      /\ Consistent(Lapsed(row)) /\ Impartial(Lapsed(row))
      /\ Lapsed(row).approvals = row.approvals
      /\ Lapsed(row).rejections = row.rejections
      /\ Lapsed(row).requester = row.requester
  BY DEF Lapsed, Row, Status, Consistent, Impartial
<1>2. /\ Rejected(row, u) \in Row /\ Rejected(row, u).status = "rejected"
      /\ Rejected(row, u).rejections = row.rejections \cup {u}
      /\ Rejected(row, u).approvals = row.approvals
      /\ Rejected(row, u).requester = row.requester
  BY DEF Rejected, Row, Status, Deciders
<1>3. Consistent(Rejected(row, u)) /\ Impartial(Rejected(row, u))
  BY <1>2 DEF Consistent, Impartial
<1>4. /\ Escalated(row) \in Row /\ Escalated(row).status = "escalated"
      /\ Consistent(Escalated(row)) /\ Impartial(Escalated(row))
      /\ Escalated(row).approvals = row.approvals
      /\ Escalated(row).rejections = row.rejections
      /\ Escalated(row).requester = row.requester
  BY DEF Escalated, Row, Status, Consistent, Impartial
<1> QED
  BY <1>1, <1>2, <1>3, <1>4

\* The sweep, on a request that was created: without the policy that approves
\* on timeout it expires, whatever its status was.
LEMMA TimedOutSound ==
  ASSUME NEW row \in Row, row.status # "absent", Impartial(row)
  PROVE  /\ TimedOut(row) \in Row
         /\ Consistent(TimedOut(row)) /\ Impartial(TimedOut(row))
         /\ TimedOut(row).requester = row.requester
         /\ TimedOut(row).status \in {"expired", "approved"}
         /\ ~ApprovesOnTimeout =>
                /\ TimedOut(row).status = "expired"
                /\ TimedOut(row).approvals = row.approvals
<1>1. System \notin Users /\ AutoReject \in BOOLEAN /\ AutoApprove \in BOOLEAN
  BY ApprovalAssumption
<1>2. CASE AutoReject
  BY <1>1, <1>2 DEF TimedOut, Row, Status, Deciders, Consistent, Impartial, ApprovesOnTimeout
<1>3. CASE ~AutoReject /\ AutoApprove
  <2>1. /\ TimedOut(row) \in Row /\ TimedOut(row).status = "approved"
        /\ TimedOut(row).approvals = row.approvals \cup {System}
        /\ TimedOut(row).requester = row.requester
    BY <1>3 DEF TimedOut, Row, Status, Deciders
  <2>2. Consistent(TimedOut(row))
    BY <1>3, <2>1 DEF Consistent, ApprovesOnTimeout
  <2>3. Impartial(TimedOut(row))
    BY <1>1, <2>1 DEF Impartial
  <2> QED
    BY <1>3, <2>1, <2>2, <2>3 DEF ApprovesOnTimeout
<1>4. CASE ~AutoReject /\ ~AutoApprove
  BY <1>4 DEF TimedOut, Row, Status, Consistent, Impartial, ApprovesOnTimeout
<1> QED
  BY <1>1, <1>2, <1>3, <1>4
-----------------------------------------------------------------------------
\* The abstract state changes at one request only when the rows do.
LEMMA BarReplace ==
  ASSUME rows \in [Requests -> Row], NEW r \in Requests, NEW new, rows' = [rows EXCEPT ![r] = new]
  PROVE  /\ outcomeBar' = [outcomeBar EXCEPT ![r] = OutcomeOf(new.status)]
         /\ ownerBar' = [ownerBar EXCEPT ![r] = new.requester]
         /\ votesBar' = [votesBar EXCEPT ![r] = new.approvals]
         /\ outcomeBar[r] = OutcomeOf(rows[r].status)
         /\ ownerBar[r] = rows[r].requester
         /\ votesBar[r] = rows[r].approvals
         /\ new.requester = rows[r].requester => UNCHANGED ownerBar
         /\ new.approvals = rows[r].approvals => UNCHANGED votesBar
         /\ OutcomeOf(new.status) = OutcomeOf(rows[r].status) => UNCHANGED outcomeBar
<1>1. /\ rows'[r] = new
      /\ \A q \in Requests \ {r} : rows'[q] = rows[q]
  OBVIOUS
<1>2. outcomeBar' = [outcomeBar EXCEPT ![r] = OutcomeOf(new.status)]
  <2>1. \A q \in Requests : OutcomeOf(rows'[q].status) = IF q = r THEN OutcomeOf(new.status) ELSE OutcomeOf(rows[q].status)
    BY <1>1
  <2>2. outcomeBar' = [q \in Requests |-> IF q = r THEN OutcomeOf(new.status) ELSE OutcomeOf(rows[q].status)]
    BY <2>1, Zenon DEF outcomeBar
  <2> QED
    BY <2>2 DEF outcomeBar
<1>3. ownerBar' = [ownerBar EXCEPT ![r] = new.requester]
  <2>1. \A q \in Requests : rows'[q].requester = IF q = r THEN new.requester ELSE rows[q].requester
    BY <1>1
  <2>2. ownerBar' = [q \in Requests |-> IF q = r THEN new.requester ELSE rows[q].requester]
    BY <2>1, Zenon DEF ownerBar
  <2> QED
    BY <2>2 DEF ownerBar
<1>4. votesBar' = [votesBar EXCEPT ![r] = new.approvals]
  <2>1. \A q \in Requests : rows'[q].approvals = IF q = r THEN new.approvals ELSE rows[q].approvals
    BY <1>1
  <2>2. votesBar' = [q \in Requests |-> IF q = r THEN new.approvals ELSE rows[q].approvals]
    BY <2>1, Zenon DEF votesBar
  <2> QED
    BY <2>2 DEF votesBar
<1>5. /\ outcomeBar[r] = OutcomeOf(rows[r].status)
      /\ ownerBar[r] = rows[r].requester
      /\ votesBar[r] = rows[r].approvals
  BY DEF outcomeBar, ownerBar, votesBar
<1>6. new.requester = rows[r].requester => UNCHANGED ownerBar
  BY <1>3, <1>5 DEF ownerBar
<1>7. new.approvals = rows[r].approvals => UNCHANGED votesBar
  BY <1>4, <1>5 DEF votesBar
<1>8. OutcomeOf(new.status) = OutcomeOf(rows[r].status) => UNCHANGED outcomeBar
  BY <1>2, <1>5 DEF outcomeBar
<1> QED
  BY <1>2, <1>3, <1>4, <1>5, <1>6, <1>7, <1>8

\* A pending request that is rejected, escalated or found overdue is closed.
LEMMA CloseStep ==
  ASSUME rows \in [Requests -> Row], NEW r \in Requests, NEW new,
         rows' = [rows EXCEPT ![r] = new],
         rows[r].status = "pending",
         new.status \in {"rejected", "escalated", "expired"},
         new.requester = rows[r].requester, new.approvals = rows[r].approvals
  PROVE  Lifecycle!Close(r)
<1>1. OutcomeOf(new.status) = "closed" /\ OutcomeOf(rows[r].status) = "open"
  BY DEF OutcomeOf
<1> QED
  <2>1. /\ outcomeBar' = [outcomeBar EXCEPT ![r] = OutcomeOf(new.status)]
        /\ outcomeBar[r] = OutcomeOf(rows[r].status)
        /\ UNCHANGED ownerBar /\ UNCHANGED votesBar
    BY BarReplace
  <2> QED
    BY <1>1, <2>1 DEF Lifecycle!Close

\* A request that was not there is opened by the one who makes it.
LEMMA OpenStep ==
  ASSUME rows \in [Requests -> Row], NEW r \in Requests, NEW u \in Users,
         rows[r] = Absent, rows' = [rows EXCEPT ![r] = NewRequest(u)]
  PROVE  Lifecycle!Open(r, u)
<1> DEFINE new == NewRequest(u)
<1>1. /\ OutcomeOf(rows[r].status) = "none" /\ OutcomeOf(new.status) = "open"
      /\ new.requester = u /\ new.approvals = rows[r].approvals
  BY DEF OutcomeOf, NewRequest, Absent
<1>2. rows' = [rows EXCEPT ![r] = new]
  OBVIOUS
<1> HIDE DEF new
<1>3. /\ outcomeBar' = [outcomeBar EXCEPT ![r] = OutcomeOf(new.status)]
      /\ ownerBar' = [ownerBar EXCEPT ![r] = new.requester]
      /\ outcomeBar[r] = OutcomeOf(rows[r].status)
      /\ UNCHANGED votesBar
  BY <1>1, <1>2, BarReplace
<1> QED
  BY <1>1, <1>3 DEF Lifecycle!Open

\* A vote that counts is one of the lifecycle.
LEMMA VoteStep ==
  ASSUME rows \in [Requests -> Row], NEW r \in Requests, NEW u \in Users,
         NEW late \in BOOLEAN, MayVote(rows[r], u, late),
         Consistent(rows[r]), Impartial(rows[r]),
         rows' = [rows EXCEPT ![r] = Voted(rows[r], u)]
  PROVE  Lifecycle!Vote(r, u)
<1> DEFINE new == Voted(rows[r], u)
<1>1. /\ rows[r].status = "pending" /\ u \notin rows[r].approvals
      /\ AllowSelf \/ rows[r].requester # u
  BY DEF MayVote
<1>2. /\ new.approvals = rows[r].approvals \cup {u}
      /\ new.requester = rows[r].requester
      /\ new.status = IF Enough(rows[r].approvals \cup {u}) THEN "approved" ELSE "pending"
  BY VotedSound
<1>3. OutcomeOf(rows[r].status) = "open"
  BY <1>1 DEF OutcomeOf
<1>4. rows' = [rows EXCEPT ![r] = new]
  OBVIOUS
<1> HIDE DEF new
<1>5. /\ outcomeBar[r] = "open"
      /\ ownerBar[r] = rows[r].requester
      /\ votesBar[r] = rows[r].approvals
      /\ votesBar' = [votesBar EXCEPT ![r] = new.approvals]
      /\ outcomeBar' = [outcomeBar EXCEPT ![r] = OutcomeOf(new.status)]
      /\ UNCHANGED ownerBar
  BY <1>2, <1>3, <1>4, BarReplace
<1>6. OutcomeOf(new.status) = IF Enough(votesBar[r] \cup {u}) THEN "granted" ELSE "open"
  BY <1>2, <1>5 DEF OutcomeOf
<1> QED
  BY <1>1, <1>2, <1>5, <1>6 DEF Lifecycle!Vote

\* A store that is empty is where the lifecycle begins.
LEMMA LifecycleInit ==
  ASSUME rows = [r \in Requests |-> Absent]
  PROVE  Lifecycle!Init
BY DEF Lifecycle!Init, outcomeBar, ownerBar, votesBar, OutcomeOf, Absent

-----------------------------------------------------------------------------
\* What the promise is worth: granted takes a quorum of people other than the
\* owner, for whoever keeps the lifecycle.
THEOREM LifecycleGrantedByQuorum == KeepsLifecycle => []Lifecycle!GrantedByQuorum
<1> DEFINE Inv == /\ Lifecycle!GrantedByQuorum
                  /\ \A r \in Requests : outcomeBar[r] = "none" => votesBar[r] = {}
<1>1. Lifecycle!Init => Inv
  BY DEF Lifecycle!Init, Lifecycle!GrantedByQuorum
<1>2. Inv /\ [Lifecycle!Next]_(Lifecycle!lvars) => Inv'
  <2> SUFFICES ASSUME Inv, [Lifecycle!Next]_(Lifecycle!lvars) PROVE Inv'
    OBVIOUS
  <2> USE DEF Lifecycle!GrantedByQuorum
  <2>0. /\ DOMAIN outcomeBar = Requests /\ DOMAIN ownerBar = Requests
        /\ DOMAIN votesBar = Requests
    BY DEF outcomeBar, ownerBar, votesBar
  <2>1. ASSUME NEW r \in Requests, NEW u \in Users, Lifecycle!Open(r, u) PROVE Inv'
    BY <2>0, <2>1 DEF Lifecycle!Open
  <2>2. ASSUME NEW r \in Requests, NEW u \in Users, Lifecycle!Vote(r, u) PROVE Inv'
    BY <2>0, <2>2 DEF Lifecycle!Vote
  <2>3. ASSUME NEW r \in Requests, Lifecycle!Close(r) PROVE Inv'
    BY <2>0, <2>3 DEF Lifecycle!Close
  <2>4. CASE UNCHANGED Lifecycle!lvars
    BY <2>4 DEF Lifecycle!lvars
  <2> QED
    BY <2>1, <2>2, <2>3, <2>4 DEF Lifecycle!Next
<1> QED
  BY <1>1, <1>2, PTL DEF KeepsLifecycle, Lifecycle!Spec

\* Granted or closed, a request stays what it is for whoever keeps the lifecycle.
THEOREM LifecycleDecidedStays == KeepsLifecycle => Lifecycle!DecidedStays
<1> DEFINE Stay == \A r \in Requests : outcomeBar[r] \in {"granted", "closed"} =>
                       /\ outcomeBar'[r] = outcomeBar[r]
                       /\ votesBar'[r] = votesBar[r]
                       /\ ownerBar'[r] = ownerBar[r]
<1>1. [Lifecycle!Next]_(Lifecycle!lvars) => [Stay]_(Lifecycle!lvars)
  <2> SUFFICES ASSUME Lifecycle!Next PROVE Stay
    OBVIOUS
  <2>0. /\ DOMAIN outcomeBar = Requests /\ DOMAIN ownerBar = Requests
        /\ DOMAIN votesBar = Requests
    BY DEF outcomeBar, ownerBar, votesBar
  <2>1. ASSUME NEW r \in Requests, NEW u \in Users, Lifecycle!Open(r, u) PROVE Stay
    BY <2>0, <2>1 DEF Lifecycle!Open
  <2>2. ASSUME NEW r \in Requests, NEW u \in Users, Lifecycle!Vote(r, u) PROVE Stay
    BY <2>0, <2>2 DEF Lifecycle!Vote
  <2>3. ASSUME NEW r \in Requests, Lifecycle!Close(r) PROVE Stay
    BY <2>0, <2>3 DEF Lifecycle!Close
  <2> QED
    BY <2>1, <2>2, <2>3 DEF Lifecycle!Next
<1> QED
  BY <1>1, PTL DEF KeepsLifecycle, Lifecycle!Spec, Lifecycle!DecidedStays

=============================================================================

------------------------ MODULE ApprovalManagerProofs ------------------------
(***************************************************************************)
(* The manager over the in-memory store, for any number of requests,       *)
(* people, approvers and concurrent sweeps.                                *)
(***************************************************************************)
EXTENDS ApprovalManager, ApprovalRulesProofs

\* The inductive invariant.
IInv == TypeOK /\ RowsSound /\ SweepsHoldOverdue

LEMMA InitIInv == Init => IInv
  BY AbsentSound
     DEF Init, IInv, TypeOK, RowsSound, SweepsHoldOverdue

\* A step that replaces one request by another sound one, and neither starts
\* a sweep nor touches a request in a sweep's list wrongly, keeps IInv.
LEMMA ReplaceKeepsIInv ==
  ASSUME IInv, NEW r \in Requests, NEW new \in Row,
         rows' = [rows EXCEPT ![r] = new],
         Consistent(new), Impartial(new),
         new.status # "absent",
         new.status = "approved" =>
             ApprovesOnTimeout \/ \A s \in Sweepers : r \notin todo'[s],
         todo' \in [Sweepers -> SUBSET Requests],
         \A s \in Sweepers : todo'[s] \subseteq todo[s],
         UNCHANGED due,
         told' \in [Requests -> SUBSET Notice]
  PROVE  IInv'
<1>1. TypeOK'
  BY DEF IInv, TypeOK
<1>2. \A q \in Requests : rows'[q] = IF q = r THEN new ELSE rows[q]
  BY DEF IInv, TypeOK
<1>3. RowsSound'
  BY <1>2 DEF IInv, RowsSound
<1>4. SweepsHoldOverdue'
  BY <1>2 DEF IInv, TypeOK, SweepsHoldOverdue
<1> QED
  BY <1>1, <1>3, <1>4 DEF IInv

LEMMA TellType ==
  ASSUME TypeOK, NEW r \in Requests, NEW notice \in Notice, Tell(r, notice)
  PROVE  told' \in [Requests -> SUBSET Notice]
  BY DEF TypeOK, Tell

\* One step per action.
LEMMA NextIInv == IInv /\ [Next]_vars => IInv'
<1> SUFFICES ASSUME IInv, [Next]_vars PROVE IInv'
  OBVIOUS
<1> USE DEF IInv
<1>1. ASSUME NEW r \in Requests, NEW u \in Users, Create(r, u)
      PROVE  IInv'
  <2>1. NewRequest(u).status # "approved" /\ NewRequest(u).status # "absent"
    BY FreshSound
  <2>2. UNCHANGED <<due, todo, told>> /\ rows' = [rows EXCEPT ![r] = NewRequest(u)]
    BY <1>1 DEF Create
  <2> QED
    BY <2>1, <2>2, FreshSound, ReplaceKeepsIInv DEF TypeOK
<1>2. ASSUME NEW r \in Requests, PassDeadline(r)
      PROVE  IInv'
  BY <1>2 DEF PassDeadline, TypeOK, RowsSound, SweepsHoldOverdue
<1>3. ASSUME NEW r \in Requests, NEW u \in Users, Approve(r, u)
      PROVE  IInv'
  <2>1. /\ rows[r] \in Row /\ due[r] \in BOOLEAN
        /\ Consistent(rows[r]) /\ Impartial(rows[r])
        /\ MayVote(rows[r], u, due[r])
        /\ rows' = [rows EXCEPT ![r] = Voted(rows[r], u)]
        /\ UNCHANGED <<due, todo>>
    BY <1>3 DEF Approve, TypeOK, RowsSound
  <2>2. \A s \in Sweepers : r \notin todo[s]
    BY <2>1 DEF SweepsHoldOverdue, MayVote
  <2>3. told' \in [Requests -> SUBSET Notice]
    BY <1>3, TellType DEF Approve, TypeOK, Notice
  <2>4. /\ Voted(rows[r], u) \in Row
        /\ Consistent(Voted(rows[r], u)) /\ Impartial(Voted(rows[r], u))
        /\ Voted(rows[r], u).status # "absent"
    BY <2>1, VotedSound
  <2> QED
    BY <2>1, <2>2, <2>3, <2>4, ReplaceKeepsIInv DEF TypeOK
<1>4. ASSUME NEW r \in Requests, ApproveTooLate(r)
      PROVE  IInv'
  <2>1. /\ rows[r] \in Row /\ rows[r].status = "pending"
        /\ Consistent(rows[r]) /\ Impartial(rows[r])
        /\ rows' = [rows EXCEPT ![r] = Lapsed(rows[r])]
        /\ UNCHANGED <<due, todo, told>>
    BY <1>4 DEF ApproveTooLate, TypeOK, RowsSound
  <2>2. /\ Lapsed(rows[r]) \in Row /\ Lapsed(rows[r]).status = "expired"
        /\ Consistent(Lapsed(rows[r])) /\ Impartial(Lapsed(rows[r]))
    BY <2>1 DEF Lapsed, Row, Status, Consistent, Impartial
  <2> QED
    BY <2>1, <2>2, ReplaceKeepsIInv DEF TypeOK
<1>5. ASSUME NEW r \in Requests, NEW u \in Users, Reject(r, u)
      PROVE  IInv'
  <2>1. /\ rows[r] \in Row /\ rows[r].status = "pending"
        /\ Consistent(rows[r]) /\ Impartial(rows[r])
        /\ rows' = [rows EXCEPT ![r] = Rejected(rows[r], u)]
        /\ UNCHANGED <<due, todo>>
    BY <1>5 DEF Reject, TypeOK, RowsSound
  <2>2. told' \in [Requests -> SUBSET Notice]
    BY <1>5, TellType DEF Reject, TypeOK, Notice
  <2> QED
    BY <2>1, <2>2, ClosedSound, ReplaceKeepsIInv DEF TypeOK
<1>6. ASSUME NEW r \in Requests, Escalate(r)
      PROVE  IInv'
  <2>1. /\ rows[r] \in Row /\ rows[r].status = "pending"
        /\ Consistent(rows[r]) /\ Impartial(rows[r])
        /\ rows' = [rows EXCEPT ![r] = Escalated(rows[r])]
        /\ UNCHANGED <<due, todo, told>>
    BY <1>6 DEF Escalate, TypeOK, RowsSound
  <2>2. /\ Escalated(rows[r]) \in Row /\ Escalated(rows[r]).status = "escalated"
        /\ Consistent(Escalated(rows[r])) /\ Impartial(Escalated(rows[r]))
    BY <2>1 DEF Escalated, Row, Status, Consistent, Impartial
  <2> QED
    BY <2>1, <2>2, ReplaceKeepsIInv DEF TypeOK
<1>7. ASSUME NEW s \in Sweepers, SweepList(s)
      PROVE  IInv'
  BY <1>7 DEF SweepList, Overdue, TypeOK, RowsSound, SweepsHoldOverdue
<1>8. ASSUME NEW s \in Sweepers, NEW r \in Requests, SweepOne(s, r)
      PROVE  IInv'
  <2>1. /\ rows[r] \in Row /\ rows[r].status # "absent" /\ Impartial(rows[r])
        /\ rows' = [rows EXCEPT ![r] = TimedOut(rows[r])]
        /\ todo' = [todo EXCEPT ![s] = @ \ {r}]
        /\ UNCHANGED due
    BY <1>8 DEF SweepOne, TypeOK, RowsSound, SweepsHoldOverdue
  <2>2. told' \in [Requests -> SUBSET Notice]
    BY <1>8, TellType DEF SweepOne, TypeOK, Notice
  <2>3. /\ TimedOut(rows[r]) \in Row
        /\ Consistent(TimedOut(rows[r])) /\ Impartial(TimedOut(rows[r]))
        /\ TimedOut(rows[r]).status # "absent"
        /\ TimedOut(rows[r]).status = "approved" => ApprovesOnTimeout
    BY <2>1, TimedOutSound
  <2>4. /\ todo' \in [Sweepers -> SUBSET Requests]
        /\ \A z \in Sweepers : todo'[z] \subseteq todo[z]
    BY <2>1 DEF TypeOK
  <2> QED
    BY <2>1, <2>2, <2>3, <2>4, ReplaceKeepsIInv DEF TypeOK
<1>9. CASE UNCHANGED vars
  BY <1>9 DEF vars, TypeOK, RowsSound, SweepsHoldOverdue
<1> QED
  BY <1>1, <1>2, <1>3, <1>4, <1>5, <1>6, <1>7, <1>8, <1>9 DEF Next

\* Every stored request is sound: approved by a quorum of others.
THEOREM ManagerTypeOK == Spec => []TypeOK
<1>1. IInv => TypeOK
  BY DEF IInv
<1> QED
  BY <1>1, InitIInv, NextIInv, PTL DEF Spec

THEOREM ManagerRowsSound == Spec => []RowsSound
<1>1. IInv => RowsSound
  BY DEF IInv
<1> QED
  BY <1>1, InitIInv, NextIInv, PTL DEF Spec

-----------------------------------------------------------------------------
\* What a requestor was told.
LEMMA ToldInit == Init => ToldTheTruth
  BY DEF Init, ToldTheTruth, Truthful

LEMMA ToldReplace ==
  ASSUME TypeOK, ToldTheTruth, ~ApprovesOnTimeout,
         NEW r \in Requests, NEW new, NEW notices,
         rows' = [rows EXCEPT ![r] = new],
         told' = [told EXCEPT ![r] = notices],
         Truthful(new.status, notices)
  PROVE  ToldTheTruth'
<1> SUFFICES ASSUME NEW q \in Requests PROVE Truthful(rows'[q].status, told'[q])
  BY DEF ToldTheTruth
<1>1. CASE q = r
  BY <1>1 DEF TypeOK
<1>2. CASE q # r
  BY <1>2 DEF TypeOK, ToldTheTruth
<1> QED
  BY <1>1, <1>2

\* A request nobody decided is one that nobody was told about.
LEMMA OpenUntold ==
  ASSUME TypeOK, ToldTheTruth, ~ApprovesOnTimeout, NEW r \in Requests,
         rows[r].status \in {"absent", "pending"}
  PROVE  told[r] = {} /\ told = [told EXCEPT ![r] = {}]
<1>1. told[r] \subseteq Notice /\ Truthful(rows[r].status, told[r])
  BY DEF TypeOK, ToldTheTruth
<1>2. told[r] = {}
  BY <1>1 DEF Truthful, Notice
<1> QED
  BY <1>2 DEF TypeOK

LEMMA ToldNext == IInv /\ ToldTheTruth /\ [Next]_vars => ToldTheTruth'
<1> SUFFICES ASSUME IInv, ToldTheTruth, [Next]_vars, ~ApprovesOnTimeout
             PROVE  ToldTheTruth'
  BY DEF ToldTheTruth
<1>0. TypeOK /\ SweepsHoldOverdue
  BY DEF IInv
<1>1. ASSUME NEW r \in Requests, NEW u \in Users, Create(r, u)
      PROVE  ToldTheTruth'
  BY <1>0, <1>1, OpenUntold, ToldReplace DEF Create, Truthful
<1>2. ASSUME NEW r \in Requests, NEW u \in Users, Approve(r, u)
      PROVE  ToldTheTruth'
  <2> DEFINE new == Voted(rows[r], u)
  <2>1. told[r] = {} /\ told = [told EXCEPT ![r] = {}]
    BY <1>0, <1>2, OpenUntold DEF Approve, MayVote
  <2>2. rows' = [rows EXCEPT ![r] = new] /\ rows'[r] = new
    BY <1>0, <1>2 DEF Approve, TypeOK
  <2>3. CASE new.status = "approved"
    <3>1. told' = [told EXCEPT ![r] = {"approved"}]
      BY <1>2, <2>1, <2>2, <2>3 DEF Approve, Tell
    <3> QED
      BY <1>0, <2>2, <2>3, <3>1, ToldReplace DEF Truthful
  <2>4. CASE new.status # "approved"
    <3>1. told' = [told EXCEPT ![r] = {}]
      BY <1>2, <2>1, <2>2, <2>4 DEF Approve
    <3> QED
      BY <1>0, <2>2, <3>1, ToldReplace DEF Truthful
  <2> QED
    BY <2>3, <2>4
<1>3. ASSUME NEW r \in Requests, ApproveTooLate(r) \/ Escalate(r)
      PROVE  ToldTheTruth'
  <2>1. told' = [told EXCEPT ![r] = {}]
    BY <1>0, <1>3, OpenUntold DEF ApproveTooLate, Escalate
  <2>2. \E new : rows' = [rows EXCEPT ![r] = new]
    BY <1>3 DEF ApproveTooLate, Escalate
  <2> QED
    BY <1>0, <2>1, <2>2, ToldReplace DEF Truthful
<1>4. ASSUME NEW r \in Requests, NEW u \in Users, Reject(r, u)
      PROVE  ToldTheTruth'
  <2>1. told' = [told EXCEPT ![r] = {"rejected"}]
    BY <1>0, <1>4, OpenUntold DEF Reject, Tell
  <2>2. Rejected(rows[r], u).status = "rejected"
    BY <1>0 DEF TypeOK, Row, Rejected
  <2> QED
    BY <1>0, <1>4, <2>1, <2>2, ToldReplace DEF Reject, Truthful
<1>5. ASSUME NEW s \in Sweepers, NEW r \in Requests, SweepOne(s, r)
      PROVE  ToldTheTruth'
  <2>1. /\ rows[r].status # "approved" /\ rows[r].status # "absent"
        /\ rows[r] \in Row /\ Impartial(rows[r])
        /\ Truthful(rows[r].status, told[r])
    BY <1>0, <1>5 DEF SweepOne, SweepsHoldOverdue, TypeOK, ToldTheTruth, IInv, RowsSound
  <2>2. TimedOut(rows[r]).status = "expired"
    BY <2>1, TimedOutSound
  <2>3. Truthful(TimedOut(rows[r]).status, told[r] \cup {"expired"})
    BY <2>1, <2>2 DEF Truthful
  <2> QED
    BY <1>0, <1>5, <2>3, ToldReplace DEF SweepOne, Tell
<1>6. CASE UNCHANGED <<rows, told>>
  BY <1>6 DEF ToldTheTruth
<1> QED
  BY <1>1, <1>2, <1>3, <1>4, <1>5, <1>6 DEF Next, vars, PassDeadline, SweepList

\* After "approved" the requestor finds the request approved, for ever; after
\* "rejected" or "expired" never.
THEOREM ManagerToldTheTruth == Spec => []ToldTheTruth
  BY InitIInv, NextIInv, ToldInit, ToldNext, PTL DEF Spec

-----------------------------------------------------------------------------
\* A step of the manager is one of the lifecycle, or leaves it as it is.
LEMMA LifecycleNext ==
  ASSUME IInv, [Next]_vars, ~ApprovesOnTimeout
  PROVE  [Lifecycle!Next]_(Lifecycle!lvars)
<1>0. TypeOK /\ SweepsHoldOverdue
  BY DEF IInv
<1>1. ASSUME NEW r \in Requests, NEW u \in Users, Create(r, u)
      PROVE  Lifecycle!Open(r, u)
  BY <1>0, <1>1, OpenStep DEF Create, IInv, RowsSound, Consistent, TypeOK
<1>2. ASSUME NEW r \in Requests, NEW u \in Users, Approve(r, u)
      PROVE  Lifecycle!Vote(r, u)
  BY <1>0, <1>2, VoteStep DEF Approve, TypeOK, IInv, RowsSound
<1>3. ASSUME NEW r \in Requests, ApproveTooLate(r)
      PROVE  Lifecycle!Close(r)
  <2>1. /\ Lapsed(rows[r]).status = "expired"
        /\ Lapsed(rows[r]).requester = rows[r].requester
        /\ Lapsed(rows[r]).approvals = rows[r].approvals
    BY <1>0 DEF TypeOK, Row, Lapsed
  <2> QED
    BY <1>0, <1>3, <2>1, CloseStep DEF ApproveTooLate, TypeOK
<1>4. ASSUME NEW r \in Requests, NEW u \in Users, Reject(r, u)
      PROVE  Lifecycle!Close(r)
  <2>1. /\ Rejected(rows[r], u).status = "rejected"
        /\ Rejected(rows[r], u).requester = rows[r].requester
        /\ Rejected(rows[r], u).approvals = rows[r].approvals
    BY <1>0 DEF TypeOK, Row, Rejected
  <2> QED
    BY <1>0, <1>4, <2>1, CloseStep DEF Reject, TypeOK
<1>5. ASSUME NEW r \in Requests, Escalate(r)
      PROVE  Lifecycle!Close(r)
  <2>1. /\ Escalated(rows[r]).status = "escalated"
        /\ Escalated(rows[r]).requester = rows[r].requester
        /\ Escalated(rows[r]).approvals = rows[r].approvals
    BY <1>0 DEF TypeOK, Row, Escalated
  <2> QED
    BY <1>0, <1>5, <2>1, CloseStep DEF Escalate, TypeOK
\* A sweep closes a pending request, and leaves a closed one closed.
<1>6. ASSUME NEW s \in Sweepers, NEW r \in Requests, SweepOne(s, r)
      PROVE  Lifecycle!Close(r) \/ UNCHANGED Lifecycle!lvars
  <2>1. /\ rows[r] \in Row /\ Impartial(rows[r])
        /\ rows[r].status \in Status \ {"absent", "approved"}
        /\ rows' = [rows EXCEPT ![r] = TimedOut(rows[r])]
    BY <1>0, <1>6 DEF SweepOne, SweepsHoldOverdue, TypeOK, Row, IInv, RowsSound
  <2>2. /\ TimedOut(rows[r]).status = "expired"
        /\ TimedOut(rows[r]).requester = rows[r].requester
        /\ TimedOut(rows[r]).approvals = rows[r].approvals
    BY <2>1, TimedOutSound
  <2>3. CASE rows[r].status = "pending"
    BY <1>0, <2>1, <2>2, <2>3, CloseStep DEF TypeOK
  <2>4. CASE rows[r].status # "pending"
    <3>1. OutcomeOf(rows[r].status) = OutcomeOf(TimedOut(rows[r]).status)
      BY <2>1, <2>2, <2>4 DEF OutcomeOf, Status
    <3> DEFINE new == TimedOut(rows[r])
    <3>2. /\ rows' = [rows EXCEPT ![r] = new]
          /\ new.requester = rows[r].requester /\ new.approvals = rows[r].approvals
          /\ OutcomeOf(new.status) = OutcomeOf(rows[r].status)
      BY <2>1, <2>2, <3>1
    <3>3. UNCHANGED <<outcomeBar, ownerBar, votesBar>>
      <4> HIDE DEF new
      <4> QED
        BY <1>0, <3>2, BarReplace DEF TypeOK
    <3> QED
      BY <3>3 DEF Lifecycle!lvars
  <2> QED
    BY <2>3, <2>4
<1>7. ASSUME UNCHANGED rows
      PROVE  UNCHANGED Lifecycle!lvars
  BY <1>7 DEF Lifecycle!lvars, outcomeBar, ownerBar, votesBar
<1> QED
  BY <1>1, <1>2, <1>3, <1>4, <1>5, <1>6, <1>7
     DEF Next, vars, PassDeadline, SweepList, Lifecycle!Next

\* Unless it approves on timeout, the manager over the in-memory store
\* implements the lifecycle: it takes a quorum of people other than the owner to
\* grant a request, and a request granted or closed stays so.
THEOREM ManagerKeepsLifecycle ==
  ASSUME ~ApprovesOnTimeout
  PROVE  Spec => KeepsLifecycle
<1>1. IInv /\ [Next]_vars => [Lifecycle!Next]_(Lifecycle!lvars)
  BY LifecycleNext
<1>2. Init => Lifecycle!Init
  BY LifecycleInit DEF Init
<1> QED
  BY <1>1, InitIInv, NextIInv, <1>2, PTL
     DEF Spec, KeepsLifecycle, Lifecycle!Spec
=============================================================================

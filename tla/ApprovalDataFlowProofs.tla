----------------------- MODULE ApprovalDataFlowProofs ------------------------
(***************************************************************************)
(* The manager over the database: what survives every interleaving of      *)
(* reads and updates, for any number of requests, people and handlers.     *)
(***************************************************************************)
EXTENDS ApprovalDataFlow, ApprovalRulesProofs

\* What makes a row fit to be stored for request r.
Fit(row, r) ==
    /\ row \in Row
    /\ Consistent(row) /\ Impartial(row)
    /\ System \in row.approvals \cup row.rejections => due[r]

IInv == TypeOK /\ RowsSound /\ SystemWaitsForDeadline /\ CopiesSound

\* Where one approver is enough, a vote decides.
LEMMA OneVoteDecides ==
  ASSUME Required = 1, NEW votes \in SUBSET Users, NEW u \in Users
  PROVE  Enough(votes \cup {u})
<1>1. IsFiniteSet(votes \cup {u})
  BY ApprovalAssumption, FS_Subset
<1>2. Cardinality(votes \cup {u}) \in Nat /\ Cardinality(votes \cup {u}) # 0
  BY <1>1, FS_CardinalityType, FS_EmptySet
<1> QED
  BY <1>2 DEF Enough

LEMMA InitIInv == Init => IInv
<1> SUFFICES ASSUME Init PROVE IInv
  OBVIOUS
<1>1. Absent.approvals = {} /\ Absent.rejections = {}
  BY DEF Absent
<1>2. TypeOK
  BY AbsentSound DEF Init, TypeOK
<1>3. RowsSound /\ SystemWaitsForDeadline /\ CopiesSound
  BY <1>1, AbsentSound DEF Init, RowsSound, SystemWaitsForDeadline, CopiesSound, Idle
<1> QED
  BY <1>2, <1>3 DEF IInv

\* A step that stores a fit row and leaves the copies alone, or ends some.
LEMMA StoreKeepsIInv ==
  ASSUME IInv, NEW r \in Requests, NEW row, Fit(row, r),
         rows' = [rows EXCEPT ![r] = row], UNCHANGED due,
         \A t \in Tasks : call'[t] \in {call[t], Idle},
         call' = [t \in Tasks |-> call'[t]],
         listed' \in [Sweepers -> [Requests -> Row]],
         \A s \in Sweepers, q \in Requests : listed'[s][q] \in {listed[s][q], Absent}
  PROVE  IInv'
<1>1. TypeOK'
  BY AbsentSound DEF IInv, TypeOK, Fit
<1>2. rows'[r] = row /\ \A q \in Requests \ {r} : rows'[q] = rows[q]
  BY DEF IInv, TypeOK
<1>3. RowsSound' /\ SystemWaitsForDeadline'
  BY <1>2 DEF IInv, RowsSound, SystemWaitsForDeadline, Fit
<1>4. CopiesSound'
  BY AbsentSound DEF IInv, CopiesSound, Idle
<1> QED
  BY <1>1, <1>3, <1>4 DEF IInv

\* A step of task t that gives it a fit copy.
LEMMA CopyKeepsIInv ==
  ASSUME IInv, NEW t \in Tasks, NEW c \in Call,
         call' = [call EXCEPT ![t] = c], UNCHANGED <<rows, due, listed>>,
         Fit(c.row, c.req), c.row.status # "absent",
         Required = 1 /\ c.pc = "save" => c.row.status # "pending"
  PROVE  IInv'
<1>1. TypeOK'
  BY DEF IInv, TypeOK
<1>2. RowsSound' /\ SystemWaitsForDeadline'
  BY DEF IInv, RowsSound, SystemWaitsForDeadline
<1>3. call'[t] = c /\ \A z \in Tasks \ {t} : call'[z] = call[z]
  BY DEF IInv, TypeOK
<1>4. CopiesSound'
  BY <1>3 DEF IInv, CopiesSound, Fit
<1> QED
  BY <1>1, <1>2, <1>4 DEF IInv

LEMMA DecideIInv ==
  ASSUME IInv, NEW t \in Tasks, Decide(t)
  PROVE  IInv'
<1> DEFINE c == call[t]
           row == c.row
<1>1. /\ c \in Call /\ c.pc = "decide" /\ row \in Row /\ row.status = "pending"
      /\ Consistent(row) /\ Impartial(row)
      /\ System \in row.approvals \cup row.rejections => due[c.req]
      /\ due[c.req] \in BOOLEAN /\ c.user \in Users /\ c.req \in Requests
      /\ UNCHANGED <<rows, due, listed>>
  BY DEF Decide, IInv, TypeOK, CopiesSound, Idle, Call
<1>2. System \notin Users /\ row.rejections = {} /\ row.approvals \subseteq Users
  BY <1>1, ApprovalAssumption DEF Consistent
<1>3. SUFFICES ASSUME NEW new \in Row, Save(t, new),
                      Consistent(new), Impartial(new),
                      System \notin new.approvals \cup new.rejections,
                      new.status # "absent",
                      Required = 1 => new.status # "pending"
               PROVE  IInv'
  <2>1. /\ Lapsed(row) \in Row /\ Lapsed(row).status = "expired"
        /\ Consistent(Lapsed(row)) /\ Impartial(Lapsed(row))
        /\ System \notin Lapsed(row).approvals \cup Lapsed(row).rejections
    BY <1>1, <1>2, ClosedSound
  <2>2. /\ Rejected(row, c.user) \in Row /\ Rejected(row, c.user).status = "rejected"
        /\ Consistent(Rejected(row, c.user)) /\ Impartial(Rejected(row, c.user))
        /\ System \notin Rejected(row, c.user).approvals
                          \cup Rejected(row, c.user).rejections
    BY <1>1, <1>2, ClosedSound
  <2>3. /\ Escalated(row) \in Row /\ Escalated(row).status = "escalated"
        /\ Consistent(Escalated(row)) /\ Impartial(Escalated(row))
        /\ System \notin Escalated(row).approvals \cup Escalated(row).rejections
    BY <1>1, <1>2, ClosedSound
  <2>4. ASSUME MayVote(row, c.user, due[c.req])
        PROVE  /\ Voted(row, c.user) \in Row
               /\ Consistent(Voted(row, c.user)) /\ Impartial(Voted(row, c.user))
               /\ System \notin Voted(row, c.user).approvals
                                 \cup Voted(row, c.user).rejections
               /\ Voted(row, c.user).status # "absent"
               /\ Required = 1 => Voted(row, c.user).status # "pending"
    <3>1. Required = 1 => Enough(row.approvals \cup {c.user})
      BY <1>1, <1>2, OneVoteDecides
    <3> DEFINE u == c.user
    <3>2. /\ u \in Users /\ due[c.req] \in BOOLEAN /\ row \in Row
          /\ MayVote(row, u, due[c.req]) /\ Consistent(row) /\ Impartial(row)
      BY <1>1, <2>4
    <3> HIDE DEF u, row
    <3>3. /\ Voted(row, u) \in Row
          /\ Consistent(Voted(row, u)) /\ Impartial(Voted(row, u))
          /\ Voted(row, u).status =
                 IF Enough(row.approvals \cup {u}) THEN "approved" ELSE "pending"
          /\ Voted(row, u).approvals = row.approvals \cup {u}
          /\ Voted(row, u).rejections = row.rejections
      BY <3>2, VotedSound
    <3> QED
      BY <1>2, <3>1, <3>2, <3>3 DEF u
  <2>5. \/ Save(t, Lapsed(row))
        \/ MayVote(row, c.user, due[c.req]) /\ Save(t, Voted(row, c.user))
        \/ Save(t, Rejected(row, c.user))
        \/ Save(t, Escalated(row))
    BY DEF Decide
  <2> HIDE DEF row
  <2> QED
    BY <2>1, <2>2, <2>3, <2>4, <2>5, <1>3
<1>4. DEFINE d == [c EXCEPT !.pc = "save", !.row = new]
<1>5. call' = [call EXCEPT ![t] = d]
  BY <1>3 DEF Save
<1>6. d \in Call /\ d.row = new /\ d.req = c.req
  BY <1>1 DEF Call
<1>7. Fit(d.row, d.req)
  BY <1>3, <1>6 DEF Fit
<1> HIDE DEF d, c
<1> QED
  BY <1>1, <1>3, <1>5, <1>6, <1>7, CopyKeepsIInv

\* One step per action.
LEMMA NextIInv == IInv /\ [Next]_vars => IInv'
<1> SUFFICES ASSUME IInv, [Next]_vars PROVE IInv'
  OBVIOUS
<1>0. TypeOK /\ RowsSound /\ SystemWaitsForDeadline /\ CopiesSound
  BY DEF IInv
<1>1. ASSUME NEW r \in Requests, NEW u \in Users, Create(r, u)
      PROVE  IInv'
  <2>1. Fit(NewRequest(u), r)
    BY FreshSound DEF Fit, NewRequest
  <2> QED
    BY <1>0, <1>1, <2>1, StoreKeepsIInv DEF Create, TypeOK
<1>2. ASSUME NEW r \in Requests, PassDeadline(r)
      PROVE  IInv'
  BY <1>0, <1>2
     DEF PassDeadline, IInv, TypeOK, RowsSound, SystemWaitsForDeadline, CopiesSound,
         Idle, Call
<1>3. ASSUME NEW t \in Tasks, NEW op \in Ops, NEW r \in Requests, NEW u \in Users,
             Read(t, op, r, u)
      PROVE  IInv'
  <2> DEFINE c == [pc |-> "decide", op |-> op, req |-> r, user |-> u, row |-> rows[r]]
  <2>1. c \in Call /\ c.row = rows[r] /\ c.req = r /\ c.pc = "decide"
    BY <1>0 DEF Call, TypeOK
  <2>2. Fit(rows[r], r) /\ rows[r].status # "absent"
    BY <1>0, <1>3 DEF Fit, TypeOK, RowsSound, SystemWaitsForDeadline, Read
  <2>3. call' = [call EXCEPT ![t] = c] /\ UNCHANGED <<rows, due, listed>>
    BY <1>3 DEF Read
  <2> HIDE DEF c
  <2> QED
    BY <2>1, <2>2, <2>3, CopyKeepsIInv
<1>4. ASSUME NEW t \in Tasks, Decide(t)
      PROVE  IInv'
  BY <1>4, DecideIInv
<1>5. ASSUME NEW t \in Tasks, Decline(t) \/ UpdateFails(t)
      PROVE  IInv'
  <2>1. /\ call' = [call EXCEPT ![t] = Idle]
        /\ UNCHANGED <<rows, due, listed>>
    BY <1>5 DEF Decline, UpdateFails
  <2>2. TypeOK'
    BY <1>0, <2>1 DEF TypeOK
  <2>3. RowsSound' /\ SystemWaitsForDeadline'
    BY <1>0, <2>1 DEF RowsSound, SystemWaitsForDeadline
  <2>4. call'[t] = Idle /\ \A z \in Tasks \ {t} : call'[z] = call[z]
    BY <1>0, <2>1 DEF TypeOK
  <2>5. CopiesSound'
    BY <1>0, <2>1, <2>4 DEF CopiesSound, Idle
  <2> QED
    BY <2>2, <2>3, <2>5 DEF IInv
<1>6. ASSUME NEW t \in Tasks, Update(t)
      PROVE  IInv'
  <2>1. call[t] \in Call /\ Fit(call[t].row, call[t].req)
    BY <1>0, <1>6 DEF Update, TypeOK, CopiesSound, Fit, Idle, Call
  <2>2. call[t].req \in Requests
    BY <2>1 DEF Call
  <2> QED
    BY <1>0, <1>6, <2>1, <2>2, StoreKeepsIInv DEF Update, TypeOK
<1>7. ASSUME NEW s \in Sweepers, SweepList(s) PROVE IInv'
  <2>1. TypeOK'
    BY <1>0, <1>7, AbsentSound DEF SweepList, TypeOK
  <2>2. CopiesSound'
    BY <1>0, <1>7, AbsentSound
       DEF SweepList, Overdue, CopiesSound, TypeOK, RowsSound
  <2> QED
    BY <1>0, <1>7, <2>1, <2>2
       DEF SweepList, IInv, RowsSound, SystemWaitsForDeadline
<1>8. ASSUME NEW s \in Sweepers, NEW r \in Requests, SweepUpdate(s, r)
      PROVE  IInv'
  <2>1. /\ listed[s][r] \in Row /\ listed[s][r].status = "pending" /\ due[r]
        /\ Impartial(listed[s][r])
    BY <1>0, <1>8 DEF SweepUpdate, CopiesSound, TypeOK
  <2>2. Fit(TimedOut(listed[s][r]), r)
    BY <2>1, TimedOutSound DEF Fit
  <2>3. /\ listed' \in [Sweepers -> [Requests -> Row]]
        /\ \A z \in Sweepers, q \in Requests : listed'[z][q] \in {listed[z][q], Absent}
    BY <1>0, <1>8, AbsentSound DEF SweepUpdate, TypeOK
  <2> QED
    BY <1>0, <1>8, <2>2, <2>3, StoreKeepsIInv DEF SweepUpdate, TypeOK
<1>9. ASSUME NEW s \in Sweepers, SweepFails(s) PROVE IInv'
  BY <1>0, <1>9, AbsentSound
     DEF SweepFails, IInv, TypeOK, RowsSound, SystemWaitsForDeadline, CopiesSound
<1>10. CASE UNCHANGED vars
  BY <1>0, <1>10
     DEF vars, IInv, TypeOK, RowsSound, SystemWaitsForDeadline, CopiesSound
<1> QED
  BY <1>1, <1>2, <1>3, <1>4, <1>5, <1>6, <1>7, <1>8, <1>9, <1>10 DEF Next

\* The types.
THEOREM DataFlowTypeOK == Spec => []TypeOK
<1>1. IInv => TypeOK
  BY DEF IInv
<1> QED
  BY <1>1, InitIInv, NextIInv, PTL DEF Spec

\* No interleaving stores a row that no handler computed as a whole.
THEOREM DataFlowRowsSound == Spec => []RowsSound
<1>1. IInv => RowsSound
  BY DEF IInv
<1> QED
  BY <1>1, InitIInv, NextIInv, PTL DEF Spec

\* The system votes after the deadline only.
THEOREM DataFlowSystemWaits == Spec => []SystemWaitsForDeadline
<1>1. IInv => SystemWaitsForDeadline
  BY DEF IInv
<1> QED
  BY <1>1, InitIInv, NextIInv, PTL DEF Spec

\* With one approver, a decided request is never pending again.
THEOREM DataFlowNeverReopened == Spec => NeverReopened
<1> DEFINE Step == Required = 1 =>
                     \A r \in Requests :
                         rows[r].status \notin {"absent", "pending"} =>
                             rows'[r].status \notin {"absent", "pending"}
<1>1. ASSUME IInv, [Next]_vars, Required = 1, NEW q \in Requests,
             rows[q].status \notin {"absent", "pending"}
      PROVE  rows'[q].status \notin {"absent", "pending"}
  <2>0. TypeOK /\ CopiesSound
    BY <1>1 DEF IInv
  <2>1. ASSUME NEW r \in Requests, NEW u \in Users, Create(r, u)
        PROVE  rows'[q].status \notin {"absent", "pending"}
    BY <1>1, <2>0, <2>1 DEF Create, TypeOK
  <2>2. ASSUME NEW t \in Tasks, Update(t)
        PROVE  rows'[q].status \notin {"absent", "pending"}
    BY <1>1, <2>0, <2>2 DEF Update, TypeOK, CopiesSound
  <2>3. ASSUME NEW s \in Sweepers, NEW r \in Requests, SweepUpdate(s, r)
        PROVE  rows'[q].status \notin {"absent", "pending"}
    <3>1. /\ listed[s][r] \in Row /\ listed[s][r].status # "absent"
          /\ Impartial(listed[s][r])
      BY <2>0, <2>3 DEF SweepUpdate, TypeOK, CopiesSound
    <3>2. TimedOut(listed[s][r]).status \in {"expired", "approved"}
      BY <3>1, TimedOutSound
    <3> QED
      BY <1>1, <2>0, <2>3, <3>2 DEF SweepUpdate, TypeOK
  <2>4. CASE UNCHANGED rows
    BY <1>1, <2>4
  <2> QED
    BY <1>1, <2>1, <2>2, <2>3, <2>4
       DEF Next, vars, PassDeadline, Read, Decide, Decline, UpdateFails, SweepList,
           SweepFails
<1>2. IInv /\ [Next]_vars => [Step]_vars
  BY <1>1
<1> QED
  BY <1>2, InitIInv, NextIInv, PTL DEF Spec, NeverReopened

-----------------------------------------------------------------------------
\* A task is idle, or in a call on some request.
LEMMA InCall ==
  ASSUME TypeOK, NEW t \in Tasks
  PROVE  \/ call[t].pc = "idle"
         \/ /\ call[t] \in Call /\ call[t].pc \in {"decide", "save"}
            /\ call[t].req \in Requests /\ call[t].user \in Users
<1>1. call[t] = Idle \/ call[t] \in Call
  BY DEF TypeOK
<1>2. call[t] = Idle => call[t].pc = "idle"
  BY DEF Idle
<1>3. \A c \in Call : c.pc \in {"decide", "save"} /\ c.req \in Requests /\ c.user \in Users
  BY DEF Call
<1> QED
  BY <1>1, <1>2, <1>3

\* A call that is left alone, and its row with it, keeps a fresh copy.
LEMMA FreshStays ==
  ASSUME TypeOK, CopiesFresh, NEW t \in Tasks, call'[t] = call[t],
         call[t].pc # "idle" => rows'[call[t].req] = rows[call[t].req]
  PROVE  FreshCall(t)'
BY InCall DEF FreshCall, CopiesFresh

\* A task in no call has none.
LEMMA IdleFresh ==
  ASSUME NEW t \in Tasks, call'[t] = Idle
  PROVE  FreshCall(t)'
BY DEF FreshCall, Idle

\* Where handlers do not overlap, nobody's copy grows old.
LEMMA FreshStep ==
  ASSUME IInv, CopiesFresh, OneAtATime, [Next]_vars
  PROVE  CopiesFresh'
<1>0. TypeOK /\ RowsSound /\ CopiesSound
  BY DEF IInv
<1>1. ASSUME NEW r \in Requests, NEW u \in Users, Create(r, u) PROVE CopiesFresh'
  <2>1. \A t \in Tasks : call[t].pc # "idle" => call[t].req # r
    <3> SUFFICES ASSUME NEW t \in Tasks, call[t].pc # "idle" PROVE call[t].req # r
      OBVIOUS
    <3>1. call[t].row.status # "absent" /\ rows[r].status = "absent"
      BY <1>0, <1>1 DEF Create, CopiesSound
    <3>2. call[t].row = rows[call[t].req] \/ rows[call[t].req].status = "pending"
      BY <1>0, InCall DEF CopiesFresh, FreshCall
    <3> QED
      BY <3>1, <3>2
  <2>2. \A q \in Requests : q # r => rows'[q] = rows[q]
    BY <1>0, <1>1 DEF Create, TypeOK
  <2>3. UNCHANGED <<call, listed>>
    BY <1>1 DEF Create
  <2>4. \A t \in Tasks : FreshCall(t)'
    BY <1>0, <2>1, <2>2, <2>3, InCall, FreshStays
  <2>5. \A s \in Sweepers : listed[s][r] # Absent => listed[s][r].status = "absent"
    BY <1>1 DEF Create, CopiesFresh
  <2>6. \A s \in Sweepers : listed[s][r] = Absent
    BY <1>0, <2>5 DEF CopiesSound
  <2> QED
    BY <2>2, <2>3, <2>4, <2>6 DEF CopiesFresh
<1>2. ASSUME NEW t \in Tasks, NEW op \in Ops, NEW r \in Requests, NEW u \in Users,
             Read(t, op, r, u)
      PROVE  CopiesFresh'
  <2>1. FreshCall(t)'
    BY <1>0, <1>2 DEF Read, FreshCall, TypeOK
  <2>2. \A z \in Tasks : z # t => FreshCall(z)'
    BY <1>0, <1>2, FreshStays DEF Read, TypeOK
  <2> QED
    BY <1>2, <2>1, <2>2 DEF Read, CopiesFresh
<1>3. ASSUME NEW t \in Tasks, Decide(t) PROVE CopiesFresh'
  <2> DEFINE c == call[t]
  <2>0. c.pc = "decide" /\ c.row.status = "pending"
    BY <1>3 DEF Decide
  <2>1. c \in Call /\ c.row = rows[c.req]
    BY <1>0, <2>0, InCall DEF CopiesFresh, FreshCall
  <2>2. PICK new :
           /\ Save(t, new)
           /\ \/ new \in {Lapsed(c.row), Rejected(c.row, c.user), Escalated(c.row)}
              \/ new = Voted(c.row, c.user) /\ MayVote(c.row, c.user, FALSE)
    BY <1>3 DEF Decide, MayVote
  <2> DEFINE d == [c EXCEPT !.pc = "save", !.row = new]
  <2>3. call' = [call EXCEPT ![t] = d]
    BY <2>2 DEF Save
  <2>4. d.pc = "save" /\ d.row = new /\ d.req = c.req /\ d.user = c.user
    BY <2>1 DEF Call
  <2>5. call'[t] = d /\ \A z \in Tasks : z # t => call'[z] = call[z]
    BY <1>0, <2>3 DEF TypeOK
  <2>6. UNCHANGED <<rows, listed>>
    BY <1>3 DEF Decide
  <2>7. \A z \in Tasks : z # t => FreshCall(z)'
    BY <1>0, <2>5, <2>6, FreshStays
  <2>8. FreshCall(t)'
    <3> HIDE DEF d, c
    <3>1. /\ d.pc = "save" /\ rows[d.req].status = "pending"
          /\ \/ d.row \in {Lapsed(rows[d.req]), Rejected(rows[d.req], d.user),
                           Escalated(rows[d.req])}
             \/ d.row = Voted(rows[d.req], d.user) /\ MayVote(rows[d.req], d.user, FALSE)
      BY <2>0, <2>1, <2>2, <2>4
    <3> QED
      BY <2>5, <2>6, <3>1 DEF FreshCall
  <2> QED
    BY <2>6, <2>7, <2>8 DEF CopiesFresh
<1>4. ASSUME NEW t \in Tasks, Decline(t) \/ UpdateFails(t) PROVE CopiesFresh'
  <2>1. /\ call'[t] = Idle /\ \A z \in Tasks : z # t => call'[z] = call[z]
        /\ UNCHANGED <<rows, listed>>
    BY <1>0, <1>4 DEF Decline, UpdateFails, TypeOK
  <2> QED
    BY <1>0, <2>1, FreshStays, IdleFresh DEF CopiesFresh
<1>5. ASSUME NEW t \in Tasks, Update(t) PROVE CopiesFresh'
  <2>1. call[t].pc = "save" /\ call[t].req \in Requests
    BY <1>0, <1>5, InCall DEF Update
  <2>2. /\ \A z \in Tasks : z # t /\ call[z].pc # "idle" => call[z].req # call[t].req
        /\ \A s \in Sweepers : listed[s][call[t].req] = Absent
    BY <2>1 DEF OneAtATime
  <2>3. \A q \in Requests : q # call[t].req => rows'[q] = rows[q]
    BY <1>0, <1>5 DEF Update, TypeOK
  <2>4. call'[t] = Idle /\ \A z \in Tasks : z # t => call'[z] = call[z]
    BY <1>0, <1>5 DEF Update, TypeOK
  <2>5. \A z \in Tasks : FreshCall(z)'
    BY <1>0, <2>2, <2>3, <2>4, InCall, FreshStays, IdleFresh
  <2> QED
    BY <1>5, <2>2, <2>3, <2>5 DEF Update, CopiesFresh
<1>6. ASSUME NEW s \in Sweepers, SweepList(s) PROVE CopiesFresh'
  <2>1. \A t \in Tasks : FreshCall(t)'
    BY <1>0, <1>6, FreshStays DEF SweepList
  <2>2. \A z \in Sweepers, r \in Requests :
           listed'[z][r] \in {listed[z][r], rows[r], Absent}
    BY <1>0, <1>6 DEF SweepList, TypeOK
  <2> QED
    BY <1>6, <2>1, <2>2 DEF SweepList, CopiesFresh
<1>7. ASSUME NEW s \in Sweepers, NEW r \in Requests, SweepUpdate(s, r) PROVE CopiesFresh'
  <2>1. \A z \in Tasks : call[z].pc # "idle" => call[z].req # r
    BY <1>7 DEF SweepUpdate, OneAtATime
  <2>2. \A z \in Sweepers : z # s => listed[z][r] = Absent
    BY <1>7 DEF SweepUpdate, OneAtATime
  <2>3. /\ \A q \in Requests : q # r => rows'[q] = rows[q]
        /\ \A z \in Sweepers, q \in Requests :
               listed'[z][q] = IF z = s /\ q = r THEN Absent ELSE listed[z][q]
        /\ UNCHANGED call
    BY <1>0, <1>7 DEF SweepUpdate, TypeOK
  <2>4. \A z \in Tasks : FreshCall(z)'
    BY <1>0, <2>1, <2>3, InCall, FreshStays
  <2> QED
    BY <2>2, <2>3, <2>4 DEF CopiesFresh
<1>8. ASSUME NEW s \in Sweepers, SweepFails(s) PROVE CopiesFresh'
  <2>1. \A z \in Sweepers, q \in Requests : listed'[z][q] \in {listed[z][q], Absent}
    BY <1>0, <1>8 DEF SweepFails, TypeOK
  <2> QED
    BY <1>0, <1>8, <2>1, FreshStays DEF SweepFails, CopiesFresh
<1>9. CASE UNCHANGED <<rows, call, listed>>
  BY <1>9 DEF CopiesFresh, FreshCall
<1> QED
  BY <1>1, <1>2, <1>3, <1>4, <1>5, <1>6, <1>7, <1>8, <1>9 DEF Next, vars, PassDeadline

\* Copies stay fresh as long as handlers do not overlap.
LEMMA FreshHolds == Spec /\ []OneAtATime => [](IInv /\ CopiesFresh)
<1>1. ASSUME Init PROVE CopiesFresh
  <2>1. \A t \in Tasks : call[t].pc = "idle"
    BY <1>1 DEF Init, Idle
  <2>2. \A s \in Sweepers, r \in Requests : listed[s][r] = Absent
    BY <1>1 DEF Init
  <2> QED
    BY <2>1, <2>2 DEF CopiesFresh, FreshCall
<1> QED
  BY <1>1, InitIInv, NextIInv, FreshStep, PTL DEF Spec

\* What is written to a row where handlers do not overlap.
LEMMA FreshWrite ==
  ASSUME IInv, CopiesFresh, NEW t \in Tasks, Update(t)
  PROVE  LET r == call[t].req
             row == rows[r]
             u == call[t].user
         IN  /\ r \in Requests /\ u \in Users /\ row \in Row /\ row.status = "pending"
             /\ Consistent(row) /\ Impartial(row)
             /\ \/ \E new \in {Lapsed(row), Rejected(row, u), Escalated(row)} :
                       rows' = [rows EXCEPT ![r] = new]
                \/ MayVote(row, u, FALSE) /\ rows' = [rows EXCEPT ![r] = Voted(row, u)]
<1>1. call[t].pc = "save" /\ call[t].req \in Requests /\ call[t].user \in Users
  BY InCall DEF Update, IInv
<1> QED
  BY <1>1 DEF Update, CopiesFresh, FreshCall, IInv, TypeOK, RowsSound

\* Overlap is the only way to lose a decision: as long as at most one handler, or
\* one sweep, works on a request at a time, nothing is written over a decided row,
\* whatever the workflow does on timeout.
THEOREM DataFlowDecidedIsFinal == Spec /\ []OneAtATime => DecidedIsFinal
<1> DEFINE Final == \A r \in Requests :
                        rows[r].status \notin {"absent", "pending"} => rows'[r] = rows[r]
<1>1. ASSUME IInv, CopiesFresh, [Next]_vars PROVE [Final]_vars
  <2>0. TypeOK
    BY <1>1 DEF IInv
  <2>1. ASSUME NEW r \in Requests, NEW new, rows' = [rows EXCEPT ![r] = new],
               rows[r].status \in {"absent", "pending"}
        PROVE  Final
    BY <2>0, <2>1 DEF TypeOK
  <2>2. ASSUME NEW r \in Requests, NEW u \in Users, Create(r, u) PROVE Final
    BY <2>1, <2>2 DEF Create
  <2>3. ASSUME NEW t \in Tasks, Update(t) PROVE Final
    BY <1>1, <2>1, <2>3, FreshWrite
  <2>4. ASSUME NEW s \in Sweepers, NEW r \in Requests, SweepUpdate(s, r) PROVE Final
    BY <1>1, <2>1, <2>4 DEF SweepUpdate, CopiesFresh, IInv, CopiesSound
  <2>5. CASE UNCHANGED rows
    BY <2>5
  <2> QED
    BY <1>1, <2>2, <2>3, <2>4, <2>5
       DEF Next, vars, PassDeadline, Read, Decide, Decline, UpdateFails, SweepList,
           SweepFails
<1> QED
  BY <1>1, FreshHolds, PTL DEF Spec, DecidedIsFinal

\* One step of the manager is one of the lifecycle, or not seen there.
LEMMA FreshLifecycle ==
  ASSUME IInv, CopiesFresh, [Next]_vars, ~ApprovesOnTimeout
  PROVE  [Lifecycle!Next]_(Lifecycle!lvars)
<1>0. TypeOK /\ RowsSound /\ CopiesSound /\ rows \in [Requests -> Row]
  BY DEF IInv, TypeOK
<1>1. ASSUME NEW r \in Requests, NEW u \in Users, Create(r, u)
      PROVE  Lifecycle!Open(r, u)
  BY <1>0, <1>1, OpenStep DEF Create, RowsSound, Consistent
<1>2. ASSUME NEW t \in Tasks, Update(t)
      PROVE  \E r \in Requests :
                Lifecycle!Close(r) \/ \E u \in Users : Lifecycle!Vote(r, u)
  <2> DEFINE r == call[t].req
             row == rows[r]
             u == call[t].user
  <2>1. /\ r \in Requests /\ u \in Users /\ row \in Row /\ row.status = "pending"
        /\ Consistent(row) /\ Impartial(row)
        /\ \/ \E new \in {Lapsed(row), Rejected(row, u), Escalated(row)} :
                  rows' = [rows EXCEPT ![r] = new]
           \/ MayVote(row, u, FALSE) /\ rows' = [rows EXCEPT ![r] = Voted(row, u)]
    BY <1>2, FreshWrite
  <2> HIDE DEF r, u
  <2>2. \A new \in {Lapsed(row), Rejected(row, u), Escalated(row)} :
           /\ new.status \in {"rejected", "escalated", "expired"}
           /\ new.requester = row.requester /\ new.approvals = row.approvals
    BY <2>1, ClosedSound
  <2>3. ASSUME NEW new \in {Lapsed(row), Rejected(row, u), Escalated(row)},
               rows' = [rows EXCEPT ![r] = new]
        PROVE  Lifecycle!Close(r)
    BY <1>0, <2>1, <2>2, <2>3, CloseStep
  <2>4. ASSUME MayVote(row, u, FALSE), rows' = [rows EXCEPT ![r] = Voted(row, u)]
        PROVE  Lifecycle!Vote(r, u)
    BY <1>0, <2>1, <2>4, VoteStep
  <2> QED
    BY <2>1, <2>3, <2>4
<1>3. ASSUME NEW s \in Sweepers, NEW r \in Requests, SweepUpdate(s, r)
      PROVE  Lifecycle!Close(r)
  <2>1. /\ rows[r].status = "pending" /\ rows[r] \in Row /\ Impartial(rows[r])
        /\ rows' = [rows EXCEPT ![r] = TimedOut(rows[r])]
    <3>1. listed[s][r] = rows[r] /\ listed[s][r].status = "pending"
      BY <1>0, <1>3 DEF SweepUpdate, CopiesFresh, CopiesSound
    <3> QED
      BY <1>0, <1>3, <3>1 DEF SweepUpdate, RowsSound
  <2>2. /\ TimedOut(rows[r]).status = "expired"
        /\ TimedOut(rows[r]).requester = rows[r].requester
        /\ TimedOut(rows[r]).approvals = rows[r].approvals
    BY <2>1, TimedOutSound
  <2> QED
    BY <1>0, <2>1, <2>2, CloseStep
<1>4. CASE UNCHANGED rows
  BY <1>4 DEF Lifecycle!lvars, outcomeBar, ownerBar, votesBar
<1> QED
  BY <1>1, <1>2, <1>3, <1>4
     DEF Next, vars, PassDeadline, Read, Decide, Decline, UpdateFails, SweepList,
         SweepFails, Lifecycle!Next

\* And it is the only way to break the promise: without overlap, and unless it
\* approves on timeout, the manager over the database implements the lifecycle as
\* the one over the in-memory store does.
THEOREM DataFlowKeepsLifecycle ==
  ASSUME ~ApprovesOnTimeout
  PROVE  Spec /\ []OneAtATime => KeepsLifecycle
<1>1. IInv /\ CopiesFresh /\ [Next]_vars => [Lifecycle!Next]_(Lifecycle!lvars)
  BY FreshLifecycle
<1>2. Init => Lifecycle!Init
  BY LifecycleInit DEF Init
<1> QED
  BY <1>1, <1>2, FreshHolds, PTL DEF Spec, KeepsLifecycle, Lifecycle!Spec
=============================================================================

-------------------------- MODULE ApprovalDataFlow ---------------------------
(***************************************************************************)
(* ExternalAgentApprovalManager over DataFlowApprovalStore.                *)
(*                                                                         *)
(* get returns a copy built from the database row, save awaits a read (is  *)
(* there a row?) and then an update of status, approvals and rejections    *)
(* with whatever the copy holds.  Nothing locks the row or compares it     *)
(* with what was read, so handlers of other requests to the API (tasks     *)
(* here) read and write between the get and the update of one handler.     *)
(***************************************************************************)
EXTENDS ApprovalRows

CONSTANTS
    Tasks,        \* handlers in flight: approve, reject or escalate calls
    Sweepers      \* runs of process_expired_requests; nothing keeps them apart

\* rows[r] is the row of the ApprovalRequest table.
VARIABLES
    due,          \* due[r]: the clock is past expires_at of r
    call,         \* call[t]: the handler that task t runs
    listed        \* listed[s][r]: the copy of r that sweep s holds, or Absent

vars == <<rows, due, call, listed>>

Ops == {"approve", "reject", "escalate"}

\* A task between two calls, or in one: its copy of the row is row.
Idle == [pc |-> "idle"]
Call == [pc: {"decide", "save"}, op: Ops, req: Requests, user: Users, row: Row]

TypeOK ==
    /\ rows \in [Requests -> Row]
    /\ due \in [Requests -> BOOLEAN]
    /\ call \in [Tasks -> {Idle} \cup Call]
    /\ listed \in [Sweepers -> [Requests -> Row]]

Init ==
    /\ rows = [r \in Requests |-> Absent]
    /\ due = [r \in Requests |-> FALSE]
    /\ call = [t \in Tasks |-> Idle]
    /\ listed = [s \in Sweepers |-> [r \in Requests |-> Absent]]

-----------------------------------------------------------------------------
\* create_approval_request: the id is new, so save creates the row.
Create(r, u) ==
    /\ rows[r].status = "absent"
    /\ rows' = [rows EXCEPT ![r] = NewRequest(u)]
    /\ UNCHANGED <<due, call, listed>>

PassDeadline(r) ==
    /\ rows[r].status # "absent"
    /\ ~due[r]
    /\ due' = [due EXCEPT ![r] = TRUE]
    /\ UNCHANGED <<rows, call, listed>>

\* The handler's get.  One that finds no row, or whose read fails, ends there.
Read(t, op, r, u) ==
    /\ call[t].pc = "idle"
    /\ rows[r].status # "absent"
    /\ call' = [call EXCEPT ![t] =
           [pc |-> "decide", op |-> op, req |-> r, user |-> u, row |-> rows[r]]]
    /\ UNCHANGED <<rows, due, listed>>

Save(t, row) == call' = [call EXCEPT ![t].pc = "save", ![t].row = row]

\* Between get and save: the checks and the change, on the copy.
Decide(t) ==
    LET c == call[t] IN
    /\ c.pc = "decide"
    /\ c.row.status = "pending"
    /\ \/ c.op = "approve" /\ due[c.req] /\ Save(t, Lapsed(c.row))
       \/ /\ c.op = "approve"
          /\ MayVote(c.row, c.user, due[c.req])
          /\ Save(t, Voted(c.row, c.user))
       \/ c.op = "reject" /\ Save(t, Rejected(c.row, c.user))
       \/ c.op = "escalate" /\ Save(t, Escalated(c.row))
    /\ UNCHANGED <<rows, due, listed>>

\* The handler ends without a save: the request is decided (AlreadyDecidedError,
\* or escalate's early return), it is the caller's own, or he approved before.
Decline(t) ==
    LET c == call[t] IN
    /\ c.pc = "decide"
    /\ \/ c.row.status # "pending"
       \/ c.op = "approve" /\ ~due[c.req] /\ ~MayVote(c.row, c.user, FALSE)
    /\ call' = [call EXCEPT ![t] = Idle]
    /\ UNCHANGED <<rows, due, listed>>

\* Mutant: the update writes the status but not the list of approvals.
UpdateStatusOnly(t) ==
    /\ call[t].pc = "save"
    /\ rows' = [rows EXCEPT ![call[t].req].status = call[t].row.status]
    /\ call' = [call EXCEPT ![t] = Idle]
    /\ UNCHANGED <<due, listed>>

\* The update node: all three columns of the row, from the copy.
Update(t) ==
    /\ call[t].pc = "save"
    /\ rows' = [rows EXCEPT ![call[t].req] = call[t].row]
    /\ call' = [call EXCEPT ![t] = Idle]
    /\ UNCHANGED <<due, listed>>

\* The update node, or the read before it, fails: save raises, the row stays.
UpdateFails(t) ==
    /\ call[t].pc = "save"
    /\ call' = [call EXCEPT ![t] = Idle]
    /\ UNCHANGED <<rows, due, listed>>

-----------------------------------------------------------------------------
\* process_expired_requests: one list node, then one save for each copy.
\* Mutant: the list is not filtered by the deadline.
AllPending == {r \in Requests : rows[r].status = "pending"}

Overdue == {r \in Requests : rows[r].status = "pending" /\ due[r]}

SweepIdle(s) == \A r \in Requests : listed[s][r] = Absent

SweepList(s) ==
    /\ SweepIdle(s)
    /\ Overdue # {}
    /\ listed' = [listed EXCEPT ![s] =
           [r \in Requests |-> IF r \in Overdue THEN rows[r] ELSE Absent]]
    /\ UNCHANGED <<rows, due, call>>

SweepUpdate(s, r) ==
    /\ listed[s][r] # Absent
    /\ rows' = [rows EXCEPT ![r] = TimedOut(listed[s][r])]
    /\ listed' = [listed EXCEPT ![s][r] = Absent]
    /\ UNCHANGED <<due, call>>

\* A save that raises ends the whole sweep: the loop does not catch it.
SweepFails(s) ==
    /\ ~SweepIdle(s)
    /\ listed' = [listed EXCEPT ![s] = [r \in Requests |-> Absent]]
    /\ UNCHANGED <<rows, due, call>>

Next ==
    \/ \E r \in Requests :
           \/ \E u \in Users : Create(r, u)
           \/ PassDeadline(r)
    \/ \E t \in Tasks :
           \/ \E op \in Ops, r \in Requests, u \in Users : Read(t, op, r, u)
           \/ Decide(t)
           \/ Decline(t)
           \/ Update(t)
           \/ UpdateFails(t)
    \/ \E s \in Sweepers :
           \/ SweepList(s)
           \/ \E r \in Requests : SweepUpdate(s, r)
           \/ SweepFails(s)

Spec == Init /\ [][Next]_vars

-----------------------------------------------------------------------------
\* However reads and updates interleave, a stored row is one that some handler
\* computed as a whole: its status is the one its decisions call for, and no
\* requester counts among his own approvers.  Votes may get lost; they are
\* never made up.
RowsSound == \A r \in Requests : Consistent(rows[r]) /\ Impartial(rows[r])

\* A vote of the system is there only once the deadline has passed, in the row
\* and in every copy that an update may still write over it.
SystemWaitsForDeadline ==
    \A r \in Requests :
        System \in rows[r].approvals \cup rows[r].rejections => due[r]

\* Where one approver is enough (the default) every handler that saves decides,
\* so a stale update may replace one decision by another, but never turns a
\* decided request back into a pending one.
NeverReopened ==
    [][Required = 1 =>
           \A r \in Requests :
               rows[r].status \notin {"absent", "pending"} =>
                   rows'[r].status \notin {"absent", "pending"}]_vars

\* "A single rejection is sufficient to reject the entire request"
\* (approval_manager.py, reject): a rejected request is not approved or
\* opened for votes again.
RejectionIsFinal ==
    [][\A r \in Requests :
           rows[r].status = "rejected" =>
               rows'[r].status \notin {"pending", "approved"}]_vars

\* At most one party works on a request: one handler, or one sweep.
OneAtATime ==
    \A r \in Requests :
        LET At(t) == call[t].pc # "idle" /\ call[t].req = r
            Holds(s) == listed[s][r] # Absent
        IN
        /\ \A t1, t2 \in Tasks : At(t1) /\ At(t2) => t1 = t2
        /\ \A s1, s2 \in Sweepers : Holds(s1) /\ Holds(s2) => s1 = s2
        /\ \A s \in Sweepers : Holds(s) => \A t \in Tasks : ~At(t)

\* What is decided is left as it is, to the list of those who decided it.
DecidedIsFinal ==
    [][\A r \in Requests :
           rows[r].status \notin {"absent", "pending"} => rows'[r] = rows[r]]_vars

\* The strengthening of RowsSound and SystemWaitsForDeadline: the copies on
\* their way to the database are as sound as the rows.
CopiesSound ==
    /\ \A t \in Tasks :
           LET c == call[t] IN
           c.pc # "idle" =>
               /\ c.row.status # "absent"
               /\ Consistent(c.row) /\ Impartial(c.row)
               /\ System \in c.row.approvals \cup c.row.rejections => due[c.req]
               /\ Required = 1 /\ c.pc = "save" => c.row.status # "pending"
    /\ \A s \in Sweepers, r \in Requests : LET row == listed[s][r] IN
           /\ Consistent(row) /\ Impartial(row)
           /\ row # Absent => row.status = "pending" /\ due[r]

\* Where handlers do not overlap, a copy is what the row still holds, and what is
\* on its way to the database is what ApprovalLifecycle lets become of it.
FreshCall(t) ==
    LET c == call[t]
        row == rows[c.req]
    IN
    /\ c.pc = "decide" => c.row = row
    /\ c.pc = "save" =>
           /\ row.status = "pending"
           /\ \/ c.row \in {Lapsed(row), Rejected(row, c.user), Escalated(row)}
              \/ c.row = Voted(row, c.user) /\ MayVote(row, c.user, FALSE)

CopiesFresh ==
    /\ \A t \in Tasks : FreshCall(t)
    /\ \A s \in Sweepers, r \in Requests :
           listed[s][r] # Absent => listed[s][r] = rows[r]
=============================================================================

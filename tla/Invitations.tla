----------------------------- MODULE Invitations -----------------------------
(***************************************************************************)
(* InvitationService (invitation_service.py) and the handlers of           *)
(* api/invitations.py: the invitations sent to one address, which become   *)
(* users when they are accepted.                                           *)
(*                                                                         *)
(* Accepting reads the row, writes the row and creates the user in three   *)
(* awaits; cleaning up lists the rows and writes them one by one; neither  *)
(* looks again.  A write is applied or raises, which ends the call.  Roles *)
(* and organizations, which never change, are left out.                    *)
(***************************************************************************)
CONSTANTS
    Ids,          \* the invitations
    Accepts,      \* the calls of accept_invitation
    Sweeps,       \* the calls of cleanup_expired_invitations
    None          \* no invitation

VARIABLES
    row,          \* row[i]: the invitation, or what is known of it
    overdue,      \* overdue[i]: its time has passed
    accept,       \* accept[a]: a call, the invitation it found, and its user
    todo,         \* todo[s]: the pending invitations a sweep listed, not done yet
    met           \* pairs of accepts that were at an invitation at once

vars == <<row, overdue, accept, todo, met>>

\* Inviting is to be created: the address had no user when that was asked.
Row == {"none", "inviting", "pending", "accepted", "expired", "deleted"}

Accept == [pc: {"unborn", "accepting", "expiring", "creating", "done", "dead"},
           of: Ids \cup {None}, user: BOOLEAN]

TypeOK ==
    /\ row \in [Ids -> Row]
    /\ overdue \in [Ids -> BOOLEAN]
    /\ accept \in [Accepts -> Accept]
    /\ todo \in [Sweeps -> SUBSET Ids]
    /\ met \in SUBSET (Accepts \X Accepts)

Init ==
    /\ row = [i \in Ids |-> "none"]
    /\ overdue = [i \in Ids |-> FALSE]
    /\ accept = [a \in Accepts |-> [pc |-> "unborn", of |-> None, user |-> FALSE]]
    /\ todo = [s \in Sweeps |-> {}]
    /\ met = {}

Present(i) == row[i] \in {"pending", "accepted", "expired"}

\* An update of a row that is gone changes nothing.
Updated(i, status) == row' = [row EXCEPT ![i] = IF Present(i) THEN status ELSE @]

Go(a, pc) == accept' = [accept EXCEPT ![a].pc = pc]

-----------------------------------------------------------------------------
\* create_invitation goes on only if the address has no user ...
Invite(i) ==
    /\ row[i] = "none"
    /\ \A a \in Accepts : ~accept[a].user
    /\ row' = [row EXCEPT ![i] = "inviting"]
    /\ UNCHANGED <<overdue, accept, todo, met>>

\* ... and makes the row, or raises.
Created(i) ==
    /\ row[i] = "inviting"
    /\ \E status \in {"pending", "deleted"} : row' = [row EXCEPT ![i] = status]
    /\ UNCHANGED <<overdue, accept, todo, met>>

\* expires_at comes.
Lapse(i) ==
    /\ Present(i) /\ ~overdue[i]
    /\ overdue' = [overdue EXCEPT ![i] = TRUE]
    /\ UNCHANGED <<row, accept, todo, met>>

\* Others that have found i and not written it yet.
AtInvitation(i) == {b \in Accepts : accept[b].pc = "accepting" /\ accept[b].of = i}

\* Mutant: the status of the invitation is not looked at.
FoundAny(a, i) ==
    /\ accept[a].pc = "unborn" /\ Present(i)
    /\ accept' = [accept EXCEPT ![a].of = i,
           ![a].pc = IF overdue[i] THEN "expiring" ELSE "accepting"]
    /\ met' = met \cup ({a} \X AtInvitation(i)) \cup (AtInvitation(i) \X {a})
    /\ UNCHANGED <<row, overdue, todo>>

\* accept_invitation finds the row by its token.  Whatever its status, it is to
\* expire when it is past its time; else only a pending one is accepted.
Found(a, i) ==
    /\ accept[a].pc = "unborn" /\ Present(i)
    /\ accept' = [accept EXCEPT ![a].of = i,
           ![a].pc = IF overdue[i] THEN "expiring"
                     ELSE IF row[i] = "pending" THEN "accepting" ELSE "done"]
    /\ met' = met \cup ({a} \X AtInvitation(i)) \cup (AtInvitation(i) \X {a})
    /\ UNCHANGED <<row, overdue, todo>>

\* Mutant: a status of another name.
ExpiredLapsed(a) ==
    /\ accept[a].pc = "expiring"
    /\ Updated(accept[a].of, "lapsed")
    /\ Go(a, "done")
    /\ UNCHANGED <<overdue, todo, met>>

Expired(a) ==
    /\ accept[a].pc = "expiring"
    /\ Updated(accept[a].of, "expired")
    /\ Go(a, "done")
    /\ UNCHANGED <<overdue, todo, met>>

\* Mutant: the user is created without a write to the row.
AcceptedUnwritten(a) ==
    /\ accept[a].pc = "accepting"
    /\ Go(a, "creating")
    /\ UNCHANGED <<row, overdue, todo, met>>

Accepted(a) ==
    /\ accept[a].pc = "accepting"
    /\ Updated(accept[a].of, "accepted")
    /\ Go(a, "creating")
    /\ UNCHANGED <<overdue, todo, met>>

\* create_user; it does not look for a user of that address.
UserMade(a) ==
    /\ accept[a].pc = "creating"
    /\ accept' = [accept EXCEPT ![a].pc = "done", ![a].user = TRUE]
    /\ UNCHANGED <<row, overdue, todo, met>>

\* A write of accept raises, or its process ends.
AcceptRaises(a) ==
    /\ accept[a].pc \in {"accepting", "expiring", "creating"}
    /\ Go(a, "dead")
    /\ UNCHANGED <<row, overdue, todo, met>>

\* cancel_invitation deletes the row, whatever its status.
Cancel(i) ==
    /\ Present(i)
    /\ row' = [row EXCEPT ![i] = "deleted"]
    /\ UNCHANGED <<overdue, accept, todo, met>>

-----------------------------------------------------------------------------
\* cleanup_expired_invitations lists the pending rows ...
SweepList(s) ==
    /\ todo[s] = {}
    /\ todo' = [todo EXCEPT ![s] = {i \in Ids : row[i] = "pending"}]
    /\ UNCHANGED <<row, overdue, accept, met>>

\* ... and writes those that are past their time by then.
SweepOne(s, i) ==
    /\ i \in todo[s]
    /\ IF overdue[i] THEN Updated(i, "expired") ELSE UNCHANGED row
    /\ todo' = [todo EXCEPT ![s] = @ \ {i}]
    /\ UNCHANGED <<overdue, accept, met>>

SweepRaises(s) ==
    /\ todo[s] # {}
    /\ todo' = [todo EXCEPT ![s] = {}]
    /\ UNCHANGED <<row, overdue, accept, met>>

Next ==
    \/ \E i \in Ids :
           \/ Invite(i) \/ Created(i) \/ Lapse(i) \/ Cancel(i)
           \/ \E a \in Accepts : Found(a, i)
           \/ \E s \in Sweeps : SweepOne(s, i)
    \/ \E a \in Accepts : Expired(a) \/ Accepted(a) \/ UserMade(a) \/ AcceptRaises(a)
    \/ \E s \in Sweeps : SweepList(s) \/ SweepRaises(s)

Spec == Init /\ [][Next]_vars

-----------------------------------------------------------------------------
\* An invitation makes two users only if two accepts had both found it and not
\* yet written it: whoever comes later is refused, though the row may have
\* expired or been cancelled in the meantime.
UsedOnce ==
    \A a, b \in Accepts :
        a # b /\ accept[a].user /\ accept[b].user /\ accept[a].of = accept[b].of =>
            <<a, b>> \in met

\* The user of an invitation can be told from its row as long as its time lasts:
\* the row says accepted or has been deleted, and only the lapse of its time
\* makes it expired; and where it says accepted, there is an accept that made
\* the user, is about to, or failed to.
AcceptanceOnRecord ==
    /\ \A a \in Accepts : accept[a].user =>
           \/ row[accept[a].of] \in {"accepted", "deleted"}
           \/ row[accept[a].of] = "expired" /\ overdue[accept[a].of]
    /\ \A i \in Ids : row[i] = "accepted" =>
           \E a \in Accepts :
               accept[a].of = i /\ (accept[a].user \/ accept[a].pc \in {"creating", "dead"})
=============================================================================

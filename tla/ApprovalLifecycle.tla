-------------------------- MODULE ApprovalLifecycle --------------------------
(***************************************************************************)
(* What an approval workflow promises, whatever store it runs over: a      *)
(* request is opened once; people other than its owner vote for it; the    *)
(* vote that completes the quorum grants it, any time before that it may   *)
(* be closed; and a request that is granted or closed stays so.            *)
(***************************************************************************)
CONSTANTS
    Requests, Users,
    AllowSelf,     \* may the owner of a request vote for it?
    Nobody,        \* the owner of a request that was not opened yet
    Quorum(_)      \* is this set of voters enough to grant a request?

VARIABLES
    outcome,   \* outcome[r]: where the request stands
    owner,     \* owner[r]: who opened it
    votes      \* votes[r]: who voted for it

lvars == <<outcome, owner, votes>>

Init ==
    /\ outcome = [r \in Requests |-> "none"]
    /\ owner = [r \in Requests |-> Nobody]
    /\ votes = [r \in Requests |-> {}]

Open(r, u) ==
    /\ outcome[r] = "none"
    /\ outcome' = [outcome EXCEPT ![r] = "open"]
    /\ owner' = [owner EXCEPT ![r] = u]
    /\ UNCHANGED votes

Vote(r, u) ==
    /\ outcome[r] = "open"
    /\ AllowSelf \/ owner[r] # u
    /\ u \notin votes[r]
    /\ votes' = [votes EXCEPT ![r] = @ \cup {u}]
    /\ outcome' = [outcome EXCEPT
           ![r] = IF Quorum(votes[r] \cup {u}) THEN "granted" ELSE "open"]
    /\ UNCHANGED owner

Close(r) ==
    /\ outcome[r] = "open"
    /\ outcome' = [outcome EXCEPT ![r] = "closed"]
    /\ UNCHANGED <<owner, votes>>

Next ==
    \E r \in Requests :
        \/ \E u \in Users : Open(r, u) \/ Vote(r, u)
        \/ Close(r)

Spec == Init /\ [][Next]_lvars
-----------------------------------------------------------------------------
(* Properties                                                              *)

\* What was granted has its quorum, and the owner is not in it unless he may be.
GrantedByQuorum == \A r \in Requests :
    /\ outcome[r] = "granted" => Quorum(votes[r])
    /\ outcome[r] # "none" => AllowSelf \/ owner[r] \notin votes[r]

\* Granted or closed, a request stays so, with the votes and the owner it has.
DecidedStays ==
    [][\A r \in Requests : outcome[r] \in {"granted", "closed"} =>
           /\ outcome'[r] = outcome[r]
           /\ votes'[r] = votes[r]
           /\ owner'[r] = owner[r]]_lvars
=============================================================================

----------------------------- MODULE MCGovernance -----------------------------
(* The two parts of the governance service that keep what they know in       *)
(* memory, budgets and approvals.  They share no state, so a behaviour runs  *)
(* one of them; which one is chosen at the start.                            *)
EXTENDS AgentInvocation, TLC

CONSTANTS
    Requests, Users, Sweepers, System,
    Required, AllowSelf, AutoReject, AutoApprove

VARIABLES
    rows, due, todo, told,
    part

Memory == INSTANCE ApprovalManager

memoryvars == <<rows, due, todo, told>>

allvars == <<vars, memoryvars, part>>

GovernanceInit ==
    /\ Init /\ Memory!Init
    /\ part \in {"budgets", "approvals"}

GovernanceNext ==
    /\ \/ part = "budgets" /\ Next /\ UNCHANGED memoryvars
       \/ part = "approvals" /\ Memory!Next /\ UNCHANGED vars
    /\ UNCHANGED part

GovernanceSpec == GovernanceInit /\ [][GovernanceNext]_allvars

Symmetry == Permutations(Tasks)
-----------------------------------------------------------------------------
\* The types of both.
GovernanceTypeOK == TypeOK /\ Memory!TypeOK

\* The properties of the approvals, under names a configuration can use; they are
\* stated in the modules ApprovalManager and ApprovalRows.
RowsSound == Memory!RowsSound

ToldTheTruth == Memory!ToldTheTruth

KeepsLifecycle == Memory!KeepsLifecycle
=============================================================================

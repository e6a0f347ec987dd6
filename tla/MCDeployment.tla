---------------------------- MODULE MCDeployment -----------------------------
(* One running deployment, calls on it and on what they make, and a promotion. *)
(* The deployments that are made get their ids in one order: which id is       *)
(* drawn makes no difference, and symmetry would not be sound for liveness.    *)
EXTENDS PromotedDeployment

FirstId == CHOOSE d \in Deployments \ Running : TRUE

InOrder ==
    (\E d \in Deployments \ Running : row'[d].status # "none") => row'[FirstId].status # "none"

MCSystemSpec ==
    /\ SystemInit
    /\ [][SystemNext /\ InOrder]_systemVars
    /\ \A c \in Calls : WF_systemVars(Serve(c))
=============================================================================

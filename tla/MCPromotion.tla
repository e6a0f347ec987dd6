---------------------------- MODULE MCPromotion -----------------------------
(* One promotion of a running deployment, and a request of each kind on it.  *)
(* A rejection has nothing to do with what others make and stop meanwhile,   *)
(* so that a behaviour has either the one or the others.                     *)
EXTENDS Promotion, TLC

VARIABLE side

MCInit ==
    /\ PromotionInit
    /\ side \in {"rejections", "others"}

MCNext ==
    /\ PromotionNext
    /\ side = "rejections" =>
           /\ \A c \in Makers \ Requests : run'[c].pc = "idle"
           /\ \A d \in Stoppable : status'[d] # "stopped"
    /\ side = "others" => \A q \in Rejects : request'[q].pc = "idle"
    /\ UNCHANGED side

MCSpec == MCInit /\ [][MCNext]_<<allVars, side>>

Symmetry == Permutations(Deployments \ Running)
=============================================================================

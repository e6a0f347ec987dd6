-------------------------- MODULE PromotedDeployment --------------------------
(***************************************************************************)
(* Promotions over the deployment service as it is coded: what Promotion   *)
(* takes from DeploymentPromise, here Deployment does.                     *)
(*                                                                         *)
(* A request that executes a promotion awaits one call of deploy, which    *)
(* has its name: the call goes on only while the request waits for it, and *)
(* both are one coroutine, so that what ends the one ends the other.       *)
(* Other calls of deploy, stop and redeploy come from the deployments API. *)
(***************************************************************************)
EXTENDS Deployment

CONSTANTS
    Promotions,     \* as in Promotion
    Creates,
    Approves,
    Rejects,
    Executes

VARIABLES
    promotion,
    request

Promoting == INSTANCE Promotion WITH
    Stoppable <- Deployments, status <- SeenStatus, run <- SeenRun

Requests == Promoting!Requests

ASSUME CompositionAssumption ==
    /\ None \notin Promotions
    /\ Promoting!Executors \subseteq Deploys
    /\ Rejects \cap Calls = {}
    /\ Creates \cap (Approves \cup Rejects \cup Executes) = {}
    /\ Approves \cap (Rejects \cup Executes) = {}
    /\ Rejects \cap Executes = {}

promotionVars == <<promotion, request>>
systemVars == <<vars, promotionVars>>

SystemInit == Init /\ Promoting!PromotionInit
-----------------------------------------------------------------------------
\* A request of the promotions API comes in ...
Arrive(q) ==
    /\ UNCHANGED vars
    /\ IF q \in Creates THEN Promoting!Create(q)
                        ELSE \E p \in Promotions : Promoting!Begin(q, p)

\* ... and goes on with what it does itself.
Manage(q) == UNCHANGED vars /\ Promoting!Manage(q)

\* The call is not one of a request, or that request waits for it.
Awaited(c) == c \in Requests => request[c].pc = "deploy"

\* A call goes on.
Serve(c) == Awaited(c) /\ Proceed(c) /\ UNCHANGED promotionVars

\* A call of the deployments API, or of a request that has come to it, begins.
Enter(c) ==
    /\ Awaited(c)
    /\ \/ c \in Deploys /\ BeginDeploy(c)
       \/ c \in Stops /\ \E d \in Deployments : BeginStop(c, d)
       \/ c \in Redeploys /\ \E d \in Deployments : BeginRedeploy(c, d)
    /\ UNCHANGED promotionVars

\* A call of the deployments API is cut off.
LoseCall(c) == c \notin Requests /\ Lose(c) /\ UNCHANGED promotionVars

\* A request is cut off, and with it the call of deploy that it waits for.
CutRequest(q) ==
    /\ IF q \in Calls /\ call[q].pc \notin {"idle", "done", "raised"}
         THEN Lose(q)
         ELSE UNCHANGED vars
    /\ Promoting!Cut(q)

SystemNext ==
    \/ \E q \in Requests : Arrive(q) \/ Manage(q) \/ CutRequest(q)
    \/ \E c \in Calls : Enter(c) \/ Serve(c) \/ LoseCall(c)

SystemSpec == SystemInit /\ [][SystemNext]_systemVars

\* As for the deployments: an await that is over is taken up.
FairSystemSpec == SystemSpec /\ \A c \in Calls : WF_systemVars(Serve(c))
-----------------------------------------------------------------------------
\* Over this service, promotions are what Promotion says they are.
KeepsPromotion == Promoting!PromotionSpec

\* The deployment that a completed promotion names is at rest: it failed, or it
\* was stopped, or it is active and the gateway serves it, but for a stop of it
\* that has reached the gateway and not the row.
CompletedIsServed ==
    \A p \in Promotions : promotion[p].status = "completed" =>
        LET d == promotion[p].target IN
        /\ d # None
        /\ row[d].status \in {"active", "failed", "stopped"}
        /\ row[d].status = "active" =>
               \/ row[d].registered /\ d \in held
               \/ \E c \in Calls : call[c].old = d /\ call[c].freed /\ call[c].pc = "settle"
=============================================================================

------------------------------ MODULE Promotion ------------------------------
(***************************************************************************)
(* Promotions of a deployment to another environment                       *)
(* (promotion_service.py, api/promotions.py).                              *)
(*                                                                         *)
(* A promotion is a row that requests work on: create adds it, approve and *)
(* reject decide it, and execute deploys it: at once for one that needs no *)
(* approval, after the decision for one that was approved, or when the     *)
(* endpoint of that name is called.  To deploy, a request makes a call of  *)
(* DeploymentService.deploy and waits for it; others deploy at the same    *)
(* time, and of that service only what DeploymentPromise says is used.     *)
(* Every read and every update is awaited on its own, and no update looks  *)
(* at the row it writes.                                                   *)
(***************************************************************************)
EXTENDS DeploymentPromise

CONSTANTS
    Promotions,     \* the ids that create may draw
    Creates,        \* requests of each kind; the call of deploy that a
    Approves,       \* request makes has the name of the request
    Rejects,
    Executes,
    Stoppable       \* the deployments that somebody stops

Requests == Creates \cup Approves \cup Rejects \cup Executes

\* The requests that may deploy.
Executors == Creates \cup Approves \cup Executes

ASSUME PromotionAssumption ==
    /\ Stoppable \subseteq Deployments
    /\ None \notin Promotions
    /\ Executors \subseteq Makers
    /\ Rejects \cap Makers = {}
    /\ Creates \cap (Approves \cup Rejects \cup Executes) = {}
    /\ Approves \cap (Rejects \cup Executes) = {}
    /\ Rejects \cap Executes = {}

VARIABLES
    promotion,  \* promotion[p]: the Promotion row p
    request     \* request[q]: where request q is, and the promotion it is on

promotionVars == <<promotion, request>>
allVars == <<vars, promotionVars>>

\* needs: requires_approval; approved: approved_by is set; source and target:
\* the deployments it names.
PromotionRow == [
    status: {"none", "pending", "approved", "rejected", "completed", "failed"},
    needs: BOOLEAN, approved: BOOLEAN,
    source: Deployments \cup {None}, target: Deployments \cup {None}]

\* stale: the promotion was rejected, completed or failed by another request
\* while this one was at work on it.
Request == [
    pc: {"idle", "read", "approve", "reject", "execute", "source", "deploy",
         "complete", "fail", "done", "failed", "raised", "cut"},
    on: Promotions \cup {None},
    stale: BOOLEAN]

PromotionTypeOK ==
    /\ TypeOK
    /\ promotion \in [Promotions -> PromotionRow]
    /\ request \in [Requests -> Request]

PromotionInit ==
    /\ Init
    /\ promotion = [p \in Promotions |-> [status |-> "none", needs |-> FALSE,
                       approved |-> FALSE, source |-> None, target |-> None]]
    /\ request = [q \in Requests |-> [pc |-> "idle", on |-> None, stale |-> FALSE]]

Is(q, pc) == request[q].pc = pc

\* Request q is about p and begins at pc.
Starts(q, pc, p) == request' = [request EXCEPT ![q] = [@ EXCEPT !.pc = pc, !.on = p]]

\* Request q goes on at pc.
Goes(q, pc) == request' = [request EXCEPT ![q].pc = pc]

InFlight(q) == request[q].pc \notin {"idle", "done", "failed", "raised", "cut"}

\* At work on a promotion: past the read of it that lets the request write.
Working(q) == request[q].pc \in
    {"approve", "reject", "source", "deploy", "complete", "fail"}

WorkingOn(r, p) == request[r].on = p /\ Working(r)

\* Request q closes its promotion and goes on at pc; the others that are at work
\* on it have a stale view of it from now on.
Closes(q, pc) ==
    request' = [r \in Requests |->
        IF r = q THEN [request[r] EXCEPT !.pc = pc]
        ELSE [request[r] EXCEPT !.stale = @ \/ WorkingOn(r, request[q].on)]]
-----------------------------------------------------------------------------
\* Mutant: create goes on to execute without asking.
CreateAndExecute(q) ==
    /\ Is(q, "idle")
    /\ \E p \in Promotions, d \in Deployments, needed \in BOOLEAN :
           /\ promotion[p].status = "none"
           /\ status[d] # "none"
           /\ promotion' = [promotion EXCEPT ![p] = [@ EXCEPT
                  !.status = "pending", !.needs = needed, !.source = d]]
           /\ Starts(q, "execute", p)
    /\ UNCHANGED vars

\* create: the rules are read, then the row is added.  Production always
\* needs approval, elsewhere the rules say.
Create(q) ==
    /\ Is(q, "idle")
    /\ \E p \in Promotions, d \in Deployments, needed \in BOOLEAN :
           /\ promotion[p].status = "none"
           /\ status[d] # "none"
           /\ promotion' = [promotion EXCEPT ![p] = [@ EXCEPT
                  !.status = "pending", !.needs = needed, !.source = d]]
           /\ Starts(q, IF needed THEN "done" ELSE "execute", p)
    /\ UNCHANGED vars

\* One of the endpoints is called for a promotion there is.
Begin(q, p) ==
    /\ Is(q, "idle")
    /\ promotion[p].status # "none"
    /\ Starts(q, IF q \in Executes THEN "execute" ELSE "read", p)
    /\ UNCHANGED <<vars, promotion>>

\* Mutant: approve takes what is not pending, too.
ReadPendingLoosely(q) ==
    /\ Is(q, "read")
    /\ promotion[request[q].on].status = "pending" \/ q \in Approves
    /\ Goes(q, IF q \in Approves THEN "approve" ELSE "reject")
    /\ UNCHANGED <<vars, promotion>>

\* approve and reject read the row and want it pending.
ReadPending(q) ==
    /\ Is(q, "read")
    /\ promotion[request[q].on].status = "pending"
    /\ Goes(q, IF q \in Approves THEN "approve" ELSE "reject")
    /\ UNCHANGED <<vars, promotion>>

ReadDecided(q) ==
    /\ Is(q, "read")
    /\ promotion[request[q].on].status # "pending"
    /\ Goes(q, "raised")
    /\ UNCHANGED <<vars, promotion>>

\* Mutant: the execution is left to the endpoint.
ApproveOnly(q) ==
    /\ Is(q, "approve")
    /\ promotion' = [promotion EXCEPT ![request[q].on] = [@ EXCEPT
           !.status = "approved", !.approved = TRUE]]
    /\ Goes(q, "done")
    /\ UNCHANGED vars

Approve(q) ==
    /\ Is(q, "approve")
    /\ promotion' = [promotion EXCEPT ![request[q].on] = [@ EXCEPT
           !.status = "approved", !.approved = TRUE]]
    /\ Goes(q, "execute")
    /\ UNCHANGED vars

Reject(q) ==
    /\ Is(q, "reject")
    /\ promotion' = [promotion EXCEPT ![request[q].on].status = "rejected"]
    /\ Closes(q, "done")
    /\ UNCHANGED vars

\* Mutant: a promotion that failed may be executed once more.
ExecutableAgain(p) == promotion[p].status \in {"pending", "approved", "failed"}

\* Whether it needs an approval is not asked.
Executable(p) == promotion[p].status \in {"pending", "approved"}

\* execute reads the promotion ...
ExecuteRead(q) ==
    /\ Is(q, "execute")
    /\ Goes(q, IF Executable(request[q].on) THEN "source" ELSE "raised")
    /\ UNCHANGED <<vars, promotion>>

\* ... then its source: when that is not active it raises, and the promotion
\* stays as it is ...
SourceRead(q) ==
    LET d == promotion[request[q].on].source IN
    /\ Is(q, "source")
    /\ Goes(q, IF status[d] = "active" THEN "deploy" ELSE "raised")
    /\ UNCHANGED <<vars, promotion>>

\* ... then deploys ...
Deploy(q) ==
    /\ Is(q, "deploy")
    /\ Step(q)
    /\ UNCHANGED promotionVars

\* ... and takes up what deploy returned, an active deployment or a failed one.
DeployReturned(q) ==
    /\ Is(q, "deploy")
    /\ run[q].pc = "returned"
    /\ Goes(q, "complete")
    /\ UNCHANGED <<vars, promotion>>

\* Mutant: what deploy raised is taken for an answer.
DeployRaisedUnseen(q) ==
    /\ Is(q, "deploy")
    /\ run[q].pc = "raised"
    /\ Goes(q, "complete")
    /\ UNCHANGED <<vars, promotion>>

DeployRaised(q) ==
    /\ Is(q, "deploy")
    /\ run[q].pc = "raised"
    /\ Goes(q, "fail")
    /\ UNCHANGED <<vars, promotion>>

Complete(q) ==
    /\ Is(q, "complete")
    /\ promotion' = [promotion EXCEPT ![request[q].on] = [@ EXCEPT
           !.status = "completed", !.target = run[q].made]]
    /\ Closes(q, "done")
    /\ UNCHANGED vars

\* The update raises, before or after it took effect.
CompleteFails(q) ==
    /\ Is(q, "complete")
    /\ \/ Goes(q, "fail") /\ UNCHANGED promotion
       \/ /\ promotion' = [promotion EXCEPT ![request[q].on] = [@ EXCEPT
                 !.status = "completed", !.target = run[q].made]]
          /\ Closes(q, "fail")
    /\ UNCHANGED vars

\* Mutant: a status of its own.
MarkError(q) ==
    /\ Is(q, "fail")
    /\ promotion' = [promotion EXCEPT ![request[q].on].status = "error"]
    /\ Closes(q, "failed")
    /\ UNCHANGED vars

\* The handler of either exception; execute returns the promotion as failed.
MarkFailed(q) ==
    /\ Is(q, "fail")
    /\ promotion' = [promotion EXCEPT ![request[q].on].status = "failed"]
    /\ Closes(q, "failed")
    /\ UNCHANGED vars

\* The request ends where it is: an exception that nothing handles, or the end
\* of the process.  A deploy it waits for ends with it.
Cut(q) ==
    /\ InFlight(q)
    /\ Goes(q, "cut")
    /\ UNCHANGED <<vars, promotion>>

\* Somebody stops a deployment.
StopDeployment(d) == Stop(d) /\ UNCHANGED promotionVars

\* A call of deploy, or of redeploy, that no promotion makes.
OthersDeploy(c) == Step(c) /\ UNCHANGED promotionVars
-----------------------------------------------------------------------------
\* What the service of promotions does itself ...
Manage(q) ==
    \/ ReadPending(q)
    \/ ReadDecided(q)
    \/ Approve(q)
    \/ Reject(q)
    \/ ExecuteRead(q)
    \/ SourceRead(q)
    \/ DeployReturned(q)
    \/ DeployRaised(q)
    \/ Complete(q)
    \/ CompleteFails(q)
    \/ MarkFailed(q)

\* ... and what the deploy that it waits for does.
Handle(q) == Manage(q) \/ (q \in Executors /\ Deploy(q))

PromotionNext ==
    \/ \E q \in Creates : Create(q)
    \/ \E q \in Requests \ Creates, p \in Promotions : Begin(q, p)
    \/ \E q \in Requests : Handle(q)
    \/ \E q \in Requests : Cut(q)
    \/ \E d \in Stoppable : StopDeployment(d)
    \/ \E c \in Makers \ Requests : OthersDeploy(c)

PromotionSpec == PromotionInit /\ [][PromotionNext]_allVars
-----------------------------------------------------------------------------
(* Properties                                                              *)

\* As far as create and approve are concerned, a promotion that needs approval
\* is deployed on approval only.
ApprovedFirst ==
    \A q \in Creates \cup Approves : LET p == request[q].on IN
        run[q].made # None /\ promotion[p].needs => promotion[p].approved

\* The flow of docs/17-promotions/00-environment-promotion.md:200-221, "Approval
\* Needed?", "Yes", "Wait for Approval", "Execute": whoever deploys a promotion
\* that needs approval, it has been approved.
DeployedOnApproval ==
    \A q \in Executors : LET p == request[q].on IN
        run[q].made # None /\ promotion[p].needs => promotion[p].approved

\* The request has come to an end that closes its promotion: it rejected it, or it
\* deployed it or failed to.
Closed(q) ==
    \/ q \in Rejects /\ Is(q, "done")
    \/ q \in Executors /\ run[q].made # None /\ Is(q, "done")
    \/ Is(q, "failed")

\* An approval that began before the promotion was closed may reopen it.
Reopened(p) == \E a \in Approves : request[a].on = p /\ request[a].stale

\* Although nothing claims a promotion before it is worked on, two requests close
\* the same one, which deploys it twice or deploys what is rejected, only if one of
\* them was at work when the other closed it, or an approval was.
ClosedOnce ==
    \A q, r \in Requests :
        q # r /\ request[q].on = request[r].on /\ Closed(q) /\ Closed(r) =>
            request[q].stale \/ request[r].stale \/ Reopened(request[q].on)

\* No request was at work on p when another one closed it.
Undisturbed(p) == \A r \in Requests : request[r].on = p => ~request[r].stale

\* On a promotion that was closed with no other request at work on it, what closed
\* it stands for good, however many come later: a rejection, a failure, or the
\* deployment that was made for it, by its name.
ClosingStands ==
    \A q \in Requests : LET p == request[q].on IN
        Closed(q) /\ Undisturbed(p) =>
            /\ q \in Rejects => promotion[p].status = "rejected"
            /\ Is(q, "failed") => promotion[p].status = "failed"
            /\ q \notin Rejects /\ Is(q, "done") =>
                   promotion[p].status = "completed" /\ promotion[p].target = run[q].made

\* The deployment a promotion names was made by a request on this promotion, in a
\* call of deploy that returned; a completed promotion names one; and a failed one
\* names one only if the update of that request raised once it had taken effect,
\* or another request was at work when it did.
NamesItsDeployment ==
    \A p \in Promotions : LET d == promotion[p].target IN
        /\ promotion[p].status = "completed" => d # None
        /\ d # None => \E q \in Executors :
               /\ request[q].on = p /\ run[q].made = d /\ run[q].pc = "returned"
               /\ promotion[p].status = "failed" => Is(q, "failed") \/ ~Undisturbed(p)

\* An approval comes to something: an approved promotion that no request works on
\* any more is one that a request failed to execute, by raising or being cut off.
StrandedByError ==
    \A p \in Promotions : promotion[p].status = "approved" =>
        \E q \in Executors :
            /\ request[q].on = p
            /\ InFlight(q) \/ request[q].pc \in {"raised", "cut"}

\* docs/17-promotions/00-environment-promotion.md:37 says of completed that it
\* is "Successfully promoted": the deployment it names was active, at least.
CompletedMeansPromoted ==
    \A p \in Promotions : promotion[p].status = "completed" =>
        status[promotion[p].target] \in {"active", "stopped"}

\* So much is true of it: that deployment has come to rest, as active, failed or
\* stopped, and stays at rest.
CompletedIsSettled ==
    \A p \in Promotions : promotion[p].status = "completed" =>
        promotion[p].target # None /\ Settled(promotion[p].target)
-----------------------------------------------------------------------------
(* What makes the properties inductive                                     *)

\* A request is on no promotion until it begins, and then on one there is; it keeps
\* to the steps of its kind, and its deploy is as far as it says.
RequestSound(q) ==
    /\ Is(q, "idle") => request[q].on = None
    /\ ~Is(q, "idle") =>
           request[q].on # None /\ promotion[request[q].on].status # "none"
    /\ Is(q, "read") => q \in Approves \cup Rejects
    /\ Is(q, "approve") => q \in Approves
    /\ Is(q, "reject") => q \in Rejects
    /\ request[q].pc \in {"execute", "source", "deploy", "complete", "fail", "failed"} =>
           q \in Executors
    /\ q \in Executors =>
           /\ run[q].made # None => request[q].pc \in
                  {"deploy", "complete", "fail", "done", "failed", "raised", "cut"}
           /\ run[q].pc \in {"running", "ending", "returned"} => run[q].made # None
           /\ Is(q, "complete") => run[q].pc = "returned"

RequestsSound == \A q \in Requests : RequestSound(q)

\* Past what lets a request deploy, or done with it.
Executing(q) ==
    \/ request[q].pc \in {"execute", "source", "deploy", "complete", "fail"}
    \/ run[q].made # None

\* What let a request go on to deploy stays true.
DecisionsSound ==
    /\ \A q \in Approves : Executing(q) => promotion[request[q].on].approved
    /\ \A q \in Creates : Executing(q) => ~promotion[request[q].on].needs

PromotionSound == RequestsSound /\ DecisionsSound

\* Once a request has closed a promotion, nobody may decide it again; and, unless an
\* approval reopens it, it keeps a status that says so, and whoever is still at work
\* on it or closes it too was so when the one that came first closed it.
ClosingSound ==
    \A q \in Requests : LET p == request[q].on IN
        Closed(q) =>
            /\ promotion[p].status # "pending"
            /\ \/ Reopened(p)
               \/ /\ promotion[p].status \in {"completed", "rejected", "failed"}
                  /\ \A r \in Requests : WorkingOn(r, p) => request[r].stale
                  /\ \A r \in Requests \ {q} : request[r].on = p /\ Closed(r) =>
                         request[q].stale \/ request[r].stale

\* A promotion that names a deployment, of a request q, is completed, and with no
\* stale request on it only q can still write to it, to say that it failed.
NamingSound ==
    \A p \in Promotions : LET d == promotion[p].target IN
        /\ promotion[p].status = "completed" => d # None
        /\ d # None => \E q \in Executors :
               /\ request[q].on = p /\ run[q].made = d /\ run[q].pc = "returned"
               /\ Undisturbed(p) =>
                      /\ promotion[p].status \in {"completed", "failed"}
                      /\ promotion[p].status = "failed" => Is(q, "failed")
                      /\ \A r \in Requests \ {q} : ~WorkingOn(r, p)
=============================================================================

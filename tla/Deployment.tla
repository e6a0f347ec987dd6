----------------------------- MODULE Deployment ------------------------------
(***************************************************************************)
(* Deployments of an agent to a gateway (deployment_service.py).           *)
(*                                                                         *)
(* deploy creates a row, registers the agent at the gateway and records    *)
(* the answer in the row; stop takes the registration back and marks the   *)
(* row; redeploy is a stop, where one is due, and then a deploy.  Each     *)
(* read, update and request to the gateway is awaited on its own, other    *)
(* calls run in between, and no update looks at the row it writes.  A call *)
(* may be lost at any of them: an exception outside deploy's try, or the   *)
(* end of the process.                                                     *)
(***************************************************************************)
EXTENDS FiniteSets

CONSTANTS
    Deployments,    \* the ids that create may draw
    Deploys,        \* calls of deploy, one each
    Stops,          \* calls of stop, one each
    Redeploys,      \* calls of redeploy, one each
    Running,        \* the deployments that are active when it all begins
    None            \* no deployment

Calls == Deploys \cup Stops \cup Redeploys

ASSUME DeploymentAssumption ==
    /\ Running \subseteq Deployments
    /\ None \notin Deployments
    /\ Deploys \cap Stops = {}
    /\ Redeploys \cap Stops = {}
    /\ Redeploys \cap Deploys = {}

VARIABLES
    row,        \* row[d]: the Deployment row d
    held,       \* the deployments whose agent the gateway has registered
    call,       \* call[c]: where call c is
    lost        \* the calls that were cut off where they are

vars == <<row, held, call, lost>>

Statuses == {"none", "pending", "deploying", "active", "failed", "stopped"}

\* registered: the row holds the registration_id that the gateway gave.
Row == [status: Statuses, registered: BOOLEAN]

Pc == {"idle", "read", "unregister", "settle", "create", "mark", "register",
       "activate", "fail", "done", "raised"}

\* old: the deployment that the call stops; saw: the copy it read of that row
\* has a registration_id; freed: the gateway has let that registration go;
\* new: the deployment that the call makes.
Call == [pc: Pc, old: Deployments \cup {None}, saw: BOOLEAN, freed: BOOLEAN,
         new: Deployments \cup {None}]

TypeOK ==
    /\ row \in [Deployments -> Row]
    /\ held \subseteq Deployments
    /\ call \in [Calls -> Call]
    /\ lost \subseteq Calls

NoCall == [pc |-> "idle", old |-> None, saw |-> FALSE, freed |-> FALSE, new |-> None]

Init ==
    /\ row = [d \in Deployments |->
                IF d \in Running THEN [status |-> "active", registered |-> TRUE]
                                 ELSE [status |-> "none", registered |-> FALSE]]
    /\ held = Running
    /\ call = [c \in Calls |-> NoCall]
    /\ lost = {}

\* Call c is where pc says and can go on.
At(c, pc) == call[c].pc = pc /\ c \notin lost

Known(d) == row[d].status # "none"
-----------------------------------------------------------------------------
(* deploy                                                                  *)

\* The reads of the agent and of the gateway, which has to be active.
BeginDeploy(c) ==
    /\ At(c, "idle")
    /\ call' = [call EXCEPT ![c].pc = "create"]
    /\ UNCHANGED <<row, held, lost>>

\* Mutant: redeploy puts the new deployment into the old row.
CreateRowReusing(c) ==
    /\ At(c, "create")
    /\ \E d \in Deployments :
           /\ ~Known(d) \/ call[c].old = d
           /\ row' = [row EXCEPT ![d].status = "pending"]
           /\ call' = [call EXCEPT ![c] = [@ EXCEPT !.pc = "mark", !.new = d]]
    /\ UNCHANGED <<held, lost>>

CreateRow(c) ==
    /\ At(c, "create")
    /\ \E d \in Deployments :
           /\ ~Known(d)
           /\ row' = [row EXCEPT ![d].status = "pending"]
           /\ call' = [call EXCEPT ![c] = [@ EXCEPT !.pc = "mark", !.new = d]]
    /\ UNCHANGED <<held, lost>>

\* Mutant: a status of the log is written.
MarkBuilding(c) ==
    /\ At(c, "mark")
    /\ row' = [row EXCEPT ![call[c].new].status = "building"]
    /\ call' = [call EXCEPT ![c].pc = "register"]
    /\ UNCHANGED <<held, lost>>

MarkDeploying(c) ==
    /\ At(c, "mark")
    /\ row' = [row EXCEPT ![call[c].new].status = "deploying"]
    /\ call' = [call EXCEPT ![c].pc = "register"]
    /\ UNCHANGED <<held, lost>>

\* The POST to the gateway is answered with 200 or 201, and an id.
Register(c) ==
    /\ At(c, "register")
    /\ held' = held \cup {call[c].new}
    /\ call' = [call EXCEPT ![c].pc = "activate"]
    /\ UNCHANGED <<row, lost>>

\* Mutant: the exception is swallowed.
RegisterFailsQuietly(c) ==
    /\ At(c, "register")
    /\ held' \in {held, held \cup {call[c].new}}
    /\ call' = [call EXCEPT ![c].pc = "done"]
    /\ UNCHANGED <<row, lost>>

\* An exception inside the try before the answer is there: the version cannot
\* be read, the gateway refuses, or its answer does not come in time.
RegisterFails(c) ==
    /\ At(c, "register")
    /\ held' \in {held, held \cup {call[c].new}}
    /\ call' = [call EXCEPT ![c].pc = "fail"]
    /\ UNCHANGED <<row, lost>>

\* Mutant: the status is written, the registration is not.
ActivateUnrecorded(c) ==
    /\ At(c, "activate")
    /\ row' = [row EXCEPT ![call[c].new].status = "active"]
    /\ call' = [call EXCEPT ![c].pc = "done"]
    /\ UNCHANGED <<held, lost>>

Active == [status |-> "active", registered |-> TRUE]

Activate(c) ==
    /\ At(c, "activate")
    /\ row' = [row EXCEPT ![call[c].new] = Active]
    /\ call' = [call EXCEPT ![c].pc = "done"]
    /\ UNCHANGED <<held, lost>>

\* The update raises, or the log entry after it does.
ActivateFails(c) ==
    /\ At(c, "activate")
    /\ row' \in {row, [row EXCEPT ![call[c].new] = Active]}
    /\ call' = [call EXCEPT ![c].pc = "fail"]
    /\ UNCHANGED <<held, lost>>

\* Mutant: the exception is logged, the row is left.
FailQuietly(c) ==
    /\ At(c, "fail")
    /\ call' = [call EXCEPT ![c].pc = "done"]
    /\ UNCHANGED <<row, held, lost>>

\* What follows the update may still raise.
Fail(c) ==
    /\ At(c, "fail")
    /\ row' = [row EXCEPT ![call[c].new].status = "failed"]
    /\ \E pc \in {"done", "raised"} : call' = [call EXCEPT ![c].pc = pc]
    /\ UNCHANGED <<held, lost>>

\* What the try does not cover: no agent, no gateway or not an active one, an
\* exception of the storage.  The caller of deploy gets the exception.
Raise(c) ==
    /\ c \notin lost
    /\ call[c].pc \in {"create", "mark", "register", "fail"}
    /\ call' = [call EXCEPT ![c].pc = "raised"]
    /\ UNCHANGED <<row, held, lost>>
-----------------------------------------------------------------------------
(* stop and redeploy                                                       *)

BeginStop(c, d) ==
    /\ At(c, "idle")
    /\ Known(d)
    /\ call' = [call EXCEPT ![c] = [@ EXCEPT !.pc = "read", !.old = d]]
    /\ UNCHANGED <<row, held, lost>>

CanStop(d) == row[d].status \in {"active", "deploying"}

\* redeploy reads the row first and goes straight to deploy when there is
\* nothing to stop.
BeginRedeploy(c, d) ==
    /\ At(c, "idle")
    /\ Known(d)
    /\ call' = [call EXCEPT ![c] = [@ EXCEPT
           !.pc = IF CanStop(d) THEN "read" ELSE "create",
           !.old = IF CanStop(d) THEN d ELSE None]]
    /\ UNCHANGED <<row, held, lost>>

\* The copy that the rest of stop goes by.
StopRead(c) ==
    LET d == call[c].old IN
    /\ At(c, "read")
    /\ CanStop(d)
    /\ call' = [call EXCEPT ![c] = [@ EXCEPT
           !.pc = IF row[d].registered THEN "unregister" ELSE "settle",
           !.saw = row[d].registered]]
    /\ UNCHANGED <<row, held, lost>>

RefuseStop(c) ==
    /\ At(c, "read")
    /\ ~CanStop(call[c].old)
    /\ call' = [call EXCEPT ![c] = [@ EXCEPT !.pc = "raised", !.old = None]]
    /\ UNCHANGED <<row, held, lost>>

\* The DELETE at the gateway.
Unregister(c) ==
    /\ At(c, "unregister")
    /\ held' = held \ {call[c].old}
    /\ call' = [call EXCEPT ![c] = [@ EXCEPT !.pc = "settle", !.freed = TRUE]]
    /\ UNCHANGED <<row, lost>>

\* The gateway row is gone, or the DELETE raises or is refused: a log entry, no
\* more.
UnregisterFails(c) ==
    /\ At(c, "unregister")
    /\ call' = [call EXCEPT ![c].pc = "settle"]
    /\ UNCHANGED <<row, held, lost>>

Settle(c) ==
    /\ At(c, "settle")
    /\ row' = [row EXCEPT ![call[c].old].status = "stopped"]
    /\ call' = [call EXCEPT ![c].pc = IF c \in Redeploys THEN "create" ELSE "done"]
    /\ UNCHANGED <<held, lost>>

\* A call that has begun goes no further.
Lose(c) ==
    /\ c \notin lost
    /\ call[c].pc \notin {"idle", "done", "raised"}
    /\ lost' = lost \cup {c}
    /\ UNCHANGED <<row, held, call>>
-----------------------------------------------------------------------------
Proceed(c) ==
    \/ CreateRow(c)
    \/ MarkDeploying(c)
    \/ Register(c)
    \/ RegisterFails(c)
    \/ Activate(c)
    \/ ActivateFails(c)
    \/ Fail(c)
    \/ Raise(c)
    \/ StopRead(c)
    \/ RefuseStop(c)
    \/ Unregister(c)
    \/ UnregisterFails(c)
    \/ Settle(c)

Next ==
    \/ \E c \in Deploys : BeginDeploy(c)
    \/ \E c \in Stops, d \in Deployments : BeginStop(c, d)
    \/ \E c \in Redeploys, d \in Deployments : BeginRedeploy(c, d)
    \/ \E c \in Calls : Proceed(c) \/ Lose(c)

Spec == Init /\ [][Next]_vars

\* The event loop comes back to every call whose await is over.
FairSpec == Spec /\ \A c \in Calls : WF_vars(Proceed(c))
-----------------------------------------------------------------------------
(* Properties                                                              *)

\* How far deploy is when the call is at pc.
Phase(pc) ==
    CASE pc \in {"mark", "register", "activate"} -> "running"
      [] pc = "fail" -> "ending"
      [] pc = "done" -> "returned"
      [] pc = "raised" -> "raised"
      [] OTHER -> "idle"

Makers == Deploys \cup Redeploys

\* What a caller of deploy can tell of the rows and of the calls.
SeenStatus == [d \in Deployments |->
    IF row[d].status \in {"pending", "deploying"} THEN "busy" ELSE row[d].status]

SeenRun == [c \in Makers |-> [pc |-> Phase(call[c].pc), made |-> call[c].new]]

Promise == INSTANCE DeploymentPromise WITH status <- SeenStatus, run <- SeenRun

\* Seen by those who call deploy, the service keeps DeploymentPromise.
KeepsPromise == Promise!Spec

\* The stop of this call has marked its row.
Settled(c) == call[c].pc \notin {"idle", "read", "unregister", "settle"}

\* A row that says active is served: its registration_id is recorded and the
\* gateway holds the registration, unless some stop has already had it taken
\* down there and has not marked the row, be it under way or cut off.
ActiveIsServed ==
    \A d \in Deployments : row[d].status = "active" =>
        /\ row[d].registered
        /\ \/ d \in held
           \/ \E c \in Calls : call[c].old = d /\ call[c].freed /\ call[c].pc = "settle"

\* What the gateway serves for a row that is not active has one of four
\* causes: its deploy is still between the two, or ended there; it failed,
\* which leaves the registration in place; it was stopped before the
\* registration was recorded; or the gateway did not do what stop asked for.
LeftoverHasCause ==
    \A d \in held :
        \/ row[d].status \in {"active", "failed"}
        \/ \E c \in Calls : call[c].new = d /\ call[c].pc \in {"activate", "fail", "raised"}
        \/ row[d].status = "stopped" /\ \E c \in Calls :
               call[c].old = d /\ ~call[c].freed /\ Settled(c)

\* A deployment that was stopped after it had become active never comes back:
\* whoever writes its row writes stopped again, or failed.
StopHolds ==
    [][\A d \in Deployments : row[d].status = "stopped" /\ row[d].registered =>
           row'[d].status \in {"stopped", "failed"}]_vars

\* Every deployment comes to rest, unless the call that makes it is cut off.
ComesToRest ==
    \A d \in Deployments :
        row[d].status \in {"pending", "deploying"} ~>
            \/ row[d].status \in {"active", "failed", "stopped"}
            \/ \E c \in Calls :
                   call[c].new = d /\ (c \in lost \/ call[c].pc = "raised")
-----------------------------------------------------------------------------
(* What makes the properties inductive                                     *)

\* The deployment of a call of deploy is its own, and nobody gets in its way
\* before it is registered.
NewSound ==
    /\ \A c \in Calls : LET d == call[c].new IN
           /\ call[c].pc \in {"idle", "read", "unregister", "settle", "create"} => d = None
           /\ call[c].pc \in {"mark", "register", "activate", "fail"} => d # None
           /\ d # None => Known(d)
           /\ call[c].pc = "mark" => row[d].status = "pending"
           /\ call[c].pc \in {"mark", "register"} => d \notin held
           /\ call[c].pc = "activate" => d \in held
           /\ call[c].pc \in {"mark", "register", "activate"} => ~row[d].registered
    /\ \A c1, c2 \in Calls : call[c1].new = call[c2].new => c1 = c2 \/ call[c1].new = None

\* What a stop goes by stays true: the row is made and past its first status, and
\* what is registered, or was taken down, remains so.
OldSound ==
    \A c \in Calls : LET d == call[c].old IN
        /\ call[c].pc \in {"read", "unregister", "settle"} => d # None /\ Known(d)
        /\ call[c].pc \in {"unregister", "settle"} => row[d].status # "pending"
        /\ call[c].pc = "unregister" => row[d].registered
        /\ call[c].freed =>
              /\ d # None /\ row[d].registered /\ d \notin held
              /\ call[c].pc \notin {"idle", "read", "unregister"}

\* Each kind of call keeps to its own steps.
KindsSound ==
    \A c \in Calls :
        /\ call[c].pc \in {"create", "mark", "register", "activate", "fail"} => c \in Makers
        /\ call[c].pc \in {"read", "unregister", "settle"} => c \notin Deploys

\* A row that was never made has nothing to its name.
RowsSound == \A d \in Deployments :
    ~Known(d) => ~row[d].registered /\ d \notin held

Sound == NewSound /\ OldSound /\ KindsSound /\ RowsSound
=============================================================================

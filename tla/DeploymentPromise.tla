-------------------------- MODULE DeploymentPromise --------------------------
(***************************************************************************)
(* What DeploymentService promises those who call deploy: a call makes at  *)
(* most one deployment, of its own; when it returns that deployment has    *)
(* been active or has failed; it may also raise, whatever it has made by   *)
(* then.  Once made, a deployment may be stopped by others at any time,    *)
(* and the call still writes what it comes to over that.                   *)
(***************************************************************************)
CONSTANTS
    Deployments,
    Makers,     \* the calls of deploy, one each
    Running,    \* the deployments that are active when it all begins
    None        \* no deployment

ASSUME PromiseAssumption ==
    /\ Running \subseteq Deployments
    /\ None \notin Deployments

VARIABLES
    status,     \* status[d]: what the row of d says
    run         \* run[c]: how far c is, and what it made

vars == <<status, run>>

Run == [pc: {"idle", "running", "ending", "returned", "raised"},
        made: Deployments \cup {None}]

TypeOK ==
    /\ status \in [Deployments -> {"none", "busy", "active", "failed", "stopped"}]
    /\ run \in [Makers -> Run]

Init ==
    /\ status = [d \in Deployments |-> IF d \in Running THEN "active" ELSE "none"]
    /\ run = [c \in Makers |-> [pc |-> "idle", made |-> None]]

Make(c) ==
    /\ run[c].pc = "idle"
    /\ \E d \in Deployments :
           /\ status[d] = "none"
           /\ status' = [status EXCEPT ![d] = "busy"]
           /\ run' = [run EXCEPT ![c] = [pc |-> "running", made |-> d]]

\* Registered and recorded.
Activate(c) ==
    /\ run[c].pc = "running"
    /\ status' = [status EXCEPT ![run[c].made] = "active"]
    /\ run' = [run EXCEPT ![c].pc = "returned"]

\* An exception that deploy handles; the update to active may have been made.
Falter(c) ==
    /\ run[c].pc = "running"
    /\ status' \in {status, [status EXCEPT ![run[c].made] = "active"]}
    /\ run' = [run EXCEPT ![c].pc = "ending"]

Fail(c) ==
    /\ run[c].pc = "ending"
    /\ status' = [status EXCEPT ![run[c].made] = "failed"]
    /\ \E pc \in {"returned", "raised"} : run' = [run EXCEPT ![c].pc = pc]

\* An exception that deploy hands on.
Raise(c) ==
    /\ run[c].pc \in {"idle", "running", "ending"}
    /\ run' = [run EXCEPT ![c].pc = "raised"]
    /\ UNCHANGED status

Stop(d) ==
    /\ status[d] # "none"
    /\ status' = [status EXCEPT ![d] = "stopped"]
    /\ UNCHANGED run

Step(c) == Make(c) \/ Activate(c) \/ Falter(c) \/ Fail(c) \/ Raise(c)

Next ==
    \/ \E c \in Makers : Step(c)
    \/ \E d \in Deployments : Stop(d)

Spec == Init /\ [][Next]_vars
-----------------------------------------------------------------------------
(* Properties                                                              *)

\* No two calls make the same deployment.
MadeOnce == \A c1, c2 \in Makers :
    run[c1].made = run[c2].made => c1 = c2 \/ run[c1].made = None

\* What a call that returned has made is never busy again: it is active, has
\* failed, or was stopped.
Settled(d) == status[d] \in {"active", "failed", "stopped"}

ReturnedIsSettled == \A c \in Makers : run[c].pc = "returned" =>
    run[c].made # None /\ Settled(run[c].made)
-----------------------------------------------------------------------------
(* What makes the properties inductive                                     *)

\* What a call has made goes with how far it is, and its row is there.
PromiseSound ==
    /\ \A c \in Makers :
           /\ run[c].pc = "idle" => run[c].made = None
           /\ run[c].pc \in {"running", "ending"} => run[c].made # None
           /\ run[c].made # None => status[run[c].made] # "none"
    /\ MadeOnce
    /\ ReturnedIsSettled
=============================================================================

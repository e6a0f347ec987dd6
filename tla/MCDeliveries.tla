----------------------------- MODULE MCDeliveries -----------------------------
(* The two services that deliver to webhooks.  They share no state, so a     *)
(* behaviour runs one of them; which one is chosen at the start.             *)
EXTENDS Webhooks

CONSTANTS
    Invocations,
    MaxAgentPosts

ASSUME AgentAssumption == MaxAgentPosts \in Nat \ {0}

VARIABLES
    said, sender, platform, unsaid,
    service

Agent == INSTANCE AgentDelivery WITH MaxPosts <- MaxAgentPosts

mcvars == <<hook, row, task, receiver, missed, early, ledger,
            said, sender, platform, unsaid, service>>

InWebhooks(A) == service = "webhooks" /\ A /\ UNCHANGED <<said, sender, platform, unsaid, service>>

InAgents(A) ==
    /\ service = "agents" /\ A
    /\ UNCHANGED <<hook, row, task, receiver, missed, early, ledger, service>>

MCInit ==
    /\ Init /\ Agent!Init
    /\ service \in {"webhooks", "agents"}

MCNext == InWebhooks(Next) \/ InAgents(Agent!Next)

MCSpec ==
    /\ MCInit /\ [][MCNext]_mcvars
    /\ \A d \in Deliveries : WF_mcvars(InWebhooks(Step(d)))
    /\ \A i \in Invocations : WF_mcvars(InAgents(Agent!Step(i)))

\* The run has deliveries begin in one order: which id is drawn makes no
\* difference, and symmetry would not be sound for liveness.
FirstId == CHOOSE d \in Deliveries : TRUE

InOrder ==
    (\E d \in Deliveries : task'[d].pc # "unborn") => task'[FirstId].pc # "unborn"

MCOrderedSpec ==
    /\ MCInit /\ [][MCNext /\ InOrder]_mcvars
    /\ \A d \in Deliveries : WF_mcvars(InWebhooks(Step(d)))
    /\ \A i \in Invocations : WF_mcvars(InAgents(Agent!Step(i)))

MCTypeOK == TypeOK /\ Agent!TypeOK

\* The refinements, and DeliveryOnRecord, under names a configuration can use:
\* whichever service runs, its deliveries keep the promise.
PromiseKept == Promise!Spec /\ Agent!Promise!Spec

AgentDeliveryOnRecord == Agent!DeliveryOnRecord
=============================================================================

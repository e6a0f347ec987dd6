# Kaizen Studio: specifications in TLA+

Kaizen Studio is a FastAPI backend (`src/src/studio`) with a library for trust
and governance (`src/src/studio_kaizen/trust/governance`) and a React front end
(`src/apps/web`). It registers AI agents, composes and deploys them, and calls
agents of third parties under budgets, approvals and trust chains.

One fact shapes everything here. Handlers are coroutines of one event loop, and
nearly all state lies in DataFlow tables. A handler reads a row with one awaited
workflow and writes it with another; there are no transactions, locks, version
columns or conditional updates. Between two awaits any other handler may run, a
failure may end the handler, and nobody takes up what it left. State held in
memory (the in-memory approval store, the budget cache) changes between two
awaits in one step. The specifications therefore make each stretch between
two awaits that touches shared state one action, and state what survives.

## 1. Inventory

| Component | State | Operations | Interaction |
|---|---|---|---|
| Approvals (`approval_manager.py`, `store.py`, `types.py`, `config.py`) | approval requests with decisions, status, deadline | create, approve, reject, escalate, process_expired_requests | store (memory or DataFlow), notification service |
| Invocation and budget (`external_agent_service.py`, `governance_service.py`, `budget_enforcer.py`, `lineage_service.py`) | cached budget objects, lineage rows, invocation log | invoke, check_budget, record_invocation_cost, record_usage, update_lineage_result | agent over HTTP, budget store, webhook delivery |
| Trust (`trust_service.py`) | chains, delegations, audit anchors | establish, delegate, revoke_cascade, revoke_by_human, verify | sessions create a pseudo agent per user |
| Rate limiter (`rate_limiter.py`) | list of call times per key, or Redis sorted sets | check, record | called by invoke |
| Policy engine, triggers (`policy_engine.py`, `triggers.py`) | list of policies, history of calls | evaluate, add, remove | called by the governance service |
| Webhooks (`webhook_service.py`, `webhook_delivery_service.py`, `adapters/`) | webhooks with failure counter, deliveries | trigger, deliver, retry_failed | receivers over HTTP, background tasks |
| Promotions and deployments (`promotion_service.py`, `deployment_service.py`) | promotions, rules, deployments, logs | create, approve, reject, execute; deploy, stop, redeploy | promotions call deployments, deployments call gateways |
| Invitations (`invitation_service.py`) | invitations | create, accept, cancel, cleanup | organizations, users |
| Billing (`billing_service.py`) | usage records, quota counters, periods | record_usage, check_quota, close_period | called by executions |
| Scaling (`scaling_service.py`) | policies, events | evaluate, scale | metrics, gateways |
| Sessions (`auth_service.py`, `sso_service.py`) | tokens, blacklist in Redis, session mapping | login, refresh, logout, switch organization | trust (pseudo agent) |
| Request limits (`rate_limit_service.py`, `middleware/rate_limit.py`) | Redis counters per minute | check, increment | every request |
| Access (`rbac_service.py`, `abac_service.py`) | roles, policies, assignments | evaluate | middleware |
| Teams, workspaces, organizations, users, agents, pipelines, runs, tests, gateways, connectors, API keys, activity, audit, metrics | rows of their own | create, read, update, delete | DataFlow |
| Web front end, deploy files, scripts | none on the server | | |

What is hard: reads that are stale when written back (approvals, webhooks,
promotions, billing, sessions), checks apart from the act they guard (budget,
quota, limits), sequences of updates that fail half way (trust, invoke,
promotion), lists that are worked through while the rows change (expiry sweep,
revocation), and state that lives shorter than it should (budget per request).
`PROJECT.json` lists them line by line under "hazards".

What makes each correct:

- approvals: a decision follows from the votes, is not taken back, comes from
  people allowed to decide, and the requestor is told what is true;
- invocation: the budget bounds the calls, and each call leaves one consistent trail;
- trust: a revocation reaches everybody downstream and nobody else;
- rate limiter: no window holds more calls than its limit and those under way;
- policy engine: a policy moves the decision its own way, and no other;
- webhooks: each delivery ends, its row says what became of it, a payload that
  was accepted is not sent again, and the failure counter agrees;
- results of invocations: the same of the row of the invocation;
- deployments: rows and gateway agree on what is served, what is stopped stays so;
- promotions: what needs an approval waits for it, and the promotion says truly
  what became of it;
- invitations: one makes one user, and its row tells that it did;
- billing: the counter, the records and the period sums agree.

## 2. Plan

1. Approvals: rules, promise, memory store, database store, proofs. *Done.*
2. Invocation and budget, proofs. *Done.*
3. Trust revocation, proofs. *Done.*
4. `Deployment` and its promise, `Promotion` over the promise, both composed in
   `PromotedDeployment`, proofs. *Done.*
5. `DeliveryPromise`, `Webhooks` and `AgentDelivery` under it, with liveness;
   proofs of their safety. *Done.*
6. `Billing`, `Invitations`, `RateLimiter`, `PolicyEngine`, proofs. *Done.*
7. Left: several chains of one agent, verification and delegation by revoked
   agents (a change of `TrustCascade` and its proofs); `Sessions` (refresh, switch
   of organization, the pseudo agent of a login); the approval triggers.

Theorems worth proving next: what a second chain of an agent leaves of
`CascadeReaches`; that each call, task and job takes a bounded number of steps,
the part of the liveness properties that needs no fairness; more of what
callers may count on under conditions of their own, as section 5 has it for the
approvals and the budget.

## 3. Modules and the code

### ApprovalRules

A request as a record (`Row`: status, requester, the sets of approvers and
rejecters; each acts once, so lists are sets) and what each handler of
`approval_manager.py` does to a copy of it: `MayVote`/`Voted` (approve), `Lapsed`
(approve past the deadline), `Rejected`, `Escalated`, `TimedOut` (one turn of
the expiry loop). `_can_approve` returns True on every path, so it is no guard.
The workflow configuration gives the constants. `Consistent` says that the
status is the one the decisions call for; `Impartial` that nobody approved his
own request.

### ApprovalLifecycle

The promise, free of stores: open once, vote, granted by the vote that
completes the quorum, closed before that or never, both final.

### ApprovalRows

The rows of a store, whichever it is, and what of `ApprovalLifecycle` is seen in
them: the refinement mapping (`outcomeBar`, `ownerBar`, `votesBar`) sends rejected,
expired and escalated to "closed". Both managers extend it.

### ApprovalManager

The manager over `InMemoryApprovalStore`, which hands out its own objects and
never suspends: each handler is one action. The sweep suspends after each
request for its notification, so `SweepList` and `SweepOne` are apart, and
several sweeps may overlap. `told` holds the notices to the requestor; a
notification service is assumed (the service wires none today), and a notice
counts as told when the call is made.

### ApprovalDataFlow

The same rules over `DataFlowApprovalStore`: `Read` (get), `Decide` or `Decline`
on the copy, `Update` or `UpdateFails` (save). Update writes the whole copy.
A sweep lists copies and saves them one by one; a failing save ends it. Nothing
keeps several of them apart, so there are several, each with a list of its own.

### AgentInvocation

One agent, production mode. `Begin` is invoke up to the first await that
touches the budget; `BudgetRead` is the answer to the read of `_get_agent_budget`
and makes a fresh object; `OpenLineage`, `PostFails`/`Answer` (charging is part of
the same stretch), `Store` (puts the charged object back into the cache),
`MarkSuccess`, `LogSuccess`, `Reply`, and the exception handler `MarkFailure`,
`LogFailure`. `PerRequest` chooses between one service for the process and the
wiring of `api/external_agents.py`, a service per request. Amounts are counted
in calls because every call is estimated and charged at the same 0.05 USD. A
daily limit of 0 is no limit to the code (`budget_enforcer.py:136`); the model has
the limits that do count.
No route calls `GovernanceService.initialize`, so in that wiring there is no rate
limiter and every call passes it.

### TrustCascade

Chains, delegation rows and revocations in progress. `Search` is one call of
`_find_downstream_agents` (one list), `RevokeChain` is `_revoke_chain`, `ListRows` and
`RevokeRow` are `_revoke_delegations_from_agent`, `Audit` the end of the cascade,
`NextTarget` one turn of the loop of `revoke_by_human`, `Fail` an exception or a
crash at any await. The code searches depth first and revokes in the order
found; the model allows any order after the target. Capabilities are left out:
`Delegate` stands for requests whose capabilities pass. An agent has at most one
chain. The list of an agent's delegations to search, the list of chains that a
revocation by origin goes through and that of delegations to revoke end after
1,000, 10,000 and 1,000 records (`trust_service.py:564`, `661`, `751`); the model
finds them all, so `CascadeReaches` says nothing of longer lists. `late`, `under`,
`lost` and `skipped` are history the properties speak of:
an agent is `Settled` when his chain is revoked, when somebody still has him on
his list, or when a cascade gave him up or came before he had a chain.

### DeploymentPromise

What a caller of `deploy` may count on: its call makes at most one deployment, of
its own; a call that returns has seen it active or marked it failed; a call may
raise at any point and leave what it made. Others may stop a deployment, and the
call writes over that.

### Deployment

`deploy`, `stop` and `redeploy` of `deployment_service.py`, with one action per
stretch between two awaits: `BeginDeploy` (agent and gateway are read), `CreateRow`,
`MarkDeploying`, `Register`/`RegisterFails` (the POST to the gateway), `Activate`/
`ActivateFails`, `Fail` (the handler); `BeginStop`, `StopRead`/`RefuseStop` (the copy
stop goes by), `Unregister`/`UnregisterFails` (the DELETE), `Settle`; `BeginRedeploy`
reads the row and enters stop or deploy. `Raise` is what the try of deploy does
not cover and its caller sees, `Lose` a call that ends where it is. `row` is the
table, `held` what the gateway has registered, `registered` a `registration_id`
in the row; the gateway is taken to answer a registration with an id. A log
entry has no action of its own: what it can do is raise, and `Raise`, `ActivateFails`,
`Fail` and `Lose` say so. `SeenStatus` and `SeenRun` map the state to the promise.

### Promotion

`create`, `approve`, `reject` and `execute` of `promotion_service.py`, as requests with a
place (`pc`) and a promotion. `Create` draws what `_check_requires_approval` answers.
`ReadPending`/`ReadDecided` is the check of approve and reject, `Approve` and `Reject`
the updates, `ExecuteRead`, `SourceRead`, `Deploy`, `DeployReturned`/`DeployRaised`,
`Complete`/`CompleteFails` and `MarkFailed` the body of execute, which does not ask
whether the promotion needs an approval. Updates are by id and
look at nothing, so each is taken whatever the row has become. `stale` is
history: it marks a request that was past its read when another one closed the
promotion (`Closes`), by rejecting, completing or failing it. The module extends
`DeploymentPromise`: `Deploy` is any step of a deployment service that keeps the
promise, `OthersDeploy` one of a call that no promotion makes, and `StopDeployment` a
stop. `Manage` is what the service of promotions does itself.

### PromotedDeployment

`Deployment` and `Promotion` as they are wired: `PromotionService` builds a
`DeploymentService` and awaits its `deploy`. `Arrive` and `Manage` are the steps of
the promotions API; `Enter` and `Serve` those of calls of deploy, stop and redeploy,
where the call of a promotion has the name of its request and goes on only while
the request waits for it (`Awaited`). Request and call are one coroutine:
`CutRequest` ends both, `LoseCall` only calls of the deployments API.
`KeepsPromotion` says that `Promotion`, written over the promise, is what comes out;
`CompletedIsServed` joins both states, the deployment a completed promotion names
and the gateway.

### DeliveryPromise, Webhooks, AgentDelivery

Two services send payloads to receivers over HTTP. `DeliveryPromise` is what both
promise: a bounded number of posts, another one only after an outcome that is
worth a retry, never after one that was heard to be accepted, and an end.

`Webhooks` is `webhook_service.py`: one webhook, and a task and a row for each
delivery, started by an event, a test or a manual retry. Every await is an
action: `RowCreated`, the post (`Accepted`, `Rejected`, or `Unheard`, which the
receiver may have taken), `Recorded`, `Reset` or `CountRead` and `Added` (the failure
counter is read and written), `Wake` after a delay, and the exception handler
(`FailureRecorded`); each write may raise instead. `Crash` ends all tasks and
leaves the rows. `receiver`, `missed`, `early` and `ledger` are history: what the
receiver took, whether an outcome was never written or written over, whether a
retry began beside what it retries, and what the counter ought to say: the failed
attempts since the last success (`owed`), until an overlap or a failure blurs
that, and the failures written since a success was (`counted`), until one task
reads or resets the counter that another has read and not yet written (`torn`).
`AgentDelivery` is `webhook_delivery_service.py` with the retry loop of
`adapters/base_webhook.py`, which posts again after any outcome but acceptance.

### Billing

`record_usage` makes the record (`RecordMade`), reads a quota (`QuotaFound`) and
writes one more (`QuotaAdded`); `get_current_period` finds no period (`NoPeriod`) and
makes one (`PeriodMade`); `close_period` reads the period, sums up and writes
(`CloseRead`, `Summed`, `Closed`). Every one may raise; a quota update may do so once
it took effect. The last second of a month is in no period, as its end is compared
with times that have fractions (`Within`), and a sum takes in at most `MaxRecords`,
10,000 in the code, of what there is (`Listed`). A sum records beside what it took
in what was yet to come (`open`) and whether there was more than it takes in
(`full`). `crossed`, `beside` and `hasty` record two calls at one counter, periods
opened side by side, and a period closed before its month was over. The counter
is described as usage within a monthly or daily period
(`models/usage_quota.py:41-45`); nothing resets it, and `QuotaAgrees` speaks of the
count since the quota was made.

### Invitations

The invitations to one address: `Invite` and `Created`, `Found` (the read of accept,
and its checks), `Accepted` and `UserMade`, `Expired`, `Cancel`, and the sweep
(`SweepList`, `SweepOne`), which like accept writes by rows it read before. `met`
holds the pairs of accepts that were between read and write of one invitation
at once.

### RateLimiter

`rate_limiter.py` for one key, once `initialize` has made it. In memory, check and
record are one step each, and counting the minute prunes the list to a minute,
so that the longer windows are not enforced, although the docstrings
(`rate_limiter.py:23`, `116`) do not say so: in memory `WindowsBounded` claims the
minute only, and no property covers the other two. With Redis each takes the time
(`Ask`, `Answered`) and then runs a pipeline (`CheckRedis`, `RecordRedis`), or goes on
without an answer. `Restart` empties the memory and may change the store. `start`
says who had begun and who was under way when a call began, `unseen` who went by
the limiter; both are history. The burst limit is in the configuration only.

### PolicyEngine

`policy_engine.py` for one kind of request: what its attributes make of the
conditions of a policy (match, mismatch, raise) is kept with the policy. `AddPolicy`,
`RemovePolicy` and `ClearPolicies` change the dictionary, whose order is `older`.
`Decision` is `evaluate_policies`: policies are looked at by priority and age
(`Before`), up to the first match with `first_match` (`Reached`), an exception decides
for all (`Failing`), and `Resolved` is `_resolve_conflicts`.

### MCGovernance, MCDeliveries, MCAccounts, MCPromotion, MCDeployment

Each of the first three puts services that share no state into one instance: a
behaviour chooses one at the start and runs it. Billing is chosen twice, once for
the quotas and once for the periods, as the two only have the records in common.
`MCPromotion` chooses a `side`: a rejection has nothing to do with what others
deploy and stop meanwhile, so a behaviour has the one or the others. `MCDeliveries`
and `MCDeployment` let new ids be drawn in one order only (`InOrder`), in place of a
symmetry, which would not be sound for liveness.

Left out everywhere: identifiers, texts, reasons, time stamps other than the
order of a deadline, logging, HTTP formats. `map` in `PROJECT.json` gives the lines
of each definition.

## 4. Runs

| Run | Instance | Shows |
|---|---|---|
| Governance | 2 requests, 3 people, 2 sweeps, quorum 2, auto reject; or 3 tasks, one service, budget of 1 call, 4 answered calls | type, `RowsSound`, `ToldTheTruth`, refinement of `ApprovalLifecycle`; `BoundedOverrun`, `CountsWhatItSpends`, `TrailSound` |
| ApprovalDataFlow | 2 requests, 2 people, 2 tasks, 2 sweeps, one approver, auto approve | type, `RowsSound`, `SystemWaitsForDeadline`, `NeverReopened` |
| ApprovalDataFlowRace | 1 request, 3 people, 2 tasks, quorum 2 | counterexample to `RejectionIsFinal` |
| AgentInvocationPerRequest | 2 tasks, a service each, budget of 1 call | counterexample to `HardLimitBlocks` |
| TrustCascade | 3 agents, 2 rows, one cascade, one revocation by origin | type, `ReportTrue`, `CascadeReaches`, `OnlyDownstreamRevoked` |
| TrustCascadeRetry | 2 agents, 1 row, 2 cascades | counterexample to `EveryDelegateRevoked` |
| Deployment | 3 deployments, one running; a promotion that deploys when it is made, a stop, a redeploy | type, `ActiveIsServed`, `LeftoverHasCause`, `StopHolds`, `KeepsPromotion` (refinement of `Promotion`), `ComesToRest` under fairness |
| Promotion | 1 promotion, a request of each kind and a deploy of others, 3 deployments, one running and stoppable | type, `ApprovedFirst`, `ClosedOnce`, `ClosingStands`, `NamesItsDeployment`, `StrandedByError` |
| PromotionUnapproved | 1 promotion, 1 create, 1 execute, 2 deployments | counterexample to `DeployedOnApproval` |
| PromotionCompleted | 1 promotion, 1 create, 2 deployments | counterexample to `CompletedMeansPromoted` |
| Deliveries | 2 deliveries of 2 posts, or 2 results of 3 posts | type, `OutcomeOnRecord`, `DoubleDeliveryExplained`, `ConsecutiveFailures`, `AgentDeliveryOnRecord`, and both refinements of `DeliveryPromise` with its liveness (`PromiseKept`) |
| Accounts | 2 usages, 2 quotas, or 2 usages, 2 periods and 2 closings over a month and its end, with sums of 1 record; or 2 invitations, 3 accepts, 1 sweep; or 3 calls in 4 ticks, windows of 1, 2 and 4 that take 1, 2 and 2; or 3 policies of 2 priorities | type, `QuotaAgrees`, `PeriodBills`, `UsedOnce`, `AcceptanceOnRecord`, `WindowsBounded`, `PolicyMovesItsWay` |

Why the bounds are enough. Approvals: a quorum of two out of three people has
votes that do and do not decide, self-approval and a rejection beside them; two
sweeps hold lists, or copies, that overlap; two requests show that none leaks into the
other. Two tasks suffice for a lost update. Invocation: three calls show
an overrun beyond one pair, and a budget of one call is crossed at once; `CallBound`
stops the counter after four answered calls, three past the limit. Trust: three
agents and two rows make a chain of two delegations, a fork, a join and a cycle,
revoked from any of its ends while the other revocation is at any point.
Deployment: stop and redeploy may take the same row, the running one or the one
that the promotion is deploying, and each ends where it likes; the request that
makes the promotion goes on to execute it, or leaves it to be approved. How
requests meet on a promotion is for the other run, which needs no gateway.
Promotion: one promotion, since requests on different promotions share nothing
but deployments, which are always fresh; four requests on it are every pair of
kinds, with two deployments for four that deploy, so that some find none left
and raise; two that deploy and a third that approves are enough to close a
promotion twice, with and without another at work.
Deliveries: two are a delivery and its retry, or two that overlap at the
counter; two posts have a first, which may be repeated, and a last; results
have one between. Billing: two calls lose an update; two periods are opened side
by side, and two closings close one of them twice; two records are one more than a
sum takes in. Invitations: of three accepts,
two may meet and the third come late. Limiter: three calls overrun a window of
one by two under way, the clock runs through the longest window but one tick.
Policies: three are a leader, one tied with it and one outranked, of which any may
raise; an engine that fails open answers otherwise than one without a match.
Deadlock checking is off where the system may stop: everybody may have
finished and no more requests may come.

### What the counterexamples say

- `RejectionIsFinal`: a reviewer reads the request, another rejects it, the first
  one's approve saves its copy, in which nobody rejected: the request is pending
  with one approval, and the rejection is lost. The code promises that one
  rejection is enough.
- `HardLimitBlocks`: each request builds its own governance service, whose budget
  says that nothing was spent. A second call goes out after the first has used
  up the budget, and so does every later one.
- `EveryDelegateRevoked`: the first revocation marks the chain of its target and
  the row to its delegate, then fails. The delegate is still trusted. Asked
  again, the search follows active rows, finds none, and reports success.

- `CompletedMeansPromoted`: the gateway refuses the agent, `deploy` handles that and
  returns the deployment as failed, and `execute`, which does not look at its status,
  marks the promotion completed.
- `DeployedOnApproval`: a promotion to production is pending and waits for its
  approval. `POST /{id}/execute`, "Manually execute a pending or approved promotion"
  (`api/promotions.py:378`), takes it as it is and deploys. The flow of
  `docs/17-promotions/00-environment-promotion.md:200-221` has "Wait for Approval"
  between the two.

Fairness is assumed in two runs. `ComesToRest` is checked under `FairSystemSpec`
(`MCSystemSpec` in the run):
weak fairness of `Serve` for every call once it has begun, since the event loop
resumes each coroutine whose await is over, and the requests to the gateway have
a timeout. Beginning a call, losing one and what promotions do themselves are not
fair. `PromiseKept` says that each
delivery ends, under weak fairness of the steps of each delivery that has begun:
asyncio schedules its task, a post is answered or times out after 30 seconds,
and the database answers or raises. Events, retries, edits of the webhook and
the end of the process are not fair. Everything else is a safety
property: no scheduler calls `process_expired_requests` or `escalate`, and
nothing retries a failed revocation or executes an approved promotion, so no
fairness of theirs could be justified by the code.

## 5. Proofs

Each proof module extends its component and proves, for every value of the
constants that meets the named assumption, an inductive invariant
(`Init => IInv`, `IInv /\ [Next]_vars => IInv'`), one step per action.

- `ApprovalRulesProofs`: lemmas on the handlers (a vote, a closing, a timeout keep
  a row typed, consistent and impartial; each is a step of `ApprovalLifecycle`),
  shared by the two managers, and what follows from the promise alone, for any
  store that keeps it: `LifecycleGrantedByQuorum`, `LifecycleDecidedStays`.
- `ApprovalManagerProofs`: `TypeOK`, `RowsSound`, and then `ToldTheTruth` and the
  refinement of `ApprovalLifecycle`. `RowsSound` alone is not inductive: a sweep
  acts on requests without looking at their status. `SweepsHoldOverdue` says that
  what a sweep holds is past its deadline and approved only where the workflow
  approves on timeout, hence no vote counts on it any more.
- `ApprovalDataFlowProofs`: the strengthening `CopiesSound` carries soundness over
  to the copies on their way to the database; it yields `RowsSound`,
  `SystemWaitsForDeadline` and, for a single approver, `NeverReopened`. While no two
  parties work on one request (`OneAtATime`), a copy is what the row still says
  (`CopiesFresh`): decisions are final and `ApprovalLifecycle` is implemented.
- `AgentInvocationProofs`: `ObjectsKnown` (which budget objects exist and who holds
  them) makes the bound on the overrun inductive, `TrailStep` (what the trail
  holds at each step) makes `TrailSound` so. With one service whose limits are
  read once (`ReadOnce`) the hard limit blocks; with calls one at a time (`OneCall`)
  `SerialSound` bounds what is answered by the budget.
- `TrustCascadeProofs`: `ReportTrue` and `OnlyDownstreamRevoked` rest on `JobsSound`:
  what a cascade has found lies downstream of its target, what it has still to do
  is among what it found, and the rest of that is revoked or had no chain.
  Downstream is defined by closed sets of agents, not by recursion, so that one
  row more (`DownstreamStep`) and rows added or revoked (`DownstreamGrows`) are lemmas
  about sets, and `JobsKept` reduces each step to the job that takes it.
  `CascadeReaches` rests on `ReachSound`: what a cascade has searched is closed
  under the rows that are not late, a row that was revoked leads to somebody on
  the list of the cascade that did it, and who lay downstream and is not settled
  still lies downstream of what has been found. `LastOneReaches` is what that comes
  to when no other revocation is running at the end.
- `DeploymentProofs`: the safety properties and the refinement of `DeploymentPromise`
  rest on `Sound`: the deployment of a call is its own and nobody registers it
  but that call (`NewSound`), what a stop goes by stays true (`OldSound`), each kind of
  call keeps to its steps, and a row not made has nothing to its name. Then the
  composition: every step of the whole is one of `Deployment` (`SystemRefines`), which
  brings all of the above over, and one of `Promotion` (`SystemKeepsPromotion`), where
  a step of a call is what the promise allows the request that awaits it
  (`ServeSeen`). `PromotionProofs` is instanced with the state of the whole, so that
  its theorems hold of promotions over the service as it is coded
  (`SystemApprovedFirst` and the four after it). `SystemCompletedIsServed` takes one
  fact from each side.
- `PromotionProofs`: `RequestsSound` ties each request to its promotion and its call
  of deploy, `DecisionsSound` says that what let a request go on to deploy stays
  true; `ApprovedFirst` follows at once, and `StrandedByError` is inductive with
  them. `ClosedOnce` and `ClosingStands` rest on `ClosingSound`: once a request has
  closed a promotion, nobody may decide it again, and who is still at work on it was
  so when the first one closed it, unless an approval reopens it. `NamesItsDeployment`
  rests on `NamingSound`, that only the request whose deployment is named can still
  write to an undisturbed promotion. A step of a request either leaves all
  promotions alone and closes nothing (`Keeps`), approves one, or closes one
  (`Writes`); lemmas say once what each kind changes. `PromiseSound`
  gives what follows from the promise alone (`PromiseMadeOnce`,
  `PromiseReturnedIsSettled`), and with it `PromotionCompletedIsSettled`.

- `ServicesProofs`, for both instances above. Webhooks: `DeliveryStep` (what the row,
  the receiver and the task hold at each step), `RetriedStays`, `CountStep` (the
  counter while nothing is blurred) and `CounterStep` (while nothing is torn) give
  the three properties and the safety of `DeliveryPromise`; `SenderStep` does for
  `AgentDelivery`. Billing: `QuotaInv` (what a call has read is at most what was
  counted, and equals the counter unless crossed), `PeriodInv` (a sum on its way to
  a period and a sum on a bill both account for all of their month). Invitations:
  `InvitesInv` (two calls that both take an invitation have met). Limiter: `CallsHold` (the store has what happened) and `PassedBounded`:
  the calls ahead of one that was let through, in its window or under way, are
  fewer than the limit and those that were under way when it began. Engine:
  `InOrder`, and, as there are finitely many policies, one that leads; a change of
  one policy can only change the leader to it or from it.

What is left of the violated properties is proved, too. Each has a condition, or
a weaker conclusion, under which the code keeps its word:

| Violated | Proved instead |
|---|---|
| `RejectionIsFinal` | `DataFlowDecidedIsFinal`: with one party at a request at a time, what is decided stays as it is |
| `HardLimitBlocks` | `InvocationHardLimit`: with one service for all requests, whose limits are read once, it holds; `InvocationWithinLimit`: with calls one at a time the budget is kept |
| `EveryDelegateRevoked` | `CascadeLastOneReaches`: nobody stays trusted who lay downstream along active rows when the revocation began, but for whom a failed one gave up or any passed over |
| `DeployedOnApproval` | `PromotionApprovedFirst`: what create and approve deploy keeps to it |
| `CompletedMeansPromoted` | `PromotionCompletedIsSettled`: the deployment named has come to rest, failed ones included; `SystemCompletedIsServed`: an active one is served |

The conditions are hypotheses about behaviours (`Spec /\ []OneAtATime => ...`), which
TLC has explored as state constraints of the runs: with them the conclusions
hold, without them it finds counterexamples.

The assumptions are `ApprovalAssumption`, `InvocationAssumption`,
`TrustAssumption`, `DeploymentAssumption`, `PromiseAssumption`,
`PromotionAssumption`, `CompositionAssumption`, `WebhookAssumption`, `AgentAssumption`,
`AccountsAssumption`, `LimiterAssumption` and `EngineAssumption`: finite sets of
people, tasks, calls and policies, distinct markers, Boolean settings, at least one
approver and one post, requests and calls of one kind each, a minute no longer
than the other windows. TLC evaluates
them in each run.

Only model-checked: `ComesToRest` and the end of each delivery, as liveness is
beyond the prover; the safety of the promise is proved (`WebhookKeepsPromise`,
`AgentKeepsPromise`), and so is every other property of a run that passes. The
violated properties are not theorems. Sequences and arithmetic of money do not occur; of sets, sizes
do; no operator is recursive.

## 6. Not modelled

The components marked so in `PROJECT.json`: those of the plan above, and those
whose operations read or write single rows (teams, users, agents, connectors),
only format or aggregate (metrics, audit), or run outside the repository (Kailash
runtime, providers of sign-on, front end). Much of the Python in the repository
is the documentation of the SDK (`src/sdk-users`), examples that this
program neither imports nor runs.

Some operations that are modelled have no caller in the application as it is
wired: `process_expired_requests`, `escalate`, `record_usage`, `initialize_quotas`, the
sweep of invitations, the rate limiter and the policy engine. They are modelled
as their service offers them.

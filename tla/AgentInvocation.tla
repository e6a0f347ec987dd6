--------------------------- MODULE AgentInvocation ---------------------------
(***************************************************************************)
(* ExternalAgentService.invoke and the budget of GovernanceService that it *)
(* checks before the call to the external agent and charges after it       *)
(* (external_agent_service.py, governance_service.py, budget_enforcer.py), *)
(* for one agent, in production mode (a check that fails denies).          *)
(*                                                                         *)
(* A budget is an object in memory: the first check of a service reads the *)
(* agent's limits from the database, makes an object that says nothing was *)
(* spent, and caches it for good; charging adds to the cached object.  The *)
(* model counts in invocations, since each is estimated and charged at the *)
(* same 0.05 USD: Limit is how many of them the tightest pays for of the   *)
(* limits that count, the monthly one, the one on executions, and the      *)
(* daily one unless it is none or 0, which the check takes for none.       *)
(***************************************************************************)
EXTENDS Integers, FiniteSets

CONSTANTS
    Tasks,        \* requests to the API being served at the same time
    Shared,       \* the one service of a process that keeps it
    PerRequest,   \* does each request build its own service (as api/ does)?
    None,         \* no budget object
    Limit,        \* how many invocations the budget pays for
    CallBound     \* no call begins once so many were answered

ASSUME InvocationAssumption ==
    /\ IsFiniteSet(Tasks) /\ Tasks # {}
    /\ Shared \notin Tasks /\ None \notin Tasks
    /\ PerRequest \in BOOLEAN
    /\ Limit \in Nat /\ CallBound \in Nat

VARIABLES
    cache,        \* cache[s]: the object in _budget_cache of service s
    spent,        \* spent[t]: what the object that t made says was spent
    made,         \* the tasks that made an object
    call,         \* call[t]: where t is, and the trail of its call
    answered      \* how many calls the agent has answered

vars == <<cache, spent, made, call, answered>>

\* An object is known by the task that made it, which makes one at most: a
\* service that has one never looks for another.  (A service of its own dies
\* with the request, and its object with it.)
Service(t) == IF PerRequest THEN t ELSE Shared

Over == {"idle", "returned", "raised"}

\* The steps at whose start a call has been admitted and not charged.
Admitted == {"opening", "calling"}

PCs == Over \cup Admitted \cup
    {"reading", "storing", "marking", "logging", "replying", "failing", "failLogging"}

\* held is the object being charged; lineage the InvocationLineage row of the
\* call; logs the statuses of its ExternalAgentInvocation rows, each with a
\* webhook delivery; paid tells whether the call was charged.
Call == [pc: PCs, held: Tasks \cup {None}, paid: BOOLEAN,
         lineage: {"none", "pending", "success", "failure"},
         logs: SUBSET {"success", "failed"}]

NoCall == [pc |-> "idle", held |-> None, paid |-> FALSE, lineage |-> "none", logs |-> {}]

TypeOK ==
    /\ cache \in [Tasks \cup {Shared} -> Tasks \cup {None}]
    /\ spent \in [Tasks -> Nat]
    /\ made \subseteq Tasks
    /\ call \in [Tasks -> Call]
    /\ answered \in Nat

Init ==
    /\ cache = [s \in Tasks \cup {Shared} |-> None]
    /\ spent = [t \in Tasks |-> 0]
    /\ made = {}
    /\ call = [t \in Tasks |-> NoCall]
    /\ answered = 0

Go(t, pc) == call' = [call EXCEPT ![t].pc = pc]

-----------------------------------------------------------------------------
\* Mutant: a call may start while one more than the limit was spent.
VerdictLate(used) == IF used <= Limit THEN "opening" ELSE "raised"

\* ExternalAgentBudgetEnforcer.check_budget in hard mode: the estimate must not
\* exceed what is left of any limit that counts.
Verdict(used) == IF used + 1 > Limit THEN "raised" ELSE "opening"

\* invoke: the agent is there, no rate limiter is set up, and the budget is
\* looked up; a cached one is checked without suspending.
Begin(t) ==
    LET known == IF PerRequest THEN None ELSE cache[Shared] IN
    /\ call[t].pc \in Over
    /\ answered < CallBound
    /\ call' = [call EXCEPT ![t] = [NoCall EXCEPT
           !.pc = IF known = None THEN "reading" ELSE Verdict(spent[known])]]
    /\ UNCHANGED <<cache, spent, made, answered>>

\* The read that _get_agent_budget awaits is answered.  Whatever the cache
\* holds by now is replaced, and the check is on the new object.
BudgetRead(t) ==
    /\ call[t].pc = "reading"
    /\ spent' = [spent EXCEPT ![t] = 0]
    /\ made' = made \cup {t}
    /\ cache' = [cache EXCEPT ![Service(t)] = t]
    /\ Go(t, Verdict(0))
    /\ UNCHANGED answered

\* The read fails, or finds no agent: denied.
BudgetReadFails(t) ==
    /\ call[t].pc = "reading"
    /\ Go(t, "raised")
    /\ UNCHANGED <<cache, spent, made, answered>>

\* create_lineage_record: not called without external headers, its ValueError
\* is swallowed, another exception ends the call.
OpenLineage(t) ==
    /\ call[t].pc = "opening"
    /\ \/ \E row \in {"none", "pending"} :
              call' = [call EXCEPT ![t].lineage = row, ![t].pc = "calling"]
       \/ Go(t, "raised")
    /\ UNCHANGED <<cache, spent, made, answered>>

\* No answer within 30 seconds, no connection, or a body that is not JSON.
PostFails(t) ==
    /\ call[t].pc = "calling"
    /\ Go(t, "failing")
    /\ UNCHANGED <<cache, spent, made, answered>>

\* Mutant: the charge is not added to the object in memory.
AnswerUncounted(t) ==
    LET b == cache[Service(t)] IN
    /\ call[t].pc = "calling"
    /\ answered' = answered + 1
    /\ call' = [call EXCEPT ![t].pc = "storing", ![t].held = b, ![t].paid = TRUE]
    /\ UNCHANGED <<cache, spent, made>>

\* The agent answers, whatever the HTTP status; record_invocation_cost takes
\* the object that is cached now, and record_usage adds to it at once.
Answer(t) ==
    LET b == cache[Service(t)] IN
    /\ call[t].pc = "calling"
    /\ answered' = answered + 1
    /\ spent' = [spent EXCEPT ![b] = @ + 1]
    /\ call' = [call EXCEPT ![t].pc = "storing", ![t].held = b, ![t].paid = TRUE]
    /\ UNCHANGED <<cache, made>>

\* The usage record is stored or not (the failure is swallowed), and the
\* object that was charged becomes the cached one, again.
Store(t) ==
    /\ call[t].pc = "storing"
    /\ cache' = [cache EXCEPT ![Service(t)] = call[t].held]
    /\ call' = [call EXCEPT ![t].pc = "marking", ![t].held = None]
    /\ UNCHANGED <<spent, made, answered>>

-----------------------------------------------------------------------------
Mark(t, status, next) ==
    call' = [call EXCEPT ![t].pc = next,
                         ![t].lineage = IF @ = "none" THEN @ ELSE status]

\* update_lineage_result, or an exception out of it.
MarkSuccess(t) ==
    /\ call[t].pc = "marking"
    /\ Mark(t, "success", "logging") \/ Go(t, "failing")
    /\ UNCHANGED <<cache, spent, made, answered>>

\* log_invocation and the webhook delivery it is followed by, whose exceptions
\* are swallowed; or an exception out of log_invocation.
LogSuccess(t) ==
    /\ call[t].pc = "logging"
    /\ \/ call' = [call EXCEPT ![t].pc = "replying", ![t].logs = @ \cup {"success"}]
       \/ Go(t, "failing")
    /\ UNCHANGED <<cache, spent, made, answered>>

\* The reply is built from the body; one that is not an object raises.
Reply(t) ==
    /\ call[t].pc = "replying"
    /\ \E end \in {"returned", "failing"} : Go(t, end)
    /\ UNCHANGED <<cache, spent, made, answered>>

\* Mutant: the handler of the exception forgets the lineage row.
MarkNothing(t) ==
    /\ call[t].pc = "failing"
    /\ Go(t, "failLogging")
    /\ UNCHANGED <<cache, spent, made, answered>>

\* The handler of any exception since the post.
MarkFailure(t) ==
    /\ call[t].pc = "failing"
    /\ Mark(t, "failure", "failLogging") \/ Go(t, "raised")
    /\ UNCHANGED <<cache, spent, made, answered>>

LogFailure(t) ==
    /\ call[t].pc = "failLogging"
    /\ \/ call' = [call EXCEPT ![t].pc = "raised", ![t].logs = @ \cup {"failed"}]
       \/ Go(t, "raised")
    /\ UNCHANGED <<cache, spent, made, answered>>

Next ==
    \E t \in Tasks :
        \/ Begin(t)
        \/ BudgetRead(t)
        \/ BudgetReadFails(t)
        \/ OpenLineage(t)
        \/ PostFails(t)
        \/ Answer(t)
        \/ Store(t)
        \/ MarkSuccess(t)
        \/ LogSuccess(t)
        \/ Reply(t)
        \/ MarkFailure(t)
        \/ LogFailure(t)

Spec == Init /\ [][Next]_vars

-----------------------------------------------------------------------------
\* The calls that were admitted and are not charged yet.
InFlight == {t \in Tasks : call[t].pc \in Admitted}

\* A service that keeps its budget counts each answered call once, as long as
\* no second request began while the first one read the limits: only that may
\* hide what was spent.
CountsWhatItSpends ==
    ~PerRequest /\ Cardinality(made) = 1 =>
        cache[Shared] \in made /\ spent[cache[Shared]] = answered

\* Check and charge are apart, so calls that check together may all be
\* admitted; but, again unless first reads overlapped, what was answered and
\* what is in flight never pass the limit by more than the requests served at
\* the same time, less one.  (With two objects there is no such bound: a charge
\* in progress may put the old object back over the new one, and the calls
\* admitted under one are charged to the other.)
BoundedOverrun ==
    ~PerRequest /\ Limit > 0 /\ Cardinality(made) <= 1 =>
        answered + Cardinality(InFlight) <= Limit - 1 + Cardinality(Tasks)

\* The trail of a call: what was returned was charged, logged once and marked
\* a success; a call whose trail says success was charged; and a call that has
\* logged a failure has no lineage row that says success or is open.
TrailSound ==
    \A t \in Tasks :
        LET c == call[t] IN
        /\ c.pc = "returned" => c.paid /\ c.logs = {"success"}
                                       /\ c.lineage \in {"none", "success"}
        /\ "success" \in c.logs \/ c.lineage = "success" => c.paid
        /\ "failed" \in c.logs => c.lineage \in {"none", "failure"}

\* "Hard enforcement: Block requests when budget is exceeded"
\* (docs/features/governance/budget-enforcement/00-overview.md): no call is
\* admitted once the calls that were answered have used up the budget.
HardLimitBlocks ==
    [][\A t \in Tasks :
           call[t].pc # "opening" /\ call'[t].pc = "opening" => answered < Limit]_vars

\* What is read once, by a service that all requests share, has one object.
ReadOnce == Cardinality(made) <= 1

\* One call at a time is under way.
OneCall == \A t1, t2 \in Tasks :
    call[t1].pc \notin Over /\ call[t2].pc \notin Over => t1 = t2

\* The agent has answered no more calls than the budget pays for.
WithinLimit == answered <= Limit

\* The strengthening of TrailSound: what the trail of a call holds at each step.
TrailStep ==
    \A t \in Tasks :
        LET c == call[t] IN
        /\ c.pc \in {"storing", "marking", "logging", "replying"} => c.paid
        /\ c.pc \in Admitted \cup {"reading", "storing", "marking", "logging"} => c.logs = {}
        /\ c.pc \in Admitted \cup {"reading", "storing", "marking"} =>
               c.lineage \in {"none", "pending"}
        /\ c.pc \in {"logging", "replying"} => c.lineage \in {"none", "success"}
        /\ c.pc = "replying" => c.logs = {"success"}
        /\ c.pc \in {"failing", "failLogging"} => "failed" \notin c.logs
        /\ c.pc = "failLogging" => c.lineage \in {"none", "failure"}

\* The strengthening of the other two: a service with an empty cache never made
\* an object and admitted nothing, a reader has made none, and what is cached
\* or being charged was made.
ObjectsKnown ==
    ~PerRequest =>
        /\ cache[Shared] \in made \cup {None}
        /\ cache[Shared] = None => made = {}
        /\ made = {} => answered = 0
        /\ \A t \in Tasks :
               /\ call[t].pc = "reading" => t \notin made
               /\ call[t].pc \in Admitted => made # {}
               /\ call[t].pc = "storing" => call[t].held \in made

\* Where calls do not overlap the limits are read once, and what is admitted is
\* paid for.
SerialSound ==
    /\ \A t \in Tasks :
           /\ call[t].pc = "reading" => made = {}
           /\ call[t].pc \in Admitted => answered < Limit
    /\ \A a, b \in made : a = b
    /\ WithinLimit
=============================================================================

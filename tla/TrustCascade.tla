---------------------------- MODULE TrustCascade -----------------------------
(***************************************************************************)
(* Trust between agents and its revocation (trust_service.py).             *)
(*                                                                         *)
(* establish_trust gives an agent a trust chain, delegate_trust adds a row *)
(* from a delegator to a delegatee, and revoke_cascade takes the trust of  *)
(* an agent and of everybody downstream of it away: it first searches the  *)
(* rows for the agents downstream, then goes through them one by one,      *)
(* marks their chain and each of the rows they delegated.  Every read and  *)
(* every update is awaited on its own and may raise, which ends the call   *)
(* where it is; other calls run in between.  The limits of 1000 rows of an *)
(* agent and of 10000 chains on what a list returns are left out.          *)
(***************************************************************************)
EXTENDS Integers, FiniteSets

CONSTANTS
    Agents,
    Humans,     \* whom a trust chain originates from
    Rows,       \* the ids that delegate_trust may draw
    Revokes,    \* calls of revoke_cascade, one each
    Purges,     \* calls of revoke_by_human, one each
    None        \* no agent, nobody

Jobs == Revokes \cup Purges

ASSUME TrustAssumption == None \notin Agents \cup Humans

VARIABLES
    chain,      \* chain[a]: the chain that get_trust_chain finds for a
    row,        \* row[r]: the TrustDelegation rows
    job,        \* job[j]: the revocation that j runs
    lost,       \* the agents that a failed revocation left trusted
    skipped     \* the agents that had no chain when a revocation came to them

vars == <<chain, row, job, lost, skipped>>

\* A second chain of an agent is never found (the list of one starts with the
\* oldest), so an agent has none, or one that is active until it is revoked.
Chain == [status: {"none", "active", "revoked"}, origin: Humans \cup {None}]

\* late marks a row that was added while some revocation was running.
Row == [status: {"none", "active", "revoked"}, late: BOOLEAN,
        from: Agents \cup {None}, to: Agents \cup {None}]

Running == {"next", "search", "chain", "list", "rows", "audit"}

\* queue: the agents revoke_by_human has still to start with; frontier: found
\* and not searched yet; found: the agents of this cascade (revoked_ids); todo:
\* those whose chain is not revoked yet; cur: whose rows are being revoked;
\* listed: the rows of cur still to be revoked; under: the trusted agents that
\* lay downstream when the cascade began, along rows that were not late.
Job == [pc: Running \cup {"idle", "done"},
        queue: SUBSET Agents, target: Agents \cup {None}, frontier: SUBSET Agents,
        found: SUBSET Agents, todo: SUBSET Agents, cur: Agents \cup {None},
        listed: SUBSET Rows, under: SUBSET Agents]

TypeOK ==
    /\ chain \in [Agents -> Chain]
    /\ row \in [Rows -> Row]
    /\ job \in [Jobs -> Job]
    /\ lost \subseteq Agents
    /\ skipped \subseteq Agents

NoJob == [pc |-> "idle", queue |-> {}, target |-> None, frontier |-> {},
          found |-> {}, todo |-> {}, cur |-> None, listed |-> {},
          under |-> {}]

Init ==
    /\ chain = [a \in Agents |-> [status |-> "none", origin |-> None]]
    /\ row = [r \in Rows |->
                [status |-> "none", from |-> None, to |-> None, late |-> FALSE]]
    /\ job = [j \in Jobs |-> NoJob]
    /\ lost = {}
    /\ skipped = {}

\* Who lies downstream of a along the rows R: everybody in each set of agents
\* that holds a and that no row of R leads out of.
Downstream(a, R) ==
    {b \in Agents : \A S \in SUBSET Agents :
        a \in S /\ (\A r \in R : row[r].from \in S => row[r].to \in S) => b \in S}

AllRows == {r \in Rows : row[r].status # "none"}
ActiveRows == {r \in Rows : row[r].status = "active"}
EarlyRows == {r \in ActiveRows : ~row[r].late}

\* _revoke_delegations_from_agent, _find_downstream_agents: the list nodes.
RowsFrom(a) == {r \in ActiveRows : row[r].from = a}

\* Mutant: the rows are read from delegatee to delegator.
DelegateesBack(a) == {row[r].from : r \in {q \in ActiveRows : row[q].to = a}}

Delegatees(a) == {row[r].to : r \in RowsFrom(a)}

Trusted == {a \in Agents : chain[a].status = "active"}

Quiet == \A j \in Jobs : job[j].pc \notin Running

-----------------------------------------------------------------------------
Establish(a, h) ==
    /\ chain[a].status = "none"
    /\ chain' = [chain EXCEPT ![a] = [status |-> "active", origin |-> h]]
    /\ UNCHANGED <<row, job, lost, skipped>>

\* delegate_trust: the reads before the create check the capabilities of a
\* delegator that has a chain; its status is not looked at, nor is the
\* delegatee.
Delegate(r, a, b) ==
    /\ row[r].status = "none"
    /\ row' = [row EXCEPT ![r] =
                  [status |-> "active", from |-> a, to |-> b, late |-> ~Quiet]]
    /\ UNCHANGED <<chain, job, lost, skipped>>

\* A cascade of job j, in state was, starts at agent a.
Cascade(j, was, a) ==
    /\ job' = [job EXCEPT ![j] = [was EXCEPT
           !.pc = "search", !.target = a, !.frontier = {a}, !.found = {a},
           !.queue = @ \ {a},
           !.under = Trusted \cap Downstream(a, EarlyRows)]]

RevokeAgent(j, a) ==
    /\ job[j].pc = "idle"
    /\ Cascade(j, NoJob, a)
    /\ UNCHANGED <<chain, row, lost, skipped>>

\* revoke_by_human: one list of the active chains, then a cascade for each of
\* those that originate from h.
RevokeHuman(j, h) ==
    /\ job[j].pc = "idle"
    /\ job' = [job EXCEPT ![j] = [NoJob EXCEPT
           !.pc = "next", !.queue = {a \in Trusted : chain[a].origin = h}]]
    /\ UNCHANGED <<chain, row, lost, skipped>>

NextTarget(j) ==
    /\ job[j].pc = "next"
    /\ \E a \in job[j].queue : Cascade(j, job[j], a)
    /\ UNCHANGED <<chain, row, lost, skipped>>

\* One call of _find_downstream_agents, which reads the rows from agent a.  The
\* code goes depth first; here any agent that was found may be read next.
\* Mutant: the search stops at the direct delegatees.
SearchDirect(j) ==
    LET c == job[j] IN
    /\ c.pc = "search"
    /\ \E a \in c.frontier :
           LET new == IF a = c.target THEN Delegatees(a) \ c.found ELSE {}
               rest == (c.frontier \ {a}) \cup new IN
           job' = [job EXCEPT ![j] = [c EXCEPT
               !.frontier = rest, !.found = @ \cup new,
               !.pc = IF rest = {} THEN "chain" ELSE "search",
               !.todo = IF rest = {} THEN c.found \cup new ELSE @]]
    /\ UNCHANGED <<chain, row, lost, skipped>>

Search(j) ==
    LET c == job[j] IN
    /\ c.pc = "search"
    /\ \E a \in c.frontier :
           LET new == Delegatees(a) \ c.found
               rest == (c.frontier \ {a}) \cup new IN
           job' = [job EXCEPT ![j] = [c EXCEPT
               !.frontier = rest, !.found = @ \cup new,
               !.pc = IF rest = {} THEN "chain" ELSE "search",
               !.todo = IF rest = {} THEN c.found \cup new ELSE @]]
    /\ UNCHANGED <<chain, row, lost, skipped>>

\* Where a job is once the rows listed are left and the agents todo are.
After(listed, todo) ==
    IF listed # {} THEN "rows" ELSE IF todo # {} THEN "chain" ELSE "audit"

\* Mutant: a chain that is missing or not active is taken to be revoked, and
\* an active one is only marked when the agent delegated nothing.
RevokeChainIdle(j) ==
    LET c == job[j] IN
    /\ c.pc = "chain"
    /\ \E a \in IF c.target \in c.todo THEN {c.target} ELSE c.todo :
           /\ chain' = [chain EXCEPT ![a].status =
                  IF @ = "none" \/ RowsFrom(a) # {} THEN @ ELSE "revoked"]
           /\ job' = [job EXCEPT ![j] = [c EXCEPT
                  !.pc = "list", !.cur = a, !.todo = @ \ {a}]]
           /\ skipped' = IF chain[a].status = "none" THEN skipped \cup {a} ELSE skipped
    /\ UNCHANGED <<row, lost>>

\* _revoke_chain: the target first, then the agents downstream of it.
RevokeChain(j) ==
    LET c == job[j] IN
    /\ c.pc = "chain"
    /\ \E a \in IF c.target \in c.todo THEN {c.target} ELSE c.todo :
           /\ chain' = [chain EXCEPT ![a].status = IF @ = "none" THEN @ ELSE "revoked"]
           /\ job' = [job EXCEPT ![j] = [c EXCEPT
                  !.pc = "list", !.cur = a, !.todo = @ \ {a}]]
           /\ skipped' = IF chain[a].status = "none" THEN skipped \cup {a} ELSE skipped
    /\ UNCHANGED <<row, lost>>

\* _revoke_delegations_from_agent: the list, then one update for each row.
ListRows(j) ==
    LET c == job[j] IN
    /\ c.pc = "list"
    /\ job' = [job EXCEPT ![j].listed = RowsFrom(c.cur), ![j].cur = None,
                          ![j].pc = After(RowsFrom(c.cur), c.todo)]
    /\ UNCHANGED <<chain, row, lost, skipped>>

\* Mutant: a row is closed with a status of its own.
RevokeRowMisnamed(j) ==
    LET c == job[j] IN
    /\ c.pc = "rows"
    /\ \E r \in c.listed :
           /\ row' = [row EXCEPT ![r].status = "inactive"]
           /\ job' = [job EXCEPT ![j].listed = @ \ {r},
                                 ![j].pc = After(c.listed \ {r}, c.todo)]
    /\ UNCHANGED <<chain, lost, skipped>>

RevokeRow(j) ==
    LET c == job[j] IN
    /\ c.pc = "rows"
    /\ \E r \in c.listed :
           /\ row' = [row EXCEPT ![r].status = "revoked"]
           /\ job' = [job EXCEPT ![j].listed = @ \ {r},
                                 ![j].pc = After(c.listed \ {r}, c.todo)]
    /\ UNCHANGED <<chain, lost, skipped>>

\* _record_audit, the last step of a cascade, and the return: what only this
\* cascade needed is forgotten.
Audit(j) ==
    LET c == job[j] IN
    /\ c.pc = "audit"
    /\ job' = [job EXCEPT ![j] = [NoJob EXCEPT
           !.pc = IF c.queue = {} THEN "done" ELSE "next", !.queue = c.queue]]
    /\ UNCHANGED <<chain, row, lost, skipped>>

\* An await raises, or the process ends: nobody takes up what was left.
Fail(j) ==
    /\ job[j].pc \in Running
    /\ job' = [job EXCEPT ![j] = [NoJob EXCEPT !.pc = "done"]]
    /\ lost' = lost \cup (job[j].todo \cap Trusted)
    /\ UNCHANGED <<chain, row, skipped>>

Next ==
    \/ \E a \in Agents, h \in Humans : Establish(a, h)
    \/ \E r \in Rows, a, b \in Agents : Delegate(r, a, b)
    \/ \E j \in Revokes, a \in Agents : RevokeAgent(j, a)
    \/ \E j \in Purges, h \in Humans : RevokeHuman(j, h)
    \/ \E j \in Jobs :
           \/ NextTarget(j)
           \/ Search(j)
           \/ RevokeChain(j)
           \/ ListRows(j)
           \/ RevokeRow(j)
           \/ Audit(j)
           \/ Fail(j)

Spec == Init /\ [][Next]_vars

-----------------------------------------------------------------------------
\* What a cascade reports when it is through with its agents is true: each of
\* them has its chain revoked, except those that had none when a revocation came
\* to them (which may get one later, and keep it).
ReportTrue ==
    \A j \in Jobs : job[j].pc = "audit" =>
        \A a \in job[j].found \ skipped : chain[a].status = "revoked"

\* Nobody need look after a any more, or somebody still does or gave up.
Settled(a) ==
    \/ chain[a].status = "revoked"
    \/ a \in lost \cup skipped
    \/ \E k \in Jobs : a \in job[k].todo

\* However revocations overlap, one that is through leaves nobody trusted who was
\* when it began, downstream of its target, unless another one still has him on
\* its list, or had when it failed, or came to him before he had a chain.  Only
\* rows that were added while no revocation was running count: a later one may
\* be revoked by a cascade that searched before it was there, and its delegatee
\* is then on nobody's list.  The lists are taken to be complete: the code
\* cuts the rows of an agent at 1000 and the active chains at 10000
\* (trust_service.py:564, 661 and 751), and beyond that agents stay trusted.
CascadeReaches ==
    \A j \in Jobs : job[j].pc = "audit" =>
        \A a \in job[j].under : Settled(a)

\* Nobody loses trust except to a cascade whose target he lies downstream of,
\* along rows of any status.
OnlyDownstreamRevoked ==
    [][\A a \in Agents : chain'[a].status = "revoked" /\ chain[a].status # "revoked" =>
          \E j \in Jobs :
              job[j].pc = "chain" /\ a \in Downstream(job[j].target, AllRows)]_vars

\* "Revokes the target agent and ALL agents that received delegated trust from it
\* (recursively)" (api/trust.py, revoke_cascade): when a revocation is through and
\* no other is running, nobody whom an earlier one left trusted is still so if he
\* received trust from the target, by rows of any status that are not late.
EveryDelegateRevoked ==
    \A j \in Jobs :
        job[j].pc = "audit" /\ (\A k \in Jobs \ {j} : job[k].pc \notin Running) =>
            \A a \in (lost \ skipped) \cap
                     Downstream(job[j].target, {r \in AllRows : ~row[r].late}) :
                chain[a].status = "revoked"

\* So much is true of it: a revocation that is through while no other is running
\* leaves nobody trusted who lay downstream when it began, along active rows that
\* are not late, but for those whom one that failed gave up or any passed over.
LastOneReaches ==
    \A j \in Jobs :
        job[j].pc = "audit" /\ (\A k \in Jobs \ {j} : job[k].pc \notin Running) =>
            \A a \in job[j].under \ (lost \cup skipped) : chain[a].status = "revoked"

-----------------------------------------------------------------------------
\* The strengthening of ReportTrue and OnlyDownstreamRevoked: a stored row names
\* two agents; what a cascade has found lies downstream of its target, what it
\* has still to do is among what it found, and the rest of that is revoked.
RowsMade == \A r \in AllRows : row[r].from \in Agents /\ row[r].to \in Agents

Reachable(c) ==
    /\ c.target \in Agents
    /\ c.frontier \cup c.todo \cup {c.target} \subseteq c.found
    /\ c.found \subseteq Downstream(c.target, AllRows)
    /\ c.listed \subseteq AllRows

RevokedSoFar(c) ==
    \A a \in c.found \ (c.todo \cup skipped) : chain[a].status = "revoked"

CascadeSound(c) ==
    /\ c.pc \in Running \ {"next"} => Reachable(c)
    /\ c.pc \in Running \ {"next", "search"} => RevokedSoFar(c)
    /\ c.pc \in {"next", "audit"} => c.todo = {}
    /\ c.pc = "next" => c.listed = {}

JobsSound == \A j \in Jobs : CascadeSound(job[j])

\* The strengthening of CascadeReaches: what a cascade has searched is closed
\* under the rows that are not late, and so is what it revokes; who lay
\* downstream and is not settled still lies downstream of what it has found.
Closed(S) == \A r \in EarlyRows : row[r].from \in S => row[r].to \in S

SearchReach(c) ==
    /\ c.listed = {}
    /\ \A r \in EarlyRows : row[r].from \in c.found \ c.frontier => row[r].to \in c.found
    /\ \A S \in SUBSET Agents : c.found \subseteq S /\ Closed(S) =>
           \A a \in c.under : a \in S \/ Settled(a)

RevokeReach(c) ==
    /\ Closed(c.found)
    /\ \A a \in c.under : Settled(a)
    /\ \A r \in c.listed : ~row[r].late => row[r].to \in c.found

CascadeReach(c) ==
    /\ c.pc \in {"idle", "search", "done"} => c.todo = {}
    /\ c.pc \in Running \ {"next"} => \A a \in c.under : chain[a].status # "none"
    /\ c.pc = "search" => SearchReach(c)
    /\ c.pc \in Running \ {"next", "search"} => RevokeReach(c)
    /\ c.pc = "list" => c.cur \in c.found

ReachSound == \A j \in Jobs : CascadeReach(job[j])
=============================================================================

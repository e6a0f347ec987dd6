------------------------- MODULE TrustCascadeProofs --------------------------
(***************************************************************************)
(* Proofs about TrustCascade: its types, what a cascade reports, that      *)
(* nobody loses trust who does not lie downstream of its target, and that  *)
(* a cascade reaches whom it has to, for any number of agents, delegations *)
(* and revocations that overlap and fail.                                  *)
(***************************************************************************)
EXTENDS TrustCascade, TLAPS

IInv == TypeOK /\ RowsMade /\ JobsSound

-----------------------------------------------------------------------------
\* Every agent lies downstream of itself.
LEMMA DownstreamSelf ==
    ASSUME NEW a \in Agents
    PROVE  a \in Downstream(a, AllRows)
BY DEF Downstream

\* A row leads from an agent downstream to another one downstream.
LEMMA DownstreamStep ==
    ASSUME NEW t, NEW r \in AllRows, row[r].to \in Agents,
           row[r].from \in Downstream(t, AllRows)
    PROVE  row[r].to \in Downstream(t, AllRows)
BY DEF Downstream

\* The rows there are stay, and lead from and to the same agents.
RowsStay ==
    \A r \in AllRows :
        r \in AllRows' /\ row'[r].from = row[r].from /\ row'[r].to = row[r].to

\* Rows that are added or revoked take nobody away from downstream of t.
LEMMA DownstreamGrows ==
    ASSUME RowsStay, NEW t
    PROVE  Downstream(t, AllRows) \subseteq Downstream(t, AllRows)'
<1> SUFFICES ASSUME NEW b \in Downstream(t, AllRows), NEW S \in SUBSET Agents,
                    t \in S, \A r \in AllRows' : row'[r].from \in S => row'[r].to \in S
             PROVE  b \in S
  BY DEF Downstream
<1>1. \A r \in AllRows : row[r].from \in S => row[r].to \in S
  BY DEF RowsStay
<1> QED
  BY <1>1 DEF Downstream

\* What revocations have done stays done.
RevokedStays ==
    /\ \A a \in Agents : chain[a].status = "revoked" => chain'[a].status = "revoked"
    /\ skipped \subseteq skipped'

\* A cascade that another step leaves alone stays sound.
LEMMA CascadeKept ==
    ASSUME RowsStay, RevokedStays, NEW c \in Job, CascadeSound(c)
    PROVE  CascadeSound(c)'
<1>1. Reachable(c) => Reachable(c)'
  BY DownstreamGrows DEF Reachable, RowsStay
<1>2. RevokedSoFar(c) => RevokedSoFar(c)'
  BY DEF RevokedSoFar, RevokedStays, Job
<1> QED
  BY <1>1, <1>2 DEF CascadeSound

\* So it remains to look at the job that a step belongs to.
LEMMA JobsKept ==
    ASSUME TypeOK, JobsSound, RowsStay, RevokedStays,
           NEW j \in Jobs, NEW c \in Job, job' = [job EXCEPT ![j] = c],
           CascadeSound(c)'
    PROVE  JobsSound'
<1> SUFFICES ASSUME NEW k \in Jobs
             PROVE  CascadeSound(job[k])'
  BY DEF JobsSound
<1>1. CASE k = j
  <2>1. job'[k] = c
    BY <1>1 DEF TypeOK
  <2> QED
    BY <2>1 DEF CascadeSound, Reachable, RevokedSoFar
<1>2. CASE k # j
  <2>1. job'[k] = job[k] /\ job[k] \in Job /\ CascadeSound(job[k])
    BY <1>2 DEF TypeOK, JobsSound
  <2>2. CascadeSound(job[k])'
    BY <2>1, CascadeKept DEF CascadeSound, Reachable, RevokedSoFar
  <2> QED
    BY <2>2
<1> QED
  BY <1>1, <1>2

-----------------------------------------------------------------------------
LEMMA InitIInv == Init => IInv
<1> SUFFICES ASSUME Init PROVE IInv
  OBVIOUS
<1>1. TypeOK
  BY TrustAssumption DEF Init, TypeOK, NoJob, Job, Chain, Row, Running
<1>2. RowsMade
  BY DEF Init, RowsMade, AllRows
<1>3. JobsSound
  BY DEF Init, JobsSound, CascadeSound, NoJob, Running
<1> QED
  BY <1>1, <1>2, <1>3 DEF IInv

\* A step that changes no row and takes back no revocation.
LEMMA NoRowChanged ==
    ASSUME UNCHANGED row
    PROVE  RowsStay /\ (RowsMade => RowsMade')
BY DEF RowsStay, RowsMade, AllRows

LEMMA NoChainChanged ==
    ASSUME UNCHANGED chain, skipped \subseteq skipped'
    PROVE  RevokedStays
BY DEF RevokedStays

\* Steps that belong to no job.
LEMMA JobsUntouched ==
    ASSUME TypeOK, JobsSound, RowsStay, RevokedStays, UNCHANGED job
    PROVE  JobsSound'
<1> SUFFICES ASSUME NEW k \in Jobs
             PROVE  CascadeSound(job[k])'
  BY DEF JobsSound
<1>1. job'[k] = job[k] /\ job[k] \in Job /\ CascadeSound(job[k])
  BY DEF TypeOK, JobsSound
<1> QED
  BY <1>1, CascadeKept DEF CascadeSound, Reachable, RevokedSoFar

\* What a cascade that starts is.
Started(was, a) ==
    [was EXCEPT !.pc = "search", !.target = a, !.frontier = {a}, !.found = {a},
                !.queue = @ \ {a},
                !.under = Trusted \cap Downstream(a, EarlyRows)]

LEMMA CascadeStep ==
    ASSUME IInv, NEW j \in Jobs, NEW a \in Agents, NEW was \in Job,
           was.todo = {}, was.listed = {}, Cascade(j, was, a), UNCHANGED <<chain, row, lost, skipped>>
    PROVE  IInv'
<1>1. Started(was, a) \in Job
  BY DEF Started, Job, Running, Trusted
<1>2. PICK c \in Job : c = Started(was, a)
  BY <1>1
<1>3. job' = [job EXCEPT ![j] = c]
  BY <1>2 DEF Cascade, Started
<1>4. RowsStay /\ RevokedStays /\ RowsMade'
  BY NoRowChanged, NoChainChanged DEF IInv
<1>5. /\ c.pc = "search" /\ c.target = a /\ c.frontier = {a} /\ c.found = {a}
      /\ c.todo = {} /\ c.listed = {}
  BY <1>2 DEF Started, Job
<1>6. CascadeSound(c)
  BY <1>5, DownstreamSelf DEF CascadeSound, Reachable
<1>7. CascadeSound(c)'
  BY <1>4, <1>6, CascadeKept
<1> QED
  BY <1>3, <1>4, <1>7, JobsKept DEF IInv, TypeOK

\* The steps of job j that change no row and no chain are sound when what they
\* make of the job is.
LEMMA JobStep ==
    ASSUME IInv, NEW j \in Jobs, NEW c \in Job, job' = [job EXCEPT ![j] = c],
           UNCHANGED <<chain, row>>, skipped \subseteq skipped',
           skipped' \subseteq Agents, lost' \subseteq Agents, CascadeSound(c)
    PROVE  IInv'
<1>1. RowsStay /\ RevokedStays /\ RowsMade'
  BY NoRowChanged, NoChainChanged DEF IInv
<1>2. CascadeSound(c)'
  BY <1>1, CascadeKept
<1> QED
  BY <1>1, <1>2, JobsKept DEF IInv, TypeOK

LEMMA RevokeHumanStep ==
    ASSUME IInv, NEW j \in Jobs, NEW h \in Humans, RevokeHuman(j, h)
    PROVE  IInv'
<1>1. PICK c \in Job : c = [NoJob EXCEPT
           !.pc = "next", !.queue = {a \in Trusted : chain[a].origin = h}]
  BY DEF NoJob, Job, Running, Trusted
<1>2. CascadeSound(c)
  BY <1>1 DEF CascadeSound, NoJob, Running
<1> QED
  BY <1>1, <1>2, JobStep DEF RevokeHuman, IInv, TypeOK

\* What a job is after it has read the rows from agent a.
Searched(c, a) ==
    LET new == Delegatees(a) \ c.found
        rest == (c.frontier \ {a}) \cup new IN
    [c EXCEPT !.frontier = rest, !.found = @ \cup new,
              !.pc = IF rest = {} THEN "chain" ELSE "search",
              !.todo = IF rest = {} THEN c.found \cup new ELSE @]

LEMMA SearchStep ==
    ASSUME IInv, NEW j \in Jobs, Search(j)
    PROVE  IInv'
<1>1. job[j] \in Job /\ job[j].pc = "search" /\ Reachable(job[j])
  BY DEF IInv, TypeOK, JobsSound, CascadeSound, Search, Running
<1>2. PICK a \in job[j].frontier : job' = [job EXCEPT ![j] = Searched(job[j], a)]
  BY DEF Search, Searched
<1>3. Delegatees(a) \subseteq Agents \cap Downstream(job[j].target, AllRows)
  <2>1. a \in Downstream(job[j].target, AllRows)
    BY <1>1 DEF Reachable
  <2> SUFFICES ASSUME NEW r \in RowsFrom(a)
               PROVE  row[r].to \in Agents \cap Downstream(job[j].target, AllRows)
    BY DEF Delegatees
  <2>2. r \in AllRows /\ row[r].from = a
    BY DEF RowsFrom, ActiveRows, AllRows
  <2> QED
    BY <2>1, <2>2, DownstreamStep DEF IInv, RowsMade
<1>4. PICK c \in Job : c = Searched(job[j], a)
  BY <1>1, <1>3 DEF Job, Running, Searched
<1>5. Reachable(c)
  BY <1>1, <1>3, <1>4 DEF Reachable, Job, Searched
<1>6. c.pc \in {"search", "chain"} /\ (c.pc = "chain" => c.todo = c.found)
  BY <1>1, <1>4 DEF Job, Searched
<1>7. CascadeSound(c)
  BY <1>5, <1>6 DEF CascadeSound, RevokedSoFar, Running
<1> QED
  BY <1>2, <1>4, <1>7, JobStep DEF Search, IInv, TypeOK

\* The chain of an agent is revoked, or there is none.
LEMMA RevokeChainStep ==
    ASSUME IInv, NEW j \in Jobs, RevokeChain(j)
    PROVE  IInv'
<1>1. job[j] \in Job /\ job[j].pc = "chain" /\ Reachable(job[j]) /\ RevokedSoFar(job[j])
  BY DEF IInv, TypeOK, JobsSound, CascadeSound, RevokeChain, Running
<1>2. PICK a \in job[j].found :
          /\ chain' = [chain EXCEPT ![a].status = IF @ = "none" THEN @ ELSE "revoked"]
          /\ job' = [job EXCEPT ![j] = [job[j] EXCEPT
                 !.pc = "list", !.cur = a, !.todo = @ \ {a}]]
          /\ skipped' = IF chain[a].status = "none" THEN skipped \cup {a} ELSE skipped
  BY <1>1 DEF RevokeChain, Reachable
<1>3. a \in Agents
  BY <1>1 DEF Job
<1>4. PICK c \in Job : c = [job[j] EXCEPT !.pc = "list", !.cur = a, !.todo = @ \ {a}]
  BY <1>1, <1>3 DEF Job, Running
<1>5. /\ c.pc = "list" /\ c.listed = job[j].listed /\ c.target = job[j].target /\ c.frontier = job[j].frontier
      /\ c.found = job[j].found /\ c.todo = job[j].todo \ {a}
  BY <1>1, <1>4 DEF Job
<1>6. chain' \in [Agents -> Chain]
  BY <1>2, <1>3 DEF IInv, TypeOK, Chain
<1>7. RevokedStays /\ RowsStay /\ RowsMade'
  BY <1>2, <1>3, NoRowChanged DEF IInv, TypeOK, Chain, RevokedStays, RevokeChain
<1>8. a \in skipped' \/ chain'[a].status = "revoked"
  BY <1>2, <1>3 DEF IInv, TypeOK, Chain
<1>9. Reachable(c)'
  BY <1>1, <1>5, <1>7, DownstreamGrows DEF Reachable, RowsStay
<1>10. RevokedSoFar(c)'
  BY <1>1, <1>5, <1>7, <1>8 DEF RevokedSoFar, RevokedStays, Job
<1>11. CascadeSound(c)'
  BY <1>5, <1>9, <1>10 DEF CascadeSound
<1> QED
  BY <1>2, <1>3, <1>4, <1>6, <1>7, <1>11, JobsKept DEF IInv, TypeOK, RevokeChain

LEMMA ListRowsStep ==
    ASSUME IInv, NEW j \in Jobs, ListRows(j)
    PROVE  IInv'
<1>1. job[j] \in Job /\ job[j].pc = "list" /\ Reachable(job[j]) /\ RevokedSoFar(job[j])
  BY DEF IInv, TypeOK, JobsSound, CascadeSound, ListRows, Running
<1>2. PICK pc \in {"rows", "chain", "audit"} :
          /\ pc = After(RowsFrom(job[j].cur), job[j].todo)
          /\ pc = "audit" => job[j].todo = {}
  BY DEF After
<1>3. job' = [job EXCEPT ![j] = [job[j] EXCEPT
                  !.listed = RowsFrom(job[j].cur), !.cur = None, !.pc = pc]]
  BY <1>1, <1>2 DEF ListRows, IInv, TypeOK, Job
<1>4. PICK c \in Job : c = [job[j] EXCEPT
                  !.listed = RowsFrom(job[j].cur), !.cur = None, !.pc = pc]
  BY <1>1, <1>2 DEF Job, Running, RowsFrom, ActiveRows
<1>5. /\ c.pc = pc /\ c.target = job[j].target /\ c.frontier = job[j].frontier
      /\ c.found = job[j].found /\ c.todo = job[j].todo
      /\ c.listed \subseteq AllRows
  BY <1>1, <1>4 DEF Job, RowsFrom, ActiveRows, AllRows
<1>6. CascadeSound(c)
  BY <1>1, <1>2, <1>5 DEF CascadeSound, Reachable, RevokedSoFar, Running
<1> QED
  BY <1>3, <1>4, <1>6, JobStep DEF ListRows, IInv, TypeOK

LEMMA RevokeRowStep ==
    ASSUME IInv, NEW j \in Jobs, RevokeRow(j)
    PROVE  IInv'
<1>1. job[j] \in Job /\ job[j].pc = "rows" /\ Reachable(job[j]) /\ RevokedSoFar(job[j])
  BY DEF IInv, TypeOK, JobsSound, CascadeSound, RevokeRow, Running
<1>2. PICK r \in job[j].listed :
          /\ row' = [row EXCEPT ![r].status = "revoked"]
          /\ job' = [job EXCEPT ![j].listed = @ \ {r},
                                ![j].pc = After(job[j].listed \ {r}, job[j].todo)]
  BY DEF RevokeRow
<1>3. PICK pc \in {"rows", "chain", "audit"} :
          /\ pc = After(job[j].listed \ {r}, job[j].todo)
          /\ pc = "audit" => job[j].todo = {}
  BY DEF After
<1>4. job' = [job EXCEPT ![j] = [job[j] EXCEPT !.listed = @ \ {r}, !.pc = pc]]
  BY <1>1, <1>2, <1>3 DEF IInv, TypeOK, Job
<1>5. PICK c \in Job : c = [job[j] EXCEPT !.listed = @ \ {r}, !.pc = pc]
  BY <1>1, <1>3 DEF Job, Running
<1>6. /\ c.pc = pc /\ c.target = job[j].target /\ c.frontier = job[j].frontier
      /\ c.found = job[j].found /\ c.todo = job[j].todo
      /\ c.listed \subseteq job[j].listed
  BY <1>1, <1>5 DEF Job
<1>7. CascadeSound(c)
  BY <1>1, <1>3, <1>6 DEF CascadeSound, Reachable, RevokedSoFar, Running
<1>8. r \in Rows /\ r \in AllRows
  BY <1>1 DEF Job, Reachable
<1>9. row' \in [Rows -> Row]
  <2>1. [row[r] EXCEPT !.status = "revoked"] \in Row
    BY <1>8 DEF IInv, TypeOK, Row
  <2> QED
    BY <1>2, <1>8, <2>1 DEF IInv, TypeOK
<1>10. RowsStay
  BY <1>2, <1>8 DEF RowsStay, AllRows, IInv, TypeOK, Row
<1>11. RevokedStays
  BY NoChainChanged DEF RevokeRow
<1>12. RowsMade'
  BY <1>2, <1>8 DEF RowsMade, AllRows, IInv, TypeOK, Row
<1>13. CascadeSound(c)'
  BY <1>7, <1>10, <1>11, CascadeKept
<1> QED
  BY <1>4, <1>5, <1>9, <1>10, <1>11, <1>12, <1>13, JobsKept DEF IInv, TypeOK, RevokeRow

LEMMA AuditStep ==
    ASSUME IInv, NEW j \in Jobs, Audit(j)
    PROVE  IInv'
<1>1. job[j] \in Job
  BY DEF IInv, TypeOK
<1>2. PICK c \in Job : c = [NoJob EXCEPT
           !.pc = IF job[j].queue = {} THEN "done" ELSE "next", !.queue = job[j].queue]
  BY <1>1 DEF NoJob, Job, Running
<1>3. c.pc \in {"done", "next"} /\ c.todo = {} /\ c.listed = {}
  BY <1>2 DEF NoJob
<1>4. CascadeSound(c)
  BY <1>3 DEF CascadeSound, Running
<1> QED
  BY <1>2, <1>4, JobStep DEF Audit, IInv, TypeOK

LEMMA FailStep ==
    ASSUME IInv, NEW j \in Jobs, Fail(j)
    PROVE  IInv'
<1>1. lost' \subseteq Agents
  BY DEF Fail, Trusted, IInv, TypeOK
<1>2. PICK c \in Job : c = [NoJob EXCEPT !.pc = "done"]
  BY DEF NoJob, Job
<1>3. CascadeSound(c)
  BY <1>2 DEF CascadeSound, Running, NoJob
<1> QED
  BY <1>1, <1>2, <1>3, JobStep DEF Fail, IInv, TypeOK

LEMMA EstablishStep ==
    ASSUME IInv, NEW a \in Agents, NEW h \in Humans, Establish(a, h)
    PROVE  IInv'
<1>1. chain' \in [Agents -> Chain]
  BY DEF Establish, IInv, TypeOK, Chain
<1>2. RevokedStays
  BY DEF Establish, RevokedStays, IInv, TypeOK
<1>3. RowsStay /\ RowsMade'
  BY NoRowChanged DEF Establish, IInv
<1> QED
  BY <1>1, <1>2, <1>3, JobsUntouched DEF Establish, IInv, TypeOK

LEMMA DelegateStep ==
    ASSUME IInv, NEW r \in Rows, NEW a \in Agents, NEW b \in Agents, Delegate(r, a, b)
    PROVE  IInv'
<1>1. PICK q \in Row : q = [status |-> "active", from |-> a, to |-> b, late |-> ~Quiet]
  <2>1. (~Quiet) \in BOOLEAN
    OBVIOUS
  <2> DEFINE late == ~Quiet
  <2>2. late \in BOOLEAN
    BY <2>1
  <2> HIDE DEF late
  <2>3. [status |-> "active", from |-> a, to |-> b, late |-> late] \in Row
    BY <2>2 DEF Row
  <2> QED
    BY <2>3 DEF late
<1>2. row' = [row EXCEPT ![r] = q]
  BY <1>1 DEF Delegate
<1>3. row' \in [Rows -> Row]
  BY <1>2 DEF IInv, TypeOK
<1>4. RowsStay /\ RowsMade'
  BY <1>1, <1>2 DEF RowsStay, RowsMade, AllRows, Delegate, IInv, TypeOK, Row
<1>5. RevokedStays
  BY NoChainChanged DEF Delegate
<1> QED
  BY <1>3, <1>4, <1>5, JobsUntouched DEF Delegate, IInv, TypeOK

LEMMA NextTargetStep ==
    ASSUME IInv, NEW j \in Jobs, NextTarget(j)
    PROVE  IInv'
<1>1. job[j] \in Job /\ job[j].todo = {} /\ job[j].listed = {}
  BY DEF IInv, TypeOK, JobsSound, CascadeSound, NextTarget
<1>2. PICK a \in job[j].queue : Cascade(j, job[j], a)
  BY DEF NextTarget
<1>3. a \in Agents
  BY <1>1 DEF Job
<1>4. IInv'
  BY <1>1, <1>2, <1>3, CascadeStep DEF NextTarget
<1> QED
  BY <1>4

LEMMA RevokeAgentStep ==
    ASSUME IInv, NEW j \in Jobs, NEW a \in Agents, RevokeAgent(j, a)
    PROVE  IInv'
<1>1. NoJob \in Job /\ NoJob.todo = {} /\ NoJob.listed = {}
  BY DEF NoJob, Job
<1> QED
  BY <1>1, CascadeStep DEF RevokeAgent

\* One step of the specification, by action.
LEMMA NextIInv == IInv /\ [Next]_vars => IInv'
<1> SUFFICES ASSUME IInv, [Next]_vars PROVE IInv'
  OBVIOUS
<1>1. ASSUME NEW a \in Agents, NEW h \in Humans, Establish(a, h) PROVE IInv'
  BY <1>1, EstablishStep
<1>2. ASSUME NEW r \in Rows, NEW a \in Agents, NEW b \in Agents, Delegate(r, a, b)
      PROVE  IInv'
  BY <1>2, DelegateStep
<1>3. ASSUME NEW j \in Revokes, NEW a \in Agents, RevokeAgent(j, a) PROVE IInv'
  BY <1>3, RevokeAgentStep DEF Jobs
<1>4. ASSUME NEW j \in Purges, NEW h \in Humans, RevokeHuman(j, h) PROVE IInv'
  BY <1>4, RevokeHumanStep DEF Jobs
<1>5. ASSUME NEW j \in Jobs,
             \/ NextTarget(j) \/ Search(j) \/ RevokeChain(j) \/ ListRows(j)
             \/ RevokeRow(j) \/ Audit(j) \/ Fail(j)
      PROVE  IInv'
  BY <1>5, NextTargetStep, SearchStep, RevokeChainStep, ListRowsStep, RevokeRowStep,
     AuditStep, FailStep
<1>6. CASE UNCHANGED vars
  <2>1. RowsStay /\ RevokedStays /\ RowsMade' /\ UNCHANGED job
    BY <1>6, NoRowChanged, NoChainChanged DEF vars, IInv
  <2>2. JobsSound'
    BY <2>1, JobsUntouched DEF IInv
  <2> QED
    BY <1>6, <2>1, <2>2 DEF IInv, TypeOK, vars
<1> QED
  BY <1>1, <1>2, <1>3, <1>4, <1>5, <1>6 DEF Next

LEMMA SpecIInv == Spec => []IInv
BY InitIInv, NextIInv, PTL DEF Spec

-----------------------------------------------------------------------------
\* Every state is well formed, whatever revocations overlap.
THEOREM CascadeTypeOK == Spec => []TypeOK
BY SpecIInv, PTL DEF IInv

\* When a cascade reports, each agent that it names is revoked or had no chain
\* when a revocation came to it.
THEOREM CascadeReportTrue == Spec => []ReportTrue
<1>1. IInv => ReportTrue
  BY DEF IInv, JobsSound, CascadeSound, RevokedSoFar, ReportTrue, Running
<1> QED
  BY <1>1, SpecIInv, PTL

\* Only a cascade takes trust away, and only from agents downstream of its
\* target.
THEOREM CascadeSparesOthers == Spec => OnlyDownstreamRevoked
<1> DEFINE Spared ==
        \A a \in Agents : chain'[a].status = "revoked" /\ chain[a].status # "revoked" =>
            \E j \in Jobs :
                job[j].pc = "chain" /\ a \in Downstream(job[j].target, AllRows)
<1>1. IInv /\ [Next]_vars => [Spared]_vars
  <2> SUFFICES ASSUME IInv, Next, NEW a \in Agents,
                      chain'[a].status = "revoked", chain[a].status # "revoked"
               PROVE  \E j \in Jobs : /\ job[j].pc = "chain"
                                      /\ a \in Downstream(job[j].target, AllRows)
    OBVIOUS
  <2>1. ASSUME NEW b \in Agents, NEW h \in Humans, Establish(b, h) PROVE FALSE
    BY <2>1 DEF Establish, IInv, TypeOK
  <2>2. PICK j \in Jobs : RevokeChain(j)
    BY <2>1 DEF Next, Delegate, RevokeAgent, RevokeHuman, NextTarget, Search,
       ListRows, RevokeRow, Audit, Fail
  <2>3. job[j].pc = "chain" /\ Reachable(job[j])
    BY <2>2 DEF RevokeChain, IInv, JobsSound, CascadeSound, Running
  <2>4. PICK b \in job[j].found :
            chain' = [chain EXCEPT ![b].status = IF @ = "none" THEN @ ELSE "revoked"]
    BY <2>2, <2>3 DEF RevokeChain, Reachable
  <2>5. a = b
    BY <2>4 DEF IInv, TypeOK
  <2> QED
    BY <2>3, <2>4, <2>5 DEF Reachable
<1> QED
  BY <1>1, SpecIInv, PTL DEF Spec, OnlyDownstreamRevoked

-----------------------------------------------------------------------------
\* The rest is about CascadeReaches, whose strengthening is ReachSound.
RInv == IInv /\ ReachSound

\* What a step does to the state is no loss to a cascade that it leaves alone:
\* who was settled stays so; rows that are not late are not added while it runs;
\* and whoever a closed set loses by a row that is revoked is settled.
SettledStays ==
    \A a \in Agents : chain[a].status # "none" =>
        chain'[a].status # "none" /\ (Settled(a) => Settled(a)')

EarlyStays ==
    /\ RowsStay
    /\ \A r \in AllRows : row'[r].late = row[r].late
    /\ EarlyRows' \subseteq EarlyRows

ClosedStays ==
    \A S \in SUBSET Agents : Closed(S)' =>
        \E T \in SUBSET Agents :
            S \subseteq T /\ Closed(T) /\ \A a \in T \ S : Settled(a)

Harmless == SettledStays /\ EarlyStays /\ ClosedStays

\* Sets that were closed stay so.
LEMMA ClosedKept ==
    ASSUME EarlyStays, NEW S, Closed(S)
    PROVE  Closed(S)'
BY DEF EarlyStays, RowsStay, Closed, EarlyRows, ActiveRows, AllRows

\* Without a change to the rows, closed sets are the same.
LEMMA NoRowClosed ==
    ASSUME UNCHANGED row
    PROVE  EarlyStays /\ ClosedStays
<1>1. \A S : Closed(S)' <=> Closed(S)
  BY DEF Closed, EarlyRows, ActiveRows
<1>2. EarlyStays
  BY DEF EarlyStays, RowsStay, EarlyRows, ActiveRows, AllRows
<1> QED
  BY <1>1, <1>2 DEF ClosedStays

\* A cascade that a step leaves alone goes on to reach whom it has to.
LEMMA ReachKept ==
    ASSUME Harmless, NEW c \in Job, CascadeReach(c),
           c.pc \in Running \ {"next", "search"} => c.listed \subseteq AllRows
    PROVE  CascadeReach(c)'
<1>1. ASSUME c.pc \in Running \ {"next"}
      PROVE  \A a \in c.under : chain'[a].status # "none"
  BY <1>1 DEF Harmless, SettledStays, CascadeReach, Job
<1>2. ASSUME c.pc = "search" PROVE SearchReach(c)'
  <2>1. SearchReach(c) /\ \A a \in c.under : chain[a].status # "none"
    BY <1>2 DEF CascadeReach, Running
  <2>2. \A r \in EarlyRows' : row'[r].from \in c.found \ c.frontier => row'[r].to \in c.found
    BY <2>1 DEF SearchReach, Harmless, EarlyStays, RowsStay, EarlyRows, ActiveRows, AllRows
  <2>3. ASSUME NEW S \in SUBSET Agents, c.found \subseteq S, Closed(S)', NEW a \in c.under,
               a \notin S
        PROVE  Settled(a)'
    <3>1. PICK T \in SUBSET Agents : S \subseteq T /\ Closed(T) /\ \A b \in T \ S : Settled(b)
      BY <2>3 DEF Harmless, ClosedStays
    <3>2. a \in T \/ Settled(a)
      BY <2>1, <2>3, <3>1 DEF SearchReach
    <3>3. Settled(a)
      BY <2>3, <3>1, <3>2
    <3> QED
      BY <2>1, <3>3 DEF Harmless, SettledStays, Job
  <2> QED
    BY <2>1, <2>2, <2>3 DEF SearchReach
<1>3. ASSUME c.pc \in Running \ {"next", "search"} PROVE RevokeReach(c)'
  <2>1. /\ RevokeReach(c) /\ c.listed \subseteq AllRows
        /\ \A a \in c.under : chain[a].status # "none"
    BY <1>3 DEF CascadeReach, Running
  <2>2. Closed(c.found)'
    BY <2>1, ClosedKept DEF RevokeReach, Harmless
  <2>3. \A a \in c.under : Settled(a)'
    BY <2>1 DEF RevokeReach, Harmless, SettledStays, Job
  <2>4. \A r \in c.listed : ~row'[r].late => row'[r].to \in c.found
    BY <2>1 DEF RevokeReach, Harmless, EarlyStays, RowsStay
  <2> QED
    BY <2>2, <2>3, <2>4 DEF RevokeReach
<1>4. c.pc \in {"idle", "search", "done"} => c.todo = {}
  BY DEF CascadeReach
<1> QED
  BY <1>1, <1>2, <1>3, <1>4 DEF CascadeReach

\* So it remains to look at the job that a step belongs to.
LEMMA ReachOfOthers ==
    ASSUME RInv, Harmless, NEW j \in Jobs, NEW c \in Job, job' = [job EXCEPT ![j] = c],
           CascadeReach(c)'
    PROVE  ReachSound'
<1> SUFFICES ASSUME NEW k \in Jobs
             PROVE  CascadeReach(job[k])'
  BY DEF ReachSound
<1>1. CASE k = j
  <2>1. job'[k] = c
    BY <1>1 DEF RInv, IInv, TypeOK
  <2> QED
    BY <2>1 DEF CascadeReach, SearchReach, RevokeReach, Closed, Settled
<1>2. CASE k # j
  <2>1. job'[k] = job[k] /\ job[k] \in Job /\ CascadeSound(job[k]) /\ CascadeReach(job[k])
    BY <1>2 DEF RInv, IInv, TypeOK, JobsSound, ReachSound
  <2>2. PICK c2 \in Job : c2 = job[k]
    BY <2>1
  <2>3. c2.pc \in Running \ {"next", "search"} => c2.listed \subseteq AllRows
    BY <2>1, <2>2 DEF CascadeSound, Reachable
  <2>4. CascadeReach(c2)'
    BY <2>1, <2>2, <2>3, ReachKept
  <2> QED
    BY <2>1, <2>2, <2>4 DEF CascadeReach, SearchReach, RevokeReach, Closed, Settled
<1> QED
  BY <1>1, <1>2

\* Nobody is lost sight of when a job has fewer left to do, provided that they
\* are revoked, given up or passed over.
LEMMA SettledByJob ==
    ASSUME RInv, NEW j \in Jobs, NEW c \in Job, job' = [job EXCEPT ![j] = c],
           RevokedStays, lost \subseteq lost',
           \A a \in Agents : chain[a].status # "none" => chain'[a].status # "none",
           \A a \in job[j].todo \ c.todo :
               chain[a].status # "none" => chain'[a].status = "revoked" \/ a \in lost' \cup skipped'
    PROVE  SettledStays
<1> SUFFICES ASSUME NEW a \in Agents, chain[a].status # "none", Settled(a)
             PROVE  Settled(a)'
  BY DEF SettledStays
<1>1. CASE chain[a].status = "revoked" \/ a \in lost \cup skipped
  BY <1>1 DEF Settled, RevokedStays
<1>2. CASE \E k \in Jobs : a \in job[k].todo
  <2>1. PICK k \in Jobs : a \in job[k].todo
    BY <1>2
  <2>2. CASE a \in job'[k].todo
    BY <2>2 DEF Settled
  <2>3. CASE a \notin job'[k].todo
    <3>1. k = j /\ job'[j] = c
      BY <2>1, <2>3 DEF RInv, IInv, TypeOK
    <3> QED
      BY <2>1, <2>3, <3>1 DEF Settled
  <2> QED
    BY <2>2, <2>3
<1> QED
  BY <1>1, <1>2 DEF Settled

\* The steps of job j that change no row and no chain.
LEMMA JobReach ==
    ASSUME RInv, NEW j \in Jobs, NEW c \in Job, job' = [job EXCEPT ![j] = c],
           UNCHANGED <<chain, row, skipped>>, lost \subseteq lost',
           \A a \in job[j].todo \ c.todo : chain[a].status # "none" =>
               chain[a].status = "revoked" \/ a \in lost' \cup skipped,
           CascadeReach(c),
           c.pc \in Running \ {"next", "search"} => c.listed \subseteq AllRows
    PROVE  ReachSound'
<1>1. RevokedStays
  BY NoChainChanged
<1>2. SettledStays
  BY <1>1, SettledByJob
<1>3. Harmless
  BY <1>2, NoRowClosed DEF Harmless
<1>4. CascadeReach(c)'
  BY <1>3, ReachKept
<1> QED
  BY <1>3, <1>4, ReachOfOthers

\* What a job is in a state that is sound.
LEMMA JobSound ==
    ASSUME RInv, NEW j \in Jobs
    PROVE  job[j] \in Job /\ CascadeSound(job[j]) /\ CascadeReach(job[j])
BY DEF RInv, IInv, TypeOK, JobsSound, ReachSound

LEMMA CascadeReachStep ==
    ASSUME RInv, NEW j \in Jobs, NEW a \in Agents, NEW was \in Job,
           was.todo = {}, was.listed = {}, job[j].todo = {}, Cascade(j, was, a),
           UNCHANGED <<chain, row, lost, skipped>>
    PROVE  ReachSound'
<1>1. PICK c \in Job : c = Started(was, a)
  BY DEF Started, Job, Running, Trusted
<1>2. job' = [job EXCEPT ![j] = c]
  BY <1>1 DEF Cascade, Started
<1>3. /\ c.pc = "search" /\ c.frontier = {a} /\ c.found = {a} /\ c.todo = {}
      /\ c.listed = {}
      /\ c.under = Trusted \cap Downstream(a, EarlyRows)
  BY <1>1 DEF Started, Job
<1>4. SearchReach(c)
  BY <1>3 DEF SearchReach, Closed, Downstream
<1>5. CascadeReach(c)
  BY <1>3, <1>4 DEF CascadeReach, Trusted
<1> QED
  BY <1>2, <1>3, <1>5, JobReach

\* A cascade begins with its target, which all that lies downstream is reached from.
LEMMA RevokeAgentReach ==
    ASSUME RInv, NEW j \in Jobs, NEW a \in Agents, RevokeAgent(j, a)
    PROVE  ReachSound'
<1>1. NoJob \in Job /\ NoJob.todo = {} /\ NoJob.listed = {}
  BY DEF NoJob, Job
<1>2. job[j].todo = {}
  BY JobSound DEF RevokeAgent, CascadeReach
<1> QED
  BY <1>1, <1>2, CascadeReachStep DEF RevokeAgent

\* So does each cascade of a revocation by origin.
LEMMA NextTargetReach ==
    ASSUME RInv, NEW j \in Jobs, NextTarget(j)
    PROVE  ReachSound'
<1>1. job[j] \in Job /\ job[j].todo = {} /\ job[j].listed = {}
  BY JobSound DEF NextTarget, CascadeSound
<1>2. PICK a \in job[j].queue : Cascade(j, job[j], a)
  BY DEF NextTarget
<1>3. a \in Agents
  BY <1>1 DEF Job
<1> QED
  BY <1>1, <1>2, <1>3, CascadeReachStep DEF NextTarget

\* A revocation by origin starts with nothing found.
LEMMA RevokeHumanReach ==
    ASSUME RInv, NEW j \in Jobs, NEW h \in Humans, RevokeHuman(j, h)
    PROVE  ReachSound'
<1>1. PICK c \in Job : c = [NoJob EXCEPT
           !.pc = "next", !.queue = {a \in Trusted : chain[a].origin = h}]
  BY DEF NoJob, Job, Running, Trusted
<1>2. job[j].todo = {}
  BY JobSound DEF RevokeHuman, CascadeReach
<1>3. c.pc = "next"
  BY <1>1 DEF NoJob
<1>4. CascadeReach(c)
  BY <1>3 DEF CascadeReach
<1> QED
  BY <1>1, <1>2, <1>3, <1>4, JobReach DEF RevokeHuman

\* The last agent to be searched closes what was found, and whoever is not
\* settled is on the list from then on.
LEMMA SearchReachStep ==
    ASSUME RInv, NEW j \in Jobs, Search(j)
    PROVE  ReachSound'
<1>1. /\ job[j] \in Job /\ job[j].pc = "search" /\ job[j].todo = {}
      /\ Reachable(job[j]) /\ SearchReach(job[j])
      /\ \A a \in job[j].under : chain[a].status # "none"
  BY JobSound DEF Search, CascadeSound, CascadeReach, Running
<1>2. PICK a \in job[j].frontier : job' = [job EXCEPT ![j] = Searched(job[j], a)]
  BY DEF Search, Searched
<1>3. Delegatees(a) \subseteq Agents
  BY DEF Delegatees, RowsFrom, ActiveRows, AllRows, RInv, IInv, RowsMade
<1>4. PICK c \in Job : c = Searched(job[j], a)
  BY <1>1, <1>3 DEF Job, Running, Searched
<1>5. /\ c.found = job[j].found \cup Delegatees(a)
      /\ c.frontier = (job[j].frontier \ {a}) \cup (Delegatees(a) \ job[j].found)
      /\ c.under = job[j].under /\ c.listed = job[j].listed
      /\ c.frontier # {} => c.pc = "search" /\ c.todo = {}
      /\ c.frontier = {} => c.pc = "chain" /\ c.todo = c.found
  BY <1>1, <1>4 DEF Job, Searched
<1>6. \A r \in EarlyRows : row[r].from \in c.found \ c.frontier => row[r].to \in c.found
  <2>1. \A r \in EarlyRows : row[r].from = a => row[r].to \in Delegatees(a)
    BY DEF EarlyRows, RowsFrom, Delegatees
  <2> QED
    BY <1>1, <1>5, <2>1 DEF SearchReach
<1>7. Harmless
  <2>1. RevokedStays
    BY NoChainChanged DEF Search
  <2>2. SettledStays
    BY <1>1, <1>2, <1>4, <2>1, SettledByJob DEF Search
  <2> QED
    BY <2>2, NoRowClosed DEF Harmless, Search
<1>8. CASE c.frontier # {}
  <2>1. SearchReach(c)
    BY <1>1, <1>5, <1>6 DEF SearchReach
  <2>2. CascadeReach(c)
    BY <1>1, <1>5, <1>8, <2>1 DEF CascadeReach
  <2>3. CascadeReach(c)'
    BY <1>5, <1>7, <1>8, <2>2, ReachKept
  <2> QED
    BY <1>2, <1>4, <1>7, <2>3, ReachOfOthers
<1>9. CASE c.frontier = {}
  <2>1. Closed(c.found)
    BY <1>6, <1>9 DEF Closed
  <2>2. Closed(c.found)'
    BY <1>7, <2>1, ClosedKept DEF Harmless
  <2>3. job'[j] = c
    BY <1>2, <1>4 DEF RInv, IInv, TypeOK
  <2>4. \A b \in c.under : Settled(b)'
    <3>1. SUFFICES ASSUME NEW b \in c.under PROVE Settled(b)'
      OBVIOUS
    <3>2. c.found \in SUBSET Agents /\ b \in Agents
      BY DEF Job
    <3>3. b \in c.found \/ Settled(b)
      BY <1>1, <1>5, <2>1, <3>2 DEF SearchReach
    <3>4. CASE b \in c.found
      BY <1>5, <1>9, <2>3, <3>4 DEF Settled
    <3>5. CASE Settled(b)
      BY <1>1, <1>5, <1>7, <3>2, <3>5 DEF Harmless, SettledStays
    <3> QED
      BY <3>3, <3>4, <3>5
  <2>5. c.listed = {}
    BY <1>1, <1>4 DEF Job, Searched, SearchReach
  <2>6. \A b \in c.under : chain'[b].status # "none"
    BY <1>1, <1>5, <1>7 DEF Harmless, SettledStays, Job
  <2>7. CascadeReach(c)'
    BY <1>5, <1>9, <2>2, <2>4, <2>5, <2>6 DEF CascadeReach, RevokeReach
  <2> QED
    BY <1>2, <1>4, <1>7, <2>7, ReachOfOthers
<1> QED
  BY <1>8, <1>9

\* An agent leaves the list of a cascade revoked, or passed over.
LEMMA RevokeChainReach ==
    ASSUME RInv, NEW j \in Jobs, RevokeChain(j)
    PROVE  ReachSound'
<1>1. /\ job[j] \in Job /\ job[j].pc = "chain" /\ Reachable(job[j]) /\ RevokeReach(job[j])
      /\ \A a \in job[j].under : chain[a].status # "none"
  BY JobSound DEF RevokeChain, CascadeSound, CascadeReach, Running
<1>2. PICK a \in job[j].found :
          /\ chain' = [chain EXCEPT ![a].status = IF @ = "none" THEN @ ELSE "revoked"]
          /\ job' = [job EXCEPT ![j] = [job[j] EXCEPT
                 !.pc = "list", !.cur = a, !.todo = @ \ {a}]]
          /\ skipped' = IF chain[a].status = "none" THEN skipped \cup {a} ELSE skipped
  BY <1>1 DEF RevokeChain, Reachable
<1>3. a \in Agents
  BY <1>1 DEF Job
<1>4. PICK c \in Job : c = [job[j] EXCEPT !.pc = "list", !.cur = a, !.todo = @ \ {a}]
  BY <1>1, <1>3 DEF Job, Running
<1>5. /\ c.pc = "list" /\ c.cur = a /\ c.listed = job[j].listed /\ c.under = job[j].under
      /\ c.found = job[j].found /\ c.todo = job[j].todo \ {a}
  BY <1>1, <1>4 DEF Job
<1>6. RevokedStays /\ \A b \in Agents : chain[b].status # "none" => chain'[b].status # "none"
  BY <1>2, <1>3 DEF RInv, IInv, TypeOK, Chain, RevokedStays
<1>7. chain[a].status # "none" => chain'[a].status = "revoked"
  BY <1>2, <1>3 DEF RInv, IInv, TypeOK, Chain
<1>8. Harmless
  <2>1. SettledStays
    BY <1>1, <1>2, <1>4, <1>5, <1>6, <1>7, SettledByJob DEF RevokeChain
  <2> QED
    BY <2>1, NoRowClosed DEF Harmless, RevokeChain
<1>9. CascadeReach(c)
  BY <1>1, <1>2, <1>5 DEF CascadeReach, RevokeReach
<1>10. CascadeReach(c)'
  BY <1>1, <1>5, <1>8, <1>9, ReachKept DEF Reachable
<1> QED
  BY <1>2, <1>4, <1>8, <1>10, ReachOfOthers

\* The rows of an agent on the list lead to agents that were found with it.
LEMMA ListRowsReach ==
    ASSUME RInv, NEW j \in Jobs, ListRows(j)
    PROVE  ReachSound'
<1>1. /\ job[j] \in Job /\ job[j].pc = "list" /\ RevokeReach(job[j]) /\ job[j].cur \in job[j].found
      /\ \A a \in job[j].under : chain[a].status # "none"
  BY JobSound DEF ListRows, CascadeReach, Running
<1>2. PICK pc \in {"rows", "chain", "audit"} : pc = After(RowsFrom(job[j].cur), job[j].todo)
  BY DEF After
<1>3. job' = [job EXCEPT ![j] = [job[j] EXCEPT
                  !.listed = RowsFrom(job[j].cur), !.cur = None, !.pc = pc]]
  BY <1>1, <1>2 DEF ListRows, RInv, IInv, TypeOK, Job
<1>4. PICK c \in Job : c = [job[j] EXCEPT
                  !.listed = RowsFrom(job[j].cur), !.cur = None, !.pc = pc]
  BY <1>1, <1>2 DEF Job, Running, RowsFrom, ActiveRows
<1>5. /\ c.pc = pc /\ c.found = job[j].found /\ c.todo = job[j].todo
      /\ c.under = job[j].under /\ c.listed = RowsFrom(job[j].cur)
  BY <1>1, <1>4 DEF Job
<1>6. c.listed \subseteq AllRows
  BY <1>5 DEF RowsFrom, ActiveRows, AllRows
<1>7. \A r \in c.listed : ~row[r].late => row[r].to \in c.found
  BY <1>1, <1>5 DEF RevokeReach, Closed, EarlyRows, RowsFrom
<1>8. CascadeReach(c)
  BY <1>1, <1>5, <1>7 DEF CascadeReach, RevokeReach
<1> QED
  BY <1>3, <1>4, <1>5, <1>6, <1>8, JobReach DEF ListRows

\* When a row is revoked, whoever it led to is on the list of the cascade that
\* revokes it, or off it and revoked, and so is everybody downstream of him.
LEMMA RevokeRowReach ==
    ASSUME RInv, NEW j \in Jobs, RevokeRow(j)
    PROVE  ReachSound'
<1>1. /\ job[j] \in Job /\ job[j].pc = "rows" /\ Reachable(job[j]) /\ RevokedSoFar(job[j])
      /\ RevokeReach(job[j])
      /\ \A a \in job[j].under : chain[a].status # "none"
  BY JobSound DEF RevokeRow, CascadeSound, CascadeReach, Running
<1>2. PICK r \in job[j].listed :
          /\ row' = [row EXCEPT ![r].status = "revoked"]
          /\ job' = [job EXCEPT ![j].listed = @ \ {r},
                                ![j].pc = After(job[j].listed \ {r}, job[j].todo)]
  BY DEF RevokeRow
<1>3. PICK pc \in {"rows", "chain", "audit"} : pc = After(job[j].listed \ {r}, job[j].todo)
  BY DEF After
<1>4. job' = [job EXCEPT ![j] = [job[j] EXCEPT !.listed = @ \ {r}, !.pc = pc]]
  BY <1>1, <1>2, <1>3 DEF RInv, IInv, TypeOK, Job
<1>5. PICK c \in Job : c = [job[j] EXCEPT !.listed = @ \ {r}, !.pc = pc]
  BY <1>1, <1>3 DEF Job, Running
<1>6. /\ c.pc = pc /\ c.found = job[j].found /\ c.todo = job[j].todo
      /\ c.under = job[j].under /\ c.listed \subseteq job[j].listed
  BY <1>1, <1>5 DEF Job
<1>7. r \in Rows /\ r \in AllRows /\ job[j].found \in SUBSET Agents
  BY <1>1 DEF Job, Reachable
<1>8. EarlyStays
  BY <1>2, <1>7 DEF EarlyStays, RowsStay, EarlyRows, ActiveRows, AllRows, RInv, IInv, TypeOK, Row
<1>9. SettledStays
  <2>1. RevokedStays
    BY NoChainChanged DEF RevokeRow
  <2> QED
    BY <1>4, <1>5, <1>6, <2>1, SettledByJob DEF RevokeRow
<1>10. ClosedStays
  <2> SUFFICES ASSUME NEW S \in SUBSET Agents, Closed(S)'
               PROVE  \E T \in SUBSET Agents :
                          S \subseteq T /\ Closed(T) /\ \A a \in T \ S : Settled(a)
    BY DEF ClosedStays
  <2> DEFINE T == S \cup job[j].found
  <2>1. \A q \in EarlyRows : q # r => q \in EarlyRows' /\ row'[q] = row[q]
    BY <1>2, <1>7 DEF EarlyRows, ActiveRows, RInv, IInv, TypeOK
  <2>2. Closed(T)
    BY <1>1, <2>1 DEF Closed, RevokeReach, EarlyRows
  <2>3. \A a \in job[j].found : Settled(a)
    BY <1>1 DEF RevokedSoFar, Settled
  <2> QED
    BY <1>7, <2>2, <2>3
<1>11. CascadeReach(c)
  BY <1>1, <1>6 DEF CascadeReach, RevokeReach
<1>12. Harmless
  BY <1>8, <1>9, <1>10 DEF Harmless
<1>13. CascadeReach(c)'
  BY <1>1, <1>6, <1>11, <1>12, ReachKept DEF Reachable
<1> QED
  BY <1>4, <1>5, <1>12, <1>13, ReachOfOthers

\* A cascade that is through has nobody on its list.
LEMMA AuditReach ==
    ASSUME RInv, NEW j \in Jobs, Audit(j)
    PROVE  ReachSound'
<1>1. job[j] \in Job /\ job[j].todo = {}
  BY JobSound DEF Audit, CascadeSound
<1>2. PICK c \in Job : c = [NoJob EXCEPT
           !.pc = IF job[j].queue = {} THEN "done" ELSE "next", !.queue = job[j].queue]
  BY <1>1 DEF NoJob, Job, Running
<1>3. c.pc \in {"done", "next"} /\ c.todo = {}
  BY <1>2 DEF NoJob
<1>4. CascadeReach(c)
  BY <1>3 DEF CascadeReach, Running
<1> QED
  BY <1>1, <1>2, <1>3, <1>4, JobReach DEF Audit, Running

\* Whom a cascade that fails had on its list, it gives up.
LEMMA FailReach ==
    ASSUME RInv, NEW j \in Jobs, Fail(j)
    PROVE  ReachSound'
<1>1. PICK c \in Job : c = [NoJob EXCEPT !.pc = "done"]
  BY DEF NoJob, Job
<1>2. c.pc = "done" /\ c.todo = {}
  BY <1>1 DEF NoJob
<1>3. CascadeReach(c)
  BY <1>2 DEF CascadeReach, Running
<1>4. \A a \in job[j].todo \ c.todo : chain[a].status # "none" =>
          chain[a].status = "revoked" \/ a \in lost' \cup skipped
  <2>1. job[j].todo \subseteq Agents
    BY JobSound DEF Job
  <2> QED
    BY <2>1 DEF Fail, Trusted, RInv, IInv, TypeOK, Chain
<1> QED
  BY <1>1, <1>2, <1>3, <1>4, JobReach DEF Fail, Running

\* Steps that belong to no job.
LEMMA ReachUntouched ==
    ASSUME RInv, Harmless, UNCHANGED job
    PROVE  ReachSound'
<1> SUFFICES ASSUME NEW k \in Jobs
             PROVE  CascadeReach(job[k])'
  BY DEF ReachSound
<1>1. PICK c \in Job : c = job[k]
  BY JobSound
<1>2. c.pc \in Running \ {"next", "search"} => c.listed \subseteq AllRows
  BY <1>1, JobSound DEF CascadeSound, Reachable
<1>3. CascadeReach(c)'
  BY <1>1, <1>2, JobSound, ReachKept
<1> QED
  BY <1>1, <1>3 DEF CascadeReach, SearchReach, RevokeReach, Closed, Settled

\* A new chain is not revoked, and makes nobody unsettled.
LEMMA EstablishReach ==
    ASSUME RInv, NEW a \in Agents, NEW h \in Humans, Establish(a, h)
    PROVE  ReachSound'
<1>1. SettledStays
  BY DEF Establish, SettledStays, Settled, RInv, IInv, TypeOK
<1>2. Harmless
  BY <1>1, NoRowClosed DEF Harmless, Establish
<1> QED
  BY <1>2, ReachUntouched DEF Establish

\* A row that is added while no revocation runs concerns none.
LEMMA DelegateReach ==
    ASSUME RInv, NEW r \in Rows, NEW a \in Agents, NEW b \in Agents, Delegate(r, a, b)
    PROVE  ReachSound'
<1>1. CASE Quiet
  <2>1. \A k \in Jobs : job'[k].pc \notin Running /\ job'[k].todo = job[k].todo
    BY <1>1 DEF Quiet, Delegate
  <2>2. \A k \in Jobs : job[k].pc \in {"idle", "search", "done"} => job[k].todo = {}
    BY JobSound DEF CascadeReach
  <2> QED
    BY <2>1, <2>2 DEF ReachSound, CascadeReach, Running, Delegate
<1>2. CASE ~Quiet
  <2>1. row'[r].late /\ \A q \in Rows : q # r => row'[q] = row[q]
    BY <1>2 DEF Delegate, RInv, IInv, TypeOK
  <2>2. EarlyRows' = EarlyRows /\ \A q \in EarlyRows : row'[q] = row[q]
    BY <2>1 DEF EarlyRows, ActiveRows, Delegate
  <2>3. \A q \in AllRows : q \in AllRows' /\ row'[q] = row[q]
    BY <2>1 DEF AllRows, Delegate
  <2>4. EarlyStays
    BY <2>2, <2>3 DEF EarlyStays, RowsStay
  <2>5. \A S : Closed(S)' <=> Closed(S)
    BY <2>2 DEF Closed
  <2>6. ClosedStays
    BY <2>5 DEF ClosedStays
  <2>7. SettledStays
    BY DEF SettledStays, Settled, Delegate
  <2>8. Harmless
    BY <2>4, <2>6, <2>7 DEF Harmless
  <2> QED
    BY <2>8, ReachUntouched DEF Delegate
<1> QED
  BY <1>1, <1>2

\* At first there is no cascade.
LEMMA InitReach == Init => ReachSound
BY DEF Init, ReachSound, CascadeReach, NoJob, Running

\* One step of the specification, by action.
LEMMA NextReach == RInv /\ [Next]_vars => ReachSound'
<1> SUFFICES ASSUME RInv, [Next]_vars PROVE ReachSound'
  OBVIOUS
<1>1. ASSUME NEW a \in Agents, NEW h \in Humans, Establish(a, h) PROVE ReachSound'
  BY <1>1, EstablishReach
<1>2. ASSUME NEW r \in Rows, NEW a \in Agents, NEW b \in Agents, Delegate(r, a, b)
      PROVE  ReachSound'
  BY <1>2, DelegateReach
<1>3. ASSUME NEW j \in Revokes, NEW a \in Agents, RevokeAgent(j, a) PROVE ReachSound'
  BY <1>3, RevokeAgentReach DEF Jobs
<1>4. ASSUME NEW j \in Purges, NEW h \in Humans, RevokeHuman(j, h) PROVE ReachSound'
  BY <1>4, RevokeHumanReach DEF Jobs
<1>5. ASSUME NEW j \in Jobs,
             \/ NextTarget(j) \/ Search(j) \/ RevokeChain(j) \/ ListRows(j)
             \/ RevokeRow(j) \/ Audit(j) \/ Fail(j)
      PROVE  ReachSound'
  BY <1>5, NextTargetReach, SearchReachStep, RevokeChainReach, ListRowsReach,
     RevokeRowReach, AuditReach, FailReach
<1>6. CASE UNCHANGED vars
  <2>1. Harmless
    BY <1>6, NoRowClosed DEF Harmless, SettledStays, Settled, vars
  <2> QED
    BY <1>6, <2>1, ReachUntouched DEF vars
<1> QED
  BY <1>1, <1>2, <1>3, <1>4, <1>5, <1>6 DEF Next

\* However revocations overlap and fail, one that is through leaves nobody
\* trusted who lay downstream of its target, unless another one still has him on
\* its list, gave him up, or passed over him.
THEOREM CascadeReachesAll == Spec => []CascadeReaches
<1>1. Init => RInv
  BY InitIInv, InitReach DEF RInv
<1>2. RInv /\ [Next]_vars => RInv'
  BY NextIInv, NextReach DEF RInv
<1>3. RInv => CascadeReaches
  BY DEF RInv, ReachSound, CascadeReach, RevokeReach, CascadeReaches, Running
<1> QED
  BY <1>1, <1>2, <1>3, PTL DEF Spec

\* A revocation that is through while no other is running leaves nobody trusted
\* who lay downstream when it began, unless one that failed gave him up or any
\* passed over him: what is left of EveryDelegateRevoked.
THEOREM CascadeLastOneReaches == Spec => []LastOneReaches
<1>1. Init => RInv
  BY InitIInv, InitReach DEF RInv
<1>2. RInv /\ [Next]_vars => RInv'
  BY NextIInv, NextReach DEF RInv
<1>3. RInv => LastOneReaches
  <2> SUFFICES ASSUME RInv, NEW j \in Jobs, job[j].pc = "audit",
                      \A k \in Jobs \ {j} : job[k].pc \notin Running,
                      NEW a \in job[j].under \ (lost \cup skipped)
               PROVE  chain[a].status = "revoked"
    BY DEF LastOneReaches
  <2>1. Settled(a)
    BY DEF RInv, ReachSound, CascadeReach, RevokeReach, Running
  <2>2. job[j].todo = {}
    BY JobSound DEF CascadeSound
  <2>3. ASSUME NEW k \in Jobs \ {j} PROVE job[k].todo = {}
    <3>1. job[k].pc \in {"idle", "done"}
      BY JobSound DEF Job, Running
    <3> QED
      BY <3>1, JobSound DEF CascadeReach
  <2> QED
    BY <2>1, <2>2, <2>3 DEF Settled
<1> QED
  BY <1>1, <1>2, <1>3, PTL DEF Spec
=============================================================================

---------------------------- MODULE ServicesProofs ----------------------------
(* Theorems of the services that deliver to webhooks, for any number of      *)
(* deliveries and attempts, and of those that keep accounts.                 *)
EXTENDS MCDeliveries, MCAccounts, FiniteSetTheorems, TLAPS

\* A record of the task whose fields are changed is a record of a task.
LEMMA TaskFields ==
    ASSUME NEW t \in Task, NEW pc \in PCs, NEW n \in Nat, NEW seen \in Nat,
           NEW o \in Outcomes, NEW of \in Deliveries \cup {None}
    PROVE  /\ [t EXCEPT !.pc = pc] \in Task
           /\ [t EXCEPT !.pc = pc, !.of = of] \in Task
           /\ [t EXCEPT !.pc = pc, !.posts = n, !.last = o] \in Task
           /\ [t EXCEPT !.pc = pc, !.seen = seen] \in Task
BY DEF Task

\* Beginning a delivery keeps the types.
LEMMA TypeBegin ==
    ASSUME TypeOK, NEW d \in Deliveries, NEW pc \in {"creating", "fetching"},
           NEW of \in Deliveries \cup {None}, Begin(d, pc, of),
           early' \in [Deliveries -> BOOLEAN]
    PROVE  TypeOK'
<1>1. task' \in [Deliveries -> Task]
  <2>1. pc \in PCs
    BY DEF PCs
  <2>2. [task[d] EXCEPT !.pc = pc, !.of = of] \in Task
    BY <2>1 DEF TypeOK, Task
  <2>3. task' = [task EXCEPT ![d] = [task[d] EXCEPT !.pc = pc, !.of = of]]
    BY DEF Begin, TypeOK
  <2> QED
    BY <2>2, <2>3 DEF TypeOK
<1>2. ledger' \in Ledger
  BY DEF Begin, TypeOK, Ledger, Blurred
<1> QED
  BY <1>1, <1>2 DEF Begin, TypeOK

\* A step that only moves the control of a delivery keeps the types.
LEMMA TypeGo ==
    ASSUME TypeOK, NEW d \in Deliveries, NEW pc \in PCs, Go(d, pc)
    PROVE  task' \in [Deliveries -> Task]
<1>1. [task[d] EXCEPT !.pc = pc] \in Task
  BY DEF TypeOK, Task
<1>2. task' = [task EXCEPT ![d] = [task[d] EXCEPT !.pc = pc]]
  BY DEF Go, TypeOK
<1> QED
  BY <1>1, <1>2 DEF TypeOK

\* Writing a row keeps its type.
LEMMA TypeWrite ==
    ASSUME TypeOK, NEW d \in Deliveries, NEW s \in {"pending", "success", "failed"}, Write(d, s)
    PROVE  row' \in [Deliveries -> Row]
<1>1. [status |-> s, attempts |-> task[d].posts] \in Row
  BY DEF TypeOK, Task, Row
<1> QED
  BY <1>1 DEF Write, TypeOK

\* So does counting on the webhook.
LEMMA TypeCount ==
    ASSUME TypeOK, NEW n \in Nat, Count(n)
    PROVE  hook' \in Hook
BY DEF Count, TypeOK, Hook

\* And so does a step that posts.
LEMMA TypePosted ==
    ASSUME TypeOK, NEW d \in Deliveries, NEW o \in Outcomes,
           NEW pc \in {"recording", "failing"}, Posted(d, o, pc)
    PROVE  task' \in [Deliveries -> Task] /\ ledger' \in Ledger
<1>1. pc \in PCs
  BY DEF PCs
<1>2. [task[d] EXCEPT !.pc = pc, !.posts = @ + 1, !.last = o] \in Task
  <2>1. task[d] \in Task /\ task[d].posts + 1 \in Nat
    BY DEF TypeOK, Task
  <2> QED
    BY <1>1, <2>1, TaskFields
<1>3. task' = [task EXCEPT ![d] = [task[d] EXCEPT !.pc = pc, !.posts = @ + 1, !.last = o]]
  BY DEF Posted, TypeOK
<1>4. task' \in [Deliveries -> Task]
  BY <1>2, <1>3 DEF TypeOK
<1>5. ledger' \in Ledger
  <2>1. ledger \in Ledger /\ ledger.owed + 1 \in Nat
    BY DEF TypeOK, Ledger
  <2>2. ledger' = [ledger EXCEPT !.owed = IF ledger.blurred \/ o = "ok" THEN 0 ELSE @ + 1]
    BY DEF Posted
  <2> QED
    BY <2>1, <2>2 DEF Ledger
<1> QED
  BY <1>4, <1>5

\* A step that sets the control and the count a task has read.
LEMMA TypeSeen ==
    ASSUME TypeOK, NEW d \in Deliveries, NEW pc \in PCs, NEW n \in Nat,
           \/ task' = [task EXCEPT ![d].seen = n, ![d].pc = pc]
           \/ task' = [task EXCEPT ![d].pc = pc, ![d].seen = n]
    PROVE  task' \in [Deliveries -> Task]
<1>1. [task[d] EXCEPT !.pc = pc, !.seen = n] \in Task
  <2>1. task[d] \in Task /\ "ok" \in Outcomes /\ None \in Deliveries \cup {None}
    BY DEF TypeOK, Outcomes
  <2> QED
    BY <2>1, TaskFields
<1>2. task' = [task EXCEPT ![d] = [task[d] EXCEPT !.pc = pc, !.seen = n]]
  BY DEF TypeOK, Task
<1> QED
  BY <1>1, <1>2 DEF TypeOK

\* Every step of a delivery keeps the types.
LEMMA TypeStep ==
    ASSUME TypeOK, NEW d \in Deliveries, Step(d)
    PROVE  TypeOK'
<1> USE DEF TypeOK
<1>m. ASSUME NEW b \in BOOLEAN
      PROVE  [missed EXCEPT ![d] = b] \in [Deliveries -> BOOLEAN]
  OBVIOUS
<1>b. Blurred \in Ledger
  BY DEF Blurred, Ledger
<1>a. /\ [receiver EXCEPT ![d] = @ + 1] \in [Deliveries -> Nat]
      /\ [missed EXCEPT ![d] = TRUE] \in [Deliveries -> BOOLEAN]
      /\ [missed EXCEPT ![d] = @ \/ task[d].pc = "recording"] \in [Deliveries -> BOOLEAN]
      /\ [missed EXCEPT ![d] = @ \/ task[d].last = "ok"] \in [Deliveries -> BOOLEAN]
      /\ Blurred \in Ledger
      /\ AfterFailure(d) \in PCs /\ AfterCount(d) \in PCs
  BY <1>m, <1>b DEF AfterCount, AfterFailure, PCs
<1>1. CASE Fetched(d)
  BY <1>1, TypeGo DEF Fetched, PCs, Over
<1>2. CASE RowCreated(d)
  BY <1>2, TypeGo, TypeWrite DEF RowCreated, PCs
<1>3. CASE RowNotCreated(d)
  BY <1>3, <1>a, TypeGo DEF RowNotCreated, PCs, Over, Blur
<1>4. CASE Accepted(d)
  BY <1>4, <1>a, TypePosted DEF Accepted, Posted, Outcomes
<1>5. CASE Rejected(d)
  <2>1. PICK o \in {"refused", "error"} : Posted(d, o, "recording")
    BY <1>5 DEF Rejected
  <2>2. o \in Outcomes
    BY DEF Outcomes
  <2> QED
    BY <1>5, <2>1, <2>2, TypePosted DEF Rejected, Posted
<1>6. CASE Unheard(d)
  BY <1>6, <1>a, TypePosted DEF Unheard, Posted, Outcomes
<1>7. CASE Recorded(d)
  BY <1>7, TypeGo, TypeWrite DEF Recorded, PCs
<1>8. CASE Reset(d)
  <2>1. ledger' \in Ledger
    BY <1>8, <1>a DEF Reset, Hook, Ledger
  <2> QED
    BY <1>8, <2>1, TypeGo, TypeCount DEF Reset, PCs
<1>9. CASE CountRead(d)
  <2>0. ledger' \in Ledger
    BY <1>9 DEF CountRead, Ledger
  <2>1. hook.failures \in Nat
    BY DEF Hook
  <2>2. task' = [task EXCEPT ![d].seen = hook.failures, ![d].pc =
                    IF task[d].pc = "counting" THEN "adding" ELSE "readding"]
    BY <1>9 DEF CountRead
  <2>3. (IF task[d].pc = "counting" THEN "adding" ELSE "readding") \in PCs
    BY DEF PCs
  <2> QED
    BY <1>9, <2>0, <2>1, <2>2, <2>3, TypeSeen DEF CountRead
<1>10. CASE CountSkipped(d)
  BY <1>10, <1>a, TypeGo DEF CountSkipped, Blur
<1>11. CASE Added(d)
  <2>1. task[d].seen + 1 \in Nat
    BY DEF Task
  <2>2. ledger' \in Ledger
    BY <1>11 DEF Added, Ledger
  <2> QED
    BY <1>11, <1>a, <2>1, <2>2, TypeCount, TypeSeen DEF Added
<1>12. CASE Wake(d)
  BY <1>12, TypeGo DEF Wake, PCs
<1>13. CASE WriteRaises(d)
  BY <1>13, <1>a, TypeSeen DEF WriteRaises, Blur, PCs
<1>14. CASE FailureRecorded(d)
  BY <1>14, <1>a, TypeGo, TypeWrite DEF FailureRecorded, PCs
<1>15. CASE HandlerRaises(d)
  BY <1>15, <1>a, TypeSeen DEF HandlerRaises, Blur, PCs, Over
<1>16. CASE Stamp(d)
  BY <1>16, TypeGo DEF Stamp, PCs, Over
<1> QED
  BY <1>1, <1>2, <1>3, <1>4, <1>5, <1>6, <1>7, <1>8, <1>9, <1>10, <1>11, <1>12, <1>13,
     <1>14, <1>15, <1>16 DEF Step

\* A crash keeps the types.
LEMMA TypeCrash ==
    ASSUME TypeOK, Crash
    PROVE  TypeOK'
<1>1. ASSUME NEW d \in Deliveries
      PROVE  [task[d] EXCEPT !.pc = "dead", !.seen = 0] \in Task
  BY DEF TypeOK, Task, PCs, Over
<1>2. task' \in [Deliveries -> Task]
  BY <1>1 DEF TypeOK, Crash
<1>3. missed' \in [Deliveries -> BOOLEAN]
  BY DEF TypeOK, Crash
<1> QED
  BY <1>2, <1>3 DEF TypeOK, Crash, Blur, Blurred, Ledger

\* Every step of the service keeps the types.
LEMMA TypeNext ==
    ASSUME TypeOK, [Next]_vars
    PROVE  TypeOK'
<1>1. ASSUME NEW d \in Deliveries, Trigger(d) \/ Test(d) PROVE TypeOK'
  <2>1. Begin(d, "creating", None) /\ early' = early
    BY <1>1 DEF Trigger, Test
  <2> QED
    BY <2>1, TypeBegin DEF TypeOK
<1>2. ASSUME NEW d \in Deliveries, NEW e \in Deliveries, Retry(d, e) PROVE TypeOK'
  <2>1. early' \in [Deliveries -> BOOLEAN]
    BY <1>2 DEF Retry, TypeOK, Live
  <2> QED
    BY <1>2, <2>1, TypeBegin DEF Retry
<1>3. ASSUME NEW s \in {"active", "inactive"}, SetStatus(s) PROVE TypeOK'
  BY <1>3 DEF SetStatus, TypeOK, Hook
<1>4. CASE Delete
  BY <1>4 DEF Delete, TypeOK, Hook, Ledger
<1>5. CASE UNCHANGED vars
  BY <1>5 DEF vars, TypeOK
<1> QED
  BY <1>1, <1>2, <1>3, <1>4, <1>5, TypeStep, TypeCrash DEF Next

\* The type invariant of the webhook, its deliveries and their tasks.
THEOREM WebhookTypes == Spec => []TypeOK
<1>1. Init => TypeOK
  BY DEF Init, TypeOK, Hook, Row, Task, Ledger, NoTask, PCs
<1>2. TypeOK /\ [Next]_vars => TypeOK'
  BY TypeNext
<1> QED
  BY <1>1, <1>2, PTL DEF Spec

-----------------------------------------------------------------------------
\* A step of one delivery leaves the others alone.
LEMMA OthersKept ==
    ASSUME TypeOK, NEW d \in Deliveries, Step(d), NEW e \in Deliveries, e # d
    PROVE  /\ task'[e] = task[e] /\ row'[e] = row[e]
           /\ receiver'[e] = receiver[e] /\ missed'[e] = missed[e]
<1> USE DEF TypeOK
<1>1. CASE Fetched(d) \/ RowNotCreated(d) \/ CountSkipped(d) \/ Wake(d) \/ Stamp(d)
  BY <1>1 DEF Fetched, RowNotCreated, CountSkipped, Wake, Stamp, Go
<1>2. CASE RowCreated(d) \/ Recorded(d) \/ FailureRecorded(d)
  BY <1>2 DEF RowCreated, Recorded, FailureRecorded, Go, Write
<1>3. CASE Accepted(d) \/ Rejected(d) \/ Unheard(d)
  BY <1>3 DEF Accepted, Rejected, Unheard, Posted
<1>4. CASE Reset(d) \/ CountRead(d) \/ Added(d)
  BY <1>4 DEF Reset, CountRead, Added, Go
<1>5. CASE WriteRaises(d) \/ HandlerRaises(d)
  BY <1>5 DEF WriteRaises, HandlerRaises
<1> QED
  BY <1>1, <1>2, <1>3, <1>4, <1>5 DEF Step

\* A step of a delivery keeps what that delivery holds.
LEMMA OwnStep ==
    ASSUME TypeOK, NEW d \in Deliveries, DeliveryStep(d), Step(d)
    PROVE  DeliveryStep(d)'
<1> USE DEF TypeOK, DeliveryStep
<1>t. /\ task[d] \in Task /\ row[d] \in Row /\ receiver[d] \in Nat
      /\ MaxPosts \in Nat \ {0}
  BY WebhookAssumption
<1>1. CASE Fetched(d)
  BY <1>1, <1>t DEF Fetched, Go, Task, Row
<1>2. CASE RowCreated(d)
  BY <1>2, <1>t DEF RowCreated, Go, Write, Task, Row
<1>3. CASE RowNotCreated(d)
  BY <1>3, <1>t DEF RowNotCreated, Go, Task, Row
<1>4. CASE Accepted(d)
  BY <1>4, <1>t DEF Accepted, Posted, Task, Row
<1>5. CASE Rejected(d)
  BY <1>5, <1>t DEF Rejected, Posted, Task, Row
<1>6. CASE Unheard(d)
  BY <1>6, <1>t DEF Unheard, Posted, Task, Row
<1>7. CASE Recorded(d)
  BY <1>7, <1>t DEF Recorded, Go, Write, Task, Row
<1>8. CASE Reset(d)
  BY <1>8, <1>t DEF Reset, Go, Task, Row
<1>9. CASE CountRead(d)
  BY <1>9, <1>t DEF CountRead, Task, Row
<1>10. CASE CountSkipped(d)
  BY <1>10, <1>t DEF CountSkipped, AfterCount, AfterFailure, Go, Task, Row
<1>11. CASE Added(d)
  BY <1>11, <1>t DEF Added, AfterCount, AfterFailure, Task, Row
<1>12. CASE Wake(d)
  BY <1>12, <1>t DEF Wake, Go, Task, Row
<1>13. CASE WriteRaises(d)
  BY <1>13, <1>t DEF WriteRaises, Task, Row
<1>14. CASE FailureRecorded(d)
  BY <1>14, <1>t DEF FailureRecorded, Go, Write, Task, Row
<1>15. CASE HandlerRaises(d)
  BY <1>15, <1>t DEF HandlerRaises, Task, Row
<1>16. CASE Stamp(d)
  BY <1>16, <1>t DEF Stamp, Go, Task, Row
<1> QED
  BY <1>1, <1>2, <1>3, <1>4, <1>5, <1>6, <1>7, <1>8, <1>9, <1>10, <1>11, <1>12, <1>13,
     <1>14, <1>15, <1>16 DEF Step

\* A crash keeps what every delivery holds.
LEMMA CrashKeepsSteps ==
    ASSUME TypeOK, StepsHold, Crash
    PROVE  StepsHold'
<1> SUFFICES ASSUME NEW d \in Deliveries PROVE DeliveryStep(d)'
  BY DEF StepsHold
<1>1. DeliveryStep(d) /\ task[d] \in Task /\ row'[d] = row[d] /\ receiver'[d] = receiver[d]
  BY DEF StepsHold, TypeOK, Crash
<1>2. CASE ~Live(d)
  <2>1. task'[d] = task[d] /\ missed'[d] = missed[d]
    BY <1>2 DEF Crash, Live, Over, TypeOK
  <2> QED
    BY <1>1, <2>1 DEF DeliveryStep
<1>3. CASE Live(d)
  <2>1. /\ task'[d] = [task[d] EXCEPT !.pc = "dead", !.seen = 0]
        /\ missed[d] \/ task[d].pc = "recording" => missed'[d]
    BY <1>3 DEF Crash
  <2>2. /\ task'[d].pc = "dead" /\ task'[d].posts = task[d].posts
        /\ task'[d].last = task[d].last
    BY <1>1, <2>1 DEF Task
  <2> QED
    BY <1>1, <2>1, <2>2 DEF DeliveryStep
<1> QED
  BY <1>2, <1>3

\* Beginning a delivery keeps what every delivery holds.
LEMMA BeginKeepsSteps ==
    ASSUME TypeOK, StepsHold, NEW d \in Deliveries, NEW pc \in {"creating", "fetching"},
           NEW of \in Deliveries \cup {None}, Begin(d, pc, of)
    PROVE  StepsHold'
<1> SUFFICES ASSUME NEW e \in Deliveries PROVE DeliveryStep(e)'
  BY DEF StepsHold
<1>1. DeliveryStep(e) /\ row' = row /\ receiver' = receiver /\ missed' = missed
  BY DEF StepsHold, Begin
<1>2. CASE e # d
  BY <1>1, <1>2 DEF Begin, TypeOK, DeliveryStep
<1>3. CASE e = d
  <2>1. task[d] \in Task
        /\ task'[d] = [task[d] EXCEPT !.pc = pc, !.of = of] /\ task[d].pc = "unborn"
    BY DEF Begin, TypeOK
  <2> QED
    BY <1>1, <1>3, <2>1 DEF DeliveryStep, Task
<1> QED
  BY <1>2, <1>3

\* Every step of the service keeps what every delivery holds.
LEMMA NextKeepsSteps ==
    ASSUME TypeOK, StepsHold, [Next]_vars
    PROVE  StepsHold'
<1>1. ASSUME NEW d \in Deliveries, Trigger(d) \/ Test(d) PROVE StepsHold'
  BY <1>1, BeginKeepsSteps DEF Trigger, Test
<1>2. ASSUME NEW d \in Deliveries, NEW e \in Deliveries, Retry(d, e) PROVE StepsHold'
  BY <1>2, BeginKeepsSteps DEF Retry
<1>3. ASSUME NEW d \in Deliveries, Step(d) PROVE StepsHold'
  <2>1. DeliveryStep(d)'
    BY <1>3, OwnStep DEF StepsHold
  <2>2. ASSUME NEW e \in Deliveries, e # d PROVE DeliveryStep(e)'
    <3>1. DeliveryStep(e)
      BY DEF StepsHold
    <3> QED
      BY <1>3, <2>2, <3>1, OthersKept DEF DeliveryStep
  <2> QED
    BY <2>1, <2>2 DEF StepsHold
<1>4. ASSUME UNCHANGED <<row, task, receiver, missed>> PROVE StepsHold'
  BY <1>4 DEF StepsHold, DeliveryStep
<1>5. (\E s \in {"active", "inactive"} : SetStatus(s)) \/ Delete \/ UNCHANGED vars
      => UNCHANGED <<row, task, receiver, missed>>
  BY DEF SetStatus, Delete, vars
<1> QED
  BY <1>1, <1>2, <1>3, <1>4, <1>5, CrashKeepsSteps DEF Next

-----------------------------------------------------------------------------
\* A delivery that takes a step is not over, and stays what it retries.
LEMMA StepIsLive ==
    ASSUME TypeOK, NEW d \in Deliveries, Step(d)
    PROVE  task[d].pc \notin Over \cup {"unborn"} /\ task'[d].of = task[d].of /\ early' = early
<1> USE DEF TypeOK, Task, Over
<1>1. CASE Fetched(d) \/ RowNotCreated(d) \/ CountSkipped(d) \/ Wake(d) \/ Stamp(d)
  BY <1>1 DEF Fetched, RowNotCreated, CountSkipped, Wake, Stamp, Go
<1>2. CASE RowCreated(d) \/ Recorded(d) \/ FailureRecorded(d) \/ Reset(d)
  BY <1>2 DEF RowCreated, Recorded, FailureRecorded, Reset, Go
<1>3. CASE Accepted(d) \/ Rejected(d) \/ Unheard(d)
  BY <1>3 DEF Accepted, Rejected, Unheard, Posted
<1>4. CASE CountRead(d) \/ Added(d) \/ WriteRaises(d) \/ HandlerRaises(d)
  BY <1>4 DEF CountRead, Added, WriteRaises, HandlerRaises
<1> QED
  BY <1>1, <1>2, <1>3, <1>4 DEF Step

\* A delivery that was over when its retry began stays as it was.
LEMMA NextKeepsRetried ==
    ASSUME TypeOK, StepsHold, RetriedStays, [Next]_vars
    PROVE  RetriedStays'
<1> SUFFICES ASSUME NEW r \in Deliveries, NEW e \in Deliveries, task'[r].of = e, ~early'[r]
             PROVE  task'[e].pc \in Over /\ row'[e].status = "failed"
  BY DEF RetriedStays
<1>w. task[r].of = e /\ ~early[r] => task[e].pc \in Over /\ row[e].status = "failed"
  BY DEF RetriedStays
<1>1. ASSUME NEW d \in Deliveries, Trigger(d) \/ Test(d)
      PROVE  task'[e].pc \in Over /\ row'[e].status = "failed"
  <2>1. Begin(d, "creating", None) /\ early' = early
    BY <1>1 DEF Trigger, Test
  <2>2. r # d
    BY <2>1, WebhookAssumption DEF Begin, TypeOK, Task
  <2>3. task[r].of = e
    BY <2>1, <2>2 DEF Begin, TypeOK
  <2> QED
    BY <1>w, <2>1, <2>3 DEF Begin, TypeOK, Over
<1>2. ASSUME NEW d \in Deliveries, NEW f \in Deliveries, Retry(d, f)
      PROVE  task'[e].pc \in Over /\ row'[e].status = "failed"
  <2>1. Begin(d, "fetching", f) /\ row[f].status = "failed"
        /\ early' = [early EXCEPT ![d] = Live(f)]
    BY <1>2 DEF Retry
  <2>2. task[f].pc # "unborn"
    BY <2>1 DEF StepsHold, DeliveryStep
  <2>3. CASE r = d
    <3>1. e = f /\ ~Live(f)
      BY <2>1, <2>3 DEF Begin, TypeOK, Task
    <3> QED
      BY <2>1, <2>2, <3>1 DEF Begin, TypeOK, Live, Over
  <2>4. CASE r # d
    <3>1. task[r].of = e /\ ~early[r]
      BY <2>1, <2>4 DEF Begin, TypeOK
    <3> QED
      BY <1>w, <2>1, <3>1 DEF Begin, TypeOK, Over
  <2> QED
    BY <2>3, <2>4
<1>3. ASSUME NEW d \in Deliveries, Step(d)
      PROVE  task'[e].pc \in Over /\ row'[e].status = "failed"
  <2>1. task[r].of = e /\ ~early[r]
    BY <1>3, StepIsLive, OthersKept
  <2>2. e # d
    BY <1>3, <1>w, <2>1, StepIsLive
  <2> QED
    BY <1>3, <1>w, <2>1, <2>2, OthersKept
<1>4. CASE Crash
  <2>1. task[r].of = e /\ ~early[r]
    BY <1>4 DEF Crash, TypeOK, Task
  <2> QED
    BY <1>4, <1>w, <2>1 DEF Crash, Live
<1>5. (\E s \in {"active", "inactive"} : SetStatus(s)) \/ Delete \/ UNCHANGED vars
      => UNCHANGED <<row, task, early>>
  BY DEF SetStatus, Delete, vars
<1> QED
  BY <1>w, <1>1, <1>2, <1>3, <1>4, <1>5 DEF Next

-----------------------------------------------------------------------------
\* What the only delivery at work has still to count.
Owes(d) ==
    LET t == task[d] IN
    /\ ~Counting(d) => hook.failures = ledger.owed
    /\ t.pc \in {"recording", "resetting"} /\ t.last = "ok" => ledger.owed = 0
    /\ \/ t.pc \in {"counting", "adding", "failing", "recounting", "readding"}
       \/ t.pc = "recording" /\ t.last # "ok"
       => ledger.owed = hook.failures + 1
    /\ t.pc \in {"adding", "readding"} => t.seen = hook.failures

\* A step of the only delivery at work, unless it blurs the count, leaves that
\* delivery with what it has still to count.
LEMMA OwesStep ==
    ASSUME TypeOK, NEW d \in Deliveries, DeliveryStep(d), Owes(d), Step(d),
           hook.present, ~ledger.blurred, ~ledger'.blurred
    PROVE  Owes(d)'
<1> USE DEF TypeOK, Owes, Counting
<1>t. /\ task[d] \in Task /\ hook \in Hook /\ ledger \in Ledger
      /\ task[d].seen \in Nat /\ hook.failures \in Nat /\ ledger.owed \in Nat
  BY DEF Task, Hook, Ledger
<1>1. CASE Fetched(d) \/ Wake(d) \/ Stamp(d)
  BY <1>1, <1>t DEF Fetched, Wake, Stamp, Go, Task
<1>2. CASE RowCreated(d) \/ FailureRecorded(d)
  BY <1>2, <1>t DEF RowCreated, FailureRecorded, Go, Task
<1>3. CASE RowNotCreated(d) \/ CountSkipped(d) \/ WriteRaises(d) \/ HandlerRaises(d)
  BY <1>3 DEF RowNotCreated, CountSkipped, WriteRaises, HandlerRaises, Blur, Blurred, Ledger
<1>4. CASE Accepted(d)
  BY <1>4, <1>t DEF Accepted, Posted, Task, Ledger
<1>5. CASE Rejected(d)
  BY <1>5, <1>t DEF Rejected, Posted, Task, Ledger
<1>6. CASE Unheard(d)
  BY <1>6, <1>t DEF Unheard, Posted, Task, Ledger
<1>7. CASE Recorded(d)
  BY <1>7, <1>t DEF Recorded, Go, Task
<1>8. CASE Reset(d)
  BY <1>8, <1>t DEF Reset, Go, Count, Task, Hook, DeliveryStep
<1>9. CASE CountRead(d)
  BY <1>9, <1>t DEF CountRead, Task
<1>10. CASE Added(d)
  BY <1>10, <1>t DEF Added, Count, AfterCount, AfterFailure, Task, Hook
<1> QED
  BY <1>1, <1>2, <1>3, <1>4, <1>5, <1>6, <1>7, <1>8, <1>9, <1>10 DEF Step

\* A step of a delivery neither brings the webhook back nor the count into
\* focus.
LEMMA StepBlursAtMost ==
    ASSUME TypeOK, NEW d \in Deliveries, Step(d)
    PROVE  (hook'.present <=> hook.present) /\ (ledger.blurred => ledger'.blurred)
<1> USE DEF TypeOK, Hook, Ledger
<1>1. CASE RowNotCreated(d) \/ CountSkipped(d) \/ WriteRaises(d) \/ HandlerRaises(d)
  BY <1>1 DEF RowNotCreated, CountSkipped, WriteRaises, HandlerRaises, Blur, Blurred
<1>2. CASE Fetched(d) \/ RowCreated(d) \/ Recorded(d) \/ CountRead(d) \/ Wake(d)
           \/ FailureRecorded(d) \/ Stamp(d)
  BY <1>2 DEF Fetched, RowCreated, Recorded, CountRead, Wake, FailureRecorded, Stamp
<1>3. CASE Accepted(d) \/ Rejected(d) \/ Unheard(d)
  BY <1>3 DEF Accepted, Rejected, Unheard, Posted
<1>4. CASE Reset(d) \/ Added(d)
  BY <1>4 DEF Reset, Added, Count
<1> QED
  BY <1>1, <1>2, <1>3, <1>4 DEF Step

\* Beginning a delivery keeps the count, which is blurred if another is at work.
LEMMA BeginKeepsCount ==
    ASSUME TypeOK, CountStep, NEW d \in Deliveries, NEW pc \in {"creating", "fetching"},
           NEW of \in Deliveries \cup {None}, Begin(d, pc, of)
    PROVE  CountStep'
<1> SUFFICES ASSUME ~ledger'.blurred PROVE CountStep'
  BY DEF CountStep
<1>1. ledger' = ledger /\ \A e \in Deliveries : ~Live(e)
  BY DEF Begin, Blurred, Ledger, TypeOK
<1>2. \A e \in Deliveries : e # d => task'[e] = task[e]
  BY DEF Begin, TypeOK
<1>3. task'[d].pc = pc
  BY DEF Begin, TypeOK, Task
<1>4. \A e \in Deliveries : ~Counting(e)
  BY <1>1 DEF Live, Counting, Over
<1>5. \A e \in Deliveries : ~Counting(e)'
  BY <1>2, <1>3, <1>4 DEF Counting
<1>6. hook' = hook /\ (hook.present => hook.failures = ledger.owed)
  BY <1>1, <1>4 DEF Begin, CountStep
<1>7. \A e, f \in Deliveries : Live(e)' /\ Live(f)' => e = f
  BY <1>1, <1>2 DEF Live
<1> QED
  BY <1>1, <1>5, <1>6, <1>7 DEF CountStep, Counting

\* A step of a delivery keeps the count.
LEMMA StepKeepsCount ==
    ASSUME TypeOK, CountStep, NEW d \in Deliveries, DeliveryStep(d), Step(d)
    PROVE  CountStep'
<1> SUFFICES ASSUME ~ledger'.blurred
             PROVE  /\ \A e, f \in Deliveries : Live(e)' /\ Live(f)' => e = f
                    /\ hook'.present =>
                        /\ Owes(d)'
                        /\ \A e \in Deliveries : e # d => task'[e].pc \in Over \cup {"unborn"}
  BY DEF CountStep, Counting, Owes, Over
<1>1. ~ledger.blurred /\ (hook'.present <=> hook.present)
  BY StepBlursAtMost
<1>2. Live(d)
  BY StepIsLive DEF Live
<1>3. \A e \in Deliveries : e # d => ~Live(e)
  BY <1>1, <1>2 DEF CountStep
<1>4. \A e \in Deliveries : e # d => task'[e] = task[e]
  BY OthersKept
<1>5. hook.present => Owes(d)
  BY <1>1, <1>3 DEF CountStep, Counting, Owes, Live, Over
<1>6. hook'.present => Owes(d)'
  BY <1>1, <1>5, OwesStep
<1> QED
  BY <1>3, <1>4, <1>6 DEF Live

\* Every step keeps the count of one delivery at a time.
LEMMA NextKeepsCount ==
    ASSUME TypeOK, StepsHold, CountStep, [Next]_vars
    PROVE  CountStep'
<1>1. ASSUME NEW d \in Deliveries, Trigger(d) \/ Test(d) PROVE CountStep'
  BY <1>1, BeginKeepsCount DEF Trigger, Test
<1>2. ASSUME NEW d \in Deliveries, NEW e \in Deliveries, Retry(d, e) PROVE CountStep'
  BY <1>2, BeginKeepsCount DEF Retry
<1>3. ASSUME NEW d \in Deliveries, Step(d) PROVE CountStep'
  BY <1>3, StepKeepsCount DEF StepsHold
<1>4. ASSUME NEW s \in {"active", "inactive"}, SetStatus(s) PROVE CountStep'
  BY <1>4 DEF SetStatus, CountStep, Counting, Live, TypeOK, Hook
<1>5. CASE Delete
  BY <1>5 DEF Delete, CountStep
<1>6. CASE Crash
  BY <1>6 DEF Crash, CountStep, Blur, Blurred, Ledger, TypeOK
<1>7. CASE UNCHANGED vars
  BY <1>7 DEF vars, CountStep, Counting, Live
<1> QED
  BY <1>1, <1>2, <1>3, <1>4, <1>5, <1>6, <1>7 DEF Next

\* A step of a delivery that is not at the counter leaves the counter and who is
\* at it alone.
LEMMA OffTheCounter ==
    ASSUME TypeOK, NEW d \in Deliveries, Step(d), ~Reset(d), ~CountRead(d), ~Added(d)
    PROVE  /\ hook' = hook /\ ledger'.counted = ledger.counted /\ ledger'.torn = ledger.torn
           /\ task'[d].pc \notin {"adding", "readding"}
<1> USE DEF TypeOK, Task, Ledger
<1>1. CASE Fetched(d) \/ RowCreated(d) \/ Wake(d) \/ Stamp(d)
  BY <1>1 DEF Fetched, RowCreated, Wake, Stamp, Go
<1>5. CASE Recorded(d)
  <2>1. PICK pc \in {"resetting", "counting"} : Go(d, pc)
    BY <1>5 DEF Recorded
  <2> QED
    BY <1>5, <2>1 DEF Recorded, Go
<1>6. CASE FailureRecorded(d)
  BY <1>6 DEF FailureRecorded, Go
<1>b. Blur => ledger'.counted = ledger.counted /\ ledger'.torn = ledger.torn
  BY DEF Blur, Blurred
<1>2. CASE RowNotCreated(d)
  BY <1>2, <1>b DEF RowNotCreated, Go
<1>7. CASE WriteRaises(d)
  BY <1>7, <1>b DEF WriteRaises
<1>8. CASE HandlerRaises(d)
  BY <1>8, <1>b DEF HandlerRaises
<1>3. CASE CountSkipped(d)
  BY <1>3, <1>b DEF CountSkipped, AfterCount, AfterFailure, Go
<1>4. CASE Accepted(d) \/ Rejected(d) \/ Unheard(d)
  BY <1>4 DEF Accepted, Rejected, Unheard, Posted
<1> QED
  BY <1>1, <1>2, <1>3, <1>4, <1>5, <1>6, <1>7, <1>8 DEF Step

\* A step of a delivery keeps the counter what was written to it.
LEMMA StepKeepsCounter ==
    ASSUME TypeOK, CounterStep, NEW d \in Deliveries, Step(d)
    PROVE  CounterStep'
<1> SUFFICES ASSUME hook'.present, ~ledger'.torn
             PROVE  /\ hook'.failures = ledger'.counted
                    /\ \A e \in Deliveries :
                           task'[e].pc \in {"adding", "readding"} =>
                               task'[e].seen = hook'.failures /\ ~Amid(e)'
  BY DEF CounterStep
<1>o. \A e \in Deliveries : e # d => task'[e] = task[e]
  BY OthersKept
<1>t. /\ task[d] \in Task /\ hook \in Hook /\ ledger \in Ledger /\ hook.present
      /\ task[d].seen \in Nat /\ hook.failures \in Nat /\ ledger.counted \in Nat
  BY StepBlursAtMost DEF TypeOK, Task, Hook, Ledger
<1>1. CASE Reset(d)
  <2>1. ~Amid(d) /\ ledger'.counted = 0 /\ hook'.failures = 0
    BY <1>1, <1>t DEF Reset, Count, Hook, Ledger
  <2>2. task'[d].pc = "stamping"
    BY <1>1, <1>t DEF Reset, Go, TypeOK, Task
  <2>3. \A e \in Deliveries : task'[e].pc \notin {"adding", "readding"}
    BY <1>o, <2>1, <2>2 DEF Amid
  <2> QED
    BY <2>1, <2>3
<1>2. CASE CountRead(d)
  <2>1. ~Amid(d) /\ ledger' = ledger /\ hook' = hook
    BY <1>2, <1>t DEF CountRead, Ledger
  <2>2. task'[d].seen = hook.failures
    BY <1>2, <1>t DEF CountRead, TypeOK, Task
  <2>3. \A e \in Deliveries \ {d} : task'[e].pc \notin {"adding", "readding"}
    BY <1>o, <2>1 DEF Amid
  <2> QED
    BY <1>t, <2>1, <2>2, <2>3 DEF CounterStep, Amid
<1>3. CASE Added(d)
  <2>1. ~ledger.torn
    BY <1>3, <1>t DEF Added, Ledger
  <2>2. task[d].seen = hook.failures /\ hook.failures = ledger.counted /\ ~Amid(d)
    BY <1>3, <1>t, <2>1 DEF Added, CounterStep
  <2>3. ledger'.counted = ledger.counted + 1 /\ hook'.failures = task[d].seen + 1
    BY <1>3, <1>t, <2>1 DEF Added, Count, Hook, Ledger
  <2>4. task'[d].pc \notin {"adding", "readding"}
    BY <1>3, <1>t DEF Added, AfterCount, AfterFailure, TypeOK, Task
  <2>5. \A e \in Deliveries : task'[e].pc \notin {"adding", "readding"}
    BY <1>o, <2>2, <2>4 DEF Amid
  <2> QED
    BY <2>2, <2>3, <2>5
<1>4. CASE ~Reset(d) /\ ~CountRead(d) /\ ~Added(d)
  BY <1>4, <1>o, <1>t, OffTheCounter DEF CounterStep, Amid
<1> QED
  BY <1>1, <1>2, <1>3, <1>4

\* So does every step of the service.
LEMMA NextKeepsCounter ==
    ASSUME TypeOK, CounterStep, [Next]_vars
    PROVE  CounterStep'
<1>1. ASSUME NEW d \in Deliveries, NEW pc \in {"creating", "fetching"},
             NEW of \in Deliveries \cup {None}, Begin(d, pc, of)
      PROVE  CounterStep'
  <2>1. /\ hook' = hook /\ ledger'.counted = ledger.counted /\ ledger'.torn = ledger.torn
        /\ task[d].pc = "unborn" /\ task'[d].pc = pc
        /\ \A e \in Deliveries : e # d => task'[e] = task[e]
    BY <1>1 DEF Begin, TypeOK, Task, Ledger, Blurred
  <2> QED
    BY <2>1 DEF CounterStep, Amid
<1>2. ASSUME NEW d \in Deliveries, Trigger(d) \/ Test(d) PROVE CounterStep'
  BY <1>1, <1>2 DEF Trigger, Test
<1>3. ASSUME NEW d \in Deliveries, NEW e \in Deliveries, Retry(d, e) PROVE CounterStep'
  BY <1>1, <1>3 DEF Retry
<1>4. ASSUME NEW s \in {"active", "inactive"}, SetStatus(s) PROVE CounterStep'
  BY <1>4 DEF SetStatus, CounterStep, Amid, TypeOK, Hook
<1>5. CASE Delete
  BY <1>5 DEF Delete, CounterStep
<1>6. CASE Crash
  <2>1. hook' = hook /\ ledger'.counted = ledger.counted /\ ledger'.torn = ledger.torn
    BY <1>6 DEF Crash, Blur, Blurred, TypeOK, Ledger
  <2>2. \A e \in Deliveries : task'[e].pc \in {"adding", "readding"} => task'[e] = task[e]
    BY <1>6 DEF Crash, TypeOK, Task
  <2> QED
    BY <2>1, <2>2 DEF CounterStep, Amid
<1>7. CASE UNCHANGED vars
  BY <1>7 DEF vars, CounterStep, Amid
<1> QED
  BY <1>2, <1>3, <1>4, <1>5, <1>6, <1>7, StepKeepsCounter DEF Next

-----------------------------------------------------------------------------
IInv == TypeOK /\ StepsHold /\ RetriedStays /\ CountStep /\ CounterStep

\* The strengthening holds at the start.
LEMMA InitIInv == Init => IInv
<1> SUFFICES ASSUME Init PROVE IInv
  OBVIOUS
<1>1. TypeOK
  BY DEF Init, TypeOK, Hook, Row, Task, Ledger, NoTask, PCs
<1>2. StepsHold /\ RetriedStays /\ CountStep /\ CounterStep
  BY WebhookAssumption DEF Init, StepsHold, DeliveryStep, RetriedStays, CountStep,
     CounterStep, NoTask, Live, Over
<1> QED
  BY <1>1, <1>2 DEF IInv

\* The invariant holds always.
THEOREM WebhookInvariant == Spec => []IInv
<1>1. Init => IInv
  BY InitIInv
<1>2. IInv /\ TypeOK' /\ [Next]_vars => IInv'
  BY NextKeepsSteps, NextKeepsRetried, NextKeepsCount, NextKeepsCounter DEF IInv
<1> QED
  BY <1>1, <1>2, WebhookTypes, PTL DEF Spec

\* What the row of a delivery tells of its outcome (webhook_service.py:433-486).
THEOREM WebhookOutcomeOnRecord == Spec => []OutcomeOnRecord
<1>1. IInv => OutcomeOnRecord
  <2> SUFFICES ASSUME IInv, NEW d \in Deliveries
               PROVE  /\ row[d].status = "success" => receiver[d] = 1 /\ task[d].last = "ok"
                      /\ row[d].status = "failed" /\ receiver[d] > 0
                         /\ task[d].pc # "recording" => missed[d]
                      /\ task[d].pc = "done" /\ task[d].posts > 0 =>
                         row[d].status \in {"success", "failed"}
                         /\ row[d].attempts = task[d].posts
    BY DEF OutcomeOnRecord
  <2>1. DeliveryStep(d) /\ task[d].posts \in Nat
    BY DEF IInv, StepsHold, TypeOK, Task
  <2> QED
    BY <2>1 DEF DeliveryStep
<1> QED
  BY <1>1, WebhookInvariant, PTL

\* A delivery and its retry are both taken only for one of the two reasons
\* (webhook_service.py:541).
THEOREM WebhookDoubleDelivery == Spec => []DoubleDeliveryExplained
<1>1. IInv => DoubleDeliveryExplained
  <2> SUFFICES ASSUME IInv, NEW d \in Deliveries, NEW e \in Deliveries,
                      task[d].of = e, receiver[e] > 0, ~early[d]
               PROVE  missed[e]
    BY DEF DoubleDeliveryExplained
  <2>1. task[e].pc \in Over /\ row[e].status = "failed"
    BY DEF IInv, RetriedStays
  <2>2. DeliveryStep(e)
    BY DEF IInv, StepsHold
  <2> QED
    BY <2>1, <2>2 DEF DeliveryStep, Over
<1> QED
  BY <1>1, WebhookInvariant, PTL

\* The failure counter counts consecutive failures unless something blurred it,
\* and what was written to it up to the first overlapping read or reset
\* (webhook_service.py:507-528).
THEOREM WebhookConsecutiveFailures == Spec => []ConsecutiveFailures
<1>1. IInv => ConsecutiveFailures
  BY DEF IInv, CountStep, CounterStep, ConsecutiveFailures
<1> QED
  BY <1>1, WebhookInvariant, PTL

-----------------------------------------------------------------------------
(***************************************************************************)
(* The service keeps DeliveryPromise: each step of it is one of the        *)
(* promise, or changes nothing the promise is about.                       *)
(***************************************************************************)

\* What the promise sees of a step that moves one task.
LEMMA SeenMoves ==
    ASSUME TypeOK, NEW d \in Deliveries, \A e \in Deliveries : e # d => task'[e] = task[e]
    PROVE  /\ SeenPhase' = [SeenPhase EXCEPT ![d] = PhaseOf(task'[d].pc)]
           /\ SeenPosts' = [SeenPosts EXCEPT ![d] = task'[d].posts]
           /\ SeenLast' = [SeenLast EXCEPT ![d] = task'[d].last]
BY DEF SeenPhase, SeenPosts, SeenLast

\* A task that neither posts nor ends is not seen to move.
LEMMA Unseen ==
    ASSUME TypeOK, NEW d \in Deliveries, \A e \in Deliveries : e # d => task'[e] = task[e],
           task'[d].posts = task[d].posts, task'[d].last = task[d].last,
           PhaseOf(task'[d].pc) = PhaseOf(task[d].pc), receiver' = receiver
    PROVE  UNCHANGED <<SeenPhase, SeenPosts, SeenLast, receiver>>
BY SeenMoves DEF SeenPhase, SeenPosts, SeenLast

\* A task that ends is seen to close its delivery.
LEMMA SeenClosing ==
    ASSUME TypeOK, NEW d \in Deliveries, \A e \in Deliveries : e # d => task'[e] = task[e],
           task'[d].posts = task[d].posts, task'[d].last = task[d].last,
           PhaseOf(task[d].pc) = "open", task'[d].pc \in Over, receiver' = receiver
    PROVE  Promise!Next
<1>1. PhaseOf(task'[d].pc) = "closed"
  BY DEF PhaseOf, Over
<1>2. Promise!Close(d)
  BY <1>1, SeenMoves DEF Promise!Close, SeenPhase, SeenPosts, SeenLast
<1> QED
  BY <1>2 DEF Promise!Next

\* A task that posts is seen to post.
LEMMA SeenPosting ==
    ASSUME TypeOK, NEW d \in Deliveries, DeliveryStep(d), NEW o \in Outcomes, NEW n \in {0, 1},
           NEW pc \in {"recording", "failing"}, Posted(d, o, pc),
           o = "ok" => n = 1, o \in {"refused", "error"} => n = 0,
           receiver' = [receiver EXCEPT ![d] = @ + n]
    PROVE  Promise!Next
<1>1. \A e \in Deliveries : e # d => task'[e] = task[e]
  BY DEF Posted, TypeOK
<1>2. task'[d].pc = pc /\ task'[d].posts = task[d].posts + 1 /\ task'[d].last = o
  BY DEF Posted, TypeOK, Task
<1>3. /\ SeenPhase' = SeenPhase /\ SeenPhase[d] = "open"
      /\ SeenPosts' = [SeenPosts EXCEPT ![d] = @ + 1] /\ SeenPosts[d] < MaxPosts
      /\ SeenLast' = [SeenLast EXCEPT ![d] = o] /\ SeenLast[d] \in {"error"} \cup {"none"}
  <2>1. task[d].pc = "posting" /\ task[d].posts < MaxPosts /\ task[d].last \in {"none", "error"}
    BY DEF Posted, DeliveryStep
  <2>2. PhaseOf(pc) = "open" /\ PhaseOf("posting") = "open"
    BY DEF PhaseOf, Over
  <2>3. SeenPhase' = SeenPhase /\ SeenPhase[d] = "open"
    BY <1>1, <1>2, <2>1, <2>2, SeenMoves DEF SeenPhase
  <2>4. SeenPosts' = [SeenPosts EXCEPT ![d] = @ + 1] /\ SeenPosts[d] < MaxPosts
    BY <1>1, <1>2, <2>1, SeenMoves DEF SeenPosts
  <2>5. SeenLast' = [SeenLast EXCEPT ![d] = o] /\ SeenLast[d] \in {"error"} \cup {"none"}
    BY <1>1, <1>2, <2>1, SeenMoves DEF SeenLast
  <2> QED
    BY <2>3, <2>4, <2>5
<1>4. Promise!Post(d)
  BY <1>3 DEF Promise!Post, Promise!Outcomes, Outcomes
<1> QED
  BY <1>4 DEF Promise!Next

\* What the promise sees of a step of a delivery.
LEMMA PromiseStep ==
    ASSUME TypeOK, NEW d \in Deliveries, DeliveryStep(d), Step(d)
    PROVE  Promise!Next \/ UNCHANGED <<SeenPhase, SeenPosts, SeenLast, receiver>>
<1> USE DEF TypeOK, Task
<1>o. \A e \in Deliveries : e # d => task'[e] = task[e]
  BY OthersKept
<1>p. \A pc \in PCs \ (Over \cup {"unborn"}) : PhaseOf(pc) = "open"
  BY DEF PhaseOf
<1>q. task[d].pc \in PCs \ (Over \cup {"unborn"}) /\ PhaseOf(task[d].pc) = "open"
  BY <1>p, StepIsLive
<1>1. ASSUME NEW pc \in PCs \ (Over \cup {"unborn"}), task'[d].pc = pc, receiver' = receiver,
             task'[d].posts = task[d].posts, task'[d].last = task[d].last
      PROVE  UNCHANGED <<SeenPhase, SeenPosts, SeenLast, receiver>>
  BY <1>o, <1>p, <1>q, <1>1, Unseen
<1>2. CASE Fetched(d) \/ Stamp(d) \/ RowNotCreated(d) \/ HandlerRaises(d)
  <2>1. /\ task'[d].posts = task[d].posts /\ task'[d].last = task[d].last /\ receiver' = receiver
        /\ task'[d].pc \in Over \cup {"creating"}
    BY <1>2 DEF Fetched, Stamp, RowNotCreated, HandlerRaises, Go, Over
  <2>2. CASE task'[d].pc \in Over
    BY <1>o, <1>q, <2>1, <2>2, SeenClosing
  <2>3. CASE task'[d].pc = "creating"
    BY <1>1, <2>1, <2>3 DEF PCs, Over
  <2> QED
    BY <2>1, <2>2, <2>3
<1>3. CASE RowCreated(d) \/ Recorded(d) \/ Reset(d) \/ Wake(d) \/ FailureRecorded(d)
  <2>1. /\ task'[d].posts = task[d].posts /\ task'[d].last = task[d].last /\ receiver' = receiver
        /\ task'[d].pc \in {"posting", "resetting", "counting", "stamping", "recounting"}
    BY <1>3 DEF RowCreated, Recorded, Reset, Wake, FailureRecorded, Go
  <2> QED
    BY <1>1, <2>1 DEF PCs, Over
<1>4. CASE CountRead(d) \/ CountSkipped(d) \/ Added(d) \/ WriteRaises(d)
  <2>1. /\ task'[d].posts = task[d].posts /\ task'[d].last = task[d].last /\ receiver' = receiver
        /\ task'[d].pc \in {"adding", "readding", "stamping", "waiting", "failing"}
    BY <1>4 DEF CountRead, CountSkipped, Added, WriteRaises, AfterCount, AfterFailure, Go
  <2> QED
    BY <1>1, <2>1 DEF PCs, Over
<1>5. CASE Accepted(d)
  BY <1>5, SeenPosting DEF Accepted, Outcomes
<1>6. CASE Rejected(d)
  <2>1. PICK o \in {"refused", "error"} : Posted(d, o, "recording")
    BY <1>6 DEF Rejected
  <2>2. receiver' = [receiver EXCEPT ![d] = @ + 0]
    BY <1>6 DEF Rejected
  <2> QED
    BY <2>1, <2>2, SeenPosting DEF Outcomes
<1>7. CASE Unheard(d)
  <2>1. CASE receiver' = receiver
    <3>1. receiver' = [receiver EXCEPT ![d] = @ + 0]
      BY <2>1
    <3> QED
      BY <1>7, <3>1, SeenPosting DEF Unheard, Outcomes
  <2>2. CASE receiver' = [receiver EXCEPT ![d] = @ + 1]
    BY <1>7, <2>2, SeenPosting DEF Unheard, Outcomes
  <2> QED
    BY <1>7, <2>1, <2>2 DEF Unheard
<1> QED
  BY <1>2, <1>3, <1>4, <1>5, <1>6, <1>7 DEF Step

\* What the promise sees of any step.
LEMMA PromiseNext ==
    ASSUME TypeOK, StepsHold, [Next]_vars
    PROVE  Promise!Next \/ UNCHANGED <<SeenPhase, SeenPosts, SeenLast, receiver>>
<1>1. ASSUME NEW d \in Deliveries, NEW pc \in {"creating", "fetching"},
             NEW of \in Deliveries \cup {None}, Begin(d, pc, of)
      PROVE  Promise!Next
  <2>1. \A e \in Deliveries : e # d => task'[e] = task[e]
    BY <1>1 DEF Begin, TypeOK
  <2>2. /\ task'[d].pc = pc /\ task'[d].posts = task[d].posts /\ task'[d].last = task[d].last
        /\ task[d].pc = "unborn" /\ receiver' = receiver
    BY <1>1 DEF Begin, TypeOK, Task
  <2>3. PhaseOf(pc) = "open" /\ PhaseOf("unborn") = "unborn"
    BY DEF PhaseOf, Over
  <2>4. Promise!Open(d)
    BY <2>1, <2>2, <2>3, SeenMoves DEF Promise!Open, SeenPhase, SeenPosts, SeenLast
  <2> QED
    BY <2>4 DEF Promise!Next
<1>2. ASSUME NEW d \in Deliveries, Trigger(d) \/ Test(d) PROVE Promise!Next
  BY <1>1, <1>2 DEF Trigger, Test
<1>3. ASSUME NEW d \in Deliveries, NEW e \in Deliveries, Retry(d, e) PROVE Promise!Next
  BY <1>1, <1>3 DEF Retry
<1>4. ASSUME NEW d \in Deliveries, Step(d)
      PROVE  Promise!Next \/ UNCHANGED <<SeenPhase, SeenPosts, SeenLast, receiver>>
  BY <1>4, PromiseStep DEF StepsHold
<1>5. CASE Crash
  <2>1. ASSUME NEW d \in Deliveries
        PROVE  /\ task'[d].posts = task[d].posts /\ task'[d].last = task[d].last
               /\ PhaseOf(task'[d].pc) =
                    IF PhaseOf(task[d].pc) = "open" THEN "closed" ELSE PhaseOf(task[d].pc)
    BY <1>5 DEF Crash, Live, TypeOK, Task, PhaseOf, Over
  <2>2. Promise!CloseAll
    BY <1>5, <2>1 DEF Promise!CloseAll, Crash, SeenPhase, SeenPosts, SeenLast
  <2> QED
    BY <2>2 DEF Promise!Next
<1>6. ASSUME UNCHANGED <<task, receiver>>
      PROVE  UNCHANGED <<SeenPhase, SeenPosts, SeenLast, receiver>>
  BY <1>6 DEF SeenPhase, SeenPosts, SeenLast
<1>7. (\E s \in {"active", "inactive"} : SetStatus(s)) \/ Delete \/ UNCHANGED vars
      => UNCHANGED <<task, receiver>>
  BY DEF SetStatus, Delete, vars
<1> QED
  BY <1>2, <1>3, <1>4, <1>5, <1>6, <1>7 DEF Next

\* The service keeps DeliveryPromise but for its liveness: a bounded number of
\* posts, and never one after an outcome that is not worth a retry, an accepted
\* one among them (webhook_service.py:411-492).
THEOREM WebhookKeepsPromise == Spec => Promise!Safety
<1>1. Init => Promise!Init
  <2>1. PhaseOf("unborn") = "unborn"
    BY DEF PhaseOf, Over
  <2>2. /\ NoTask.pc = "unborn" /\ NoTask.posts = 0 /\ NoTask.last = "none"
        /\ Init => task = [d \in Deliveries |-> NoTask] /\ receiver = [d \in Deliveries |-> 0]
    BY DEF Init, NoTask
  <2> QED
    BY <2>1, <2>2 DEF Promise!Init, SeenPhase, SeenPosts, SeenLast
<1>2. IInv /\ [Next]_vars => [Promise!Next]_(Promise!vars)
  BY PromiseNext DEF IInv, Promise!vars
<1> QED
  BY <1>1, <1>2, WebhookInvariant, PTL DEF Spec, Promise!Safety

-----------------------------------------------------------------------------
(***************************************************************************)
(* The results of invocations.                                             *)
(***************************************************************************)

\* A record of a sender whose control is changed is a record of a sender.
LEMMA AgentGo ==
    ASSUME Agent!TypeOK, NEW i \in Invocations, NEW pc \in Agent!PCs, Agent!Go(i, pc)
    PROVE  sender' \in [Invocations -> Agent!Sender]
<1>1. [sender[i] EXCEPT !.pc = pc] \in Agent!Sender
  BY DEF Agent!TypeOK, Agent!Sender
<1>2. sender' = [sender EXCEPT ![i] = [sender[i] EXCEPT !.pc = pc]]
  BY DEF Agent!Go, Agent!TypeOK
<1> QED
  BY <1>1, <1>2 DEF Agent!TypeOK

\* So is one that has posted.
LEMMA AgentPosted ==
    ASSUME Agent!TypeOK, NEW i \in Invocations, NEW pc \in Agent!PCs,
           NEW o \in Agent!Outcomes, Agent!Posted(i, o, pc)
    PROVE  sender' \in [Invocations -> Agent!Sender]
<1>1. [pc |-> pc, posts |-> sender[i].posts + 1, last |-> o] \in Agent!Sender
  BY DEF Agent!TypeOK, Agent!Sender
<1> QED
  BY <1>1 DEF Agent!TypeOK, Agent!Posted

\* Every step of a sender keeps the types.
LEMMA AgentTypeStep ==
    ASSUME Agent!TypeOK, NEW i \in Invocations, Agent!Leave(i) \/ Agent!Step(i)
    PROVE  Agent!TypeOK'
<1> USE DEF Agent!TypeOK
<1>a. /\ [platform EXCEPT ![i] = @ + 1] \in [Invocations -> Nat]
      /\ [unsaid EXCEPT ![i] = TRUE] \in [Invocations -> BOOLEAN]
      /\ Agent!AfterFailure(i) \in Agent!PCs
  BY DEF Agent!AfterFailure, Agent!PCs
<1>1. CASE Agent!Leave(i) \/ Agent!Opened(i)
  BY <1>1, AgentGo DEF Agent!Leave, Agent!Opened, Agent!Say, Agent!PCs
<1>2. CASE Agent!OpeningRaises(i) \/ Agent!HandlerRaises(i)
  BY <1>2, AgentGo DEF Agent!OpeningRaises, Agent!HandlerRaises, Agent!PCs, Agent!Over
<1>3. CASE Agent!Unsupported(i) \/ Agent!Handled(i)
  BY <1>3, AgentGo DEF Agent!Unsupported, Agent!Handled, Agent!Say, Agent!PCs, Agent!Over
<1>4. CASE Agent!NotSendable(i)
  BY <1>4, AgentGo DEF Agent!NotSendable, Agent!PCs
<1>5. CASE Agent!Accepted(i)
  BY <1>5, <1>a, AgentPosted DEF Agent!Accepted, Agent!Posted, Agent!PCs, Agent!Outcomes
<1>6. CASE Agent!Rejected(i)
  BY <1>6, <1>a, AgentPosted DEF Agent!Rejected, Agent!Posted, Agent!Outcomes
<1>7. CASE Agent!Unheard(i)
  BY <1>7, <1>a, AgentPosted DEF Agent!Unheard, Agent!Posted, Agent!Outcomes
<1>8. CASE Agent!Wake(i) \/ Agent!Logged(i)
  BY <1>8, AgentGo DEF Agent!Wake, Agent!Logged, Agent!PCs, Agent!Over
<1>9. CASE Agent!Said(i)
  BY <1>9, AgentGo DEF Agent!Said, Agent!Say, Agent!PCs
<1>10. CASE Agent!SayingRaises(i)
  BY <1>10, <1>a, AgentGo DEF Agent!SayingRaises, Agent!PCs
<1> QED
  BY <1>1, <1>2, <1>3, <1>4, <1>5, <1>6, <1>7, <1>8, <1>9, <1>10 DEF Agent!Step

\* A step of one sender leaves the others alone.
LEMMA AgentOthersKept ==
    ASSUME Agent!TypeOK, NEW i \in Invocations, Agent!Leave(i) \/ Agent!Step(i),
           NEW j \in Invocations, j # i
    PROVE  /\ sender'[j] = sender[j] /\ said'[j] = said[j]
           /\ platform'[j] = platform[j] /\ unsaid'[j] = unsaid[j]
<1> USE DEF Agent!TypeOK, Agent!Go, Agent!Say, Agent!Posted
<1>1. CASE Agent!Leave(i) \/ Agent!Opened(i) \/ Agent!Unsupported(i) \/ Agent!Said(i)
           \/ Agent!Handled(i)
  BY <1>1 DEF Agent!Leave, Agent!Opened, Agent!Unsupported, Agent!Said, Agent!Handled
<1>2. CASE Agent!OpeningRaises(i) \/ Agent!HandlerRaises(i) \/ Agent!NotSendable(i)
           \/ Agent!Wake(i) \/ Agent!Logged(i) \/ Agent!SayingRaises(i)
  BY <1>2 DEF Agent!OpeningRaises, Agent!HandlerRaises, Agent!NotSendable, Agent!Wake,
     Agent!Logged, Agent!SayingRaises
<1>3. CASE Agent!Accepted(i) \/ Agent!Rejected(i) \/ Agent!Unheard(i)
  BY <1>3 DEF Agent!Accepted, Agent!Rejected, Agent!Unheard
<1> QED
  BY <1>1, <1>2, <1>3 DEF Agent!Step

\* A step of a sender keeps what that sender holds.
LEMMA AgentOwnStep ==
    ASSUME Agent!TypeOK, NEW i \in Invocations, Agent!SenderStep(i),
           Agent!Leave(i) \/ Agent!Step(i)
    PROVE  Agent!SenderStep(i)'
<1> USE DEF Agent!TypeOK, Agent!SenderStep, Agent!Go, Agent!Say, Agent!Posted, Agent!Sender
<1>t. /\ sender[i] \in Agent!Sender /\ platform[i] \in Nat
      /\ MaxAgentPosts \in Nat \ {0}
  BY AgentAssumption
<1>1. CASE Agent!Leave(i)
  BY <1>1, <1>t DEF Agent!Leave
<1>2. CASE Agent!Opened(i)
  BY <1>2, <1>t DEF Agent!Opened
<1>3. CASE Agent!OpeningRaises(i)
  BY <1>3, <1>t DEF Agent!OpeningRaises
<1>4. CASE Agent!Unsupported(i)
  BY <1>4, <1>t DEF Agent!Unsupported
<1>5. CASE Agent!NotSendable(i)
  BY <1>5, <1>t DEF Agent!NotSendable
<1>6. CASE Agent!Accepted(i)
  BY <1>6, <1>t DEF Agent!Accepted
<1>7. CASE Agent!Rejected(i)
  BY <1>7, <1>t DEF Agent!Rejected, Agent!AfterFailure
<1>8. CASE Agent!Unheard(i)
  BY <1>8, <1>t DEF Agent!Unheard, Agent!AfterFailure
<1>9. CASE Agent!Wake(i)
  BY <1>9, <1>t DEF Agent!Wake
<1>10. CASE Agent!Said(i)
  BY <1>10, <1>t DEF Agent!Said
<1>11. CASE Agent!SayingRaises(i)
  BY <1>11, <1>t DEF Agent!SayingRaises
<1>12. CASE Agent!Logged(i)
  BY <1>12, <1>t DEF Agent!Logged
<1>13. CASE Agent!Handled(i)
  BY <1>13, <1>t DEF Agent!Handled
<1>14. CASE Agent!HandlerRaises(i)
  BY <1>14, <1>t DEF Agent!HandlerRaises
<1> QED
  BY <1>1, <1>2, <1>3, <1>4, <1>5, <1>6, <1>7, <1>8, <1>9, <1>10, <1>11, <1>12, <1>13,
     <1>14 DEF Agent!Step

\* A crash keeps the types and what every sender holds.
LEMMA AgentCrash ==
    ASSUME Agent!TypeOK, Agent!SendersHold, Agent!Crash
    PROVE  Agent!TypeOK' /\ Agent!SendersHold'
<1>1. ASSUME NEW i \in Invocations
      PROVE  /\ sender'[i] \in Agent!Sender
             /\ sender'[i].posts = sender[i].posts /\ sender'[i].last = sender[i].last
             /\ sender'[i].pc = sender[i].pc \/ sender'[i].pc = "dead"
  BY DEF Agent!TypeOK, Agent!Crash, Agent!Sender, Agent!PCs, Agent!Over
<1>2. Agent!TypeOK'
  BY <1>1 DEF Agent!TypeOK, Agent!Crash
<1>3. ASSUME NEW i \in Invocations PROVE Agent!SenderStep(i)'
  <2>1. Agent!SenderStep(i) /\ said' = said /\ platform' = platform /\ unsaid' = unsaid
    BY DEF Agent!SendersHold, Agent!Crash
  <2> QED
    BY <1>1, <2>1 DEF Agent!SenderStep
<1> QED
  BY <1>2, <1>3 DEF Agent!SendersHold

AgentInv == Agent!TypeOK /\ Agent!SendersHold

\* Every step of the senders keeps their invariant.
LEMMA AgentNext ==
    ASSUME AgentInv, [Agent!Next]_(Agent!vars)
    PROVE  AgentInv'
<1> USE DEF AgentInv
<1>1. ASSUME NEW i \in Invocations, Agent!Leave(i) \/ Agent!Step(i) PROVE AgentInv'
  <2>1. Agent!TypeOK'
    BY <1>1, AgentTypeStep
  <2>2. ASSUME NEW j \in Invocations PROVE Agent!SenderStep(j)'
    <3>1. Agent!SenderStep(j)
      BY DEF Agent!SendersHold
    <3>2. CASE j = i
      BY <1>1, <3>1, <3>2, AgentOwnStep
    <3>3. CASE j # i
      BY <1>1, <3>1, <3>3, AgentOthersKept DEF Agent!SenderStep
    <3> QED
      BY <3>2, <3>3
  <2> QED
    BY <2>1, <2>2 DEF Agent!SendersHold
<1>2. CASE UNCHANGED Agent!vars
  BY <1>2 DEF Agent!vars, Agent!TypeOK, Agent!SendersHold, Agent!SenderStep
<1> QED
  BY <1>1, <1>2, AgentCrash DEF Agent!Next

\* It holds at the start.
LEMMA AgentInitInv == Agent!Init => AgentInv
<1> SUFFICES ASSUME Agent!Init PROVE AgentInv
  OBVIOUS
<1>1. Agent!TypeOK
  BY DEF Agent!Init, Agent!TypeOK, Agent!Sender, Agent!PCs
<1>2. Agent!SendersHold
  BY AgentAssumption DEF Agent!Init, Agent!SendersHold, Agent!SenderStep
<1> QED
  BY <1>1, <1>2 DEF AgentInv

\* Every behaviour of the senders keeps it.
THEOREM AgentInvariant == Agent!Spec => []AgentInv
<1>1. Agent!Init => AgentInv
  BY AgentInitInv
<1>2. AgentInv /\ [Agent!Next]_(Agent!vars) => AgentInv'
  BY AgentNext
<1> QED
  BY <1>1, <1>2, PTL DEF Agent!Spec

\* What the row of an invocation tells of its delivery
\* (webhook_delivery_service.py:186-255).
THEOREM AgentDeliveryRecorded == Agent!Spec => []AgentDeliveryOnRecord
<1>1. AgentInv => AgentDeliveryOnRecord
  BY DEF AgentInv, Agent!SendersHold, Agent!SenderStep, AgentDeliveryOnRecord,
     Agent!DeliveryOnRecord
<1> QED
  BY <1>1, AgentInvariant, PTL

\* The type invariant of the two services side by side.
THEOREM ServicesTypes == MCSpec => []MCTypeOK
<1>1. MCInit => IInv /\ AgentInv
  BY InitIInv, AgentInitInv DEF MCInit
<1>2. IInv /\ AgentInv /\ [MCNext]_mcvars => [Next]_vars /\ [Agent!Next]_(Agent!vars)
  BY DEF MCNext, InWebhooks, InAgents, mcvars, vars, Agent!vars
<1>3. TypeOK /\ [Next]_vars => TypeOK'
  BY TypeNext
<1>4. IInv /\ TypeOK' /\ [Next]_vars => IInv'
  BY NextKeepsSteps, NextKeepsRetried, NextKeepsCount, NextKeepsCounter DEF IInv
<1>5. IInv /\ AgentInv /\ [MCNext]_mcvars => (IInv /\ AgentInv)'
  BY <1>2, <1>3, <1>4, AgentNext DEF IInv
<1>6. IInv /\ AgentInv => MCTypeOK
  BY DEF IInv, AgentInv, MCTypeOK
<1> QED
  BY <1>1, <1>5, <1>6, PTL DEF MCSpec

-----------------------------------------------------------------------------
\* What the promise sees of a step that moves one sender.
LEMMA AgentSeenMoves ==
    ASSUME NEW i \in Invocations, \A j \in Invocations : j # i => sender'[j] = sender[j]
    PROVE  /\ Agent!SeenPhase' = [Agent!SeenPhase EXCEPT ![i] = Agent!PhaseOf(sender'[i].pc)]
           /\ Agent!SeenPosts' = [Agent!SeenPosts EXCEPT ![i] = sender'[i].posts]
           /\ Agent!SeenLast' = [Agent!SeenLast EXCEPT ![i] = sender'[i].last]
BY DEF Agent!SeenPhase, Agent!SeenPosts, Agent!SeenLast

\* A sender that posts is seen to post.
LEMMA AgentSeenPosting ==
    ASSUME Agent!TypeOK, NEW i \in Invocations, Agent!SenderStep(i), NEW o \in Agent!Outcomes,
           NEW n \in {0, 1}, NEW pc \in {"waiting", "delivered", "failed"},
           Agent!Posted(i, o, pc),
           o = "ok" => n = 1, o \in {"refused", "error"} => n = 0,
           platform' = [platform EXCEPT ![i] = @ + n]
    PROVE  Agent!Promise!Next
<1>1. \A j \in Invocations : j # i => sender'[j] = sender[j]
  BY DEF Agent!Posted, Agent!TypeOK
<1>2. sender'[i].pc = pc /\ sender'[i].posts = sender[i].posts + 1 /\ sender'[i].last = o
  BY DEF Agent!Posted, Agent!TypeOK
<1>3. /\ sender[i].pc = "posting" /\ sender[i].posts < MaxAgentPosts
      /\ sender[i].last \in {"refused", "error", "silent"} \cup {"none"}
  BY DEF Agent!Posted, Agent!SenderStep, Agent!TypeOK, Agent!Sender, Agent!Outcomes
<1>4. Agent!PhaseOf(pc) = "open" /\ Agent!PhaseOf("posting") = "open"
  BY DEF Agent!PhaseOf, Agent!Over
<1>5. Agent!SeenPhase' = Agent!SeenPhase /\ Agent!SeenPhase[i] = "open"
  BY <1>1, <1>2, <1>3, <1>4, AgentSeenMoves DEF Agent!SeenPhase
<1>6. Agent!SeenPosts' = [Agent!SeenPosts EXCEPT ![i] = @ + 1] /\ Agent!SeenPosts[i] < MaxAgentPosts
  BY <1>1, <1>2, <1>3, AgentSeenMoves DEF Agent!SeenPosts
<1>7. /\ Agent!SeenLast' = [Agent!SeenLast EXCEPT ![i] = o]
      /\ Agent!SeenLast[i] \in {"refused", "error", "silent"} \cup {"none"}
  BY <1>1, <1>2, <1>3, AgentSeenMoves DEF Agent!SeenLast
<1>8. Agent!Promise!Post(i)
  BY <1>5, <1>6, <1>7 DEF Agent!Promise!Post, Agent!Promise!Outcomes, Agent!Outcomes
<1> QED
  BY <1>8 DEF Agent!Promise!Next

\* What the promise sees of a step of a sender.
LEMMA AgentPromiseStep ==
    ASSUME Agent!TypeOK, NEW i \in Invocations, Agent!SenderStep(i),
           Agent!Leave(i) \/ Agent!Step(i)
    PROVE  \/ Agent!Promise!Next
           \/ UNCHANGED <<Agent!SeenPhase, Agent!SeenPosts, Agent!SeenLast, platform>>
<1> USE DEF Agent!TypeOK, Agent!Sender
<1>o. \A j \in Invocations : j # i => sender'[j] = sender[j]
  BY AgentOthersKept
<1>p. \A pc \in Agent!PCs \ (Agent!Over \cup {"unborn"}) : Agent!PhaseOf(pc) = "open"
  BY DEF Agent!PhaseOf
<1>k. /\ Agent!PhaseOf("unborn") = "unborn" /\ Agent!PhaseOf("done") = "closed"
      /\ Agent!PhaseOf("dead") = "closed"
  BY DEF Agent!PhaseOf, Agent!Over
<1>1. ASSUME sender'[i].posts = sender[i].posts, sender'[i].last = sender[i].last,
             platform' = platform
      PROVE  /\ Agent!SeenPosts' = Agent!SeenPosts /\ Agent!SeenLast' = Agent!SeenLast
             /\ Agent!SeenPhase' =
                    [Agent!SeenPhase EXCEPT ![i] = Agent!PhaseOf(sender'[i].pc)]
  BY <1>o, <1>1, AgentSeenMoves DEF Agent!SeenPhase, Agent!SeenPosts, Agent!SeenLast
<1>2. CASE Agent!Leave(i)
  <2>1. /\ sender'[i].posts = sender[i].posts /\ sender'[i].last = sender[i].last
        /\ platform' = platform /\ sender[i].pc = "unborn" /\ sender'[i].pc = "opening"
    BY <1>2 DEF Agent!Leave, Agent!Go
  <2>2. Agent!PhaseOf("opening") = "open"
    BY DEF Agent!PhaseOf, Agent!Over
  <2>3. Agent!Promise!Open(i)
    BY <1>1, <1>k, <2>1, <2>2 DEF Agent!Promise!Open, Agent!SeenPhase
  <2> QED
    BY <2>3 DEF Agent!Promise!Next
<1>3. CASE Agent!OpeningRaises(i) \/ Agent!Unsupported(i) \/ Agent!Logged(i)
           \/ Agent!Handled(i) \/ Agent!HandlerRaises(i)
  <2>1. /\ sender'[i].posts = sender[i].posts /\ sender'[i].last = sender[i].last
        /\ platform' = platform /\ sender[i].pc \in {"opening", "logging", "handling"}
        /\ sender'[i].pc \in {"done", "dead"}
    BY <1>3 DEF Agent!OpeningRaises, Agent!Unsupported, Agent!Logged, Agent!Handled,
       Agent!HandlerRaises, Agent!Go
  <2>2. Agent!PhaseOf(sender[i].pc) = "open"
    BY <1>p, <2>1 DEF Agent!PCs, Agent!Over
  <2>3. Agent!Promise!Close(i)
    BY <1>1, <1>k, <2>1, <2>2 DEF Agent!Promise!Close, Agent!SeenPhase
  <2> QED
    BY <2>3 DEF Agent!Promise!Next
<1>4. CASE Agent!Opened(i) \/ Agent!NotSendable(i) \/ Agent!Wake(i) \/ Agent!Said(i)
           \/ Agent!SayingRaises(i)
  <2>1. /\ sender'[i].posts = sender[i].posts /\ sender'[i].last = sender[i].last
        /\ platform' = platform
        /\ sender[i].pc \in {"opening", "posting", "waiting", "delivered", "failed"}
        /\ sender'[i].pc \in {"posting", "failed", "handling", "logging"}
    BY <1>4 DEF Agent!Opened, Agent!NotSendable, Agent!Wake, Agent!Said, Agent!SayingRaises,
       Agent!Go
  <2>2. Agent!PhaseOf(sender[i].pc) = "open" /\ Agent!PhaseOf(sender'[i].pc) = "open"
    BY <1>p, <2>1 DEF Agent!PCs, Agent!Over
  <2>3. Agent!SeenPhase' = Agent!SeenPhase
    BY <1>1, <2>1, <2>2 DEF Agent!SeenPhase
  <2> QED
    BY <1>1, <2>1, <2>3
<1>5. CASE Agent!Accepted(i)
  BY <1>5, AgentSeenPosting DEF Agent!Accepted, Agent!Outcomes
<1>6. CASE Agent!Rejected(i)
  <2>1. PICK o \in {"refused", "error"} : Agent!Posted(i, o, Agent!AfterFailure(i))
    BY <1>6 DEF Agent!Rejected
  <2>2. platform' = [platform EXCEPT ![i] = @ + 0]
    BY <1>6 DEF Agent!Rejected
  <2> QED
    BY <2>1, <2>2, AgentSeenPosting DEF Agent!Outcomes, Agent!AfterFailure
<1>7. CASE Agent!Unheard(i)
  <2>1. PICK n \in {0, 1} : platform' = [platform EXCEPT ![i] = @ + n]
    <3>1. CASE platform' = platform
      <4>1. platform' = [platform EXCEPT ![i] = @ + 0]
        BY <3>1
      <4> QED
        BY <4>1
    <3> QED
      BY <1>7, <3>1 DEF Agent!Unheard
  <2> QED
    BY <1>7, <2>1, AgentSeenPosting DEF Agent!Unheard, Agent!Outcomes, Agent!AfterFailure
<1> QED
  BY <1>2, <1>3, <1>4, <1>5, <1>6, <1>7 DEF Agent!Step

\* What the promise sees of any step.
LEMMA AgentPromiseNext ==
    ASSUME AgentInv, [Agent!Next]_(Agent!vars)
    PROVE  \/ Agent!Promise!Next
           \/ UNCHANGED <<Agent!SeenPhase, Agent!SeenPosts, Agent!SeenLast, platform>>
<1>1. ASSUME NEW i \in Invocations, Agent!Leave(i) \/ Agent!Step(i)
      PROVE  \/ Agent!Promise!Next
             \/ UNCHANGED <<Agent!SeenPhase, Agent!SeenPosts, Agent!SeenLast, platform>>
  BY <1>1, AgentPromiseStep DEF AgentInv, Agent!SendersHold
<1>2. CASE Agent!Crash
  <2>1. ASSUME NEW i \in Invocations
        PROVE  /\ sender'[i].posts = sender[i].posts /\ sender'[i].last = sender[i].last
               /\ Agent!PhaseOf(sender'[i].pc) =
                    IF Agent!PhaseOf(sender[i].pc) = "open" THEN "closed"
                    ELSE Agent!PhaseOf(sender[i].pc)
    BY <1>2 DEF AgentInv, Agent!TypeOK, Agent!Crash, Agent!Live, Agent!Sender,
       Agent!PhaseOf, Agent!Over
  <2>2. Agent!Promise!CloseAll
    BY <1>2, <2>1 DEF Agent!Promise!CloseAll, Agent!Crash, Agent!SeenPhase, Agent!SeenPosts,
       Agent!SeenLast
  <2> QED
    BY <2>2 DEF Agent!Promise!Next
<1>3. CASE UNCHANGED Agent!vars
  BY <1>3 DEF Agent!vars, Agent!SeenPhase, Agent!SeenPosts, Agent!SeenLast
<1> QED
  BY <1>1, <1>2, <1>3 DEF Agent!Next

\* The delivery of results keeps the safety of DeliveryPromise, with every
\* outcome but acceptance worth a retry (adapters/base_webhook.py:149-207).
THEOREM AgentKeepsPromise == Agent!Spec => Agent!Promise!Safety
<1>1. Agent!Init => Agent!Promise!Init
  <2>1. Agent!PhaseOf("unborn") = "unborn"
    BY DEF Agent!PhaseOf, Agent!Over
  <2> QED
    BY <2>1 DEF Agent!Init, Agent!Promise!Init, Agent!SeenPhase, Agent!SeenPosts, Agent!SeenLast
<1>2. AgentInv /\ [Agent!Next]_(Agent!vars) => [Agent!Promise!Next]_(Agent!Promise!vars)
  BY AgentPromiseNext DEF Agent!Promise!vars
<1> QED
  BY <1>1, <1>2, AgentInvariant, PTL DEF Agent!Spec, Agent!Promise!Safety

-----------------------------------------------------------------------------
\* Every step of the invitations keeps their types.
LEMMA InvitesType ==
    ASSUME Invites!TypeOK, [Invites!Next]_invitationvars
    PROVE  Invites!TypeOK'
<1> USE DEF Invites!TypeOK, Invites!Row, Invites!Accept
<1>1. ASSUME NEW i \in Ids,
             Invites!Invite(i) \/ Invites!Created(i) \/ Invites!Lapse(i) \/ Invites!Cancel(i)
      PROVE  Invites!TypeOK'
  BY <1>1 DEF Invites!Invite, Invites!Created, Invites!Lapse, Invites!Cancel
<1>2. ASSUME NEW i \in Ids, NEW a \in Accepts, Invites!Found(a, i) PROVE Invites!TypeOK'
  BY <1>2 DEF Invites!Found, Invites!AtInvitation
<1>3. ASSUME NEW i \in Ids, NEW s \in Sweeps, Invites!SweepOne(s, i) PROVE Invites!TypeOK'
  BY <1>3 DEF Invites!SweepOne, Invites!Updated
<1>4. ASSUME NEW a \in Accepts, Invites!Expired(a) \/ Invites!Accepted(a)
      PROVE  Invites!TypeOK'
  BY <1>4 DEF Invites!Expired, Invites!Accepted, Invites!Updated, Invites!Go
<1>5. ASSUME NEW a \in Accepts, Invites!UserMade(a) \/ Invites!AcceptRaises(a)
      PROVE  Invites!TypeOK'
  BY <1>5 DEF Invites!UserMade, Invites!AcceptRaises, Invites!Go
<1>6. ASSUME NEW s \in Sweeps, Invites!SweepList(s) \/ Invites!SweepRaises(s)
      PROVE  Invites!TypeOK'
  BY <1>6 DEF Invites!SweepList, Invites!SweepRaises
<1>7. CASE UNCHANGED invitationvars
  BY <1>7 DEF invitationvars
<1> QED
  BY <1>1, <1>2, <1>3, <1>4, <1>5, <1>6, <1>7 DEF Invites!Next

\* An accept that has taken an invitation, or is about to.
Takes(a) == accept[a].pc \in {"accepting", "creating"} \/ accept[a].user

\* What an accept holds at each step.
AcceptStep(a) ==
    LET i == accept[a].of IN
    /\ i = NoId => accept[a].pc = "unborn" /\ ~accept[a].user
    /\ i # NoId => invitation[i] \notin {"none", "inviting"}
    /\ accept[a].pc = "unborn" => i = NoId
    /\ accept[a].user => accept[a].pc = "done"
    /\ accept[a].pc = "expiring" => overdue[i]
    /\ accept[a].pc = "creating" \/ accept[a].user =>
           \/ invitation[i] \in {"accepted", "deleted"}
           \/ invitation[i] = "expired" /\ overdue[i]

\* The strengthening of UsedOnce and AcceptanceOnRecord.
InvitesInv ==
    /\ \A a \in Accepts : AcceptStep(a)
    /\ \A a, b \in Accepts :
           a # b /\ Takes(a) /\ Takes(b) /\ accept[a].of = accept[b].of => <<a, b>> \in met
    /\ AcceptanceOnRecord

\* Every step of the invitations keeps it.
LEMMA InvitesStep ==
    ASSUME Invites!TypeOK, InvitesInv, [Invites!Next]_invitationvars
    PROVE  InvitesInv'
<1> USE DEF Invites!TypeOK, Invites!Row, Invites!Accept, InvitesInv, AcceptStep, Takes,
            AcceptanceOnRecord, Invites!AcceptanceOnRecord
<1> USE AccountsAssumption
<1>1. ASSUME NEW i \in Ids,
             Invites!Invite(i) \/ Invites!Created(i) \/ Invites!Lapse(i) \/ Invites!Cancel(i)
      PROVE  InvitesInv'
  BY <1>1 DEF Invites!Invite, Invites!Created, Invites!Lapse, Invites!Cancel, Invites!Present
<1>2. ASSUME NEW i \in Ids, NEW a \in Accepts, Invites!Found(a, i) PROVE InvitesInv'
  BY <1>2 DEF Invites!Found, Invites!AtInvitation, Invites!Present
<1>3. ASSUME NEW i \in Ids, NEW s \in Sweeps, Invites!SweepOne(s, i) PROVE InvitesInv'
  BY <1>3 DEF Invites!SweepOne, Invites!Updated, Invites!Present
<1>4. ASSUME NEW a \in Accepts, Invites!Expired(a) PROVE InvitesInv'
  BY <1>4 DEF Invites!Expired, Invites!Updated, Invites!Go, Invites!Present
<1>5. ASSUME NEW a \in Accepts, Invites!Accepted(a) PROVE InvitesInv'
  BY <1>5 DEF Invites!Accepted, Invites!Updated, Invites!Go, Invites!Present
<1>6. ASSUME NEW a \in Accepts, Invites!UserMade(a) PROVE InvitesInv'
  BY <1>6 DEF Invites!UserMade, Invites!Go
<1>9. ASSUME NEW a \in Accepts, Invites!AcceptRaises(a) PROVE InvitesInv'
  BY <1>9 DEF Invites!AcceptRaises, Invites!Go
<1>7. ASSUME NEW s \in Sweeps, Invites!SweepList(s) \/ Invites!SweepRaises(s)
      PROVE  InvitesInv'
  BY <1>7 DEF Invites!SweepList, Invites!SweepRaises
<1>8. CASE UNCHANGED invitationvars
  BY <1>8 DEF invitationvars
<1> QED
  BY <1>1, <1>2, <1>3, <1>4, <1>5, <1>6, <1>7, <1>8, <1>9 DEF Invites!Next

-----------------------------------------------------------------------------
\* A step of record_usage moves one call, from one place to another.
LEMMA UsageMoves ==
    ASSUME Bills!TypeOK, NEW u \in Usages,
           NEW x, usage' = [usage EXCEPT ![u] = x], x \in Bills!Usage
    PROVE  /\ usage' \in [Usages -> Bills!Usage]
           /\ usage'[u] = x
           /\ \A v \in Usages \ {u} : usage'[v] = usage[v]
BY DEF Bills!TypeOK

\* The call that takes the time.
LEMMA BillsRecord ==
    ASSUME Bills!TypeOK, NEW u \in Usages, Bills!Record(u)
    PROVE  /\ usage' \in [Usages -> Bills!Usage]
           /\ usage'[u] = [usage[u] EXCEPT !.pc = "creating", !.at = clock]
           /\ \A v \in Usages \ {u} : usage'[v] = usage[v]
<1>1. usage' = [usage EXCEPT ![u] = [usage[u] EXCEPT !.pc = "creating", !.at = clock]]
  BY DEF Bills!Record, Bills!TypeOK, Bills!Usage
<1>2. [usage[u] EXCEPT !.pc = "creating", !.at = clock] \in Bills!Usage
  BY DEF Bills!TypeOK, Bills!Usage
<1> QED
  BY <1>1, <1>2, UsageMoves

\* A call that goes on.
LEMMA BillsGo ==
    ASSUME Bills!TypeOK, NEW u \in Usages, NEW pc \in {"finding", "done", "dead"},
           Bills!GoUsage(u, pc)
    PROVE  /\ usage' \in [Usages -> Bills!Usage]
           /\ usage'[u] = [usage[u] EXCEPT !.pc = pc]
           /\ \A v \in Usages \ {u} : usage'[v] = usage[v]
<1>1. usage' = [usage EXCEPT ![u] = [usage[u] EXCEPT !.pc = pc]]
  BY DEF Bills!GoUsage, Bills!TypeOK, Bills!Usage
<1>2. [usage[u] EXCEPT !.pc = pc] \in Bills!Usage
  BY DEF Bills!TypeOK, Bills!Usage
<1> QED
  BY <1>1, <1>2, UsageMoves

\* The call that reads the counter.
LEMMA BillsFound ==
    ASSUME Bills!TypeOK, NEW u \in Usages, NEW q \in Quotas, Bills!QuotaFound(u, q)
    PROVE  /\ usage' \in [Usages -> Bills!Usage]
           /\ usage'[u] = [usage[u] EXCEPT !.pc = "adding", !.row = q, !.seen = quota[q].used]
           /\ \A v \in Usages \ {u} : usage'[v] = usage[v]
<1> DEFINE x == [usage[u] EXCEPT !.pc = "adding", !.row = q, !.seen = quota[q].used]
<1>1. usage' = [usage EXCEPT ![u] = x]
  BY DEF Bills!QuotaFound, Bills!TypeOK, Bills!Usage
<1>2. usage[u] \in Bills!Usage /\ quota[q].used \in Nat
  BY DEF Bills!TypeOK, Bills!Quota
<1>3. x \in Bills!Usage
  BY <1>2 DEF Bills!Usage
<1> QED
  BY <1>1, <1>3, UsageMoves

\* The call that writes the counter.
LEMMA BillsAdded ==
    ASSUME Bills!TypeOK, NEW u \in Usages, Bills!QuotaAdded(u)
    PROVE  /\ usage' \in [Usages -> Bills!Usage]
           /\ usage'[u] = [usage[u] EXCEPT !.pc = "done", !.counted = TRUE]
           /\ \A v \in Usages \ {u} : usage'[v] = usage[v]
           /\ quota' \in [Quotas -> Bills!Quota]
           /\ usage[u].row \in Quotas => quota'[usage[u].row].used = usage[u].seen + 1
           /\ \A r \in Quotas : r # usage[u].row => quota'[r] = quota[r]
<1> DEFINE x == [usage[u] EXCEPT !.pc = "done", !.counted = TRUE]
<1>1. usage' = [usage EXCEPT ![u] = x]
  BY DEF Bills!QuotaAdded, Bills!TypeOK, Bills!Usage
<1>2. x \in Bills!Usage /\ usage[u].seen \in Nat
  BY DEF Bills!TypeOK, Bills!Usage
<1>3. quota' \in [Quotas -> Bills!Quota]
  <2> DEFINE r == usage[u].row
             y == [quota[r] EXCEPT !.used = usage[u].seen + 1]
  <2>1. quota' = [quota EXCEPT ![r] = y]
    BY DEF Bills!QuotaAdded
  <2>2. r \in Quotas => y \in Bills!Quota
    BY <1>2 DEF Bills!TypeOK, Bills!Quota
  <2> HIDE DEF y
  <2> QED
    BY <2>1, <2>2 DEF Bills!TypeOK
<1>4. /\ usage[u].row \in Quotas => quota'[usage[u].row].used = usage[u].seen + 1
      /\ \A r \in Quotas : r # usage[u].row => quota'[r] = quota[r]
  BY <1>2 DEF Bills!QuotaAdded, Bills!TypeOK, Bills!Quota
<1> QED
  BY <1>1, <1>2, <1>3, <1>4, UsageMoves

\* A record of a period whose fields are changed is a record of a period.
LEMMA PeriodFields ==
    ASSUME NEW x \in Bills!Period, NEW m \in Nat, NEW b \in SUBSET Periods,
           NEW s \in Bills!Sum, NEW h \in BOOLEAN
    PROVE  /\ [x EXCEPT !.status = "opening", !.month = m, !.beside = b] \in Bills!Period
           /\ [x EXCEPT !.status = "closed", !.bill = s, !.hasty = h] \in Bills!Period
BY DEF Bills!Period

\* A step of get_current_period that settles the creation of p.
LEMMA BillsOpened ==
    ASSUME Bills!TypeOK, NEW p \in Periods, Bills!PeriodMade(p) \/ Bills!PeriodRaises(p)
    PROVE  \E st \in {"active", "failed"} :
               /\ period' \in [Periods -> Bills!Period]
               /\ period'[p] = [period[p] EXCEPT !.status = st]
               /\ \A r \in Periods \ {p} : period'[r] = period[r]
<1>1. PICK st \in {"active", "failed"} : period' = [period EXCEPT ![p].status = st]
  BY DEF Bills!PeriodMade, Bills!PeriodRaises
<1>2. period' = [period EXCEPT ![p] = [period[p] EXCEPT !.status = st]]
  BY <1>1 DEF Bills!TypeOK, Bills!Period
<1>3. [period[p] EXCEPT !.status = st] \in Bills!Period
  BY DEF Bills!TypeOK, Bills!Period
<1> QED
  BY <1>2, <1>3 DEF Bills!TypeOK

\* A call that finds no period, and what it shows to the others being opened.
LEMMA BillsNoPeriod ==
    ASSUME Bills!TypeOK, NEW p \in Periods, Bills!NoPeriod(p)
    PROVE  /\ period' \in [Periods -> Bills!Period]
           /\ period'[p] = [period[p] EXCEPT !.status = "opening", !.month = clock.month,
                                             !.beside = Bills!Opening]
           /\ \A r \in Periods \ {p} :
                  period'[r] = IF r \in Bills!Opening
                               THEN [period[r] EXCEPT !.beside = @ \cup {p}] ELSE period[r]
<1>1. clock.month \in Nat /\ p \notin Bills!Opening /\ Bills!NoSum \in Bills!Sum
  BY DEF Bills!TypeOK, Bills!Clock, Bills!NoPeriod, Bills!Opening, Bills!Sum, Bills!NoSum
<1>2. [period[p] EXCEPT !.status = "opening", !.month = clock.month,
                        !.beside = Bills!Opening] \in Bills!Period
  BY <1>1, PeriodFields DEF Bills!TypeOK, Bills!Opening
<1>3. \A r \in Periods : [period[r] EXCEPT !.beside = @ \cup {p}] \in Bills!Period
  BY DEF Bills!TypeOK, Bills!Period
<1> QED
  BY <1>1, <1>2, <1>3 DEF Bills!NoPeriod, Bills!TypeOK

\* A call of close_period that reads the period.
LEMMA BillsCloseRead ==
    ASSUME Bills!TypeOK, NEW k \in Closings, NEW p \in Periods, Bills!CloseRead(k, p)
    PROVE  /\ closing' \in [Closings -> Bills!Closing]
           /\ closing'[k] = [closing[k] EXCEPT !.pc = "summing", !.of = p]
           /\ \A j \in Closings \ {k} : closing'[j] = closing[j]
<1> DEFINE x == [closing[k] EXCEPT !.pc = "summing", !.of = p]
<1>1. closing' = [closing EXCEPT ![k] = x] /\ x \in Bills!Closing
  BY DEF Bills!CloseRead, Bills!TypeOK, Bills!Closing
<1> QED
  BY <1>1 DEF Bills!TypeOK

\* What a call of close_period makes of what it found in a month.
SumOf(month, found) ==
    [of |-> found, open |-> Bills!YetToCome(month), full |-> Bills!Overflows(month)]

\* One that sums up.
LEMMA BillsSummed ==
    ASSUME Bills!TypeOK, NEW k \in Closings, Bills!Summed(k)
    PROVE  LET m == period[closing[k].of].month IN
           \E found \in Bills!Listed(m) :
               /\ closing' \in [Closings -> Bills!Closing]
               /\ closing'[k] = [closing[k] EXCEPT !.pc = "writing", !.sum = SumOf(m, found)]
               /\ \A j \in Closings \ {k} : closing'[j] = closing[j]
<1> DEFINE m == period[closing[k].of].month
<1>1. PICK found \in Bills!Listed(m) :
          closing' = [closing EXCEPT ![k].pc = "writing", ![k].sum = SumOf(m, found)]
  BY DEF Bills!Summed, SumOf
<1> DEFINE x == [closing[k] EXCEPT !.pc = "writing", !.sum = SumOf(m, found)]
<1>2. SumOf(m, found) \in Bills!Sum
  BY DEF SumOf, Bills!Sum, Bills!Listed, Bills!Within, Bills!Recorded, Bills!YetToCome,
     Bills!Overflows
<1> HIDE DEF m
<1>3. closing' = [closing EXCEPT ![k] = x]
  BY <1>1 DEF Bills!TypeOK, Bills!Closing
<1>4. x \in Bills!Closing
  BY <1>2 DEF Bills!TypeOK, Bills!Closing
<1>5. /\ closing' \in [Closings -> Bills!Closing] /\ closing'[k] = x
      /\ \A j \in Closings \ {k} : closing'[j] = closing[j]
  BY <1>3, <1>4 DEF Bills!TypeOK
<1> QED
  BY <1>5 DEF m

\* One that ends without a sum.
LEMMA BillsRaises ==
    ASSUME Bills!TypeOK, NEW k \in Closings, Bills!CloseRaises(k)
    PROVE  /\ closing' \in [Closings -> Bills!Closing]
           /\ closing'[k] = [closing[k] EXCEPT !.pc = "done", !.sum = Bills!NoSum]
           /\ \A j \in Closings \ {k} : closing'[j] = closing[j]
<1> DEFINE x == [closing[k] EXCEPT !.pc = "done", !.sum = Bills!NoSum]
<1>1. closing' = [closing EXCEPT ![k] = x] /\ x \in Bills!Closing
  BY DEF Bills!CloseRaises, Bills!TypeOK, Bills!Closing, Bills!Sum, Bills!NoSum
<1> QED
  BY <1>1 DEF Bills!TypeOK

\* And one that writes the sum, of a period that it has read.
LEMMA BillsClosed ==
    ASSUME Bills!TypeOK, NEW k \in Closings, Bills!Closed(k), closing[k].of \in Periods
    PROVE  LET p == closing[k].of IN
           /\ closing' \in [Closings -> Bills!Closing]
           /\ closing'[k] = [closing[k] EXCEPT !.pc = "done", !.sum = Bills!NoSum]
           /\ \A j \in Closings \ {k} : closing'[j] = closing[j]
           /\ period' \in [Periods -> Bills!Period]
           /\ period'[p] = [period[p] EXCEPT !.status = "closed", !.bill = closing[k].sum,
                  !.hasty = period[p].hasty \/ clock.month = period[p].month]
           /\ \A r \in Periods \ {p} : period'[r] = period[r]
<1> DEFINE p == closing[k].of
           x == [closing[k] EXCEPT !.pc = "done", !.sum = Bills!NoSum]
           h == period[p].hasty \/ clock.month = period[p].month
           y == [period[p] EXCEPT !.status = "closed", !.bill = closing[k].sum, !.hasty = h]
<1>1. closing' = [closing EXCEPT ![k] = x] /\ x \in Bills!Closing
  BY DEF Bills!Closed, Bills!TypeOK, Bills!Closing, Bills!Sum, Bills!NoSum
<1>2. period' = [period EXCEPT ![p] = y]
  BY DEF Bills!Closed, Bills!TypeOK, Bills!Period
<1>3. h \in BOOLEAN /\ closing[k].sum \in Bills!Sum
  BY DEF Bills!TypeOK, Bills!Period, Bills!Closing
<1> HIDE DEF h
<1>4. y \in Bills!Period
  BY <1>3, PeriodFields DEF Bills!TypeOK
<1>5. /\ period' \in [Periods -> Bills!Period] /\ period'[p] = y
      /\ \A r \in Periods \ {p} : period'[r] = period[r]
  BY <1>2, <1>4 DEF Bills!TypeOK
<1>6. /\ closing' \in [Closings -> Bills!Closing] /\ closing'[k] = x
      /\ \A j \in Closings \ {k} : closing'[j] = closing[j]
  BY <1>1 DEF Bills!TypeOK
<1> QED
  BY <1>5, <1>6 DEF h

\* The steps of record_usage that touch no quota.
BillsUsageStep(u) ==
    Bills!Record(u) \/ Bills!RecordMade(u) \/ Bills!RecordRaises(u) \/ Bills!NotCounted(u)

\* What a call of record_usage holds on the way to a counter, and what it read
\* if that is the counter of q.
UsageStep(u) ==
    /\ usage[u].counted => usage[u].pc = "done"
    /\ usage[u].pc = "adding" => usage[u].row # NoId

SeenStep(u, q) ==
    usage[u].pc = "adding" /\ usage[u].row = q =>
        /\ usage[u].seen <= Cardinality(Bills!Counted(q))
        /\ ~crossed[q] => usage[u].seen = quota[q].used

\* The strengthening of QuotaAgrees.
QuotaInv ==
    /\ QuotaAgrees
    /\ \A u \in Usages : UsageStep(u)
    /\ \A u \in Usages, q \in Quotas : SeenStep(u, q)
    /\ \A u, v \in Usages :
           /\ usage[u].pc = "adding" /\ usage[v].pc = "adding" /\ usage[u].row = usage[v].row
           /\ ~crossed[usage[u].row]
           => u = v

\* Billing counts as this module does.
LEMMA CountsAlike == ASSUME NEW S PROVE Bills!Cardinality(S) = Cardinality(S)
BY DEF Bills!Cardinality, Cardinality

\* QuotaAgrees of one quota.
LEMMA QuotaAgreesOf ==
    ASSUME QuotaAgrees, NEW q \in Quotas
    PROVE  /\ quota[q].used <= Cardinality(Bills!Counted(q))
           /\ ~crossed[q] => quota[q].used = Cardinality(Bills!Counted(q))
BY CountsAlike DEF QuotaAgrees, Bills!QuotaAgrees

\* What was counted on a quota is a finite number of calls.
LEMMA CountedFinite ==
    ASSUME NEW q
    PROVE  /\ IsFiniteSet(Bills!Counted(q))
           /\ Cardinality(Bills!Counted(q)) \in Nat
BY AccountsAssumption, FS_Subset, FS_CardinalityType DEF Bills!Counted

\* A step that leaves the quotas alone, and what was counted on them.
LEMMA QuotaKept ==
    ASSUME QuotaInv, UNCHANGED <<quota, crossed>>,
           \A u \in Usages : /\ usage'[u].counted = usage[u].counted
                             /\ usage'[u].row = usage[u].row
                             /\ usage'[u].seen = usage[u].seen
                             /\ usage'[u].pc = "adding" => usage[u].pc = "adding"
                             /\ usage[u].counted => usage'[u].pc = usage[u].pc
    PROVE  QuotaInv'
<1>1. \A q : Bills!Counted(q)' = Bills!Counted(q)
  BY DEF Bills!Counted
<1> QED
  BY <1>1 DEF QuotaInv, UsageStep, SeenStep, QuotaAgrees, Bills!QuotaAgrees

\* A step of record_usage that touches no quota keeps it, too.
LEMMA QuotaKeptOnwards ==
    ASSUME Bills!TypeOK, QuotaInv, NEW u \in Usages, BillsUsageStep(u)
    PROVE  QuotaInv'
<1>1. /\ usage'[u].counted = usage[u].counted /\ usage'[u].row = usage[u].row
      /\ usage'[u].seen = usage[u].seen /\ usage'[u].pc # "adding" /\ ~usage[u].counted
      /\ \A v \in Usages \ {u} : usage'[v] = usage[v]
      /\ UNCHANGED <<quota, crossed>>
  <2>1. usage[u] \in Bills!Usage
    BY DEF Bills!TypeOK
  <2>2. CASE Bills!Record(u)
    BY <2>1, <2>2, BillsRecord DEF QuotaInv, UsageStep, Bills!Usage, Bills!Record
  <2>3. CASE Bills!RecordMade(u) \/ Bills!RecordRaises(u) \/ Bills!NotCounted(u)
    <3>1. PICK pc \in {"finding", "done", "dead"} : Bills!GoUsage(u, pc)
      BY <2>3 DEF Bills!RecordMade, Bills!RecordRaises, Bills!NotCounted
    <3>2. /\ usage[u].pc \in {"creating", "finding", "adding"}
          /\ UNCHANGED <<quota, crossed>>
      BY <2>3 DEF Bills!RecordMade, Bills!RecordRaises, Bills!NotCounted
    <3>3. ~usage[u].counted
      BY <3>2 DEF QuotaInv, UsageStep
    <3>4. /\ usage'[u] = [usage[u] EXCEPT !.pc = pc]
          /\ \A v \in Usages \ {u} : usage'[v] = usage[v]
      BY <3>1, BillsGo
    <3>5. usage'[u].counted = usage[u].counted
      BY <2>1, <3>4, Zenon DEF Bills!Usage
    <3> QED
      BY <2>1, <3>2, <3>3, <3>4, <3>5 DEF Bills!Usage
  <2> QED
    BY <2>2, <2>3 DEF BillsUsageStep
<1> QED
  BY <1>1, QuotaKept

\* Reading the counter keeps it.
LEMMA QuotaKeptFound ==
    ASSUME Bills!TypeOK, QuotaInv, NEW u \in Usages, NEW q \in Quotas, Bills!QuotaFound(u, q)
    PROVE  QuotaInv'
<1>1. /\ usage'[u].pc = "adding" /\ usage'[u].row = q /\ usage'[u].seen = quota[q].used
      /\ ~usage[u].counted /\ ~usage'[u].counted
      /\ \A v \in Usages \ {u} : usage'[v] = usage[v]
  <2>1. usage[u] \in Bills!Usage
    BY DEF Bills!TypeOK
  <2> QED
    BY <2>1, BillsFound DEF Bills!QuotaFound, QuotaInv, UsageStep, Bills!Usage
<1>2. /\ quota' = quota /\ usage[u].pc = "finding"
      /\ \A r \in Quotas : r # q => crossed'[r] = crossed[r]
      /\ ~crossed'[q] => ~crossed[q] /\ \A v \in Usages :
                                            ~(usage[v].pc = "adding" /\ usage[v].row = q)
  BY DEF Bills!QuotaFound, Bills!TypeOK
<1>3. \A r : Bills!Counted(r)' = Bills!Counted(r)
  BY <1>1 DEF Bills!Counted
<1>4. QuotaAgrees'
  BY <1>2, <1>3 DEF QuotaInv, QuotaAgrees, Bills!QuotaAgrees
<1>5. ASSUME NEW v \in Usages PROVE UsageStep(v)'
  <2>1. CASE v = u
    BY <1>1, <2>1, AccountsAssumption DEF UsageStep
  <2>2. CASE v # u
    BY <1>1, <2>2 DEF QuotaInv, UsageStep
  <2> QED
    BY <2>1, <2>2
<1>7. ASSUME NEW v \in Usages, NEW r \in Quotas PROVE SeenStep(v, r)'
  <2>1. CASE v = u /\ r = q
    <3>1. /\ quota[q].used <= Cardinality(Bills!Counted(q))
      BY QuotaAgreesOf DEF QuotaInv
    <3> QED
      BY <1>1, <1>2, <1>3, <2>1, <3>1 DEF SeenStep
  <2>2. CASE v = u /\ r # q
    BY <1>1, <2>2 DEF SeenStep
  <2>3. CASE v # u
    <3>1. SeenStep(v, r) /\ usage'[v] = usage[v] /\ Bills!Counted(r)' = Bills!Counted(r)
      BY <1>1, <1>3, <2>3 DEF QuotaInv
    <3>2. usage[v].pc = "adding" /\ usage[v].row = r => (~crossed'[r] => ~crossed[r])
      BY <1>2
    <3> QED
      BY <1>2, <3>1, <3>2 DEF SeenStep
  <2> QED
    BY <2>1, <2>2, <2>3
<1>6. ASSUME NEW v \in Usages, NEW w \in Usages, usage'[v].pc = "adding", usage'[w].pc = "adding",
             usage'[v].row = usage'[w].row, ~crossed'[usage'[v].row]
      PROVE  v = w
  <2>1. CASE v = u
    BY <1>1, <1>2, <1>6, <2>1
  <2>2. CASE w = u
    BY <1>1, <1>2, <1>6, <2>2
  <2>3. CASE v # u /\ w # u
    <3>1. ~crossed[usage[v].row]
      BY <1>1, <1>2, <1>6, <2>3 DEF Bills!QuotaFound, Bills!TypeOK
    <3> QED
      BY <1>1, <1>6, <2>3, <3>1 DEF QuotaInv
  <2> QED
    BY <2>1, <2>2, <2>3
<1> QED
  BY <1>4, <1>5, <1>6, <1>7 DEF QuotaInv

\* So does writing one more than was read.
LEMMA QuotaKeptAdded ==
    ASSUME Bills!TypeOK, QuotaInv, NEW u \in Usages, Bills!QuotaAdded(u)
    PROVE  QuotaInv'
<1> DEFINE q == usage[u].row
<1>1. /\ q \in Quotas /\ usage[u].pc = "adding" /\ ~usage[u].counted /\ crossed' = crossed
      /\ usage[u].seen \in Nat
  <2>1. usage[u] \in Bills!Usage /\ UsageStep(u)
    BY DEF Bills!TypeOK, QuotaInv
  <2> QED
    BY <2>1 DEF UsageStep, Bills!QuotaAdded, Bills!Usage
<1>2. /\ usage'[u].pc = "done" /\ usage'[u].counted /\ usage'[u].row = q
      /\ \A v \in Usages \ {u} : usage'[v] = usage[v]
      /\ quota'[q].used = usage[u].seen + 1
      /\ \A r \in Quotas : r # q => quota'[r] = quota[r]
  <2>1. usage[u] \in Bills!Usage
    BY DEF Bills!TypeOK
  <2>2. /\ usage'[u] = [usage[u] EXCEPT !.pc = "done", !.counted = TRUE]
        /\ \A v \in Usages \ {u} : usage'[v] = usage[v]
        /\ usage[u].row \in Quotas => quota'[usage[u].row].used = usage[u].seen + 1
        /\ \A r \in Quotas : r # usage[u].row => quota'[r] = quota[r]
    BY BillsAdded
  <2>3. usage'[u].pc = "done" /\ usage'[u].counted /\ usage'[u].row = q
    BY <2>1, <2>2 DEF Bills!Usage
  <2> QED
    BY <1>1, <2>2, <2>3
<1>3. u \notin Bills!Counted(q) /\ Bills!Counted(q)' = Bills!Counted(q) \cup {u}
  BY <1>1, <1>2 DEF Bills!Counted
<1>4. Cardinality(Bills!Counted(q)') = Cardinality(Bills!Counted(q)) + 1
  BY <1>3, CountedFinite, FS_AddElement
<1>5. \A r : r # q => Bills!Counted(r)' = Bills!Counted(r)
  BY <1>1, <1>2 DEF Bills!Counted
<1>6. /\ usage[u].seen <= Cardinality(Bills!Counted(q))
      /\ ~crossed[q] => /\ usage[u].seen = quota[q].used
                        /\ quota[q].used = Cardinality(Bills!Counted(q))
  <2>1. SeenStep(u, q)
    BY <1>1 DEF QuotaInv
  <2>2. ~crossed[q] => quota[q].used = Cardinality(Bills!Counted(q))
    BY <1>1, QuotaAgreesOf DEF QuotaInv
  <2> QED
    BY <1>1, <2>1, <2>2 DEF SeenStep
<1>7. QuotaAgrees'
  <2> SUFFICES ASSUME NEW r \in Quotas
               PROVE  /\ quota'[r].used <= Cardinality(Bills!Counted(r)')
                      /\ ~crossed'[r] => quota'[r].used = Cardinality(Bills!Counted(r)')
    BY CountsAlike DEF QuotaAgrees, Bills!QuotaAgrees
  <2>1. CASE r = q
    <3> DEFINE n == Cardinality(Bills!Counted(q))
    <3>1. n \in Nat
      BY CountedFinite
    <3>2. quota'[r].used = usage[u].seen + 1 /\ Cardinality(Bills!Counted(r)') = n + 1
      BY <1>2, <1>4, <2>1
    <3>3. usage[u].seen <= n /\ (~crossed'[r] => usage[u].seen = n)
      BY <1>1, <1>6, <2>1
    <3> HIDE DEF n
    <3> QED
      BY <1>1, <3>1, <3>2, <3>3
  <2>2. CASE r # q
    BY <1>1, <1>2, <1>5, <2>2, QuotaAgreesOf DEF QuotaInv
  <2> QED
    BY <2>1, <2>2
<1>8. ASSUME NEW v \in Usages PROVE UsageStep(v)'
  <2>1. CASE v = u
    BY <1>2, <2>1 DEF UsageStep
  <2>2. CASE v # u
    BY <1>2, <2>2 DEF QuotaInv, UsageStep
  <2> QED
    BY <2>1, <2>2
<1>10. ASSUME NEW v \in Usages, NEW r \in Quotas PROVE SeenStep(v, r)'
  <2>1. CASE v = u
    BY <1>2, <2>1 DEF SeenStep
  <2>2. CASE v # u /\ r # q
    BY <1>1, <1>2, <1>5, <2>2 DEF QuotaInv, SeenStep
  <2>3. CASE v # u /\ r = q
    <3>1. SeenStep(v, q) /\ usage'[v] = usage[v]
      BY <1>1, <1>2, <2>3 DEF QuotaInv
    <3>2. usage[v].pc = "adding" /\ usage[v].row = q => crossed[q]
      BY <1>1, <2>3 DEF QuotaInv
    <3>3. usage[v].seen \in Nat
      BY DEF Bills!TypeOK, Bills!Usage
    <3> DEFINE n == Cardinality(Bills!Counted(q))
    <3>4. n \in Nat /\ Cardinality(Bills!Counted(r)') = n + 1
      BY <1>1, <1>2, <1>4, <2>3, CountedFinite
    <3>5. usage[v].pc = "adding" /\ usage[v].row = q => usage[v].seen <= n
      BY <3>1 DEF SeenStep
    <3> HIDE DEF n
    <3>6. usage'[v].pc = "adding" /\ usage'[v].row = q =>
              usage'[v].seen <= Cardinality(Bills!Counted(r)')
      BY <3>1, <3>3, <3>4, <3>5
    <3> QED
      BY <1>1, <2>3, <3>1, <3>2, <3>6 DEF SeenStep
  <2> QED
    BY <2>1, <2>2, <2>3
<1>9. ASSUME NEW v \in Usages, NEW w \in Usages, usage'[v].pc = "adding", usage'[w].pc = "adding",
             usage'[v].row = usage'[w].row, ~crossed'[usage'[v].row]
      PROVE  v = w
  BY <1>1, <1>2, <1>9 DEF QuotaInv
<1> QED
  BY <1>7, <1>8, <1>9, <1>10 DEF QuotaInv

\* Making a quota leaves what it counts alone.
LEMMA QuotaKeptMade ==
    ASSUME Bills!TypeOK, QuotaInv, NEW q \in Quotas, Bills!QuotaMade(q)
    PROVE  QuotaInv'
<1>1. /\ usage' = usage /\ crossed' = crossed
      /\ \A r \in Quotas : quota'[r].used = quota[r].used
  BY DEF Bills!QuotaMade, Bills!TypeOK, Bills!Quota
<1>2. \A r : Bills!Counted(r)' = Bills!Counted(r)
  BY <1>1 DEF Bills!Counted
<1>3. QuotaAgrees'
  BY <1>1, <1>2, QuotaAgreesOf, CountsAlike DEF QuotaInv, QuotaAgrees, Bills!QuotaAgrees
<1>4. ASSUME NEW v \in Usages, NEW r \in Quotas PROVE SeenStep(v, r)'
  <2>1. SeenStep(v, r)
    BY DEF QuotaInv
  <2> QED
    BY <1>1, <1>2, <2>1 DEF SeenStep
<1>5. \A v \in Usages : UsageStep(v)'
  BY <1>1 DEF QuotaInv, UsageStep
<1> QED
  BY <1>1, <1>3, <1>4, <1>5 DEF QuotaInv

\* The steps of a call of record_usage.
BillsUsage(u) ==
    BillsUsageStep(u) \/ (\E q \in Quotas : Bills!QuotaFound(u, q)) \/ Bills!QuotaAdded(u)

\* A sum that is right, and stays so whatever is yet to be recorded.
Holds(sum, month) == Bills!SumsUp(sum, month) /\ Bills!YetToCome(month) \subseteq sum.open

\* It does as long as what is recorded was to come, and what was recorded stays.
LEMMA HoldsOn ==
    ASSUME \A u \in Usages :
               /\ u \in Bills!Recorded => u \in Bills!Recorded' /\ usage'[u].at = usage[u].at
               /\ \A m \in Nat : u \in Bills!YetToCome(m)' => u \in Bills!YetToCome(m)
               /\ u \in Bills!Recorded' \ Bills!Recorded =>
                      u \in Bills!YetToCome(usage'[u].at.month),
           NEW sum, NEW m \in Nat, Holds(sum, m)
    PROVE  Holds(sum, m)'
<1>1. Bills!InMonth(m) \subseteq Bills!InMonth(m)'
  BY DEF Bills!InMonth, Bills!Recorded
<1>2. Bills!YetToCome(m)' \subseteq sum.open
  BY DEF Holds, Bills!YetToCome
<1>3. ASSUME NEW u \in Bills!InMonth(m)' \ sum.of
      PROVE  usage'[u].at.edge \/ u \in sum.open \/ sum.full
  <2>1. CASE u \in Bills!Recorded
    BY <1>3, <2>1 DEF Holds, Bills!SumsUp, Bills!InMonth, Bills!Recorded
  <2>2. CASE u \notin Bills!Recorded
    BY <1>3, <2>2 DEF Holds, Bills!InMonth, Bills!Recorded
  <2> QED
    BY <2>1, <2>2
<1> QED
  BY <1>1, <1>2, <1>3 DEF Holds, Bills!SumsUp

\* It does as long as no usage and no time goes by.
LEMMA HoldsStill ==
    ASSUME UNCHANGED <<usage, clock>>
    PROVE  \A sum, m : Holds(sum, m)' <=> Holds(sum, m)
BY DEF Holds, Bills!SumsUp, Bills!InMonth, Bills!Recorded, Bills!YetToCome

\* They keep the types, and a record that was made stays as it is.
LEMMA UsageGrows ==
    ASSUME Bills!TypeOK, NEW u \in Usages, BillsUsage(u)
    PROVE  /\ Bills!TypeOK'
           /\ UNCHANGED <<clock, period, closing>>
           /\ \A m \in Nat : \A sum : Holds(sum, m) => Holds(sum, m)'
<1>0. usage[u] \in Bills!Usage
  BY DEF Bills!TypeOK
<1>1. /\ usage' \in [Usages -> Bills!Usage]
      /\ \A v \in Usages \ {u} : usage'[v] = usage[v]
      /\ usage[u].pc \in {"finding", "adding", "done"} =>
             usage'[u].pc \in {"finding", "adding", "done"} /\ usage'[u].at = usage[u].at
      /\ usage[u].pc = "unborn" => usage'[u].pc = "creating" /\ usage'[u].at = clock
      /\ usage[u].pc = "creating" =>
             usage'[u].pc \notin {"unborn", "creating"} /\ usage'[u].at = usage[u].at
      /\ usage[u].pc = "dead" => usage'[u].pc = "dead"
  <2>1. CASE Bills!Record(u)
    <3>1. usage[u].pc = "unborn"
          /\ usage'[u] = [usage[u] EXCEPT !.pc = "creating", !.at = clock]
      BY <2>1, BillsRecord DEF Bills!Record
    <3>2. usage'[u].pc = "creating" /\ usage'[u].at = clock
      BY <1>0, <3>1 DEF Bills!Usage
    <3> QED
      BY <2>1, <3>1, <3>2, BillsRecord
  <2>2. CASE Bills!RecordMade(u) \/ Bills!RecordRaises(u) \/ Bills!NotCounted(u)
    <3>1. PICK pc \in {"finding", "done", "dead"} :
              /\ Bills!GoUsage(u, pc)
              /\ \/ usage[u].pc = "creating"
                 \/ usage[u].pc \in {"finding", "adding"} /\ pc = "done"
      BY <2>2 DEF Bills!RecordMade, Bills!RecordRaises, Bills!NotCounted
    <3>2. usage'[u] = [usage[u] EXCEPT !.pc = pc]
      BY <3>1, BillsGo
    <3>3. usage'[u].pc = pc /\ usage'[u].at = usage[u].at
      BY <1>0, <3>2 DEF Bills!Usage
    <3> QED
      BY <3>1, <3>3, BillsGo
  <2>3. CASE \E q \in Quotas : Bills!QuotaFound(u, q)
    <3>1. PICK q \in Quotas : Bills!QuotaFound(u, q)
      BY <2>3
    <3>2. usage'[u] = [usage[u] EXCEPT !.pc = "adding", !.row = q, !.seen = quota[q].used]
      BY <3>1, BillsFound
    <3>3. usage'[u].pc = "adding" /\ usage'[u].at = usage[u].at
      BY <1>0, <3>2 DEF Bills!Usage
    <3>4. usage[u].pc = "finding"
      BY <3>1 DEF Bills!QuotaFound
    <3> QED
      BY <3>1, <3>3, <3>4, BillsFound
  <2>4. CASE Bills!QuotaAdded(u)
    <3>1. usage'[u] = [usage[u] EXCEPT !.pc = "done", !.counted = TRUE]
      BY <2>4, BillsAdded
    <3>2. usage'[u].pc = "done" /\ usage'[u].at = usage[u].at
      BY <1>0, <3>1 DEF Bills!Usage
    <3>3. usage[u].pc = "adding"
      BY <2>4 DEF Bills!QuotaAdded
    <3> QED
      BY <2>4, <3>2, <3>3, BillsAdded
  <2> QED
    BY <2>1, <2>2, <2>3, <2>4 DEF BillsUsage, BillsUsageStep
<1>2. /\ quota' \in [Quotas -> Bills!Quota]
      /\ crossed' \in [Quotas -> BOOLEAN]
  <2>1. CASE BillsUsageStep(u)
    BY <2>1 DEF BillsUsageStep, Bills!Record, Bills!RecordMade, Bills!RecordRaises,
       Bills!NotCounted, Bills!TypeOK
  <2>2. CASE \E q \in Quotas : Bills!QuotaFound(u, q)
    BY <2>2 DEF Bills!QuotaFound, Bills!TypeOK
  <2>3. CASE Bills!QuotaAdded(u)
    BY <2>3, BillsAdded DEF Bills!QuotaAdded, Bills!TypeOK
  <2> QED
    BY <2>1, <2>2, <2>3 DEF BillsUsage
<1>3. UNCHANGED <<clock, period, closing>>
  BY DEF BillsUsage, BillsUsageStep, Bills!Record, Bills!RecordMade, Bills!RecordRaises,
     Bills!NotCounted, Bills!QuotaFound, Bills!QuotaAdded
<1>4. ASSUME NEW v \in Usages
      PROVE  /\ v \in Bills!Recorded => v \in Bills!Recorded' /\ usage'[v].at = usage[v].at
             /\ \A m \in Nat : v \in Bills!YetToCome(m)' => v \in Bills!YetToCome(m)
             /\ v \in Bills!Recorded' \ Bills!Recorded =>
                    v \in Bills!YetToCome(usage'[v].at.month)
  <2>1. CASE v # u
    BY <1>1, <1>3, <2>1 DEF Bills!Recorded, Bills!YetToCome
  <2>2. CASE v = u
    <3>1. usage[u].pc \in {"unborn", "creating", "finding", "adding", "done", "dead"}
      BY <1>0 DEF Bills!Usage
    <3>2. clock.month <= clock.month
      BY DEF Bills!TypeOK, Bills!Clock
    <3>3. ASSUME NEW m \in Nat, u \in Bills!YetToCome(m)' PROVE u \in Bills!YetToCome(m)
      BY <1>1, <1>3, <3>1, <3>2, <3>3 DEF Bills!YetToCome
    <3>4. u \in Bills!Recorded => u \in Bills!Recorded' /\ usage'[u].at = usage[u].at
      BY <1>1 DEF Bills!Recorded
    <3>5. u \in Bills!Recorded' \ Bills!Recorded => u \in Bills!YetToCome(usage'[u].at.month)
      BY <1>1, <3>1 DEF Bills!Recorded, Bills!YetToCome
    <3> QED
      BY <2>2, <3>3, <3>4, <3>5
  <2> QED
    BY <2>1, <2>2
<1>5. \A m \in Nat : \A sum : Holds(sum, m) => Holds(sum, m)'
  BY <1>4, HoldsOn
<1> QED
  BY <1>1, <1>2, <1>3, <1>5 DEF Bills!TypeOK

\* What holds of a period: it is billed when it is closed and not before, by a sum
\* that holds, and it was closed after its month or in haste.
PeriodStep(p) ==
    /\ period[p].status # "none" => period[p].month <= clock.month
    /\ period[p].status # "closed" => period[p].bill.of = {}
    /\ period[p].status = "closed" =>
           /\ period[p].hasty \/ period[p].month < clock.month
           /\ Holds(period[p].bill, period[p].month)

\* What holds of a call of close_period.
ClosingStep(k) ==
    LET p == closing[k].of IN
    /\ closing[k].pc = "unborn" <=> p = NoId
    /\ p # NoId => Bills!MadePeriod(p)
    /\ closing[k].pc = "writing" => Holds(closing[k].sum, period[p].month)

Lives(p) == period[p].status \in {"opening", "active", "closed"}

\* What holds of two periods of one month.
PairStep(p, q) ==
    p # q /\ Lives(p) /\ Lives(q) /\ period[p].month = period[q].month =>
        q \in period[p].beside \/ period[p].hasty \/ period[q].hasty

\* The strengthening of PeriodBills.
PeriodInv ==
    /\ \A p \in Periods : PeriodStep(p)
    /\ \A k \in Closings : ClosingStep(k)
    /\ \A p, q \in Periods : PairStep(p, q)

\* It implies PeriodBills.
LEMMA PeriodInvBills == ASSUME Bills!TypeOK, PeriodInv PROVE PeriodBills
<1>1. ASSUME NEW p \in Periods, period[p].status = "closed"
      PROVE  Bills!SumsUp(period[p].bill, period[p].month)
  BY <1>1 DEF PeriodInv, PeriodStep, Holds
<1>2. ASSUME NEW p \in Periods, NEW q \in Periods, p # q,
             period[p].bill.of \cap period[q].bill.of # {}
      PROVE  q \in period[p].beside \/ period[p].hasty \/ period[q].hasty
  <2>1. PICK u : u \in period[p].bill.of /\ u \in period[q].bill.of
    BY <1>2
  <2>2. PeriodStep(p) /\ PeriodStep(q) /\ PairStep(p, q)
    BY DEF PeriodInv
  <2>3. period[p].status = "closed" /\ period[q].status = "closed"
    BY <2>1, <2>2 DEF PeriodStep
  <2>4. u \in Bills!InMonth(period[p].month) /\ u \in Bills!InMonth(period[q].month)
    BY <1>1, <2>1, <2>3 DEF Bills!SumsUp
  <2>5. period[p].month = period[q].month
    BY <2>4 DEF Bills!InMonth
  <2> QED
    BY <1>2, <2>2, <2>3, <2>5 DEF PairStep, Lives
<1> QED
  BY <1>1, <1>2 DEF PeriodBills, Bills!PeriodBills

\* A step that leaves periods and closings alone keeps it.
LEMMA PeriodsKept ==
    ASSUME Bills!TypeOK, Bills!TypeOK', PeriodInv, UNCHANGED <<period, closing>>,
           clock.month <= clock'.month, \A m \in Nat : \A sum : Holds(sum, m) => Holds(sum, m)'
    PROVE  PeriodInv'
<1>0. clock.month \in Nat /\ clock'.month \in Nat /\ \A p \in Periods : period[p].month \in Nat
  BY DEF Bills!TypeOK, Bills!Clock, Bills!Period
<1>1. ASSUME NEW p \in Periods PROVE PeriodStep(p)'
  <2>1. PeriodStep(p)
        /\ (Holds(period[p].bill, period[p].month) => Holds(period[p].bill, period[p].month)')
    BY <1>0 DEF PeriodInv
  <2> QED
    BY <1>0, <2>1 DEF PeriodStep
<1>2. ASSUME NEW k \in Closings PROVE ClosingStep(k)'
  <2>1. ClosingStep(k)
    BY DEF PeriodInv
  <2>2. closing[k].pc = "writing" => period[closing[k].of].month \in Nat
    BY <1>0, <2>1 DEF ClosingStep, Bills!TypeOK, Bills!Closing
  <2> QED
    BY <2>1, <2>2 DEF ClosingStep, Bills!MadePeriod
<1>3. ASSUME NEW p \in Periods, NEW q \in Periods PROVE PairStep(p, q)'
  BY DEF PeriodInv, PairStep, Lives
<1> QED
  BY <1>1, <1>2, <1>3 DEF PeriodInv

\* A step that leaves the records and the time alone, and of r all but what is
\* beside it.
SameBut(r) ==
    /\ UNCHANGED <<usage, clock>>
    /\ period'[r].status = period[r].status /\ period'[r].month = period[r].month
    /\ period'[r].bill = period[r].bill
    /\ period'[r].hasty <=> period[r].hasty
    /\ period[r].beside \subseteq period'[r].beside

\* What holds of such a period still does.
LEMMA PeriodSame ==
    ASSUME NEW r \in Periods, PeriodStep(r), SameBut(r)
    PROVE  PeriodStep(r)'
<1>1. \A sum, m : Holds(sum, m)' <=> Holds(sum, m)
  BY HoldsStill DEF SameBut
<1> QED
  BY <1>1 DEF PeriodStep, SameBut

\* So does what holds of two.
LEMMA PairSame ==
    ASSUME NEW p \in Periods, NEW q \in Periods, PairStep(p, q), SameBut(p), SameBut(q)
    PROVE  PairStep(p, q)'
BY DEF PairStep, SameBut, Lives

\* And of a call of close_period of such a period.
LEMMA ClosingSame ==
    ASSUME NEW k \in Closings, ClosingStep(k), closing'[k] = closing[k],
           closing[k].of # NoId => SameBut(closing[k].of)
    PROVE  ClosingStep(k)'
<1>1. CASE closing[k].of = NoId
  BY <1>1 DEF ClosingStep
<1>2. CASE closing[k].of # NoId
  <2>1. SameBut(closing[k].of)
    BY <1>2
  <2>2. \A sum, m : Holds(sum, m)' <=> Holds(sum, m)
    BY <2>1, HoldsStill DEF SameBut
  <2> QED
    BY <1>2, <2>1, <2>2 DEF ClosingStep, SameBut, Bills!MadePeriod
<1> QED
  BY <1>1, <1>2

\* Beginning a period keeps the invariant: if another of the month lives, it is
\* being opened, or was closed in haste.
LEMMA NoPeriodKept ==
    ASSUME Bills!TypeOK, PeriodInv, NEW p \in Periods, Bills!NoPeriod(p)
    PROVE  PeriodInv'
<1>1. /\ period[p].status = "none" /\ UNCHANGED <<usage, clock, closing>>
      /\ \A r \in Periods : period[r].status # "active"
  BY DEF Bills!NoPeriod
<1>2. /\ period'[p].status = "opening" /\ period'[p].month = clock.month
      /\ period'[p].beside = Bills!Opening
      /\ period'[p].bill = period[p].bill
  <2>1. period[p] \in Bills!Period
    BY DEF Bills!TypeOK
  <2> QED
    BY <2>1, BillsNoPeriod DEF Bills!Period
<1>3. ASSUME NEW r \in Periods, r # p
      PROVE  /\ SameBut(r)
             /\ period[r].status = "opening" => p \in period'[r].beside
  <2>1. period[r] \in Bills!Period
    BY DEF Bills!TypeOK
  <2>2. period'[r] = IF r \in Bills!Opening
                     THEN [period[r] EXCEPT !.beside = @ \cup {p}] ELSE period[r]
    BY <1>3, BillsNoPeriod
  <2> QED
    BY <1>1, <2>1, <2>2 DEF Bills!Period, Bills!Opening, SameBut
<1>4. PeriodStep(p) /\ clock.month \in Nat
  BY DEF PeriodInv, Bills!TypeOK, Bills!Clock
<1>5. ASSUME NEW r \in Periods PROVE PeriodStep(r)'
  <2>1. CASE r = p
    BY <1>1, <1>2, <1>4, <2>1 DEF PeriodStep
  <2>2. CASE r # p
    BY <1>1, <1>3, <2>2, PeriodSame DEF PeriodInv
  <2> QED
    BY <2>1, <2>2
<1>6. ASSUME NEW k \in Closings PROVE ClosingStep(k)'
  <2>1. ClosingStep(k) /\ closing'[k] = closing[k]
    BY <1>1 DEF PeriodInv
  <2>2. closing[k].of # NoId => closing[k].of \in Periods \ {p}
    BY <1>1, <2>1 DEF ClosingStep, Bills!MadePeriod, Bills!TypeOK, Bills!Closing
  <2> QED
    BY <1>3, <2>1, <2>2, ClosingSame
<1>7. ASSUME NEW r \in Periods, r # p, Lives(r), period[r].month = clock.month
      PROVE  period[r].status = "opening" \/ period[r].hasty
  BY <1>1, <1>4, <1>7 DEF Lives, PeriodInv, PeriodStep
<1>8. ASSUME NEW q \in Periods, NEW r \in Periods PROVE PairStep(q, r)'
  <2>1. CASE q # p /\ r # p
    BY <1>3, <2>1, PairSame DEF PeriodInv
  <2>2. CASE q = p /\ r # p
    <3>1. period'[r].status = period[r].status /\ period'[r].month = period[r].month
          /\ (period'[r].hasty <=> period[r].hasty)
      BY <1>3, <2>2 DEF SameBut
    <3>2. period[r].status = "opening" => r \in period'[p].beside
      BY <1>2 DEF Bills!Opening
    <3> QED
      BY <1>2, <1>7, <2>2, <3>1, <3>2 DEF PairStep, Lives
  <2>3. CASE q # p /\ r = p
    <3>1. period'[q].status = period[q].status /\ period'[q].month = period[q].month
          /\ (period'[q].hasty <=> period[q].hasty)
          /\ (period[q].status = "opening" => p \in period'[q].beside)
      BY <1>3, <2>3 DEF SameBut
    <3> QED
      BY <1>2, <1>7, <2>3, <3>1 DEF PairStep, Lives
  <2>4. CASE q = r
    BY <2>4 DEF PairStep
  <2> QED
    BY <2>1, <2>2, <2>3, <2>4
<1> QED
  BY <1>5, <1>6, <1>8 DEF PeriodInv

\* So does the creation of a period, done or failed.
LEMMA OpenedKept ==
    ASSUME Bills!TypeOK, PeriodInv, NEW p \in Periods, Bills!PeriodMade(p) \/ Bills!PeriodRaises(p)
    PROVE  PeriodInv'
<1>1. period[p].status = "opening" /\ UNCHANGED <<usage, clock, closing>>
  BY DEF Bills!PeriodMade, Bills!PeriodRaises
<1>2. PICK st \in {"active", "failed"} :
          period'[p] = [period[p] EXCEPT !.status = st] /\ \A r \in Periods \ {p} : period'[r] = period[r]
  BY BillsOpened
<1>3. /\ period'[p].status \in {"active", "failed"} /\ period'[p].month = period[p].month
      /\ period'[p].bill = period[p].bill
      /\ period'[p].beside = period[p].beside
  <2>1. period[p] \in Bills!Period
    BY DEF Bills!TypeOK
  <2> QED
    BY <1>2, <2>1 DEF Bills!Period
<1>4. period'[p].hasty = period[p].hasty
  <2>1. period[p] \in Bills!Period
    BY DEF Bills!TypeOK
  <2> QED
    BY <1>2, <2>1, Zenon DEF Bills!Period
<1>5. ASSUME NEW r \in Periods, r # p PROVE SameBut(r)
  BY <1>1, <1>2, <1>5 DEF SameBut
<1>6. PeriodStep(p) /\ \A sum, m : Holds(sum, m)' <=> Holds(sum, m)
  BY <1>1, HoldsStill DEF PeriodInv
<1>7. ASSUME NEW r \in Periods PROVE PeriodStep(r)'
  <2>1. CASE r = p
    BY <1>1, <1>3, <1>6, <2>1 DEF PeriodStep
  <2>2. CASE r # p
    BY <1>1, <1>5, <2>2, PeriodSame DEF PeriodInv
  <2> QED
    BY <2>1, <2>2
<1>8. ASSUME NEW k \in Closings PROVE ClosingStep(k)'
  <2>1. ClosingStep(k) /\ closing'[k] = closing[k]
    BY <1>1 DEF PeriodInv
  <2>2. closing[k].of # NoId => closing[k].of \in Periods \ {p}
    BY <1>1, <2>1 DEF ClosingStep, Bills!MadePeriod, Bills!TypeOK, Bills!Closing
  <2> QED
    BY <1>5, <2>1, <2>2, ClosingSame
<1>9. ASSUME NEW q \in Periods, NEW r \in Periods PROVE PairStep(q, r)'
  <2>1. PairStep(q, r)
    BY DEF PeriodInv
  <2>2. CASE q # p /\ r # p
    BY <1>5, <2>1, <2>2, PairSame
  <2>3. CASE q = p \/ r = p
    <3>1. \A x \in {q, r} : /\ Lives(x)' => Lives(x)
                            /\ period'[x].month = period[x].month
                            /\ period[x].beside \subseteq period'[x].beside
                            /\ period'[x].hasty <=> period[x].hasty
      BY <1>1, <1>2, <1>3, <1>4 DEF Lives
    <3> QED
      BY <2>1, <3>1 DEF PairStep
  <2> QED
    BY <2>2, <2>3
<1> QED
  BY <1>7, <1>8, <1>9 DEF PeriodInv

\* So does reading the period that is to be closed.
LEMMA CloseReadKept ==
    ASSUME Bills!TypeOK, PeriodInv, NEW k \in Closings, NEW p \in Periods, Bills!CloseRead(k, p)
    PROVE  PeriodInv'
<1>1. /\ closing[k].pc = "unborn" /\ Bills!MadePeriod(p) /\ UNCHANGED <<usage, clock>>
  BY DEF Bills!CloseRead
<1>2. closing'[k].pc = "summing" /\ closing'[k].of = p
      /\ \A j \in Closings \ {k} : closing'[j] = closing[j]
  <2>1. closing[k] \in Bills!Closing
    BY DEF Bills!TypeOK
  <2>2. /\ closing'[k] = [closing[k] EXCEPT !.pc = "summing", !.of = p]
        /\ \A j \in Closings \ {k} : closing'[j] = closing[j]
    BY BillsCloseRead
  <2> QED
    BY <2>1, <2>2 DEF Bills!Closing
<1>3. UNCHANGED period /\ p # NoId
  BY AccountsAssumption DEF Bills!CloseRead
<1>4. \A r \in Periods : SameBut(r)
  BY <1>1, <1>3 DEF SameBut
<1>5. ASSUME NEW r \in Periods PROVE PeriodStep(r)'
  BY <1>4, PeriodSame DEF PeriodInv
<1>6. ASSUME NEW j \in Closings PROVE ClosingStep(j)'
  <2>1. CASE j = k
    BY <1>1, <1>2, <1>3, <2>1 DEF ClosingStep, Bills!MadePeriod
  <2>2. CASE j # k
    <3>1. ClosingStep(j) /\ closing'[j] = closing[j]
      BY <1>2, <2>2 DEF PeriodInv
    <3>2. closing[j].of # NoId => closing[j].of \in Periods
      BY DEF Bills!TypeOK, Bills!Closing
    <3> QED
      BY <1>4, <3>1, <3>2, ClosingSame
  <2> QED
    BY <2>1, <2>2
<1>7. ASSUME NEW q \in Periods, NEW r \in Periods PROVE PairStep(q, r)'
  BY <1>4, PairSame DEF PeriodInv
<1> QED
  BY <1>5, <1>6, <1>7 DEF PeriodInv

\* A sum that was just taken holds.
LEMMA SumHolds ==
    ASSUME Bills!TypeOK, NEW m, NEW found \in Bills!Listed(m)
    PROVE  Holds(SumOf(m, found), m)
<1>1. found \subseteq Bills!Within(m) /\ Bills!Within(m) \subseteq Bills!InMonth(m)
  <2>1. Bills!Within(m) \subseteq Bills!InMonth(m)
    BY DEF Bills!Within, Bills!InMonth
  <2> QED
    BY <2>1 DEF Bills!Listed
<1>2. ASSUME NEW u \in Bills!InMonth(m), ~usage[u].at.edge, u \notin found
      PROVE  Bills!Overflows(m)
  <2>1. u \in Bills!Within(m)
    BY <1>2 DEF Bills!Within, Bills!InMonth, Bills!Recorded, Bills!TypeOK, Bills!Usage,
       Bills!Clock
  <2> QED
    BY <1>2, <2>1 DEF Bills!Listed
<1>3. Bills!Overflows(m) => Bills!Cardinality(found) = MaxRecords
  BY DEF Bills!Listed
<1>4. /\ SumOf(m, found).of = found /\ SumOf(m, found).full = Bills!Overflows(m)
      /\ SumOf(m, found).open = Bills!YetToCome(m)
  BY DEF SumOf
<1> QED
  BY <1>1, <1>2, <1>3, <1>4 DEF Holds, Bills!SumsUp

\* Summing up keeps the invariant, and so does ending without a sum.
LEMMA SummedKept ==
    ASSUME Bills!TypeOK, PeriodInv, NEW k \in Closings, Bills!Summed(k) \/ Bills!CloseRaises(k)
    PROVE  PeriodInv'
<1> DEFINE p == closing[k].of
           month == period[p].month
<1>1. /\ closing[k].pc \in {"summing", "writing"} /\ UNCHANGED <<usage, clock, period>>
  BY DEF Bills!Summed, Bills!CloseRaises
<1>2. /\ closing'[k].of = closing[k].of
      /\ \/ closing'[k].pc = "writing" /\ Holds(closing'[k].sum, month)
         \/ closing'[k].pc = "done"
      /\ \A j \in Closings \ {k} : closing'[j] = closing[j]
  <2>1. closing[k] \in Bills!Closing
    BY DEF Bills!TypeOK
  <2>2. CASE Bills!Summed(k)
    <3>1. PICK found \in Bills!Listed(month) :
              /\ closing'[k] = [closing[k] EXCEPT !.pc = "writing", !.sum = SumOf(month, found)]
              /\ \A j \in Closings \ {k} : closing'[j] = closing[j]
      BY <2>2, BillsSummed
    <3> HIDE DEF month
    <3>2. closing'[k].of = closing[k].of /\ closing'[k].pc = "writing"
          /\ closing'[k].sum = SumOf(month, found)
      BY <2>1, <3>1 DEF Bills!Closing
    <3> QED
      BY <3>1, <3>2, SumHolds
  <2>3. CASE Bills!CloseRaises(k)
    <3>1. /\ closing'[k] = [closing[k] EXCEPT !.pc = "done", !.sum = Bills!NoSum]
          /\ \A j \in Closings \ {k} : closing'[j] = closing[j]
      BY <2>3, BillsRaises
    <3> QED
      BY <2>1, <3>1 DEF Bills!Closing
  <2> QED
    BY <2>2, <2>3
<1>3. \A sum, m : Holds(sum, m)' <=> Holds(sum, m)
  BY <1>1, HoldsStill
<1>4. \A r \in Periods : SameBut(r)
  BY <1>1 DEF SameBut
<1>5. ASSUME NEW r \in Periods PROVE PeriodStep(r)'
  BY <1>4, PeriodSame DEF PeriodInv
<1>6. ASSUME NEW j \in Closings PROVE ClosingStep(j)'
  <2>1. ClosingStep(j)
    BY DEF PeriodInv
  <2>2. CASE j = k
    <3>1. p # NoId /\ Bills!MadePeriod(p)
      BY <1>1, <2>1, <2>2 DEF ClosingStep
    <3>2. (closing[k].pc = "writing" => Holds(closing[k].sum, period[closing[k].of].month))'
      BY <1>1, <1>2 DEF Holds, Bills!SumsUp, Bills!InMonth, Bills!Recorded, Bills!YetToCome
    <3> QED
      BY <1>1, <1>2, <2>2, <3>1, <3>2 DEF ClosingStep, Bills!MadePeriod
  <2>3. CASE j # k
    <3>1. closing'[j] = closing[j] /\ (closing[j].of # NoId => closing[j].of \in Periods)
      BY <1>2, <2>3 DEF Bills!TypeOK, Bills!Closing
    <3> QED
      BY <1>4, <2>1, <3>1, ClosingSame
  <2> QED
    BY <2>2, <2>3
<1>7. ASSUME NEW q \in Periods, NEW r \in Periods PROVE PairStep(q, r)'
  BY <1>4, PairSame DEF PeriodInv
<1> QED
  BY <1>5, <1>6, <1>7 DEF PeriodInv

\* So does closing: the month is over, or the period is closed in haste.
LEMMA ClosedKept ==
    ASSUME Bills!TypeOK, PeriodInv, NEW k \in Closings, Bills!Closed(k)
    PROVE  PeriodInv'
<1>1. closing[k].pc = "writing" /\ UNCHANGED <<usage, clock>>
  BY DEF Bills!Closed
<1>2. PICK p \in Periods : /\ closing[k].of = p /\ p # NoId /\ Bills!MadePeriod(p)
                           /\ Holds(closing[k].sum, period[p].month)
  BY <1>1 DEF PeriodInv, ClosingStep, Bills!TypeOK, Bills!Closing
<1>3. /\ closing'[k].pc = "done" /\ closing'[k].of = p
      /\ \A j \in Closings \ {k} : closing'[j] = closing[j]
  <2>1. closing[k] \in Bills!Closing
    BY DEF Bills!TypeOK
  <2>2. /\ closing'[k] = [closing[k] EXCEPT !.pc = "done", !.sum = Bills!NoSum]
        /\ \A j \in Closings \ {k} : closing'[j] = closing[j]
    BY <1>2, BillsClosed
  <2> QED
    BY <1>2, <2>1, <2>2 DEF Bills!Closing
<1> DEFINE h == period[p].hasty \/ clock.month = period[p].month
<1>4. /\ period'[p].status = "closed" /\ period'[p].month = period[p].month
      /\ period'[p].bill = closing[k].sum
      /\ period'[p].beside = period[p].beside
      /\ period'[p].hasty <=> h
  <2>1. period[p] \in Bills!Period
    BY <1>2 DEF Bills!TypeOK
  <2>2. period'[p] = [period[p] EXCEPT !.status = "closed", !.bill = closing[k].sum, !.hasty = h]
    BY <1>2, BillsClosed
  <2> HIDE DEF h
  <2>3. period'[p].hasty = h
    BY <2>1, <2>2, Zenon DEF Bills!Period
  <2>4. /\ period'[p].status = "closed" /\ period'[p].month = period[p].month
        /\ period'[p].bill = closing[k].sum
        /\ period'[p].beside = period[p].beside
    BY <2>1, <2>2 DEF Bills!Period
  <2> QED
    BY <2>3, <2>4
<1>5. \A r \in Periods \ {p} : period'[r] = period[r]
  BY <1>2, BillsClosed
<1>6. ASSUME NEW r \in Periods, r # p PROVE SameBut(r)
  BY <1>1, <1>5, <1>6 DEF SameBut
<1>7. \A sum, m : Holds(sum, m)' <=> Holds(sum, m)
  BY <1>1, HoldsStill
<1>8. /\ period[p].month \in Nat /\ clock.month \in Nat
      /\ period[p].month <= clock.month
  BY <1>2 DEF PeriodInv, PeriodStep, Bills!MadePeriod, Bills!TypeOK, Bills!Period, Bills!Clock
<1>9. ASSUME NEW r \in Periods PROVE PeriodStep(r)'
  <2>1. CASE r = p
    <3>1. h \/ period[p].month < clock.month
      BY <1>8
    <3> HIDE DEF h
    <3>2. period'[p].hasty \/ period'[p].month < clock'.month
      BY <1>1, <1>4, <3>1
    <3>3. Holds(period[p].bill, period[p].month)'
      BY <1>2, <1>4, <1>7
    <3> QED
      BY <1>1, <1>4, <1>8, <2>1, <3>2, <3>3 DEF PeriodStep
  <2>2. CASE r # p
    BY <1>6, <2>2, PeriodSame DEF PeriodInv
  <2> QED
    BY <2>1, <2>2
<1>10. ASSUME NEW j \in Closings PROVE ClosingStep(j)'
  <2>1. ClosingStep(j)
    BY DEF PeriodInv
  <2>2. CASE j = k
    BY <1>2, <1>3, <1>4, <2>2 DEF ClosingStep, Bills!MadePeriod
  <2>3. CASE j # k /\ closing[j].of # p
    <3>1. closing'[j] = closing[j] /\ (closing[j].of # NoId => closing[j].of \in Periods \ {p})
      BY <1>3, <2>3 DEF Bills!TypeOK, Bills!Closing
    <3> QED
      BY <1>6, <2>1, <3>1, ClosingSame
  <2>4. CASE j # k /\ closing[j].of = p
    <3>1. closing'[j] = closing[j] /\ period'[p].month = period[p].month
      BY <1>3, <1>4, <2>4
    <3> QED
      BY <1>2, <1>4, <1>7, <2>1, <2>4, <3>1 DEF ClosingStep, Bills!MadePeriod
  <2> QED
    BY <2>2, <2>3, <2>4
<1>11. ASSUME NEW q \in Periods, NEW r \in Periods PROVE PairStep(q, r)'
  <2>1. \A x \in Periods : /\ Lives(x)' => Lives(x)
                           /\ period'[x].month = period[x].month
                           /\ period'[x].beside = period[x].beside
                           /\ period[x].hasty => period'[x].hasty
    BY <1>2, <1>4, <1>5 DEF Lives, Bills!MadePeriod
  <2> QED
    BY <2>1 DEF PeriodInv, PairStep
<1> QED
  BY <1>9, <1>10, <1>11 DEF PeriodInv

\* The steps of billing that touch no record of usage keep the types.
LEMMA PeriodsType ==
    ASSUME Bills!TypeOK, PeriodInv, NEW p \in Periods,
           \/ Bills!NoPeriod(p) \/ Bills!PeriodMade(p) \/ Bills!PeriodRaises(p)
           \/ \E k \in Closings : Bills!CloseRead(k, p)
    PROVE  Bills!TypeOK'
<1>1. CASE Bills!NoPeriod(p)
  BY <1>1, BillsNoPeriod DEF Bills!NoPeriod, Bills!TypeOK
<1>2. CASE Bills!PeriodMade(p) \/ Bills!PeriodRaises(p)
  BY <1>2, BillsOpened DEF Bills!PeriodMade, Bills!PeriodRaises, Bills!TypeOK
<1>3. CASE \E k \in Closings : Bills!CloseRead(k, p)
  BY <1>3, BillsCloseRead DEF Bills!CloseRead, Bills!TypeOK
<1> QED
  BY <1>1, <1>2, <1>3

\* So do those of the calls that close a period.
LEMMA ClosingsType ==
    ASSUME Bills!TypeOK, PeriodInv, NEW k \in Closings,
           Bills!Summed(k) \/ Bills!Closed(k) \/ Bills!CloseRaises(k)
    PROVE  Bills!TypeOK'
<1>1. CASE Bills!Summed(k) \/ Bills!CloseRaises(k)
  BY <1>1, BillsSummed, BillsRaises DEF Bills!Summed, Bills!CloseRaises, Bills!TypeOK
<1>2. CASE Bills!Closed(k)
  <2>1. closing[k].of \in Periods
    BY <1>2 DEF Bills!Closed, PeriodInv, ClosingStep, Bills!TypeOK, Bills!Closing
  <2> QED
    BY <1>2, <2>1, BillsClosed DEF Bills!Closed, Bills!TypeOK
<1> QED
  BY <1>1, <1>2

\* The strengthening of QuotaAgrees and PeriodBills.
BillsInv == Bills!TypeOK /\ PeriodInv /\ QuotaInv

\* Every step of billing keeps it.
LEMMA BillsStep ==
    ASSUME BillsInv, [Bills!Next]_billingvars
    PROVE  BillsInv'
<1> USE DEF BillsInv
<1>1. CASE Bills!Tick
  <2>1. /\ clock' \in Bills!Clock /\ clock.month <= clock'.month
        /\ UNCHANGED <<usage, quota, period, closing, crossed>>
    <3>1. /\ clock \in Bills!Clock /\ UNCHANGED <<usage, quota, period, closing, crossed>>
          /\ clock' = IF clock.edge THEN [month |-> clock.month + 1, edge |-> FALSE]
                                    ELSE [clock EXCEPT !.edge = TRUE]
      BY <1>1 DEF Bills!Tick, Bills!TypeOK
    <3>2. clock.month \in Nat /\ clock.month <= clock.month + 1 /\ clock.month + 1 \in Nat
      BY <3>1 DEF Bills!Clock
    <3>3. CASE clock.edge
      <4>1. clock' = [month |-> clock.month + 1, edge |-> FALSE]
        BY <3>1, <3>3
      <4> QED
        BY <3>1, <3>2, <4>1 DEF Bills!Clock
    <3>4. CASE ~clock.edge
      <4>1. clock' = [clock EXCEPT !.edge = TRUE]
        BY <3>1, <3>4
      <4>2. clock' \in Bills!Clock /\ clock'.month = clock.month
        BY <3>1, <4>1 DEF Bills!Clock
      <4> QED
        BY <3>1, <3>2, <4>2
    <3> QED
      BY <3>3, <3>4
  <2>2. Bills!TypeOK'
    BY <2>1 DEF Bills!TypeOK
  <2>3. ASSUME NEW u \in Usages
        PROVE  /\ u \in Bills!Recorded => u \in Bills!Recorded' /\ usage'[u].at = usage[u].at
               /\ \A m \in Nat : u \in Bills!YetToCome(m)' => u \in Bills!YetToCome(m)
               /\ u \in Bills!Recorded' \ Bills!Recorded =>
                      u \in Bills!YetToCome(usage'[u].at.month)
    <3>1. clock.month \in Nat /\ clock'.month \in Nat
      BY <2>1 DEF Bills!TypeOK, Bills!Clock
    <3> QED
      BY <2>1, <3>1 DEF Bills!Recorded, Bills!YetToCome
  <2>4. \A m \in Nat : \A sum : Holds(sum, m) => Holds(sum, m)'
    BY <2>3, HoldsOn
  <2> QED
    BY <2>1, <2>2, <2>4, PeriodsKept, QuotaKept
<1>2. ASSUME NEW u \in Usages, BillsUsage(u) PROVE BillsInv'
  <2>1. clock.month <= clock'.month /\ Bills!TypeOK'
    BY <1>2, UsageGrows DEF Bills!TypeOK, Bills!Clock
  <2>2. PeriodInv'
    BY <1>2, <2>1, UsageGrows, PeriodsKept
  <2>3. QuotaInv'
    BY <1>2, QuotaKeptOnwards, QuotaKeptFound, QuotaKeptAdded DEF BillsUsage
  <2> QED
    BY <2>1, <2>2, <2>3
<1>3. ASSUME NEW q \in Quotas, Bills!QuotaMade(q) PROVE BillsInv'
  <2>1. UNCHANGED <<clock, usage, period, closing, crossed>>
    BY <1>3 DEF Bills!QuotaMade
  <2>2. quota' \in [Quotas -> Bills!Quota]
    BY <1>3 DEF Bills!QuotaMade, Bills!TypeOK, Bills!Quota
  <2>3. Bills!TypeOK' /\ clock.month <= clock'.month
    BY <2>1, <2>2 DEF Bills!TypeOK, Bills!Clock
  <2>4. \A m \in Nat : \A sum : Holds(sum, m) => Holds(sum, m)'
    BY <2>1, HoldsStill
  <2> QED
    BY <1>3, <2>1, <2>3, <2>4, PeriodsKept, QuotaKeptMade
<1>4. ASSUME NEW p \in Periods,
             \/ Bills!NoPeriod(p) \/ Bills!PeriodMade(p) \/ Bills!PeriodRaises(p)
             \/ \E k \in Closings : Bills!CloseRead(k, p)
      PROVE  BillsInv'
  <2>1. UNCHANGED <<usage, quota, crossed>>
    BY <1>4 DEF Bills!NoPeriod, Bills!PeriodMade, Bills!PeriodRaises, Bills!CloseRead
  <2>2. QuotaInv'
    BY <2>1, QuotaKept
  <2>3. PeriodInv'
    BY <1>4, NoPeriodKept, OpenedKept, CloseReadKept
  <2> QED
    BY <1>4, <2>2, <2>3, PeriodsType
<1>5. ASSUME NEW k \in Closings, Bills!Summed(k) \/ Bills!Closed(k) \/ Bills!CloseRaises(k)
      PROVE  BillsInv'
  <2>1. UNCHANGED <<usage, quota, crossed>>
    BY <1>5 DEF Bills!Summed, Bills!Closed, Bills!CloseRaises
  <2>2. QuotaInv'
    BY <2>1, QuotaKept
  <2>3. PeriodInv'
    BY <1>5, SummedKept, ClosedKept
  <2> QED
    BY <1>5, <2>2, <2>3, ClosingsType
<1>6. CASE UNCHANGED billingvars
  <2>1. UNCHANGED <<clock, usage, quota, period, closing, crossed>>
    BY <1>6 DEF billingvars
  <2>2. Bills!TypeOK' /\ clock.month <= clock'.month
    BY <2>1 DEF Bills!TypeOK, Bills!Clock
  <2>3. \A m \in Nat : \A sum : Holds(sum, m) => Holds(sum, m)'
    BY <2>1, HoldsStill
  <2> QED
    BY <2>1, <2>2, <2>3, PeriodsKept, QuotaKept
<1> QED
  BY <1>1, <1>2, <1>3, <1>4, <1>5, <1>6 DEF Bills!Next, BillsUsage, BillsUsageStep

\* It holds at the start.
LEMMA BillsStart == ASSUME Bills!Init PROVE BillsInv
<1>1. Bills!TypeOK
  <2>1. clock \in Bills!Clock
    BY DEF Bills!Init, Bills!Clock
  <2>2. usage \in [Usages -> Bills!Usage]
    BY <2>1 DEF Bills!Init, Bills!Usage
  <2>3. quota \in [Quotas -> Bills!Quota] /\ crossed \in [Quotas -> BOOLEAN]
    BY DEF Bills!Init, Bills!Quota
  <2>4. period \in [Periods -> Bills!Period]
    BY DEF Bills!Init, Bills!Period, Bills!Sum, Bills!NoSum
  <2>5. closing \in [Closings -> Bills!Closing]
    BY DEF Bills!Init, Bills!Closing, Bills!Sum, Bills!NoSum
  <2> QED
    BY <2>1, <2>2, <2>3, <2>4, <2>5 DEF Bills!TypeOK
<1>2. PeriodInv
  BY DEF Bills!Init, PeriodInv, PeriodStep, ClosingStep, PairStep, Lives, Bills!MadePeriod,
     Bills!NoSum
<1>3. QuotaInv
  <2>1. \A u \in Usages : ~usage[u].counted /\ usage[u].pc = "unborn"
    BY DEF Bills!Init
  <2>2. \A q \in Quotas : quota[q].used = 0
    BY DEF Bills!Init
  <2>3. \A q \in Quotas : Bills!Counted(q) = {}
    BY <2>1 DEF Bills!Counted
  <2>4. QuotaAgrees
    BY <2>2, <2>3, FS_EmptySet, CountsAlike DEF QuotaAgrees, Bills!QuotaAgrees
  <2> QED
    BY <2>1, <2>4 DEF QuotaInv, UsageStep, SeenStep
<1> QED
  BY <1>1, <1>2, <1>3 DEF BillsInv

-----------------------------------------------------------------------------
\* Every step of the rate limiter keeps its types.
LEMMA LimiterType ==
    ASSUME Limiter!TypeOK, [Limiter!Next]_limitervars
    PROVE  Limiter!TypeOK'
<1> USE DEF Limiter!TypeOK, Limiter!Call, Limiter!UnderWay
<1>1. CASE Limiter!Tick
  BY <1>1 DEF Limiter!Tick
<1>2. ASSUME NEW c \in Calls, NEW pc \in {"refused", "allowed", "asking"}, NEW at \in Nat,
             Limiter!Begin(c, pc, at)
      PROVE  call' \in [Calls -> Limiter!Call]
             /\ start' \in [Calls -> [before: SUBSET Calls, beside: SUBSET Calls]]
  BY <1>2 DEF Limiter!Begin, Limiter!Go, Limiter!InFlight
<1>3. ASSUME NEW c \in Calls, Limiter!CheckMemory(c) PROVE Limiter!TypeOK'
  <2>1. PICK pc \in {"refused", "allowed", "asking"} : Limiter!Begin(c, pc, 0)
    BY <1>3 DEF Limiter!CheckMemory
  <2>2. list' \in SUBSET Calls /\ UNCHANGED <<redis, now, sets, unseen>>
    BY <1>3 DEF Limiter!CheckMemory, Limiter!Clean
  <2>3. call' \in [Calls -> Limiter!Call]
        /\ start' \in [Calls -> [before: SUBSET Calls, beside: SUBSET Calls]]
    BY <1>2, <2>1
  <2> QED
    BY <2>2, <2>3
<1>4. ASSUME NEW c \in Calls, Limiter!Ask(c) PROVE Limiter!TypeOK'
  BY <1>2, <1>4 DEF Limiter!Ask
<1>5. ASSUME NEW c \in Calls, Limiter!CheckRedis(c) PROVE Limiter!TypeOK'
  BY <1>5 DEF Limiter!CheckRedis, Limiter!Go
<1>6. ASSUME NEW c \in Calls,
             \/ Limiter!CheckSilent(c) \/ Limiter!Fail(c) \/ Limiter!RecordMemory(c)
             \/ Limiter!Answered(c) \/ Limiter!RecordRedis(c) \/ Limiter!RecordSilent(c)
      PROVE  Limiter!TypeOK'
  <2>1. /\ call' \in [Calls -> Limiter!Call]
        /\ UNCHANGED <<redis, now, start>>
    BY <1>6 DEF Limiter!CheckSilent, Limiter!Fail, Limiter!RecordMemory, Limiter!Answered,
       Limiter!RecordRedis, Limiter!RecordSilent, Limiter!Go
  <2>2. list' \in SUBSET Calls /\ unseen' \in SUBSET Calls
    BY <1>6 DEF Limiter!CheckSilent, Limiter!Fail, Limiter!RecordMemory, Limiter!Answered,
       Limiter!RecordRedis, Limiter!RecordSilent
  <2>3. sets' \in [Limiter!Windows -> SUBSET Calls]
    BY <1>6 DEF Limiter!CheckSilent, Limiter!Fail, Limiter!RecordMemory, Limiter!Answered,
       Limiter!RecordRedis, Limiter!RecordSilent
  <2> QED
    BY <2>1, <2>2, <2>3
<1>7. CASE Limiter!Restart
  BY <1>7 DEF Limiter!Restart
<1>8. CASE UNCHANGED limitervars
  BY <1>8 DEF limitervars
<1> QED
  BY <1>1, <1>3, <1>4, <1>5, <1>6, <1>7, <1>8 DEF Limiter!Next

\* What the limiter knows of the calls it goes on knowing.
LEMMA CallsHoldStep ==
    ASSUME Limiter!TypeOK, Limiter!CallsHold, [Limiter!Next]_limitervars
    PROVE  Limiter!CallsHold'
<1> USE DEF Limiter!TypeOK, Limiter!CallsHold, Limiter!Call, Limiter!UnderWay
<1>0. /\ \A w \in Limiter!Windows : Length[w] \in Nat
      /\ Length["minute"] \in Nat
  BY LimiterAssumption DEF Length, Limiter!Windows
<1>1. CASE Limiter!Tick
  BY <1>0, <1>1 DEF Limiter!Tick
<1>2. ASSUME NEW c \in Calls, Limiter!CheckMemory(c) PROVE Limiter!CallsHold'
  <2>1. list' = {d \in list : call[d].at > now - Length["minute"]}
    BY <1>2, LimiterAssumption DEF Limiter!CheckMemory, Limiter!Clean, Length
  <2> QED
    BY <1>0, <1>2, <2>1 DEF Limiter!CheckMemory, Limiter!Begin, Limiter!Go, Limiter!InFlight
<1>3. ASSUME NEW c \in Calls, Limiter!Ask(c) PROVE Limiter!CallsHold'
  BY <1>3 DEF Limiter!Ask, Limiter!Begin, Limiter!Go, Limiter!InFlight
<1>4. ASSUME NEW c \in Calls, Limiter!CheckRedis(c) PROVE Limiter!CallsHold'
  BY <1>4 DEF Limiter!CheckRedis, Limiter!Go
<1>5. ASSUME NEW c \in Calls, Limiter!CheckSilent(c) PROVE Limiter!CallsHold'
  BY <1>5 DEF Limiter!CheckSilent, Limiter!Go
<1>11. ASSUME NEW c \in Calls, Limiter!Fail(c) PROVE Limiter!CallsHold'
  BY <1>11 DEF Limiter!Fail, Limiter!Go
<1>6. ASSUME NEW c \in Calls, Limiter!RecordMemory(c) PROVE Limiter!CallsHold'
  BY <1>6 DEF Limiter!RecordMemory, Limiter!Go
<1>7. ASSUME NEW c \in Calls, Limiter!Answered(c) PROVE Limiter!CallsHold'
  BY <1>7 DEF Limiter!Answered, Limiter!Go
<1>8. ASSUME NEW c \in Calls, Limiter!RecordRedis(c) PROVE Limiter!CallsHold'
  <2>1. /\ \A d \in Calls : d # c => call'[d] = call[d]
        /\ call[c].pc = "recording" /\ call'[c] = [pc |-> "done", at |-> call[c].at]
        /\ redis /\ UNCHANGED <<redis, now, list, unseen, start>>
    BY <1>8 DEF Limiter!RecordRedis, Limiter!Go
  <2>2. \A d \in Calls, w \in Limiter!Windows :
            d = c \/ d \in sets[w] => d \in sets'[w] \/ call[d].at <= now - Length[w]
    BY <1>0, <1>8 DEF Limiter!RecordRedis
  <2> QED
    BY <2>1, <2>2
<1>12. ASSUME NEW c \in Calls, Limiter!RecordSilent(c) PROVE Limiter!CallsHold'
  BY <1>12 DEF Limiter!RecordSilent, Limiter!Go
<1>9. CASE Limiter!Restart
  BY <1>9 DEF Limiter!Restart, Limiter!InFlight
<1>10. CASE UNCHANGED limitervars
  BY <1>10 DEF limitervars
<1> QED
  BY <1>1, <1>2, <1>3, <1>4, <1>5, <1>6, <1>7, <1>8, <1>9, <1>10, <1>11, <1>12
  DEF Limiter!Next

\* The cardinality that the limiter counts with is that of the theorems.
LEMMA LimiterCounts == \A S : Limiter!Cardinality(S) = Cardinality(S)
BY DEF Limiter!Cardinality, Cardinality

\* What the limiter let through.
Passed == {"allowed", "recording", "done"}

\* PassedBounded, of one call and one window.
Bounded(c, w) ==
    Limiter!Cardinality(Limiter!Ahead(c, IF redis THEN w ELSE "minute"))
        < Limit[w] + Limiter!Cardinality(start[c].beside)

\* Limits are numbers.
LEMMA LimitsTaken == \A w \in Limiter!Windows : Limit[w] \in Nat
BY LimiterAssumption DEF Limit, Limiter!Windows

\* A call that no other joins stays as far from the limit as it was.
LEMMA BoundKept ==
    ASSUME Limiter!TypeOK, NEW c \in Calls, NEW w \in Limiter!Windows, Bounded(c, w),
           redis' = redis, start'[c] = start[c],
           \A v \in Limiter!Windows : Limiter!Ahead(c, v)' \subseteq Limiter!Ahead(c, v)
    PROVE  Bounded(c, w)'
<1> DEFINE v == IF redis THEN w ELSE "minute"
<1>1. v \in Limiter!Windows
  BY DEF Limiter!Windows
<1>2. Limiter!Ahead(c, v)' \in SUBSET Limiter!Ahead(c, v)
  BY <1>1
<1>3. Limiter!Ahead(c, v) \subseteq Calls /\ start[c].beside \subseteq Calls
  BY DEF Limiter!Ahead, Limiter!TypeOK, Limiter!Recent, Limiter!InFlight
<1>4. IsFiniteSet(Limiter!Ahead(c, v)) /\ IsFiniteSet(start[c].beside)
  BY <1>3, LimiterAssumption, FS_Subset
<1>5. /\ Cardinality(Limiter!Ahead(c, v)') <= Cardinality(Limiter!Ahead(c, v))
      /\ IsFiniteSet(Limiter!Ahead(c, v)')
  BY <1>2, <1>4, FS_Subset
<1>6. /\ Cardinality(Limiter!Ahead(c, v)') \in Nat
      /\ Cardinality(Limiter!Ahead(c, v)) \in Nat
      /\ Cardinality(start[c].beside) \in Nat
  BY <1>4, <1>5, FS_CardinalityType
<1>7. Cardinality(Limiter!Ahead(c, v)) < Limit[w] + Cardinality(start[c].beside)
  BY LimiterCounts DEF Bounded
<1> HIDE DEF v
<1>8. Cardinality(Limiter!Ahead(c, v)') < Limit[w] + Cardinality(start[c].beside)
  BY <1>5, <1>6, <1>7, LimitsTaken
<1> QED
  BY <1>8, LimiterCounts DEF Bounded, v

\* A call that is let through found the window not full, but for those that
\* were under way when it began.
LEMMA BoundNew ==
    ASSUME Limiter!TypeOK', NEW c \in Calls, NEW w \in Limiter!Windows,
           NEW C \in SUBSET Calls, Cardinality(C) < Limit[w],
           Limiter!Ahead(c, IF redis THEN w ELSE "minute")' \subseteq C \cup start'[c].beside
    PROVE  Bounded(c, w)'
<1> DEFINE B == start'[c].beside
           A == Limiter!Ahead(c, IF redis THEN w ELSE "minute")'
<1>1. B \subseteq Calls
  BY DEF Limiter!TypeOK
<1>2. IsFiniteSet(C) /\ IsFiniteSet(B)
  BY <1>1, LimiterAssumption, FS_Subset
<1>3. /\ Cardinality(C) \in Nat /\ Cardinality(B) \in Nat
      /\ IsFiniteSet(C \cap B)
  BY <1>2, FS_CardinalityType, FS_Subset
<1>4. /\ IsFiniteSet(C \cup B) /\ Cardinality(C \cap B) \in Nat
      /\ Cardinality(C \cup B) = Cardinality(C) + Cardinality(B) - Cardinality(C \cap B)
  BY <1>2, <1>3, FS_CardinalityType, FS_Union
<1>5. A \in SUBSET (C \cup B)
  OBVIOUS
<1>6. Cardinality(A) \in Nat /\ Cardinality(A) <= Cardinality(C \cup B)
  BY <1>4, <1>5, FS_Subset, FS_CardinalityType
<1> HIDE DEF A, B
<1>7. Cardinality(A) < Limit[w] + Cardinality(B)
  BY <1>3, <1>4, <1>6, LimitsTaken
<1> QED
  BY <1>7, LimiterCounts DEF Bounded, A, B

\* PassedBounded is that of every call and window.
LEMMA PassedIsBounded ==
    Limiter!PassedBounded <=>
        \A c \in Calls \ unseen, w \in Limiter!Windows : call[c].pc \in Passed => Bounded(c, w)
BY DEF Limiter!PassedBounded, Bounded, Passed

\* A step that lets nobody through and adds to no window.
LEMMA NobodyPasses ==
    ASSUME Limiter!TypeOK, Limiter!PassedBounded, UNCHANGED <<redis, start>>,
           \A v \in Limiter!Windows :
               (Limiter!Recent(v) \cup Limiter!InFlight)'
                   \subseteq Limiter!Recent(v) \cup Limiter!InFlight,
           \A c \in Calls \ unseen' : call'[c].pc \in Passed => c \notin unseen /\ call[c].pc \in Passed
    PROVE  Limiter!PassedBounded'
<1>1. ASSUME NEW c \in Calls \ unseen', NEW w \in Limiter!Windows, call'[c].pc \in Passed
      PROVE  Bounded(c, w)'
  <2>1. Bounded(c, w)
    BY <1>1, PassedIsBounded
  <2>2. \A v \in Limiter!Windows : Limiter!Ahead(c, v)' \subseteq Limiter!Ahead(c, v)
    BY DEF Limiter!Ahead
  <2> QED
    BY <1>1, <2>1, <2>2, BoundKept
<1> QED
  BY <1>1 DEF Limiter!PassedBounded, Bounded, Passed

\* The steps that let nobody through.
LEMMA QuietSteps ==
    ASSUME Limiter!TypeOK, Limiter!PassedBounded, NEW c \in Calls,
           \/ Limiter!CheckSilent(c) \/ Limiter!Fail(c) \/ Limiter!RecordMemory(c)
           \/ Limiter!Answered(c) \/ Limiter!RecordRedis(c) \/ Limiter!RecordSilent(c)
           \/ Limiter!CheckRedis(c) /\ call'[c].pc = "refused"
    PROVE  Limiter!PassedBounded'
<1> USE DEF Limiter!TypeOK, Limiter!Call, Limiter!UnderWay
<1>1. UNCHANGED <<redis, start, now>> /\ unseen \subseteq unseen'
  BY DEF Limiter!CheckSilent, Limiter!Fail, Limiter!RecordMemory, Limiter!Answered,
     Limiter!RecordRedis, Limiter!RecordSilent, Limiter!CheckRedis
<1>2. /\ \A d \in Calls : d # c => call'[d] = call[d]
      /\ call[c].pc \in Limiter!UnderWay
      /\ call'[c].pc \in {"refused", "failed"} \cup Passed
      /\ call'[c].pc \in Passed => call[c].pc \in Passed \/ c \in unseen'
  BY DEF Limiter!CheckSilent, Limiter!Fail, Limiter!RecordMemory, Limiter!Answered,
     Limiter!RecordRedis, Limiter!RecordSilent, Limiter!CheckRedis, Limiter!Go, Passed
<1>3. ASSUME NEW v \in Limiter!Windows
      PROVE  (Limiter!Recent(v) \cup Limiter!InFlight)'
                 \subseteq Limiter!Recent(v) \cup Limiter!InFlight
  BY <1>1, <1>2 DEF Limiter!Recent, Limiter!InFlight
<1> QED
  BY <1>1, <1>2, <1>3, NobodyPasses

\* As time goes by, windows lose calls.
LEMMA TickBounded ==
    ASSUME Limiter!TypeOK, Limiter!PassedBounded, Limiter!Tick
    PROVE  Limiter!PassedBounded'
<1>1. ASSUME NEW v \in Limiter!Windows
      PROVE  (Limiter!Recent(v) \cup Limiter!InFlight)'
                 \subseteq Limiter!Recent(v) \cup Limiter!InFlight
  <2>1. Length[v] \in Nat
    BY LimiterAssumption DEF Length, Limiter!Windows
  <2> QED
    BY <2>1 DEF Limiter!Tick, Limiter!Recent, Limiter!InFlight, Limiter!TypeOK, Limiter!Call
<1> QED
  BY <1>1, NobodyPasses DEF Limiter!Tick

\* A restart forgets, or Redis has kept it all.
LEMMA RestartBounded ==
    ASSUME Limiter!TypeOK, Limiter!PassedBounded, Limiter!Restart
    PROVE  Limiter!PassedBounded'
<1> USE DEF Limiter!TypeOK, Limiter!Call, Limiter!UnderWay, Limiter!Restart, Limiter!InFlight
<1>1. CASE redis /\ redis'
  <2>1. ASSUME NEW v \in Limiter!Windows
        PROVE  (Limiter!Recent(v) \cup Limiter!InFlight)'
                   \subseteq Limiter!Recent(v) \cup Limiter!InFlight
    BY <1>1 DEF Limiter!Recent
  <2> QED
    BY <1>1, <2>1, NobodyPasses DEF Passed
<1>2. CASE ~(redis /\ redis')
  <2>1. \A d \in Calls : call'[d].pc \in Passed => d \in unseen'
    BY <1>2 DEF Passed
  <2> QED
    BY <2>1, PassedIsBounded DEF Limiter!PassedBounded, Passed
<1> QED
  BY <1>1, <1>2

\* A call that begins was not among those ahead of another.
LEMMA BeginBounded ==
    ASSUME Limiter!TypeOK, Limiter!CallsHold, NEW c \in Calls, NEW pc, NEW at,
           Limiter!Begin(c, pc, at), pc \in Limiter!UnderWay \cup {"refused"},
           UNCHANGED <<redis, now, unseen>>,
           NEW d \in Calls \ unseen, d # c, NEW w \in Limiter!Windows, Bounded(d, w),
           call[d].pc \in Passed
    PROVE  Bounded(d, w)'
<1>1. c \notin start[d].before
  BY DEF Limiter!CallsHold, Limiter!Begin
<1>2. start'[d] = start[d] /\ \A e \in Calls : e # c => call'[e] = call[e]
  BY DEF Limiter!Begin, Limiter!Go, Limiter!TypeOK
<1>3. ASSUME NEW v \in Limiter!Windows
      PROVE  Limiter!Ahead(d, v)' \subseteq Limiter!Ahead(d, v)
  BY <1>1, <1>2 DEF Limiter!Ahead, Limiter!Recent, Limiter!InFlight, Limiter!TypeOK
<1> QED
  BY <1>2, <1>3, BoundKept

\* A call that asks Redis is not let through yet.
LEMMA AskBounded ==
    ASSUME Limiter!TypeOK, Limiter!CallsHold, Limiter!PassedBounded, NEW c \in Calls,
           Limiter!Ask(c)
    PROVE  Limiter!PassedBounded'
<1>1. /\ \A d \in Calls : d # c => call'[d] = call[d]
      /\ call'[c].pc = "asking"
  BY DEF Limiter!Ask, Limiter!Begin, Limiter!Go, Limiter!TypeOK
<1>2. ASSUME NEW d \in Calls \ unseen', NEW w \in Limiter!Windows, call'[d].pc \in Passed
      PROVE  Bounded(d, w)'
  <2>1. d # c
    BY <1>1, <1>2 DEF Passed
  <2>2. d \notin unseen /\ call[d].pc \in Passed
    BY <1>1, <1>2, <2>1 DEF Limiter!Ask
  <2>3. Bounded(d, w)
    BY <2>2, PassedIsBounded
  <2> QED
    BY <2>1, <2>2, <2>3, BeginBounded DEF Limiter!Ask, Limiter!UnderWay
<1> QED
  BY <1>2 DEF Limiter!PassedBounded, Bounded, Passed

\* In memory a call is let through and begins in one step, and what it counts
\* is all that is recent.
LEMMA CheckMemoryBounded ==
    ASSUME Limiter!TypeOK, Limiter!CallsHold, Limiter!PassedBounded, NEW c \in Calls,
           Limiter!CheckMemory(c)
    PROVE  Limiter!PassedBounded'
<1> DEFINE minute == Limiter!Clean(list, "minute")
           allowed == \A w \in Limiter!Windows : Cardinality(minute) < Limit[w]
           pc == IF allowed THEN "allowed" ELSE "refused"
<1>1. /\ minute \in SUBSET Calls
      /\ Limiter!Clean(minute, "hour") = minute /\ Limiter!Clean(minute, "day") = minute
  BY LimiterAssumption DEF Limiter!Clean, Length, Limiter!TypeOK, Limiter!Call
<1>2. Limiter!Begin(c, pc, 0) /\ ~redis /\ UNCHANGED <<redis, now, unseen>>
  BY <1>1, LimiterCounts DEF Limiter!CheckMemory, Limiter!Windows
<1>3. Limiter!TypeOK'
  BY LimiterType DEF Limiter!Next
<1>4. ASSUME NEW d \in Calls \ unseen', NEW w \in Limiter!Windows, call'[d].pc \in Passed
      PROVE  Bounded(d, w)'
  <2>1. CASE d # c
    <3>1. call'[d] = call[d]
      BY <1>2, <2>1 DEF Limiter!Begin, Limiter!Go, Limiter!TypeOK
    <3>2. Bounded(d, w)
      BY <1>2, <1>4, <3>1, PassedIsBounded
    <3>3. pc \in Limiter!UnderWay \cup {"refused"}
      BY DEF Limiter!UnderWay
    <3> HIDE DEF pc
    <3> QED
      BY <1>2, <1>4, <2>1, <3>1, <3>2, <3>3, BeginBounded
  <2>2. CASE d = c
    <3>1. allowed
      BY <1>2, <1>4, <2>2 DEF Limiter!Begin, Limiter!Go, Limiter!TypeOK, Passed
    <3>2. Limiter!Recent("minute")' \subseteq minute
      <4>1. \A e \in Calls : e # c => call'[e] = call[e]
        BY <1>2 DEF Limiter!Begin, Limiter!Go, Limiter!TypeOK
      <4>2. call'[c].pc # "done"
        BY <1>2 DEF Limiter!Begin, Limiter!Go, Limiter!TypeOK
      <4>3. Length["minute"] \in Nat
        BY LimiterAssumption DEF Length
      <4> SUFFICES ASSUME NEW e \in Limiter!Recent("minute")'
                   PROVE  e \in minute
        OBVIOUS
      <4>4. /\ e \in Calls \ unseen /\ call[e].pc = "done"
            /\ call[e].at > now - Length["minute"]
        BY <1>2, <4>1, <4>2 DEF Limiter!Recent
      <4>5. e \in list
        BY <1>2, <4>3, <4>4 DEF Limiter!CallsHold, Limiter!TypeOK, Limiter!Call
      <4> QED
        BY <4>4, <4>5 DEF Limiter!Clean
    <3>3. Limiter!InFlight' \subseteq start'[c].beside
      BY <1>2 DEF Limiter!InFlight, Limiter!Begin, Limiter!Go, Limiter!TypeOK
    <3>4. Limiter!Ahead(c, IF redis THEN w ELSE "minute")' \subseteq minute \cup start'[c].beside
      BY <1>2, <3>2, <3>3 DEF Limiter!Ahead
    <3>5. Cardinality(minute) < Limit[w]
      BY <3>1
    <3> HIDE DEF minute
    <3> QED
      BY <1>1, <1>3, <2>2, <3>4, <3>5, BoundNew
  <2> QED
    BY <2>1, <2>2
<1> QED
  BY <1>4 DEF Limiter!PassedBounded, Bounded, Passed

\* With Redis it counts what had come to an end when it asked, as far as that
\* is still recent.
LEMMA CheckRedisBounded ==
    ASSUME Limiter!TypeOK, Limiter!CallsHold, Limiter!PassedBounded, NEW c \in Calls,
           Limiter!CheckRedis(c), call'[c].pc = "allowed"
    PROVE  Limiter!PassedBounded'
<1>1. /\ call[c].pc = "asking" /\ redis
      /\ \A w \in Limiter!Windows : Limiter!Count(c, w) < Limit[w]
      /\ UNCHANGED <<redis, now, unseen, start, sets>>
  BY DEF Limiter!CheckRedis, Limiter!Go, Limiter!TypeOK, Limiter!CallsHold
<1>2. \A d \in Calls : d # c => call'[d] = call[d]
  BY DEF Limiter!CheckRedis, Limiter!Go, Limiter!TypeOK
<1>3. Limiter!TypeOK'
  BY LimiterType DEF Limiter!Next
<1>4. Limiter!InFlight' = Limiter!InFlight /\ \A v : Limiter!Recent(v)' = Limiter!Recent(v)
  BY <1>1, <1>2 DEF Limiter!InFlight, Limiter!UnderWay, Limiter!Recent
<1>5. ASSUME NEW d \in Calls \ unseen', NEW w \in Limiter!Windows, call'[d].pc \in Passed
      PROVE  Bounded(d, w)'
  <2>1. CASE d # c
    <3>1. Bounded(d, w)
      BY <1>1, <1>2, <1>5, <2>1, PassedIsBounded
    <3>2. \A v \in Limiter!Windows : Limiter!Ahead(d, v)' \subseteq Limiter!Ahead(d, v)
      BY <1>1, <1>4 DEF Limiter!Ahead
    <3> QED
      BY <1>1, <3>1, <3>2, BoundKept
  <2>2. CASE d = c
    <3> DEFINE C == {e \in sets[w] : call[e].at \in (call[c].at - Length[w])..call[c].at}
    <3>1. C \in SUBSET Calls /\ Cardinality(C) < Limit[w]
      BY <1>1, LimiterCounts DEF Limiter!Count, Limiter!TypeOK
    <3>2. Length[w] \in Nat
      BY LimiterAssumption DEF Length, Limiter!Windows
    <3>3. ASSUME NEW e \in start[c].before \ start[c].beside,
                 e \in Limiter!Recent(w) \cup Limiter!InFlight
          PROVE  e \in C
      <4>1. e \in Calls /\ call[e].pc = "done" /\ call[e].at <= call[c].at
        BY <1>1, <3>3 DEF Limiter!CallsHold, Limiter!Recent, Limiter!InFlight, Limiter!UnderWay,
           Limiter!TypeOK
      <4>2. e \notin unseen /\ call[e].at > now - Length[w]
        BY <3>3, <4>1 DEF Limiter!Recent, Limiter!InFlight, Limiter!UnderWay
      <4>3. e \in sets[w] /\ call[c].at <= now
        BY <1>1, <3>2, <4>1, <4>2 DEF Limiter!CallsHold, Limiter!TypeOK, Limiter!Call
      <4> QED
        BY <3>2, <4>1, <4>2, <4>3 DEF Limiter!TypeOK, Limiter!Call
    <3>4. c \in start[c].beside
      BY <1>1 DEF Limiter!CallsHold
    <3>5. Limiter!Ahead(c, w)' \subseteq C \cup start'[c].beside
      BY <1>1, <1>4, <3>3, <3>4 DEF Limiter!Ahead
    <3> HIDE DEF C
    <3>6. Limiter!Ahead(c, IF redis THEN w ELSE "minute")' \subseteq C \cup start'[c].beside
      BY <1>1, <3>5
    <3> QED
      BY <1>3, <2>2, <3>1, <3>6, BoundNew
  <2> QED
    BY <2>1, <2>2
<1> QED
  BY <1>5 DEF Limiter!PassedBounded, Bounded, Passed

\* One step of the limiter, by action.
LEMMA PassedBoundedStep ==
    ASSUME Limiter!TypeOK, Limiter!CallsHold, Limiter!PassedBounded,
           [Limiter!Next]_limitervars
    PROVE  Limiter!PassedBounded'
<1>1. ASSUME NEW c \in Calls, Limiter!CheckRedis(c) PROVE Limiter!PassedBounded'
  <2>1. call'[c].pc \in {"allowed", "refused"}
    BY <1>1 DEF Limiter!CheckRedis, Limiter!Go, Limiter!TypeOK
  <2> QED
    BY <1>1, <2>1, QuietSteps, CheckRedisBounded
<1>2. CASE UNCHANGED limitervars
  BY <1>2 DEF limitervars, Limiter!PassedBounded, Limiter!Ahead, Limiter!Recent, Limiter!InFlight
<1> QED
  BY <1>1, <1>2, QuietSteps, TickBounded, RestartBounded, AskBounded, CheckMemoryBounded
  DEF Limiter!Next

\* At the start no call has been let through.
LEMMA LimiterStart ==
    ASSUME Limiter!Init
    PROVE  Limiter!CallsHold /\ Limiter!PassedBounded
BY DEF Limiter!Init, Limiter!CallsHold, Limiter!PassedBounded

\* The last call to begin has all the others of its window ahead of it.
LEMMA PassedBoundedWindows ==
    ASSUME Limiter!TypeOK, Limiter!PassedBounded
    PROVE  Limiter!WindowsBounded
<1> SUFFICES ASSUME NEW w \in Limiter!Windows,
                    NEW c \in Limiter!Recent(IF redis THEN w ELSE "minute"),
                    Limiter!Recent(IF redis THEN w ELSE "minute") \ {c} \subseteq start[c].before
             PROVE  Limiter!Cardinality(Limiter!Recent(IF redis THEN w ELSE "minute"))
                        < Limit[w] + Limiter!Cardinality(start[c].beside)
  BY DEF Limiter!WindowsBounded
<1> DEFINE R == Limiter!Recent(IF redis THEN w ELSE "minute")
           A == Limiter!Ahead(c, IF redis THEN w ELSE "minute")
<1>1. c \in Calls \ unseen /\ call[c].pc = "done"
  BY DEF Limiter!Recent
<1>2. Bounded(c, w)
  BY <1>1, PassedIsBounded DEF Passed
<1>3. R \in SUBSET A
  BY DEF Limiter!Ahead
<1>4. A \subseteq Calls /\ start[c].beside \subseteq Calls
  BY <1>1 DEF Limiter!Ahead, Limiter!TypeOK, Limiter!Recent, Limiter!InFlight
<1>5. IsFiniteSet(A) /\ IsFiniteSet(start[c].beside)
  BY <1>4, LimiterAssumption, FS_Subset
<1>6. /\ Cardinality(R) \in Nat /\ Cardinality(A) \in Nat /\ Cardinality(R) <= Cardinality(A)
      /\ Cardinality(start[c].beside) \in Nat
  BY <1>3, <1>5, FS_Subset, FS_CardinalityType
<1>7. Cardinality(A) < Limit[w] + Cardinality(start[c].beside)
  BY <1>2, LimiterCounts DEF Bounded
<1> HIDE DEF R, A
<1>8. Cardinality(R) < Limit[w] + Cardinality(start[c].beside)
  BY <1>6, <1>7, LimitsTaken
<1> QED
  BY <1>8, LimiterCounts DEF R

-----------------------------------------------------------------------------
\* The policy engine: its variables keep their types.
LEMMA EngineType ==
    ASSUME Engine!TypeOK, [Engine!Next]_enginevars
    PROVE  Engine!TypeOK'
<1> USE DEF Engine!TypeOK
<1>1. CASE \E p \in Policies, new \in Engine!Policy : Engine!AddPolicy(p, new)
  BY <1>1 DEF Engine!AddPolicy, Engine!Present
<1>2. CASE \E p \in Policies : Engine!RemovePolicy(p)
  BY <1>2 DEF Engine!RemovePolicy
<1>3. CASE Engine!ClearPolicies
  BY <1>3 DEF Engine!ClearPolicies
<1>4. CASE UNCHANGED enginevars
  BY <1>4 DEF enginevars
<1> QED
  BY <1>1, <1>2, <1>3, <1>4 DEF Engine!Next

\* A policy is not an absent one.
LEMMA NotAbsent == Engine!Absent \notin Engine!Policy
BY DEF Engine!Absent, Engine!Policy, Engine!Effects

\* The order of the policies stays one: a new one is last.
LEMMA EngineOrder ==
    ASSUME Engine!TypeOK, Engine!InOrder, [Engine!Next]_enginevars
    PROVE  Engine!InOrder'
<1> USE DEF Engine!InOrder
<1>1. ASSUME NEW p \in Policies, NEW new \in Engine!Policy, Engine!AddPolicy(p, new)
      PROVE  Engine!InOrder'
  <2>1. Engine!Present' = Engine!Present \cup {p}
    BY <1>1, NotAbsent DEF Engine!AddPolicy, Engine!Present, Engine!TypeOK
  <2>2. CASE p \in Engine!Present
    BY <1>1, <2>1, <2>2 DEF Engine!AddPolicy
  <2>3. CASE p \notin Engine!Present
    <3>1. older' = older \cup (Engine!Present \X {p})
      BY <1>1, <2>3 DEF Engine!AddPolicy
    <3> QED
      BY <2>1, <2>3, <3>1
  <2> QED
    BY <2>2, <2>3
<1>2. ASSUME NEW p \in Policies, Engine!RemovePolicy(p)
      PROVE  Engine!InOrder'
  <2>1. Engine!Present' = Engine!Present \ {p}
    BY <1>2 DEF Engine!RemovePolicy, Engine!Present, Engine!TypeOK
  <2>2. older' = older \cap ((Policies \ {p}) \X (Policies \ {p}))
    BY <1>2 DEF Engine!RemovePolicy
  <2>3. Engine!Present \subseteq Policies
    BY DEF Engine!Present
  <2>4. ASSUME NEW q \in Policies \ {p}, NEW r \in Policies \ {p}
        PROVE  <<q, r>> \in older' <=> <<q, r>> \in older
    BY <2>2
  <2>5. older' \subseteq Engine!Present' \X Engine!Present'
    BY <2>1, <2>2
  <2> QED
    BY <2>1, <2>3, <2>4, <2>5
<1>3. CASE Engine!ClearPolicies
  BY <1>3 DEF Engine!ClearPolicies, Engine!Present
<1>4. CASE UNCHANGED enginevars
  BY <1>4 DEF enginevars, Engine!Present
<1> QED
  BY <1>1, <1>2, <1>3, <1>4 DEF Engine!Next

\* The policies whose conditions match or raise.
Looked == {p \in Engine!Present : policy[p].on \in {"match", "raise"}}

\* The first of them in the order in which they are looked at.
Leads(f) == f \in Looked /\ \A g \in Looked \ {f} : Engine!Before(f, g)

EngineInv == Engine!TypeOK /\ Engine!InOrder

\* Priorities, with the age where they are the same, order the policies.
LEMMA BeforeOrders ==
    ASSUME EngineInv
    PROVE  /\ \A p \in Engine!Present : ~Engine!Before(p, p)
           /\ \A p, q \in Engine!Present : p # q => Engine!Before(p, q) \/ Engine!Before(q, p)
           /\ \A p, q, r \in Engine!Present :
                  Engine!Before(p, q) /\ Engine!Before(q, r) => Engine!Before(p, r)
<1>1. \A p \in Engine!Present : policy[p].priority \in Int
  BY EngineAssumption DEF EngineInv, Engine!TypeOK, Engine!Present, Engine!Policy
<1> QED
  BY <1>1 DEF EngineInv, Engine!InOrder, Engine!Before

\* There are finitely many, so one of them leads.
LEMMA SomebodyLeads == EngineInv /\ Looked # {} => \E f \in Looked : Leads(f)
<1> SUFFICES ASSUME EngineInv, Looked # {} PROVE \E f \in Looked : Leads(f)
  OBVIOUS
<1> DEFINE UpTo(f) == {g \in Looked : g = f \/ Engine!Before(g, f)}
           T == {UpTo(f) : f \in Looked}
<1>1. Looked \subseteq Engine!Present /\ Engine!Present \subseteq Policies
  BY DEF Looked, Engine!Present
<1>2. T \subseteq FiniteSubsetsOf(Policies) /\ T # {}
  <2>1. \A f \in Looked : IsFiniteSet(UpTo(f)) /\ UpTo(f) \subseteq Policies
    BY <1>1, EngineAssumption, FS_Subset
  <2> QED
    BY <2>1 DEF FiniteSubsetsOf
<1>3. PICK Q \in T : \A R \in T : ~(<<R, Q>> \in StrictSubsetOrdering(Policies))
  <2> HIDE DEF T
  <2> QED
    BY <1>2, FS_StrictSubsetOrderingWellFounded, WFMin
<1>4. PICK f \in Looked : Q = UpTo(f)
  BY <1>3
<1>5. ASSUME NEW g \in Looked \ {f}, ~Engine!Before(f, g) PROVE FALSE
  <2>1. Engine!Before(g, f) /\ ~Engine!Before(f, g)
    BY <1>1, <1>5, BeforeOrders
  <2>2. UpTo(g) \subseteq UpTo(f)
    BY <1>1, <2>1, BeforeOrders
  <2>3. f \in UpTo(f) /\ f \notin UpTo(g)
    BY <1>5, <2>1
  <2>4. UpTo(g) \in T /\ UpTo(g) \in SUBSET Policies /\ UpTo(f) \in SUBSET Policies
    BY <1>1
  <2> HIDE DEF UpTo, T
  <2>5. <<UpTo(g), UpTo(f)>> \in StrictSubsetOrdering(Policies)
    BY <2>2, <2>3, <2>4 DEF StrictSubsetOrdering
  <2> QED
    BY <1>3, <1>4, <2>4, <2>5
<1> QED
  BY <1>5 DEF Leads

\* Where the first match decides, the one that leads does.
LEMMA LeaderDecides ==
    EngineInv /\ strategy = "first_match" =>
        \A f \in Policies : Leads(f) =>
            Engine!Decision = Engine!Answer(f) /\ ~Engine!TakesNoPart(f)
<1> SUFFICES ASSUME EngineInv, strategy = "first_match", NEW f \in Policies, Leads(f)
             PROVE  Engine!Decision = Engine!Answer(f) /\ ~Engine!TakesNoPart(f)
  OBVIOUS
<1>1. /\ f \in Engine!Present /\ policy[f].on \in {"match", "raise"}
      /\ policy[f].effect \in {"allow", "deny"}
  BY DEF Leads, Looked, EngineInv, Engine!TypeOK, Engine!Present, Engine!Policy, Engine!Effects
<1>2. Engine!Matching \subseteq Looked /\ Looked \subseteq Engine!Present
  BY DEF Engine!Matching, Looked
<1>3. Engine!Reached(f) /\ \A q \in Engine!Matching : ~Engine!Before(q, f)
  BY <1>1, <1>2, BeforeOrders DEF Leads, Engine!Reached
<1>4. ~Engine!TakesNoPart(f)
  <2>1. \A q \in Engine!Matching : ~(policy[q].priority > policy[f].priority)
    BY <1>3 DEF Engine!Before
  <2> QED
    BY <1>1, <2>1 DEF Engine!TakesNoPart, Engine!Present
<1>5. CASE policy[f].on = "raise"
  BY <1>1, <1>3, <1>4, <1>5 DEF Engine!Decision, Engine!Answer
<1>6. CASE policy[f].on = "match"
  <2>1. f \in Engine!Matching
    BY <1>1, <1>6 DEF Engine!Matching
  <2>2. \A g \in Looked \ {f} : ~Engine!Reached(g)
    BY <2>1 DEF Leads, Engine!Reached
  <2>3. {q \in Engine!Matching : Engine!Reached(q)} = {f}
    BY <1>2, <1>3, <2>1, <2>2
  <2>4. Engine!Resolved = policy[f].effect
    BY <1>1, <2>3 DEF Engine!Resolved
  <2>5. ~\E p \in Engine!Present : policy[p].on = "raise" /\ Engine!Reached(p)
    BY <1>6, <2>2 DEF Looked
  <2> QED
    BY <1>1, <1>4, <1>6, <2>4, <2>5 DEF Engine!Decision, Engine!Answer
<1> QED
  BY <1>1, <1>5, <1>6

\* Where nobody leads, the default does.
LEMMA NobodyDecides ==
    Looked = {} /\ Engine!Present # {} => Engine!Decision = DefaultEffect
<1> SUFFICES ASSUME Looked = {}, Engine!Present # {} PROVE Engine!Decision = DefaultEffect
  OBVIOUS
<1>1. \A p \in Engine!Present : policy[p].on \notin {"match", "raise"}
  BY DEF Looked
<1>2. Engine!Matching = {}
  BY <1>1 DEF Engine!Matching
<1> QED
  BY <1>1, <1>2 DEF Engine!Decision, Engine!Resolved

\* A step that changes a policy and leaves others there changes it alone.
LEMMA OneChanged ==
    ASSUME Engine!TypeOK, Engine!Next, NEW p \in Policies, policy'[p] # policy[p],
           Engine!Present' \ {p} # {}
    PROVE  /\ strategy' = strategy
           /\ \A q \in Policies \ {p} : policy'[q] = policy[q]
           /\ \A q, r \in Policies \ {p} : <<q, r>> \in older' <=> <<q, r>> \in older
<1> USE DEF Engine!TypeOK
<1>1. CASE \E q \in Policies, new \in Engine!Policy : Engine!AddPolicy(q, new)
  <2>1. PICK q \in Policies, new \in Engine!Policy : Engine!AddPolicy(q, new)
    BY <1>1
  <2>2. q = p
    BY <2>1 DEF Engine!AddPolicy
  <2> QED
    BY <2>1, <2>2 DEF Engine!AddPolicy
<1>2. CASE \E q \in Policies : Engine!RemovePolicy(q)
  <2>1. PICK q \in Policies : Engine!RemovePolicy(q)
    BY <1>2
  <2>2. q = p
    BY <2>1 DEF Engine!RemovePolicy
  <2> QED
    BY <2>1, <2>2 DEF Engine!RemovePolicy
<1>3. CASE Engine!ClearPolicies
  BY <1>3 DEF Engine!ClearPolicies, Engine!Present
<1> QED
  BY <1>1, <1>2, <1>3 DEF Engine!Next

\* Others than p: one that raises, and one that matches with an effect.
OthersRaise(p) == \E q \in Policies \ {p} : policy[q] # Engine!Absent /\ policy[q].on = "raise"

OthersSay(p, e) ==
    \E q \in Policies \ {p} :
        policy[q] # Engine!Absent /\ policy[q].on = "match" /\ policy[q].effect = e

\* What p adds to them.
Raises(p) == policy[p] # Engine!Absent /\ policy[p].on = "raise"

Says(p, e) == policy[p] # Engine!Absent /\ policy[p].on = "match" /\ policy[p].effect = e

\* Where all are looked at, the decision hangs on whether one raises, one allows
\* and one denies.
AllDecision(p) ==
    LET allows == OthersSay(p, "allow") \/ Says(p, "allow")
        denies == OthersSay(p, "deny") \/ Says(p, "deny")
    IN
    IF OthersRaise(p) \/ Raises(p) THEN Engine!Failing
    ELSE IF ~allows /\ ~denies THEN DefaultEffect
    ELSE IF strategy = "allow_overrides" THEN (IF allows THEN "allow" ELSE "deny")
    ELSE (IF denies THEN "deny" ELSE "allow")

LEMMA AllDecide ==
    Engine!TypeOK /\ ~(strategy = "first_match") /\ Engine!Present # {} =>
        \A q \in Policies : Engine!Decision = AllDecision(q)
<1> SUFFICES ASSUME Engine!TypeOK, strategy # "first_match", NEW p \in Policies,
                    Engine!Present # {}
             PROVE  Engine!Decision = AllDecision(p)
  OBVIOUS
<1> DEFINE effects == {policy[q].effect : q \in {r \in Engine!Matching : Engine!Reached(r)}}
<1>1. \A q : Engine!Reached(q)
  BY DEF Engine!Reached
<1>2. OthersRaise(p) \/ Raises(p) <=>
          \E q \in Engine!Present : policy[q].on = "raise" /\ Engine!Reached(q)
  BY <1>1 DEF OthersRaise, Raises, Engine!Present
<1>3. \A e : OthersSay(p, e) \/ Says(p, e) <=> e \in effects
  BY <1>1 DEF OthersSay, Says, Engine!Present, Engine!Matching
<1>4. effects \subseteq {"allow", "deny"}
  BY DEF Engine!TypeOK, Engine!Policy, Engine!Effects, Engine!Matching, Engine!Present
<1>5. Engine!Resolved =
          IF effects = {} THEN DefaultEffect
          ELSE IF strategy = "allow_overrides"
               THEN IF "allow" \in effects THEN "allow" ELSE "deny"
               ELSE IF "deny" \in effects THEN "deny" ELSE "allow"
  BY DEF Engine!Resolved
<1> HIDE DEF effects
<1>6. effects = {} <=> "allow" \notin effects /\ "deny" \notin effects
  BY <1>4
<1> QED
  BY <1>2, <1>3, <1>5, <1>6 DEF Engine!Decision, AllDecision

\* A step moves a policy, and the decision its way, where all are looked at.
LEMMA AllMove ==
    ASSUME EngineInv, EngineInv', Engine!Next, NEW p \in Policies, policy'[p] # policy[p],
           Engine!Present \ {p} # {}, Engine!Present' \ {p} # {}, strategy # "first_match"
    PROVE  \/ Engine!Decision' = Engine!Decision
           \/ ~Engine!TakesNoPart(p)' /\ Engine!Decision' = Engine!Answer(p)'
           \/ ~Engine!TakesNoPart(p) /\ Engine!Decision = Engine!Answer(p)
<1>1. /\ strategy' = strategy
      /\ \A q \in Policies \ {p} : policy'[q] = policy[q]
  BY OneChanged DEF EngineInv
<1>2. Engine!Decision = AllDecision(p)
  BY AllDecide DEF EngineInv
<1>3. Engine!Decision' = AllDecision(p)'
  <2>1. (Engine!TypeOK /\ ~(strategy = "first_match") /\ Engine!Present # {} =>
           \A q \in Policies : Engine!Decision = AllDecision(q))'
    BY AllDecide, PTL
  <2> QED
    BY <1>1, <2>1 DEF EngineInv
<1>4. /\ OthersRaise(p)' <=> OthersRaise(p)
      /\ OthersSay(p, "allow")' <=> OthersSay(p, "allow")
      /\ OthersSay(p, "deny")' <=> OthersSay(p, "deny")
  BY <1>1 DEF OthersRaise, OthersSay
<1>5. /\ Raises(p) \/ Says(p, "allow") \/ Says(p, "deny") => ~Engine!TakesNoPart(p)
      /\ Raises(p) => Engine!Answer(p) = Engine!Failing
      /\ Says(p, "allow") => Engine!Answer(p) = "allow"
      /\ Says(p, "deny") => Engine!Answer(p) = "deny"
  BY DEF Raises, Says, Engine!TakesNoPart, Engine!Answer
<1>6. /\ Raises(p)' \/ Says(p, "allow")' \/ Says(p, "deny")' => ~Engine!TakesNoPart(p)'
      /\ Raises(p)' => Engine!Answer(p)' = Engine!Failing'
      /\ Says(p, "allow")' => Engine!Answer(p)' = "allow"
      /\ Says(p, "deny")' => Engine!Answer(p)' = "deny"
  BY <1>1 DEF Raises, Says, Engine!TakesNoPart, Engine!Answer
<1>7. Engine!Failing' = Engine!Failing
  BY DEF Engine!Failing
<1> QED
  BY <1>1, <1>2, <1>3, <1>4, <1>5, <1>6, <1>7 DEF AllDecision

\* It does where the first match decides: whoever led and leads, if it is
\* another than p, is the same before and after.
LEMMA FirstMoves ==
    ASSUME EngineInv, EngineInv', Engine!Next, NEW p \in Policies, policy'[p] # policy[p],
           Engine!Present \ {p} # {}, Engine!Present' \ {p} # {}, strategy = "first_match"
    PROVE  \/ Engine!Decision' = Engine!Decision
           \/ ~Engine!TakesNoPart(p)' /\ Engine!Decision' = Engine!Answer(p)'
           \/ ~Engine!TakesNoPart(p) /\ Engine!Decision = Engine!Answer(p)
<1>1. /\ strategy' = strategy
      /\ \A q \in Policies \ {p} : policy'[q] = policy[q]
      /\ \A q, r \in Policies \ {p} : <<q, r>> \in older' <=> <<q, r>> \in older
  BY OneChanged DEF EngineInv
<1>2. /\ EngineInv' /\ Looked' # {} => \E f \in Looked' : Leads(f)'
      /\ \A f \in Policies : Leads(f)' =>
             Engine!Decision' = Engine!Answer(f)' /\ ~Engine!TakesNoPart(f)'
      /\ Looked' = {} => Engine!Decision' = DefaultEffect
  <2>1. (EngineInv /\ Looked # {} => \E f \in Looked : Leads(f))'
    BY SomebodyLeads, PTL
  <2>2. (EngineInv /\ strategy = "first_match" =>
            \A f \in Policies : Leads(f) =>
                Engine!Decision = Engine!Answer(f) /\ ~Engine!TakesNoPart(f))'
    BY LeaderDecides, PTL
  <2>3. (Looked = {} /\ Engine!Present # {} => Engine!Decision = DefaultEffect)'
    BY NobodyDecides, PTL
  <2> QED
    BY <1>1, <2>1, <2>2, <2>3
<1>3. Looked \subseteq Policies /\ Looked' \subseteq Policies
  BY DEF Looked, Engine!Present
<1>4. Looked' \ {p} = Looked \ {p}
  BY <1>1 DEF Looked, Engine!Present
<1>5. ASSUME NEW q \in Policies \ {p}, NEW r \in Policies \ {p}
      PROVE  Engine!Before(q, r)' <=> Engine!Before(q, r)
  <2>1. policy'[q] = policy[q] /\ policy'[r] = policy[r]
    BY <1>1
  <2>2. <<q, r>> \in older' <=> <<q, r>> \in older
    BY <1>1
  <2> QED
    BY <2>1, <2>2, Zenon DEF Engine!Before
<1>6. \A q \in Policies \ {p} : Engine!Answer(q)' = Engine!Answer(q)
  BY <1>1 DEF Engine!Answer, Engine!Failing
<1>7. CASE Leads(p) \/ Leads(p)'
  BY <1>1, <1>2, <1>7, LeaderDecides
<1>8. CASE ~Leads(p) /\ ~Leads(p)' /\ Looked \subseteq {p}
  <2>1. Looked = {} /\ Looked' = {}
    BY <1>2, <1>3, <1>4, <1>8, SomebodyLeads
  <2> QED
    BY <1>2, <2>1, NobodyDecides
<1>9. CASE ~Leads(p) /\ ~Leads(p)' /\ ~(Looked \subseteq {p})
  <2>1. PICK f \in Looked : Leads(f)
    BY <1>9, SomebodyLeads
  <2>2. PICK g \in Looked' : Leads(g)'
    BY <1>2, <1>4, <1>9
  <2>3. f # p /\ g # p /\ f \in Looked' /\ g \in Looked
    BY <1>4, <1>9, <2>1, <2>2
  <2>4. f = g
    <3> SUFFICES ASSUME f # g PROVE FALSE
      OBVIOUS
    <3>1. Engine!Before(f, g)
      BY <2>1, <2>3 DEF Leads
    <3>2. Engine!Before(g, f)
      BY <1>3, <1>5, <2>2, <2>3 DEF Leads
    <3> QED
      BY <2>3, <3>1, <3>2, BeforeOrders DEF Looked
  <2> QED
    BY <1>2, <1>3, <1>6, <2>1, <2>2, <2>3, <2>4, LeaderDecides
<1> QED
  BY <1>7, <1>8, <1>9

-----------------------------------------------------------------------------
\* The invariants of the three services and of the engine.
AccountsInv ==
    /\ BillsInv
    /\ Invites!TypeOK /\ InvitesInv
    /\ Limiter!TypeOK /\ Limiter!CallsHold /\ Limiter!PassedBounded
    /\ EngineInv

\* They hold at the start.
LEMMA AccountsStart == AccountsInit => AccountsInv
<1> SUFFICES ASSUME AccountsInit PROVE AccountsInv
  OBVIOUS
<1> USE DEF AccountsInit
<1>1. BillsInv
  BY BillsStart
<1>2. Invites!TypeOK
  BY DEF Invites!Init, Invites!TypeOK, Invites!Row, Invites!Accept
<1>3. InvitesInv
  BY DEF Invites!Init, InvitesInv, AcceptStep, Takes, AcceptanceOnRecord,
     Invites!AcceptanceOnRecord
<1>4. Limiter!TypeOK
  BY DEF Limiter!Init, Limiter!TypeOK, Limiter!Call
<1>5. Limiter!CallsHold /\ Limiter!PassedBounded
  BY LimiterStart
<1>6. EngineInv
  BY DEF Engine!Init, EngineInv, Engine!TypeOK, Engine!InOrder, Engine!Present
<1> QED
  BY <1>1, <1>2, <1>3, <1>4, <1>5, <1>6 DEF AccountsInv

\* A step of one service leaves the others alone, and each keeps its own.
LEMMA AccountsStep ==
    ASSUME AccountsInv,
           [AccountsNext]_allvars
    PROVE  AccountsInv'
<1>1. /\ [Bills!Next]_billingvars
      /\ [Invites!Next]_invitationvars
      /\ [Limiter!Next]_limitervars
      /\ [Engine!Next]_enginevars
  BY DEF AccountsNext, CountUsage, BillUsage, allvars
<1>2. EngineInv'
  BY <1>1, EngineType, EngineOrder DEF AccountsInv, EngineInv
<1> QED
  BY <1>1, <1>2, BillsStep, InvitesType, InvitesStep, LimiterType, CallsHoldStep,
     PassedBoundedStep
  DEF AccountsInv

\* Every behaviour of the services and the engine keeps the invariants.
THEOREM AccountsInvariant == AccountsSpec => []AccountsInv
BY AccountsStart, AccountsStep, PTL DEF AccountsSpec

\* The variables of billing, of the invitations, of the limiter and of the policy
\* engine keep their types.
THEOREM AccountsTypes == AccountsSpec => []AccountsTypeOK
<1>1. AccountsInv => AccountsTypeOK
  BY DEF AccountsInv, BillsInv, EngineInv, AccountsTypeOK
<1> QED
  BY <1>1, AccountsInvariant, PTL

\* The counter of a quota never exceeds what was recorded on it, and agrees with what
\* was counted on it unless two calls of record_usage were at it at once, for any
\* number of calls.
THEOREM QuotasAgree == AccountsSpec => []QuotaAgrees
<1>1. AccountsInv => QuotaAgrees
  BY DEF AccountsInv, BillsInv, QuotaInv
<1> QED
  BY <1>1, AccountsInvariant, PTL

\* A closed period bills usage of its month only, and all of it but for the last
\* second of the month, what was recorded after the sum was taken and what exceeds
\* the list of get_usage_summary (billing_service.py:128-137, 265-269); none of it
\* is billed twice, unless a period was opened beside another or closed in haste.
\* That for any number of calls, months and periods and any limit of the list.
THEOREM PeriodsBill == AccountsSpec => []PeriodBills
<1>1. AccountsInv => PeriodBills
  BY PeriodInvBills DEF AccountsInv, BillsInv
<1> QED
  BY <1>1, AccountsInvariant, PTL

\* An invitation makes one user, unless two accepts were at it at once.
THEOREM InvitationsUsedOnce == AccountsSpec => []UsedOnce
<1>1. AccountsInv => UsedOnce
  BY DEF AccountsInv, InvitesInv, Takes, UsedOnce, Invites!UsedOnce
<1> QED
  BY <1>1, AccountsInvariant, PTL

\* The row of an invitation tells that it was accepted, and only of one that was.
THEOREM AcceptancesOnRecord == AccountsSpec => []AcceptanceOnRecord
<1>1. AccountsInv => AcceptanceOnRecord
  BY DEF AccountsInv, InvitesInv
<1> QED
  BY <1>1, AccountsInvariant, PTL

\* No window holds more calls than it takes, but for those that were under way
\* when the last of them began, for windows and limits of any length, any number
\* of calls, and restarts with and without Redis.
THEOREM WindowsStayBounded == AccountsSpec => []WindowsBounded
<1>1. AccountsInv => WindowsBounded
  BY PassedBoundedWindows DEF AccountsInv, WindowsBounded
<1> QED
  BY <1>1, AccountsInvariant, PTL

\* A policy that is added, replaced or removed moves the decision in its own way
\* only, for every strategy and any finite number of policies and priorities.
THEOREM PoliciesMoveTheirWay == AccountsSpec => PolicyMovesItsWay
<1>1. ASSUME EngineInv, EngineInv', Engine!Next
      PROVE  \A p \in Policies :
                 policy'[p] # policy[p] /\ Engine!Present \ {p} # {}
                     /\ Engine!Present' \ {p} # {} =>
                     \/ Engine!Decision' = Engine!Decision
                     \/ ~Engine!TakesNoPart(p)' /\ Engine!Decision' = Engine!Answer(p)'
                     \/ ~Engine!TakesNoPart(p) /\ Engine!Decision = Engine!Answer(p)
  BY <1>1, AllMove, FirstMoves
<1>2. AccountsInv /\ AccountsInv' /\ [AccountsNext]_allvars =>
      [\A p \in Policies :
           policy'[p] # policy[p] /\ Engine!Present \ {p} # {}
               /\ Engine!Present' \ {p} # {} =>
               \/ Engine!Decision' = Engine!Decision
               \/ ~Engine!TakesNoPart(p)' /\ Engine!Decision' = Engine!Answer(p)'
               \/ ~Engine!TakesNoPart(p) /\ Engine!Decision = Engine!Answer(p)
      ]_<<strategy, policy, older>>
  BY <1>1 DEF AccountsInv, AccountsNext, enginevars, allvars
<1> QED
  BY <1>2, AccountsInvariant, PTL DEF AccountsSpec, PolicyMovesItsWay, Engine!PolicyMovesItsWay,
     Engine!vars
=============================================================================

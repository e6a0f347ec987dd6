------------------------ MODULE AgentInvocationProofs ------------------------
(***************************************************************************)
(* The budget of a service that keeps it, and the trail of every call, for *)
(* any number of requests in flight and any limit.                         *)
(***************************************************************************)
EXTENDS AgentInvocation, FiniteSetTheorems, TLAPS

IInv ==
    /\ TypeOK
    /\ TrailStep /\ TrailSound
    /\ ObjectsKnown /\ CountsWhatItSpends /\ BoundedOverrun

LEMMA InitIInv == Init => IInv
<1> SUFFICES ASSUME Init PROVE IInv
  OBVIOUS
<1>1. TypeOK
  BY InvocationAssumption DEF Init, TypeOK, NoCall, Call, PCs, Over, Admitted
<1>2. TrailStep /\ TrailSound
  BY DEF Init, TrailStep, TrailSound, NoCall, Admitted
<1>3. ObjectsKnown
  BY DEF Init, ObjectsKnown, NoCall, Admitted
<1>4. CountsWhatItSpends
  BY FS_EmptySet DEF Init, CountsWhatItSpends
<1>5. BoundedOverrun
  <2>1. InFlight = {}
    BY DEF Init, InFlight, NoCall, Admitted
  <2>2. Cardinality(Tasks) \in Nat /\ Cardinality(Tasks) # 0
    BY InvocationAssumption, FS_CardinalityType, FS_EmptySet
  <2> QED
    BY <2>1, <2>2, FS_EmptySet, InvocationAssumption DEF Init, BoundedOverrun
<1> QED
  BY <1>1, <1>2, <1>3, <1>4, <1>5 DEF IInv

-----------------------------------------------------------------------------
\* The calls in flight are among the tasks, and may be counted.
LEMMA InFlightFinite ==
  /\ IsFiniteSet(InFlight)
  /\ Cardinality(InFlight) \in Nat
  /\ Cardinality(Tasks) \in Nat
  /\ Cardinality(InFlight) <= Cardinality(Tasks)
BY InvocationAssumption, FS_Subset, FS_CardinalityType DEF InFlight

LEMMA InFlightFiniteNext ==
  /\ IsFiniteSet(InFlight')
  /\ Cardinality(InFlight') \in Nat
  /\ Cardinality(InFlight') <= Cardinality(Tasks)
BY InvocationAssumption, FS_Subset, FS_CardinalityType DEF InFlight

\* What the objects are counted by is finite.
LEMMA MadeFinite ==
  ASSUME TypeOK
  PROVE  IsFiniteSet(made) /\ Cardinality(made) \in Nat
BY InvocationAssumption, FS_Subset, FS_CardinalityType DEF TypeOK

\* A step of task t that admits nothing, charges nothing and makes no object.
LEMMA BudgetUntouched ==
  ASSUME IInv, NEW t \in Tasks,
         call' = [call EXCEPT ![t] = call'[t]], TypeOK',
         UNCHANGED <<spent, made, answered>>,
         cache' = cache \/ (call[t].pc = "storing"
                            /\ cache' = [cache EXCEPT ![Service(t)] = call[t].held]),
         call'[t].pc \in Admitted => call[t].pc \in Admitted,
         call'[t].pc # "storing",
         call'[t].pc = "reading" => t \notin made \/ PerRequest
  PROVE  ObjectsKnown' /\ CountsWhatItSpends' /\ BoundedOverrun'
<1>1. \A u \in Tasks \ {t} : call'[u] = call[u]
  BY DEF IInv, TypeOK
<1>2. ~PerRequest /\ call[t].pc = "storing" => call[t].held \in made
  BY DEF IInv, ObjectsKnown
<1>3. ~PerRequest => cache'[Shared] = cache[Shared] \/ cache'[Shared] \in made
  BY <1>2 DEF IInv, TypeOK, Service
<1>4. None \notin made
  BY InvocationAssumption DEF IInv, TypeOK
<1>5. ObjectsKnown'
  BY <1>1, <1>3, <1>4 DEF IInv, ObjectsKnown
<1>6. CountsWhatItSpends'
  <2> SUFFICES ASSUME ~PerRequest, Cardinality(made) = 1
               PROVE  cache'[Shared] \in made /\ spent[cache'[Shared]] = answered
    BY DEF CountsWhatItSpends
  <2>1. PICK b : made = {b}
    BY MadeFinite, FS_Singleton DEF IInv
  <2> QED
    BY <1>3, <2>1 DEF IInv, CountsWhatItSpends
<1>7. BoundedOverrun'
  <2>1. InFlight' \in SUBSET InFlight
    BY <1>1 DEF InFlight
  <2>2. Cardinality(InFlight') <= Cardinality(InFlight)
    BY <2>1, InFlightFinite, FS_Subset
  <2> DEFINE before == Cardinality(InFlight)  after == Cardinality(InFlight')
  <2>3. before \in Nat /\ after \in Nat /\ Cardinality(Tasks) \in Nat
    BY InFlightFinite, InFlightFiniteNext
  <2>4. ~PerRequest /\ Limit > 0 /\ Cardinality(made) <= 1 =>
            answered + before <= Limit - 1 + Cardinality(Tasks)
    BY DEF IInv, BoundedOverrun
  <2>5. answered \in Nat /\ after <= before
    BY <2>2 DEF IInv, TypeOK
  <2> HIDE DEF before, after
  <2>6. ~PerRequest /\ Limit > 0 /\ Cardinality(made) <= 1 =>
            answered + after <= Limit - 1 + Cardinality(Tasks)
    BY <2>3, <2>4, <2>5, InvocationAssumption
  <2> QED
    BY <2>6 DEF BoundedOverrun, after
<1> QED
  BY <1>5, <1>6, <1>7

LEMMA Slack ==
  ASSUME NEW a \in Nat, NEW l \in Nat, NEW f \in Nat, NEW n \in Nat, f <= n, a + 1 <= l
  PROVE  a + f <= l - 1 + n
OBVIOUS

\* A call admitted on a budget that has something left is within the bound.
LEMMA AdmissionWithinBound ==
  ASSUME TypeOK, answered' \in Nat, Limit > 0 => answered' + 1 <= Limit
  PROVE  BoundedOverrun'
<1> DEFINE flying == Cardinality(InFlight')  all == Cardinality(Tasks)
<1>1. flying \in Nat /\ all \in Nat /\ flying <= all
  BY InFlightFinite, InFlightFiniteNext
<1>2. Limit \in Nat
  BY InvocationAssumption
<1> HIDE DEF flying, all
<1>3. Limit > 0 => answered' + flying <= Limit - 1 + all
  BY <1>1, <1>2, Slack
<1> QED
  BY <1>3 DEF BoundedOverrun, flying, all

-----------------------------------------------------------------------------
\* Types are kept.
LEMMA TypeStep == TypeOK /\ TrailStep /\ [Next]_vars => TypeOK'
<1> SUFFICES ASSUME TypeOK, [Next]_vars PROVE TypeOK'
  OBVIOUS
<1> USE DEF TypeOK, Call, PCs, Over, Admitted
<1>1. ASSUME NEW t \in Tasks, Begin(t) PROVE TypeOK'
  BY <1>1 DEF Begin, NoCall, Verdict
<1>2. ASSUME NEW t \in Tasks, BudgetRead(t) PROVE TypeOK'
  BY <1>2 DEF BudgetRead, Go, Verdict, Service
<1>3. ASSUME NEW t \in Tasks, BudgetReadFails(t) PROVE TypeOK'
  BY <1>3 DEF BudgetReadFails, Go
<1>4. ASSUME NEW t \in Tasks, OpenLineage(t) PROVE TypeOK'
  BY <1>4 DEF OpenLineage, Go
<1>5. ASSUME NEW t \in Tasks, PostFails(t) PROVE TypeOK'
  BY <1>5 DEF PostFails, Go
<1>6. ASSUME NEW t \in Tasks, Answer(t) PROVE TypeOK'
  <2> DEFINE b == cache[Service(t)]
  <2>1. b \in Tasks \cup {None}
    BY DEF Service
  <2> HIDE DEF b
  <2>2. spent' = [spent EXCEPT ![b] = @ + 1]
    BY <1>6 DEF Answer, b
  <2>3. spent' \in [Tasks -> Nat]
    <3>1. spent \in [Tasks -> Nat]
      OBVIOUS
    <3>2. CASE b \in Tasks
      BY <2>2, <3>1, <3>2
    <3>3. CASE b \notin Tasks
      <4>1. spent' = spent
        BY <2>2, <3>1, <3>3
      <4> QED
        BY <3>1, <4>1
    <3> QED
      BY <3>2, <3>3
  <2>4. call' = [call EXCEPT ![t].pc = "storing", ![t].held = b, ![t].paid = TRUE]
    BY <1>6 DEF Answer, b
  <2>5. call' \in [Tasks -> Call]
    <3>1. call[t] \in Call /\ call \in [Tasks -> Call]
      OBVIOUS
    <3>2. [call[t] EXCEPT !.pc = "storing", !.held = b, !.paid = TRUE] \in Call
      BY <2>1, <3>1
    <3>3. call' = [call EXCEPT ![t] = [call[t] EXCEPT
                       !.pc = "storing", !.held = b, !.paid = TRUE]]
      BY <2>4
    <3> QED
      BY <3>1, <3>2, <3>3
  <2> QED
    BY <1>6, <2>3, <2>5 DEF Answer
<1>7. ASSUME NEW t \in Tasks, Store(t) PROVE TypeOK'
  <2> DEFINE b == call[t].held  s == Service(t)
  <2>1. b \in Tasks \cup {None} /\ s \in Tasks \cup {Shared}
    BY DEF Service
  <2>2. cache' = [cache EXCEPT ![s] = b]
    BY <1>7 DEF Store
  <2> HIDE DEF b, s
  <2>3. cache' \in [Tasks \cup {Shared} -> Tasks \cup {None}]
    BY <2>1, <2>2
  <2>4. call' \in [Tasks -> Call]
    <3>1. call[t] \in Call /\ call \in [Tasks -> Call]
      OBVIOUS
    <3>2. [call[t] EXCEPT !.pc = "marking", !.held = None] \in Call
      BY <3>1
    <3>3. call' = [call EXCEPT ![t] = [call[t] EXCEPT !.pc = "marking", !.held = None]]
      BY <1>7 DEF Store
    <3> QED
      BY <3>1, <3>2, <3>3
  <2> QED
    BY <1>7, <2>3, <2>4 DEF Store
<1>8. ASSUME NEW t \in Tasks, MarkSuccess(t) PROVE TypeOK'
  BY <1>8 DEF MarkSuccess, Mark, Go
<1>9. ASSUME NEW t \in Tasks, LogSuccess(t) PROVE TypeOK'
  BY <1>9 DEF LogSuccess, Go
<1>10. ASSUME NEW t \in Tasks, Reply(t) PROVE TypeOK'
  BY <1>10 DEF Reply, Go
<1>11. ASSUME NEW t \in Tasks, MarkFailure(t) PROVE TypeOK'
  BY <1>11 DEF MarkFailure, Mark, Go
<1>12. ASSUME NEW t \in Tasks, LogFailure(t) PROVE TypeOK'
  BY <1>12 DEF LogFailure, Go
<1>13. CASE UNCHANGED vars
  BY <1>13 DEF vars
<1> QED
  BY <1>1, <1>2, <1>3, <1>4, <1>5, <1>6, <1>7, <1>8, <1>9, <1>10, <1>11, <1>12,
     <1>13 DEF Next

\* The trail of every call is kept, step by step.
LEMMA TrailKept == IInv /\ [Next]_vars => TrailStep' /\ TrailSound'
<1> SUFFICES ASSUME IInv, [Next]_vars PROVE TrailStep' /\ TrailSound'
  OBVIOUS
<1>0. TypeOK /\ TrailStep /\ TrailSound
  BY DEF IInv
<1> USE <1>0 DEF TypeOK, Call, TrailStep, TrailSound, Admitted
<1>1. ASSUME NEW t \in Tasks, Begin(t) PROVE TrailStep' /\ TrailSound'
  BY <1>1 DEF Begin, NoCall, Verdict
<1>2. ASSUME NEW t \in Tasks, BudgetRead(t) PROVE TrailStep' /\ TrailSound'
  BY <1>2 DEF BudgetRead, Go, Verdict
<1>3. ASSUME NEW t \in Tasks, BudgetReadFails(t) PROVE TrailStep' /\ TrailSound'
  BY <1>3 DEF BudgetReadFails, Go
<1>4. ASSUME NEW t \in Tasks, OpenLineage(t) PROVE TrailStep' /\ TrailSound'
  BY <1>4 DEF OpenLineage, Go
<1>5. ASSUME NEW t \in Tasks, PostFails(t) PROVE TrailStep' /\ TrailSound'
  BY <1>5 DEF PostFails, Go
<1>6. ASSUME NEW t \in Tasks, Answer(t) PROVE TrailStep' /\ TrailSound'
  BY <1>6 DEF Answer
<1>7. ASSUME NEW t \in Tasks, Store(t) PROVE TrailStep' /\ TrailSound'
  BY <1>7 DEF Store
<1>8. ASSUME NEW t \in Tasks, MarkSuccess(t) PROVE TrailStep' /\ TrailSound'
  BY <1>8 DEF MarkSuccess, Mark, Go
<1>9. ASSUME NEW t \in Tasks, LogSuccess(t) PROVE TrailStep' /\ TrailSound'
  BY <1>9 DEF LogSuccess, Go
<1>10. ASSUME NEW t \in Tasks, Reply(t) PROVE TrailStep' /\ TrailSound'
  BY <1>10 DEF Reply, Go
<1>11. ASSUME NEW t \in Tasks, MarkFailure(t) PROVE TrailStep' /\ TrailSound'
  BY <1>11 DEF MarkFailure, Mark, Go
<1>12. ASSUME NEW t \in Tasks, LogFailure(t) PROVE TrailStep' /\ TrailSound'
  BY <1>12 DEF LogFailure, Go
<1>13. CASE UNCHANGED vars
  BY <1>13 DEF vars
<1> QED
  BY <1>1, <1>2, <1>3, <1>4, <1>5, <1>6, <1>7, <1>8, <1>9, <1>10, <1>11, <1>12,
     <1>13 DEF Next

-----------------------------------------------------------------------------
\* The first read of the limits, or a later one that it overlapped.
LEMMA BudgetReadStep ==
  ASSUME IInv, TypeOK', NEW t \in Tasks, BudgetRead(t)
  PROVE  ObjectsKnown' /\ CountsWhatItSpends' /\ BoundedOverrun'
<1> USE DEF IInv
<1>1. \A u \in Tasks \ {t} : call'[u] = call[u]
  BY DEF BudgetRead, Go, TypeOK
<1>2. call'[t].pc \in {"opening", "raised"}
  BY DEF BudgetRead, Go, Verdict, TypeOK
<1>3. ~PerRequest => cache'[Shared] = t
  BY DEF BudgetRead, Service, TypeOK
<1>4. t # None
  BY InvocationAssumption
<1>5. ObjectsKnown'
  BY <1>1, <1>2, <1>3, <1>4 DEF ObjectsKnown, BudgetRead, Admitted
<1>6. ~PerRequest /\ Cardinality(made') <= 1 => made = {} /\ answered = 0
  <2> SUFFICES ASSUME ~PerRequest, Cardinality(made') <= 1
               PROVE  made = {} /\ answered = 0
    OBVIOUS
  <2>1. t \notin made
    BY DEF ObjectsKnown, BudgetRead
  <2>2. Cardinality(made') = Cardinality(made) + 1
    BY <2>1, MadeFinite, FS_AddElement DEF BudgetRead
  <2>3. made = {}
    BY <2>2, MadeFinite, FS_EmptySet
  <2> QED
    BY <2>3 DEF ObjectsKnown
<1>7. CountsWhatItSpends'
  BY <1>3, <1>6 DEF CountsWhatItSpends, BudgetRead, TypeOK
<1>8. BoundedOverrun'
  BY <1>6, InFlightFiniteNext, InFlightFinite, InvocationAssumption
     DEF BoundedOverrun, BudgetRead, TypeOK
<1> QED
  BY <1>5, <1>7, <1>8

\* A call that finds a budget is admitted if something is left of it.
LEMMA BeginStep ==
  ASSUME IInv, TypeOK', NEW t \in Tasks, Begin(t)
  PROVE  ObjectsKnown' /\ CountsWhatItSpends' /\ BoundedOverrun'
<1> USE DEF IInv
<1>1. call' = [call EXCEPT ![t] = call'[t]]
  BY DEF Begin, TypeOK
<1>2. CASE call'[t].pc \notin Admitted
  <2>1. call'[t].pc # "storing"
    BY DEF Begin, NoCall, Verdict, TypeOK
  <2>2. call'[t].pc = "reading" => t \notin made \/ PerRequest
    BY DEF Begin, NoCall, Verdict, TypeOK, ObjectsKnown
  <2> QED
    BY <1>1, <1>2, <2>1, <2>2, BudgetUntouched DEF Begin
<1>3. CASE call'[t].pc \in Admitted
  <2>1. /\ ~PerRequest /\ cache[Shared] # None
        /\ spent[cache[Shared]] + 1 <= Limit
    BY <1>3, InvocationAssumption DEF Begin, NoCall, Verdict, TypeOK, Admitted, ObjectsKnown
  <2>2. \A u \in Tasks \ {t} : call'[u] = call[u]
    BY <1>1 DEF TypeOK
  <2>3. call'[t].pc = "opening"
    BY <1>3 DEF Begin, NoCall, Verdict, TypeOK, Admitted
  <2>4. ObjectsKnown' /\ CountsWhatItSpends'
    BY <2>1, <2>2, <2>3 DEF Begin, ObjectsKnown, CountsWhatItSpends
  <2>5. BoundedOverrun'
    <3> SUFFICES ASSUME Cardinality(made) <= 1 PROVE BoundedOverrun'
      BY DEF BoundedOverrun, Begin
    <3>1. Cardinality(made) = 1
      BY <2>1, MadeFinite, FS_EmptySet DEF ObjectsKnown
    <3>2. answered + 1 <= Limit
      BY <2>1, <3>1 DEF CountsWhatItSpends
    <3> QED
      BY <3>2, AdmissionWithinBound DEF Begin, TypeOK
  <2> QED
    BY <2>4, <2>5
<1> QED
  BY <1>2, <1>3

\* A charge: one call fewer in flight, one more answered.
LEMMA AnswerStep ==
  ASSUME IInv, TypeOK', NEW t \in Tasks, Answer(t)
  PROVE  ObjectsKnown' /\ CountsWhatItSpends' /\ BoundedOverrun'
<1> USE DEF IInv
<1>1. \A u \in Tasks \ {t} : call'[u] = call[u]
  BY DEF Answer, TypeOK
<1>2. call'[t].pc = "storing" /\ call'[t].held = cache[Service(t)]
  BY DEF Answer, TypeOK
<1>3. ~PerRequest => cache[Shared] \in made /\ made # {}
  BY DEF Answer, ObjectsKnown, Admitted
<1>4. ObjectsKnown'
  <2>1. cache' = cache /\ made' = made
    BY DEF Answer
  <2>2. ~PerRequest => call'[t].held \in made
    BY <1>2, <1>3 DEF Service
  <2> QED
    BY <1>1, <1>2, <1>3, <2>1, <2>2 DEF ObjectsKnown, Admitted
<1>5. CountsWhatItSpends'
  BY <1>3 DEF Answer, CountsWhatItSpends, Service, TypeOK
<1>6. BoundedOverrun'
  <2>1. t \in InFlight
    BY DEF Answer, InFlight, Admitted
  <2>2. InFlight' = InFlight \ {t}
    BY <1>1, <1>2 DEF InFlight, Admitted
  <2>3. Cardinality(InFlight') = Cardinality(InFlight) - 1
    BY <2>1, <2>2, InFlightFinite, FS_RemoveElement
  <2> QED
    BY <2>3, InFlightFinite, InvocationAssumption DEF Answer, BoundedOverrun, TypeOK
<1> QED
  BY <1>4, <1>5, <1>6

\* Every other step leaves the budget as it is.
LEMMA OtherStep ==
  ASSUME IInv, TypeOK', NEW t \in Tasks,
         \/ BudgetReadFails(t) \/ OpenLineage(t) \/ PostFails(t) \/ Store(t)
         \/ MarkSuccess(t) \/ LogSuccess(t) \/ Reply(t) \/ MarkFailure(t) \/ LogFailure(t)
  PROVE  ObjectsKnown' /\ CountsWhatItSpends' /\ BoundedOverrun'
<1> USE DEF IInv
<1>1. call' = [call EXCEPT ![t] = call'[t]]
  BY DEF TypeOK, BudgetReadFails, OpenLineage, PostFails, Store, MarkSuccess, LogSuccess,
         Reply, MarkFailure, LogFailure, Mark, Go
<1>2. UNCHANGED <<spent, made, answered>>
  BY DEF BudgetReadFails, OpenLineage, PostFails, Store, MarkSuccess, LogSuccess,
         Reply, MarkFailure, LogFailure
<1>3. \/ cache' = cache
      \/ call[t].pc = "storing" /\ cache' = [cache EXCEPT ![Service(t)] = call[t].held]
  BY DEF BudgetReadFails, OpenLineage, PostFails, Store, MarkSuccess, LogSuccess,
         Reply, MarkFailure, LogFailure
<1>4. /\ call'[t].pc \in Admitted => call[t].pc \in Admitted
      /\ call'[t].pc \notin {"storing", "reading"}
  <2> USE DEF TypeOK, Call, Admitted, Go
  <2>1. CASE BudgetReadFails(t) \/ OpenLineage(t) \/ PostFails(t)
    BY <2>1 DEF BudgetReadFails, OpenLineage, PostFails
  <2>2. CASE Store(t) \/ Reply(t)
    BY <2>2 DEF Store, Reply
  <2>3. CASE MarkSuccess(t) \/ MarkFailure(t)
    BY <2>3 DEF MarkSuccess, MarkFailure, Mark
  <2>4. CASE LogSuccess(t) \/ LogFailure(t)
    BY <2>4 DEF LogSuccess, LogFailure
  <2> QED
    BY <2>1, <2>2, <2>3, <2>4
<1> QED
  BY <1>1, <1>2, <1>3, <1>4, BudgetUntouched

LEMMA StepIInv == IInv /\ [Next]_vars => IInv'
<1> SUFFICES ASSUME IInv, [Next]_vars PROVE IInv'
  OBVIOUS
<1>1. TypeOK' /\ TrailStep' /\ TrailSound'
  BY TypeStep, TrailKept DEF IInv
<1>2. CASE UNCHANGED vars
  BY <1>1, <1>2 DEF vars, IInv, ObjectsKnown, CountsWhatItSpends, BoundedOverrun, InFlight
<1>3. ASSUME NEW t \in Tasks, Begin(t) PROVE IInv'
  BY <1>1, <1>3, BeginStep DEF IInv
<1>4. ASSUME NEW t \in Tasks, BudgetRead(t) PROVE IInv'
  BY <1>1, <1>4, BudgetReadStep DEF IInv
<1>5. ASSUME NEW t \in Tasks, Answer(t) PROVE IInv'
  BY <1>1, <1>5, AnswerStep DEF IInv
<1>6. ASSUME NEW t \in Tasks,
             \/ BudgetReadFails(t) \/ OpenLineage(t) \/ PostFails(t) \/ Store(t)
             \/ MarkSuccess(t) \/ LogSuccess(t) \/ Reply(t) \/ MarkFailure(t)
             \/ LogFailure(t)
      PROVE  IInv'
  BY <1>1, <1>6, OtherStep DEF IInv
<1> QED
  BY <1>2, <1>3, <1>4, <1>5, <1>6 DEF Next

-----------------------------------------------------------------------------
\* The inductive invariant holds in every state.
LEMMA SpecIInv == Spec => []IInv
BY InitIInv, StepIInv, PTL DEF Spec

\* Every state of the service is well formed, whatever interleaves.
THEOREM InvocationTypeOK == Spec => []TypeOK
BY SpecIInv, PTL DEF IInv

\* However many calls check, answer and store at the same time, a budget that
\* was read once counts every answered call.
THEOREM InvocationCounts == Spec => []CountsWhatItSpends
BY SpecIInv, PTL DEF IInv

\* A budget that was read once is overrun by less than one call for each
\* request being served.
THEOREM InvocationBounded == Spec => []BoundedOverrun
BY SpecIInv, PTL DEF IInv

\* No trail says success of a call that was not charged, and what was returned
\* to the caller was logged as that.
THEOREM InvocationTrail == Spec => []TrailSound
BY SpecIInv, PTL DEF IInv

-----------------------------------------------------------------------------
\* Only two steps admit a call, and they do it for the task that takes them.
LEMMA AdmittedBy ==
  ASSUME TypeOK, [Next]_vars, NEW t \in Tasks,
         call[t].pc # "opening", call'[t].pc = "opening"
  PROVE  Begin(t) \/ BudgetRead(t)
<1> PICK u \in Tasks :
        \/ Begin(u) \/ BudgetRead(u)
        \/ BudgetReadFails(u) \/ OpenLineage(u) \/ PostFails(u) \/ Answer(u) \/ Store(u)
        \/ MarkSuccess(u) \/ LogSuccess(u) \/ Reply(u) \/ MarkFailure(u) \/ LogFailure(u)
  BY DEF Next, vars
<1>1. u = t
  BY DEF TypeOK, Begin, BudgetRead, BudgetReadFails, OpenLineage, PostFails, Answer,
         Store, MarkSuccess, LogSuccess, Reply, MarkFailure, LogFailure, Mark, Go
<1>2. CASE \/ BudgetReadFails(t) \/ OpenLineage(t) \/ PostFails(t) \/ Reply(t)
           \/ MarkFailure(t) \/ LogFailure(t)
  BY <1>2 DEF TypeOK, Call, BudgetReadFails, OpenLineage, PostFails, Reply,
              MarkFailure, LogFailure, Mark, Go
<1>3. CASE Answer(t) \/ Store(t) \/ MarkSuccess(t) \/ LogSuccess(t)
  BY <1>3 DEF TypeOK, Call, Answer, Store, MarkSuccess, LogSuccess, Mark, Go
<1> QED
  BY <1>1, <1>2, <1>3

\* A first read that leaves one object finds none, and nothing answered.
LEMMA FirstRead ==
  ASSUME IInv, NEW t \in Tasks, BudgetRead(t), ~PerRequest, Cardinality(made') <= 1
  PROVE  made = {} /\ answered = 0
<1> USE DEF IInv
<1>1. t \notin made
  BY DEF ObjectsKnown, BudgetRead
<1>2. Cardinality(made') = Cardinality(made) + 1
  BY <1>1, MadeFinite, FS_AddElement DEF BudgetRead
<1>3. made = {}
  BY <1>2, MadeFinite, FS_EmptySet
<1> QED
  BY <1>3 DEF ObjectsKnown

\* Where the limits are read once, a call is admitted within them.
LEMMA AdmittedWithin ==
  ASSUME IInv, ~PerRequest, Cardinality(made') <= 1, [Next]_vars,
         NEW t \in Tasks, call[t].pc # "opening", call'[t].pc = "opening"
  PROVE  answered < Limit
<1> USE DEF IInv
<1>1. CASE Begin(t)
  <2>1. cache[Shared] # None /\ spent[cache[Shared]] + 1 <= Limit
    BY <1>1, InvocationAssumption DEF Begin, NoCall, Verdict, TypeOK, ObjectsKnown
  <2>2. Cardinality(made) = 1
    BY <1>1, <2>1, MadeFinite, FS_EmptySet DEF ObjectsKnown, Begin
  <2> QED
    BY <2>1, <2>2, InvocationAssumption DEF CountsWhatItSpends, TypeOK
<1>2. CASE BudgetRead(t)
  <2>1. answered = 0
    BY <1>2, FirstRead
  <2>2. 0 + 1 <= Limit
    <3>1. [call[t] EXCEPT !.pc = Verdict(0)].pc = Verdict(0)
      BY DEF TypeOK, Call
    <3>2. call'[t].pc = Verdict(0)
      BY <1>2, <3>1 DEF BudgetRead, Go, TypeOK
    <3>3. Verdict(0) = "opening"
      BY <3>2
    <3> QED
      BY <3>3, InvocationAssumption DEF Verdict
  <2> QED
    BY <2>1, <2>2, InvocationAssumption
<1> QED
  BY <1>1, <1>2, AdmittedBy

\* What the documentation says of hard enforcement holds of a service that all
\* requests share, as long as the limits are read once: overlapping first reads,
\* and a service for each request, are the only ways around it.
THEOREM InvocationHardLimit ==
  ASSUME ~PerRequest
  PROVE  Spec /\ []ReadOnce => HardLimitBlocks
<1> DEFINE Blocks == \A t \in Tasks :
               call[t].pc # "opening" /\ call'[t].pc = "opening" => answered < Limit
<1>1. IInv /\ ReadOnce' /\ [Next]_vars => [Blocks]_vars
  BY AdmittedWithin DEF ReadOnce
<1> QED
  BY <1>1, SpecIInv, PTL DEF Spec, HardLimitBlocks

\* One call at a time, and what SerialSound says goes on to hold.
LEMMA SerialStep ==
  ASSUME IInv, ~PerRequest, SerialSound, OneCall, [Next]_vars
  PROVE  SerialSound'
<1> USE InvocationAssumption DEF IInv, TypeOK
<1>0. TypeOK /\ answered \in Nat
  OBVIOUS
<1>1. \A t \in Tasks : call[t].pc \in PCs
  BY DEF Call
<1>2. ASSUME NEW t \in Tasks, call[t].pc \in Over, call' = [call EXCEPT ![t] = call'[t]],
             call'[t].pc = "reading" => made = {}, UNCHANGED <<made, answered>>,
             call'[t].pc \in Admitted => answered < Limit
      PROVE  SerialSound'
  BY <1>0, <1>2 DEF SerialSound, WithinLimit
<1>3. ASSUME NEW t \in Tasks, call' = [call EXCEPT ![t] = call'[t]],
             call'[t].pc # "reading", UNCHANGED <<made, answered>>,
             call'[t].pc \in Admitted => call[t].pc \in Admitted
      PROVE  SerialSound'
  BY <1>0, <1>3 DEF SerialSound, WithinLimit
<1>4. ASSUME NEW t \in Tasks, Begin(t) PROVE SerialSound'
  <2>1. call[t].pc \in Over /\ call' = [call EXCEPT ![t] = call'[t]]
        /\ UNCHANGED <<made, answered>>
    BY <1>4 DEF Begin
  <2>2. call'[t].pc = "reading" => made = {}
    BY <1>4 DEF Begin, NoCall, Verdict, ObjectsKnown
  <2>3. call'[t].pc \in Admitted => answered < Limit
    <3> SUFFICES ASSUME call'[t].pc \in Admitted PROVE answered < Limit
      OBVIOUS
    <3>1. call[t].pc # "opening" /\ call'[t].pc = "opening"
      BY <1>4 DEF Begin, NoCall, Verdict, Admitted, Over
    <3>2. Cardinality(made) <= 1
      <4>1. CASE made = {}
        BY <4>1, FS_EmptySet
      <4>2. CASE made # {}
        <5>1. PICK a : made = {a}
          <6>1. PICK a \in made : TRUE
            BY <4>2
          <6>2. made = {a}
            BY <6>1 DEF SerialSound
          <6> QED
            BY <6>2
        <5>2. Cardinality({a}) = 1
          BY FS_Singleton
        <5> QED
          BY <5>1, <5>2
      <4> QED
        BY <4>1, <4>2
    <3> QED
      BY <2>1, <3>1, <3>2, AdmittedWithin
  <2> QED
    BY <2>1, <2>2, <2>3, <1>2
<1>5. ASSUME NEW t \in Tasks, BudgetRead(t) PROVE SerialSound'
  <2>1. made = {} /\ made' = {t} /\ answered = 0 /\ answered' = 0
    BY <1>5 DEF BudgetRead, SerialSound, ObjectsKnown
  <2>2. call'[t].pc = Verdict(0) /\ \A u \in Tasks : u # t => call'[u] = call[u]
    BY <1>5 DEF BudgetRead, Go
  <2>3. \A u \in Tasks : u # t => call[u].pc \in Over
    BY <1>5 DEF BudgetRead, OneCall, Over
  <2>4. Verdict(0) \in Admitted => 0 < Limit
    BY DEF Verdict, Admitted
  <2> QED
    BY <2>1, <2>2, <2>3, <2>4 DEF SerialSound, WithinLimit, Over, Admitted, Verdict
<1>6. ASSUME NEW t \in Tasks, Answer(t) PROVE SerialSound'
  <2>1. answered < Limit /\ answered' = answered + 1 /\ UNCHANGED made
    BY <1>6 DEF Answer, SerialSound, Admitted
  <2>2. call'[t].pc = "storing" /\ \A u \in Tasks : u # t => call'[u] = call[u]
    BY <1>6 DEF Answer, Call
  <2>3. \A u \in Tasks : u # t => call[u].pc \in Over
    BY <1>6 DEF Answer, OneCall, Over
  <2> QED
    BY <1>0, <2>1, <2>2, <2>3 DEF SerialSound, WithinLimit, Over, Admitted
<1>7. ASSUME NEW t \in Tasks,
             \/ BudgetReadFails(t) \/ OpenLineage(t) \/ PostFails(t) \/ Reply(t)
             \/ LogSuccess(t) \/ LogFailure(t) \/ Store(t)
      PROVE  SerialSound'
  <2>1. call' = [call EXCEPT ![t] = call'[t]] /\ UNCHANGED <<made, answered>>
    BY <1>7 DEF BudgetReadFails, OpenLineage, PostFails, Reply, LogSuccess, LogFailure,
                Store, Go
  <2>2. /\ call'[t].pc # "reading"
        /\ call'[t].pc \in Admitted => call[t].pc \in Admitted
    BY <1>7 DEF BudgetReadFails, OpenLineage, PostFails, Reply, LogSuccess, LogFailure,
                Store, Go, Admitted, Call
  <2> QED
    BY <2>1, <2>2, <1>3
<1>8. ASSUME NEW t \in Tasks, MarkSuccess(t) \/ MarkFailure(t) PROVE SerialSound'
  <2>1. call' = [call EXCEPT ![t] = call'[t]] /\ UNCHANGED <<made, answered>>
    BY <1>8 DEF MarkSuccess, MarkFailure, Mark, Go
  <2>2. call'[t].pc \in {"logging", "failing", "failLogging", "raised"}
    BY <1>8 DEF MarkSuccess, MarkFailure, Mark, Go, Call
  <2> QED
    BY <2>1, <2>2, <1>3 DEF Admitted
<1>9. CASE UNCHANGED vars
  BY <1>9 DEF vars, SerialSound, WithinLimit
<1> QED
  BY <1>4, <1>5, <1>6, <1>7, <1>8, <1>9 DEF Next

\* A shared service that serves one call at a time never lets the agent answer
\* more calls than the budget pays for: all overspending comes from overlap.
THEOREM InvocationWithinLimit ==
  ASSUME ~PerRequest
  PROVE  Spec /\ []OneCall => []WithinLimit
<1>1. Init => SerialSound
  BY InvocationAssumption DEF Init, NoCall, SerialSound, WithinLimit, Admitted
<1>2. IInv /\ SerialSound /\ OneCall /\ [Next]_vars => SerialSound'
  BY SerialStep
<1>3. SerialSound => WithinLimit
  BY DEF SerialSound
<1> QED
  BY <1>1, <1>2, <1>3, SpecIInv, PTL DEF Spec
=============================================================================

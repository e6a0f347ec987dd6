--------------------------- MODULE DeploymentProofs --------------------------
(***************************************************************************)
(* Theorems about Deployment and about promotions over it, for any number  *)
(* of deployments, calls, promotions and requests.                         *)
(***************************************************************************)
EXTENDS PromotedDeployment, TLAPS

\* What TypeOK says of one call and of one row.
LEMMA Typed ==
    ASSUME TypeOK
    PROVE  /\ \A c \in Calls : /\ call[c] \in Call
                               /\ call[c].new \in Deployments \cup {None}
                               /\ call[c].old \in Deployments \cup {None}
           /\ \A d \in Deployments : row[d] \in Row /\ row[d].registered \in BOOLEAN
<1>1. \A c \in Calls : call[c] \in Call
  BY DEF TypeOK
<1>2. \A r \in Call : r.new \in Deployments \cup {None} /\ r.old \in Deployments \cup {None}
  BY DEF Call
<1>3. \A d \in Deployments : row[d] \in Row
  BY DEF TypeOK
<1>4. \A r \in Row : r.registered \in BOOLEAN
  BY DEF Row
<1>q. QED
  BY <1>1, <1>2, <1>3, <1>4

\* Writing the status of a row leaves it one.
LEMMA RowFields ==
    ASSUME NEW r \in Row, NEW s \in Statuses
    PROVE  [r EXCEPT !.status = s] \in Row
BY DEF Row

\* Writing the pc of a call, and another field with it, leaves it one.
LEMMA CallFields ==
    ASSUME NEW r \in Call, NEW pc \in Pc
    PROVE  /\ [r EXCEPT !.pc = pc] \in Call
           /\ \A d \in Deployments \cup {None} :
                 /\ [r EXCEPT !.pc = pc, !.old = d] \in Call
                 /\ [r EXCEPT !.pc = pc, !.new = d] \in Call
           /\ \A b \in BOOLEAN : /\ [r EXCEPT !.pc = pc, !.saw = b] \in Call
                                 /\ [r EXCEPT !.pc = pc, !.freed = b] \in Call
BY DEF Call

\* A step that rewrites one call keeps the type of all.
LEMMA CallsKept ==
    ASSUME TypeOK, NEW c \in Calls, NEW r \in Call, call' = [call EXCEPT ![c] = r]
    PROVE  call' \in [Calls -> Call]
BY DEF TypeOK

\* A step that rewrites one row keeps the type of all.
LEMMA StatusKept ==
    ASSUME TypeOK, NEW d \in Deployments, NEW s \in Statuses,
           row' = [row EXCEPT ![d].status = s]
    PROVE  row' \in [Deployments -> Row]
<1>1. [row[d] EXCEPT !.status = s] \in Row
  BY Typed, RowFields
<1>q. QED
  BY <1>1 DEF TypeOK

\* Each of the steps of a call keeps the types; that a call has a deployment when
\* it registers or stops one is a matter of NewSound and OldSound.
LEMMA ProceedTypeOK ==
    ASSUME TypeOK, NewSound, OldSound, NEW c \in Calls, Proceed(c) PROVE TypeOK'
<1> USE DEF Pc, Statuses
<1>1. call[c] \in Call /\ call[c].old \in Deployments \cup {None}
                       /\ call[c].new \in Deployments \cup {None}
  BY Typed
<1>2. CASE CreateRow(c)
  <2>1. PICK d \in Deployments : /\ row' = [row EXCEPT ![d].status = "pending"]
                                 /\ call' = [call EXCEPT ![c] =
                                       [@ EXCEPT !.pc = "mark", !.new = d]]
    BY <1>2 DEF CreateRow
  <2>2. [call[c] EXCEPT !.pc = "mark", !.new = d] \in Call
    BY <1>1, CallFields
  <2>q. QED
    BY <1>2, <2>1, <2>2, CallsKept, StatusKept DEF CreateRow, TypeOK
<1>3. CASE MarkDeploying(c) \/ Fail(c)
  <2>1. \A pc \in {"register", "done", "raised"} : [call[c] EXCEPT !.pc = pc] \in Call
    BY <1>1, CallFields
  <2>2. call' \in [Calls -> Call]
    BY <1>3, <2>1, CallsKept DEF MarkDeploying, Fail
  <2>3. row' \in [Deployments -> Row]
    <3>1. CASE call[c].new = None
      BY <1>3, <3>1, DeploymentAssumption DEF MarkDeploying, Fail, TypeOK
    <3>q. QED
      BY <1>1, <1>3, <3>1, StatusKept DEF MarkDeploying, Fail
  <2>q. QED
    BY <1>3, <2>2, <2>3 DEF MarkDeploying, Fail, TypeOK
<1>4. CASE Register(c) \/ RegisterFails(c)
  <2>1. \A pc \in {"activate", "fail"} : [call[c] EXCEPT !.pc = pc] \in Call
    BY <1>1, CallFields
  <2>2. call[c].new \in Deployments
    BY <1>1, <1>4 DEF Register, RegisterFails, At, NewSound
  <2>q. QED
    BY <1>4, <2>1, <2>2, CallsKept DEF Register, RegisterFails, TypeOK
<1>5. CASE Activate(c) \/ ActivateFails(c)
  <2>1. \A pc \in {"done", "fail"} : [call[c] EXCEPT !.pc = pc] \in Call
    BY <1>1, CallFields
  <2>2. call' \in [Calls -> Call]
    BY <1>5, <2>1, CallsKept DEF Activate, ActivateFails
  <2>3. Active \in Row
    BY DEF Active, Row
  <2>q. QED
    BY <1>5, <2>2, <2>3 DEF Activate, ActivateFails, TypeOK
<1>6. CASE Raise(c) \/ UnregisterFails(c)
  <2>1. \A pc \in {"raised", "settle"} : [call[c] EXCEPT !.pc = pc] \in Call
    BY <1>1, CallFields
  <2>q. QED
    BY <1>6, <2>1, CallsKept DEF Raise, UnregisterFails, TypeOK
<1>7. CASE StopRead(c)
  <2>0. call[c].old \in Deployments
    BY <1>1, <1>7 DEF StopRead, At, OldSound
  <2>1. row[call[c].old].registered \in BOOLEAN
    BY <2>0, Typed
  <2> DEFINE pc == IF row[call[c].old].registered THEN "unregister" ELSE "settle"
             r == [call[c] EXCEPT !.pc = pc, !.saw = row[call[c].old].registered]
  <2>2. r \in Call
    BY <1>1, <2>1, CallFields
  <2>3. call' = [call EXCEPT ![c] = r] /\ UNCHANGED <<row, held, lost>>
    BY <1>7 DEF StopRead
  <2>q. QED
    BY <2>2, <2>3, CallsKept DEF TypeOK
<1>8. CASE RefuseStop(c) \/ Unregister(c)
  <2>1. /\ [call[c] EXCEPT !.pc = "raised", !.old = None] \in Call
        /\ [call[c] EXCEPT !.pc = "settle", !.freed = TRUE] \in Call
    BY <1>1, CallFields
  <2>q. QED
    BY <1>8, <2>1, CallsKept DEF RefuseStop, Unregister, TypeOK
<1>9. CASE Settle(c)
  <2>1. \A pc \in {"create", "done"} : [call[c] EXCEPT !.pc = pc] \in Call
    BY <1>1, CallFields
  <2>2. call' \in [Calls -> Call]
    BY <1>9, <2>1, CallsKept DEF Settle
  <2>3. row' \in [Deployments -> Row]
    <3>1. CASE call[c].old = None
      BY <1>9, <3>1, DeploymentAssumption DEF Settle, TypeOK
    <3>q. QED
      BY <1>1, <1>9, <3>1, StatusKept DEF Settle
  <2>q. QED
    BY <1>9, <2>2, <2>3 DEF Settle, TypeOK
<1>q. QED
  BY <1>2, <1>3, <1>4, <1>5, <1>6, <1>7, <1>8, <1>9 DEF Proceed

\* Every step keeps the types.
LEMMA TypeOKStep ==
    ASSUME TypeOK, NewSound, OldSound, [Next]_vars PROVE TypeOK'
<1> USE DEF Pc
<1>1. ASSUME NEW c \in Deploys, BeginDeploy(c) PROVE TypeOK'
  <2>1. c \in Calls /\ [call[c] EXCEPT !.pc = "create"] \in Call
    BY Typed, CallFields DEF Calls
  <2>q. QED
    BY <1>1, <2>1, CallsKept DEF BeginDeploy, TypeOK
<1>2. ASSUME NEW c \in Stops, NEW d \in Deployments, BeginStop(c, d) PROVE TypeOK'
  <2>1. c \in Calls /\ [call[c] EXCEPT !.pc = "read", !.old = d] \in Call
    BY Typed, CallFields DEF Calls
  <2>q. QED
    BY <1>2, <2>1, CallsKept DEF BeginStop, TypeOK
<1>3. ASSUME NEW c \in Redeploys, NEW d \in Deployments, BeginRedeploy(c, d)
      PROVE TypeOK'
  <2>1. c \in Calls
    BY DEF Calls
  <2>2. /\ [call[c] EXCEPT !.pc = "read", !.old = d] \in Call
        /\ [call[c] EXCEPT !.pc = "create", !.old = None] \in Call
    BY <2>1, Typed, CallFields
  <2>q. QED
    BY <1>3, <2>1, <2>2, CallsKept DEF BeginRedeploy, TypeOK
<1>4. ASSUME NEW c \in Calls, Lose(c) PROVE TypeOK'
  BY <1>4 DEF Lose, TypeOK
<1>5. CASE UNCHANGED vars
  BY <1>5 DEF vars, TypeOK
<1>q. QED
  BY <1>1, <1>2, <1>3, <1>4, <1>5, ProceedTypeOK DEF Next

\* The strengthening holds at first ...
LEMMA SoundInit == Init => Sound
BY DeploymentAssumption
   DEF Init, Sound, NewSound, OldSound, KindsSound, RowsSound, Known, NoCall

\* Each of the steps of a call keeps what makes the properties inductive.
LEMMA ProceedSound ==
    ASSUME TypeOK, Sound, NEW c \in Calls, Proceed(c) PROVE Sound'
<1> USE DeploymentAssumption
    DEF TypeOK, Row, Call, At, Known, Makers,
        Sound, NewSound, OldSound, KindsSound, RowsSound
<1>1. CASE CreateRow(c)
  BY <1>1 DEF CreateRow
<1>2. CASE MarkDeploying(c)
  BY <1>2 DEF MarkDeploying
<1>3. CASE Register(c)
  BY <1>3 DEF Register
<1>4. CASE RegisterFails(c)
  BY <1>4 DEF RegisterFails
<1>5. CASE Activate(c)
  BY <1>5 DEF Activate, Active
<1>6. CASE ActivateFails(c)
  BY <1>6 DEF ActivateFails, Active
<1>7. CASE Fail(c)
  BY <1>7 DEF Fail
<1>8. CASE Raise(c)
  BY <1>8 DEF Raise
<1>9. CASE StopRead(c)
  BY <1>9 DEF StopRead, CanStop
<1>10. CASE RefuseStop(c)
  BY <1>10 DEF RefuseStop
<1>11. CASE Unregister(c)
  BY <1>11 DEF Unregister
<1>12. CASE UnregisterFails(c)
  BY <1>12 DEF UnregisterFails
<1>13. CASE Settle(c)
  BY <1>13 DEF Settle
<1>q. QED
  BY Proceed(c), <1>1, <1>2, <1>3, <1>4, <1>5, <1>6, <1>7, <1>8, <1>9, <1>10, <1>11, <1>12,
     <1>13 DEF Proceed

\* ... and by every other.
LEMMA SoundStep ==
    ASSUME TypeOK, Sound, [Next]_vars PROVE Sound'
<1> USE DeploymentAssumption
    DEF TypeOK, Row, Call, Calls, At, Known, Makers,
        Sound, NewSound, OldSound, KindsSound, RowsSound
<1>1. ASSUME NEW c \in Deploys, BeginDeploy(c) PROVE Sound'
  BY <1>1 DEF BeginDeploy
<1>2. ASSUME NEW c \in Stops, NEW d \in Deployments, BeginStop(c, d) PROVE Sound'
  BY <1>2 DEF BeginStop
<1>3. ASSUME NEW c \in Redeploys, NEW d \in Deployments, BeginRedeploy(c, d)
      PROVE Sound'
  BY <1>3 DEF BeginRedeploy, CanStop
<1>4. ASSUME NEW c \in Calls, Lose(c) PROVE Sound'
  BY <1>4 DEF Lose
<1>5. CASE UNCHANGED vars
  BY <1>5 DEF vars
<1>q. QED
  BY <1>1, <1>2, <1>3, <1>4, <1>5, ProceedSound DEF Next

\* The inductive invariant.
IInv == TypeOK /\ Sound

\* The inductive invariant holds throughout.
LEMMA IInvHolds == Spec => []IInv
<1>1. Init => IInv
  <2>1. Init => TypeOK
    BY DeploymentAssumption DEF Init, TypeOK, Row, Statuses, Call, Pc, NoCall
  <2>q. QED
    BY <2>1, SoundInit DEF IInv
<1>2. IInv /\ [Next]_vars => IInv'
  BY TypeOKStep, SoundStep DEF IInv, Sound
<1>q. QED
  BY <1>1, <1>2, PTL DEF Spec

\* The variables keep their types.
THEOREM DeploymentTypeOK == Spec => []TypeOK
<1>1. IInv => TypeOK
  BY DEF IInv
<1>q. QED
  BY <1>1, IInvHolds, PTL

\* An active row is served by the gateway, or a stop is on its way to mark it.
THEOREM DeploymentActiveIsServed == Spec => []ActiveIsServed
<1>1. Init => ActiveIsServed
  BY DeploymentAssumption DEF Init, ActiveIsServed
<1>2. IInv /\ ActiveIsServed /\ [Next]_vars => ActiveIsServed'
  <2> SUFFICES ASSUME IInv, ActiveIsServed, [Next]_vars PROVE ActiveIsServed'
    OBVIOUS
  <2> USE DeploymentAssumption
      DEF IInv, TypeOK, Row, Call, At, Known, Sound, NewSound, OldSound, ActiveIsServed
  <2>1. ASSUME NEW c \in Deploys, BeginDeploy(c) PROVE ActiveIsServed'
    BY <2>1 DEF BeginDeploy
  <2>2. ASSUME NEW c \in Stops, NEW d \in Deployments, BeginStop(c, d)
        PROVE ActiveIsServed'
    BY <2>2 DEF BeginStop
  <2>3. ASSUME NEW c \in Redeploys, NEW d \in Deployments, BeginRedeploy(c, d)
        PROVE ActiveIsServed'
    BY <2>3 DEF BeginRedeploy, CanStop
  <2>4. ASSUME NEW c \in Calls, Proceed(c) PROVE ActiveIsServed'
    <3>1. CASE CreateRow(c)
      BY <3>1 DEF CreateRow
    <3>2. CASE MarkDeploying(c)
      BY <3>2 DEF MarkDeploying
    <3>3. CASE Register(c)
      BY <3>3 DEF Register
    <3>4. CASE RegisterFails(c)
      BY <3>4 DEF RegisterFails
    <3>5. CASE Activate(c)
      BY <3>5 DEF Activate, Active
    <3>6. CASE ActivateFails(c)
      <4>1. CASE row' = row
        BY <3>6, <4>1 DEF ActivateFails
      <4>2. CASE row' = [row EXCEPT ![call[c].new] = Active]
        BY <3>6, <4>2 DEF ActivateFails, Active
      <4>q. QED
        BY <3>6, <4>1, <4>2 DEF ActivateFails
    <3>7. CASE Fail(c)
      BY <3>7 DEF Fail
    <3>8. CASE Raise(c)
      BY <3>8 DEF Raise
    <3>9. CASE StopRead(c)
      BY <3>9 DEF StopRead
    <3>10. CASE RefuseStop(c)
      BY <3>10 DEF RefuseStop
    <3>11. CASE Unregister(c)
      BY <3>11 DEF Unregister
    <3>12. CASE UnregisterFails(c)
      BY <3>12 DEF UnregisterFails
    <3>13. CASE Settle(c)
      BY <3>13 DEF Settle
    <3>q. QED
      BY <2>4, <3>1, <3>2, <3>3, <3>4, <3>5, <3>6, <3>7,
         <3>8, <3>9, <3>10, <3>11, <3>12, <3>13 DEF Proceed
  <2>5. ASSUME NEW c \in Calls, Lose(c) PROVE ActiveIsServed'
    BY <2>5 DEF Lose
  <2>6. CASE UNCHANGED vars
    BY <2>6 DEF vars
  <2>q. QED
    BY <2>1, <2>2, <2>3, <2>4, <2>5, <2>6 DEF Next
<1>q. QED
  BY <1>1, <1>2, IInvHolds, PTL DEF Spec

\* What the gateway serves for a row that is not active has a known cause.
THEOREM DeploymentLeftoverHasCause == Spec => []LeftoverHasCause
<1>1. Init => LeftoverHasCause
  BY DeploymentAssumption DEF Init, LeftoverHasCause
<1>2. IInv /\ LeftoverHasCause /\ [Next]_vars => LeftoverHasCause'
  <2> SUFFICES ASSUME IInv, LeftoverHasCause, [Next]_vars PROVE LeftoverHasCause'
    OBVIOUS
  <2> USE DeploymentAssumption
      DEF IInv, TypeOK, Row, Call, At, Known, Sound, NewSound, OldSound,
          LeftoverHasCause, Settled
  <2>1. ASSUME NEW c \in Deploys, BeginDeploy(c) PROVE LeftoverHasCause'
    BY <2>1 DEF BeginDeploy
  <2>2. ASSUME NEW c \in Stops, NEW d \in Deployments, BeginStop(c, d)
        PROVE LeftoverHasCause'
    BY <2>2 DEF BeginStop
  <2>3. ASSUME NEW c \in Redeploys, NEW d \in Deployments, BeginRedeploy(c, d)
        PROVE LeftoverHasCause'
    BY <2>3 DEF BeginRedeploy, CanStop
  <2>4. ASSUME NEW c \in Calls, Proceed(c) PROVE LeftoverHasCause'
    <3>1. CASE CreateRow(c)
      BY <3>1 DEF CreateRow
    <3>2. CASE MarkDeploying(c)
      BY <3>2 DEF MarkDeploying
    <3>3. CASE Register(c)
      BY <3>3 DEF Register
    <3>4. CASE RegisterFails(c)
      BY <3>4 DEF RegisterFails
    <3>5. CASE Activate(c)
      BY <3>5 DEF Activate, Active
    <3>6. CASE ActivateFails(c)
      BY <3>6 DEF ActivateFails, Active
    <3>7. CASE Fail(c)
      BY <3>7 DEF Fail
    <3>8. CASE Raise(c)
      BY <3>8 DEF Raise
    <3>9. CASE StopRead(c)
      BY <3>9 DEF StopRead
    <3>10. CASE RefuseStop(c)
      BY <3>10 DEF RefuseStop
    <3>11. CASE Unregister(c)
      BY <3>11 DEF Unregister
    <3>12. CASE UnregisterFails(c)
      BY <3>12 DEF UnregisterFails
    <3>13. CASE Settle(c)
      BY <3>13 DEF Settle
    <3>q. QED
      BY <2>4, <3>1, <3>2, <3>3, <3>4, <3>5, <3>6, <3>7,
         <3>8, <3>9, <3>10, <3>11, <3>12, <3>13 DEF Proceed
  <2>5. ASSUME NEW c \in Calls, Lose(c) PROVE LeftoverHasCause'
    BY <2>5 DEF Lose
  <2>6. CASE UNCHANGED vars
    BY <2>6 DEF vars
  <2>q. QED
    BY <2>1, <2>2, <2>3, <2>4, <2>5, <2>6 DEF Next
<1>q. QED
  BY <1>1, <1>2, IInvHolds, PTL DEF Spec

\* A deployment that was stopped after it had become active stays down.
THEOREM DeploymentStopHolds == Spec => StopHolds
<1> DEFINE Down(d) == row[d].status = "stopped" /\ row[d].registered
           Holds == \A d \in Deployments :
                        Down(d) => row'[d].status \in {"stopped", "failed"}
<1>1. IInv /\ [Next]_vars => [Holds]_vars
  <2> SUFFICES ASSUME IInv, Next, NEW d \in Deployments, Down(d)
               PROVE row'[d].status \in {"stopped", "failed"}
    BY DEF vars
  <2> USE DeploymentAssumption DEF IInv, TypeOK, Row, Call, At, Known, Sound, NewSound
  <2>1. CASE UNCHANGED row
    BY <2>1
  <2>2. ASSUME NEW c \in Calls, Proceed(c), row' # row
        PROVE row'[d].status \in {"stopped", "failed"}
    <3>1. CASE CreateRow(c)
      BY <3>1 DEF CreateRow
    <3>2. CASE MarkDeploying(c)
      BY <3>2 DEF MarkDeploying
    <3>3. CASE Activate(c)
      BY <3>3 DEF Activate
    <3>4. CASE ActivateFails(c)
      BY <2>2, <3>4 DEF ActivateFails
    <3>5. CASE Fail(c)
      BY <3>5 DEF Fail
    <3>6. CASE Settle(c)
      BY <3>6 DEF Settle
    <3>q. QED
      BY <2>2, <3>1, <3>2, <3>3, <3>4, <3>5, <3>6
         DEF Proceed, Register, RegisterFails, Raise, StopRead, RefuseStop,
             Unregister, UnregisterFails
  <2>q. QED
    BY <2>1, <2>2 DEF Next, BeginDeploy, BeginStop, BeginRedeploy, Lose
<1>q. QED
  BY <1>1, IInvHolds, PTL DEF Spec, StopHolds

(***************************************************************************)
(* The service keeps DeploymentPromise: each step of it is one of the      *)
(* promise, or none, on the mapped variables.                              *)
(***************************************************************************)
\* A step that moves one call of deploy moves its image, and no other.
LEMMA RunMoves ==
    ASSUME TypeOK, NEW c \in Makers, NEW r, NEW phase, NEW made,
           call' = [call EXCEPT ![c] = r], Phase(r.pc) = phase, r.new = made
    PROVE  SeenRun' = [SeenRun EXCEPT ![c] = [pc |-> phase, made |-> made]]
BY DEF TypeOK, SeenRun, Makers, Calls

\* No step of a call of stop is seen in the calls of deploy.
LEMMA StopsUnseen ==
    ASSUME TypeOK, NEW c \in Calls, NEW r, call' = [call EXCEPT ![c] = r], c \notin Makers
    PROVE  SeenRun' = SeenRun
BY DEF TypeOK, SeenRun, Makers, Calls

\* A step that leaves the phase and the deployment of a call is not seen there.
LEMMA RunStays ==
    ASSUME TypeOK, NEW c \in Calls, NEW r, call' = [call EXCEPT ![c] = r],
           r.new = call[c].new, Phase(r.pc) = Phase(call[c].pc)
    PROVE  SeenRun' = SeenRun
BY DEF TypeOK, SeenRun, Makers, Calls

\* The phase of each place of a call.
LEMMA Phases ==
    /\ \A pc \in {"idle", "read", "unregister", "settle", "create"} : Phase(pc) = "idle"
    /\ \A pc \in {"mark", "register", "activate"} : Phase(pc) = "running"
    /\ Phase("fail") = "ending" /\ Phase("done") = "returned" /\ Phase("raised") = "raised"
BY DEF Phase

\* A step of deploy that only moves its call is seen as a step of that call.
LEMMA PhaseMoves ==
    ASSUME TypeOK, NEW c \in Makers, NEW pc \in Pc, NEW phase, Phase(pc) = phase,
           call' = [call EXCEPT ![c].pc = pc]
    PROVE  SeenRun' = [SeenRun EXCEPT ![c].pc = phase]
<1>1. c \in Calls /\ call[c] \in Call
  BY Typed DEF Makers, Calls
<1>2. /\ [call[c] EXCEPT !.pc = pc].pc = pc
      /\ [call[c] EXCEPT !.pc = pc].new = call[c].new
  BY <1>1 DEF Call
<1>3. SeenRun' = [SeenRun EXCEPT ![c] = [pc |-> phase, made |-> call[c].new]]
  BY <1>1, <1>2, RunMoves
<1>4. SeenRun[c] = [pc |-> Phase(call[c].pc), made |-> call[c].new]
  BY DEF SeenRun
<1>5. [SeenRun[c] EXCEPT !.pc = phase] = [pc |-> phase, made |-> call[c].new]
  BY <1>4
<1>q. QED
  BY <1>3, <1>5

\* A step that writes the status of one row is seen as that, and no more.
LEMMA StatusMoves ==
    ASSUME TypeOK, NEW d \in Deployments, NEW s, NEW r, r.status = s,
           row' = [row EXCEPT ![d] = r]
    PROVE  /\ s = "pending" => SeenStatus' = [SeenStatus EXCEPT ![d] = "busy"]
           /\ s \in {"active", "failed", "stopped"} =>
                  SeenStatus' = [SeenStatus EXCEPT ![d] = s]
BY DEF TypeOK, SeenStatus

\* The same for a step that writes the status only.
LEMMA StatusWritten ==
    ASSUME TypeOK, NEW d \in Deployments, NEW s, row' = [row EXCEPT ![d].status = s]
    PROVE  /\ s = "pending" => SeenStatus' = [SeenStatus EXCEPT ![d] = "busy"]
           /\ s \in {"active", "failed", "stopped"} =>
                  SeenStatus' = [SeenStatus EXCEPT ![d] = s]
<1>1. [row[d] EXCEPT !.status = s].status = s
  BY Typed DEF Row
<1>q. QED
  BY <1>1, StatusMoves

\* The same for each step of a call.
LEMMA PromiseProceed ==
    ASSUME IInv, NEW c \in Calls, Proceed(c)
    PROVE  \/ c \in Makers /\ Promise!Step(c)
           \/ \E d \in Deployments : Promise!Stop(d)
           \/ UNCHANGED <<SeenStatus, SeenRun>>
<1> DEFINE old == call[c].old
           new == call[c].new
<1> USE DEF IInv, Sound, At
<1>1. c \in Makers => SeenRun[c] = [pc |-> Phase(call[c].pc), made |-> new]
  BY DEF SeenRun
<1>2. call[c] \in Call /\ old \in Deployments \cup {None} /\ new \in Deployments \cup {None}
  BY Typed
<1>3. \A pc \in Pc : /\ [call[c] EXCEPT !.pc = pc].pc = pc
                     /\ [call[c] EXCEPT !.pc = pc].new = new
  BY <1>2 DEF Call
<1>4. CASE CreateRow(c)
  <2>1. PICK d \in Deployments :
           /\ ~Known(d)
           /\ row' = [row EXCEPT ![d].status = "pending"]
           /\ call' = [call EXCEPT ![c] = [@ EXCEPT !.pc = "mark", !.new = d]]
    BY <1>4 DEF CreateRow
  <2>2. c \in Makers /\ call[c].pc = "create"
    BY <1>4 DEF CreateRow, KindsSound
  <2>3. SeenStatus[d] = "none" /\ SeenStatus' = [SeenStatus EXCEPT ![d] = "busy"]
    BY <2>1, StatusWritten DEF SeenStatus, Known
  <2>4. SeenRun' = [SeenRun EXCEPT ![c] = [pc |-> "running", made |-> d]]
    <3> DEFINE r == [call[c] EXCEPT !.pc = "mark", !.new = d]
    <3>1. r.pc = "mark" /\ r.new = d
      BY <1>2 DEF Call
    <3>2. call' = [call EXCEPT ![c] = r]
      BY <2>1
    <3> HIDE DEF r
    <3>3. Phase(r.pc) = "running"
      BY <3>1, Phases
    <3>q. QED
      BY <2>2, <3>1, <3>2, <3>3, RunMoves
  <2>5. SeenRun[c].pc = "idle"
    BY <1>1, <2>2, Phases
  <2>6. Promise!Make(c)
    BY <2>3, <2>4, <2>5 DEF Promise!Make
  <2>q. QED
    BY <2>2, <2>6 DEF Promise!Step
<1>5. CASE MarkDeploying(c)
  <2>1. new \in Deployments /\ row[new].status = "pending"
    BY <1>2, <1>5 DEF MarkDeploying, NewSound
  <2>2. UNCHANGED SeenStatus
    BY <1>5, <2>1, Typed DEF MarkDeploying, SeenStatus, Row
  <2>3. UNCHANGED SeenRun
    BY <1>3, <1>5, RunStays DEF MarkDeploying, Phase, Pc
  <2>q. QED
    BY <2>2, <2>3
<1>6. CASE Register(c)
  <2>1. UNCHANGED SeenStatus
    BY <1>6 DEF Register, SeenStatus
  <2>2. UNCHANGED SeenRun
    BY <1>3, <1>6, RunStays DEF Register, Phase, Pc
  <2>q. QED
    BY <2>1, <2>2
<1>7. CASE RegisterFails(c) \/ ActivateFails(c)
  <2>1. c \in Makers /\ SeenRun[c] = [pc |-> "running", made |-> new]
    BY <1>1, <1>7 DEF RegisterFails, ActivateFails, KindsSound, Phase
  <2>3. SeenRun' = [SeenRun EXCEPT ![c].pc = "ending"]
    BY <1>7, <2>1, PhaseMoves, Phases DEF RegisterFails, ActivateFails, Pc
  <2>4. new \in Deployments
    BY <1>2, <1>7 DEF RegisterFails, ActivateFails, NewSound
  <2>5. SeenStatus' \in {SeenStatus, [SeenStatus EXCEPT ![new] = "active"]}
    <3>1. CASE row' = row
      BY <3>1 DEF SeenStatus
    <3>2. CASE row' = [row EXCEPT ![new] = Active]
      <4>1. Active.status = "active"
        BY DEF Active
      <4>q. QED
        BY <2>4, <3>2, <4>1, StatusMoves
    <3>q. QED
      BY <1>7, <3>1, <3>2 DEF RegisterFails, ActivateFails
  <2>6. Promise!Falter(c)
    BY <2>1, <2>3, <2>5 DEF Promise!Falter
  <2>q. QED
    BY <2>1, <2>6 DEF Promise!Step
<1>8. CASE Activate(c) \/ Fail(c)
  <2>1. c \in Makers /\ SeenRun[c] = [pc |-> Phase(call[c].pc), made |-> new]
    BY <1>1, <1>8 DEF Activate, Fail, KindsSound
  <2>p. /\ "done" \in Pc /\ Phase("done") = "returned"
        /\ "raised" \in Pc /\ Phase("raised") = "raised"
    BY Phases DEF Pc
  <2>d. ASSUME call' = [call EXCEPT ![c].pc = "done"]
        PROVE  SeenRun' = [SeenRun EXCEPT ![c].pc = "returned"]
    BY <2>d, <2>1, <2>p, PhaseMoves
  <2>r. ASSUME call' = [call EXCEPT ![c].pc = "raised"]
        PROVE  SeenRun' = [SeenRun EXCEPT ![c].pc = "raised"]
    BY <2>r, <2>1, <2>p, PhaseMoves
  <2>3. /\ Activate(c) => SeenRun' = [SeenRun EXCEPT ![c].pc = "returned"]
        /\ Fail(c) => \E pc \in {"returned", "raised"} :
                         SeenRun' = [SeenRun EXCEPT ![c].pc = pc]
    BY <2>d, <2>r DEF Activate, Fail
  <2>4. new \in Deployments
    BY <1>2, <1>8 DEF Activate, Fail, NewSound
  <2>5. CASE Activate(c)
    <3>1. SeenStatus' = [SeenStatus EXCEPT ![new] = "active"]
      <4>1. Active.status = "active"
        BY DEF Active
      <4>q. QED
        BY <2>4, <2>5, <4>1, StatusMoves DEF Activate
    <3>2. Promise!Activate(c)
      BY <2>1, <2>3, <2>5, <3>1 DEF Promise!Activate, Activate, Phase
    <3>q. QED
      BY <2>1, <3>2 DEF Promise!Step
  <2>6. CASE Fail(c)
    <3>1. SeenStatus' = [SeenStatus EXCEPT ![new] = "failed"]
      BY <2>4, <2>6, StatusWritten DEF Fail
    <3>2. SeenRun[c].pc = "ending" /\ SeenRun[c].made = new
      BY <2>1, <2>6 DEF Fail, Phase
    <3>3. Promise!Fail(c)
      BY <2>3, <2>6, <3>1, <3>2 DEF Promise!Fail
    <3>q. QED
      BY <2>1, <3>3 DEF Promise!Step
  <2>q. QED
    BY <1>8, <2>5, <2>6
<1>9. CASE Raise(c) \/ RefuseStop(c)
  <2>1. UNCHANGED SeenStatus
    BY <1>9 DEF Raise, RefuseStop, SeenStatus
  <2>2. CASE c \notin Makers
    BY <1>9, <2>1, <2>2, StopsUnseen DEF Raise, RefuseStop
  <2>3. CASE c \in Makers
    <3>1. SeenRun' = [SeenRun EXCEPT ![c].pc = "raised"]
      <4>1. CASE Raise(c)
        <5>1. call' = [call EXCEPT ![c].pc = "raised"]
          BY <4>1 DEF Raise
        <5>2. "raised" \in Pc /\ Phase("raised") = "raised"
          BY Phases DEF Pc
        <5>q. QED
          BY <2>3, <5>1, <5>2, PhaseMoves
      <4>2. CASE RefuseStop(c)
        <5> DEFINE r == [call[c] EXCEPT !.pc = "raised", !.old = None]
        <5>1. r.pc = "raised" /\ r.new = new
          BY <1>2 DEF Call
        <5>2. call' = [call EXCEPT ![c] = r]
          BY <4>2 DEF RefuseStop
        <5> HIDE DEF r
        <5>3. SeenRun' = [SeenRun EXCEPT ![c] = [pc |-> "raised", made |-> new]]
          <6>1. Phase(r.pc) = "raised"
            BY <5>1, Phases
          <6>q. QED
            BY <2>3, <5>1, <5>2, <6>1, RunMoves
        <5>4. [SeenRun[c] EXCEPT !.pc = "raised"] = [pc |-> "raised", made |-> new]
          BY <1>1, <2>3
        <5>q. QED
          BY <5>3, <5>4
      <4>q. QED
        BY <1>9, <4>1, <4>2
    <3>2. SeenRun[c].pc \in {"idle", "running", "ending"}
      BY <1>1, <1>9, <2>3, Phases DEF Raise, RefuseStop
    <3>3. Promise!Raise(c)
      BY <2>1, <3>1, <3>2 DEF Promise!Raise
    <3>q. QED
      BY <2>3, <3>3 DEF Promise!Step
  <2>q. QED
    BY <2>2, <2>3
<1>10. CASE StopRead(c) \/ Unregister(c) \/ UnregisterFails(c)
  <2>1. UNCHANGED SeenStatus
    BY <1>10 DEF StopRead, Unregister, UnregisterFails, SeenStatus
  <2>2. CASE StopRead(c)
    BY <1>2, <2>1, <2>2, RunStays DEF StopRead, Phase, Call
  <2>3. CASE Unregister(c)
    BY <1>2, <2>1, <2>3, RunStays DEF Unregister, Phase, Call
  <2>4. CASE UnregisterFails(c)
    BY <1>2, <2>1, <2>4, RunStays DEF UnregisterFails, Phase, Call
  <2>q. QED
    BY <1>10, <2>2, <2>3, <2>4
<1>11. CASE Settle(c)
  <2>1. old \in Deployments /\ SeenStatus[old] # "none"
    BY <1>2, <1>11 DEF Settle, OldSound, Known, SeenStatus
  <2>2. SeenStatus' = [SeenStatus EXCEPT ![old] = "stopped"]
    BY <1>11, <2>1, StatusWritten DEF Settle
  <2>3. UNCHANGED SeenRun
    <3>1. CASE c \in Redeploys
      BY <1>2, <1>11, <3>1, RunStays DEF Settle, Phase, Call
    <3>2. CASE c \notin Redeploys
      <4>1. c \notin Makers
        BY <1>11, <3>2 DEF Settle, KindsSound, Makers
      <4>q. QED
        BY <1>11, <4>1, StopsUnseen DEF Settle
    <3>q. QED
      BY <3>1, <3>2
  <2>4. Promise!Stop(old)
    BY <2>1, <2>2, <2>3 DEF Promise!Stop
  <2>q. QED
    BY <2>1, <2>4
<1>q. QED
  BY <1>4, <1>5, <1>6, <1>7, <1>8, <1>9, <1>10, <1>11 DEF Proceed

\* The first step of a call is not seen.
LEMMA BeginUnseen ==
    ASSUME TypeOK, NEW c \in Calls,
           \/ BeginDeploy(c)
           \/ \E d \in Deployments : BeginStop(c, d) \/ BeginRedeploy(c, d)
    PROVE  UNCHANGED <<SeenStatus, SeenRun>>
<1>1. UNCHANGED SeenStatus
  BY DEF BeginDeploy, BeginStop, BeginRedeploy, SeenStatus
<1>2. PICK pc \in {"read", "create"}, old \in Deployments \cup {None} :
         call' = [call EXCEPT ![c] = [call[c] EXCEPT !.pc = pc, !.old = old]]
  <2>1. CASE BeginDeploy(c)
    <3>1. /\ call[c].old \in Deployments \cup {None}
          /\ [call[c] EXCEPT !.pc = "create"]
                 = [call[c] EXCEPT !.pc = "create", !.old = call[c].old]
      BY Typed DEF Call
    <3>2. call' = [call EXCEPT ![c] = [call[c] EXCEPT !.pc = "create", !.old = call[c].old]]
      BY <2>1, <3>1 DEF BeginDeploy
    <3>q. QED
      BY <3>1, <3>2
  <2>2. ASSUME NEW d \in Deployments, BeginStop(c, d) \/ BeginRedeploy(c, d)
        PROVE  \E pc \in {"read", "create"}, old \in Deployments \cup {None} :
                  call' = [call EXCEPT ![c] = [call[c] EXCEPT !.pc = pc, !.old = old]]
    <3>1. CASE BeginStop(c, d) \/ (BeginRedeploy(c, d) /\ CanStop(d))
      <4>1. call' = [call EXCEPT ![c] = [call[c] EXCEPT !.pc = "read", !.old = d]]
        BY <3>1 DEF BeginStop, BeginRedeploy
      <4>q. QED
        BY <4>1
    <3>2. CASE BeginRedeploy(c, d) /\ ~CanStop(d)
      <4>1. call' = [call EXCEPT ![c] = [call[c] EXCEPT !.pc = "create", !.old = None]]
        BY <3>2 DEF BeginRedeploy
      <4>q. QED
        BY <4>1
    <3>q. QED
      BY <2>2, <3>1, <3>2
  <2>q. QED
    BY <2>1, <2>2
<1> DEFINE r == [call[c] EXCEPT !.pc = pc, !.old = old]
<1>3. r.pc = pc /\ r.new = call[c].new
  BY Typed DEF Call
<1>4. call' = [call EXCEPT ![c] = r]
  BY <1>2 DEF r
<1> HIDE DEF r
<1>5. Phase(r.pc) = Phase(call[c].pc)
  BY <1>3, Phases DEF BeginDeploy, BeginStop, BeginRedeploy, At
<1>6. UNCHANGED SeenRun
  BY <1>3, <1>4, <1>5, RunStays
<1>q. QED
  BY <1>1, <1>6

\* A step of the service is one of the promise, or is not seen.
LEMMA PromiseStep ==
    ASSUME IInv, [Next]_vars
    PROVE  Promise!Next \/ UNCHANGED <<SeenStatus, SeenRun>>
<1> USE DEF IInv
<1>1. ASSUME NEW c \in Calls, Proceed(c)
      PROVE Promise!Next \/ UNCHANGED <<SeenStatus, SeenRun>>
  BY <1>1, PromiseProceed DEF Promise!Next
<1>2. ASSUME NEW c \in Calls, Lose(c) PROVE UNCHANGED <<SeenStatus, SeenRun>>
  BY <1>2 DEF Lose, SeenStatus, SeenRun
<1>3. CASE UNCHANGED vars
  BY <1>3 DEF vars, SeenStatus, SeenRun
<1>q. QED
  BY BeginUnseen, <1>1, <1>2, <1>3 DEF Next, Calls

\* The service implements what it promises.
THEOREM DeploymentKeepsPromise == Spec => KeepsPromise
<1>1. Init => Promise!Init
  BY DeploymentAssumption
     DEF Init, NoCall, Promise!Init, SeenStatus, SeenRun, Phase, Makers, Calls
<1>2. IInv /\ [Next]_vars => [Promise!Next]_(Promise!vars)
  BY PromiseStep DEF Promise!vars
<1>q. QED
  BY <1>1, <1>2, IInvHolds, PTL DEF Spec, KeepsPromise, Promise!Spec

(***************************************************************************)
(* Promotions over the service.                                            *)
(***************************************************************************)
\* A step of the system is one of the deployment service, or none.
LEMMA SystemStep ==
    ASSUME [SystemNext]_systemVars
    PROVE  [Next]_vars
BY DEF SystemNext, systemVars, vars, Arrive, Manage, CutRequest, Enter, Serve,
       LoseCall, Next

\* Whatever requests of promotions do, calls of deploy, stop and redeploy go by
\* their own steps: the composition adds no way through the service.
LEMMA SystemRefines == SystemSpec => Spec
BY SystemStep, PTL DEF SystemSpec, SystemInit, Spec

\* What DeploymentPromise says in one instance it says in the other.
LEMMA SamePromise ==
    /\ Promise!Init <=> Promoting!Init
    /\ \A c : Promise!Step(c) <=> Promoting!Step(c)
    /\ \A d : Promise!Stop(d) <=> Promoting!Stop(d)
BY DEF Promise!Init, Promoting!Init,
       Promise!Step, Promise!Make, Promise!Activate, Promise!Falter, Promise!Fail,
       Promise!Raise, Promise!Stop,
       Promoting!Step, Promoting!Make, Promoting!Activate, Promoting!Falter,
       Promoting!Fail, Promoting!Raise, Promoting!Stop

\* What a step of the service is for the promotions.
LEMMA ServeSeen ==
    ASSUME IInv, NEW c \in Calls, Serve(c)
    PROVE  Promoting!PromotionNext \/ UNCHANGED <<SeenStatus, SeenRun, promotionVars>>
<1>1. CASE c \in Makers /\ Promise!Step(c)
  <2>1. Promoting!Step(c) /\ UNCHANGED Promoting!promotionVars
    BY <1>1, SamePromise DEF Serve, promotionVars, Promoting!promotionVars
  <2>2. CASE c \in Requests
    <3>1. c \in Promoting!Executors
      BY <2>2, CompositionAssumption DEF Requests, Promoting!Requests, Promoting!Executors
    <3>2. Promoting!Deploy(c)
      BY <2>1, <2>2 DEF Promoting!Deploy, Promoting!Is, Serve, Awaited
    <3>q. QED
      BY <2>2, <3>1, <3>2 DEF Promoting!PromotionNext, Promoting!Handle, Requests
  <2>3. CASE c \notin Requests
    BY <1>1, <2>1, <2>3 DEF Promoting!PromotionNext, Promoting!OthersDeploy, Requests
  <2>q. QED
    BY <2>2, <2>3
<1>2. ASSUME NEW d \in Deployments, Promise!Stop(d) PROVE Promoting!PromotionNext
  <2>1. Promoting!StopDeployment(d)
    BY <1>2, SamePromise
       DEF Promoting!StopDeployment, Serve, promotionVars, Promoting!promotionVars
  <2>q. QED
    BY <2>1 DEF Promoting!PromotionNext
<1>3. CASE UNCHANGED <<SeenStatus, SeenRun>>
  BY <1>3 DEF Serve
<1>q. QED
  BY <1>1, <1>2, <1>3, PromiseProceed DEF Serve

\* A step of the system is one of Promotion, or is not seen there.
LEMMA PromotionStep ==
    ASSUME IInv, [SystemNext]_systemVars
    PROVE  Promoting!PromotionNext \/ UNCHANGED <<SeenStatus, SeenRun, promotionVars>>
<1>1. UNCHANGED vars => UNCHANGED <<SeenStatus, SeenRun>>
  BY DEF vars, SeenStatus, SeenRun
<1>2. ASSUME NEW q \in Requests, Arrive(q) PROVE Promoting!PromotionNext
  BY <1>2 DEF Arrive, Promoting!PromotionNext, Requests, Promoting!Requests
<1>3. ASSUME NEW q \in Requests, Manage(q) PROVE Promoting!PromotionNext
  BY <1>3 DEF Manage, Promoting!PromotionNext, Promoting!Handle, Requests
<1>4. ASSUME NEW q \in Requests, CutRequest(q) PROVE Promoting!PromotionNext
  BY <1>4 DEF CutRequest, Promoting!PromotionNext, Requests
<1>5. ASSUME NEW c \in Calls, Enter(c)
      PROVE  UNCHANGED <<SeenStatus, SeenRun, promotionVars>>
  BY <1>5, BeginUnseen DEF Enter, IInv
<1>6. ASSUME NEW c \in Calls, LoseCall(c)
      PROVE  UNCHANGED <<SeenStatus, SeenRun, promotionVars>>
  BY <1>6 DEF LoseCall, Lose, SeenStatus, SeenRun
<1>7. CASE UNCHANGED systemVars
  BY <1>1, <1>7 DEF systemVars
<1>q. QED
  BY <1>2, <1>3, <1>4, <1>5, <1>6, <1>7, ServeSeen DEF SystemNext

\* Over the service as it is coded, promotions do what Promotion says, which
\* knows the service by its promise only.
THEOREM SystemKeepsPromotion == SystemSpec => KeepsPromotion
<1>1. SystemInit => Promoting!PromotionInit
  BY DEF SystemInit
<1>2. IInv /\ [SystemNext]_systemVars => [Promoting!PromotionNext]_(Promoting!allVars)
  BY PromotionStep
     DEF Promoting!allVars, Promoting!vars, Promoting!promotionVars, promotionVars
<1>3. SystemSpec => []IInv
  BY SystemRefines, IInvHolds, PTL
<1>q. QED
  BY <1>1, <1>2, <1>3, PTL DEF SystemSpec, KeepsPromotion, Promoting!PromotionSpec

\* The rows, the gateway and the calls have their types in the composition, too.
THEOREM SystemTypeOK == SystemSpec => []TypeOK
BY SystemRefines, DeploymentTypeOK, PTL

\* While promotions deploy, every row that says active is served.
THEOREM SystemActiveIsServed == SystemSpec => []ActiveIsServed
BY SystemRefines, DeploymentActiveIsServed, PTL

\* While promotions deploy, what the gateway serves has its cause.
THEOREM SystemLeftoverHasCause == SystemSpec => []LeftoverHasCause
BY SystemRefines, DeploymentLeftoverHasCause, PTL

\* No promotion brings a deployment back that was stopped.
THEOREM SystemStopHolds == SystemSpec => StopHolds
BY SystemRefines, DeploymentStopHolds, PTL

(***************************************************************************)
(* What PromotionProofs proves of promotions over the promise of the       *)
(* service holds over the service.                                         *)
(***************************************************************************)
Promoted == INSTANCE PromotionProofs WITH
    Stoppable <- Deployments, status <- SeenStatus, run <- SeenRun

\* The deployments and their calls are what Promotion assumes of them.
LEMMA ServesPromotion == Promoted!PromotionAssumption /\ Promoted!PromiseAssumption
BY DeploymentAssumption, CompositionAssumption
   DEF Promoted!PromotionAssumption, Promoted!PromiseAssumption,
       Promoted!Executors,
       Promoting!Executors, Makers, Calls

\* The instance that has the theorems is the one that the composition is built of.
LEMMA SameInit == Promoting!PromotionInit <=> Promoted!PromotionInit
BY DEF Promoting!PromotionInit, Promoting!Init, Promoting!Requests,
       Promoted!PromotionInit, Promoted!Init, Promoted!Requests

LEMMA SameNext ==
    [Promoting!PromotionNext]_(Promoting!allVars) <=> [Promoted!PromotionNext]_(Promoted!allVars)
BY DEF Promoting!PromotionNext, Promoting!Create, Promoting!Begin,
       Promoting!ReadPending, Promoting!ReadDecided, Promoting!Approve,
       Promoting!Reject, Promoting!ExecuteRead, Promoting!SourceRead,
       Promoting!DeployReturned, Promoting!DeployRaised, Promoting!Complete,
       Promoting!CompleteFails, Promoting!MarkFailed, Promoting!Deploy,
       Promoting!Step, Promoting!Make, Promoting!Activate, Promoting!Falter,
       Promoting!Fail, Promoting!Raise, Promoting!Stop, Promoting!Cut,
       Promoting!StopDeployment, Promoting!OthersDeploy, Promoting!Handle,
       Promoting!Manage, Promoting!Is, Promoting!Goes, Promoting!InFlight,
       Promoting!Starts, Promoting!Closes, Promoting!Working, Promoting!WorkingOn,
       Promoting!Executable, Promoting!Requests, Promoting!Executors,
       Promoting!vars, Promoting!promotionVars, Promoting!allVars,
       Promoted!PromotionNext, Promoted!Create, Promoted!Begin,
       Promoted!ReadPending, Promoted!ReadDecided, Promoted!Approve,
       Promoted!Reject, Promoted!ExecuteRead, Promoted!SourceRead,
       Promoted!DeployReturned, Promoted!DeployRaised, Promoted!Complete,
       Promoted!CompleteFails, Promoted!MarkFailed, Promoted!Deploy,
       Promoted!Step, Promoted!Make, Promoted!Activate, Promoted!Falter,
       Promoted!Fail, Promoted!Raise, Promoted!Stop, Promoted!Cut,
       Promoted!StopDeployment, Promoted!OthersDeploy, Promoted!Handle,
       Promoted!Manage, Promoted!Is, Promoted!Goes, Promoted!InFlight,
       Promoted!Starts, Promoted!Closes, Promoted!Working, Promoted!WorkingOn,
       Promoted!Executable, Promoted!Requests, Promoted!Executors,
       Promoted!vars, Promoted!promotionVars, Promoted!allVars

LEMMA SameProperties ==
    /\ Promoting!ApprovedFirst <=> Promoted!ApprovedFirst
    /\ Promoting!NamesItsDeployment <=> Promoted!NamesItsDeployment
    /\ Promoting!StrandedByError <=> Promoted!StrandedByError
    /\ Promoting!ClosedOnce <=> Promoted!ClosedOnce
    /\ Promoting!ClosingStands <=> Promoted!ClosingStands
BY DEF Promoting!ApprovedFirst, Promoting!NamesItsDeployment, Promoting!StrandedByError,
       Promoting!ClosedOnce, Promoting!ClosingStands, Promoting!Executors,
       Promoting!Requests, Promoting!InFlight, Promoting!Is, Promoting!Closed,
       Promoting!Reopened, Promoting!Undisturbed,
       Promoted!ApprovedFirst, Promoted!NamesItsDeployment, Promoted!StrandedByError,
       Promoted!ClosedOnce, Promoted!ClosingStands, Promoted!Executors,
       Promoted!Requests, Promoted!InFlight, Promoted!Is, Promoted!Closed,
       Promoted!Reopened, Promoted!Undisturbed

LEMMA SystemPromoted == SystemSpec => Promoted!PromotionSpec
BY SystemKeepsPromotion, SameInit, SameNext, PTL
   DEF KeepsPromotion, Promoting!PromotionSpec, Promoted!PromotionSpec

\* What create and approve deploy at the gateway is approved where it has to be.
THEOREM SystemApprovedFirst == SystemSpec => []Promoting!ApprovedFirst
<1>1. Promoted!PromotionSpec => []Promoted!ApprovedFirst
  BY ServesPromotion, Promoted!PromotionApprovedFirst
<1>q. QED
  BY <1>1, SystemPromoted, SameProperties, PTL

\* A completed promotion names the row of a call of deploy that returned to a
\* request on it.
THEOREM SystemNamesItsDeployment == SystemSpec => []Promoting!NamesItsDeployment
<1>1. Promoted!PromotionSpec => []Promoted!NamesItsDeployment
  BY ServesPromotion, Promoted!PromotionNamesItsDeployment
<1>q. QED
  BY <1>1, SystemPromoted, SameProperties, PTL

\* An approved promotion has a request that still works on it, or one that failed:
\* nothing else can keep it from the gateway.
THEOREM SystemStrandedByError == SystemSpec => []Promoting!StrandedByError
<1>1. Promoted!PromotionSpec => []Promoted!StrandedByError
  BY ServesPromotion, Promoted!PromotionStrandedByError
<1>q. QED
  BY <1>1, SystemPromoted, SameProperties, PTL

\* Whatever goes on at the gateway, a promotion is closed twice by overlap only.
THEOREM SystemClosedOnce == SystemSpec => []Promoting!ClosedOnce
<1>1. Promoted!PromotionSpec => []Promoted!ClosedOnce
  BY ServesPromotion, Promoted!PromotionClosedOnce
<1>q. QED
  BY <1>1, SystemPromoted, SameProperties, PTL

\* ... and closed by one request alone, it keeps what that wrote.
THEOREM SystemClosingStands == SystemSpec => []Promoting!ClosingStands
<1>1. Promoted!PromotionSpec => []Promoted!ClosingStands
  BY ServesPromotion, Promoted!PromotionClosingStands
<1>q. QED
  BY <1>1, SystemPromoted, SameProperties, PTL

\* Over the service, too, what a completed promotion names is at rest.
LEMMA SystemCompletedIsSettled == SystemSpec => []Promoting!CompletedIsSettled
<1>1. Promoted!PromotionSpec => []Promoted!CompletedIsSettled
  BY ServesPromotion, Promoted!PromotionCompletedIsSettled
<1>2. Promoted!CompletedIsSettled => Promoting!CompletedIsSettled
  BY DEF Promoting!CompletedIsSettled, Promoted!CompletedIsSettled,
         Promoting!Settled, Promoted!Settled
<1>q. QED
  BY <1>1, <1>2, SystemPromoted, PTL

\* And where it is active the gateway serves it: what the promotion says, what the
\* row says and what the gateway does go together.
THEOREM SystemCompletedIsServed == SystemSpec => []CompletedIsServed
<1>1. ASSUME Promoting!PromotionTypeOK, Promoting!CompletedIsSettled, ActiveIsServed
      PROVE  CompletedIsServed
  <2>1. SUFFICES ASSUME NEW p \in Promotions, promotion[p].status = "completed",
                        NEW d, d = promotion[p].target
                 PROVE  /\ d # None
                        /\ row[d].status \in {"active", "failed", "stopped"}
                        /\ row[d].status = "active" =>
                             \/ row[d].registered /\ d \in held
                             \/ \E c \in Calls : /\ call[c].old = d
                                                 /\ call[c].freed /\ call[c].pc = "settle"
    BY DEF CompletedIsServed
  <2>2. promotion[p].target \in Deployments \cup {None}
    BY <1>1 DEF Promoting!PromotionTypeOK, Promoting!PromotionRow
  <2>3. d # None /\ d \in Deployments /\ SeenStatus[d] \in {"active", "failed", "stopped"}
    BY <1>1, <2>1, <2>2 DEF Promoting!CompletedIsSettled, Promoting!Settled
  <2>4. row[d].status \in {"active", "failed", "stopped"}
    BY <2>3 DEF SeenStatus
  <2>q. QED
    BY <1>1, <2>3, <2>4 DEF ActiveIsServed
<1>2. Promoted!PromotionSpec => []Promoted!PromotionTypeOK
  BY ServesPromotion, Promoted!PromotionTypeCorrect
<1>3. Promoted!PromotionTypeOK => Promoting!PromotionTypeOK
  BY DEF Promoting!PromotionTypeOK, Promoting!TypeOK, Promoting!Run, Promoting!Request,
         Promoting!PromotionRow, Promoting!Requests,
         Promoted!PromotionTypeOK, Promoted!TypeOK, Promoted!Run, Promoted!Request,
         Promoted!PromotionRow, Promoted!Requests
<1>q. QED
  BY <1>1, <1>2, <1>3, SystemPromoted, SystemCompletedIsSettled, SystemActiveIsServed, PTL

=============================================================================

--------------------------- MODULE PromotionProofs ---------------------------
(* Theorems about Promotion, for any number of promotions and requests.    *)
EXTENDS Promotion, TLAPS

\* What the type invariant says of one request, promotion and call of deploy.
LEMMA TypedPromotion ==
    ASSUME PromotionTypeOK
    PROVE  /\ \A q \in Requests : /\ request[q] \in Request
                                  /\ request[q].on \in Promotions \cup {None}
           /\ \A p \in Promotions : promotion[p] \in PromotionRow
           /\ \A q \in Makers : /\ run[q] \in Run
                                /\ run[q].made \in Deployments \cup {None}
<1>1. \A q \in Requests : request[q] \in Request
  BY DEF PromotionTypeOK
<1>2. \A r \in Request : r.on \in Promotions \cup {None}
  BY DEF Request
<1>3. \A q \in Makers : run[q] \in Run
  BY DEF PromotionTypeOK, TypeOK
<1>4. \A r \in Run : r.made \in Deployments \cup {None}
  BY DEF Run
<1>q. QED
  BY <1>1, <1>2, <1>3, <1>4 DEF PromotionTypeOK

\* Writing the status of a promotion, and what goes with it, leaves it one.
LEMMA PromotionFields ==
    ASSUME NEW r \in PromotionRow,
           NEW s \in {"pending", "approved", "rejected", "completed", "failed"}
    PROVE  /\ [r EXCEPT !.status = s] \in PromotionRow
           /\ [r EXCEPT !.status = s, !.approved = TRUE] \in PromotionRow
           /\ \A d \in Deployments \cup {None} :
                 /\ [r EXCEPT !.status = s, !.target = d] \in PromotionRow
                 /\ \A n \in BOOLEAN :
                       [r EXCEPT !.status = s, !.needs = n, !.source = d] \in PromotionRow
BY DEF PromotionRow

\* A step that rewrites one promotion and moves one request keeps the types.
LEMMA RowsKept ==
    ASSUME PromotionTypeOK, NEW p \in Promotions, NEW r \in PromotionRow,
           promotion' = [promotion EXCEPT ![p] = r]
    PROVE  promotion' \in [Promotions -> PromotionRow]
BY DEF PromotionTypeOK

\* A step that moves one request keeps the types.
LEMMA RequestsKept ==
    ASSUME PromotionTypeOK, NEW q \in Requests,
           NEW pc \in {"read", "approve", "reject", "execute", "source", "deploy", "complete",
                       "fail", "done", "failed", "raised", "cut"},
           Goes(q, pc) \/ Closes(q, pc) \/ \E p \in Promotions : Starts(q, pc, p)
    PROVE  request' \in [Requests -> Request]
<1>1. CASE Goes(q, pc)
  BY <1>1 DEF PromotionTypeOK, Goes, Request
<1>2. CASE Closes(q, pc)
  <2>1. \A r \in Request, b \in BOOLEAN :
           [r EXCEPT !.pc = pc] \in Request /\ [r EXCEPT !.stale = @ \/ b] \in Request
    BY DEF Request
  <2>2. \A r \in Requests : WorkingOn(r, request[q].on) \in BOOLEAN
    BY DEF WorkingOn
  <2>q. QED
    BY <1>2, <2>1, <2>2 DEF PromotionTypeOK, Closes
<1>3. CASE \E p \in Promotions : Starts(q, pc, p)
  <2>1. \A r \in Request, p \in Promotions : [r EXCEPT !.pc = pc, !.on = p] \in Request
    BY DEF Request
  <2>2. PICK p \in Promotions : Starts(q, pc, p)
    BY <1>3
  <2>3. [request[q] EXCEPT !.pc = pc, !.on = p] \in Request
    BY <2>1 DEF PromotionTypeOK
  <2>q. QED
    BY <2>2, <2>3 DEF PromotionTypeOK, Starts
<1>q. QED
  BY <1>1, <1>2, <1>3

\* What these steps do to the requests, field by field.
LEMMA RequestFields ==
    ASSUME PromotionTypeOK, NEW q \in Requests, NEW pc
    PROVE  /\ Goes(q, pc) \/ Closes(q, pc) => \A r \in Requests :
                 /\ request'[r].pc = IF r = q THEN pc ELSE request[r].pc
                 /\ request'[r].on = request[r].on
           /\ Goes(q, pc) => \A r \in Requests : request'[r].stale = request[r].stale
           /\ Closes(q, pc) => \A r \in Requests : request'[r].stale
                 <=> (request[r].stale \/ (r # q /\ WorkingOn(r, request[q].on)))
           /\ \A p : Starts(q, pc, p) =>
                 /\ \A r \in Requests \ {q} : request'[r] = request[r]
                 /\ request'[q].pc = pc
                 /\ request'[q].on = p
                 /\ request'[q].stale = request[q].stale
<1> \A r \in Requests : /\ request[r].stale \in BOOLEAN
                        /\ WorkingOn(r, request[q].on) \in BOOLEAN
  BY DEF PromotionTypeOK, Request, WorkingOn
<1>1. Goes(q, pc) => \A r \in Requests :
         /\ request'[r].pc = IF r = q THEN pc ELSE request[r].pc
         /\ request'[r].on = request[r].on
         /\ request'[r].stale = request[r].stale
  BY DEF PromotionTypeOK, Goes, Request
<1>2. Closes(q, pc) => \A r \in Requests :
         /\ request'[r].pc = IF r = q THEN pc ELSE request[r].pc
         /\ request'[r].on = request[r].on
  BY DEF PromotionTypeOK, Closes, Request
<1>3. Closes(q, pc) => \A r \in Requests : request'[r].stale
         <=> (request[r].stale \/ (r # q /\ WorkingOn(r, request[q].on)))
  BY DEF PromotionTypeOK, Closes, Request
<1>4. \A p : Starts(q, pc, p) =>
         /\ \A r \in Requests \ {q} : request'[r] = request[r]
         /\ request'[q].pc = pc
         /\ request'[q].on = p
         /\ request'[q].stale = request[q].stale
  BY DEF PromotionTypeOK, Starts, Request
<1>q. QED
  BY <1>1, <1>2, <1>3, <1>4

LEMMA StartsFields ==
    ASSUME PromotionTypeOK
    PROVE  \A q \in Requests, p \in Promotions :
              \A pc \in {"read", "execute", "done"} : Starts(q, pc, p) =>
                 /\ \A r \in Requests \ {q} : request'[r] = request[r]
                 /\ request'[q].pc = pc
                 /\ request'[q].on = p
                 /\ request'[q].stale = request[q].stale
BY RequestFields

\* A step of a call of deploy keeps the types.
LEMMA StepTypeOK ==
    ASSUME TypeOK, NEW c \in Makers, Step(c)
    PROVE  TypeOK'
<1> USE PromiseAssumption DEF TypeOK, Run
<1>1. CASE Make(c)
  BY <1>1 DEF Make
<1>2. CASE Activate(c)
  BY <1>2 DEF Activate
<1>3. CASE Falter(c)
  <2>1. run' \in [Makers -> Run]
    BY <1>3 DEF Falter
  <2>2. status' \in [Deployments -> {"none", "busy", "active", "failed", "stopped"}]
    BY <1>3 DEF Falter
  <2>q. QED
    BY <2>1, <2>2
<1>4. CASE Fail(c)
  BY <1>4 DEF Fail
<1>5. CASE Raise(c)
  BY <1>5 DEF Raise
<1>q. QED
  BY <1>1, <1>2, <1>3, <1>4, <1>5 DEF Step

\* A call of deploy leaves the other calls alone, and those that returned.
LEMMA StepStays ==
    ASSUME TypeOK, NEW c \in Makers, Step(c)
    PROVE  \A m \in Makers : m # c \/ run[m].pc = "returned" => run'[m] = run[m]
BY DEF TypeOK, Step, Make, Activate, Falter, Fail, Raise

\* Each of the steps of a request keeps the types.
LEMMA HandleTypeOK ==
    ASSUME PromotionTypeOK, RequestsSound, NEW q \in Requests, Handle(q)
    PROVE  PromotionTypeOK'
<1>a. ASSUME ~Is(q, "idle") PROVE request[q].on \in Promotions
  BY <1>a, TypedPromotion DEF RequestsSound, RequestSound
<1>b. TypeOK /\ UNCHANGED vars => TypeOK'
  BY DEF TypeOK, vars
<1>1. CASE \/ ReadPending(q) \/ ReadDecided(q) \/ ExecuteRead(q) \/ SourceRead(q)
           \/ DeployReturned(q) \/ DeployRaised(q)
  <2>1. request' \in [Requests -> Request]
    BY <1>1, RequestsKept
       DEF ReadPending, ReadDecided, ExecuteRead, SourceRead, DeployReturned, DeployRaised
  <2>2. UNCHANGED <<vars, promotion>>
    BY <1>1
       DEF ReadPending, ReadDecided, ExecuteRead, SourceRead, DeployReturned, DeployRaised
  <2>q. QED
    BY <2>1, <2>2, <1>b DEF PromotionTypeOK
<1>2. CASE Approve(q)
  <2>1. request[q].on \in Promotions
    BY <1>a, <1>2 DEF Approve, Is
  <2>3. [promotion[request[q].on] EXCEPT !.status = "approved", !.approved = TRUE]
          \in PromotionRow
    BY <2>1, TypedPromotion, PromotionFields
  <2>4. promotion' \in [Promotions -> PromotionRow]
    BY <1>2, <2>1, <2>3, RowsKept DEF Approve
  <2>5. request' \in [Requests -> Request]
    BY <1>2, RequestsKept DEF Approve
  <2>q. QED
    BY <1>2, <1>b, <2>4, <2>5 DEF Approve, PromotionTypeOK
<1>3. CASE Reject(q)
  <2>1. request[q].on \in Promotions
    BY <1>a, <1>3 DEF Reject, Is
  <2>3. [promotion[request[q].on] EXCEPT !.status = "rejected"]
          \in PromotionRow
    BY <2>1, TypedPromotion, PromotionFields
  <2>4. promotion' \in [Promotions -> PromotionRow]
    BY <1>3, <2>1, <2>3, RowsKept DEF Reject
  <2>5. request' \in [Requests -> Request]
    BY <1>3, RequestsKept DEF Reject
  <2>q. QED
    BY <1>3, <1>b, <2>4, <2>5 DEF Reject, PromotionTypeOK
<1>4. CASE Complete(q)
  <2>1. request[q].on \in Promotions
    BY <1>a, <1>4 DEF Complete, Is
  <2>2. q \in Makers
    BY <1>4, PromotionAssumption DEF Complete, Is, RequestsSound, RequestSound
  <2>3. [promotion[request[q].on] EXCEPT !.status = "completed", !.target = run[q].made]
          \in PromotionRow
    BY <2>1, <2>2, TypedPromotion, PromotionFields
  <2>4. promotion' \in [Promotions -> PromotionRow]
    BY <1>4, <2>1, <2>3, RowsKept DEF Complete
  <2>5. request' \in [Requests -> Request]
    BY <1>4, RequestsKept DEF Complete
  <2>q. QED
    BY <1>4, <1>b, <2>4, <2>5 DEF Complete, PromotionTypeOK
<1>5. CASE CompleteFails(q)
  <2>1. request[q].on \in Promotions
    BY <1>a, <1>5 DEF CompleteFails, Is
  <2>2. q \in Makers
    BY <1>5, PromotionAssumption DEF CompleteFails, Is, RequestsSound, RequestSound
  <2>3. [promotion[request[q].on] EXCEPT !.status = "completed", !.target = run[q].made]
          \in PromotionRow
    BY <2>1, <2>2, TypedPromotion, PromotionFields
  <2>4. promotion' \in [Promotions -> PromotionRow]
    BY <1>5, <2>1, <2>3, RowsKept DEF CompleteFails, PromotionTypeOK
  <2>5. request' \in [Requests -> Request]
    BY <1>5, RequestsKept DEF CompleteFails
  <2>q. QED
    BY <1>5, <1>b, <2>4, <2>5 DEF CompleteFails, PromotionTypeOK
<1>6. CASE MarkFailed(q)
  <2>1. request[q].on \in Promotions
    BY <1>a, <1>6 DEF MarkFailed, Is
  <2>3. [promotion[request[q].on] EXCEPT !.status = "failed"]
          \in PromotionRow
    BY <2>1, TypedPromotion, PromotionFields
  <2>4. promotion' \in [Promotions -> PromotionRow]
    BY <1>6, <2>1, <2>3, RowsKept DEF MarkFailed
  <2>5. request' \in [Requests -> Request]
    BY <1>6, RequestsKept DEF MarkFailed
  <2>q. QED
    BY <1>6, <1>b, <2>4, <2>5 DEF MarkFailed, PromotionTypeOK
<1>7. CASE q \in Executors /\ Deploy(q)
  BY <1>7, StepTypeOK, PromotionAssumption DEF Deploy, PromotionTypeOK, promotionVars
<1>q. QED
  BY <1>1, <1>2, <1>3, <1>4, <1>5, <1>6, <1>7 DEF Handle, Manage

\* Every step keeps the types.
LEMMA PromotionTypeOKStep ==
    ASSUME PromotionTypeOK, RequestsSound, [PromotionNext]_allVars
    PROVE  PromotionTypeOK'
<1>b. TypeOK /\ UNCHANGED vars => TypeOK'
  BY DEF TypeOK, vars
<1>1. ASSUME NEW q \in Creates, Create(q) PROVE PromotionTypeOK'
  <2> q \in Requests
    BY DEF Requests, Executors
  <2>1. PICK p \in Promotions, d \in Deployments, needed \in BOOLEAN :
           /\ promotion' = [promotion EXCEPT ![p] = [promotion[p] EXCEPT
                  !.status = "pending", !.needs = needed, !.source = d]]
           /\ Starts(q, IF needed THEN "done" ELSE "execute", p)
    BY <1>1 DEF Create
  <2>2. [promotion[p] EXCEPT !.status = "pending", !.needs = needed, !.source = d]
           \in PromotionRow
    BY TypedPromotion, PromotionFields
  <2>3. promotion' \in [Promotions -> PromotionRow]
    BY <2>1, <2>2, RowsKept
  <2>5. request' \in [Requests -> Request]
    BY <2>1, RequestsKept
  <2>q. QED
    BY <1>1, <1>b, <2>3, <2>5 DEF Create, PromotionTypeOK
<1>2. ASSUME NEW q \in Requests \ Creates, NEW p \in Promotions, Begin(q, p)
      PROVE  PromotionTypeOK'
  <2>2. request' \in [Requests -> Request]
    BY <1>2, RequestsKept DEF Begin
  <2>q. QED
    BY <1>2, <1>b, <2>2 DEF Begin, PromotionTypeOK
<1>3. ASSUME NEW q \in Requests, Handle(q) PROVE PromotionTypeOK'
  BY <1>3, HandleTypeOK
<1>4. ASSUME NEW q \in Requests, Cut(q) PROVE PromotionTypeOK'
  <2>1. request' \in [Requests -> Request]
    BY <1>4, RequestsKept DEF Cut
  <2>q. QED
    BY <1>4, <1>b, <2>1 DEF Cut, PromotionTypeOK
<1>5. ASSUME NEW d \in Stoppable, StopDeployment(d) PROVE PromotionTypeOK'
  BY <1>5, PromotionAssumption
     DEF StopDeployment, Stop, PromotionTypeOK, TypeOK, promotionVars
<1>6. CASE UNCHANGED allVars
  BY <1>6, <1>b DEF allVars, promotionVars, PromotionTypeOK
<1>7. ASSUME NEW c \in Makers \ Requests, OthersDeploy(c) PROVE PromotionTypeOK'
  BY <1>7, StepTypeOK DEF OthersDeploy, PromotionTypeOK, promotionVars
<1>q. QED
  BY <1>1, <1>2, <1>3, <1>4, <1>5, <1>6, <1>7 DEF PromotionNext

\* The strengthening holds at first ...
LEMMA PromotionSoundInit == PromotionInit => PromotionTypeOK /\ PromotionSound
<1> SUFFICES ASSUME PromotionInit PROVE PromotionTypeOK /\ PromotionSound
  OBVIOUS
<1> USE PromiseAssumption, PromotionAssumption DEF PromotionInit, Init
<1>1. TypeOK
  BY DEF TypeOK, Run
<1>2. PromotionTypeOK
  BY <1>1 DEF PromotionTypeOK, PromotionRow, Request
<1>3. RequestsSound
  BY DEF RequestsSound, RequestSound, Is, Requests, Executors
<1>4. DecisionsSound
  BY DEF DecisionsSound, Executing, Requests, Executors
<1>q. QED
  BY <1>2, <1>3, <1>4 DEF PromotionSound

\* No step takes back a promotion, what it needs or an approval.
LEMMA DecisionsStay ==
    ASSUME PromotionTypeOK, RequestsSound, NEW q \in Requests, Handle(q), NEW p \in Promotions
    PROVE  /\ promotion[p].status # "none" => promotion'[p].status # "none"
           /\ promotion'[p].needs = promotion[p].needs
           /\ promotion[p].approved => promotion'[p].approved
<1>1. promotion[p] \in PromotionRow /\ promotion \in [Promotions -> PromotionRow]
  BY DEF PromotionTypeOK
<1>2. \/ promotion' = promotion
      \/ \E s \in {"approved", "rejected", "failed"} :
            promotion' = [promotion EXCEPT ![request[q].on].status = s]
      \/ promotion' = [promotion EXCEPT ![request[q].on] = [@ EXCEPT
            !.status = "approved", !.approved = TRUE]]
      \/ promotion' = [promotion EXCEPT ![request[q].on] = [@ EXCEPT
            !.status = "completed", !.target = run[q].made]]
  BY DEF Handle, Manage, ReadPending, ReadDecided, Approve, Reject, ExecuteRead, SourceRead,
     Deploy, promotionVars, DeployReturned, DeployRaised, Complete, CompleteFails, MarkFailed
<1>3. ASSUME NEW s \in {"approved", "rejected", "failed", "completed"}, NEW d
      PROVE  /\ [promotion[p] EXCEPT !.status = s].status = s
             /\ [promotion[p] EXCEPT !.status = s].needs = promotion[p].needs
             /\ [promotion[p] EXCEPT !.status = s].approved = promotion[p].approved
             /\ [promotion[p] EXCEPT !.status = s, !.approved = TRUE].status = s
             /\ [promotion[p] EXCEPT !.status = s, !.approved = TRUE].needs = promotion[p].needs
             /\ [promotion[p] EXCEPT !.status = s, !.approved = TRUE].approved
             /\ [promotion[p] EXCEPT !.status = s, !.target = d].status = s
             /\ [promotion[p] EXCEPT !.status = s, !.target = d].needs = promotion[p].needs
             /\ [promotion[p] EXCEPT !.status = s, !.target = d].approved = promotion[p].approved
  BY <1>1 DEF PromotionRow
<1>4. CASE promotion' = promotion
  BY <1>4
<1>5. CASE \E s \in {"approved", "rejected", "failed"} :
            promotion' = [promotion EXCEPT ![request[q].on].status = s]
  BY <1>1, <1>3, <1>5
<1>6. CASE promotion' = [promotion EXCEPT ![request[q].on] = [@ EXCEPT
            !.status = "approved", !.approved = TRUE]]
  BY <1>1, <1>3, <1>6
<1>7. CASE promotion' = [promotion EXCEPT ![request[q].on] = [@ EXCEPT
            !.status = "completed", !.target = run[q].made]]
  BY <1>1, <1>3, <1>7
<1>q. QED
  BY <1>2, <1>4, <1>5, <1>6, <1>7

\* The update that raises once it took effect.
CompletesAndFails(q) ==
    /\ Is(q, "complete")
    /\ promotion' = [promotion EXCEPT ![request[q].on] = [@ EXCEPT
           !.status = "completed", !.target = run[q].made]]
    /\ Closes(q, "fail")
    /\ UNCHANGED vars

\* The steps that close the promotion of request q.
Writes(q) == Reject(q) \/ Complete(q) \/ CompletesAndFails(q) \/ MarkFailed(q)

\* What these steps do, field by field.
LEMMA WritesFields ==
    ASSUME PromotionTypeOK, RequestsSound, NEW q \in Requests, Writes(q)
    PROVE  LET p == request[q].on IN
           /\ p \in Promotions
           /\ Working(q)
           /\ UNCHANGED vars
           /\ \A r \in Requests :
                 /\ request'[r].on = request[r].on
                 /\ r # q => request'[r].pc = request[r].pc
                 /\ request'[r].stale <=> (request[r].stale \/ (r # q /\ WorkingOn(r, p)))
           /\ \A o \in Promotions \ {p} : promotion'[o] = promotion[o]
           /\ \/ /\ q \in Rejects /\ request'[q].pc = "done"
                 /\ promotion'[p].status = "rejected"
                 /\ promotion'[p].target = promotion[p].target
              \/ /\ q \in Executors /\ Is(q, "complete") /\ run[q].pc = "returned"
                 /\ request'[q].pc \in {"done", "fail"}
                 /\ promotion'[p].status = "completed"
                 /\ promotion'[p].target = run[q].made
              \/ /\ q \in Executors /\ Is(q, "fail")
                 /\ request'[q].pc = "failed"
                 /\ promotion'[p].status = "failed"
                 /\ promotion'[p].target = promotion[p].target
<1> DEFINE p == request[q].on
<1>1. p \in Promotions /\ Working(q)
  BY TypedPromotion DEF Writes, Reject, Complete, CompletesAndFails, MarkFailed, Is, Working,
     RequestsSound, RequestSound
<1>2. /\ promotion \in [Promotions -> PromotionRow]
      /\ \A s, d : /\ [promotion[p] EXCEPT !.status = s].status = s
                   /\ [promotion[p] EXCEPT !.status = s].target = promotion[p].target
                   /\ [promotion[p] EXCEPT !.status = s, !.target = d].status = s
                   /\ [promotion[p] EXCEPT !.status = s, !.target = d].target = d
  BY <1>1 DEF PromotionTypeOK, PromotionRow
<1>3. \E pc \in {"done", "fail", "failed"} : Closes(q, pc)
  BY DEF Writes, Reject, Complete, CompletesAndFails, MarkFailed
<1>4. \A r \in Requests :
        /\ request'[r].on = request[r].on
        /\ r # q => request'[r].pc = request[r].pc
        /\ request'[r].stale <=> (request[r].stale \/ (r # q /\ WorkingOn(r, p)))
  BY <1>3, RequestFields
<1>5. CASE Reject(q)
  <2>1. q \in Rejects /\ request'[q].pc = "done" /\ UNCHANGED vars
    BY <1>5, RequestFields DEF Reject, RequestsSound, RequestSound
  <2>2. promotion' = [promotion EXCEPT ![p] = [promotion[p] EXCEPT !.status = "rejected"]]
    BY <1>5 DEF Reject
  <2>q. QED
    BY <1>1, <1>2, <1>4, <2>1, <2>2
<1>6. CASE Complete(q) \/ CompletesAndFails(q)
  <2>1. /\ q \in Executors /\ Is(q, "complete") /\ run[q].pc = "returned"
        /\ request'[q].pc \in {"done", "fail"} /\ UNCHANGED vars
    BY <1>6, RequestFields DEF Complete, CompletesAndFails, RequestsSound, RequestSound, Is
  <2>2. promotion' = [promotion EXCEPT ![p] = [promotion[p] EXCEPT
           !.status = "completed", !.target = run[q].made]]
    BY <1>6 DEF Complete, CompletesAndFails
  <2>q. QED
    BY <1>1, <1>2, <1>4, <2>1, <2>2
<1>7. CASE MarkFailed(q)
  <2>1. /\ q \in Executors /\ Is(q, "fail") /\ request'[q].pc = "failed" /\ UNCHANGED vars
    BY <1>7, RequestFields DEF MarkFailed, RequestsSound, RequestSound, Is
  <2>2. promotion' = [promotion EXCEPT ![p] = [promotion[p] EXCEPT !.status = "failed"]]
    BY <1>7 DEF MarkFailed
  <2>q. QED
    BY <1>1, <1>2, <1>4, <2>1, <2>2
<1>q. QED
  BY <1>5, <1>6, <1>7 DEF Writes

\* ... and is kept by every step of a request ...
LEMMA RequestsSoundHandle ==
    ASSUME PromotionTypeOK, RequestsSound, NEW q \in Requests, Handle(q)
    PROVE  RequestsSound'
<1> USE TypedPromotion, PromotionAssumption
    DEF RequestsSound, RequestSound, Is, Goes, Requests, Executors, PromotionTypeOK, TypeOK, vars
<1>1. CASE ReadPending(q)
  BY <1>1 DEF ReadPending
<1>2. CASE ReadDecided(q)
  BY <1>2 DEF ReadDecided
<1>3. CASE Approve(q)
  BY <1>3, DecisionsStay DEF Approve
<1>5. CASE ExecuteRead(q)
  BY <1>5 DEF ExecuteRead
<1>6. CASE SourceRead(q)
  BY <1>6 DEF SourceRead
<1>7. CASE DeployReturned(q)
  BY <1>7 DEF DeployReturned
<1>8. CASE DeployRaised(q)
  BY <1>8 DEF DeployRaised
<1>9. CASE CompleteFails(q) /\ UNCHANGED promotion /\ Goes(q, "fail")
  BY <1>9 DEF CompleteFails
<1>10. CASE Writes(q)
  <2> HIDE DEF RequestsSound, RequestSound, Goes, Requests, Executors, PromotionTypeOK, TypeOK
  <2>1. /\ UNCHANGED <<status, run>>
        /\ \A r \in Requests :
              /\ request'[r].on = request[r].on
              /\ r # q => request'[r].pc = request[r].pc
        /\ \/ q \in Rejects /\ request'[q].pc = "done"
           \/ q \in Executors /\ Is(q, "complete") /\ request'[q].pc \in {"done", "fail"}
           \/ q \in Executors /\ Is(q, "fail") /\ request'[q].pc = "failed"
    BY <1>10, WritesFields
  <2>2. ~Is(q, "idle")
    BY <1>10 DEF Writes, Reject, Complete, CompletesAndFails, MarkFailed
  <2>3. ASSUME NEW r \in Requests, ~Is(r, "idle")
        PROVE  request'[r].on # None /\ promotion'[request'[r].on].status # "none"
    BY <2>1, <2>3, DecisionsStay DEF RequestsSound, RequestSound
  <2>4. ASSUME NEW r \in Requests PROVE RequestSound(r)'
    <3>1. CASE r = q
      BY <2>1, <2>2, <2>3, <3>1 DEF RequestsSound, RequestSound, Requests, Executors
    <3>2. CASE r # q
      BY <2>1, <2>3, <3>2 DEF RequestsSound, RequestSound
    <3>q. QED
      BY <3>1, <3>2
  <2>q. QED
    BY <2>4 DEF RequestsSound
<1>12. CASE q \in Executors /\ Deploy(q)
  BY <1>12, PromiseAssumption
     DEF Deploy, Step, Make, Activate, Falter, Fail, Raise, promotionVars, Run
<1>q. QED
  BY <1>1, <1>2, <1>3, <1>5, <1>6, <1>7, <1>8, <1>9, <1>10, <1>12
     DEF Handle, Manage, Writes, CompletesAndFails, CompleteFails

\* (the second half of it)
LEMMA DecisionsSoundHandle ==
    ASSUME PromotionTypeOK, RequestsSound, DecisionsSound, NEW q \in Requests, Handle(q)
    PROVE  DecisionsSound'
<1> USE TypedPromotion, PromotionAssumption
    DEF RequestsSound, RequestSound, DecisionsSound, Executing, Is, Goes, Requests, Executors,
        PromotionTypeOK, TypeOK, vars
<1>1. CASE ReadPending(q)
  BY <1>1 DEF ReadPending
<1>2. CASE ReadDecided(q)
  BY <1>2 DEF ReadDecided
<1>3. CASE Approve(q)
  <2>1. q \in Approves /\ request[q].on \in Promotions /\ promotion'[request[q].on].approved
    BY <1>3 DEF Approve, PromotionRow
  <2>2. \A r \in Approves : Executing(r)' => promotion[request[r].on].approved \/ r = q
    BY <1>3 DEF Approve
  <2>3. \A r \in Creates : Executing(r)' => r # q /\ Executing(r)
    BY <1>3, <2>1 DEF Approve
  <2>4. \A r \in Creates \cup Approves :
           /\ request'[r].on = request[r].on
           /\ Executing(r)' => request[r].on \in Promotions
    BY <1>3, <2>1, <2>3 DEF Approve
  <2>q. QED
    BY <2>1, <2>2, <2>3, <2>4, DecisionsStay
<1>5. CASE ExecuteRead(q)
  BY <1>5 DEF ExecuteRead
<1>6. CASE SourceRead(q)
  BY <1>6 DEF SourceRead
<1>7. CASE DeployReturned(q)
  BY <1>7 DEF DeployReturned
<1>8. CASE DeployRaised(q)
  BY <1>8 DEF DeployRaised
<1>9. CASE CompleteFails(q) /\ UNCHANGED promotion /\ Goes(q, "fail")
  BY <1>9 DEF CompleteFails
<1>10. CASE Writes(q)
  <2> HIDE DEF RequestsSound, RequestSound, Goes, Requests, Executors, PromotionTypeOK, TypeOK
  <2>1. /\ UNCHANGED <<status, run>>
        /\ \A r \in Requests :
              /\ request'[r].on = request[r].on
              /\ r # q => request'[r].pc = request[r].pc
        /\ \/ q \in Rejects /\ request'[q].pc = "done"
           \/ q \in Executors /\ Is(q, "complete") /\ request'[q].pc \in {"done", "fail"}
           \/ q \in Executors /\ Is(q, "fail") /\ request'[q].pc = "failed"
    BY <1>10, WritesFields
  <2>2. \A r \in Creates \cup Approves : Executing(r)' => Executing(r)
    BY <2>1 DEF Requests, Executors
  <2>3. \A r \in Creates \cup Approves : Executing(r) => request[r].on \in Promotions
    BY DEF RequestsSound, RequestSound, Requests, Executors
  <2>4. \A r \in Creates \cup Approves : request'[r].on = request[r].on
    BY <2>1 DEF Requests, Executors
  <2>q. QED
    BY <2>2, <2>3, <2>4, DecisionsStay
<1>12. CASE q \in Executors /\ Deploy(q)
  BY <1>12, PromiseAssumption
     DEF Deploy, Step, Make, Activate, Falter, Fail, Raise, promotionVars, Run
<1>q. QED
  BY <1>1, <1>2, <1>3, <1>5, <1>6, <1>7, <1>8, <1>9, <1>10, <1>12
     DEF Handle, Manage, Writes, CompletesAndFails, CompleteFails

\* ... and by every other.
LEMMA PromotionSoundStep ==
    ASSUME PromotionTypeOK, PromotionSound, [PromotionNext]_allVars
    PROVE  PromotionSound'
<1> USE TypedPromotion, PromotionAssumption
    DEF PromotionSound, RequestsSound, RequestSound, DecisionsSound, Executing, Is, Goes,
        Requests, Executors, PromotionTypeOK, TypeOK, vars
<1>1. ASSUME NEW q \in Creates, Create(q) PROVE PromotionSound'
  <2>1. PICK p \in Promotions, d \in Deployments, needed \in BOOLEAN :
           /\ promotion[p].status = "none"
           /\ promotion' = [promotion EXCEPT ![p] = [promotion[p] EXCEPT
                  !.status = "pending", !.needs = needed, !.source = d]]
           /\ Starts(q, IF needed THEN "done" ELSE "execute", p)
    <3> HIDE DEF RequestsSound, RequestSound, DecisionsSound, Executing, Requests, Executors,
             PromotionTypeOK
    <3>q. QED
      BY <1>1 DEF Create
  <2>2. promotion'[p].status = "pending" /\ promotion'[p].needs = needed
    BY <2>1 DEF PromotionRow
  <2>3. \A o \in Promotions \ {p} : promotion'[o] = promotion[o]
    BY <2>1
  <2>4. /\ \A r \in Requests \ {q} : request'[r] = request[r]
        /\ request'[q].pc = IF needed THEN "done" ELSE "execute"
        /\ request'[q].on = p
    BY <2>1, StartsFields
  <2>5. Is(q, "idle") /\ UNCHANGED <<status, run>>
    BY <1>1 DEF Create
  <2>6. \A r \in Requests \ {q} : request[r].on # p \/ Is(r, "idle")
    BY <2>1
  <2>7. ASSUME NEW r \in Requests PROVE RequestSound(r)'
    <3>1. CASE r = q
      BY <3>1, <2>2, <2>3, <2>4, <2>5, <2>6
    <3>2. CASE r # q
      BY <3>2, <2>2, <2>3, <2>4, <2>5, <2>6
    <3>q. QED
      BY <3>1, <3>2
  <2>8. \A r \in Creates \cup Approves : Executing(r) => ~Is(r, "idle")
    OBVIOUS
  <2>9. DecisionsSound'
    BY <2>2, <2>3, <2>4, <2>5, <2>6, <2>8
  <2>q. QED
    BY <2>7, <2>9 DEF RequestsSound
<1>2. ASSUME NEW q \in Requests \ Creates, NEW p \in Promotions, Begin(q, p)
      PROVE  PromotionSound'
  <2>1. /\ \A r \in Requests \ {q} : request'[r] = request[r]
        /\ request'[q].pc = IF q \in Executes THEN "execute" ELSE "read"
        /\ request'[q].on = p
    BY <1>2, StartsFields DEF Begin
  <2>2. Is(q, "idle") /\ promotion[p].status # "none" /\ UNCHANGED <<status, run, promotion>>
    BY <1>2 DEF Begin
  <2>3. ASSUME NEW r \in Requests PROVE RequestSound(r)'
    <3>1. CASE r = q
      BY <3>1, <2>1, <2>2
    <3>2. CASE r # q
      BY <3>2, <2>1, <2>2
    <3>q. QED
      BY <3>1, <3>2
  <2>4. \A r \in Creates \cup Approves : Executing(r)' => r # q /\ Executing(r)
    BY <2>1, <2>2
  <2>5. DecisionsSound'
    BY <2>1, <2>2, <2>4
  <2>q. QED
    BY <2>3, <2>5 DEF RequestsSound
<1>3. ASSUME NEW q \in Requests, Handle(q) PROVE PromotionSound'
  BY <1>3, RequestsSoundHandle, DecisionsSoundHandle DEF PromotionSound
<1>4. ASSUME NEW q \in Requests, Cut(q) PROVE PromotionSound'
  <2>1. /\ \A r \in Requests \ {q} : request'[r] = request[r]
        /\ request'[q].pc = "cut" /\ request'[q].on = request[q].on
    BY <1>4 DEF Cut, Request
  <2>2. ~Is(q, "idle") /\ UNCHANGED <<status, run, promotion>>
    BY <1>4 DEF Cut, InFlight
  <2>3. ASSUME NEW r \in Requests PROVE RequestSound(r)'
    <3>1. CASE r = q
      BY <3>1, <2>1, <2>2
    <3>2. CASE r # q
      BY <3>2, <2>1, <2>2
    <3>q. QED
      BY <3>1, <3>2
  <2>4. \A r \in Creates \cup Approves : Executing(r)' => Executing(r)
    BY <2>1, <2>2
  <2>5. DecisionsSound'
    BY <2>1, <2>2, <2>4
  <2>q. QED
    BY <2>3, <2>5 DEF RequestsSound
<1>5. ASSUME NEW d \in Stoppable, StopDeployment(d) PROVE PromotionSound'
  BY <1>5 DEF StopDeployment, Stop, promotionVars
<1>6. CASE UNCHANGED allVars
  BY <1>6 DEF allVars, promotionVars
<1>7. ASSUME NEW c \in Makers \ Requests, OthersDeploy(c) PROVE PromotionSound'
  <2>1. \A q \in Executors : run'[q] = run[q]
    BY <1>7, StepStays DEF OthersDeploy, Executors
  <2>q. QED
    BY <1>7, <2>1 DEF OthersDeploy, promotionVars, Executors
<1>q. QED
  BY <1>1, <1>2, <1>3, <1>4, <1>5, <1>6, <1>7 DEF PromotionNext

\* The strengthening is an invariant.
LEMMA PromotionSoundHolds == PromotionSpec => [](PromotionTypeOK /\ PromotionSound)
<1>1. PromotionTypeOK /\ PromotionSound /\ [PromotionNext]_allVars
         => (PromotionTypeOK /\ PromotionSound)'
  BY PromotionTypeOKStep, PromotionSoundStep DEF PromotionSound
<1>q. QED
  BY <1>1, PromotionSoundInit, PTL DEF PromotionSpec

\* The state of every promotion and request is what PromotionTypeOK says.
THEOREM PromotionTypeCorrect == PromotionSpec => []PromotionTypeOK
BY PromotionSoundHolds, PTL

\* Nothing that create or approve deploys needs an approval it has not got.
THEOREM PromotionApprovedFirst == PromotionSpec => []ApprovedFirst
<1>1. PromotionTypeOK /\ PromotionSound => ApprovedFirst
  BY DEF PromotionSound, DecisionsSound, ApprovedFirst, Executing
<1>q. QED
  BY <1>1, PromotionSoundHolds, PTL

(***************************************************************************)
(* What closes a promotion, and what may be written after it.              *)
(***************************************************************************)
\* A step other than an approval or a write that closes a promotion.
Keeps ==
    /\ \A p \in Promotions : promotion[p].status # "none" => promotion'[p] = promotion[p]
    /\ \A p \in Promotions : promotion'[p].target = promotion[p].target
    /\ \A p \in Promotions : promotion[p].status = "none" =>
           promotion'[p].status \in {"none", "pending"}
    /\ \A r \in Requests :
           /\ request'[r].stale = request[r].stale
           /\ Is(r, "idle") \/ request'[r].on = request[r].on
           /\ Closed(r) \/ Closed(r)' =>
                  Closed(r) /\ request'[r] = request[r]
                            /\ (r \in Executors => run'[r] = run[r])
           /\ Working(r)' => Working(r) \/ (~Is(r, "idle") /\ Executable(request[r].on))
           /\ InFlight(r) => InFlight(r)' \/ request'[r].pc \in {"raised", "cut"}
           /\ request[r].pc \in {"raised", "cut"} => request'[r].pc = request[r].pc
    /\ \A r \in Executors : run[r].pc = "returned" => run'[r] = run[r]

\* A step that moves request q on, and its deploy, is such a step ...
LEMMA KeepsMove ==
    ASSUME PromotionTypeOK, NEW q \in Requests, NEW pc,
           Goes(q, pc),
           UNCHANGED promotion,
           UNCHANGED run,
           InFlight(q),
           pc \notin {"idle", "done", "failed"},
           pc \in {"approve", "reject", "source", "deploy", "complete", "fail"} =>
               Working(q) \/ Executable(request[q].on)
    PROVE  Keeps
<1>1. \A r \in Requests :
        /\ request'[r].pc = IF r = q THEN pc ELSE request[r].pc
        /\ request'[r].on = request[r].on
        /\ request'[r].stale = request[r].stale
        /\ r # q => request'[r] = request[r]
  BY RequestFields DEF Goes, PromotionTypeOK
<1>2. \A r \in Requests : r # q /\ (Closed(r) \/ Closed(r)') => Closed(r)
  BY <1>1 DEF Closed, Is
<1>3. ~Closed(q) /\ ~Closed(q)'
  BY <1>1 DEF Closed, Is, InFlight
<1>4. \A r \in Requests :
        Working(r)' => Working(r) \/ (~Is(r, "idle") /\ Executable(request[r].on))
  BY <1>1 DEF Working, InFlight, Is
<1>5. \A p \in Promotions : promotion[p].status = "none" =>
        promotion'[p].status \in {"none", "pending"}
  OBVIOUS
<1>6. \A r \in Requests :
        /\ InFlight(r) => InFlight(r)' \/ request'[r].pc \in {"raised", "cut"}
        /\ request[r].pc \in {"raised", "cut"} => request'[r].pc = request[r].pc
  BY <1>1 DEF InFlight
<1>q. QED
  BY <1>1, <1>2, <1>3, <1>4, <1>5, <1>6 DEF Keeps

\* ... and so is one that begins a request ...
LEMMA KeepsStart ==
    ASSUME PromotionTypeOK, RequestsSound, NEW q \in Requests, NEW p \in Promotions,
           NEW pc \in {"read", "execute", "done"},
           Starts(q, pc, p),
           Is(q, "idle"),
           pc = "done" => q \in Creates,
           UNCHANGED run,
           \A o \in Promotions : /\ promotion[o].status # "none" => promotion'[o] = promotion[o]
                                 /\ promotion'[o].target = promotion[o].target,
           \A o \in Promotions : promotion[o].status = "none" =>
               promotion'[o].status \in {"none", "pending"}
    PROVE  Keeps
<1>1. /\ \A r \in Requests \ {q} : request'[r] = request[r]
      /\ request'[q].pc = pc
      /\ request'[q].stale = request[q].stale
  BY StartsFields
<1>2. \A r \in Requests : r # q /\ (Closed(r) \/ Closed(r)') => Closed(r)
  BY <1>1 DEF Closed, Is
<1>3. ~Closed(q) /\ ~Closed(q)'
  <2>1. q \in Executors => run[q].made = None
    BY DEF RequestsSound, RequestSound, Is
  <2>2. q \in Rejects => pc # "done"
    BY PromotionAssumption
  <2>q. QED
    BY <1>1, <2>1, <2>2 DEF Closed, Is
<1>4. \A r \in Requests : Working(r)' => Working(r)
  BY <1>1 DEF Working
<1>5. \A r \in Requests :
        /\ InFlight(r) => InFlight(r)' \/ request'[r].pc \in {"raised", "cut"}
        /\ request[r].pc \in {"raised", "cut"} => request'[r].pc = request[r].pc
  BY <1>1 DEF InFlight, Is
<1>q. QED
  BY <1>1, <1>2, <1>3, <1>4, <1>5 DEF Keeps

\* ... and every other but the two.
LEMMA ClosingSteps ==
    ASSUME PromotionTypeOK, RequestsSound, [PromotionNext]_allVars
    PROVE  \/ \E q \in Requests : Writes(q)
           \/ \E q \in Requests : Approve(q)
           \/ Keeps
<1> USE DEF vars
<1>1. ASSUME NEW q \in Creates, Create(q) PROVE Keeps
  <2>1. PICK p \in Promotions, d \in Deployments, needed \in BOOLEAN :
           /\ promotion[p].status = "none"
           /\ promotion' = [promotion EXCEPT ![p] = [promotion[p] EXCEPT
                  !.status = "pending", !.needs = needed, !.source = d]]
           /\ Starts(q, IF needed THEN "done" ELSE "execute", p)
    BY <1>1 DEF Create
  <2>2. PICK pc \in {"read", "execute", "done"} : Starts(q, pc, p)
    BY <2>1
  <2>3. promotion \in [Promotions -> PromotionRow]
    BY DEF PromotionTypeOK
  <2>4. promotion'[p].status = "pending" /\ promotion'[p].target = promotion[p].target
    BY <2>1, <2>3 DEF PromotionRow
  <2>5. \A o \in Promotions \ {p} : promotion'[o] = promotion[o]
    BY <2>1, <2>3
  <2>6. q \in Requests /\ Is(q, "idle") /\ UNCHANGED run
    BY <1>1 DEF Create, Requests
  <2>q. QED
    BY <2>1, <2>2, <2>4, <2>5, <2>6, KeepsStart
<1>2. ASSUME NEW q \in Requests \ Creates, NEW p \in Promotions, Begin(q, p) PROVE Keeps
  <2>1. PICK pc \in {"read", "execute"} : Starts(q, pc, p)
    BY <1>2 DEF Begin
  <2>q. QED
    BY <1>2, <2>1, KeepsStart DEF Begin
<1>3. ASSUME NEW q \in Requests, Handle(q), ~Writes(q), ~Approve(q) PROVE Keeps
  <2>1. CASE ReadPending(q)
    <3>1. Executable(request[q].on)
      BY <2>1 DEF ReadPending, Executable
    <3>2. PICK pc \in {"approve", "reject"} : Goes(q, pc)
      BY <2>1 DEF ReadPending
    <3>q. QED
      BY <2>1, <3>1, <3>2, KeepsMove DEF ReadPending, InFlight, Is
  <2>2. CASE ReadDecided(q)
    BY <2>2, KeepsMove DEF ReadDecided, InFlight, Is
  <2>3. CASE ExecuteRead(q)
    <3>1. CASE Executable(request[q].on)
      BY <2>3, <3>1, KeepsMove DEF ExecuteRead, InFlight, Is
    <3>2. CASE ~Executable(request[q].on)
      BY <2>3, <3>2, KeepsMove DEF ExecuteRead, InFlight, Is
    <3>q. QED
      BY <3>1, <3>2
  <2>4. CASE SourceRead(q)
    <3>1. PICK pc \in {"deploy", "raised"} : Goes(q, pc)
      BY <2>4 DEF SourceRead
    <3>2. Working(q)
      BY <2>4 DEF SourceRead, Is, Working
    <3>q. QED
      BY <2>4, <3>1, <3>2, KeepsMove DEF SourceRead, InFlight, Is
  <2>5. CASE DeployReturned(q) \/ DeployRaised(q)
    <3>1. Working(q) /\ InFlight(q)
      BY <2>5 DEF DeployReturned, DeployRaised, Is, Working, InFlight
    <3>q. QED
      BY <2>5, <3>1, KeepsMove DEF DeployReturned, DeployRaised
  <2>6. CASE CompleteFails(q)
    <3>1. Working(q) /\ InFlight(q)
      BY <2>6 DEF CompleteFails, Is, Working, InFlight
    <3>2. Goes(q, "fail") /\ UNCHANGED promotion
      BY <1>3, <2>6 DEF CompleteFails, Writes, CompletesAndFails
    <3>q. QED
      BY <2>6, <3>1, <3>2, KeepsMove DEF CompleteFails
  <2>7. CASE q \in Executors /\ Deploy(q)
    <3>1. /\ UNCHANGED <<promotion, request>>
          /\ q \in Makers
          /\ \A r \in Executors : r # q \/ run[r].pc = "returned" => run'[r] = run[r]
      BY <2>7, StepStays, PromotionAssumption DEF Deploy, promotionVars, PromotionTypeOK
    <3>2. ~Closed(q) /\ ~Closed(q)'
      BY <2>7, <3>1 DEF Deploy, Closed, Is
    <3>3. \A r \in Requests : r # q /\ (Closed(r) \/ Closed(r)') => Closed(r)
      BY <3>1 DEF Closed, Is
    <3>4. \A r \in Requests : Working(r)' => Working(r)
      BY <3>1 DEF Working
    <3>q. QED
      BY <3>1, <3>2, <3>3, <3>4 DEF Keeps, InFlight
  <2>q. QED
    BY <1>3, <2>1, <2>2, <2>3, <2>4, <2>5, <2>6, <2>7 DEF Handle, Manage, Writes
<1>4. ASSUME NEW q \in Requests, Cut(q) PROVE Keeps
  BY <1>4, KeepsMove DEF Cut
<1>5. ASSUME UNCHANGED <<promotion, request>>, \A r \in Executors : run'[r] = run[r]
      PROVE  Keeps
  BY <1>5 DEF Keeps, Closed, Is, Working, InFlight
<1>6. ASSUME NEW d \in Stoppable, StopDeployment(d) PROVE Keeps
  BY <1>5, <1>6 DEF StopDeployment, Stop, promotionVars
<1>7. ASSUME NEW c \in Makers \ Requests, OthersDeploy(c) PROVE Keeps
  <2>1. \A r \in Executors : run'[r] = run[r]
    BY <1>7, StepStays, PromotionAssumption DEF OthersDeploy, PromotionTypeOK, Requests, Executors
  <2>q. QED
    BY <1>5, <1>7, <2>1 DEF OthersDeploy, promotionVars
<1>8. CASE UNCHANGED allVars
  BY <1>5, <1>8 DEF allVars, promotionVars
<1>q. QED
  BY <1>1, <1>2, <1>3, <1>4, <1>6, <1>7, <1>8 DEF PromotionNext

\* What an approval does, field by field.
LEMMA ApproveFields ==
    ASSUME PromotionTypeOK, RequestsSound, NEW q \in Requests, Approve(q)
    PROVE  LET p == request[q].on IN
           /\ q \in Approves /\ Is(q, "approve") /\ p \in Promotions
           /\ UNCHANGED vars
           /\ \A r \in Requests :
                 /\ request'[r].on = request[r].on
                 /\ request'[r].stale = request[r].stale
                 /\ r # q => request'[r].pc = request[r].pc
           /\ request'[q].pc = "execute"
           /\ \A o \in Promotions \ {p} : promotion'[o] = promotion[o]
           /\ promotion'[p].status = "approved"
           /\ promotion'[p].target = promotion[p].target
<1>1. q \in Approves /\ Is(q, "approve") /\ request[q].on \in Promotions
  BY TypedPromotion DEF Approve, Is, RequestsSound, RequestSound
<1>2. /\ \A o \in Promotions \ {request[q].on} : promotion'[o] = promotion[o]
      /\ promotion'[request[q].on].status = "approved"
      /\ promotion'[request[q].on].target = promotion[request[q].on].target
  BY <1>1 DEF Approve, PromotionTypeOK, PromotionRow
<1>3. Goes(q, "execute") /\ UNCHANGED vars
  BY DEF Approve
<1>4. /\ \A r \in Requests : /\ request'[r].on = request[r].on
                             /\ request'[r].stale = request[r].stale
      /\ \A r \in Requests : r # q => request'[r].pc = request[r].pc
      /\ request'[q].pc = "execute"
  BY <1>3, RequestFields
<1>q. QED
  BY <1>1, <1>2, <1>3, <1>4

\* A request that has begun stays on its promotion, a stale one stays stale, and what
\* its call of deploy has returned is final.
LEMMA RequestsStay ==
    ASSUME PromotionTypeOK, RequestsSound, [PromotionNext]_allVars
    PROVE  /\ \A q \in Requests : /\ ~Is(q, "idle") => request'[q].on = request[q].on
                                  /\ request[q].stale => request'[q].stale
           /\ \A q \in Executors : run[q].pc = "returned" => run'[q] = run[q]
<1>1. CASE \E q \in Requests : Writes(q)
  BY <1>1, WritesFields DEF vars
<1>2. CASE \E q \in Requests : Approve(q)
  BY <1>2, ApproveFields DEF vars
<1>3. CASE Keeps
  BY <1>3 DEF Keeps
<1>q. QED
  BY <1>1, <1>2, <1>3, ClosingSteps

\* What is reopened or was disturbed stays so.
LEMMA StaleStays ==
    ASSUME PromotionTypeOK, RequestsSound, [PromotionNext]_allVars, NEW p \in Promotions
    PROVE  /\ Reopened(p) => Reopened(p)'
           /\ Undisturbed(p)' => Undisturbed(p)
<1>1. \A q \in Requests : request[q].on = p => ~Is(q, "idle")
  BY PromotionAssumption DEF RequestsSound, RequestSound
<1>q. QED
  BY <1>1, RequestsStay DEF Reopened, Undisturbed, Requests

\* A request that has closed a promotion is on one there is.
LEMMA ClosedIsOn ==
    ASSUME PromotionTypeOK, RequestsSound, NEW q \in Requests, Closed(q)
    PROVE  /\ request[q].on \in Promotions
           /\ promotion[request[q].on].status # "none"
           /\ ~Is(q, "idle")
           /\ ~Working(q)
BY TypedPromotion DEF Closed, Is, Working, RequestsSound, RequestSound

\* The strengthening that closing rests on holds at first ...
LEMMA ClosingSoundInit == PromotionInit => ClosingSound
<1> SUFFICES ASSUME PromotionInit, NEW q \in Requests PROVE ~Closed(q)
  BY DEF ClosingSound
<1>q. QED
  BY DEF PromotionInit, Closed, Is

\* ... and is kept by every step.
LEMMA ClosingSoundStep ==
    ASSUME PromotionTypeOK, RequestsSound, ClosingSound, [PromotionNext]_allVars
    PROVE  ClosingSound'
<1> DEFINE Says(q) ==
             LET p == request[q].on IN
             /\ promotion[p].status # "pending"
             /\ \/ Reopened(p)
                \/ /\ promotion[p].status \in {"completed", "rejected", "failed"}
                   /\ \A r \in Requests : WorkingOn(r, p) => request[r].stale
                   /\ \A r \in Requests \ {q} : request[r].on = p /\ Closed(r) =>
                          request[q].stale \/ request[r].stale
<1>s. SUFFICES ASSUME NEW q \in Requests, Closed(q)' PROVE Says(q)'
  BY DEF ClosingSound
<1>o. ASSUME NEW r \in Requests, Closed(r)
      PROVE  Says(r) /\ request[r].on \in Promotions /\ request'[r].on = request[r].on
  BY <1>o, ClosedIsOn, RequestsStay DEF ClosingSound
<1>1. CASE \E w \in Requests : Writes(w)
  <2>1. PICK w \in Requests : Writes(w)
    BY <1>1
  <2> DEFINE p == request[w].on
  <2>2. /\ p \in Promotions /\ Working(w) /\ UNCHANGED run
        /\ \A r \in Requests :
              /\ request'[r].on = request[r].on
              /\ r # w => request'[r].pc = request[r].pc
              /\ request'[r].stale <=> (request[r].stale \/ (r # w /\ WorkingOn(r, p)))
        /\ \A o \in Promotions \ {p} : promotion'[o] = promotion[o]
        /\ promotion'[p].status \in {"completed", "rejected", "failed"}
    BY <2>1, WritesFields DEF vars
  <2>3. \A r \in Requests \ {w} : /\ Closed(r)' <=> Closed(r)
                                  /\ \A o \in Promotions : WorkingOn(r, o)' <=> WorkingOn(r, o)
    BY <2>2 DEF Closed, Is, WorkingOn, Working
  <2>4. ASSUME NEW r \in Requests \ {w}, Closed(r), request[r].on = p
        PROVE  Reopened(p) \/ request[w].stale
    BY <1>o, <2>2, <2>4 DEF WorkingOn
  <2>5. CASE request[q].on = p /\ q = w
    <3>1. \A r \in Requests : WorkingOn(r, p)' => request'[r].stale
      <4>1. ~Working(w)'
        BY <1>s, <2>5, ClosedIsOn, <2>1, WritesFields DEF Closed, Is, Working
      <4>q. QED
        BY <2>2, <2>3, <4>1 DEF WorkingOn
    <3>2. \A r \in Requests \ {w} : request'[r].on = p /\ Closed(r)' =>
             Reopened(p)' \/ request'[w].stale
      BY <2>2, <2>3, <2>4, StaleStays
    <3>q. QED
      BY <2>2, <2>5, <3>1, <3>2
  <2>6. CASE request[q].on = p /\ q # w
    <3>1. Closed(q) /\ Says(q)
      BY <1>s, <1>o, <2>3, <2>6
    <3>2. CASE Reopened(p)
      BY <2>2, <2>6, <3>2, StaleStays
    <3>3. CASE ~Reopened(p)
      <4>1. request[w].stale
        BY <2>4, <2>6, <3>1, <3>3
      <4>2. \A r \in Requests : WorkingOn(r, p)' => request'[r].stale
        BY <2>2, <2>3, <4>1
      <4>3. \A r \in Requests \ {q} : request'[r].on = p /\ Closed(r)' =>
               request'[q].stale \/ request'[r].stale
        BY <2>2, <2>3, <2>6, <3>1, <3>3, <4>1
      <4>q. QED
        BY <2>2, <2>6, <4>2, <4>3
    <3>q. QED
      BY <3>2, <3>3
  <2>7. CASE request[q].on # p
    <3>1. q # w /\ Closed(q) /\ Says(q) /\ request[q].on \in Promotions
      BY <1>s, <1>o, <2>3, <2>7
    <3>2. promotion'[request[q].on] = promotion[request[q].on]
      BY <2>2, <2>7, <3>1
    <3>3. \A r \in Requests : WorkingOn(r, request[q].on)' => WorkingOn(r, request[q].on)
      BY <2>2, <2>3, <2>7, <3>1 DEF WorkingOn
    <3>4. \A r \in Requests : request[r].on = request[q].on /\ Closed(r)' => Closed(r)
      BY <2>3, <2>7
    <3>q. QED
      BY <2>2, <3>1, <3>2, <3>3, <3>4, StaleStays
  <2>q. QED
    BY <2>5, <2>6, <2>7
<1>2. CASE \E a \in Requests : Approve(a)
  <2>1. PICK a \in Requests : Approve(a)
    BY <1>2
  <2> DEFINE p == request[a].on
  <2>2. /\ a \in Approves /\ p \in Promotions /\ UNCHANGED run /\ WorkingOn(a, p)
        /\ \A r \in Requests :
              /\ request'[r].on = request[r].on
              /\ request'[r].stale = request[r].stale
              /\ r # a => request'[r].pc = request[r].pc
        /\ Is(a, "approve") /\ request'[a].pc = "execute"
        /\ \A o \in Promotions \ {p} : promotion'[o] = promotion[o]
        /\ promotion'[p].status = "approved"
    BY <2>1, ApproveFields DEF vars, WorkingOn, Working, Is
  <2>3. \A r \in Requests : /\ Closed(r)' <=> Closed(r)
                            /\ \A o \in Promotions : WorkingOn(r, o)' => WorkingOn(r, o)
    BY <2>2 DEF Closed, Is, WorkingOn, Working
  <2>4. Closed(q) /\ Says(q) /\ request[q].on \in Promotions
    BY <1>s, <1>o, <2>3
  <2>5. CASE request[q].on = p
    <3>1. Reopened(p)
      BY <2>2, <2>4, <2>5 DEF Reopened
    <3>q. QED
      BY <2>2, <2>5, <3>1, StaleStays
  <2>6. CASE request[q].on # p
    BY <2>2, <2>3, <2>4, <2>6, StaleStays
  <2>q. QED
    BY <2>5, <2>6
<1>3. CASE Keeps
  <2>1. Closed(q) /\ Says(q) /\ request[q].on \in Promotions /\ request'[q] = request[q]
    BY <1>s, <1>o, <1>3 DEF Keeps
  <2>p. PICK p \in Promotions : p = request[q].on /\ p = request'[q].on
    BY <2>1
  <2>2. promotion'[p] = promotion[p]
    BY <1>3, <2>p, <2>1, ClosedIsOn DEF Keeps
  <2>3. CASE Reopened(p)
    BY <2>1, <2>p, <2>2, <2>3, StaleStays
  <2>4. CASE ~Reopened(p)
    <3>1. ~Executable(p)
      BY <2>1, <2>p, <2>4 DEF Executable
    <3>2. ASSUME NEW r \in Requests, WorkingOn(r, p)' PROVE request'[r].stale
      <4>1. Working(r) \/ (~Is(r, "idle") /\ Executable(request[r].on))
        BY <1>3, <3>2 DEF Keeps, WorkingOn
      <4>2. ~Is(r, "idle") /\ request[r].on = p
        BY <3>2, <4>1, RequestsStay DEF WorkingOn, Working, Is
      <4>q. QED
        BY <1>3, <2>1, <2>p, <2>4, <3>1, <4>1, <4>2 DEF Keeps, WorkingOn
    <3>3. ASSUME NEW r \in Requests \ {q}, request'[r].on = p, Closed(r)'
          PROVE  request'[q].stale \/ request'[r].stale
      BY <1>3, <2>1, <2>p, <2>4, <3>3 DEF Keeps
    <3>q. QED
      BY <2>1, <2>p, <2>2, <2>4, <3>2, <3>3
  <2>q. QED
    BY <2>3, <2>4
<1>q. QED
  BY <1>1, <1>2, <1>3, ClosingSteps

\* What closes a promotion that nobody else is at work on stands for good.
LEMMA ClosingStandsStep ==
    ASSUME PromotionTypeOK, RequestsSound, ClosingSound, ClosingStands,
           [PromotionNext]_allVars
    PROVE  ClosingStands'
<1> DEFINE Stands(q) ==
             LET p == request[q].on IN
             /\ q \in Rejects => promotion[p].status = "rejected"
             /\ Is(q, "failed") => promotion[p].status = "failed"
             /\ q \notin Rejects /\ Is(q, "done") =>
                    promotion[p].status = "completed" /\ promotion[p].target = run[q].made
<1>s. SUFFICES ASSUME NEW q \in Requests, Closed(q)', Undisturbed(request[q].on)'
               PROVE  Stands(q)'
  BY DEF ClosingStands
<1>o. ASSUME Closed(q)
      PROVE  /\ request[q].on \in Promotions
             /\ request'[q].on = request[q].on
             /\ Undisturbed(request[q].on)
             /\ Stands(q)
             /\ \A r \in Requests : ~WorkingOn(r, request[q].on)
  <2>1. request[q].on \in Promotions /\ request'[q].on = request[q].on
    BY <1>o, ClosedIsOn, RequestsStay
  <2>2. PICK p \in Promotions : p = request[q].on
    BY <2>1
  <2>3. Undisturbed(p)
    BY <1>s, <2>1, <2>2, StaleStays
  <2>4. ~Reopened(p) /\ \A r \in Requests : WorkingOn(r, p) => ~request[r].stale
    BY <2>3 DEF Reopened, Undisturbed, Requests, WorkingOn
  <2>q. QED
    BY <1>o, <2>1, <2>2, <2>3, <2>4 DEF ClosingStands, ClosingSound
<1>1. CASE \E w \in Requests : Writes(w)
  <2>1. PICK w \in Requests : Writes(w)
    BY <1>1
  <2>2. CASE q = w
    <3>1. request'[q].pc # "fail" \/ q \in Rejects
      BY <1>s DEF Closed, Is
    <3>q. QED
      BY <2>1, <2>2, <3>1, WritesFields, PromotionAssumption DEF vars, Is
  <2>3. CASE q # w
    <3>1. Closed(q) /\ request'[q].pc = request[q].pc /\ run' = run
      BY <1>s, <2>1, <2>3, WritesFields DEF Closed, Is, vars
    <3>2. request[w].on # request[q].on
      BY <1>o, <2>1, <3>1, WritesFields DEF WorkingOn
    <3>3. promotion'[request[q].on] = promotion[request[q].on]
      BY <1>o, <2>1, <3>1, <3>2, WritesFields
    <3>q. QED
      BY <1>o, <3>1, <3>3 DEF Is
  <2>q. QED
    BY <2>2, <2>3
<1>2. CASE \E a \in Requests : Approve(a)
  <2>1. PICK a \in Requests : Approve(a)
    BY <1>2
  <2>2. WorkingOn(a, request[a].on) /\ request'[a].pc = "execute" /\ a \in Approves
    BY <2>1, ApproveFields DEF WorkingOn, Working, Is
  <2>3. q # a
    BY <1>s, <2>2, PromotionAssumption DEF Closed, Is
  <2>4. Closed(q) /\ request'[q].pc = request[q].pc /\ run' = run
    BY <1>s, <2>1, <2>3, ApproveFields DEF Closed, Is, vars
  <2>5. request[a].on # request[q].on
    BY <1>o, <2>2, <2>4
  <2>6. promotion'[request[q].on] = promotion[request[q].on]
    BY <1>o, <2>1, <2>4, <2>5, ApproveFields
  <2>q. QED
    BY <1>o, <2>4, <2>6 DEF Is
<1>3. CASE Keeps
  <2>1. /\ Closed(q) /\ request'[q] = request[q]
        /\ q \in Executors => run'[q] = run[q]
    BY <1>s, <1>3 DEF Keeps
  <2>2. promotion'[request[q].on] = promotion[request[q].on]
    BY <1>3, <2>1, ClosedIsOn DEF Keeps
  <2>3. q \in Rejects \/ q \in Executors
    BY DEF Requests, Executors
  <2>q. QED
    BY <1>o, <2>1, <2>2, <2>3 DEF Is
<1>q. QED
  BY <1>1, <1>2, <1>3, ClosingSteps

\* What a promotion names stays the deployment that was made for it.
LEMMA NamingSoundStep ==
    ASSUME PromotionTypeOK, RequestsSound, NamingSound, [PromotionNext]_allVars
    PROVE  NamingSound'
<1> DEFINE Names(p, q) ==
             /\ request[q].on = p /\ run[q].made = promotion[p].target /\ run[q].pc = "returned"
             /\ Undisturbed(p) =>
                    /\ promotion[p].status \in {"completed", "failed"}
                    /\ promotion[p].status = "failed" => Is(q, "failed")
                    /\ \A r \in Requests \ {q} : ~WorkingOn(r, p)
<1>s. SUFFICES ASSUME NEW p \in Promotions
               PROVE  /\ promotion'[p].status = "completed" => promotion'[p].target # None
                      /\ promotion'[p].target # None => \E q \in Executors : Names(p, q)'
  BY DEF NamingSound
<1>0. /\ promotion[p].status = "completed" => promotion[p].target # None
      /\ promotion[p].target # None => \E q \in Executors : Names(p, q)
  BY DEF NamingSound
<1>a. ASSUME NEW r \in Requests, request[r].on = p
      PROVE  ~Is(r, "idle") /\ request'[r].on = p /\ promotion[p].status # "none"
  BY <1>a, RequestsStay, PromotionAssumption DEF RequestsSound, RequestSound
<1>b. Executors \subseteq Requests
  BY DEF Requests, Executors
<1>1. ASSUME NEW w \in Requests, Writes(w)
      PROVE  /\ promotion'[p].status = "completed" => promotion'[p].target # None
             /\ promotion'[p].target # None => \E q \in Executors : Names(p, q)'
  <2> DEFINE o == request[w].on
  <2>1. /\ o \in Promotions /\ Working(w) /\ run' = run
        /\ \A r \in Requests :
              /\ request'[r].on = request[r].on
              /\ r # w => request'[r].pc = request[r].pc
              /\ request'[r].stale <=> (request[r].stale \/ (r # w /\ WorkingOn(r, o)))
        /\ \A e \in Promotions \ {o} : promotion'[e] = promotion[e]
    BY <1>1, WritesFields DEF vars
  <2>2. CASE p # o
    <3>1. ASSUME NEW q \in Executors, Names(p, q) PROVE Names(p, q)'
      <4>1. promotion'[p] = promotion[p] /\ q # w /\ q \in Requests
        BY <1>b, <2>1, <2>2, <3>1
      <4>2. Is(q, "failed")' <=> Is(q, "failed")
        BY <2>1, <4>1 DEF Is
      <4>3. \A r \in Requests : WorkingOn(r, p)' => WorkingOn(r, p)
        BY <2>1, <2>2 DEF WorkingOn, Working
      <4>q. QED
        BY <2>1, <3>1, <4>1, <4>2, <4>3, StaleStays
    <3>q. QED
      BY <1>0, <2>1, <2>2, <3>1
  <2>3. CASE p = o /\ Is(w, "complete") /\ w \in Executors
    <3>1. /\ run[w].pc = "returned" /\ promotion'[p].status = "completed"
          /\ promotion'[p].target = run[w].made
      BY <1>1, <2>3, WritesFields, PromotionAssumption DEF Is
    <3>2. run[w].made # None
      BY <2>3, <3>1, <1>b DEF RequestsSound, RequestSound
    <3>3. Undisturbed(p)' => \A r \in Requests \ {w} : ~WorkingOn(r, p)'
      BY <2>1, <2>3 DEF Undisturbed, WorkingOn, Working
    <3>q. QED
      BY <2>1, <2>3, <3>1, <3>2, <3>3
  <2>4. CASE p = o /\ ~(Is(w, "complete") /\ w \in Executors)
    <3>1. /\ promotion'[p].target = promotion[p].target
          /\ promotion'[p].status \in {"rejected", "failed"}
          /\ w \in Rejects \/ (request'[w].pc = "failed" /\ promotion'[p].status = "failed")
      BY <1>1, <2>4, WritesFields
    <3>2. ASSUME NEW q \in Executors, Names(p, q) PROVE Names(p, q)'
      <4>1. ASSUME Undisturbed(p)'
            PROVE  q = w
        BY <1>s, <2>1, <2>4, <3>2, <4>1, StaleStays DEF WorkingOn
      <4>2. q \notin Rejects
        BY PromotionAssumption
      <4>3. ASSUME Undisturbed(p)', NEW r \in Requests \ {q} PROVE ~WorkingOn(r, p)'
        BY <1>s, <2>1, <3>2, <4>1, <4>3, StaleStays DEF WorkingOn, Working
      <4>q. QED
        BY <2>1, <3>1, <3>2, <4>1, <4>2, <4>3, <1>b DEF Is
    <3>q. QED
      BY <1>0, <3>1, <3>2
  <2>q. QED
    BY <2>2, <2>3, <2>4
<1>2. ASSUME NEW a \in Requests, Approve(a)
      PROVE  /\ promotion'[p].status = "completed" => promotion'[p].target # None
             /\ promotion'[p].target # None => \E q \in Executors : Names(p, q)'
  <2> DEFINE o == request[a].on
  <2>1. /\ a \in Approves /\ Is(a, "approve") /\ o \in Promotions /\ run' = run
        /\ \A r \in Requests :
              /\ request'[r].on = request[r].on
              /\ request'[r].stale = request[r].stale
              /\ r # a => request'[r].pc = request[r].pc
        /\ request'[a].pc = "execute"
        /\ \A e \in Promotions \ {o} : promotion'[e] = promotion[e]
        /\ promotion'[o].status = "approved"
        /\ promotion'[o].target = promotion[o].target
    BY <1>2, ApproveFields DEF vars
  <2>2. ASSUME NEW q \in Executors, Names(p, q) PROVE Names(p, q)'
    <3>1. q # a
      <4>1. q \in Requests /\ run[q].made # None => ~Is(q, "approve")
        BY <1>b DEF RequestsSound, RequestSound, Is
      <4>2. q \in Requests /\ run[q].pc = "returned" => run[q].made # None
        BY DEF RequestsSound, RequestSound
      <4>q. QED
        BY <1>b, <2>1, <2>2, <4>1, <4>2
    <3>2. CASE p # o
      <4>1. promotion'[p] = promotion[p] /\ (Is(q, "failed")' <=> Is(q, "failed"))
        BY <1>b, <2>1, <3>1, <3>2 DEF Is
      <4>2. \A r \in Requests : WorkingOn(r, p)' => WorkingOn(r, p)
        BY <2>1 DEF WorkingOn, Working
      <4>q. QED
        BY <1>b, <2>1, <2>2, <4>1, <4>2, StaleStays
    <3>3. CASE p = o
      <4>1. ~Undisturbed(p)'
        BY <2>1, <2>2, <3>1, <3>3, StaleStays DEF WorkingOn, Working, Is
      <4>q. QED
        BY <1>b, <2>1, <2>2, <3>3, <4>1
    <3>q. QED
      BY <3>2, <3>3
  <2>3. /\ promotion'[p].target = promotion[p].target
        /\ promotion'[p].status = "completed" => promotion[p].status = "completed"
    BY <2>1
  <2>q. QED
    BY <1>0, <2>2, <2>3
<1>3. ASSUME Keeps
      PROVE  /\ promotion'[p].status = "completed" => promotion'[p].target # None
             /\ promotion'[p].target # None => \E q \in Executors : Names(p, q)'
  <2>1. ASSUME NEW q \in Executors, Names(p, q) PROVE Names(p, q)'
    <3>1. /\ request'[q].on = p /\ run'[q] = run[q] /\ promotion'[p] = promotion[p]
      BY <1>3, <1>a, <1>b, <2>1 DEF Keeps
    <3>2. Is(q, "failed") => Is(q, "failed")'
      BY <1>3, <1>b DEF Keeps, Closed, Is
    <3>3. ASSUME Undisturbed(p)', NEW r \in Requests \ {q} PROVE ~WorkingOn(r, p)'
      <4>1. Undisturbed(p) /\ ~Executable(p) /\ ~WorkingOn(r, p)
        BY <1>s, <2>1, <3>3, StaleStays DEF Executable
      <4>2. Working(r)' => Working(r) \/ (~Is(r, "idle") /\ Executable(request[r].on))
        BY <1>3 DEF Keeps
      <4>3. ~Is(r, "idle") => request'[r].on = request[r].on
        BY RequestsStay
      <4>4. Working(r) => ~Is(r, "idle")
        BY DEF Working, Is
      <4>q. QED
        BY <4>1, <4>2, <4>3, <4>4 DEF WorkingOn
    <3>q. QED
      BY <2>1, <3>1, <3>2, <3>3, StaleStays
  <2>2. /\ promotion'[p].target = promotion[p].target
        /\ promotion'[p].status = "completed" => promotion[p].status = "completed"
    BY <1>3 DEF Keeps
  <2>q. QED
    BY <1>0, <2>1, <2>2
<1>q. QED
  BY <1>1, <1>2, <1>3, ClosingSteps

\* All of it is an invariant.
LEMMA ClosingSoundHolds ==
    PromotionSpec => [](ClosingSound /\ ClosingStands /\ NamingSound)
<1>1. PromotionInit => ClosingSound /\ ClosingStands /\ NamingSound
  <2>1. PromotionInit => \A q \in Requests : ~Closed(q)
    BY DEF PromotionInit, Closed, Is
  <2>2. PromotionInit => NamingSound
    BY DEF PromotionInit, NamingSound
  <2>q. QED
    BY <2>1, <2>2, ClosingSoundInit DEF ClosingStands
<1>2. ASSUME PromotionTypeOK, PromotionSound, ClosingSound, ClosingStands, NamingSound,
             [PromotionNext]_allVars
      PROVE  (ClosingSound /\ ClosingStands /\ NamingSound)'
  BY <1>2, ClosingSoundStep, ClosingStandsStep, NamingSoundStep DEF PromotionSound
<1>q. QED
  BY <1>1, <1>2, PromotionSoundHolds, PTL DEF PromotionSpec

\* Two requests close the same promotion only if they, or an approval, overlapped.
THEOREM PromotionClosedOnce == PromotionSpec => []ClosedOnce
<1>1. ClosingSound => ClosedOnce
  BY DEF ClosingSound, ClosedOnce
<1>q. QED
  BY <1>1, ClosingSoundHolds, PTL

\* What closed a promotion that no other request was at work on stands.
THEOREM PromotionClosingStands == PromotionSpec => []ClosingStands
BY ClosingSoundHolds, PTL

\* A deployment that a promotion names was made for it, in a call of deploy that
\* returned; only its own request, or one that overlapped, says failed beside it.
THEOREM PromotionNamesItsDeployment == PromotionSpec => []NamesItsDeployment
<1>1. NamingSound => NamesItsDeployment
  BY DEF NamingSound, NamesItsDeployment
<1>q. QED
  BY <1>1, ClosingSoundHolds, PTL

\* An approved promotion is on its way to be executed, or that was cut short.
THEOREM PromotionStrandedByError == PromotionSpec => []StrandedByError
<1>1. PromotionInit => StrandedByError
  BY DEF PromotionInit, StrandedByError
<1>2. ASSUME PromotionTypeOK, PromotionSound, StrandedByError, [PromotionNext]_allVars
      PROVE  StrandedByError'
  <2> DEFINE Strands(q) == InFlight(q) \/ request[q].pc \in {"raised", "cut"}
  <2> SUFFICES ASSUME NEW p \in Promotions, promotion'[p].status = "approved"
               PROVE  \E q \in Executors : request'[q].on = p /\ Strands(q)'
    BY DEF StrandedByError
  <2>0. RequestsSound /\ Executors \subseteq Requests
    BY <1>2 DEF PromotionSound, Requests, Executors
  <2>s. ASSUME promotion[p].status = "approved"
        PROVE  \E q \in Executors :
                  /\ request[q].on = p /\ Strands(q) /\ ~Is(q, "idle")
                  /\ request'[q].on = p
    BY <1>2, <2>s, <2>0, RequestsStay, PromotionAssumption
       DEF StrandedByError, RequestsSound, RequestSound, InFlight, Is
  <2>1. ASSUME NEW w \in Requests, Writes(w)
        PROVE  \E q \in Executors : request'[q].on = p /\ Strands(q)'
    <3>1. request[w].on # p /\ promotion[p].status = "approved"
      BY <1>2, <2>0, <2>1, WritesFields
    <3>2. \A r \in Requests : r # w => request'[r].pc = request[r].pc
      BY <1>2, <2>0, <2>1, WritesFields
    <3>q. QED
      BY <2>0, <2>s, <3>1, <3>2 DEF InFlight
  <2>2. ASSUME NEW a \in Requests, Approve(a)
        PROVE  \E q \in Executors : request'[q].on = p /\ Strands(q)'
    <3>1. /\ a \in Executors
          /\ request'[a].on = request[a].on
          /\ request'[a].pc = "execute"
          /\ \A r \in Requests : r # a => request'[r].pc = request[r].pc
          /\ request[a].on # p => promotion'[p] = promotion[p]
      BY <1>2, <2>0, <2>2, ApproveFields DEF Executors
    <3>2. CASE request[a].on = p
      BY <3>1, <3>2 DEF InFlight
    <3>3. CASE request[a].on # p
      BY <2>0, <2>s, <3>1, <3>3 DEF InFlight
    <3>q. QED
      BY <3>2, <3>3
  <2>3. ASSUME Keeps
        PROVE  \E q \in Executors : request'[q].on = p /\ Strands(q)'
    <3>1. promotion[p].status = "approved"
      BY <2>3 DEF Keeps
    <3>2. \A q \in Requests : Strands(q) /\ ~Is(q, "idle") => Strands(q)'
      BY <2>3 DEF Keeps, InFlight, Is
    <3>q. QED
      BY <2>0, <2>s, <3>1, <3>2
  <2>q. QED
    BY <1>2, <2>0, <2>1, <2>2, <2>3, ClosingSteps
<1>q. QED
  BY <1>1, <1>2, PromotionSoundHolds, PTL DEF PromotionSpec

(***************************************************************************)
(* What the promise of the deployment service says of its calls, and what  *)
(* that says of a completed promotion.                                     *)
(***************************************************************************)
\* Every step keeps the types of the promise.
LEMMA PromiseTypeOKStep ==
    ASSUME TypeOK, [Next]_vars
    PROVE  TypeOK'
<1>1. ASSUME NEW d \in Deployments, Stop(d) PROVE TypeOK'
  BY <1>1 DEF Stop, TypeOK
<1>2. CASE UNCHANGED vars
  BY <1>2 DEF vars, TypeOK
<1>q. QED
  BY StepTypeOK, <1>1, <1>2 DEF Next

\* What the calls have made stays theirs.
LEMMA PromiseSoundStep ==
    ASSUME TypeOK, PromiseSound, [Next]_vars
    PROVE  PromiseSound'
<1> USE PromiseAssumption DEF TypeOK, Run, PromiseSound, MadeOnce, ReturnedIsSettled, Settled
<1>1. ASSUME NEW c \in Makers, Make(c) PROVE PromiseSound'
  <2>1. PICK d \in Deployments :
           /\ status[d] = "none"
           /\ status' = [status EXCEPT ![d] = "busy"]
           /\ run' = [run EXCEPT ![c] = [pc |-> "running", made |-> d]]
    BY <1>1 DEF Make
  <2>2. run[c].made = None /\ \A m \in Makers : run[m].made # d
    BY <1>1, <2>1 DEF Make
  <2>3. /\ run'[c].pc = "running" /\ run'[c].made = d
        /\ \A m \in Makers : m # c => run'[m] = run[m]
    BY <2>1
  <2>4. status'[d] = "busy" /\ \A e \in Deployments : e # d => status'[e] = status[e]
    BY <2>1
  <2>q. QED
    BY <2>2, <2>3, <2>4
<1>2. ASSUME NEW c \in Makers, Activate(c) \/ Falter(c) \/ Fail(c) \/ Raise(c)
      PROVE  PromiseSound'
  <2>1. /\ run'[c].made = run[c].made
        /\ run[c].pc \in {"idle", "running", "ending"}
        /\ run'[c].pc \in {"ending", "returned", "raised"}
        /\ \A m \in Makers : m # c => run'[m] = run[m]
    BY <1>2 DEF Activate, Falter, Fail, Raise
  <2>2. /\ \A d \in Deployments : d # run[c].made => status'[d] = status[d]
        /\ \A d \in Deployments : status[d] # "none" => status'[d] # "none"
    BY <1>2 DEF Activate, Falter, Fail, Raise
  <2>3. run'[c].pc \in {"ending", "returned"} => run[c].pc \in {"running", "ending"}
    BY <1>2 DEF Activate, Falter, Fail, Raise
  <2>4. run'[c].pc = "returned" => Settled(run[c].made)'
    BY <1>2 DEF Activate, Falter, Fail, Raise
  <2>q. QED
    BY <2>1, <2>2, <2>3, <2>4
<1>3. ASSUME NEW d \in Deployments, Stop(d) PROVE PromiseSound'
  BY <1>3 DEF Stop
<1>4. CASE UNCHANGED vars
  BY <1>4 DEF vars
<1>q. QED
  BY <1>1, <1>2, <1>3, <1>4 DEF Next, Step

\* The strengthening is an invariant of the promise.
LEMMA PromiseSoundHolds == Spec => [](TypeOK /\ PromiseSound)
<1>1. Init => TypeOK /\ PromiseSound
  <2>1. Init => TypeOK
    BY PromiseAssumption DEF Init, TypeOK, Run
  <2>2. ASSUME Init, NEW c \in Makers PROVE run[c].pc = "idle" /\ run[c].made = None
    BY <2>2 DEF Init
  <2>q. QED
    BY <2>1, <2>2 DEF PromiseSound, MadeOnce, ReturnedIsSettled
<1>q. QED
  BY <1>1, PromiseTypeOKStep, PromiseSoundStep, PTL DEF Spec

\* A deployment is made by one call at most.
THEOREM PromiseMadeOnce == Spec => []MadeOnce
BY PromiseSoundHolds, PTL DEF PromiseSound

\* What deploy returned is at rest for good.
THEOREM PromiseReturnedIsSettled == Spec => []ReturnedIsSettled
BY PromiseSoundHolds, PTL DEF PromiseSound

\* Promotions use the deployment service as its callers may.
LEMMA PromotionPromise == PromotionSpec => Spec
<1>1. PromotionInit => Init
  BY DEF PromotionInit
<1>2. [PromotionNext]_allVars => [Next]_vars
  BY PromotionAssumption
     DEF PromotionNext, allVars, vars, Create, Begin, Handle, Manage, ReadPending,
         ReadDecided, Approve, Reject, ExecuteRead, SourceRead, DeployReturned,
         DeployRaised, Complete, CompleteFails, MarkFailed, Deploy, Cut,
         StopDeployment, OthersDeploy, Next, Executors, Requests
<1>q. QED
  BY <1>1, <1>2, PTL DEF PromotionSpec, Spec

\* A completed promotion names a deployment that has come to rest.
THEOREM PromotionCompletedIsSettled == PromotionSpec => []CompletedIsSettled
<1>1. NamesItsDeployment /\ ReturnedIsSettled => CompletedIsSettled
  BY PromotionAssumption DEF NamesItsDeployment, ReturnedIsSettled, CompletedIsSettled
<1>q. QED
  BY <1>1, PromotionNamesItsDeployment, PromotionPromise, PromiseReturnedIsSettled, PTL

=============================================================================

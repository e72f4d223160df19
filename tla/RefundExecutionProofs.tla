----------------------- MODULE RefundExecutionProofs -----------------------
(***************************************************************************)
(* Type correctness of the money path, and that a journey creates at most  *)
(* one refund at the provider, for any journeys, attempts and amounts; and *)
(* that what the ledger, the events and the journeys say about refunds is  *)
(* true, for any journeys of different amounts.                            *)
(***************************************************************************)
EXTENDS RefundExecution, TLAPS

----------------------------------------------------------------------------
(* The inductive invariant.  TypeOK is not inductive alone: recordOutcome    *)
(* updates a row, so a handler past the reservation must have one.           *)

\* Where the control is, the state it relies on exists.
ControlInv ==
  /\ \A w \in Journeys : workflow[w].stage = "EXECUTING" => workflow[w].attempt # 0
  /\ \A w \in Journeys : \A n \in Attempts :
       handlerAt[w][n] = "CALLED" =>
         row[w] # None /\ handlerResult[w][n].status \in ExecutionStatus
  /\ \A i \in signalled : event[i] # None

\* The provider call of this handler has not taken effect.
Outstanding(w, n) == handlerAt[w][n] \in {"RESERVED", "ORPHANED"}

\* A key is reserved once: one call is outstanding at most, and none once the
\* journey owns a refund.
ReservationInv ==
  \A w \in Journeys :
    /\ row[w] = None => /\ \A n \in Attempts : ~Outstanding(w, n)
                        /\ \A i \in RefundIds : ~Owns(w, i)
    /\ \A m, n \in Attempts : Outstanding(w, m) /\ Outstanding(w, n) => m = n
    /\ (\E n \in Attempts : Outstanding(w, n)) => \A i \in RefundIds : ~Owns(w, i)

IInv == TypeOK /\ ControlInv /\ ReservationInv /\ OneRefundPerJourney

----------------------------------------------------------------------------
(* Type correctness.                                                       *)

\* A signal leaves the journey a well-typed workflow record.
LEMMA AcceptOutcomeType ==
  ASSUME NEW wf \in Workflow, NEW i \in MaybeRefundId
  PROVE  AcceptOutcome(wf, i) \in Workflow
BY DEF AcceptOutcome, Workflow

\* So does the answer of executeRefund,
LEMMA AfterExecutionType ==
  ASSUME TypeOK, NEW w \in Journeys, NEW result \in Result
  PROVE  AfterExecution(w, result) \in Workflow
<1> DEFINE wf == workflow[w]
           submitted == [wf EXCEPT !.stage = "REFUND_PROCESSING", !.refundId = result.refundId]
<1>1. wf \in Workflow
  BY DEF TypeOK
<1>2. result.refundId \in MaybeRefundId
  BY DEF Result
<1>3. submitted \in Workflow /\ submitted.refundId \in MaybeRefundId
  BY <1>1, <1>2 DEF Workflow, Stages
<1>4. HandlerSet(submitted, buffered[w]) \in Workflow
  BY <1>3, AcceptOutcomeType DEF HandlerSet
<1>5. /\ [wf EXCEPT !.stage = "REFUND_SUCCEEDED", !.refundId = result.refundId] \in Workflow
      /\ [wf EXCEPT !.stage = "PENDING_RECONCILIATION"] \in Workflow
      /\ [wf EXCEPT !.stage = "REFUND_FAILED"] \in Workflow
  BY <1>1, <1>2 DEF Workflow, Stages
<1> QED
  BY <1>4, <1>5 DEF AfterExecution

\* and the answer of reconcileRefund.
LEMMA AfterReconciliationType ==
  ASSUME NEW wf \in Workflow, NEW status, NEW id \in MaybeRefundId
  PROVE  AfterReconciliation(wf, status, id) \in Workflow
BY DEF AfterReconciliation, Workflow, Stages

\* recordOutcome writes a well-typed row.
LEMMA RecordedType ==
  ASSUME NEW r \in Row, NEW status \in ExecutionStatus, NEW id \in MaybeRefundId
  PROVE  Recorded(r, status, id) \in Row
BY DEF Recorded, Row

\* The initial state is well typed.
LEMMA InitType == Init => TypeOK
<1> SUFFICES ASSUME Init PROVE TypeOK
  OBVIOUS
<1> USE DEF Init
<1>1. [status |-> "IN_PROGRESS", refundId |-> None] \in Result
  BY DEF Result, Answers, ExecutionStatus, MaybeRefundId
<1>2. [stage |-> "AUTHORIZED", attempt |-> 0, refundId |-> None, outcome |-> "NONE"] \in Workflow
  BY MaxAttemptsAssumption DEF Workflow, Stages, MaybeRefundId
<1> QED
  BY <1>1, <1>2 DEF TypeOK, RefundStates, HandlerSteps

\* The handler positions, named once so that the type can stay folded.
LEMMA StepNames ==
  {"IDLE", "SENT", "ELIGIBLE", "RESERVED", "CALLED", "ANSWERED", "ORPHANED", "GONE"} = HandlerSteps
BY DEF HandlerSteps

\* Advancing one handler to a position keeps the table of positions typed.
LEMMA HandlerAtType ==
  ASSUME TypeOK, NEW w \in Journeys, NEW n, NEW step \in HandlerSteps, Moves(w, n, step)
  PROVE  handlerAt' \in [Journeys -> [Attempts -> HandlerSteps]]
<1>1. [handlerAt[w] EXCEPT ![n] = step] \in [Attempts -> HandlerSteps]
  BY DEF TypeOK
<1> QED
  BY <1>1 DEF TypeOK, Moves

\* So does answering.
LEMMA AnswerType ==
  ASSUME TypeOK, NEW w \in Journeys, NEW n \in Attempts,
         NEW status \in Answers, NEW id \in MaybeRefundId, Answer(w, n, status, id)
  PROVE  /\ handlerAt' \in [Journeys -> [Attempts -> HandlerSteps]]
         /\ handlerResult' \in [Journeys -> [Attempts -> Result]]
<1>1. handlerAt' \in [Journeys -> [Attempts -> HandlerSteps]]
  BY HandlerAtType, StepNames DEF Answer
<1>2. [status |-> status, refundId |-> id] \in Result
  BY DEF Result
<1> QED
  BY <1>1, <1>2 DEF Answer, TypeOK

\* The worker keeps the types,
LEMMA WorkerStepType ==
  ASSUME TypeOK, ControlInv, ReservationInv, NEW w \in Journeys, WorkerStep(w)
  PROVE  TypeOK'
<1> DEFINE wf == workflow[w]
<1>0. wf \in Workflow
  BY DEF TypeOK
<1>1. CASE StartExecution(w)
  <2>0. 1 \in 0..MaxAttempts
    BY MaxAttemptsAssumption
  <2>1. [wf EXCEPT !.stage = "EXECUTING", !.attempt = 1] \in Workflow
    BY <1>0, <2>0 DEF Workflow, Stages
  <2>2. [wf EXCEPT !.stage = "PREVIEW_INVALIDATED"] \in Workflow
    BY <1>0 DEF Workflow, Stages
  <2>3. workflow' \in [Journeys -> Workflow]
    BY <1>1, <2>1, <2>2 DEF StartExecution, TypeOK
  <2>4. handlerAt' \in [Journeys -> [Attempts -> HandlerSteps]]
    BY <1>1, HandlerAtType, StepNames DEF StartExecution, TypeOK
  <2> QED
    BY <1>1, <2>3, <2>4 DEF StartExecution, TypeOK, providerVars
<1>2. CASE AttemptLost(w)
  <2>1. wf.attempt < MaxAttempts => [wf EXCEPT !.attempt = @ + 1] \in Workflow
    BY <1>0, MaxAttemptsAssumption DEF Workflow, Stages
  <2>2. [wf EXCEPT !.stage = "WORKFLOW_FAILED"] \in Workflow
    BY <1>0 DEF Workflow, Stages
  <2>3. workflow' \in [Journeys -> Workflow]
    BY <1>2, <2>1, <2>2 DEF AttemptLost, TypeOK
  <2>4. handlerAt' \in [Journeys -> [Attempts -> HandlerSteps]]
    BY <1>2, HandlerAtType, StepNames DEF AttemptLost, TypeOK
  <2> QED
    BY <1>2, <2>3, <2>4 DEF AttemptLost, TypeOK, providerVars
<1>3. CASE ReceiveAnswer(w)
  <2>1. wf.attempt \in Attempts
    BY <1>0, <1>3, MaxAttemptsAssumption DEF ReceiveAnswer, ControlInv, Workflow, Attempts
  <2>2. handlerResult[w][wf.attempt] \in Result
    BY <2>1 DEF TypeOK
  <2> QED
    BY <1>3, <2>2, AfterExecutionType
    DEF ReceiveAnswer, TypeOK, providerVars, gatewayVars
<1>4. CASE ClientGivesUp(w)
  BY <1>4 DEF ClientGivesUp, TypeOK, Workflow, Stages, providerVars, gatewayVars
<1>5. CASE ActivityExhausted(w)
  BY <1>5 DEF ActivityExhausted, TypeOK, Workflow, Stages, providerVars, gatewayVars
<1> QED
  BY <1>1, <1>2, <1>3, <1>4, <1>5 DEF WorkerStep

\* the execution route keeps them,
LEMMA HandlerStepType ==
  ASSUME TypeOK, ControlInv, ReservationInv, NEW w \in Journeys, NEW n \in Attempts,
         HandlerStep(w, n)
  PROVE  TypeOK'
<1> USE DEF providerVars, workerVars
<1>0. handlerResult[w][n] \in Result
  BY DEF TypeOK
<1>1. CASE ReadOrder(w, n)
  <2>1. handlerAt' \in [Journeys -> [Attempts -> HandlerSteps]] /\ handlerResult' \in [Journeys -> [Attempts -> Result]]
    <3>1. CASE AmountStillAvailable(w)
      BY <1>1, <3>1, HandlerAtType, StepNames DEF ReadOrder, TypeOK
    <3>2. CASE ~AmountStillAvailable(w)
      BY <1>1, <3>2, AnswerType DEF ReadOrder, Answers, MaybeRefundId
    <3> QED
      BY <3>1, <3>2
  <2> QED
    BY <1>1, <2>1 DEF ReadOrder, TypeOK
<1>2. CASE RequestFails(w, n)
  BY <1>2, AnswerType DEF RequestFails, TypeOK, Answers, MaybeRefundId
<1>3. CASE Reserve(w, n)
  <2>1. CASE row[w] = None
    <3>1. [status |-> "IN_PROGRESS", refundId |-> None] \in Row
      BY DEF Row, ExecutionStatus, MaybeRefundId
    <3>2. handlerAt' \in [Journeys -> [Attempts -> HandlerSteps]]
      BY <1>3, <2>1, HandlerAtType, StepNames DEF Reserve
    <3> QED
      BY <1>3, <2>1, <3>1, <3>2 DEF Reserve, TypeOK
  <2>2. CASE row[w] # None
    <3>1. row[w] \in Row
      BY <2>2 DEF TypeOK
    <3>2. StoredAnswer(row[w]).status \in Answers /\ StoredAnswer(row[w]).refundId \in MaybeRefundId
      BY <3>1 DEF StoredAnswer, Row, Answers, ExecutionStatus, MaybeRefundId
    <3> QED
      BY <1>3, <2>2, <3>2, AnswerType DEF Reserve, TypeOK
  <2> QED
    BY <2>1, <2>2
<1>4. CASE ProviderAccepts(w, n)
  <2> PICK i \in RefundIds :
        /\ refundState' = [refundState EXCEPT ![i] = "PENDING"]
        /\ refundOwner' = [refundOwner EXCEPT ![i] = w]
        /\ \/ /\ Moves(w, n, "GONE")
              /\ UNCHANGED handlerResult
           \/ /\ Moves(w, n, "CALLED")
              /\ \E answer \in Result :
                   handlerResult' = [handlerResult EXCEPT ![w][n] = answer]
    BY <1>4 DEF ProviderAccepts, Result, Answers, ExecutionStatus, MaybeRefundId
  <2>1. refundState' \in [RefundIds -> RefundStates] /\ refundOwner' \in [RefundIds -> Journeys \cup {None}]
    BY DEF TypeOK, RefundStates
  <2>2. handlerAt' \in [Journeys -> [Attempts -> HandlerSteps]]
    BY HandlerAtType, StepNames
  <2>3. handlerResult' \in [Journeys -> [Attempts -> Result]]
    <3>1. CASE UNCHANGED handlerResult
      BY <3>1 DEF TypeOK
    <3>2. ASSUME NEW answer \in Result,
                 handlerResult' = [handlerResult EXCEPT ![w][n] = answer]
          PROVE  handlerResult' \in [Journeys -> [Attempts -> Result]]
      BY <3>2 DEF TypeOK
    <3> QED
      BY <3>1, <3>2
  <2> QED
    BY <1>4, <2>1, <2>2, <2>3 DEF ProviderAccepts, TypeOK
<1>5. CASE ProviderDeclines(w, n)
  BY <1>5
  DEF ProviderDeclines, TypeOK, HandlerSteps, Moves, Result, Answers, ExecutionStatus, MaybeRefundId
<1>6. CASE RecordOutcome(w, n)
  <2>1. row[w] \in Row /\ handlerResult[w][n].status \in ExecutionStatus
    BY <1>6 DEF RecordOutcome, ControlInv, TypeOK
  <2>2. Recorded(row[w], handlerResult[w][n].status, handlerResult[w][n].refundId) \in Row
    BY <1>0, <2>1, RecordedType DEF Result
  <2> QED
    BY <1>6, <2>2 DEF RecordOutcome, TypeOK, HandlerSteps, Moves
<1>7. CASE RecordUncertain(w, n)
  <2>1. row[w] \in Row
    BY <1>7 DEF RecordUncertain, ControlInv, TypeOK
  <2>2. Recorded(row[w], "PENDING_RECONCILIATION", None) \in Row
    BY <2>1, RecordedType DEF ExecutionStatus, MaybeRefundId
  <2> QED
    BY <1>7, <2>2, AnswerType
    DEF RecordUncertain, TypeOK, Answers, ExecutionStatus, MaybeRefundId
<1>8. CASE RecordFails(w, n)
  BY <1>8, AnswerType DEF RecordFails, TypeOK, Answers, MaybeRefundId
<1> QED
  BY <1>1, <1>2, <1>3, <1>4, <1>5, <1>6, <1>7, <1>8 DEF HandlerStep

\* the reconciliation route keeps them,
LEMMA LookupStepType ==
  ASSUME TypeOK, NEW w \in Journeys, LookupStep(w)
  PROVE  TypeOK'
<1> USE DEF providerVars, workerVars
<1>1. CASE FindRefund(w)
  <2> PICK i \in RefundIds :
        lookup' = [lookup EXCEPT ![w] = [refundId |-> i, seen |-> refundState[i], awaited |-> TRUE]]
    BY <1>1 DEF FindRefund, MatchingRefunds
  <2>1. [refundId |-> i, seen |-> refundState[i], awaited |-> TRUE] \in Lookup
    BY DEF Lookup, TypeOK
  <2> QED
    BY <1>1, <2>1 DEF FindRefund, TypeOK
<1>2. CASE FinishLookup(w)
  <2> DEFINE found == lookup[w]
             status == LookupStatus(found.seen)
  <2>1. found \in Lookup /\ found.refundId \in MaybeRefundId
    BY <1>2 DEF FinishLookup, TypeOK, Lookup, MaybeRefundId
  <2>2. status # "PROCESSING" => status \in ExecutionStatus
    BY DEF LookupStatus, ExecutionStatus
  <2>3. row' \in [Journeys -> Row \cup {None}]
    <3>1. ASSUME status # "PROCESSING", row[w] # None
          PROVE  Recorded(row[w], status, found.refundId) \in Row
      BY <2>1, <2>2, <3>1, RecordedType DEF TypeOK
    <3> QED
      BY <1>2, <3>1 DEF FinishLookup, TypeOK
  <2>4. workflow' \in [Journeys -> Workflow]
    <3>1. AfterReconciliation(workflow[w], status, found.refundId) \in Workflow
      BY <2>1, AfterReconciliationType DEF TypeOK
    <3> QED
      BY <1>2, <3>1 DEF FinishLookup, TypeOK
  <2> QED
    BY <1>2, <2>3, <2>4 DEF FinishLookup, TypeOK
<1>3. CASE LookupUnheard(w)
  <2>1. AfterReconciliation(workflow[w], "NOT_FOUND", None) \in Workflow
    BY AfterReconciliationType DEF TypeOK, MaybeRefundId
  <2>2. lookup' \in [Journeys -> Lookup \cup {None}]
    <3>1. lookup[w] # None => [lookup[w] EXCEPT !.awaited = FALSE] \in Lookup
      BY DEF TypeOK, Lookup
    <3> QED
      BY <1>3, <3>1 DEF LookupUnheard, TypeOK
  <2> QED
    BY <1>3, <2>1, <2>2 DEF LookupUnheard, TypeOK
<1> QED
  BY <1>1, <1>2, <1>3 DEF LookupStep

\* provider outcomes keep them,
LEMMA EventStepType ==
  ASSUME TypeOK, ControlInv, NEW i \in RefundIds, EventStep(i)
  PROVE  TypeOK'
<1> USE DEF providerVars, workerVars
<1>1. CASE ProviderFinishes(i)
  BY <1>1 DEF ProviderFinishes, TypeOK, RefundStates, gatewayVars
<1>2. CASE ReceiveProviderEvent(i)
  <2> PICK w \in Journeys :
        /\ row[w] # None
        /\ event' = [event EXCEPT ![i] =
             [journey |-> w, delivery |-> IF TerminalRow(row[w]) THEN "DELIVERED" ELSE "PENDING"]]
        /\ row' = IF TerminalRow(row[w]) THEN row
                  ELSE [row EXCEPT ![w].status =
                          IF refundState[i] = "SETTLED" THEN "SUCCEEDED" ELSE "FAILED"]
    BY <1>2 DEF ReceiveProviderEvent, RowsOf
  <2>1. event' \in [RefundIds -> Event \cup {None}]
    BY DEF TypeOK, Event
  <2>2. [row[w] EXCEPT !.status = IF refundState[i] = "SETTLED" THEN "SUCCEEDED" ELSE "FAILED"] \in Row
    <3>1. row[w] \in Row
      BY DEF TypeOK
    <3> QED
      BY <3>1 DEF Row, ExecutionStatus
  <2>3. row' \in [Journeys -> Row \cup {None}]
    BY <2>2 DEF TypeOK
  <2> QED
    BY <1>2, <2>1, <2>3 DEF ReceiveProviderEvent, TypeOK
<1>3. CASE SignalOutcome(i)
  <2> DEFINE w == event[i].journey
  <2>1. w \in Journeys
    BY <1>3 DEF SignalOutcome, TypeOK, Event
  <2>2. AcceptOutcome(workflow[w], i) \in Workflow
    BY <2>1, AcceptOutcomeType DEF TypeOK, MaybeRefundId
  <2>3. \/ workflow' = [workflow EXCEPT ![w] = AcceptOutcome(@, i)] /\ UNCHANGED buffered
        \/ buffered' = [buffered EXCEPT ![w] = @ \cup {i}] /\ UNCHANGED workflow
    BY <1>3 DEF SignalOutcome
  <2> HIDE DEF w
  <2>4. workflow' \in [Journeys -> Workflow] /\ buffered' \in [Journeys -> SUBSET RefundIds]
    <3>1. buffered[w] \cup {i} \in SUBSET RefundIds
      BY <2>1 DEF TypeOK
    <3> QED
      BY <2>1, <2>2, <2>3, <3>1 DEF TypeOK
  <2> QED
    BY <1>3, <2>4 DEF SignalOutcome, TypeOK
<1>4. CASE MarkDelivered(i)
  <2>1. [event[i] EXCEPT !.delivery = "DELIVERED"] \in Event
    <3>1. event[i] \in Event
      BY <1>4 DEF MarkDelivered, TypeOK, ControlInv
    <3> QED
      BY <3>1 DEF Event
  <2> QED
    BY <1>4, <2>1 DEF MarkDelivered, TypeOK
<1> QED
  BY <1>1, <1>2, <1>3, <1>4 DEF EventStep

\* and a restart of the gateway keeps them.
LEMMA RestartType ==
  ASSUME TypeOK, GatewayRestart
  PROVE  TypeOK'
BY DEF GatewayRestart, TypeOK, Killed, HandlerSteps, providerVars, workerVars

\* Every step preserves the type invariant.
LEMMA NextType ==
  ASSUME IInv, [Next]_vars
  PROVE  TypeOK'
<1>1. CASE UNCHANGED vars
  BY <1>1 DEF IInv, TypeOK, vars, providerVars, gatewayVars, workerVars
<1>2. CASE Next
  BY <1>2, WorkerStepType, HandlerStepType, LookupStepType, EventStepType, RestartType
  DEF Next, IInv
<1> QED
  BY <1>1, <1>2

----------------------------------------------------------------------------
(* Preservation of the control and reservation parts, action by action.    *)

\* What advancing one handler does to all of them.
LEMMA MovesEffect ==
  ASSUME TypeOK, NEW w \in Journeys, NEW n \in Attempts, NEW step, Moves(w, n, step)
  PROVE  \A v \in Journeys : \A m \in Attempts :
           handlerAt'[v][m] = IF v = w /\ m = n THEN step ELSE handlerAt[v][m]
BY DEF TypeOK, Moves

\* A step that lets no call become outstanding, creates no refund and keeps
\* the rows that exist cannot break the reservation argument.
LEMMA QuietStep ==
  ASSUME ReservationInv, OneRefundPerJourney,
         UNCHANGED refundOwner,
         \A i \in RefundIds : Exists(i)' => Exists(i),
         \A v \in Journeys : \A m \in Attempts : Outstanding(v, m)' => Outstanding(v, m),
         \A v \in Journeys : row'[v] = None => row[v] = None
  PROVE  ReservationInv' /\ OneRefundPerJourney'
<1>1. \A v \in Journeys : \A i \in RefundIds : Owns(v, i)' => Owns(v, i)
  BY DEF Owns
<1> QED
  BY <1>1 DEF ReservationInv, OneRefundPerJourney

\* The attempt counter leaves zero when the activity starts.
LEMMA WorkerStepControl ==
  ASSUME IInv, NEW w \in Journeys, WorkerStep(w)
  PROVE  \A v \in Journeys : workflow'[v].stage = "EXECUTING" => workflow'[v].attempt # 0
<1> USE DEF IInv
<1> DEFINE wf == workflow[w]
<1>0. wf \in Workflow /\ (wf.stage = "EXECUTING" => wf.attempt # 0)
  BY DEF TypeOK, ControlInv
<1>1. \A v \in Journeys : v # w => workflow'[v] = workflow[v]
  BY DEF WorkerStep, StartExecution, AttemptLost, ReceiveAnswer, ClientGivesUp,
         ActivityExhausted, TypeOK
<1>2. workflow'[w].stage = "EXECUTING" => workflow'[w].attempt # 0
  <2>1. CASE StartExecution(w)
    BY <2>1, <1>0 DEF StartExecution, TypeOK, Workflow
  <2>2. CASE AttemptLost(w)
    BY <2>2, <1>0 DEF AttemptLost, TypeOK, Workflow
  <2>3. CASE ReceiveAnswer(w)
    <3>1. wf.attempt \in Attempts
      BY <1>0, <2>3, MaxAttemptsAssumption DEF ReceiveAnswer, Workflow, Attempts
    <3>2. AfterExecution(w, handlerResult[w][wf.attempt]).stage # "EXECUTING"
      BY <1>0 DEF AfterExecution, HandlerSet, AcceptOutcome, Workflow
    <3> QED
      BY <2>3, <3>2 DEF ReceiveAnswer, TypeOK
  <2>4. CASE ClientGivesUp(w)
    BY <2>4, <1>0 DEF ClientGivesUp, TypeOK, Workflow
  <2>5. CASE ActivityExhausted(w)
    BY <2>5, <1>0 DEF ActivityExhausted, TypeOK, Workflow
  <2> QED
    BY <2>1, <2>2, <2>3, <2>4, <2>5 DEF WorkerStep
<1> QED
  BY <1>1, <1>2 DEF ControlInv

\* The worker reserves nothing and calls nobody: its steps are quiet.
LEMMA WorkerStepSafe ==
  ASSUME IInv, NEW w \in Journeys, WorkerStep(w)
  PROVE  ControlInv' /\ ReservationInv' /\ OneRefundPerJourney'
<1> USE DEF IInv
<1>0. UNCHANGED <<providerVars, row, event, signalled, handlerResult>>
  BY DEF WorkerStep, StartExecution, AttemptLost, ReceiveAnswer, ClientGivesUp, ActivityExhausted,
         gatewayVars, providerVars
<1>1. \/ UNCHANGED handlerAt
      \/ \E n \in Attempts : Moves(w, n, "SENT")
  <2>1. workflow[w].attempt \in 0..MaxAttempts
    BY DEF TypeOK, Workflow
  <2>2. 1 \in Attempts /\ (workflow[w].attempt < MaxAttempts => workflow[w].attempt + 1 \in Attempts)
    BY <2>1, MaxAttemptsAssumption DEF Attempts
  <2> QED
    BY <2>2
    DEF WorkerStep, StartExecution, AttemptLost, ReceiveAnswer, ClientGivesUp, ActivityExhausted,
        gatewayVars
<1>2. \A v \in Journeys : \A m \in Attempts :
        handlerAt'[v][m] = handlerAt[v][m] \/ handlerAt'[v][m] = "SENT"
  BY <1>1, MovesEffect
<1>3. ReservationInv' /\ OneRefundPerJourney'
  <2>1. \A v \in Journeys : \A m \in Attempts : Outstanding(v, m)' => Outstanding(v, m)
    BY <1>2 DEF Outstanding
  <2>2. \A i \in RefundIds : Exists(i)' => Exists(i)
    BY <1>0 DEF Exists, providerVars
  <2> QED
    BY <1>0, <2>1, <2>2, QuietStep DEF providerVars
<1>4. \A v \in Journeys : workflow'[v].stage = "EXECUTING" => workflow'[v].attempt # 0
  BY WorkerStepControl
<1>5. ControlInv'
  BY <1>0, <1>2, <1>4 DEF ControlInv
<1> QED
  BY <1>3, <1>5

\* An answer leaves no call outstanding.
LEMMA AnswerMoves ==
  ASSUME NEW w, NEW n, NEW status, NEW id, Answer(w, n, status, id)
  PROVE  Moves(w, n, "ANSWERED")
BY DEF Answer

\* The execution route: only a handler that inserted the row calls the provider,
\* and the call it makes ends the outstanding one.
LEMMA HandlerStepSafe ==
  ASSUME IInv, NEW w \in Journeys, NEW n \in Attempts, HandlerStep(w, n)
  PROVE  ControlInv' /\ ReservationInv' /\ OneRefundPerJourney'
<1> USE DEF IInv, providerVars, workerVars
<1>1. CASE ReadOrder(w, n) \/ RequestFails(w, n) \/ RecordFails(w, n)
  <2>1. Moves(w, n, "ELIGIBLE") \/ Moves(w, n, "ANSWERED")
    BY <1>1, AnswerMoves DEF ReadOrder, RequestFails, RecordFails
  <2>2. UNCHANGED <<providerVars, workerVars, row, event, signalled>>
    BY <1>1 DEF ReadOrder, RequestFails, RecordFails
  <2>3. \A v \in Journeys : \A m \in Attempts :
          (v = w /\ m = n) \/ handlerResult'[v][m] = handlerResult[v][m]
    BY <1>1 DEF ReadOrder, RequestFails, RecordFails, Answer, TypeOK
  <2>4. \A v \in Journeys : \A m \in Attempts :
          \/ handlerAt'[v][m] = handlerAt[v][m] /\ ~(v = w /\ m = n)
          \/ handlerAt'[v][m] \in {"ELIGIBLE", "ANSWERED"}
    BY <2>1, MovesEffect
  <2>5. ControlInv'
    BY <2>2, <2>3, <2>4 DEF ControlInv
  <2>6. ReservationInv' /\ OneRefundPerJourney'
    <3>1. \A v \in Journeys : \A m \in Attempts : Outstanding(v, m)' => Outstanding(v, m)
      BY <2>4 DEF Outstanding
    <3> QED
      BY <2>2, <3>1, QuietStep DEF Exists
  <2> QED
    BY <2>5, <2>6
<1>2. CASE Reserve(w, n) /\ row[w] # None
  <2>1. Moves(w, n, "ANSWERED")
    BY <1>2, AnswerMoves DEF Reserve
  <2>2. UNCHANGED <<providerVars, workerVars, row, event, signalled>>
    BY <1>2 DEF Reserve
  <2>3. \A v \in Journeys : \A m \in Attempts :
          (v = w /\ m = n) \/ handlerResult'[v][m] = handlerResult[v][m]
    BY <1>2 DEF Reserve, Answer, TypeOK
  <2>4. \A v \in Journeys : \A m \in Attempts :
          \/ handlerAt'[v][m] = handlerAt[v][m] /\ ~(v = w /\ m = n)
          \/ handlerAt'[v][m] = "ANSWERED"
    BY <2>1, MovesEffect
  <2>5. ControlInv'
    BY <2>2, <2>3, <2>4 DEF ControlInv
  <2>6. ReservationInv' /\ OneRefundPerJourney'
    <3>1. \A v \in Journeys : \A m \in Attempts : Outstanding(v, m)' => Outstanding(v, m)
      BY <2>4 DEF Outstanding
    <3> QED
      BY <2>2, <3>1, QuietStep DEF Exists
  <2> QED
    BY <2>5, <2>6
<1>3. CASE Reserve(w, n) /\ row[w] = None
  <2>1. Moves(w, n, "RESERVED")
    BY <1>3 DEF Reserve
  <2>2. UNCHANGED <<providerVars, workerVars, event, signalled, handlerResult>>
    BY <1>3 DEF Reserve
  <2>3. row'[w] # None /\ \A v \in Journeys : v # w => row'[v] = row[v]
    <3>1. row' = [row EXCEPT ![w] = [status |-> "IN_PROGRESS", refundId |-> None]]
      BY <1>3 DEF Reserve
    <3>2. row'[w] = [status |-> "IN_PROGRESS", refundId |-> None]
      BY <3>1 DEF TypeOK
    <3>3. [status |-> "IN_PROGRESS", refundId |-> None] \in Row
      BY DEF Row, ExecutionStatus, MaybeRefundId
    <3> QED
      BY <3>1, <3>2, <3>3, NoneAssumption DEF TypeOK
  <2>4. \A v \in Journeys : \A m \in Attempts :
          handlerAt'[v][m] = IF v = w /\ m = n THEN "RESERVED" ELSE handlerAt[v][m]
    BY <2>1, MovesEffect
  <2>5. ControlInv'
    BY <2>2, <2>3, <2>4 DEF ControlInv
  <2>6. \A v \in Journeys : \A i \in RefundIds : Owns(v, i)' <=> Owns(v, i)
    BY <2>2 DEF Owns, Exists
  <2>7. ReservationInv'
    BY <1>3, <2>3, <2>4, <2>6 DEF ReservationInv, Outstanding
  <2> QED
    BY <2>5, <2>6, <2>7 DEF OneRefundPerJourney
<1>4. CASE ProviderAccepts(w, n)
  <2> PICK i \in RefundIds :
        /\ refundState[i] = "ABSENT"
        /\ refundState' = [refundState EXCEPT ![i] = "PENDING"]
        /\ refundOwner' = [refundOwner EXCEPT ![i] = w]
    BY <1>4 DEF ProviderAccepts
  <2>1. Outstanding(w, n)
    BY <1>4 DEF ProviderAccepts, Outstanding
  <2>2. row[w] # None
    BY <2>1 DEF ReservationInv
  <2>3. \/ Moves(w, n, "GONE") /\ UNCHANGED handlerResult
        \/ /\ Moves(w, n, "CALLED")
           /\ \E answer \in Result :
                answer.status \in ExecutionStatus
                /\ handlerResult' = [handlerResult EXCEPT ![w][n] = answer]
    BY <1>4 DEF ProviderAccepts, Result, Answers, ExecutionStatus, MaybeRefundId
  <2>4. \A v \in Journeys : \A m \in Attempts :
          IF v = w /\ m = n
            THEN handlerAt'[v][m] = "GONE" \/ (handlerAt'[v][m] = "CALLED" /\ handlerResult'[v][m].status \in ExecutionStatus)
            ELSE handlerAt'[v][m] = handlerAt[v][m] /\ handlerResult'[v][m] = handlerResult[v][m]
    <3>1. CASE Moves(w, n, "GONE") /\ UNCHANGED handlerResult
      BY <3>1, MovesEffect
    <3>2. ASSUME Moves(w, n, "CALLED"), NEW answer \in Result, answer.status \in ExecutionStatus,
                 handlerResult' = [handlerResult EXCEPT ![w][n] = answer]
          PROVE  \A v \in Journeys : \A m \in Attempts :
                   IF v = w /\ m = n
                     THEN handlerAt'[v][m] = "CALLED" /\ handlerResult'[v][m].status \in ExecutionStatus
                     ELSE handlerAt'[v][m] = handlerAt[v][m] /\ handlerResult'[v][m] = handlerResult[v][m]
      BY <3>2, MovesEffect DEF TypeOK
    <3> QED
      BY <2>3, <3>1, <3>2
  <2>5. UNCHANGED <<workerVars, row, event, signalled>>
    BY <1>4 DEF ProviderAccepts
  <2>6. ControlInv'
    BY <2>2, <2>4, <2>5 DEF ControlInv
  <2>7. \A v \in Journeys : \A j \in RefundIds :
          Owns(v, j)' <=> IF j = i THEN v = w ELSE Owns(v, j)
    BY DEF Owns, Exists, TypeOK
  <2>8. \A m \in Attempts : ~Outstanding(w, m)'
    BY <2>1, <2>4 DEF Outstanding, ReservationInv
  <2>9. \A v \in Journeys : v # w => \A m \in Attempts : Outstanding(v, m)' <=> Outstanding(v, m)
    BY <2>4 DEF Outstanding
  <2>10. ReservationInv'
    BY <2>2, <2>5, <2>7, <2>8, <2>9 DEF ReservationInv
  <2>11. OneRefundPerJourney'
    BY <2>1, <2>7 DEF ReservationInv, OneRefundPerJourney
  <2> QED
    BY <2>6, <2>10, <2>11
<1>5. CASE ProviderDeclines(w, n)
  <2>1. row[w] # None
    BY <1>5 DEF ProviderDeclines, ReservationInv, Outstanding
  <2>2. Moves(w, n, "CALLED") /\ UNCHANGED <<providerVars, workerVars, row, event, signalled>>
    BY <1>5 DEF ProviderDeclines
  <2>3. \A v \in Journeys : \A m \in Attempts :
          IF v = w /\ m = n
            THEN handlerResult'[v][m].status \in ExecutionStatus
            ELSE handlerResult'[v][m] = handlerResult[v][m]
    BY <1>5 DEF ProviderDeclines, TypeOK, ExecutionStatus
  <2>4. \A v \in Journeys : \A m \in Attempts :
          handlerAt'[v][m] = IF v = w /\ m = n THEN "CALLED" ELSE handlerAt[v][m]
    BY <2>2, MovesEffect
  <2>5. ControlInv'
    BY <2>1, <2>2, <2>3, <2>4 DEF ControlInv
  <2>6. \A v \in Journeys : \A m \in Attempts : Outstanding(v, m)' => Outstanding(v, m)
    BY <2>4 DEF Outstanding
  <2>7. ReservationInv' /\ OneRefundPerJourney'
    BY <2>2, <2>6, QuietStep DEF Exists
  <2> QED
    BY <2>5, <2>7
<1>6. CASE RecordOutcome(w, n) \/ RecordUncertain(w, n)
  <2>1. Moves(w, n, "ANSWERED") /\ UNCHANGED <<providerVars, workerVars, event, signalled>>
    BY <1>6, AnswerMoves DEF RecordOutcome, RecordUncertain
  <2>2. \A v \in Journeys : \A m \in Attempts :
          (v = w /\ m = n) \/ handlerResult'[v][m] = handlerResult[v][m]
    BY <1>6 DEF RecordOutcome, RecordUncertain, Answer, TypeOK
  <2>3. \A v \in Journeys : \A m \in Attempts :
          handlerAt'[v][m] = IF v = w /\ m = n THEN "ANSWERED" ELSE handlerAt[v][m]
    BY <2>1, MovesEffect
  <2>4. row[w] # None
    BY <1>6 DEF RecordOutcome, RecordUncertain, ControlInv
  <2>5. \A v \in Journeys : row[v] = None <=> row'[v] = None
    <3>1. row'[w] \in Row
      <4>1. handlerResult[w][n] \in Result /\ handlerResult[w][n].refundId \in MaybeRefundId
        BY DEF TypeOK, Result
      <4>2. row[w] \in Row
        BY <2>4 DEF TypeOK
      <4>3. CASE RecordOutcome(w, n)
        <5>1. handlerResult[w][n].status \in ExecutionStatus
          BY <4>3 DEF RecordOutcome, ControlInv
        <5> QED
          BY <4>1, <4>2, <4>3, <5>1, RecordedType DEF RecordOutcome, TypeOK
      <4>4. CASE RecordUncertain(w, n)
        BY <4>2, <4>4, RecordedType DEF RecordUncertain, TypeOK, ExecutionStatus, MaybeRefundId
      <4> QED
        BY <1>6, <4>3, <4>4
    <3>2. \A v \in Journeys : v # w => row'[v] = row[v]
      BY <1>6 DEF RecordOutcome, RecordUncertain, TypeOK
    <3> QED
      BY <2>4, <3>1, <3>2, NoneAssumption
  <2>6. ControlInv'
    BY <2>1, <2>2, <2>3, <2>5 DEF ControlInv
  <2>7. \A v \in Journeys : \A m \in Attempts : Outstanding(v, m)' => Outstanding(v, m)
    BY <2>3 DEF Outstanding
  <2>8. ReservationInv' /\ OneRefundPerJourney'
    BY <2>1, <2>5, <2>7, QuietStep DEF Exists
  <2> QED
    BY <2>6, <2>8
<1> QED
  BY <1>1, <1>2, <1>3, <1>4, <1>5, <1>6 DEF HandlerStep

\* Reconciliation writes to a row that exists and adds or drops none.
LEMMA LookupRows ==
  ASSUME TypeOK, NEW w \in Journeys, LookupStep(w)
  PROVE  \A v \in Journeys : row[v] = None <=> row'[v] = None
<1> USE DEF providerVars, workerVars
<1>1. CASE UNCHANGED row
  BY <1>1
<1>2. CASE row' # row
  <2> DEFINE status == LookupStatus(lookup[w].seen)
  <2>1. /\ row[w] # None /\ status # "PROCESSING" /\ lookup[w] # None
        /\ row' = [row EXCEPT ![w] = Recorded(@, status, lookup[w].refundId)]
    BY <1>2 DEF LookupStep, FindRefund, FinishLookup, LookupUnheard
  <2>2. status \in ExecutionStatus /\ lookup[w].refundId \in MaybeRefundId /\ row[w] \in Row
    BY <2>1 DEF LookupStatus, ExecutionStatus, TypeOK, Lookup, MaybeRefundId
  <2>3. row'[w] \in Row
    BY <2>1, <2>2, RecordedType DEF TypeOK
  <2> QED
    BY <2>1, <2>3, NoneAssumption DEF TypeOK
<1> QED
  BY <1>1, <1>2

\* Reconciliation only touches a row that exists, and never the attempts.
LEMMA LookupStepSafe ==
  ASSUME IInv, NEW w \in Journeys, LookupStep(w)
  PROVE  ControlInv' /\ ReservationInv' /\ OneRefundPerJourney'
<1> USE DEF IInv, providerVars, workerVars
<1>1. UNCHANGED <<providerVars, event, signalled, handlerAt, handlerResult>>
  BY DEF LookupStep, FindRefund, FinishLookup, LookupUnheard
<1>2. \A v \in Journeys : row[v] = None <=> row'[v] = None
  BY LookupRows
<1>3. \A v \in Journeys : workflow'[v].stage = "EXECUTING" => workflow'[v] = workflow[v]
  <2>1. \A v \in Journeys : v # w => workflow'[v] = workflow[v]
    BY DEF LookupStep, FindRefund, FinishLookup, LookupUnheard, TypeOK
  <2>2. ASSUME NEW status, NEW id, Reconciling(w)
        PROVE  AfterReconciliation(workflow[w], status, id).stage # "EXECUTING"
    BY <2>2 DEF AfterReconciliation, Reconciling, TypeOK, Workflow
  <2>3. workflow'[w] = workflow[w] \/ workflow'[w].stage # "EXECUTING"
    BY <2>2 DEF LookupStep, FindRefund, FinishLookup, LookupUnheard, TypeOK
  <2> QED
    BY <2>1, <2>3
<1>4. ControlInv'
  BY <1>1, <1>2, <1>3 DEF ControlInv
<1>5. ReservationInv' /\ OneRefundPerJourney'
  BY <1>1, <1>2, QuietStep DEF Exists, Outstanding
<1> QED
  BY <1>4, <1>5

\* So does a provider event.
LEMMA EventRows ==
  ASSUME TypeOK, NEW i \in RefundIds, EventStep(i)
  PROVE  \A v \in Journeys : row[v] = None <=> row'[v] = None
<1> USE DEF providerVars, workerVars, gatewayVars
<1>1. CASE UNCHANGED row
  BY <1>1
<1>2. CASE row' # row
  <2> PICK w \in Journeys :
        /\ row[w] # None
        /\ row' = [row EXCEPT ![w].status =
                     IF refundState[i] = "SETTLED" THEN "SUCCEEDED" ELSE "FAILED"]
    BY <1>2
    DEF EventStep, ProviderFinishes, ReceiveProviderEvent, SignalOutcome, MarkDelivered, RowsOf
  <2>1. row[w] \in Row
    BY DEF TypeOK
  <2>2. row'[w] \in Row
    BY <2>1 DEF TypeOK, Row, ExecutionStatus
  <2> QED
    BY <2>2, NoneAssumption DEF TypeOK
<1> QED
  BY <1>1, <1>2

\* Settlement, events and delivery create no refund and drop no row.
LEMMA EventStepSafe ==
  ASSUME IInv, NEW i \in RefundIds, EventStep(i)
  PROVE  ControlInv' /\ ReservationInv' /\ OneRefundPerJourney'
<1> USE DEF IInv, providerVars, workerVars, gatewayVars
<1>1. UNCHANGED <<refundOwner, handlerAt, handlerResult>>
  BY DEF EventStep, ProviderFinishes, ReceiveProviderEvent, SignalOutcome, MarkDelivered
<1>2. \A j \in RefundIds : Exists(j)' => Exists(j)
  BY DEF EventStep, ProviderFinishes, ReceiveProviderEvent, SignalOutcome, MarkDelivered, Exists, TypeOK
<1>3. \A v \in Journeys : row[v] = None <=> row'[v] = None
  BY EventRows
<1>4. \A v \in Journeys : workflow'[v].stage = "EXECUTING" => workflow'[v].attempt # 0
  <2>1. \A v \in Journeys :
          workflow'[v].stage = workflow[v].stage /\ workflow'[v].attempt = workflow[v].attempt
    <3>1. CASE UNCHANGED workflow
      BY <3>1
    <3>2. CASE workflow' # workflow
      <4> DEFINE w == event[i].journey
      <4>1. w \in Journeys /\ workflow' = [workflow EXCEPT ![w] = AcceptOutcome(@, i)]
        BY <3>2
        DEF EventStep, ProviderFinishes, ReceiveProviderEvent, SignalOutcome, MarkDelivered,
            TypeOK, Event
      <4>2. /\ AcceptOutcome(workflow[w], i).stage = workflow[w].stage
            /\ AcceptOutcome(workflow[w], i).attempt = workflow[w].attempt
        BY <4>1 DEF AcceptOutcome, TypeOK, Workflow
      <4> HIDE DEF w
      <4> QED
        BY <4>1, <4>2 DEF TypeOK
    <3> QED
      BY <3>1, <3>2
  <2> QED
    BY <2>1 DEF ControlInv
<1>5. \A j \in signalled' : event'[j] # None
  <2>1. CASE ProviderFinishes(i)
    BY <2>1 DEF ProviderFinishes, ControlInv
  <2>2. CASE ReceiveProviderEvent(i)
    BY <2>2 DEF ReceiveProviderEvent, ControlInv, TypeOK
  <2>3. CASE SignalOutcome(i)
    BY <2>3 DEF SignalOutcome, ControlInv
  <2>4. CASE MarkDelivered(i)
    BY <2>4 DEF MarkDelivered, ControlInv, TypeOK
  <2> QED
    BY <2>1, <2>2, <2>3, <2>4 DEF EventStep
<1>6. ControlInv'
  BY <1>1, <1>3, <1>4, <1>5 DEF ControlInv
<1>7. ReservationInv' /\ OneRefundPerJourney'
  BY <1>1, <1>2, <1>3, QuietStep DEF Outstanding
<1> QED
  BY <1>6, <1>7

\* A restart orphans the outstanding call; it does not add one.
LEMMA RestartSafe ==
  ASSUME IInv, GatewayRestart
  PROVE  ControlInv' /\ ReservationInv' /\ OneRefundPerJourney'
<1> USE DEF IInv, providerVars, workerVars
<1>1. UNCHANGED <<providerVars, workerVars, row, event, handlerResult>> /\ signalled' = {}
  BY DEF GatewayRestart
<1>2. \A v \in Journeys : \A m \in Attempts : handlerAt'[v][m] = Killed(handlerAt[v][m])
  BY DEF GatewayRestart
<1>3. \A v \in Journeys : \A m \in Attempts :
        Outstanding(v, m)' <=> Outstanding(v, m)
  BY <1>2 DEF Outstanding, Killed
<1>4. ControlInv'
  BY <1>1, <1>2 DEF ControlInv, Killed
<1>5. ReservationInv' /\ OneRefundPerJourney'
  BY <1>1, <1>3, QuietStep DEF Exists
<1> QED
  BY <1>4, <1>5

----------------------------------------------------------------------------
(* The theorems.                                                           *)

\* Every reachable state satisfies the inductive invariant.
THEOREM InductiveInvariant == Spec => []IInv
<1>1. Init => IInv
  <2> SUFFICES ASSUME Init PROVE IInv
    OBVIOUS
  <2>1. TypeOK
    BY InitType
  <2>2. ControlInv /\ ReservationInv /\ OneRefundPerJourney
    BY DEF Init, ControlInv, ReservationInv, OneRefundPerJourney, Outstanding, Owns, Exists
  <2> QED
    BY <2>1, <2>2 DEF IInv
<1>2. IInv /\ [Next]_vars => IInv'
  <2> SUFFICES ASSUME IInv, [Next]_vars PROVE IInv'
    OBVIOUS
  <2>1. TypeOK'
    BY NextType
  <2>2. CASE UNCHANGED vars
    <3>1. ControlInv' /\ ReservationInv' /\ OneRefundPerJourney'
      BY <2>2
      DEF IInv, ControlInv, ReservationInv, OneRefundPerJourney, Outstanding, Owns, Exists,
          vars, providerVars, gatewayVars, workerVars
    <3> QED
      BY <2>1, <3>1 DEF IInv
  <2>3. CASE Next
    <3>1. ControlInv' /\ ReservationInv' /\ OneRefundPerJourney'
      BY <2>3, WorkerStepSafe, HandlerStepSafe, LookupStepSafe, EventStepSafe, RestartSafe DEF Next
    <3> QED
      BY <2>1, <3>1 DEF IInv
  <2> QED
    BY <2>2, <2>3
<1> QED
  BY <1>1, <1>2, PTL DEF Spec

\* Every variable keeps its type, for any journeys, amounts and attempts.
THEOREM TypeCorrect == Spec => []TypeOK
<1>1. IInv => TypeOK
  BY DEF IInv
<1> QED
  BY <1>1, InductiveInvariant, PTL

\* Refund execution is idempotent: under lost attempts, abandoned requests and
\* gateway restarts a journey owns at most one refund at the provider.
THEOREM AtMostOneRefund == Spec => []OneRefundPerJourney
<1>1. IInv => OneRefundPerJourney
  BY DEF IInv
<1> QED
  BY <1>1, InductiveInvariant, PTL

----------------------------------------------------------------------------
(* What the journeys, the ledger and the events say is true.  All of it      *)
(* rests on reconciliation finding the journey's own refund, so here the     *)
(* journeys of the order have different amounts.  Without it SuccessIsSettled *)
(* is false: the run with equal amounts shows it.                            *)

Distinguishable == \A v, w \in Journeys : Amount[v] = Amount[w] => v = w

\* The provider has ended the refund.
Ended(i) == refundState[i] \in {"SETTLED", "FAILED"}

\* The journey's refund was paid.
Settled(w) == \E i \in RefundIds : refundOwner[i] = w /\ refundState[i] = "SETTLED"

\* The journey's one call was made and will never pay anything.
Unpayable(w) ==
  /\ row[w] # None
  /\ \A n \in Attempts : ~Outstanding(w, n)
  /\ \A i \in RefundIds : refundOwner[i] = w => refundState[i] \in {"ABSENT", "FAILED"}

\* A status and a refund id that are held in the name of a journey are true of it.
Truthful(w, status, id) ==
  /\ id # None => refundOwner[id] = w
  /\ status = "SUCCEEDED" => Settled(w)
  /\ status = "FAILED" => Unpayable(w)

\* A notice about the refund is one for the journey.
Informs(w, i) == refundOwner[i] = w /\ Ended(i)

\* The answer to the journey's last attempt was the eligibility refusal.
Refused(w, wf) == wf.attempt \in Attempts /\ handlerResult[w][wf.attempt].status = "HTTP_409"

\* What a workflow record says is true of the journey.
Reports(w, wf) ==
  /\ wf.refundId # None => refundOwner[wf.refundId] = w
  /\ wf.outcome = "COMPLETED" => Settled(w)
  /\ wf.outcome = "FAILED" => Unpayable(w)
  /\ wf.stage = "REFUND_SUCCEEDED" => Settled(w)
  /\ wf.stage = "REFUND_FAILED" => Unpayable(w) \/ Refused(w, wf)

OwnerInv == \A i \in RefundIds : Exists(i) <=> refundOwner[i] # None

\* Attempts are made one after the other; while the first is the only one, a
\* request it still validates or was refused has reserved nothing.
TriesInv ==
  \A w \in Journeys :
    /\ workflow[w].stage = "AUTHORIZED" => workflow[w].attempt = 0
    /\ workflow[w].attempt = 0 => row[w] = None
    /\ \A n \in Attempts :
         /\ n > workflow[w].attempt => handlerAt[w][n] = "IDLE"
         /\ handlerResult[w][n].status = "HTTP_409" => handlerAt[w][n] = "ANSWERED"
         /\ handlerAt[w][n] \in {"CALLED", "ANSWERED"} => handlerResult[w][n].status # "IN_PROGRESS"
         /\ workflow[w].attempt = 1 /\ n = 1 =>
              \/ row[w] = None
              \/ /\ handlerAt[w][n] \notin {"SENT", "ELIGIBLE"}
                 /\ handlerResult[w][n].status # "HTTP_409"

RowInv ==
  \A w \in Journeys : row[w] # None => Truthful(w, row[w].status, row[w].refundId)

ResultInv ==
  \A w \in Journeys : \A n \in Attempts :
    Truthful(w, handlerResult[w][n].status, handlerResult[w][n].refundId)

LookupInv ==
  \A w \in Journeys :
    lookup[w] # None => Truthful(w, LookupStatus(lookup[w].seen), lookup[w].refundId)

NoticeInv ==
  /\ \A i \in RefundIds : event[i] # None => Informs(event[i].journey, i)
  /\ \A w \in Journeys : \A i \in buffered[w] : Informs(w, i)

WorkflowInv == \A w \in Journeys : Reports(w, workflow[w])

TruthInv ==
  OwnerInv /\ TriesInv /\ RowInv /\ ResultInv /\ LookupInv /\ NoticeInv /\ WorkflowInv

----------------------------------------------------------------------------
(* What is true of a journey stays true.                                   *)

\* Only an accepted call and the end of a refund change the provider's books.
LEMMA BooksChange ==
  ASSUME Next
  PROVE  \/ UNCHANGED providerVars
         \/ \E w \in Journeys, n \in Attempts : ProviderAccepts(w, n)
         \/ \E i \in RefundIds : ProviderFinishes(i)
BY DEF Next, WorkerStep, StartExecution, AttemptLost, ReceiveAnswer, ClientGivesUp,
       ActivityExhausted, HandlerStep, ReadOrder, RequestFails, Reserve, ProviderDeclines,
       RecordOutcome, RecordUncertain, RecordFails, LookupStep, FindRefund, FinishLookup,
       LookupUnheard, EventStep, ReceiveProviderEvent, SignalOutcome, MarkDelivered,
       GatewayRestart

\* A refund keeps its owner, and an ended one its state.
LEMMA BooksStay ==
  ASSUME TypeOK, OwnerInv, Next
  PROVE  /\ \A i \in RefundIds : refundOwner[i] # None => refundOwner'[i] = refundOwner[i]
         /\ \A i \in RefundIds : Ended(i) => refundState'[i] = refundState[i]
         /\ OwnerInv'
<1>1. CASE UNCHANGED providerVars
  BY <1>1 DEF providerVars, OwnerInv, Exists, Ended
<1>2. ASSUME NEW w \in Journeys, NEW n \in Attempts, ProviderAccepts(w, n)
      PROVE  /\ \A i \in RefundIds : refundOwner[i] # None => refundOwner'[i] = refundOwner[i]
             /\ \A i \in RefundIds : Ended(i) => refundState'[i] = refundState[i]
             /\ OwnerInv'
  <2> PICK i \in RefundIds :
        /\ refundState[i] = "ABSENT"
        /\ refundState' = [refundState EXCEPT ![i] = "PENDING"]
        /\ refundOwner' = [refundOwner EXCEPT ![i] = w]
    BY <1>2 DEF ProviderAccepts
  <2>1. w # None
    BY NoneAssumption
  <2>2. refundOwner[i] = None
    BY DEF OwnerInv, Exists
  <2> QED
    BY <2>1, <2>2 DEF TypeOK, OwnerInv, Exists, Ended
<1>3. ASSUME NEW i \in RefundIds, ProviderFinishes(i)
      PROVE  /\ \A j \in RefundIds : refundOwner[j] # None => refundOwner'[j] = refundOwner[j]
             /\ \A j \in RefundIds : Ended(j) => refundState'[j] = refundState[j]
             /\ OwnerInv'
  BY <1>3 DEF ProviderFinishes, TypeOK, OwnerInv, Exists, Ended
<1> QED
  BY <1>1, <1>2, <1>3, BooksChange

\* A row stays, and once there is one no further call is made.
LEMMA RowsStay ==
  ASSUME IInv, Next, NEW v \in Journeys, row[v] # None
  PROVE  row'[v] # None
<1> USE DEF IInv
<1>0. TypeOK'
  BY NextType
<1>1. ASSUME NEW w \in Journeys, WorkerStep(w) PROVE row'[v] # None
  BY <1>1
  DEF WorkerStep, StartExecution, AttemptLost, ReceiveAnswer, ClientGivesUp, ActivityExhausted,
      gatewayVars
<1>2. ASSUME NEW w \in Journeys, NEW n \in Attempts, HandlerStep(w, n) PROVE row'[v] # None
  <2>1. handlerResult[w][n].refundId \in MaybeRefundId
    BY DEF TypeOK, Result
  <2>2. CASE UNCHANGED row
    BY <2>2
  <2>3. CASE Reserve(w, n) /\ row[w] = None
    BY <2>3 DEF Reserve, TypeOK
  <2>4. CASE RecordOutcome(w, n)
    <3>1. row[w] \in Row /\ handlerResult[w][n].status \in ExecutionStatus
      BY <2>4 DEF RecordOutcome, ControlInv, TypeOK
    <3>2. Recorded(row[w], handlerResult[w][n].status, handlerResult[w][n].refundId) # None
      BY <2>1, <3>1, RecordedType, NoneAssumption
    <3> QED
      BY <2>4, <3>2 DEF RecordOutcome, TypeOK
  <2>5. CASE RecordUncertain(w, n)
    <3>1. row[w] \in Row
      BY <2>5 DEF RecordUncertain, ControlInv, TypeOK
    <3>2. Recorded(row[w], "PENDING_RECONCILIATION", None) # None
      BY <3>1, RecordedType, NoneAssumption DEF ExecutionStatus, MaybeRefundId
    <3> QED
      BY <2>5, <3>2 DEF RecordUncertain, TypeOK
  <2> QED
    BY <1>2, <2>2, <2>3, <2>4, <2>5
    DEF HandlerStep, ReadOrder, RequestFails, Reserve, ProviderAccepts, ProviderDeclines, RecordFails
<1>3. ASSUME NEW w \in Journeys, LookupStep(w) PROVE row'[v] # None
  <2>1. \A u \in Journeys : row[u] = None <=> row'[u] = None
    BY <1>3, LookupRows
  <2> QED
    BY <2>1
<1>4. ASSUME NEW i \in RefundIds, EventStep(i) PROVE row'[v] # None
  <2>1. \A u \in Journeys : row[u] = None <=> row'[u] = None
    BY <1>4, EventRows
  <2> QED
    BY <2>1
<1>5. CASE GatewayRestart
  BY <1>5 DEF GatewayRestart
<1> QED
  BY <1>1, <1>2, <1>3, <1>4, <1>5 DEF Next

\* Only a handler that inserts the row has a call to make.
LEMMA CallsStay ==
  ASSUME TypeOK, Next, NEW v \in Journeys, row[v] # None, NEW m \in Attempts, Outstanding(v, m)'
  PROVE  Outstanding(v, m)
<1>1. ASSUME NEW w \in Journeys, NEW n \in Attempts, NEW step \in HandlerSteps, Moves(w, n, step),
             step \notin {"RESERVED", "ORPHANED"}
      PROVE  Outstanding(v, m)
  <2>1. handlerAt'[v][m] = IF v = w /\ m = n THEN step ELSE handlerAt[v][m]
    BY <1>1, MovesEffect
  <2> QED
    BY <1>1, <2>1 DEF Outstanding
<1>2. CASE UNCHANGED handlerAt
  BY <1>2 DEF Outstanding
<1>3. ASSUME NEW w \in Journeys, WorkerStep(w) PROVE Outstanding(v, m)
  <2>1. workflow[w].attempt \in 0..MaxAttempts
    BY DEF TypeOK, Workflow
  <2>2. 1 \in Attempts /\ (workflow[w].attempt < MaxAttempts => workflow[w].attempt + 1 \in Attempts)
    BY <2>1, MaxAttemptsAssumption DEF Attempts
  <2>3. UNCHANGED handlerAt \/ \E n \in Attempts : Moves(w, n, "SENT")
    BY <1>3, <2>2
    DEF WorkerStep, StartExecution, AttemptLost, ReceiveAnswer, ClientGivesUp, ActivityExhausted,
        gatewayVars
  <2> QED
    BY <1>1, <1>2, <2>3, StepNames
<1>4. ASSUME NEW w \in Journeys, NEW n \in Attempts, HandlerStep(w, n) PROVE Outstanding(v, m)
  <2>1. CASE Reserve(w, n) /\ row[w] = None
    <3>1. handlerAt'[v][m] = handlerAt[v][m]
      BY <2>1, MovesEffect DEF Reserve
    <3> QED
      BY <3>1 DEF Outstanding
  <2>2. \/ Reserve(w, n) /\ row[w] = None
        \/ Moves(w, n, "ELIGIBLE") \/ Moves(w, n, "ANSWERED")
        \/ Moves(w, n, "CALLED") \/ Moves(w, n, "GONE")
    BY <1>4, AnswerMoves
    DEF HandlerStep, ReadOrder, RequestFails, Reserve, ProviderAccepts, ProviderDeclines,
        RecordOutcome, RecordUncertain, RecordFails
  <2> QED
    BY <1>1, <2>1, <2>2, StepNames
<1>5. ASSUME NEW w \in Journeys, LookupStep(w) PROVE Outstanding(v, m)
  BY <1>2, <1>5 DEF LookupStep, FindRefund, FinishLookup, LookupUnheard
<1>6. ASSUME NEW i \in RefundIds, EventStep(i) PROVE Outstanding(v, m)
  BY <1>2, <1>6
  DEF EventStep, ProviderFinishes, ReceiveProviderEvent, SignalOutcome, MarkDelivered, gatewayVars
<1>7. CASE GatewayRestart
  BY <1>7 DEF GatewayRestart, Killed, Outstanding
<1> QED
  BY <1>3, <1>4, <1>5, <1>6, <1>7 DEF Next

\* A paid journey stays paid.
LEMMA SettledStays ==
  ASSUME TypeOK, OwnerInv, Next, NEW w \in Journeys, Settled(w)
  PROVE  Settled(w)'
<1>1. w # None
  BY NoneAssumption
<1>2. PICK i \in RefundIds : refundOwner[i] = w /\ refundState[i] = "SETTLED"
  BY DEF Settled
<1>3. refundOwner'[i] = w /\ refundState'[i] = "SETTLED"
  BY <1>1, <1>2, BooksStay DEF Ended
<1> QED
  BY <1>3 DEF Settled

\* A journey that can no longer be paid never is.
LEMMA UnpayableStays ==
  ASSUME IInv, OwnerInv, Next, NEW w \in Journeys, Unpayable(w)
  PROVE  Unpayable(w)'
<1> USE DEF IInv
<1>1. row[w] # None /\ row'[w] # None
  BY RowsStay DEF Unpayable
<1>2. \A n \in Attempts : ~Outstanding(w, n)'
  BY <1>1, CallsStay DEF Unpayable
<1>3. \A i \in RefundIds : (refundOwner[i] = w => refundState[i] \in {"ABSENT", "FAILED"})'
  <2>1. CASE UNCHANGED providerVars
    BY <2>1 DEF Unpayable, providerVars
  <2>2. ASSUME NEW u \in Journeys, NEW n \in Attempts, ProviderAccepts(u, n)
        PROVE  \A i \in RefundIds : (refundOwner[i] = w => refundState[i] \in {"ABSENT", "FAILED"})'
    <3>1. u # w
      BY <2>2 DEF ProviderAccepts, Unpayable, Outstanding
    <3> QED
      BY <2>2, <3>1 DEF ProviderAccepts, Unpayable, TypeOK
  <2>3. ASSUME NEW i \in RefundIds, ProviderFinishes(i)
        PROVE  \A j \in RefundIds : (refundOwner[j] = w => refundState[j] \in {"ABSENT", "FAILED"})'
    BY <2>3 DEF ProviderFinishes, Unpayable, TypeOK
  <2> QED
    BY <2>1, <2>2, <2>3, BooksChange
<1> QED
  BY <1>1, <1>2, <1>3 DEF Unpayable

\* What is held in a journey's name stays true of it,
LEMMA TruthStays ==
  ASSUME IInv, OwnerInv, Next, NEW w \in Journeys, NEW status, NEW id \in MaybeRefundId,
         Truthful(w, status, id)
  PROVE  Truthful(w, status, id)'
<1>1. w # None
  BY NoneAssumption
<1>2. id # None => refundOwner'[id] = w
  BY <1>1, BooksStay DEF Truthful, MaybeRefundId, IInv
<1>3. status = "SUCCEEDED" => Settled(w)'
  BY SettledStays DEF Truthful, IInv
<1>4. status = "FAILED" => Unpayable(w)'
  BY UnpayableStays DEF Truthful
<1> QED
  BY <1>2, <1>3, <1>4 DEF Truthful

\* and a notice stays one for its journey.
LEMMA InformsStays ==
  ASSUME TypeOK, OwnerInv, Next, NEW w \in Journeys, NEW i \in RefundIds, Informs(w, i)
  PROVE  Informs(w, i)'
<1>1. w # None
  BY NoneAssumption
<1> QED
  BY <1>1, BooksStay DEF Informs, Ended

\* How the journey's refund ended says how the journey ended: it has no other.
LEMMA OwnRefundDecides ==
  ASSUME IInv, OwnerInv, NEW w \in Journeys, NEW i \in RefundIds, refundOwner[i] = w
  PROVE  /\ refundState[i] = "SETTLED" => Settled(w)
         /\ refundState[i] = "FAILED" => Unpayable(w)
<1>1. Owns(w, i)
  BY NoneAssumption DEF OwnerInv, Owns
<1>2. row[w] # None /\ \A n \in Attempts : ~Outstanding(w, n)
  BY <1>1 DEF IInv, ReservationInv
<1>3. \A j \in RefundIds : refundOwner[j] = w => j = i
  BY <1>1, NoneAssumption DEF IInv, OneRefundPerJourney, Owns, OwnerInv
<1> QED
  BY <1>2, <1>3 DEF Settled, Unpayable

----------------------------------------------------------------------------
(* What a step writes is true.                                             *)

\* A row as recordOutcome writes it is true if both the new outcome and the
\* stored row are.
LEMMA RecordedTrue ==
  ASSUME NEW w, NEW r \in Row, NEW status \in ExecutionStatus, NEW id \in MaybeRefundId,
         Truthful(w, r.status, r.refundId), Truthful(w, status, id)
  PROVE  /\ Recorded(r, status, id) \in Row
         /\ Truthful(w, Recorded(r, status, id).status, Recorded(r, status, id).refundId)
<1>1. Recorded(r, status, id) \in Row
  BY RecordedType
<1>2. Recorded(r, status, id).status = status
  BY DEF Recorded
<1>3. Recorded(r, status, id).refundId = id \/ Recorded(r, status, id).refundId = r.refundId
  BY DEF Recorded
<1> QED
  BY <1>1, <1>2, <1>3 DEF Truthful

\* The statuses that no books are asked about.
LEMMA UncertainTrue ==
  ASSUME NEW w, NEW status, status \notin {"SUCCEEDED", "FAILED"}
  PROVE  Truthful(w, status, None)
BY DEF Truthful

\* The ledger is written the truth.
LEMMA RowWrites ==
  ASSUME IInv, TruthInv, Next, NEW v \in Journeys
  PROVE  \/ row'[v] = row[v]
         \/ \E r \in Row : row'[v] = r /\ Truthful(v, r.status, r.refundId)
<1> USE DEF IInv
<1> DEFINE Written == \/ row'[v] = row[v]
                      \/ \E r \in Row : row'[v] = r /\ Truthful(v, r.status, r.refundId)
<1> HIDE DEF Written
<1>1. ASSUME UNCHANGED row PROVE Written
  BY <1>1 DEF Written
<1>2. ASSUME NEW w \in Journeys, NEW r \in Row, row' = [row EXCEPT ![w] = r],
             Truthful(w, r.status, r.refundId)
      PROVE  Written
  BY <1>2 DEF Written, TypeOK
<1>3. ASSUME NEW w \in Journeys, NEW n \in Attempts, HandlerStep(w, n)
      PROVE  Written
  <2> DEFINE result == handlerResult[w][n]
  <2>1. result \in Result /\ result.refundId \in MaybeRefundId
    BY DEF TypeOK, Result
  <2>2. CASE Reserve(w, n) /\ row[w] = None
    <3> DEFINE r == [status |-> "IN_PROGRESS", refundId |-> None]
    <3>1. r \in Row
      BY DEF Row, ExecutionStatus, MaybeRefundId
    <3>2. Truthful(w, r.status, r.refundId)
      BY UncertainTrue
    <3>3. row' = [row EXCEPT ![w] = r]
      BY <2>2 DEF Reserve
    <3> HIDE DEF r
    <3> QED
      BY <1>2, <3>1, <3>2, <3>3
  <2>3. CASE RecordOutcome(w, n)
    <3>1. row[w] \in Row /\ row[w] # None /\ result.status \in ExecutionStatus
      BY <2>3 DEF RecordOutcome, ControlInv, TypeOK
    <3>2. Truthful(w, row[w].status, row[w].refundId) /\ Truthful(w, result.status, result.refundId)
      BY <3>1 DEF TruthInv, RowInv, ResultInv
    <3>3. row' = [row EXCEPT ![w] = Recorded(row[w], result.status, result.refundId)]
      BY <2>3 DEF RecordOutcome
    <3> QED
      BY <1>2, <2>1, <3>1, <3>2, <3>3, RecordedTrue
  <2>4. CASE RecordUncertain(w, n)
    <3>1. row[w] \in Row /\ row[w] # None
      BY <2>4 DEF RecordUncertain, ControlInv, TypeOK
    <3>2. Truthful(w, row[w].status, row[w].refundId) /\ Truthful(w, "PENDING_RECONCILIATION", None)
      BY <3>1, UncertainTrue DEF TruthInv, RowInv
    <3>3. row' = [row EXCEPT ![w] = Recorded(row[w], "PENDING_RECONCILIATION", None)]
      BY <2>4 DEF RecordUncertain
    <3>4. "PENDING_RECONCILIATION" \in ExecutionStatus /\ None \in MaybeRefundId
      BY DEF ExecutionStatus, MaybeRefundId
    <3> QED
      BY <1>2, <3>1, <3>2, <3>3, <3>4, RecordedTrue
  <2> QED
    BY <1>1, <1>3, <2>2, <2>3, <2>4
    DEF HandlerStep, ReadOrder, RequestFails, Reserve, ProviderAccepts, ProviderDeclines, RecordFails
<1>4. ASSUME NEW w \in Journeys, LookupStep(w)
      PROVE  Written
  <2> DEFINE status == LookupStatus(lookup[w].seen)
  <2>1. CASE row' # row
    <3>1. /\ row[w] # None /\ status # "PROCESSING" /\ lookup[w] # None
          /\ row' = [row EXCEPT ![w] = Recorded(row[w], status, lookup[w].refundId)]
      BY <1>4, <2>1 DEF LookupStep, FindRefund, FinishLookup, LookupUnheard
    <3>2. status \in ExecutionStatus
      BY <3>1 DEF LookupStatus, ExecutionStatus
    <3>3. lookup[w].refundId \in MaybeRefundId /\ row[w] \in Row
      BY <3>1 DEF TypeOK, Lookup, MaybeRefundId
    <3>4. Truthful(w, row[w].status, row[w].refundId) /\ Truthful(w, status, lookup[w].refundId)
      BY <3>1 DEF TruthInv, RowInv, LookupInv
    <3> HIDE DEF status
    <3> QED
      BY <1>2, <3>1, <3>2, <3>3, <3>4, RecordedTrue
  <2> QED
    BY <1>1, <2>1
<1>5. ASSUME NEW i \in RefundIds, EventStep(i)
      PROVE  Written
  <2>1. CASE row' # row
    <3> DEFINE status == IF refundState[i] = "SETTLED" THEN "SUCCEEDED" ELSE "FAILED"
    <3>1. PICK w \in Journeys :
            /\ Ended(i) /\ row[w] # None /\ row[w].refundId = i
            /\ row' = [row EXCEPT ![w].status = status]
      BY <1>5, <2>1
      DEF EventStep, ProviderFinishes, ReceiveProviderEvent, SignalOutcome, MarkDelivered, RowsOf,
          gatewayVars, Ended
    <3> DEFINE r == [row[w] EXCEPT !.status = status]
    <3>2. row[w] \in Row
      BY <3>1 DEF TypeOK
    <3>3. r \in Row /\ r.status = status /\ r.refundId = i
      BY <3>1, <3>2 DEF Row, ExecutionStatus
    <3>4. refundOwner[i] = w
      BY <3>1, NoneAssumption DEF TruthInv, RowInv, Truthful
    <3>5. Truthful(w, r.status, r.refundId)
      BY <3>1, <3>3, <3>4, OwnRefundDecides DEF TruthInv, Truthful, Ended
    <3>6. row' = [row EXCEPT ![w] = r]
      BY <3>1
    <3> HIDE DEF r, status
    <3> QED
      BY <1>2, <3>3, <3>5, <3>6
  <2> QED
    BY <1>1, <2>1
<1>6. ASSUME NEW w \in Journeys, WorkerStep(w)
      PROVE  Written
  BY <1>1, <1>6
  DEF WorkerStep, StartExecution, AttemptLost, ReceiveAnswer, ClientGivesUp, ActivityExhausted,
      gatewayVars
<1>7. ASSUME GatewayRestart PROVE Written
  BY <1>1, <1>7 DEF GatewayRestart
<1>8. Written
  BY <1>3, <1>4, <1>5, <1>6, <1>7 DEF Next
<1> QED
  BY <1>8 DEF Written

\* So the ledger stays true.
LEMMA RowInvStep ==
  ASSUME IInv, TruthInv, Next
  PROVE  RowInv'
<1> SUFFICES ASSUME NEW v \in Journeys, row'[v] # None
             PROVE  Truthful(v, row[v].status, row[v].refundId)'
  BY DEF RowInv
<1>1. PICK r \in Row : row'[v] = r /\ Truthful(v, r.status, r.refundId)
  <2>1. CASE row'[v] = row[v]
    BY <2>1 DEF TruthInv, RowInv, IInv, TypeOK
  <2> QED
    BY <2>1, RowWrites
<1>2. r.refundId \in MaybeRefundId
  BY DEF Row
<1>3. PICK s : s = r.status
  OBVIOUS
<1>4. PICK id \in MaybeRefundId : id = r.refundId
  BY <1>2
<1>5. Truthful(v, s, id)'
  BY <1>1, <1>3, <1>4, TruthStays DEF TruthInv
<1> QED
  BY <1>1, <1>3, <1>4, <1>5 DEF Truthful

\* A stored answer repeats what the row says.
LEMMA StoredAnswerTrue ==
  ASSUME NEW w, NEW r \in Row, Truthful(w, r.status, r.refundId)
  PROVE  /\ StoredAnswer(r).status \in Answers
         /\ StoredAnswer(r).status \notin {"HTTP_409", "IN_PROGRESS"}
         /\ StoredAnswer(r).refundId \in MaybeRefundId
         /\ Truthful(w, StoredAnswer(r).status, StoredAnswer(r).refundId)
<1>0. r.status \in ExecutionStatus /\ r.refundId \in MaybeRefundId /\ None \in MaybeRefundId
  BY DEF Row, MaybeRefundId
<1>1. CASE r.status \in {"SUCCEEDED", "SUBMITTED"}
  <2>1. StoredAnswer(r) = [status |-> r.status, refundId |-> r.refundId]
    BY <1>1 DEF StoredAnswer
  <2> QED
    BY <1>0, <1>1, <2>1 DEF Answers, ExecutionStatus
<1>2. CASE r.status = "FAILED"
  <2>1. StoredAnswer(r) = [status |-> "FAILED", refundId |-> None]
    BY <1>2 DEF StoredAnswer
  <2>2. Truthful(w, "FAILED", None)
    BY <1>2 DEF Truthful
  <2> QED
    BY <1>0, <2>1, <2>2 DEF Answers, ExecutionStatus
<1>3. CASE r.status \notin {"SUCCEEDED", "SUBMITTED", "FAILED"}
  <2>1. StoredAnswer(r) = [status |-> "PENDING_RECONCILIATION", refundId |-> None]
    BY <1>3 DEF StoredAnswer
  <2>2. Truthful(w, "PENDING_RECONCILIATION", None)
    BY UncertainTrue
  <2> QED
    BY <1>0, <2>1, <2>2 DEF Answers, ExecutionStatus
<1> QED
  BY <1>1, <1>2, <1>3

\* A handler that has answered keeps its answer.
LEMMA AnswersStay ==
  ASSUME TypeOK, Next, NEW v \in Journeys, NEW m \in Attempts, handlerAt[v][m] = "ANSWERED"
  PROVE  handlerAt'[v][m] = "ANSWERED" \/ \E w \in Journeys : WorkerStep(w)
<1>1. ASSUME NEW w \in Journeys, NEW n \in Attempts, HandlerStep(w, n)
      PROVE  handlerAt'[v][m] = "ANSWERED"
  <2>1. handlerAt[w][n] # "ANSWERED"
    BY <1>1
    DEF HandlerStep, ReadOrder, RequestFails, Reserve, ProviderAccepts, ProviderDeclines,
        RecordOutcome, RecordUncertain, RecordFails
  <2>2. \/ Moves(w, n, "ELIGIBLE") \/ Moves(w, n, "ANSWERED") \/ Moves(w, n, "RESERVED")
        \/ Moves(w, n, "CALLED") \/ Moves(w, n, "GONE")
    BY <1>1, AnswerMoves
    DEF HandlerStep, ReadOrder, RequestFails, Reserve, ProviderAccepts, ProviderDeclines,
        RecordOutcome, RecordUncertain, RecordFails
  <2>3. handlerAt'[v][m] = handlerAt[v][m]
    BY <2>1, <2>2, MovesEffect
  <2> QED
    BY <2>3
<1>2. ASSUME NEW w \in Journeys, LookupStep(w)
      PROVE  handlerAt'[v][m] = "ANSWERED"
  BY <1>2 DEF LookupStep, FindRefund, FinishLookup, LookupUnheard
<1>3. ASSUME NEW i \in RefundIds, EventStep(i)
      PROVE  handlerAt'[v][m] = "ANSWERED"
  BY <1>3
  DEF EventStep, ProviderFinishes, ReceiveProviderEvent, SignalOutcome, MarkDelivered, gatewayVars
<1>4. CASE GatewayRestart
  BY <1>4 DEF GatewayRestart, Killed
<1> QED
  BY <1>1, <1>2, <1>3, <1>4 DEF Next

\* What a handler comes to hold is true once it holds it, and a refusal is the
\* answer of a request that was still being validated.
LEMMA HandlerWrites ==
  ASSUME IInv, TruthInv, NEW w \in Journeys, NEW n \in Attempts, HandlerStep(w, n)
  PROVE  \/ UNCHANGED handlerResult
         \/ \E answer \in Result :
              /\ handlerResult' = [handlerResult EXCEPT ![w][n] = answer]
              /\ Truthful(w, answer.status, answer.refundId)'
              /\ answer.status # "IN_PROGRESS"
              /\ answer.status = "HTTP_409" => handlerAt[w][n] = "SENT" /\ Moves(w, n, "ANSWERED")
<1> USE DEF IInv
<1> DEFINE Holds ==
      \/ UNCHANGED handlerResult
      \/ \E answer \in Result :
           /\ handlerResult' = [handlerResult EXCEPT ![w][n] = answer]
           /\ Truthful(w, answer.status, answer.refundId)'
           /\ answer.status # "IN_PROGRESS"
           /\ answer.status = "HTTP_409" => handlerAt[w][n] = "SENT" /\ Moves(w, n, "ANSWERED")
<1> HIDE DEF Holds
<1>0. Next
  BY DEF Next
<1>1. ASSUME UNCHANGED handlerResult PROVE Holds
  BY <1>1 DEF Holds
<1>2. ASSUME NEW status \in Answers \ {"IN_PROGRESS"}, NEW id \in MaybeRefundId,
             handlerResult' = [handlerResult EXCEPT ![w][n] = [status |-> status, refundId |-> id]],
             Truthful(w, status, id)',
             status = "HTTP_409" => handlerAt[w][n] = "SENT" /\ Moves(w, n, "ANSWERED")
      PROVE  Holds
  <2>1. PICK answer \in Result : answer = [status |-> status, refundId |-> id]
    BY DEF Result
  <2>2. answer.status = status /\ answer.refundId = id
    BY <2>1
  <2>3. Truthful(w, answer.status, answer.refundId)'
    BY <1>2, <2>2 DEF Truthful
  <2> QED
    BY <1>2, <2>1, <2>2, <2>3 DEF Holds
<1>3. ASSUME NEW status \in Answers \ {"SUCCEEDED", "FAILED", "IN_PROGRESS"},
             handlerResult' = [handlerResult EXCEPT ![w][n] = [status |-> status, refundId |-> None]],
             status = "HTTP_409" => handlerAt[w][n] = "SENT" /\ Moves(w, n, "ANSWERED")
      PROVE  Holds
  <2>1. Truthful(w, status, None)'
    BY DEF Truthful
  <2>2. None \in MaybeRefundId
    BY DEF MaybeRefundId
  <2> QED
    BY <1>2, <1>3, <2>1, <2>2
<1> USE DEF Answers, ExecutionStatus
<1>4. ASSUME ReadOrder(w, n) PROVE Holds
  BY <1>1, <1>3, <1>4 DEF ReadOrder, Answer
<1>5. ASSUME RequestFails(w, n) \/ RecordFails(w, n) PROVE Holds
  BY <1>3, <1>5 DEF RequestFails, RecordFails, Answer
<1>6. ASSUME Reserve(w, n) PROVE Holds
  <2>1. CASE row[w] # None
    <3>1. row[w] \in Row
      BY <2>1 DEF TypeOK
    <3>2. Truthful(w, row[w].status, row[w].refundId)
      BY <2>1 DEF TruthInv, RowInv
    <3>3. PICK r \in Row : r = row[w]
      BY <3>1
    <3>4. PICK s \in Answers : s = StoredAnswer(r).status
      BY <3>2, <3>3, StoredAnswerTrue
    <3>5. PICK id \in MaybeRefundId : id = StoredAnswer(r).refundId
      BY <3>2, <3>3, StoredAnswerTrue
    <3>6. Truthful(w, s, id) /\ s \notin {"HTTP_409", "IN_PROGRESS"}
      BY <3>2, <3>3, <3>4, <3>5, StoredAnswerTrue
    <3>7. Truthful(w, s, id)'
      BY <1>0, <3>6, TruthStays DEF TruthInv
    <3>8. handlerResult' = [handlerResult EXCEPT ![w][n] = [status |-> s, refundId |-> id]]
      BY <1>6, <2>1, <3>3, <3>4, <3>5 DEF Reserve, Answer
    <3> QED
      BY <1>2, <3>6, <3>7, <3>8
  <2> QED
    BY <1>1, <1>6, <2>1 DEF Reserve
<1>7. ASSUME ProviderAccepts(w, n) PROVE Holds
  <2> PICK i \in RefundIds :
        /\ refundOwner' = [refundOwner EXCEPT ![i] = w]
        /\ \/ UNCHANGED handlerResult
           \/ \E answer \in {[status |-> "SUBMITTED", refundId |-> i],
                             [status |-> "SUBMITTED", refundId |-> None],
                             [status |-> "PENDING_RECONCILIATION", refundId |-> None]} :
                handlerResult' = [handlerResult EXCEPT ![w][n] = answer]
    BY <1>7 DEF ProviderAccepts
  <2>1. refundOwner'[i] = w
    BY DEF TypeOK
  <2>2. Truthful(w, "SUBMITTED", i)'
    BY <2>1 DEF Truthful
  <2>3. i \in MaybeRefundId
    BY DEF MaybeRefundId
  <2> QED
    BY <1>1, <1>2, <1>3, <2>2, <2>3
<1>8. ASSUME ProviderDeclines(w, n) PROVE Holds
  <2>1. Outstanding(w, n)
    BY <1>8 DEF ProviderDeclines, Outstanding
  <2>2. /\ row[w] # None /\ \A i \in RefundIds : ~Owns(w, i)
        /\ \A m \in Attempts : Outstanding(w, m) => m = n
    BY <2>1 DEF ReservationInv
  <2>3. Moves(w, n, "CALLED") /\ UNCHANGED <<refundState, refundOwner, row>>
    BY <1>8 DEF ProviderDeclines, providerVars
  <2>4. \A m \in Attempts : ~Outstanding(w, m)'
    BY <2>2, <2>3, MovesEffect DEF Outstanding
  <2>5. \A i \in RefundIds : refundOwner[i] # w
    BY <2>2, NoneAssumption DEF Owns, TruthInv, OwnerInv
  <2>6. Unpayable(w)'
    BY <2>2, <2>3, <2>4, <2>5 DEF Unpayable
  <2>7. Truthful(w, "FAILED", None)' /\ Truthful(w, "PENDING_RECONCILIATION", None)'
    BY <2>6 DEF Truthful
  <2>8. None \in MaybeRefundId
    BY DEF MaybeRefundId
  <2> QED
    BY <1>2, <1>8, <2>7, <2>8 DEF ProviderDeclines
<1>9. ASSUME RecordUncertain(w, n) PROVE Holds
  BY <1>3, <1>9 DEF RecordUncertain, Answer
<1>10. ASSUME RecordOutcome(w, n) PROVE Holds
  BY <1>1, <1>10 DEF RecordOutcome
<1>11. Holds
  BY <1>4, <1>5, <1>6, <1>7, <1>8, <1>9, <1>10 DEF HandlerStep
<1> QED
  BY <1>11 DEF Holds

\* Only the execution route holds answers.
LEMMA ResultsChange ==
  ASSUME Next
  PROVE  UNCHANGED handlerResult \/ \E w \in Journeys, n \in Attempts : HandlerStep(w, n)
BY DEF Next, WorkerStep, StartExecution, AttemptLost, ReceiveAnswer, ClientGivesUp,
       ActivityExhausted, LookupStep, FindRefund, FinishLookup, LookupUnheard, EventStep,
       ProviderFinishes, ReceiveProviderEvent, SignalOutcome, MarkDelivered, GatewayRestart,
       gatewayVars

\* The answers stay true,
LEMMA ResultInvStep ==
  ASSUME IInv, TruthInv, Next
  PROVE  ResultInv'
<1> SUFFICES ASSUME NEW v \in Journeys, NEW m \in Attempts
             PROVE  Truthful(v, handlerResult[v][m].status, handlerResult[v][m].refundId)'
  BY DEF ResultInv
<1>1. handlerResult[v][m] \in Result
  BY DEF IInv, TypeOK
<1>2. CASE handlerResult'[v][m] = handlerResult[v][m]
  <2>1. PICK s : s = handlerResult[v][m].status
    OBVIOUS
  <2>2. PICK id \in MaybeRefundId : id = handlerResult[v][m].refundId
    BY <1>1 DEF Result
  <2>3. Truthful(v, s, id)
    BY <2>1, <2>2 DEF TruthInv, ResultInv
  <2>4. Truthful(v, s, id)'
    BY <2>3, TruthStays DEF TruthInv
  <2> QED
    BY <1>2, <2>1, <2>2, <2>4 DEF Truthful
<1>3. ASSUME NEW w \in Journeys, NEW n \in Attempts, HandlerStep(w, n),
             handlerResult'[v][m] # handlerResult[v][m]
      PROVE  Truthful(v, handlerResult[v][m].status, handlerResult[v][m].refundId)'
  <2>1. PICK answer \in Result :
          /\ handlerResult' = [handlerResult EXCEPT ![w][n] = answer]
          /\ Truthful(w, answer.status, answer.refundId)'
    BY <1>3, HandlerWrites
  <2>2. v = w /\ m = n /\ handlerResult'[v][m] = answer
    BY <1>3, <2>1 DEF IInv, TypeOK
  <2> QED
    BY <2>1, <2>2 DEF Truthful
<1> QED
  BY <1>2, <1>3, ResultsChange

\* The refund reconciliation finds by its amount is the journey's own, and its
\* state says how the journey ended.
LEMMA FoundIsOwn ==
  ASSUME Distinguishable, IInv, OwnerInv, NEW w \in Journeys, NEW i \in MatchingRefunds(w)
  PROVE  i \in RefundIds /\ Truthful(w, LookupStatus(refundState[i]), i)
<1>1. i \in RefundIds /\ Exists(i) /\ Amount[refundOwner[i]] = Amount[w]
  BY DEF MatchingRefunds
<1>2. refundOwner[i] \in Journeys
  BY <1>1 DEF OwnerInv, IInv, TypeOK
<1>3. refundOwner[i] = w
  BY <1>1, <1>2 DEF Distinguishable
<1>4. /\ LookupStatus(refundState[i]) = "SUCCEEDED" => refundState[i] = "SETTLED"
      /\ LookupStatus(refundState[i]) = "FAILED" => refundState[i] = "FAILED"
  BY DEF LookupStatus
<1> QED
  BY <1>1, <1>3, <1>4, OwnRefundDecides DEF Truthful

\* What a lookup holds is what it held or what it has just found.
LEMMA LookupWrites ==
  ASSUME IInv, Next, NEW v \in Journeys, lookup'[v] # None
  PROVE  \/ /\ lookup[v] # None
            /\ lookup'[v].seen = lookup[v].seen /\ lookup'[v].refundId = lookup[v].refundId
         \/ \E i \in MatchingRefunds(v) :
              lookup'[v].seen = refundState[i] /\ lookup'[v].refundId = i
<1> USE DEF IInv
<1>1. CASE UNCHANGED lookup
  BY <1>1
<1>2. ASSUME NEW w \in Journeys, FindRefund(w), v = w
      PROVE  \E i \in MatchingRefunds(v) :
               lookup'[v].seen = refundState[i] /\ lookup'[v].refundId = i
  BY <1>2 DEF FindRefund, TypeOK
<1>3. ASSUME NEW w \in Journeys, LookupStep(w), v # w
      PROVE  lookup'[v] = lookup[v]
  BY <1>3 DEF LookupStep, FindRefund, FinishLookup, LookupUnheard, TypeOK
<1>4. ASSUME NEW w \in Journeys, LookupUnheard(w), v = w
      PROVE  /\ lookup[v] # None
             /\ lookup'[v].seen = lookup[v].seen /\ lookup'[v].refundId = lookup[v].refundId
  <2>1. lookup[w] # None => lookup[w] \in Lookup
    BY DEF TypeOK
  <2>2. lookup'[w] = IF lookup[w] = None THEN None ELSE [lookup[w] EXCEPT !.awaited = FALSE]
    BY <1>4 DEF LookupUnheard, TypeOK
  <2> QED
    BY <1>4, <2>1, <2>2 DEF Lookup
<1>5. ASSUME NEW w \in Journeys, FinishLookup(w), v = w
      PROVE  lookup'[v] = None
  BY <1>5 DEF FinishLookup, TypeOK
<1>6. CASE GatewayRestart
  BY <1>6 DEF GatewayRestart
<1>7. UNCHANGED lookup \/ GatewayRestart \/ \E w \in Journeys : LookupStep(w)
  BY DEF Next, WorkerStep, StartExecution, AttemptLost, ReceiveAnswer, ClientGivesUp,
         ActivityExhausted, HandlerStep, ReadOrder, RequestFails, Reserve, ProviderAccepts,
         ProviderDeclines, RecordOutcome, RecordUncertain, RecordFails, EventStep,
         ProviderFinishes, ReceiveProviderEvent, SignalOutcome, MarkDelivered, gatewayVars
<1> QED
  BY <1>1, <1>2, <1>3, <1>4, <1>5, <1>6, <1>7 DEF LookupStep

\* The lookups stay true,
LEMMA LookupInvStep ==
  ASSUME Distinguishable, IInv, TruthInv, Next
  PROVE  LookupInv'
<1> SUFFICES ASSUME NEW v \in Journeys, lookup'[v] # None
             PROVE  Truthful(v, LookupStatus(lookup[v].seen), lookup[v].refundId)'
  BY DEF LookupInv
<1>1. PICK seen : seen = lookup'[v].seen
  OBVIOUS
<1>2. PICK s : s = LookupStatus(seen)
  OBVIOUS
<1>3. PICK id : id = lookup'[v].refundId
  OBVIOUS
<1>4. id \in MaybeRefundId /\ Truthful(v, s, id)
  <2>1. CASE /\ lookup[v] # None
             /\ lookup'[v].seen = lookup[v].seen /\ lookup'[v].refundId = lookup[v].refundId
    <3>1. lookup[v] \in Lookup
      BY <2>1 DEF IInv, TypeOK
    <3> QED
      BY <1>1, <1>2, <1>3, <2>1, <3>1 DEF TruthInv, LookupInv, Lookup, MaybeRefundId
  <2>2. ASSUME NEW i \in MatchingRefunds(v),
               lookup'[v].seen = refundState[i], lookup'[v].refundId = i
        PROVE  id \in MaybeRefundId /\ Truthful(v, s, id)
    BY <1>1, <1>2, <1>3, <2>2, FoundIsOwn DEF TruthInv, MaybeRefundId
  <2> QED
    BY <2>1, <2>2, LookupWrites
<1>5. Truthful(v, s, id)'
  BY <1>4, TruthStays DEF TruthInv
<1>6. LookupStatus(lookup'[v].seen) = s
  BY <1>1, <1>2
<1> QED
  BY <1>3, <1>5, <1>6 DEF Truthful, LookupStatus

\* and so do the events and the signals they cause.
LEMMA NoticeInvStep ==
  ASSUME IInv, TruthInv, Next
  PROVE  NoticeInv'
<1> USE DEF IInv
<1>1. \A j \in RefundIds : \A v \in Journeys : Informs(v, j) => Informs(v, j)'
  BY InformsStays DEF TruthInv
<1>2. \A j \in RefundIds : event'[j] # None =>
        event'[j].journey \in Journeys /\ Informs(event'[j].journey, j)
  <2> SUFFICES ASSUME NEW j \in RefundIds, event'[j] # None
               PROVE  event'[j].journey \in Journeys /\ Informs(event'[j].journey, j)
    OBVIOUS
  <2>1. CASE event[j] # None /\ event'[j].journey = event[j].journey
    <3>1. event[j] \in Event
      BY <2>1 DEF TypeOK
    <3> QED
      BY <2>1, <3>1 DEF Event, TruthInv, NoticeInv
  <2>2. CASE UNCHANGED event
    BY <2>1, <2>2
  <2>3. ASSUME NEW i \in RefundIds, ReceiveProviderEvent(i)
        PROVE  event'[j].journey \in Journeys /\ Informs(event'[j].journey, j)
    <3>1. CASE j = i
      <4>1. PICK w \in Journeys :
              /\ row[w] # None /\ row[w].refundId = i
              /\ event' = [event EXCEPT ![i] =
                   [journey |-> w,
                    delivery |-> IF TerminalRow(row[w]) THEN "DELIVERED" ELSE "PENDING"]]
        BY <2>3 DEF ReceiveProviderEvent, RowsOf
      <4>2. event'[j].journey = w
        BY <3>1, <4>1 DEF TypeOK
      <4>3. refundOwner[i] = w
        BY <4>1, NoneAssumption DEF TruthInv, RowInv, Truthful
      <4>4. Ended(i)
        BY <2>3 DEF ReceiveProviderEvent, Ended
      <4> QED
        BY <3>1, <4>2, <4>3, <4>4 DEF Informs
    <3>2. CASE j # i
      BY <2>1, <2>3, <3>2 DEF ReceiveProviderEvent, TypeOK
    <3> QED
      BY <3>1, <3>2
  <2>4. ASSUME NEW i \in RefundIds, MarkDelivered(i)
        PROVE  event'[j].journey \in Journeys /\ Informs(event'[j].journey, j)
    <3>1. event[i] # None /\ event[i] \in Event
      BY <2>4 DEF MarkDelivered, ControlInv, TypeOK
    <3>2. event'[j] = IF j = i THEN [event[i] EXCEPT !.delivery = "DELIVERED"] ELSE event[j]
      BY <2>4 DEF MarkDelivered, TypeOK
    <3> QED
      BY <2>1, <3>1, <3>2 DEF Event
  <2>5. \/ UNCHANGED event
        \/ \E i \in RefundIds : ReceiveProviderEvent(i)
        \/ \E i \in RefundIds : MarkDelivered(i)
    BY DEF Next, WorkerStep, StartExecution, AttemptLost, ReceiveAnswer, ClientGivesUp,
           ActivityExhausted, HandlerStep, ReadOrder, RequestFails, Reserve, ProviderAccepts,
           ProviderDeclines, RecordOutcome, RecordUncertain, RecordFails, LookupStep, FindRefund,
           FinishLookup, LookupUnheard, EventStep, ProviderFinishes, SignalOutcome,
           GatewayRestart, gatewayVars
  <2> QED
    BY <2>2, <2>3, <2>4, <2>5
<1>3. \A v \in Journeys : \A j \in buffered'[v] : j \in RefundIds /\ Informs(v, j)
  <2> SUFFICES ASSUME NEW v \in Journeys, NEW j \in buffered'[v]
               PROVE  j \in RefundIds /\ Informs(v, j)
    OBVIOUS
  <2>1. CASE j \in buffered[v]
    BY <2>1 DEF TruthInv, NoticeInv, TypeOK
  <2>2. ASSUME NEW i \in RefundIds, SignalOutcome(i), j \notin buffered[v]
        PROVE  j \in RefundIds /\ Informs(v, j)
    <3>1. event[i] # None /\ event[i] \in Event
      BY <2>2 DEF SignalOutcome, TypeOK
    <3>2. v = event[i].journey /\ j = i
      BY <2>2 DEF SignalOutcome, TypeOK
    <3> QED
      BY <3>1, <3>2 DEF TruthInv, NoticeInv
  <2>3. UNCHANGED buffered \/ \E i \in RefundIds : SignalOutcome(i)
    BY DEF Next, WorkerStep, StartExecution, AttemptLost, ReceiveAnswer, ClientGivesUp,
           ActivityExhausted, HandlerStep, ReadOrder, RequestFails, Reserve, ProviderAccepts,
           ProviderDeclines, RecordOutcome, RecordUncertain, RecordFails, LookupStep, FindRefund,
           FinishLookup, LookupUnheard, EventStep, ProviderFinishes, ReceiveProviderEvent,
           MarkDelivered, GatewayRestart, workerVars
  <2> QED
    BY <2>1, <2>2, <2>3
<1> QED
  BY <1>1, <1>2, <1>3 DEF NoticeInv

----------------------------------------------------------------------------
(* What the workflow makes of answers, lookups and signals is true.        *)

\* A signal about the journey's refund tells how the journey ended.
LEMMA AcceptOutcomeTrue ==
  ASSUME IInv, OwnerInv, NEW w \in Journeys, NEW wf \in Workflow, Reports(w, wf),
         NEW i \in RefundIds, Informs(w, i)
  PROVE  Reports(w, AcceptOutcome(wf, i))
<1> DEFINE new == AcceptOutcome(wf, i)
<1> SUFFICES Reports(w, new)
  OBVIOUS
<1>1. /\ new.refundId = wf.refundId /\ new.stage = wf.stage /\ new.attempt = wf.attempt
      /\ \/ new.outcome = wf.outcome
         \/ new.outcome = IF refundState[i] = "SETTLED" THEN "COMPLETED" ELSE "FAILED"
  BY DEF AcceptOutcome, Workflow
<1>2. new.outcome = "COMPLETED" => Settled(w)
  BY <1>1, OwnRefundDecides DEF Reports, Informs
<1>3. new.outcome = "FAILED" => Unpayable(w)
  BY <1>1, OwnRefundDecides DEF Reports, Informs, Ended
<1> HIDE DEF new
<1> QED
  BY <1>1, <1>2, <1>3 DEF Reports, Refused

\* A workflow record at a stage that claims nothing about the outcome.
LEMMA OpenStageTrue ==
  ASSUME NEW w, NEW wf \in Workflow, Reports(w, wf),
         NEW new \in Workflow, new.outcome = wf.outcome,
         new.stage \notin {"REFUND_SUCCEEDED", "REFUND_FAILED"},
         new.refundId = wf.refundId \/ (new.refundId # None => refundOwner[new.refundId] = w)
  PROVE  Reports(w, new)
BY DEF Reports

\* The answer of executeRefund,
LEMMA AfterExecutionTrue ==
  ASSUME IInv, TruthInv, NEW w \in Journeys, workflow[w].attempt \in Attempts,
         handlerAt[w][workflow[w].attempt] = "ANSWERED"
  PROVE  Reports(w, AfterExecution(w, handlerResult[w][workflow[w].attempt]))
<1> USE DEF IInv
<1> DEFINE wf == workflow[w]
           result == handlerResult[w][wf.attempt]
           status == ClientStatus(result.status)
           new == AfterExecution(w, result)
           submitted == [wf EXCEPT !.stage = "REFUND_PROCESSING", !.refundId = result.refundId]
<1> SUFFICES Reports(w, new)
  OBVIOUS
<1>1. wf \in Workflow /\ result \in Result /\ result.refundId \in MaybeRefundId /\ result.status \in Answers
  BY DEF TypeOK, Result
<1>2. Reports(w, wf) /\ Truthful(w, result.status, result.refundId)
  BY DEF TruthInv, WorkflowInv, ResultInv
<1>3. /\ status = "SUCCEEDED" => result.status = "SUCCEEDED"
      /\ status \notin {"SUCCEEDED", "SUBMITTED", "PENDING_RECONCILIATION", "IN_PROGRESS"} =>
           result.status \in {"FAILED", "HTTP_409"}
      /\ status = "IN_PROGRESS" => result.status = "IN_PROGRESS"
  BY <1>1 DEF ClientStatus, Answers, ExecutionStatus
<1>3a. result.status # "IN_PROGRESS"
  BY DEF TruthInv, TriesInv
<1>4. CASE status = "SUCCEEDED"
  <2>1. new = [wf EXCEPT !.stage = "REFUND_SUCCEEDED", !.refundId = result.refundId]
    BY <1>4 DEF AfterExecution
  <2>2. /\ new.stage = "REFUND_SUCCEEDED" /\ new.refundId = result.refundId
        /\ new.outcome = wf.outcome
    BY <1>1, <2>1 DEF Workflow
  <2>3. Settled(w) /\ (result.refundId # None => refundOwner[result.refundId] = w)
    BY <1>2, <1>3, <1>4 DEF Truthful
  <2> HIDE DEF new
  <2> QED
    BY <1>2, <2>2, <2>3 DEF Reports
<1>5. CASE status = "SUBMITTED"
  <2>1. new = HandlerSet(submitted, buffered[w])
    BY <1>5 DEF AfterExecution
  <2>2. submitted \in Workflow /\ submitted.refundId = result.refundId
    BY <1>1 DEF Workflow, Stages
  <2>3. Reports(w, submitted)
    <3>1. submitted.outcome = wf.outcome /\ submitted.stage = "REFUND_PROCESSING"
      BY <1>1 DEF Workflow
    <3>2. submitted.refundId # None => refundOwner[submitted.refundId] = w
      BY <1>2, <2>2 DEF Truthful
    <3> HIDE DEF submitted, wf
    <3> QED
      BY <1>1, <1>2, <2>2, <3>1, <3>2, OpenStageTrue
  <2>4. CASE submitted.refundId \in buffered[w]
    <3>1. submitted.refundId \in RefundIds /\ Informs(w, submitted.refundId)
      BY <2>4 DEF TruthInv, NoticeInv, TypeOK
    <3>2. OwnerInv
      BY DEF TruthInv
    <3> HIDE DEF new, submitted
    <3>3. Reports(w, AcceptOutcome(submitted, submitted.refundId))
      BY <2>2, <2>3, <3>1, <3>2, AcceptOutcomeTrue
    <3> QED
      BY <2>1, <2>4, <3>3 DEF HandlerSet
  <2>5. CASE submitted.refundId \notin buffered[w]
    BY <2>1, <2>3, <2>5 DEF HandlerSet
  <2> QED
    BY <2>4, <2>5
<1>6. CASE status = "PENDING_RECONCILIATION"
  <2>1. new = [wf EXCEPT !.stage = "PENDING_RECONCILIATION"]
    BY <1>6 DEF AfterExecution
  <2>2. new \in Workflow
    BY <1>1, <2>1 DEF Workflow, Stages
  <2>3. new.outcome = wf.outcome /\ new.refundId = wf.refundId /\ new.stage = "PENDING_RECONCILIATION"
    BY <1>1, <2>1 DEF Workflow
  <2> HIDE DEF new, wf
  <2> QED
    BY <1>1, <1>2, <2>2, <2>3, OpenStageTrue
<1>7. CASE status \notin {"SUCCEEDED", "SUBMITTED", "PENDING_RECONCILIATION"}
  <2>1. new = [wf EXCEPT !.stage = "REFUND_FAILED"]
    BY <1>7 DEF AfterExecution
  <2>2. /\ new.stage = "REFUND_FAILED" /\ new.refundId = wf.refundId
        /\ new.outcome = wf.outcome /\ new.attempt = wf.attempt
    BY <1>1, <2>1 DEF Workflow
  <2>3. result.status \in {"FAILED", "HTTP_409"}
    BY <1>3, <1>7, <1>3a
  <2>4. Unpayable(w) \/ Refused(w, new)
    BY <1>2, <2>2, <2>3 DEF Truthful, Refused
  <2> HIDE DEF new
  <2> QED
    BY <1>2, <2>2, <2>4 DEF Reports
<1> QED
  BY <1>4, <1>5, <1>6, <1>7

\* and the answer of reconcileRefund leave a true record.
LEMMA AfterReconciliationTrue ==
  ASSUME NEW w \in Journeys, NEW wf \in Workflow, Reports(w, wf),
         NEW status, NEW id \in MaybeRefundId, Truthful(w, status, id)
  PROVE  Reports(w, AfterReconciliation(wf, status, id))
<1> DEFINE new == AfterReconciliation(wf, status, id)
           processing == wf.stage = "REFUND_PROCESSING"
           known == IF processing /\ wf.refundId # None THEN wf.refundId ELSE id
           settled == status = "SUCCEEDED" \/ (processing /\ wf.outcome = "COMPLETED")
           failed == status = "FAILED" \/ (processing /\ wf.outcome = "FAILED")
<1> SUFFICES Reports(w, new)
  OBVIOUS
<1>1. known # None => refundOwner[known] = w
  BY DEF Reports, Truthful
<1>2. (settled => Settled(w)) /\ (failed => Unpayable(w))
  BY DEF Reports, Truthful
<1>3. CASE settled
  <2>1. new = [wf EXCEPT !.stage = "REFUND_SUCCEEDED", !.refundId = known]
    BY <1>3 DEF AfterReconciliation
  <2>2. new.stage = "REFUND_SUCCEEDED" /\ new.refundId = known /\ new.outcome = wf.outcome
    BY <2>1 DEF Workflow
  <2> HIDE DEF new, known
  <2> QED
    BY <1>1, <1>2, <1>3, <2>2 DEF Reports
<1>4. CASE ~settled /\ failed
  <2>1. new = [wf EXCEPT !.stage = "REFUND_FAILED", !.refundId = known]
    BY <1>4 DEF AfterReconciliation
  <2>2. new.stage = "REFUND_FAILED" /\ new.refundId = known /\ new.outcome = wf.outcome
    BY <2>1 DEF Workflow
  <2> HIDE DEF new, known
  <2> QED
    BY <1>1, <1>2, <1>4, <2>2 DEF Reports
<1>5. CASE ~settled /\ ~failed
  <2>1. new = IF processing THEN [wf EXCEPT !.refundId = known] ELSE wf
    BY <1>5 DEF AfterReconciliation
  <2>2. /\ new.stage = wf.stage /\ new.outcome = wf.outcome /\ new.attempt = wf.attempt
        /\ new.refundId = known \/ new.refundId = wf.refundId
    BY <2>1 DEF Workflow
  <2> HIDE DEF new, known
  <2> QED
    BY <1>1, <2>2 DEF Reports, Refused
<1> QED
  BY <1>3, <1>4, <1>5

\* Every step leaves each journey a record that is true.
LEMMA WorkflowWrites ==
  ASSUME IInv, TruthInv, Next, NEW v \in Journeys
  PROVE  \E wf : workflow'[v] = wf /\ Reports(v, wf)
<1> USE DEF IInv
<1>0. \A w \in Journeys : workflow[w] \in Workflow /\ Reports(w, workflow[w])
  BY DEF TypeOK, TruthInv, WorkflowInv
<1>1. ASSUME workflow'[v] = workflow[v]
      PROVE  \E wf : workflow'[v] = wf /\ Reports(v, wf)
  BY <1>0, <1>1
<1>2. ASSUME NEW w \in Journeys, NEW wf, workflow' = [workflow EXCEPT ![w] = wf], Reports(w, wf)
      PROVE  \E x : workflow'[v] = x /\ Reports(v, x)
  <2>1. workflow'[v] = IF v = w THEN wf ELSE workflow[v]
    BY <1>2 DEF TypeOK
  <2> QED
    BY <1>0, <1>2, <2>1
<1>3. ASSUME NEW w \in Journeys, WorkerStep(w)
      PROVE  \E wf : workflow'[v] = wf /\ Reports(v, wf)
  <2>1. CASE ReceiveAnswer(w)
    <3>1. workflow[w].attempt \in Attempts
      BY <1>0, <2>1, MaxAttemptsAssumption DEF ReceiveAnswer, ControlInv, Workflow, Attempts
    <3>2. Reports(w, AfterExecution(w, handlerResult[w][workflow[w].attempt]))
      BY <2>1, <3>1, AfterExecutionTrue DEF ReceiveAnswer
    <3> QED
      BY <1>2, <2>1, <3>2 DEF ReceiveAnswer
  <2>2. ASSUME NEW new \in Workflow, workflow' = [workflow EXCEPT ![w] = new],
               new.outcome = workflow[w].outcome, new.refundId = workflow[w].refundId,
               new.stage \notin {"REFUND_SUCCEEDED", "REFUND_FAILED"}
        PROVE  \E wf : workflow'[v] = wf /\ Reports(v, wf)
    <3>1. Reports(w, new)
      BY <1>0, <2>2, OpenStageTrue
    <3> QED
      BY <1>2, <2>2, <3>1
  <2>3. CASE StartExecution(w)
    <3> DEFINE one == [workflow[w] EXCEPT !.stage = "EXECUTING", !.attempt = 1]
               off == [workflow[w] EXCEPT !.stage = "PREVIEW_INVALIDATED"]
    <3>0. 1 \in 0..MaxAttempts
      BY MaxAttemptsAssumption
    <3>1. one \in Workflow /\ off \in Workflow
      BY <1>0, <3>0 DEF Workflow, Stages
    <3>2. /\ one.outcome = workflow[w].outcome /\ one.refundId = workflow[w].refundId
          /\ off.outcome = workflow[w].outcome /\ off.refundId = workflow[w].refundId
          /\ one.stage = "EXECUTING" /\ off.stage = "PREVIEW_INVALIDATED"
      BY <1>0 DEF Workflow
    <3>3. \/ workflow' = [workflow EXCEPT ![w] = one]
          \/ workflow' = [workflow EXCEPT ![w] = off]
      BY <2>3 DEF StartExecution, TypeOK
    <3> HIDE DEF one, off
    <3> QED
      BY <2>2, <3>1, <3>2, <3>3
  <2>4. CASE AttemptLost(w)
    <3> DEFINE again == [workflow[w] EXCEPT !.attempt = @ + 1]
               off == [workflow[w] EXCEPT !.stage = "WORKFLOW_FAILED"]
    <3>1. (workflow[w].attempt < MaxAttempts => again \in Workflow) /\ off \in Workflow
      BY <1>0, MaxAttemptsAssumption DEF Workflow, Stages
    <3>2. /\ again.outcome = workflow[w].outcome /\ again.refundId = workflow[w].refundId
          /\ off.outcome = workflow[w].outcome /\ off.refundId = workflow[w].refundId
          /\ again.stage = workflow[w].stage /\ off.stage = "WORKFLOW_FAILED"
      BY <1>0 DEF Workflow
    <3>3. \/ workflow[w].attempt < MaxAttempts /\ workflow' = [workflow EXCEPT ![w] = again]
          \/ workflow' = [workflow EXCEPT ![w] = off]
      BY <2>4 DEF AttemptLost, TypeOK
    <3>4. workflow[w].stage = "EXECUTING"
      BY <2>4 DEF AttemptLost
    <3> HIDE DEF again, off
    <3> QED
      BY <2>2, <3>1, <3>2, <3>3, <3>4
  <2>5. CASE ClientGivesUp(w) \/ ActivityExhausted(w)
    <3>1. ASSUME NEW stage \in {"PENDING_RECONCILIATION", "WORKFLOW_FAILED"},
                 workflow' = [workflow EXCEPT ![w].stage = stage]
          PROVE  \E wf : workflow'[v] = wf /\ Reports(v, wf)
      <4> DEFINE new == [workflow[w] EXCEPT !.stage = stage]
      <4>1. new \in Workflow
        BY <1>0 DEF Workflow, Stages
      <4>2. new.outcome = workflow[w].outcome /\ new.refundId = workflow[w].refundId /\ new.stage = stage
        BY <1>0 DEF Workflow
      <4>3. workflow' = [workflow EXCEPT ![w] = new]
        BY <3>1
      <4> HIDE DEF new
      <4> QED
        BY <2>2, <4>1, <4>2, <4>3
    <3> QED
      BY <2>5, <3>1 DEF ClientGivesUp, ActivityExhausted
  <2> QED
    BY <1>3, <2>1, <2>3, <2>4, <2>5 DEF WorkerStep
<1>4. ASSUME NEW w \in Journeys, NEW n \in Attempts, HandlerStep(w, n)
      PROVE  workflow' = workflow
  BY <1>4
  DEF HandlerStep, ReadOrder, RequestFails, Reserve, ProviderAccepts, ProviderDeclines,
      RecordOutcome, RecordUncertain, RecordFails, workerVars
<1>5. ASSUME NEW w \in Journeys, LookupStep(w)
      PROVE  \E wf : workflow'[v] = wf /\ Reports(v, wf)
  <2>1. CASE FindRefund(w)
    BY <1>1, <2>1 DEF FindRefund, workerVars
  <2>2. CASE FinishLookup(w)
    <3> DEFINE status == LookupStatus(lookup[w].seen)
    <3>1. lookup[w] # None /\ lookup[w].refundId \in MaybeRefundId
      BY <2>2 DEF FinishLookup, TypeOK, Lookup, MaybeRefundId
    <3>2. Truthful(w, status, lookup[w].refundId)
      BY <3>1 DEF TruthInv, LookupInv
    <3>3. Reports(w, AfterReconciliation(workflow[w], status, lookup[w].refundId))
      BY <1>0, <3>1, <3>2, AfterReconciliationTrue
    <3>4. \/ workflow' = [workflow EXCEPT ![w] = AfterReconciliation(workflow[w], status, lookup[w].refundId)]
          \/ workflow' = workflow
      BY <2>2 DEF FinishLookup
    <3> HIDE DEF status
    <3> QED
      BY <1>1, <1>2, <3>3, <3>4
  <2>3. CASE LookupUnheard(w)
    <3>1. Truthful(w, "NOT_FOUND", None) /\ None \in MaybeRefundId
      BY UncertainTrue DEF MaybeRefundId
    <3>2. Reports(w, AfterReconciliation(workflow[w], "NOT_FOUND", None))
      BY <1>0, <3>1, AfterReconciliationTrue
    <3> QED
      BY <1>2, <2>3, <3>2 DEF LookupUnheard
  <2> QED
    BY <1>5, <2>1, <2>2, <2>3 DEF LookupStep
<1>6. ASSUME NEW i \in RefundIds, EventStep(i)
      PROVE  \E wf : workflow'[v] = wf /\ Reports(v, wf)
  <2>1. CASE UNCHANGED workflow
    BY <1>1, <2>1
  <2>2. CASE workflow' # workflow
    <3>1. PICK w : w = event[i].journey
      OBVIOUS
    <3>2. event[i] # None /\ workflow' = [workflow EXCEPT ![w] = AcceptOutcome(workflow[w], i)]
      BY <1>6, <2>2, <3>1
      DEF EventStep, ProviderFinishes, ReceiveProviderEvent, SignalOutcome, MarkDelivered, workerVars
    <3>3. w \in Journeys /\ Informs(w, i)
      BY <3>1, <3>2 DEF TypeOK, Event, TruthInv, NoticeInv
    <3>4. Reports(w, AcceptOutcome(workflow[w], i))
      BY <1>0, <3>3, AcceptOutcomeTrue DEF TruthInv
    <3> QED
      BY <1>2, <3>2, <3>3, <3>4
  <2> QED
    BY <2>1, <2>2
<1>7. CASE GatewayRestart
  BY <1>1, <1>7 DEF GatewayRestart, workerVars
<1> QED
  BY <1>1, <1>3, <1>4, <1>5, <1>6, <1>7 DEF Next

\* A refusal that was answered stays the answer.
LEMMA RefusalStays ==
  ASSUME IInv, TruthInv, Next, NEW v \in Journeys, NEW m \in Attempts,
         handlerResult[v][m].status = "HTTP_409"
  PROVE  handlerResult'[v][m] = handlerResult[v][m]
<1>1. handlerAt[v][m] = "ANSWERED"
  BY DEF TruthInv, TriesInv
<1>2. ASSUME NEW w \in Journeys, NEW n \in Attempts, HandlerStep(w, n)
      PROVE  handlerResult'[v][m] = handlerResult[v][m]
  <2>1. handlerAt[w][n] # "ANSWERED"
    BY <1>2
    DEF HandlerStep, ReadOrder, RequestFails, Reserve, ProviderAccepts, ProviderDeclines,
        RecordOutcome, RecordUncertain, RecordFails
  <2>2. \/ UNCHANGED handlerResult
        \/ \E answer \in Result : handlerResult' = [handlerResult EXCEPT ![w][n] = answer]
    BY <1>2, HandlerWrites
  <2>3. v # w \/ m # n
    BY <1>1, <2>1
  <2>4. ASSUME NEW answer \in Result, handlerResult' = [handlerResult EXCEPT ![w][n] = answer]
        PROVE  handlerResult'[v][m] = handlerResult[v][m]
    BY <2>3, <2>4 DEF IInv, TypeOK
  <2> QED
    BY <2>2, <2>4
<1> QED
  BY <1>2, ResultsChange

\* So the journeys' reports stay true.
LEMMA WorkflowInvStep ==
  ASSUME IInv, TruthInv, Next
  PROVE  WorkflowInv'
<1> SUFFICES ASSUME NEW v \in Journeys
             PROVE  Reports(v, workflow[v])'
  BY DEF WorkflowInv
<1>1. PICK wf : workflow'[v] = wf /\ Reports(v, wf)
  BY WorkflowWrites
<1>2. wf \in Workflow
  <2>1. TypeOK'
    BY NextType
  <2> QED
    BY <1>1, <2>1 DEF TypeOK
<1>3. v # None /\ wf.refundId \in MaybeRefundId
  BY <1>2, NoneAssumption DEF Workflow
<1>4. wf.refundId # None => refundOwner'[wf.refundId] = v
  BY <1>1, <1>3, BooksStay DEF Reports, MaybeRefundId, IInv, TruthInv
<1>5. (Settled(v) => Settled(v)') /\ (Unpayable(v) => Unpayable(v)')
  BY SettledStays, UnpayableStays DEF IInv, TruthInv
<1>6. Refused(v, wf) => wf.attempt \in Attempts /\ handlerResult'[v][wf.attempt].status = "HTTP_409"
  BY RefusalStays DEF Refused
<1> QED
  BY <1>1, <1>4, <1>5, <1>6 DEF Reports, Refused

----------------------------------------------------------------------------
(* One attempt after the other.                                            *)

\* A step that leaves the attempts, their handlers and the set of rows alone.
LEMMA TriesKept ==
  ASSUME TriesInv, UNCHANGED <<handlerAt, handlerResult>>,
         \A v \in Journeys : row[v] = None <=> row'[v] = None,
         \A v \in Journeys : /\ workflow'[v].attempt = workflow[v].attempt
                             /\ workflow'[v].stage = "AUTHORIZED" => workflow[v].stage = "AUTHORIZED"
  PROVE  TriesInv'
BY DEF TriesInv

\* The worker starts the next attempt only,
LEMMA WorkerTries ==
  ASSUME IInv, TriesInv, NEW w \in Journeys, WorkerStep(w)
  PROVE  TriesInv'
<1> USE DEF IInv
<1>1. workflow[w] \in Workflow
  BY DEF TypeOK
<1>2. \A v \in Journeys : v # w => workflow'[v] = workflow[v]
  BY DEF WorkerStep, StartExecution, AttemptLost, ReceiveAnswer, ClientGivesUp,
         ActivityExhausted, TypeOK
<1>3. UNCHANGED <<row, handlerResult>>
  BY DEF WorkerStep, StartExecution, AttemptLost, ReceiveAnswer, ClientGivesUp,
         ActivityExhausted, gatewayVars
<1>4. CASE UNCHANGED handlerAt /\ workflow'[w].attempt = workflow[w].attempt
           /\ workflow'[w].stage # "AUTHORIZED"
  BY <1>2, <1>3, <1>4, TriesKept
<1>5. ASSUME NEW n \in Attempts, n = workflow[w].attempt + 1, Moves(w, n, "SENT"),
             workflow'[w].attempt = n, workflow'[w].stage # "AUTHORIZED",
             n = 1 => row[w] = None
      PROVE  TriesInv'
  <2>1. \A v \in Journeys : \A m \in Attempts :
          handlerAt'[v][m] = IF v = w /\ m = n THEN "SENT" ELSE handlerAt[v][m]
    BY <1>5, MovesEffect
  <2>2. workflow[w].attempt \in Nat /\ n \in Nat /\ \A m \in Attempts : m \in Nat
    BY <1>1, MaxAttemptsAssumption DEF Workflow, Attempts
  <2>3. handlerAt[w][n] = "IDLE"
    BY <1>5, <2>2 DEF TriesInv
  <2> SUFFICES ASSUME NEW v \in Journeys
               PROVE  /\ workflow'[v].stage = "AUTHORIZED" => workflow'[v].attempt = 0
                      /\ workflow'[v].attempt = 0 => row'[v] = None
                      /\ \A m \in Attempts :
                           /\ m > workflow'[v].attempt => handlerAt'[v][m] = "IDLE"
                           /\ handlerResult'[v][m].status = "HTTP_409" => handlerAt'[v][m] = "ANSWERED"
                           /\ handlerAt'[v][m] \in {"CALLED", "ANSWERED"} =>
                                handlerResult'[v][m].status # "IN_PROGRESS"
                           /\ workflow'[v].attempt = 1 /\ m = 1 =>
                                \/ row'[v] = None
                                \/ /\ handlerAt'[v][m] \notin {"SENT", "ELIGIBLE"}
                                   /\ handlerResult'[v][m].status # "HTTP_409"
    BY DEF TriesInv
  <2>4. CASE v # w
    BY <1>2, <1>3, <2>1, <2>4 DEF TriesInv
  <2>5. CASE v = w
    <3>1. workflow'[v].stage # "AUTHORIZED" /\ workflow'[v].attempt # 0
      BY <1>5, <2>2, <2>5
    <3>2. ASSUME NEW m \in Attempts
          PROVE  /\ m > workflow'[v].attempt => handlerAt'[v][m] = "IDLE"
                 /\ handlerResult'[v][m].status = "HTTP_409" => handlerAt'[v][m] = "ANSWERED"
                 /\ handlerAt'[v][m] \in {"CALLED", "ANSWERED"} =>
                      handlerResult'[v][m].status # "IN_PROGRESS"
      BY <1>3, <1>5, <2>1, <2>2, <2>3, <2>5 DEF TriesInv
    <3>3. workflow'[v].attempt = 1 => row'[v] = None
      BY <1>3, <1>5, <2>5
    <3> QED
      BY <3>1, <3>2, <3>3
  <2> QED
    BY <2>4, <2>5
<1>6. CASE StartExecution(w)
  <2>1. CASE AmountStillAvailable(w)
    <3>1. workflow[w].attempt = 0 /\ row[w] = None
      BY <1>6 DEF StartExecution, TriesInv
    <3>2. 1 \in Attempts
      BY MaxAttemptsAssumption DEF Attempts
    <3>3. workflow'[w].attempt = 1 /\ workflow'[w].stage # "AUTHORIZED" /\ Moves(w, 1, "SENT")
      BY <1>1, <1>6, <2>1 DEF StartExecution, TypeOK, Workflow
    <3>4. 1 = workflow[w].attempt + 1
      BY <3>1
    <3> QED
      BY <1>5, <3>1, <3>2, <3>3, <3>4
  <2>2. CASE ~AmountStillAvailable(w)
    BY <1>1, <1>4, <1>6, <2>2 DEF StartExecution, TypeOK, Workflow
  <2> QED
    BY <2>1, <2>2
<1>7. CASE AttemptLost(w)
  <2>1. workflow[w].attempt # 0 /\ workflow[w].attempt \in 0..MaxAttempts
    BY <1>1, <1>7 DEF AttemptLost, ControlInv, Workflow
  <2>2. CASE workflow[w].attempt < MaxAttempts
    <3>1. PICK n : n = workflow[w].attempt + 1
      OBVIOUS
    <3>2. n \in Attempts /\ n # 1
      BY <2>1, <2>2, <3>1, MaxAttemptsAssumption DEF Attempts
    <3>3. workflow'[w].attempt = n /\ workflow'[w].stage # "AUTHORIZED" /\ Moves(w, n, "SENT")
      <4>1. /\ workflow' = [workflow EXCEPT ![w].attempt = @ + 1] /\ workflow[w].stage = "EXECUTING"
            /\ Moves(w, workflow[w].attempt + 1, "SENT")
        BY <1>7, <2>2 DEF AttemptLost
      <4>2. Moves(w, n, "SENT")
        BY <3>1, <4>1
      <4>3. workflow'[w].attempt = workflow[w].attempt + 1 /\ workflow'[w].stage = "EXECUTING"
        BY <1>1, <4>1 DEF TypeOK, Workflow
      <4> QED
        BY <3>1, <4>2, <4>3
    <3> QED
      BY <1>5, <3>1, <3>2, <3>3
  <2>3. CASE ~(workflow[w].attempt < MaxAttempts)
    BY <1>1, <1>4, <1>7, <2>3 DEF AttemptLost, TypeOK, Workflow
  <2> QED
    BY <2>2, <2>3
<1>8. CASE ReceiveAnswer(w)
  <2>1. LET new == AfterExecution(w, handlerResult[w][workflow[w].attempt])
        IN  new.attempt = workflow[w].attempt /\ new.stage # "AUTHORIZED"
    BY <1>1 DEF AfterExecution, HandlerSet, AcceptOutcome, Workflow
  <2>2. workflow'[w] = AfterExecution(w, handlerResult[w][workflow[w].attempt]) /\ UNCHANGED handlerAt
    BY <1>8 DEF ReceiveAnswer, TypeOK, gatewayVars
  <2> QED
    BY <1>4, <2>1, <2>2
<1>9. CASE ClientGivesUp(w) \/ ActivityExhausted(w)
  BY <1>1, <1>4, <1>9 DEF ClientGivesUp, ActivityExhausted, TypeOK, Workflow, gatewayVars
<1> QED
  BY <1>6, <1>7, <1>8, <1>9 DEF WorkerStep

\* a handler at work belongs to an attempt that was made,
LEMMA HandlerTries ==
  ASSUME IInv, TruthInv, NEW w \in Journeys, NEW n \in Attempts, HandlerStep(w, n)
  PROVE  TriesInv'
<1> USE DEF IInv
<1>0. TriesInv
  BY DEF TruthInv
<1>1. handlerAt[w][n] \notin {"IDLE", "ANSWERED"}
  BY DEF HandlerStep, ReadOrder, RequestFails, Reserve, ProviderAccepts, ProviderDeclines,
         RecordOutcome, RecordUncertain, RecordFails
<1>2. UNCHANGED workflow
  BY DEF HandlerStep, ReadOrder, RequestFails, Reserve, ProviderAccepts, ProviderDeclines,
         RecordOutcome, RecordUncertain, RecordFails, workerVars
<1>3. /\ workflow[w].attempt \in Nat /\ \A m \in Attempts : m \in Nat /\ m # 0
      /\ ~(n > workflow[w].attempt) /\ workflow[w].attempt # 0
  <2>1. workflow[w].attempt \in Nat /\ \A m \in Attempts : m \in Nat /\ m # 0
    BY MaxAttemptsAssumption DEF TypeOK, Workflow, Attempts
  <2>2. ~(n > workflow[w].attempt)
    BY <1>0, <1>1 DEF TriesInv
  <2> QED
    BY <2>1, <2>2
<1>4. PICK step \in HandlerSteps :
        /\ Moves(w, n, step)
        /\ step \notin {"IDLE", "SENT"}
        /\ step = "ELIGIBLE" => ReadOrder(w, n)
  BY AnswerMoves, StepNames
  DEF HandlerStep, ReadOrder, RequestFails, Reserve, ProviderAccepts, ProviderDeclines,
      RecordOutcome, RecordUncertain, RecordFails
<1>5. \A v \in Journeys : \A m \in Attempts :
        handlerAt'[v][m] = IF v = w /\ m = n THEN step ELSE handlerAt[v][m]
  BY <1>4, MovesEffect
<1>6. handlerResult'[w][n].status = "HTTP_409" => step = "ANSWERED" /\ handlerAt[w][n] = "SENT"
  <2>1. CASE UNCHANGED handlerResult
    BY <1>0, <1>1, <2>1 DEF TriesInv
  <2>2. ASSUME NEW answer \in Result, handlerResult' = [handlerResult EXCEPT ![w][n] = answer],
               answer.status = "HTTP_409" => handlerAt[w][n] = "SENT" /\ Moves(w, n, "ANSWERED")
        PROVE  handlerResult'[w][n].status = "HTTP_409" => step = "ANSWERED" /\ handlerAt[w][n] = "SENT"
    <3>1. handlerResult'[w][n] = answer
      BY <2>2 DEF TypeOK
    <3>2. Moves(w, n, "ANSWERED") => step = "ANSWERED"
      <4>1. Moves(w, n, "ANSWERED") => handlerAt'[w][n] = "ANSWERED"
        BY MovesEffect
      <4> QED
        BY <1>5, <4>1
    <3> QED
      BY <2>2, <3>1, <3>2
  <2> QED
    BY <2>1, <2>2, HandlerWrites
<1>7. step \in {"CALLED", "ANSWERED"} => handlerResult'[w][n].status # "IN_PROGRESS"
  <2>1. ASSUME NEW status, NEW id, status # "IN_PROGRESS",
               handlerResult' = [handlerResult EXCEPT ![w][n] = [status |-> status, refundId |-> id]]
        PROVE  handlerResult'[w][n].status # "IN_PROGRESS"
    BY <2>1 DEF TypeOK
  <2>2. CASE step \notin {"CALLED", "ANSWERED"}
    BY <2>2
  <2>3. CASE ReadOrder(w, n) /\ AmountStillAvailable(w)
    <3>1. handlerAt'[w][n] = "ELIGIBLE"
      BY <2>3, MovesEffect DEF ReadOrder
    <3> QED
      BY <1>5, <3>1
  <2>4. CASE ReadOrder(w, n) /\ ~AmountStillAvailable(w)
    BY <2>1, <2>4 DEF ReadOrder, Answer
  <2>5. CASE RequestFails(w, n) \/ RecordFails(w, n) \/ RecordUncertain(w, n)
    BY <2>1, <2>5 DEF RequestFails, RecordFails, RecordUncertain, Answer
  <2>6. CASE Reserve(w, n) /\ row[w] = None
    <3>1. handlerAt'[w][n] = "RESERVED"
      BY <2>6, MovesEffect DEF Reserve
    <3> QED
      BY <1>5, <3>1
  <2>7. CASE Reserve(w, n) /\ row[w] # None
    <3>1. StoredAnswer(row[w]).status # "IN_PROGRESS"
      BY DEF StoredAnswer
    <3> QED
      BY <2>1, <2>7, <3>1 DEF Reserve, Answer
  <2>8. CASE ProviderAccepts(w, n)
    <3>1. CASE Moves(w, n, "GONE")
      <4>1. handlerAt'[w][n] = "GONE"
        BY <3>1, MovesEffect
      <4> QED
        BY <1>5, <4>1
    <3> QED
      BY <2>1, <2>8, <3>1 DEF ProviderAccepts
  <2>9. CASE ProviderDeclines(w, n)
    BY <2>1, <2>9 DEF ProviderDeclines
  <2>10. CASE RecordOutcome(w, n)
    BY <1>0, <2>10 DEF RecordOutcome, TriesInv
  <2> QED
    BY <2>3, <2>4, <2>5, <2>6, <2>7, <2>8, <2>9, <2>10 DEF HandlerStep
<1>8. \A v \in Journeys : v # w => row'[v] = row[v]
  BY DEF HandlerStep, ReadOrder, RequestFails, Reserve, ProviderAccepts, ProviderDeclines,
         RecordOutcome, RecordUncertain, RecordFails, TypeOK
<1>9. row[w] = None /\ row'[w] # None => step = "RESERVED"
  <2>1. CASE Reserve(w, n) /\ row[w] = None
    <3>1. handlerAt'[w][n] = "RESERVED"
      BY <2>1, MovesEffect DEF Reserve
    <3> QED
      BY <1>5, <3>1
  <2>2. CASE ~(Reserve(w, n) /\ row[w] = None)
    BY <2>2
    DEF HandlerStep, ReadOrder, RequestFails, Reserve, ProviderAccepts, ProviderDeclines,
        RecordOutcome, RecordUncertain, RecordFails, ControlInv
  <2> QED
    BY <2>1, <2>2
<1>10. \A v \in Journeys : \A m \in Attempts :
         (v = w /\ m = n) \/ handlerResult'[v][m] = handlerResult[v][m]
  <2>1. CASE UNCHANGED handlerResult
    BY <2>1
  <2>2. ASSUME NEW answer \in Result, handlerResult' = [handlerResult EXCEPT ![w][n] = answer]
        PROVE  \A v \in Journeys : \A m \in Attempts :
                 (v = w /\ m = n) \/ handlerResult'[v][m] = handlerResult[v][m]
    BY <2>2 DEF TypeOK
  <2> QED
    BY <2>1, <2>2, HandlerWrites
<1>11. step = "ELIGIBLE" => handlerAt[w][n] = "SENT"
  BY <1>4 DEF ReadOrder
<1>12. \A m \in Attempts : workflow[w].attempt = 1 /\ m = 1 =>
         \/ row'[w] = None
         \/ /\ handlerAt'[w][m] \notin {"SENT", "ELIGIBLE"}
            /\ handlerResult'[w][m].status # "HTTP_409"
  <2> SUFFICES ASSUME workflow[w].attempt = 1, 1 \in Attempts, row'[w] # None
               PROVE  /\ handlerAt'[w][1] \notin {"SENT", "ELIGIBLE"}
                      /\ handlerResult'[w][1].status # "HTTP_409"
    OBVIOUS
  <2>1. n = 1 /\ handlerAt'[w][1] = step
    BY <1>3, <1>5
  <2>2. CASE row[w] = None
    BY <1>4, <1>6, <1>9, <2>1, <2>2
  <2>3. CASE row[w] # None
    <3>1. handlerAt[w][1] # "SENT"
      BY <1>0, <2>3 DEF TriesInv
    <3> QED
      BY <1>4, <1>6, <1>11, <2>1, <3>1
  <2> QED
    BY <2>2, <2>3
<1>13. \A m \in Attempts :
         /\ m > workflow[w].attempt => handlerAt'[w][m] = "IDLE"
         /\ handlerResult'[w][m].status = "HTTP_409" => handlerAt'[w][m] = "ANSWERED"
         /\ handlerAt'[w][m] \in {"CALLED", "ANSWERED"} => handlerResult'[w][m].status # "IN_PROGRESS"
  <2> SUFFICES ASSUME NEW m \in Attempts
               PROVE  /\ m > workflow[w].attempt => handlerAt'[w][m] = "IDLE"
                      /\ handlerResult'[w][m].status = "HTTP_409" => handlerAt'[w][m] = "ANSWERED"
                      /\ handlerAt'[w][m] \in {"CALLED", "ANSWERED"} =>
                           handlerResult'[w][m].status # "IN_PROGRESS"
    OBVIOUS
  <2>1. CASE m = n
    BY <1>3, <1>5, <1>6, <1>7, <2>1
  <2>2. CASE m # n
    BY <1>0, <1>5, <1>10, <2>2 DEF TriesInv
  <2> QED
    BY <2>1, <2>2
<1>14. \A v \in Journeys : v # w =>
         /\ row'[v] = row[v] /\ workflow'[v] = workflow[v]
         /\ \A m \in Attempts :
              handlerAt'[v][m] = handlerAt[v][m] /\ handlerResult'[v][m] = handlerResult[v][m]
  BY <1>2, <1>5, <1>8, <1>10
<1> QED
  BY <1>0, <1>2, <1>3, <1>12, <1>13, <1>14 DEF TriesInv

\* and everything else leaves the attempts alone.
LEMMA TriesInvStep ==
  ASSUME IInv, TruthInv, Next
  PROVE  TriesInv'
<1> USE DEF IInv
<1>0. TriesInv
  BY DEF TruthInv
<1>1. ASSUME NEW w \in Journeys, LookupStep(w)
      PROVE  TriesInv'
  <2>1. workflow[w] \in Workflow
    BY DEF TypeOK
  <2>2. ASSUME NEW status, NEW id
        PROVE  LET new == AfterReconciliation(workflow[w], status, id)
               IN  /\ new.attempt = workflow[w].attempt
                   /\ new.stage \in {workflow[w].stage, "REFUND_SUCCEEDED", "REFUND_FAILED"}
    BY <2>1 DEF AfterReconciliation, Workflow
  <2>3. /\ workflow'[w].attempt = workflow[w].attempt
        /\ workflow'[w].stage = "AUTHORIZED" => workflow[w].stage = "AUTHORIZED"
    <3>1. \/ workflow'[w] = workflow[w]
          \/ \E status, id : workflow'[w] = AfterReconciliation(workflow[w], status, id)
      <4>1. CASE FindRefund(w)
        BY <4>1 DEF FindRefund, workerVars
      <4>2. CASE FinishLookup(w)
        BY <4>2 DEF FinishLookup, TypeOK
      <4>3. CASE LookupUnheard(w)
        BY <4>3 DEF LookupUnheard, TypeOK
      <4> QED
        BY <1>1, <4>1, <4>2, <4>3 DEF LookupStep
    <3> QED
      BY <2>2, <3>1
  <2>4. \A v \in Journeys : v # w => workflow'[v] = workflow[v]
    BY <1>1 DEF LookupStep, FindRefund, FinishLookup, LookupUnheard, TypeOK, workerVars
  <2>5. UNCHANGED <<handlerAt, handlerResult>>
    BY <1>1 DEF LookupStep, FindRefund, FinishLookup, LookupUnheard
  <2>6. \A v \in Journeys : row[v] = None <=> row'[v] = None
    BY <1>1, LookupRows
  <2> QED
    BY <1>0, <2>3, <2>4, <2>5, <2>6, TriesKept
<1>2. ASSUME NEW i \in RefundIds, EventStep(i)
      PROVE  TriesInv'
  <2>1. \A v \in Journeys :
          workflow'[v].attempt = workflow[v].attempt /\ workflow'[v].stage = workflow[v].stage
    <3>1. CASE UNCHANGED workflow
      BY <3>1
    <3>2. CASE workflow' # workflow
      <4>1. PICK w : w = event[i].journey
        OBVIOUS
      <4>2. w \in Journeys /\ workflow' = [workflow EXCEPT ![w] = AcceptOutcome(workflow[w], i)]
        BY <1>2, <3>2, <4>1
        DEF EventStep, ProviderFinishes, ReceiveProviderEvent, SignalOutcome, MarkDelivered,
            TypeOK, Event, workerVars
      <4>3. /\ AcceptOutcome(workflow[w], i).stage = workflow[w].stage
            /\ AcceptOutcome(workflow[w], i).attempt = workflow[w].attempt
        BY <4>2 DEF AcceptOutcome, TypeOK, Workflow
      <4> QED
        BY <4>2, <4>3 DEF TypeOK
    <3> QED
      BY <3>1, <3>2
  <2>2. UNCHANGED <<handlerAt, handlerResult>>
    BY <1>2
    DEF EventStep, ProviderFinishes, ReceiveProviderEvent, SignalOutcome, MarkDelivered, gatewayVars
  <2>3. \A v \in Journeys : row[v] = None <=> row'[v] = None
    BY <1>2, EventRows
  <2> QED
    BY <1>0, <2>1, <2>2, <2>3, TriesKept
<1>3. CASE GatewayRestart
  <2>1. UNCHANGED <<workflow, row, handlerResult>>
    BY <1>3 DEF GatewayRestart, workerVars
  <2>2. \A v \in Journeys : \A m \in Attempts :
          \/ handlerAt'[v][m] = handlerAt[v][m]
          \/ handlerAt[v][m] \notin {"IDLE", "ANSWERED"} /\ handlerAt'[v][m] \in {"GONE", "ORPHANED"}
    BY <1>3 DEF GatewayRestart, Killed
  <2> QED
    BY <1>0, <2>1, <2>2 DEF TriesInv
<1> QED
  BY <1>0, <1>1, <1>2, <1>3, WorkerTries, HandlerTries DEF Next

\* The invariant holds initially: nothing is claimed.
LEMMA TruthInit == Init => TruthInv
<1> SUFFICES ASSUME Init PROVE TruthInv
  OBVIOUS
<1>1. OwnerInv /\ NoticeInv /\ LookupInv /\ RowInv
  BY DEF Init, OwnerInv, Exists, NoticeInv, LookupInv, RowInv
<1>2. TriesInv
  BY MaxAttemptsAssumption DEF Init, TriesInv, Attempts
<1>3. ResultInv /\ WorkflowInv
  BY DEF Init, ResultInv, Truthful, WorkflowInv, Reports
<1> QED
  BY <1>1, <1>2, <1>3 DEF TruthInv

\* Every step keeps it.
LEMMA TruthStep ==
  ASSUME Distinguishable, IInv, TruthInv, Next
  PROVE  TruthInv'
<1>1. OwnerInv'
  BY BooksStay DEF IInv, TruthInv
<1> QED
  BY <1>1, TriesInvStep, RowInvStep, ResultInvStep, LookupInvStep, NoticeInvStep, WorkflowInvStep
  DEF TruthInv

\* In every reachable state all that is stored, signalled and reported about a
\* journey is true of it, if reconciliation can tell the journeys apart.
THEOREM TruthInvariant ==
  ASSUME Distinguishable
  PROVE  Spec => [](IInv /\ TruthInv)
<1>1. Init => TruthInv
  BY TruthInit
<1>2. IInv /\ TruthInv /\ [Next]_vars => TruthInv'
  <2> SUFFICES ASSUME IInv, TruthInv, [Next]_vars PROVE TruthInv'
    OBVIOUS
  <2>1. CASE Next
    BY <2>1, TruthStep
  <2>2. CASE UNCHANGED vars
    <3> USE <2>2 DEF vars, providerVars, gatewayVars, workerVars
    <3>1. OwnerInv' /\ TriesInv' /\ NoticeInv'
      BY DEF TruthInv, OwnerInv, Exists, TriesInv, NoticeInv, Informs, Ended
    <3>2. \A w \in Journeys : (Settled(w) <=> Settled(w)') /\ (Unpayable(w) <=> Unpayable(w)')
      BY DEF Settled, Unpayable, Outstanding
    <3>3. RowInv' /\ ResultInv' /\ LookupInv'
      BY <3>2 DEF TruthInv, RowInv, ResultInv, LookupInv, Truthful
    <3>4. WorkflowInv'
      BY <3>2 DEF TruthInv, WorkflowInv, Reports, Refused
    <3> QED
      BY <3>1, <3>3, <3>4 DEF TruthInv
  <2> QED
    BY <2>1, <2>2
<1> QED
  BY <1>1, <1>2, InductiveInvariant, PTL DEF Spec

\* A journey reports success only when the refund it created is settled.
THEOREM SuccessIsSettledHolds ==
  ASSUME Distinguishable
  PROVE  Spec => []SuccessIsSettled
<1>1. IInv /\ TruthInv => SuccessIsSettled
  BY DEF TruthInv, WorkflowInv, Reports, Settled, SuccessIsSettled
<1> QED
  BY <1>1, TruthInvariant, PTL

\* A journey that reports failure has no refund that was or may yet be paid,
\* unless the eligibility check refused a repeated request.
THEOREM UnpaidUnlessRetryRefusedHolds ==
  ASSUME Distinguishable
  PROVE  Spec => []UnpaidUnlessRetryRefused
<1>1. IInv /\ TruthInv => UnpaidUnlessRetryRefused
  <2> SUFFICES ASSUME IInv, TruthInv, NEW w \in Journeys, workflow[w].stage = "REFUND_FAILED",
                      ~RetryRefused(w), NEW i \in RefundIds, refundOwner[i] = w
               PROVE  refundState[i] \in {"ABSENT", "FAILED"}
    BY DEF UnpaidUnlessRetryRefused
  <2>1. Unpayable(w) \/ Refused(w, workflow[w])
    BY DEF TruthInv, WorkflowInv, Reports
  <2>2. CASE Unpayable(w)
    BY <2>2 DEF Unpayable
  <2>3. CASE Refused(w, workflow[w])
    <3>1. workflow[w].attempt \in Attempts /\ workflow[w].attempt = 1
      BY <2>3, MaxAttemptsAssumption DEF Refused, RetryRefused, Attempts
    <3>2. row[w] = None
      BY <2>3, <3>1 DEF Refused, TruthInv, TriesInv
    <3>3. ~Exists(i)
      BY <3>2 DEF IInv, ReservationInv, Owns
    <3> QED
      BY <3>3 DEF Exists
  <2> QED
    BY <2>1, <2>2, <2>3
<1> QED
  BY <1>1, TruthInvariant, PTL

\* The ledger's terminal statuses agree with the provider's books.
THEOREM LedgerMatchesProviderHolds ==
  ASSUME Distinguishable
  PROVE  Spec => []LedgerMatchesProvider
<1>1. IInv /\ TruthInv => LedgerMatchesProvider
  BY DEF TruthInv, RowInv, Truthful, Settled, Unpayable, LedgerMatchesProvider
<1> QED
  BY <1>1, TruthInvariant, PTL

\* Provider events, and the signals they cause, reach the owner of the refund.
THEOREM EventsReachOwnerHolds ==
  ASSUME Distinguishable
  PROVE  Spec => []EventsReachOwner
<1>1. IInv /\ TruthInv => EventsReachOwner
  BY DEF TruthInv, NoticeInv, Informs, EventsReachOwner
<1> QED
  BY <1>1, TruthInvariant, PTL

\* The ledger never turns a completed refund into a failed one or back: a paid
\* journey stays paid and an unpayable one unpaid, and the row tells the truth.
THEOREM NoOutcomeReversalHolds ==
  ASSUME Distinguishable
  PROVE  Spec => NoOutcomeReversal
<1> DEFINE NoReversal(w) ==
      row[w] # None /\ row'[w] # None =>
        /\ row[w].status = "SUCCEEDED" => row'[w].status # "FAILED"
        /\ row[w].status = "FAILED" => row'[w].status # "SUCCEEDED"
<1>1. IInv /\ TruthInv /\ TruthInv' /\ [Next]_vars => [\A w \in Journeys : NoReversal(w)]_vars
  <2> SUFFICES ASSUME IInv, TruthInv, TruthInv', Next, NEW w \in Journeys
               PROVE  NoReversal(w)
    OBVIOUS
  <2>1. ~(Settled(w)' /\ Unpayable(w)')
    BY DEF Settled, Unpayable
  <2>2. (Settled(w) => Settled(w)') /\ (Unpayable(w) => Unpayable(w)')
    BY SettledStays, UnpayableStays DEF IInv, TruthInv
  <2>3. row[w] # None =>
          /\ row[w].status = "SUCCEEDED" => Settled(w)
          /\ row[w].status = "FAILED" => Unpayable(w)
    BY DEF TruthInv, RowInv, Truthful
  <2>4. row'[w] # None =>
          /\ row'[w].status = "SUCCEEDED" => Settled(w)'
          /\ row'[w].status = "FAILED" => Unpayable(w)'
    BY DEF TruthInv, RowInv, Truthful
  <2> QED
    BY <2>1, <2>2, <2>3, <2>4
<1> QED
  BY <1>1, TruthInvariant, PTL DEF Spec, NoOutcomeReversal
=============================================================================

-------------------------- MODULE RefundExecution --------------------------
(***************************************************************************)
(* The money path of the refund journey: the worker's executeAuthorized-   *)
(* Refund with its activity retries, the Integration Gateway's execution,  *)
(* reconciliation and provider-event routes over the refund.executions and *)
(* refund.provider_events tables, the dispatcher that signals Temporal,    *)
(* and the commerce provider.                                              *)
(*                                                                         *)
(* All journeys here are about ONE order with one settled payment, which   *)
(* is where they can disturb each other.  A journey executes under one     *)
(* idempotency key (refund:<workflowId>:<previewId>), so the journey names *)
(* the ledger row.  Every HTTP handler is split at its awaits, and a       *)
(* handler outlives the client that gave up on it.                         *)
(***************************************************************************)
EXTENDS Integers, FiniteSetsExt

CONSTANTS
  Journeys,      \* refund workflows about the order
  RefundIds,     \* identifiers the provider can give to a refund
  None,          \* an absent identifier, row or observation
  Amount,        \* the confirmed preview's amount, per journey
  Paid,          \* the amount of the order's settled payment
  MaxAttempts    \* attempts of one activity (retry.maximumAttempts, 3)

ASSUME AmountAssumption == Amount \in [Journeys -> Nat \ {0}]
ASSUME PaidAssumption == Paid \in Nat
ASSUME MaxAttemptsAssumption == MaxAttempts \in Nat \ {0}

VARIABLES
  refundState,   \* provider: state of each refund, "ABSENT" before it exists
  refundOwner,   \* provider: the journey whose call created it (the provider
                 \*   is never told; only the properties look at this)
  row,           \* gateway: refund.executions, one row per idempotency key
  event,         \* gateway: refund.provider_events, one per provider refund
  signalled,     \* gateway: events signalled to Temporal, not yet marked
  handlerAt,     \* gateway: where the handler of each attempt is
  handlerResult, \* gateway: the answer a handler holds or has sent
  lookup,        \* gateway: the reconciliation handler of each journey
  workflow,      \* worker: the durable state of each journey
  buffered       \* Temporal: provider-outcome signals with no handler yet

gatewayVars == <<row, event, signalled, handlerAt, handlerResult, lookup>>
providerVars == <<refundState, refundOwner>>
workerVars == <<workflow, buffered>>
vars == <<providerVars, gatewayVars, workerVars>>

----------------------------------------------------------------------------
(* Types.                                                                  *)

Attempts == 1..MaxAttempts
MaybeRefundId == RefundIds \cup {None}
RefundStates == {"ABSENT", "PENDING", "SETTLED", "FAILED"}
ExecutionStatus ==
  {"IN_PROGRESS", "SUBMITTED", "SUCCEEDED", "FAILED", "PENDING_RECONCILIATION"}

\* What a handler answers; the two HTTP_ values are error responses.
Answers == ExecutionStatus \cup {"HTTP_409", "HTTP_500"}
Result == [status : Answers, refundId : MaybeRefundId]
Row == [status : ExecutionStatus, refundId : MaybeRefundId]
Event == [journey : Journeys, delivery : {"PENDING", "DELIVERED"}]
Lookup == [refundId : RefundIds, seen : RefundStates, awaited : BOOLEAN]

\* The absent value is none of the present ones.
ASSUME NoneAssumption ==
  None \notin RefundIds /\ None \notin Journeys /\ None \notin Row /\ None \notin Event

HandlerSteps ==
  {"IDLE",      \* no request of this attempt yet
   "SENT",      \* request on its way or being validated
   "ELIGIBLE",  \* order read, refund still eligible, row not yet reserved
   "RESERVED",  \* row inserted by this handler, provider call outstanding
   "CALLED",    \* provider answered this handler, outcome not recorded
   "ANSWERED",  \* response sent
   "ORPHANED",  \* process died during the provider call: the call may land
   "GONE"}      \* process died

Stages ==
  {"AUTHORIZED",  \* entry of executeAuthorizedRefund
   "EXECUTING",   \* the executeRefund activity is running
   "REFUND_PROCESSING", "PENDING_RECONCILIATION",
   "REFUND_SUCCEEDED", "REFUND_FAILED", "PREVIEW_INVALIDATED",
   "WORKFLOW_FAILED"}  \* an activity threw on its last attempt

Workflow ==
  [stage : Stages, attempt : 0..MaxAttempts, refundId : MaybeRefundId,
   outcome : {"NONE", "COMPLETED", "FAILED"}]

TypeOK ==
  /\ refundState \in [RefundIds -> RefundStates]
  /\ refundOwner \in [RefundIds -> Journeys \cup {None}]
  /\ row \in [Journeys -> Row \cup {None}]
  /\ event \in [RefundIds -> Event \cup {None}]
  /\ signalled \in SUBSET RefundIds
  /\ handlerAt \in [Journeys -> [Attempts -> HandlerSteps]]
  /\ handlerResult \in [Journeys -> [Attempts -> Result]]
  /\ lookup \in [Journeys -> Lookup \cup {None}]
  /\ workflow \in [Journeys -> Workflow]
  /\ buffered \in [Journeys -> SUBSET RefundIds]

----------------------------------------------------------------------------
(* The order as the provider reports it.                                   *)

Exists(i) == refundState[i] # "ABSENT"

\* refundConsumesBalance: a failed or cancelled refund gives the money back.
ConsumesBalance(i) == refundState[i] \in {"PENDING", "SETTLED"}

ConsumedAmount ==
  MapThenSumSet(LAMBDA i : Amount[refundOwner[i]], {i \in RefundIds : ConsumesBalance(i)})

\* toRefundContext for a full-order selection of the single settled payment.
RefundableAmount == IF ConsumedAmount < Paid THEN Paid - ConsumedAmount ELSE 0

\* transactionRefundable, itemSelectionValid and the amount comparison.
AmountStillAvailable(w) == RefundableAmount > 0 /\ Amount[w] <= RefundableAmount

\* Mutation: reconciliation takes any refund of the order.
AnyRefundOfOrder(w) == {i \in RefundIds : Exists(i)}

\* Refunds that reconciliation cannot tell from the journey's own: it selects
\* a refund of the order by amount and currency alone, in the provider's order.
MatchingRefunds(w) ==
  {i \in RefundIds : Exists(i) /\ Amount[refundOwner[i]] = Amount[w]}

----------------------------------------------------------------------------
(* Worker: what an answer does to the journey.                             *)

\* Mutation: a 5xx response is taken for a refusal.
ServerErrorIsRefusal(status) ==
  IF status \in {"HTTP_409", "HTTP_500"} THEN "FAILED" ELSE status

\* Status mapping of the gateway client: 5xx is uncertain, other errors final.
ClientStatus(status) ==
  CASE status = "HTTP_500" -> "PENDING_RECONCILIATION"
    [] status = "HTTP_409" -> "FAILED"
    [] OTHER -> status

\* A provider-outcome signal reaching the handler of awaitProviderRefundOutcome:
\* the first one about the refund the workflow knows is kept.
AcceptOutcome(wf, i) ==
  IF wf.outcome = "NONE" /\ wf.refundId = i
    THEN [wf EXCEPT !.outcome = IF refundState[i] = "SETTLED" THEN "COMPLETED" ELSE "FAILED"]
    ELSE wf

\* Setting the handler hands it every buffered signal.
HandlerSet(wf, signals) ==
  IF wf.refundId \in signals THEN AcceptOutcome(wf, wf.refundId) ELSE wf

\* executeAuthorizedRefund after executeRefund returned.
AfterExecution(w, result) ==
  LET wf == workflow[w]
      status == ClientStatus(result.status)
  IN CASE status = "SUCCEEDED" ->
            [wf EXCEPT !.stage = "REFUND_SUCCEEDED", !.refundId = result.refundId]
       [] status = "SUBMITTED" ->
            HandlerSet([wf EXCEPT !.stage = "REFUND_PROCESSING",
                                  !.refundId = result.refundId], buffered[w])
       [] status = "PENDING_RECONCILIATION" ->
            [wf EXCEPT !.stage = "PENDING_RECONCILIATION"]
       [] OTHER -> [wf EXCEPT !.stage = "REFUND_FAILED"]

\* One turn of awaitProviderRefundOutcome (REFUND_PROCESSING) or of
\* reconcilePendingRefund (PENDING_RECONCILIATION) after reconcileRefund
\* returned status and refund id.
AfterReconciliation(wf, status, id) ==
  LET processing == wf.stage = "REFUND_PROCESSING"
      known == IF processing /\ wf.refundId # None THEN wf.refundId ELSE id
      settled == status = "SUCCEEDED" \/ (processing /\ wf.outcome = "COMPLETED")
      failed == status = "FAILED" \/ (processing /\ wf.outcome = "FAILED")
  IN CASE settled -> [wf EXCEPT !.stage = "REFUND_SUCCEEDED", !.refundId = known]
       [] ~settled /\ failed -> [wf EXCEPT !.stage = "REFUND_FAILED", !.refundId = known]
       [] OTHER -> IF processing THEN [wf EXCEPT !.refundId = known] ELSE wf

Reconciling(w) == workflow[w].stage \in {"REFUND_PROCESSING", "PENDING_RECONCILIATION"}

\* Temporal refuses a signal to a workflow that has returned or failed.
Open(w) ==
  workflow[w].stage \in {"AUTHORIZED", "EXECUTING", "REFUND_PROCESSING", "PENDING_RECONCILIATION"}

\* The handler of attempt n advances.
Moves(w, n, step) == handlerAt' = [handlerAt EXCEPT ![w][n] = step]

----------------------------------------------------------------------------
(* Initially the journey is authorised and nothing was sent.               *)

Init ==
  /\ refundState = [i \in RefundIds |-> "ABSENT"]
  /\ refundOwner = [i \in RefundIds |-> None]
  /\ row = [w \in Journeys |-> None]
  /\ event = [i \in RefundIds |-> None]
  /\ signalled = {}
  /\ handlerAt = [w \in Journeys |-> [n \in Attempts |-> "IDLE"]]
  /\ handlerResult =
       [w \in Journeys |-> [n \in Attempts |-> [status |-> "IN_PROGRESS", refundId |-> None]]]
  /\ lookup = [w \in Journeys |-> None]
  /\ workflow =
       [w \in Journeys |-> [stage |-> "AUTHORIZED", attempt |-> 0, refundId |-> None,
                            outcome |-> "NONE"]]
  /\ buffered = [w \in Journeys |-> {}]

----------------------------------------------------------------------------
(* Worker.                                                                 *)

\* The first attempt of executeRefund, after the facts were refreshed once
\* more; a shrunken balance invalidates the preview instead.
StartExecution(w) ==
  /\ workflow[w].stage = "AUTHORIZED"
  /\ IF AmountStillAvailable(w)
       THEN /\ workflow' = [workflow EXCEPT ![w].stage = "EXECUTING", ![w].attempt = 1]
            /\ Moves(w, 1, "SENT")
       ELSE /\ workflow' = [workflow EXCEPT ![w].stage = "PREVIEW_INVALIDATED"]
            /\ UNCHANGED handlerAt
  /\ UNCHANGED <<providerVars, row, event, signalled, handlerResult, lookup, buffered>>

\* Mutation: the retry bound is off by one.
OneAttemptTooMany(w) ==
  /\ workflow[w].stage = "EXECUTING"
  /\ IF workflow[w].attempt <= MaxAttempts
       THEN workflow' = [workflow EXCEPT ![w].attempt = @ + 1]
       ELSE workflow' = [workflow EXCEPT ![w].stage = "WORKFLOW_FAILED"]
  /\ UNCHANGED <<providerVars, gatewayVars, buffered>>

\* The running attempt is lost with its worker or exceeds startToCloseTimeout:
\* Temporal schedules the next one, or fails the workflow after the last.  The
\* request of the lost attempt lives on in the gateway.
AttemptLost(w) ==
  /\ workflow[w].stage = "EXECUTING"
  /\ IF workflow[w].attempt < MaxAttempts
       THEN /\ workflow' = [workflow EXCEPT ![w].attempt = @ + 1]
            /\ Moves(w, workflow[w].attempt + 1, "SENT")
       ELSE /\ workflow' = [workflow EXCEPT ![w].stage = "WORKFLOW_FAILED"]
            /\ UNCHANGED handlerAt
  /\ UNCHANGED <<providerVars, row, event, signalled, handlerResult, lookup, buffered>>

\* The response of the running attempt arrives.
ReceiveAnswer(w) ==
  LET n == workflow[w].attempt IN
  /\ workflow[w].stage = "EXECUTING"
  /\ handlerAt[w][n] = "ANSWERED"
  /\ workflow' = [workflow EXCEPT ![w] = AfterExecution(w, handlerResult[w][n])]
  /\ UNCHANGED <<providerVars, gatewayVars, buffered>>

\* The client's five-second timeout or a broken connection: the outcome is
\* uncertain whatever the handler is doing.
ClientGivesUp(w) ==
  /\ workflow[w].stage = "EXECUTING"
  /\ workflow' = [workflow EXCEPT ![w].stage = "PENDING_RECONCILIATION"]
  /\ UNCHANGED <<providerVars, gatewayVars, buffered>>

\* A fact-refresh or reconcile activity lost on its last attempt.
ActivityExhausted(w) ==
  /\ workflow[w].stage = "AUTHORIZED" \/ Reconciling(w)
  /\ workflow' = [workflow EXCEPT ![w].stage = "WORKFLOW_FAILED"]
  /\ UNCHANGED <<providerVars, gatewayVars, buffered>>

----------------------------------------------------------------------------
(* Gateway: POST /internal/v1/refunds.                                     *)

Answer(w, n, status, id) ==
  /\ Moves(w, n, "ANSWERED")
  /\ handlerResult' = [handlerResult EXCEPT ![w][n] = [status |-> status, refundId |-> id]]

\* getOrderById and the eligibility check, before the idempotency key is used.
ReadOrder(w, n) ==
  /\ handlerAt[w][n] = "SENT"
  /\ IF AmountStillAvailable(w)
       THEN /\ Moves(w, n, "ELIGIBLE")
            /\ UNCHANGED handlerResult
       ELSE Answer(w, n, "HTTP_409", None)
  /\ UNCHANGED <<providerVars, workerVars, row, event, signalled, lookup>>

\* The order read or the reservation throws: Fastify answers 500.
RequestFails(w, n) ==
  /\ handlerAt[w][n] \in {"SENT", "ELIGIBLE"}
  /\ Answer(w, n, "HTTP_500", None)
  /\ UNCHANGED <<providerVars, workerVars, row, event, signalled, lookup>>

\* The answer for a key that is already reserved.
StoredAnswer(r) ==
  CASE r.status \in {"SUCCEEDED", "SUBMITTED"} -> [status |-> r.status, refundId |-> r.refundId]
    [] r.status = "FAILED" -> [status |-> "FAILED", refundId |-> None]
    [] OTHER -> [status |-> "PENDING_RECONCILIATION", refundId |-> None]

\* Mutation: a row that is still IN_PROGRESS is reserved again, as if the
\* handler that inserted it were known to be dead.
ReserveAgain(w, n) ==
  /\ handlerAt[w][n] = "ELIGIBLE"
  /\ IF row[w] = None \/ row[w].status = "IN_PROGRESS"
       THEN /\ row' = [row EXCEPT ![w] = [status |-> "IN_PROGRESS", refundId |-> None]]
            /\ Moves(w, n, "RESERVED")
            /\ UNCHANGED handlerResult
       ELSE /\ Answer(w, n, StoredAnswer(row[w]).status, StoredAnswer(row[w]).refundId)
            /\ UNCHANGED row
  /\ UNCHANGED <<providerVars, workerVars, event, signalled, lookup>>

\* repository.reserve: INSERT ... ON CONFLICT DO NOTHING, else the stored row.
Reserve(w, n) ==
  /\ handlerAt[w][n] = "ELIGIBLE"
  /\ IF row[w] = None
       THEN /\ row' = [row EXCEPT ![w] = [status |-> "IN_PROGRESS", refundId |-> None]]
            /\ Moves(w, n, "RESERVED")
            /\ UNCHANGED handlerResult
       ELSE /\ Answer(w, n, StoredAnswer(row[w]).status, StoredAnswer(row[w]).refundId)
            /\ UNCHANGED row
  /\ UNCHANGED <<providerVars, workerVars, event, signalled, lookup>>

\* The provider accepts the call and creates a refund.  The handler learns the
\* id, only the acceptance, or nothing (the response is lost or unreadable).
ProviderAccepts(w, n) ==
  /\ handlerAt[w][n] \in {"RESERVED", "ORPHANED"}
  /\ \E i \in RefundIds :
       /\ refundState[i] = "ABSENT"
       /\ refundState' = [refundState EXCEPT ![i] = "PENDING"]
       /\ refundOwner' = [refundOwner EXCEPT ![i] = w]
       /\ IF handlerAt[w][n] = "ORPHANED"
            THEN /\ Moves(w, n, "GONE")
                 /\ UNCHANGED handlerResult
            ELSE /\ Moves(w, n, "CALLED")
                 /\ \E answer \in {[status |-> "SUBMITTED", refundId |-> i],
                                   [status |-> "SUBMITTED", refundId |-> None],
                                   [status |-> "PENDING_RECONCILIATION", refundId |-> None]} :
                      handlerResult' = [handlerResult EXCEPT ![w][n] = answer]
  /\ UNCHANGED <<workerVars, row, event, signalled, lookup>>

\* The provider refuses, or the call throws before it took effect.
ProviderDeclines(w, n) ==
  /\ handlerAt[w][n] = "RESERVED"
  /\ Moves(w, n, "CALLED")
  /\ \E status \in {"FAILED", "PENDING_RECONCILIATION"} :
       handlerResult' = [handlerResult EXCEPT ![w][n] = [status |-> status, refundId |-> None]]
  /\ UNCHANGED <<providerVars, workerVars, row, event, signalled, lookup>>

\* repository.recordOutcome: an unconditional UPDATE that keeps a known id.
Recorded(r, status, id) ==
  [status |-> status, refundId |-> IF id = None THEN r.refundId ELSE id]

RecordOutcome(w, n) ==
  LET result == handlerResult[w][n] IN
  /\ handlerAt[w][n] = "CALLED"
  /\ row' = [row EXCEPT ![w] = Recorded(@, result.status, result.refundId)]
  /\ Moves(w, n, "ANSWERED")
  /\ UNCHANGED <<providerVars, workerVars, event, signalled, handlerResult, lookup>>

\* Mutation: the catch block records a failure instead of uncertainty.
RecordAsFailed(w, n) ==
  /\ handlerAt[w][n] = "CALLED"
  /\ row' = [row EXCEPT ![w] = Recorded(@, "FAILED", None)]
  /\ Answer(w, n, "PENDING_RECONCILIATION", None)
  /\ UNCHANGED <<providerVars, workerVars, event, signalled, lookup>>

\* The first recordOutcome throws, and the catch block records uncertainty.
RecordUncertain(w, n) ==
  /\ handlerAt[w][n] = "CALLED"
  /\ row' = [row EXCEPT ![w] = Recorded(@, "PENDING_RECONCILIATION", None)]
  /\ Answer(w, n, "PENDING_RECONCILIATION", None)
  /\ UNCHANGED <<providerVars, workerVars, event, signalled, lookup>>

\* The catch block throws too: 500, and the row keeps its status.
RecordFails(w, n) ==
  /\ handlerAt[w][n] = "CALLED"
  /\ Answer(w, n, "HTTP_500", None)
  /\ UNCHANGED <<providerVars, workerVars, row, event, signalled, lookup>>

\* The gateway process dies: handlers, lookups and the dispatcher's memory go.
Killed(step) ==
  CASE step = "RESERVED" -> "ORPHANED"
    [] step \in {"SENT", "ELIGIBLE", "CALLED"} -> "GONE"
    [] OTHER -> step

GatewayRestart ==
  /\ handlerAt' = [w \in Journeys |-> [n \in Attempts |-> Killed(handlerAt[w][n])]]
  /\ lookup' = [w \in Journeys |-> None]
  /\ signalled' = {}
  /\ UNCHANGED <<providerVars, workerVars, row, event, handlerResult>>

----------------------------------------------------------------------------
(* Gateway: POST /internal/v1/refund-reconciliations.                      *)

\* Mutation: only a journey whose provider refund id is stored is looked up.
FindKnownRefund(w) ==
  /\ Reconciling(w)
  /\ lookup[w] = None
  /\ row[w] # None
  /\ \E i \in MatchingRefunds(w) :
       /\ row[w].refundId = i
       /\ lookup' = [lookup EXCEPT ![w] = [refundId |-> i, seen |-> refundState[i], awaited |-> TRUE]]
  /\ UNCHANGED <<providerVars, workerVars, row, event, signalled, handlerAt, handlerResult>>

\* The order is read and a refund of the same amount is found; with none the
\* answer is NOT_FOUND, which changes nothing (see LookupUnheard).
FindRefund(w) ==
  /\ Reconciling(w)
  /\ lookup[w] = None
  /\ \E i \in MatchingRefunds(w) :
       lookup' = [lookup EXCEPT ![w] = [refundId |-> i, seen |-> refundState[i], awaited |-> TRUE]]
  /\ UNCHANGED <<providerVars, workerVars, row, event, signalled, handlerAt, handlerResult>>

\* Mutation: whatever has not failed has succeeded.
UnfailedIsSettled(seen) == IF seen = "FAILED" THEN "FAILED" ELSE "SUCCEEDED"

LookupStatus(seen) ==
  CASE seen = "SETTLED" -> "SUCCEEDED"
    [] seen = "FAILED" -> "FAILED"
    [] OTHER -> "PROCESSING"

\* A terminal refund is written to the journey's row, if it has one whose
\* status differs; then the answer reaches the worker if it still waits.
FinishLookup(w) ==
  LET found == lookup[w]
      status == LookupStatus(found.seen)
  IN /\ found # None
     /\ row' = IF status # "PROCESSING" /\ row[w] # None /\ row[w].status # status
                 THEN [row EXCEPT ![w] = Recorded(@, status, found.refundId)]
                 ELSE row
     /\ workflow' = IF found.awaited /\ Reconciling(w)
                      THEN [workflow EXCEPT ![w] = AfterReconciliation(@, status, found.refundId)]
                      ELSE workflow
     /\ lookup' = [lookup EXCEPT ![w] = None]
     /\ UNCHANGED <<providerVars, event, signalled, handlerAt, handlerResult, buffered>>

\* reconcileRefund returns NOT_FOUND: no matching refund, an error response, or
\* no response in time, in which case the handler goes on unheard.
LookupUnheard(w) ==
  /\ Reconciling(w)
  /\ lookup[w] # None => lookup[w].awaited
  /\ workflow' = [workflow EXCEPT ![w] = AfterReconciliation(@, "NOT_FOUND", None)]
  /\ lookup' = IF lookup[w] = None THEN lookup ELSE [lookup EXCEPT ![w].awaited = FALSE]
  /\ UNCHANGED <<providerVars, row, event, signalled, handlerAt, handlerResult, buffered>>

----------------------------------------------------------------------------
(* Provider outcomes: settlement, the signed event, delivery to Temporal.  *)

ProviderFinishes(i) ==
  /\ refundState[i] = "PENDING"
  /\ \E s \in {"SETTLED", "FAILED"} : refundState' = [refundState EXCEPT ![i] = s]
  /\ UNCHANGED <<refundOwner, gatewayVars, workerVars>>

RowsOf(i) == {w \in Journeys : row[w] # None /\ row[w].refundId = i}

TerminalRow(r) == r.status \in {"SUCCEEDED", "FAILED"}

\* Mutation: the event is given to the first row of its order.
ReceiveForOrder(i) ==
  /\ refundState[i] \in {"SETTLED", "FAILED"}
  /\ event[i] = None
  /\ \E w \in Journeys :
       /\ row[w] # None
       /\ event' = [event EXCEPT ![i] = [journey |-> w, delivery |-> "PENDING"]]
       /\ row' = [row EXCEPT ![w].status =
                    IF refundState[i] = "SETTLED" THEN "SUCCEEDED" ELSE "FAILED"]
  /\ UNCHANGED <<providerVars, workerVars, signalled, handlerAt, handlerResult, lookup>>

\* recordProviderRefundEvent, one transaction.  A known event id (DUPLICATE)
\* and a refund on no or several rows (UNKNOWN_REFUND) change nothing.
ReceiveProviderEvent(i) ==
  /\ refundState[i] \in {"SETTLED", "FAILED"}
  /\ event[i] = None
  /\ \E w \in RowsOf(i) :
       /\ RowsOf(i) = {w}
       /\ event' = [event EXCEPT ![i] =
            [journey |-> w, delivery |-> IF TerminalRow(row[w]) THEN "DELIVERED" ELSE "PENDING"]]
       /\ row' = IF TerminalRow(row[w]) THEN row
                 ELSE [row EXCEPT ![w].status =
                         IF refundState[i] = "SETTLED" THEN "SUCCEEDED" ELSE "FAILED"]
  /\ UNCHANGED <<providerVars, workerVars, signalled, handlerAt, handlerResult, lookup>>

\* dispatchPendingProviderEvents signals the workflow.  A closed workflow makes
\* the signal throw and the event stays PENDING.
SignalOutcome(i) ==
  /\ event[i] # None
  /\ event[i].delivery = "PENDING"
  /\ i \notin signalled
  /\ LET w == event[i].journey IN
       /\ Open(w)
       /\ IF workflow[w].stage = "REFUND_PROCESSING"
            THEN /\ workflow' = [workflow EXCEPT ![w] = AcceptOutcome(@, i)]
                 /\ UNCHANGED buffered
            ELSE /\ buffered' = [buffered EXCEPT ![w] = @ \cup {i}]
                 /\ UNCHANGED workflow
  /\ signalled' = signalled \cup {i}
  /\ UNCHANGED <<providerVars, row, event, handlerAt, handlerResult, lookup>>

\* markProviderRefundEventDelivered; a crash before it repeats the signal.
MarkDelivered(i) ==
  /\ i \in signalled
  /\ event' = [event EXCEPT ![i].delivery = "DELIVERED"]
  /\ signalled' = signalled \ {i}
  /\ UNCHANGED <<providerVars, workerVars, row, handlerAt, handlerResult, lookup>>

----------------------------------------------------------------------------
(* Specification.                                                          *)

WorkerStep(w) ==
  \/ StartExecution(w) \/ AttemptLost(w) \/ ReceiveAnswer(w)
  \/ ClientGivesUp(w) \/ ActivityExhausted(w)

HandlerStep(w, n) ==
  \/ ReadOrder(w, n) \/ RequestFails(w, n) \/ Reserve(w, n)
  \/ ProviderAccepts(w, n) \/ ProviderDeclines(w, n)
  \/ RecordOutcome(w, n) \/ RecordUncertain(w, n) \/ RecordFails(w, n)

LookupStep(w) == FindRefund(w) \/ FinishLookup(w) \/ LookupUnheard(w)

EventStep(i) ==
  \/ ProviderFinishes(i) \/ ReceiveProviderEvent(i)
  \/ SignalOutcome(i) \/ MarkDelivered(i)

Next ==
  \/ \E w \in Journeys : WorkerStep(w)
  \/ \E w \in Journeys, n \in Attempts : HandlerStep(w, n)
  \/ \E w \in Journeys : LookupStep(w)
  \/ \E i \in RefundIds : EventStep(i)
  \/ GatewayRestart

Spec == Init /\ [][Next]_vars

\* The provider ends every refund, the five-minute reconciliation of an open
\* journey keeps running, and not every one of its calls is lost.
Fairness ==
  /\ \A i \in RefundIds : WF_vars(ProviderFinishes(i))
  /\ \A w \in Journeys :
       /\ SF_vars(FindRefund(w))
       /\ WF_vars(FinishLookup(w))
       /\ SF_vars(lookup[w] # None /\ lookup[w].awaited /\ FinishLookup(w))

FairSpec == Spec /\ Fairness

----------------------------------------------------------------------------
(* Properties.                                                             *)

Owns(w, i) == Exists(i) /\ refundOwner[i] = w

\* Execution is idempotent: whatever attempts are lost, repeated or overtaken,
\* and wherever the gateway dies, one journey creates at most one refund at the
\* provider (reserve before the provider call, refund-execution-routes.ts).
OneRefundPerJourney ==
  \A w \in Journeys : \A i, j \in RefundIds : Owns(w, i) /\ Owns(w, j) => i = j

\* "An uncertain outcome is never presented as a successful refund": a journey
\* reports success only when the refund it created is settled.
SuccessIsSettled ==
  \A w \in Journeys : workflow[w].stage = "REFUND_SUCCEEDED" =>
    \E i \in RefundIds : refundOwner[i] = w /\ refundState[i] = "SETTLED"

\* A journey that reports failure has no refund that was or may yet be paid.
FailureIsUnpaid ==
  \A w \in Journeys : workflow[w].stage = "REFUND_FAILED" =>
    \A i \in RefundIds : refundOwner[i] = w => refundState[i] \in {"ABSENT", "FAILED"}

\* The eligibility check, made before the idempotency key is looked at, refused
\* a repeated request: it may have seen the money the first one had spent.
RetryRefused(w) ==
  LET n == workflow[w].attempt IN n > 1 /\ handlerResult[w][n].status = "HTTP_409"

\* That refusal is the only way to FailureIsUnpaid's being wrong: a journey that
\* reports failure for any other reason, whatever handlers, lookups and events
\* are still under way, has no refund that was or may yet be paid.
UnpaidUnlessRetryRefused ==
  \A w \in Journeys : workflow[w].stage = "REFUND_FAILED" /\ ~RetryRefused(w) =>
    \A i \in RefundIds : refundOwner[i] = w => refundState[i] \in {"ABSENT", "FAILED"}

\* The gateway ledger's terminal statuses agree with the provider's books about
\* the refund the row stands for, through late handlers, lookups and events.
LedgerMatchesProvider ==
  \A w \in Journeys : row[w] # None =>
    /\ row[w].status = "SUCCEEDED" =>
         \E i \in RefundIds : refundOwner[i] = w /\ refundState[i] = "SETTLED"
    /\ row[w].status = "FAILED" =>
         \A i \in RefundIds : refundOwner[i] = w => refundState[i] \in {"ABSENT", "FAILED"}

\* A provider event and the signal it causes reach the journey that created
\* the refund, never another journey of the same order.
EventsReachOwner ==
  \A i \in RefundIds : event[i] # None => event[i].journey = refundOwner[i]

\* The ledger never turns a completed refund into a failed one or back.
NoOutcomeReversal ==
  [][\A w \in Journeys :
       row[w] # None /\ row'[w] # None =>
         /\ row[w].status = "SUCCEEDED" => row'[w].status # "FAILED"
         /\ row[w].status = "FAILED" => row'[w].status # "SUCCEEDED"]_vars

\* Reconciliation recovers every journey whose refund exists at the provider,
\* even if every webhook is lost and the gateway restarts at will.
RecoveryTerminates ==
  \A w \in Journeys :
    (Reconciling(w) /\ \E i \in RefundIds : Owns(w, i)) ~> ~Open(w)
=============================================================================

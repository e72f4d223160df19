--------------------------- MODULE DecisionOutbox ---------------------------
(***************************************************************************)
(* Delivery of recorded human decisions to the waiting workflows.  The     *)
(* route that recorded a decision delivers it at once; a dispatcher, run   *)
(* every five seconds, delivers what is still pending.  Both send the      *)
(* signal first and mark the row afterwards, so a decision can be sent     *)
(* twice, and a row whose workflow ended before it was marked can never be *)
(* sent again.                                                             *)
(***************************************************************************)
EXTENDS Naturals, Sequences, FiniteSets

CONSTANTS
  Journeys,    \* refund workflows, each with one human decision
  BatchSize,   \* rows the dispatcher lists at a time
  MaxFaults    \* bound on crashes and on marks that fail

ASSUME BatchAssumption == BatchSize \in Nat \ {0}
ASSUME FaultsAssumption == MaxFaults \in Nat

VARIABLES
  rows,        \* decision_outbox: journeys in the order of created_at
  delivered,   \* journeys whose row is DELIVERED
  workflow,    \* per journey: "WAITING" for the decision, "DECIDED" or "CLOSED"
  route,       \* per journey: the next step of its decision route
  batch,       \* dispatcher: positions of the listed rows still to be sent
  marking,     \* dispatcher: the first of them was signalled
  faults

outboxVars == <<rows, delivered, workflow, route, batch, marking, faults>>

Recorded == {rows[i] : i \in 1..Len(rows)}

OutboxTypeOK ==
  /\ rows \in Seq(Journeys)
  /\ delivered \in SUBSET Journeys
  /\ workflow \in [Journeys -> {"WAITING", "DECIDED", "CLOSED"}]
  /\ route \in [Journeys -> {"IDLE", "CHECK", "SIGNAL", "MARK"}]
  /\ batch \in SUBSET (1..Len(rows))
  /\ marking \in BOOLEAN
  /\ faults \in 0..MaxFaults

OutboxInit ==
  /\ rows = <<>> /\ delivered = {}
  /\ workflow = [j \in Journeys |-> "WAITING"]
  /\ route = [j \in Journeys |-> "IDLE"]
  /\ batch = {} /\ marking = FALSE /\ faults = 0

----------------------------------------------------------------------------
(* The workflow.                                                           *)

\* Temporal refuses a signal to a closed workflow; an open one keeps the first.
Signal(j) ==
  /\ workflow[j] # "CLOSED"
  /\ workflow' = [workflow EXCEPT ![j] = "DECIDED"]

CloseWorkflow(j) ==
  /\ workflow[j] = "DECIDED"
  /\ workflow' = [workflow EXCEPT ![j] = "CLOSED"]
  /\ UNCHANGED <<rows, delivered, route, batch, marking, faults>>

----------------------------------------------------------------------------
(* The decision route.                                                     *)

\* decide commits the case, the outbox row and the audit event.
RecordDecision(j) ==
  /\ j \notin Recorded
  /\ rows' = Append(rows, j)
  /\ route' = [route EXCEPT ![j] = "CHECK"]
  /\ UNCHANGED <<delivered, workflow, batch, marking, faults>>

\* The console sends the same decision again; a closed case refuses it.
Retry(j) ==
  /\ j \in Recorded /\ route[j] = "IDLE" /\ workflow[j] # "CLOSED"
  /\ route' = [route EXCEPT ![j] = "CHECK"]
  /\ UNCHANGED <<rows, delivered, workflow, batch, marking, faults>>

IsOutboxPending(j) ==
  /\ route[j] = "CHECK"
  /\ route' = [route EXCEPT ![j] = IF j \in delivered THEN "IDLE" ELSE "SIGNAL"]
  /\ UNCHANGED <<rows, delivered, workflow, batch, marking, faults>>

RouteSignals(j) ==
  /\ route[j] = "SIGNAL"
  /\ Signal(j)
  /\ route' = [route EXCEPT ![j] = "MARK"]
  /\ UNCHANGED <<rows, delivered, batch, marking, faults>>

\* The signal is refused or Temporal cannot be reached: the row stays PENDING.
RouteSignalFails(j) ==
  /\ route[j] = "SIGNAL"
  /\ route' = [route EXCEPT ![j] = "IDLE"]
  /\ UNCHANGED <<rows, delivered, workflow, batch, marking, faults>>

\* Mutation: the row is marked whether or not the signal was sent.
MarkBeforeSignal(j) ==
  /\ route[j] \in {"SIGNAL", "MARK"}
  /\ delivered' = delivered \cup {j}
  /\ route' = [route EXCEPT ![j] = "IDLE"]
  /\ UNCHANGED <<rows, workflow, batch, marking, faults>>

RouteMarks(j) ==
  /\ route[j] = "MARK"
  /\ delivered' = delivered \cup {j}
  /\ route' = [route EXCEPT ![j] = "IDLE"]
  /\ UNCHANGED <<rows, workflow, batch, marking, faults>>

----------------------------------------------------------------------------
(* dispatchPendingOutbox.                                                  *)

\* Mutation: rows already delivered are listed too.
AllRows == 1..Len(rows)

PendingRows == {i \in 1..Len(rows) : rows[i] \notin delivered}

\* listPendingOutbox: the oldest pending rows, at most BatchSize of them.
ListPendingOutbox ==
  /\ batch = {}
  /\ batch' = {i \in PendingRows : Cardinality({k \in PendingRows : k <= i}) <= BatchSize}
  /\ UNCHANGED <<rows, delivered, workflow, route, marking, faults>>

First(i) == i \in batch /\ \A k \in batch : i <= k

DispatchSignals(i) ==
  /\ First(i) /\ ~marking
  /\ Signal(rows[i])
  /\ marking' = TRUE
  /\ UNCHANGED <<rows, delivered, route, batch, faults>>

\* deliverOutbox answers false and the loop goes on to the next row.
DispatchFails(i) ==
  /\ First(i) /\ ~marking
  /\ batch' = batch \ {i}
  /\ UNCHANGED <<rows, delivered, workflow, route, marking, faults>>

DispatchMarks(i) ==
  /\ First(i) /\ marking
  /\ delivered' = delivered \cup {rows[i]}
  /\ batch' = batch \ {i}
  /\ marking' = FALSE
  /\ UNCHANGED <<rows, workflow, route, faults>>

----------------------------------------------------------------------------
(* Faults.                                                                 *)

\* markOutboxDelivered throws: the row stays PENDING although it was sent.
RouteMarkFails(j) ==
  /\ route[j] = "MARK" /\ faults < MaxFaults
  /\ route' = [route EXCEPT ![j] = "IDLE"]
  /\ faults' = faults + 1
  /\ UNCHANGED <<rows, delivered, workflow, batch, marking>>

DispatchMarkFails(i) ==
  /\ First(i) /\ marking /\ faults < MaxFaults
  /\ batch' = batch \ {i} /\ marking' = FALSE
  /\ faults' = faults + 1
  /\ UNCHANGED <<rows, delivered, workflow, route>>

\* The human-operations process dies and is started again.
Restart ==
  /\ faults < MaxFaults
  /\ route' = [j \in Journeys |-> "IDLE"]
  /\ batch' = {} /\ marking' = FALSE
  /\ faults' = faults + 1
  /\ UNCHANGED <<rows, delivered, workflow>>

RouteStep(j) ==
  \/ IsOutboxPending(j) \/ RouteSignals(j) \/ RouteSignalFails(j) \/ RouteMarks(j)
DispatchStep(i) == DispatchSignals(i) \/ DispatchFails(i) \/ DispatchMarks(i)

OutboxNext ==
  \/ \E j \in Journeys :
       RecordDecision(j) \/ Retry(j) \/ RouteStep(j) \/ RouteMarkFails(j) \/ CloseWorkflow(j)
  \/ ListPendingOutbox
  \/ \E i \in batch : DispatchStep(i) \/ DispatchMarkFails(i)
  \/ Restart

OutboxSpec == OutboxInit /\ [][OutboxNext]_outboxVars

\* The dispatcher's timer keeps firing, its loop and the routes keep running, and
\* a signal that could be sent again and again to an open workflow is sent at
\* last: Temporal is not away for good.  Nobody need ever retry at a console.
Fairness ==
  /\ \A j \in Journeys : WF_outboxVars(RouteStep(j)) /\ SF_outboxVars(RouteSignals(j))
  /\ WF_outboxVars(ListPendingOutbox)
  /\ WF_outboxVars(\E i \in batch : DispatchStep(i))
  /\ \A j \in Journeys : SF_outboxVars(\E i \in batch : rows[i] = j /\ DispatchSignals(i))

FairSpec == OutboxSpec /\ Fairness

----------------------------------------------------------------------------
(* Properties.                                                             *)

\* A row is only taken off the dispatcher's list once its workflow was given
\* the decision, whichever of the two deliverers failed, retried or restarted.
DeliveredMeansReceived == \A j \in delivered : workflow[j] # "WAITING"

\* Pending rows that can never be sent: their workflow ended before the mark.
Undeliverable == {i \in PendingRows : workflow[rows[i]] = "CLOSED"}

\* A decision staff recorded reaches its workflow, also when the route that
\* recorded it failed to deliver it, as long as undeliverable rows do not come
\* to fill the dispatcher's batch for good.
DecisionsArrive ==
  <>[](Cardinality(Undeliverable) < BatchSize)
    => \A j \in Journeys : (j \in Recorded) ~> (workflow[j] # "WAITING")
=============================================================================

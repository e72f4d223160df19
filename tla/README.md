# Verification of the refund core of Customer Service OS Lite

TLA+ models of the parts of the repository that talk with the customer about a
refund, decide about it and move the money, model-checked with TLC on small instances, with theorems checked by TLAPS.
Everything is translated from the code at this commit; `PROJECT.json` maps each
definition to its lines, lists the runs, the mutants that show each property can
fail, the hazards and the findings.

    tlc -config RefundWorkflow.cfg RefundWorkflow     # a run
    tlapm HumanOperationsProofs.tla                   # a proof module

## 1. The system

A customer asks for a refund in a conversation; an agent turns it into a
proposal; a Temporal workflow evaluates policy, collects a photo if one is
required, offers a preview, obtains a human decision where policy asks for one,
and has the Integration Gateway execute the refund at the commerce provider.

| Component | State it keeps | Operations | Interacts with | Hard behaviour | What makes it correct |
|---|---|---|---|---|---|
| Refund execution (`integration-gateway`: execution, reconciliation, provider-event routes and repository; worker client) | `refund.executions`, `refund.provider_events`; handlers in flight | reserve, call provider, record outcome, reconcile, accept event, dispatch signal | worker activities (HTTP), provider (HTTP, webhook), Temporal (signals) | retries while old handlers run, crash between reserve and record, lost webhooks | one refund per journey; reported outcome = provider's books; recovery ends |
| Refund policy (`refund-policy.ts`, `refund-risk.ts`, `refund-policy-input.ts`) and refund context (`refund-context.ts`) | none (functions of release and order history) | evaluate, derive context | workflow activities, gateway | boundaries of bands and counts; facts that move between check and use | riskier is never milder; the two balance checks agree |
| Refund workflow (`refund-workflow.ts`, `refund-workflow-activities.ts`) | durable workflow state, signals, timers | evaluate, collect evidence, offer, await customer, await staff, pay, close case | everything above; edge (query, signal); human operations | signals before handlers, timers against signals, continue-as-new, early returns | pays only when authorised; no wait of the customer is endless; no case left open |
| Human cases (`human-operations`: `app.ts`, `postgres-human-case-repository.ts`) | `refund_cases`, idempotency keys, audit | open, claim, reassign, decide, close, change phase | console, workflow, evidence repository | check before transaction; racing staff; retries | one informed, entitled, final decision |
| Decision outbox (`server.ts`, `deliverOutbox`) | `decision_outbox` | record, deliver by route, dispatch every five seconds | Temporal | crash between signal and mark; a batch filled by dead rows | marked only after receipt; decisions arrive |
| Refund evidence (`refund-evidence*.ts`, `private-evidence-store.ts`) | evidence document, case version, files, upload leases | ensure, upload, recover, review, transition, read, purge | customer, reviewer, workflow, operator | late uploads, stale pages, crashes, disconnects | reviewer accepts what was shown; accepted set is frozen; files follow record |
| Edge API (`edge-api`) | none durable; handlers in flight, event streams | conversation turn, confirmation, upload, journey view and stream | portal, conversation runtime, agent, Temporal, human operations | calls given up on that are carried out later; query-then-signal; a repeated turn beside its first handler | workflows and links belong to a committed reply; progress shown is real |
| Conversation runtime (`conversation-runtime`) | conversations, messages, idempotency keys, event outbox | create, read, append, link a workflow | edge | two appends of one turn, retries under the same key, another customer's session | a conversation is an append-only log; one event per message |
| Customer portal (`customer-portal`) | session storage of the chat; the journey shown; stream and timers | send and repeat a turn, load, listen, poll, confirm | edge, by proxies that hold the customer's token | lost answers, overlapping loads, a stream that breaks | shows what is stored, never goes back, catches up |
| Agent runtime (Python) | none that outlives a call | route, look up order, propose | edge, knowledge, gateway | model output is arbitrary | proposes only what the graph allows |
| Knowledge and retrieval (Python) | releases, index | ingest, publish, retrieve | agent | scores and parsing | only released, in-scope chunks |
| Evaluation runner (Python) | usage, reports | run, grade | agent, knowledge | offline | repeatable scores |
| Operations console | the case and evidence a page holds | claim, decide, review | human operations | stale pages | modelled with human cases and evidence |
| Service authentication | none | sign and check assertions | every service | kinds, audiences and customers of tokens | a call is for its caller's own data |
| Admin console, observability, control-knowledge, voice | none modelled | - | - | - | see section 8 |

## 2. Modules

| Module | Models | Notes |
|---|---|---|
| `RefundExecution` (`MCRefundExecution`) | worker activity, gateway, provider, event dispatch, for the journeys of one order | one action per step between two awaits; a handler outlives its client |
| `RefundExecutionProofs` | theorems, all safety properties of the execution runs | |
| `RefundPolicy` | `evaluateRefundPolicy` and its helpers as operators | no state |
| `RefundEligibility` (`MCRefundEligibility`) | `toRefundContext`, the policy and the last balance check over an order's refund history | EXTENDS `RefundPolicy` |
| `RefundEligibilityProofs` | theorems about the policy and about eligibility | |
| `RefundJourney` | abstract specification: what any refund journey promises | |
| `RefundWorkflow` | `refundWorkflow` with customer, staff, evidence and clock | implements `RefundJourney` (`KeepsPromise`) |
| `RefundWorkflowProofs` | theorems, the refinement of `RefundJourney` among them | |
| `HumanCases` (`MCHumanCases`) | one case raced by staff and workflow | |
| `DecisionOutbox` | route and dispatcher delivering decisions | |
| `HumanOperationsProofs` | theorems about cases and outbox | |
| `RefundEvidence` | uploads, review, use and retention of one evidence record | |
| `RefundEvidenceProofs` | theorems | |
| `ConversationLog` | abstract specification: what the conversation runtime promises its callers | |
| `ConversationStore` | the conversation runtime's transactions as operators on its tables | |
| `ConversationTurns` (`MCConversationTurns`) | chat page, portal proxy, edge handlers, agent and Temporal as its callers see them | EXTENDS `ConversationStore`; implements `ConversationLog` (`KeepsLog`) |
| `ConversationTurnsProofs` | theorems, the refinement of `ConversationLog` among them | |
| `JourneyPage` | the page of one journey, the edge API's view, stream and confirmation | the workflow appears by its stages; `RefundWorkflow` has the rest |
| `JourneyPageProofs` | theorems | |
| `FiniteSums` | lemmas about sums over finite sets | used by the proofs of evidence and eligibility |

Definitions named in a comment `Mutation:` are variants of the definition that
follows them, with a plausible bug; `PROJECT.json` says which property each breaks.

### How state and actions correspond to the code

**RefundExecution.** `row` is `refund.executions` keyed by the journey's one
idempotency key; `event`/`signalled` are `refund.provider_events` and its
dispatcher; `handlerAt[w][n]` is the program counter of the execution handler of
attempt n, cut where the handler awaits: `ReadOrder`, `Reserve` (or
`StoredAnswer`), `ProviderAccepts`/`ProviderDeclines`, `RecordOutcome`/
`RecordUncertain`/`RecordFails`. `ClientGivesUp` is the five-second abort,
`AttemptLost` the retry, `GatewayRestart` a process death: calls already sent may
still land. `refundOwner` records which call created a refund; no action reads
it, only properties. The order has one settled payment in one currency.

**RefundPolicy / RefundEligibility.** A check that throws is the verdict
`THROWS`. A field the code may find undefined is named in `input.absent`. In
`RefundEligibility` confirmation, review and execution are one step each.

**RefundWorkflow.** An action is what runs between two awaits of the workflow;
`at` is the await. `refreshRefundContext` and the evaluation that follows it are
one step (nothing the workflow keeps can change between them); read-only
`observe` activities and the audit-only confirmation record are left out; only
the current side of `patched()` branches is modelled. `TransitionRefundEvidence`, `OpenHumanCase` and `ParseEvidenceSnapshot` are what
human operations answer to the activities. Commerce facts may change
at any time, so each evaluation returns any verdict the policy can return for the
claim, and `CheckFacts` may succeed or fail. Deadlines are kept as time left, so
the clock is unbounded. `OPEN` covers the case statuses OPEN and CLAIMED: who
claims is the subject of `HumanCases`. What follows `executeRefund` is the
subject of `RefundExecution`.

**HumanCases.** A route reads the case and checks the role (`Arrive`), then runs
the transaction that checks version, status and assignee (`Claim`, `Reassign`,
`Decide`); anything may happen in between. `SaveEvidence` and `Transition` are
the evidence repository's writes to the row. `SaveEvidence` moves the version of
any case that has an evidence record (`evidence`), whatever its type and status: the
code's `save` asks for neither, uploads may end after the close, and `purge` saves
cases that were claimed, decided or closed. It does so at any time, and
`Transition` does not look at the acceptance of the evidence, so both allow more
than the code does. `DecisionStands` is therefore about type, assignee and
status of a decided case, not about its version.

**DecisionOutbox.** `RouteSignals`/`RouteMarks` and `DispatchSignals`/
`DispatchMarks` are the two halves of `deliverOutbox`; `RecordDecision` and
`CloseWorkflow` are its surroundings; the `...Fails` actions and
`Restart` are its error paths. Each journey has one decision.

**RefundEvidence.** An upload is admitted (`Admit`), and its handler runs in the
steps `BeginUpload`, `Validate`, `FinishUpload` or `FinishFails`; `Disconnect`
takes effect only before the handler works; `Crash` drops requests and leases and
keeps records and files. The reviewer's page reads the case (`ViewCase`) before
the evidence (`ViewEvidence`), as `caseResponse` does, and sends a review only for what it shows
(`PageOffersReview`). The revision a customer's
page showed is an input of `BeginUpload`. A reassignment only moves the case
version and is left to `HumanCases`. Time is left out: recovery and retention may
take any photo in the right status, except that no handler is still at work on a
photo that retention deletes because it is a day old (`Old`). Leases held by
uploads to other workflows are not modelled, nor are the batch of a hundred
records and `SKIP LOCKED`.

**ConversationStore / ConversationTurns.** The four transactions of the
repository (`CreateConversation`, `AppendMessage` for both senders,
`LinkRefundWorkflow`, `ReadConversation`) are atomic because each locks the
conversation's row. `handler[r].at` is the call that a request of the edge API
awaits: accept, context, agent, assistant, start, link, respond. `GiveUp` is a
failed call, a time-out or a restart: the handler is gone and its call goes to
`late`, from where `CarryOutLate` may still apply it. `Submit` repeats a pending
turn with its own keys (`CanRetryPendingTurn`); `LoseAnswer` leaves the handler at
work while the page may already repeat; `RestartPortal` gives the portal another
customer's token while the tab keeps its conversation. The ids of turns stand for
the uuids the page makes, the ids of proposals for those of the agent.
Encryption is a pair of inverse operators with the digest beside them.

**JourneyPage.** `stage`, `preview`, `reply` and `open` are what queries and
signals of the workflow can tell; `Follows` is the order in which
`refund-workflow.ts` sets its stages, and the stage stays as it is while the
activities after a reply run. A load reads the workflow (`ReadWorkflow`), then the
evidence (`ReadEvidence`), then arrives. `StreamOpens`, `PollWorkflow`,
`StreamBreaks` and `StreamRefused` are the edge API's event stream as the browser's
EventSource sees it, `PollingFallback` and `EvidenceTimer` the page's timers.
`missed` is a history variable that only a property reads.

## 3. Runs

Each passing property has a mutant of the code that breaks it under the same
configuration.

| Run | Instance | Distinct states | Shows |
|---|---|---|---|
| `execution_pair` | two journeys of one order with amounts 2 and 3 out of 4, one attempt each | 1 369 676 | `SuccessIsSettled`, `UnpaidUnlessRetryRefused`, `LedgerMatchesProvider`, `EventsReachOwner`, `NoOutcomeReversal` |
| `execution_retries` | one journey for the whole payment, three attempts, fairness | 260 316 | `TypeOK`, `OneRefundPerJourney`, `RecoveryTerminates` |
| `equal_amounts` | two journeys for the same amount | - | violation of `SuccessIsSettled` (finding) |
| `retry_refused` | one journey for the whole payment, three attempts | - | violation of `FailureIsUnpaid` (finding) |
| `eligibility` | two journeys, three refunds, staff refunding in the provider's console, a release with values on both sides of each boundary | 1 287 | `AskingMoreIsNeverMilder`, `ChecksAgree`, `VerdictsOnlyTighten` |
| `workflow` | both kinds of claim, validity 2, evidence window 3, two reads per run, two pending signals, fairness | 207 257 | `PaidOnlyWhenAuthorized`, `CaseDecisionHonoured`, `NoCaseLeftOpen`, `SomebodyCanDecide`, `KeepsPromise`, `CollectionEnds`, `ConfirmationEnds`, `LapsedOfferNeverPays` |
| `cases` | an approver and a supervisor, two keys, versions to 4 and one more after the decision, one request in flight each | 2 528 801 | `TypeOK`, `OneDecision`, `DecidedKnowingly`, `ClaimantHasRole`, `DecisionStands` |
| `outbox` | two journeys, batch of one, two faults, fairness | 5 019 | `DeliveredMeansReceived`, `DecisionsArrive` |
| `evidence` | two keys, two requests for one lease, sizes 1 and 2 in a set of 3, fairness | 91 746 | `SetWithinLimit`, `DecodersBounded`, `HeldStaysTrue`, `FilesFollowRecord`, `AcceptedWasShown`, `UploadsSettle` (no photo and no lease is held for ever) |
| `turns` | two customers, one tab, two requests at once, two turns, three conversations, two proposals, two losses | 422 839 | `EventPerMessage`, `JourneysAndReplies`, `ShownIsPersisted`, `KeepsLog`, `OrderIsLastNamed` |
| `orphan_journey` | the same with one loss | - | violation of `ShownLinkIsTheJourney` (finding) |
| `journey_page` | three changes of workflow or photos, one fault, one decision, fairness | 310 448 | `ShownProgressIsReal`, `ShownNeverGoesBack`, `PageCatchesUp` |

**Bounds and why they are enough.** Interference in execution is between two
journeys of one order, or between attempts of one journey: the two runs take one
each, with Temporal's real limit of three attempts in the second. A batch of one
with two journeys is the smallest in which a row can wait behind another; two
faults allow a failed mark followed by a crash. Two reads per run make
collection continue as new at least once within a window of three. Two keys
with one lease let an upload be recovered as stale while its handler still works
and another photo be accepted; the sizes let a set that fits when reserved
outgrow its limit when normalized. The count limits (`MaxPhotos`, `MaxAttempts`)
are translated but do not bind in this instance. In `turns` two requests
let a repeated turn run beside its first handler, two losses let the first answer
be lost and a call of either handler be carried out late, the third conversation is
for a create carried out after its page was answered by another; the sizes let
two questions fit the context or not. In `journey_page` three changes are the
shortest way from the first stage through the offer to an end, so that each of
them may come before, within or after a load. In `cases` an undecided
case has versions to 4 and a decided one to 5 (`WithinBound`). That covers claim,
phase change and the next claim, and the decision on a case opened as monetary or
claimed after its phase change, followed by a save of retention, a close or a
request sent before. A decision after claim, phase change and claim needs one more
version, which is too many states for a run; the theorems about `cases` cover it.
`Keys` there and the provider's refund ids
are only compared with one another, so symmetry is used in the runs that check
no liveness.

**Deadlock** is not checked where the system may stop: a journey that has ended, a
workflow that has returned, a case at the version bound, an order with no
refund ids left, a chat whose turns are used up, a page whose journey has ended.
The outbox and evidence models never stop and are checked.

## 4. Fairness

- *Execution*: the provider eventually finishes a refund it accepted; the
  workflow's five-minute timer repeats reconciliation for ever, and among
  infinitely many lookups some are answered while the client still waits (strong
  fairness). No webhook and no attempt is assumed to arrive.
- *Workflow*: Temporal schedules a workflow that can run, and time passes.
  Nothing is assumed of customers or staff.
- *Outbox*: the interval timer keeps listing, a running delivery continues, and a
  signal that can be delivered again and again once is. Faults are bounded.
- *Evidence*: an admitted request is handled or cut off by the HTTP server's own
  time-out, and recovery, run every minute, reaches each photo that stays
  PROCESSING. Crashes are not bounded.
- *Journey page*: a call is answered or times out, the intervals of page and
  stream fire, the browser reconnects an EventSource or is refused, and an open
  connection delivers. Nothing is assumed of the workflow or the customer; faults
  are bounded.
- *Turns*: no liveness is stated, because a turn that failed waits for the
  customer to send it again.

## 5. Proofs

| Theorem | Statement |
|---|---|
| `RefundExecutionProofs!TypeCorrect`, `AtMostOneRefund` | `TypeOK` and `OneRefundPerJourney` for any journeys, ids, amounts and attempts |
| `RefundExecutionProofs!SuccessIsSettledHolds`, `UnpaidUnlessRetryRefusedHolds`, `LedgerMatchesProviderHolds`, `EventsReachOwnerHolds`, `NoOutcomeReversalHolds` | what workflow, row and event report is what the provider's books say, for any journeys of one order with different amounts, ids and attempts |
| `RefundEligibilityProofs!RiskierIsNeverMilder` | a fact about the evaluator, for every valid release and every input |
| `RefundEligibilityProofs!AskingMoreIsNeverMilderHolds`, `ChecksAgreeHolds`, `VerdictsOnlyTightenHolds` | all three properties of the `eligibility` run, for any journeys, refunds, order lines, payment and valid release |
| `RefundWorkflowProofs!PaidOnlyWhenAuthorizedHolds`, `CaseDecisionHonouredHolds`, `SomebodyCanDecideHolds`, `NoCaseLeftOpenHolds`, `LapsedOfferNeverPaysHolds` | all safety properties of the `workflow` run, for any validity, window, polls and pending signals |
| `RefundWorkflowProofs!WorkflowKeepsPromise` | `KeepsPromise`: the workflow implements `RefundJourney`, for the same |
| `HumanOperationsProofs!TypeCorrect`, `DecidedOnce`, `DecisionIsInformed`, `ClaimsAreEntitled`, `DecisionIsFinal` | all five properties of the `cases` run for any staff, keys and bounds |
| `HumanOperationsProofs!MarkedAfterReceipt` | `DeliveredMeansReceived` for any journeys, batch size and faults |
| `RefundEvidenceProofs!DecodersBoundedHolds`, `HeldStaysTrueHolds`, `FilesFollowRecordHolds`, `AcceptedWasShownHolds`, `SetWithinLimitHolds` | all safety properties of the `evidence` run, for any keys, requests, sizes and limits |
| `ConversationTurnsProofs!TranscriptIsLog` | `KeepsLog`: turns implement `ConversationLog`, for any customers, pages, requests, texts, turns, proposals and losses |
| `ConversationTurnsProofs!OneEventPerMessage`, `JourneysHaveReplies`, `ShownIsPersistedHolds` | `EventPerMessage`, `JourneysAndReplies` and `ShownIsPersisted`, for the same |
| `JourneyPageProofs!ProgressIsReal`, `NeverGoesBack` | `ShownProgressIsReal` and `ShownNeverGoesBack`, for any number of changes, faults and decisions |

**At most one refund.** `OneRefundPerJourney` is not inductive: a handler about
to call the provider would create a second refund. `ReservationInv` adds that a
call that is outstanding belongs to a journey whose row exists and which owns no
refund yet, and that no journey has two such calls; `ControlInv` says that
the state each program point relies on exists (a handler that has its provider
answer has a row to update), which `TypeOK` needs to be inductive. Only `Reserve` makes a call outstanding, and
only when there is no row; `QuietStep` disposes of all actions that neither
reserve nor call.

**Reported outcomes.** `TruthInv` says of every place that holds an outcome (the
row, an answer on its way, a lookup, an event, a buffered signal, the workflow)
that it is true of the provider's books, and true for good: success only where the
journey's own refund is settled, failure only where nothing of the journey can
still be paid (`Unpayable`: its one call was made, is no longer outstanding and owns
no live refund) or where `RetryRefused` gives the reason. Such facts stay true
because only an accepted call and the end of a refund change the books, so
each action only has to copy one. These theorems have the hypothesis
`Distinguishable`, that no two journeys of the order ask for the same amount: reconciliation
knows a refund only by its amount, and `equal_amounts` shows that the statement is
false without it. `FailureIsUnpaid` is false even so (`retry_refused`);
`UnpaidUnlessRetryRefused` excepts a journey whose last attempt, a retry, was
answered 409, and shows that nothing else reports failure wrongly.

**Workflow.** The properties speak of the end of a journey and of what led there,
so `IInv` carries along, from await to await, who said what the workflow keeps
(`Attributed`), which branch of the switch it is in and what that branch has
obtained (`RouteInv`), that accepted evidence stays accepted (`PhotoKept`), and
which case is open at which await (`CaseInv`); `PollsInv` is what `TypeOK` needs.
`Lapsed` follows an offer that ran out through the steps that wind it up. The
refinement maps the awaits and the kept facts to the phase, verdict, consent and
photo of `RefundJourney`; each action is one of its steps or a stutter.

**Evidence.** `LeaseInv` ties a handler at work to a lease, `FrozenInv` what an
accepted set and a held one are, `PageInv` what a reviewer's page knows by its
revision, `FileInv` which files the record and its handlers account for. `SizeInv`
adds that there are finitely many attachments and that those of the current set fit; a finished
upload replaces one summand, which is where the check of `finishUpload` is needed.

**Human cases.** `VersionNamesRow`: a row that was shown with the current version
is the current row, because every change moves the version. `RouteChecked`: a
request in flight passed its route on some earlier row. With
`DecisionSettles` (a recorded decision goes with a decided or closed monetary
case) the check made before the transaction and the version checked inside it
together give each property.

**Outbox.** `SignalledBeforeMark`: whoever is about to mark has signalled.

**Conversation turns.** `StoreInv` says what the tables are: rows, messages
numbered without a gap, the outbox as the events of the messages, and keys that
lead to the message of their own request. None of the properties is inductive
without what the handlers remember: `RequestFacts` says, point by point, what a
request's earlier calls have left behind (the question accepted in the owner's
conversation, the reply, the workflow). `LateInv` says that a call given up on is
that of such a request; because stored things only grow (`Grows`), it may be
carried out at any time (`FactsStay`), so one lemma per transaction serves both
the handler and the late call. The refinement maps each message to an entry of the
log; a step that adds a message is `Ask` or `Reply`, one that links is `Link`, all
others stutter. `ShownInv` adds what is needed for the texts: the digest is that of
the stored text, a key leads to the message or link its request asked for
(`TruthfulStore`), and handlers and pages hold only what is stored. `Keeps` says
that no step takes any of it back.

**Journey page.** `LoadsInv` adds that there is one load at a time and that what it
has read is still true in the sense of `StillTrue`: a stage of payment goes with an
accepted offer, and success is final. The shown journey is then an arrived load.

**Policy.** The evaluator's checks are shown monotone one by one in the amount,
the balance and the refund count, then combined along the order in which the
code makes them.

**Eligibility.** `HistoryInv` says that every refund has an amount and that finitely
many count. While none fails they only become more (`PriorRefundsStay`), so the
consumed sum grows, the balance shrinks and an invalid selection stays invalid
(`ContextTightens`); then either the later input is denied, which no evaluation
exceeds, or the two inputs differ only in the ways `RiskierIsNeverMilder` orders.
Besides a valid release (`PolicyIsValid`) the assumptions are that proposals are those
that `readyRefundProposalSchema` lets through (`ProposalsAreReady`) and that an order
has finitely many lines with totals (`OrderHasLines`).

**Sums.** What a sum over a set computes is a fact by induction, which the provers
cannot instantiate. `FiniteSums` shows the few facts needed (a sum is a number, grows
with its set and summands, splits off an element) from a smallest counterexample
instead: of the parts of a finite set for which a statement fails, one contains no
other, and the step contradicts it.

The assumptions are the named ASSUMEs of the modules: positive amounts and
limits, roles for all staff, a `None` that is no conversation and no row; TLC evaluates them in the runs.

**Only model-checked.** Liveness (`RecoveryTerminates`, `CollectionEnds`,
`ConfirmationEnds`, `DecisionsArrive`, `UploadsSettle`, `PageCatchesUp`) is out of
the prover's reach. `OrderIsLastNamed` is the one safety property without a theorem:
the messages that fit the context are chosen by a recursive function over the
transcript, and what it selects for every transcript is an induction over data. The
`TypeOK` of `RefundWorkflow` and `RefundEvidence` is proved as part of their `IInv`;
that of `ConversationTurns` is not, it holds in the instance of its run.

## 6. Findings

1. `equal_amounts`: reconciliation takes any refund of the order with the same
   amount for its own, and can report success for money never sent.
2. `retry_refused`: the execution route checks the balance before the idempotency
   key, so the retry of an attempt whose answer was lost is refused with 409 because
   its own refund used the balance up, and the journey ends as failed while the
   refund is pending or settled.
3. `orphan_journey`: the workflow's id comes from the agent's proposal, which is new
   on every call; a turn repeated after its answer was lost starts a second
   workflow, and the first is reachable from no reply.

Further limits met while modelling, for which the properties are stated so as
not to claim more than the code does:

- `recordOutcome` has no condition on the current status, so a late handler can
  write SUBMITTED over SUCCEEDED; `NoOutcomeReversal` only excludes a change
  between SUCCEEDED and FAILED.
- Refunds carry no order lines to the provider, so an item refunded by a journey
  still counts as refundable, within the balance.
- The older decision route signals the workflow without a decision on the case;
  `CaseDecisionHonoured` is about decisions recorded there.
- A wake-up that arrives while a load is under way is dropped; on a live stream
  nothing repeats it, which is the exception `PageCatchesUp` makes. The document
  says otherwise: "Each event causes a refetch"
  (`docs/FRONTEND_CUSTOMER_REFUND_JOURNEY.md:305`).
- Nothing marks a preview as decided until the workflow has acted on the reply; a
  Decline sent after an accepted Confirm is acknowledged and ignored.
- Policy is not evaluated again at payment; only the balance is.
- A decision repeated after the case was closed is answered 403.
- As many undeliverable outbox rows as the batch holds stop the dispatcher;
  `DecisionsArrive` is conditional on there being fewer.
- When the provider call never landed, reconciliation answers NOT_FOUND for ever.

## 7. Plan

Done, in this order: execution, policy, eligibility, workflow with its abstract
journey, human cases, outbox, evidence, conversation turns with their abstract
log, journey page. Left:

1. Proofs: `OrderIsLastNamed`, by a smallest counterexample over the transcript as
   in `FiniteSums`.
2. The provider-event dispatcher's batch of a hundred: `RefundExecution` dispatches
   one event at a time; the batch loop is that of `DecisionOutbox` on another table.
3. Activation of policy releases.

## 8. Not modelled

- `POST /v1/refunds/intake` of the edge API, an older way to start a journey: no
  page of the portal calls it (`SupportRequestForm` is rendered nowhere).
- Agent runtime: its answer is any that the edge API accepts. Knowledge and
  retrieval, evaluation runner: batch and read paths whose difficulty is in
  parsing and scores, which a model abstracts away; they move no money.
- Service authentication beyond the kind, audience and customer of the
  conversation runtime's assertions: signatures and expiry are checked per
  request and share no state.
- Rendering, proxies' headers, photo content, gateway read routes, observability,
  hosting and JSON contracts: no state that a property is about.
- Workflow histories recorded before a `patched()` branch.
- Voice and telephony: directories without code.

Image decoding, hashing, databases, Temporal
and the commerce provider are modelled by what the code relies on: hashes never
collide, transactions are atomic, a signal to a closed workflow is refused.

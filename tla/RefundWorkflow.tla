-------------------------- MODULE RefundWorkflow --------------------------
(***************************************************************************)
(* refundWorkflow, the durable coordinator of one refund journey, with the *)
(* parties that race it: the customer confirming through the edge, staff   *)
(* deciding the human case or using the older signal route, the evidence   *)
(* collection and the workflow clock.                                      *)
(*                                                                         *)
(* A step of the workflow is what runs between two awaits.  Deadlines are  *)
(* kept as the time left, so the clock needs no bound.  What happens after *)
(* executeRefund is called is the subject of RefundExecution.              *)
(***************************************************************************)
EXTENDS Integers, Sequences

CONSTANTS
  Validity,        \* life of a policy decision, in clock ticks
  EvidenceWindow,  \* time the customer has to get evidence accepted
  PollInterval,    \* sleep between two reads of the evidence
  PollsPerRun,     \* reads before the workflow continues as new
  MaxSignals       \* bound on decision signals waiting to be delivered

ASSUME TimeAssumption ==
  Validity \in Nat \ {0} /\ EvidenceWindow \in Nat \ {0} /\ PollInterval \in Nat \ {0}
ASSUME PollsAssumption == PollsPerRun \in Nat \ {0}

VARIABLES
  needsPhoto,  \* the claim: its release requires a photo and its reason is DAMAGED
  at,          \* workflow: what it is waiting for
  stage,       \* workflow: state.stage, what queries see
  effect,      \* workflow: effect of the decision in force
  branch,      \* workflow: the case of the switch that was taken
  evidence,    \* workflow: it holds an accepted evidence reference
  reply,       \* workflow: the confirmation it kept
  human,       \* workflow: the humanDecision it kept
  polls,       \* workflow: evidence reads in this run
  validLeft,   \* clock: until the decision's and the preview's validUntil
  windowLeft,  \* clock: until the evidence deadline
  napLeft,     \* clock: until the current sleep ends
  document,    \* human operations: the evidence collection
  humanCase,   \* human operations: [type, status, decision] of the one case
  signals,     \* Temporal: decision signals not yet handled, in order
  answered,    \* answers the customer gave to the preview
  posted,      \* edge: answers whose preflight passed, signal not yet sent
  decided      \* decisions staff have taken, by either route

workflowVars == <<at, stage, effect, branch, evidence, reply, human, polls>>
clockVars == <<validLeft, windowLeft, napLeft>>
staffVars == <<humanCase, decided>>
customerVars == <<answered, posted>>
vars == <<needsPhoto, workflowVars, clockVars, document, staffVars, signals, customerVars>>

----------------------------------------------------------------------------

ReviewClasses == {"ALLOW", "APPROVAL_REQUIRED", "TAKEOVER_REQUIRED"}
Effects == ReviewClasses \cup {"DENY", "NEEDS_FACTS"}

\* The activities the workflow awaits.
Activities ==
  {"EVALUATE", "OPEN_EVIDENCE", "READ_EVIDENCE", "EXPIRE_EVIDENCE", "REEVALUATE",
   "CLOSE_EVIDENCE", "PREVIEW", "OPEN_CASE", "CLOSE_CASE", "REFRESH_EXCEPTION",
   "CHECK_EVIDENCE", "CHECK_FACTS", "EXECUTE"}
Waits == {"SLEEP", "CONFIRM", "DECIDE"}
ControlPoints == Activities \cup Waits \cup {"RETURNED", "FAILED"}

CollectionPoints == {"OPEN_EVIDENCE", "READ_EVIDENCE", "SLEEP"}

Stages ==
  {"EVALUATING", "AWAITING_CUSTOMER_EVIDENCE", "AWAITING_EVIDENCE_REVIEW",
   "EVIDENCE_COLLECTION_EXPIRED", "NEEDS_FACTS", "DENIED",
   "AWAITING_CUSTOMER_CONFIRMATION", "AWAITING_APPROVAL", "HUMAN_TAKEOVER_REQUIRED",
   "PREVIEW_INVALIDATED", "CANCELLED", "REJECTED", "TAKEOVER_RESOLVED",
   "REFUND_REQUESTED"}  \* REFUND_PROCESSING and what follows it

Replies == {"ACCEPT", "DECLINE"}
Decisions == {"APPROVE", "REJECT", "APPROVE_EXCEPTIONAL_REFUND", "RESOLVE_TAKEOVER"}

\* The decisions the handler set in each branch keeps, and a case type allows.
Accepts ==
  [APPROVAL_REQUIRED |-> {"APPROVE", "REJECT"},
   TAKEOVER_REQUIRED |-> {"APPROVE_EXCEPTIONAL_REFUND", "RESOLVE_TAKEOVER", "REJECT"}]

CaseTypes == {"NONE", "EVIDENCE"} \cup DOMAIN Accepts
Documents == {"ABSENT", "EMPTY", "READY", "MORE_REQUIRED", "ACCEPTED"}

TypeOK ==
  /\ needsPhoto \in BOOLEAN
  /\ at \in ControlPoints
  /\ stage \in Stages
  /\ effect \in Effects \cup {"NONE"}
  /\ branch \in ReviewClasses \cup {"NONE"}
  /\ evidence \in BOOLEAN
  /\ reply \in Replies \cup {"NONE"}
  /\ human \in Decisions \cup {"NONE"}
  /\ polls \in 0..PollsPerRun
  /\ validLeft \in 0..Validity
  /\ windowLeft \in 0..EvidenceWindow
  /\ napLeft \in 0..PollInterval
  /\ document \in Documents
  /\ humanCase \in [type : CaseTypes, status : {"NONE", "OPEN", "DECISION_PENDING", "CLOSED"},
                    decision : Decisions \cup {"NONE"}]
  /\ signals \in Seq(Decisions)
  /\ answered \in SUBSET Replies
  /\ posted \in SUBSET Replies
  /\ decided \in SUBSET Decisions

Running == at \notin {"RETURNED", "FAILED"}

Init ==
  /\ needsPhoto \in BOOLEAN
  /\ at = "EVALUATE" /\ stage = "EVALUATING"
  /\ effect = "NONE" /\ branch = "NONE" /\ evidence = FALSE
  /\ reply = "NONE" /\ human = "NONE" /\ polls = 0
  /\ validLeft = 0 /\ windowLeft = EvidenceWindow /\ napLeft = 0
  /\ document = "ABSENT"
  /\ humanCase = [type |-> "NONE", status |-> "NONE", decision |-> "NONE"]
  /\ signals = <<>> /\ answered = {} /\ posted = {} /\ decided = {}

----------------------------------------------------------------------------
(* The workflow's evaluation and the switch on its effect.                 *)

\* The verdicts fresh facts can lead to: the balance is looked at first, then the
\* photo, then amount and risk.  Other refunds of the order change the facts
\* between any two reads, so each read finds what it finds.
EvaluateRefundPolicy(accepted) ==
  {"DENY"} \cup IF needsPhoto /\ ~accepted THEN {"NEEDS_FACTS"} ELSE ReviewClasses

\* The workflow returns with its last state.
Returns(final) == at' = "RETURNED" /\ stage' = final

\* The switch: what the effect leads to.
Dispatch(e) ==
  CASE e = "NEEDS_FACTS" -> Returns("NEEDS_FACTS") /\ UNCHANGED branch
    [] e = "DENY" -> Returns("DENIED") /\ UNCHANGED branch
    [] e = "TAKEOVER_REQUIRED" -> at' = "OPEN_CASE" /\ branch' = e /\ UNCHANGED stage
    [] OTHER -> at' = "PREVIEW" /\ branch' = e /\ UNCHANGED stage

\* refreshRefundContext and evaluateRefundPolicy.  Only the missing photo of a
\* v2 damage claim starts an evidence collection.
Evaluate ==
  /\ at = "EVALUATE"
  /\ effect' \in EvaluateRefundPolicy(FALSE)
  /\ validLeft' = Validity
  /\ IF needsPhoto /\ effect' = "NEEDS_FACTS"
       THEN at' = "OPEN_EVIDENCE" /\ UNCHANGED <<stage, branch>>
       ELSE Dispatch(effect')
  /\ UNCHANGED <<needsPhoto, evidence, reply, human, polls, windowLeft, napLeft, document, staffVars,
                 signals, customerVars>>

----------------------------------------------------------------------------
(* Evidence collection.                                                    *)

Smaller(a, b) == IF a <= b THEN a ELSE b

\* What an answer of human operations tells the workflow: an acceptance, or
\* whether photos are with the reviewer.
ParseEvidenceSnapshot(doc) == [accepted |-> doc = "ACCEPTED", underReview |-> doc = "READY"]

\* The head of the while loop over a snapshot, and what follows the loop.
CollectionTurn(snapshot) ==
  IF windowLeft = 0
    THEN at' = "EXPIRE_EVIDENCE" /\ UNCHANGED <<stage, napLeft, evidence>>
  ELSE IF snapshot.accepted
    THEN at' = "REEVALUATE" /\ evidence' = TRUE /\ UNCHANGED <<stage, napLeft>>
  ELSE /\ at' = "SLEEP"
       /\ stage' = IF snapshot.underReview THEN "AWAITING_EVIDENCE_REVIEW"
                                         ELSE "AWAITING_CUSTOMER_EVIDENCE"
       /\ napLeft' = Smaller(PollInterval, windowLeft)
       /\ UNCHANGED evidence

\* The case a journey asks for; its id is the workflow's, so there is only one.
OpenCaseInput(type) == [type |-> type, status |-> "OPEN", decision |-> "NONE"]

\* openRefundEvidence: created once, returned as it is after a continue-as-new.
OpenEvidence ==
  /\ at = "OPEN_EVIDENCE"
  /\ document' = IF document = "ABSENT" THEN "EMPTY" ELSE document
  /\ humanCase' = IF humanCase.type = "NONE"
                    THEN OpenCaseInput("EVIDENCE")
                    ELSE humanCase
  /\ CollectionTurn(ParseEvidenceSnapshot(document'))
  /\ UNCHANGED <<needsPhoto, effect, branch, reply, human, polls, validLeft, windowLeft, decided, signals,
                 customerVars>>

Wake ==
  /\ at = "SLEEP" /\ napLeft = 0
  /\ at' = "READ_EVIDENCE"
  /\ UNCHANGED <<needsPhoto, stage, effect, branch, evidence, reply, human, polls, clockVars, document,
                 staffVars, signals, customerVars>>

\* Mutation: the new run gets a deadline of its own.
ContinueWithFreshWindow ==
  /\ at' = "OPEN_EVIDENCE" /\ stage' = "EVALUATING" /\ polls' = 0 /\ signals' = <<>>
  /\ windowLeft' = EvidenceWindow
  /\ UNCHANGED <<napLeft, evidence>>

\* continueAsNew carries the deadline and the decision, not the stage, the poll
\* count or the buffered signals; the new run opens the collection again.
ContinueAsNew ==
  /\ at' = "OPEN_EVIDENCE" /\ stage' = "EVALUATING" /\ polls' = 0 /\ signals' = <<>>
  /\ UNCHANGED <<napLeft, evidence, windowLeft>>

ReadEvidence ==
  LET snapshot == ParseEvidenceSnapshot(document) IN
  /\ at = "READ_EVIDENCE"
  /\ IF polls + 1 >= PollsPerRun /\ ~snapshot.accepted /\ windowLeft > 0
       THEN ContinueAsNew
       ELSE /\ CollectionTurn(snapshot)
            /\ polls' = polls + 1
            /\ UNCHANGED <<signals, windowLeft>>
  /\ UNCHANGED <<needsPhoto, effect, branch, reply, human, validLeft, document, staffVars, customerVars>>

CaseClosed == humanCase' = [humanCase EXCEPT !.status = "CLOSED"]

\* closeRefundEvidence once the deadline has passed.
ExpireEvidence ==
  /\ at = "EXPIRE_EVIDENCE"
  /\ CaseClosed
  /\ Returns("EVIDENCE_COLLECTION_EXPIRED")
  /\ UNCHANGED <<needsPhoto, effect, branch, evidence, reply, human, polls, clockVars, document, decided,
                 signals, customerVars>>

\* The second evaluation, with the accepted evidence.  An effect that needs no
\* monetary case closes the evidence case before the switch is taken.
Reevaluate ==
  /\ at = "REEVALUATE"
  /\ effect' \in EvaluateRefundPolicy(TRUE)
  /\ validLeft' = Validity
  /\ IF effect' \in {"ALLOW", "DENY", "NEEDS_FACTS"}
       THEN at' = "CLOSE_EVIDENCE" /\ UNCHANGED <<stage, branch>>
       ELSE Dispatch(effect')
  /\ UNCHANGED <<needsPhoto, evidence, reply, human, polls, windowLeft, napLeft, document, staffVars,
                 signals, customerVars>>

\* closeRefundEvidence after the evaluation, or when the offer of the approval
\* branch was declined or expired.
CloseEvidence ==
  /\ at = "CLOSE_EVIDENCE"
  /\ CaseClosed
  /\ IF branch = "APPROVAL_REQUIRED"
       THEN /\ Returns(IF reply = "DECLINE" THEN "CANCELLED" ELSE "PREVIEW_INVALIDATED")
            /\ UNCHANGED branch
       ELSE Dispatch(effect)
  /\ UNCHANGED <<needsPhoto, effect, evidence, reply, human, polls, clockVars, document, decided,
                 signals, customerVars>>

----------------------------------------------------------------------------
(* The offer and its confirmation.                                         *)

\* Mutation: an unanswered offer ends the journey without closing its case.
UnconfirmedReturns == Returns("PREVIEW_INVALIDATED")

\* waitForRefundConfirmation ended without a confirmation.
Unconfirmed ==
  IF branch = "APPROVAL_REQUIRED" /\ evidence
    THEN at' = "CLOSE_EVIDENCE" /\ UNCHANGED stage
    ELSE Returns("PREVIEW_INVALIDATED")

\* An offer needs a verdict that allows one, or the authorization of a person.
PreviewAllowed ==
  \/ effect \in {"ALLOW", "APPROVAL_REQUIRED"}
  \/ effect = "TAKEOVER_REQUIRED" /\ human = "APPROVE_EXCEPTIONAL_REFUND"

\* createRefundPreview, which carries over the decision's validUntil, and the
\* start of the wait: an offer that has already expired is never waited for.
CreatePreview ==
  /\ at = "PREVIEW" /\ PreviewAllowed
  /\ IF validLeft > 0
       THEN at' = "CONFIRM" /\ stage' = "AWAITING_CUSTOMER_CONFIRMATION"
       ELSE Unconfirmed
  /\ UNCHANGED <<needsPhoto, effect, branch, evidence, reply, human, polls, clockVars, document,
                 staffVars, signals, customerVars>>

\* Mutation: the wait has no timer and ends only with a signal.
ExpiresOnSignalOnly ==
  /\ at = "CONFIRM" /\ validLeft = 0 /\ posted # {}
  /\ Unconfirmed
  /\ UNCHANGED <<needsPhoto, effect, branch, evidence, reply, human, polls, clockVars, document,
                 staffVars, signals, customerVars>>

\* The wait's timer.
PreviewExpires ==
  /\ at = "CONFIRM" /\ validLeft = 0
  /\ Unconfirmed
  /\ UNCHANGED <<needsPhoto, effect, branch, evidence, reply, human, polls, clockVars, document,
                 staffVars, signals, customerVars>>

\* Mutation: confirmation.accepted is not looked at.
AnyAnswerConfirms(answer) ==
  /\ at' = (IF branch = "APPROVAL_REQUIRED" THEN "OPEN_CASE" ELSE "CHECK_EVIDENCE")
  /\ UNCHANGED stage

\* What a timely confirmation leads to.
Confirmed(answer) ==
  CASE answer = "ACCEPT" ->
         at' = (IF branch = "APPROVAL_REQUIRED" THEN "OPEN_CASE" ELSE "CHECK_EVIDENCE")
           /\ UNCHANGED stage
    [] answer = "DECLINE" /\ branch = "APPROVAL_REQUIRED" /\ evidence ->
         at' = "CLOSE_EVIDENCE" /\ UNCHANGED stage
    [] OTHER -> Returns("CANCELLED")

\* The edge's preflight: the queried stage still awaits this preview's answer.
Preflight(answer) ==
  /\ stage = "AWAITING_CUSTOMER_CONFIRMATION"
  /\ answered' = answered \cup {answer}
  /\ posted' = posted \cup {answer}
  /\ UNCHANGED <<needsPhoto, workflowVars, clockVars, document, staffVars, signals>>

\* Mutation: the handler does not look at the clock.
SignalAnyTime(answer) ==
  /\ answer \in posted
  /\ posted' = posted \ {answer}
  /\ IF at = "CONFIRM"
       THEN Confirmed(answer) /\ reply' = answer
       ELSE UNCHANGED <<at, stage, reply>>
  /\ UNCHANGED <<needsPhoto, effect, branch, evidence, human, polls, clockVars, document, staffVars,
                 signals, answered>>

\* The edge's signal reaches the handler, which keeps the first answer that is
\* in time; a late one ends the wait.  A closed workflow refuses the signal.
SignalConfirmation(answer) ==
  /\ answer \in posted
  /\ posted' = posted \ {answer}
  /\ IF at = "CONFIRM"
       THEN IF validLeft > 0 THEN Confirmed(answer) /\ reply' = answer
                             ELSE Unconfirmed /\ UNCHANGED reply
       ELSE UNCHANGED <<at, stage, reply>>
  /\ UNCHANGED <<needsPhoto, effect, branch, evidence, human, polls, clockVars, document, staffVars,
                 signals, answered>>

----------------------------------------------------------------------------
(* Human review.                                                           *)

OpenHumanCase(type) == humanCase.type = "NONE" /\ humanCase' = OpenCaseInput(type)

\* Mutation: the evidence case is taken as it is.
KeepEvidenceCase(type) == document = "ACCEPTED" /\ UNCHANGED humanCase

\* The evidence case becomes the monetary one, if its evidence still is the accepted one.
TransitionRefundEvidence(type) ==
  /\ document = "ACCEPTED"
  /\ humanCase' = OpenCaseInput(type)

\* openMonetaryCase: a journey with accepted evidence already has a case.
OpenCase ==
  /\ at = "OPEN_CASE"
  /\ IF evidence THEN TransitionRefundEvidence(branch) ELSE OpenHumanCase(branch)
  /\ at' = "DECIDE"
  /\ stage' = IF branch = "APPROVAL_REQUIRED" THEN "AWAITING_APPROVAL"
                                              ELSE "HUMAN_TAKEOVER_REQUIRED"
  /\ UNCHANGED <<needsPhoto, effect, branch, evidence, reply, human, polls, clockVars, document,
                 decided, signals, customerVars>>

\* Mutation: any decision signal ends the wait.
HandleAnyDecision ==
  /\ at = "DECIDE" /\ signals # <<>>
  /\ signals' = <<>>
  /\ human' = Head(signals)
  /\ at' = "CLOSE_CASE"
  /\ UNCHANGED <<needsPhoto, stage, effect, branch, evidence, reply, polls, clockVars, document,
                 staffVars, customerVars>>

\* The handler is given every signal in order, the ones buffered before it was
\* set included, and keeps the first its branch knows.
HandleDecisions ==
  LET known == {i \in DOMAIN signals : signals[i] \in Accepts[branch]} IN
  /\ at = "DECIDE" /\ signals # <<>>
  /\ signals' = <<>>
  /\ IF known = {}
       THEN UNCHANGED <<at, human>>
       ELSE at' = "CLOSE_CASE" /\ \E i \in known : human' = signals[i] /\ \A j \in known : i <= j
  /\ UNCHANGED <<needsPhoto, stage, effect, branch, evidence, reply, polls, clockVars, document,
                 staffVars, customerVars>>

\* Mutation: only the takeover branch knows a rejection.
RejectedTakeoverOnly ==
  /\ at = "CLOSE_CASE"
  /\ CaseClosed
  /\ CASE human = "REJECT" /\ branch = "TAKEOVER_REQUIRED" -> Returns("REJECTED")
       [] human = "RESOLVE_TAKEOVER" -> Returns("TAKEOVER_RESOLVED")
       [] human = "APPROVE_EXCEPTIONAL_REFUND" -> at' = "REFRESH_EXCEPTION" /\ UNCHANGED stage
       [] OTHER -> at' = "CHECK_EVIDENCE" /\ UNCHANGED stage
  /\ UNCHANGED <<needsPhoto, effect, branch, evidence, reply, human, polls, clockVars, document,
                 decided, signals, customerVars>>

\* closeHumanCase, then the branch's reading of the decision.
CloseCase ==
  /\ at = "CLOSE_CASE"
  /\ CaseClosed
  /\ CASE human = "REJECT" -> Returns("REJECTED")
       [] human = "RESOLVE_TAKEOVER" -> Returns("TAKEOVER_RESOLVED")
       [] human = "APPROVE" -> at' = "CHECK_EVIDENCE" /\ UNCHANGED stage
       [] OTHER -> at' = "REFRESH_EXCEPTION" /\ UNCHANGED stage
  /\ UNCHANGED <<needsPhoto, effect, branch, evidence, reply, human, polls, clockVars, document,
                 decided, signals, customerVars>>

\* After an exceptional approval the facts are read again; with evidence it is
\* compared and the policy is evaluated again, without it the old decision
\* stays in force.
RefreshException ==
  /\ at = "REFRESH_EXCEPTION"
  /\ IF evidence /\ document # "ACCEPTED"
       THEN Returns("PREVIEW_INVALIDATED") /\ UNCHANGED <<effect, validLeft>>
     ELSE IF evidence
       THEN /\ effect' \in EvaluateRefundPolicy(TRUE)
            /\ validLeft' = Validity
            /\ CASE effect' = "DENY" -> Returns("DENIED")
                 [] effect' = "NEEDS_FACTS" -> Returns("NEEDS_FACTS")
                 [] OTHER -> at' = "PREVIEW" /\ UNCHANGED stage
     ELSE at' = "PREVIEW" /\ UNCHANGED <<stage, effect, validLeft>>
  /\ UNCHANGED <<needsPhoto, branch, evidence, reply, human, polls, windowLeft, napLeft, document,
                 staffVars, signals, customerVars>>

----------------------------------------------------------------------------
(* executeAuthorizedRefund.                                                *)

CheckEvidence ==
  /\ at = "CHECK_EVIDENCE"
  /\ IF needsPhoto /\ ~(evidence /\ document = "ACCEPTED")
       THEN Returns("PREVIEW_INVALIDATED")
       ELSE at' = "CHECK_FACTS" /\ UNCHANGED stage
  /\ UNCHANGED <<needsPhoto, effect, branch, evidence, reply, human, polls, clockVars, document,
                 staffVars, signals, customerVars>>

\* refreshRefundContext and areRefundFactsCurrent: the balance is still there
\* or it is not.
CheckFacts ==
  /\ at = "CHECK_FACTS"
  /\ \/ at' = "EXECUTE" /\ UNCHANGED stage
     \/ Returns("PREVIEW_INVALIDATED")
  /\ UNCHANGED <<needsPhoto, effect, branch, evidence, reply, human, polls, clockVars, document,
                 staffVars, signals, customerVars>>

ExecuteRefund ==
  /\ at = "EXECUTE"
  /\ Returns("REFUND_REQUESTED")
  /\ UNCHANGED <<needsPhoto, effect, branch, evidence, reply, human, polls, clockVars, document,
                 staffVars, signals, customerVars>>

\* An activity throws on its last attempt: the workflow fails where it is.
ActivityFails ==
  /\ at \in Activities
  /\ at' = "FAILED"
  /\ UNCHANGED <<needsPhoto, stage, effect, branch, evidence, reply, human, polls, clockVars,
                 document, staffVars, signals, customerVars>>

----------------------------------------------------------------------------
(* The parties around the workflow.                                        *)

CustomerUploads ==
  /\ humanCase.type = "EVIDENCE" /\ humanCase.status = "OPEN"
  /\ document \in {"EMPTY", "MORE_REQUIRED"}
  /\ document' = "READY"
  /\ UNCHANGED <<needsPhoto, workflowVars, clockVars, staffVars, signals, customerVars>>

ReviewEvidence ==
  /\ humanCase.type = "EVIDENCE" /\ humanCase.status = "OPEN"
  /\ document = "READY"
  /\ document' \in {"ACCEPTED", "MORE_REQUIRED"}
  /\ UNCHANGED <<needsPhoto, workflowVars, clockVars, staffVars, signals, customerVars>>

\* The case decision route: recorded with its outbox event in one transaction.
DecideCase(d) ==
  /\ humanCase.status = "OPEN" /\ humanCase.type \in DOMAIN Accepts
  /\ d \in Accepts[humanCase.type]
  /\ humanCase' = [humanCase EXCEPT !.status = "DECISION_PENDING", !.decision = d]
  /\ decided' = decided \cup {d}
  /\ UNCHANGED <<needsPhoto, workflowVars, clockVars, document, signals, customerVars>>

\* deliverOutbox: at least once, so the same decision may be signalled again.
DeliverOutbox ==
  /\ humanCase.decision # "NONE"
  /\ Running /\ Len(signals) < MaxSignals
  /\ signals' = Append(signals, humanCase.decision)
  /\ UNCHANGED <<needsPhoto, workflowVars, clockVars, document, staffVars, customerVars>>

\* The deprecated refund-workflows decision route: any verified staff member,
\* any decision, at any time, unless an evidence record exists.
SignalDecision(d) ==
  /\ document = "ABSENT"
  /\ Running /\ Len(signals) < MaxSignals
  /\ signals' = Append(signals, d)
  /\ decided' = decided \cup {d}
  /\ UNCHANGED <<needsPhoto, workflowVars, clockVars, document, humanCase, customerVars>>

Less(n) == IF n > 0 THEN n - 1 ELSE 0

\* The evidence deadline is set when the first run has opened the collection and
\* matters until the collection ends.
DeadlineRuns == at \in CollectionPoints /\ document # "ABSENT"

Tick ==
  /\ validLeft > 0 \/ napLeft > 0 \/ (DeadlineRuns /\ windowLeft > 0)
  /\ validLeft' = Less(validLeft)
  /\ napLeft' = Less(napLeft)
  /\ windowLeft' = IF DeadlineRuns THEN Less(windowLeft) ELSE windowLeft
  /\ UNCHANGED <<needsPhoto, workflowVars, document, staffVars, signals, customerVars>>

WorkflowStep ==
  \/ Evaluate \/ OpenEvidence \/ Wake \/ ReadEvidence \/ ExpireEvidence \/ Reevaluate
  \/ CloseEvidence \/ CreatePreview \/ PreviewExpires \/ OpenCase \/ HandleDecisions
  \/ CloseCase \/ RefreshException \/ CheckEvidence \/ CheckFacts \/ ExecuteRefund

Next ==
  \/ WorkflowStep \/ ActivityFails
  \/ \E answer \in Replies : Preflight(answer) \/ SignalConfirmation(answer)
  \/ \E d \in Decisions : DecideCase(d) \/ SignalDecision(d)
  \/ DeliverOutbox \/ CustomerUploads \/ ReviewEvidence \/ Tick

\* Temporal keeps dispatching the workflow's tasks and timers, and time passes.
Fairness == WF_vars(WorkflowStep) /\ WF_vars(Tick)

Spec == Init /\ [][Next]_vars

FairSpec == Spec /\ Fairness

----------------------------------------------------------------------------
(* Properties.                                                             *)

RefundRequested == stage = "REFUND_REQUESTED"

\* The refund is requested only after the customer accepted the preview and,
\* where the verdict in force asks for a person, after staff took a decision
\* that grants it; a required photo was accepted first.
PaidOnlyWhenAuthorized ==
  RefundRequested =>
    /\ "ACCEPT" \in answered
    /\ effect = "APPROVAL_REQUIRED" => decided \cap {"APPROVE", "APPROVE_EXCEPTIONAL_REFUND"} # {}
    /\ effect = "TAKEOVER_REQUIRED" => "APPROVE_EXCEPTIONAL_REFUND" \in decided
    /\ needsPhoto => document = "ACCEPTED"

\* "A human decision is recorded with staff identity, case version, and an audit
\* event": a refund that needed a person was granted by the decision on its case.
GrantedByCase ==
  (RefundRequested /\ branch # "ALLOW") =>
    humanCase.decision \in {"APPROVE", "APPROVE_EXCEPTIONAL_REFUND"}

\* Unless somebody used the older route, what the case records is what happens:
\* a rejection recorded there holds and nothing but a grant pays.
CaseDecisionHonoured == decided \subseteq {humanCase.decision} => GrantedByCase

\* While the workflow waits for a person there is a case for that person to
\* decide, or a decision on its way: the wait has no timeout of its own.
SomebodyCanDecide ==
  at = "DECIDE" =>
    /\ humanCase.type = branch
    /\ humanCase.status \in {"OPEN", "DECISION_PENDING"}
    /\ humanCase.status = "DECISION_PENDING" => humanCase.decision \in Accepts[branch]

\* A workflow that returns leaves nobody a case to work on.
NoCaseLeftOpen ==
  at = "RETURNED" => humanCase.status \notin {"OPEN", "DECISION_PENDING"}

\* Once the offer has run out unanswered it never pays, however late the
\* edge's signal is and whatever the customer clicked.
OfferLapsed == at = "CONFIRM" /\ validLeft = 0
LapsedOfferNeverPays == [](OfferLapsed => [](~RefundRequested))

\* Collection ends by its original deadline, however often the workflow
\* continues as new meanwhile.
CollectionEnds == at \in CollectionPoints ~> at \notin CollectionPoints

\* The customer's silence does not park the journey.
ConfirmationEnds == at = "CONFIRM" ~> at # "CONFIRM"

\* The journey's promise: RefundJourney.
Journey ==
  INSTANCE RefundJourney WITH
    Effects <- ReviewClasses,
    Approvals <- [APPROVAL_REQUIRED |-> {"APPROVE", "APPROVE_EXCEPTIONAL_REFUND"},
                  TAKEOVER_REQUIRED |-> {"APPROVE_EXCEPTIONAL_REFUND"}],
    Unreviewed <- {"ALLOW"},
    phase <- IF RefundRequested THEN "PAYING" ELSE IF Running THEN "OPEN" ELSE "ENDED",
    verdict <- IF effect \in ReviewClasses THEN effect ELSE "NONE",
    consent <- "ACCEPT" \in answered,
    decisions <- decided,
    photo <- (needsPhoto => document = "ACCEPTED")

\* Every step of the workflow and of the parties around it is a step the
\* journey's promise allows, or none.
KeepsPromise == Journey!Spec
=============================================================================

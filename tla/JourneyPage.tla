---------------------------- MODULE JourneyPage ----------------------------
(***************************************************************************)
(* The page of one refund journey and what keeps it current: the edge      *)
(* API's projection of the workflow, its event stream, the page's refresh  *)
(* and its polling fallback, and the confirmation of the preview.  The     *)
(* workflow appears as its stages and the reply it has taken.              *)
(***************************************************************************)
EXTENDS Naturals, FiniteSets

CONSTANTS MaxChanges,    \* of the workflow and its photos
          MaxFaults,     \* failed loads, broken streams, lost answers
          MaxDecisions,  \* clicks on Confirm or Decline
          None

VARIABLES
    stage, preview,      \* the workflow as queries see it
    reply, open,         \* the reply it has taken; whether it takes signals
    photos,              \* version of its evidence summary
    changes, faults,     \* how often the two have changed; faults so far
    stream,              \* the edge API's event stream of this page
    wakeups,             \* events on their way to the page
    connection,          \* how the page hears of changes
    loads,               \* the page's requests for the journey
    shown,               \* the journey the page shows
    missed,              \* the last wake-up has not led to a load
    decisions,           \* confirmations the edge API works on
    deciding             \* the one the page waits for, or Reload

workflowVars == <<stage, preview, reply, open, photos, changes>>
streamVars == <<stream, wakeups, connection>>
pageVars == <<loads, shown, missed>>
decisionVars == <<decisions, deciding>>
vars == <<workflowVars, streamVars, pageVars, decisionVars, faults>>

-----------------------------------------------------------------------------
(* The customer's view of the workflow.                                    *)

EvidenceStages == {"AWAITING_CUSTOMER_EVIDENCE", "AWAITING_EVIDENCE_REVIEW"}

\* Mutation: an unconfirmed payment counts as a completed refund.
StageByWorkflowStageOptimistic(s) ==
    IF s \in {"PENDING_RECONCILIATION", "REFUND_SUCCEEDED"}
    THEN "REFUND_COMPLETED" ELSE "REFUND_PROCESSING"

StageByWorkflowStage(s) ==
    CASE s \in EvidenceStages \cup {"EVIDENCE_COLLECTION_EXPIRED", "REFUND_FAILED"}
           -> s
      [] s = "EVALUATING" -> "REQUEST_RECEIVED"
      [] s = "AWAITING_CUSTOMER_CONFIRMATION" -> "REFUND_PREVIEW_READY"
      [] s \in {"AWAITING_APPROVAL", "HUMAN_TAKEOVER_REQUIRED"}
           -> "SPECIALIST_REVIEWING"
      [] s \in {"REFUND_PROCESSING", "PENDING_RECONCILIATION"}
           -> "REFUND_PROCESSING"
      [] s = "REFUND_SUCCEEDED" -> "REFUND_COMPLETED"
      [] s = "NEEDS_FACTS" -> "MORE_INFORMATION_NEEDED"
      [] s \in {"DENIED", "REJECTED"} -> "REFUND_NOT_APPROVED"
      [] s = "TAKEOVER_RESOLVED" -> "REQUEST_RESOLVED"
      [] s = "CANCELLED" -> "REFUND_CANCELLED"
      [] s = "PREVIEW_INVALIDATED" -> "PREVIEW_EXPIRED"

NextActionFor(s) ==
    CASE s = "AWAITING_CUSTOMER_EVIDENCE" -> "PROVIDE_EVIDENCE"
      [] s = "REFUND_PREVIEW_READY" -> "CONFIRM_REFUND"
      [] s \in {"AWAITING_EVIDENCE_REVIEW", "SPECIALIST_REVIEWING"}
           -> "WAIT_FOR_SPECIALIST"
      [] s \in {"REQUEST_RECEIVED", "REFUND_PROCESSING"} -> "WAIT_FOR_REFUND"
      [] s = "MORE_INFORMATION_NEEDED" -> "CONTACT_SUPPORT"
      [] OTHER -> "NONE"

NormalizeNextAction(action, hasPreview) ==
    CASE action = "CONFIRM_REFUND" /\ hasPreview -> "CONFIRM_OR_DECLINE"
      [] action = "PROVIDE_EVIDENCE" -> "PROVIDE_EVIDENCE"
      [] action \in {"WAIT_FOR_SPECIALIST", "WAIT_FOR_REFUND"} -> "WAIT"
      [] OTHER -> "NONE"

Steps == <<"REQUEST_RECEIVED", "PREVIEW_READY", "SPECIALIST_REVIEW",
           "REFUND_PROCESSING", "COMPLETED">>

CurrentTimelineStep(s) ==
    CASE s = "REFUND_PREVIEW_READY" -> 2
      [] s = "SPECIALIST_REVIEWING" -> 3
      [] s = "REFUND_PROCESSING" -> 4
      [] s = "REFUND_COMPLETED" -> 5
      [] OTHER -> 1

\* The steps of the timeline that are shown as done or as the current one.
Reached(s, hasPreview) ==
    CASE s \in {"PREVIEW_EXPIRED", "EVIDENCE_COLLECTION_EXPIRED"}
           -> {"REQUEST_RECEIVED"}
      [] \/ s \in EvidenceStages \cup {"REQUEST_RESOLVED"}
         \/ s = "SPECIALIST_REVIEWING" /\ ~ hasPreview
           -> {"REQUEST_RECEIVED", "SPECIALIST_REVIEW"}
      [] OTHER -> {Steps[i] : i \in 1 .. CurrentTimelineStep(s)}

\* What the edge API sends; also the stream's fingerprint of the journey.
ToRefundJourneyView(s, hasPreview, evidence) ==
    LET v == StageByWorkflowStage(s)
    IN [stage |-> v, preview |-> hasPreview, evidence |-> evidence,
        next |-> NextActionFor(v), timeline |-> Reached(v, hasPreview)]

-----------------------------------------------------------------------------
(* The workflow, by what its queries show.                                 *)

Paid == {"REFUND_SUCCEEDED", "REFUND_PROCESSING", "PENDING_RECONCILIATION",
         "REFUND_FAILED", "PREVIEW_INVALIDATED"}

Final == {"NEEDS_FACTS", "DENIED", "REJECTED", "EVIDENCE_COLLECTION_EXPIRED",
          "TAKEOVER_RESOLVED", "CANCELLED", "PREVIEW_INVALIDATED",
          "REFUND_SUCCEEDED", "REFUND_FAILED"}

\* The stage stays as it is until the reply has been acted on.
AfterOffer == CASE reply = "ACCEPT" -> Paid \cup {"AWAITING_APPROVAL"}
                [] reply = "DECLINE" -> {"CANCELLED"}
                [] OTHER -> {"PREVIEW_INVALIDATED"}

Follows(s) ==
    CASE s = "EVALUATING" \/ s \in EvidenceStages ->
           (EvidenceStages \cup
              {"EVALUATING", "NEEDS_FACTS", "DENIED", "EVIDENCE_COLLECTION_EXPIRED",
               "AWAITING_CUSTOMER_CONFIRMATION", "HUMAN_TAKEOVER_REQUIRED"}) \ {s}
      [] s = "AWAITING_CUSTOMER_CONFIRMATION" -> AfterOffer
      [] s = "AWAITING_APPROVAL" -> Paid \cup {"REJECTED"}
      [] s = "HUMAN_TAKEOVER_REQUIRED" ->
           {"REJECTED", "TAKEOVER_RESOLVED", "PREVIEW_INVALIDATED", "DENIED",
            "NEEDS_FACTS", "AWAITING_CUSTOMER_CONFIRMATION"}
      [] s \in {"REFUND_PROCESSING", "PENDING_RECONCILIATION"} ->
           {"REFUND_SUCCEEDED", "REFUND_FAILED"}
      [] OTHER -> {}

WorkflowMoves ==
    /\ open /\ changes < MaxChanges
    /\ \E next \in Follows(stage) :
         /\ stage' = next
         /\ open' = (next \notin Final)
         /\ preview' = (preview \/ next = "AWAITING_CUSTOMER_CONFIRMATION")
    /\ changes' = changes + 1
    /\ UNCHANGED <<reply, photos, streamVars, pageVars, decisionVars, faults>>

\* An activity has failed three times: the workflow closes as it stands.
WorkflowFails ==
    /\ open
    /\ open' = FALSE
    /\ UNCHANGED <<stage, preview, reply, photos, changes, streamVars, pageVars,
                   decisionVars, faults>>

Fault == faults < MaxFaults /\ faults' = faults + 1

-----------------------------------------------------------------------------
(* The page's loads.                                                       *)

NewLoad == [at |-> "workflow", stage |-> None, preview |-> FALSE,
            seen |-> changes, evidence |-> None]

\* Mutation: a load is started whether or not another is under way.
LoadJourneyAlways ==
    /\ loads' = loads \cup {NewLoad}
    /\ missed' = FALSE

\* A load that is asked for while another is under way is not made.
LoadJourney ==
    IF loads = {}
    THEN loads' = {NewLoad} /\ missed' = FALSE
    ELSE UNCHANGED <<loads, missed>>

Reload == 0

\* The load that follows an acknowledged decision gives the buttons back.
LoadEnds(l) ==
    /\ loads' = loads \ {l}
    /\ deciding' = IF deciding = Reload THEN None ELSE deciding
    /\ UNCHANGED decisions

\* loadOwnedRefundWorkflow reads the workflow first, then the photos.
ReadWorkflow(l) ==
    /\ l.at = "workflow"
    /\ loads' = (loads \ {l}) \cup
                  {[l EXCEPT !.at = "evidence", !.stage = stage,
                             !.preview = preview, !.seen = changes]}
    /\ UNCHANGED <<workflowVars, streamVars, shown, missed, decisionVars, faults>>

ReadEvidence(l) ==
    /\ l.at = "evidence"
    /\ loads' = (loads \ {l}) \cup
                  {[l EXCEPT !.at = "answered", !.evidence = photos]}
    /\ UNCHANGED <<workflowVars, streamVars, shown, missed, decisionVars, faults>>

\* The photos cannot be read: a journey that does not wait for them is shown
\* without them.
EvidenceUnavailable(l) ==
    /\ l.at = "evidence" /\ l.stage \notin EvidenceStages
    /\ Fault
    /\ loads' = (loads \ {l}) \cup {[l EXCEPT !.at = "answered"]}
    /\ UNCHANGED <<workflowVars, streamVars, shown, missed, decisionVars>>

Arrive(l) ==
    /\ l.at = "answered"
    /\ LoadEnds(l)
    /\ shown' = [view |-> ToRefundJourneyView(l.stage, l.preview, l.evidence),
                 seen |-> l.seen]
    /\ UNCHANGED <<workflowVars, streamVars, missed, faults>>

\* The page keeps what it shows; in the background nothing is said.
LoadFails(l) ==
    /\ Fault
    /\ LoadEnds(l)
    /\ missed' = TRUE
    /\ UNCHANGED <<workflowVars, streamVars, shown>>

\* "Try again", and the refresh of the photo panel.
TryAgain ==
    /\ shown # None => shown.view.evidence # None
    /\ LoadJourney
    /\ UNCHANGED <<workflowVars, streamVars, shown, decisionVars, faults>>

\* The timer of a journey that is shown waiting for photos.
EvidenceTimer ==
    /\ shown # None /\ shown.view.stage \in EvidenceStages
    /\ LoadJourney
    /\ UNCHANGED <<workflowVars, streamVars, shown, decisionVars, faults>>

-----------------------------------------------------------------------------
(* The photos.                                                             *)

\* The edge API asks the workflow for its stage before it reads any image.
UploadAuthorized == stage \in EvidenceStages

RecordPhoto ==
    /\ changes < MaxChanges
    /\ photos' = photos + 1 /\ changes' = changes + 1
    /\ UNCHANGED <<stage, preview, reply, open>>

\* A page that shows the photo panel sends a photo and loads the journey when
\* it hears of its reception; it does not when the answer is lost.
UploadPhoto ==
    /\ shown # None /\ shown.view.evidence # None
    /\ UploadAuthorized /\ RecordPhoto
    /\ \/ LoadJourney /\ UNCHANGED faults
       \/ Fault /\ UNCHANGED <<loads, missed>>
    /\ UNCHANGED <<streamVars, shown, decisionVars>>

\* Validation, recovery or the reviewer has changed the evidence record.
PhotosReviewed ==
    /\ stage \in EvidenceStages /\ photos > 0
    /\ RecordPhoto
    /\ UNCHANGED <<streamVars, pageVars, decisionVars, faults>>

-----------------------------------------------------------------------------
(* The event stream and the hook that listens to it.                       *)

Closed == [open |-> FALSE, fingerprint |-> None]

\* Mutation: the stream begins without an event.
StreamOpensSilently ==
    /\ ~ stream.open /\ connection # "polling"
    /\ stream' = [open |-> TRUE,
                  fingerprint |-> ToRefundJourneyView(stage, preview, photos)]
    /\ wakeups' = 0
    /\ connection' = "live"
    /\ UNCHANGED <<workflowVars, pageVars, decisionVars, faults>>

\* The first event is written at once, whatever the page has loaded.
StreamOpens ==
    /\ ~ stream.open /\ connection # "polling"
    /\ stream' = [open |-> TRUE,
                  fingerprint |-> ToRefundJourneyView(stage, preview, photos)]
    /\ wakeups' = 1
    /\ connection' = "live"
    /\ UNCHANGED <<workflowVars, pageVars, decisionVars, faults>>

\* An answer that is no event stream ends the browser's attempts (the page
\* goes on calling it reconnecting); without EventSource there is none.
StreamRefused ==
    /\ ~ stream.open /\ connection # "polling"
    /\ Fault
    /\ connection' = "polling"
    /\ UNCHANGED <<workflowVars, stream, wakeups, pageVars, decisionVars>>

StreamBreaks ==
    /\ stream.open
    /\ Fault
    /\ stream' = Closed /\ wakeups' = 0
    /\ connection' = "reconnecting"
    /\ UNCHANGED <<workflowVars, pageVars, decisionVars>>

\* The stream's timer: an event is sent when the customer's view has changed.
PollWorkflow ==
    LET next == ToRefundJourneyView(stage, preview, photos)
    IN /\ stream.open /\ next # stream.fingerprint
       /\ stream' = [stream EXCEPT !.fingerprint = next]
       /\ wakeups' = wakeups + 1
       /\ UNCHANGED <<workflowVars, connection, pageVars, decisionVars, faults>>

RefreshFromEvent ==
    /\ wakeups > 0
    /\ wakeups' = wakeups - 1
    /\ IF loads = {} THEN LoadJourney ELSE UNCHANGED loads /\ missed' = TRUE
    /\ UNCHANGED <<workflowVars, stream, connection, shown, decisionVars, faults>>

\* The page polls while it has no stream.
PollingFallback ==
    /\ connection \in {"reconnecting", "polling"}
    /\ LoadJourney
    /\ UNCHANGED <<workflowVars, streamVars, shown, decisionVars, faults>>

-----------------------------------------------------------------------------
(* The confirmation.                                                       *)

AcceptsConfirmation == stage = "AWAITING_CUSTOMER_CONFIRMATION" /\ preview

\* The buttons are there while the page shows an offer and waits for no
\* earlier answer.
SubmitConfirmation(answer) ==
    /\ shown # None /\ deciding = None
    /\ NormalizeNextAction(shown.view.next, shown.view.preview)
         = "CONFIRM_OR_DECLINE"
    /\ Cardinality(DOMAIN decisions) < MaxDecisions
    /\ LET d == Cardinality(DOMAIN decisions) + 1
       IN /\ decisions' = [i \in DOMAIN decisions \cup {d} |->
                             IF i = d THEN [answer |-> answer, at |-> "query"]
                                      ELSE decisions[i]]
          /\ deciding' = d
    /\ UNCHANGED <<workflowVars, streamVars, pageVars, faults>>

LoseAnswer ==
    /\ deciding \in DOMAIN decisions
    /\ Fault
    /\ deciding' = None
    /\ UNCHANGED <<workflowVars, streamVars, pageVars, decisions>>

\* The decision is refused; the page says so and loads nothing.
Refuse(d) ==
    /\ decisions' = [decisions EXCEPT ![d].at = "done"]
    /\ deciding' = IF deciding = d THEN None ELSE deciding
    /\ UNCHANGED pageVars

\* The decision is acknowledged; the page loads the journey again.
Acknowledge(d) ==
    /\ decisions' = [decisions EXCEPT ![d].at = "done"]
    /\ IF deciding = d
       THEN /\ deciding' = IF loads = {} THEN Reload ELSE None
            /\ LoadJourney
       ELSE UNCHANGED <<deciding, loads, missed>>
    /\ UNCHANGED shown

Preflight(d) ==
    /\ decisions[d].at = "query"
    /\ IF AcceptsConfirmation
       THEN /\ decisions' = [decisions EXCEPT ![d].at = "signal"]
            /\ UNCHANGED <<deciding, pageVars>>
       ELSE Refuse(d)
    /\ UNCHANGED <<workflowVars, streamVars, faults>>

\* The workflow takes the first reply for its preview that is in time.
HandleConfirmation(answer) ==
    IF AcceptsConfirmation /\ reply = "NONE"
    THEN reply' \in {answer, "LATE"}
    ELSE UNCHANGED reply

\* A closed workflow takes no signal: its state is read once more, and the
\* decision is refused either way.
Signal(d) ==
    /\ decisions[d].at = "signal"
    /\ IF open
       THEN HandleConfirmation(decisions[d].answer) /\ Acknowledge(d)
       ELSE UNCHANGED reply /\ Refuse(d)
    /\ UNCHANGED <<stage, preview, open, photos, changes, streamVars, faults>>

-----------------------------------------------------------------------------
Init ==
    /\ stage = "EVALUATING" /\ preview = FALSE /\ reply = "NONE" /\ open = TRUE
    /\ photos = 0 /\ changes = 0 /\ faults = 0
    /\ stream = Closed /\ wakeups = 0 /\ connection = "connecting"
    /\ loads = {NewLoad} /\ shown = None /\ missed = FALSE
    /\ decisions = << >> /\ deciding = None

LoadStep(l) == \/ ReadWorkflow(l) \/ ReadEvidence(l) \/ EvidenceUnavailable(l)
               \/ Arrive(l) \/ LoadFails(l)

StreamStep == StreamOpens \/ StreamRefused \/ StreamBreaks

Next ==
    \/ WorkflowMoves \/ WorkflowFails \/ UploadPhoto \/ PhotosReviewed
    \/ \E l \in loads : LoadStep(l)
    \/ TryAgain \/ EvidenceTimer
    \/ StreamStep \/ PollWorkflow \/ RefreshFromEvent \/ PollingFallback
    \/ \E answer \in {"ACCEPT", "DECLINE"} : SubmitConfirmation(answer)
    \/ LoseAnswer
    \/ \E d \in DOMAIN decisions : Preflight(d) \/ Signal(d)

\* Calls are answered or time out, timers fire, the browser reconnects, and
\* an open connection delivers.
Fairness ==
    /\ WF_vars(\E l \in loads : LoadStep(l))
    /\ WF_vars(StreamStep) /\ WF_vars(PollWorkflow) /\ WF_vars(RefreshFromEvent)
    /\ WF_vars(PollingFallback) /\ WF_vars(EvidenceTimer)

Spec == Init /\ [][Next]_vars /\ Fairness

-----------------------------------------------------------------------------
(* Properties                                                              *)

\* The page never replaces what it shows by what was read earlier: the
\* answers of two loads cannot overtake each other, because there are no two.
ShownNeverGoesBack ==
    [][shown # None => shown'.seen >= shown.seen]_shown

\* Only the workflow's own state marks the journey complete: whatever is old
\* on the page, a refund that its timeline shows as completed has succeeded,
\* and one shown as being processed was accepted by the customer.
ShownProgressIsReal ==
    shown # None =>
      /\ "COMPLETED" \in shown.view.timeline => stage = "REFUND_SUCCEEDED"
      /\ "REFUND_PROCESSING" \in shown.view.timeline => reply = "ACCEPT"

Current == shown # None /\ shown.view.stage = StageByWorkflowStage(stage)

\* A page left open comes to show how the journey ended.  There is one way
\* not to: it counts on a live stream whose last wake-up came while a load
\* was under way or led to a load that failed.  (A journey that fails on the
\* way has not ended in this sense: between two polls its stage may leave and
\* return, and then the stream has nothing to say of what the page saw.)
PageCatchesUp ==
    stage \in Final ~> (Current \/ [](missed /\ connection = "live"))
=============================================================================

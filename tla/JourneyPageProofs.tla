------------------------- MODULE JourneyPageProofs -------------------------
(***************************************************************************)
(* What the page shows is real and never goes back, for any number of      *)
(* changes, faults and decisions.                                          *)
(***************************************************************************)
EXTENDS JourneyPage, TLAPS

Stages == EvidenceStages \cup Paid \cup Final \cup
          {"EVALUATING", "AWAITING_CUSTOMER_CONFIRMATION", "AWAITING_APPROVAL",
           "HUMAN_TAKEOVER_REQUIRED"}

\* The stages that the timeline shows as payment under way or done.
Paying == {"REFUND_PROCESSING", "PENDING_RECONCILIATION", "REFUND_SUCCEEDED"}

Load == [at : {"workflow", "evidence", "answered"}, stage : Stages \cup {None},
         preview : BOOLEAN, seen : Nat, evidence : Nat \cup {None}]

\* What the workflow has been through is behind it: a stage that was read
\* earlier is still true of it in this sense.
StillTrue(s) == /\ s \in Paying => reply = "ACCEPT"
                /\ s = "REFUND_SUCCEEDED" => stage = "REFUND_SUCCEEDED"

\* The workflow comes to a payment only by the customer's acceptance.
WorkflowInv ==
    /\ stage \in Stages /\ preview \in BOOLEAN
    /\ photos \in Nat /\ changes \in Nat
    /\ stage \in Paying \cup {"AWAITING_APPROVAL"} => reply = "ACCEPT"

\* There is one load at a time, and what it has read is still true.
LoadsInv ==
    /\ loads \subseteq Load
    /\ \A l, m \in loads : l = m
    /\ \A l \in loads : /\ l.seen <= changes
                        /\ l.at # "workflow" => l.stage \in Stages /\ StillTrue(l.stage)

\* The load under way began after the one that is shown.
ShownInv ==
    /\ ShownProgressIsReal
    /\ shown # None => /\ shown.seen \in Nat /\ shown.seen <= changes
                       /\ \A l \in loads : shown.seen <= l.seen

PageInv == WorkflowInv /\ LoadsInv /\ ShownInv

-----------------------------------------------------------------------------
(* The timeline tells the truth about the stage it was made from.          *)

LEMMA TimelineOf ==
    ASSUME NEW s \in Stages, NEW p \in BOOLEAN, NEW e
    PROVE  LET t == ToRefundJourneyView(s, p, e).timeline
           IN /\ "COMPLETED" \in t => s = "REFUND_SUCCEEDED"
              /\ "REFUND_PROCESSING" \in t => s \in Paying
<1> DEFINE v == StageByWorkflowStage(s)
<1>1. CASE s \in Paying
  BY <1>1 DEF ToRefundJourneyView, StageByWorkflowStage, EvidenceStages, Paying, Reached, CurrentTimelineStep, Steps
<1>2. CASE s \notin Paying
  <2>1. v \notin {"REFUND_PROCESSING", "REFUND_COMPLETED"}
    BY <1>2 DEF Stages, Paid, Final, EvidenceStages, StageByWorkflowStage, Paying
  <2>2. CurrentTimelineStep(v) \in 1 .. 3
    BY <2>1 DEF CurrentTimelineStep
  <2>3. Reached(v, p) \subseteq {"REQUEST_RECEIVED", "PREVIEW_READY", "SPECIALIST_REVIEW"}
    BY <2>2 DEF Reached, Steps
  <2> QED BY <2>3 DEF ToRefundJourneyView
<1> QED BY <1>1, <1>2

LEMMA FollowsOf ==
    ASSUME WorkflowInv, NEW next \in Follows(stage)
    PROVE  /\ next \in Stages
           /\ stage # "REFUND_SUCCEEDED"
           /\ next \in Paying \cup {"AWAITING_APPROVAL"} => reply = "ACCEPT"
<1>1. CASE stage = "EVALUATING" \/ stage \in EvidenceStages
  BY <1>1 DEF Follows, EvidenceStages, Stages, Paid, Final, Paying
<1>2. CASE stage = "AWAITING_CUSTOMER_CONFIRMATION"
  <2>1. next \in AfterOffer
    BY <1>2 DEF Follows, EvidenceStages
  <2>2. \/ next \in {"CANCELLED", "PREVIEW_INVALIDATED"}
        \/ reply = "ACCEPT" /\ next \in Paid \cup {"AWAITING_APPROVAL"}
    BY <2>1 DEF AfterOffer
  <2> QED BY <1>2, <2>2 DEF Stages, Paid, Final, Paying
<1>3. CASE stage = "AWAITING_APPROVAL"
  BY <1>3 DEF Follows, EvidenceStages, Stages, Paid, Final, Paying, WorkflowInv
<1>4. CASE stage = "HUMAN_TAKEOVER_REQUIRED"
  BY <1>4 DEF Follows, EvidenceStages, Stages, Paid, Final, Paying
<1>5. CASE stage \in {"REFUND_PROCESSING", "PENDING_RECONCILIATION"}
  BY <1>5 DEF Follows, EvidenceStages, Stages, Paid, Final, Paying, WorkflowInv
<1>6. CASE stage \in Final
  BY <1>6 DEF Follows, EvidenceStages, Final
<1> QED BY <1>1, <1>2, <1>3, <1>4, <1>5, <1>6 DEF WorkflowInv, Stages, Paid, Final

-----------------------------------------------------------------------------
(* Steps that keep what is shown and at most begin a load.                 *)

\* Nothing the workflow has done is undone.
Forward == /\ changes <= changes'
           /\ reply = "ACCEPT" => reply' = "ACCEPT"
           /\ stage = "REFUND_SUCCEEDED" => stage' = "REFUND_SUCCEEDED"

MayBeginLoad == loads' = loads \/ (loads = {} /\ loads' = {NewLoad})

LEMMA LoadJourneyMayBegin == LoadJourney => MayBeginLoad
BY DEF LoadJourney, MayBeginLoad

LEMMA ForwardKeeps ==
    ASSUME PageInv, WorkflowInv', Forward, MayBeginLoad, UNCHANGED shown
    PROVE  PageInv'
<1>1. NewLoad \in Load /\ NewLoad.at = "workflow" /\ NewLoad.seen = changes
  BY DEF PageInv, WorkflowInv, NewLoad, Load
<1>2. \A k \in loads' : k \in loads \/ (k = NewLoad /\ loads = {})
  BY DEF MayBeginLoad
<1>3. changes \in Nat /\ changes' \in Nat
  BY DEF PageInv, WorkflowInv
<1>4. LoadsInv'
  <2>1. loads' \subseteq Load
    BY <1>1, <1>2 DEF PageInv, LoadsInv
  <2>2. \A l, m \in loads' : l = m
    BY DEF PageInv, LoadsInv, MayBeginLoad
  <2>3. ASSUME NEW l \in loads'
        PROVE  /\ l.seen <= changes'
               /\ l.at # "workflow" => l.stage \in Stages /\ StillTrue(l.stage)'
    <3>1. l.seen \in Nat
      BY <2>1 DEF Load
    <3>2. CASE l \in loads
      BY <1>3, <3>1, <3>2 DEF PageInv, LoadsInv, StillTrue, Forward
    <3>3. CASE l = NewLoad
      BY <1>1, <1>3, <3>1, <3>3 DEF Forward
    <3> QED BY <1>2, <3>2, <3>3
  <2> QED BY <2>1, <2>2, <2>3 DEF LoadsInv
<1>5. ShownInv'
  <2>1. ShownProgressIsReal'
    BY DEF PageInv, ShownInv, ShownProgressIsReal, Forward
  <2>2. ASSUME shown # None
        PROVE  /\ shown.seen \in Nat /\ shown.seen <= changes'
               /\ \A l \in loads' : shown.seen <= l.seen
    BY <1>1, <1>2, <1>3, <2>2 DEF PageInv, ShownInv, Forward
  <2> QED BY <2>1, <2>2 DEF ShownInv
<1> QED BY <1>4, <1>5 DEF PageInv

LEMMA QuietKeeps ==
    ASSUME PageInv, UNCHANGED <<workflowVars, shown>>, MayBeginLoad
    PROVE  PageInv'
<1>1. WorkflowInv' /\ Forward
  BY DEF PageInv, WorkflowInv, workflowVars, Forward
<1> QED BY <1>1, ForwardKeeps

-----------------------------------------------------------------------------
(* The steps of a load.                                                    *)

\* The one load makes way for k, which has seen no less.
LEMMA LoadAdvances ==
    ASSUME PageInv, UNCHANGED <<workflowVars, shown>>, NEW l \in loads, NEW k \in Load,
           loads' = (loads \ {l}) \cup {k}, l.seen <= k.seen, k.seen <= changes,
           k.stage \in Stages, StillTrue(k.stage)
    PROVE  PageInv'
<1>1. loads' = {k}
  BY DEF PageInv, LoadsInv
<1>2. WorkflowInv'
  BY DEF PageInv, WorkflowInv, workflowVars
<1>3. LoadsInv'
  BY <1>1 DEF LoadsInv, StillTrue, workflowVars
<1>4. ShownInv'
  <2>1. ShownProgressIsReal'
    BY DEF PageInv, ShownInv, ShownProgressIsReal, workflowVars
  <2>2. l.seen \in Nat /\ k.seen \in Nat /\ changes \in Nat /\ changes' = changes
    BY DEF PageInv, LoadsInv, WorkflowInv, Load, workflowVars
  <2> QED BY <1>1, <2>1, <2>2 DEF PageInv, ShownInv
<1> QED BY <1>2, <1>3, <1>4 DEF PageInv

\* The load ends and nothing new is shown.
LEMMA LoadDropped ==
    ASSUME PageInv, UNCHANGED <<workflowVars, shown>>, NEW l \in loads, loads' = loads \ {l}
    PROVE  PageInv'
<1>1. loads' = {}
  BY DEF PageInv, LoadsInv
<1>2. WorkflowInv' /\ LoadsInv'
  BY <1>1 DEF PageInv, WorkflowInv, workflowVars, LoadsInv
<1>3. ShownInv'
  BY <1>1 DEF PageInv, ShownInv, ShownProgressIsReal, workflowVars
<1> QED BY <1>2, <1>3 DEF PageInv

LEMMA ReadWorkflowKeeps ==
    ASSUME PageInv, NEW l \in loads, ReadWorkflow(l)
    PROVE  PageInv'
<1> DEFINE k == [l EXCEPT !.at = "evidence", !.stage = stage, !.preview = preview, !.seen = changes]
<1>1. l \in Load /\ l.seen <= changes
  BY DEF PageInv, LoadsInv
<1>2. k \in Load /\ k.seen = changes /\ k.stage = stage
  BY <1>1 DEF PageInv, WorkflowInv, Load
<1>3. stage \in Stages /\ StillTrue(stage) /\ changes \in Nat
  BY DEF PageInv, WorkflowInv, StillTrue
<1>4. loads' = (loads \ {l}) \cup {k} /\ UNCHANGED <<workflowVars, shown>>
  BY DEF ReadWorkflow
<1> HIDE DEF k
<1> QED BY <1>1, <1>2, <1>3, <1>4, LoadAdvances

LEMMA ReadEvidenceKeeps ==
    ASSUME PageInv, NEW l \in loads, ReadEvidence(l)
    PROVE  PageInv'
<1> DEFINE k == [l EXCEPT !.at = "answered", !.evidence = photos]
<1>1. l \in Load /\ l.seen <= changes /\ l.stage \in Stages /\ StillTrue(l.stage)
  BY DEF PageInv, LoadsInv, ReadEvidence
<1>2. k \in Load /\ k.seen = l.seen /\ k.stage = l.stage
  BY <1>1 DEF PageInv, WorkflowInv, Load
<1>3. l.seen <= l.seen
  BY <1>1 DEF Load
<1>4. loads' = (loads \ {l}) \cup {k} /\ UNCHANGED <<workflowVars, shown>>
  BY DEF ReadEvidence
<1> HIDE DEF k
<1> QED BY <1>1, <1>2, <1>3, <1>4, LoadAdvances

LEMMA EvidenceUnavailableKeeps ==
    ASSUME PageInv, NEW l \in loads, EvidenceUnavailable(l)
    PROVE  PageInv'
<1> DEFINE k == [l EXCEPT !.at = "answered"]
<1>1. l \in Load /\ l.seen <= changes /\ l.stage \in Stages /\ StillTrue(l.stage)
  BY DEF PageInv, LoadsInv, EvidenceUnavailable
<1>2. k \in Load /\ k.seen = l.seen /\ k.stage = l.stage
  BY <1>1 DEF Load
<1>3. l.seen <= l.seen
  BY <1>1 DEF Load
<1>4. loads' = (loads \ {l}) \cup {k} /\ UNCHANGED <<workflowVars, shown>>
  BY DEF EvidenceUnavailable
<1> HIDE DEF k
<1> QED BY <1>1, <1>2, <1>3, <1>4, LoadAdvances

\* The answer is shown: what was read is still true, and it is not older.
LEMMA ArriveKeeps ==
    ASSUME PageInv, NEW l \in loads, Arrive(l)
    PROVE  /\ PageInv'
           /\ shown # None => shown'.seen >= shown.seen
<1> DEFINE v == ToRefundJourneyView(l.stage, l.preview, l.evidence)
<1>1. l \in Load /\ l.seen <= changes /\ l.stage \in Stages /\ StillTrue(l.stage)
  BY DEF PageInv, LoadsInv, Arrive
<1>2. l.preview \in BOOLEAN /\ l.seen \in Nat
  BY <1>1 DEF Load
<1>3. shown' = [view |-> v, seen |-> l.seen] /\ UNCHANGED workflowVars
  BY DEF Arrive
<1>4. loads' = {}
  BY DEF PageInv, LoadsInv, Arrive, LoadEnds
<1>5. /\ "COMPLETED" \in v.timeline => l.stage = "REFUND_SUCCEEDED"
      /\ "REFUND_PROCESSING" \in v.timeline => l.stage \in Paying
  BY <1>1, <1>2, TimelineOf
<1> HIDE DEF v
<1>6. shown'.view = v /\ shown'.seen = l.seen
  BY <1>3
<1>7. WorkflowInv' /\ LoadsInv'
  BY <1>3, <1>4 DEF PageInv, WorkflowInv, workflowVars, LoadsInv
<1>8. ShownInv'
  <2>1. ShownProgressIsReal'
    BY <1>1, <1>3, <1>5, <1>6 DEF ShownProgressIsReal, StillTrue, workflowVars
  <2> QED BY <1>1, <1>2, <1>3, <1>4, <1>6, <2>1 DEF ShownInv, workflowVars
<1>9. shown # None => shown'.seen >= shown.seen
  BY <1>2, <1>6 DEF PageInv, ShownInv
<1> QED BY <1>7, <1>8, <1>9 DEF PageInv

-----------------------------------------------------------------------------
(* The steps of the workflow.                                              *)

LEMMA WorkflowMovesKeeps == ASSUME PageInv, WorkflowMoves PROVE PageInv'
<1>1. PICK next \in Follows(stage) :
        stage' = next /\ preview' = (preview \/ next = "AWAITING_CUSTOMER_CONFIRMATION")
  BY DEF WorkflowMoves
<1>2. WorkflowInv
  BY DEF PageInv
<1>3. /\ next \in Stages
      /\ stage # "REFUND_SUCCEEDED"
      /\ next \in Paying \cup {"AWAITING_APPROVAL"} => reply = "ACCEPT"
  BY <1>2, FollowsOf
<1>4. preview' \in BOOLEAN
  BY <1>1
<1>5. changes' = changes + 1 /\ UNCHANGED <<reply, photos, loads, shown>>
  BY DEF WorkflowMoves, pageVars
<1>6. WorkflowInv'
  BY <1>1, <1>2, <1>3, <1>4, <1>5 DEF WorkflowInv
<1>7. Forward /\ MayBeginLoad
  BY <1>2, <1>3, <1>5 DEF WorkflowInv, Forward, MayBeginLoad
<1> QED BY <1>5, <1>6, <1>7, ForwardKeeps

LEMMA PhotosKeep ==
    ASSUME PageInv, RecordPhoto, MayBeginLoad, UNCHANGED shown
    PROVE  PageInv'
<1>1. WorkflowInv' /\ Forward
  BY DEF PageInv, WorkflowInv, RecordPhoto, Forward
<1> QED BY <1>1, ForwardKeeps

LEMMA SignalKeeps ==
    ASSUME PageInv, NEW d \in DOMAIN decisions, Signal(d)
    PROVE  PageInv'
<1>1. reply = "ACCEPT" => reply' = "ACCEPT"
  BY DEF Signal, HandleConfirmation
<1>2. UNCHANGED <<stage, preview, photos, changes, shown>>
  BY DEF Signal, Acknowledge, Refuse, pageVars
<1>3. MayBeginLoad
  BY LoadJourneyMayBegin DEF Signal, Acknowledge, Refuse, pageVars, MayBeginLoad
<1>4. WorkflowInv' /\ Forward
  BY <1>1, <1>2 DEF PageInv, WorkflowInv, Forward
<1> QED BY <1>2, <1>3, <1>4, ForwardKeeps

-----------------------------------------------------------------------------

LEMMA InitEstablishes == Init => PageInv
<1> SUFFICES ASSUME Init PROVE PageInv
  OBVIOUS
<1>1. WorkflowInv
  BY DEF Init, WorkflowInv, Stages, Paying
<1>2. NewLoad \in Load /\ NewLoad.at = "workflow" /\ NewLoad.seen = changes
  BY <1>1 DEF NewLoad, Load, WorkflowInv
<1>3. LoadsInv
  BY <1>1, <1>2 DEF Init, LoadsInv, WorkflowInv
<1>4. ShownInv
  BY DEF Init, ShownInv, ShownProgressIsReal
<1> QED BY <1>1, <1>3, <1>4 DEF PageInv

\* A step keeps the invariant, and what it shows is no older than before.
LEMMA StepKeeps ==
    ASSUME PageInv, [Next]_vars
    PROVE  /\ PageInv'
           /\ shown # None => shown'.seen >= shown.seen
<1>0. UNCHANGED shown => (shown # None => shown'.seen >= shown.seen)
  BY DEF PageInv, ShownInv
<1>1. CASE WorkflowMoves
  BY <1>0, <1>1, WorkflowMovesKeeps DEF WorkflowMoves, pageVars
<1>2. CASE WorkflowFails
  <2>1. UNCHANGED shown /\ WorkflowInv' /\ Forward /\ MayBeginLoad
    BY <1>2 DEF WorkflowFails, pageVars, PageInv, WorkflowInv, Forward, MayBeginLoad
  <2> QED BY <1>0, <2>1, ForwardKeeps
<1>3. CASE UploadPhoto
  <2>1. RecordPhoto /\ MayBeginLoad /\ UNCHANGED shown
    BY <1>3, LoadJourneyMayBegin DEF UploadPhoto, MayBeginLoad
  <2> QED BY <1>0, <2>1, PhotosKeep
<1>4. CASE PhotosReviewed
  <2>1. RecordPhoto /\ MayBeginLoad /\ UNCHANGED shown
    BY <1>4 DEF PhotosReviewed, MayBeginLoad, pageVars
  <2> QED BY <1>0, <2>1, PhotosKeep
<1>5. ASSUME NEW l \in loads, LoadStep(l)
      PROVE  PageInv' /\ (shown # None => shown'.seen >= shown.seen)
  <2>1. CASE ReadWorkflow(l)
    BY <1>0, <2>1, ReadWorkflowKeeps DEF ReadWorkflow
  <2>2. CASE ReadEvidence(l)
    BY <1>0, <2>2, ReadEvidenceKeeps DEF ReadEvidence
  <2>3. CASE EvidenceUnavailable(l)
    BY <1>0, <2>3, EvidenceUnavailableKeeps DEF EvidenceUnavailable
  <2>4. CASE Arrive(l)
    BY <2>4, ArriveKeeps
  <2>5. CASE LoadFails(l)
    <3>1. UNCHANGED <<workflowVars, shown>> /\ loads' = loads \ {l}
      BY <2>5 DEF LoadFails, LoadEnds
    <3> QED BY <1>0, <3>1, LoadDropped
  <2> QED BY <1>5, <2>1, <2>2, <2>3, <2>4, <2>5 DEF LoadStep
<1>6. CASE TryAgain \/ EvidenceTimer \/ PollingFallback \/ RefreshFromEvent
  <2>1. UNCHANGED <<workflowVars, shown>> /\ MayBeginLoad
    BY <1>6, LoadJourneyMayBegin
       DEF TryAgain, EvidenceTimer, PollingFallback, RefreshFromEvent, MayBeginLoad
  <2> QED BY <1>0, <2>1, QuietKeeps
<1>7. CASE StreamStep \/ PollWorkflow
  <2>1. UNCHANGED <<workflowVars, shown>> /\ MayBeginLoad
    BY <1>7 DEF StreamStep, StreamOpens, StreamRefused, StreamBreaks, PollWorkflow,
                pageVars, MayBeginLoad
  <2> QED BY <1>0, <2>1, QuietKeeps
<1>8. ASSUME NEW answer \in {"ACCEPT", "DECLINE"}, SubmitConfirmation(answer)
      PROVE  PageInv' /\ (shown # None => shown'.seen >= shown.seen)
  <2>1. UNCHANGED <<workflowVars, shown>> /\ MayBeginLoad
    BY <1>8 DEF SubmitConfirmation, pageVars, MayBeginLoad
  <2> QED BY <1>0, <2>1, QuietKeeps
<1>9. CASE LoseAnswer
  <2>1. UNCHANGED <<workflowVars, shown>> /\ MayBeginLoad
    BY <1>9 DEF LoseAnswer, pageVars, MayBeginLoad
  <2> QED BY <1>0, <2>1, QuietKeeps
<1>10. ASSUME NEW d \in DOMAIN decisions, Preflight(d)
       PROVE  PageInv' /\ (shown # None => shown'.seen >= shown.seen)
  <2>1. UNCHANGED <<workflowVars, shown>> /\ MayBeginLoad
    BY <1>10 DEF Preflight, Refuse, pageVars, MayBeginLoad
  <2> QED BY <1>0, <2>1, QuietKeeps
<1>11. ASSUME NEW d \in DOMAIN decisions, Signal(d)
       PROVE  PageInv' /\ (shown # None => shown'.seen >= shown.seen)
  <2>1. UNCHANGED shown
    BY <1>11 DEF Signal, Acknowledge, Refuse, pageVars
  <2> QED BY <1>0, <1>11, <2>1, SignalKeeps
<1>12. CASE UNCHANGED vars
  <2>1. UNCHANGED <<workflowVars, shown>> /\ MayBeginLoad
    BY <1>12 DEF vars, pageVars, MayBeginLoad
  <2> QED BY <1>0, <2>1, QuietKeeps
<1> QED BY <1>1, <1>2, <1>3, <1>4, <1>5, <1>6, <1>7, <1>8, <1>9, <1>10, <1>11,
           <1>12 DEF Next

\* Whatever is old on the page, a refund it shows as completed has succeeded
\* and one it shows as being processed was accepted by the customer: the
\* timeline is a projection of the workflow's stage (toRefundJourneyView),
\* and no step of the workflow takes such a stage back.
THEOREM ProgressIsReal == Spec => []ShownProgressIsReal
<1>1. PageInv /\ [Next]_vars => PageInv'
  BY StepKeeps
<1>2. PageInv => ShownProgressIsReal
  BY DEF PageInv, ShownInv
<1> QED BY InitEstablishes, <1>1, <1>2, PTL DEF Spec

\* What the page shows is never replaced by what was read earlier: loadJourney
\* refuses to start while a load is under way, so no answer overtakes another.
THEOREM NeverGoesBack == Spec => ShownNeverGoesBack
<1>1. PageInv /\ [Next]_vars => PageInv'
  BY StepKeeps
<1>2. PageInv /\ [Next]_vars => [shown # None => shown'.seen >= shown.seen]_shown
  BY StepKeeps
<1> QED BY InitEstablishes, <1>1, <1>2, PTL DEF Spec, ShownNeverGoesBack
=============================================================================

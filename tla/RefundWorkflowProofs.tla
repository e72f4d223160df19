----------------------- MODULE RefundWorkflowProofs -----------------------
(***************************************************************************)
(* The safety of one refund journey, for every validity, deadline, poll    *)
(* interval and number of waiting signals: type correctness, that money is *)
(* requested only when it is authorized, that the case keeps step with the *)
(* workflow, that an expired offer never pays, and that the workflow keeps *)
(* the promise of RefundJourney.                                           *)
(***************************************************************************)
EXTENDS RefundWorkflow, TLAPS

----------------------------------------------------------------------------
(* The inductive invariant.  None of the properties is inductive alone:    *)
(* they speak of the end of the journey, and follow from what each control *)
(* point before it has established.                                        *)

\* What the workflow keeps was said by somebody: an answer by the customer, a
\* decision by staff, whichever route or buffer it came through.
Attributed ==
  /\ posted \subseteq answered
  /\ reply # "NONE" => reply \in answered
  /\ \A i \in DOMAIN signals : signals[i] \in decided
  /\ humanCase.decision # "NONE" => humanCase.decision \in decided
  /\ human # "NONE" => human \in decided

\* Accepted evidence stays accepted, and a required photo is looked at before
\* the facts.
PhotoKept ==
  /\ evidence => document = "ACCEPTED"
  /\ (at \in {"CHECK_FACTS", "EXECUTE"} \/ RefundRequested) =>
       (needsPhoto => document = "ACCEPTED")

\* The decision the workflow acts on grants the refund in the branch it took.
Granted ==
  /\ branch \in ReviewClasses
  /\ branch = "ALLOW" => effect = "ALLOW"
  /\ branch = "APPROVAL_REQUIRED" => effect = "APPROVAL_REQUIRED" /\ human = "APPROVE"
  /\ branch = "TAKEOVER_REQUIRED" =>
       effect \in ReviewClasses /\ human = "APPROVE_EXCEPTIONAL_REFUND"

BeforeSwitch == CollectionPoints \cup {"EVALUATE", "EXPIRE_EVIDENCE", "REEVALUATE"}

\* The switch and what the branches keep, at every control point.
RouteInv ==
  /\ at \in BeforeSwitch => branch = "NONE" /\ reply = "NONE" /\ human = "NONE"
  /\ at = "CLOSE_EVIDENCE" =>
       /\ evidence /\ human = "NONE"
       /\ \/ branch = "NONE" /\ effect \in {"ALLOW", "DENY"} /\ reply = "NONE"
          \/ branch = "APPROVAL_REQUIRED" /\ reply # "ACCEPT"
  /\ at \in {"PREVIEW", "CONFIRM"} =>
       /\ reply = "NONE"
       /\ \/ branch \in {"ALLOW", "APPROVAL_REQUIRED"} /\ effect = branch /\ human = "NONE"
          \/ branch = "TAKEOVER_REQUIRED" /\ Granted
  /\ at \in {"OPEN_CASE", "DECIDE", "CLOSE_CASE"} =>
       /\ branch \in DOMAIN Accepts /\ effect = branch
       /\ reply = IF branch = "APPROVAL_REQUIRED" THEN "ACCEPT" ELSE "NONE"
       /\ IF at = "CLOSE_CASE" THEN human \in Accepts[branch] ELSE human = "NONE"
  /\ at = "REFRESH_EXCEPTION" => branch = "TAKEOVER_REQUIRED" /\ reply = "NONE" /\ Granted
  /\ (at \in {"CHECK_EVIDENCE", "CHECK_FACTS", "EXECUTE"} \/ RefundRequested) =>
       reply = "ACCEPT" /\ Granted
  /\ RefundRequested => at = "RETURNED"

\* The one case of the journey: none yet, the evidence case still open, a
\* monetary case somebody can decide, or nothing left to do.
NoCase == humanCase.type = "NONE" /\ humanCase.status = "NONE"
EvidenceCaseOpen ==
  /\ humanCase.type = "EVIDENCE" /\ humanCase.status = "OPEN"
  /\ document # "ABSENT"
MonetaryCaseOpen ==
  /\ humanCase.type = branch
  /\ humanCase.status \in {"OPEN", "DECISION_PENDING"}
  /\ humanCase.status = "DECISION_PENDING" => humanCase.decision \in Accepts[branch]
NothingOpen == humanCase.status \in {"NONE", "CLOSED"}

\* The case keeps step with the workflow.
CaseInv ==
  /\ humanCase.type = "NONE" => humanCase.status = "NONE"
  /\ at = "EVALUATE" => NoCase /\ ~evidence /\ document = "ABSENT"
  /\ at = "OPEN_EVIDENCE" => ~evidence /\ (EvidenceCaseOpen \/ (NoCase /\ document = "ABSENT"))
  /\ at \in {"READ_EVIDENCE", "SLEEP", "EXPIRE_EVIDENCE"} => ~evidence /\ EvidenceCaseOpen
  /\ at \in {"REEVALUATE", "CLOSE_EVIDENCE"} => evidence /\ EvidenceCaseOpen
  /\ (at = "OPEN_CASE" \/ (at \in {"PREVIEW", "CONFIRM"} /\ branch = "APPROVAL_REQUIRED")) =>
       IF evidence THEN EvidenceCaseOpen ELSE NoCase
  /\ at \in {"PREVIEW", "CONFIRM"} /\ branch # "APPROVAL_REQUIRED" => NothingOpen
  /\ at \in {"DECIDE", "CLOSE_CASE"} => MonetaryCaseOpen
  /\ at \in {"REFRESH_EXCEPTION", "CHECK_EVIDENCE", "CHECK_FACTS", "EXECUTE", "RETURNED"} =>
       NothingOpen

\* The loop's count of reads is below its limit where the loop can still read.
PollsInv == at \in CollectionPoints \cup {"EVALUATE"} => polls < PollsPerRun

IInv == TypeOK /\ PollsInv /\ Attributed /\ PhotoKept /\ RouteInv /\ CaseInv

\* An offer that ran out unanswered: still waited for, being wound up, or over.
Lapsed ==
  \/ OfferLapsed
  \/ at = "CLOSE_EVIDENCE" /\ branch = "APPROVAL_REQUIRED"
  \/ at \in {"RETURNED", "FAILED"} /\ ~RefundRequested

----------------------------------------------------------------------------
(* The decision tables of the workflow, one row at a time.                 *)

\* The switch on a verdict: return, open a case, or make an offer.
LEMMA DispatchRows ==
  ASSUME NEW e \in Effects, Dispatch(e)
  PROVE  \/ e = "NEEDS_FACTS" /\ at' = "RETURNED" /\ stage' = "NEEDS_FACTS" /\ branch' = branch
         \/ e = "DENY" /\ at' = "RETURNED" /\ stage' = "DENIED" /\ branch' = branch
         \/ e = "TAKEOVER_REQUIRED" /\ at' = "OPEN_CASE" /\ stage' = stage /\ branch' = e
         \/ e \in {"ALLOW", "APPROVAL_REQUIRED"} /\ at' = "PREVIEW" /\ stage' = stage /\ branch' = e
<1>1. CASE e = "NEEDS_FACTS"
  BY <1>1 DEF Dispatch, Returns
<1>2. CASE e = "DENY"
  BY <1>2 DEF Dispatch, Returns
<1>3. CASE e = "TAKEOVER_REQUIRED"
  BY <1>3 DEF Dispatch, Returns
<1>4. CASE e \in {"ALLOW", "APPROVAL_REQUIRED"}
  BY <1>4 DEF Dispatch, Returns
<1> QED
  BY <1>1, <1>2, <1>3, <1>4 DEF Effects, ReviewClasses

\* A timely confirmation: on to the money or the approval, or the journey is over.
LEMMA ConfirmedRows ==
  ASSUME NEW answer \in Replies, Confirmed(answer)
  PROVE  \/ /\ answer = "ACCEPT" /\ stage' = stage
            /\ at' = IF branch = "APPROVAL_REQUIRED" THEN "OPEN_CASE" ELSE "CHECK_EVIDENCE"
         \/ /\ answer = "DECLINE" /\ stage' = stage
            /\ at' = "CLOSE_EVIDENCE" /\ branch = "APPROVAL_REQUIRED" /\ evidence
         \/ /\ answer = "DECLINE" /\ stage' = "CANCELLED"
            /\ at' = "RETURNED" /\ ~(branch = "APPROVAL_REQUIRED" /\ evidence)
<1>1. CASE answer = "ACCEPT"
  BY <1>1 DEF Confirmed, Returns
<1>2. CASE answer = "DECLINE" /\ branch = "APPROVAL_REQUIRED" /\ evidence
  BY <1>2 DEF Confirmed, Returns
<1>3. CASE answer = "DECLINE" /\ ~(branch = "APPROVAL_REQUIRED" /\ evidence)
  BY <1>3 DEF Confirmed, Returns
<1> QED
  BY <1>1, <1>2, <1>3 DEF Replies

\* A monetary case is closed with the decision the workflow kept.
LEMMA ClosedWithDecision ==
  ASSUME RouteInv, CloseCase
  PROVE  human \in Decisions
<1>1. at = "CLOSE_CASE"
  BY Zenon DEF CloseCase
<1> QED
  BY <1>1 DEF RouteInv, Accepts, Decisions

\* A closed case: the decision it was closed with says what follows.
LEMMA CloseCaseRows ==
  ASSUME CloseCase, human \in Decisions
  PROVE  /\ \/ human = "REJECT" /\ at' = "RETURNED" /\ stage' = "REJECTED"
            \/ human = "RESOLVE_TAKEOVER" /\ at' = "RETURNED" /\ stage' = "TAKEOVER_RESOLVED"
            \/ human = "APPROVE" /\ at' = "CHECK_EVIDENCE" /\ stage' = stage
            \/ /\ human = "APPROVE_EXCEPTIONAL_REFUND"
               /\ at' = "REFRESH_EXCEPTION" /\ stage' = stage
         /\ at = "CLOSE_CASE" /\ CaseClosed
         /\ UNCHANGED <<needsPhoto, effect, branch, evidence, reply, human, polls, validLeft,
                        windowLeft, napLeft, document, decided, signals, answered, posted>>
<1>0. /\ at = "CLOSE_CASE" /\ CaseClosed
      /\ UNCHANGED <<needsPhoto, effect, branch, evidence, reply, human, polls, validLeft,
                     windowLeft, napLeft, document, decided, signals, answered, posted>>
  BY Zenon DEF CloseCase, clockVars, customerVars
<1>1. CASE human = "REJECT"
  BY <1>0, <1>1 DEF CloseCase, Returns
<1>2. CASE human = "RESOLVE_TAKEOVER"
  BY <1>0, <1>2 DEF CloseCase, Returns
<1>3. CASE human = "APPROVE"
  BY <1>0, <1>3 DEF CloseCase, Returns
<1>4. CASE human = "APPROVE_EXCEPTIONAL_REFUND"
  BY <1>0, <1>4 DEF CloseCase, Returns
<1> QED
  BY <1>1, <1>2, <1>3, <1>4 DEF Decisions

\* The verdicts that can be reached with an accepted photo do not ask for one.
LEMMA VerdictsWithPhoto == EvaluateRefundPolicy(TRUE) = {"DENY"} \cup ReviewClasses
BY DEF EvaluateRefundPolicy

\* After an exceptional approval: over, or an offer under the verdict in force.
LEMMA RefreshExceptionRows ==
  ASSUME RefreshException
  PROVE  /\ \/ /\ at' = "RETURNED" /\ stage' \in {"PREVIEW_INVALIDATED", "DENIED"}
               /\ \/ effect' = effect /\ validLeft' = validLeft
                  \/ effect' = "DENY" /\ validLeft' = Validity
            \/ /\ at' = "PREVIEW" /\ stage' = stage
               /\ \/ effect' = effect /\ validLeft' = validLeft
                  \/ effect' \in ReviewClasses /\ validLeft' = Validity
         /\ at = "REFRESH_EXCEPTION"
         /\ UNCHANGED <<needsPhoto, branch, evidence, reply, human, polls, windowLeft, napLeft,
                        document, humanCase, decided, signals, answered, posted>>
<1>0. /\ at = "REFRESH_EXCEPTION"
      /\ UNCHANGED <<needsPhoto, branch, evidence, reply, human, polls, windowLeft, napLeft,
                     document, humanCase, decided, signals, answered, posted>>
  BY Zenon DEF RefreshException, staffVars, customerVars
<1>1. CASE evidence /\ document # "ACCEPTED"
  BY <1>0, <1>1 DEF RefreshException, Returns
<1>2. CASE evidence /\ document = "ACCEPTED"
  <2>1. effect' \in {"DENY"} \cup ReviewClasses /\ validLeft' = Validity
    BY <1>2, VerdictsWithPhoto DEF RefreshException
  <2>2. CASE effect' = "DENY"
    BY <1>0, <1>2, <2>1, <2>2 DEF RefreshException, Returns
  <2>3. CASE effect' \in ReviewClasses
    <3>1. effect' # "DENY" /\ effect' # "NEEDS_FACTS"
      BY <2>3 DEF ReviewClasses
    <3>2. at' = "PREVIEW" /\ stage' = stage
      BY <1>2, <3>1 DEF RefreshException
    <3> QED
      BY <1>0, <2>1, <2>3, <3>2
  <2> QED
    BY <2>1, <2>2, <2>3
<1>3. CASE ~evidence
  BY <1>0, <1>3 DEF RefreshException
<1> QED
  BY <1>1, <1>2, <1>3

\* A turn of the evidence loop over what human operations answered.
LEMMA CollectionTurnRows ==
  ASSUME TypeOK, NEW doc, CollectionTurn(ParseEvidenceSnapshot(doc))
  PROVE  \/ /\ at' = "EXPIRE_EVIDENCE" /\ stage' = stage /\ napLeft' = napLeft
            /\ evidence' = evidence
         \/ /\ at' = "REEVALUATE" /\ stage' = stage /\ napLeft' = napLeft
            /\ doc = "ACCEPTED" /\ evidence' = TRUE
         \/ /\ at' = "SLEEP" /\ stage' \in {"AWAITING_EVIDENCE_REVIEW", "AWAITING_CUSTOMER_EVIDENCE"}
            /\ napLeft' \in 0..PollInterval /\ evidence' = evidence
            /\ doc # "ACCEPTED" /\ windowLeft # 0
<1>0. ParseEvidenceSnapshot(doc).accepted <=> doc = "ACCEPTED"
  BY DEF ParseEvidenceSnapshot
<1>1. CASE windowLeft = 0
  BY <1>1 DEF CollectionTurn
<1>2. CASE windowLeft # 0 /\ doc = "ACCEPTED"
  BY <1>0, <1>2 DEF CollectionTurn
<1>3. CASE windowLeft # 0 /\ doc # "ACCEPTED"
  <2>1. Smaller(PollInterval, windowLeft) \in 0..PollInterval
    BY TimeAssumption DEF Smaller, TypeOK
  <2> QED
    BY <1>0, <1>3, <2>1 DEF CollectionTurn
<1> QED
  BY <1>1, <1>2, <1>3

\* An offer that ended unanswered closes the evidence case or returns.
LEMMA UnconfirmedRows ==
  ASSUME Unconfirmed
  PROVE  \/ at' = "CLOSE_EVIDENCE" /\ stage' = stage /\ branch = "APPROVAL_REQUIRED" /\ evidence
         \/ /\ at' = "RETURNED" /\ stage' = "PREVIEW_INVALIDATED"
            /\ ~(branch = "APPROVAL_REQUIRED" /\ evidence)
BY DEF Unconfirmed, Returns

\* The first evaluation: start a collection, or take the switch.
LEMMA EvaluateRows ==
  ASSUME Evaluate
  PROVE  \/ /\ at' = "OPEN_EVIDENCE" /\ stage' = stage /\ branch' = branch
            /\ effect' = "NEEDS_FACTS" /\ needsPhoto
         \/ /\ at' = "RETURNED" /\ stage' \in {"NEEDS_FACTS", "DENIED"} /\ branch' = branch
            /\ effect' \in {"NEEDS_FACTS", "DENY"}
         \/ /\ at' = "OPEN_CASE" /\ stage' = stage /\ branch' = "TAKEOVER_REQUIRED"
            /\ effect' = "TAKEOVER_REQUIRED"
         \/ /\ at' = "PREVIEW" /\ stage' = stage /\ branch' = effect'
            /\ effect' \in {"ALLOW", "APPROVAL_REQUIRED"}
<1>1. PICK e \in Effects : e = effect'
  BY DEF Evaluate, EvaluateRefundPolicy, Effects, ReviewClasses
<1>2. CASE needsPhoto /\ effect' = "NEEDS_FACTS"
  BY <1>2 DEF Evaluate
<1>3. CASE ~(needsPhoto /\ effect' = "NEEDS_FACTS")
  <2>1. Dispatch(e)
    BY <1>1, <1>3 DEF Evaluate
  <2> QED
    BY <1>1, <2>1, DispatchRows
<1> QED
  BY <1>2, <1>3

\* The second one: close the evidence case first, or take the switch.
LEMMA ReevaluateRows ==
  ASSUME Reevaluate
  PROVE  \/ /\ at' = "CLOSE_EVIDENCE" /\ stage' = stage /\ branch' = branch
            /\ effect' \in {"ALLOW", "DENY"}
         \/ /\ at' = "OPEN_CASE" /\ stage' = stage /\ branch' = "TAKEOVER_REQUIRED"
            /\ effect' = "TAKEOVER_REQUIRED"
         \/ /\ at' = "PREVIEW" /\ stage' = stage /\ branch' = "APPROVAL_REQUIRED"
            /\ effect' = "APPROVAL_REQUIRED"
<1>1. PICK e \in Effects : e = effect'
  BY VerdictsWithPhoto DEF Reevaluate, Effects
<1>2. e # "NEEDS_FACTS"
  BY <1>1, VerdictsWithPhoto DEF Reevaluate, ReviewClasses
<1>3. CASE e \in {"ALLOW", "DENY", "NEEDS_FACTS"}
  BY <1>1, <1>2, <1>3 DEF Reevaluate
<1>4. CASE e \notin {"ALLOW", "DENY", "NEEDS_FACTS"}
  <2>1. Dispatch(e)
    BY <1>1, <1>4 DEF Reevaluate
  <2> QED
    BY <1>1, <1>4, <2>1, DispatchRows
<1> QED
  BY <1>3, <1>4

\* The evidence case closed: the journey is over, or an unreviewed offer is made.
LEMMA CloseEvidenceRows ==
  ASSUME CloseEvidence, RouteInv
  PROVE  \/ /\ at' = "RETURNED" /\ stage' \in {"CANCELLED", "PREVIEW_INVALIDATED", "DENIED"}
            /\ branch' = branch
         \/ /\ at' = "PREVIEW" /\ stage' = stage /\ branch = "NONE" /\ branch' = "ALLOW"
            /\ effect = "ALLOW"
<1>1. CASE branch = "APPROVAL_REQUIRED"
  BY <1>1 DEF CloseEvidence, Returns
<1>2. CASE branch # "APPROVAL_REQUIRED"
  <2>1. branch = "NONE" /\ effect \in {"ALLOW", "DENY"}
    BY <1>2 DEF CloseEvidence, RouteInv
  <2>2. PICK e \in Effects : e = effect
    BY <2>1 DEF Effects, ReviewClasses
  <2>3. Dispatch(e)
    BY <1>2, <2>2 DEF CloseEvidence
  <2> QED
    BY <2>1, <2>2, <2>3, DispatchRows
<1> QED
  BY <1>1, <1>2

\* The collection opened: its record and case exist from now on.
LEMMA OpenEvidenceRows ==
  ASSUME TypeOK, OpenEvidence
  PROVE  /\ \/ /\ at' = "EXPIRE_EVIDENCE" /\ stage' = stage /\ napLeft' = napLeft
               /\ evidence' = evidence
            \/ /\ at' = "REEVALUATE" /\ stage' = stage /\ napLeft' = napLeft
               /\ document' = "ACCEPTED" /\ evidence' = TRUE
            \/ /\ at' = "SLEEP"
               /\ stage' \in {"AWAITING_EVIDENCE_REVIEW", "AWAITING_CUSTOMER_EVIDENCE"}
               /\ napLeft' \in 0..PollInterval /\ evidence' = evidence
         /\ at = "OPEN_EVIDENCE"
         /\ document' = IF document = "ABSENT" THEN "EMPTY" ELSE document
         /\ \/ humanCase.type # "NONE" /\ humanCase' = humanCase
            \/ /\ humanCase.type = "NONE" /\ humanCase'.type = "EVIDENCE"
               /\ humanCase'.status = "OPEN" /\ humanCase'.decision = "NONE"
         /\ UNCHANGED <<needsPhoto, effect, branch, reply, human, polls, validLeft, windowLeft,
                        decided, signals, answered, posted>>
<1>1. PICK d : d = document'
  OBVIOUS
<1>2. CollectionTurn(ParseEvidenceSnapshot(d))
  BY <1>1 DEF OpenEvidence
<1>3. \/ humanCase.type # "NONE" /\ humanCase' = humanCase
      \/ /\ humanCase.type = "NONE" /\ humanCase'.type = "EVIDENCE"
         /\ humanCase'.status = "OPEN" /\ humanCase'.decision = "NONE"
  BY DEF OpenEvidence, OpenCaseInput
<1>4. /\ at = "OPEN_EVIDENCE"
      /\ document' = IF document = "ABSENT" THEN "EMPTY" ELSE document
      /\ UNCHANGED <<needsPhoto, effect, branch, reply, human, polls, validLeft, windowLeft,
                     decided, signals, answered, posted>>
  BY DEF OpenEvidence, customerVars
<1> QED
  BY <1>1, <1>2, <1>3, <1>4, CollectionTurnRows

\* A read of the evidence: a new run, or another turn.
LEMMA ReadEvidenceRows ==
  ASSUME TypeOK, PollsInv, ReadEvidence
  PROVE  /\ \/ /\ at' = "OPEN_EVIDENCE" /\ stage' = "EVALUATING" /\ napLeft' = napLeft
               /\ evidence' = evidence /\ polls' = 0 /\ signals' = <<>>
            \/ /\ polls' = polls + 1 /\ polls + 1 \in 0..PollsPerRun /\ signals' = signals
               /\ \/ /\ at' = "EXPIRE_EVIDENCE" /\ stage' = stage /\ napLeft' = napLeft
                     /\ evidence' = evidence
                  \/ /\ at' = "REEVALUATE" /\ stage' = stage /\ napLeft' = napLeft
                     /\ document = "ACCEPTED" /\ evidence' = TRUE
                  \/ /\ at' = "SLEEP"
                     /\ stage' \in {"AWAITING_EVIDENCE_REVIEW", "AWAITING_CUSTOMER_EVIDENCE"}
                     /\ napLeft' \in 0..PollInterval /\ evidence' = evidence
                     /\ polls + 1 < PollsPerRun
         /\ at = "READ_EVIDENCE"
         /\ UNCHANGED <<needsPhoto, effect, branch, reply, human, validLeft, windowLeft, document,
                        humanCase, decided, answered, posted>>
<1>1. PICK d : d = document
  OBVIOUS
<1>2. ParseEvidenceSnapshot(d).accepted <=> d = "ACCEPTED"
  BY DEF ParseEvidenceSnapshot
<1>3. /\ at = "READ_EVIDENCE"
      /\ UNCHANGED <<needsPhoto, effect, branch, reply, human, validLeft, document, humanCase,
                     decided, answered, posted>>
  BY DEF ReadEvidence, staffVars, customerVars
<1>4. CASE polls + 1 >= PollsPerRun /\ d # "ACCEPTED" /\ windowLeft > 0
  <2>1. ContinueAsNew
    BY <1>1, <1>2, <1>4 DEF ReadEvidence
  <2> QED
    BY <1>3, <2>1 DEF ContinueAsNew
<1>5. CASE ~(polls + 1 >= PollsPerRun /\ d # "ACCEPTED" /\ windowLeft > 0)
  <2>1. /\ CollectionTurn(ParseEvidenceSnapshot(d)) /\ polls' = polls + 1
        /\ signals' = signals /\ windowLeft' = windowLeft
    BY <1>1, <1>2, <1>5 DEF ReadEvidence
  <2>2. polls + 1 \in 0..PollsPerRun
    BY PollsAssumption DEF ReadEvidence, PollsInv, CollectionPoints, TypeOK
  <2>3. (d # "ACCEPTED" /\ windowLeft # 0) => polls + 1 < PollsPerRun
    BY <1>5, PollsAssumption DEF TypeOK
  <2> QED
    BY <1>1, <1>3, <2>1, <2>2, <2>3, CollectionTurnRows
<1> QED
  BY <1>4, <1>5

\* A monetary case opened or taken over is undecided and of the branch's type.
LEMMA OpenCaseRows ==
  ASSUME OpenCase
  PROVE  /\ at = "OPEN_CASE" /\ at' = "DECIDE"
         /\ stage' \in {"AWAITING_APPROVAL", "HUMAN_TAKEOVER_REQUIRED"}
         /\ humanCase'.type = branch /\ humanCase'.status = "OPEN"
         /\ humanCase'.decision = "NONE"
         /\ UNCHANGED <<needsPhoto, effect, branch, evidence, reply, human, polls, validLeft,
                        windowLeft, napLeft, document, decided, signals, answered, posted>>
<1>1. humanCase' = OpenCaseInput(branch)
  BY DEF OpenCase, TransitionRefundEvidence, OpenHumanCase
<1>2. humanCase'.type = branch /\ humanCase'.status = "OPEN" /\ humanCase'.decision = "NONE"
  BY <1>1 DEF OpenCaseInput
<1> QED
  BY <1>2 DEF OpenCase, clockVars, customerVars

----------------------------------------------------------------------------
(* Type correctness.                                                       *)

\* The state a journey starts in is well typed.
LEMMA TypeInit == Init => TypeOK
<1> SUFFICES ASSUME Init PROVE TypeOK
  OBVIOUS
<1>1. humanCase \in [type : CaseTypes, status : {"NONE", "OPEN", "DECISION_PENDING", "CLOSED"},
                    decision : Decisions \cup {"NONE"}]
  BY DEF Init, CaseTypes
<1>2. polls \in 0..PollsPerRun /\ validLeft \in 0..Validity
      /\ windowLeft \in 0..EvidenceWindow /\ napLeft \in 0..PollInterval
  BY TimeAssumption, PollsAssumption DEF Init
<1>3. at \in ControlPoints /\ stage \in Stages /\ signals \in Seq(Decisions)
  BY DEF Init, ControlPoints, Activities, Stages
<1> QED
  BY <1>1, <1>2, <1>3 DEF Init, TypeOK, Documents

\* A closed case keeps its type and its decision.
LEMMA CaseClosedType ==
  ASSUME TypeOK, CaseClosed
  PROVE  /\ humanCase' \in [type : CaseTypes,
                            status : {"NONE", "OPEN", "DECISION_PENDING", "CLOSED"},
                            decision : Decisions \cup {"NONE"}]
         /\ humanCase'.type = humanCase.type
         /\ humanCase'.status = "CLOSED"
         /\ humanCase'.decision = humanCase.decision
BY DEF TypeOK, CaseClosed

\* A case that is asked for is open, of the type asked for, and undecided.
LEMMA OpenCaseInputType ==
  ASSUME NEW type \in CaseTypes
  PROVE  /\ OpenCaseInput(type) \in [type : CaseTypes,
                                     status : {"NONE", "OPEN", "DECISION_PENDING", "CLOSED"},
                                     decision : Decisions \cup {"NONE"}]
         /\ OpenCaseInput(type).type = type
         /\ OpenCaseInput(type).status = "OPEN"
         /\ OpenCaseInput(type).decision = "NONE"
BY DEF OpenCaseInput

\* Every step keeps the types.  Beside TypeOK it needs what the switch handed on:
\* the branch a case is opened for is a case type.
LEMMA TypeStep ==
  ASSUME TypeOK, PollsInv, RouteInv, [Next]_vars
  PROVE  TypeOK'
<1> USE DEF workflowVars, clockVars, staffVars, customerVars
<1>0. /\ {"OPEN_EVIDENCE", "READ_EVIDENCE", "EXPIRE_EVIDENCE", "REEVALUATE", "CLOSE_EVIDENCE",
          "PREVIEW", "OPEN_CASE", "CLOSE_CASE", "REFRESH_EXCEPTION", "CHECK_EVIDENCE",
          "CHECK_FACTS", "EXECUTE", "SLEEP", "CONFIRM", "DECIDE", "RETURNED", "FAILED"}
           \subseteq ControlPoints
      /\ {"AWAITING_CUSTOMER_EVIDENCE", "AWAITING_EVIDENCE_REVIEW", "EVIDENCE_COLLECTION_EXPIRED",
          "EVALUATING", "NEEDS_FACTS", "DENIED", "AWAITING_CUSTOMER_CONFIRMATION",
          "AWAITING_APPROVAL", "HUMAN_TAKEOVER_REQUIRED", "PREVIEW_INVALIDATED", "CANCELLED",
          "REJECTED", "TAKEOVER_RESOLVED", "REFUND_REQUESTED"} \subseteq Stages
      /\ ReviewClasses = {"ALLOW", "APPROVAL_REQUIRED", "TAKEOVER_REQUIRED"}
      /\ ReviewClasses \subseteq Effects /\ {"DENY", "NEEDS_FACTS"} \subseteq Effects
      /\ DOMAIN Accepts = {"APPROVAL_REQUIRED", "TAKEOVER_REQUIRED"}
      /\ CaseTypes = {"NONE", "EVIDENCE", "APPROVAL_REQUIRED", "TAKEOVER_REQUIRED"}
  BY DEF ControlPoints, Activities, Waits, Stages, Effects, ReviewClasses, Accepts, CaseTypes
<1>clock. /\ Validity \in Nat /\ EvidenceWindow \in Nat /\ PollInterval \in Nat
          /\ PollsPerRun \in Nat \ {0} /\ Validity \in 0..Validity
  BY TimeAssumption, PollsAssumption
<1>Evaluate. CASE Evaluate
  <2>1. /\ at' \in ControlPoints /\ stage' \in Stages /\ branch' \in ReviewClasses \cup {"NONE"}
        /\ effect' \in Effects
    BY <1>Evaluate, <1>0, EvaluateRows DEF TypeOK
  <2> QED
    BY <1>Evaluate, <1>clock, <2>1 DEF TypeOK, Evaluate
<1>OpenEvidence. CASE OpenEvidence
  <2>1. /\ at' \in {"EXPIRE_EVIDENCE", "REEVALUATE", "SLEEP"}
        /\ stage' \in {stage, "AWAITING_EVIDENCE_REVIEW", "AWAITING_CUSTOMER_EVIDENCE"}
        /\ napLeft' = napLeft \/ napLeft' \in 0..PollInterval
        /\ evidence' \in {evidence, TRUE}
    BY <1>OpenEvidence, OpenEvidenceRows
  <2>2. humanCase' \in [type : CaseTypes, status : {"NONE", "OPEN", "DECISION_PENDING", "CLOSED"},
                        decision : Decisions \cup {"NONE"}]
    <3>1. OpenCaseInput("EVIDENCE") \in
            [type : CaseTypes, status : {"NONE", "OPEN", "DECISION_PENDING", "CLOSED"},
             decision : Decisions \cup {"NONE"}]
      BY <1>0, OpenCaseInputType
    <3> QED
      BY <1>OpenEvidence, <3>1 DEF OpenEvidence, TypeOK
  <2>3. document' \in Documents
    BY <1>OpenEvidence DEF OpenEvidence, TypeOK, Documents
  <2> QED
    BY <1>OpenEvidence, <1>0, <2>1, <2>2, <2>3 DEF TypeOK, OpenEvidence
<1>Wake. CASE Wake
  BY <1>Wake, <1>0 DEF TypeOK, Wake
<1>ReadEvidence. CASE ReadEvidence
  <2>1. /\ at' \in {"OPEN_EVIDENCE", "EXPIRE_EVIDENCE", "REEVALUATE", "SLEEP"}
        /\ stage' \in {stage, "EVALUATING", "AWAITING_EVIDENCE_REVIEW", "AWAITING_CUSTOMER_EVIDENCE"}
        /\ napLeft' = napLeft \/ napLeft' \in 0..PollInterval
        /\ evidence' \in {evidence, TRUE}
        /\ polls' = 0 \/ polls' \in 0..PollsPerRun
        /\ signals' = signals \/ signals' = <<>>
        /\ windowLeft' = windowLeft
    BY <1>ReadEvidence, ReadEvidenceRows
  <2>2. polls' \in 0..PollsPerRun
    BY <1>clock, <2>1
  <2>3. signals' \in Seq(Decisions)
    <3>1. <<>> \in Seq(Decisions) /\ signals \in Seq(Decisions)
      BY DEF TypeOK
    <3> QED
      BY <2>1, <3>1
  <2>4. /\ UNCHANGED <<needsPhoto, effect, branch, reply, human, validLeft, document, humanCase>>
        /\ UNCHANGED <<decided, answered, posted>>
    BY <1>ReadEvidence DEF ReadEvidence
  <2>5. /\ at' \in ControlPoints /\ stage' \in Stages
        /\ napLeft' \in 0..PollInterval /\ evidence' \in BOOLEAN
        /\ windowLeft' \in 0..EvidenceWindow
    <3>1. stage \in Stages /\ napLeft \in 0..PollInterval /\ evidence \in BOOLEAN
          /\ windowLeft \in 0..EvidenceWindow
      BY DEF TypeOK
    <3> QED
      BY <1>0, <2>1, <3>1
  <2> QED
    BY <2>2, <2>3, <2>4, <2>5 DEF TypeOK
<1>ExpireEvidence. CASE ExpireEvidence
  BY <1>ExpireEvidence, <1>0, CaseClosedType DEF TypeOK, ExpireEvidence, Returns
<1>Reevaluate. CASE Reevaluate
  <2>1. /\ at' \in ControlPoints /\ stage' \in Stages /\ branch' \in ReviewClasses \cup {"NONE"}
        /\ effect' \in Effects
    BY <1>Reevaluate, <1>0, ReevaluateRows DEF TypeOK
  <2> QED
    BY <1>Reevaluate, <1>clock, <2>1 DEF TypeOK, Reevaluate
<1>CloseEvidence. CASE CloseEvidence
  <2>1. at' \in ControlPoints /\ stage' \in Stages /\ branch' \in ReviewClasses \cup {"NONE"}
    <3>1. /\ at' \in {"RETURNED", "PREVIEW"} /\ branch' \in {branch, "ALLOW"}
          /\ stage' \in {stage, "CANCELLED", "PREVIEW_INVALIDATED", "DENIED"}
      BY <1>CloseEvidence, CloseEvidenceRows
    <3> QED
      BY <3>1, <1>0 DEF TypeOK
  <2>2. humanCase' \in [type : CaseTypes, status : {"NONE", "OPEN", "DECISION_PENDING", "CLOSED"},
                        decision : Decisions \cup {"NONE"}]
    BY <1>CloseEvidence, CaseClosedType DEF CloseEvidence
  <2> QED
    BY <1>CloseEvidence, <2>1, <2>2 DEF TypeOK, CloseEvidence
<1>CreatePreview. CASE CreatePreview
  BY <1>CreatePreview, <1>0, UnconfirmedRows DEF TypeOK, CreatePreview
<1>PreviewExpires. CASE PreviewExpires
  BY <1>PreviewExpires, <1>0, UnconfirmedRows DEF TypeOK, PreviewExpires
<1>OpenCase. CASE OpenCase
  <2>1. branch \in CaseTypes
    BY <1>OpenCase, <1>0 DEF OpenCase, RouteInv
  <2>2. humanCase' \in [type : CaseTypes, status : {"NONE", "OPEN", "DECISION_PENDING", "CLOSED"},
                        decision : Decisions \cup {"NONE"}]
    BY <1>OpenCase, <2>1, OpenCaseInputType
       DEF OpenCase, TransitionRefundEvidence, OpenHumanCase
  <2> QED
    BY <1>OpenCase, <1>0, <2>2 DEF TypeOK, OpenCase
<1>HandleDecisions. CASE HandleDecisions
  BY <1>HandleDecisions, <1>0 DEF TypeOK, HandleDecisions
<1>CloseCase. CASE CloseCase
  <2>1. human \in Decisions
    BY <1>CloseCase, ClosedWithDecision
  <2>2. at' \in ControlPoints /\ stage' \in Stages
    BY <1>CloseCase, <2>1, <1>0, CloseCaseRows DEF TypeOK
  <2>3. humanCase' \in [type : CaseTypes, status : {"NONE", "OPEN", "DECISION_PENDING", "CLOSED"},
                        decision : Decisions \cup {"NONE"}]
    BY <1>CloseCase, <2>1, CloseCaseRows, CaseClosedType
  <2> QED
    BY <1>CloseCase, <2>1, <2>2, <2>3, CloseCaseRows DEF TypeOK
<1>RefreshException. CASE RefreshException
  <2>1. /\ at' \in ControlPoints /\ stage' \in Stages /\ effect' \in Effects \cup {"NONE"}
        /\ validLeft' \in 0..Validity
    BY <1>RefreshException, <1>0, <1>clock, RefreshExceptionRows DEF TypeOK
  <2> QED
    BY <1>RefreshException, <2>1, RefreshExceptionRows DEF TypeOK
<1>CheckEvidence. CASE CheckEvidence
  BY <1>CheckEvidence, <1>0 DEF TypeOK, CheckEvidence, Returns
<1>CheckFacts. CASE CheckFacts
  BY <1>CheckFacts, <1>0 DEF TypeOK, CheckFacts, Returns
<1>ExecuteRefund. CASE ExecuteRefund
  BY <1>ExecuteRefund, <1>0 DEF TypeOK, ExecuteRefund, Returns
<1>ActivityFails. CASE ActivityFails
  BY <1>ActivityFails, <1>0 DEF TypeOK, ActivityFails
<1>Preflight. ASSUME NEW answer \in Replies, Preflight(answer) PROVE TypeOK'
  BY <1>Preflight DEF TypeOK, Preflight
<1>SignalConfirmation. ASSUME NEW answer \in Replies, SignalConfirmation(answer) PROVE TypeOK'
  <2>1. at' \in ControlPoints /\ stage' \in Stages /\ reply' \in Replies \cup {"NONE"}
    BY <1>SignalConfirmation, <1>0, ConfirmedRows, UnconfirmedRows DEF TypeOK, SignalConfirmation
  <2> QED
    BY <1>SignalConfirmation, <2>1 DEF TypeOK, SignalConfirmation
<1>DecideCase. ASSUME NEW d \in Decisions, DecideCase(d) PROVE TypeOK'
  BY <1>DecideCase DEF TypeOK, DecideCase
<1>SignalDecision. ASSUME NEW d \in Decisions, SignalDecision(d) PROVE TypeOK'
  BY <1>SignalDecision DEF TypeOK, SignalDecision
<1>DeliverOutbox. CASE DeliverOutbox
  BY <1>DeliverOutbox DEF TypeOK, DeliverOutbox
<1>CustomerUploads. CASE CustomerUploads
  BY <1>CustomerUploads DEF TypeOK, CustomerUploads, Documents
<1>ReviewEvidence. CASE ReviewEvidence
  BY <1>ReviewEvidence DEF TypeOK, ReviewEvidence, Documents
<1>Tick. CASE Tick
  BY <1>Tick, <1>clock DEF TypeOK, Tick, Less
<1>stutter. CASE UNCHANGED vars
  BY <1>stutter DEF vars, TypeOK
<1> QED
  BY <1>Evaluate, <1>OpenEvidence, <1>Wake, <1>ReadEvidence, <1>ExpireEvidence, <1>Reevaluate,
     <1>CloseEvidence, <1>CreatePreview, <1>PreviewExpires, <1>OpenCase, <1>HandleDecisions,
     <1>CloseCase, <1>RefreshException, <1>CheckEvidence, <1>CheckFacts, <1>ExecuteRefund,
     <1>ActivityFails, <1>Preflight, <1>SignalConfirmation, <1>DecideCase, <1>SignalDecision,
     <1>DeliverOutbox, <1>CustomerUploads, <1>ReviewEvidence, <1>Tick, <1>stutter
     DEF Next, WorkflowStep
\* A new run starts counting again.
LEMMA PollsStep ==
  ASSUME TypeOK, PollsInv, RouteInv, [Next]_vars
  PROVE  PollsInv'
<1> USE DEF workflowVars, clockVars, staffVars, customerVars
<1> USE PollsAssumption DEF CollectionPoints
<1>Evaluate. CASE Evaluate
  BY <1>Evaluate, EvaluateRows DEF PollsInv, Evaluate
<1>OpenEvidence. CASE OpenEvidence
  BY <1>OpenEvidence, OpenEvidenceRows DEF PollsInv
<1>Wake. CASE Wake
  BY <1>Wake DEF PollsInv, Wake
<1>ReadEvidence. CASE ReadEvidence
  <2>1. \/ polls' = 0
        \/ at' = "SLEEP" /\ polls' = polls + 1 /\ polls + 1 < PollsPerRun
        \/ at' \in {"EXPIRE_EVIDENCE", "REEVALUATE"}
    BY <1>ReadEvidence, ReadEvidenceRows
  <2> QED
    BY <2>1 DEF PollsInv
<1>ExpireEvidence. CASE ExpireEvidence
  BY <1>ExpireEvidence, CaseClosedType DEF PollsInv, ExpireEvidence, Returns
<1>Reevaluate. CASE Reevaluate
  BY <1>Reevaluate, ReevaluateRows DEF PollsInv, Reevaluate
<1>CloseEvidence. CASE CloseEvidence
  BY <1>CloseEvidence, CloseEvidenceRows, CaseClosedType DEF PollsInv, CloseEvidence
<1>CreatePreview. CASE CreatePreview
  BY <1>CreatePreview, UnconfirmedRows DEF PollsInv, CreatePreview
<1>PreviewExpires. CASE PreviewExpires
  BY <1>PreviewExpires, UnconfirmedRows DEF PollsInv, PreviewExpires
<1>OpenCase. CASE OpenCase
  BY <1>OpenCase, OpenCaseRows DEF PollsInv
<1>HandleDecisions. CASE HandleDecisions
  BY <1>HandleDecisions DEF PollsInv, HandleDecisions
<1>CloseCase. CASE CloseCase
  BY <1>CloseCase, CloseCaseRows, ClosedWithDecision, CaseClosedType DEF PollsInv
<1>RefreshException. CASE RefreshException
  BY <1>RefreshException, RefreshExceptionRows DEF PollsInv
<1>CheckEvidence. CASE CheckEvidence
  BY <1>CheckEvidence DEF PollsInv, CheckEvidence, Returns
<1>CheckFacts. CASE CheckFacts
  BY <1>CheckFacts DEF PollsInv, CheckFacts, Returns
<1>ExecuteRefund. CASE ExecuteRefund
  BY <1>ExecuteRefund DEF PollsInv, ExecuteRefund, Returns
<1>ActivityFails. CASE ActivityFails
  BY <1>ActivityFails DEF PollsInv, ActivityFails
<1>Preflight. ASSUME NEW answer \in Replies, Preflight(answer) PROVE PollsInv'
  BY <1>Preflight DEF PollsInv, Preflight
<1>SignalConfirmation. ASSUME NEW answer \in Replies, SignalConfirmation(answer) PROVE PollsInv'
  BY <1>SignalConfirmation, ConfirmedRows, UnconfirmedRows DEF PollsInv, SignalConfirmation
<1>DecideCase. ASSUME NEW d \in Decisions, DecideCase(d) PROVE PollsInv'
  BY <1>DecideCase DEF PollsInv, DecideCase
<1>SignalDecision. ASSUME NEW d \in Decisions, SignalDecision(d) PROVE PollsInv'
  BY <1>SignalDecision DEF PollsInv, SignalDecision
<1>DeliverOutbox. CASE DeliverOutbox
  BY <1>DeliverOutbox DEF PollsInv, DeliverOutbox
<1>CustomerUploads. CASE CustomerUploads
  BY <1>CustomerUploads DEF PollsInv, CustomerUploads
<1>ReviewEvidence. CASE ReviewEvidence
  BY <1>ReviewEvidence DEF PollsInv, ReviewEvidence
<1>Tick. CASE Tick
  BY <1>Tick DEF PollsInv, Tick
<1>stutter. CASE UNCHANGED vars
  BY <1>stutter DEF vars, PollsInv
<1> QED
  BY <1>Evaluate, <1>OpenEvidence, <1>Wake, <1>ReadEvidence, <1>ExpireEvidence, <1>Reevaluate,
     <1>CloseEvidence, <1>CreatePreview, <1>PreviewExpires, <1>OpenCase, <1>HandleDecisions,
     <1>CloseCase, <1>RefreshException, <1>CheckEvidence, <1>CheckFacts, <1>ExecuteRefund,
     <1>ActivityFails, <1>Preflight, <1>SignalConfirmation, <1>DecideCase, <1>SignalDecision,
     <1>DeliverOutbox, <1>CustomerUploads, <1>ReviewEvidence, <1>Tick, <1>stutter
     DEF Next, WorkflowStep

\* Nothing the workflow keeps is made up: the buffers hand on what somebody said.
LEMMA AttributedStep ==
  ASSUME TypeOK, PollsInv, RouteInv, Attributed, [Next]_vars
  PROVE  Attributed'
<1> USE DEF workflowVars, clockVars, staffVars, customerVars
<1>Evaluate. CASE Evaluate
  BY <1>Evaluate, EvaluateRows DEF Attributed, Evaluate
<1>OpenEvidence. CASE OpenEvidence
  BY <1>OpenEvidence, OpenEvidenceRows DEF Attributed
<1>Wake. CASE Wake
  BY <1>Wake DEF Attributed, Wake
<1>ReadEvidence. CASE ReadEvidence
  <2>1. signals' = signals \/ signals' = <<>>
    BY <1>ReadEvidence, ReadEvidenceRows
  <2>2. \A i \in DOMAIN signals' : signals'[i] \in decided
    BY <2>1 DEF Attributed
  <2> QED
    BY <1>ReadEvidence, <2>2, ReadEvidenceRows DEF Attributed
<1>ExpireEvidence. CASE ExpireEvidence
  BY <1>ExpireEvidence, CaseClosedType DEF Attributed, ExpireEvidence, Returns
<1>Reevaluate. CASE Reevaluate
  BY <1>Reevaluate, ReevaluateRows DEF Attributed, Reevaluate
<1>CloseEvidence. CASE CloseEvidence
  BY <1>CloseEvidence, CloseEvidenceRows, CaseClosedType DEF Attributed, CloseEvidence
<1>CreatePreview. CASE CreatePreview
  BY <1>CreatePreview, UnconfirmedRows DEF Attributed, CreatePreview
<1>PreviewExpires. CASE PreviewExpires
  BY <1>PreviewExpires, UnconfirmedRows DEF Attributed, PreviewExpires
<1>OpenCase. CASE OpenCase
  BY <1>OpenCase, OpenCaseRows DEF Attributed
<1>HandleDecisions. CASE HandleDecisions
  BY <1>HandleDecisions DEF Attributed, HandleDecisions
<1>CloseCase. CASE CloseCase
  BY <1>CloseCase, CloseCaseRows, ClosedWithDecision, CaseClosedType DEF Attributed
<1>RefreshException. CASE RefreshException
  BY <1>RefreshException, RefreshExceptionRows DEF Attributed
<1>CheckEvidence. CASE CheckEvidence
  BY <1>CheckEvidence DEF Attributed, CheckEvidence, Returns
<1>CheckFacts. CASE CheckFacts
  BY <1>CheckFacts DEF Attributed, CheckFacts, Returns
<1>ExecuteRefund. CASE ExecuteRefund
  BY <1>ExecuteRefund DEF Attributed, ExecuteRefund, Returns
<1>ActivityFails. CASE ActivityFails
  BY <1>ActivityFails DEF Attributed, ActivityFails
<1>Preflight. ASSUME NEW answer \in Replies, Preflight(answer) PROVE Attributed'
  BY <1>Preflight DEF Attributed, Preflight
<1>SignalConfirmation. ASSUME NEW answer \in Replies, SignalConfirmation(answer) PROVE Attributed'
  BY <1>SignalConfirmation, ConfirmedRows, UnconfirmedRows DEF Attributed, SignalConfirmation
<1>DecideCase. ASSUME NEW d \in Decisions, DecideCase(d) PROVE Attributed'
  BY <1>DecideCase DEF Attributed, DecideCase
<1>SignalDecision. ASSUME NEW d \in Decisions, SignalDecision(d) PROVE Attributed'
  BY <1>SignalDecision DEF Attributed, SignalDecision
<1>DeliverOutbox. CASE DeliverOutbox
  BY <1>DeliverOutbox DEF Attributed, DeliverOutbox
<1>CustomerUploads. CASE CustomerUploads
  BY <1>CustomerUploads DEF Attributed, CustomerUploads
<1>ReviewEvidence. CASE ReviewEvidence
  BY <1>ReviewEvidence DEF Attributed, ReviewEvidence
<1>Tick. CASE Tick
  BY <1>Tick DEF Attributed, Tick
<1>stutter. CASE UNCHANGED vars
  BY <1>stutter DEF vars, Attributed
<1> QED
  BY <1>Evaluate, <1>OpenEvidence, <1>Wake, <1>ReadEvidence, <1>ExpireEvidence, <1>Reevaluate,
     <1>CloseEvidence, <1>CreatePreview, <1>PreviewExpires, <1>OpenCase, <1>HandleDecisions,
     <1>CloseCase, <1>RefreshException, <1>CheckEvidence, <1>CheckFacts, <1>ExecuteRefund,
     <1>ActivityFails, <1>Preflight, <1>SignalConfirmation, <1>DecideCase, <1>SignalDecision,
     <1>DeliverOutbox, <1>CustomerUploads, <1>ReviewEvidence, <1>Tick, <1>stutter
     DEF Next, WorkflowStep

\* Accepted evidence is never reopened, and nothing is paid for before it is looked at.
LEMMA PhotoStep ==
  ASSUME TypeOK, PollsInv, RouteInv, CaseInv, PhotoKept, [Next]_vars
  PROVE  PhotoKept'
<1> USE DEF workflowVars, clockVars, staffVars, customerVars
<1> USE DEF RefundRequested
<1>Evaluate. CASE Evaluate
  BY <1>Evaluate, EvaluateRows DEF PhotoKept, Evaluate
<1>OpenEvidence. CASE OpenEvidence
  <2>1. evidence' => document' = "ACCEPTED"
    BY <1>OpenEvidence, OpenEvidenceRows DEF PhotoKept
  <2>2. ~RefundRequested' /\ at' \notin {"CHECK_FACTS", "EXECUTE"}
    BY <1>OpenEvidence, OpenEvidenceRows DEF RouteInv
  <2> QED
    BY <2>1, <2>2 DEF PhotoKept
<1>Wake. CASE Wake
  BY <1>Wake DEF PhotoKept, Wake
<1>ReadEvidence. CASE ReadEvidence
  <2>1. evidence' => document' = "ACCEPTED"
    BY <1>ReadEvidence, ReadEvidenceRows DEF PhotoKept
  <2>2. ~RefundRequested' /\ at' \notin {"CHECK_FACTS", "EXECUTE"}
    BY <1>ReadEvidence, ReadEvidenceRows DEF RouteInv
  <2> QED
    BY <2>1, <2>2 DEF PhotoKept
<1>ExpireEvidence. CASE ExpireEvidence
  BY <1>ExpireEvidence, CaseClosedType DEF PhotoKept, ExpireEvidence, Returns
<1>Reevaluate. CASE Reevaluate
  BY <1>Reevaluate, ReevaluateRows DEF PhotoKept, Reevaluate
<1>CloseEvidence. CASE CloseEvidence
  BY <1>CloseEvidence, CloseEvidenceRows, CaseClosedType DEF PhotoKept, CloseEvidence
<1>CreatePreview. CASE CreatePreview
  BY <1>CreatePreview, UnconfirmedRows DEF PhotoKept, CreatePreview
<1>PreviewExpires. CASE PreviewExpires
  BY <1>PreviewExpires, UnconfirmedRows DEF PhotoKept, PreviewExpires
<1>OpenCase. CASE OpenCase
  BY <1>OpenCase, OpenCaseRows DEF PhotoKept
<1>HandleDecisions. CASE HandleDecisions
  BY <1>HandleDecisions DEF PhotoKept, HandleDecisions
<1>CloseCase. CASE CloseCase
  BY <1>CloseCase, CloseCaseRows, ClosedWithDecision, CaseClosedType DEF PhotoKept
<1>RefreshException. CASE RefreshException
  BY <1>RefreshException, RefreshExceptionRows DEF PhotoKept
<1>CheckEvidence. CASE CheckEvidence
  BY <1>CheckEvidence DEF PhotoKept, CheckEvidence, Returns
<1>CheckFacts. CASE CheckFacts
  BY <1>CheckFacts DEF PhotoKept, CheckFacts, Returns, CheckFacts
<1>ExecuteRefund. CASE ExecuteRefund
  BY <1>ExecuteRefund DEF PhotoKept, ExecuteRefund, Returns
<1>ActivityFails. CASE ActivityFails
  BY <1>ActivityFails DEF PhotoKept, ActivityFails
<1>Preflight. ASSUME NEW answer \in Replies, Preflight(answer) PROVE PhotoKept'
  BY <1>Preflight DEF PhotoKept, Preflight
<1>SignalConfirmation. ASSUME NEW answer \in Replies, SignalConfirmation(answer) PROVE PhotoKept'
  BY <1>SignalConfirmation, ConfirmedRows, UnconfirmedRows DEF PhotoKept, SignalConfirmation
<1>DecideCase. ASSUME NEW d \in Decisions, DecideCase(d) PROVE PhotoKept'
  BY <1>DecideCase DEF PhotoKept, DecideCase
<1>SignalDecision. ASSUME NEW d \in Decisions, SignalDecision(d) PROVE PhotoKept'
  BY <1>SignalDecision DEF PhotoKept, SignalDecision
<1>DeliverOutbox. CASE DeliverOutbox
  BY <1>DeliverOutbox DEF PhotoKept, DeliverOutbox
<1>CustomerUploads. CASE CustomerUploads
  BY <1>CustomerUploads DEF PhotoKept, CustomerUploads
<1>ReviewEvidence. CASE ReviewEvidence
  BY <1>ReviewEvidence DEF PhotoKept, ReviewEvidence
<1>Tick. CASE Tick
  BY <1>Tick DEF PhotoKept, Tick
<1>stutter. CASE UNCHANGED vars
  BY <1>stutter DEF vars, PhotoKept
<1> QED
  BY <1>Evaluate, <1>OpenEvidence, <1>Wake, <1>ReadEvidence, <1>ExpireEvidence, <1>Reevaluate,
     <1>CloseEvidence, <1>CreatePreview, <1>PreviewExpires, <1>OpenCase, <1>HandleDecisions,
     <1>CloseCase, <1>RefreshException, <1>CheckEvidence, <1>CheckFacts, <1>ExecuteRefund,
     <1>ActivityFails, <1>Preflight, <1>SignalConfirmation, <1>DecideCase, <1>SignalDecision,
     <1>DeliverOutbox, <1>CustomerUploads, <1>ReviewEvidence, <1>Tick, <1>stutter
     DEF Next, WorkflowStep

\* The branch, the answer and the decision the workflow holds fit the point it is at.
LEMMA RouteStep ==
  ASSUME TypeOK, PollsInv, RouteInv, CaseInv, [Next]_vars
  PROVE  RouteInv'
<1> USE DEF workflowVars, clockVars, staffVars, customerVars
<1> USE DEF RefundRequested, Granted, BeforeSwitch, CollectionPoints, ReviewClasses, Accepts
<1>Evaluate. CASE Evaluate
  BY <1>Evaluate, EvaluateRows DEF RouteInv, Evaluate
<1>OpenEvidence. CASE OpenEvidence
  BY <1>OpenEvidence, OpenEvidenceRows DEF RouteInv
<1>Wake. CASE Wake
  BY <1>Wake DEF RouteInv, Wake
<1>ReadEvidence. CASE ReadEvidence
  BY <1>ReadEvidence, ReadEvidenceRows DEF RouteInv
<1>ExpireEvidence. CASE ExpireEvidence
  BY <1>ExpireEvidence, CaseClosedType DEF RouteInv, ExpireEvidence, Returns
<1>Reevaluate. CASE Reevaluate
  BY <1>Reevaluate, ReevaluateRows DEF CaseInv, RouteInv, Reevaluate
<1>CloseEvidence. CASE CloseEvidence
  BY <1>CloseEvidence, CloseEvidenceRows, CaseClosedType DEF RouteInv, CloseEvidence
<1>CreatePreview. CASE CreatePreview
  BY <1>CreatePreview, UnconfirmedRows DEF RouteInv, CreatePreview
<1>PreviewExpires. CASE PreviewExpires
  BY <1>PreviewExpires, UnconfirmedRows DEF RouteInv, PreviewExpires
<1>OpenCase. CASE OpenCase
  BY <1>OpenCase, OpenCaseRows DEF RouteInv
<1>HandleDecisions. CASE HandleDecisions
  BY <1>HandleDecisions DEF RouteInv, HandleDecisions
<1>CloseCase. CASE CloseCase
  BY <1>CloseCase, CloseCaseRows, ClosedWithDecision, CaseClosedType DEF RouteInv
<1>RefreshException. CASE RefreshException
  BY <1>RefreshException, RefreshExceptionRows DEF RouteInv
<1>CheckEvidence. CASE CheckEvidence
  BY <1>CheckEvidence DEF RouteInv, CheckEvidence, Returns
<1>CheckFacts. CASE CheckFacts
  BY <1>CheckFacts DEF RouteInv, CheckFacts, Returns
<1>ExecuteRefund. CASE ExecuteRefund
  BY <1>ExecuteRefund DEF RouteInv, ExecuteRefund, Returns
<1>ActivityFails. CASE ActivityFails
  BY <1>ActivityFails DEF RouteInv, ActivityFails, Activities
<1>Preflight. ASSUME NEW answer \in Replies, Preflight(answer) PROVE RouteInv'
  BY <1>Preflight DEF RouteInv, Preflight
<1>SignalConfirmation. ASSUME NEW answer \in Replies, SignalConfirmation(answer) PROVE RouteInv'
  BY <1>SignalConfirmation, ConfirmedRows, UnconfirmedRows DEF RouteInv, SignalConfirmation
<1>DecideCase. ASSUME NEW d \in Decisions, DecideCase(d) PROVE RouteInv'
  BY <1>DecideCase DEF RouteInv, DecideCase
<1>SignalDecision. ASSUME NEW d \in Decisions, SignalDecision(d) PROVE RouteInv'
  BY <1>SignalDecision DEF RouteInv, SignalDecision
<1>DeliverOutbox. CASE DeliverOutbox
  BY <1>DeliverOutbox DEF RouteInv, DeliverOutbox
<1>CustomerUploads. CASE CustomerUploads
  BY <1>CustomerUploads DEF RouteInv, CustomerUploads
<1>ReviewEvidence. CASE ReviewEvidence
  BY <1>ReviewEvidence DEF RouteInv, ReviewEvidence
<1>Tick. CASE Tick
  BY <1>Tick DEF RouteInv, Tick
<1>stutter. CASE UNCHANGED vars
  BY <1>stutter DEF vars, RouteInv
<1> QED
  BY <1>Evaluate, <1>OpenEvidence, <1>Wake, <1>ReadEvidence, <1>ExpireEvidence, <1>Reevaluate,
     <1>CloseEvidence, <1>CreatePreview, <1>PreviewExpires, <1>OpenCase, <1>HandleDecisions,
     <1>CloseCase, <1>RefreshException, <1>CheckEvidence, <1>CheckFacts, <1>ExecuteRefund,
     <1>ActivityFails, <1>Preflight, <1>SignalConfirmation, <1>DecideCase, <1>SignalDecision,
     <1>DeliverOutbox, <1>CustomerUploads, <1>ReviewEvidence, <1>Tick, <1>stutter
     DEF Next, WorkflowStep

\* The case keeps step: no way out of the workflow leaves one open.
LEMMA CaseStep ==
  ASSUME TypeOK, PollsInv, RouteInv, PhotoKept, CaseInv, [Next]_vars
  PROVE  CaseInv'
<1> USE DEF workflowVars, clockVars, staffVars, customerVars
<1> USE DEF NoCase, EvidenceCaseOpen, MonetaryCaseOpen, NothingOpen
<1>Evaluate. CASE Evaluate
  BY <1>Evaluate, EvaluateRows DEF CaseInv, Evaluate
<1>OpenEvidence. CASE OpenEvidence
  <2>1. ~evidence
    BY <1>OpenEvidence, OpenEvidenceRows DEF CaseInv
  <2>2. EvidenceCaseOpen'
    BY <1>OpenEvidence, OpenEvidenceRows DEF CaseInv
  <2>3. \/ at' \in {"EXPIRE_EVIDENCE", "SLEEP"} /\ evidence' = evidence
        \/ at' = "REEVALUATE" /\ evidence' = TRUE
    BY <1>OpenEvidence, OpenEvidenceRows
  <2> QED
    BY <2>1, <2>2, <2>3 DEF CaseInv
<1>Wake. CASE Wake
  BY <1>Wake DEF CaseInv, Wake
<1>ReadEvidence. CASE ReadEvidence
  <2>1. ~evidence /\ EvidenceCaseOpen /\ EvidenceCaseOpen'
    BY <1>ReadEvidence, ReadEvidenceRows DEF CaseInv
  <2>2. \/ at' \in {"OPEN_EVIDENCE", "EXPIRE_EVIDENCE", "SLEEP"} /\ evidence' = evidence
        \/ at' = "REEVALUATE" /\ evidence' = TRUE
    BY <1>ReadEvidence, ReadEvidenceRows
  <2> QED
    BY <2>1, <2>2 DEF CaseInv
<1>ExpireEvidence. CASE ExpireEvidence
  BY <1>ExpireEvidence, CaseClosedType DEF CaseInv, ExpireEvidence, Returns
<1>Reevaluate. CASE Reevaluate
  BY <1>Reevaluate, ReevaluateRows DEF CaseInv, Reevaluate
<1>CloseEvidence. CASE CloseEvidence
  BY <1>CloseEvidence, CloseEvidenceRows, CaseClosedType DEF CaseInv, CloseEvidence
<1>CreatePreview. CASE CreatePreview
  BY <1>CreatePreview, UnconfirmedRows DEF CaseInv, CreatePreview
<1>PreviewExpires. CASE PreviewExpires
  BY <1>PreviewExpires, UnconfirmedRows DEF CaseInv, PreviewExpires
<1>OpenCase. CASE OpenCase
  <2>1. branch \in {"APPROVAL_REQUIRED", "TAKEOVER_REQUIRED"}
    BY <1>OpenCase, OpenCaseRows DEF RouteInv, Accepts
  <2> QED
    BY <1>OpenCase, <2>1, OpenCaseRows DEF CaseInv
<1>HandleDecisions. CASE HandleDecisions
  BY <1>HandleDecisions DEF CaseInv, HandleDecisions
<1>CloseCase. CASE CloseCase
  BY <1>CloseCase, CloseCaseRows, ClosedWithDecision, CaseClosedType DEF CaseInv
<1>RefreshException. CASE RefreshException
  <2>1. branch = "TAKEOVER_REQUIRED"
    BY <1>RefreshException, RefreshExceptionRows DEF RouteInv
  <2> QED
    BY <1>RefreshException, <2>1, RefreshExceptionRows DEF CaseInv
<1>CheckEvidence. CASE CheckEvidence
  BY <1>CheckEvidence DEF CaseInv, CheckEvidence, Returns
<1>CheckFacts. CASE CheckFacts
  BY <1>CheckFacts DEF CaseInv, CheckFacts, Returns
<1>ExecuteRefund. CASE ExecuteRefund
  BY <1>ExecuteRefund DEF CaseInv, ExecuteRefund, Returns
<1>ActivityFails. CASE ActivityFails
  BY <1>ActivityFails DEF CaseInv, ActivityFails
<1>Preflight. ASSUME NEW answer \in Replies, Preflight(answer) PROVE CaseInv'
  BY <1>Preflight DEF CaseInv, Preflight
<1>SignalConfirmation. ASSUME NEW answer \in Replies, SignalConfirmation(answer) PROVE CaseInv'
  BY <1>SignalConfirmation, ConfirmedRows, UnconfirmedRows DEF CaseInv, SignalConfirmation
<1>DecideCase. ASSUME NEW d \in Decisions, DecideCase(d) PROVE CaseInv'
  <2>1. /\ humanCase'.type = humanCase.type /\ humanCase'.status = "DECISION_PENDING"
        /\ humanCase'.decision = d
    BY <1>DecideCase DEF DecideCase, TypeOK
  <2>2. /\ humanCase.status = "OPEN" /\ d \in Accepts[humanCase.type]
        /\ humanCase.type \in {"APPROVAL_REQUIRED", "TAKEOVER_REQUIRED"}
        /\ UNCHANGED <<at, branch, evidence, document>>
    BY <1>DecideCase DEF DecideCase, Accepts
  <2>3. at \in {"DECIDE", "CLOSE_CASE", "FAILED"}
    BY <2>2 DEF CaseInv, TypeOK, ControlPoints, Activities, Waits
  <2> QED
    BY <2>1, <2>2, <2>3 DEF CaseInv
<1>SignalDecision. ASSUME NEW d \in Decisions, SignalDecision(d) PROVE CaseInv'
  BY <1>SignalDecision DEF CaseInv, SignalDecision
<1>DeliverOutbox. CASE DeliverOutbox
  BY <1>DeliverOutbox DEF CaseInv, DeliverOutbox
<1>CustomerUploads. CASE CustomerUploads
  BY <1>CustomerUploads DEF CaseInv, CustomerUploads
<1>ReviewEvidence. CASE ReviewEvidence
  BY <1>ReviewEvidence DEF CaseInv, ReviewEvidence
<1>Tick. CASE Tick
  BY <1>Tick DEF CaseInv, Tick
<1>stutter. CASE UNCHANGED vars
  BY <1>stutter DEF vars, CaseInv
<1> QED
  BY <1>Evaluate, <1>OpenEvidence, <1>Wake, <1>ReadEvidence, <1>ExpireEvidence, <1>Reevaluate,
     <1>CloseEvidence, <1>CreatePreview, <1>PreviewExpires, <1>OpenCase, <1>HandleDecisions,
     <1>CloseCase, <1>RefreshException, <1>CheckEvidence, <1>CheckFacts, <1>ExecuteRefund,
     <1>ActivityFails, <1>Preflight, <1>SignalConfirmation, <1>DecideCase, <1>SignalDecision,
     <1>DeliverOutbox, <1>CustomerUploads, <1>ReviewEvidence, <1>Tick, <1>stutter
     DEF Next, WorkflowStep

----------------------------------------------------------------------------
(* The invariants.                                                         *)

\* The workflow starts with nothing said, nothing opened and nothing accepted.
LEMMA InitEstablishes == Init => IInv
<1> SUFFICES ASSUME Init PROVE IInv
  OBVIOUS
<1>1. TypeOK
  BY TypeInit
<1>2. PollsInv
  BY PollsAssumption DEF Init, PollsInv
<1>3. Attributed
  <2>1. humanCase.decision = "NONE" /\ DOMAIN signals = {}
    BY DEF Init
  <2> QED
    BY <2>1 DEF Init, Attributed
<1>4. PhotoKept /\ RouteInv
  BY DEF Init, PhotoKept, RouteInv, RefundRequested
<1>5. CaseInv
  BY DEF Init, CaseInv, NoCase
<1> QED
  BY <1>1, <1>2, <1>3, <1>4, <1>5 DEF IInv

\* One lemma per part of the invariant.
LEMMA StepKeeps == IInv /\ [Next]_vars => IInv'
BY TypeStep, PollsStep, AttributedStep, PhotoStep, RouteStep, CaseStep DEF IInv

\* So it holds throughout.
LEMMA AlwaysIInv == Spec => []IInv
BY InitEstablishes, StepKeeps, PTL DEF Spec

\* refundWorkflow and the parties around it keep every variable in its set: the
\* read counter never passes its limit, no timer goes below zero and a case
\* is only ever opened for a branch that has one.
THEOREM TypeCorrect == Spec => []TypeOK
<1>1. IInv => TypeOK
  BY DEF IInv
<1> QED
  BY <1>1, AlwaysIInv, PTL

\* Money is requested only after the customer accepted, with the decision the verdict
\* in force asks for and with the required photo accepted, in whatever order
\* signals, decisions, reviews and timers reach the workflow.
THEOREM PaidOnlyWhenAuthorizedHolds == Spec => []PaidOnlyWhenAuthorized
<1>1. IInv => PaidOnlyWhenAuthorized
  <2> SUFFICES ASSUME IInv, RefundRequested PROVE PaidOnlyWhenAuthorized
    BY DEF PaidOnlyWhenAuthorized
  <2>1. "ACCEPT" \in answered
    BY DEF IInv, RouteInv, Attributed
  <2>2. Granted
    BY DEF IInv, RouteInv
  <2>3. human # "NONE" => human \in decided
    BY DEF IInv, Attributed
  <2>4. effect = "APPROVAL_REQUIRED" => decided \cap {"APPROVE", "APPROVE_EXCEPTIONAL_REFUND"} # {}
    BY <2>2, <2>3 DEF Granted, ReviewClasses
  <2>5. effect = "TAKEOVER_REQUIRED" => "APPROVE_EXCEPTIONAL_REFUND" \in decided
    BY <2>2, <2>3 DEF Granted, ReviewClasses
  <2>6. needsPhoto => document = "ACCEPTED"
    BY DEF IInv, PhotoKept
  <2> QED
    BY <2>1, <2>4, <2>5, <2>6 DEF PaidOnlyWhenAuthorized
<1> QED
  BY <1>1, AlwaysIInv, PTL

\* As long as only the case route is used, a refund that needed a person is paid
\* only when the decision recorded on its case grants it.
THEOREM CaseDecisionHonouredHolds == Spec => []CaseDecisionHonoured
<1>1. IInv => CaseDecisionHonoured
  <2> SUFFICES ASSUME IInv, decided \subseteq {humanCase.decision}, RefundRequested, branch # "ALLOW"
               PROVE  humanCase.decision \in {"APPROVE", "APPROVE_EXCEPTIONAL_REFUND"}
    BY DEF CaseDecisionHonoured, GrantedByCase
  <2>1. human \in {"APPROVE", "APPROVE_EXCEPTIONAL_REFUND"}
    BY DEF IInv, RouteInv, Granted, ReviewClasses
  <2>2. human \in decided
    BY <2>1 DEF IInv, Attributed
  <2> QED
    BY <2>1, <2>2
<1> QED
  BY <1>1, AlwaysIInv, PTL

\* Whenever the workflow waits for a person, the case is there, open and of the type
\* of the branch, or a decision the branch understands is recorded on it.
THEOREM SomebodyCanDecideHolds == Spec => []SomebodyCanDecide
<1>1. IInv => SomebodyCanDecide
  BY DEF IInv, CaseInv, MonetaryCaseOpen, SomebodyCanDecide
<1> QED
  BY <1>1, AlwaysIInv, PTL

\* Every return of the workflow has closed the case it opened.
THEOREM NoCaseLeftOpenHolds == Spec => []NoCaseLeftOpen
<1>1. IInv => NoCaseLeftOpen
  BY DEF IInv, CaseInv, NothingOpen, NoCaseLeftOpen
<1> QED
  BY <1>1, AlwaysIInv, PTL

----------------------------------------------------------------------------
(* The expired offer.                                                      *)

\* Nothing leads from an expired offer to the money: a late answer ends the wait.
LEMMA LapsedStep ==
  ASSUME TypeOK, PollsInv, RouteInv, Lapsed, [Next]_vars
  PROVE  Lapsed'
<1> USE DEF workflowVars, clockVars, staffVars, customerVars
<1>Evaluate. CASE Evaluate
  BY <1>Evaluate, EvaluateRows DEF Lapsed, OfferLapsed, RefundRequested, Evaluate
<1>OpenEvidence. CASE OpenEvidence
  BY <1>OpenEvidence, OpenEvidenceRows DEF Lapsed, OfferLapsed, RefundRequested
<1>Wake. CASE Wake
  BY <1>Wake DEF Lapsed, OfferLapsed, RefundRequested, Wake
<1>ReadEvidence. CASE ReadEvidence
  BY <1>ReadEvidence, ReadEvidenceRows DEF Lapsed, OfferLapsed, RefundRequested
<1>ExpireEvidence. CASE ExpireEvidence
  BY <1>ExpireEvidence, CaseClosedType DEF Lapsed, OfferLapsed, RefundRequested, ExpireEvidence, Returns
<1>Reevaluate. CASE Reevaluate
  BY <1>Reevaluate, ReevaluateRows DEF Lapsed, OfferLapsed, RefundRequested, Reevaluate
<1>CloseEvidence. CASE CloseEvidence
  BY <1>CloseEvidence, CloseEvidenceRows, CaseClosedType DEF Lapsed, OfferLapsed, RefundRequested, CloseEvidence
<1>CreatePreview. CASE CreatePreview
  BY <1>CreatePreview, UnconfirmedRows DEF Lapsed, OfferLapsed, RefundRequested, CreatePreview
<1>PreviewExpires. CASE PreviewExpires
  BY <1>PreviewExpires, UnconfirmedRows DEF Lapsed, OfferLapsed, RefundRequested, PreviewExpires
<1>OpenCase. CASE OpenCase
  BY <1>OpenCase, OpenCaseRows DEF Lapsed, OfferLapsed, RefundRequested
<1>HandleDecisions. CASE HandleDecisions
  BY <1>HandleDecisions DEF Lapsed, OfferLapsed, RefundRequested, HandleDecisions
<1>CloseCase. CASE CloseCase
  BY <1>CloseCase, CloseCaseRows, ClosedWithDecision, CaseClosedType DEF Lapsed, OfferLapsed, RefundRequested
<1>RefreshException. CASE RefreshException
  BY <1>RefreshException, RefreshExceptionRows DEF Lapsed, OfferLapsed, RefundRequested
<1>CheckEvidence. CASE CheckEvidence
  BY <1>CheckEvidence DEF Lapsed, OfferLapsed, RefundRequested, CheckEvidence, Returns
<1>CheckFacts. CASE CheckFacts
  BY <1>CheckFacts DEF Lapsed, OfferLapsed, RefundRequested, CheckFacts, Returns
<1>ExecuteRefund. CASE ExecuteRefund
  BY <1>ExecuteRefund DEF Lapsed, OfferLapsed, RefundRequested, ExecuteRefund, Returns
<1>ActivityFails. CASE ActivityFails
  BY <1>ActivityFails DEF Lapsed, OfferLapsed, RefundRequested, RouteInv, ActivityFails
<1>Preflight. ASSUME NEW answer \in Replies, Preflight(answer) PROVE Lapsed'
  BY <1>Preflight DEF Lapsed, OfferLapsed, RefundRequested, Preflight
<1>SignalConfirmation. ASSUME NEW answer \in Replies, SignalConfirmation(answer) PROVE Lapsed'
  BY <1>SignalConfirmation, ConfirmedRows, UnconfirmedRows DEF Lapsed, OfferLapsed, RefundRequested, SignalConfirmation
<1>DecideCase. ASSUME NEW d \in Decisions, DecideCase(d) PROVE Lapsed'
  BY <1>DecideCase DEF Lapsed, OfferLapsed, RefundRequested, DecideCase
<1>SignalDecision. ASSUME NEW d \in Decisions, SignalDecision(d) PROVE Lapsed'
  BY <1>SignalDecision DEF Lapsed, OfferLapsed, RefundRequested, SignalDecision
<1>DeliverOutbox. CASE DeliverOutbox
  BY <1>DeliverOutbox DEF Lapsed, OfferLapsed, RefundRequested, DeliverOutbox
<1>CustomerUploads. CASE CustomerUploads
  BY <1>CustomerUploads DEF Lapsed, OfferLapsed, RefundRequested, CustomerUploads
<1>ReviewEvidence. CASE ReviewEvidence
  BY <1>ReviewEvidence DEF Lapsed, OfferLapsed, RefundRequested, ReviewEvidence
<1>Tick. CASE Tick
  BY <1>Tick DEF Lapsed, OfferLapsed, RefundRequested, Tick, Less
<1>stutter. CASE UNCHANGED vars
  BY <1>stutter DEF vars, Lapsed, OfferLapsed, RefundRequested
<1> QED
  BY <1>Evaluate, <1>OpenEvidence, <1>Wake, <1>ReadEvidence, <1>ExpireEvidence, <1>Reevaluate,
     <1>CloseEvidence, <1>CreatePreview, <1>PreviewExpires, <1>OpenCase, <1>HandleDecisions,
     <1>CloseCase, <1>RefreshException, <1>CheckEvidence, <1>CheckFacts, <1>ExecuteRefund,
     <1>ActivityFails, <1>Preflight, <1>SignalConfirmation, <1>DecideCase, <1>SignalDecision,
     <1>DeliverOutbox, <1>CustomerUploads, <1>ReviewEvidence, <1>Tick, <1>stutter
     DEF Next, WorkflowStep

\* Once the offer ran out while the workflow waited for the answer, no late signal, no
\* buffered decision and no clock step makes that journey request the refund.
THEOREM LapsedOfferNeverPaysHolds == Spec => LapsedOfferNeverPays
<1>1. IInv /\ Lapsed /\ [Next]_vars => Lapsed'
  BY LapsedStep DEF IInv
<1>2. OfferLapsed => Lapsed
  BY DEF Lapsed
<1>3. IInv /\ Lapsed => ~RefundRequested
  BY DEF IInv, Lapsed, OfferLapsed, RouteInv
<1> QED
  BY <1>1, <1>2, <1>3, AlwaysIInv, PTL DEF Spec, LapsedOfferNeverPays

----------------------------------------------------------------------------
(* Refinement of the journey's promise.  The mapping of the workflow's     *)
(* state to the journey's is the one Journey is instantiated with.         *)

JourneyPhase == IF RefundRequested THEN "PAYING" ELSE IF Running THEN "OPEN" ELSE "ENDED"
JourneyVerdict == IF effect \in ReviewClasses THEN effect ELSE "NONE"
JourneyConsent == "ACCEPT" \in answered
JourneyPhoto == needsPhoto => document = "ACCEPTED"
JourneyVars == <<JourneyPhase, JourneyVerdict, JourneyConsent, decided, JourneyPhoto>>

\* What was given is not taken back: an acceptance, a decision, an accepted photo.
NothingTakenBack ==
  /\ JourneyConsent => JourneyConsent'
  /\ decided \subseteq decided'
  /\ JourneyPhoto => JourneyPhoto'

\* The journey goes on, ends with what was said so far, or pays.
PhaseMove ==
  \/ JourneyPhase' = JourneyPhase
  \/ /\ JourneyPhase = "OPEN" /\ JourneyPhase' = "ENDED"
     /\ UNCHANGED <<needsPhoto, answered, decided, document>>
  \/ ExecuteRefund

\* Every step of the workflow and of the parties adds to what was said and accepted.
LEMMA GrantsStay ==
  ASSUME TypeOK, PollsInv, RouteInv, [Next]_vars
  PROVE  NothingTakenBack
<1> USE DEF workflowVars, clockVars, staffVars, customerVars
<1> USE DEF JourneyConsent, JourneyPhoto
<1>Evaluate. CASE Evaluate
  BY <1>Evaluate, EvaluateRows DEF NothingTakenBack, Evaluate
<1>OpenEvidence. CASE OpenEvidence
  BY <1>OpenEvidence, OpenEvidenceRows DEF NothingTakenBack
<1>Wake. CASE Wake
  BY <1>Wake DEF NothingTakenBack, Wake
<1>ReadEvidence. CASE ReadEvidence
  BY <1>ReadEvidence, ReadEvidenceRows DEF NothingTakenBack
<1>ExpireEvidence. CASE ExpireEvidence
  BY <1>ExpireEvidence, CaseClosedType DEF NothingTakenBack, ExpireEvidence, Returns
<1>Reevaluate. CASE Reevaluate
  BY <1>Reevaluate, ReevaluateRows DEF NothingTakenBack, Reevaluate
<1>CloseEvidence. CASE CloseEvidence
  BY <1>CloseEvidence, CloseEvidenceRows, CaseClosedType DEF NothingTakenBack, CloseEvidence
<1>CreatePreview. CASE CreatePreview
  BY <1>CreatePreview, UnconfirmedRows DEF NothingTakenBack, CreatePreview
<1>PreviewExpires. CASE PreviewExpires
  BY <1>PreviewExpires, UnconfirmedRows DEF NothingTakenBack, PreviewExpires
<1>OpenCase. CASE OpenCase
  BY <1>OpenCase, OpenCaseRows DEF NothingTakenBack
<1>HandleDecisions. CASE HandleDecisions
  BY <1>HandleDecisions DEF NothingTakenBack, HandleDecisions
<1>CloseCase. CASE CloseCase
  BY <1>CloseCase, CloseCaseRows, ClosedWithDecision, CaseClosedType DEF NothingTakenBack
<1>RefreshException. CASE RefreshException
  BY <1>RefreshException, RefreshExceptionRows DEF NothingTakenBack
<1>CheckEvidence. CASE CheckEvidence
  BY <1>CheckEvidence DEF NothingTakenBack, CheckEvidence, Returns
<1>CheckFacts. CASE CheckFacts
  BY <1>CheckFacts DEF NothingTakenBack, CheckFacts, Returns
<1>ExecuteRefund. CASE ExecuteRefund
  BY <1>ExecuteRefund DEF NothingTakenBack, ExecuteRefund, Returns
<1>ActivityFails. CASE ActivityFails
  BY <1>ActivityFails DEF NothingTakenBack, ActivityFails
<1>Preflight. ASSUME NEW answer \in Replies, Preflight(answer) PROVE NothingTakenBack
  BY <1>Preflight DEF NothingTakenBack, Preflight
<1>SignalConfirmation. ASSUME NEW answer \in Replies, SignalConfirmation(answer) PROVE NothingTakenBack
  BY <1>SignalConfirmation, ConfirmedRows, UnconfirmedRows DEF NothingTakenBack, SignalConfirmation
<1>DecideCase. ASSUME NEW d \in Decisions, DecideCase(d) PROVE NothingTakenBack
  BY <1>DecideCase DEF NothingTakenBack, DecideCase
<1>SignalDecision. ASSUME NEW d \in Decisions, SignalDecision(d) PROVE NothingTakenBack
  BY <1>SignalDecision DEF NothingTakenBack, SignalDecision
<1>DeliverOutbox. CASE DeliverOutbox
  BY <1>DeliverOutbox DEF NothingTakenBack, DeliverOutbox
<1>CustomerUploads. CASE CustomerUploads
  BY <1>CustomerUploads DEF NothingTakenBack, CustomerUploads
<1>ReviewEvidence. CASE ReviewEvidence
  BY <1>ReviewEvidence DEF NothingTakenBack, ReviewEvidence
<1>Tick. CASE Tick
  BY <1>Tick DEF NothingTakenBack, Tick
<1>stutter. CASE UNCHANGED vars
  BY <1>stutter DEF vars, NothingTakenBack
<1> QED
  BY <1>Evaluate, <1>OpenEvidence, <1>Wake, <1>ReadEvidence, <1>ExpireEvidence, <1>Reevaluate,
     <1>CloseEvidence, <1>CreatePreview, <1>PreviewExpires, <1>OpenCase, <1>HandleDecisions,
     <1>CloseCase, <1>RefreshException, <1>CheckEvidence, <1>CheckFacts, <1>ExecuteRefund,
     <1>ActivityFails, <1>Preflight, <1>SignalConfirmation, <1>DecideCase, <1>SignalDecision,
     <1>DeliverOutbox, <1>CustomerUploads, <1>ReviewEvidence, <1>Tick, <1>stutter
     DEF Next, WorkflowStep

\* Every step moves the journey's phase in one of these ways.
LEMMA PhaseStep ==
  ASSUME TypeOK, PollsInv, RouteInv, [Next]_vars
  PROVE  PhaseMove
<1> USE DEF workflowVars, clockVars, staffVars, customerVars
<1> USE DEF JourneyPhase, Running, RefundRequested
<1>0. at # "RETURNED" => stage # "REFUND_REQUESTED"
  BY DEF RouteInv
<1>Evaluate. CASE Evaluate
  BY <1>Evaluate, <1>0, EvaluateRows DEF PhaseMove, Evaluate
<1>OpenEvidence. CASE OpenEvidence
  BY <1>OpenEvidence, <1>0, OpenEvidenceRows DEF PhaseMove
<1>Wake. CASE Wake
  BY <1>Wake, <1>0 DEF PhaseMove, Wake
<1>ReadEvidence. CASE ReadEvidence
  BY <1>ReadEvidence, <1>0, ReadEvidenceRows DEF PhaseMove
<1>ExpireEvidence. CASE ExpireEvidence
  BY <1>ExpireEvidence, <1>0, CaseClosedType DEF PhaseMove, ExpireEvidence, Returns
<1>Reevaluate. CASE Reevaluate
  BY <1>Reevaluate, <1>0, ReevaluateRows DEF PhaseMove, Reevaluate
<1>CloseEvidence. CASE CloseEvidence
  BY <1>CloseEvidence, <1>0, CloseEvidenceRows, CaseClosedType DEF PhaseMove, CloseEvidence
<1>CreatePreview. CASE CreatePreview
  BY <1>CreatePreview, <1>0, UnconfirmedRows DEF PhaseMove, CreatePreview
<1>PreviewExpires. CASE PreviewExpires
  BY <1>PreviewExpires, <1>0, UnconfirmedRows DEF PhaseMove, PreviewExpires
<1>OpenCase. CASE OpenCase
  BY <1>OpenCase, <1>0, OpenCaseRows DEF PhaseMove
<1>HandleDecisions. CASE HandleDecisions
  BY <1>HandleDecisions, <1>0 DEF PhaseMove, HandleDecisions
<1>CloseCase. CASE CloseCase
  BY <1>CloseCase, <1>0, CloseCaseRows, ClosedWithDecision, CaseClosedType DEF PhaseMove
<1>RefreshException. CASE RefreshException
  BY <1>RefreshException, <1>0, RefreshExceptionRows DEF PhaseMove
<1>CheckEvidence. CASE CheckEvidence
  BY <1>CheckEvidence, <1>0 DEF PhaseMove, CheckEvidence, Returns
<1>CheckFacts. CASE CheckFacts
  BY <1>CheckFacts, <1>0 DEF PhaseMove, CheckFacts, Returns
<1>ExecuteRefund. CASE ExecuteRefund
  BY <1>ExecuteRefund, <1>0 DEF PhaseMove, ExecuteRefund, Returns
<1>ActivityFails. CASE ActivityFails
  BY <1>ActivityFails, <1>0 DEF PhaseMove, ActivityFails
<1>Preflight. ASSUME NEW answer \in Replies, Preflight(answer) PROVE PhaseMove
  BY <1>Preflight, <1>0 DEF PhaseMove, Preflight
<1>SignalConfirmation. ASSUME NEW answer \in Replies, SignalConfirmation(answer) PROVE PhaseMove
  BY <1>SignalConfirmation, <1>0, ConfirmedRows, UnconfirmedRows DEF PhaseMove, SignalConfirmation
<1>DecideCase. ASSUME NEW d \in Decisions, DecideCase(d) PROVE PhaseMove
  BY <1>DecideCase, <1>0 DEF PhaseMove, DecideCase
<1>SignalDecision. ASSUME NEW d \in Decisions, SignalDecision(d) PROVE PhaseMove
  BY <1>SignalDecision, <1>0 DEF PhaseMove, SignalDecision
<1>DeliverOutbox. CASE DeliverOutbox
  BY <1>DeliverOutbox, <1>0 DEF PhaseMove, DeliverOutbox
<1>CustomerUploads. CASE CustomerUploads
  BY <1>CustomerUploads, <1>0 DEF PhaseMove, CustomerUploads
<1>ReviewEvidence. CASE ReviewEvidence
  BY <1>ReviewEvidence, <1>0 DEF PhaseMove, ReviewEvidence
<1>Tick. CASE Tick
  BY <1>Tick, <1>0 DEF PhaseMove, Tick
<1>stutter. CASE UNCHANGED vars
  BY <1>stutter, <1>0 DEF vars, PhaseMove
<1> QED
  BY <1>Evaluate, <1>OpenEvidence, <1>Wake, <1>ReadEvidence, <1>ExpireEvidence, <1>Reevaluate,
     <1>CloseEvidence, <1>CreatePreview, <1>PreviewExpires, <1>OpenCase, <1>HandleDecisions,
     <1>CloseCase, <1>RefreshException, <1>CheckEvidence, <1>CheckFacts, <1>ExecuteRefund,
     <1>ActivityFails, <1>Preflight, <1>SignalConfirmation, <1>DecideCase, <1>SignalDecision,
     <1>DeliverOutbox, <1>CustomerUploads, <1>ReviewEvidence, <1>Tick, <1>stutter
     DEF Next, WorkflowStep

\* Every step is a preparation, the request or the end of the journey.
LEMMA JourneyStep == IInv /\ [Next]_vars => [Journey!Next]_JourneyVars
<1> SUFFICES ASSUME IInv, [Next]_vars PROVE [Journey!Next]_JourneyVars
  OBVIOUS
<1>1. NothingTakenBack /\ PhaseMove
  BY GrantsStay, PhaseStep DEF IInv
<1>2. JourneyVerdict' \in ReviewClasses \cup {"NONE"}
  BY DEF JourneyVerdict
<1>3. JourneyConsent' \in {JourneyConsent, TRUE} /\ JourneyPhoto' \in {JourneyPhoto, TRUE}
  <2>1. (JourneyConsent => JourneyConsent') /\ (JourneyPhoto => JourneyPhoto')
    BY <1>1 DEF NothingTakenBack
  <2>2. /\ JourneyConsent \in BOOLEAN /\ JourneyConsent' \in BOOLEAN
        /\ JourneyPhoto \in BOOLEAN /\ JourneyPhoto' \in BOOLEAN
    BY DEF JourneyConsent, JourneyPhoto
  <2>3. JourneyConsent' \in {JourneyConsent, TRUE}
    BY <2>1, <2>2
  <2>4. JourneyPhoto' \in {JourneyPhoto, TRUE}
    BY <2>1, <2>2
  <2> QED
    BY <2>3, <2>4
<1>4. CASE JourneyPhase' = JourneyPhase
  <2>1. Journey!Prepare
    BY <1>1, <1>2, <1>3, <1>4
       DEF Journey!Prepare, NothingTakenBack, JourneyPhase, JourneyVerdict, JourneyConsent, JourneyPhoto
  <2> QED
    BY <2>1 DEF Journey!Next
<1>5. CASE /\ JourneyPhase = "OPEN" /\ JourneyPhase' = "ENDED"
           /\ UNCHANGED <<needsPhoto, answered, decided, document>>
  <2>1. JourneyConsent' = JourneyConsent /\ JourneyPhoto' = JourneyPhoto /\ decided' = decided
    BY <1>5 DEF JourneyConsent, JourneyPhoto
  <2>2. Journey!End
    BY <1>2, <1>5, <2>1
       DEF Journey!End, JourneyPhase, JourneyVerdict, JourneyConsent, JourneyPhoto
  <2> QED
    BY <2>2 DEF Journey!Next
<1>6. CASE ExecuteRefund
  <2>1. Journey!Authorized
    <3>1. "ACCEPT" \in answered /\ Granted
      BY <1>6 DEF ExecuteRefund, IInv, RouteInv, Attributed
    <3>2. needsPhoto => document = "ACCEPTED"
      BY <1>6 DEF ExecuteRefund, IInv, PhotoKept
    <3>3. human # "NONE" => human \in decided
      BY DEF IInv, Attributed
    <3>4. effect \in ReviewClasses
      BY <3>1 DEF Granted, ReviewClasses
    <3>5. \/ effect = "ALLOW"
          \/ effect = "APPROVAL_REQUIRED" /\ {"APPROVE", "APPROVE_EXCEPTIONAL_REFUND"} \cap decided # {}
          \/ effect = "TAKEOVER_REQUIRED" /\ {"APPROVE_EXCEPTIONAL_REFUND"} \cap decided # {}
      BY <3>1, <3>3 DEF Granted, ReviewClasses
    <3> QED
      BY <3>1, <3>2, <3>4, <3>5 DEF Journey!Authorized
  <2>2. JourneyPhase = "OPEN" /\ JourneyPhase' = "PAYING"
    BY <1>6 DEF ExecuteRefund, Returns, JourneyPhase, Running, RefundRequested, IInv, RouteInv
  <2>3. JourneyConsent' = JourneyConsent /\ JourneyPhoto' = JourneyPhoto /\ decided' = decided
        /\ JourneyVerdict' = JourneyVerdict
    BY <1>6 DEF ExecuteRefund, JourneyConsent, JourneyPhoto, JourneyVerdict, staffVars, customerVars
  <2>4. Journey!RequestRefund
    BY <2>1, <2>2, <2>3
       DEF Journey!RequestRefund, JourneyPhase, JourneyVerdict, JourneyConsent, JourneyPhoto
  <2> QED
    BY <2>4 DEF Journey!Next
<1> QED
  BY <1>1, <1>4, <1>5, <1>6 DEF PhaseMove

\* The workflow with everyone around it is an implementation of the journey's promise:
\* money is requested once, from an open journey, with acceptance, photo and
\* the approval the verdict in force needs, and nothing said is taken back.
THEOREM WorkflowKeepsPromise == Spec => KeepsPromise
<1>1. Init => Journey!Init
  BY DEF Init, Journey!Init, RefundRequested, Running, ReviewClasses
<1>2. IInv /\ [Next]_vars => [Journey!Next]_JourneyVars
  BY JourneyStep
<1>3. [][Journey!Next]_JourneyVars => [][Journey!Next]_(Journey!vars)
  BY PTL DEF JourneyVars, Journey!vars, JourneyPhase, JourneyVerdict, JourneyConsent, JourneyPhoto
<1> QED
  BY <1>1, <1>2, <1>3, AlwaysIInv, PTL DEF KeepsPromise, Journey!Spec, Spec
=============================================================================

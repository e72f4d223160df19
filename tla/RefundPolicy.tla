---------------------------- MODULE RefundPolicy ----------------------------
(***************************************************************************)
(* The deterministic refund policy: evaluateRefundPolicy with its release  *)
(* check, missing facts, risk class and thresholds.  A check that throws   *)
(* is the verdict "THROWS".                                                *)
(*                                                                         *)
(* An input is the request together with the facts of the refund context.  *)
(* A field the code may find undefined is named in input.absent.           *)
(***************************************************************************)
EXTENDS Integers

Effects == {"ALLOW", "APPROVAL_REQUIRED", "TAKEOVER_REQUIRED", "DENY", "NEEDS_FACTS"}

\* Verdicts of an evaluation; a failed release check throws.
Verdicts == Effects \cup {"THROWS"}

FactNames ==
  {"CUSTOMER_VERIFICATION", "TRANSACTION_REFUNDABILITY", "ITEM_SELECTION",
   "REQUESTED_AMOUNT", "REFUNDABLE_AMOUNT", "REFUND_DESTINATION", "PRIOR_REFUND_HISTORY"}

Scopes == {"FULL_ORDER", "SELECTED_ITEMS", "UNSPECIFIED"}

Release ==
  [version : STRING, currency : STRING, automaticMaximum : Int, approvalMaximum : Int,
   elevatedCount : Int, highCount : Int, validity : Int, reasons : SUBSET STRING,
   requireDamagePhoto : BOOLEAN]

Input ==
  [version : STRING, reason : STRING, scope : Scopes, absent : SUBSET FactNames,
   amount : Nat, currency : STRING, verified : BOOLEAN, refundable : BOOLEAN,
   selectionValid : BOOLEAN, priorRefunds : Nat, balance : Nat, balanceCurrency : STRING,
   originalMethod : BOOLEAN, acceptedEvidence : BOOLEAN]

----------------------------------------------------------------------------

AssertPolicyRelease(release) ==
  /\ release.automaticMaximum >= 0
  /\ release.approvalMaximum >= release.automaticMaximum
  /\ release.elevatedCount >= 1
  /\ release.highCount > release.elevatedCount
  /\ release.validity > 0
  /\ release.reasons # {}

FindMissingFacts(input) ==
  input.absent
    \cup {f \in {"REFUND_REASON"} : input.reason = "UNSPECIFIED"}
    \cup {f \in {"ITEM_SELECTION"} : input.scope = "UNSPECIFIED"}

\* Mutation: the elevated class is one exact count, not every count from there on.
ElevatedAtExactCount(priorRefunds, release) ==
  IF priorRefunds >= release.highCount THEN "HIGH"
  ELSE IF priorRefunds = release.elevatedCount THEN "ELEVATED"
  ELSE "LOW"

AssessRefundRisk(priorRefunds, release) ==
  IF priorRefunds >= release.highCount THEN "HIGH"
  ELSE IF priorRefunds >= release.elevatedCount THEN "ELEVATED"
  ELSE "LOW"

\* The checks that end in DENY, whatever the amount bands say.
Denied(input, release) ==
  \/ ~input.verified
  \/ ~input.refundable
  \/ input.reason \notin release.reasons
  \/ ~input.selectionValid
  \/ input.amount = 0
  \/ input.currency # input.balanceCurrency
  \/ input.amount > input.balance

NeedsDamagePhoto(input, release) ==
  release.requireDamagePhoto /\ input.reason = "DAMAGED" /\ ~input.acceptedEvidence

TakeoverRequired(input, release) ==
  \/ input.currency # release.currency
  \/ ~input.originalMethod
  \/ AssessRefundRisk(input.priorRefunds, release) = "HIGH"
  \/ input.amount > release.approvalMaximum

\* Mutation: only the first unit above the automatic maximum needs approval.
ApprovalAtThreshold(input, release) ==
  \/ AssessRefundRisk(input.priorRefunds, release) = "ELEVATED"
  \/ input.amount = release.automaticMaximum + 1

ApprovalRequired(input, release) ==
  \/ AssessRefundRisk(input.priorRefunds, release) = "ELEVATED"
  \/ input.amount > release.automaticMaximum

\* The verdict's effect; the checks are made in this order.
PolicyEffect(input, release) ==
  IF ~AssertPolicyRelease(release) \/ input.version # release.version THEN "THROWS"
  ELSE IF FindMissingFacts(input) # {} THEN "NEEDS_FACTS"
  ELSE IF Denied(input, release) THEN "DENY"
  ELSE IF NeedsDamagePhoto(input, release) THEN "NEEDS_FACTS"
  ELSE IF TakeoverRequired(input, release) THEN "TAKEOVER_REQUIRED"
  ELSE IF ApprovalRequired(input, release) THEN "APPROVAL_REQUIRED"
  ELSE "ALLOW"

----------------------------------------------------------------------------
(* How demanding a verdict is: what it takes before money moves.           *)

Severity ==
  [ALLOW |-> 0, APPROVAL_REQUIRED |-> 1, TAKEOVER_REQUIRED |-> 2, NEEDS_FACTS |-> 3,
   DENY |-> 4, THROWS |-> 5]

\* Input is at least as risky as base: same request and facts, but for a
\* larger positive amount, out of a smaller balance, after more refunds.
AtLeastAsRisky(input, base) ==
  /\ 0 < base.amount /\ base.amount <= input.amount
  /\ input.balance <= base.balance
  /\ input.priorRefunds >= base.priorRefunds
  /\ input = [base EXCEPT !.amount = input.amount, !.balance = input.balance,
                          !.priorRefunds = input.priorRefunds]
=============================================================================

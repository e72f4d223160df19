------------------------- MODULE RefundEligibility -------------------------
(***************************************************************************)
(* Eligibility over the life of one order: what toRefundContext tells the  *)
(* policy about the order's refunds, what the policy answers, and what the *)
(* worker and the gateway check again when the money is about to move.     *)
(*                                                                         *)
(* Several journeys may be open on the order.  Confirmation, human review  *)
(* and the execution protocol are one step each here; RefundExecution has  *)
(* the protocol.  The order is placed and has exactly one settled payment, *)
(* and everything is in the policy's currency.                             *)
(***************************************************************************)
EXTENDS RefundPolicy, FiniteSetsExt

CONSTANTS
  Journeys,    \* refund journeys about the order
  RefundIds,   \* identifiers the provider can give to a refund
  Proposal,    \* per journey: [reason, scope, items, amount]
  LineTotal,   \* total of each order line, by item
  ConsoleItems,\* items staff may refund in the provider's own console
  Paid,        \* the amount of the settled payment
  Policy       \* the pinned policy release

\* readyRefundProposalSchema: a journey is started from a proposal with nothing
\* missing, and the agent runtime lists a reason or scope left unspecified as missing.
ReadyProposal ==
  [reason : STRING \ {"UNSPECIFIED"}, scope : Scopes \ {"UNSPECIFIED"},
   items : SUBSET STRING, amount : Nat \ {0}]

ASSUME ProposalsAreReady == Proposal \in [Journeys -> ReadyProposal]
ASSUME OrderHasLines ==
  IsFiniteSet(DOMAIN LineTotal) /\ LineTotal \in [DOMAIN LineTotal -> Nat]
ASSUME PaidIsNat == Paid \in Nat
ASSUME ConsoleItemsAreLines == ConsoleItems \subseteq DOMAIN LineTotal
ASSUME PolicyIsValid == Policy \in Release /\ AssertPolicyRelease(Policy)

VARIABLES
  refund,      \* provider: each refund's [status, amount, lines]
  journey      \* per journey: NEW, REVIEW, AUTHORIZED, EXECUTED or CLOSED

vars == <<refund, journey>>

----------------------------------------------------------------------------
(* toRefundContext.                                                        *)

RefundConsumesBalance(status) == status \in {"PENDING", "SETTLED"}

PriorRefunds == {i \in RefundIds : RefundConsumesBalance(refund[i].status)}

ConsumedAmount == MapThenSumSet(LAMBDA i : refund[i].amount, PriorRefunds)

RemainingPayment == IF Paid > ConsumedAmount THEN Paid - ConsumedAmount ELSE 0

Smaller(a, b) == IF a <= b THEN a ELSE b

ItemSelectionValid(p) ==
  \/ p.scope = "FULL_ORDER"
  \/ /\ p.items \subseteq DOMAIN LineTotal
     /\ \A i \in PriorRefunds : refund[i].lines \cap p.items = {}

SelectedTotal(p) ==
  MapThenSumSet(LAMBDA item : LineTotal[item], p.items \cap DOMAIN LineTotal)

\* The facts toRefundContext derives from the order for one selection.
RefundContext(p) ==
  LET remaining == RemainingPayment
      valid == ItemSelectionValid(p)
  IN [transactionRefundable |-> remaining > 0,
      itemSelectionValid |-> valid,
      priorRefundCount |-> Cardinality(PriorRefunds),
      refundableAmount |->
        IF ~valid THEN 0
        ELSE IF p.scope = "FULL_ORDER" THEN remaining
        ELSE Smaller(SelectedTotal(p), remaining)]

\* createRefundPolicyInput over the refreshed context.
PolicyInput(p, accepted) ==
  LET facts == RefundContext(p) IN
  [version |-> Policy.version, reason |-> p.reason, scope |-> p.scope, absent |-> {},
   amount |-> p.amount, currency |-> Policy.currency, verified |-> TRUE,
   refundable |-> facts.transactionRefundable, selectionValid |-> facts.itemSelectionValid,
   priorRefunds |-> facts.priorRefundCount, balance |-> facts.refundableAmount,
   balanceCurrency |-> Policy.currency, originalMethod |-> TRUE,
   acceptedEvidence |-> accepted]

EffectNow(p, accepted) == PolicyEffect(PolicyInput(p, accepted), Policy)

\* Mutation: the recheck looks at the payment only, not at the selected items.
PaymentCoversAmount(p) == RemainingPayment > 0 /\ p.amount <= RemainingPayment

\* What both the worker and the gateway check again right before the refund.
AmountStillAvailable(p) ==
  LET facts == RefundContext(p) IN
  /\ facts.transactionRefundable
  /\ facts.itemSelectionValid
  /\ p.amount <= facts.refundableAmount

----------------------------------------------------------------------------

Init ==
  /\ refund = [i \in RefundIds |-> [status |-> "ABSENT", amount |-> 0, lines |-> {}]]
  /\ journey = [j \in Journeys |-> "NEW"]

\* The workflow evaluates policy; a damage photo may have been accepted first.
\* ALLOW is executed once the customer confirms the preview, the two review
\* effects once a person has approved as well.
Evaluate(j) ==
  /\ journey[j] = "NEW"
  /\ \E effect \in {EffectNow(Proposal[j], accepted) : accepted \in BOOLEAN} :
       journey' = [journey EXCEPT ![j] =
         CASE effect = "ALLOW" -> "AUTHORIZED"
           [] effect \in {"APPROVAL_REQUIRED", "TAKEOVER_REQUIRED"} -> "REVIEW"
           [] OTHER -> "CLOSED"]
  /\ UNCHANGED refund

\* A person approves, or the journey ends without a refund (rejected,
\* cancelled, or the preview expired).
Decide(j) ==
  /\ journey[j] \in {"REVIEW", "AUTHORIZED"}
  /\ \E stage \in {"AUTHORIZED", "CLOSED"} :
       journey' = [journey EXCEPT ![j] = stage]
  /\ UNCHANGED refund

\* executeAuthorizedRefund: the recheck, then a refund for the amount alone.
\* The mutation sent to the provider names no order lines.
Execute(j) ==
  /\ journey[j] = "AUTHORIZED"
  /\ IF AmountStillAvailable(Proposal[j])
       THEN \E i \in RefundIds :
              /\ refund[i].status = "ABSENT"
              /\ refund' = [refund EXCEPT ![i] =
                   [status |-> "PENDING", amount |-> Proposal[j].amount, lines |-> {}]]
              /\ journey' = [journey EXCEPT ![j] = "EXECUTED"]
       ELSE /\ journey' = [journey EXCEPT ![j] = "CLOSED"]
            /\ UNCHANGED refund

\* Staff refund one item in the provider's own console, which names its line.
RefundInConsole(item) ==
  /\ LineTotal[item] <= RemainingPayment
  /\ \A i \in PriorRefunds : item \notin refund[i].lines
  /\ \E i \in RefundIds :
       /\ refund[i].status = "ABSENT"
       /\ refund' = [refund EXCEPT ![i] =
            [status |-> "PENDING", amount |-> LineTotal[item], lines |-> {item}]]
  /\ UNCHANGED journey

ProviderFinishes(i) ==
  /\ refund[i].status = "PENDING"
  /\ \E status \in {"SETTLED", "FAILED"} : refund' = [refund EXCEPT ![i].status = status]
  /\ UNCHANGED journey

Next ==
  \/ \E j \in Journeys : Evaluate(j) \/ Decide(j) \/ Execute(j)
  \/ \E item \in ConsoleItems : RefundInConsole(item)
  \/ \E i \in RefundIds : ProviderFinishes(i)

Spec == Init /\ [][Next]_vars

----------------------------------------------------------------------------
(* Properties.                                                             *)

RefundFails == \E i \in RefundIds : refund[i].status = "PENDING" /\ refund'[i].status = "FAILED"

\* As the order's refund history grows, policy never becomes milder towards
\* an open request; only a refund that failed gives anything back.
VerdictsOnlyTighten ==
  [][~RefundFails =>
       \A j \in Journeys, accepted \in BOOLEAN :
         Severity[EffectNow(Proposal[j], accepted)] <= Severity[EffectNow(Proposal[j], accepted)']
    ]_vars

\* Whatever the history, asking for more is never treated more mildly: no
\* amount slips past a threshold of evaluateRefundPolicy into a weaker band.
AskingMoreIsNeverMilder ==
  \A j \in Journeys, accepted \in BOOLEAN :
    LET demand == [amount \in 1..Proposal[j].amount |->
                     Severity[EffectNow([Proposal[j] EXCEPT !.amount = amount], accepted)]]
    IN \A amount \in 2..Proposal[j].amount : demand[amount - 1] <= demand[amount]

\* The last check before the money and the policy's own balance rules, two
\* separate pieces of code, accept exactly the same requests, so an approved
\* refund is stopped only by a real change and none the policy denies goes out.
ChecksAgree ==
  \A j \in Journeys :
    (Proposal[j].reason \in Policy.reasons /\ Proposal[j].amount > 0) =>
      (AmountStillAvailable(Proposal[j]) <=> EffectNow(Proposal[j], TRUE) # "DENY")
=============================================================================

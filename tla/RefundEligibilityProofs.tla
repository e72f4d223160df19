---------------------- MODULE RefundEligibilityProofs ----------------------
(***************************************************************************)
(* What the deterministic policy guarantees for every valid release and    *)
(* every input: riskier requests are never treated more mildly.            *)
(* And what follows over the life of an order with any number of refunds,  *)
(* journeys and lines: verdicts only tighten, and the last check before    *)
(* the money agrees with the policy.                                       *)
(***************************************************************************)
EXTENDS RefundEligibility, FiniteSums, FiniteSetTheorems, TLAPS

----------------------------------------------------------------------------
(* The policy.                                                             *)

\* The risk class of a longer refund history is at least as high.
LEMMA RiskIsMonotone ==
  ASSUME NEW release \in Release, AssertPolicyRelease(release),
         NEW less \in Nat, NEW more \in Nat, less <= more
  PROVE  /\ AssessRefundRisk(less, release) = "HIGH" => AssessRefundRisk(more, release) = "HIGH"
         /\ AssessRefundRisk(less, release) = "ELEVATED"
              => AssessRefundRisk(more, release) \in {"ELEVATED", "HIGH"}
  BY DEF Release, AssertPolicyRelease, AssessRefundRisk

\* Each check of the evaluation that stops the base input stops the riskier.
LEMMA ChecksAreMonotone ==
  ASSUME NEW release \in Release, AssertPolicyRelease(release),
         NEW base \in Input, NEW input \in Input, AtLeastAsRisky(input, base),
         ~Denied(input, release)
  PROVE  /\ FindMissingFacts(input) = FindMissingFacts(base)
         /\ input.version = base.version
         /\ NeedsDamagePhoto(input, release) = NeedsDamagePhoto(base, release)
         /\ TakeoverRequired(base, release) => TakeoverRequired(input, release)
         /\ ApprovalRequired(base, release)
              => ApprovalRequired(input, release) \/ TakeoverRequired(input, release)
<1>1. /\ input.reason = base.reason /\ input.scope = base.scope
      /\ input.absent = base.absent /\ input.version = base.version
      /\ input.currency = base.currency /\ input.originalMethod = base.originalMethod
      /\ input.acceptedEvidence = base.acceptedEvidence
  BY DEF AtLeastAsRisky, Input
<1>2. /\ input.amount \in Nat /\ base.amount \in Nat /\ base.amount <= input.amount
      /\ input.priorRefunds \in Nat /\ base.priorRefunds \in Nat
      /\ base.priorRefunds <= input.priorRefunds
  BY DEF AtLeastAsRisky, Input
<1>3. release.automaticMaximum \in Int /\ release.approvalMaximum \in Int
  BY DEF Release
<1>4. /\ AssessRefundRisk(base.priorRefunds, release) = "HIGH"
           => AssessRefundRisk(input.priorRefunds, release) = "HIGH"
      /\ AssessRefundRisk(base.priorRefunds, release) = "ELEVATED"
           => AssessRefundRisk(input.priorRefunds, release) \in {"ELEVATED", "HIGH"}
  BY <1>2, RiskIsMonotone
<1>5. /\ FindMissingFacts(input) = FindMissingFacts(base)
      /\ NeedsDamagePhoto(input, release) = NeedsDamagePhoto(base, release)
  BY <1>1 DEF FindMissingFacts, NeedsDamagePhoto
<1>6. TakeoverRequired(base, release) => TakeoverRequired(input, release)
  BY <1>1, <1>2, <1>3, <1>4 DEF TakeoverRequired
<1>7. ApprovalRequired(base, release)
        => ApprovalRequired(input, release) \/ TakeoverRequired(input, release)
  BY <1>1, <1>2, <1>3, <1>4 DEF ApprovalRequired, TakeoverRequired
<1> QED BY <1>1, <1>5, <1>6, <1>7

\* A refusal of the base input carries over to the riskier one.
LEMMA DenialIsMonotone ==
  ASSUME NEW release, NEW base \in Input, NEW input \in Input, AtLeastAsRisky(input, base),
         Denied(base, release)
  PROVE  Denied(input, release)
<1>1. /\ input.verified = base.verified /\ input.refundable = base.refundable
      /\ input.reason = base.reason /\ input.selectionValid = base.selectionValid
      /\ input.currency = base.currency /\ input.balanceCurrency = base.balanceCurrency
  BY DEF AtLeastAsRisky, Input
<1>2. /\ input.amount \in Nat /\ base.amount \in Nat /\ base.amount <= input.amount
      /\ input.balance \in Nat /\ base.balance \in Nat /\ input.balance <= base.balance
      /\ base.amount # 0
  BY DEF AtLeastAsRisky, Input
<1> QED BY <1>1, <1>2 DEF Denied

\* Under any valid release evaluateRefundPolicy never demands less of a
\* request that is larger, drawn on a smaller balance, or made after more
\* refunds: nothing a customer adds to a request makes review disappear.
THEOREM RiskierIsNeverMilder ==
  ASSUME NEW release \in Release, AssertPolicyRelease(release),
         NEW base \in Input, NEW input \in Input, AtLeastAsRisky(input, base)
  PROVE  Severity[PolicyEffect(base, release)] <= Severity[PolicyEffect(input, release)]
<1> DEFINE b == PolicyEffect(base, release)
           n == PolicyEffect(input, release)
<1>1. b \in Verdicts /\ n \in Verdicts
  BY DEF PolicyEffect, Verdicts, Effects
<1>2. /\ FindMissingFacts(input) = FindMissingFacts(base)
      /\ input.version = base.version
  BY DEF AtLeastAsRisky, Input, FindMissingFacts
<1>3. CASE Denied(input, release)
  <2>1. b = n \/ n = "DENY"
    BY <1>2, <1>3 DEF PolicyEffect
  <2>2. n = "DENY" => b # "THROWS"
    BY <1>2, <1>3 DEF PolicyEffect
  <2> QED BY <2>1, <2>2, <1>1 DEF Severity, Verdicts, Effects
<1>4. CASE ~Denied(input, release)
  <2>1. ~Denied(base, release)
    BY <1>4, DenialIsMonotone
  <2>2. /\ NeedsDamagePhoto(input, release) = NeedsDamagePhoto(base, release)
        /\ TakeoverRequired(base, release) => TakeoverRequired(input, release)
        /\ ApprovalRequired(base, release)
             => ApprovalRequired(input, release) \/ TakeoverRequired(input, release)
    BY <1>4, ChecksAreMonotone
  <2>3. \/ b = n
        \/ b = "APPROVAL_REQUIRED" /\ n = "TAKEOVER_REQUIRED"
        \/ b = "ALLOW" /\ n \in {"APPROVAL_REQUIRED", "TAKEOVER_REQUIRED"}
    BY <1>2, <1>4, <2>1, <2>2 DEF PolicyEffect
  <2> QED BY <2>3, <1>1 DEF Severity, Verdicts, Effects
<1> QED BY <1>3, <1>4

----------------------------------------------------------------------------
(* What toRefundContext adds up.                                           *)

\* What ConsumedAmount adds up, for refunds g.
Amounts(g, S) == MapThenSumSet(LAMBDA i : g[i].amount, S)

\* The reduce over the prior refunds' amounts is a sum.
LEMMA AmountsAreSum ==
  ASSUME NEW g, NEW S, IsFiniteSet(S), NEW f, \A i \in S : f[i] = g[i].amount
  PROVE  Amounts(g, S) = SumOver(f, S)
<1> DEFINE Adds(t) == t = [s \in SUBSET S |->
                             IF s = {} THEN 0 ELSE g[Pick(s)].amount + t[s \ {Pick(s)}]]
           iter == CHOOSE t : Adds(t)
<1>1. Amounts(g, S) = iter[S]
  BY DEF Amounts, MapThenSumSet, MapThenFoldSet, Pick
<1>2. \A s \in SUBSET S : s # {} => f[Pick(s)] = g[Pick(s)].amount
  BY DEF Pick
<1>3. ASSUME NEW t PROVE Adds(t) <=> IsTotal(t, f, S)
  BY <1>2 DEF IsTotal
<1>4. \E t : Adds(t)
  BY <1>3, TotalExists
<1>5. PICK u : u = iter
  OBVIOUS
<1>6. Adds(u)
  BY <1>4, <1>5
<1>7. IsTotal(u, f, S)
  BY <1>3, <1>6
<1>8. u[S] = SumOver(f, S)
  BY <1>7, TotalIsSum
<1> QED
  BY <1>1, <1>5, <1>8

\* More refunds, each for what it was for before, consume no less.
LEMMA AmountsMonotone ==
  ASSUME NEW g, NEW S, IsFiniteSet(S), \A i \in S : g[i].amount \in Nat,
         NEW h, NEW R \in SUBSET S, \A i \in R : h[i].amount = g[i].amount
  PROVE  /\ Amounts(g, S) \in Nat /\ Amounts(h, R) \in Nat
         /\ Amounts(h, R) <= Amounts(g, S)
<1>0. IsFiniteSet(R)
  BY FS_Subset
<1>1. PICK a : a = [i \in S |-> g[i].amount]
  OBVIOUS
<1>2. PICK b : b = [i \in R |-> h[i].amount]
  OBVIOUS
<1>3. Amounts(g, S) = SumOver(a, S)
  BY <1>1, AmountsAreSum
<1>4. Amounts(h, R) = SumOver(b, R)
  BY <1>0, <1>2, AmountsAreSum
<1>5. Numbers(a, S) /\ Numbers(b, R) /\ \A i \in R : b[i] <= a[i]
  BY <1>1, <1>2 DEF Numbers
<1> QED
  BY <1>3, <1>4, <1>5, SumMonotone

\* The selected lines of an order have a total.
LEMMA SelectedTotalIsNat ==
  ASSUME NEW p
  PROVE  SelectedTotal(p) \in Nat
<1>1. PICK S : S = p.items \cap DOMAIN LineTotal
  OBVIOUS
<1>2. IsFiniteSet(S) /\ Numbers(LineTotal, S)
  BY <1>1, OrderHasLines, FS_Subset DEF Numbers
<1> DEFINE Adds(t) == t = [s \in SUBSET S |->
                             IF s = {} THEN 0 ELSE LineTotal[Pick(s)] + t[s \ {Pick(s)}]]
           iter == CHOOSE t : Adds(t)
<1>3. SelectedTotal(p) = iter[S]
  BY <1>1 DEF SelectedTotal, MapThenSumSet, MapThenFoldSet, Pick
<1>4. ASSUME NEW t PROVE Adds(t) <=> IsTotal(t, LineTotal, S)
  BY DEF IsTotal
<1>5. \E t : Adds(t)
  BY <1>2, <1>4, TotalExists
<1>6. PICK u : u = iter
  OBVIOUS
<1>7. Adds(u)
  BY <1>5, <1>6
<1>8. IsTotal(u, LineTotal, S)
  BY <1>4, <1>7
<1>9. u[S] \in Nat
  BY <1>2, <1>8, TotalNat
<1> QED
  BY <1>3, <1>6, <1>9

----------------------------------------------------------------------------
(* The history of an order's refunds.                                      *)

\* Every refund has an amount, and so far there are finitely many.
HistoryInv ==
  /\ refund \in [RefundIds -> [status : {"ABSENT", "PENDING", "SETTLED", "FAILED"},
                               amount : Nat, lines : SUBSET (DOMAIN LineTotal)]]
  /\ IsFiniteSet(PriorRefunds)

\* The balance that toRefundContext reports is a number, for every selection.
LEMMA ContextNumbers ==
  HistoryInv => /\ ConsumedAmount \in Nat /\ RemainingPayment \in Nat
                /\ Cardinality(PriorRefunds) \in Nat
                /\ \A p : RefundContext(p).refundableAmount \in Nat
<1> SUFFICES ASSUME HistoryInv
             PROVE  /\ ConsumedAmount \in Nat /\ RemainingPayment \in Nat
                    /\ Cardinality(PriorRefunds) \in Nat
                    /\ \A p : RefundContext(p).refundableAmount \in Nat
  OBVIOUS
<1>1. PICK g : g = refund
  OBVIOUS
<1>2. PICK S : S = PriorRefunds
  OBVIOUS
<1>3. IsFiniteSet(S) /\ \A i \in S : g[i].amount \in Nat
  BY <1>1, <1>2 DEF HistoryInv, PriorRefunds
<1>4. Amounts(g, S) \in Nat
  BY <1>3, AmountsMonotone
<1>5. ConsumedAmount \in Nat
  BY <1>1, <1>2, <1>4 DEF ConsumedAmount, Amounts
<1>6. RemainingPayment \in Nat
  BY <1>5, PaidIsNat DEF RemainingPayment
<1>7. ASSUME NEW p PROVE RefundContext(p).refundableAmount \in Nat
  <2>1. SelectedTotal(p) \in Nat
    BY SelectedTotalIsNat
  <2> QED
    BY <1>6, <2>1 DEF RefundContext, Smaller
<1>8. Cardinality(PriorRefunds) \in Nat
  BY FS_CardinalityType DEF HistoryInv
<1> QED
  BY <1>5, <1>6, <1>7, <1>8

\* In particular what was consumed is one.
LEMMA ConsumedIsNat == HistoryInv => ConsumedAmount \in Nat
BY ContextNumbers

\* createRefundPolicyInput makes an input of the policy out of it.
LEMMA InputOf ==
  HistoryInv => \A p \in ReadyProposal, accepted \in BOOLEAN : PolicyInput(p, accepted) \in Input
<1> SUFFICES ASSUME HistoryInv, NEW p \in ReadyProposal, NEW accepted \in BOOLEAN
             PROVE  PolicyInput(p, accepted) \in Input
  OBVIOUS
<1>1. /\ RefundContext(p).refundableAmount \in Nat
      /\ RefundContext(p).priorRefundCount \in Nat
      /\ RefundContext(p).transactionRefundable \in BOOLEAN
      /\ RefundContext(p).itemSelectionValid \in BOOLEAN
  <2>1. RefundContext(p).refundableAmount \in Nat /\ Cardinality(PriorRefunds) \in Nat
    BY ContextNumbers
  <2>2. ItemSelectionValid(p) \in BOOLEAN
    BY DEF ItemSelectionValid
  <2> QED
    BY <2>1, <2>2 DEF RefundContext
<1>2. /\ p.reason \in STRING /\ p.scope \in Scopes /\ p.amount \in Nat
      /\ Policy.version \in STRING /\ Policy.currency \in STRING
  BY PolicyIsValid DEF ReadyProposal, Release
<1> QED
  BY <1>1, <1>2 DEF PolicyInput, Input

\* Two inputs of the policy are compared fact by fact.
LEMMA RiskierByFacts ==
  ASSUME NEW base \in Input, NEW input \in Input,
         0 < base.amount, base.amount <= input.amount,
         input.balance <= base.balance, base.priorRefunds <= input.priorRefunds,
         /\ input.version = base.version /\ input.reason = base.reason
         /\ input.scope = base.scope /\ input.absent = base.absent
         /\ input.currency = base.currency /\ input.verified = base.verified
         /\ input.refundable = base.refundable /\ input.selectionValid = base.selectionValid
         /\ input.balanceCurrency = base.balanceCurrency /\ input.originalMethod = base.originalMethod
         /\ input.acceptedEvidence = base.acceptedEvidence
  PROVE  AtLeastAsRisky(input, base)
<1>1. PICK r : r = [base EXCEPT !.amount = input.amount, !.balance = input.balance,
                                !.priorRefunds = input.priorRefunds]
  OBVIOUS
<1>2. r \in Input
  BY <1>1 DEF Input
<1>3. /\ r.amount = input.amount /\ r.balance = input.balance
      /\ r.priorRefunds = input.priorRefunds
      /\ r.version = base.version /\ r.reason = base.reason
      /\ r.scope = base.scope /\ r.absent = base.absent
      /\ r.currency = base.currency /\ r.verified = base.verified
      /\ r.refundable = base.refundable /\ r.selectionValid = base.selectionValid
      /\ r.balanceCurrency = base.balanceCurrency /\ r.originalMethod = base.originalMethod
      /\ r.acceptedEvidence = base.acceptedEvidence
  BY <1>1 DEF Input
<1>4. input =
        [version |-> input.version, reason |-> input.reason, scope |-> input.scope,
         absent |-> input.absent, amount |-> input.amount, currency |-> input.currency,
         verified |-> input.verified, refundable |-> input.refundable,
         selectionValid |-> input.selectionValid, priorRefunds |-> input.priorRefunds,
         balance |-> input.balance, balanceCurrency |-> input.balanceCurrency,
         originalMethod |-> input.originalMethod,
         acceptedEvidence |-> input.acceptedEvidence]
  BY DEF Input
<1>5. r =
        [version |-> r.version, reason |-> r.reason, scope |-> r.scope,
         absent |-> r.absent, amount |-> r.amount, currency |-> r.currency,
         verified |-> r.verified, refundable |-> r.refundable,
         selectionValid |-> r.selectionValid, priorRefunds |-> r.priorRefunds,
         balance |-> r.balance, balanceCurrency |-> r.balanceCurrency,
         originalMethod |-> r.originalMethod, acceptedEvidence |-> r.acceptedEvidence]
  BY <1>2 DEF Input
<1>6. input = r
  BY <1>3, <1>4, <1>5
<1>7. input.priorRefunds >= base.priorRefunds
  BY DEF Input
<1> QED
  BY <1>1, <1>6, <1>7 DEF AtLeastAsRisky

----------------------------------------------------------------------------
(* Asking for more, and the last check.                                    *)

\* A refund history of finitely many refunds says no less to a larger amount.
LEMMA MoreIsNeverMilder ==
  ASSUME HistoryInv, NEW j \in Journeys, NEW accepted \in BOOLEAN,
         NEW less \in Nat \ {0}, NEW more \in Nat \ {0}, less <= more
  PROVE  Severity[EffectNow([Proposal[j] EXCEPT !.amount = less], accepted)]
           <= Severity[EffectNow([Proposal[j] EXCEPT !.amount = more], accepted)]
<1>0. Proposal[j] \in ReadyProposal
  BY ProposalsAreReady
<1>1. PICK p : p = [Proposal[j] EXCEPT !.amount = less]
  OBVIOUS
<1>2. PICK q : q = [Proposal[j] EXCEPT !.amount = more]
  OBVIOUS
<1>3. /\ p \in ReadyProposal /\ q \in ReadyProposal
      /\ p.amount = less /\ q.amount = more
      /\ p.reason = q.reason /\ p.scope = q.scope /\ p.items = q.items
  BY <1>0, <1>1, <1>2 DEF ReadyProposal
<1>4. RefundContext(p) = RefundContext(q)
  BY <1>3 DEF RefundContext, ItemSelectionValid, SelectedTotal
<1>5. PICK base : base = PolicyInput(p, accepted)
  OBVIOUS
<1>6. PICK input : input = PolicyInput(q, accepted)
  OBVIOUS
<1>7. base \in Input /\ input \in Input
  BY <1>3, <1>5, <1>6, InputOf
<1>8. AtLeastAsRisky(input, base)
  <2>1. base.amount = less /\ input.amount = more
    BY <1>3, <1>5, <1>6 DEF PolicyInput
  <2>2. base.balance \in Nat /\ base.priorRefunds \in Nat
    BY <1>7 DEF Input
  <2>3. /\ input.balance = base.balance /\ input.priorRefunds = base.priorRefunds
        /\ input.version = base.version /\ input.reason = base.reason
        /\ input.scope = base.scope /\ input.absent = base.absent
        /\ input.currency = base.currency /\ input.verified = base.verified
        /\ input.refundable = base.refundable /\ input.selectionValid = base.selectionValid
        /\ input.balanceCurrency = base.balanceCurrency /\ input.originalMethod = base.originalMethod
        /\ input.acceptedEvidence = base.acceptedEvidence
    BY <1>3, <1>4, <1>5, <1>6 DEF PolicyInput
  <2> QED
    BY <1>7, <2>1, <2>2, <2>3, RiskierByFacts
<1>9. Severity[PolicyEffect(base, Policy)] <= Severity[PolicyEffect(input, Policy)]
  BY <1>7, <1>8, RiskierIsNeverMilder, PolicyIsValid
<1> QED
  BY <1>1, <1>2, <1>5, <1>6, <1>9 DEF EffectNow

\* In any history the policy denies exactly what the last check refuses.
LEMMA CheckIsPolicy ==
  ASSUME HistoryInv, NEW j \in Journeys, Proposal[j].reason \in Policy.reasons
  PROVE  AmountStillAvailable(Proposal[j]) <=> EffectNow(Proposal[j], TRUE) # "DENY"
<1>1. PICK p \in ReadyProposal : p = Proposal[j]
  BY ProposalsAreReady
<1>2. PICK facts : facts = RefundContext(p)
  OBVIOUS
<1>3. PICK input : input = PolicyInput(p, TRUE)
  OBVIOUS
<1>4. /\ input.version = Policy.version /\ input.reason = p.reason /\ input.scope = p.scope
      /\ input.absent = {} /\ input.amount = p.amount /\ input.verified
      /\ input.currency = input.balanceCurrency
      /\ input.refundable = facts.transactionRefundable
      /\ input.selectionValid = facts.itemSelectionValid
      /\ input.balance = facts.refundableAmount
  BY <1>2, <1>3 DEF PolicyInput
<1>5. p.amount \in Nat \ {0} /\ p.reason # "UNSPECIFIED" /\ p.scope # "UNSPECIFIED"
  BY DEF ReadyProposal
<1>6. facts.refundableAmount \in Nat
  BY <1>2, ContextNumbers
<1>7. FindMissingFacts(input) = {}
  BY <1>4, <1>5 DEF FindMissingFacts
<1>8. Denied(input, Policy) <=>
        ~ (facts.transactionRefundable /\ facts.itemSelectionValid
             /\ p.amount <= facts.refundableAmount)
  BY <1>1, <1>4, <1>5, <1>6 DEF Denied
<1>9. PolicyEffect(input, Policy) = "DENY" <=> Denied(input, Policy)
  BY <1>4, <1>7, PolicyIsValid DEF PolicyEffect
<1> QED
  BY <1>1, <1>2, <1>3, <1>8, <1>9 DEF AmountStillAvailable, EffectNow

----------------------------------------------------------------------------
(* The history grows.                                                      *)

\* No order starts with a refund.
LEMMA HistoryBegins == Init => HistoryInv
<1> SUFFICES ASSUME Init PROVE HistoryInv
  OBVIOUS
<1>1. PriorRefunds = {}
  BY DEF Init, PriorRefunds, RefundConsumesBalance
<1> QED
  BY <1>1, FS_EmptySet DEF Init, HistoryInv

\* The refund a step adds, or the one whose status it changes, is all that it touches.
OnlyRefund(i) ==
  /\ \A k \in RefundIds \ {i} : refund'[k] = refund[k]
  /\ refund' \in [RefundIds -> [status : {"ABSENT", "PENDING", "SETTLED", "FAILED"},
                                amount : Nat, lines : SUBSET (DOMAIN LineTotal)]]

\* A new refund takes an identifier the provider has not used.
Added(i) == OnlyRefund(i) /\ refund[i].status = "ABSENT" /\ refund'[i].status = "PENDING"

\* The provider's end of a refund leaves its amount and lines alone.
Finished(i) ==
  /\ OnlyRefund(i)
  /\ refund[i].status = "PENDING" /\ refund'[i].status \in {"SETTLED", "FAILED"}
  /\ refund'[i].amount = refund[i].amount /\ refund'[i].lines = refund[i].lines

\* These are all the ways in which the refunds of an order change.
LEMMA HistorySteps ==
  ASSUME HistoryInv, [Next]_vars
  PROVE  refund' = refund \/ \E i \in RefundIds : Added(i) \/ Finished(i)
<1>0. refund \in [RefundIds -> [status : {"ABSENT", "PENDING", "SETTLED", "FAILED"},
                                amount : Nat, lines : SUBSET (DOMAIN LineTotal)]]
  BY DEF HistoryInv
<1>1. ASSUME NEW i \in RefundIds, NEW amount \in Nat, NEW lines \in SUBSET (DOMAIN LineTotal),
             refund[i].status = "ABSENT",
             refund' = [refund EXCEPT ![i] =
                          [status |-> "PENDING", amount |-> amount, lines |-> lines]]
      PROVE  Added(i)
  BY <1>0, <1>1 DEF Added, OnlyRefund
<1>2. ASSUME NEW j \in Journeys, Execute(j)
      PROVE  refund' = refund \/ \E i \in RefundIds : Added(i)
  <2>1. Proposal[j].amount \in Nat
    BY ProposalsAreReady DEF ReadyProposal
  <2>2. {} \in SUBSET (DOMAIN LineTotal)
    OBVIOUS
  <2> QED
    BY <1>1, <1>2, <2>1, <2>2 DEF Execute
<1>3. ASSUME NEW item \in ConsoleItems, RefundInConsole(item)
      PROVE  \E i \in RefundIds : Added(i)
  <2>1. LineTotal[item] \in Nat /\ {item} \in SUBSET (DOMAIN LineTotal)
    BY OrderHasLines, ConsoleItemsAreLines
  <2> QED
    BY <1>1, <1>3, <2>1 DEF RefundInConsole
<1>4. ASSUME NEW i \in RefundIds, ProviderFinishes(i) PROVE Finished(i)
  <2>1. PICK status \in {"SETTLED", "FAILED"} : refund' = [refund EXCEPT ![i].status = status]
    BY <1>4 DEF ProviderFinishes
  <2> QED
    BY <1>0, <1>4, <2>1 DEF ProviderFinishes, Finished, OnlyRefund
<1>5. ASSUME NEW j \in Journeys, Evaluate(j) \/ Decide(j) PROVE refund' = refund
  BY <1>5 DEF Evaluate, Decide
<1> QED
  BY <1>2, <1>3, <1>4, <1>5 DEF Next, vars

\* Refunds come one at a time.
LEMMA HistoryStays == HistoryInv /\ [Next]_vars => HistoryInv'
<1> SUFFICES ASSUME HistoryInv, [Next]_vars PROVE HistoryInv'
  OBVIOUS
<1>1. CASE refund' = refund
  BY <1>1 DEF HistoryInv, PriorRefunds
<1>2. ASSUME NEW i \in RefundIds, OnlyRefund(i) PROVE HistoryInv'
  <2>1. PriorRefunds' \subseteq PriorRefunds \cup {i}
    BY <1>2 DEF PriorRefunds, OnlyRefund
  <2>2. IsFiniteSet(PriorRefunds \cup {i})
    BY FS_AddElement DEF HistoryInv
  <2>3. IsFiniteSet(PriorRefunds')
    BY <2>1, <2>2, FS_Subset
  <2> QED
    BY <1>2, <2>3 DEF HistoryInv, OnlyRefund
<1> QED
  BY <1>1, <1>2, HistorySteps DEF Added, Finished

\* So it holds throughout.
LEMMA AlwaysHistory == Spec => []HistoryInv
BY HistoryBegins, HistoryStays, PTL DEF Spec

\* While none fails, prior refunds stay, with their amounts and lines.
LEMMA PriorRefundsStay ==
  ASSUME HistoryInv, [Next]_vars, ~RefundFails
  PROVE  /\ PriorRefunds \subseteq PriorRefunds'
         /\ \A i \in PriorRefunds : /\ refund'[i].amount = refund[i].amount
                                    /\ refund'[i].lines = refund[i].lines
<1>1. CASE refund' = refund
  BY <1>1 DEF PriorRefunds
<1>2. ASSUME NEW i \in RefundIds, Added(i)
      PROVE  /\ PriorRefunds \subseteq PriorRefunds'
             /\ \A k \in PriorRefunds : refund'[k] = refund[k]
  BY <1>2 DEF Added, OnlyRefund, PriorRefunds, RefundConsumesBalance
<1>3. ASSUME NEW i \in RefundIds, Finished(i)
      PROVE  /\ PriorRefunds \subseteq PriorRefunds'
             /\ \A k \in PriorRefunds : /\ refund'[k].amount = refund[k].amount
                                        /\ refund'[k].lines = refund[k].lines
  <2>1. refund'[i].status = "SETTLED"
    BY <1>3 DEF Finished, RefundFails
  <2> QED
    BY <1>3, <2>1 DEF Finished, OnlyRefund, PriorRefunds, RefundConsumesBalance
<1> QED
  BY <1>1, <1>2, <1>3, HistorySteps

\* So toRefundContext reports no more to refund than before, after no fewer refunds,
\* and a selection that overlapped an earlier refund still does.
LEMMA ContextTightens ==
  ASSUME HistoryInv, HistoryInv', [Next]_vars, ~RefundFails, NEW p
  PROVE  /\ RemainingPayment' <= RemainingPayment
         /\ Cardinality(PriorRefunds) <= Cardinality(PriorRefunds)'
         /\ ItemSelectionValid(p)' => ItemSelectionValid(p)
<1>1. /\ PriorRefunds \subseteq PriorRefunds'
      /\ \A i \in PriorRefunds : /\ refund'[i].amount = refund[i].amount
                                 /\ refund'[i].lines = refund[i].lines
  BY PriorRefundsStay
<1>2. ConsumedAmount <= ConsumedAmount'
  <2>1. PICK g : g = refund'
    OBVIOUS
  <2>2. PICK h : h = refund
    OBVIOUS
  <2>3. PICK S : S = PriorRefunds'
    OBVIOUS
  <2>4. PICK R \in SUBSET S : R = PriorRefunds
    BY <1>1, <2>3
  <2>5. /\ IsFiniteSet(S) /\ \A i \in S : g[i].amount \in Nat
        /\ \A i \in R : h[i].amount = g[i].amount
    BY <1>1, <2>1, <2>2, <2>3, <2>4 DEF HistoryInv, PriorRefunds
  <2>6. Amounts(h, R) <= Amounts(g, S)
    BY <2>5, AmountsMonotone
  <2>7. Amounts(refund, PriorRefunds) <= Amounts(refund, PriorRefunds)'
    BY <2>1, <2>2, <2>3, <2>4, <2>6
  <2> QED
    BY <2>7 DEF ConsumedAmount, Amounts, MapThenSumSet, MapThenFoldSet
<1>3. ConsumedAmount \in Nat /\ (ConsumedAmount \in Nat)'
  BY ConsumedIsNat, PTL
<1>4. RemainingPayment' <= RemainingPayment
  <2>1. PICK c \in Nat : c = ConsumedAmount
    BY <1>3
  <2>2. PICK d \in Nat : d = ConsumedAmount'
    BY <1>3
  <2>3. /\ RemainingPayment = IF Paid > c THEN Paid - c ELSE 0
        /\ RemainingPayment' = IF Paid > d THEN Paid - d ELSE 0
    BY <2>1, <2>2 DEF RemainingPayment
  <2>4. c <= d
    BY <1>2, <2>1, <2>2
  <2>5. (IF Paid > d THEN Paid - d ELSE 0) <= (IF Paid > c THEN Paid - c ELSE 0)
    BY <2>4, PaidIsNat
  <2> QED
    BY <2>3, <2>5
<1>5. Cardinality(PriorRefunds) <= Cardinality(PriorRefunds)'
  BY <1>1, FS_Subset DEF HistoryInv
<1>6. ItemSelectionValid(p)' => ItemSelectionValid(p)
  BY <1>1 DEF ItemSelectionValid
<1> QED
  BY <1>4, <1>5, <1>6

\* The facts of an input: the request's own, and those toRefundContext derives when r
\* of the payment remains, after n refunds, for a selection that is valid or not.
FactsAre(input, p, accepted, r, n, valid) ==
  /\ input.version = Policy.version /\ input.reason = p.reason /\ input.scope = p.scope
  /\ input.absent = {} /\ input.amount = p.amount
  /\ input.currency = Policy.currency /\ input.verified = TRUE
  /\ input.balanceCurrency = Policy.currency /\ input.originalMethod = TRUE
  /\ input.acceptedEvidence = accepted
  /\ input.refundable <=> r > 0
  /\ input.selectionValid <=> valid
  /\ input.priorRefunds = n
  /\ valid => input.balance = IF p.scope = "FULL_ORDER" THEN r ELSE Smaller(SelectedTotal(p), r)

FactsNow(p, accepted) ==
  FactsAre(PolicyInput(p, accepted), p, accepted,
           RemainingPayment, Cardinality(PriorRefunds), ItemSelectionValid(p))

\* createRefundPolicyInput takes them over as they are.
LEMMA InputFacts ==
  ASSUME NEW p, NEW accepted
  PROVE  FactsNow(p, accepted)
<1>1. PICK facts : facts = RefundContext(p)
  OBVIOUS
<1>2. PICK r : r = RemainingPayment
  OBVIOUS
<1>3. /\ facts.transactionRefundable <=> r > 0
      /\ facts.itemSelectionValid <=> ItemSelectionValid(p)
      /\ facts.priorRefundCount = Cardinality(PriorRefunds)
      /\ ItemSelectionValid(p) =>
           facts.refundableAmount =
             IF p.scope = "FULL_ORDER" THEN r ELSE Smaller(SelectedTotal(p), r)
  BY <1>1, <1>2 DEF RefundContext, ItemSelectionValid
<1>4. PICK input : input = PolicyInput(p, accepted)
  OBVIOUS
<1>5. /\ input.refundable = facts.transactionRefundable
      /\ input.selectionValid = facts.itemSelectionValid
      /\ input.priorRefunds = facts.priorRefundCount
      /\ input.balance = facts.refundableAmount
  BY <1>1, <1>4 DEF PolicyInput
<1>6. /\ input.version = Policy.version /\ input.reason = p.reason /\ input.scope = p.scope
      /\ input.absent = {} /\ input.amount = p.amount
      /\ input.currency = Policy.currency /\ input.verified = TRUE
      /\ input.balanceCurrency = Policy.currency /\ input.originalMethod = TRUE
      /\ input.acceptedEvidence = accepted
  BY <1>4 DEF PolicyInput
<1> QED
  BY <1>2, <1>3, <1>4, <1>5, <1>6 DEF FactsAre, FactsNow

\* After a step as well as before it.
LEMMA InputFactsAfter ==
  ASSUME NEW p, NEW accepted
  PROVE  FactsNow(p, accepted)'
<1>1. FactsNow(p, accepted)
  BY InputFacts
<1> QED
  BY <1>1, PTL

\* What remains of the payment is a number; an input is one of the policy's.
RemainsNat == RemainingPayment \in Nat
InputsFit == \A p \in ReadyProposal, accepted \in BOOLEAN : PolicyInput(p, accepted) \in Input

\* Both hold in every history.
LEMMA HistoryGivesInputs == HistoryInv => RemainsNat /\ InputsFit
BY ContextNumbers, InputOf DEF RemainsNat, InputsFit

\* A denied request has the most severe verdict of an evaluation.
LEMMA DenialIsSevere ==
  ASSUME NEW base \in Input, NEW input \in Input, base.version = Policy.version,
         input.version = Policy.version, FindMissingFacts(input) = {}, Denied(input, Policy)
  PROVE  Severity[PolicyEffect(base, Policy)] <= Severity[PolicyEffect(input, Policy)]
<1>1. PolicyEffect(input, Policy) = "DENY"
  BY PolicyIsValid DEF PolicyEffect
<1>2. PolicyEffect(base, Policy) \in Effects
  BY PolicyIsValid DEF PolicyEffect, Effects
<1> QED
  BY <1>1, <1>2 DEF Effects, Severity

\* While no refund fails, the policy says no less to a request than it said.
LEMMA Tightens ==
  ASSUME HistoryInv, HistoryInv', [Next]_vars, ~RefundFails,
         NEW p \in ReadyProposal, NEW accepted \in BOOLEAN
  PROVE  Severity[EffectNow(p, accepted)] <= Severity[EffectNow(p, accepted)']
<1>1. PICK base : base = PolicyInput(p, accepted)
  OBVIOUS
<1>2. PICK input : input = PolicyInput(p, accepted)'
  OBVIOUS
<1>3. base \in Input
  BY <1>1, InputOf
<1>4. RemainsNat' /\ InputsFit'
  BY HistoryGivesInputs, PTL
<1>5. input \in Input
  BY <1>2, <1>4 DEF InputsFit
<1>6. PICK r \in Nat : r = RemainingPayment
  BY ContextNumbers
<1>7. PICK s \in Nat : s = RemainingPayment'
  BY <1>4 DEF RemainsNat
<1>8. PICK t \in Nat : t = SelectedTotal(p)
  BY SelectedTotalIsNat
<1>9. FactsAre(base, p, accepted, r, Cardinality(PriorRefunds), ItemSelectionValid(p))
  BY <1>1, <1>6, InputFacts DEF FactsNow
<1>10. FactsAre(input, p, accepted, s, Cardinality(PriorRefunds)', ItemSelectionValid(p)')
  <2>1. FactsNow(p, accepted)'
    BY InputFactsAfter
  <2> QED
    BY <1>2, <1>7, <2>1 DEF FactsNow
<1>11. /\ s <= r
       /\ ItemSelectionValid(p)' => ItemSelectionValid(p)
       /\ base.priorRefunds <= input.priorRefunds
  BY <1>6, <1>7, <1>9, <1>10, ContextTightens DEF FactsAre
<1>12. base.version = Policy.version /\ input.version = Policy.version
  BY <1>9, <1>10 DEF FactsAre
<1>13. p.amount \in Nat \ {0} /\ p.reason # "UNSPECIFIED" /\ p.scope # "UNSPECIFIED"
  BY DEF ReadyProposal
<1>14. FindMissingFacts(input) = {}
  BY <1>10, <1>13 DEF FindMissingFacts, FactsAre
<1>15. CASE Denied(input, Policy)
  <2>1. Severity[PolicyEffect(base, Policy)] <= Severity[PolicyEffect(input, Policy)]
    BY <1>3, <1>5, <1>12, <1>14, <1>15, DenialIsSevere
  <2> QED
    BY <1>1, <1>2, <2>1 DEF EffectNow
<1>16. CASE ~Denied(input, Policy)
  <2>1. s > 0 /\ ItemSelectionValid(p)'
    BY <1>10, <1>16 DEF Denied, FactsAre
  <2>2. r > 0 /\ ItemSelectionValid(p)
    BY <1>11, <2>1
  <2>3. /\ base.balance = IF p.scope = "FULL_ORDER" THEN r ELSE Smaller(t, r)
        /\ input.balance = IF p.scope = "FULL_ORDER" THEN s ELSE Smaller(t, s)
    BY <1>8, <1>9, <1>10, <2>1, <2>2 DEF FactsAre
  <2>4. input.balance <= base.balance
    BY <1>11, <2>3 DEF Smaller
  <2>5. 0 < base.amount /\ base.amount <= input.amount
    BY <1>9, <1>10, <1>13 DEF FactsAre
  <2>6. input.refundable = base.refundable /\ input.selectionValid = base.selectionValid
    <3>1. /\ input.refundable \in BOOLEAN /\ input.selectionValid \in BOOLEAN
          /\ base.refundable \in BOOLEAN /\ base.selectionValid \in BOOLEAN
      BY <1>3, <1>5 DEF Input
    <3>2. input.refundable /\ base.refundable /\ input.selectionValid /\ base.selectionValid
      BY <1>9, <1>10, <2>1, <2>2 DEF FactsAre
    <3> QED
      BY <3>1, <3>2
  <2>7. /\ input.version = base.version /\ input.reason = base.reason
        /\ input.scope = base.scope /\ input.absent = base.absent
        /\ input.currency = base.currency /\ input.verified = base.verified
        /\ input.balanceCurrency = base.balanceCurrency
        /\ input.originalMethod = base.originalMethod
        /\ input.acceptedEvidence = base.acceptedEvidence
    BY <1>9, <1>10 DEF FactsAre
  <2>8. AtLeastAsRisky(input, base)
    BY <1>3, <1>5, <1>11, <2>4, <2>5, <2>6, <2>7, RiskierByFacts
  <2>9. Severity[PolicyEffect(base, Policy)] <= Severity[PolicyEffect(input, Policy)]
    BY <1>3, <1>5, <2>8, RiskierIsNeverMilder, PolicyIsValid
  <2> QED
    BY <1>1, <1>2, <2>9 DEF EffectNow
<1> QED
  BY <1>15, <1>16

----------------------------------------------------------------------------
(* The theorems.                                                           *)

\* For every order, every set of journeys on it and every policy release that
\* assertPolicyRelease accepts: raising the amount never earns a milder verdict from
\* evaluateRefundPolicy, whatever has been refunded on the order before.
THEOREM AskingMoreIsNeverMilderHolds == Spec => []AskingMoreIsNeverMilder
<1>1. ASSUME HistoryInv, NEW j \in Journeys, NEW accepted \in BOOLEAN,
             NEW amount \in 2..Proposal[j].amount
      PROVE  LET demand == [n \in 1..Proposal[j].amount |->
                              Severity[EffectNow([Proposal[j] EXCEPT !.amount = n], accepted)]]
             IN demand[amount - 1] <= demand[amount]
  <2>1. Proposal[j].amount \in Nat
    BY ProposalsAreReady DEF ReadyProposal
  <2>2. amount - 1 \in Nat \ {0} /\ amount \in Nat \ {0} /\ amount - 1 <= amount
    BY <2>1
  <2>3. Severity[EffectNow([Proposal[j] EXCEPT !.amount = amount - 1], accepted)]
          <= Severity[EffectNow([Proposal[j] EXCEPT !.amount = amount], accepted)]
    BY <1>1, <2>2, MoreIsNeverMilder
  <2>4. amount \in 1..Proposal[j].amount /\ amount - 1 \in 1..Proposal[j].amount
    BY <2>1
  <2> QED
    BY <2>3, <2>4
<1>2. HistoryInv => AskingMoreIsNeverMilder
  BY <1>1 DEF AskingMoreIsNeverMilder
<1> QED
  BY <1>2, AlwaysHistory, PTL

\* The worker's and the gateway's last check before the money moves accepts exactly the
\* requests that the rules of evaluateRefundPolicy about the balance do not deny, for
\* every order and release.
THEOREM ChecksAgreeHolds == Spec => []ChecksAgree
<1>1. HistoryInv => ChecksAgree
  BY CheckIsPolicy DEF ChecksAgree
<1> QED
  BY <1>1, AlwaysHistory, PTL

\* As long as no refund of the order fails, no step of any journey, of staff or of the
\* provider makes the policy milder towards any request on the order.
THEOREM VerdictsOnlyTightenHolds == Spec => VerdictsOnlyTighten
<1>1. ASSUME HistoryInv, HistoryInv', [Next]_vars, ~RefundFails,
             NEW j \in Journeys, NEW accepted \in BOOLEAN
      PROVE  Severity[EffectNow(Proposal[j], accepted)]
               <= Severity[EffectNow(Proposal[j], accepted)']
  <2>1. PICK p \in ReadyProposal : p = Proposal[j]
    BY ProposalsAreReady
  <2>2. Severity[EffectNow(p, accepted)] <= Severity[EffectNow(p, accepted)']
    BY <1>1, Tightens
  <2> QED
    BY <2>1, <2>2
<1>2. HistoryInv /\ HistoryInv' /\ [Next]_vars =>
        (~RefundFails => \A j \in Journeys, accepted \in BOOLEAN :
           Severity[EffectNow(Proposal[j], accepted)]
             <= Severity[EffectNow(Proposal[j], accepted)'])
  BY <1>1
<1> QED
  BY <1>2, AlwaysHistory, PTL DEF Spec, VerdictsOnlyTighten
=============================================================================

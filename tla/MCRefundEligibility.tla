------------------------ MODULE MCRefundEligibility ------------------------
(* Instances of RefundEligibility for TLC. *)
EXTENDS RefundEligibility, TLC

\* The provider's identifiers are interchangeable.
Symmetry == Permutations(RefundIds)

\* A valid release whose bands (0..2, 3..4, above 4) and risk classes (1..2,
\* from 3) all have values on both sides of every boundary.
MCPolicy ==
  [version |-> "v2", currency |-> "USD", automaticMaximum |-> 2, approvalMaximum |-> 4,
   elevatedCount |-> 1, highCount |-> 3, validity |-> 15, reasons |-> {"DAMAGED", "LATE"},
   requireDamagePhoto |-> TRUE]

MCLineTotal == [item \in {"mug", "lamp"} |-> IF item = "mug" THEN 2 ELSE 5]

ForItems(reason, items, amount) ==
  [reason |-> reason, scope |-> "SELECTED_ITEMS", items |-> items, amount |-> amount]
ForOrder(reason, amount) ==
  [reason |-> reason, scope |-> "FULL_ORDER", items |-> {}, amount |-> amount]

MCProposal == [j1 |-> ForItems("DAMAGED", {"mug"}, 2), j2 |-> ForOrder("LATE", 5)]
=============================================================================

------------------------- MODULE MCRefundExecution -------------------------
(* One or two journeys about one paid order. *)
EXTENDS RefundExecution, TLC

CONSTANTS wA, wB, r1, r2

\* Amounts that reconciliation can tell apart; either one fits the payment
\* alone, both together do not.
DistinctAmounts == (wA :> 2) @@ (wB :> 3)
PaymentOfFour == 4

\* Two journeys for the same amount, and a payment that covers both.
EqualAmounts == (wA :> 2) @@ (wB :> 2)

\* One journey for the whole payment.
WholePayment == wA :> 4

IdSymmetry == Permutations(RefundIds)
=============================================================================

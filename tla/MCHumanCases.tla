---------------------------- MODULE MCHumanCases ----------------------------
EXTENDS HumanCases, TLC

TwoStaff == {"ana", "sam"}
TwoRoles == [s \in TwoStaff |-> IF s = "ana" THEN "REFUND_APPROVER" ELSE "REFUND_SUPERVISOR"]

\* Keys are only compared with one another.
KeysAreAlike == Permutations(Keys)
=============================================================================

SPECIFICATION Spec
CONSTANTS
  Journeys = {"j1", "j2"}
  RefundIds = {r1, r2, r3}
  Proposal <- MCProposal
  LineTotal <- MCLineTotal
  ConsoleItems = {"mug", "lamp"}
  Paid = 12
  Policy <- MCPolicy
SYMMETRY Symmetry
INVARIANTS AskingMoreIsNeverMilder ChecksAgree
PROPERTY VerdictsOnlyTighten
CHECK_DEADLOCK FALSE

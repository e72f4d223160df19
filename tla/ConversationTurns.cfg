SPECIFICATION Spec
CONSTANTS
    None = None
    a = a
    b = b
    q1 = q1
    q2 = q2
    Customers = {alice, bob}
    Conversations = {1, 2, 3}
    Questions = {q1, q2}
    Clarifications = {x1}
    Offers = {x2}
    Texts = {q1, q2, x1, x2}
    Pages = {tab}
    Requests = {r1, r2}
    Orders = {a, b}
    Mentions <- MCMentions
    Size <- MCSize
    MaxMessageSize = 2
    MaxContextMessages = 2
    MaxContextSize = 3
    MaxTurns = 2
    MaxProposals = 2
    MaxLosses = 2
    Forms <- MCForms
INVARIANTS EventPerMessage JourneysAndReplies ShownIsPersisted
PROPERTIES KeepsLog OrderIsLastNamed
CHECK_DEADLOCK FALSE

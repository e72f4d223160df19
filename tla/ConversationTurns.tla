------------------------- MODULE ConversationTurns -------------------------
(***************************************************************************)
(* A turn of the support chat, from the customer's page through the        *)
(* portal's proxy and the handlers of the edge API to the conversation     *)
(* runtime, the agent runtime and Temporal.  A handler awaits one call     *)
(* after another and runs on when its page has gone; a call it gives up    *)
(* on may still be carried out.  A page repeats a turn with the same keys. *)
(***************************************************************************)
EXTENDS ConversationStore, FiniteSetsExt

CONSTANTS
    Pages,                \* browser tabs, each with its session storage
    Requests,             \* requests the edge API may be working on at once
    Orders, Questions,
    Forms,                \* what a customer may send: text and order reference
    Mentions, Size,       \* of a question: the orders it names, its length
    Clarifications, Offers,         \* answers of the agent
    MaxMessageSize, MaxContextMessages, MaxContextSize,
    MaxTurns, MaxProposals, MaxLosses       \* bounds of the model

ASSUME TextsAssumption ==
    /\ Texts = Questions \cup Clarifications \cup Offers
    /\ Forms \subseteq [text : Questions, order : Orders \cup {None}]
    /\ Mentions \in [Questions -> SUBSET Orders]
    /\ Size \in [Questions -> Nat]

ASSUME BoundsAssumption == MaxTurns \in Nat /\ MaxProposals \in Nat

VARIABLES
    customer,    \* the customer whose token the portal's server holds
    page,        \* the chat component and its session storage
    handler,     \* the edge API's requests
    late,        \* calls given up on that may still be carried out
    journeys,    \* refund workflows started in Temporal
    turns,       \* turns given keys so far
    proposals,   \* proposals made by the agent so far
    losses       \* answers lost, calls given up on, restarts so far

vars == <<conversation, message, idempotencyKey, outbox, customer, page,
          handler, late, journeys, turns, proposals, losses>>

counters == <<turns, proposals, losses>>

Idle == [at |-> "idle"]

FreshPage(c) == [conv |-> c, pending |-> None, request |-> None, shown |-> {}]

Init ==
    /\ InitStore
    /\ customer = CHOOSE c \in Customers : TRUE
    /\ page = [p \in Pages |-> FreshPage(None)]
    /\ handler = [r \in Requests |-> Idle]
    /\ late = {}
    /\ journeys = {}
    /\ turns = 0
    /\ proposals = 0
    /\ losses = 0

-----------------------------------------------------------------------------
(* The calls of a handler, and the keys they carry.                        *)

SignConversationRuntimeContextAssertion(c) ==
    [typ |-> "cso-context+jwt", audience |-> "conversation-runtime",
     customer |-> c]

SignEdgeServiceAssertion(c) ==
    [typ |-> "cso-service+jwt", audience |-> "conversation-runtime",
     customer |-> c]

CreateScopedIdempotencyKey(scope, h) ==
    <<scope, h.customer, h.conv, h.turn.id>>

AssistantClientMessageId(h) == <<"assistant", h.turn.id>>

CreateCall(h) ==
    [op |-> "create",
     assertion |-> SignConversationRuntimeContextAssertion(h.customer),
     key |-> CreateScopedIdempotencyKey("conversation-create", h)]

ReadCall(conv, c) ==
    [op |-> "read", conv |-> conv,
     assertion |-> SignConversationRuntimeContextAssertion(c)]

AcceptCall(h) ==
    [op |-> "accept", conv |-> h.conv,
     assertion |-> SignConversationRuntimeContextAssertion(h.customer),
     key |-> CreateScopedIdempotencyKey("customer-message", h),
     client |-> <<"customer", h.turn.id>>, text |-> h.turn.text]

AssistantCall(h) ==
    [op |-> "assistant", conv |-> h.conv,
     assertion |-> SignEdgeServiceAssertion(h.customer),
     key |-> CreateScopedIdempotencyKey("assistant-message", h),
     client |-> AssistantClientMessageId(h), text |-> h.answer]

StartCall(h) ==
    [op |-> "start", workflow |-> h.workflow, customer |-> h.customer,
     conv |-> h.conv, turn |-> h.turn.id]

LinkCall(h) ==
    [op |-> "link", conv |-> h.conv, reply |-> h.reply, workflow |-> h.workflow,
     assertion |-> SignEdgeServiceAssertion(h.customer),
     key |-> <<"refund-workflow-reference", h.customer, h.conv, h.reply,
               h.workflow>>]

\* The call a handler is waiting for.
CallOf(h) == CASE h.at = "create" -> CreateCall(h)
               [] h.at = "accept" -> AcceptCall(h)
               [] h.at = "assistant" -> AssistantCall(h)
               [] h.at = "start" -> StartCall(h)
               [] h.at = "link" -> LinkCall(h)

Journey(call) == [workflow |-> call.workflow, customer |-> call.customer,
                  conv |-> call.conv, turn |-> call.turn]

-----------------------------------------------------------------------------
(* The page.                                                               *)

CanRetryPendingTurn(p, form) ==
    /\ page[p].pending # None
    /\ page[p].pending.text = form.text
    /\ page[p].pending.order = form.order

\* A page waits for the request it has sent until it is answered or lost.
Waiting(r) == handler[r].at # "idle" /\ page[handler[r].page].request = r

NewRequest(p, turn, c) ==
    [at |-> IF c = None THEN "create" ELSE "accept",
     page |-> p, customer |-> customer, turn |-> turn, conv |-> c,
     question |-> None, order |-> None, answer |-> None, workflow |-> None,
     reply |-> None]

\* Sending is disabled while a request is under way.  A turn that failed is
\* sent again with its own keys unless the customer has changed it.
Submit(p, form) ==
    /\ page[p].request = None
    /\ Size[form.text] <= MaxMessageSize
    /\ \E r \in Requests : handler[r] = Idle
    /\ CanRetryPendingTurn(p, form) \/ turns < MaxTurns
    /\ LET turn == IF CanRetryPendingTurn(p, form) THEN page[p].pending
                   ELSE [id |-> turns + 1, text |-> form.text,
                         order |-> form.order]
           r == CHOOSE s \in Requests : handler[s] = Idle
       IN /\ handler' = [handler EXCEPT ![r] =
                           NewRequest(p, turn, page[p].conv)]
          /\ page' = [page EXCEPT ![p].pending = turn, ![p].request = r]
          /\ turns' = IF turn.id > turns THEN turn.id ELSE turns
    /\ UNCHANGED <<storeVars, customer, late, journeys, proposals, losses>>

\* The customer edits the draft: the pending turn's keys are forgotten.
UpdateDraft(p) ==
    /\ page[p].request = None
    /\ page[p].pending # None
    /\ page' = [page EXCEPT ![p].pending = None]
    /\ UNCHANGED <<storeVars, customer, handler, late, journeys, counters>>

\* Something is lost: the model allows MaxLosses of these.
Loss == losses < MaxLosses /\ losses' = losses + 1

\* The connection or the proxy fails; the edge API does not notice.
LoseAnswer(p) ==
    /\ page[p].request # None
    /\ Loss
    /\ page' = [page EXCEPT ![p].request = None]
    /\ UNCHANGED <<storeVars, customer, handler, late, journeys, turns,
                   proposals>>

\* The page is opened anew and loads the conversation of its session
\* storage; one that is not this customer's is forgotten.
LoadConversation(p) ==
    LET c == page[p].conv
        loaded == GetConversation(ReadCall(c, customer))
    IN /\ c # None /\ page[p].request = None
       /\ page' = [page EXCEPT ![p] =
            IF loaded = None THEN FreshPage(None)
            ELSE [FreshPage(c) EXCEPT !.shown = loaded]]
       /\ UNCHANGED <<storeVars, customer, handler, late, journeys, counters>>

\* The page is opened anew and the conversation cannot be loaded.
LoadFails(p) ==
    /\ page[p].request = None
    /\ Loss
    /\ page' = [page EXCEPT ![p] = FreshPage(page[p].conv)]
    /\ UNCHANGED <<storeVars, customer, handler, late, journeys, turns,
                   proposals>>

\* The portal's server is restarted with another customer's token.
RestartPortal(c) ==
    /\ c # customer
    /\ Loss
    /\ customer' = c
    /\ page' = [p \in Pages |-> [page[p] EXCEPT !.request = None]]
    /\ UNCHANGED <<storeVars, handler, late, journeys, turns, proposals>>

-----------------------------------------------------------------------------
(* The edge API's handlers.                                                *)

\* An error is answered; the page, if it still waits, keeps its turn.
Fail(r) ==
    /\ handler' = [handler EXCEPT ![r] = Idle]
    /\ page' = IF Waiting(r)
               THEN [page EXCEPT ![handler[r].page].request = None]
               ELSE page

\* A message that is shown again takes the place of its earlier version.
MergeMessages(previous, next) ==
    next \cup {m \in previous :
                \A n \in next : <<m.conv, m.sequence>> # <<n.conv, n.sequence>>}

\* The turn is answered; the page shows the question and the reply.
Respond(r) ==
    LET h == handler[r]
        new == {[conv |-> h.conv, sequence |-> h.question,
                 sender |-> "END_CUSTOMER", text |-> h.turn.text,
                 workflow |-> None],
                [conv |-> h.conv, sequence |-> h.reply,
                 sender |-> "ASSISTANT", text |-> h.answer,
                 workflow |-> h.workflow]}
    IN /\ h.at = "respond"
       /\ handler' = [handler EXCEPT ![r] = Idle]
       /\ page' = IF Waiting(r)
                  THEN [page EXCEPT ![h.page].request = None,
                                    ![h.page].pending = None,
                                    ![h.page].shown = MergeMessages(@, new)]
                  ELSE page
       /\ UNCHANGED <<storeVars, customer, late, journeys, counters>>

\* A page that waits for its conversation stores it and sends the turn.
Create(r) ==
    LET h == handler[r]
        new == CHOOSE c \in Conversations : conversation[c] = None
        id == CreatedAs(CallOf(h), new)
    IN /\ h.at = "create"
       /\ \/ FindIdempotencyResult(CallOf(h)) # {}
          \/ \E c \in Conversations : conversation[c] = None
       /\ CreateConversation(CallOf(h), new)
       /\ IF Waiting(r)
          THEN /\ page' = [page EXCEPT ![h.page].conv = id]
               /\ handler' = [handler EXCEPT ![r] =
                                NewRequest(h.page, h.turn, id)]
          ELSE /\ handler' = [handler EXCEPT ![r] = Idle]
               /\ UNCHANGED page
       /\ UNCHANGED <<customer, late, journeys, counters>>

AcceptCustomerMessage(r) ==
    LET h == handler[r]
    IN /\ h.at = "accept"
       /\ AppendMessage(CallOf(h))
       /\ IF AppendStatus(CallOf(h)) = 202
          THEN /\ handler' = [handler EXCEPT
                    ![r].at = "context", ![r].question = AppendedAt(CallOf(h))]
               /\ UNCHANGED page
          ELSE Fail(r)
       /\ UNCHANGED <<customer, late, journeys, counters>>

-----------------------------------------------------------------------------
(* buildCustomerConversationContext and the order it is about.             *)

CustomerMessages(c) ==
    {n \in DOMAIN message[c] : message[c][n].sender = "END_CUSTOMER"}

TextAt(c, n) == UnprotectMessage(message[c][n].content)

TotalCharacters(c, ns) == FoldSet(LAMBDA n, sum : Size[TextAt(c, n)] + sum, 0, ns)

\* What is selected once the newest k messages have been looked at: one that
\* does not fit is passed over, and older ones are still tried.
BuildCustomerConversationContext(c) ==
    LET last == conversation[c].next - 1
        selected[k \in 0 .. last] ==
          IF k = 0 THEN {}
          ELSE LET n == last + 1 - k
               IN IF /\ n \in CustomerMessages(c)
                     /\ Size[TextAt(c, n)] <= MaxMessageSize
                     /\ Cardinality(selected[k - 1]) # MaxContextMessages
                     /\ TotalCharacters(c, selected[k - 1])
                          + Size[TextAt(c, n)] <= MaxContextSize
                  THEN selected[k - 1] \cup {n}
                  ELSE selected[k - 1]
    IN selected[last]

\* Mutation: an ambiguous message is passed over.
ResolveOrderReferenceSkippingAmbiguous(c, ns, explicit) ==
    LET naming == {n \in ns : Cardinality(Mentions[TextAt(c, n)]) = 1}
    IN IF explicit # None THEN explicit
       ELSE IF naming = {} THEN None
       ELSE CHOOSE o \in Orders : o \in Mentions[TextAt(c, Max(naming))]

ResolveOrderReferenceFromCustomerMessages(c, ns, explicit) ==
    LET naming == {n \in ns : Mentions[TextAt(c, n)] # {}}
        orders == Mentions[TextAt(c, Max(naming))]
    IN IF explicit # None THEN explicit
       ELSE IF naming = {} \/ Cardinality(orders) > 1 THEN None
       ELSE CHOOSE o \in Orders : o \in orders

LoadContext(r) ==
    LET h == handler[r]
        context == BuildCustomerConversationContext(h.conv)
    IN /\ h.at = "context"
       /\ IF h.question \in context
          THEN /\ handler' = [handler EXCEPT ![r].at = "agent",
                    ![r].order = ResolveOrderReferenceFromCustomerMessages(
                                   h.conv, context, h.turn.order)]
               /\ UNCHANGED page
          ELSE Fail(r)
       /\ UNCHANGED <<storeVars, customer, late, journeys, counters>>

-----------------------------------------------------------------------------
(* The agent's answer, and what the handler makes of it.                   *)

\* What the agent runtime may answer: a ready proposal names an order, and
\* every call makes one with an id of its own.
AgentResponses(order) ==
    {[answer |-> x, workflow |-> None] : x \in Clarifications} \cup
    {[answer |-> x, workflow |-> proposals + 1] :
       x \in {y \in Offers : order # None /\ proposals < MaxProposals}}

IntakeRefund(r) ==
    /\ handler[r].at = "agent"
    /\ \E response \in AgentResponses(handler[r].order) :
         /\ handler' = [handler EXCEPT ![r].at = "assistant",
                                       ![r].answer = response.answer,
                                       ![r].workflow = response.workflow]
         /\ proposals' = IF response.workflow = None THEN proposals
                                                     ELSE response.workflow
    /\ UNCHANGED <<storeVars, customer, page, late, journeys, turns, losses>>

AppendAssistantMessage(r) ==
    LET h == handler[r]
    IN /\ h.at = "assistant"
       /\ AppendMessage(CallOf(h))
       /\ IF AppendStatus(CallOf(h)) = 202
          THEN /\ handler' = [handler EXCEPT
                    ![r].at = IF h.workflow = None THEN "respond" ELSE "start",
                    ![r].reply = AppendedAt(CallOf(h))]
               /\ UNCHANGED page
          ELSE Fail(r)
       /\ UNCHANGED <<customer, late, journeys, counters>>

StartRefundWorkflow(r) ==
    /\ handler[r].at = "start"
    /\ journeys' = journeys \cup {Journey(CallOf(handler[r]))}
    /\ handler' = [handler EXCEPT ![r].at = "link"]
    /\ UNCHANGED <<storeVars, customer, page, late, counters>>

Link(r) ==
    LET h == handler[r]
    IN /\ h.at = "link"
       /\ LinkRefundWorkflow(CallOf(h))
       /\ IF LinkStatus(CallOf(h)) = 202
          THEN /\ handler' = [handler EXCEPT ![r].at = "respond"]
               /\ UNCHANGED page
          ELSE Fail(r)
       /\ UNCHANGED <<customer, late, journeys, counters>>

\* Reading the transcript fails, or the agent has no answer.
ReadFails(r) ==
    /\ handler[r].at \in {"context", "agent"}
    /\ Loss
    /\ Fail(r)
    /\ UNCHANGED <<storeVars, customer, late, journeys, turns, proposals>>

\* A call fails, its time is up, or the edge API is restarted: the handler is
\* gone and what it had asked for may still be carried out.
GiveUp(r) ==
    /\ handler[r].at \in {"create", "accept", "assistant", "start", "link"}
    /\ Loss
    /\ late' = late \cup {CallOf(handler[r])}
    /\ Fail(r)
    /\ UNCHANGED <<storeVars, customer, journeys, turns, proposals>>

LateCreate(call) ==
    /\ call.op = "create"
    /\ \E c \in Conversations : conversation[c] = None
    /\ CreateConversation(call, CHOOSE c \in Conversations :
                                  conversation[c] = None)
    /\ UNCHANGED journeys

LateAppend(call) ==
    /\ call.op \in {"accept", "assistant"}
    /\ AppendMessage(call)
    /\ UNCHANGED journeys

LateStart(call) ==
    /\ call.op = "start"
    /\ journeys' = journeys \cup {Journey(call)}
    /\ UNCHANGED storeVars

LateLink(call) ==
    /\ call.op = "link"
    /\ LinkRefundWorkflow(call)
    /\ UNCHANGED journeys

\* The service carries out a call that nobody waits for any more.
CarryOutLate(call) ==
    /\ late' = late \ {call}
    /\ LateCreate(call) \/ LateAppend(call) \/ LateStart(call) \/ LateLink(call)
    /\ UNCHANGED <<customer, page, handler, counters>>

HandlerStep(r) ==
    \/ Create(r) \/ AcceptCustomerMessage(r) \/ LoadContext(r)
    \/ IntakeRefund(r) \/ AppendAssistantMessage(r)
    \/ StartRefundWorkflow(r) \/ Link(r) \/ Respond(r)
    \/ ReadFails(r) \/ GiveUp(r)

Next ==
    \/ \E p \in Pages :
         \/ \E form \in Forms : Submit(p, form)
         \/ UpdateDraft(p) \/ LoseAnswer(p)
         \/ LoadConversation(p) \/ LoadFails(p)
    \/ \E c \in Customers : RestartPortal(c)
    \/ \E r \in Requests : HandlerStep(r)
    \/ \E call \in late : CarryOutLate(call)

Spec == Init /\ [][Next]_vars

-----------------------------------------------------------------------------
(* Properties                                                              *)

TurnOf(m) == m.client[2]

Turn == [id : 1 .. MaxTurns, text : Questions, order : Orders \cup {None}]

Request ==
    [at : {"create", "accept", "context", "agent", "assistant", "start",
           "link", "respond"},
     page : Pages, customer : Customers, turn : Turn,
     conv : Conversations \cup {None}, question : Nat \cup {None},
     order : Orders \cup {None}, answer : Clarifications \cup Offers \cup {None},
     workflow : 1 .. MaxProposals \cup {None}, reply : Nat \cup {None}]

\* Every variable of the chat, the edge API and the conversation runtime has
\* the shape its code gives it.  A page that is sending is never left waiting:
\* the edge API is at work on its turn.  Its conversation was created.
TypeOK ==
    /\ turns \in 0 .. MaxTurns /\ proposals \in 0 .. MaxProposals
    /\ customer \in Customers
    /\ \A r \in Requests : handler[r] = Idle \/ handler[r] \in Request
    /\ \A p \in Pages :
         /\ page[p].pending \in Turn \cup {None}
         /\ page[p].conv # None => conversation[page[p].conv] # None
         /\ page[p].request # None =>
              /\ handler[page[p].request] # Idle
              /\ handler[page[p].request].page = p
              /\ handler[page[p].request].turn = page[p].pending
    /\ \A c \in Conversations :
         conversation[c] # None => conversation[c].owner \in Customers

\* Whatever handlers of one turn run at once, are given up on or repeated,
\* the transcript a customer reads is a log: one question and at most one
\* reply for a turn, in that order, never changed, linked at most once
\* (appendMessage and linkRefundWorkflow).
Log == INSTANCE ConversationLog
         WITH Turns <- 1 .. MaxTurns, Workflows <- 1 .. MaxProposals,
              log <- [c \in Conversations |->
                        [n \in DOMAIN message[c] |->
                           [sender |-> message[c][n].sender,
                            turn |-> TurnOf(message[c][n]),
                            text |-> TextAt(c, n),
                            workflow |-> message[c][n].workflow]]]

KeepsLog == Log!Spec

\* Numbers are handed out without a gap, and every committed message has
\* exactly its own event in the outbox (the transaction of appendMessage).
EventPerMessage ==
    /\ \A c \in Conversations :
         DOMAIN message[c] =
           IF conversation[c] = None THEN {} ELSE 1 .. conversation[c].next - 1
    /\ outbox = UNION {{[conv |-> c, sequence |-> n,
                         sender |-> message[c][n].sender] :
                           n \in DOMAIN message[c]} : c \in Conversations}

\* A refund workflow is never started before the reply that speaks of it is
\* committed, nor for anybody but the owner of the conversation; and a reply
\* is linked only to a workflow that its own turn has started.
JourneysAndReplies ==
    /\ \A j \in journeys :
         /\ conversation[j.conv].owner = j.customer
         /\ \E n \in DOMAIN message[j.conv] :
              message[j.conv][n].client = <<"assistant", j.turn>>
    /\ \A c \in Conversations : \A n \in DOMAIN message[c] :
         message[c][n].workflow # None =>
           \E j \in journeys : /\ j.workflow = message[c][n].workflow
                               /\ j.conv = c
                               /\ j.turn = TurnOf(message[c][n])

\* The chat shows the persisted conversation: what the page put together from
\* the answer of a turn is what it would load, but for a link made since.
ShownIsPersisted ==
    \A p \in Pages : \A m \in page[p].shown :
        \E n \in ReadConversation(m.conv) :
            /\ n.sequence = m.sequence /\ n.sender = m.sender
            /\ n.text = m.text
            /\ m.workflow \in {None, n.workflow}

\* As long as the whole conversation fits the context, a turn is about the
\* order the customer gave, or else the one order that the last message to
\* name any names (resolveOrderReferenceFromCustomerMessages).
LastNamed(c, o) ==
    \E n \in CustomerMessages(c) :
        /\ Mentions[TextAt(c, n)] = {o}
        /\ \A k \in CustomerMessages(c) : k > n => Mentions[TextAt(c, k)] = {}

OrderIsLastNamed ==
    [][\A r \in Requests :
         LET h == handler[r]
         IN /\ h.at = "context" /\ handler'[r].at = "agent"
            /\ TotalCharacters(h.conv, CustomerMessages(h.conv)) <= MaxContextSize
            /\ Cardinality(CustomerMessages(h.conv)) <= MaxContextMessages
            => \A o \in Orders : handler'[r].order = o <=>
                 \/ h.turn.order = o
                 \/ h.turn.order = None /\ LastNamed(h.conv, o)]_vars

\* A ready proposal starts a workflow and adds its link to the answer: when
\* the page shows a turn's reply with a link, it is to the workflow that the
\* turn has started.
ShownLinkIsTheJourney ==
    \A p \in Pages : \A m \in page[p].shown, j \in journeys :
        m.workflow # None /\ message[m.conv][m.sequence].client
                               = <<"assistant", j.turn>> /\ m.conv = j.conv
        => m.workflow = j.workflow
=============================================================================

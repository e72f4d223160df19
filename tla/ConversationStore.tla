------------------------- MODULE ConversationStore -------------------------
(***************************************************************************)
(* The conversation runtime: its four transactions on PostgreSQL, each of  *)
(* which is atomic because it holds the conversation's row.  A caller      *)
(* sends a call:                                                           *)
(*   op, assertion, conv, key - the operation, who it is for, its scope;   *)
(*   client, text             - of a message;                              *)
(*   reply, workflow          - of a link.                                 *)
(***************************************************************************)
EXTENDS Naturals, FiniteSets

CONSTANTS Customers, Conversations, Texts, None

ASSUME StoreAssumption ==
    /\ Customers # {}
    /\ None \notin Conversations
    /\ None \notin [owner : Customers, next : Nat]

VARIABLES
    conversation,     \* conversation.conversations: owner and next sequence
    message,          \* conversation.messages: message[c][n]
    idempotencyKey,   \* events.idempotency_keys
    outbox            \* events.outbox, which nothing in this service empties

storeVars == <<conversation, message, idempotencyKey, outbox>>

InitStore ==
    /\ conversation = [c \in Conversations |-> None]
    /\ message = [c \in Conversations |-> << >>]
    /\ idempotencyKey = {}
    /\ outbox = {}

-----------------------------------------------------------------------------
(* Assertions and protected text.                                          *)

\* The customer an assertion speaks for, None when it is for another use.
\* Expiry and a bad signature have the effect of a call that never arrives.
VerifyContext(a) ==
    IF a.typ = "cso-context+jwt" /\ a.audience = "conversation-runtime"
    THEN a.customer ELSE None

VerifyService(a) ==
    IF a.typ = "cso-service+jwt" /\ a.audience = "conversation-runtime"
    THEN a.customer ELSE None

Caller(call) == IF call.op \in {"create", "accept", "read"}
                THEN VerifyContext(call.assertion)
                ELSE VerifyService(call.assertion)

\* Only the holder of the key opens the text; its digest is kept beside it.
ProtectMessage(x) == [ciphertext |-> x, plaintextSha256 |-> x]
UnprotectMessage(p) == p.ciphertext

-----------------------------------------------------------------------------
(* Idempotency keys.                                                       *)

HashCanonicalRequest(call) ==
    CASE call.op = "create" -> <<"web", Caller(call)>>
      [] call.op \in {"accept", "assistant"} -> <<call.client, call.text>>
      [] call.op = "link" -> <<call.reply, call.workflow>>

ResourceScope(call) == IF call.op = "create" THEN Caller(call) ELSE call.conv

FindIdempotencyResult(call) ==
    {k \in idempotencyKey : /\ k.op = call.op
                            /\ k.scope = ResourceScope(call)
                            /\ k.key = call.key}

\* Mutation: the hash of the request is not compared.
MatchingRequestUnchecked(call) == TRUE

MatchingRequest(call) ==
    \A k \in FindIdempotencyResult(call) : k.hash = HashCanonicalRequest(call)

StoredResult(call) == (CHOOSE k \in FindIdempotencyResult(call) : TRUE).result

InsertIdempotencyResult(call, result) ==
    idempotencyKey' = idempotencyKey \cup
        {[op |-> call.op, scope |-> ResourceScope(call), key |-> call.key,
          hash |-> HashCanonicalRequest(call), result |-> result]}

-----------------------------------------------------------------------------
(* createConversation                                                      *)

CreatedAs(call, id) ==
    IF FindIdempotencyResult(call) # {} THEN StoredResult(call) ELSE id

CreateConversation(call, id) ==
    \/ /\ FindIdempotencyResult(call) # {}
       /\ UNCHANGED storeVars
    \/ /\ FindIdempotencyResult(call) = {}
       /\ conversation[id] = None
       /\ InsertIdempotencyResult(call, id)
       /\ conversation' = [conversation EXCEPT ![id] =
                             [owner |-> Caller(call), next |-> 1]]
       /\ UNCHANGED <<message, outbox>>

-----------------------------------------------------------------------------
(* acceptMessage and appendAssistantMessage                                *)

\* Mutation: the conversation is looked up without its customer.
OwnedByAnyone(call) == conversation[call.conv] # None

Owned(call) == /\ conversation[call.conv] # None
               /\ conversation[call.conv].owner = Caller(call)

SenderKind(call) == IF call.op = "accept" THEN "END_CUSTOMER" ELSE "ASSISTANT"

ExistingClientMessage(call) ==
    {n \in DOMAIN message[call.conv] : message[call.conv][n].client = call.client}

SameContent(call) ==
    \A n \in ExistingClientMessage(call) :
        message[call.conv][n].content.plaintextSha256
            = ProtectMessage(call.text).plaintextSha256

AppendStatus(call) ==
    IF ~ Owned(call) THEN 404
    ELSE IF IF FindIdempotencyResult(call) # {} THEN MatchingRequest(call)
                                                ELSE SameContent(call)
         THEN 202 ELSE 409

\* Mutation: neither the key nor the client's message id is looked up.
IsNewMessageAlways(call) == TRUE

IsNewMessage(call) == /\ FindIdempotencyResult(call) = {}
                      /\ ExistingClientMessage(call) = {}

AppendedAt(call) ==
    IF FindIdempotencyResult(call) # {} THEN StoredResult(call)
    ELSE IF ExistingClientMessage(call) # {}
         THEN CHOOSE n \in ExistingClientMessage(call) : TRUE
         ELSE conversation[call.conv].next

Insert(f, n, e) == [i \in DOMAIN f \cup {n} |-> IF i = n THEN e ELSE f[i]]

\* Mutation: the event is queued for a message that was already there, too.
InsertMessageAndAnnounceAgain(call) ==
    LET c == call.conv
        n == conversation[c].next
    IN /\ IF IsNewMessage(call)
          THEN /\ message' = [message EXCEPT ![c] =
                     Insert(@, n, [sender |-> SenderKind(call),
                                   client |-> call.client,
                                   content |-> ProtectMessage(call.text),
                                   workflow |-> None])]
               /\ conversation' = [conversation EXCEPT ![c].next = @ + 1]
          ELSE UNCHANGED <<conversation, message>>
       /\ outbox' = outbox \cup {[conv |-> c, sequence |-> n,
                                  sender |-> SenderKind(call)]}

\* The sequence number, the row and its event are written together.
InsertMessage(call) ==
    LET c == call.conv
        n == conversation[c].next
    IN IF IsNewMessage(call)
       THEN /\ message' = [message EXCEPT ![c] =
                  Insert(@, n, [sender |-> SenderKind(call),
                                client |-> call.client,
                                content |-> ProtectMessage(call.text),
                                workflow |-> None])]
            /\ conversation' = [conversation EXCEPT ![c].next = @ + 1]
            /\ outbox' = outbox \cup {[conv |-> c, sequence |-> n,
                                       sender |-> SenderKind(call)]}
       ELSE UNCHANGED <<conversation, message, outbox>>

AppendMessage(call) ==
    \/ /\ AppendStatus(call) = 202
       /\ InsertMessage(call)
       /\ IF FindIdempotencyResult(call) = {}
          THEN InsertIdempotencyResult(call, AppendedAt(call))
          ELSE UNCHANGED idempotencyKey
    \/ /\ AppendStatus(call) # 202
       /\ UNCHANGED storeVars

-----------------------------------------------------------------------------
(* linkRefundWorkflow                                                      *)

LinkableReply(call) ==
    /\ Owned(call)
    /\ call.reply \in DOMAIN message[call.conv]
    /\ message[call.conv][call.reply].sender = "ASSISTANT"

LinkStatus(call) ==
    IF FindIdempotencyResult(call) # {}
    THEN IF MatchingRequest(call) THEN 202 ELSE 409
    ELSE IF ~ LinkableReply(call) THEN 404
    ELSE IF message[call.conv][call.reply].workflow \in {None, call.workflow}
    THEN 202 ELSE 409

LinkRefundWorkflow(call) ==
    \/ /\ LinkStatus(call) = 202
       /\ FindIdempotencyResult(call) = {}
       /\ message' = [message EXCEPT
                        ![call.conv][call.reply].workflow = call.workflow]
       /\ InsertIdempotencyResult(call, call.workflow)
       /\ UNCHANGED <<conversation, outbox>>
    \/ /\ LinkStatus(call) # 202 \/ FindIdempotencyResult(call) # {}
       /\ UNCHANGED storeVars

-----------------------------------------------------------------------------
(* readConversation                                                        *)

\* The messages of a conversation, in the order of their numbers.
ReadConversation(c) ==
    {[conv |-> c, sequence |-> n, sender |-> message[c][n].sender,
      text |-> UnprotectMessage(message[c][n].content),
      workflow |-> message[c][n].workflow] : n \in DOMAIN message[c]}

\* What the caller may read of it; one of another customer is not found.
GetConversation(call) == IF Owned(call) THEN ReadConversation(call.conv) ELSE None
=============================================================================

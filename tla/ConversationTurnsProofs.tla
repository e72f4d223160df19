---------------------- MODULE ConversationTurnsProofs ----------------------
(***************************************************************************)
(* The transcript is an append-only log with one event per message, and    *)
(* workflows and links belong to committed replies: for any customers,     *)
(* pages, requests and texts, and any number of turns and losses.          *)
(***************************************************************************)
EXTENDS ConversationTurns, FiniteSetTheorems, TLAPS

-----------------------------------------------------------------------------
(* The tables of the conversation runtime.                                 *)

Row == [owner : Customers, next : Nat \ {0}]

Client == {"customer", "assistant"} \X (1 .. MaxTurns)

Message == [sender : {"END_CUSTOMER", "ASSISTANT"}, client : Client,
            content : [ciphertext : Texts, plaintextSha256 : Texts],
            workflow : 1 .. MaxProposals \cup {None}]

\* The numbers handed out in a conversation.
Numbers(c) == IF conversation[c] = None THEN {} ELSE 1 .. conversation[c].next - 1

Events == UNION {{[conv |-> c, sequence |-> n, sender |-> message[c][n].sender] :
                    n \in DOMAIN message[c]} : c \in Conversations}

RowsInv == conversation \in [Conversations -> Row \cup {None}]

\* The client's id says who has sent the message.
MessagesInv ==
    /\ message = [c \in Conversations |-> message[c]]
    /\ \A c \in Conversations :
         /\ message[c] \in [Numbers(c) -> Message]
         /\ \A n \in Numbers(c) : message[c][n].sender = "END_CUSTOMER"
                                    <=> message[c][n].client[1] = "customer"

\* A key of an append leads to the message with the client id of its request.
KeysInv ==
    \A k \in idempotencyKey :
      /\ k.op = "create" => k.result \in Conversations
      /\ k.op \in {"accept", "assistant"} =>
           /\ k.scope \in Conversations
           /\ k.result \in DOMAIN message[k.scope]
           /\ message[k.scope][k.result].client = k.hash[1]

StoreInv == RowsInv /\ MessagesInv /\ outbox = Events /\ KeysInv

\* Rows keep their owner, messages their number and client.
Grows ==
    /\ \A c \in Conversations : conversation[c] # None =>
         conversation'[c] # None /\ conversation'[c].owner = conversation[c].owner
    /\ \A c \in Conversations : \A n \in DOMAIN message[c] :
         n \in DOMAIN message'[c] /\ message'[c][n].client = message[c][n].client

-----------------------------------------------------------------------------
(* Appending a message.                                                    *)

GoodAppend(call) ==
    /\ call.op \in {"accept", "assistant"}
    /\ call.conv \in Conversations
    /\ call.client \in Client /\ call.text \in Texts
    /\ call.op = "accept" <=> call.client[1] = "customer"

LEMMA HashOfAppend ==
    ASSUME NEW call, GoodAppend(call)
    PROVE  /\ HashCanonicalRequest(call) = <<call.client, call.text>>
           /\ ResourceScope(call) = call.conv
BY DEF GoodAppend, HashCanonicalRequest, ResourceScope

\* The row under a key that is found.
LEMMA FoundKey ==
    ASSUME StoreInv, NEW call, GoodAppend(call), FindIdempotencyResult(call) # {},
           MatchingRequest(call)
    PROVE  /\ StoredResult(call) \in DOMAIN message[call.conv]
           /\ message[call.conv][StoredResult(call)].client = call.client
<1> DEFINE k == CHOOSE k \in FindIdempotencyResult(call) : TRUE
<1>1. k \in FindIdempotencyResult(call)
  OBVIOUS
<1> HIDE DEF k
<1>2. k \in idempotencyKey /\ k.op = call.op /\ k.scope = call.conv
  BY <1>1, HashOfAppend DEF FindIdempotencyResult
<1>3. k.hash = <<call.client, call.text>>
  BY <1>1, HashOfAppend DEF MatchingRequest
<1>4. k.hash[1] = call.client
  BY <1>3
<1>5. StoredResult(call) = k.result
  BY DEF StoredResult, k
<1> QED BY <1>2, <1>4, <1>5 DEF StoreInv, KeysInv, GoodAppend

NewMessage(call) == [sender |-> SenderKind(call), client |-> call.client,
                     content |-> ProtectMessage(call.text), workflow |-> None]

\* What a committed new message does to its conversation.
LEMMA Inserted ==
    ASSUME StoreInv, NEW call, GoodAppend(call), AppendStatus(call) = 202,
           IsNewMessage(call), InsertMessage(call),
           NEW c, c = call.conv, NEW n, n = conversation[c].next
    PROVE  /\ conversation[c] # None /\ n \in Nat \ {0}
           /\ NewMessage(call) \in Message
           /\ RowsInv'
           /\ Numbers(c) = 1 .. n - 1 /\ Numbers(c)' = Numbers(c) \cup {n}
           /\ conversation'[c] # None /\ conversation'[c].owner = conversation[c].owner
           /\ message'[c] = Insert(message[c], n, NewMessage(call))
           /\ \A d \in Conversations : d # c => /\ conversation'[d] = conversation[d]
                                                /\ message'[d] = message[d]
           /\ message' = [d \in Conversations |-> message'[d]]
           /\ outbox' = outbox \cup {[conv |-> c, sequence |-> n,
                                      sender |-> SenderKind(call)]}
<1>1. c \in Conversations /\ Owned(call)
  BY DEF GoodAppend, AppendStatus
<1>2. conversation[c] # None
  BY <1>1 DEF Owned
<1>3. conversation[c] \in Row
  BY <1>1, <1>2 DEF StoreInv, RowsInv
<1>4. n \in Nat \ {0}
  BY <1>3 DEF Row
<1>5. NewMessage(call) \in Message
  BY DEF NewMessage, Message, GoodAppend, SenderKind, ProtectMessage
<1>6. /\ message' = [message EXCEPT ![c] = Insert(@, n, NewMessage(call))]
      /\ conversation' = [conversation EXCEPT ![c].next = @ + 1]
      /\ outbox' = outbox \cup {[conv |-> c, sequence |-> n, sender |-> SenderKind(call)]}
  BY DEF InsertMessage, NewMessage
<1>7. conversation'[c] = [conversation[c] EXCEPT !.next = n + 1]
  BY <1>1, <1>6 DEF StoreInv, RowsInv
<1>8. /\ conversation'[c] \in Row /\ conversation'[c].next = n + 1
      /\ conversation'[c].owner = conversation[c].owner
  BY <1>3, <1>4, <1>7 DEF Row
<1>9. conversation'[c] # None
  BY <1>8, StoreAssumption DEF Row
<1>10. RowsInv'
  BY <1>1, <1>6, <1>8 DEF StoreInv, RowsInv
<1>11. Numbers(c) = 1 .. n - 1 /\ Numbers(c)' = 1 .. n
  BY <1>2, <1>4, <1>8, <1>9 DEF Numbers
<1>12. Numbers(c)' = Numbers(c) \cup {n}
  BY <1>4, <1>11
<1>13. DOMAIN message = Conversations
  BY DEF StoreInv, MessagesInv
<1>14. /\ message'[c] = Insert(message[c], n, NewMessage(call))
       /\ \A d \in Conversations : d # c => /\ conversation'[d] = conversation[d]
                                            /\ message'[d] = message[d]
       /\ message' = [d \in Conversations |-> message'[d]]
  BY <1>1, <1>6, <1>13 DEF StoreInv, RowsInv
<1> QED BY <1>2, <1>4, <1>5, <1>6, <1>8, <1>9, <1>10, <1>11, <1>12, <1>14

LEMMA InsertKeeps ==
    ASSUME StoreInv, NEW call, GoodAppend(call), AppendStatus(call) = 202,
           InsertMessage(call)
    PROVE  /\ RowsInv' /\ MessagesInv' /\ outbox' = Events' /\ Grows
           /\ AppendedAt(call) \in DOMAIN message'[call.conv]
           /\ message'[call.conv][AppendedAt(call)].client = call.client
           /\ \A d \in Conversations : \A i \in DOMAIN message'[d] :
                \/ i \in DOMAIN message[d] /\ message'[d][i] = message[d][i]
                \/ message'[d][i].workflow = None
<1> DEFINE c == call.conv
           n == conversation[c].next
           m == NewMessage(call)
<1>0. c \in Conversations /\ \A d \in Conversations : DOMAIN message[d] = Numbers(d)
  BY DEF GoodAppend, StoreInv, MessagesInv
<1>1. CASE IsNewMessage(call)
  <2>1. /\ conversation[c] # None /\ n \in Nat \ {0} /\ m \in Message
        /\ RowsInv'
        /\ Numbers(c) = 1 .. n - 1 /\ Numbers(c)' = Numbers(c) \cup {n}
        /\ conversation'[c] # None /\ conversation'[c].owner = conversation[c].owner
        /\ message'[c] = Insert(message[c], n, m)
        /\ \A d \in Conversations : d # c => /\ conversation'[d] = conversation[d]
                                             /\ message'[d] = message[d]
        /\ message' = [d \in Conversations |-> message'[d]]
        /\ outbox' = outbox \cup {[conv |-> c, sequence |-> n, sender |-> m.sender]}
        /\ m.client = call.client /\ m.workflow = None
        /\ (m.sender = "END_CUSTOMER" <=> m.client[1] = "customer")
    BY <1>1, Inserted DEF NewMessage, SenderKind, GoodAppend
  <2> HIDE DEF m, n, c
  <2>2. n \notin Numbers(c)
    BY <2>1
  <2>3. /\ DOMAIN message'[c] = Numbers(c) \cup {n}
        /\ message'[c][n] = m
        /\ \A i \in Numbers(c) : message'[c][i] = message[c][i]
    BY <1>0, <2>1, <2>2 DEF Insert
  <2>4. \A d \in Conversations : d # c => Numbers(d)' = Numbers(d)
    BY <2>1 DEF Numbers
  <2>5. MessagesInv'
    <3>1. message'[c] \in [Numbers(c)' -> Message]
      BY <1>0, <2>1, <2>3 DEF StoreInv, MessagesInv, Insert
    <3>2. \A i \in Numbers(c)' : message'[c][i].sender = "END_CUSTOMER"
                                   <=> message'[c][i].client[1] = "customer"
      BY <1>0, <2>1, <2>3 DEF StoreInv, MessagesInv
    <3>3. \A d \in Conversations : d # c =>
            /\ message'[d] \in [Numbers(d)' -> Message]
            /\ \A i \in Numbers(d)' : message'[d][i].sender = "END_CUSTOMER"
                                        <=> message'[d][i].client[1] = "customer"
      BY <2>1, <2>4 DEF StoreInv, MessagesInv
    <3>4. \A d \in Conversations :
            /\ message'[d] \in [Numbers(d)' -> Message]
            /\ \A i \in Numbers(d)' : message'[d][i].sender = "END_CUSTOMER"
                                        <=> message'[d][i].client[1] = "customer"
      BY <3>1, <3>2, <3>3
    <3>5. message' = [d \in Conversations |-> message'[d]]
      BY <2>1
    <3> QED BY <3>4, <3>5 DEF MessagesInv
  <2>6. outbox' = Events'
    <3> DEFINE Of(d) == {[conv |-> d, sequence |-> i, sender |-> message[d][i].sender] :
                           i \in DOMAIN message[d]}
               OfNext(d) == {[conv |-> d, sequence |-> i, sender |-> message'[d][i].sender] :
                               i \in DOMAIN message'[d]}
    <3>1. OfNext(c) = Of(c) \cup {[conv |-> c, sequence |-> n, sender |-> m.sender]}
      BY <1>0, <2>3 DEF c
    <3>2. \A d \in Conversations : d # c => OfNext(d) = Of(d)
      BY <2>1
    <3>3. outbox = UNION {Of(d) : d \in Conversations}
      BY DEF StoreInv, Events
    <3>4. Events' = UNION {OfNext(d) : d \in Conversations}
      BY DEF Events
    <3> HIDE DEF Of, OfNext
    <3> QED BY <1>0, <2>1, <3>1, <3>2, <3>3, <3>4 DEF c
  <2>7. Grows
    BY <1>0, <2>1, <2>3 DEF Grows
  <2>8. AppendedAt(call) = n
    BY <1>1 DEF IsNewMessage, AppendedAt, n, c
  <2>9. \A d \in Conversations : \A i \in DOMAIN message'[d] :
          \/ i \in DOMAIN message[d] /\ message'[d][i] = message[d][i]
          \/ message'[d][i].workflow = None
    BY <1>0, <2>1, <2>3
  <2> QED BY <2>1, <2>3, <2>5, <2>6, <2>7, <2>8, <2>9 DEF c
<1>2. CASE ~ IsNewMessage(call)
  <2>1. UNCHANGED <<conversation, message, outbox>>
    BY <1>2 DEF InsertMessage
  <2>2. RowsInv' /\ MessagesInv' /\ outbox' = Events' /\ Grows
    BY <2>1 DEF StoreInv, RowsInv, MessagesInv, Numbers, Events, Grows
  <2>3. CASE FindIdempotencyResult(call) # {}
    BY <2>1, <2>2, <2>3, FoundKey DEF AppendStatus, AppendedAt
  <2>4. CASE FindIdempotencyResult(call) = {}
    <3>1. ExistingClientMessage(call) # {}
      BY <1>2, <2>4 DEF IsNewMessage
    <3>2. AppendedAt(call) \in ExistingClientMessage(call)
      BY <2>4, <3>1 DEF AppendedAt
    <3> QED BY <2>1, <2>2, <3>2 DEF ExistingClientMessage
  <2> QED BY <2>3, <2>4
<1> QED BY <1>1, <1>2

\* A message is as it was, or it is new and has no link.
NoNewLink ==
    \A d \in Conversations : \A i \in DOMAIN message'[d] :
      \/ i \in DOMAIN message[d] /\ message'[d][i] = message[d][i]
      \/ message'[d][i].workflow = None

LEMMA UnchangedStore ==
    ASSUME StoreInv, UNCHANGED storeVars
    PROVE  StoreInv' /\ Grows /\ NoNewLink
BY DEF storeVars, StoreInv, RowsInv, MessagesInv, KeysInv, Numbers, Events, Grows, NoNewLink

LEMMA AppendKeeps ==
    ASSUME StoreInv, NEW call, GoodAppend(call), AppendMessage(call)
    PROVE  /\ StoreInv' /\ Grows /\ NoNewLink
           /\ AppendStatus(call) = 202 =>
                /\ Owned(call)
                /\ AppendedAt(call) \in DOMAIN message'[call.conv]
                /\ message'[call.conv][AppendedAt(call)].client = call.client
<1>1. CASE AppendStatus(call) = 202
  <2>1. /\ RowsInv' /\ MessagesInv' /\ outbox' = Events' /\ Grows
        /\ AppendedAt(call) \in DOMAIN message'[call.conv]
        /\ message'[call.conv][AppendedAt(call)].client = call.client
        /\ NoNewLink
    BY <1>1, InsertKeeps DEF AppendMessage, NoNewLink
  <2>2. Owned(call)
    BY <1>1 DEF AppendStatus
  <2>3. \A k \in idempotencyKey' :
          \/ k \in idempotencyKey
          \/ k = [op |-> call.op, scope |-> call.conv, key |-> call.key,
                  hash |-> <<call.client, call.text>>, result |-> AppendedAt(call)]
    BY <1>1, HashOfAppend DEF AppendMessage, InsertIdempotencyResult
  <2>4. KeysInv'
    <3> SUFFICES ASSUME NEW k \in idempotencyKey'
                 PROVE  /\ k.op = "create" => k.result \in Conversations
                        /\ k.op \in {"accept", "assistant"} =>
                             /\ k.scope \in Conversations
                             /\ k.result \in DOMAIN message'[k.scope]
                             /\ message'[k.scope][k.result].client = k.hash[1]
      BY DEF KeysInv
    <3>1. CASE k \in idempotencyKey
      BY <2>1, <3>1 DEF StoreInv, KeysInv, Grows
    <3>2. CASE k = [op |-> call.op, scope |-> call.conv, key |-> call.key,
                    hash |-> <<call.client, call.text>>, result |-> AppendedAt(call)]
      BY <2>1, <3>2 DEF GoodAppend
    <3> QED BY <2>3, <3>1, <3>2
  <2> QED BY <2>1, <2>2, <2>4 DEF StoreInv
<1>2. CASE AppendStatus(call) # 202
  BY <1>2, UnchangedStore DEF AppendMessage
<1> QED BY <1>1, <1>2

-----------------------------------------------------------------------------
(* Creating a conversation and linking a workflow.                         *)

LEMMA CreateKeeps ==
    ASSUME StoreInv, NEW call, call.op = "create", Caller(call) \in Customers,
           NEW id \in Conversations, CreateConversation(call, id)
    PROVE  StoreInv' /\ Grows /\ UNCHANGED message
<1>1. CASE FindIdempotencyResult(call) # {}
  BY <1>1, UnchangedStore DEF CreateConversation, storeVars
<1>2. CASE FindIdempotencyResult(call) = {}
  <2>1. /\ conversation[id] = None
        /\ conversation' = [conversation EXCEPT ![id] = [owner |-> Caller(call), next |-> 1]]
        /\ UNCHANGED <<message, outbox>>
    BY <1>2 DEF CreateConversation
  <2>2. \A k \in idempotencyKey' : k \in idempotencyKey \/ (k.op = "create" /\ k.result = id)
    BY <1>2 DEF CreateConversation, InsertIdempotencyResult
  <2>3. [owner |-> Caller(call), next |-> 1] \in Row
    BY DEF Row
  <2>4. RowsInv'
    BY <2>1, <2>3 DEF StoreInv, RowsInv
  <2>5. Numbers(id) = {} /\ Numbers(id)' = {}
    BY <2>1, <2>3 DEF Numbers, StoreInv, RowsInv
  <2>6. \A c \in Conversations : Numbers(c)' = Numbers(c)
    BY <2>1, <2>5 DEF Numbers, StoreInv, RowsInv
  <2>7. MessagesInv'
    BY <2>1, <2>6 DEF StoreInv, MessagesInv
  <2>8. outbox' = Events'
    BY <2>1 DEF StoreInv, Events
  <2>9. KeysInv'
    BY <2>1, <2>2 DEF StoreInv, KeysInv
  <2>10. Grows
    BY <2>1 DEF Grows, StoreInv, RowsInv
  <2> QED BY <2>1, <2>4, <2>7, <2>8, <2>9, <2>10 DEF StoreInv
<1> QED BY <1>1, <1>2

LEMMA CreatedIsConversation ==
    ASSUME StoreInv, NEW call, call.op = "create", NEW id \in Conversations
    PROVE  CreatedAs(call, id) \in Conversations
<1>1. CASE FindIdempotencyResult(call) # {}
  <2> DEFINE k == CHOOSE k \in FindIdempotencyResult(call) : TRUE
  <2>1. k \in FindIdempotencyResult(call)
    BY <1>1
  <2> HIDE DEF k
  <2>2. k \in idempotencyKey /\ k.op = "create"
    BY <2>1 DEF FindIdempotencyResult
  <2>3. CreatedAs(call, id) = k.result
    BY <1>1 DEF CreatedAs, StoredResult, k
  <2> QED BY <2>2, <2>3 DEF StoreInv, KeysInv
<1>2. CASE FindIdempotencyResult(call) = {}
  BY <1>2 DEF CreatedAs
<1> QED BY <1>1, <1>2

\* At most the reply of the call is changed, and of it the link alone.
OnlyLinks(call) ==
    \A d \in Conversations :
      /\ DOMAIN message'[d] = DOMAIN message[d]
      /\ \A i \in DOMAIN message[d] :
           \/ message'[d][i] = message[d][i]
           \/ /\ d = call.conv /\ i = call.reply
              /\ message[d][i].sender = "ASSISTANT"
              /\ message[d][i].workflow \in {None, call.workflow}
              /\ message'[d][i] = [message[d][i] EXCEPT !.workflow = call.workflow]

LEMMA LinkKeeps ==
    ASSUME StoreInv, NEW call, call.op = "link", call.conv \in Conversations,
           call.workflow \in 1 .. MaxProposals, LinkRefundWorkflow(call)
    PROVE  StoreInv' /\ Grows /\ OnlyLinks(call) /\ UNCHANGED conversation
<1> DEFINE c == call.conv
           r == call.reply
<1>1. CASE UNCHANGED storeVars
  BY <1>1, UnchangedStore DEF storeVars, OnlyLinks
<1>2. CASE ~ UNCHANGED storeVars
  <2>1. /\ LinkStatus(call) = 202 /\ FindIdempotencyResult(call) = {}
        /\ message' = [message EXCEPT ![c][r].workflow = call.workflow]
        /\ InsertIdempotencyResult(call, call.workflow)
        /\ UNCHANGED <<conversation, outbox>>
    BY <1>2 DEF LinkRefundWorkflow
  <2>2. /\ r \in DOMAIN message[c] /\ message[c][r].sender = "ASSISTANT"
        /\ message[c][r].workflow \in {None, call.workflow}
    BY <2>1 DEF LinkStatus, LinkableReply
  <2>3. /\ \A d \in Conversations : DOMAIN message[d] = Numbers(d)
        /\ DOMAIN message = Conversations
        /\ message[c] \in [Numbers(c) -> Message]
        /\ message[c][r] \in Message
    BY <2>2 DEF StoreInv, MessagesInv
  <2>4. message'[c] = [message[c] EXCEPT ![r] = [message[c][r] EXCEPT !.workflow = call.workflow]]
    BY <2>1, <2>3
  <2>5. /\ message'[c][r] = [message[c][r] EXCEPT !.workflow = call.workflow]
        /\ DOMAIN message'[c] = DOMAIN message[c]
        /\ \A i \in DOMAIN message[c] : i # r => message'[c][i] = message[c][i]
    BY <2>2, <2>3, <2>4
  <2>6. /\ \A d \in Conversations : d # c => message'[d] = message[d]
        /\ message' = [d \in Conversations |-> message'[d]]
    BY <2>1, <2>3
  <2>7. OnlyLinks(call)
    BY <2>2, <2>5, <2>6 DEF OnlyLinks
  <2>8. /\ message'[c][r] \in Message
        /\ message'[c][r].sender = message[c][r].sender
        /\ message'[c][r].client = message[c][r].client
    BY <2>3, <2>5 DEF Message
  <2>9. \A d \in Conversations :
          /\ DOMAIN message'[d] = DOMAIN message[d]
          /\ \A i \in DOMAIN message[d] : /\ message'[d][i].sender = message[d][i].sender
                                          /\ message'[d][i].client = message[d][i].client
    BY <2>5, <2>6, <2>8
  <2>10. \A d \in Conversations : Numbers(d)' = Numbers(d)
    BY <2>1 DEF Numbers
  <2>11. MessagesInv'
    <3>1. message'[c] \in [Numbers(c) -> Message]
      BY <2>3, <2>4, <2>8
    <3>2. \A d \in Conversations : message'[d] \in [Numbers(d)' -> Message]
      BY <2>6, <2>10, <3>1 DEF StoreInv, MessagesInv
    <3>3. \A d \in Conversations : \A i \in Numbers(d)' :
            message'[d][i].sender = "END_CUSTOMER" <=> message'[d][i].client[1] = "customer"
      BY <2>3, <2>9, <2>10 DEF StoreInv, MessagesInv
    <3> QED BY <2>6, <3>2, <3>3 DEF MessagesInv
  <2>12. outbox' = Events'
    <3> DEFINE Of(d) == {[conv |-> d, sequence |-> i, sender |-> message[d][i].sender] :
                           i \in DOMAIN message[d]}
               OfNext(d) == {[conv |-> d, sequence |-> i, sender |-> message'[d][i].sender] :
                               i \in DOMAIN message'[d]}
    <3>1. \A d \in Conversations : OfNext(d) = Of(d)
      BY <2>9
    <3>2. outbox = UNION {Of(d) : d \in Conversations}
      BY DEF StoreInv, Events
    <3>3. Events' = UNION {OfNext(d) : d \in Conversations}
      BY DEF Events
    <3> HIDE DEF Of, OfNext
    <3> QED BY <2>1, <3>1, <3>2, <3>3
  <2>13. Grows
    BY <2>1, <2>9 DEF Grows
  <2>14. \A k \in idempotencyKey' : k \in idempotencyKey \/ k.op = "link"
    BY <2>1 DEF InsertIdempotencyResult
  <2>15. KeysInv'
    BY <2>9, <2>14 DEF StoreInv, KeysInv
  <2> QED BY <2>1, <2>7, <2>11, <2>12, <2>13, <2>15 DEF StoreInv, RowsInv
<1> QED BY <1>1, <1>2

-----------------------------------------------------------------------------
(* The edge API's requests.                                                *)

Calling == {"create", "accept", "assistant", "start", "link"}

\* The conversation is the customer's and the turn's question is in it.
Accepted(h) ==
    /\ conversation[h.conv] # None /\ conversation[h.conv].owner = h.customer
    /\ \E n \in DOMAIN message[h.conv] :
         message[h.conv][n].client = <<"customer", h.turn.id>>

\* The reply is the turn's own.
Replied(h) == /\ h.reply \in DOMAIN message[h.conv]
              /\ message[h.conv][h.reply].client = <<"assistant", h.turn.id>>

\* The fields of a request, whatever has been stored.
RequestShape(h) ==
    /\ h = [at |-> h.at, page |-> h.page, customer |-> h.customer,
            turn |-> h.turn, conv |-> h.conv, question |-> h.question,
            order |-> h.order, answer |-> h.answer, workflow |-> h.workflow,
            reply |-> h.reply]
    /\ h.at \in Calling \cup {"context", "agent", "respond"}
    /\ h.page \in Pages /\ h.customer \in Customers /\ h.turn \in Turn
    /\ h.at # "create" => h.conv \in Conversations
    /\ h.at \in {"assistant", "start", "link"} => h.answer \in Clarifications \cup Offers
    /\ h.workflow \in 1 .. MaxProposals \cup {None}
    /\ h.at \in {"start", "link"} => h.workflow \in 1 .. MaxProposals

\* What its calls so far have left in the store and in Temporal.
RequestFacts(h) ==
    /\ h.at \notin {"create", "accept"} => Accepted(h)
    /\ h.at \in {"start", "link"} => Replied(h)
    /\ h.at = "link" => Journey(StartCall(h)) \in journeys

GoodRequest(h) == RequestShape(h) /\ RequestFacts(h)

HandlersInv ==
    /\ handler = [r \in Requests |-> handler[r]]
    /\ \A r \in Requests : handler[r] = Idle \/ GoodRequest(handler[r])

\* A call that is carried out late is that of a request in good order.
LateInv == \A call \in late :
              \E h : GoodRequest(h) /\ h.at \in Calling /\ call = CallOf(h)

JourneysInv ==
    /\ \A j \in journeys : j.conv \in Conversations /\ conversation[j.conv] # None
    /\ JourneysAndReplies

PagesInv ==
    /\ page = [p \in Pages |-> page[p]]
    /\ \A p \in Pages :
         /\ page[p] = [conv |-> page[p].conv, pending |-> page[p].pending,
                       request |-> page[p].request, shown |-> page[p].shown]
         /\ page[p].conv \in Conversations \cup {None}
         /\ page[p].pending \in Turn \cup {None}

CountersInv == /\ turns \in 0 .. MaxTurns /\ proposals \in 0 .. MaxProposals
               /\ customer \in Customers

TurnsInv == StoreInv /\ JourneysInv /\ HandlersInv /\ LateInv /\ PagesInv /\ CountersInv

-----------------------------------------------------------------------------
(* The calls of a request.                                                 *)

LEMMA AppendCallOf ==
    ASSUME NEW h, RequestShape(h), h.at \in {"accept", "assistant"}
    PROVE  /\ GoodAppend(CallOf(h))
           /\ Caller(CallOf(h)) = h.customer /\ CallOf(h).conv = h.conv
           /\ h.at = "accept" => CallOf(h).client = <<"customer", h.turn.id>>
           /\ h.at = "assistant" => CallOf(h).client = <<"assistant", h.turn.id>>
<1>1. h.turn.id \in 1 .. MaxTurns /\ h.turn.text \in Questions /\ h.conv \in Conversations
  BY DEF RequestShape, Turn
<1>2. CASE h.at = "accept"
  <2>1. CallOf(h) = AcceptCall(h)
    BY <1>2 DEF CallOf
  <2>2. GoodAppend(AcceptCall(h))
    BY <1>1, TextsAssumption DEF GoodAppend, AcceptCall, Client
  <2>3. Caller(AcceptCall(h)) = h.customer
    BY DEF Caller, AcceptCall, VerifyContext, SignConversationRuntimeContextAssertion
  <2> QED BY <1>2, <2>1, <2>2, <2>3 DEF AcceptCall
<1>3. CASE h.at = "assistant"
  <2>1. CallOf(h) = AssistantCall(h)
    BY <1>3 DEF CallOf
  <2>2. GoodAppend(AssistantCall(h))
    BY <1>1, <1>3, TextsAssumption
       DEF GoodAppend, AssistantCall, AssistantClientMessageId, Client, RequestShape
  <2>3. Caller(AssistantCall(h)) = h.customer
    BY DEF Caller, AssistantCall, VerifyService, SignEdgeServiceAssertion
  <2> QED BY <1>3, <2>1, <2>2, <2>3 DEF AssistantCall, AssistantClientMessageId
<1> QED BY <1>2, <1>3

LEMMA CreateCallOf ==
    ASSUME NEW h, RequestShape(h), h.at = "create"
    PROVE  CallOf(h).op = "create" /\ Caller(CallOf(h)) \in Customers
<1>1. CallOf(h) = CreateCall(h)
  BY DEF CallOf
<1> QED BY <1>1 DEF CreateCall, Caller, VerifyContext,
                    SignConversationRuntimeContextAssertion, RequestShape

LEMMA StartCallOf ==
    ASSUME NEW h, RequestShape(h), h.at = "start"
    PROVE  CallOf(h) = StartCall(h)
BY DEF CallOf

LEMMA LinkCallOf ==
    ASSUME NEW h, RequestShape(h), h.at = "link"
    PROVE  /\ CallOf(h).op = "link" /\ CallOf(h).conv = h.conv /\ h.conv \in Conversations
           /\ CallOf(h).reply = h.reply /\ CallOf(h).workflow = h.workflow
           /\ h.workflow \in 1 .. MaxProposals
<1>1. CallOf(h) = LinkCall(h)
  BY DEF CallOf
<1> QED BY <1>1 DEF LinkCall, RequestShape

\* The operation of a call says at which point its request is.
LEMMA PointOf ==
    ASSUME NEW h, RequestShape(h), h.at \in Calling
    PROVE  CallOf(h).op = h.at
<1>1. CASE h.at = "create"
  BY <1>1 DEF CallOf, CreateCall
<1>2. CASE h.at = "accept"
  BY <1>2 DEF CallOf, AcceptCall
<1>3. CASE h.at = "assistant"
  BY <1>3 DEF CallOf, AssistantCall
<1>4. CASE h.at = "start"
  BY <1>4 DEF CallOf, StartCall
<1>5. CASE h.at = "link"
  BY <1>5 DEF CallOf, LinkCall
<1> QED BY <1>1, <1>2, <1>3, <1>4, <1>5 DEF Calling

-----------------------------------------------------------------------------
(* What a growing store keeps.                                             *)

LEMMA FactsStay ==
    ASSUME Grows, journeys \subseteq journeys', NEW h, GoodRequest(h)
    PROVE  GoodRequest(h)'
<1>1. RequestShape(h) /\ RequestFacts(h)
  BY DEF GoodRequest
<1>2. h.at # "create" => h.conv \in Conversations
  BY <1>1 DEF RequestShape
<1>3. h.conv \in Conversations /\ Accepted(h) => Accepted(h)'
  BY DEF Accepted, Grows
<1>4. h.conv \in Conversations /\ Replied(h) => Replied(h)'
  BY DEF Replied, Grows
<1>5. RequestFacts(h)'
  BY <1>1, <1>2, <1>3, <1>4 DEF RequestFacts
<1> QED BY <1>1, <1>5 DEF GoodRequest, RequestShape

LEMMA LateStays ==
    ASSUME LateInv, Grows, journeys \subseteq journeys', late' \subseteq late
    PROVE  LateInv'
<1> SUFFICES ASSUME NEW call \in late'
             PROVE  \E h : GoodRequest(h)' /\ h.at \in Calling /\ call = CallOf(h)
  BY DEF LateInv
<1>1. PICK h : GoodRequest(h) /\ h.at \in Calling /\ call = CallOf(h)
  BY DEF LateInv
<1> QED BY <1>1, FactsStay

\* One request becomes k; the others are as they were.
LEMMA HandlerBecomes ==
    ASSUME HandlersInv, Grows, journeys \subseteq journeys', NEW r \in Requests, NEW k,
           handler' = [handler EXCEPT ![r] = k], k = Idle \/ GoodRequest(k)'
    PROVE  HandlersInv'
<1>1. /\ handler' = [s \in Requests |-> handler'[s]] /\ handler'[r] = k
      /\ \A s \in Requests : s # r => handler'[s] = handler[s]
  BY DEF HandlersInv
<1>2. ASSUME NEW s \in Requests
      PROVE  handler'[s] = Idle \/ GoodRequest(handler[s])'
  <2>1. CASE s = r
    BY <1>1, <2>1 DEF GoodRequest, RequestShape, RequestFacts, Accepted, Replied
  <2>2. CASE s # r /\ handler[s] # Idle
    <3>1. PICK g : g = handler[s]
      OBVIOUS
    <3>2. GoodRequest(g)'
      BY <2>2, <3>1, FactsStay DEF HandlersInv
    <3>3. g = handler'[s]
      BY <1>1, <2>2, <3>1
    <3> QED BY <3>2, <3>3 DEF GoodRequest, RequestShape, RequestFacts, Accepted, Replied
  <2>3. CASE s # r /\ handler[s] = Idle
    BY <1>1, <2>3
  <2> QED BY <2>1, <2>2, <2>3
<1> QED BY <1>1, <1>2 DEF HandlersInv

LEMMA HandlersStay ==
    ASSUME HandlersInv, Grows, journeys \subseteq journeys', UNCHANGED handler
    PROVE  HandlersInv'
<1>1. ASSUME NEW s \in Requests, handler[s] # Idle
      PROVE  GoodRequest(handler[s])'
  <2>1. PICK g : g = handler[s]
    OBVIOUS
  <2>2. GoodRequest(g)'
    BY <1>1, <2>1, FactsStay DEF HandlersInv
  <2>3. g = handler'[s]
    BY <2>1
  <2> QED BY <2>2, <2>3 DEF GoodRequest, RequestShape, RequestFacts, Accepted, Replied
<1>2. handler' = [r \in Requests |-> handler'[r]]
  BY DEF HandlersInv
<1>3. \A s \in Requests : handler'[s] = Idle \/ GoodRequest(handler[s])'
  BY <1>1
<1> QED BY <1>2, <1>3 DEF HandlersInv

LEMMA JourneysStay ==
    ASSUME StoreInv, JourneysInv, Grows, NoNewLink, UNCHANGED journeys
    PROVE  JourneysInv'
<1>1. ASSUME NEW j \in journeys
      PROVE  /\ j.conv \in Conversations /\ conversation'[j.conv] # None
             /\ conversation'[j.conv].owner = j.customer
             /\ \E n \in DOMAIN message'[j.conv] :
                  message'[j.conv][n].client = <<"assistant", j.turn>>
  <2>1. /\ j.conv \in Conversations /\ conversation[j.conv] # None
        /\ conversation[j.conv].owner = j.customer
    BY DEF JourneysInv, JourneysAndReplies
  <2>2. PICK n \in DOMAIN message[j.conv] :
          message[j.conv][n].client = <<"assistant", j.turn>>
    BY DEF JourneysInv, JourneysAndReplies
  <2>3. n \in DOMAIN message'[j.conv] /\ message'[j.conv][n].client = <<"assistant", j.turn>>
    BY <2>1, <2>2 DEF Grows
  <2> QED BY <2>1, <2>3 DEF Grows
<1>2. ASSUME NEW c \in Conversations, NEW n \in DOMAIN message'[c],
             message'[c][n].workflow # None
      PROVE  \E j \in journeys : /\ j.workflow = message'[c][n].workflow
                                 /\ j.conv = c
                                 /\ j.turn = TurnOf(message'[c][n])
  <2>1. n \in DOMAIN message[c] /\ message'[c][n] = message[c][n]
    BY <1>2 DEF NoNewLink
  <2> QED BY <1>2, <2>1 DEF JourneysInv, JourneysAndReplies, TurnOf
<1>3. UNCHANGED journeys
  OBVIOUS
<1>4. JourneysAndReplies'
  BY <1>1, <1>2, <1>3 DEF JourneysAndReplies, TurnOf
<1> QED BY <1>1, <1>3, <1>4 DEF JourneysInv

\* A step that only appends, or changes nothing in the store.
LEMMA AppendingStep ==
    ASSUME TurnsInv, StoreInv', Grows, NoNewLink, UNCHANGED journeys, late' \subseteq late,
           HandlersInv', PagesInv', CountersInv'
    PROVE  TurnsInv'
BY JourneysStay, LateStays DEF TurnsInv

LEMMA StandingStep ==
    ASSUME TurnsInv, UNCHANGED <<storeVars, journeys, late>>,
           HandlersInv', PagesInv', CountersInv'
    PROVE  TurnsInv'
BY UnchangedStore, AppendingStep DEF TurnsInv

LEMMA FailKeeps ==
    ASSUME TurnsInv, Grows, journeys \subseteq journeys', NEW r \in Requests,
           handler[r] # Idle, Fail(r)
    PROVE  HandlersInv' /\ PagesInv'
<1>1. HandlersInv'
  BY HandlerBecomes DEF Fail, TurnsInv
<1>2. handler[r].page \in Pages
  BY DEF TurnsInv, HandlersInv, GoodRequest, RequestShape
<1>3. PagesInv'
  BY <1>2 DEF Fail, TurnsInv, PagesInv
<1> QED BY <1>1, <1>3

-----------------------------------------------------------------------------
(* The page.                                                               *)

LEMMA SubmitKeeps ==
    ASSUME TurnsInv, NEW p \in Pages, NEW form \in Forms, Submit(p, form)
    PROVE  TurnsInv'
<1> DEFINE turn == IF CanRetryPendingTurn(p, form) THEN page[p].pending
                   ELSE [id |-> turns + 1, text |-> form.text, order |-> form.order]
           r == CHOOSE s \in Requests : handler[s] = Idle
           k == NewRequest(p, turn, page[p].conv)
<1>1. r \in Requests
  BY DEF Submit
<1>2. turn \in Turn
  <2>1. CASE CanRetryPendingTurn(p, form)
    BY <2>1 DEF CanRetryPendingTurn, TurnsInv, PagesInv
  <2>2. CASE ~ CanRetryPendingTurn(p, form)
    BY <2>2, TextsAssumption, BoundsAssumption DEF Submit, TurnsInv, CountersInv, Turn
  <2> QED BY <2>1, <2>2
<1>3. /\ handler' = [handler EXCEPT ![r] = k]
      /\ page' = [page EXCEPT ![p].pending = turn, ![p].request = r]
      /\ turns' = IF turn.id > turns THEN turn.id ELSE turns
      /\ UNCHANGED <<storeVars, customer, late, journeys, proposals, losses>>
  BY DEF Submit
<1> HIDE DEF turn, r
<1>4. k.at \in {"create", "accept"} /\ RequestShape(k)
  BY <1>2 DEF NewRequest, RequestShape, Calling, TurnsInv, PagesInv, CountersInv
<1> HIDE DEF k
<1>5. Grows /\ journeys \subseteq journeys'
  BY <1>3, UnchangedStore DEF TurnsInv
<1>6. PICK g : g = k
  OBVIOUS
<1>7. HandlersInv'
  <2>1. GoodRequest(g)'
    BY <1>4, <1>6 DEF GoodRequest, RequestShape, RequestFacts
  <2>2. PICK s \in Requests : s = r
    BY <1>1
  <2>3. handler' = [handler EXCEPT ![s] = g]
    BY <1>3, <1>6, <2>2
  <2> QED BY <1>5, <2>1, <2>3, HandlerBecomes DEF TurnsInv
<1>8. PagesInv'
  <2>1. /\ page = [q \in Pages |-> page[q]]
        /\ page[p] = [conv |-> page[p].conv, pending |-> page[p].pending,
                      request |-> page[p].request, shown |-> page[p].shown]
        /\ page[p].conv \in Conversations \cup {None}
    BY DEF TurnsInv, PagesInv
  <2>2. page'[p] = [conv |-> page[p].conv, pending |-> turn, request |-> r,
                    shown |-> page[p].shown]
    BY <1>3, <2>1
  <2>3. /\ page' = [q \in Pages |-> page'[q]]
        /\ \A q \in Pages : q # p => page'[q] = page[q]
    BY <1>3, <2>1
  <2> QED BY <1>2, <2>1, <2>2, <2>3 DEF TurnsInv, PagesInv
<1>9. turn.id \in 1 .. MaxTurns
  BY <1>2 DEF Turn
<1>10. CountersInv'
  BY <1>3, <1>9, BoundsAssumption DEF TurnsInv, CountersInv
<1> QED BY <1>3, <1>7, <1>8, <1>10, StandingStep

LEMMA PageStepKeeps ==
    ASSUME TurnsInv, UNCHANGED <<storeVars, handler, journeys, late>>, PagesInv', CountersInv'
    PROVE  TurnsInv'
BY UnchangedStore, HandlersStay, StandingStep DEF TurnsInv

LEMMA PageActionsKeep ==
    ASSUME TurnsInv, NEW p \in Pages,
           UpdateDraft(p) \/ LoseAnswer(p) \/ LoadConversation(p) \/ LoadFails(p)
    PROVE  TurnsInv'
<1>1. CASE UpdateDraft(p)
  <2>1. PagesInv' /\ CountersInv'
    BY <1>1 DEF UpdateDraft, counters, TurnsInv, PagesInv, CountersInv
  <2> QED BY <1>1, <2>1, PageStepKeeps DEF UpdateDraft
<1>2. CASE LoseAnswer(p)
  <2>1. PagesInv' /\ CountersInv'
    BY <1>2 DEF LoseAnswer, TurnsInv, PagesInv, CountersInv
  <2> QED BY <1>2, <2>1, PageStepKeeps DEF LoseAnswer
<1>3. CASE LoadConversation(p)
  <2> DEFINE loaded == GetConversation(ReadCall(page[p].conv, customer))
             q == IF loaded = None THEN FreshPage(None)
                  ELSE [FreshPage(page[p].conv) EXCEPT !.shown = loaded]
  <2>1. page' = [page EXCEPT ![p] = q]
    BY <1>3 DEF LoadConversation
  <2> HIDE DEF loaded
  <2>2. /\ q = [conv |-> q.conv, pending |-> q.pending, request |-> q.request,
                shown |-> q.shown]
        /\ q.conv \in Conversations \cup {None} /\ q.pending = None
    BY DEF FreshPage, TurnsInv, PagesInv
  <2> HIDE DEF q
  <2>3. PagesInv' /\ CountersInv'
    BY <1>3, <2>1, <2>2 DEF LoadConversation, counters, TurnsInv, PagesInv, CountersInv
  <2> QED BY <1>3, <2>3, PageStepKeeps DEF LoadConversation
<1>4. CASE LoadFails(p)
  <2>1. PagesInv' /\ CountersInv'
    BY <1>4 DEF LoadFails, FreshPage, TurnsInv, PagesInv, CountersInv
  <2> QED BY <1>4, <2>1, PageStepKeeps DEF LoadFails
<1> QED BY <1>1, <1>2, <1>3, <1>4

LEMMA RestartKeeps ==
    ASSUME TurnsInv, NEW c \in Customers, RestartPortal(c)
    PROVE  TurnsInv'
<1>1. PagesInv' /\ CountersInv'
  BY DEF RestartPortal, TurnsInv, PagesInv, CountersInv
<1> QED BY <1>1, PageStepKeeps DEF RestartPortal

-----------------------------------------------------------------------------
(* The steps of a request.                                                 *)

LEMMA RequestOf ==
    ASSUME TurnsInv, NEW r \in Requests, handler[r].at # "idle"
    PROVE  handler[r] # Idle /\ GoodRequest(handler[r])
BY DEF TurnsInv, HandlersInv, Idle

LEMMA RespondKeeps == ASSUME TurnsInv, NEW r \in Requests, Respond(r) PROVE TurnsInv'
<1>1. PICK h : h = handler[r]
  OBVIOUS
<1>2. GoodRequest(h) /\ h.page \in Pages
  BY <1>1, RequestOf DEF Respond, GoodRequest, RequestShape
<1>3. Grows /\ journeys \subseteq journeys'
  BY UnchangedStore DEF Respond, TurnsInv
<1>4. HandlersInv'
  BY <1>3, HandlerBecomes DEF Respond, TurnsInv
<1>5. \/ UNCHANGED page
      \/ \E shown : page' = [page EXCEPT ![h.page].request = None, ![h.page].pending = None,
                                         ![h.page].shown = shown]
  BY <1>1 DEF Respond
<1>6. PagesInv'
  <2>1. CASE UNCHANGED page
    BY <2>1 DEF TurnsInv, PagesInv
  <2>2. ASSUME NEW shown, page' = [page EXCEPT ![h.page].request = None,
                                     ![h.page].pending = None, ![h.page].shown = shown]
        PROVE  PagesInv'
    <3>1. /\ page = [q \in Pages |-> page[q]]
          /\ page[h.page] = [conv |-> page[h.page].conv, pending |-> page[h.page].pending,
                             request |-> page[h.page].request, shown |-> page[h.page].shown]
          /\ page[h.page].conv \in Conversations \cup {None}
      BY <1>2 DEF TurnsInv, PagesInv
    <3>2. page'[h.page] = [conv |-> page[h.page].conv, pending |-> None, request |-> None,
                           shown |-> shown]
      BY <1>2, <2>2, <3>1
    <3>3. /\ page' = [q \in Pages |-> page'[q]]
          /\ \A q \in Pages : q # h.page => page'[q] = page[q]
      BY <1>2, <2>2, <3>1
    <3> QED BY <3>1, <3>2, <3>3 DEF TurnsInv, PagesInv
  <2> QED BY <1>5, <2>1, <2>2
<1>7. CountersInv'
  BY DEF Respond, counters, TurnsInv, CountersInv
<1> QED BY <1>4, <1>6, <1>7, StandingStep DEF Respond

LEMMA CreateStepKeeps == ASSUME TurnsInv, NEW r \in Requests, Create(r) PROVE TurnsInv'
<1>1. PICK h : h = handler[r]
  OBVIOUS
<1> DEFINE call == CallOf(h)
           new == CHOOSE c \in Conversations : conversation[c] = None
<1>2. GoodRequest(h) /\ h.at = "create" /\ RequestShape(h)
  BY <1>1, RequestOf DEF Create, GoodRequest
<1>3. call.op = "create" /\ Caller(call) \in Customers
  BY <1>2, CreateCallOf
<1>4. /\ FindIdempotencyResult(call) # {} \/ \E c \in Conversations : conversation[c] = None
      /\ CreateConversation(call, new)
  BY <1>1 DEF Create
<1>5. PICK id : id = CreatedAs(call, new)
  OBVIOUS
<1> HIDE DEF call
<1>6. StoreInv' /\ Grows /\ UNCHANGED message /\ id \in Conversations
  <2>1. CASE \E c \in Conversations : conversation[c] = None
    <3>1. new \in Conversations
      BY <2>1
    <3>2. PICK n \in Conversations : n = new
      BY <3>1
    <3> HIDE DEF new
    <3> QED BY <1>3, <1>4, <1>5, <3>2, CreateKeeps, CreatedIsConversation DEF TurnsInv
  <2>2. CASE FindIdempotencyResult(call) # {} /\ ~ \E c \in Conversations : conversation[c] = None
    <3>1. UNCHANGED storeVars
      BY <1>4, <2>2 DEF CreateConversation
    <3>2. h.customer \in Customers
      BY <1>2 DEF RequestShape
    <3>3. \E k \in idempotencyKey : k.op = "create"
      BY <1>3, <2>2 DEF FindIdempotencyResult
    <3>4. PICK n \in Conversations : TRUE
      BY <3>3 DEF TurnsInv, StoreInv, KeysInv
    <3>5. CreatedAs(call, n) = CreatedAs(call, new)
      BY <2>2 DEF CreatedAs
    <3>6. CreatedAs(call, n) \in Conversations
      BY <1>3, CreatedIsConversation DEF TurnsInv
    <3> QED BY <1>5, <3>1, <3>5, <3>6, UnchangedStore DEF TurnsInv, storeVars
  <2> QED BY <1>4, <2>1, <2>2
<1>7. NoNewLink
  BY <1>6 DEF NoNewLink
<1>8. UNCHANGED <<customer, late, journeys, counters>>
  BY DEF Create
<1>9. CountersInv'
  BY <1>8 DEF counters, TurnsInv, CountersInv
<1>10. h.page \in Pages /\ h.turn \in Turn
  BY <1>2 DEF RequestShape
<1>11. HandlersInv' /\ PagesInv'
  <2>1. CASE Waiting(r)
    <3>1. /\ page' = [page EXCEPT ![h.page].conv = id]
          /\ handler' = [handler EXCEPT ![r] = NewRequest(h.page, h.turn, id)]
      BY <1>1, <1>5, <2>1 DEF Create, call
    <3>2. PICK g : g = NewRequest(h.page, h.turn, id)
      OBVIOUS
    <3>3. g.at = "accept" /\ RequestShape(g)
      BY <1>6, <1>10, <3>2, StoreAssumption
         DEF NewRequest, RequestShape, Calling, TurnsInv, CountersInv
    <3>4. GoodRequest(g)'
      BY <3>3 DEF GoodRequest, RequestShape, RequestFacts
    <3>5. HandlersInv'
      BY <1>6, <1>8, <3>1, <3>2, <3>4, HandlerBecomes DEF TurnsInv
    <3>6. PagesInv'
      BY <1>6, <1>10, <3>1 DEF TurnsInv, PagesInv
    <3> QED BY <3>5, <3>6
  <2>2. CASE ~ Waiting(r)
    <3>1. handler' = [handler EXCEPT ![r] = Idle] /\ UNCHANGED page
      BY <2>2 DEF Create
    <3>2. HandlersInv'
      BY <1>6, <1>8, <3>1, HandlerBecomes DEF TurnsInv
    <3> QED BY <3>1, <3>2 DEF TurnsInv, PagesInv
  <2> QED BY <2>1, <2>2
<1> QED BY <1>6, <1>7, <1>8, <1>9, <1>11, AppendingStep

LEMMA AcceptKeeps ==
    ASSUME TurnsInv, NEW r \in Requests, AcceptCustomerMessage(r)
    PROVE  TurnsInv'
<1>1. PICK h : h = handler[r]
  OBVIOUS
<1> DEFINE call == CallOf(h)
<1>2. GoodRequest(h) /\ h.at = "accept" /\ RequestShape(h)
  BY <1>1, RequestOf DEF AcceptCustomerMessage, GoodRequest
<1>3. /\ GoodAppend(call) /\ Caller(call) = h.customer /\ call.conv = h.conv
      /\ call.client = <<"customer", h.turn.id>>
  BY <1>2, AppendCallOf
<1>4. AppendMessage(call)
  BY <1>1 DEF AcceptCustomerMessage
<1>5. UNCHANGED <<customer, late, journeys, counters>>
  BY DEF AcceptCustomerMessage
<1>6. CountersInv'
  BY <1>5 DEF counters, TurnsInv, CountersInv
<1>7. PICK n : n = AppendedAt(call)
  OBVIOUS
<1>8. /\ AppendStatus(call) = 202 =>
           /\ handler' = [handler EXCEPT ![r] = [h EXCEPT !.at = "context", !.question = n]]
           /\ UNCHANGED page
      /\ AppendStatus(call) # 202 => Fail(r)
  BY <1>1, <1>7 DEF AcceptCustomerMessage, TurnsInv, HandlersInv
<1> HIDE DEF call
<1>9. /\ StoreInv' /\ Grows /\ NoNewLink
      /\ AppendStatus(call) = 202 =>
           /\ Owned(call)
           /\ n \in DOMAIN message'[h.conv]
           /\ message'[h.conv][n].client = <<"customer", h.turn.id>>
  BY <1>3, <1>4, <1>7, AppendKeeps DEF TurnsInv
<1>10. HandlersInv' /\ PagesInv'
  <2>1. CASE AppendStatus(call) = 202
    <3>1. PICK g : g = [h EXCEPT !.at = "context", !.question = n]
      OBVIOUS
    <3>2. /\ RequestShape(g) /\ g.at = "context"
          /\ g.conv = h.conv /\ g.customer = h.customer /\ g.turn = h.turn
      BY <1>2, <3>1 DEF RequestShape, Calling
    <3>3. conversation[h.conv] # None /\ conversation[h.conv].owner = h.customer
      BY <1>3, <1>9, <2>1 DEF Owned
    <3>4. h.conv \in Conversations
      BY <1>2 DEF RequestShape
    <3>5. conversation'[h.conv] # None /\ conversation'[h.conv].owner = h.customer
      BY <1>9, <3>3, <3>4 DEF Grows
    <3>6. Accepted(g)'
      BY <1>9, <2>1, <3>2, <3>5 DEF Accepted
    <3>7. GoodRequest(g)'
      BY <3>2, <3>6 DEF GoodRequest, RequestShape, RequestFacts
    <3>8. HandlersInv'
      BY <1>5, <1>8, <1>9, <2>1, <3>1, <3>7, HandlerBecomes DEF TurnsInv
    <3> QED BY <1>8, <2>1, <3>8 DEF TurnsInv, PagesInv
  <2>2. CASE AppendStatus(call) # 202
    BY <1>1, <1>2, <1>5, <1>8, <1>9, <2>2, RequestOf, FailKeeps
  <2> QED BY <2>1, <2>2
<1> QED BY <1>5, <1>6, <1>9, <1>10, AppendingStep

LEMMA LoadContextKeeps ==
    ASSUME TurnsInv, NEW r \in Requests, LoadContext(r)
    PROVE  TurnsInv'
<1>1. PICK h : h = handler[r]
  OBVIOUS
<1>2. GoodRequest(h) /\ h.at = "context" /\ handler[r] # Idle
  BY <1>1, RequestOf DEF LoadContext
<1>3. UNCHANGED <<storeVars, customer, late, journeys, counters>>
  BY DEF LoadContext
<1>4. Grows /\ journeys \subseteq journeys'
  BY <1>3, UnchangedStore DEF TurnsInv
<1>5. CountersInv'
  BY <1>3 DEF counters, TurnsInv, CountersInv
<1>6. \/ Fail(r)
      \/ \E o : /\ handler' = [handler EXCEPT ![r] = [h EXCEPT !.at = "agent", !.order = o]]
                /\ UNCHANGED page
  BY <1>1 DEF LoadContext, TurnsInv, HandlersInv
<1>7. CASE Fail(r)
  BY <1>2, <1>3, <1>4, <1>5, <1>7, FailKeeps, StandingStep
<1>8. ASSUME NEW o, handler' = [handler EXCEPT ![r] = [h EXCEPT !.at = "agent", !.order = o]],
             UNCHANGED page
      PROVE  TurnsInv'
  <2>1. PICK g : g = [h EXCEPT !.at = "agent", !.order = o]
    OBVIOUS
  <2>2. GoodRequest(g)
    BY <1>2, <2>1 DEF GoodRequest, RequestShape, RequestFacts, Accepted, Calling
  <2>3. GoodRequest(g)'
    BY <1>4, <2>2, FactsStay
  <2>4. HandlersInv'
    BY <1>4, <1>8, <2>1, <2>3, HandlerBecomes DEF TurnsInv
  <2>5. PagesInv'
    BY <1>8 DEF TurnsInv, PagesInv
  <2> QED BY <1>3, <1>5, <2>4, <2>5, StandingStep
<1> QED BY <1>6, <1>7, <1>8

LEMMA AgentResponseOf ==
    ASSUME TurnsInv, NEW order, NEW x \in AgentResponses(order)
    PROVE  /\ x.answer \in Clarifications \cup Offers
           /\ x.workflow = None \/ (x.workflow = proposals + 1 /\ proposals < MaxProposals)
BY DEF AgentResponses

LEMMA IntakeKeeps == ASSUME TurnsInv, NEW r \in Requests, IntakeRefund(r) PROVE TurnsInv'
<1>1. PICK h : h = handler[r]
  OBVIOUS
<1>2. GoodRequest(h) /\ h.at = "agent"
  BY <1>1, RequestOf DEF IntakeRefund
<1>3. UNCHANGED <<storeVars, customer, page, late, journeys, turns, losses>>
  BY DEF IntakeRefund
<1>4. Grows /\ journeys \subseteq journeys'
  BY <1>3, UnchangedStore DEF TurnsInv
<1>5. PICK x \in AgentResponses(h.order) :
        /\ handler' = [handler EXCEPT ![r] = [h EXCEPT !.at = "assistant", !.answer = x.answer,
                                                       !.workflow = x.workflow]]
        /\ proposals' = IF x.workflow = None THEN proposals ELSE x.workflow
  BY <1>1 DEF IntakeRefund, TurnsInv, HandlersInv
<1>6. /\ x.answer \in Clarifications \cup Offers
      /\ x.workflow = None \/ (x.workflow = proposals + 1 /\ proposals < MaxProposals)
  BY AgentResponseOf
<1>7. x.workflow \in 1 .. MaxProposals \cup {None}
  BY <1>6, BoundsAssumption DEF TurnsInv, CountersInv
<1>8. CountersInv'
  BY <1>3, <1>5, <1>7, BoundsAssumption DEF TurnsInv, CountersInv
<1>9. PICK g : g = [h EXCEPT !.at = "assistant", !.answer = x.answer, !.workflow = x.workflow]
  OBVIOUS
<1>10. GoodRequest(g)
  BY <1>2, <1>6, <1>7, <1>9 DEF GoodRequest, RequestShape, RequestFacts, Accepted, Calling
<1>11. GoodRequest(g)'
  BY <1>4, <1>10, FactsStay
<1>12. HandlersInv'
  BY <1>4, <1>5, <1>9, <1>11, HandlerBecomes DEF TurnsInv
<1>13. PagesInv'
  BY <1>3 DEF TurnsInv, PagesInv
<1> QED BY <1>3, <1>8, <1>12, <1>13, StandingStep

LEMMA ReplyKeeps ==
    ASSUME TurnsInv, NEW r \in Requests, AppendAssistantMessage(r)
    PROVE  TurnsInv'
<1>1. PICK h : h = handler[r]
  OBVIOUS
<1> DEFINE call == CallOf(h)
<1>2. GoodRequest(h) /\ h.at = "assistant" /\ RequestShape(h) /\ handler[r] # Idle
  BY <1>1, RequestOf DEF AppendAssistantMessage, GoodRequest
<1>3. /\ GoodAppend(call) /\ call.conv = h.conv
      /\ call.client = <<"assistant", h.turn.id>>
  BY <1>2, AppendCallOf
<1>4. AppendMessage(call)
  BY <1>1 DEF AppendAssistantMessage
<1>5. UNCHANGED <<customer, late, journeys, counters>>
  BY DEF AppendAssistantMessage
<1>6. CountersInv'
  BY <1>5 DEF counters, TurnsInv, CountersInv
<1>7. PICK n : n = AppendedAt(call)
  OBVIOUS
<1>8. PICK at : at = IF h.workflow = None THEN "respond" ELSE "start"
  OBVIOUS
<1>9. /\ AppendStatus(call) = 202 =>
           /\ handler' = [handler EXCEPT ![r] = [h EXCEPT !.at = at, !.reply = n]]
           /\ UNCHANGED page
      /\ AppendStatus(call) # 202 => Fail(r)
  BY <1>1, <1>7, <1>8 DEF AppendAssistantMessage, TurnsInv, HandlersInv
<1> HIDE DEF call
<1>10. /\ StoreInv' /\ Grows /\ NoNewLink
       /\ AppendStatus(call) = 202 =>
            /\ n \in DOMAIN message'[h.conv]
            /\ message'[h.conv][n].client = <<"assistant", h.turn.id>>
  BY <1>3, <1>4, <1>7, AppendKeeps DEF TurnsInv
<1>11. HandlersInv' /\ PagesInv'
  <2>1. CASE AppendStatus(call) = 202
    <3>1. PICK g : g = [h EXCEPT !.at = at, !.reply = n]
      OBVIOUS
    <3>2. /\ RequestShape(g) /\ g.at \in {"respond", "start"} /\ g.reply = n
          /\ g.conv = h.conv /\ g.customer = h.customer /\ g.turn = h.turn
      BY <1>2, <1>8, <3>1 DEF RequestShape, Calling
    <3>3. GoodRequest(h)'
      BY <1>2, <1>5, <1>10, FactsStay
    <3>4. Accepted(g)'
      BY <1>2, <3>2, <3>3 DEF GoodRequest, RequestFacts, Accepted
    <3>5. Replied(g)'
      BY <1>10, <2>1, <3>2 DEF Replied
    <3>6. GoodRequest(g)'
      BY <3>2, <3>4, <3>5 DEF GoodRequest, RequestShape, RequestFacts
    <3>7. HandlersInv'
      BY <1>5, <1>9, <1>10, <2>1, <3>1, <3>6, HandlerBecomes DEF TurnsInv
    <3> QED BY <1>9, <2>1, <3>7 DEF TurnsInv, PagesInv
  <2>2. CASE AppendStatus(call) # 202
    BY <1>2, <1>5, <1>9, <1>10, <2>2, FailKeeps
  <2> QED BY <2>1, <2>2
<1> QED BY <1>5, <1>6, <1>10, <1>11, AppendingStep

\* A workflow is started for a request that has its reply.
LEMMA StartedJourney ==
    ASSUME TurnsInv, NEW h, GoodRequest(h), h.at = "start", UNCHANGED storeVars,
           journeys' = journeys \cup {Journey(StartCall(h))}
    PROVE  JourneysInv'
<1> DEFINE j == Journey(StartCall(h))
<1>1. /\ j.conv = h.conv /\ j.customer = h.customer /\ j.turn = h.turn.id
      /\ h.conv \in Conversations
  BY DEF Journey, StartCall, GoodRequest, RequestShape
<1>2. /\ conversation[h.conv] # None /\ conversation[h.conv].owner = h.customer
      /\ h.reply \in DOMAIN message[h.conv]
      /\ message[h.conv][h.reply].client = <<"assistant", h.turn.id>>
  BY DEF GoodRequest, RequestFacts, Accepted, Replied
<1>3. UNCHANGED <<conversation, message>>
  BY DEF storeVars
<1> HIDE DEF j
<1>4. \A i \in journeys' : i \in journeys \/ i = j
  BY DEF j
<1>5. journeys \subseteq journeys'
  OBVIOUS
<1>6. \A i \in journeys' :
        /\ i.conv \in Conversations /\ conversation'[i.conv] # None
        /\ conversation'[i.conv].owner = i.customer
        /\ \E n \in DOMAIN message'[i.conv] :
             message'[i.conv][n].client = <<"assistant", i.turn>>
  <2> SUFFICES ASSUME NEW i \in journeys'
               PROVE  /\ i.conv \in Conversations /\ conversation[i.conv] # None
                      /\ conversation[i.conv].owner = i.customer
                      /\ \E n \in DOMAIN message[i.conv] :
                           message[i.conv][n].client = <<"assistant", i.turn>>
    BY <1>3
  <2>1. CASE i \in journeys
    BY <2>1 DEF TurnsInv, JourneysInv, JourneysAndReplies
  <2>2. CASE i = j
    BY <1>1, <1>2, <2>2
  <2> QED BY <1>4, <2>1, <2>2
<1>7. \A c \in Conversations : \A n \in DOMAIN message'[c] :
        message'[c][n].workflow # None =>
          \E i \in journeys' : /\ i.workflow = message'[c][n].workflow
                               /\ i.conv = c /\ i.turn = TurnOf(message'[c][n])
  BY <1>3, <1>5 DEF TurnsInv, JourneysInv, JourneysAndReplies
<1> QED BY <1>6, <1>7 DEF JourneysInv, JourneysAndReplies, TurnOf

LEMMA StartKeeps ==
    ASSUME TurnsInv, NEW r \in Requests, StartRefundWorkflow(r)
    PROVE  TurnsInv'
<1>1. PICK h : h = handler[r]
  OBVIOUS
<1>2. GoodRequest(h) /\ h.at = "start" /\ RequestShape(h)
  BY <1>1, RequestOf DEF StartRefundWorkflow, GoodRequest
<1>3. /\ journeys' = journeys \cup {Journey(StartCall(h))}
      /\ handler' = [handler EXCEPT ![r] = [h EXCEPT !.at = "link"]]
      /\ UNCHANGED <<storeVars, customer, page, late, counters>>
  BY <1>1, <1>2, StartCallOf DEF StartRefundWorkflow, TurnsInv, HandlersInv
<1>4. StoreInv' /\ Grows /\ journeys \subseteq journeys'
  BY <1>3, UnchangedStore DEF TurnsInv
<1>5. JourneysInv'
  BY <1>2, <1>3, StartedJourney
<1>6. PICK g : g = [h EXCEPT !.at = "link"]
  OBVIOUS
<1>7. GoodRequest(h)'
  BY <1>2, <1>4, FactsStay
<1>8. /\ RequestShape(g) /\ g.at = "link" /\ g.reply = h.reply /\ g.workflow = h.workflow
      /\ g.conv = h.conv /\ g.customer = h.customer /\ g.turn = h.turn
  BY <1>2, <1>6 DEF RequestShape, Calling
<1>9. Journey(StartCall(g)) \in journeys'
  BY <1>3, <1>8 DEF Journey, StartCall
<1>10. Accepted(g)' /\ Replied(g)'
  BY <1>2, <1>7, <1>8 DEF GoodRequest, RequestFacts, Accepted, Replied
<1>11. GoodRequest(g)'
  BY <1>8, <1>9, <1>10 DEF GoodRequest, RequestShape, RequestFacts, Journey, StartCall
<1>12. HandlersInv'
  BY <1>3, <1>4, <1>6, <1>11, HandlerBecomes DEF TurnsInv
<1>13. LateInv'
  BY <1>3, <1>4, LateStays DEF TurnsInv
<1>14. PagesInv' /\ CountersInv'
  BY <1>3 DEF TurnsInv, PagesInv, CountersInv, counters
<1> QED BY <1>4, <1>5, <1>12, <1>13, <1>14 DEF TurnsInv

\* A link is made for a request whose workflow was started.
LEMMA LinkedJourney ==
    ASSUME TurnsInv, NEW h, GoodRequest(h), h.at = "link",
           LinkRefundWorkflow(CallOf(h)), UNCHANGED journeys
    PROVE  StoreInv' /\ Grows /\ OnlyLinks(CallOf(h)) /\ JourneysInv'
<1> DEFINE call == CallOf(h)
<1>1. /\ call.op = "link" /\ call.conv = h.conv /\ h.conv \in Conversations
      /\ call.reply = h.reply /\ call.workflow = h.workflow
      /\ h.workflow \in 1 .. MaxProposals
  BY LinkCallOf DEF GoodRequest
<1>2. LinkRefundWorkflow(call)
  OBVIOUS
<1> HIDE DEF call
<1>3. StoreInv' /\ Grows /\ OnlyLinks(call) /\ UNCHANGED conversation
  BY <1>1, <1>2, LinkKeeps DEF TurnsInv
<1>4. \A j \in journeys :
        /\ j.conv \in Conversations /\ conversation'[j.conv] # None
        /\ conversation'[j.conv].owner = j.customer
        /\ \E n \in DOMAIN message'[j.conv] :
             message'[j.conv][n].client = <<"assistant", j.turn>>
  <2> SUFFICES ASSUME NEW j \in journeys
               PROVE  /\ j.conv \in Conversations /\ conversation'[j.conv] # None
                      /\ conversation'[j.conv].owner = j.customer
                      /\ \E n \in DOMAIN message'[j.conv] :
                           message'[j.conv][n].client = <<"assistant", j.turn>>
    OBVIOUS
  <2>1. /\ j.conv \in Conversations /\ conversation[j.conv] # None
        /\ conversation[j.conv].owner = j.customer
    BY DEF TurnsInv, JourneysInv, JourneysAndReplies
  <2>2. PICK n \in DOMAIN message[j.conv] :
          message[j.conv][n].client = <<"assistant", j.turn>>
    BY DEF TurnsInv, JourneysInv, JourneysAndReplies
  <2>3. n \in DOMAIN message'[j.conv] /\ message'[j.conv][n].client = <<"assistant", j.turn>>
    BY <1>3, <2>1, <2>2 DEF Grows
  <2> QED BY <1>3, <2>1, <2>3
<1>5. ASSUME NEW c \in Conversations, NEW n \in DOMAIN message'[c],
             message'[c][n].workflow # None
      PROVE  \E j \in journeys : /\ j.workflow = message'[c][n].workflow
                                 /\ j.conv = c /\ j.turn = TurnOf(message'[c][n])
  <2>1. n \in DOMAIN message[c]
    BY <1>3 DEF OnlyLinks
  <2>2. CASE message'[c][n] = message[c][n]
    BY <1>5, <2>1, <2>2 DEF TurnsInv, JourneysInv, JourneysAndReplies
  <2>3. CASE /\ c = h.conv /\ n = h.reply
             /\ message'[c][n] = [message[c][n] EXCEPT !.workflow = h.workflow]
    <3>1. message[c][n] \in Message
      BY <2>1 DEF TurnsInv, StoreInv, MessagesInv
    <3>2. message'[c][n].workflow = h.workflow /\ message'[c][n].client = message[c][n].client
      BY <2>3, <3>1 DEF Message
    <3>3. message[c][n].client = <<"assistant", h.turn.id>>
      BY <2>3 DEF GoodRequest, RequestFacts, Replied
    <3>4. TurnOf(message'[c][n]) = h.turn.id
      BY <3>2, <3>3 DEF TurnOf
    <3>5. Journey(StartCall(h)) \in journeys
      BY DEF GoodRequest, RequestFacts
    <3> QED BY <2>3, <3>2, <3>4, <3>5 DEF Journey, StartCall
  <2> QED BY <1>1, <1>3, <2>1, <2>2, <2>3 DEF OnlyLinks
<1>6. UNCHANGED journeys
  OBVIOUS
<1>7. JourneysInv'
  BY <1>4, <1>5, <1>6 DEF JourneysInv, JourneysAndReplies, TurnOf
<1> QED BY <1>3, <1>7 DEF call

LEMMA LinkStepKeeps == ASSUME TurnsInv, NEW r \in Requests, Link(r) PROVE TurnsInv'
<1>1. PICK h : h = handler[r]
  OBVIOUS
<1>2. GoodRequest(h) /\ h.at = "link" /\ handler[r] # Idle
  BY <1>1, RequestOf DEF Link
<1>3. /\ LinkRefundWorkflow(CallOf(h))
      /\ \/ /\ handler' = [handler EXCEPT ![r] = [h EXCEPT !.at = "respond"]]
            /\ UNCHANGED page
         \/ Fail(r)
      /\ UNCHANGED <<customer, late, journeys, counters>>
  BY <1>1 DEF Link, TurnsInv, HandlersInv
<1>4. StoreInv' /\ Grows /\ JourneysInv'
  BY <1>2, <1>3, LinkedJourney
<1>5. HandlersInv' /\ PagesInv'
  <2>1. CASE Fail(r)
    BY <1>2, <1>3, <1>4, <2>1, FailKeeps
  <2>2. CASE /\ handler' = [handler EXCEPT ![r] = [h EXCEPT !.at = "respond"]]
             /\ UNCHANGED page
    <3>1. PICK g : g = [h EXCEPT !.at = "respond"]
      OBVIOUS
    <3>2. GoodRequest(g)
      BY <1>2, <3>1 DEF GoodRequest, RequestShape, RequestFacts, Accepted, Calling
    <3>3. GoodRequest(g)'
      BY <1>3, <1>4, <3>2, FactsStay
    <3>4. HandlersInv'
      BY <1>3, <1>4, <2>2, <3>1, <3>3, HandlerBecomes DEF TurnsInv
    <3> QED BY <2>2, <3>4 DEF TurnsInv, PagesInv
  <2> QED BY <1>3, <2>1, <2>2
<1>6. LateInv'
  BY <1>3, <1>4, LateStays DEF TurnsInv
<1>7. CountersInv'
  BY <1>3 DEF TurnsInv, CountersInv, counters
<1> QED BY <1>4, <1>5, <1>6, <1>7 DEF TurnsInv

LEMMA ReadFailsKeeps == ASSUME TurnsInv, NEW r \in Requests, ReadFails(r) PROVE TurnsInv'
<1>1. handler[r] # Idle
  BY RequestOf DEF ReadFails
<1>2. UNCHANGED <<storeVars, customer, late, journeys, turns, proposals>> /\ Fail(r)
  BY DEF ReadFails
<1>3. Grows /\ journeys \subseteq journeys'
  BY <1>2, UnchangedStore DEF TurnsInv
<1>4. HandlersInv' /\ PagesInv'
  BY <1>1, <1>2, <1>3, FailKeeps
<1>5. CountersInv'
  BY <1>2 DEF TurnsInv, CountersInv
<1> QED BY <1>2, <1>4, <1>5, StandingStep

LEMMA GiveUpKeeps == ASSUME TurnsInv, NEW r \in Requests, GiveUp(r) PROVE TurnsInv'
<1>1. PICK h : h = handler[r]
  OBVIOUS
<1>2. GoodRequest(h) /\ h.at \in Calling /\ handler[r] # Idle
  BY <1>1, RequestOf DEF GiveUp, Calling
<1>3. /\ UNCHANGED <<storeVars, customer, journeys, turns, proposals>> /\ Fail(r)
      /\ late' = late \cup {CallOf(h)}
  BY <1>1 DEF GiveUp
<1>4. StoreInv' /\ Grows /\ NoNewLink /\ journeys \subseteq journeys'
  BY <1>3, UnchangedStore DEF TurnsInv
<1>5. HandlersInv' /\ PagesInv'
  BY <1>2, <1>3, <1>4, FailKeeps
<1>6. ASSUME NEW call \in late'
      PROVE  \E g : GoodRequest(g)' /\ g.at \in Calling /\ call = CallOf(g)
  <2>1. PICK g : GoodRequest(g) /\ g.at \in Calling /\ call = CallOf(g)
    BY <1>2, <1>3 DEF TurnsInv, LateInv
  <2> QED BY <1>4, <2>1, FactsStay
<1>7. LateInv'
  BY <1>6 DEF LateInv
<1>8. JourneysInv'
  BY <1>3, <1>4, JourneysStay DEF TurnsInv
<1>9. CountersInv'
  BY <1>3 DEF TurnsInv, CountersInv
<1> QED BY <1>4, <1>5, <1>7, <1>8, <1>9 DEF TurnsInv

LEMMA LateKeeps == ASSUME TurnsInv, NEW call \in late, CarryOutLate(call) PROVE TurnsInv'
<1>1. PICK h : GoodRequest(h) /\ h.at \in Calling /\ call = CallOf(h)
  BY DEF TurnsInv, LateInv
<1>2. RequestShape(h) /\ call.op = h.at
  BY <1>1, PointOf DEF GoodRequest
<1>3. UNCHANGED <<customer, page, handler, counters>> /\ late' \subseteq late
  BY DEF CarryOutLate
<1>4. PagesInv' /\ CountersInv'
  BY <1>3 DEF TurnsInv, PagesInv, CountersInv, counters
<1>5. /\ StoreInv' /\ Grows /\ journeys \subseteq journeys' /\ JourneysInv'
  <2>1. CASE LateCreate(call)
    <3>1. PICK id \in Conversations : CreateConversation(call, id)
      BY <2>1 DEF LateCreate
    <3>2. call.op = "create" /\ Caller(call) \in Customers
      BY <1>1, <1>2, <2>1, CreateCallOf DEF LateCreate
    <3>3. StoreInv' /\ Grows /\ UNCHANGED message
      BY <3>1, <3>2, CreateKeeps DEF TurnsInv
    <3>4. NoNewLink /\ UNCHANGED journeys
      BY <2>1, <3>3 DEF NoNewLink, LateCreate
    <3> QED BY <3>3, <3>4, JourneysStay DEF TurnsInv
  <2>2. CASE LateAppend(call)
    <3>1. GoodAppend(call) /\ AppendMessage(call) /\ UNCHANGED journeys
      BY <1>1, <1>2, <2>2, AppendCallOf DEF LateAppend
    <3>2. StoreInv' /\ Grows /\ NoNewLink
      BY <3>1, AppendKeeps DEF TurnsInv
    <3> QED BY <3>1, <3>2, JourneysStay DEF TurnsInv
  <2>3. CASE LateStart(call)
    <3>1. /\ h.at = "start" /\ UNCHANGED storeVars
          /\ journeys' = journeys \cup {Journey(StartCall(h))}
      BY <1>1, <1>2, <2>3, StartCallOf DEF LateStart
    <3> QED BY <1>1, <3>1, StartedJourney, UnchangedStore DEF TurnsInv
  <2>4. CASE LateLink(call)
    <3>1. h.at = "link" /\ LinkRefundWorkflow(CallOf(h)) /\ UNCHANGED journeys
      BY <1>1, <1>2, <2>4 DEF LateLink
    <3> QED BY <1>1, <3>1, LinkedJourney
  <2> QED BY <2>1, <2>2, <2>3, <2>4 DEF CarryOutLate
<1>6. HandlersInv' /\ LateInv'
  BY <1>3, <1>5, HandlersStay, LateStays DEF TurnsInv
<1> QED BY <1>4, <1>5, <1>6 DEF TurnsInv

-----------------------------------------------------------------------------

LEMMA InitEstablishes == Init => TurnsInv
<1> SUFFICES ASSUME Init PROVE TurnsInv
  OBVIOUS
<1>1. /\ conversation = [c \in Conversations |-> None]
      /\ message = [c \in Conversations |-> << >>]
      /\ idempotencyKey = {} /\ outbox = {}
  BY DEF Init, InitStore
<1>2. \A c \in Conversations : Numbers(c) = {} /\ message[c] = << >>
  BY <1>1 DEF Numbers
<1>3. << >> \in [{} -> Message] /\ DOMAIN << >> = {}
  OBVIOUS
<1>4. MessagesInv
  BY <1>1, <1>2, <1>3 DEF MessagesInv
<1>5. outbox = Events
  BY <1>1, <1>2, <1>3 DEF Events
<1>6. StoreInv
  BY <1>1, <1>4, <1>5 DEF StoreInv, RowsInv, KeysInv
<1>7. JourneysInv
  BY <1>2, <1>3 DEF Init, JourneysInv, JourneysAndReplies
<1>8. HandlersInv /\ LateInv
  BY DEF Init, HandlersInv, LateInv
<1>9. PagesInv
  BY DEF Init, PagesInv, FreshPage
<1>10. CountersInv
  BY StoreAssumption, BoundsAssumption DEF Init, CountersInv
<1> QED BY <1>6, <1>7, <1>8, <1>9, <1>10 DEF TurnsInv

LEMMA StutterKeeps == ASSUME TurnsInv, UNCHANGED vars PROVE TurnsInv'
<1>1. PagesInv' /\ CountersInv'
  BY DEF vars, TurnsInv, PagesInv, CountersInv
<1>2. UNCHANGED <<storeVars, handler, journeys, late>>
  BY DEF vars, storeVars
<1> QED BY <1>1, <1>2, PageStepKeeps

LEMMA StepKeeps == TurnsInv /\ [Next]_vars => TurnsInv'
<1> SUFFICES ASSUME TurnsInv, [Next]_vars PROVE TurnsInv'
  OBVIOUS
<1>1. ASSUME NEW p \in Pages, NEW form \in Forms, Submit(p, form) PROVE TurnsInv'
  BY <1>1, SubmitKeeps
<1>2. ASSUME NEW p \in Pages,
             UpdateDraft(p) \/ LoseAnswer(p) \/ LoadConversation(p) \/ LoadFails(p)
      PROVE  TurnsInv'
  BY <1>2, PageActionsKeep
<1>3. ASSUME NEW c \in Customers, RestartPortal(c) PROVE TurnsInv'
  BY <1>3, RestartKeeps
<1>4. ASSUME NEW r \in Requests, HandlerStep(r) PROVE TurnsInv'
  BY <1>4, CreateStepKeeps, AcceptKeeps, LoadContextKeeps, IntakeKeeps, ReplyKeeps,
     StartKeeps, LinkStepKeeps, RespondKeeps, ReadFailsKeeps, GiveUpKeeps DEF HandlerStep
<1>5. ASSUME NEW call \in late, CarryOutLate(call) PROVE TurnsInv'
  BY <1>5, LateKeeps
<1>6. CASE UNCHANGED vars
  BY <1>6, StutterKeeps
<1> QED BY <1>1, <1>2, <1>3, <1>4, <1>5, <1>6 DEF Next

LEMMA TurnsInvariant == Spec => []TurnsInv
BY InitEstablishes, StepKeeps, PTL DEF Spec

\* Numbers are handed out without a gap and every committed message has its
\* own event: appendMessage writes all three in the transaction that holds
\* the conversation's row.
THEOREM OneEventPerMessage == Spec => []EventPerMessage
<1>1. TurnsInv => EventPerMessage
  <2> SUFFICES ASSUME TurnsInv PROVE EventPerMessage
    OBVIOUS
  <2>1. \A c \in Conversations : DOMAIN message[c] = Numbers(c)
    BY DEF TurnsInv, StoreInv, MessagesInv
  <2>2. outbox = Events
    BY DEF TurnsInv, StoreInv
  <2> QED BY <2>1, <2>2 DEF EventPerMessage, Numbers, Events
<1> QED BY <1>1, TurnsInvariant, PTL

\* A workflow is started only for the owner of a conversation that holds the
\* turn's reply, and a reply is linked only to a workflow of its own turn,
\* whichever calls of whichever handlers are given up on and carried out late.
THEOREM JourneysHaveReplies == Spec => []JourneysAndReplies
<1>1. TurnsInv => JourneysAndReplies
  BY DEF TurnsInv, JourneysInv
<1> QED BY <1>1, TurnsInvariant, PTL

-----------------------------------------------------------------------------
(* The transcript implements the log.                                      *)

EntryOf(m) == [sender |-> m.sender, turn |-> TurnOf(m),
               text |-> UnprotectMessage(m.content), workflow |-> m.workflow]

LogOf == [c \in Conversations |-> [n \in DOMAIN message[c] |->
           [sender |-> message[c][n].sender, turn |-> TurnOf(message[c][n]),
            text |-> TextAt(c, n), workflow |-> message[c][n].workflow]]]

LEMMA EntryFields ==
    \A m : EntryOf(m).sender = m.sender /\ EntryOf(m).turn = m.client[2]
BY DEF EntryOf, TurnOf

LEMMA LogEntries ==
    /\ LogOf = [c \in Conversations |-> LogOf[c]]
    /\ \A c \in Conversations : LogOf[c] = [n \in DOMAIN message[c] |-> EntryOf(message[c][n])]
BY DEF LogOf, EntryOf, TextAt

LEMMA LogEntriesNext ==
    /\ LogOf' = [c \in Conversations |-> LogOf'[c]]
    /\ \A c \in Conversations : LogOf'[c] = [n \in DOMAIN message'[c] |-> EntryOf(message'[c][n])]
BY DEF LogOf, EntryOf, TextAt, TurnOf, UnprotectMessage

LEMMA SameLog == ASSUME UNCHANGED message PROVE UNCHANGED LogOf
BY DEF LogOf, TextAt, TurnOf, UnprotectMessage

\* Two clients' ids of one sender and turn are the same.
LEMMA ClientOf ==
    ASSUME NEW a1 \in Client, NEW b1 \in Client, a1[2] = b1[2],
           a1[1] = "customer" <=> b1[1] = "customer"
    PROVE  a1 = b1
BY DEF Client

\* The instance's cardinality is that of finite sets.
LEMMA LogCardinality == \A S : Log!Cardinality(S) = Cardinality(S)
BY Zenon DEF Log!Cardinality, Cardinality

LEMMA AppendIsLogged ==
    ASSUME StoreInv, NEW call, GoodAppend(call), AppendMessage(call),
           call.op = "assistant" =>
             \E i \in DOMAIN message[call.conv] :
               message[call.conv][i].client = <<"customer", call.client[2]>>
    PROVE  Log!Next \/ UNCHANGED LogOf
<1>1. CASE UNCHANGED message
  BY <1>1, SameLog
<1>2. CASE ~ UNCHANGED message
  <2> DEFINE c == call.conv
             n == conversation[c].next
             m == NewMessage(call)
             t == call.client[2]
             e == EntryOf(m)
  <2>1. AppendStatus(call) = 202 /\ InsertMessage(call) /\ IsNewMessage(call)
    BY <1>2 DEF AppendMessage, InsertMessage, storeVars
  <2>2. /\ n \in Nat \ {0} /\ m \in Message
        /\ Numbers(c) = 1 .. n - 1
        /\ message'[c] = Insert(message[c], n, m)
        /\ \A d \in Conversations : d # c => message'[d] = message[d]
    BY <2>1, Inserted
  <2>3. c \in Conversations /\ DOMAIN message[c] = Numbers(c) /\ call.client \in Client
    BY DEF StoreInv, MessagesInv, GoodAppend
  <2>4. /\ m.client = call.client /\ m.workflow = None /\ UnprotectMessage(m.content) = call.text
        /\ m.sender = SenderKind(call)
    BY DEF NewMessage, ProtectMessage, UnprotectMessage
  <2>5. /\ e = [sender |-> SenderKind(call), turn |-> t, text |-> call.text, workflow |-> None]
        /\ t \in 1 .. MaxTurns /\ call.text \in Texts
    BY <2>4 DEF EntryOf, TurnOf, GoodAppend, Client
  <2> HIDE DEF n, m, e
  <2>6. /\ DOMAIN LogOf[c] = 1 .. n - 1
        /\ \A i \in 1 .. n - 1 : LogOf[c][i] = EntryOf(message[c][i])
    BY <2>2, <2>3, LogEntries
  <2>7. Log!Cardinality(DOMAIN LogOf[c]) + 1 = n
    <3>1. Cardinality(1 .. n - 1) = n - 1
      BY <2>2, FS_Interval
    <3> QED BY <2>2, <2>6, <3>1, LogCardinality
  <2>8. message'[c] = [i \in 1 .. n - 1 \cup {n} |-> IF i = n THEN m ELSE message[c][i]]
    BY <2>2, <2>3 DEF Insert
  <2>9. LogOf'[c] = [i \in 1 .. n - 1 \cup {n} |-> IF i = n THEN e ELSE LogOf[c][i]]
    <3>1. LogOf'[c] = [i \in DOMAIN message'[c] |-> EntryOf(message'[c][i])]
      BY <2>3, LogEntriesNext
    <3>2. DOMAIN message'[c] = 1 .. n - 1 \cup {n}
      BY <2>8
    <3>3. \A i \in 1 .. n - 1 \cup {n} :
            EntryOf(message'[c][i]) = IF i = n THEN e ELSE LogOf[c][i]
      <4> SUFFICES ASSUME NEW i \in 1 .. n - 1 \cup {n}
                   PROVE  EntryOf(message'[c][i]) = IF i = n THEN e ELSE LogOf[c][i]
        OBVIOUS
      <4>1. CASE i = n
        BY <2>8, <4>1 DEF e
      <4>2. CASE i # n
        <5>1. i \in 1 .. n - 1 /\ message'[c][i] = message[c][i]
          BY <2>8, <4>2
        <5> QED BY <2>6, <4>2, <5>1
      <4> QED BY <4>1, <4>2
    <3> QED BY <3>1, <3>2, <3>3
  <2>10. LogOf'[c] = Log!Extend(LogOf[c], Log!Cardinality(DOMAIN LogOf[c]) + 1, e)
    BY <2>6, <2>7, <2>9 DEF Log!Extend
  <2>11. \A d \in Conversations : d # c => LogOf'[d] = LogOf[d]
    BY <2>2, LogEntries, LogEntriesNext
  <2>12. LogOf' = [LogOf EXCEPT ![c] = Log!Extend(@, Log!Cardinality(DOMAIN @) + 1, e)]
    BY <2>3, <2>10, <2>11, LogEntries, LogEntriesNext
  <2>13. LogOf'[c] # LogOf[c]
    <3>1. n \in DOMAIN LogOf'[c] /\ n \notin DOMAIN LogOf[c]
      BY <2>2, <2>6, <2>9
    <3> QED BY <3>1
  <2>14. \A i \in DOMAIN LogOf[c] : ~ (LogOf[c][i].sender = SenderKind(call) /\ LogOf[c][i].turn = t)
    <3> SUFFICES ASSUME NEW i \in DOMAIN LogOf[c],
                        LogOf[c][i].sender = SenderKind(call), LogOf[c][i].turn = t
                 PROVE  FALSE
      OBVIOUS
    <3>1. i \in Numbers(c) /\ message[c][i] \in Message
      BY <2>2, <2>3, <2>6 DEF StoreInv, MessagesInv
    <3>2. message[c][i].sender = SenderKind(call) /\ message[c][i].client[2] = t
      <4>1. LogOf[c][i] = EntryOf(message[c][i])
        BY <2>2, <2>6, <3>1
      <4> QED BY <4>1, EntryFields
    <3>3. message[c][i].client[1] = "customer" <=> call.client[1] = "customer"
      BY <2>3, <3>1, <3>2 DEF StoreInv, MessagesInv, SenderKind, GoodAppend
    <3>4. message[c][i].client \in Client
      BY <3>1 DEF Message
    <3>5. message[c][i].client = call.client
      BY <2>3, <3>2, <3>3, <3>4, ClientOf
    <3> QED BY <2>1, <2>3, <3>1, <3>5 DEF IsNewMessage, ExistingClientMessage
  <2>15. ~ Log!Has(c, SenderKind(call), t)
    BY <2>14 DEF Log!Has, LogOf
  <2>16. Log!Put(c, SenderKind(call), t, call.text)
    <3>1. LogOf' = [LogOf EXCEPT ![c] =
                      Log!Extend(@, Log!Cardinality(DOMAIN @) + 1,
                                 [sender |-> SenderKind(call), turn |-> t,
                                  text |-> call.text, workflow |-> None])]
      BY <2>5, <2>12
    <3> HIDE DEF c, t
    <3> QED BY <2>15, <3>1 DEF Log!Put, LogOf
  <2>17. Log!Ask(c, t, call.text) \/ Log!Reply(c, t, call.text)
    <3>1. CASE call.op = "accept"
      BY <2>16, <3>1 DEF Log!Ask, SenderKind
    <3>2. CASE call.op = "assistant"
      <4>1. PICK i \in DOMAIN message[c] : message[c][i].client = <<"customer", t>>
        BY <3>2
      <4>2. message[c][i].sender = "END_CUSTOMER" /\ TurnOf(message[c][i]) = t
        <5>1. message[c][i].client[1] = "customer" /\ message[c][i].client[2] = t
          BY <4>1
        <5> QED BY <2>3, <4>1, <5>1 DEF StoreInv, MessagesInv, TurnOf
      <4>3. Log!Has(c, "END_CUSTOMER", t)
        <5>1. /\ i \in DOMAIN LogOf[c] /\ LogOf[c][i].sender = "END_CUSTOMER"
              /\ LogOf[c][i].turn = t
          <6>1. i \in DOMAIN LogOf[c] /\ LogOf[c][i] = EntryOf(message[c][i])
            BY <2>2, <2>3, <2>6, <4>1
          <6> QED BY <4>2, <6>1, EntryFields DEF TurnOf
        <5> QED BY <5>1 DEF Log!Has, LogOf
      <4> QED BY <2>16, <3>2, <4>3 DEF Log!Reply, SenderKind
    <3> QED BY <3>1, <3>2 DEF GoodAppend
  <2> QED BY <2>3, <2>5, <2>13, <2>17 DEF Log!Next, LogOf
<1> QED BY <1>1, <1>2

LEMMA LinkIsLogged ==
    ASSUME StoreInv, NEW call, call.op = "link", call.conv \in Conversations,
           call.workflow \in 1 .. MaxProposals, LinkRefundWorkflow(call)
    PROVE  Log!Next \/ UNCHANGED LogOf
<1> DEFINE c == call.conv
           r == call.reply
           w == call.workflow
<1>1. CASE UNCHANGED message
  BY <1>1, SameLog
<1>2. CASE ~ UNCHANGED message
  <2>1. /\ LinkStatus(call) = 202 /\ FindIdempotencyResult(call) = {}
        /\ message' = [message EXCEPT ![c][r].workflow = w]
    BY <1>2 DEF LinkRefundWorkflow, storeVars
  <2>2. /\ r \in DOMAIN message[c] /\ message[c][r].sender = "ASSISTANT"
        /\ message[c][r].workflow \in {None, w}
    BY <2>1 DEF LinkStatus, LinkableReply
  <2>3. /\ DOMAIN message = Conversations /\ message[c] \in [Numbers(c) -> Message]
        /\ DOMAIN message[c] = Numbers(c) /\ message[c][r] \in Message
        /\ message = [d \in Conversations |-> message[d]]
    BY <2>2 DEF StoreInv, MessagesInv
  <2>4. c \in Conversations /\ w \in 1 .. MaxProposals
    OBVIOUS
  <2> HIDE DEF c, r, w
  <2>5. /\ message'[c] = [message[c] EXCEPT ![r] = [message[c][r] EXCEPT !.workflow = w]]
        /\ \A d \in Conversations : d # c => message'[d] = message[d]
        /\ message' = [d \in Conversations |-> message'[d]]
    BY <2>1, <2>3, <2>4
  <2>6. message[c][r].workflow = None
    <3> SUFFICES ASSUME message[c][r].workflow = w PROVE FALSE
      BY <2>2
    <3>1. [message[c][r] EXCEPT !.workflow = w] = message[c][r]
      BY <2>3 DEF Message
    <3>2. message'[c] = message[c]
      BY <2>2, <2>3, <2>5, <3>1
    <3>3. message' = message
      <4>1. \A d \in Conversations : message'[d] = message[d]
        BY <2>5, <3>2
      <4> QED BY <2>3, <2>5, <4>1
    <3> QED BY <1>2, <3>3
  <2>7. /\ EntryOf([message[c][r] EXCEPT !.workflow = w])
             = [EntryOf(message[c][r]) EXCEPT !.workflow = w]
        /\ EntryOf(message[c][r]).workflow = None
        /\ EntryOf(message[c][r]).sender = "ASSISTANT"
    <3>1. PICK m : m = message[c][r]
      OBVIOUS
    <3>2. /\ [m EXCEPT !.workflow = w].sender = m.sender
          /\ [m EXCEPT !.workflow = w].client = m.client
          /\ [m EXCEPT !.workflow = w].content = m.content
          /\ [m EXCEPT !.workflow = w].workflow = w
      BY <2>3, <3>1 DEF Message
    <3>3. EntryOf([m EXCEPT !.workflow = w])
            = [sender |-> m.sender, turn |-> TurnOf(m),
               text |-> UnprotectMessage(m.content), workflow |-> w]
      BY <3>2 DEF EntryOf, TurnOf, UnprotectMessage
    <3>4. [EntryOf(m) EXCEPT !.workflow = w]
            = [sender |-> m.sender, turn |-> TurnOf(m),
               text |-> UnprotectMessage(m.content), workflow |-> w]
      BY DEF EntryOf
    <3>5. EntryOf(m).workflow = m.workflow /\ EntryOf(m).sender = m.sender
      BY DEF EntryOf
    <3> QED BY <2>2, <2>6, <3>1, <3>3, <3>4, <3>5
  <2>8. /\ DOMAIN message'[c] = DOMAIN message[c]
        /\ message'[c][r] = [message[c][r] EXCEPT !.workflow = w]
        /\ \A i \in DOMAIN message[c] : i # r => message'[c][i] = message[c][i]
    BY <2>2, <2>3, <2>5
  <2>9. /\ LogOf[c] = [i \in DOMAIN message[c] |-> EntryOf(message[c][i])]
        /\ LogOf'[c] = [i \in DOMAIN message[c] |-> EntryOf(message'[c][i])]
    BY <2>4, <2>8, LogEntries, LogEntriesNext
  <2>10. LogOf[c][r] = EntryOf(message[c][r])
    BY <2>2, <2>9
  <2>11. LogOf'[c] = [LogOf[c] EXCEPT ![r] = [LogOf[c][r] EXCEPT !.workflow = w]]
    BY <2>2, <2>7, <2>8, <2>9, <2>10
  <2>12. \A d \in Conversations : d # c => LogOf'[d] = LogOf[d]
    BY <2>5, LogEntries, LogEntriesNext
  <2>13. LogOf' = [LogOf EXCEPT ![c][r].workflow = w]
    BY <2>4, <2>11, <2>12, LogEntries, LogEntriesNext
  <2>14. CASE UNCHANGED LogOf
    BY <2>14
  <2>15. CASE LogOf'[c] # LogOf[c]
    <3>1. /\ r \in DOMAIN LogOf[c]
          /\ LogOf[c][r].sender = "ASSISTANT" /\ LogOf[c][r].workflow = None
      BY <2>2, <2>7, <2>9, <2>10
    <3>2. Log!Link(c, r, w)
      BY <2>13, <3>1 DEF Log!Link, LogOf
    <3> QED BY <2>4, <2>15, <3>1, <3>2 DEF Log!Next, LogOf
  <2>16. LogOf'[c] = LogOf[c] => UNCHANGED LogOf
    BY <2>12, LogEntries, LogEntriesNext
  <2> QED BY <2>14, <2>15, <2>16
<1> QED BY <1>1, <1>2

\* An append of a request in good order.
LEMMA RequestIsLogged ==
    ASSUME TurnsInv, NEW h, GoodRequest(h), h.at \in {"accept", "assistant"},
           AppendMessage(CallOf(h))
    PROVE  Log!Next \/ UNCHANGED LogOf
<1> DEFINE call == CallOf(h)
<1>1. /\ GoodAppend(call) /\ call.conv = h.conv
      /\ h.at = "assistant" => call.client = <<"assistant", h.turn.id>>
      /\ call.op = h.at
  BY AppendCallOf, PointOf DEF GoodRequest, Calling
<1>2. AppendMessage(call)
  OBVIOUS
<1> HIDE DEF call
<1>3. call.op = "assistant" =>
        \E i \in DOMAIN message[call.conv] :
          message[call.conv][i].client = <<"customer", call.client[2]>>
  BY <1>1 DEF GoodRequest, RequestFacts, Accepted
<1> QED BY <1>1, <1>2, <1>3, AppendIsLogged DEF TurnsInv

LEMMA LinkRequestIsLogged ==
    ASSUME TurnsInv, NEW h, GoodRequest(h), h.at = "link", LinkRefundWorkflow(CallOf(h))
    PROVE  Log!Next \/ UNCHANGED LogOf
<1> DEFINE call == CallOf(h)
<1>1. /\ call.op = "link" /\ call.conv \in Conversations
      /\ call.workflow \in 1 .. MaxProposals
  BY LinkCallOf DEF GoodRequest
<1>2. LinkRefundWorkflow(call)
  OBVIOUS
<1> HIDE DEF call
<1> QED BY <1>1, <1>2, LinkIsLogged DEF TurnsInv

LEMMA StepIsLogged == TurnsInv /\ [Next]_vars => [Log!Next]_LogOf
<1> SUFFICES ASSUME TurnsInv, [Next]_vars PROVE Log!Next \/ UNCHANGED LogOf
  OBVIOUS
<1>1. CASE UNCHANGED message
  BY <1>1, SameLog
<1>2. ASSUME NEW p \in Pages
      PROVE  /\ \A form \in Forms : Submit(p, form) => UNCHANGED message
             /\ UpdateDraft(p) \/ LoseAnswer(p) \/ LoadConversation(p) \/ LoadFails(p)
                  => UNCHANGED message
  BY DEF Submit, UpdateDraft, LoseAnswer, LoadConversation, LoadFails, storeVars
<1>3. \A c \in Customers : RestartPortal(c) => UNCHANGED message
  BY DEF RestartPortal, storeVars
<1>4. ASSUME NEW r \in Requests, HandlerStep(r)
      PROVE  Log!Next \/ UNCHANGED LogOf
  <2>1. PICK h : h = handler[r]
    OBVIOUS
  <2>2. CASE AcceptCustomerMessage(r) \/ AppendAssistantMessage(r)
    <3>1. GoodRequest(h) /\ h.at \in {"accept", "assistant"} /\ AppendMessage(CallOf(h))
      BY <2>1, <2>2, RequestOf DEF AcceptCustomerMessage, AppendAssistantMessage
    <3> QED BY <3>1, RequestIsLogged
  <2>3. CASE Link(r)
    <3>1. GoodRequest(h) /\ h.at = "link" /\ LinkRefundWorkflow(CallOf(h))
      BY <2>1, <2>3, RequestOf DEF Link
    <3> QED BY <3>1, LinkRequestIsLogged
  <2>4. CASE Create(r)
    BY <1>1, <2>4 DEF Create, CreateConversation, storeVars
  <2>5. CASE \/ LoadContext(r) \/ IntakeRefund(r) \/ StartRefundWorkflow(r)
             \/ Respond(r) \/ ReadFails(r) \/ GiveUp(r)
    BY <1>1, <2>5 DEF LoadContext, IntakeRefund, StartRefundWorkflow, Respond, ReadFails,
                      GiveUp, storeVars
  <2> QED BY <1>4, <2>2, <2>3, <2>4, <2>5 DEF HandlerStep
<1>5. ASSUME NEW call \in late, CarryOutLate(call)
      PROVE  Log!Next \/ UNCHANGED LogOf
  <2>1. PICK h : GoodRequest(h) /\ h.at \in Calling /\ call = CallOf(h)
    BY DEF TurnsInv, LateInv
  <2>2. call.op = h.at
    BY <2>1, PointOf DEF GoodRequest
  <2>3. CASE LateAppend(call)
    BY <2>1, <2>2, <2>3, RequestIsLogged DEF LateAppend
  <2>4. CASE LateLink(call)
    BY <2>1, <2>2, <2>4, LinkRequestIsLogged DEF LateLink
  <2>5. CASE LateCreate(call) \/ LateStart(call)
    BY <1>1, <2>5 DEF LateCreate, LateStart, CreateConversation, storeVars
  <2> QED BY <1>5, <2>3, <2>4, <2>5 DEF CarryOutLate
<1>6. CASE UNCHANGED vars
  BY <1>1, <1>6 DEF vars
<1> QED BY <1>1, <1>2, <1>3, <1>4, <1>5, <1>6 DEF Next

LEMMA LogBeginsEmpty == Init => Log!Init
<1> SUFFICES ASSUME Init PROVE LogOf = [c \in Conversations |-> << >>]
  BY DEF Log!Init, LogOf
<1>1. \A c \in Conversations : message[c] = << >>
  BY DEF Init, InitStore
<1>2. \A c \in Conversations : LogOf[c] = << >>
  BY <1>1, LogEntries
<1> QED BY <1>2, LogEntries

\* The transcript a customer reads is the abstract log: whatever handlers of
\* a turn run at once, are repeated, given up on or carried out late, a turn
\* puts in one question and at most one reply, in that order; nothing is
\* changed afterwards but for one link (appendMessage, linkRefundWorkflow).
THEOREM TranscriptIsLog == Spec => KeepsLog
<1>1. Spec => [][Log!Next]_LogOf
  BY TurnsInvariant, StepIsLogged, PTL DEF Spec
<1>2. [][Log!Next]_LogOf => [][Log!Next]_([c \in Conversations |-> [n \in DOMAIN message[c] |->
           [sender |-> message[c][n].sender, turn |-> TurnOf(message[c][n]),
            text |-> TextAt(c, n), workflow |-> message[c][n].workflow]]])
  BY PTL DEF LogOf
<1> QED BY <1>1, <1>2, LogBeginsEmpty, PTL DEF KeepsLog, Log!Spec, Spec

-----------------------------------------------------------------------------
(* What a page shows.                                                      *)

\* A message with this sender and text is committed under this number.
Holds(c, n, sender, text) ==
    /\ c \in Conversations /\ n \in DOMAIN message[c]
    /\ message[c][n].sender = sender
    /\ message[c][n].content.ciphertext = text

\* A link that was seen is the one that is stored.
LinkSeen(c, n, w) == w \in {None, message[c][n].workflow}

\* The digest is that of the text, and a key leads to what its request asked
\* for: the text of the message, or the link of the reply.
TruthfulStore ==
    /\ \A c \in Conversations : \A n \in DOMAIN message[c] :
         message[c][n].content.plaintextSha256 = message[c][n].content.ciphertext
    /\ \A k \in idempotencyKey :
         /\ k.op \in {"accept", "assistant"} =>
              message[k.scope][k.result].content.ciphertext = k.hash[2]
         /\ k.op = "link" =>
              /\ k.scope \in Conversations /\ k.hash[1] \in DOMAIN message[k.scope]
              /\ LinkSeen(k.scope, k.hash[1], k.hash[2])

\* The numbers a request was given are those of its question and its reply.
TruthfulRequest(h) ==
    /\ h.at \notin {"create", "accept"} =>
         Holds(h.conv, h.question, "END_CUSTOMER", h.turn.text)
    /\ h.at \in {"start", "link", "respond"} =>
         Holds(h.conv, h.reply, "ASSISTANT", h.answer)
    /\ h.at = "respond" => LinkSeen(h.conv, h.reply, h.workflow)

TrueMessage(m) == /\ Holds(m.conv, m.sequence, m.sender, m.text)
                  /\ LinkSeen(m.conv, m.sequence, m.workflow)

TruthfulPages == \A p \in Pages : \A m \in page[p].shown : TrueMessage(m)

TruthfulHandlers == \A r \in Requests : handler[r] # Idle => TruthfulRequest(handler[r])

ShownInv == TruthfulStore /\ TruthfulHandlers /\ TruthfulPages

\* A committed message keeps its sender and text; a link, once made, stays.
Keeps ==
    \A c \in Conversations : \A n \in DOMAIN message[c] :
      /\ n \in DOMAIN message'[c]
      /\ message'[c][n].sender = message[c][n].sender
      /\ message'[c][n].content = message[c][n].content
      /\ message'[c][n].workflow = message[c][n].workflow \/ message[c][n].workflow = None

LEMMA HoldsStays ==
    ASSUME Keeps, NEW c, NEW n, NEW sender, NEW text, Holds(c, n, sender, text)
    PROVE  /\ Holds(c, n, sender, text)'
           /\ \A w : LinkSeen(c, n, w) => LinkSeen(c, n, w)'
BY DEF Keeps, Holds, LinkSeen

LEMMA RequestStaysTrue ==
    ASSUME Keeps, NEW h, TruthfulRequest(h)
    PROVE  TruthfulRequest(h)'
<1>1. h.at \notin {"create", "accept"} =>
        Holds(h.conv, h.question, "END_CUSTOMER", h.turn.text)'
  BY HoldsStays DEF TruthfulRequest
<1>2. h.at \in {"start", "link", "respond"} => Holds(h.conv, h.reply, "ASSISTANT", h.answer)'
  BY HoldsStays DEF TruthfulRequest
<1>3. h.at = "respond" => LinkSeen(h.conv, h.reply, h.workflow)'
  BY HoldsStays DEF TruthfulRequest
<1> QED BY <1>1, <1>2, <1>3 DEF TruthfulRequest

LEMMA MessageStaysTrue ==
    ASSUME Keeps, NEW m, TrueMessage(m)
    PROVE  TrueMessage(m)'
BY HoldsStays DEF TrueMessage

LEMMA UnchangedKeeps ==
    ASSUME TruthfulStore, UNCHANGED <<message, idempotencyKey>>
    PROVE  TruthfulStore' /\ Keeps
BY DEF TruthfulStore, Keeps, LinkSeen

-----------------------------------------------------------------------------
(* The transactions are truthful.                                          *)

\* A key that is found leads to the message with the text of the request.
LEMMA FoundText ==
    ASSUME StoreInv, TruthfulStore, NEW call, GoodAppend(call),
           FindIdempotencyResult(call) # {}, MatchingRequest(call)
    PROVE  Holds(call.conv, StoredResult(call), SenderKind(call), call.text)
<1> DEFINE k == CHOOSE k \in FindIdempotencyResult(call) : TRUE
<1>1. k \in FindIdempotencyResult(call)
  OBVIOUS
<1> HIDE DEF k
<1>2. k \in idempotencyKey /\ k.op = call.op /\ k.scope = call.conv
  BY <1>1, HashOfAppend DEF FindIdempotencyResult
<1>3. k.hash = <<call.client, call.text>>
  BY <1>1, HashOfAppend DEF MatchingRequest
<1>4. k.hash[2] = call.text
  BY <1>3
<1>5. StoredResult(call) = k.result
  BY DEF StoredResult, k
<1>6. message[call.conv][StoredResult(call)].content.ciphertext = call.text
  BY <1>2, <1>4, <1>5 DEF TruthfulStore, GoodAppend
<1>7. /\ StoredResult(call) \in DOMAIN message[call.conv]
      /\ message[call.conv][StoredResult(call)].client = call.client
  BY FoundKey
<1>8. message[call.conv][StoredResult(call)].sender = SenderKind(call)
  <2>1. StoredResult(call) \in Numbers(call.conv) /\ call.conv \in Conversations
    BY <1>7 DEF StoreInv, MessagesInv, GoodAppend
  <2>2. message[call.conv][StoredResult(call)].sender \in {"END_CUSTOMER", "ASSISTANT"}
    BY <2>1 DEF StoreInv, MessagesInv, Message
  <2> QED BY <1>7, <2>1, <2>2 DEF StoreInv, MessagesInv, GoodAppend, SenderKind
<1> QED BY <1>6, <1>7, <1>8 DEF Holds, GoodAppend

\* The message under the client's id has the text of the request.
LEMMA ExistingText ==
    ASSUME StoreInv, TruthfulStore, NEW call, GoodAppend(call), SameContent(call),
           NEW n \in ExistingClientMessage(call)
    PROVE  Holds(call.conv, n, SenderKind(call), call.text)
<1>1. /\ call.conv \in Conversations /\ n \in DOMAIN message[call.conv]
      /\ n \in Numbers(call.conv) /\ message[call.conv][n].client = call.client
  BY DEF ExistingClientMessage, StoreInv, MessagesInv, GoodAppend
<1>2. message[call.conv][n].content.plaintextSha256 = call.text
  BY DEF SameContent, ProtectMessage
<1>3. message[call.conv][n].content.ciphertext = call.text
  BY <1>1, <1>2 DEF TruthfulStore
<1>4. message[call.conv][n].sender \in {"END_CUSTOMER", "ASSISTANT"}
  BY <1>1 DEF StoreInv, MessagesInv, Message
<1>5. message[call.conv][n].sender = SenderKind(call)
  BY <1>1, <1>4 DEF StoreInv, MessagesInv, GoodAppend, SenderKind
<1> QED BY <1>1, <1>3, <1>5 DEF Holds

\* appendMessage keeps what is committed; the number it answers is that of a
\* message of this sender with this text, whether new or found.
LEMMA AppendTruthful ==
    ASSUME StoreInv, TruthfulStore, NEW call, GoodAppend(call), AppendMessage(call)
    PROVE  /\ TruthfulStore' /\ Keeps
           /\ AppendStatus(call) = 202 =>
                \A at : at = AppendedAt(call) =>
                  Holds(call.conv, at, SenderKind(call), call.text)'
<1> DEFINE c == call.conv
           n == conversation[c].next
           m == NewMessage(call)
<1>1. CASE AppendStatus(call) # 202
  BY <1>1, UnchangedKeeps DEF AppendMessage, storeVars
<1>2. CASE AppendStatus(call) = 202
  <2>1. PICK at : at = AppendedAt(call)
    OBVIOUS
  <2>2. /\ InsertMessage(call)
        /\ \A k \in idempotencyKey' :
             \/ k \in idempotencyKey
             \/ /\ k.op = call.op /\ k.scope = call.conv
                /\ k.hash[2] = call.text /\ k.result = at
    BY <1>2, <2>1, HashOfAppend DEF AppendMessage, InsertIdempotencyResult
  <2>3. /\ Keeps /\ Holds(call.conv, at, SenderKind(call), call.text)'
        /\ \A d \in Conversations : \A i \in DOMAIN message'[d] :
             message'[d][i].content.plaintextSha256 = message'[d][i].content.ciphertext
    <3>1. CASE IsNewMessage(call)
      <4>1. /\ n \in Nat \ {0} /\ Numbers(c) = 1 .. n - 1
            /\ message'[c] = Insert(message[c], n, m)
            /\ \A d \in Conversations : d # c => message'[d] = message[d]
        BY <1>2, <2>2, <3>1, Inserted
      <4>2. /\ m.sender = SenderKind(call) /\ m.content.ciphertext = call.text
            /\ m.content.plaintextSha256 = call.text
        BY DEF NewMessage, ProtectMessage
      <4>3. c \in Conversations /\ DOMAIN message[c] = Numbers(c)
        BY DEF GoodAppend, StoreInv, MessagesInv
      <4>4. at = n
        BY <2>1, <3>1 DEF IsNewMessage, AppendedAt
      <4> HIDE DEF n, m
      <4>5. n \notin DOMAIN message[c]
        BY <4>1, <4>3
      <4>6. /\ DOMAIN message'[c] = DOMAIN message[c] \cup {n}
            /\ message'[c][n] = m
            /\ \A i \in DOMAIN message[c] : message'[c][i] = message[c][i]
        BY <4>1, <4>5 DEF Insert
      <4>7. Keeps
        BY <4>1, <4>3, <4>6 DEF Keeps
      <4>8. Holds(call.conv, at, SenderKind(call), call.text)'
        BY <4>2, <4>3, <4>4, <4>6 DEF Holds, SenderKind
      <4>9. \A d \in Conversations : \A i \in DOMAIN message'[d] :
              message'[d][i].content.plaintextSha256 = message'[d][i].content.ciphertext
        BY <4>1, <4>2, <4>3, <4>6 DEF TruthfulStore
      <4> QED BY <4>7, <4>8, <4>9
    <3>2. CASE ~ IsNewMessage(call)
      <4>1. UNCHANGED message
        BY <2>2, <3>2 DEF InsertMessage
      <4>2. Keeps
        BY <4>1 DEF Keeps
      <4>3. Holds(call.conv, at, SenderKind(call), call.text)
        <5>1. CASE FindIdempotencyResult(call) # {}
          BY <1>2, <2>1, <5>1, FoundText DEF AppendStatus, AppendedAt
        <5>2. CASE FindIdempotencyResult(call) = {}
          <6>1. ExistingClientMessage(call) # {}
            BY <3>2, <5>2 DEF IsNewMessage
          <6>2. at \in ExistingClientMessage(call)
            BY <2>1, <5>2, <6>1 DEF AppendedAt
          <6>3. SameContent(call)
            BY <1>2, <5>2 DEF AppendStatus
          <6> QED BY <6>2, <6>3, ExistingText
        <5> QED BY <5>1, <5>2
      <4> QED BY <4>1, <4>2, <4>3 DEF Holds, SenderKind, TruthfulStore
    <3> QED BY <3>1, <3>2
  <2>4. message'[call.conv][at].content.ciphertext = call.text
    BY <2>3 DEF Holds
  <2>5. TruthfulStore'
    <3> SUFFICES ASSUME NEW k \in idempotencyKey'
                 PROVE  /\ k.op \in {"accept", "assistant"} =>
                             message'[k.scope][k.result].content.ciphertext = k.hash[2]
                        /\ k.op = "link" =>
                             /\ k.scope \in Conversations /\ k.hash[1] \in DOMAIN message'[k.scope]
                             /\ LinkSeen(k.scope, k.hash[1], k.hash[2])'
      BY <2>3 DEF TruthfulStore, LinkSeen
    <3>1. CASE k \in idempotencyKey
      BY <2>3, <3>1 DEF StoreInv, KeysInv, TruthfulStore, Keeps, LinkSeen
    <3>2. CASE /\ k.op = call.op /\ k.scope = call.conv
               /\ k.hash[2] = call.text /\ k.result = at
      BY <2>4, <3>2 DEF GoodAppend
    <3> QED BY <2>2, <3>1, <3>2
  <2> QED BY <2>1, <2>3, <2>5
<1> QED BY <1>1, <1>2

\* createConversation writes no message.
LEMMA CreateTruthful ==
    ASSUME TruthfulStore, NEW call, call.op = "create", NEW id, CreateConversation(call, id)
    PROVE  TruthfulStore' /\ Keeps
<1>1. UNCHANGED message
  BY DEF CreateConversation, storeVars
<1>2. \A k \in idempotencyKey' : k \in idempotencyKey \/ k.op = "create"
  BY DEF CreateConversation, InsertIdempotencyResult, storeVars
<1> QED BY <1>1, <1>2 DEF TruthfulStore, Keeps, LinkSeen

\* linkRefundWorkflow keeps what is committed; when it answers 202, the reply
\* has the link, whether made now or found under the key.
LEMMA LinkTruthful ==
    ASSUME StoreInv, TruthfulStore, NEW call, call.op = "link", call.conv \in Conversations,
           call.workflow \in 1 .. MaxProposals, LinkRefundWorkflow(call)
    PROVE  /\ TruthfulStore' /\ Keeps
           /\ LinkStatus(call) = 202 => LinkSeen(call.conv, call.reply, call.workflow)'
<1> DEFINE c == call.conv
           r == call.reply
<1>1. CASE UNCHANGED storeVars
  <2>1. TruthfulStore' /\ Keeps
    BY <1>1, UnchangedKeeps DEF storeVars
  <2>2. ASSUME LinkStatus(call) = 202, FindIdempotencyResult(call) # {}
        PROVE  LinkSeen(c, r, call.workflow)
    <3>1. PICK k \in FindIdempotencyResult(call) : TRUE
      BY <2>2
    <3>2. k.hash = <<call.reply, call.workflow>>
      BY <2>2, <3>1 DEF LinkStatus, MatchingRequest, HashCanonicalRequest
    <3>3. k \in idempotencyKey /\ k.op = "link" /\ k.scope = c
      BY <3>1 DEF FindIdempotencyResult, ResourceScope
    <3>4. k.hash[1] = call.reply /\ k.hash[2] = call.workflow
      BY <3>2
    <3> QED BY <3>3, <3>4 DEF TruthfulStore
  <2>3. ASSUME LinkStatus(call) = 202, FindIdempotencyResult(call) = {}
        PROVE  LinkSeen(c, r, call.workflow)
    <3>1. InsertIdempotencyResult(call, call.workflow) /\ UNCHANGED idempotencyKey
      BY <1>1, <2>3 DEF LinkRefundWorkflow, storeVars
    <3> DEFINE k == [op |-> call.op, scope |-> ResourceScope(call), key |-> call.key,
                     hash |-> HashCanonicalRequest(call), result |-> call.workflow]
    <3>2. k \in idempotencyKey
      BY <3>1 DEF InsertIdempotencyResult
    <3>3. k \in FindIdempotencyResult(call)
      BY <3>2 DEF FindIdempotencyResult
    <3> QED BY <2>3, <3>3
  <2> QED BY <1>1, <2>1, <2>2, <2>3 DEF LinkSeen, storeVars
<1>2. CASE ~ UNCHANGED storeVars
  <2>1. /\ LinkStatus(call) = 202 /\ FindIdempotencyResult(call) = {}
        /\ message' = [message EXCEPT ![c][r].workflow = call.workflow]
        /\ InsertIdempotencyResult(call, call.workflow)
    BY <1>2 DEF LinkRefundWorkflow
  <2>2. /\ r \in DOMAIN message[c] /\ message[c][r].workflow \in {None, call.workflow}
    BY <2>1 DEF LinkStatus, LinkableReply
  <2>3. /\ DOMAIN message = Conversations /\ message[c] \in [Numbers(c) -> Message]
        /\ message[c][r] \in Message
    BY <2>2 DEF StoreInv, MessagesInv
  <2>4. message'[c] = [message[c] EXCEPT ![r] = [message[c][r] EXCEPT !.workflow = call.workflow]]
    BY <2>1, <2>3
  <2>5. /\ message'[c][r] = [message[c][r] EXCEPT !.workflow = call.workflow]
        /\ DOMAIN message'[c] = DOMAIN message[c]
        /\ \A i \in DOMAIN message[c] : i # r => message'[c][i] = message[c][i]
    BY <2>2, <2>3, <2>4
  <2>6. \A d \in Conversations : d # c => message'[d] = message[d]
    BY <2>1, <2>3
  <2>7. /\ message'[c][r].sender = message[c][r].sender
        /\ message'[c][r].content = message[c][r].content
        /\ message'[c][r].workflow = call.workflow
    BY <2>3, <2>5 DEF Message
  <2>8. Keeps
    BY <2>2, <2>5, <2>6, <2>7 DEF Keeps
  <2>9. \A d \in Conversations :
          /\ DOMAIN message'[d] = DOMAIN message[d]
          /\ \A i \in DOMAIN message[d] : message'[d][i].content = message[d][i].content
    BY <2>5, <2>6, <2>7
  <2>10. LinkSeen(c, r, call.workflow)'
    BY <2>7 DEF LinkSeen
  <2>11. \A k \in idempotencyKey' :
           \/ k \in idempotencyKey
           \/ k.op = "link" /\ k.scope = c /\ k.hash = <<r, call.workflow>>
    BY <2>1 DEF InsertIdempotencyResult, ResourceScope, HashCanonicalRequest
  <2>12. TruthfulStore'
    <3> SUFFICES ASSUME NEW k \in idempotencyKey'
                 PROVE  /\ k.op \in {"accept", "assistant"} =>
                             message'[k.scope][k.result].content.ciphertext = k.hash[2]
                        /\ k.op = "link" =>
                             /\ k.scope \in Conversations /\ k.hash[1] \in DOMAIN message'[k.scope]
                             /\ LinkSeen(k.scope, k.hash[1], k.hash[2])'
      BY <2>9 DEF TruthfulStore, LinkSeen
    <3>1. CASE k \in idempotencyKey
      BY <2>8, <3>1 DEF StoreInv, KeysInv, TruthfulStore, Keeps, LinkSeen
    <3>2. CASE k.op = "link" /\ k.scope = c /\ k.hash = <<r, call.workflow>>
      <4>1. k.hash[1] = r /\ k.hash[2] = call.workflow
        BY <3>2
      <4> QED BY <2>2, <2>5, <2>7, <3>2, <4>1 DEF LinkSeen
    <3> QED BY <2>11, <3>1, <3>2
  <2> QED BY <2>8, <2>10, <2>12 DEF LinkSeen
<1> QED BY <1>1, <1>2

-----------------------------------------------------------------------------
(* Every step shows only what is committed.                                *)

LEMMA HandlerBecomesTrue ==
    ASSUME HandlersInv, TruthfulHandlers, Keeps, NEW r \in Requests, NEW k,
           handler' = [handler EXCEPT ![r] = k], k = Idle \/ TruthfulRequest(k)'
    PROVE  TruthfulHandlers'
<1>1. /\ handler'[r] = k
      /\ \A s \in Requests : s # r => handler'[s] = handler[s]
  BY DEF HandlersInv
<1> SUFFICES ASSUME NEW s \in Requests, handler'[s] # Idle
             PROVE  TruthfulRequest(handler[s])'
  BY DEF TruthfulHandlers
<1>2. PICK g : g = handler'[s]
  OBVIOUS
<1>3. TruthfulRequest(g)'
  <2>1. CASE s = r
    BY <1>1, <1>2, <2>1
  <2>2. CASE s # r
    BY <1>1, <1>2, <2>2, RequestStaysTrue DEF TruthfulHandlers
  <2> QED BY <2>1, <2>2
<1> QED BY <1>2, <1>3 DEF TruthfulRequest, Holds, LinkSeen

LEMMA HandlersStayTrue ==
    ASSUME TruthfulHandlers, Keeps, UNCHANGED handler
    PROVE  TruthfulHandlers'
<1> SUFFICES ASSUME NEW s \in Requests, handler'[s] # Idle
             PROVE  TruthfulRequest(handler[s])'
  BY DEF TruthfulHandlers
<1>1. PICK g : g = handler[s]
  OBVIOUS
<1>2. g = handler'[s] /\ TruthfulRequest(g)'
  BY <1>1, RequestStaysTrue DEF TruthfulHandlers
<1> QED BY <1>2 DEF TruthfulRequest, Holds, LinkSeen

\* A page shows what it has shown, or messages that are committed.
LEMMA PagesStayTrue ==
    ASSUME TruthfulPages, Keeps,
           \A p \in Pages : \A m \in page'[p].shown : m \in page[p].shown \/ TrueMessage(m)
    PROVE  TruthfulPages'
<1> SUFFICES ASSUME NEW p \in Pages, NEW m \in page'[p].shown PROVE TrueMessage(m)'
  BY DEF TruthfulPages
<1>1. TrueMessage(m)
  BY DEF TruthfulPages
<1> QED BY <1>1, MessageStaysTrue

LEMMA FailShows ==
    ASSUME PagesInv, NEW r \in Requests, Fail(r)
    PROVE  \A p \in Pages : page'[p].shown = page[p].shown
BY DEF Fail, PagesInv

LEMMA SubmitShows ==
    ASSUME TurnsInv, ShownInv, NEW p \in Pages, NEW form \in Forms, Submit(p, form)
    PROVE  ShownInv'
<1> DEFINE turn == IF CanRetryPendingTurn(p, form) THEN page[p].pending
                   ELSE [id |-> turns + 1, text |-> form.text, order |-> form.order]
           r == CHOOSE s \in Requests : handler[s] = Idle
<1>1. PICK s \in Requests : s = r
  BY DEF Submit
<1>2. PICK k : k = NewRequest(p, turn, page[p].conv)
  OBVIOUS
<1>3. /\ handler' = [handler EXCEPT ![s] = k]
      /\ page' = [page EXCEPT ![p].pending = turn, ![p].request = s]
      /\ UNCHANGED storeVars
  BY <1>1, <1>2 DEF Submit
<1>4. k.at \in {"create", "accept"}
  BY <1>2 DEF NewRequest
<1>5. TruthfulRequest(k)'
  BY <1>4 DEF TruthfulRequest
<1>6. TruthfulStore' /\ Keeps
  BY <1>3, UnchangedKeeps DEF ShownInv, storeVars
<1>7. TruthfulHandlers'
  BY <1>3, <1>5, <1>6, HandlerBecomesTrue DEF TurnsInv, ShownInv
<1> HIDE DEF turn
<1>8. \A q \in Pages : page'[q].shown = page[q].shown
  BY <1>3 DEF TurnsInv, PagesInv
<1>9. TruthfulPages'
  BY <1>6, <1>8, PagesStayTrue DEF ShownInv
<1> QED BY <1>6, <1>7, <1>9 DEF ShownInv

\* What the runtime reads out is what is committed.
LEMMA ReadIsTrue ==
    ASSUME NEW c \in Conversations, NEW m \in ReadConversation(c)
    PROVE  TrueMessage(m)
BY DEF ReadConversation, UnprotectMessage, TrueMessage, Holds, LinkSeen

LEMMA PageActionsShow ==
    ASSUME TurnsInv, ShownInv, NEW p \in Pages,
           UpdateDraft(p) \/ LoseAnswer(p) \/ LoadConversation(p) \/ LoadFails(p)
    PROVE  ShownInv'
<1>1. UNCHANGED <<storeVars, handler>>
  BY DEF UpdateDraft, LoseAnswer, LoadConversation, LoadFails
<1>2. TruthfulStore' /\ Keeps
  BY <1>1, UnchangedKeeps DEF ShownInv, storeVars
<1>3. \A q \in Pages : \A m \in page'[q].shown : m \in page[q].shown \/ TrueMessage(m)
  <2>1. CASE UpdateDraft(p) \/ LoseAnswer(p)
    BY <2>1 DEF UpdateDraft, LoseAnswer, TurnsInv, PagesInv
  <2>2. CASE LoadFails(p)
    BY <2>2 DEF LoadFails, FreshPage, TurnsInv, PagesInv
  <2>3. CASE LoadConversation(p)
    <3>1. PICK c : c = page[p].conv
      OBVIOUS
    <3>2. PICK loaded : loaded = GetConversation(ReadCall(c, customer))
      OBVIOUS
    <3>3. /\ c \in Conversations
          /\ page' = [page EXCEPT ![p] = IF loaded = None THEN FreshPage(None)
                                         ELSE [FreshPage(c) EXCEPT !.shown = loaded]]
      BY <2>3, <3>1, <3>2 DEF LoadConversation, TurnsInv, PagesInv
    <3>4. loaded # None => loaded = ReadConversation(c)
      BY <3>2 DEF GetConversation, ReadCall
    <3>5. /\ loaded = None => page'[p].shown = {}
          /\ loaded # None => page'[p].shown = loaded
          /\ \A q \in Pages : q # p => page'[q] = page[q]
      BY <3>3 DEF FreshPage, TurnsInv, PagesInv
    <3>6. \A m \in page'[p].shown : TrueMessage(m)
      BY <3>3, <3>4, <3>5, ReadIsTrue
    <3> QED BY <3>5, <3>6
  <2> QED BY <2>1, <2>2, <2>3
<1>4. TruthfulPages'
  BY <1>2, <1>3, PagesStayTrue DEF ShownInv
<1> QED BY <1>1, <1>2, <1>4, HandlersStayTrue DEF ShownInv

LEMMA RestartShows ==
    ASSUME TurnsInv, ShownInv, NEW c \in Customers, RestartPortal(c)
    PROVE  ShownInv'
<1>1. UNCHANGED <<storeVars, handler>>
  BY DEF RestartPortal
<1>2. TruthfulStore' /\ Keeps
  BY <1>1, UnchangedKeeps DEF ShownInv, storeVars
<1>3. \A q \in Pages : page'[q].shown = page[q].shown
  BY DEF RestartPortal, TurnsInv, PagesInv
<1> QED BY <1>1, <1>2, <1>3, PagesStayTrue, HandlersStayTrue DEF ShownInv

\* The answer of a turn is its question and its reply as they are committed.
LEMMA RespondShows == ASSUME TurnsInv, ShownInv, NEW r \in Requests, Respond(r) PROVE ShownInv'
<1>1. PICK h : h = handler[r]
  OBVIOUS
<1>2. h.at = "respond" /\ h.page \in Pages /\ TruthfulRequest(h)
  BY <1>1, RequestOf DEF Respond, GoodRequest, RequestShape, ShownInv, TruthfulHandlers
<1>3. UNCHANGED storeVars /\ handler' = [handler EXCEPT ![r] = Idle]
  BY DEF Respond
<1>4. TruthfulStore' /\ Keeps
  BY <1>3, UnchangedKeeps DEF ShownInv, storeVars
<1>5. TruthfulHandlers'
  BY <1>3, <1>4, HandlerBecomesTrue DEF TurnsInv, ShownInv
<1> DEFINE a1 == [conv |-> h.conv, sequence |-> h.question, sender |-> "END_CUSTOMER",
                  text |-> h.turn.text, workflow |-> None]
           a2 == [conv |-> h.conv, sequence |-> h.reply, sender |-> "ASSISTANT",
                  text |-> h.answer, workflow |-> h.workflow]
<1>6. TrueMessage(a1)
  BY <1>2 DEF TruthfulRequest, TrueMessage, LinkSeen
<1>7. TrueMessage(a2)
  BY <1>2 DEF TruthfulRequest, TrueMessage
<1>8. PICK new : new = {a1, a2}
  OBVIOUS
<1>9. \/ UNCHANGED page
      \/ page' = [page EXCEPT ![h.page].request = None, ![h.page].pending = None,
                              ![h.page].shown = MergeMessages(@, new)]
  BY <1>1, <1>8 DEF Respond
<1>10. \A m \in new : TrueMessage(m)
  BY <1>6, <1>7, <1>8
<1>11. \A q \in Pages : \A m \in page'[q].shown : m \in page[q].shown \/ TrueMessage(m)
  <2>1. CASE UNCHANGED page
    BY <2>1
  <2>2. CASE page' = [page EXCEPT ![h.page].request = None, ![h.page].pending = None,
                                  ![h.page].shown = MergeMessages(@, new)]
    <3>1. /\ page'[h.page].shown = MergeMessages(page[h.page].shown, new)
          /\ \A q \in Pages : q # h.page => page'[q] = page[q]
      <4>1. PICK shown : shown = MergeMessages(page[h.page].shown, new)
        OBVIOUS
      <4>2. /\ page = [q \in Pages |-> page[q]]
            /\ page[h.page] = [conv |-> page[h.page].conv, pending |-> page[h.page].pending,
                               request |-> page[h.page].request, shown |-> page[h.page].shown]
        BY <1>2 DEF TurnsInv, PagesInv
      <4>3. page' = [page EXCEPT ![h.page] = [page[h.page] EXCEPT !.request = None,
                                                !.pending = None, !.shown = shown]]
        BY <1>2, <2>2, <4>1, <4>2
      <4> QED BY <1>2, <4>1, <4>2, <4>3
    <3>2. \A m \in MergeMessages(page[h.page].shown, new) : m \in new \/ m \in page[h.page].shown
      BY DEF MergeMessages
    <3> QED BY <1>10, <3>1, <3>2
  <2> QED BY <1>9, <2>1, <2>2
<1>12. TruthfulPages'
  BY <1>4, <1>11, PagesStayTrue DEF ShownInv
<1> QED BY <1>4, <1>5, <1>12 DEF ShownInv

\* The sender and the text an append of a request is for.
LEMMA TextOfCall ==
    ASSUME NEW h, RequestShape(h), h.at \in {"accept", "assistant"}
    PROVE  /\ h.at = "accept" => /\ CallOf(h).text = h.turn.text
                                 /\ SenderKind(CallOf(h)) = "END_CUSTOMER"
           /\ h.at = "assistant" => /\ CallOf(h).text = h.answer
                                    /\ SenderKind(CallOf(h)) = "ASSISTANT"
<1>1. CASE h.at = "accept"
  BY <1>1 DEF CallOf, AcceptCall, SenderKind
<1>2. CASE h.at = "assistant"
  BY <1>2 DEF CallOf, AssistantCall, SenderKind
<1> QED BY <1>1, <1>2

\* A step of one request that leaves the pages alone, or fails.
LEMMA RequestStepShows ==
    ASSUME TurnsInv, ShownInv, NEW r \in Requests, TruthfulStore', Keeps,
           \/ Fail(r)
           \/ \E k : /\ handler' = [handler EXCEPT ![r] = k] /\ UNCHANGED page
                     /\ k = Idle \/ TruthfulRequest(k)'
    PROVE  ShownInv'
<1>1. TruthfulHandlers'
  BY HandlerBecomesTrue DEF Fail, TurnsInv, ShownInv
<1>2. \A q \in Pages : page'[q].shown = page[q].shown
  BY FailShows DEF TurnsInv
<1>3. TruthfulPages'
  BY <1>2, PagesStayTrue DEF ShownInv
<1> QED BY <1>1, <1>3 DEF ShownInv

LEMMA CreateShows == ASSUME TurnsInv, ShownInv, NEW r \in Requests, Create(r) PROVE ShownInv'
<1>1. PICK h : h = handler[r]
  OBVIOUS
<1>2. GoodRequest(h) /\ h.at = "create" /\ h.page \in Pages
  BY <1>1, RequestOf DEF Create, GoodRequest, RequestShape
<1>3. PICK call : call = CallOf(h)
  OBVIOUS
<1>4. call.op = "create"
  BY <1>2, <1>3, CreateCallOf DEF GoodRequest
<1>5. \E id : CreateConversation(call, id)
  BY <1>1, <1>3 DEF Create
<1>6. TruthfulStore' /\ Keeps
  BY <1>4, <1>5, CreateTruthful DEF ShownInv
<1>7. PICK k, conv : /\ handler' = [handler EXCEPT ![r] = k]
                     /\ k = Idle \/ k = NewRequest(h.page, h.turn, conv)
                     /\ UNCHANGED page \/ page' = [page EXCEPT ![h.page].conv = conv]
  BY <1>1 DEF Create
<1>8. k = Idle \/ TruthfulRequest(k)'
  <2>1. NewRequest(h.page, h.turn, conv).at \in {"create", "accept"}
    BY DEF NewRequest
  <2> QED BY <1>7, <2>1 DEF TruthfulRequest
<1>9. TruthfulHandlers'
  BY <1>6, <1>7, <1>8, HandlerBecomesTrue DEF TurnsInv, ShownInv
<1>10. \A q \in Pages : page'[q].shown = page[q].shown
  BY <1>2, <1>7 DEF TurnsInv, PagesInv
<1>11. TruthfulPages'
  BY <1>6, <1>10, PagesStayTrue DEF ShownInv
<1> QED BY <1>6, <1>9, <1>11 DEF ShownInv

LEMMA AcceptShows ==
    ASSUME TurnsInv, ShownInv, NEW r \in Requests, AcceptCustomerMessage(r)
    PROVE  ShownInv'
<1>1. PICK h : h = handler[r]
  OBVIOUS
<1>2. RequestShape(h) /\ h.at = "accept"
  BY <1>1, RequestOf DEF AcceptCustomerMessage, GoodRequest
<1>3. PICK call : call = CallOf(h)
  OBVIOUS
<1>4. /\ GoodAppend(call) /\ call.conv = h.conv
      /\ call.text = h.turn.text /\ SenderKind(call) = "END_CUSTOMER"
  BY <1>2, <1>3, AppendCallOf, TextOfCall
<1>5. PICK n : n = AppendedAt(call)
  OBVIOUS
<1>6. /\ AppendMessage(call)
      /\ AppendStatus(call) = 202 =>
           /\ handler' = [handler EXCEPT ![r] = [h EXCEPT !.at = "context", !.question = n]]
           /\ UNCHANGED page
      /\ AppendStatus(call) # 202 => Fail(r)
  BY <1>1, <1>3, <1>5 DEF AcceptCustomerMessage, TurnsInv, HandlersInv
<1>7. /\ TruthfulStore' /\ Keeps
      /\ AppendStatus(call) = 202 => Holds(h.conv, n, "END_CUSTOMER", h.turn.text)'
  BY <1>4, <1>5, <1>6, AppendTruthful DEF TurnsInv, ShownInv
<1>8. CASE AppendStatus(call) # 202
  BY <1>6, <1>7, <1>8, RequestStepShows
<1>9. CASE AppendStatus(call) = 202
  <2>1. PICK g : g = [h EXCEPT !.at = "context", !.question = n]
    OBVIOUS
  <2>2. g.at = "context" /\ g.question = n /\ g.conv = h.conv /\ g.turn = h.turn
    BY <1>2, <2>1 DEF RequestShape
  <2>3. TruthfulRequest(g)'
    BY <1>7, <1>9, <2>2 DEF TruthfulRequest
  <2> QED BY <1>6, <1>7, <1>9, <2>1, <2>3, RequestStepShows
<1> QED BY <1>8, <1>9

\* Reading the transcript and asking the agent change no number of a request.
LEMMA ReadingShows ==
    ASSUME TurnsInv, ShownInv, NEW r \in Requests, LoadContext(r) \/ IntakeRefund(r)
    PROVE  ShownInv'
<1>1. PICK h : h = handler[r]
  OBVIOUS
<1>2. RequestShape(h) /\ h.at \in {"context", "agent"} /\ TruthfulRequest(h)
  BY <1>1, RequestOf DEF LoadContext, IntakeRefund, GoodRequest, ShownInv, TruthfulHandlers
<1>3. TruthfulStore' /\ Keeps
  BY UnchangedKeeps DEF LoadContext, IntakeRefund, ShownInv, storeVars
<1>4. \/ Fail(r)
      \/ \E o : /\ handler' = [handler EXCEPT ![r] = [h EXCEPT !.at = "agent", !.order = o]]
                /\ UNCHANGED page
      \/ \E x, w : /\ handler' = [handler EXCEPT ![r] = [h EXCEPT !.at = "assistant",
                                                           !.answer = x, !.workflow = w]]
                   /\ UNCHANGED page
  <2>1. CASE LoadContext(r)
    BY <1>1, <2>1 DEF LoadContext, TurnsInv, HandlersInv
  <2>2. CASE IntakeRefund(r)
    <3>1. PICK x \in AgentResponses(h.order) :
            handler' = [handler EXCEPT ![r] = [h EXCEPT !.at = "assistant", !.answer = x.answer,
                                                          !.workflow = x.workflow]]
      BY <1>1, <2>2 DEF IntakeRefund, TurnsInv, HandlersInv
    <3> QED BY <2>2, <3>1 DEF IntakeRefund
  <2> QED BY <2>1, <2>2
<1>5. ASSUME NEW g, g.at \in {"agent", "assistant"}, g.conv = h.conv,
             g.question = h.question, g.turn = h.turn
      PROVE  TruthfulRequest(g)'
  <2>1. Holds(g.conv, g.question, "END_CUSTOMER", g.turn.text)
    BY <1>2, <1>5 DEF TruthfulRequest
  <2>2. Holds(g.conv, g.question, "END_CUSTOMER", g.turn.text)'
    BY <1>3, <2>1, HoldsStays
  <2> QED BY <1>5, <2>2 DEF TruthfulRequest
<1>6. CASE Fail(r)
  BY <1>3, <1>6, RequestStepShows
<1>7. ASSUME NEW o, handler' = [handler EXCEPT ![r] = [h EXCEPT !.at = "agent", !.order = o]],
             UNCHANGED page
      PROVE  ShownInv'
  <2>1. PICK g : g = [h EXCEPT !.at = "agent", !.order = o]
    OBVIOUS
  <2>2. /\ g.at \in {"agent", "assistant"} /\ g.conv = h.conv
        /\ g.question = h.question /\ g.turn = h.turn
    BY <1>2, <2>1 DEF RequestShape
  <2>3. TruthfulRequest(g)'
    BY <1>5, <2>2
  <2> QED BY <1>3, <1>7, <2>1, <2>3, RequestStepShows
<1>8. ASSUME NEW x, NEW w, UNCHANGED page,
             handler' = [handler EXCEPT ![r] = [h EXCEPT !.at = "assistant",
                                                  !.answer = x, !.workflow = w]]
      PROVE  ShownInv'
  <2>1. PICK g : g = [h EXCEPT !.at = "assistant", !.answer = x, !.workflow = w]
    OBVIOUS
  <2>2. /\ g.at \in {"agent", "assistant"} /\ g.conv = h.conv
        /\ g.question = h.question /\ g.turn = h.turn
    BY <1>2, <2>1 DEF RequestShape
  <2>3. TruthfulRequest(g)'
    BY <1>5, <2>2
  <2> QED BY <1>3, <1>8, <2>1, <2>3, RequestStepShows
<1> QED BY <1>4, <1>6, <1>7, <1>8

LEMMA ReplyShows ==
    ASSUME TurnsInv, ShownInv, NEW r \in Requests, AppendAssistantMessage(r)
    PROVE  ShownInv'
<1>1. PICK h : h = handler[r]
  OBVIOUS
<1>2. RequestShape(h) /\ h.at = "assistant" /\ TruthfulRequest(h)
  BY <1>1, RequestOf DEF AppendAssistantMessage, GoodRequest, ShownInv, TruthfulHandlers
<1>3. PICK call : call = CallOf(h)
  OBVIOUS
<1>4. /\ GoodAppend(call) /\ call.conv = h.conv
      /\ call.text = h.answer /\ SenderKind(call) = "ASSISTANT"
  BY <1>2, <1>3, AppendCallOf, TextOfCall
<1>5. PICK n : n = AppendedAt(call)
  OBVIOUS
<1>6. PICK at : at = IF h.workflow = None THEN "respond" ELSE "start"
  OBVIOUS
<1>7. /\ AppendMessage(call)
      /\ AppendStatus(call) = 202 =>
           /\ handler' = [handler EXCEPT ![r] = [h EXCEPT !.at = at, !.reply = n]]
           /\ UNCHANGED page
      /\ AppendStatus(call) # 202 => Fail(r)
  BY <1>1, <1>3, <1>5, <1>6 DEF AppendAssistantMessage, TurnsInv, HandlersInv
<1>8. /\ TruthfulStore' /\ Keeps
      /\ AppendStatus(call) = 202 => Holds(h.conv, n, "ASSISTANT", h.answer)'
  BY <1>4, <1>5, <1>7, AppendTruthful DEF TurnsInv, ShownInv
<1>9. CASE AppendStatus(call) # 202
  BY <1>7, <1>8, <1>9, RequestStepShows
<1>10. CASE AppendStatus(call) = 202
  <2>1. PICK g : g = [h EXCEPT !.at = at, !.reply = n]
    OBVIOUS
  <2>2. /\ g.at \in {"respond", "start"} /\ g.reply = n /\ g.question = h.question
        /\ g.conv = h.conv /\ g.turn = h.turn /\ g.answer = h.answer
        /\ g.at = "respond" => g.workflow = None
    BY <1>2, <1>6, <2>1 DEF RequestShape
  <2>3. Holds(h.conv, h.question, "END_CUSTOMER", h.turn.text)'
    BY <1>2, <1>8, HoldsStays DEF TruthfulRequest
  <2>4. TruthfulRequest(g)'
    BY <1>8, <1>10, <2>2, <2>3 DEF TruthfulRequest, LinkSeen
  <2> QED BY <1>7, <1>8, <1>10, <2>1, <2>4, RequestStepShows
<1> QED BY <1>9, <1>10

LEMMA StartShows ==
    ASSUME TurnsInv, ShownInv, NEW r \in Requests, StartRefundWorkflow(r)
    PROVE  ShownInv'
<1>1. PICK h : h = handler[r]
  OBVIOUS
<1>2. RequestShape(h) /\ h.at = "start" /\ TruthfulRequest(h)
  BY <1>1, RequestOf DEF StartRefundWorkflow, GoodRequest, ShownInv, TruthfulHandlers
<1>3. TruthfulStore' /\ Keeps
  BY UnchangedKeeps DEF StartRefundWorkflow, ShownInv, storeVars
<1>4. PICK g : g = [h EXCEPT !.at = "link"]
  OBVIOUS
<1>5. handler' = [handler EXCEPT ![r] = g] /\ UNCHANGED page
  BY <1>1, <1>4 DEF StartRefundWorkflow, TurnsInv, HandlersInv
<1>6. /\ g.at = "link" /\ g.reply = h.reply /\ g.question = h.question
      /\ g.conv = h.conv /\ g.turn = h.turn /\ g.answer = h.answer
  BY <1>2, <1>4 DEF RequestShape
<1>7. TruthfulRequest(h)'
  BY <1>2, <1>3, RequestStaysTrue
<1>8. TruthfulRequest(g)'
  BY <1>2, <1>6, <1>7 DEF TruthfulRequest
<1> QED BY <1>3, <1>5, <1>8, RequestStepShows

LEMMA LinkShows == ASSUME TurnsInv, ShownInv, NEW r \in Requests, Link(r) PROVE ShownInv'
<1>1. PICK h : h = handler[r]
  OBVIOUS
<1>2. RequestShape(h) /\ h.at = "link" /\ TruthfulRequest(h)
  BY <1>1, RequestOf DEF Link, GoodRequest, ShownInv, TruthfulHandlers
<1>3. PICK call : call = CallOf(h)
  OBVIOUS
<1>4. /\ call.op = "link" /\ call.conv = h.conv /\ call.conv \in Conversations
      /\ call.reply = h.reply /\ call.workflow = h.workflow
      /\ call.workflow \in 1 .. MaxProposals
  BY <1>2, <1>3, LinkCallOf
<1>5. PICK g : g = [h EXCEPT !.at = "respond"]
  OBVIOUS
<1>6. /\ LinkRefundWorkflow(call)
      /\ LinkStatus(call) = 202 => handler' = [handler EXCEPT ![r] = g] /\ UNCHANGED page
      /\ LinkStatus(call) # 202 => Fail(r)
  BY <1>1, <1>3, <1>5 DEF Link, TurnsInv, HandlersInv
<1>7. /\ TruthfulStore' /\ Keeps
      /\ LinkStatus(call) = 202 => LinkSeen(h.conv, h.reply, h.workflow)'
  BY <1>4, <1>6, LinkTruthful DEF TurnsInv, ShownInv
<1>8. CASE LinkStatus(call) # 202
  BY <1>6, <1>7, <1>8, RequestStepShows
<1>9. CASE LinkStatus(call) = 202
  <2>1. /\ g.at = "respond" /\ g.reply = h.reply /\ g.question = h.question
        /\ g.conv = h.conv /\ g.turn = h.turn /\ g.answer = h.answer
        /\ g.workflow = h.workflow
    BY <1>2, <1>5 DEF RequestShape
  <2>2. TruthfulRequest(h)'
    BY <1>2, <1>7, RequestStaysTrue
  <2>3. TruthfulRequest(g)'
    BY <1>2, <1>7, <1>9, <2>1, <2>2 DEF TruthfulRequest
  <2> QED BY <1>6, <1>7, <1>9, <2>3, RequestStepShows
<1> QED BY <1>8, <1>9

LEMMA FailingShows ==
    ASSUME TurnsInv, ShownInv, NEW r \in Requests, ReadFails(r) \/ GiveUp(r)
    PROVE  ShownInv'
<1>1. UNCHANGED storeVars /\ Fail(r)
  BY DEF ReadFails, GiveUp
<1>2. TruthfulStore' /\ Keeps
  BY <1>1, UnchangedKeeps DEF ShownInv, storeVars
<1> QED BY <1>1, <1>2, RequestStepShows

LEMMA LateShows == ASSUME TurnsInv, ShownInv, NEW call \in late, CarryOutLate(call) PROVE ShownInv'
<1>1. PICK h : GoodRequest(h) /\ h.at \in Calling /\ call = CallOf(h)
  BY DEF TurnsInv, LateInv
<1>2. RequestShape(h) /\ call.op = h.at
  BY <1>1, PointOf DEF GoodRequest
<1>3. TruthfulStore' /\ Keeps
  <2>1. CASE LateCreate(call)
    BY <2>1, CreateTruthful DEF LateCreate, ShownInv
  <2>2. CASE LateAppend(call)
    <3>1. GoodAppend(call) /\ AppendMessage(call)
      BY <1>1, <1>2, <2>2, AppendCallOf DEF LateAppend
    <3> QED BY <3>1, AppendTruthful DEF TurnsInv, ShownInv
  <2>3. CASE LateStart(call)
    BY <2>3, UnchangedKeeps DEF LateStart, ShownInv, storeVars
  <2>4. CASE LateLink(call)
    <3>1. /\ call.op = "link" /\ call.conv \in Conversations
          /\ call.workflow \in 1 .. MaxProposals /\ LinkRefundWorkflow(call)
      BY <1>1, <1>2, <2>4, LinkCallOf DEF LateLink
    <3> QED BY <3>1, LinkTruthful DEF TurnsInv, ShownInv
  <2> QED BY <2>1, <2>2, <2>3, <2>4 DEF CarryOutLate
<1>4. UNCHANGED <<page, handler>>
  BY DEF CarryOutLate
<1>5. TruthfulPages'
  BY <1>3, <1>4, PagesStayTrue DEF ShownInv
<1> QED BY <1>3, <1>4, <1>5, HandlersStayTrue DEF ShownInv

LEMMA StepShows == TurnsInv /\ ShownInv /\ [Next]_vars => ShownInv'
<1> SUFFICES ASSUME TurnsInv, ShownInv, [Next]_vars PROVE ShownInv'
  OBVIOUS
<1>1. ASSUME NEW p \in Pages, NEW form \in Forms, Submit(p, form) PROVE ShownInv'
  BY <1>1, SubmitShows
<1>2. ASSUME NEW p \in Pages,
             UpdateDraft(p) \/ LoseAnswer(p) \/ LoadConversation(p) \/ LoadFails(p)
      PROVE  ShownInv'
  BY <1>2, PageActionsShow
<1>3. ASSUME NEW c \in Customers, RestartPortal(c) PROVE ShownInv'
  BY <1>3, RestartShows
<1>4. ASSUME NEW r \in Requests, HandlerStep(r) PROVE ShownInv'
  BY <1>4, CreateShows, AcceptShows, ReadingShows, ReplyShows, StartShows, LinkShows,
     RespondShows, FailingShows DEF HandlerStep
<1>5. ASSUME NEW call \in late, CarryOutLate(call) PROVE ShownInv'
  BY <1>5, LateShows
<1>6. CASE UNCHANGED vars
  <2>1. UNCHANGED <<message, idempotencyKey, page, handler>>
    BY <1>6 DEF vars
  <2>2. TruthfulStore' /\ Keeps
    BY <2>1, UnchangedKeeps DEF ShownInv
  <2>3. TruthfulPages'
    BY <2>1, <2>2, PagesStayTrue DEF ShownInv
  <2> QED BY <2>1, <2>2, <2>3, HandlersStayTrue DEF ShownInv
<1> QED BY <1>1, <1>2, <1>3, <1>4, <1>5, <1>6 DEF Next

LEMMA InitShows == Init => ShownInv
<1> SUFFICES ASSUME Init PROVE ShownInv
  OBVIOUS
<1>1. TruthfulStore
  <2>1. idempotencyKey = {} /\ \A c \in Conversations : message[c] = << >>
    BY DEF Init, InitStore
  <2>2. DOMAIN << >> = {}
    OBVIOUS
  <2> QED BY <2>1, <2>2 DEF TruthfulStore
<1>2. TruthfulHandlers /\ TruthfulPages
  BY DEF Init, TruthfulHandlers, TruthfulPages, FreshPage
<1> QED BY <1>1, <1>2 DEF ShownInv

\* A page never shows a message that the conversation runtime does not hold
\* under that number with that sender and text, nor a link that is not stored,
\* whether it loaded the transcript or put a turn's answer together from the
\* numbers that repeated, late or idempotently answered appends returned.
THEOREM ShownIsPersistedHolds == Spec => []ShownIsPersisted
<1>1. Spec => []ShownInv
  BY TurnsInvariant, InitShows, StepShows, PTL DEF Spec
<1>2. ShownInv => ShownIsPersisted
  <2> SUFFICES ASSUME ShownInv, NEW p \in Pages, NEW m \in page[p].shown
               PROVE  \E n \in ReadConversation(m.conv) :
                         /\ n.sequence = m.sequence /\ n.sender = m.sender
                         /\ n.text = m.text /\ m.workflow \in {None, n.workflow}
    BY DEF ShownIsPersisted
  <2>1. Holds(m.conv, m.sequence, m.sender, m.text) /\ LinkSeen(m.conv, m.sequence, m.workflow)
    BY DEF ShownInv, TruthfulPages, TrueMessage
  <2> DEFINE n == [conv |-> m.conv, sequence |-> m.sequence,
                   sender |-> message[m.conv][m.sequence].sender,
                   text |-> UnprotectMessage(message[m.conv][m.sequence].content),
                   workflow |-> message[m.conv][m.sequence].workflow]
  <2>2. n \in ReadConversation(m.conv)
    BY <2>1 DEF ReadConversation, Holds
  <2>3. /\ n.sequence = m.sequence /\ n.sender = m.sender /\ n.text = m.text
        /\ m.workflow \in {None, n.workflow}
    BY <2>1 DEF Holds, LinkSeen, UnprotectMessage
  <2> HIDE DEF n
  <2> QED BY <2>2, <2>3
<1> QED BY <1>1, <1>2, PTL
=============================================================================

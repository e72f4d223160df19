-------------------------- MODULE ConversationLog --------------------------
(***************************************************************************)
(* What the conversation runtime promises its callers: every conversation  *)
(* is a log that only grows.  A turn puts one question and at most one     *)
(* reply into it, the reply after the question, and a reply may be given   *)
(* one refund workflow, once.                                              *)
(***************************************************************************)
EXTENDS Naturals, FiniteSets

CONSTANTS Conversations, Turns, Texts, Workflows, None

VARIABLE log    \* log[c][n]: the n-th entry of conversation c

Entry == [sender : {"END_CUSTOMER", "ASSISTANT"}, turn : Turns,
          text : Texts, workflow : Workflows \cup {None}]

Has(c, sender, t) ==
    \E n \in DOMAIN log[c] : log[c][n].sender = sender /\ log[c][n].turn = t

\* The log f with e as entry number n.
Extend(f, n, e) == [i \in DOMAIN f \cup {n} |-> IF i = n THEN e ELSE f[i]]

Put(c, sender, t, x) ==
    /\ ~ Has(c, sender, t)
    /\ log' = [log EXCEPT ![c] =
                 Extend(@, Cardinality(DOMAIN @) + 1,
                        [sender |-> sender, turn |-> t, text |-> x,
                         workflow |-> None])]

Ask(c, t, x) == Put(c, "END_CUSTOMER", t, x)

Reply(c, t, x) == Has(c, "END_CUSTOMER", t) /\ Put(c, "ASSISTANT", t, x)

Link(c, n, w) ==
    /\ n \in DOMAIN log[c]
    /\ log[c][n].sender = "ASSISTANT" /\ log[c][n].workflow = None
    /\ log' = [log EXCEPT ![c][n].workflow = w]

Init == log = [c \in Conversations |-> << >>]

\* A step changes one conversation.  (That is said first because TLC then
\* tries no entry for a step that changes none.)
Next == \E c \in Conversations :
           /\ log'[c] # log[c]
           /\ \/ \E t \in Turns, x \in Texts : Ask(c, t, x) \/ Reply(c, t, x)
              \/ \E n \in DOMAIN log[c], w \in Workflows : Link(c, n, w)

Spec == Init /\ [][Next]_log
=============================================================================

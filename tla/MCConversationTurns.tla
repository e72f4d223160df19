------------------------ MODULE MCConversationTurns ------------------------
(***************************************************************************)
(* A small instance of ConversationTurns: one tab, two requests at once,   *)
(* two turns.  One question names an order; the other names two, and may   *)
(* come with one of them in the form's field.  The second does not fit the *)
(* context twice.                                                          *)
(***************************************************************************)
EXTENDS ConversationTurns, TLC

CONSTANTS a, b, q1, q2

MCMentions == (q1 :> {a}) @@ (q2 :> {a, b})
MCSize == (q1 :> 1) @@ (q2 :> 2)
MCForms == {[text |-> q1, order |-> None], [text |-> q2, order |-> None],
            [text |-> q2, order |-> b]}
=============================================================================

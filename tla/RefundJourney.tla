--------------------------- MODULE RefundJourney ---------------------------
(***************************************************************************)
(* What a refund journey promises, whatever workflow carries it out: money *)
(* is requested at most once, only after the customer accepted the offer,  *)
(* and only with the human approval and the accepted photo that the policy *)
(* verdict in force asks for.                                              *)
(***************************************************************************)
CONSTANTS
  Effects,        \* payable policy verdicts
  Approvals,      \* per verdict, the staff decisions of which one is needed
  Unreviewed      \* payable verdicts that need no person

VARIABLES
  phase,          \* "OPEN", "PAYING" (the refund was requested) or "ENDED"
  verdict,        \* the policy verdict in force, or "NONE"
  consent,        \* the customer accepted an offer
  decisions,      \* every decision staff have taken so far
  photo           \* a required photo was accepted, or none is required

vars == <<phase, verdict, consent, decisions, photo>>

Init ==
  /\ phase = "OPEN" /\ verdict = "NONE" /\ consent = FALSE /\ decisions = {}
  /\ photo \in BOOLEAN

\* Policy is evaluated, the customer answers, staff decide, a photo is accepted.
Prepare ==
  /\ verdict' \in Effects \cup {"NONE"}
  /\ consent' \in {consent, TRUE}
  /\ decisions \subseteq decisions'
  /\ photo' \in {photo, TRUE}
  /\ UNCHANGED phase

Authorized ==
  /\ verdict \in Effects
  /\ consent
  /\ photo
  /\ verdict \in Unreviewed \/ Approvals[verdict] \cap decisions # {}

RequestRefund ==
  /\ phase = "OPEN" /\ Authorized
  /\ phase' = "PAYING"
  /\ UNCHANGED <<verdict, consent, decisions, photo>>

\* The journey ends without a refund; a last evaluation may be the reason.
End ==
  /\ phase = "OPEN"
  /\ phase' = "ENDED"
  /\ verdict' \in Effects \cup {"NONE"}
  /\ UNCHANGED <<consent, decisions, photo>>

Next == Prepare \/ RequestRefund \/ End

Spec == Init /\ [][Next]_vars
=============================================================================

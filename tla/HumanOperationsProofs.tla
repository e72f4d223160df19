----------------------- MODULE HumanOperationsProofs -----------------------
(***************************************************************************)
(* The two halves of human operations: cases, and the delivery of their    *)
(* decisions.                                                              *)
(*                                                                         *)
(* For any staff, roles, keys and number of requests in flight, a case is  *)
(* decided at most once, by somebody who saw it in the phase it was        *)
(* decided in and whose role may decide it.  Neither property is           *)
(* inductive.  What carries them is that the version identifies the row    *)
(* (every change moves it), that a route's role check stays valid because  *)
(* a case only ever turns from an evidence review into a monetary case,    *)
(* and that a recorded decision leaves the case decided.                   *)
(*                                                                         *)
(* For any number of journeys, any batch size and any number of faults, a  *)
(* decision is marked delivered only after its workflow was given it.      *)
(* DeliveredMeansReceived is not inductive: it needs to know of each of    *)
(* the two deliverers that, between its signal and its mark, the workflow  *)
(* has the decision.                                                       *)
(***************************************************************************)
EXTENDS HumanCases, DecisionOutbox, FiniteSetTheorems, TLAPS

----------------------------------------------------------------------------
(* Cases.                                                                  *)

\* A row somebody read is an earlier one, or it is the current one.
Seen(r) == r.version <= row.version /\ (r.version = row.version => r = row)

\* The version a command carries names the row its sender was shown.
VersionNamesRow ==
  /\ \A s \in Staff : Seen(view[s])
  /\ \A c \in reserved : Seen(c.saw)
  /\ \A q \in request : Seen(q.command.saw) /\ Seen(q.routed)

\* What the route checked, it checked on a row no older than the one shown.
RouteChecked ==
  \A q \in request :
    /\ RouteAllows(q.command, q.routed)
    /\ q.command.saw.version <= q.routed.version /\ q.routed.version > 0
    /\ q.command.action = "decision" => q.routed.type = row.type

\* A recorded decision leaves a decided case of the type it was taken on.
DecisionSettles ==
  /\ \A e \in outbox : row.version > 0 /\ row.status \in {"DECISION_PENDING", "CLOSED"}
  /\ \A e, f \in outbox : e = f

IInv == TypeOK /\ VersionNamesRow /\ RouteChecked /\ DecisionSettles /\ DecidedKnowingly

----------------------------------------------------------------------------

\* Whoever's row was seen stays seen when the row stays or its version moves.
LEMMA SeenStays ==
  ASSUME TypeOK, NEW r \in Row, Seen(r), row' \in Row,
         row' = row \/ row'.version = row.version + 1
  PROVE  Seen(r)'
<1>1. r.version \in Nat /\ row.version \in Nat
  BY DEF TypeOK, Row
<1>2. CASE row' = row
  BY <1>2 DEF Seen
<1>3. CASE row'.version = row.version + 1
  BY <1>1, <1>3 DEF Seen
<1> QED
  BY <1>2, <1>3

\* Only monetary cases can be decided.
LEMMA DecidableIsMonetary ==
  ASSUME NEW type \in CaseTypes, NEW d \in AllowedActionsForCaseType(type)
  PROVE  type # "REFUND_EVIDENCE_REVIEW" /\ d \in Decisions
BY DEF AllowedActionsForCaseType, CaseTypes, Decisions

\* Nothing was seen but the case that is not there yet.
LEMMA InitInv == Init => IInv
<1> SUFFICES ASSUME Init PROVE IInv
  OBVIOUS
<1>1. InitialRow \in Row /\ row = InitialRow
  BY DEF Init, InitialRow, Row, CaseTypes, Statuses
<1>2. TypeOK
  BY <1>1 DEF Init, TypeOK
<1>3. Seen(InitialRow)
  BY <1>1 DEF Seen, Row
<1> QED
  BY <1>1, <1>2, <1>3
  DEF IInv, Init, VersionNamesRow, RouteChecked, DecisionSettles, DecidedKnowingly

\* The workflow and the evidence repository move the version and leave a
\* decided case decided.
LEMMA WorkflowStepInv ==
  ASSUME IInv, UNCHANGED staffVars, evidence' \in BOOLEAN,
         row' \in Row, row'.version = row.version + 1,
         row.version = 0 \/ row'.type = row.type \/ row.type = "REFUND_EVIDENCE_REVIEW",
         row.status \in {"DECISION_PENDING", "CLOSED"} /\ row.type # "REFUND_EVIDENCE_REVIEW"
           => row'.status \in {"DECISION_PENDING", "CLOSED"}
  PROVE  IInv'
<1> USE DEF IInv
<1>1. TypeOK'
  BY DEF TypeOK, staffVars
<1>2. VersionNamesRow'
  <2>1. \A s \in Staff : view[s] \in Row
    BY DEF TypeOK
  <2>2. \A c \in reserved : c.saw \in Row
    BY DEF TypeOK, Command
  <2>3. \A q \in request : q.command.saw \in Row /\ q.routed \in Row
    BY DEF TypeOK, Command
  <2> QED
    BY <2>1, <2>2, <2>3, SeenStays DEF VersionNamesRow, staffVars
<1>3. row.version \in Nat /\ row.type \in CaseTypes
  BY DEF TypeOK, Row
<1>4. RouteChecked'
  <2> SUFFICES ASSUME NEW q \in request
               PROVE  /\ RouteAllows(q.command, q.routed)
                      /\ q.command.saw.version <= q.routed.version /\ q.routed.version > 0
                      /\ q.command.action = "decision" => q.routed.type = row'.type
    BY DEF RouteChecked, staffVars
  <2>1. q.routed.version \in Nat /\ q.routed.version <= row.version /\ q.routed.version > 0
    BY DEF VersionNamesRow, RouteChecked, Seen, TypeOK, Row
  <2>2. ASSUME q.command.action = "decision" PROVE q.routed.type = row'.type
    <3>1. q.command.decision \in AllowedActionsForCaseType(q.routed.type)
      BY <2>2 DEF RouteChecked, RouteAllows, CanSubmitDecision
    <3>2. q.routed.type = row.type
      BY <2>2 DEF RouteChecked
    <3>3. row.type # "REFUND_EVIDENCE_REVIEW"
      BY <1>3, <3>1, <3>2, DecidableIsMonetary
    <3> QED
      BY <1>3, <2>1, <3>2, <3>3
  <2> QED
    BY <2>2 DEF RouteChecked
<1>5. ASSUME NEW e \in outbox
      PROVE  /\ row.type # "REFUND_EVIDENCE_REVIEW"
             /\ row'.type = row.type
             /\ row'.status \in {"DECISION_PENDING", "CLOSED"}
  <2>1. e.saw.type = row.type /\ e.decision \in AllowedActionsForCaseType(e.saw.type)
    BY DEF DecidedKnowingly
  <2>2. row.type # "REFUND_EVIDENCE_REVIEW"
    BY <1>3, <2>1, DecidableIsMonetary
  <2>3. row.version # 0
    BY <1>3 DEF DecisionSettles
  <2> QED
    BY <2>2, <2>3 DEF DecisionSettles
<1>6. DecisionSettles' /\ DecidedKnowingly'
  BY <1>3, <1>5 DEF DecisionSettles, DecidedKnowingly, HasCaseRole, staffVars
<1> QED
  BY <1>1, <1>2, <1>4, <1>6

\* Whatever the console shows or sends next was read from the row.
LEMMA ViewInv == ASSUME IInv, NEW s \in Staff, View(s) PROVE IInv'
<1> USE DEF IInv
<1>1. TypeOK'
  BY DEF TypeOK, View
<1>2. Seen(row) /\ row' = row
  BY DEF Seen, View, TypeOK, Row
<1>3. \A t \in Staff : Seen(view'[t])
  BY <1>2 DEF View, VersionNamesRow, TypeOK
<1>4. VersionNamesRow'
  BY <1>2, <1>3 DEF View, VersionNamesRow, Seen
<1> QED
  BY <1>1, <1>2, <1>4 DEF View, RouteChecked, DecisionSettles, DecidedKnowingly

\* What a console sends, or sends again, names a version it was shown.
LEMMA CommandTyped ==
  ASSUME IInv, NEW s \in Staff, NEW c \in CommandsOf(s) \cup reserved
  PROVE  c \in Command /\ Seen(c.saw)
<1>1. CASE c \in reserved
  BY <1>1 DEF IInv, TypeOK, VersionNamesRow
<1>2. CASE c \in CommandsOf(s)
  <2>1. view[s] \in Row /\ Seen(view[s])
    BY DEF IInv, TypeOK, VersionNamesRow
  <2> QED
    BY <1>2, <2>1 DEF CommandsOf, Command
<1> QED
  BY <1>1, <1>2

\* A route's check is made on the current row.
LEMMA ArriveInv ==
  ASSUME IInv, NEW s \in Staff, NEW c \in CommandsOf(s) \cup reserved, Arrive(c)
  PROVE  IInv'
<1> USE DEF IInv
<1>1. c \in Command /\ Seen(c.saw)
  BY CommandTyped
<1>2. row \in Row /\ Seen(row) /\ row.version \in Nat
  BY DEF TypeOK, Seen, Row
<1>3. TypeOK'
  BY <1>1, <1>2 DEF Arrive, TypeOK
<1>4. VersionNamesRow'
  BY <1>1, <1>2 DEF Arrive, VersionNamesRow, Seen
<1>5. c.saw.version <= row.version /\ row.version > 0
  BY <1>1, <1>2 DEF Arrive, Seen
<1>6. RouteChecked'
  BY <1>5 DEF Arrive, RouteChecked
<1> QED
  BY <1>3, <1>4, <1>6 DEF Arrive, DecisionSettles, DecidedKnowingly

\* A transaction that does not commit only answers the request.
LEMMA RolledBackInv ==
  ASSUME IInv, NEW q \in request, request' = request \ {q},
         UNCHANGED <<row, evidence, view, reserved, outbox>>
  PROVE  IInv'
BY DEF IInv, TypeOK, VersionNamesRow, Seen, RouteChecked, DecisionSettles, DecidedKnowingly

\* A claim or a reassignment that commits finds a case nobody has decided.
LEMMA HandedOverInv ==
  ASSUME IInv, NEW q \in request, request' = request \ {q},
         reserved' = reserved \cup {q.command},
         UNCHANGED <<evidence, view, outbox>>,
         row.status \in {"OPEN", "CLAIMED"}, row' \in Row, row'.type = row.type,
         row' = row \/ row'.version = row.version + 1
  PROVE  IInv'
<1> USE DEF IInv
<1>1. q.command \in Command /\ q.routed \in Row
  BY DEF TypeOK
<1>2. TypeOK'
  BY <1>1 DEF TypeOK
<1>3. VersionNamesRow'
  <2>1. \A s \in Staff : view[s] \in Row
    BY DEF TypeOK
  <2>2. \A c \in reserved \cup {q.command} : c.saw \in Row /\ Seen(c.saw)
    BY <1>1 DEF TypeOK, Command, VersionNamesRow
  <2>3. \A p \in request : p.command.saw \in Row /\ p.routed \in Row
    BY DEF TypeOK, Command
  <2> QED
    BY <2>1, <2>2, <2>3, SeenStays DEF VersionNamesRow
<1>4. RouteChecked'
  BY DEF RouteChecked
<1>5. outbox = {}
  BY DEF DecisionSettles
<1> QED
  BY <1>2, <1>3, <1>4, <1>5 DEF DecisionSettles, DecidedKnowingly

\* Handing a row over keeps its type and moves its version.
LEMMA HandedOverRow ==
  ASSUME NEW r \in Row, NEW a \in Staff \cup {"NOBODY"}, NEW new,
         new = [r EXCEPT !.status = "CLAIMED", !.assignee = a, !.version = @ + 1]
  PROVE  new \in Row /\ new.type = r.type /\ new.version = r.version + 1
<1>1. r.version + 1 \in Nat /\ "CLAIMED" \in Statuses
  BY DEF Row, Statuses
<1>2. new = [type |-> r.type, status |-> "CLAIMED", assignee |-> a, version |-> r.version + 1]
  BY DEF Row
<1> QED
  BY <1>1, <1>2 DEF Row

\* A claim that commits takes an undecided case or keeps the claimant's own.
LEMMA ClaimInv == ASSUME IInv, NEW q \in request, Claim(q) PROVE IInv'
<1>1. q.command.staff \in Staff /\ row \in Row
  BY DEF IInv, TypeOK, Command
<1>2. CASE /\ UNCHANGED <<row, evidence, view, reserved, outbox>>
           /\ request' = request \ {q}
  BY <1>2, RolledBackInv DEF IInv, TypeOK
<1>3. CASE /\ UNCHANGED <<evidence, view, outbox>>
           /\ request' = request \ {q} /\ reserved' = reserved \cup {q.command}
           /\ row.status \in {"OPEN", "CLAIMED"}
           /\ row' = row \/ row' = [row EXCEPT !.status = "CLAIMED", !.assignee = q.command.staff,
                                               !.version = @ + 1]
  <2>1. row' \in Row /\ row'.type = row.type /\ (row' = row \/ row'.version = row.version + 1)
    <3>1. CASE row' = row
      BY <1>1, <3>1
    <3>2. CASE row' = [row EXCEPT !.status = "CLAIMED", !.assignee = q.command.staff,
                                  !.version = @ + 1]
      BY <1>1, <3>2, HandedOverRow
    <3> QED
      BY <1>3, <3>1, <3>2
  <2> QED
    BY <1>3, <2>1, HandedOverInv
<1> QED
  BY <1>2, <1>3 DEF Claim, Transaction

\* A reassignment that commits moves an undecided case to its target.
LEMMA ReassignInv == ASSUME IInv, NEW q \in request, Reassign(q) PROVE IInv'
<1>1. q.command.target \in Staff \cup {"NOBODY"} /\ row \in Row
  BY DEF IInv, TypeOK, Command
<1>2. CASE /\ UNCHANGED <<row, evidence, view, reserved, outbox>>
           /\ request' = request \ {q}
  BY <1>2, RolledBackInv DEF IInv, TypeOK
<1>3. CASE /\ UNCHANGED <<evidence, view, outbox>>
           /\ request' = request \ {q} /\ reserved' = reserved \cup {q.command}
           /\ row.status \in {"OPEN", "CLAIMED"}
           /\ row' = [row EXCEPT !.status = "CLAIMED", !.assignee = q.command.target,
                                 !.version = @ + 1]
  <2>1. row' \in Row /\ row'.type = row.type /\ row'.version = row.version + 1
    BY <1>1, <1>3, HandedOverRow
  <2> QED
    BY <1>3, <2>1, HandedOverInv
<1> QED
  BY <1>2, <1>3 DEF Reassign, Transaction

\* A decision that commits is the first, and is about the row its author saw.
LEMMA DecideInv == ASSUME IInv, NEW q \in request, Decide(q) PROVE IInv'
<1> DEFINE c == q.command
<1> DEFINE event == [decision |-> c.decision, by |-> c.staff, saw |-> c.saw]
<1>1. c \in Command /\ q.routed \in Row /\ row \in Row
  BY DEF IInv, TypeOK
<1>2. CASE /\ UNCHANGED <<row, evidence, view, reserved, outbox>>
           /\ request' = request \ {q}
  BY <1>2, RolledBackInv DEF IInv, TypeOK
<1>3. CASE /\ UNCHANGED <<evidence, view>>
           /\ request' = request \ {q} /\ reserved' = reserved \cup {c}
           /\ outbox' = outbox \cup {event}
           /\ row.version = c.saw.version /\ row.status = "CLAIMED" /\ row.assignee = c.staff
           /\ c.decision \in AllowedActionsForCaseType(row.type)
           /\ c.action = "decision"
           /\ row' = [row EXCEPT !.status = "DECISION_PENDING", !.version = @ + 1]
  <2> USE DEF IInv
  <2>1. c.staff \in Staff /\ c.saw \in Row /\ row.type \in CaseTypes /\ row.version \in Nat
    BY <1>1 DEF Command, Row
  <2>2. row' = [type |-> row.type, status |-> "DECISION_PENDING", assignee |-> row.assignee,
                version |-> row.version + 1]
    BY <1>1, <1>3 DEF Row
  <2>3. row' \in Row
    BY <1>1, <2>1, <2>2 DEF Row, Statuses
  <2>4. c.decision \in Decisions /\ event \in Event
    BY <1>3, <2>1, DecidableIsMonetary DEF Event
  <2>5. TypeOK'
    BY <1>1, <1>3, <2>3, <2>4 DEF TypeOK
  <2>6. VersionNamesRow'
    <3>1. \A s \in Staff : view[s] \in Row
      BY DEF TypeOK
    <3>2. \A d \in reserved \cup {c} : d.saw \in Row /\ Seen(d.saw)
      BY <1>1 DEF TypeOK, Command, VersionNamesRow
    <3>3. \A p \in request : p.command.saw \in Row /\ p.routed \in Row
      BY DEF TypeOK, Command
    <3> QED
      BY <1>3, <2>2, <2>3, <3>1, <3>2, <3>3, SeenStays DEF VersionNamesRow
  <2>7. RouteChecked'
    BY <1>3, <2>2 DEF RouteChecked
  <2>8. outbox = {} /\ outbox' = {event}
    BY <1>3 DEF DecisionSettles
  <2>9. DecisionSettles'
    BY <2>1, <2>2, <2>8 DEF DecisionSettles
  <2>10. c.saw = row
    BY <1>3 DEF VersionNamesRow, Seen
  <2>11. HasCaseRole(c.staff, row)
    <3>1. HasCaseRole(c.staff, q.routed) /\ q.routed.type = row.type
      BY <1>3 DEF RouteChecked, RouteAllows, CanSubmitDecision
    <3> QED
      BY <3>1 DEF HasCaseRole
  <2>12. DecidedKnowingly'
    BY <1>3, <2>2, <2>8, <2>10, <2>11 DEF DecidedKnowingly, HasCaseRole
  <2> QED
    BY <2>5, <2>6, <2>7, <2>9, <2>12
<1> QED
  BY <1>2, <1>3 DEF Decide, Transaction

\* Every step keeps the invariant.
LEMMA NextInv == IInv /\ [Next]_vars => IInv'
<1> SUFFICES ASSUME IInv, [Next]_vars PROVE IInv'
  OBVIOUS
<1>1. row \in Row /\ row.version \in Nat /\ evidence \in BOOLEAN
  BY DEF IInv, TypeOK, Row
<1>2. ASSUME NEW type \in CaseTypes, Open(type) PROVE IInv'
  <2>1. row' = [type |-> type, status |-> row.status, assignee |-> row.assignee, version |-> 1]
    BY <1>1, <1>2 DEF Open, Row
  <2>2. row' \in Row /\ row'.version = row.version + 1
    BY <1>1, <1>2, <2>1 DEF Open, Row
  <2> QED
    BY <1>2, <2>1, <2>2, WorkflowStepInv DEF Open
<1>3. CASE SaveEvidence
  <2>1. row' = [type |-> row.type, status |-> row.status, assignee |-> row.assignee,
                version |-> row.version + 1]
    BY <1>1, <1>3 DEF SaveEvidence, Row
  <2>2. row' \in Row
    BY <1>1, <2>1 DEF Row
  <2> QED
    BY <1>1, <1>3, <2>1, <2>2, WorkflowStepInv DEF SaveEvidence
<1>4. ASSUME NEW type \in CaseTypes \ {"REFUND_EVIDENCE_REVIEW"}, Transition(type) PROVE IInv'
  <2>1. row' \in Row /\ row'.version = row.version + 1
    BY <1>1, <1>4 DEF Transition, Row, Statuses
  <2> QED
    BY <1>1, <1>4, <2>1, WorkflowStepInv DEF Transition
<1>5. CASE Close
  <2>1. row' = [type |-> row.type, status |-> "CLOSED", assignee |-> row.assignee,
                version |-> row.version + 1]
    BY <1>1, <1>5 DEF Close, Row
  <2>2. row' \in Row
    BY <1>1, <2>1 DEF Row, Statuses
  <2> QED
    BY <1>1, <1>5, <2>1, <2>2, WorkflowStepInv DEF Close
<1>6. CASE UNCHANGED vars
  BY <1>6 DEF vars, IInv, TypeOK, VersionNamesRow, Seen, RouteChecked, DecisionSettles,
              DecidedKnowingly
<1> QED
  BY <1>2, <1>3, <1>4, <1>5, <1>6, ViewInv, ArriveInv, ClaimInv, ReassignInv, DecideInv DEF Next

\* The invariant holds in every reachable state.
LEMMA InvHolds == Spec => []IInv
BY InitInv, NextInv, PTL DEF Spec

----------------------------------------------------------------------------

\* Staff races, retries and reassignments never give the workflow a second
\* decision on its case.
THEOREM DecidedOnce == Spec => []OneDecision
<1>1. IInv => OneDecision
  <2> SUFFICES ASSUME IInv PROVE Cardinality(outbox) <= 1
    BY DEF OneDecision
  <2>1. CASE outbox = {}
    BY <2>1, FS_EmptySet
  <2>2. ASSUME NEW e \in outbox PROVE Cardinality(outbox) <= 1
    <3>1. outbox = {e}
      BY <2>2 DEF IInv, DecisionSettles
    <3>2. Cardinality({e}) = 1
      BY FS_Singleton, Zenon
    <3> QED
      BY <3>1, <3>2
  <2> QED
    BY <2>1, <2>2
<1> QED
  BY <1>1, InvHolds, PTL

\* The version check at commit makes the role check before it sufficient:
\* whoever decided saw the case as it was, held it and may decide it.
THEOREM DecisionIsInformed == Spec => []DecidedKnowingly
<1>1. IInv => DecidedKnowingly
  BY DEF IInv
<1> QED
  BY <1>1, InvHolds, PTL

\* Types, for any number of staff, keys and requests in flight.
THEOREM TypeCorrect == Spec => []TypeOK
<1>1. IInv => TypeOK
  BY DEF IInv
<1> QED
  BY <1>1, InvHolds, PTL

\* Only a claim that commits adds a claim, and the row it commits on is the one
\* its route checked: it was shown the current row, and routed no earlier.
LEMMA ClaimStep ==
  ASSUME IInv, NEW q \in request, Claim(q) \/ Reassign(q) \/ Decide(q),
         NEW c \in reserved' \ reserved, c.action = "claim"
  PROVE  HasCaseRole(c.staff, row')
<1> USE DEF IInv
<1>1. c = q.command
  BY DEF Claim, Reassign, Decide, Transaction
<1>2. q.command \in Command /\ q.command.saw \in Row /\ q.routed \in Row /\ row \in Row
  BY DEF TypeOK, Command
<1>3. Claim(q) /\ row.version = q.command.saw.version
  BY <1>1 DEF Claim, Reassign, Decide, Transaction
<1>4. row'.type = row.type
  BY <1>2, <1>3 DEF Claim, Transaction, Row
<1>5. q.routed = row
  <2>1. q.command.saw.version <= q.routed.version /\ q.routed.version <= row.version
    BY DEF RouteChecked, VersionNamesRow, Seen
  <2>2. q.routed.version = row.version
    BY <1>2, <1>3, <2>1 DEF Row
  <2> QED
    BY <2>2 DEF VersionNamesRow, Seen
<1>6. HasCaseRole(q.command.staff, q.routed)
  BY <1>1 DEF RouteChecked, RouteAllows, CanSubmitClaim
<1> QED
  BY <1>1, <1>4, <1>5, <1>6 DEF HasCaseRole

\* canSubmitClaim reads the case before the transaction that claims it, and
\* still nobody claims a case of a type their role cannot decide.
THEOREM ClaimsAreEntitled == Spec => ClaimantHasRole
<1>1. ASSUME IInv, [Next]_vars
      PROVE  [\A c \in reserved' \ reserved : c.action = "claim" => HasCaseRole(c.staff, row')]_vars
  <2>1. CASE reserved' = reserved
    BY <2>1
  <2>2. ASSUME NEW q \in request, Claim(q) \/ Reassign(q) \/ Decide(q)
        PROVE  \A c \in reserved' \ reserved : c.action = "claim" => HasCaseRole(c.staff, row')
    BY <1>1, <2>2, ClaimStep
  <2>3. \/ reserved' = reserved
        \/ \E q \in request : Claim(q) \/ Reassign(q) \/ Decide(q)
    BY <1>1 DEF Next, vars, Open, SaveEvidence, Transition, Close, View, Arrive, staffVars
  <2> QED
    BY <2>1, <2>2, <2>3
<1> QED
  BY <1>1, InvHolds, PTL DEF Spec, ClaimantHasRole

\* After decide has committed, no claim, reassignment, retry or phase change takes the
\* case from its author or opens it again, and a closed one stays closed; the
\* evidence repository's save may still move its version.
THEOREM DecisionIsFinal == Spec => DecisionStands
<1> DEFINE Stands == /\ row'.type = row.type /\ row'.assignee = row.assignee
                     /\ row'.status \in {"DECISION_PENDING", "CLOSED"}
                     /\ row.status = "CLOSED" => row'.status = "CLOSED"
<1>1. ASSUME IInv, [Next]_vars, outbox # {} PROVE Stands
  <2>1. PICK e \in outbox : TRUE
    BY <1>1
  <2>2. row \in Row /\ row.version > 0 /\ row.status \in {"DECISION_PENDING", "CLOSED"}
    BY <1>1, <2>1 DEF IInv, TypeOK, DecisionSettles
  <2>3. row.type # "REFUND_EVIDENCE_REVIEW"
    <3>1. e.saw.type = row.type /\ e.decision \in AllowedActionsForCaseType(e.saw.type)
      BY <1>1, <2>1 DEF IInv, DecidedKnowingly
    <3> QED
      BY <2>2, <3>1, DecidableIsMonetary DEF Row
  <2>4. CASE Close
    BY <2>2, <2>4 DEF Close, Row
  <2>5. CASE SaveEvidence
    BY <2>2, <2>5 DEF SaveEvidence, Row
  <2>6. CASE row' = row
    BY <2>2, <2>6
  <2>7. ASSUME NEW q \in request, Claim(q) \/ Reassign(q) \/ Decide(q) PROVE row' = row
    BY <2>2, <2>7 DEF Claim, Reassign, Decide, Transaction
  <2>8. \A type \in CaseTypes : ~Open(type) /\ ~Transition(type)
    <3>1. row.version # 0
      BY <2>2 DEF Row
    <3> QED
      BY <2>3, <3>1, Zenon DEF Open, Transition
  <2>9. \A s \in Staff : /\ View(s) => row' = row
                        /\ \A c \in CommandsOf(s) \cup reserved : Arrive(c) => row' = row
    BY DEF View, Arrive
  <2>10. Close \/ SaveEvidence \/ row' = row
    <3>1. CASE Next
      BY <2>7, <2>8, <2>9, <3>1, Zenon DEF Next
    <3>2. CASE UNCHANGED vars
      BY <3>2 DEF vars
    <3> QED
      BY <1>1, <3>1, <3>2
  <2> QED
    BY <2>4, <2>5, <2>6, <2>10
<1>2. IInv /\ [Next]_vars => [outbox # {} => Stands]_vars
  BY <1>1
<1> QED
  BY <1>2, InvHolds, PTL DEF Spec, DecisionStands

----------------------------------------------------------------------------
(* Delivery of the decisions.                                              *)

\* A deliverer that is about to mark a row has signalled its workflow.
SignalledBeforeMark ==
  /\ \A j \in Journeys : route[j] = "MARK" => workflow[j] # "WAITING"
  /\ \A i \in batch : First(i) /\ marking => workflow[rows[i]] # "WAITING"
  /\ batch = {} => ~marking

OutboxInv == OutboxTypeOK /\ SignalledBeforeMark /\ DeliveredMeansReceived

\* The initial state has no rows and nobody delivering.
LEMMA OutboxStarts == OutboxInit => OutboxInv
<1> SUFFICES ASSUME OutboxInit PROVE OutboxInv
  OBVIOUS
<1>1. rows \in Seq(Journeys) /\ Len(rows) = 0
  BY DEF OutboxInit
<1>2. OutboxTypeOK
  <2>1. faults \in 0..MaxFaults
    BY FaultsAssumption DEF OutboxInit
  <2>2. batch \in SUBSET (1..Len(rows)) /\ marking \in BOOLEAN /\ delivered \in SUBSET Journeys
    BY Zenon DEF OutboxInit
  <2>3. /\ workflow \in [Journeys -> {"WAITING", "DECIDED", "CLOSED"}]
        /\ route \in [Journeys -> {"IDLE", "CHECK", "SIGNAL", "MARK"}]
    BY DEF OutboxInit
  <2> QED
    BY <1>1, <2>1, <2>2, <2>3, Zenon DEF OutboxTypeOK
<1>3. SignalledBeforeMark /\ DeliveredMeansReceived
  BY DEF OutboxInit, SignalledBeforeMark, DeliveredMeansReceived, First
<1> QED
  BY <1>2, <1>3 DEF OutboxInv

\* A row of the outbox belongs to a journey.
LEMMA RowIsJourney ==
  ASSUME OutboxTypeOK, NEW i \in batch
  PROVE  rows[i] \in Journeys
BY DEF OutboxTypeOK

\* Every step keeps the invariant.
LEMMA OutboxStep == OutboxInv /\ [OutboxNext]_outboxVars => OutboxInv'
<1> SUFFICES ASSUME OutboxInv, [OutboxNext]_outboxVars PROVE OutboxInv'
  OBVIOUS
<1> USE DEF OutboxInv
<1>1. ASSUME NEW j \in Journeys, CloseWorkflow(j) PROVE OutboxInv'
  <2>1. OutboxTypeOK'
    BY <1>1 DEF CloseWorkflow, OutboxTypeOK
  <2>2. \A k \in Journeys : workflow[k] # "WAITING" => workflow'[k] # "WAITING"
    BY <1>1 DEF CloseWorkflow, OutboxTypeOK
  <2> QED
    BY <1>1, <2>1, <2>2, RowIsJourney
    DEF CloseWorkflow, OutboxTypeOK, SignalledBeforeMark, DeliveredMeansReceived, First
<1>2. ASSUME NEW j \in Journeys, RecordDecision(j) PROVE OutboxInv'
  <2>1. Len(rows') = Len(rows) + 1 /\ rows' \in Seq(Journeys)
    BY <1>2 DEF RecordDecision, OutboxTypeOK
  <2>2. \A i \in batch : rows'[i] = rows[i]
    BY <1>2 DEF RecordDecision, OutboxTypeOK
  <2>3. OutboxTypeOK'
    BY <1>2, <2>1 DEF RecordDecision, OutboxTypeOK
  <2> QED
    BY <1>2, <2>2, <2>3 DEF RecordDecision, OutboxTypeOK, SignalledBeforeMark, DeliveredMeansReceived, First
<1>3. ASSUME NEW j \in Journeys, Retry(j) PROVE OutboxInv'
  BY <1>3 DEF Retry, OutboxTypeOK, SignalledBeforeMark, DeliveredMeansReceived, First
<1>4. ASSUME NEW j \in Journeys, IsOutboxPending(j) PROVE OutboxInv'
  BY <1>4 DEF IsOutboxPending, OutboxTypeOK, SignalledBeforeMark, DeliveredMeansReceived, First
<1>5. ASSUME NEW j \in Journeys, RouteSignals(j) PROVE OutboxInv'
  <2>1. OutboxTypeOK'
    BY <1>5 DEF RouteSignals, Signal, OutboxTypeOK
  <2>2. /\ workflow'[j] # "WAITING"
        /\ \A k \in Journeys : workflow[k] # "WAITING" => workflow'[k] # "WAITING"
    BY <1>5 DEF RouteSignals, Signal, OutboxTypeOK
  <2> QED
    BY <1>5, <2>1, <2>2, RowIsJourney
    DEF RouteSignals, OutboxTypeOK, SignalledBeforeMark, DeliveredMeansReceived, First
<1>6. ASSUME NEW j \in Journeys, RouteSignalFails(j) PROVE OutboxInv'
  BY <1>6 DEF RouteSignalFails, OutboxTypeOK, SignalledBeforeMark, DeliveredMeansReceived, First
<1>7. ASSUME NEW j \in Journeys, RouteMarks(j) PROVE OutboxInv'
  BY <1>7 DEF RouteMarks, OutboxTypeOK, SignalledBeforeMark, DeliveredMeansReceived, First
<1>8. ASSUME NEW j \in Journeys, RouteMarkFails(j) PROVE OutboxInv'
  BY <1>8, FaultsAssumption
  DEF RouteMarkFails, OutboxTypeOK, SignalledBeforeMark, DeliveredMeansReceived, First
<1>9. CASE ListPendingOutbox
  BY <1>9 DEF ListPendingOutbox, PendingRows, OutboxTypeOK, SignalledBeforeMark,
              DeliveredMeansReceived, First
<1>10. ASSUME NEW i \in batch, DispatchSignals(i) PROVE OutboxInv'
  <2>1. rows[i] \in Journeys
    BY RowIsJourney
  <2>2. OutboxTypeOK'
    BY <1>10, <2>1 DEF DispatchSignals, Signal, OutboxTypeOK
  <2>3. /\ workflow'[rows[i]] # "WAITING"
        /\ \A k \in Journeys : workflow[k] # "WAITING" => workflow'[k] # "WAITING"
    BY <1>10, <2>1 DEF DispatchSignals, Signal, OutboxTypeOK
  <2>4. \A k \in batch : First(k) => k = i
    BY <1>10 DEF DispatchSignals, First, OutboxTypeOK
  <2> QED
    BY <1>10, <2>1, <2>2, <2>3, <2>4
    DEF DispatchSignals, OutboxTypeOK, SignalledBeforeMark, DeliveredMeansReceived, First
<1>11. ASSUME NEW i \in batch, DispatchFails(i) PROVE OutboxInv'
  BY <1>11 DEF DispatchFails, OutboxTypeOK, SignalledBeforeMark, DeliveredMeansReceived, First
<1>12. ASSUME NEW i \in batch, DispatchMarks(i) PROVE OutboxInv'
  <2>1. rows[i] \in Journeys
    BY RowIsJourney
  <2> QED
    BY <1>12, <2>1 DEF DispatchMarks, OutboxTypeOK, SignalledBeforeMark, DeliveredMeansReceived, First
<1>13. ASSUME NEW i \in batch, DispatchMarkFails(i) PROVE OutboxInv'
  <2>1. faults' \in 0..MaxFaults
    BY <1>13, FaultsAssumption DEF DispatchMarkFails, OutboxTypeOK
  <2>2. marking' \in BOOLEAN /\ batch' \in SUBSET (1..Len(rows'))
    BY <1>13, Zenon DEF DispatchMarkFails, OutboxTypeOK
  <2>3. OutboxTypeOK'
    BY <1>13, <2>1, <2>2 DEF DispatchMarkFails, OutboxTypeOK
  <2> QED
    BY <1>13, <2>3 DEF DispatchMarkFails, SignalledBeforeMark, DeliveredMeansReceived
<1>14. CASE Restart
  <2>1. faults' \in 0..MaxFaults
    BY <1>14, FaultsAssumption DEF Restart, OutboxTypeOK
  <2>2. marking' \in BOOLEAN /\ batch' \in SUBSET (1..Len(rows'))
    BY <1>14, Zenon DEF Restart, OutboxTypeOK
  <2>3. OutboxTypeOK'
    BY <1>14, <2>1, <2>2 DEF Restart, OutboxTypeOK
  <2> QED
    BY <1>14, <2>3 DEF Restart, SignalledBeforeMark, DeliveredMeansReceived
<1>15. CASE UNCHANGED outboxVars
  BY <1>15 DEF outboxVars, OutboxTypeOK, SignalledBeforeMark, DeliveredMeansReceived, First
<1> QED
  BY <1>1, <1>2, <1>3, <1>4, <1>5, <1>6, <1>7, <1>8, <1>9, <1>10, <1>11, <1>12, <1>13, <1>14,
     <1>15
  DEF OutboxNext, RouteStep, DispatchStep

\* markOutboxDelivered is only ever reached for a workflow that was given the
\* decision, by the route or by the dispatcher.
THEOREM MarkedAfterReceipt == OutboxSpec => []DeliveredMeansReceived
<1>1. OutboxInv => DeliveredMeansReceived
  BY DEF OutboxInv
<1> QED
  BY <1>1, OutboxStarts, OutboxStep, PTL DEF OutboxSpec
=============================================================================

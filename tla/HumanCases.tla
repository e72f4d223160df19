----------------------------- MODULE HumanCases -----------------------------
(***************************************************************************)
(* The human case of one refund workflow: the row staff and the workflow   *)
(* race to change.  A staff route reads the case, checks the role, and     *)
(* only then starts the transaction that checks the version, so another    *)
(* request or the workflow may change the row in between.                  *)
(*                                                                         *)
(* Delivery of the recorded decision is the subject of DecisionOutbox.     *)
(***************************************************************************)
EXTENDS Naturals, FiniteSets

CONSTANTS
  Staff,         \* staff members
  Role,          \* the role in each member's signed assertion
  Keys,          \* idempotency keys a console may send
  MaxVersion,    \* bound on the row's version; a decision allows one more
  MaxRequests    \* bound on each member's requests in flight

Roles == {"REFUND_APPROVER", "REFUND_SUPERVISOR"}

ASSUME RoleAssumption == Role \in [Staff -> Roles]
ASSUME NobodyIsNotStaff == "NOBODY" \notin Staff

VARIABLES
  row,        \* refund_cases: [type, status, assignee, version]
  evidence,   \* refund_evidence has a record of the case
  view,       \* per member: the row the console shows
  request,    \* requests whose route check has passed: [command, routed]
  reserved,   \* action_idempotency: the commands that took effect
  outbox      \* decision_outbox: [decision, by, saw]

vars == <<row, evidence, view, request, reserved, outbox>>

----------------------------------------------------------------------------

CaseTypes == {"REFUND_APPROVAL", "REFUND_TAKEOVER", "REFUND_EVIDENCE_REVIEW"}
Statuses == {"OPEN", "CLAIMED", "DECISION_PENDING", "CLOSED"}
Decisions == {"APPROVE", "REJECT", "RESOLVE_TAKEOVER", "APPROVE_EXCEPTIONAL_REFUND"}

\* Version 0 stands for a case that does not exist yet.
Row ==
  [type : CaseTypes, status : Statuses, assignee : Staff \cup {"NOBODY"}, version : Nat]

\* saw is the row the console showed: the server is only sent its version.
\* target and decision say what a reassignment and a decision carry.
Command ==
  [staff : Staff, action : {"claim", "reassign", "decision"}, key : Keys, saw : Row,
   target : Staff \cup {"NOBODY"}, decision : Decisions \cup {"NONE"}]

Event == [decision : Decisions, by : Staff, saw : Row]

TypeOK ==
  /\ row \in Row /\ evidence \in BOOLEAN
  /\ view \in [Staff -> Row]
  /\ request \in SUBSET [command : Command, routed : Row]
  /\ reserved \in SUBSET Command
  /\ outbox \in SUBSET Event

AllowedActionsForCaseType(type) ==
  CASE type = "REFUND_APPROVAL" -> {"APPROVE", "REJECT"}
    [] type = "REFUND_TAKEOVER" -> {"APPROVE_EXCEPTIONAL_REFUND", "RESOLVE_TAKEOVER", "REJECT"}
    [] OTHER -> {}

HasCaseRole(s, r) ==
  CASE r.type = "REFUND_APPROVAL" -> Role[s] = "REFUND_APPROVER"
    [] r.type = "REFUND_TAKEOVER" -> Role[s] = "REFUND_SUPERVISOR"
    [] OTHER -> TRUE

CanViewCase(s, r) == Role[s] = "REFUND_SUPERVISOR" \/ r.type # "REFUND_TAKEOVER"

CanSubmitClaim(s, r) ==
  /\ HasCaseRole(s, r)
  /\ (r.status = "OPEN" /\ r.assignee = "NOBODY") \/ r.assignee = s

\* A fresh decision on a claimed case, or a retry on one already decided.
CanSubmitDecision(s, r, decision) ==
  /\ r.status \in {"CLAIMED", "DECISION_PENDING"}
  /\ r.assignee = s
  /\ HasCaseRole(s, r)
  /\ decision \in AllowedActionsForCaseType(r.type)

RouteAllows(c, r) ==
  CASE c.action = "claim" -> CanSubmitClaim(c.staff, r)
    [] c.action = "reassign" -> Role[c.staff] = "REFUND_SUPERVISOR"
    [] OTHER -> CanSubmitDecision(c.staff, r, c.decision)

----------------------------------------------------------------------------
(* The workflow's side.                                                    *)

InitialRow == [type |-> "REFUND_EVIDENCE_REVIEW", status |-> "OPEN", assignee |-> "NOBODY",
               version |-> 0]

Init ==
  /\ row = InitialRow /\ evidence = FALSE
  /\ view = [s \in Staff |-> InitialRow]
  /\ request = {} /\ reserved = {} /\ outbox = {}

staffVars == <<view, request, reserved, outbox>>

\* A decided case may change once more than an undecided one.
WithinBound == row.version < IF outbox = {} THEN MaxVersion ELSE MaxVersion + 1

\* open, or ensure for an evidence review, which makes the record as well; a
\* second call finds the row.
Open(type) ==
  /\ row.version = 0
  /\ row' = [row EXCEPT !.type = type, !.version = 1]
  /\ evidence' = (type = "REFUND_EVIDENCE_REVIEW")
  /\ UNCHANGED staffVars

\* The evidence repository's save: the version moves with the photos, whatever
\* the case has become since: an upload may end after the close, and retention
\* deletes photos of a case that was claimed, decided or closed.
SaveEvidence ==
  /\ row.version > 0 /\ WithinBound
  /\ evidence
  /\ row' = [row EXCEPT !.version = @ + 1]
  /\ UNCHANGED <<evidence, staffVars>>

\* Mutation: the policy's name for a takeover is stored as the case type.
TransitionToEffect(type) ==
  /\ row.version > 0 /\ WithinBound
  /\ row.type = "REFUND_EVIDENCE_REVIEW" /\ row.status # "CLOSED"
  /\ row' = [type |-> "TAKEOVER_REQUIRED", status |-> "OPEN", assignee |-> "NOBODY",
             version |-> row.version + 1]
  /\ UNCHANGED <<evidence, staffVars>>

\* transition: the same case becomes a monetary one, for anyone to claim.
Transition(type) ==
  /\ row.version > 0 /\ WithinBound
  /\ row.type = "REFUND_EVIDENCE_REVIEW" /\ row.status # "CLOSED"
  /\ row' = [type |-> type, status |-> "OPEN", assignee |-> "NOBODY", version |-> row.version + 1]
  /\ UNCHANGED <<evidence, staffVars>>

Close ==
  /\ row.version > 0 /\ WithinBound
  /\ row.status # "CLOSED"
  /\ row' = [row EXCEPT !.status = "CLOSED", !.version = @ + 1]
  /\ UNCHANGED <<evidence, staffVars>>

----------------------------------------------------------------------------
(* The staff routes.                                                       *)

View(s) ==
  /\ row.version > 0 /\ CanViewCase(s, row)
  /\ view' = [view EXCEPT ![s] = row]
  /\ UNCHANGED <<row, evidence, request, reserved, outbox>>

\* What a console can send about the case it shows.
CommandsOf(s) ==
  [staff : {s}, action : {"claim"}, key : Keys, saw : {view[s]}, target : {"NOBODY"},
   decision : {"NONE"}]
    \cup [staff : {s}, action : {"reassign"}, key : Keys, saw : {view[s]}, target : Staff,
          decision : {"NONE"}]
    \cup [staff : {s}, action : {"decision"}, key : Keys, saw : {view[s]}, target : {"NOBODY"},
          decision : Decisions]

\* A command arrives, new or sent again, and passes the route's check.
Arrive(c) ==
  /\ row.version > 0 /\ RouteAllows(c, row)
  /\ Cardinality({q \in request : q.command.staff = c.staff}) < MaxRequests
  /\ request' = request \cup {[command |-> c, routed |-> row]}
  /\ UNCHANGED <<row, evidence, view, reserved, outbox>>

Reservation(c) == {p \in reserved : p.action = c.action /\ p.key = c.key}

\* A repository transaction: a used key is answered with the case as it is or
\* refused, and changes nothing; a new one is kept only if the transaction commits.
Transaction(q, Valid, newRow, events) ==
  LET c == q.command
      prior == Reservation(c)
      commits == prior = {} /\ Valid
  IN /\ q \in request /\ WithinBound
     /\ request' = request \ {q}
     /\ row' = IF commits THEN newRow ELSE row
     /\ reserved' = IF commits THEN reserved \cup {c} ELSE reserved
     /\ outbox' = IF commits THEN outbox \cup events ELSE outbox
     /\ UNCHANGED <<evidence, view>>

\* Mutation: the claim does not look at the version.
ClaimAnyVersion(q) ==
  LET s == q.command.staff IN
  /\ q.command.action = "claim"
  /\ Transaction(q,
       row.status \in {"OPEN", "CLAIMED"} /\ row.assignee \in {"NOBODY", s},
       IF row.assignee = s THEN row
       ELSE [row EXCEPT !.status = "CLAIMED", !.assignee = s, !.version = @ + 1],
       {})

Claim(q) ==
  LET s == q.command.staff IN
  /\ q.command.action = "claim"
  /\ Transaction(q,
       /\ row.version = q.command.saw.version
       /\ row.status \in {"OPEN", "CLAIMED"} /\ row.assignee \in {"NOBODY", s},
       IF row.assignee = s THEN row
       ELSE [row EXCEPT !.status = "CLAIMED", !.assignee = s, !.version = @ + 1],
       {})

\* Mutation: a decided case can still be handed to somebody else.
ReassignDecided(q) ==
  /\ q.command.action = "reassign"
  /\ Transaction(q,
       row.version = q.command.saw.version /\ row.status # "CLOSED",
       [row EXCEPT !.status = "CLAIMED", !.assignee = q.command.target, !.version = @ + 1],
       {})

Reassign(q) ==
  /\ q.command.action = "reassign"
  /\ Transaction(q,
       row.version = q.command.saw.version /\ row.status \in {"OPEN", "CLAIMED"},
       [row EXCEPT !.status = "CLAIMED", !.assignee = q.command.target, !.version = @ + 1],
       {})

\* Mutation: the decision does not look at the version.
DecideAnyVersion(q) ==
  LET c == q.command IN
  /\ c.action = "decision"
  /\ Transaction(q,
       /\ row.status = "CLAIMED" /\ row.assignee = c.staff
       /\ c.decision \in AllowedActionsForCaseType(row.type),
       [row EXCEPT !.status = "DECISION_PENDING", !.version = @ + 1],
       {[decision |-> c.decision, by |-> c.staff, saw |-> c.saw]})

\* Mutation: a case whose decision is still undelivered can be decided again.
DecideAgain(q) ==
  LET c == q.command IN
  /\ c.action = "decision"
  /\ Transaction(q,
       /\ row.version = c.saw.version
       /\ row.status \in {"CLAIMED", "DECISION_PENDING"} /\ row.assignee = c.staff
       /\ c.decision \in AllowedActionsForCaseType(row.type),
       [row EXCEPT !.status = "DECISION_PENDING", !.version = @ + 1],
       {[decision |-> c.decision, by |-> c.staff, saw |-> c.saw]})

\* The case and its outbox event change in one transaction.
Decide(q) ==
  LET c == q.command IN
  /\ c.action = "decision"
  /\ Transaction(q,
       /\ row.version = c.saw.version
       /\ row.status = "CLAIMED" /\ row.assignee = c.staff
       /\ c.decision \in AllowedActionsForCaseType(row.type),
       [row EXCEPT !.status = "DECISION_PENDING", !.version = @ + 1],
       {[decision |-> c.decision, by |-> c.staff, saw |-> c.saw]})

Next ==
  \/ \E type \in CaseTypes : Open(type)
  \/ SaveEvidence
  \/ \E type \in CaseTypes \ {"REFUND_EVIDENCE_REVIEW"} : Transition(type)
  \/ Close
  \/ \E s \in Staff : View(s)
  \/ \E s \in Staff : \E c \in CommandsOf(s) \cup reserved : Arrive(c)
  \/ \E q \in request : Claim(q) \/ Reassign(q) \/ Decide(q)

Spec == Init /\ [][Next]_vars

----------------------------------------------------------------------------
(* Properties.                                                             *)

\* Staff race one another, retry and reassign, and still the case yields at
\* most one decision for the workflow to act on.
OneDecision == Cardinality(outbox) <= 1

\* Whoever decided had been shown the case in the phase it was decided in, as
\* its assignee: no decision meant for an earlier state of the case counts.
DecidedKnowingly ==
  \A e \in outbox :
    /\ e.saw.type = row.type /\ e.saw.assignee = e.by
    /\ e.decision \in AllowedActionsForCaseType(e.saw.type)
    /\ HasCaseRole(e.by, row)

\* The role is checked against the case as the route read it, the claim is
\* made on the case as the transaction finds it: nobody comes to hold, by a
\* claim, a case of a type their role cannot decide.
ClaimantHasRole ==
  [][\A c \in reserved' \ reserved : c.action = "claim" => HasCaseRole(c.staff, row')]_vars

\* A recorded decision is the last word of staff: its case keeps its type and
\* the person who took it, and goes from decided to closed and never back,
\* though claims, reassignments and retries sent before are still under way and
\* retention keeps moving the version.
DecisionStands ==
  [][outbox # {} => /\ row'.type = row.type /\ row'.assignee = row.assignee
                    /\ row'.status \in {"DECISION_PENDING", "CLOSED"}
                    /\ row.status = "CLOSED" => row'.status = "CLOSED"]_vars

=============================================================================

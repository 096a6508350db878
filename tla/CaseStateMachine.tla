------------------------- MODULE CaseStateMachine -------------------------
(***************************************************************************)
(* The vocabulary of the case service: the lifecycle of a collections      *)
(* case, of a proposed action, and the roles that may decide one.          *)
(*   services/case/recoup_case/state_machine.py                            *)
(*   libs/recoup-common/recoup_common/auth.py  (Role, ROLE_RANK)           *)
(***************************************************************************)
EXTENDS Naturals, Sequences

TERMINAL == {"RESOLVED", "WRITTEN_OFF"}

ActiveTargets ==
  {"INVESTIGATING", "AWAITING_CUSTOMER", "NEGOTIATING", "PENDING_APPROVAL",
   "ESCALATED", "RESOLVED"}

TRANSITIONS ==
  [NEW               |-> {"TRIAGED", "PENDING_APPROVAL", "ESCALATED"} \cup TERMINAL,
   TRIAGED           |-> ActiveTargets \cup {"WRITTEN_OFF"},
   INVESTIGATING     |-> (ActiveTargets \ {"INVESTIGATING"}) \cup {"TRIAGED", "WRITTEN_OFF"},
   AWAITING_CUSTOMER |-> (ActiveTargets \ {"AWAITING_CUSTOMER"}) \cup {"WRITTEN_OFF"},
   NEGOTIATING       |-> (ActiveTargets \ {"NEGOTIATING"}) \cup {"WRITTEN_OFF"},
   PENDING_APPROVAL  |-> {"ACTION_TAKEN", "INVESTIGATING", "NEGOTIATING", "ESCALATED"}
                           \cup TERMINAL,
   ACTION_TAKEN      |-> ActiveTargets \cup {"WRITTEN_OFF"},
   ESCALATED         |-> {"INVESTIGATING", "NEGOTIATING", "PENDING_APPROVAL",
                          "AWAITING_CUSTOMER"} \cup TERMINAL,
   RESOLVED          |-> {},
   WRITTEN_OFF       |-> {}]

CaseStatus ==
  {"NEW", "TRIAGED", "INVESTIGATING", "AWAITING_CUSTOMER", "NEGOTIATING",
   "PENDING_APPROVAL", "ACTION_TAKEN", "RESOLVED", "ESCALATED", "WRITTEN_OFF"}

is_terminal(s) == s \in TERMINAL

\* assert_transition passes; it raises InvalidTransitionError otherwise.
can_transition(src, dst) == src # dst /\ dst \in TRANSITIONS[src]

ActionStatus ==
  {"PENDING", "APPROVED", "EDITED", "REJECTED", "EXECUTED", "AUTO_EXECUTED", "DENIED"}
PolicyDecision == {"ALLOW", "REQUIRE_APPROVAL", "DENY"}
AgentMode == {"AUTONOMOUS", "HUMAN_CONTROL"}
Decision == {"APPROVED", "EDITED", "REJECTED"}

\* The status a proposal is stored with, by what the policy said of it.
InitialActionStatus ==
  [ALLOW |-> "APPROVED", REQUIRE_APPROVAL |-> "PENDING", DENY |-> "DENIED"]

ROLE_RANK == [viewer |-> 0, analyst |-> 1, manager |-> 2, admin |-> 3]
Role == {"viewer", "analyst", "manager", "admin"}

\* "none" is required_role = None: nothing beyond the route's own analyst check.
Satisfies(role, required) ==
  required # "none" => ROLE_RANK[role] >= ROLE_RANK[required]

-----------------------------------------------------------------------------
(* The events the service enqueues in its outbox, one record shape for all:  *)
(* what happened, the statuses of a state change, the action concerned.      *)

Event(type, from, to, action) ==
  [type |-> type, from |-> from, to |-> to, action |-> action]

\* _set_status: case.state_changed, followed by case.resolved on a terminal one.
StateChanged(from, to, none) ==
  IF is_terminal(to)
  THEN <<Event("case.state_changed", from, to, none), Event("case.resolved", from, to, none)>>
  ELSE <<Event("case.state_changed", from, to, none)>>

DecisionEvent ==
  [APPROVED |-> "case.action.approved", EDITED |-> "case.action.edited",
   REJECTED |-> "case.action.rejected"]
=============================================================================

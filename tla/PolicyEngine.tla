---------------------------- MODULE PolicyEngine ----------------------------
(***************************************************************************)
(* What the policy service answers, given the rules in force: allow,       *)
(* require an approval, or deny.                                           *)
(*                                                                         *)
(*   services/policy/recoup_policy/engine.py                               *)
(*                                                                         *)
(* How a rule is matched against the facts is a parameter, PolicyRules     *)
(* defines it.  The reason and the list of matched policies that go with   *)
(* an answer are left out.                                                 *)
(***************************************************************************)
EXTENDS Naturals

CONSTANTS Matches(_, _),   \* matches(rule, context)
          NameRank(_)      \* place of a policy's name in the alphabet

ApproverRoles == {"analyst", "manager", "admin"}
Decisions == {"ALLOW", "REQUIRE_APPROVAL", "DENY"}

\* The settings default_decision and default_required_role.
Default == [decision |-> "REQUIRE_APPROVAL", role |-> "analyst"]

Applicable(r, type) == r.type \in {type, "*"}

\* The order of policies, (priority, name).
Before(r, s) ==
  \/ r.priority < s.priority
  \/ r.priority = s.priority /\ NameRank(r.name) <= NameRank(s.name)

Answer(r) ==
  [decision |-> r.decision,
   role |-> IF r.decision # "REQUIRE_APPROVAL" THEN "none"
            ELSE IF r.role = "none" THEN "analyst" ELSE r.role]

\* Were a DENY a rule like the others.
FirstHitWins(type, context, rules) ==
  LET hits == {r \in rules : Applicable(r, type) /\ Matches(r.rule, context)}
  IN  IF hits = {} THEN Default ELSE Answer(CHOOSE r \in hits : \A s \in hits : Before(r, s))

\* A DENY anywhere wins, then the first that matches, then the default.
evaluate(type, context, rules) ==
  LET hits == {r \in rules : Applicable(r, type) /\ Matches(r.rule, context)}
      denied == \E r \in hits : r.decision = "DENY"
  IN  IF denied THEN [decision |-> "DENY", role |-> "none"]
      ELSE IF hits = {} THEN Default
      ELSE Answer(CHOOSE r \in hits : \A s \in hits : Before(r, s))
=============================================================================

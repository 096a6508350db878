----------------------------- MODULE PolicyRules -----------------------------
(***************************************************************************)
(* The rule language of policies, and the starter pack written in it.      *)
(*                                                                         *)
(*   services/policy/recoup_policy/{engine,defaults,schemas}.py            *)
(*                                                                         *)
(* A context is a function from the facts it holds, named by their dotted  *)
(* path, to <<value>>, or to <<>> for null.  Amounts are in cents, scores  *)
(* and confidences in percent.  The three operators on texts are left out. *)
(***************************************************************************)
EXTENDS Integers, Sequences

Null == <<>>

\* get_fact, of a fact that is there and is not null
Given(context, fact) == fact \in DOMAIN context /\ context[fact] # Null
Value(context, fact) == context[fact][1]

UnaryOps == {"exists", "not_exists"}
OPS == UnaryOps \cup {"==", "!=", "<", "<=", ">", ">=", "in", "not_in", "contains"}

_compare(context, r) ==
  LET given == Given(context, r.fact)
      v == Value(context, r.fact)
      missing == r.fact \notin DOMAIN context
  IN  CASE r.op = "exists" -> given
        [] r.op = "not_exists" -> ~given
        [] r.op = "==" -> given /\ v = r.value
        [] r.op = "!=" -> ~missing /\ (given => v # r.value)
        [] r.op = "<" -> given /\ v < r.value
        [] r.op = "<=" -> given /\ v <= r.value
        [] r.op = ">" -> given /\ v > r.value
        [] r.op = ">=" -> given /\ v >= r.value
        [] r.op = "in" -> given /\ v \in r.value
        [] r.op = "not_in" -> ~missing /\ (given => v \notin r.value)
        [] r.op = "contains" -> given /\ r.value \in v

RECURSIVE matches(_, _)
matches(r, context) ==
  IF "all" \in DOMAIN r THEN \A i \in DOMAIN r.all : matches(r.all[i], context)
  ELSE IF "any" \in DOMAIN r THEN \E i \in DOMAIN r.any : matches(r.any[i], context)
  ELSE IF "not" \in DOMAIN r THEN ~matches(r.not, context)
  ELSE _compare(context, r)

RECURSIVE validate_rule(_)
validate_rule(r) ==
  IF "all" \in DOMAIN r THEN r.all # <<>> /\ \A i \in DOMAIN r.all : validate_rule(r.all[i])
  ELSE IF "any" \in DOMAIN r THEN r.any # <<>> /\ \A i \in DOMAIN r.any : validate_rule(r.any[i])
  ELSE IF "not" \in DOMAIN r THEN validate_rule(r.not)
  ELSE /\ {"fact", "op"} \subseteq DOMAIN r
       /\ r.op \in OPS
       /\ r.op \in UnaryOps \/ "value" \in DOMAIN r

Is(fact, op, value) == [fact |-> fact, op |-> op, value |-> value]
Exists(fact) == [fact |-> fact, op |-> "exists"]

DISPUTE_CAUSES == {"DISPUTE_PRICING", "DISPUTE_QUANTITY", "DUPLICATE_INVOICE", "SHORT_PAY"}
RoutineTemplates == {"po_request", "resend_invoice", "payment_reminder"}

\* The rules of DEFAULT_POLICIES, by the policy's name.
DEFAULT_RULES == [
  small_credit_memo_autonomy |->
    [all |-> << Is("action.amount", "<=", 100000), Is("case.root_cause", "in", DISPUTE_CAUSES),
                Is("case.root_cause_conf", ">=", 85), Is("evidence.has_po_match", "==", TRUE) >>],
  credit_memo_over_5000_manager |-> Is("action.amount", ">", 500000),
  credit_memo_default_analyst |-> Is("action.amount", ">", 0),
  credit_hold_blocks_payment_plan |-> Is("customer.credit_hold", "==", TRUE),
  payment_plan_within_limits |->
    [all |-> << Is("action.discount_pct", "<=", 2), Is("action.extension_days", "<=", 30),
                Is("action.installments", "<=", 3) >>],
  payment_plan_default_manager |-> Exists("action.installments"),
  email_low_tone_deny |-> Is("email.tone_score", "<", 70),
  email_routine_templates_allow |->
    [all |-> << Is("email.template", "in", RoutineTemplates), Is("email.tone_score", ">=", 70),
                Is("email.recipient_known", "==", TRUE) >>],
  email_default_analyst |-> Exists("email.to"),
  rebill_manager |-> Exists("action.invoice_ref"),
  escalate_allow |-> Exists("action.reason")]

\* A policy as it is submitted.  Its rule is known by a name.
Policy(name, type, priority, decision, role) ==
  [name |-> name, type |-> type, priority |-> priority,
   body |-> [rule |-> name, decision |-> decision, role |-> role]]

DEFAULT_POLICIES == {
  Policy("small_credit_memo_autonomy", "CREATE_CREDIT_MEMO", 10, "ALLOW", "none"),
  Policy("credit_memo_over_5000_manager", "CREATE_CREDIT_MEMO", 20, "REQUIRE_APPROVAL", "manager"),
  Policy("credit_memo_default_analyst", "CREATE_CREDIT_MEMO", 900, "REQUIRE_APPROVAL", "analyst"),
  Policy("credit_hold_blocks_payment_plan", "PAYMENT_PLAN", 1, "DENY", "none"),
  Policy("payment_plan_within_limits", "PAYMENT_PLAN", 10, "ALLOW", "none"),
  Policy("payment_plan_default_manager", "PAYMENT_PLAN", 900, "REQUIRE_APPROVAL", "manager"),
  Policy("email_low_tone_deny", "SEND_EMAIL", 1, "DENY", "none"),
  Policy("email_routine_templates_allow", "SEND_EMAIL", 10, "ALLOW", "none"),
  Policy("email_default_analyst", "SEND_EMAIL", 900, "REQUIRE_APPROVAL", "analyst"),
  Policy("rebill_manager", "REBILL", 10, "REQUIRE_APPROVAL", "manager"),
  Policy("escalate_allow", "ESCALATE", 10, "ALLOW", "none")}
=============================================================================

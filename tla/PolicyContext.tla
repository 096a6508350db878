---------------------------- MODULE PolicyContext ----------------------------
(***************************************************************************)
(* The facts the tool gateway puts before the policy service, for each     *)
(* tool that asks it.  A situation w is what is so:                        *)
(*   case      [root_cause, conf], conf in percent or Null                 *)
(*   hold      the case's customer is on credit hold                       *)
(*   payload   what the model submits, by fact                             *)
(*   docs, open  the documents and balance of the invoice it names         *)
(*   targets   of a plan: whether its customer is on hold, and its terms   *)
(*   mail      [template, tone, known]                                     *)
(* read says whether the ERP answered when the base context was put        *)
(* together.                                                               *)
(*                                                                         *)
(*   services/tool-gateway/recoup_tool_gateway/{service,context}.py,       *)
(*   tools/{case_tools,erp_write,comm_tools,policy_tools}.py               *)
(***************************************************************************)
EXTENDS Reconcile, TLC

\* The customer is left out when the ERP cannot be asked.
base_policy_context(w, read) ==
  ("case.root_cause" :> <<w.case.root_cause>>) @@ ("case.root_cause_conf" :> w.case.conf)
  @@ (IF read THEN "customer.credit_hold" :> <<w.hold>> ELSE <<>>)

\* Later facts replace earlier ones.
Updated(context, facts) == facts @@ context

\* Evidence is computed here, whatever the payload says.
credit_memo_facts(w, found) ==
  IF ~found THEN ("evidence.has_po_match" :> <<FALSE>>) @@ ("evidence.reconciled" :> <<FALSE>>)
  ELSE LET amount == w.payload["action.amount"][1]
       IN  ("evidence.reconciled" :> <<TRUE>>) @@ ("evidence.has_po_match" :> <<has_po_match(w.docs)>>)
           @@ ("evidence.amount_within_reconciled" :>
                 <<amount_within_reconciled(w.docs, w.open, amount)>>)
           @@ ("evidence.full_open_balance" :> <<amount = w.open>>)

\* The customer the plan pays for, and an extension computed from its dates.
_plan_facts(w) ==
  ("action.installments" :> w.payload["action.installments"])
  @@ ("action.discount_pct" :> w.payload["action.discount_pct"])
  @@ ("action.extension_days" :> <<w.targets.extension>>)
  @@ ("customer.credit_hold" :> <<w.targets.hold>>)

email_facts(w) ==
  ("email.to" :> <<"to">>) @@ ("email.template" :> w.mail.template)
  @@ ("email.tone_score" :> <<w.mail.tone>>) @@ ("email.recipient_known" :> <<w.mail.known>>)

_propose_facts(w, type, found) ==
  (IF type = "CREATE_CREDIT_MEMO" THEN credit_memo_facts(w, found)
   ELSE IF type = "SEND_EMAIL" THEN email_facts(w) ELSE <<>>) @@ w.payload

\* The context of a call of each tool; none when the tool cannot say.
Contexts(tool, type, w) ==
  CASE tool = "propose_action" ->
         {Updated(base_policy_context(w, read), _propose_facts(w, type, found)) :
            read \in BOOLEAN, found \in BOOLEAN}
    [] tool = "create_credit_memo" ->
         {Updated(base_policy_context(w, read), credit_memo_facts(w, found) @@ w.payload) :
            read \in BOOLEAN, found \in BOOLEAN}
    [] tool = "apply_payment_plan" ->
         {Updated(base_policy_context(w, read), _plan_facts(w)) : read \in BOOLEAN}
    [] tool = "send_email" ->
         {Updated(base_policy_context(w, read), email_facts(w)) : read \in BOOLEAN}
    [] tool = "evaluate_policy" ->
         {Updated(base_policy_context(w, read), w.payload) : read \in BOOLEAN}
=============================================================================

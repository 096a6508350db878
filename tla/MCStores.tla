------------------------------ MODULE MCStores ------------------------------
(* Instances, for TLC, of the tables that several people and agents write at   *)
(* once: a case and its actions, a tenant's policies, a prompt's versions.     *)
(* Each is its own service's, so the run explores one at a time.               *)
EXTENDS CaseService, PolicyStore, PolicyRules, PolicyContext, PromptStore

\* Proposals carry one verdict of each kind.
OneOfEach == {<<"ALLOW", "none">>, <<"REQUIRE_APPROVAL", "none">>,
              <<"REQUIRE_APPROVAL", "manager">>, <<"DENY", "none">>}

-----------------------------------------------------------------------------
(* A starter pack of one policy and one of the tenant's own judge a payment  *)
(* plan and a credit memo; a broken one is refused.                           *)

TenantRules == [freeze |-> [not |-> Exists("case.thawed")],
                any_terms |-> [any |-> <<Exists("action.installments"), Exists("email.to")>>],
                broken |-> [any |-> <<>>]]
RuleText == DEFAULT_RULES @@ TenantRules

MCMatches(rule, context) == matches(RuleText[rule], context)
MCValid(rule) == validate_rule(RuleText[rule])

NameOrder == <<"credit_hold_blocks_payment_plan", "freeze">>
MCNameRank(name) == CHOOSE i \in DOMAIN NameOrder : NameOrder[i] = name

OneDefault == {d \in DEFAULT_POLICIES : d.name = "credit_hold_blocks_payment_plan"}
OwnPolicies ==
  {Policy("freeze", "*", 100, "DENY", "none"), Policy("broken", "*", 1, "ALLOW", "none")}
Freely == {[rule |-> "any_terms", decision |-> "ALLOW", role |-> "none"]}

\* A case of a customer in good standing whose plan would pay for one on hold.
Plan ==
  [case |-> [root_cause |-> "CASH_FLOW", conf |-> Null], hold |-> FALSE,
   payload |-> ("action.installments" :> <<3>>) @@ ("action.discount_pct" :> <<0>>),
   targets |-> [hold |-> TRUE, extension |-> 30]]

\* An invoice that bills its order's two units at 300.00 instead of 250.00.
Overpriced ==
  [lines |-> << [sku |-> "a", qty |-> 2, price |-> 30000, freight |-> FALSE] >>,
   freight |-> 0, tax |-> 6000, subtotal |-> 60000,
   po |-> [found |-> TRUE, ours |-> TRUE, lines |-> [a |-> [qty |-> 2, price |-> 25000]]],
   delivered |-> <<>>, contract |-> [found |-> FALSE, prices |-> <<>>, freight_billable |-> TRUE]]
Memo ==
  [case |-> [root_cause |-> "DISPUTE_PRICING", conf |-> <<90>>], hold |-> FALSE,
   payload |-> "action.amount" :> <<11000>>, docs |-> Overpriced, open |-> 66000]

\* A plan and a memo when proposed and the plan when applied, whatever could be gathered.
Asked(tool, type, w) == {[type |-> type, context |-> x] : x \in Contexts(tool, type, w)}

FewQuestions ==
  Asked("apply_payment_plan", "PAYMENT_PLAN", Plan)
  \cup Asked("propose_action", "PAYMENT_PLAN", Plan)
  \cup Asked("propose_action", "CREATE_CREDIT_MEMO", Memo)

-----------------------------------------------------------------------------

MCNext ==
  \/ PolicyInit /\ PromptInit /\ Next /\ UNCHANGED <<policies, prompts>>
  \/ Init /\ PromptInit /\ PolicyNext /\ UNCHANGED <<vars, prompts>>
  \/ Init /\ PolicyInit /\ PromptNext /\ UNCHANGED <<vars, policies>>

MCInit == Init /\ PolicyInit /\ PromptInit
MCSpec == MCInit /\ [][MCNext]_<<vars, policies, prompts>>

Symmetry == Permutations(Requests) \cup Permutations(Actions)
=============================================================================

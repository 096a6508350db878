------------------------------ MODULE Playbook ------------------------------
(***************************************************************************)
(* The case workflow (CaseWorkflow) when no language model is configured:  *)
(* rule-based stand-ins answer in place of each agent's model.             *)
(*                                                                         *)
(*   services/orchestrator/recoup_orchestrator/agents/heuristics.py        *)
(*                                                                         *)
(* What CaseWorkflow leaves to any choice the supervisor's playbook and    *)
(* the specialists' scripts decide here, from what they read of the        *)
(* CaseState.  What they ask the ERP and the mailbox is any input; a       *)
(* script's tool calls, five turns at most, are AgentLoop's subject.       *)
(***************************************************************************)
EXTENDS CaseWorkflow, SequencesExt

CONSTANTS Memos, Plans   \* actions of type CREATE_CREDIT_MEMO, PAYMENT_PLAN

VARIABLE book   \* what the stand-ins read of CaseState and CaseWorkflow keeps nothing of

playbook == <<vars, book>>

\* DISPUTE: a wrong price or quantity, or a duplicate.
RootCauses == {"MISSING_PO", "WRONG_CONTACT", "SHORT_PAY", "CASH_FLOW", "DISPUTE", "UNKNOWN"}
DISPUTES == {"DISPUTE", "SHORT_PAY"}
\* What a reply may be read as; NEEDS_HUMAN is any of the five that are handed over.
Kinds == {"SETTLES", "PROVIDES_PO", "REDIRECTS_CONTACT", "NEEDS_HUMAN"}
FOLLOWUP_HOURS == <<72, 168, 336>>

NoMail == <<"none", 0>>

PlayInit ==
  /\ Init
  /\ book = [triage |-> None, cause |-> None, credit |-> FALSE, reconciled |-> FALSE,
             negotiated |-> FALSE, reply |-> None, last |-> None, waits |-> 0,
             expired |-> None,                         \* the wait that ended last
             replies |-> 0,                            \* replies merged
             proposed |-> None,                        \* by the specialist at work
             asked |-> [a \in Emails |-> NoMail],      \* what a proposal's call was keyed by
             purpose |-> [a \in Emails |-> "none"]]    \* of a mail this run tracks

-----------------------------------------------------------------------------
(* The supervisor's playbook: the first of its rules that applies.            *)

email_sent(s) == \E a \in Emails : s.actions[a] = "EXECUTED"

Resent(s) == \E a \in Emails : s.actions[a] = "EXECUTED" /\ book.purpose[a] = "resend_invoice"

Rules(s) ==
  LET cause == IF book.cause # None THEN book.cause ELSE book.triage
      replied == book.reply # None /\ book.last = "customer_reply"
      timeout == book.last = "timeout"
      Fresh(agent) == s.runs[agent] < 1
  IN << <<100 * s.step >= 85 * MaxSteps, "ESCALATED">>,
        <<Pending(s), "AWAIT_APPROVAL">>,
        <<\E a \in Actions : s.actions[a] \in {"REJECTED", "DENIED"}, "ESCALATED">>,
        <<book.triage = None /\ Fresh("Triage"), "Triage">>,
        <<book.cause = None /\ Fresh("Investigator"), "Investigator">>,
        <<replied /\ book.reply = "SETTLES", "RESOLVED">>,
        <<replied /\ book.reply = "PROVIDES_PO" /\ Resent(s), "RESOLVED">>,
        <<replied /\ book.reply \in {"PROVIDES_PO", "REDIRECTS_CONTACT"}, "Communicator">>,
        <<replied, "ESCALATED">>,
        <<timeout /\ book.waits >= Len(FOLLOWUP_HOURS), "ESCALATED">>,
        <<timeout, "Communicator">>,
        <<cause \in DISPUTES /\ book.credit /\ ~book.reconciled /\ Fresh("Reconciler"), "Reconciler">>,
        <<cause = "CASH_FLOW" /\ ~book.negotiated /\ Fresh("Negotiator"), "Negotiator">>,
        <<~email_sent(s) /\ Fresh("Communicator"), "Communicator">>,
        <<email_sent(s) /\ book.last # "customer_reply", "WAIT_FOR_CUSTOMER">>,
        <<TRUE, "ESCALATED">> >>

supervisor(s) ==
  LET rules == Rules(s)
      Applies(k) == rules[k][1]
      first == CHOOSE k \in DOMAIN rules : Applies(k) /\ \A j \in 1..k - 1 : ~Applies(j)
  IN rules[first][2]

\* A stand-in spends no tokens.
Decides ==
  /\ supervisor_step
  /\ Goes(effective_next(st', supervisor(st), FALSE))
  /\ UNCHANGED book

-----------------------------------------------------------------------------
(* Signals, replies and waits, as they end up in CaseState. *)

WaitExpires == Expires /\ book' = [book EXCEPT !.expired = pc]

\* An approval that did not come is a signal of another type, and a wait all the same.
MergesSignals ==
  LET expired == Contains(io.batch, "timeout")
      replied == Len(SelectSeq(io.batch, LAMBDA s : s = "customer_reply"))
      Type(s) == IF s = "timeout" /\ book.expired = "approval" THEN "approval_timeout" ELSE s
  IN /\ merge_signals
     /\ book' = IF io.batch = <<>> THEN book
                ELSE [book EXCEPT !.last = Type(Last(io.batch)), !.replies = @ + replied,
                                  !.waits = @ + IF expired THEN 1 ELSE 0]

Meaning(kind) == IF kind \in Intents THEN kind ELSE "OTHER"

\* intent: a reading of the newest mail in; when it fails, the one before stands.
ReadsReply ==
  /\ Intent
  /\ IF st'.step = st.step THEN UNCHANGED book
     ELSE \E kind \in Kinds : st'.intent = Meaning(kind) /\ book' = [book EXCEPT !.reply = kind]

-----------------------------------------------------------------------------
(* The specialists. *)

Facts == {"po_missing", "contact_left", "paid_short", "risky"}

TopCause(facts) ==
  CASE "po_missing" \in facts -> "MISSING_PO"
    [] "po_missing" \notin facts /\ "contact_left" \in facts -> "WRONG_CONTACT"
    [] facts \cap {"po_missing", "contact_left"} = {} /\ "paid_short" \in facts -> "SHORT_PAY"
    [] facts = {"risky"} -> "CASH_FLOW"
    [] OTHER -> "DISPUTE"

triage ==
  /\ io.agent = "Triage" /\ st'.actions = st.actions
  /\ \E top \in {TopCause(facts) : facts \in SUBSET Facts} \cup {"UNKNOWN"} :
       book' = [book EXCEPT !.triage = top]

\* What reconciling may find; "failed" when the gateway has no answer.
Findings == SUBSET {"DUPLICATE", "DEVIATION", "FREIGHT"} \cup {{"failed"}}

Confirmed(found) ==
  CASE found = {"failed"} -> "UNKNOWN"
    [] found \cap {"DUPLICATE", "DEVIATION"} # {} -> "DISPUTE"
    [] found = {"FREIGHT"} /\ book.triage = "SHORT_PAY" -> "SHORT_PAY"
    [] OTHER -> IF book.triage \in {"MISSING_PO", "WRONG_CONTACT", "SHORT_PAY", "CASH_FLOW"}
                THEN book.triage ELSE "CASH_FLOW"

\* Of a credit that would be nothing, because nothing is open, none is spoken of.
CreditShown(found) ==
  found \cap {"DUPLICATE", "DEVIATION"} # {} \/ (found = {"FREIGHT"} /\ book.triage = "SHORT_PAY")

investigator ==
  /\ io.agent = "Investigator" /\ st'.actions = st.actions
  /\ \E found \in Findings, open \in BOOLEAN :
       book' = [book EXCEPT !.cause = Confirmed(found), !.credit = open /\ CreditShown(found)]

Own(agent) == CASE agent = "Communicator" -> Emails
                [] agent = "Reconciler" -> Memos
                [] agent = "Negotiator" -> Plans

AnyExecuted(S) == \E a \in S : st.actions[a] = "EXECUTED"

template ==
  CASE book.last = "timeout" -> "payment_reminder"
    [] OTHER ->
       IF book.reply \in {"PROVIDES_PO", "REDIRECTS_CONTACT"} \/ book.cause = "WRONG_CONTACT"
       THEN "resend_invoice"
       ELSE IF book.cause = "MISSING_PO" THEN "po_request"
       ELSE IF AnyExecuted(Memos) THEN "dispute_resolution"
       ELSE IF AnyExecuted(Plans) \/ book.negotiated THEN "payment_plan_offer"
       ELSE IF book.cause = "SHORT_PAY" THEN "short_pay_followup" ELSE "payment_reminder"

\* The loop keys a call by run, agent, turn and arguments, not by the step: the same mail
\* proposed at a later step is answered from the gateway's records.
Key == <<template, book.replies>>
Replayed == {a \in Emails : io.agent = "Communicator" /\ book.asked[a] = Key}
\* One open proposal per action type: a second call returns it.
OpenProposals(agent) == {a \in Own(agent) : case.acts[a] \in {"PENDING", "APPROVED"}}

\* A new proposal; of a mail asked for before only if the invoice has changed since.
ProposesNew(a) ==
  /\ propose_action(a)
  /\ a \in Own(io.agent) /\ book.proposed = None /\ OpenProposals(io.agent) = {}
  /\ a = CHOOSE b \in Own(io.agent) : case.acts[b] = "absent"
  /\ book' = [book EXCEPT !.proposed = a,
                !.asked = IF a \in Emails THEN [@ EXCEPT ![a] = Key] ELSE @]

\* The id the gateway answered, if it answered: nothing is owed, no plan is offered to a
\* customer on hold, and a call may fail.
Answers ==
  {None} \cup
    IF mode = "SHADOW" THEN {a \in Own(io.agent) : st.actions[a] = "untracked"}
    ELSE IF book.proposed # None THEN {book.proposed}
    ELSE OpenProposals(io.agent) \cup Replayed

Tracks(id) ==
  IF id # None /\ st.actions[id] = "untracked" THEN [st.actions EXCEPT ![id] = "PENDING"]
  ELSE st.actions

proposer ==
  /\ io.agent \in Proposers
  /\ \E id \in Answers :
       /\ st'.actions = Tracks(id)
       /\ book' = [book EXCEPT
            !.proposed = None,
            !.reconciled = @ \/ io.agent = "Reconciler",
            !.negotiated = @ \/ io.agent = "Negotiator",
            !.purpose = IF id \in Emails /\ st.actions[id] = "untracked"
                        THEN [@ EXCEPT ![id] = template] ELSE @]

Submits == run_specialist /\ (triage \/ investigator \/ proposer)

-----------------------------------------------------------------------------
(* The rest of the workflow goes on as it does with any model. *)

GoesOn ==
  /\ \/ load_case_state \/ BudgetEnds \/ Cancels \/ Pauses \/ Resumes \/ Merges \/ Thinks
     \/ Woken \/ refresh_actions \/ AllExecuted
     \/ \E a \in Actions : execute_action(a) \/ simulate_action(a) \/ execute_fails(a)
     \/ WaitsForHuman \/ WaitsForCustomer \/ WaitsForApproval \/ AgentFails
     \/ finalize_case \/ RecordsOutcome \/ FinalizeFails \/ Crashes
     \/ Outside
  /\ UNCHANGED book

PlayNext ==
  \/ Decides \/ WaitExpires \/ MergesSignals \/ ReadsReply \/ Submits
  \/ \E a \in Actions : ProposesNew(a)
  \/ GoesOn

PlaySpec == PlayInit /\ [][PlayNext]_playbook

-----------------------------------------------------------------------------
(* Properties *)

\* docs/architecture.md: "each wait timeout increments waits; the Communicator sends the
\* next reminder; after three unanswered follow-ups the case escalates": a case in which a
\* mail and a reminder after each wait went out, nobody answered, nothing was turned down
\* and budget is left is given up after the three waits, not before.
Sent == {a \in Emails : st.actions[a] = "EXECUTED"}
FollowUpsFirst ==
  /\ pc = "finalize" /\ io.outcome = "ESCALATED" /\ mode = "LIVE"
  /\ book.replies = 0 /\ Cardinality(Sent) > book.waits
  /\ 100 * st.step < 85 * MaxSteps
  /\ \A a \in Actions : st.actions[a] \notin {"REJECTED", "DENIED"}
  => book.waits >= Len(FOLLOWUP_HOURS)
=============================================================================

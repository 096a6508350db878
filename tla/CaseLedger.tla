---------------------------- MODULE CaseLedger ----------------------------
(***************************************************************************)
(* What the case service promises the rest of the system: a ledger on      *)
(* which every operation happens at one instant.  Each action reads the    *)
(* state it changes in the step that changes it, and announces what it did *)
(* in the same step.  There are no requests, sessions, snapshots or row    *)
(* versions here; CaseService has them and is shown to implement this.     *)
(***************************************************************************)
EXTENDS CaseStateMachine

CONSTANTS Cases,    \* case ids
          Actions,  \* proposed-action ids
          Invoices, \* ERP invoice references
          None      \* "no action", "no case"

VARIABLES status,   \* status[c], or "none" while the case does not exist
          mode,     \* agent_mode
          refs,     \* invoice_refs
          act,      \* proposed actions
          log       \* log[c]: the events of the aggregate, in outbox order

ledger == <<status, mode, refs, act, log>>

NoAction ==
  [case |-> None, status |-> "none", policy |-> "none", required |-> "none",
   decided_by |-> "none"]

Say(c, events) == log' = [log EXCEPT ![c] = @ \o events]

Exists(c) == status[c] # "none"
Live(c) == Exists(c) /\ ~is_terminal(status[c])

Init ==
  /\ status = [c \in Cases |-> "none"]
  /\ mode = [c \in Cases |-> "AUTONOMOUS"]
  /\ refs = [c \in Cases |-> {}]
  /\ act = [a \in Actions |-> NoAction]
  /\ log = [c \in Cases |-> <<>>]

\* An invoice is collected through one case only.
Open(c, S) ==
  /\ ~Exists(c)
  /\ \A d \in Cases : refs[d] \cap S = {}
  /\ status' = [status EXCEPT ![c] = "NEW"]
  /\ refs' = [refs EXCEPT ![c] = S]
  /\ Say(c, <<Event("case.created", "none", "NEW", None)>>)
  /\ UNCHANGED <<mode, act>>

Move(c, to) ==
  /\ Exists(c)
  /\ can_transition(status[c], to)
  /\ status' = [status EXCEPT ![c] = to]
  /\ Say(c, StateChanged(status[c], to, None))
  /\ UNCHANGED <<mode, refs, act>>

Note(c) ==
  /\ Exists(c)
  /\ Say(c, <<Event("case.note.added", "none", "none", None)>>)
  /\ UNCHANGED <<status, mode, refs, act>>

TakeOver(c) ==
  /\ Live(c)
  /\ mode[c] = "AUTONOMOUS"
  /\ mode' = [mode EXCEPT ![c] = "HUMAN_CONTROL"]
  /\ Say(c, <<Event("case.takeover", "none", "none", None)>>)
  /\ UNCHANGED <<status, refs, act>>

HandBack(c) ==
  /\ Exists(c)
  /\ mode[c] = "HUMAN_CONTROL"
  /\ mode' = [mode EXCEPT ![c] = "AUTONOMOUS"]
  /\ Say(c, <<Event("case.released", "none", "none", None)>>)
  /\ UNCHANGED <<status, refs, act>>

\* A proposal that needs a human parks its case in PENDING_APPROVAL.
Propose(c, a, policy, required) ==
  LET parks == policy = "REQUIRE_APPROVAL" /\ status[c] # "PENDING_APPROVAL"
  IN
  /\ Live(c)
  /\ act[a] = NoAction
  /\ act' = [act EXCEPT ![a] =
               [case |-> c, status |-> InitialActionStatus[policy], policy |-> policy,
                required |-> required, decided_by |-> "none"]]
  /\ IF parks
     THEN /\ status' = [status EXCEPT ![c] = "PENDING_APPROVAL"]
          /\ Say(c, <<Event("case.action.proposed", "none", "none", a)>>
                      \o StateChanged(status[c], "PENDING_APPROVAL", None))
     ELSE /\ Say(c, <<Event("case.action.proposed", "none", "none", a)>>)
          /\ UNCHANGED status
  /\ UNCHANGED <<mode, refs>>

\* One decision per action; the last one on a parked case hands it back.
Decide(c, a, decision, role) ==
  LET othersPending == \E b \in Actions \ {a} : act[b].case = c /\ act[b].status = "PENDING"
      to == IF decision = "REJECTED" THEN "INVESTIGATING" ELSE "ACTION_TAKEN"
  IN
  /\ act[a].case = c
  /\ act[a].status = "PENDING"
  /\ Satisfies(role, act[a].required)
  /\ act' = [act EXCEPT ![a] = [act[a] EXCEPT !.status = decision, !.decided_by = role]]
  /\ IF ~othersPending /\ status[c] = "PENDING_APPROVAL"
     THEN /\ status' = [status EXCEPT ![c] = to]
          /\ Say(c, <<Event(DecisionEvent[decision], "none", "none", a)>>
                      \o StateChanged("PENDING_APPROVAL", to, None))
     ELSE /\ Say(c, <<Event(DecisionEvent[decision], "none", "none", a)>>)
          /\ UNCHANGED status
  /\ UNCHANGED <<mode, refs>>

Execute(a) ==
  /\ act[a].status \in {"APPROVED", "EDITED"}
  /\ act' = [act EXCEPT ![a] = [act[a] EXCEPT !.status =
               IF act[a].policy = "ALLOW" /\ act[a].decided_by = "none"
               THEN "AUTO_EXECUTED" ELSE "EXECUTED"]]
  /\ UNCHANGED <<status, mode, refs, log>>

Next ==
  \E c \in Cases :
    \/ \E S \in (SUBSET Invoices) \ {{}} : Open(c, S)
    \/ \E to \in CaseStatus : Move(c, to)
    \/ Note(c)
    \/ TakeOver(c)
    \/ HandBack(c)
    \/ \E a \in Actions :
         \/ \E policy \in PolicyDecision, required \in Role \cup {"none"} :
              Propose(c, a, policy, required)
         \/ \E decision \in Decision, role \in Role : Decide(c, a, decision, role)
         \/ Execute(a)

Spec == Init /\ [][Next]_ledger
=============================================================================

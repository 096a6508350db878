---------------------------- MODULE CaseWorkflow ----------------------------
(***************************************************************************)
(* One run of the durable workflow that works a case:                      *)
(*   services/orchestrator/recoup_orchestrator/workflows/case_workflow.py  *)
(*   services/orchestrator/recoup_orchestrator/workflows/activities.py     *)
(* together with what happens around it: people decide, take over and      *)
(* cancel; customers reply; the event bridge (consumer.py, runs.py) turns  *)
(* the events into signals, sometimes twice, sometimes not at all.         *)
(* The supervisor and the specialists are language models: what they       *)
(* answer is any choice.  What the code does with it is not.               *)
(* Workflow code between two awaits is atomic; an activity is one step, or *)
(* several where an attempt can fail after it changed something.           *)
(***************************************************************************)
EXTENDS Naturals, Sequences, FiniteSets

CONSTANTS
  Actions,      \* ids of the case's proposed actions
  Emails,       \* those of type SEND_EMAIL
  Specialists,  \* SPECIALISTS_AVAILABLE
  RunLimit,     \* how often one specialist may run (3 in the code)
  Earlier,      \* statuses in which earlier runs and people may have left the actions
  MaxSteps,     \* max_steps_per_run
  MaxTries,     \* attempts of an activity that changes something (RETRY_SHORT: 10)
  MaxEvents,    \* bound: what people and customers do, and what the bridge repeats
  None

Proposers == {"Reconciler", "Negotiator", "Communicator"}
SPECIALISTS == {"Triage", "Investigator"} \cup Proposers
\* APPROVED stands for EDITED as well: the workflow treats them alike.
Stored == {"absent", "PENDING", "APPROVED", "REJECTED", "DENIED", "EXECUTED"}

ASSUME WorkflowAssumption ==
  /\ Emails \subseteq Actions /\ IsFiniteSet(Actions)
  /\ MaxSteps \in Nat \ {0} /\ MaxTries \in Nat \ {0} /\ RunLimit \in Nat
  /\ Earlier \subseteq Stored /\ Specialists \subseteq SPECIALISTS
  /\ MaxEvents \in Nat

VARIABLES
  pc,       \* where the workflow is
  st,       \* CaseState, handed from activity to activity
  io,       \* the arguments of the activity under way, and where to go after it
  pending,  \* signals received and not yet merged
  human,    \* human_control
  cancel,   \* cancel_reason is set
  run,      \* status of the agent_runs row
  mode,     \* LIVE or SHADOW
  case,     \* what the case service holds: statuses of the actions, what this run did
  mail,     \* events on their way through Kafka to the bridge
  count     \* how many of MaxEvents have been used

vars == <<pc, st, io, pending, human, cancel, run, mode, case, mail, count>>
signals == <<pending, human, cancel>>
outside == <<mail, count>>

Decisions == SPECIALISTS \cup {"WAIT_FOR_CUSTOMER", "AWAIT_APPROVAL", "RESOLVED", "ESCALATED"}
Intents == {"SETTLES", "PROVIDES_PO", "OTHER"}  \* SETTLES: CONFIRMS_PAYMENT, ACCEPTS_OFFER
Tracked == {"untracked", "PENDING", "APPROVED", "REJECTED", "DENIED", "EXECUTED", "SIMULATED"}
Mail == {"customer_reply", "action_decided", "takeover", "release"}
Signal == {"customer_reply", "action_decided", "timeout"}
Waits == {"customer", "approval"}

Ended == pc \in {"done", "crashed"}

-----------------------------------------------------------------------------
(* CaseState: what the guards read of it. *)

Pending(s) == \E a \in Actions : s.actions[a] = "PENDING"
approved_unexecuted(s) == {a \in Actions : s.actions[a] = "APPROVED"}
Emailed(s) == \E a \in Emails : s.actions[a] = "EXECUTED"
Replied(seq) == \E i \in 1..Len(seq) : seq[i] = "customer_reply"
\* state.signals[-3:], all that is read again of the signals merged so far.
Latest(seq) == IF Len(seq) <= 3 THEN seq ELSE SubSeq(seq, Len(seq) - 2, Len(seq))

_resolution_secured(s) ==
  \/ s.paid
  \/ s.intent = "SETTLES"
  \/ s.intent = "PROVIDES_PO" /\ Emailed(s)

\* Any prior LIVE proposal that was not turned down is tracked from the start.
Prior(acts) ==
  [a \in Actions |-> IF mode = "LIVE" /\ acts[a] \notin {"absent", "REJECTED", "DENIED"}
                     THEN acts[a] ELSE "untracked"]

\* _refresh_actions: the stored status of every tracked action the case knows, and
\* with them a fresh copy of the case; nothing is read when nothing is tracked.
Known(tracked, acts) ==
  [a \in Actions |-> IF tracked[a] = "untracked" \/ acts[a] = "absent" THEN tracked[a]
                     ELSE acts[a]]
Refreshed(s, acts) ==
  IF \A a \in Actions : s.actions[a] = "untracked" THEN {s}
  ELSE {[s EXCEPT !.actions = Known(s.actions, acts), !.paid = paid] : paid \in BOOLEAN}

\* The effective next step: the model's choice d after the guardrails.
Guarded(s, d) ==
  IF d \in SPECIALISTS \ Specialists THEN "ESCALATED"
  ELSE IF d \in SPECIALISTS /\ s.runs[d] >= RunLimit THEN "ESCALATED"
  ELSE IF Pending(s) /\ d \notin {"AWAIT_APPROVAL", "ESCALATED"} THEN "AWAIT_APPROVAL"
  ELSE IF \/ d = "RESOLVED" /\ ~_resolution_secured(s)
          \/ d \in {"Reconciler", "Negotiator"} /\ ~s.informed
          \/ d = "WAIT_FOR_CUSTOMER" /\ ~Emailed(s)
       THEN "ESCALATED" ELSE d

\* A mutation: the budget is left to the head of the loop.
LooseBudget(s, d, tokens_spent) == Guarded(s, d)

\* Tokens run out at any supervisor step; then, as with the steps, the run ends, so
\* the sum need not be kept.
effective_next(s, d, tokens_spent) ==
  IF (tokens_spent \/ s.step >= MaxSteps) /\ Guarded(s, d) \notin {"RESOLVED", "ESCALATED"}
  THEN "ESCALATED" ELSE Guarded(s, d)

-----------------------------------------------------------------------------
NoArgs == [agent |-> None, batch |-> <<>>, then |-> "loop", todo |-> {}, tries |-> 0,
           outcome |-> None]

Init ==
  /\ pc = "load" /\ run = "none" /\ io = NoArgs
  /\ pending = <<>> /\ human = FALSE /\ cancel = FALSE
  /\ mode \in {"LIVE", "SHADOW"}
  /\ \E acts \in [Actions -> Earlier] :
       case = [acts |-> acts, moved |-> None, noted |-> FALSE]
  /\ st = [step |-> 0, actions |-> [a \in Actions |-> "untracked"],
           runs |-> [s \in SPECIALISTS |-> 0], signals |-> <<>>,
           informed |-> FALSE, paid |-> FALSE, intent |-> None]
  /\ mail = <<>> /\ count = 0

load_case_state ==
  /\ pc = "load" /\ pc' = "loop" /\ run' = "RUNNING"
  /\ \E informed, paid \in BOOLEAN :
       st' = [st EXCEPT !.actions = Prior(case.acts), !.informed = informed, !.paid = paid]
  /\ UNCHANGED <<io, signals, mode, case, outside>>

\* _finalize(state, outcome, ...): the arguments are fixed before the first attempt.
Finalizes(outcome) == pc' = "finalize" /\ io' = [NoArgs EXCEPT !.outcome = outcome]

-----------------------------------------------------------------------------
(* The head of the loop. *)

WithinBudget == pc = "loop" /\ st.step < MaxSteps

BudgetEnds ==
  /\ pc = "loop" /\ st.step >= MaxSteps /\ Finalizes("ESCALATED")
  /\ UNCHANGED <<st, signals, run, mode, case, outside>>

Cancels ==
  /\ WithinBudget /\ cancel /\ Finalizes("CANCELLED")
  /\ UNCHANGED <<st, signals, run, mode, case, outside>>

\* record_wait, also called before the other waits: a row, and a line in the timeline.
record_wait(from, to) ==
  /\ pc = from /\ pc' = to /\ run' = "WAITING"
  /\ case' = [case EXCEPT !.noted = TRUE]
  /\ UNCHANGED <<st, io, signals, mode, outside>>

Pauses ==
  /\ WithinBudget /\ ~cancel /\ human /\ pc' = "record_human"
  /\ UNCHANGED <<st, io, signals, run, mode, case, outside>>

ResumesIf(resumes) ==
  /\ pc = "parked" /\ resumes /\ pc' = "loop"
  /\ UNCHANGED <<st, io, signals, run, mode, case, outside>>

\* A mutation: only a release ends the pause.
ResumesOnRelease == ResumesIf(~human)

Resumes == ResumesIf(~human \/ cancel)

Merges ==
  /\ WithinBudget /\ ~cancel /\ ~human /\ pending # <<>>
  /\ pc' = "merge" /\ pending' = <<>>
  /\ io' = [NoArgs EXCEPT !.batch = pending, !.then = "supervisor"]
  /\ UNCHANGED <<st, human, cancel, run, mode, case, outside>>

Thinks ==
  /\ WithinBudget /\ ~cancel /\ ~human /\ pending = <<>>
  /\ pc' = "supervisor"
  /\ UNCHANGED <<st, io, signals, run, mode, case, outside>>

-----------------------------------------------------------------------------
(* Waiting, merging what arrived, reading replies. *)

\* _wait_for_signals: woken by a signal, by a takeover or by a cancellation.
WokenWith(drained) ==
  /\ pc \in Waits /\ (pending # <<>> \/ human \/ cancel)
  /\ pc' = "merge" /\ pending' = <<>>
  /\ io' = [NoArgs EXCEPT !.batch = drained]
  /\ UNCHANGED <<st, human, cancel, run, mode, case, outside>>

\* A mutation: what is pending is dropped when the wait ends.
DropsPending == WokenWith(<<>>)

Woken == WokenWith(pending)

Expires ==
  /\ pc \in Waits /\ pc' = "merge"
  /\ io' = [NoArgs EXCEPT !.batch = <<"timeout">>]
  /\ UNCHANGED <<st, signals, run, mode, case, outside>>

\* After a wait the batch is searched for a reply; at the head of the loop, the
\* last three signals of the state are.
merge_signals ==
  LET merged == Latest(st.signals \o io.batch)
      replied == Replied(IF io.then = "loop" THEN io.batch ELSE merged)
  IN /\ pc = "merge" /\ pc' = IF replied THEN "intent" ELSE "refresh"
     /\ run' = "RUNNING"
     /\ IF io.batch = <<>> THEN st' = st
        ELSE \E paid \in BOOLEAN :
               st' \in Refreshed([st EXCEPT !.signals = merged, !.paid = paid], case.acts)
     /\ io' = [io EXCEPT !.batch = <<>>]
     /\ UNCHANGED <<signals, mode, case, outside>>

\* run_specialist("Intent"): its failure is suppressed.
Intent ==
  /\ pc = "intent" /\ pc' = "refresh" /\ run' = "RUNNING"
  /\ \/ \E i \in Intents : st' = [st EXCEPT !.step = @ + 1, !.intent = i]
     \/ st' = st
  /\ UNCHANGED <<io, signals, mode, case, outside>>

-----------------------------------------------------------------------------
(* _execute_ready. *)

refresh_actions ==
  \E s \in Refreshed(st, case.acts) :
    LET ready == approved_unexecuted(s)
    IN /\ pc = "refresh" /\ st' = s
       /\ IF ready = {} THEN pc' = io.then /\ io' = NoArgs
          ELSE pc' = "execute" /\ io' = [io EXCEPT !.todo = ready, !.tries = 0]
       /\ UNCHANGED <<signals, run, mode, case, outside>>

\* What the case holds after the gateway was asked to run a: run and marked, or
\* untouched, because it was refused, failed, or succeeded without being marked.
Invoked(a) == {case.acts} \cup (IF case.acts[a] = "APPROVED"
                                THEN {[case.acts EXCEPT ![a] = "EXECUTED"]} ELSE {})
Executing(a) == pc = "execute" /\ a \in io.todo /\ io.agent \in {None, a}
Executed(a) == io' = [io EXCEPT !.todo = @ \ {a}, !.agent = None, !.tries = 0]

execute_action(a) ==
  /\ Executing(a) /\ Executed(a) /\ mode = "LIVE" /\ run' = "RUNNING"
  /\ \E acts \in Invoked(a) :
       /\ case' = [case EXCEPT !.acts = acts]
       /\ st' \in Refreshed([st EXCEPT !.step = @ + 1], acts)
  /\ UNCHANGED <<pc, signals, mode, outside>>

simulate_action(a) ==
  /\ Executing(a) /\ Executed(a) /\ mode = "SHADOW"
  /\ st' = [st EXCEPT !.actions = [st.actions EXCEPT ![a] = "SIMULATED"]]
  /\ UNCHANGED <<pc, signals, run, mode, case, outside>>

\* An attempt that dies after the gateway's answer is repeated with the old state;
\* when no attempt is left the ActivityError is not caught.
execute_fails(a) ==
  /\ Executing(a) /\ mode = "LIVE" /\ run' = "RUNNING"
  /\ \E acts \in Invoked(a) : case' = [case EXCEPT !.acts = acts]
  /\ IF io.tries + 1 < MaxTries
     THEN pc' = pc /\ io' = [io EXCEPT !.tries = @ + 1, !.agent = a]
     ELSE pc' = "crashed" /\ io' = NoArgs
  /\ UNCHANGED <<st, signals, mode, outside>>

AllExecuted ==
  /\ pc = "execute" /\ io.todo = {} /\ pc' = io.then /\ io' = NoArgs
  /\ UNCHANGED <<st, signals, run, mode, case, outside>>

-----------------------------------------------------------------------------
(* The supervisor and the specialists. *)

\* Where the workflow goes with the effective next step.
Goes(next) ==
  \/ next = "WAIT_FOR_CUSTOMER" /\ pc' = "record_customer" /\ io' = NoArgs
  \/ next = "AWAIT_APPROVAL" /\ pc' = "record_approval" /\ io' = NoArgs
  \/ next \in {"RESOLVED", "ESCALATED"} /\ Finalizes(next)
  \/ next \in Specialists /\ pc' = "specialist" /\ io' = [NoArgs EXCEPT !.agent = next]

supervisor_step ==
  /\ pc = "supervisor" /\ run' = "RUNNING"
  /\ \E d \in Decisions, tokens_spent \in BOOLEAN :
       LET s == [st EXCEPT !.step = @ + 1]
       IN st' = s /\ Goes(effective_next(s, d, tokens_spent))
  /\ UNCHANGED <<signals, mode, case, outside>>

WaitsForHuman == record_wait("record_human", "parked")
WaitsForCustomer == record_wait("record_customer", "customer")
WaitsForApproval == record_wait("record_approval", "approval")

\* ActivityError of the supervisor or of a specialist: no attempt is left.
AgentFails ==
  /\ pc \in {"supervisor", "specialist"} /\ Finalizes("FAILED") /\ run' = "RUNNING"
  /\ UNCHANGED <<st, signals, mode, case, outside>>

Proposes(agent, a) ==
  /\ agent \in Proposers
  /\ agent = "Communicator" <=> a \in Emails

\* propose_action through the gateway: stored as the policy says, whatever becomes
\* of the attempt.  A shadow run's proposal is simulated and not stored.
propose_action(a) ==
  /\ pc = "specialist" /\ Proposes(io.agent, a) /\ mode = "LIVE"
  /\ case.acts[a] = "absent"
  /\ \E status \in {"PENDING", "APPROVED", "DENIED"} : case' = [case EXCEPT !.acts = [case.acts EXCEPT ![a] = status]]
  /\ UNCHANGED <<pc, st, io, signals, run, mode, outside>>

\* _track_action: the id the model submitted, which may be none, or any it has seen.
TrackedAs(status, actions) ==
  {actions} \cup
    {[actions EXCEPT ![a] = status] :
       a \in {b \in Actions : /\ io.agent \in Proposers
                              /\ actions[b] = "untracked"
                              /\ case.acts[b] # "absent" \/ mode = "SHADOW"}}

_track_action(actions) == TrackedAs("PENDING", actions)

\* What a specialist's result does to the state: triage and investigation are kept,
\* and told to the case, a proposal is tracked, the rest only matters to the models.
_apply_specialist_output(actions) ==
  [st EXCEPT !.actions = actions, !.informed = @ \/ io.agent \in {"Triage", "Investigator"}]

run_specialist ==
  /\ pc = "specialist" /\ pc' = "refresh" /\ io' = NoArgs /\ run' = "RUNNING"
  /\ \E actions \in _track_action(st.actions) :
       st' = [_apply_specialist_output(actions) EXCEPT
                !.step = @ + 1, !.runs = [st.runs EXCEPT ![io.agent] = @ + 1]]
  /\ UNCHANGED <<signals, mode, case, outside>>

-----------------------------------------------------------------------------
(* finalize_case: first what it does to the case, then the row. *)

\* A mutation: the failed transition is logged and the outcome stands.
OutcomeStands(moved) == io.outcome

Outcome(moved) ==
  IF mode = "LIVE" /\ io.outcome = "RESOLVED" /\ ~moved THEN "ESCALATED" ELSE io.outcome

\* The case takes the transition, or refuses it; RESOLVED is never left again.
\* An escalation that is refused is logged; a resolution becomes an escalation.
FinalizesIn(modes) ==
  /\ pc = "finalize" /\ pc' = "row"
  /\ \E moved \in BOOLEAN :
       /\ moved => mode \in modes /\ io.outcome # "CANCELLED" /\ case.moved # "RESOLVED"
       /\ case' = IF moved
                  THEN [case EXCEPT !.moved = IF io.outcome = "RESOLVED" THEN "RESOLVED"
                                              ELSE "ESCALATED"]
                  ELSE case
       /\ io' = [io EXCEPT !.agent = Outcome(moved)]
  /\ UNCHANGED <<st, signals, run, mode, outside>>

\* A mutation: a shadow run finalises like a live one.
FinalizeAnyMode == FinalizesIn({"LIVE", "SHADOW"})

finalize_case == FinalizesIn({"LIVE"})

Final == [RESOLVED |-> "COMPLETED", ESCALATED |-> "ESCALATED", FAILED |-> "FAILED",
          CANCELLED |-> "CANCELLED"]

RecordsOutcome ==
  /\ pc = "row" /\ pc' = "done" /\ run' = Final[io.agent] /\ io' = NoArgs
  /\ UNCHANGED <<st, signals, mode, case, outside>>

\* The row is not written: the activity starts again with its first arguments.
FinalizeFails ==
  /\ pc = "row"
  /\ IF io.tries + 1 < MaxTries
     THEN pc' = "finalize" /\ io' = [io EXCEPT !.tries = @ + 1, !.agent = None]
     ELSE pc' = "crashed" /\ io' = NoArgs
  /\ UNCHANGED <<st, signals, run, mode, case, outside>>

\* load_case_state, record_wait, merge_signals and refresh_actions change nothing
\* that a repetition would not, so only their last failure shows: it is not caught.
Crashes ==
  /\ pc \in {"load", "record_human", "record_customer", "record_approval", "merge", "refresh"}
  /\ pc' = "crashed" /\ io' = NoArgs
  /\ UNCHANGED <<st, signals, run, mode, case, outside>>

-----------------------------------------------------------------------------
(* People, customers, and the bridge. *)

Happens(e) ==
  /\ count < MaxEvents /\ count' = count + 1
  /\ mail' = Append(mail, e)
  /\ UNCHANGED <<pc, st, io, signals, run, mode>>

decide_action(a) ==
  /\ case.acts[a] = "PENDING"
  /\ \E status \in {"APPROVED", "REJECTED"} : case' = [case EXCEPT !.acts = [case.acts EXCEPT ![a] = status]]
  /\ Happens("action_decided")

takeover == Happens("takeover") /\ UNCHANGED case
release == Happens("release") /\ UNCHANGED case
email_received == Happens("customer_reply") /\ UNCHANGED case

\* The signal handlers of the workflow; it runs them while it lives.  A shadow run
\* has a workflow id of its own, which the bridge does not signal.
Reaches == ~Ended /\ mode = "LIVE"
Signalled(e) ==
  /\ pending' = IF Reaches /\ e \in Signal THEN Append(pending, e) ELSE pending
  /\ human' = IF Reaches /\ e \in {"takeover", "release"} THEN e = "takeover" ELSE human

\* EventBridge.handle: signal and commit; signal and die before the commit;
\* or commit although Temporal did not take the signal (RPCError is logged).
handle ==
  /\ mail # <<>>
  /\ \/ mail' = Tail(mail) /\ Signalled(Head(mail)) /\ UNCHANGED count
     \/ /\ count < MaxEvents /\ count' = count + 1
        /\ mail' = mail /\ Signalled(Head(mail))
     \/ mail' = Tail(mail) /\ UNCHANGED <<pending, human, count>>
  /\ UNCHANGED <<pc, st, io, cancel, run, mode, case>>

cancel_run ==
  /\ ~cancel /\ ~Ended /\ cancel' = TRUE
  /\ count < MaxEvents /\ count' = count + 1
  /\ UNCHANGED <<pc, st, io, pending, human, run, mode, case, mail>>

Workflow ==
  \/ load_case_state \/ BudgetEnds \/ Cancels \/ Pauses \/ Resumes \/ Merges \/ Thinks
  \/ Woken \/ Expires \/ merge_signals \/ Intent \/ refresh_actions \/ AllExecuted
  \/ \E a \in Actions : \/ execute_action(a) \/ simulate_action(a) \/ execute_fails(a)
                        \/ propose_action(a)
  \/ supervisor_step \/ WaitsForHuman \/ WaitsForCustomer \/ WaitsForApproval \/ AgentFails \/ run_specialist
  \/ finalize_case \/ RecordsOutcome \/ FinalizeFails \/ Crashes

Outside ==
  \/ \E a \in Actions : decide_action(a)
  \/ takeover \/ release \/ email_received \/ handle \/ cancel_run

Next == Workflow \/ Outside

\* Temporal runs the workflow's tasks, its timers and its activities sooner or later;
\* nobody else owes the run anything.
Spec == Init /\ [][Next]_vars /\ WF_vars(Workflow)

-----------------------------------------------------------------------------
Outcomes == {"RESOLVED", "ESCALATED", "FAILED", "CANCELLED"}
StateType ==
  [step : Nat, actions : [Actions -> Tracked], runs : [SPECIALISTS -> Nat],
   signals : Seq(Signal), informed : BOOLEAN, paid : BOOLEAN, intent : Intents \cup {None}]
ArgsType ==
  [agent : {None} \cup SPECIALISTS \cup Actions \cup Outcomes,
   batch : Seq(Signal), then : {"loop", "supervisor"}, todo : SUBSET Actions,
   tries : 0..MaxTries, outcome : {None} \cup Outcomes]
CaseType ==
  [acts : [Actions -> Stored], moved : {None, "RESOLVED", "ESCALATED"}, noted : BOOLEAN]
RunType == {"none", "RUNNING", "WAITING", "COMPLETED", "ESCALATED", "FAILED", "CANCELLED"}

\* Every variable holds what its name says.
TypeOK ==
  /\ pc \in {"load", "loop", "record_human", "parked", "merge", "intent", "refresh", "execute",
             "supervisor", "record_customer", "record_approval", "customer", "approval",
             "specialist", "finalize", "row", "done", "crashed"}
  /\ st \in StateType /\ io \in ArgsType /\ case \in CaseType
  /\ pending \in Seq(Signal) /\ human \in BOOLEAN /\ cancel \in BOOLEAN
  /\ run \in RunType /\ mode \in {"LIVE", "SHADOW"}
  /\ mail \in Seq(Mail) /\ count \in 0..MaxEvents

\* The step budget binds the whole run although only the head of the loop and the
\* supervisor look at it: replies, specialists and the executor, which repeats what
\* was refused, can exceed it by one pass over the actions and two steps, no more.
StepsBounded == st.step <= MaxSteps + Cardinality(Actions) + 1

\* A signal the workflow took is never lost, repeated or overtaken on its way into
\* the state, whenever it arrives: while the workflow waits, in the middle of an
\* activity, at the moment a wait ends. A timeout is the only thing put in between.
Unread == io.batch \o pending
SignalsKept ==
  [][ ~Ended' =>
        \/ Unread' = Unread
        \/ \E e \in Signal : Unread' = Append(Unread, e)
        \/ Unread' = <<"timeout">> \o Unread
        \/ io.batch \o Unread' = Unread /\ st'.signals = Latest(st.signals \o io.batch) ]_vars

\* The row tells what happened: COMPLETED only for a case this run moved to RESOLVED on
\* grounds the code accepts and with nothing it proposed left to decide, CANCELLED only
\* when somebody cancelled.
OutcomeTold ==
  /\ run = "COMPLETED" =>
       /\ mode = "LIVE" => case.moved = "RESOLVED"
       /\ _resolution_secured(st) /\ ~Pending(st)
  /\ run = "CANCELLED" => cancel

\* A shadow run leaves the case where it is and the proposals to those who decide them.
ShadowMovesNothing ==
  [][ mode = "SHADOW" => /\ case'.moved = case.moved
                         /\ \A a \in Actions : case'.acts[a] # case.acts[a] =>
                              case.acts[a] = "PENDING" /\ count' > count ]_vars

\* architecture.md: "Human takeover pauses the loop": nothing is executed that was not
\* already under way when the workflow learned of it.
PausedUnderTakeover ==
  [][ pc' = "execute" /\ pc # "execute" => ~human ]_vars

\* A run ends unless a human keeps the case: whatever the models answer, whatever is
\* refused or times out, and although waits may be renewed, no run goes on for ever.
\* A cancelled one ends, also while it is paused.
RunEnds ==
  /\ <>Ended \/ <>[](pc = "parked" /\ human)
  /\ cancel ~> Ended
=============================================================================

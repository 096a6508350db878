----------------------------- MODULE Projector -----------------------------
(***************************************************************************)
(* The analytics service: one consumer group reads the topics of the other *)
(* services from their beginning and keeps a read model the dashboard is   *)
(* computed from.  Each event is projected in a transaction of its own.    *)
(*                                                                         *)
(*   services/analytics/recoup_analytics/{projector,models,metrics,main}.py*)
(*                                                                         *)
(* The case service is its ledger (CaseLedger, which CaseService           *)
(* implements); of the orchestrator, the communication service and the     *)
(* tool gateway only the events appear.  Within a topic the events of a    *)
(* case come in order (Delivery), topics are read side by side, a handler  *)
(* may fail and is not called again, a partition may be read again from an *)
(* earlier offset, and a single old event may come once more.              *)
(***************************************************************************)
EXTENDS CaseStateMachine, FiniteSets

CONSTANTS Cases, Actions, Invoices, Runs, None,
          Targets,     \* statuses the case service is asked for
          Verdicts,    \* <<policy decision, required role>> of proposals
          Causes,      \* root causes agents find
          Ends,        \* outcomes runs come to
          MaxEvents,   \* bound: nothing happens to a case with this many events
          MaxFaults    \* bound: failures, rewinds and repeated events ever

ASSUME ProjectorAssumption ==
  /\ MaxEvents \in Nat /\ MaxFaults \in Nat
  /\ Targets \subseteq CaseStatus
  /\ Verdicts \subseteq PolicyDecision \X (Role \cup {"none"})
  /\ None \notin Cases \cup Actions \cup Causes
  /\ Ends \subseteq {"RESOLVED", "ESCALATED", "FAILED", "CANCELLED"}

VARIABLES status, mode, refs, act, log,   \* the case service (CaseLedger)
          other,      \* other[t][c]: the events of a case on another topic
          run,        \* the orchestrator's runs
          pos,        \* pos[t][c]: how many events of the partition were read
          fact_events, dim_case, fact_action, fact_run, fact_email,
          disturbed,  \* partitions not read in order, or not wholly, since their start
          faults

case == <<status, mode, refs, act, log>>
tables == <<fact_events, dim_case, fact_action, fact_run, fact_email>>
vars == <<case, other, run, pos, tables, disturbed, faults>>

L == INSTANCE CaseLedger WITH
       status <- status, mode <- mode, refs <- refs, act <- act, log <- log

OtherTopics == {"agent", "comm", "tool"}
Topics == {"case"} \cup OtherTopics

Stream(t, c) == IF t = "case" THEN log[c] ELSE other[t][c]

-----------------------------------------------------------------------------
(* The read model.  NULL is "none".                                           *)

\* No row yet, and what an insert leaves to the columns' defaults.
NoCase ==
  [there |-> FALSE, details |-> FALSE, status |-> "none", mode |-> "none", closed |-> FALSE,
   escalated |-> FALSE, human_touched |-> FALSE, first_agent |-> FALSE,
   root_cause |-> None, emails_sent |-> 0]
NoAction == [there |-> FALSE, case |-> None, policy |-> "none", outcome |-> "none"]
NoRun == [there |-> FALSE, case |-> None, mode |-> "none", status |-> "none"]

Init ==
  /\ L!Init
  /\ other = [t \in OtherTopics |-> [c \in Cases |-> <<>>]]
  /\ run = [r \in Runs |-> [case |-> None, mode |-> "none", status |-> "none"]]
  /\ pos = [t \in Topics |-> [c \in Cases |-> 0]]
  /\ fact_events = {}
  /\ dim_case = [c \in Cases |-> NoCase]
  /\ fact_action = [a \in Actions |-> NoAction]
  /\ fact_run = [r \in Runs |-> NoRun]
  /\ fact_email = {}
  /\ disturbed = {}
  /\ faults = 0

-----------------------------------------------------------------------------
(* The producers *)

Active(c) ==
  Len(log[c]) + Len(other["agent"][c]) + Len(other["comm"][c]) + Len(other["tool"][c]) < MaxEvents

CaseService(c) ==
  /\ Active(c)
  /\ \/ \E S \in (SUBSET Invoices) \ {{}} : L!Open(c, S)
     \/ \E to \in Targets : L!Move(c, to)
     \/ L!TakeOver(c)
     \/ L!HandBack(c)
     \/ \E a \in Actions : \E v \in Verdicts : L!Propose(c, a, v[1], v[2])
     \/ \E a \in Actions, decision \in Decision : L!Decide(c, a, decision, "admin")
  /\ UNCHANGED <<other, run, pos, tables, disturbed, faults>>

Publish(t, c, e) ==
  /\ L!Exists(c)
  /\ Active(c)
  /\ other' = [other EXCEPT ![t][c] = Append(@, e)]
  /\ UNCHANGED <<case, pos, tables, disturbed, faults>>

RunEvent(type, r, m, s, cause) ==
  [type |-> type, run |-> r, mode |-> m, status |-> s, root_cause |-> cause]

\* A live run has the case's workflow id: there is one at a time.
RunStarts(r, c, m) ==
  /\ run[r].case = None
  /\ m = "LIVE" => \A q \in Runs :
       run[q].case = c /\ run[q].mode = "LIVE" => run[q].status # "RUNNING"
  /\ run' = [run EXCEPT ![r] = [case |-> c, mode |-> m, status |-> "RUNNING"]]
  /\ Publish("agent", c, RunEvent("agent.run.started", r, m, "RUNNING", None))

\* The row has a status for each outcome, the event has the outcome itself.  An
\* attempt to end the run may be made again, and end it otherwise.  RUNNING stands
\* for WAITING too, which no event that is projected tells of.
StoredAs(outcome) == IF outcome = "RESOLVED" THEN "COMPLETED" ELSE outcome

RunEnds(r, outcome, cause) ==
  /\ run[r].case # None
  /\ run' = [run EXCEPT ![r].status = StoredAs(outcome)]
  /\ Publish("agent", run[r].case, RunEvent("agent.run.completed", r, "none", outcome, cause))

\* Mails sent and received; tool calls, and by the same upsert an agent's steps.
Fact(type, s) == RunEvent(type, None, "none", s, None)
SomeFact(c) ==
  /\ \/ \E type \in {"comm.email.sent", "comm.email.received"} :
          Publish("comm", c, Fact(type, "none"))
     \/ \E e \in {Fact("tool.invoked", "SUCCESS"), Fact("tool.blocked", "DENIED")} :
          Publish("tool", c, e)
  /\ UNCHANGED run

-----------------------------------------------------------------------------
(* _project: what an event does to the tables.  Each is an upsert; the first  *)
(* part of the record is the row inserted, EXCEPT the columns it updates.     *)

\* _case_patch, on the row as it is or on a stub.
Row(c) == [dim_case[c] EXCEPT !.there = TRUE]
Patch(c, patched) == dim_case' = [dim_case EXCEPT ![c] = patched]

\* The update list of case.created has no status: a stub keeps its NULL.
Created(c, e) ==
  /\ e.type = "case.created"
  /\ Patch(c, [Row(c) EXCEPT !.details = TRUE,
                 !.status = IF dim_case[c].there THEN @ ELSE "NEW"])
  /\ UNCHANGED <<fact_action, fact_run, fact_email>>

\* (Mutant: an update that does not touch a row.)
DoNothing(c, to) ==
  IF dim_case[c].there THEN dim_case[c] ELSE [Row(c) EXCEPT !.status = to]
StateChangeOfRow(c, to) ==
  [Row(c) EXCEPT !.status = to, !.closed = @ \/ to \in TERMINAL,
                 !.escalated = @ \/ to = "ESCALATED"]

Changed(c, e) ==
  /\ e.type = "case.state_changed"
  /\ Patch(c, StateChangeOfRow(c, e.to))
  /\ UNCHANGED <<fact_action, fact_run, fact_email>>

Resolved(c, e) ==
  /\ e.type = "case.resolved"
  /\ Patch(c, [Row(c) EXCEPT !.status = e.to, !.closed = TRUE])
  /\ UNCHANGED <<fact_action, fact_run, fact_email>>

Handover(c, e) ==
  /\ e.type \in {"case.takeover", "case.released"}
  /\ Patch(c, [Row(c) EXCEPT !.human_touched = TRUE,
                 !.mode = IF e.type = "case.takeover" THEN "HUMAN_CONTROL" ELSE "AUTONOMOUS"])
  /\ UNCHANGED <<fact_action, fact_run, fact_email>>

\* (Mutant: the outcome is in the update list.)
ResetsOutcome(c, a) ==
  [there |-> TRUE, case |-> c, policy |-> act[a].policy, outcome |-> "PROPOSED"]
\* The event's verdict is the one the action was stored with.
ProposedRow(c, a) ==
  [there |-> TRUE, case |-> c, policy |-> act[a].policy,
   outcome |-> IF fact_action[a].there THEN fact_action[a].outcome ELSE "PROPOSED"]

Proposed(c, e) ==
  /\ e.type = "case.action.proposed"
  /\ fact_action' = [fact_action EXCEPT ![e.action] = ProposedRow(c, e.action)]
  /\ UNCHANGED <<dim_case, fact_run, fact_email>>

DecisionTypes == {DecisionEvent[d] : d \in Decision}
\* t.rsplit(".", 1)[-1].upper()
Outcome(type) == CHOOSE d \in Decision : DecisionEvent[d] = type

Decided(c, e) ==
  /\ e.type \in DecisionTypes
  /\ fact_action' = [fact_action EXCEPT ![e.action] =
                       [@ EXCEPT !.there = TRUE, !.case = c, !.outcome = Outcome(e.type)]]
  /\ Patch(c, [Row(c) EXCEPT !.human_touched = TRUE])
  /\ UNCHANGED <<fact_run, fact_email>>

Noted(c, e) ==
  /\ e.type = "case.note.added"
  /\ UNCHANGED <<dim_case, fact_action, fact_run, fact_email>>

Started(c, e) ==
  /\ e.type = "agent.run.started"
  /\ fact_run' = [fact_run EXCEPT ![e.run] =
                    [there |-> TRUE, case |-> c, mode |-> e.mode, status |-> "RUNNING"]]
  /\ IF e.mode = "LIVE" THEN Patch(c, [Row(c) EXCEPT !.first_agent = TRUE])
                        ELSE UNCHANGED dim_case
  /\ UNCHANGED <<fact_action, fact_email>>

\* The case's root cause is whatever the last run to end found, a shadow run too.
Ended(c, e) ==
  /\ e.type = "agent.run.completed"
  /\ fact_run' = [fact_run EXCEPT ![e.run] =
                    [@ EXCEPT !.there = TRUE, !.case = c, !.status = e.status]]
  /\ IF e.root_cause # None THEN Patch(c, [Row(c) EXCEPT !.root_cause = e.root_cause])
                            ELSE UNCHANGED dim_case
  /\ UNCHANGED <<fact_action, fact_email>>

\* The count is an UPDATE, not an upsert: no row, no count; twice handled, twice added.
CountMail(c) ==
  IF dim_case[c].there THEN [dim_case[c] EXCEPT !.emails_sent = @ + 1] ELSE dim_case[c]

Mailed(c, e, id) ==
  /\ e.type \in {"comm.email.sent", "comm.email.received"}
  /\ fact_email' = fact_email \cup {id}
  /\ IF e.type = "comm.email.sent" THEN Patch(c, CountMail(c)) ELSE UNCHANGED dim_case
  /\ UNCHANGED <<fact_action, fact_run>>

\* A row of fact_tool_call or fact_agent_step: all they hold is in fact_events.
ToolCalled(e) ==
  /\ e.type \in {"tool.invoked", "tool.blocked"}
  /\ UNCHANGED <<dim_case, fact_action, fact_run, fact_email>>

_project(c, e, id) ==
  \/ Created(c, e) \/ Changed(c, e) \/ Resolved(c, e) \/ Handover(c, e)
  \/ Proposed(c, e) \/ Decided(c, e) \/ Noted(c, e)
  \/ Started(c, e) \/ Ended(c, e)
  \/ Mailed(c, e, id) \/ ToolCalled(e)

handle(t, c, k) ==
  /\ fact_events' = fact_events \cup {<<t, c, k>>}
  /\ _project(c, Stream(t, c)[k], <<t, c, k>>)
  /\ UNCHANGED <<case, other, run>>

-----------------------------------------------------------------------------
(* The consumer.  The next event of a partition is handled, or its handler    *)
(* fails and it is passed over.                                               *)

Next1(t, c) ==
  /\ pos[t][c] < Len(Stream(t, c))
  /\ pos' = [pos EXCEPT ![t][c] = @ + 1]

Consume(t, c) ==
  /\ Next1(t, c)
  /\ handle(t, c, pos[t][c] + 1)
  /\ UNCHANGED <<disturbed, faults>>

Fault == faults < MaxFaults /\ faults' = faults + 1

HandlerFails(t, c) ==
  /\ Fault
  /\ Next1(t, c)
  /\ disturbed' = disturbed \cup {<<t, c>>}
  /\ UNCHANGED <<case, other, run, tables>>

\* Read again from the last commit, or from the beginning by an operator.
Rewind(t, c) ==
  /\ Fault
  /\ \E p \in 0..pos[t][c] - 1 :
       /\ pos' = [pos EXCEPT ![t][c] = p]
       /\ disturbed' = IF p = 0 THEN disturbed \ {<<t, c>>} ELSE disturbed
  /\ UNCHANGED <<case, other, run, tables>>

\* Published twice, or handled by a replica that has lost the partition.
ComesAgain(t, c) ==
  /\ Fault
  /\ \E k \in 1..pos[t][c] : handle(t, c, k)
  /\ disturbed' = disturbed \cup {<<t, c>>}
  /\ UNCHANGED pos

-----------------------------------------------------------------------------

Next ==
  \/ \E c \in Cases :
       \/ CaseService(c)
       \/ SomeFact(c)
       \/ \E r \in Runs, m \in {"LIVE", "SHADOW"} : RunStarts(r, c, m)
       \/ \E t \in Topics :
            Consume(t, c) \/ HandlerFails(t, c) \/ Rewind(t, c) \/ ComesAgain(t, c)
  \/ \E r \in Runs, outcome \in Ends, cause \in Causes \cup {None} :
       RunEnds(r, outcome, cause)

Spec == Init /\ [][Next]_vars

-----------------------------------------------------------------------------
(* The dashboard: metrics.summary and metrics.funnel, as the sets they count. *)

OPEN_STATUSES == CaseStatus \ TERMINAL

\* summary: open cases; closed ones, those no human touched.
OpenCases == {c \in Cases : ~dim_case[c].closed /\ dim_case[c].status \in OPEN_STATUSES}
ClosedCases == {c \in Cases : dim_case[c].closed}
Untouched == {c \in ClosedCases : ~dim_case[c].human_touched}
\* summary: proposals policy allowed, and by decision; runs counted, and those among
\* them the escalations are broken down from.
AutoAllowed == {a \in Actions : fact_action[a].policy = "ALLOW"}
DecidedAs(d) == {a \in Actions : fact_action[a].outcome = d}
LiveRuns == {r \in Runs : fact_run[r].mode = "LIVE"}
EscalatedRuns == {r \in LiveRuns : fact_run[r].status \in {"ESCALATED", "FAILED"}}
\* The rows of fact_email a case's mails out are counted from.
MailsOut(c) ==
  {id \in fact_email : id[2] = c /\ other["comm"][c][id[3]].type = "comm.email.sent"}


\* funnel: cases opened, a stub too; with a root cause; with a proposal, a decision
\* alone having no date of one; with a mutating tool that worked (the model's tool
\* calls are of these); written to; closed without escalation.
FunnelOpened == {c \in Cases : dim_case[c].there}
FunnelTriaged == {c \in FunnelOpened : dim_case[c].root_cause # None}
FunnelProposed == {fact_action[a].case : a \in {b \in Actions : fact_action[b].policy # "none"}}
FunnelExecuted ==
  {c \in Cases : \E k \in DOMAIN other["tool"][c] :
     <<"tool", c, k>> \in fact_events /\ other["tool"][c][k].status = "SUCCESS"}
FunnelContacted == {c \in Cases : MailsOut(c) # {}}
FunnelResolved == {c \in ClosedCases : ~dim_case[c].escalated}

-----------------------------------------------------------------------------
(* Properties *)

CaseRow ==
  [there : BOOLEAN, details : BOOLEAN, status : CaseStatus \cup {"none"},
   mode : AgentMode \cup {"none"}, closed : BOOLEAN, escalated : BOOLEAN,
   human_touched : BOOLEAN, first_agent : BOOLEAN, root_cause : Causes \cup {None},
   emails_sent : Nat]
Outcomes == Decision \cup {"PROPOSED", "none"}

\* The tables keep their columns' types, and offsets stay within their partitions.
TypeOK ==
  /\ \A t \in Topics, c \in Cases : pos[t][c] \in 0..Len(Stream(t, c))
  /\ dim_case \in [Cases -> CaseRow]
  /\ fact_action \in [Actions -> [there : BOOLEAN, case : Cases \cup {None},
                                  policy : PolicyDecision \cup {"none"}, outcome : Outcomes]]
  /\ fact_run \in [Runs -> [there : BOOLEAN, case : Cases \cup {None},
                            mode : {"none", "LIVE", "SHADOW"},
                            status : {"none", "RUNNING"} \cup Ends]]
  /\ fact_events \subseteq {<<t, c, k>> : t \in Topics, c \in Cases, k \in 1..MaxEvents + 2}
  /\ disturbed \subseteq Topics \X Cases
  /\ faults \in 0..MaxFaults

InLog(c, Is(_)) == \E k \in DOMAIN log[c] : Is(log[c][k])
UpToDate(t, c) == pos[t][c] = Len(Stream(t, c)) /\ <<t, c>> \notin disturbed

ByHuman(e) == e.type \in DecisionTypes \cup {"case.takeover", "case.released"}
Escalates(e) == e.to = "ESCALATED"
TakesOver(e) == e.type = "case.takeover"

RowFollows(c) ==
  LET d == dim_case[c]
  IN /\ d.there /\ d.details
     /\ d.status # status[c] => d.status = "none" /\ status[c] = "NEW"
     /\ d.mode = IF InLog(c, TakesOver) THEN mode[c] ELSE "none"
     /\ d.escalated <=> InLog(c, Escalates)
     /\ c \in OpenCases <=> ~is_terminal(status[c]) /\ d.status # "none"
     /\ c \in ClosedCases <=> is_terminal(status[c])
     /\ c \in Untouched <=> is_terminal(status[c]) /\ ~InLog(c, ByHuman)

ActionFollows(a) ==
  /\ fact_action[a].case = act[a].case
  /\ a \in AutoAllowed <=> act[a].policy = "ALLOW"
  /\ \A d \in Decision : a \in DecidedAs(d) =>
       act[a].decided_by # "none" /\ act[a].status = d

RunFollows(r) ==
  /\ fact_run[r].case = run[r].case
  /\ r \in LiveRuns <=> run[r].mode = "LIVE"
  /\ r \in EscalatedRuns <=>
       run[r].mode = "LIVE" /\ run[r].status \in {"ESCALATED", "FAILED"}
  /\ run[r].status = StoredAs(fact_run[r].status)

\* Each stage of the funnel, by the topic it comes from.
FunnelFollows(c) ==
  LET Published(t, Is(_)) == \E k \in DOMAIN other[t][c] : Is(other[t][c][k])
      Causal(e) == e.root_cause # None
      Worked(e) == e.status = "SUCCESS"
      Outbound(e) == e.type = "comm.email.sent"
  IN /\ UpToDate("case", c) =>
          /\ c \in FunnelOpened
          /\ c \in FunnelProposed <=> \E a \in Actions : act[a].case = c
     /\ UpToDate("agent", c) => (c \in FunnelTriaged <=> Published("agent", Causal))
     /\ UpToDate("tool", c) => (c \in FunnelExecuted <=> Published("tool", Worked))
     /\ UpToDate("comm", c) => (c \in FunnelContacted <=> Published("comm", Outbound))

\* When a case's events have been read to the end, from the start and in order since
\* the last failure or repetition, however often before, the dashboard says of status,
\* control, closing and people what the case service's row says, its funnel has the case
\* at the stages that topic tells of, an action's row has
\* its verdict and whether it was decided, and a run's the outcome its own row was
\* stored for, so that none that ended is shown running and none that failed as resolved.
\* Only a new case first seen through another event, its run's or a takeover, lacks
\* its status.
ReadModelFollows ==
  /\ \A c \in Cases : L!Exists(c) => FunnelFollows(c)
  /\ \A c \in Cases : UpToDate("case", c) /\ L!Exists(c) => RowFollows(c)
  /\ \A a \in Actions :
       act[a].case # None /\ UpToDate("case", act[a].case) => ActionFollows(a)
  /\ \A r \in Runs :
       run[r].case # None /\ UpToDate("agent", run[r].case) => RunFollows(r)

\* In whatever order events come, repeated or with some lost: once its decision was
\* handled an action shows that decision and its case a human's touch, a verdict shown
\* is the policy's, a case seen closing is never counted open again, nor an escalated
\* one as closed without escalation, whichever old events come after.
DecisionsStick ==
  \A c \in Cases : \A k \in DOMAIN log[c] :
    LET e == log[c][k]
    IN <<"case", c, k>> \in fact_events =>
         /\ e.type \in DecisionTypes =>
              /\ fact_action[e.action].outcome = Outcome(e.type)
              /\ dim_case[c].human_touched
         /\ e.type = "case.action.proposed" => fact_action[e.action].policy = act[e.action].policy
         /\ e.type = "case.resolved" => c \notin OpenCases
         /\ e.to = "ESCALATED" => c \notin FunnelResolved

\* A topic read again leaves the tables as they were: no mail is counted twice.
MailsCountedOnce == \A c \in Cases : dim_case[c].emails_sent <= Cardinality(MailsOut(c))
=============================================================================

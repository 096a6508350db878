---------------------------- MODULE CaseService ----------------------------
(***************************************************************************)
(* The case service: every HTTP request is a database transaction of its   *)
(* own, running beside the others in one of the replicas.  It reads the    *)
(* case row, perhaps an action row, checks its guards on what it read, and *)
(* writes.  Nothing is locked while it thinks: the UPDATE of the case row  *)
(* names the version that was read (SQLAlchemy's version_id_col), and a    *)
(* request that lost a race updates no row, raises and rolls back.         *)
(*                                                                         *)
(*   services/case/recoup_case/{service,routes,models,state_machine}.py    *)
(*                                                                         *)
(* An operation's arguments are chosen when it commits: they do not change *)
(* what it read.  Rows and columns no guard reads (priority, notes,        *)
(* rationale, the timeline) are abstracted.                                *)
(***************************************************************************)
EXTENDS CaseStateMachine

CONSTANTS Cases, Actions, Invoices, None,
          Requests,    \* HTTP requests in flight at once
          Targets,     \* statuses callers ask for
          Verdicts,    \* <<policy decision, required role>> of proposals
          Humans,      \* roles of the people deciding
          MaxVersion   \* bound: no request starts on a case written this often

ASSUME VersionAssumption == MaxVersion \in Nat
ASSUME CallerAssumption ==
  /\ Targets \subseteq CaseStatus
  /\ Verdicts \subseteq PolicyDecision \X (Role \cup {"none"})
  /\ Humans \subseteq Role \ {"viewer"}
ASSUME NoneAssumption == None \notin Cases \cup Actions

VARIABLES status, mode, refs, act, log,  \* as in CaseLedger: committed rows
          version,                       \* the case row's version column
          claim,                         \* case_invoices: primary key -> case
          req                            \* requests in flight

row == <<status, mode, refs, act, log, version, claim>>
vars == <<status, mode, refs, act, log, version, claim, req>>

L == INSTANCE CaseLedger

-----------------------------------------------------------------------------
(* Requests *)

Phase == {"idle", "viewed", "case", "action", "creating"}

\* seen: the version of the page a human acts on, 0 when the body has no
\* expected_version.  version, status, mode: the case row as read.
\* prop: the action row as read.  refs: the invoices of a creation.
Idle ==
  [phase |-> "idle", case |-> None, seen |-> 0, version |-> 0, status |-> "none",
   mode |-> "AUTONOMOUS", action |-> None, prop |-> L!NoAction, refs |-> {}]

Init ==
  /\ L!Init
  /\ version = [c \in Cases |-> 0]
  /\ claim = [i \in Invoices |-> None]
  /\ req = [r \in Requests |-> Idle]

Becomes(r, q) == req' = [req EXCEPT ![r] = q]
Done(r) == Becomes(r, Idle)

\* GET /cases/{id}: the page on which a human will decide.
View(r, c) ==
  /\ req[r].phase = "idle"
  /\ L!Exists(c)
  /\ version[c] < MaxVersion
  /\ Becomes(r, [Idle EXCEPT !.phase = "viewed", !.case = c, !.seen = version[c]])
  /\ UNCHANGED row

\* The request's first read: session.get(Case).
get_case(r, c) ==
  /\ \/ req[r].phase = "idle"
     \/ req[r].phase = "viewed" /\ req[r].case = c
  /\ L!Exists(c)
  /\ version[c] < MaxVersion
  /\ Becomes(r, [Idle EXCEPT !.phase = "case", !.case = c, !.seen = req[r].seen,
                              !.version = version[c], !.status = status[c], !.mode = mode[c]])
  /\ UNCHANGED row

\* Its second read, by then of a later database: session.get(ProposedAction).
get_action(r, a) ==
  /\ req[r].phase = "case"
  /\ act[a].case = req[r].case
  /\ Becomes(r, [req[r] EXCEPT !.phase = "action", !.action = a, !.prop = act[a]])
  /\ UNCHANGED row

\* A 4xx or 5xx answer, a client that went away, a replica that died: rollback.
Abort(r) ==
  /\ req[r].phase # "idle"
  /\ Done(r)
  /\ UNCHANGED row

-----------------------------------------------------------------------------
(* Writing.  UPDATE cases ... WHERE id = :id AND version = :version           *)

NoVersionColumn(r) == TRUE
Fresh(r) == version[req[r].case] = req[r].version

\* _touch(case, expected_version): 409 when the page was older than the row read.
IgnoreExpected(r) == TRUE
ExpectedIsRead(r) == req[r].seen \in {0, req[r].version}

\* Each flush that finds the row dirty is an UPDATE of its own and bumps it.
Flush(c, n) == version' = [version EXCEPT ![c] = @ + n]

Say(c, events) == log' = [log EXCEPT ![c] = @ \o events]

ReadCase(r) == req[r].phase = "case" /\ Fresh(r)
\* Only the human transition and decision routes take an expected_version.
NoPage(r) == req[r].seen = 0

SetStatus(r, to) ==
  LET c == req[r].case
  IN
  /\ can_transition(req[r].status, to)
  /\ status' = [status EXCEPT ![c] = to]

\* POST /cases/{id}/transition by a human, on the version their page showed.
transition_case(r, to, role) ==
  LET c == req[r].case
  IN
  /\ ReadCase(r)
  /\ to = "WRITTEN_OFF" => Satisfies(role, "manager")
  /\ ExpectedIsRead(r)
  /\ SetStatus(r, to)
  /\ Say(c, StateChanged(req[r].status, to, None))
  /\ Flush(c, 1)
  /\ Done(r)
  /\ UNCHANGED <<mode, refs, act, claim>>

\* The same for an agent: no version, no role.
internal_transition(r, to) ==
  LET c == req[r].case
  IN
  /\ ReadCase(r) /\ NoPage(r)
  /\ SetStatus(r, to)
  /\ Say(c, StateChanged(req[r].status, to, None))
  /\ Flush(c, 1)
  /\ Done(r)
  /\ UNCHANGED <<mode, refs, act, claim>>

\* Records the root cause; moves the case only when it is still NEW.
apply_triage(r) ==
  LET c == req[r].case
  IN
  /\ ReadCase(r) /\ NoPage(r)
  /\ IF req[r].status = "NEW"
     THEN SetStatus(r, "TRIAGED") /\ Say(c, StateChanged("NEW", "TRIAGED", None))
     ELSE UNCHANGED <<status, log>>
  /\ Flush(c, 1)
  /\ Done(r)
  /\ UNCHANGED <<mode, refs, act, claim>>

add_note(r) ==
  LET c == req[r].case
  IN
  /\ ReadCase(r) /\ NoPage(r)
  /\ Say(c, <<Event("case.note.added", "none", "none", None)>>)
  /\ Flush(c, 1)
  /\ Done(r)
  /\ UNCHANGED <<status, mode, refs, act, claim>>

\* The assignee is abstracted: what remains is the write to the row.
assign(r) ==
  /\ ReadCase(r) /\ NoPage(r)
  /\ Flush(req[r].case, 1)
  /\ Done(r)
  /\ UNCHANGED <<status, mode, refs, act, log, claim>>

TakeoverTwice(r) == ~is_terminal(req[r].status)
CanTakeOver(r) == ~is_terminal(req[r].status) /\ req[r].mode # "HUMAN_CONTROL"

takeover(r) ==
  LET c == req[r].case
  IN
  /\ ReadCase(r) /\ NoPage(r)
  /\ CanTakeOver(r)
  /\ mode' = [mode EXCEPT ![c] = "HUMAN_CONTROL"]
  /\ Say(c, <<Event("case.takeover", "none", "none", None)>>)
  /\ Flush(c, 1)
  /\ Done(r)
  /\ UNCHANGED <<status, refs, act, claim>>

release(r) ==
  LET c == req[r].case
  IN
  /\ ReadCase(r) /\ NoPage(r)
  /\ req[r].mode = "HUMAN_CONTROL"
  /\ mode' = [mode EXCEPT ![c] = "AUTONOMOUS"]
  /\ Say(c, <<Event("case.released", "none", "none", None)>>)
  /\ Flush(c, 1)
  /\ Done(r)
  /\ UNCHANGED <<status, refs, act, claim>>

\* The insert is flushed with the touch; parking the case is a second UPDATE.
propose_action(r, a, policy, required) ==
  LET c == req[r].case
      new == [case |-> c, status |-> InitialActionStatus[policy], policy |-> policy,
              required |-> required, decided_by |-> "none"]
      parks == policy = "REQUIRE_APPROVAL" /\ req[r].status # "PENDING_APPROVAL"
      proposed == <<Event("case.action.proposed", "none", "none", a)>>
  IN
  /\ ReadCase(r) /\ NoPage(r)
  /\ ~is_terminal(req[r].status)
  /\ act[a] = L!NoAction
  /\ act' = [act EXCEPT ![a] = new]
  /\ IF parks
     THEN /\ SetStatus(r, "PENDING_APPROVAL")
          /\ Say(c, proposed \o StateChanged(req[r].status, "PENDING_APPROVAL", None))
          /\ Flush(c, 2)
     ELSE Say(c, proposed) /\ Flush(c, 1) /\ UNCHANGED status
  /\ Done(r)
  /\ UNCHANGED <<mode, refs, claim>>

ReadAction(r) == req[r].phase = "action" /\ Fresh(r)

AnyoneDecides(r, role) == req[r].prop.status = "PENDING"
check_can_decide(r, role) ==
  /\ req[r].prop.status = "PENDING"
  /\ Satisfies(role, req[r].prop.required)

\* approve, edit or reject.  The count of what is still pending runs after the
\* autoflush of the decision, in a transaction that by then holds the row.
decide_action(r, decision, role) ==
  LET c == req[r].case
      a == req[r].action
      still_pending ==
        \E b \in Actions \ {a} : act[b].case = c /\ act[b].status = "PENDING"
      nxt == IF decision # "REJECTED" THEN "ACTION_TAKEN" ELSE "INVESTIGATING"
      decided == <<Event(DecisionEvent[decision], "none", "none", a)>>
  IN
  /\ ReadAction(r)
  /\ check_can_decide(r, role)
  /\ ExpectedIsRead(r)
  /\ act' = [act EXCEPT ![a] = [act[a] EXCEPT !.status = decision, !.decided_by = role]]
  /\ IF ~still_pending /\ req[r].status = "PENDING_APPROVAL"
     THEN /\ SetStatus(r, nxt)
          /\ Say(c, decided \o StateChanged(req[r].status, nxt, None))
          /\ Flush(c, 2)
     ELSE Say(c, decided) /\ Flush(c, 1) /\ UNCHANGED status
  /\ Done(r)
  /\ UNCHANGED <<mode, refs, claim>>

ExecutedStatus(p) ==
  IF p.policy = "ALLOW" /\ p.decided_by = "none" THEN "AUTO_EXECUTED" ELSE "EXECUTED"

SetActionStatus(a, s) == act' = [act EXCEPT ![a] = [act[a] EXCEPT !.status = s]]

\* The tool gateway reports that the approved action was carried out.
CanExecute(r) == req[r].prop.status \in {"APPROVED", "EDITED"}

mark_executed(r) ==
  /\ ReadAction(r) /\ NoPage(r)
  /\ CanExecute(r)
  /\ SetActionStatus(req[r].action, ExecutedStatus(req[r].prop))
  /\ Flush(req[r].case, 1)
  /\ Done(r)
  /\ UNCHANGED <<status, mode, refs, log, claim>>

-----------------------------------------------------------------------------
(* Opening a case: by a human, or by an ingestion loop in any replica.        *)

\* None of the invoices has a case yet, as far as this transaction can see.
BeginCreate(r, S) ==
  /\ req[r].phase = "idle"
  /\ \A i \in S : claim[i] = None
  /\ Becomes(r, [Idle EXCEPT !.phase = "creating", !.refs = S])
  /\ UNCHANGED row

\* INSERT INTO case_invoices fails on its primary key when another case won.
NoPrimaryKey(S) == TRUE
ClaimsInserted(S) == \A i \in S : claim[i] = None

create_case(r, c) ==
  LET S == req[r].refs
  IN
  /\ req[r].phase = "creating" /\ S # {}
  /\ ~L!Exists(c)
  /\ ClaimsInserted(S)
  /\ claim' = [i \in Invoices |-> IF i \in S THEN c ELSE claim[i]]
  /\ status' = [status EXCEPT ![c] = "NEW"]
  /\ refs' = [refs EXCEPT ![c] = S]
  /\ Say(c, <<Event("case.created", "none", "NEW", None)>>)
  /\ Flush(c, 1)
  /\ Done(r)
  /\ UNCHANGED <<mode, act>>

-----------------------------------------------------------------------------

Reads(r) ==
  \/ \E c \in Cases : View(r, c) \/ get_case(r, c)
  \/ \E a \in Actions : get_action(r, a)
  \/ \E S \in (SUBSET Invoices) \ {{}} : BeginCreate(r, S)
  \/ Abort(r)

CaseWrites(r) ==
  \/ \E to \in Targets, role \in Humans : transition_case(r, to, role)
  \/ \E to \in Targets : internal_transition(r, to)
  \/ apply_triage(r)
  \/ add_note(r)
  \/ assign(r)
  \/ takeover(r)
  \/ release(r)
  \/ \E c \in Cases : create_case(r, c)

ActionWrites(r) ==
  \/ \E a \in Actions, v \in Verdicts : propose_action(r, a, v[1], v[2])
  \/ \E decision \in Decision, role \in Humans : decide_action(r, decision, role)
  \/ mark_executed(r)

Next == \E r \in Requests : Reads(r) \/ CaseWrites(r) \/ ActionWrites(r)

Spec == Init /\ [][Next]_vars

-----------------------------------------------------------------------------
(* Properties *)

EventType ==
  {"case.created", "case.state_changed", "case.resolved", "case.note.added",
   "case.takeover", "case.released", "case.action.proposed", "case.action.approved",
   "case.action.edited", "case.action.rejected"}

CaseEvent ==
  [type : EventType, from : CaseStatus \cup {"none"}, to : CaseStatus \cup {"none"},
   action : Actions \cup {None}]

ActionRow ==
  [case : Cases \cup {None}, status : ActionStatus \cup {"none"},
   policy : PolicyDecision \cup {"none"}, required : Role \cup {"none"},
   decided_by : Role \cup {"none"}]

RequestRow ==
  [phase : Phase, case : Cases \cup {None}, seen : Nat, version : Nat,
   status : CaseStatus \cup {"none"}, mode : AgentMode, action : Actions \cup {None},
   prop : ActionRow, refs : SUBSET Invoices]

\* Rows keep their columns' types, and a request that has read a row knows whose it is.
TypeOK ==
  /\ status \in [Cases -> CaseStatus \cup {"none"}]
  /\ mode \in [Cases -> AgentMode]
  /\ refs \in [Cases -> SUBSET Invoices]
  /\ act \in [Actions -> ActionRow]
  /\ log \in [Cases -> Seq(CaseEvent)]
  /\ version \in [Cases -> Nat]
  /\ claim \in [Invoices -> Cases \cup {None}]
  /\ req \in [Requests -> RequestRow]
  /\ \A r \in Requests :
       /\ req[r].phase \in {"viewed", "case", "action"} => req[r].case \in Cases
       /\ req[r].phase = "action" => req[r].action \in Actions

\* What a request read and finds still at the version it read is what is in the
\* database: the case row it read first, and the action row it read later.
\* Every guard of service.py is evaluated on such a copy.
SnapshotCurrent ==
  \A r \in Requests :
    LET q == req[r]
    IN /\ q.phase \in {"case", "action"} =>
            /\ L!Exists(q.case)
            /\ q.version <= version[q.case]
            /\ version[q.case] = q.version =>
                 q.status = status[q.case] /\ q.mode = mode[q.case]
       /\ q.phase = "action" =>
            /\ act[q.action].case = q.case
            /\ version[q.case] = q.version => q.prop = act[q.action]

\* The rows of a case are those an atomic ledger could have: no operation is
\* lost, applied twice or decided on a state that was already gone, and the
\* events announce exactly what was committed.
ImplementsLedger == L!Spec

IsStatusEvent(e) == e.type \in {"case.created", "case.state_changed"}
IsModeEvent(e) == e.type \in {"case.takeover", "case.released"}
IsDecision(e, a) ==
  /\ e.type \in {"case.action.approved", "case.action.edited", "case.action.rejected"}
  /\ e.action = a

\* One decision per action, the one its row holds until it is carried out.
DecidedOnce(c, a) ==
  \A i \in DOMAIN log[c] : IsDecision(log[c][i], a) =>
    /\ act[a].case = c
    /\ act[a].decided_by # "none"
    /\ act[a].status \in Decision => log[c][i].type = DecisionEvent[act[a].status]
    /\ \A j \in DOMAIN log[c] : IsDecision(log[c][j], a) => i = j

\* A consumer that replays a case's events in outbox order finds each change
\* of status starting where the last one ended, and ends at the row's status
\* and mode; case.resolved is announced when, and only when, the case closes; and
\* of two people deciding one action at the same time one only is announced.
EventsReplayToRow ==
  \A c \in Cases :
    LET e == log[c]
        Last(i, Is(_)) == Is(e[i]) /\ \A k \in DOMAIN e : k > i => ~Is(e[k])
        Next2(i, j, Is(_)) ==
          i < j /\ Is(e[i]) /\ Is(e[j]) /\ \A k \in DOMAIN e : i < k /\ k < j => ~Is(e[k])
    IN /\ \A i, j \in DOMAIN e :
            /\ Next2(i, j, IsStatusEvent) => e[j].from = e[i].to
            /\ Next2(i, j, IsModeEvent) => e[i].type # e[j].type
       /\ \A i \in DOMAIN e :
            /\ Last(i, IsStatusEvent) => e[i].to = status[c]
            /\ Last(i, IsModeEvent) =>
                 (e[i].type = "case.takeover" <=> mode[c] = "HUMAN_CONTROL")
            /\ e[i].type = "case.resolved" => e[i].to = status[c]
       /\ L!Exists(c) /\ is_terminal(status[c]) <=>
            \E i \in DOMAIN e : e[i].type = "case.resolved"
       /\ \A a \in Actions : DecidedOnce(c, a)

\* An action that was carried out was allowed by policy, or approved by a person
\* whose role the policy asked for; a denied or rejected one never is.
ExecutionAuthorised ==
  \A a \in Actions :
    /\ act[a].status = "AUTO_EXECUTED" => act[a].policy = "ALLOW"
    /\ act[a].status \in {"APPROVED", "EDITED", "EXECUTED"} =>
         \/ act[a].policy = "ALLOW"
         \/ /\ act[a].policy = "REQUIRE_APPROVAL"
            /\ act[a].decided_by # "none"
            /\ Satisfies(act[a].decided_by, act[a].required)

\* What was decided on a page showing version v is written over version v only:
\* a person never overwrites a change made after they looked.
ExpectedVersionHonoured ==
  [][\A r \in Requests :
       req[r].seen # 0 /\ req'[r] = Idle /\ version' # version =>
         version[req[r].case] = req[r].seen]_vars

\* An invoice belongs to one case, whichever of two racing ingestion loops or
\* people opens it first, and case_invoices says which.
OneCasePerInvoice ==
  /\ \A c, d \in Cases : c # d => refs[c] \cap refs[d] = {}
  /\ \A i \in Invoices, c \in Cases : i \in refs[c] <=> claim[i] = c
=============================================================================

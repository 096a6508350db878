---------------------------- MODULE StoresProofs ----------------------------
(***************************************************************************)
(* Proofs about the stores that several requests write at once: the case    *)
(* service, for any number of cases, actions, invoices and requests; a      *)
(* tenant's policies, for any number of policies, managers, evaluations and *)
(* versions, whatever the rules say; an agent's prompts, for any number of  *)
(* requests, versions and revisions; and the ERP's invoices, for any number *)
(* of keys and requests, with the arithmetic of what they are credited.     *)
(***************************************************************************)
EXTENDS Intake, Amounts, PolicyStore, PromptStore, SequenceTheorems, Induction, TLAPS

-----------------------------------------------------------------------------
(* THE CASE SERVICE                                                         *)

-----------------------------------------------------------------------------
(* The lifecycle table                                                      *)

\* Every target named by the table is a status, and a closed case stays closed.
LEMMA Lifecycle ==
  /\ \A src, dst \in CaseStatus : can_transition(src, dst) => ~is_terminal(src)
  /\ \A src \in CaseStatus : ~is_terminal(src) /\ src # "PENDING_APPROVAL" =>
       can_transition(src, "PENDING_APPROVAL")
  BY DEF CaseStatus, can_transition, is_terminal, TERMINAL, TRANSITIONS, ActiveTargets

LEMMA EventTyped ==
  ASSUME NEW type \in EventType, NEW from \in CaseStatus \cup {"none"},
         NEW to \in CaseStatus \cup {"none"}, NEW a \in Actions \cup {None}
  PROVE  <<Event(type, from, to, a)>> \in Seq(CaseEvent)
  BY DEF Event, CaseEvent

LEMMA StateChangedTyped ==
  ASSUME NEW from \in CaseStatus \cup {"none"}, NEW to \in CaseStatus
  PROVE  StateChanged(from, to, None) \in Seq(CaseEvent)
  <1>1. /\ Event("case.state_changed", from, to, None) \in CaseEvent
        /\ Event("case.resolved", from, to, None) \in CaseEvent
    BY DEF Event, CaseEvent, EventType
  <1> QED
    BY <1>1 DEF StateChanged

LEMMA SayTyped ==
  ASSUME TypeOK, NEW c \in Cases, NEW events \in Seq(CaseEvent), Say(c, events)
  PROVE  log' \in [Cases -> Seq(CaseEvent)]
  <1>1. log[c] \o events \in Seq(CaseEvent)
    BY ConcatProperties DEF TypeOK
  <1> QED
    BY <1>1 DEF TypeOK, Say

-----------------------------------------------------------------------------
(* Types                                                                    *)

LEMMA InitType == Init => TypeOK
  BY DEF Init, TypeOK, L!Init, L!NoAction, Idle, RequestRow, ActionRow, AgentMode, Phase

ReqTyped(q) ==
  /\ q \in RequestRow
  /\ q.phase \in {"viewed", "case", "action"} => q.case \in Cases
  /\ q.phase = "action" => q.action \in Actions

LEMMA BecomesTyped ==
  ASSUME TypeOK, NEW r \in Requests, NEW q, ReqTyped(q), Becomes(r, q)
  PROVE  /\ req' \in [Requests -> RequestRow]
         /\ \A s \in Requests :
              /\ req'[s].phase \in {"viewed", "case", "action"} => req'[s].case \in Cases
              /\ req'[s].phase = "action" => req'[s].action \in Actions
  BY DEF TypeOK, Becomes, ReqTyped

LEMMA IdleTyped == ReqTyped(Idle)
  BY DEF ReqTyped, L!NoAction, Idle, RequestRow, ActionRow, AgentMode, Phase

LEMMA DoneTyped ==
  ASSUME TypeOK, NEW r \in Requests, Done(r)
  PROVE  /\ req' \in [Requests -> RequestRow]
         /\ \A s \in Requests :
              /\ req'[s].phase \in {"viewed", "case", "action"} => req'[s].case \in Cases
              /\ req'[s].phase = "action" => req'[s].action \in Actions
  BY BecomesTyped, IdleTyped DEF Done

LEMMA ReadsType ==
  ASSUME TypeOK, NEW r \in Requests, Reads(r)
  PROVE  TypeOK'
  <1>1. ASSUME NEW c \in Cases, View(r, c)
        PROVE  TypeOK'
    <2>1. ReqTyped([Idle EXCEPT !.phase = "viewed", !.case = c, !.seen = version[c]])
      BY IdleTyped DEF ReqTyped, Idle, RequestRow, Phase, TypeOK
    <2> QED
      BY <1>1, <2>1, BecomesTyped DEF View, TypeOK, row
  <1>2. ASSUME NEW c \in Cases, get_case(r, c)
        PROVE  TypeOK'
    <2>1. req[r].seen \in Nat
      BY DEF TypeOK, RequestRow
    <2>2. ReqTyped([Idle EXCEPT !.phase = "case", !.case = c, !.seen = req[r].seen,
                      !.version = version[c], !.status = status[c], !.mode = mode[c]])
      BY <2>1, IdleTyped DEF ReqTyped, Idle, RequestRow, Phase, TypeOK
    <2> QED
      BY <1>2, <2>2, BecomesTyped DEF get_case, TypeOK, row
  <1>3. ASSUME NEW a \in Actions, get_action(r, a)
        PROVE  TypeOK'
    <2>1. req[r] \in RequestRow /\ req[r].case \in Cases /\ act[a] \in ActionRow
      BY <1>3 DEF TypeOK, get_action
    <2>2. ReqTyped([req[r] EXCEPT !.phase = "action", !.action = a, !.prop = act[a]])
      BY <2>1 DEF ReqTyped, RequestRow, Phase
    <2> QED
      BY <1>3, <2>2, BecomesTyped DEF get_action, TypeOK, row
  <1>4. ASSUME NEW S \in SUBSET Invoices, BeginCreate(r, S)
        PROVE  TypeOK'
    <2>1. ReqTyped([Idle EXCEPT !.phase = "creating", !.refs = S])
      BY IdleTyped DEF ReqTyped, Idle, RequestRow, Phase
    <2> QED
      BY <1>4, <2>1, BecomesTyped DEF BeginCreate, TypeOK, row
  <1>5. CASE Abort(r)
    BY <1>5, DoneTyped DEF Abort, TypeOK, row
  <1> QED
    BY <1>1, <1>2, <1>3, <1>4, <1>5 DEF Reads

\* What a write finds in the request it serves.
LEMMA RequestTyped ==
  ASSUME TypeOK, NEW r \in Requests
  PROVE  /\ req[r] \in RequestRow
         /\ req[r].phase \in {"viewed", "case", "action"} => req[r].case \in Cases
         /\ req[r].phase = "action" => req[r].action \in Actions
         /\ req[r].status \in CaseStatus \cup {"none"}
         /\ req[r].prop \in ActionRow
         /\ req[r].refs \in SUBSET Invoices
  BY DEF TypeOK, RequestRow

\* A write of the case row that keeps the columns' types keeps TypeOK.
LEMMA WriteTyped ==
  ASSUME TypeOK, NEW r \in Requests, NEW c \in Cases, NEW n \in Nat, Flush(c, n), Done(r),
         status' \in [Cases -> CaseStatus \cup {"none"}],
         mode' \in [Cases -> AgentMode],
         refs' \in [Cases -> SUBSET Invoices],
         act' \in [Actions -> ActionRow],
         log' \in [Cases -> Seq(CaseEvent)],
         claim' \in [Invoices -> Cases \cup {None}]
  PROVE  TypeOK'
  <1>1. version' \in [Cases -> Nat]
    BY DEF TypeOK, Flush
  <1> QED
    BY <1>1, DoneTyped DEF TypeOK

LEMMA MoveType ==
  ASSUME TypeOK, NEW r \in Requests, NEW to \in CaseStatus, ReadCase(r),
         SetStatus(r, to), Say(req[r].case, StateChanged(req[r].status, to, None)),
         Flush(req[r].case, 1), Done(r), UNCHANGED <<mode, refs, act, claim>>
  PROVE  TypeOK'
  <1> DEFINE c == req[r].case
  <1>1. c \in Cases /\ req[r].status \in CaseStatus \cup {"none"}
    BY RequestTyped DEF ReadCase
  <1>2. log' \in [Cases -> Seq(CaseEvent)]
    BY <1>1, StateChangedTyped, SayTyped
  <1>3. status' \in [Cases -> CaseStatus \cup {"none"}]
    BY <1>1 DEF SetStatus, TypeOK
  <1> QED
    BY <1>1, <1>2, <1>3, WriteTyped DEF TypeOK

LEMMA CaseWritesType ==
  ASSUME TypeOK, NEW r \in Requests, CaseWrites(r)
  PROVE  TypeOK'
  <1> DEFINE c == req[r].case
  <1>0. "TRIAGED" \in CaseStatus /\ Targets \subseteq CaseStatus
    BY CallerAssumption DEF CaseStatus
  <1>1. ASSUME NEW to \in Targets, NEW role \in Humans, transition_case(r, to, role)
        PROVE  TypeOK'
    BY <1>0, <1>1, MoveType DEF transition_case
  <1>2. ASSUME NEW to \in Targets, internal_transition(r, to)
        PROVE  TypeOK'
    BY <1>0, <1>2, MoveType DEF internal_transition
  <1>3. CASE apply_triage(r)
    <2>1. CASE req[r].status = "NEW"
      BY <1>0, <1>3, <2>1, MoveType DEF apply_triage
    <2>2. CASE req[r].status # "NEW"
      BY <1>3, <2>2, RequestTyped, WriteTyped DEF apply_triage, ReadCase, TypeOK
    <2> QED
      BY <2>1, <2>2
  <1>4. CASE add_note(r)
    <2>1. <<Event("case.note.added", "none", "none", None)>> \in Seq(CaseEvent)
      BY EventTyped DEF EventType
    <2>2. c \in Cases
      BY <1>4, RequestTyped DEF add_note, ReadCase
    <2>3. log' \in [Cases -> Seq(CaseEvent)]
      BY <1>4, <2>1, <2>2, SayTyped DEF add_note
    <2> QED
      BY <1>4, <2>2, <2>3, WriteTyped DEF add_note, TypeOK
  <1>5. CASE assign(r)
    BY <1>5, RequestTyped, WriteTyped DEF assign, ReadCase, TypeOK
  <1>6. CASE takeover(r)
    <2>1. <<Event("case.takeover", "none", "none", None)>> \in Seq(CaseEvent)
      BY EventTyped DEF EventType
    <2>2. c \in Cases
      BY <1>6, RequestTyped DEF takeover, ReadCase
    <2>3. log' \in [Cases -> Seq(CaseEvent)]
      BY <1>6, <2>1, <2>2, SayTyped DEF takeover
    <2>4. mode' \in [Cases -> AgentMode]
      BY <1>6, <2>2 DEF takeover, TypeOK, AgentMode
    <2> QED
      BY <1>6, <2>2, <2>3, <2>4, WriteTyped DEF takeover, TypeOK
  <1>7. CASE release(r)
    <2>1. <<Event("case.released", "none", "none", None)>> \in Seq(CaseEvent)
      BY EventTyped DEF EventType
    <2>2. c \in Cases
      BY <1>7, RequestTyped DEF release, ReadCase
    <2>3. log' \in [Cases -> Seq(CaseEvent)]
      BY <1>7, <2>1, <2>2, SayTyped DEF release
    <2>4. mode' \in [Cases -> AgentMode]
      BY <1>7, <2>2 DEF release, TypeOK, AgentMode
    <2> QED
      BY <1>7, <2>2, <2>3, <2>4, WriteTyped DEF release, TypeOK
  <1>8. ASSUME NEW d \in Cases, create_case(r, d)
        PROVE  TypeOK'
    <2>1. <<Event("case.created", "none", "NEW", None)>> \in Seq(CaseEvent)
      BY EventTyped DEF EventType, CaseStatus
    <2>2. log' \in [Cases -> Seq(CaseEvent)]
      BY <1>8, <2>1, SayTyped DEF create_case
    <2>3. /\ status' \in [Cases -> CaseStatus \cup {"none"}]
          /\ refs' \in [Cases -> SUBSET Invoices]
          /\ claim' \in [Invoices -> Cases \cup {None}]
      BY <1>8, RequestTyped DEF create_case, TypeOK, CaseStatus
    <2> QED
      BY <1>8, <2>2, <2>3, WriteTyped DEF create_case, TypeOK
  <1> QED
    BY <1>1, <1>2, <1>3, <1>4, <1>5, <1>6, <1>7, <1>8 DEF CaseWrites

LEMMA ActionWritesType ==
  ASSUME TypeOK, NEW r \in Requests, ActionWrites(r)
  PROVE  TypeOK'
  <1> DEFINE c == req[r].case
  <1>0. /\ "PENDING_APPROVAL" \in CaseStatus
        /\ "ACTION_TAKEN" \in CaseStatus
        /\ "INVESTIGATING" \in CaseStatus
    BY DEF CaseStatus
  <1>1. ASSUME NEW a \in Actions, NEW v \in Verdicts, propose_action(r, a, v[1], v[2])
        PROVE  TypeOK'
    <2>1. c \in Cases /\ v[1] \in PolicyDecision /\ v[2] \in Role \cup {"none"}
      BY <1>1, RequestTyped, CallerAssumption DEF propose_action, ReadCase
    <2>2. InitialActionStatus[v[1]] \in ActionStatus
      BY <2>1 DEF InitialActionStatus, PolicyDecision, ActionStatus
    <2>3. act' \in [Actions -> ActionRow]
      BY <1>1, <2>1, <2>2 DEF propose_action, TypeOK, ActionRow
    <2> DEFINE p == <<Event("case.action.proposed", "none", "none", a)>>
    <2>4. p \in Seq(CaseEvent)
      BY EventTyped DEF EventType
    <2>5. p \o StateChanged(req[r].status, "PENDING_APPROVAL", None) \in Seq(CaseEvent)
      BY <1>0, <2>4, StateChangedTyped, RequestTyped, ConcatProperties
    <2>6. log' \in [Cases -> Seq(CaseEvent)]
      BY <1>1, <2>1, <2>4, <2>5, SayTyped DEF propose_action
    <2>7. status' \in [Cases -> CaseStatus \cup {"none"}]
      BY <1>0, <1>1, <2>1 DEF propose_action, SetStatus, TypeOK
    <2>8. \E n \in Nat : Flush(c, n)
      BY <1>1 DEF propose_action
    <2> QED
      BY <1>1, <2>1, <2>3, <2>6, <2>7, <2>8, WriteTyped DEF propose_action, TypeOK
  <1>2. ASSUME NEW decision \in Decision, NEW role \in Humans, decide_action(r, decision, role)
        PROVE  TypeOK'
    <2> DEFINE a == req[r].action
               nxt == IF decision # "REJECTED" THEN "ACTION_TAKEN" ELSE "INVESTIGATING"
               e == <<Event(DecisionEvent[decision], "none", "none", a)>>
    <2>1. c \in Cases /\ a \in Actions /\ role \in Role /\ decision \in ActionStatus
      BY <1>2, RequestTyped, CallerAssumption
      DEF decide_action, ReadAction, Decision, ActionStatus
    <2>2. DecisionEvent[decision] \in EventType
      BY DEF DecisionEvent, Decision, EventType
    <2>3. act' \in [Actions -> ActionRow]
      <3>1. act[a] \in ActionRow
        BY <2>1 DEF TypeOK
      <3>2. [act[a] EXCEPT !.status = decision, !.decided_by = role] \in ActionRow
        BY <2>1, <3>1 DEF ActionRow
      <3> QED
        BY <1>2, <2>1, <3>2 DEF decide_action, TypeOK
    <2>4. e \in Seq(CaseEvent)
      BY <2>1, <2>2, EventTyped
    <2>5. e \o StateChanged(req[r].status, nxt, None) \in Seq(CaseEvent)
      BY <1>0, <2>4, StateChangedTyped, RequestTyped, ConcatProperties
    <2>6. log' \in [Cases -> Seq(CaseEvent)]
      BY <1>2, <2>1, <2>4, <2>5, SayTyped DEF decide_action
    <2>7. status' \in [Cases -> CaseStatus \cup {"none"}]
      BY <1>0, <1>2, <2>1 DEF decide_action, SetStatus, TypeOK
    <2>8. \E n \in Nat : Flush(c, n)
      BY <1>2 DEF decide_action
    <2> QED
      BY <1>2, <2>1, <2>3, <2>6, <2>7, <2>8, WriteTyped DEF decide_action, TypeOK
  <1>3. CASE mark_executed(r)
    <2>1. c \in Cases /\ req[r].action \in Actions
      BY <1>3, RequestTyped DEF mark_executed, ReadAction
    <2>2. ExecutedStatus(req[r].prop) \in ActionStatus
      BY DEF ExecutedStatus, ActionStatus
    <2>3. act' \in [Actions -> ActionRow]
      <3>1. act[req[r].action] \in ActionRow
        BY <2>1 DEF TypeOK
      <3>2. [act[req[r].action] EXCEPT !.status = ExecutedStatus(req[r].prop)] \in ActionRow
        BY <2>2, <3>1 DEF ActionRow
      <3> QED
        BY <1>3, <2>1, <3>2 DEF mark_executed, SetActionStatus, TypeOK
    <2> QED
      BY <1>3, <2>1, <2>3, WriteTyped DEF mark_executed, TypeOK
  <1> QED
    BY <1>1, <1>2, <1>3 DEF ActionWrites

\* Every reachable state is well typed.
THEOREM TypeCorrect == Spec => []TypeOK
  <1>1. TypeOK /\ [Next]_vars => TypeOK'
    <2>1. CASE Next
      BY <2>1, ReadsType, CaseWritesType, ActionWritesType DEF Next
    <2>2. CASE UNCHANGED vars
      BY <2>2 DEF TypeOK, vars
    <2> QED
      BY <2>1, <2>2
  <1> QED
    BY <1>1, InitType, PTL DEF Spec

-----------------------------------------------------------------------------
(* A row read and still at the version read is the row                      *)

\* What every write does to the rows: it bumps one case, and leaves the rows
\* of every other case as they were.
Written(c) ==
  /\ c \in Cases
  /\ version'[c] \in Nat /\ version'[c] > version[c]
  /\ status'[c] # "none"
  /\ \A d \in Cases \ {c} :
       version'[d] = version[d] /\ status'[d] = status[d] /\ mode'[d] = mode[d]
  /\ \A a \in Actions :
       /\ act[a].case \in Cases \ {c} => act'[a] = act[a]
       /\ act[a].case = c => act'[a].case = c

LEMMA SnapshotOfRead ==
  ASSUME TypeOK, SnapshotCurrent, NEW r \in Requests, Reads(r)
  PROVE  SnapshotCurrent'
  <1>1. ASSUME NEW c \in Cases, View(r, c)
        PROVE  SnapshotCurrent'
    BY <1>1 DEF View, Becomes, Idle, SnapshotCurrent, TypeOK, row, L!Exists
  <1>2. ASSUME NEW c \in Cases, get_case(r, c)
        PROVE  SnapshotCurrent'
    BY <1>2 DEF get_case, Becomes, Idle, SnapshotCurrent, TypeOK, row, L!Exists
  <1>3. ASSUME NEW a \in Actions, get_action(r, a)
        PROVE  SnapshotCurrent'
    <2> DEFINE q == [req[r] EXCEPT !.phase = "action", !.action = a, !.prop = act[a]]
    <2>1. /\ q.phase = "action" /\ q.action = a /\ q.prop = act[a]
          /\ q.case = req[r].case /\ q.version = req[r].version
          /\ q.status = req[r].status /\ q.mode = req[r].mode
      BY DEF TypeOK, RequestRow
    <2>2. req' = [req EXCEPT ![r] = q]
      BY <1>3 DEF get_action, Becomes
    <2> HIDE DEF q
    <2> QED
      BY <1>3, <2>1, <2>2 DEF get_action, SnapshotCurrent, TypeOK, row, L!Exists
  <1>4. ASSUME NEW S \in SUBSET Invoices, BeginCreate(r, S)
        PROVE  SnapshotCurrent'
    BY <1>4 DEF BeginCreate, Becomes, Idle, SnapshotCurrent, TypeOK, row, L!Exists
  <1>5. CASE Abort(r)
    BY <1>5 DEF Abort, Done, Becomes, Idle, SnapshotCurrent, TypeOK, row, L!Exists
  <1> QED
    BY <1>1, <1>2, <1>3, <1>4, <1>5 DEF Reads

LEMMA SnapshotOfWrite ==
  ASSUME TypeOK, SnapshotCurrent, NEW r \in Requests, NEW c, Written(c), Done(r)
  PROVE  SnapshotCurrent'
  <1> SUFFICES ASSUME NEW s \in Requests, req'[s].phase \in {"case", "action"}
               PROVE  /\ status'[req[s].case] # "none"
                      /\ req[s].version <= version'[req[s].case]
                      /\ version'[req[s].case] = req[s].version =>
                           /\ req[s].status = status'[req[s].case]
                           /\ req[s].mode = mode'[req[s].case]
                      /\ req[s].phase = "action" =>
                           /\ act'[req[s].action].case = req[s].case
                           /\ version'[req[s].case] = req[s].version =>
                                req[s].prop = act'[req[s].action]
                      /\ req'[s] = req[s]
    BY DEF SnapshotCurrent, L!Exists
  <1>1. req'[s] = req[s] /\ req[s].phase \in {"case", "action"}
    BY DEF Done, Becomes, Idle, TypeOK
  <1>2. /\ req[s].case \in Cases /\ req[s].version \in Nat
        /\ version[req[s].case] \in Nat /\ version[c] \in Nat
        /\ req[s].phase = "action" => req[s].action \in Actions
    BY <1>1 DEF TypeOK, RequestRow, Written
  <1>3. /\ L!Exists(req[s].case)
        /\ req[s].version <= version[req[s].case]
        /\ version[req[s].case] = req[s].version =>
             req[s].status = status[req[s].case] /\ req[s].mode = mode[req[s].case]
        /\ req[s].phase = "action" =>
             /\ act[req[s].action].case = req[s].case
             /\ version[req[s].case] = req[s].version => req[s].prop = act[req[s].action]
    BY <1>1 DEF SnapshotCurrent
  <1>4. CASE req[s].case = c
    <2>1. version'[c] \in Nat /\ version'[c] > req[s].version
      BY <1>2, <1>3, <1>4 DEF Written
    <2> QED
      BY <1>1, <1>2, <1>3, <1>4, <2>1 DEF Written
  <1>5. CASE req[s].case # c
    BY <1>1, <1>2, <1>3, <1>5 DEF Written, L!Exists
  <1> QED
    BY <1>4, <1>5

\* The frame of a write that leaves the action rows alone.
LEMMA CaseWriteFrame ==
  ASSUME TypeOK, NEW c \in Cases, NEW n \in Nat \ {0}, Flush(c, n), UNCHANGED act,
         status'[c] # "none",
         \A d \in Cases \ {c} : status'[d] = status[d] /\ mode'[d] = mode[d]
  PROVE  Written(c)
  BY DEF Written, Flush, TypeOK

\* A case that was read exists, and still does after its status is set.
LEMMA ReadExists ==
  ASSUME TypeOK, SnapshotCurrent, NEW r \in Requests, req[r].phase \in {"case", "action"}
  PROVE  req[r].case \in Cases /\ L!Exists(req[r].case)
  BY RequestTyped DEF SnapshotCurrent

LEMMA SetStatusFrame ==
  ASSUME TypeOK, SnapshotCurrent, NEW r \in Requests, req[r].phase \in {"case", "action"},
         NEW to \in CaseStatus, SetStatus(r, to) \/ UNCHANGED status
  PROVE  /\ status'[req[r].case] # "none"
         /\ \A d \in Cases \ {req[r].case} : status'[d] = status[d]
  <1>1. "none" \notin CaseStatus
    BY DEF CaseStatus
  <1> QED
    BY <1>1, ReadExists DEF SetStatus, TypeOK, L!Exists

LEMMA WriteFrame ==
  ASSUME TypeOK, SnapshotCurrent, NEW r \in Requests, CaseWrites(r) \/ ActionWrites(r)
  PROVE  Done(r) /\ \E c \in Cases : Written(c)
  <1> DEFINE c == req[r].case
  <1>0. /\ {"TRIAGED", "PENDING_APPROVAL", "ACTION_TAKEN", "INVESTIGATING"} \subseteq CaseStatus
        /\ Targets \subseteq CaseStatus
        /\ 1 \in Nat \ {0} /\ 2 \in Nat \ {0}
    BY CallerAssumption DEF CaseStatus
  <1>1. ASSUME ReadCase(r), Flush(c, 1), Done(r), UNCHANGED <<mode, act>>,
               NEW to \in CaseStatus, SetStatus(r, to) \/ UNCHANGED status
        PROVE  Done(r) /\ Written(c)
    <2>1. req[r].phase \in {"case", "action"}
      BY <1>1 DEF ReadCase
    <2> QED
      BY <1>0, <1>1, <2>1, ReadExists, SetStatusFrame, CaseWriteFrame
  <1>2. ASSUME NEW to \in Targets, NEW role \in Humans, transition_case(r, to, role)
        PROVE  Done(r) /\ Written(c)
    BY <1>0, <1>1, <1>2 DEF transition_case
  <1>3. ASSUME NEW to \in Targets, internal_transition(r, to)
        PROVE  Done(r) /\ Written(c)
    BY <1>0, <1>1, <1>3 DEF internal_transition
  <1>4. CASE apply_triage(r) \/ add_note(r) \/ assign(r)
    <2>1. ReadCase(r) /\ Flush(c, 1) /\ Done(r) /\ UNCHANGED <<mode, act>>
      BY <1>4 DEF apply_triage, add_note, assign
    <2>2. SetStatus(r, "TRIAGED") \/ UNCHANGED status
      BY <1>4 DEF apply_triage, add_note, assign
    <2>3. "TRIAGED" \in CaseStatus
      BY <1>0
    <2> QED
      BY <1>1, <2>1, <2>2, <2>3 DEF Written
  <1>5. CASE takeover(r) \/ release(r)
    <2>1. req[r].phase \in {"case", "action"} /\ UNCHANGED <<act, status>> /\ Flush(c, 1)
          /\ Done(r) /\ \E m \in AgentMode : mode' = [mode EXCEPT ![c] = m]
      BY <1>5 DEF takeover, release, ReadCase, AgentMode
    <2>2. \A d \in Cases \ {c} : status'[d] = status[d] /\ mode'[d] = mode[d]
      BY <2>1, ReadExists DEF TypeOK
    <2>3. status'[c] # "none"
      BY <2>1, ReadExists DEF L!Exists
    <2> QED
      BY <1>0, <2>1, <2>2, <2>3, ReadExists, CaseWriteFrame
  <1>6. ASSUME NEW d \in Cases, create_case(r, d)
        PROVE  Done(r) /\ Written(d)
    <2>1. status'[d] # "none" /\ \A e \in Cases \ {d} : status'[e] = status[e] /\ mode'[e] = mode[e]
      BY <1>6 DEF create_case, TypeOK, L!Exists
    <2> QED
      BY <1>0, <1>6, <2>1, CaseWriteFrame DEF create_case
  <1>7. ASSUME NEW a \in Actions, NEW v \in Verdicts, propose_action(r, a, v[1], v[2])
        PROVE  Done(r) /\ Written(c)
    <2>1. req[r].phase \in {"case", "action"} /\ Done(r) /\ UNCHANGED mode
      BY <1>7 DEF propose_action, ReadCase
    <2>2. SetStatus(r, "PENDING_APPROVAL") \/ UNCHANGED status
      BY <1>7 DEF propose_action
    <2>3. \E n \in Nat \ {0} : Flush(c, n)
      BY <1>0, <1>7 DEF propose_action
    <2>4. \A b \in Actions : act[b].case \in Cases => act'[b] = act[b]
      BY <1>7, NoneAssumption DEF propose_action, TypeOK, L!NoAction
    <2> QED
      BY <1>0, <2>1, <2>2, <2>3, <2>4, ReadExists, SetStatusFrame DEF Written, Flush, TypeOK
  <1>8. ASSUME NEW decision \in Decision, NEW role \in Humans, decide_action(r, decision, role)
        PROVE  Done(r) /\ Written(c)
    <2> DEFINE a == req[r].action
    <2>1. /\ req[r].phase = "action" /\ Done(r) /\ UNCHANGED mode
          /\ act' = [act EXCEPT ![a] = [act[a] EXCEPT !.status = decision, !.decided_by = role]]
      BY <1>8 DEF decide_action, ReadAction
    <2>2. \E to \in CaseStatus : SetStatus(r, to) \/ UNCHANGED status
      BY <1>0, <1>8 DEF decide_action
    <2>3. \E n \in Nat \ {0} : Flush(c, n)
      BY <1>0, <1>8 DEF decide_action
    <2>4. a \in Actions /\ act[a].case = c /\ act[a] \in ActionRow
      BY <2>1, RequestTyped DEF SnapshotCurrent, TypeOK
    <2>5. \A b \in Actions : act'[b].case = act[b].case /\ (b # a => act'[b] = act[b])
      BY <2>1, <2>4 DEF TypeOK, ActionRow
    <2> QED
      BY <2>1, <2>2, <2>3, <2>4, <2>5, ReadExists, SetStatusFrame DEF Written, Flush, TypeOK
  <1>9. CASE mark_executed(r)
    <2> DEFINE a == req[r].action
    <2>1. /\ req[r].phase = "action" /\ Done(r) /\ UNCHANGED <<status, mode>> /\ Flush(c, 1)
          /\ act' = [act EXCEPT ![a] = [act[a] EXCEPT !.status = ExecutedStatus(req[r].prop)]]
      BY <1>9 DEF mark_executed, ReadAction, SetActionStatus
    <2>2. a \in Actions /\ act[a].case = c /\ act[a] \in ActionRow
      BY <2>1, RequestTyped DEF SnapshotCurrent, TypeOK
    <2>3. \A b \in Actions : act'[b].case = act[b].case /\ (b # a => act'[b] = act[b])
      BY <2>1, <2>2 DEF TypeOK, ActionRow
    <2>4. version[c] \in Nat /\ version' = [version EXCEPT ![c] = version[c] + 1]
      BY <2>1, ReadExists DEF Flush, TypeOK
    <2>5. c \in Cases /\ status[c] # "none"
      BY <2>1, ReadExists DEF L!Exists
    <2>6. \A b \in Actions :
            /\ act[b].case \in Cases \ {c} => act'[b] = act[b]
            /\ act[b].case = c => act'[b].case = c
      BY <2>2, <2>3
    <2>7. version'[c] \in Nat /\ version'[c] > version[c]
          /\ \A d \in Cases \ {c} : version'[d] = version[d]
      BY <2>4, <2>5 DEF TypeOK
    <2> QED
      BY <2>1, <2>5, <2>6, <2>7 DEF Written
  <1> QED
    BY <1>2, <1>3, <1>4, <1>5, <1>6, <1>7, <1>8, <1>9, RequestTyped, ReadExists
    DEF CaseWrites, ActionWrites, Written

LEMMA SnapshotStep == TypeOK /\ SnapshotCurrent /\ [Next]_vars => SnapshotCurrent'
  <1> SUFFICES ASSUME TypeOK, SnapshotCurrent, [Next]_vars
               PROVE  SnapshotCurrent'
    OBVIOUS
  <1>1. CASE Next
    BY <1>1, SnapshotOfRead, WriteFrame, SnapshotOfWrite DEF Next
  <1>2. CASE UNCHANGED vars
    BY <1>2 DEF vars, SnapshotCurrent, L!Exists
  <1> QED
    BY <1>1, <1>2

\* The guards of service.py are evaluated on copies of rows; a copy whose
\* version the UPDATE finds unchanged is the row, whatever ran in between.
THEOREM SnapshotsAreCurrent == Spec => []SnapshotCurrent
  <1>1. Init => SnapshotCurrent
    BY DEF Init, SnapshotCurrent, Idle
  <1> QED
    BY <1>1, SnapshotStep, TypeCorrect, PTL DEF Spec

-----------------------------------------------------------------------------
(* The service implements the ledger                                        *)

\* The ledger's copy of the vocabulary is the service's.
LEMMA SameStates ==
  /\ L!CaseStatus = CaseStatus
  /\ L!TRANSITIONS = TRANSITIONS
  /\ \A s : L!is_terminal(s) <=> is_terminal(s)
  /\ \A src, dst : L!can_transition(src, dst) <=> can_transition(src, dst)
  BY DEF CaseStatus, L!CaseStatus, TRANSITIONS, L!TRANSITIONS, ActiveTargets, L!ActiveTargets,
         TERMINAL, L!TERMINAL, is_terminal, L!is_terminal, can_transition, L!can_transition

LEMMA SameEvents ==
  /\ \A type, from, to, a : L!Event(type, from, to, a) = Event(type, from, to, a)
  /\ \A from, to, none : L!StateChanged(from, to, none) = StateChanged(from, to, none)
  /\ L!DecisionEvent = DecisionEvent
  BY SameStates
  DEF Event, L!Event, StateChanged, L!StateChanged, DecisionEvent, L!DecisionEvent

LEMMA SameActions ==
  /\ L!PolicyDecision = PolicyDecision
  /\ L!Decision = Decision
  /\ L!Role = Role
  /\ L!InitialActionStatus = InitialActionStatus
  /\ \A role, required : L!Satisfies(role, required) <=> Satisfies(role, required)
  BY DEF PolicyDecision, L!PolicyDecision, Decision, L!Decision, Role, L!Role,
         InitialActionStatus, L!InitialActionStatus, Satisfies, L!Satisfies, ROLE_RANK, L!ROLE_RANK

LEMMA CurrentCase ==
  ASSUME TypeOK, SnapshotCurrent, NEW r \in Requests, req[r].phase \in {"case", "action"},
         Fresh(r)
  PROVE  /\ req[r].case \in Cases
         /\ L!Exists(req[r].case)
         /\ req[r].status = status[req[r].case]
         /\ req[r].mode = mode[req[r].case]
  BY ReadExists DEF SnapshotCurrent, Fresh

LEMMA CurrentAction ==
  ASSUME TypeOK, SnapshotCurrent, NEW r \in Requests, ReadAction(r)
  PROVE  /\ req[r].action \in Actions
         /\ act[req[r].action].case = req[r].case
         /\ req[r].prop = act[req[r].action]
  BY RequestTyped DEF SnapshotCurrent, ReadAction, Fresh

LEMMA ReadStutters ==
  ASSUME NEW r \in Requests, Reads(r)
  PROVE  UNCHANGED L!ledger
  BY DEF Reads, View, get_case, get_action, Abort, BeginCreate, row, L!ledger

LEMMA MoveImplements ==
  ASSUME TypeOK, SnapshotCurrent, NEW r \in Requests, NEW to \in CaseStatus, ReadCase(r),
         SetStatus(r, to), Say(req[r].case, StateChanged(req[r].status, to, None)),
         UNCHANGED <<mode, refs, act>>
  PROVE  L!Next
  <1>1. L!Move(req[r].case, to)
    BY CurrentCase, SameStates, SameEvents DEF ReadCase, L!Move, SetStatus, Say, L!Say
  <1> QED
    BY <1>1, CurrentCase, SameStates DEF ReadCase, L!Next

\* case_invoices and invoice_refs agree, and a case yet to be opened has none.
ClaimInv ==
  /\ OneCasePerInvoice
  /\ \A c \in Cases : ~L!Exists(c) => refs[c] = {}

LEMMA ClaimStep == TypeOK /\ SnapshotCurrent /\ ClaimInv /\ [Next]_vars => ClaimInv'
  <1> SUFFICES ASSUME TypeOK, SnapshotCurrent, ClaimInv, [Next]_vars
               PROVE  ClaimInv'
    OBVIOUS
  <1>1. ASSUME NEW r \in Requests, NEW c \in Cases, create_case(r, c)
        PROVE  ClaimInv'
    <2> DEFINE S == req[r].refs
    <2>1. /\ S \subseteq Invoices /\ \A i \in S : claim[i] = None
          /\ ~L!Exists(c) /\ refs[c] = {}
          /\ claim' = [i \in Invoices |-> IF i \in S THEN c ELSE claim[i]]
          /\ refs' = [refs EXCEPT ![c] = S]
          /\ status' = [status EXCEPT ![c] = "NEW"]
      BY <1>1, RequestTyped DEF create_case, ClaimsInserted, ClaimInv
    <2>2. \A i \in Invoices, d \in Cases : i \in refs'[d] <=> claim'[i] = d
      BY <2>1, NoneAssumption DEF ClaimInv, OneCasePerInvoice, TypeOK
    <2>3. \A d, e \in Cases : d # e => refs'[d] \cap refs'[e] = {}
      <3>1. refs' \in [Cases -> SUBSET Invoices]
        BY <2>1 DEF TypeOK
      <3> QED
        BY <2>2, <3>1
    <2>4. \A d \in Cases : status'[d] = "none" => refs'[d] = {}
      BY <2>1 DEF ClaimInv, L!Exists, TypeOK
    <2> QED
      BY <2>2, <2>3, <2>4 DEF ClaimInv, OneCasePerInvoice, L!Exists
  <1>2. ASSUME UNCHANGED <<refs, claim>>, \A d \in Cases : status'[d] = "none" => status[d] = "none"
        PROVE  ClaimInv'
    BY <1>2 DEF ClaimInv, OneCasePerInvoice, L!Exists
  <1>3. ASSUME NEW r \in Requests, Reads(r)
        PROVE  ClaimInv'
    BY <1>2, <1>3 DEF Reads, View, get_case, get_action, Abort, BeginCreate, row
  <1>4. ASSUME NEW r \in Requests, CaseWrites(r) \/ ActionWrites(r),
               ~ \E c \in Cases : create_case(r, c)
        PROVE  ClaimInv'
    <2>1. UNCHANGED <<refs, claim>>
      BY <1>4 DEF CaseWrites, ActionWrites, transition_case, internal_transition, apply_triage,
        add_note, assign, takeover, release, propose_action, decide_action, mark_executed
    <2>2. \A d \in Cases : status'[d] = "none" => status[d] = "none"
      BY <1>4, WriteFrame DEF Written
    <2> QED
      BY <1>2, <2>1, <2>2
  <1>5. CASE UNCHANGED vars
    BY <1>2, <1>5 DEF vars
  <1> QED
    BY <1>1, <1>3, <1>4, <1>5 DEF Next

LEMMA CaseWriteImplements ==
  ASSUME TypeOK, SnapshotCurrent, ClaimInv, NEW r \in Requests, CaseWrites(r)
  PROVE  [L!Next]_(L!ledger)
  <1> DEFINE c == req[r].case
  <1>0. "TRIAGED" \in CaseStatus /\ Targets \subseteq CaseStatus
    BY CallerAssumption DEF CaseStatus
  <1>1. ASSUME NEW to \in Targets, NEW role \in Humans, transition_case(r, to, role)
        PROVE  L!Next
    BY <1>0, <1>1, MoveImplements DEF transition_case
  <1>2. ASSUME NEW to \in Targets, internal_transition(r, to)
        PROVE  L!Next
    BY <1>0, <1>2, MoveImplements DEF internal_transition
  <1>3. CASE apply_triage(r)
    <2>1. CASE req[r].status = "NEW"
      BY <1>0, <1>3, <2>1, MoveImplements DEF apply_triage
    <2>2. CASE req[r].status # "NEW"
      BY <1>3, <2>2 DEF apply_triage, L!ledger
    <2> QED
      BY <2>1, <2>2
  <1>4. CASE add_note(r)
    <2>1. L!Note(c) /\ c \in Cases
      BY <1>4, CurrentCase, SameEvents DEF add_note, ReadCase, L!Note, Say, L!Say
    <2> QED
      BY <2>1 DEF L!Next
  <1>5. CASE assign(r)
    BY <1>5 DEF assign, L!ledger
  <1>6. CASE takeover(r)
    <2>1. L!TakeOver(c) /\ c \in Cases
      BY <1>6, CurrentCase, SameStates, SameEvents
      DEF takeover, ReadCase, CanTakeOver, L!TakeOver, L!Live, Say, L!Say, TypeOK, AgentMode
    <2> QED
      BY <2>1 DEF L!Next
  <1>7. CASE release(r)
    <2>1. L!HandBack(c) /\ c \in Cases
      BY <1>7, CurrentCase, SameEvents DEF release, ReadCase, L!HandBack, Say, L!Say
    <2> QED
      BY <2>1 DEF L!Next
  <1>8. ASSUME NEW d \in Cases, create_case(r, d)
        PROVE  L!Next
    <2> DEFINE S == req[r].refs
    <2>1. S \in (SUBSET Invoices) \ {{}}
      BY <1>8 DEF create_case, TypeOK, RequestRow
    <2>2. \A e \in Cases : refs[e] \cap S = {}
      BY <1>8, <2>1, NoneAssumption DEF create_case, ClaimsInserted, ClaimInv, OneCasePerInvoice
    <2>3. L!Open(d, S)
      BY <1>8, <2>2, SameEvents DEF create_case, L!Open, Say, L!Say
    <2> QED
      BY <2>1, <2>3 DEF L!Next
  <1> QED
    BY <1>1, <1>2, <1>3, <1>4, <1>5, <1>6, <1>7, <1>8 DEF CaseWrites

LEMMA ActionWriteImplements ==
  ASSUME TypeOK, SnapshotCurrent, NEW r \in Requests, ActionWrites(r)
  PROVE  L!Next
  <1> DEFINE c == req[r].case
             a == req[r].action
  <1>1. ASSUME NEW b \in Actions, NEW v \in Verdicts, propose_action(r, b, v[1], v[2])
        PROVE  L!Next
    <2>1. v[1] \in PolicyDecision /\ v[2] \in Role \cup {"none"}
      BY CallerAssumption
    <2>2. L!Exists(c) /\ req[r].status = status[c] /\ c \in Cases
      BY <1>1, CurrentCase DEF propose_action, ReadCase
    <2>3. L!Propose(c, b, v[1], v[2])
      BY <1>1, <2>2, SameStates, SameEvents, SameActions
      DEF propose_action, SetStatus, L!Propose, L!Live, Say, L!Say
    <2> QED
      BY <2>1, <2>2, <2>3, SameActions DEF L!Next
  <1>2. ASSUME NEW decision \in Decision, NEW role \in Humans, decide_action(r, decision, role)
        PROVE  L!Next
    <2>1. role \in Role
      BY CallerAssumption
    <2>2. req[r].status = status[c] /\ c \in Cases
      BY <1>2, CurrentCase DEF decide_action, ReadAction
    <2>3. a \in Actions /\ act[a].case = c /\ req[r].prop = act[a]
      BY <1>2, CurrentAction DEF decide_action
    <2>4. L!Decide(c, a, decision, role)
      BY <1>2, <2>2, <2>3, SameStates, SameEvents, SameActions
      DEF decide_action, check_can_decide, SetStatus, L!Decide, Say, L!Say
    <2> QED
      BY <2>1, <2>2, <2>3, <2>4, SameActions DEF L!Next
  <1>3. CASE mark_executed(r)
    <2>1. a \in Actions /\ act[a].case = c /\ req[r].prop = act[a]
      BY <1>3, CurrentAction DEF mark_executed
    <2>2. L!Execute(a) /\ c \in Cases
      BY <1>3, <2>1, CurrentCase
      DEF mark_executed, ReadAction, CanExecute, SetActionStatus, ExecutedStatus, L!Execute
    <2> QED
      BY <2>1, <2>2 DEF L!Next
  <1> QED
    BY <1>1, <1>2, <1>3 DEF ActionWrites

\* The inductive invariant behind the theorems below.
IInv == TypeOK /\ SnapshotCurrent /\ ClaimInv

LEMMA StepImplements == IInv /\ [Next]_vars => [L!Next]_(L!ledger)
  <1> SUFFICES ASSUME TypeOK, SnapshotCurrent, ClaimInv, [Next]_vars
               PROVE  [L!Next]_(L!ledger)
    BY DEF IInv
  <1>1. CASE Next
    BY <1>1, ReadStutters, CaseWriteImplements, ActionWriteImplements DEF Next
  <1>2. CASE UNCHANGED vars
    BY <1>2 DEF vars, L!ledger
  <1> QED
    BY <1>1, <1>2

LEMMA Inductive == Spec => []IInv
  <1>1. Init => ClaimInv
    BY NoneAssumption DEF Init, L!Init, ClaimInv, OneCasePerInvoice, L!Exists
  <1> QED
    BY <1>1, ClaimStep, TypeCorrect, SnapshotsAreCurrent, PTL DEF Spec, IInv

\* The service under any interleaving of requests is a ledger on which each
\* operation happens at one instant, and an invoice has one case.
THEOREM ServiceImplementsLedger == Spec => ImplementsLedger
  <1>1. Init => L!Init
    BY DEF Init
  <1> QED
    BY <1>1, StepImplements, Inductive, PTL DEF Spec, ImplementsLedger, L!Spec

\* An invoice is collected through one case, whoever opened it first.
THEOREM InvoicesClaimedOnce == Spec => []OneCasePerInvoice
  <1>1. IInv => OneCasePerInvoice
    BY DEF IInv, ClaimInv
  <1> QED
    BY <1>1, Inductive, PTL

-----------------------------------------------------------------------------
(* What is carried out was authorised: proved of the ledger's atomic steps, *)
(* which are all the service takes.                                         *)

\* ExecutionAuthorised of one row, and what a pending row was proposed under.
Authorised(p) ==
  /\ p.status = "AUTO_EXECUTED" => p.policy = "ALLOW"
  /\ p.status \in {"APPROVED", "EDITED", "EXECUTED"} =>
       \/ p.policy = "ALLOW"
       \/ /\ p.policy = "REQUIRE_APPROVAL"
          /\ p.decided_by # "none"
          /\ Satisfies(p.decided_by, p.required)
  /\ p.status = "PENDING" => p.policy = "REQUIRE_APPROVAL"

AuthInv == \A a \in Actions : Authorised(act[a])

\* One row changes at a time.
LEMMA AuthOneRow ==
  ASSUME AuthInv, NEW a \in Actions, Authorised(act'[a]),
         \A b \in Actions \ {a} : act'[b] = act[b]
  PROVE  AuthInv'
  BY DEF AuthInv

LEMMA AuthStep == TypeOK /\ AuthInv /\ [L!Next]_(L!ledger) => AuthInv'
  <1> SUFFICES ASSUME TypeOK, AuthInv, [L!Next]_(L!ledger)
               PROVE  AuthInv'
    OBVIOUS
  <1>1. CASE UNCHANGED act
    BY <1>1 DEF AuthInv
  <1>2. ASSUME NEW c \in Cases, NEW a \in Actions, NEW verdict \in PolicyDecision,
               NEW required \in Role \cup {"none"}, L!Propose(c, a, verdict, required)
        PROVE  AuthInv'
    <2>1. /\ act'[a].policy = verdict /\ act'[a].status = InitialActionStatus[verdict]
          /\ \A b \in Actions \ {a} : act'[b] = act[b]
      BY <1>2, SameActions DEF L!Propose, TypeOK
    <2>2. /\ InitialActionStatus[verdict] \in {"APPROVED", "PENDING", "DENIED"}
          /\ InitialActionStatus[verdict] = "APPROVED" => verdict = "ALLOW"
          /\ InitialActionStatus[verdict] = "PENDING" => verdict = "REQUIRE_APPROVAL"
      BY DEF InitialActionStatus, PolicyDecision
    <2>3. Authorised(act'[a])
      BY <2>1, <2>2 DEF Authorised
    <2> QED
      BY <2>1, <2>3, AuthOneRow
  <1>3. ASSUME NEW c \in Cases, NEW a \in Actions, NEW decision \in Decision, NEW role \in Role,
               L!Decide(c, a, decision, role)
        PROVE  AuthInv'
    <2>1. act[a] \in ActionRow /\ act[a].status = "PENDING" /\ Satisfies(role, act[a].required)
      BY <1>3, SameActions DEF L!Decide, TypeOK
    <2>2. /\ act'[a] = [act[a] EXCEPT !.status = decision, !.decided_by = role]
          /\ \A b \in Actions \ {a} : act'[b] = act[b]
      BY <1>3 DEF L!Decide, TypeOK
    <2>3. /\ act'[a].status = decision /\ act'[a].decided_by = role
          /\ act'[a].policy = act[a].policy /\ act'[a].required = act[a].required
      BY <2>1, <2>2 DEF ActionRow
    <2>4. act[a].policy = "REQUIRE_APPROVAL" /\ role # "none"
          /\ decision \in {"APPROVED", "EDITED", "REJECTED"}
      BY <2>1 DEF AuthInv, Authorised, Role, Decision
    <2>5. Authorised(act'[a])
      BY <2>1, <2>3, <2>4 DEF Authorised
    <2> QED
      BY <2>2, <2>5, AuthOneRow
  <1>4. ASSUME NEW a \in Actions, L!Execute(a)
        PROVE  AuthInv'
    <2> DEFINE s == IF act[a].policy = "ALLOW" /\ act[a].decided_by = "none"
                    THEN "AUTO_EXECUTED" ELSE "EXECUTED"
    <2>1. act[a] \in ActionRow /\ act[a].status \in {"APPROVED", "EDITED"}
      BY <1>4 DEF L!Execute, TypeOK
    <2>2. act'[a] = [act[a] EXCEPT !.status = s] /\ \A b \in Actions \ {a} : act'[b] = act[b]
      BY <1>4 DEF L!Execute, TypeOK
    <2>3. /\ act'[a].status = s /\ act'[a].decided_by = act[a].decided_by
          /\ act'[a].policy = act[a].policy /\ act'[a].required = act[a].required
      BY <2>1, <2>2 DEF ActionRow
    <2>4. /\ s \in {"AUTO_EXECUTED", "EXECUTED"}
          /\ s = "AUTO_EXECUTED" => act[a].policy = "ALLOW"
      OBVIOUS
    <2>5. Authorised(act[a])
      BY DEF AuthInv
    <2> HIDE DEF s
    <2>6. Authorised(act'[a])
      BY <2>1, <2>3, <2>4, <2>5 DEF Authorised
    <2> QED
      BY <2>2, <2>6, AuthOneRow
  <1> QED
    BY <1>1, <1>2, <1>3, <1>4, SameActions
    DEF L!Next, L!ledger, L!Open, L!Move, L!Note, L!TakeOver, L!HandBack

\* Nothing is carried out that policy did not allow or a person with the
\* role it asked for did not approve, however decisions and reports race.
THEOREM ExecutionsAuthorised == Spec => []ExecutionAuthorised
  <1>1. Init => AuthInv
    BY DEF Init, L!Init, L!NoAction, AuthInv, Authorised
  <1>2. IInv /\ AuthInv /\ [Next]_vars => AuthInv'
    BY StepImplements, AuthStep DEF IInv
  <1>3. AuthInv => ExecutionAuthorised
    BY DEF AuthInv, Authorised, ExecutionAuthorised
  <1> QED
    BY <1>1, <1>2, <1>3, Inductive, PTL DEF Spec

-----------------------------------------------------------------------------
(* What a person decided on a page                                          *)

\* A request that opens a case has looked at no page.
OpensUnseen == \A r \in Requests : req[r].phase = "creating" => req[r].seen = 0

\* Requests take their steps one at a time.
LEMMA OneRequest ==
  ASSUME TypeOK, NEW r \in Requests, NEW q, Becomes(r, q)
  PROVE  req'[r] = q /\ \A s \in Requests \ {r} : req'[s] = req[s]
  BY DEF Becomes, TypeOK

LEMMA OpensStep == TypeOK /\ OpensUnseen /\ [Next]_vars => OpensUnseen'
  <1> SUFFICES ASSUME TypeOK, OpensUnseen, [Next]_vars
               PROVE  OpensUnseen'
    OBVIOUS
  <1> USE DEF OpensUnseen
  <1>1. CASE UNCHANGED vars
    BY <1>1 DEF vars
  <1>2. ASSUME NEW r \in Requests, NEW q, Becomes(r, q), q.phase = "creating" => q.seen = 0
        PROVE  OpensUnseen'
    BY <1>2, OneRequest
  <1>3. ASSUME NEW r \in Requests, Done(r)
        PROVE  OpensUnseen'
    <2>1. Idle.phase # "creating"
      BY DEF Idle
    <2> QED
      BY <1>2, <1>3, <2>1 DEF Done
  <1>4. ASSUME NEW r \in Requests, Reads(r)
        PROVE  OpensUnseen'
    <2>1. ASSUME NEW c \in Cases, View(r, c)
          PROVE  OpensUnseen'
      BY <1>2, <2>1 DEF View, Idle
    <2>2. ASSUME NEW c \in Cases, get_case(r, c)
          PROVE  OpensUnseen'
      BY <1>2, <2>2 DEF get_case, Idle
    <2>3. ASSUME NEW a \in Actions, get_action(r, a)
          PROVE  OpensUnseen'
      <3>1. req[r] \in RequestRow
        BY DEF TypeOK
      <3> DEFINE q == [req[r] EXCEPT !.phase = "action", !.action = a, !.prop = act[a]]
      <3>2. q.phase = "action"
        BY <3>1 DEF RequestRow
      <3> HIDE DEF q
      <3>3. Becomes(r, q)
        BY <2>3 DEF get_action, q
      <3> QED
        BY <1>2, <3>2, <3>3
    <2>4. ASSUME NEW S \in SUBSET Invoices, BeginCreate(r, S)
          PROVE  OpensUnseen'
      BY <1>2, <2>4 DEF BeginCreate, Idle
    <2> QED
      BY <1>3, <1>4, <2>1, <2>2, <2>3, <2>4 DEF Reads, Abort
  <1>5. ASSUME NEW r \in Requests, CaseWrites(r) \/ ActionWrites(r)
        PROVE  OpensUnseen'
    <2>1. Done(r)
      BY <1>5 DEF CaseWrites, ActionWrites, transition_case, internal_transition, apply_triage, add_note,
         assign, takeover, release, create_case, propose_action, decide_action, mark_executed
    <2> QED
      BY <1>3, <2>1
  <1> QED
    BY <1>1, <1>4, <1>5 DEF Next

\* The expected version is the one that was read, which is the row's at the UPDATE.
LEMMA WritesWhatWasSeen ==
  ASSUME TypeOK, OpensUnseen, NEW r \in Requests, CaseWrites(r) \/ ActionWrites(r), req[r].seen # 0
  PROVE  version[req[r].case] = req[r].seen
  <1>1. ASSUME Fresh(r), ExpectedIsRead(r)
        PROVE  version[req[r].case] = req[r].seen
    BY <1>1 DEF Fresh, ExpectedIsRead
  <1>2. ASSUME NEW to \in Targets, NEW role \in Humans, transition_case(r, to, role)
        PROVE  version[req[r].case] = req[r].seen
    BY <1>1, <1>2 DEF transition_case, ReadCase
  <1>3. ASSUME NEW decision \in Decision, NEW role \in Humans, decide_action(r, decision, role)
        PROVE  version[req[r].case] = req[r].seen
    BY <1>1, <1>3 DEF decide_action, ReadAction
  <1>4. ~(\E c \in Cases : create_case(r, c))
    BY DEF create_case, OpensUnseen
  <1>5. ~(apply_triage(r) \/ add_note(r) \/ assign(r) \/ takeover(r) \/ release(r) \/ mark_executed(r))
    BY DEF apply_triage, add_note, assign, takeover, release, mark_executed, NoPage
  <1>6. ~(\E to \in Targets : internal_transition(r, to))
    BY DEF internal_transition, NoPage
  <1>7. ~(\E a \in Actions, v \in Verdicts : propose_action(r, a, v[1], v[2]))
    BY DEF propose_action, NoPage
  <1> QED
    BY <1>2, <1>3, <1>4, <1>5, <1>6, <1>7 DEF CaseWrites, ActionWrites

\* A decision that a person made on a page is written over the version the page showed
\* and over no other, whatever people and agents write after they looked.
THEOREM PagesHonoured == Spec => ExpectedVersionHonoured
  <1>1. Init => OpensUnseen
    BY DEF Init, OpensUnseen, Idle
  <1>2. ASSUME TypeOK, OpensUnseen, Next,
               NEW r \in Requests, req[r].seen # 0, req'[r] = Idle, version' # version
        PROVE  version[req[r].case] = req[r].seen
    <2>1. PICK s \in Requests : Reads(s) \/ CaseWrites(s) \/ ActionWrites(s)
      BY <1>2 DEF Next
    <2>2. ~Reads(s)
      BY <1>2 DEF Reads, View, get_case, get_action, BeginCreate, Abort, row
    <2>3. Done(s)
      BY <2>1, <2>2 DEF CaseWrites, ActionWrites, transition_case, internal_transition, apply_triage, add_note,
         assign, takeover, release, create_case, propose_action, decide_action, mark_executed
    <2>4. s = r
      BY <1>2, <2>3, OneRequest DEF Done, Idle
    <2> QED
      BY <1>2, <2>1, <2>2, <2>4, WritesWhatWasSeen
  <1>3. TypeOK /\ OpensUnseen /\ [Next]_vars =>
          [\A r \in Requests :
             req[r].seen # 0 /\ req'[r] = Idle /\ version' # version =>
               version[req[r].case] = req[r].seen]_vars
    BY <1>2
  <1> QED
    BY <1>1, <1>3, OpensStep, TypeCorrect, PTL DEF Spec, ExpectedVersionHonoured

-----------------------------------------------------------------------------
(* What a consumer makes of a case's events: proved of the ledger's steps   *)
(* too, and of each event by itself.                                        *)

\* The changes of status a log tells of follow each other and end at s.
Chained(e, s) ==
  /\ \A i, j \in DOMAIN e :
       /\ i < j /\ IsStatusEvent(e[i]) /\ IsStatusEvent(e[j])
       /\ \A k \in DOMAIN e : i < k /\ k < j => ~IsStatusEvent(e[k])
       => e[j].from = e[i].to
  /\ \A i \in DOMAIN e :
       IsStatusEvent(e[i]) /\ (\A k \in DOMAIN e : k > i => ~IsStatusEvent(e[k])) => e[i].to = s

\* A case is taken over and handed back in turn, the last time into m.
Alternates(e, m) ==
  /\ \A i, j \in DOMAIN e :
       /\ i < j /\ IsModeEvent(e[i]) /\ IsModeEvent(e[j])
       /\ \A k \in DOMAIN e : i < k /\ k < j => ~IsModeEvent(e[k])
       => e[i].type # e[j].type
  /\ \A i \in DOMAIN e :
       IsModeEvent(e[i]) /\ (\A k \in DOMAIN e : k > i => ~IsModeEvent(e[k])) =>
         (e[i].type = "case.takeover" <=> m = "HUMAN_CONTROL")

Resolves(e) == \E i \in DOMAIN e : e[i].type = "case.resolved"
ResolvesTo(e, s) == \A i \in DOMAIN e : e[i].type = "case.resolved" => e[i].to = s

\* What the log of a case says of one action, whose row is p.
TellsOf(e, a, c, p) ==
  /\ \A i \in DOMAIN e : IsDecision(e[i], a) =>
       /\ p.case = c
       /\ p.decided_by # "none"
       /\ p.status \in Decision => e[i].type = DecisionEvent[p.status]
       /\ \A j \in DOMAIN e : IsDecision(e[j], a) => i = j

LEMMA OneMoreEvent ==
  ASSUME NEW e \in Seq(CaseEvent), NEW x \in CaseEvent
  PROVE  /\ Append(e, x) \in Seq(CaseEvent) /\ Len(e) \in Nat
         /\ DOMAIN e = 1..Len(e) /\ DOMAIN Append(e, x) = 1..(Len(e) + 1)
         /\ \A i \in 1..Len(e) : Append(e, x)[i] = e[i]
         /\ Append(e, x)[Len(e) + 1] = x
  OBVIOUS

LEMMA ChainedOther ==
  ASSUME NEW e \in Seq(CaseEvent), NEW x \in CaseEvent, ~IsStatusEvent(x), NEW s, Chained(e, s)
  PROVE  Chained(Append(e, x), s)
  <1> DEFINE f == Append(e, x)
             n == Len(e)
  <1>1. /\ n \in Nat /\ DOMAIN e = 1..n /\ DOMAIN f = 1..(n + 1)
        /\ \A i \in 1..n : f[i] = e[i]
        /\ f[n + 1] = x
    BY OneMoreEvent
  <1> HIDE DEF f, n
  <1>2. \A i \in 1..(n + 1) : IsStatusEvent(f[i]) => i \in 1..n
    BY <1>1
  <1>3. ASSUME NEW i \in DOMAIN f, NEW j \in DOMAIN f, i < j, IsStatusEvent(f[i]), IsStatusEvent(f[j]),
               \A k \in DOMAIN f : i < k /\ k < j => ~IsStatusEvent(f[k])
        PROVE  f[j].from = f[i].to
    <2>1. i \in 1..n /\ j \in 1..n
      BY <1>1, <1>2, <1>3
    <2> QED
      BY <1>1, <1>3, <2>1 DEF Chained
  <1>4. ASSUME NEW i \in DOMAIN f, IsStatusEvent(f[i]), \A k \in DOMAIN f : k > i => ~IsStatusEvent(f[k])
        PROVE  f[i].to = s
    <2>1. i \in 1..n
      BY <1>1, <1>2, <1>4
    <2> QED
      BY <1>1, <1>4, <2>1 DEF Chained
  <1>5. Chained(f, s)
    BY <1>3, <1>4 DEF Chained
  <1> QED
    BY <1>5 DEF f

LEMMA ChainedNext ==
  ASSUME NEW e \in Seq(CaseEvent), NEW x \in CaseEvent, Chained(e, x.from)
  PROVE  IsStatusEvent(x) => Chained(Append(e, x), x.to)
  <1> SUFFICES ASSUME IsStatusEvent(x) PROVE Chained(Append(e, x), x.to)
    OBVIOUS
  <1> DEFINE f == Append(e, x)
             n == Len(e)
  <1>1. /\ n \in Nat /\ DOMAIN e = 1..n /\ DOMAIN f = 1..(n + 1)
        /\ \A i \in 1..n : f[i] = e[i]
        /\ f[n + 1] = x
    BY OneMoreEvent
  <1> HIDE DEF f, n
  <1>3. ASSUME NEW i \in DOMAIN f, NEW j \in DOMAIN f, i < j, IsStatusEvent(f[i]), IsStatusEvent(f[j]),
               \A k \in DOMAIN f : i < k /\ k < j => ~IsStatusEvent(f[k])
        PROVE  f[j].from = f[i].to
    <2>1. i \in 1..n
      BY <1>1, <1>3
    <2>2. CASE j \in 1..n
      BY <1>1, <1>3, <2>1, <2>2 DEF Chained
    <2>3. CASE j = n + 1
      <3>1. \A k \in DOMAIN e : k > i => ~IsStatusEvent(e[k])
        BY <1>1, <1>3, <2>1, <2>3
      <3>2. e[i].to = x.from
        BY <1>1, <1>3, <2>1, <3>1 DEF Chained
      <3> QED
        BY <1>1, <2>1, <2>3, <3>2
    <2> QED
      BY <1>1, <2>2, <2>3
  <1>4. ASSUME NEW i \in DOMAIN f, IsStatusEvent(f[i]), \A k \in DOMAIN f : k > i => ~IsStatusEvent(f[k])
        PROVE  f[i].to = x.to
    <2>1. i = n + 1
      BY <1>1, <1>4
    <2> QED
      BY <1>1, <2>1
  <1>5. Chained(f, x.to)
    BY <1>3, <1>4 DEF Chained
  <1> QED
    BY <1>5 DEF f

LEMMA AlternatesOther ==
  ASSUME NEW e \in Seq(CaseEvent), NEW x \in CaseEvent, ~IsModeEvent(x), NEW m, Alternates(e, m)
  PROVE  Alternates(Append(e, x), m)
  <1> DEFINE f == Append(e, x)
             n == Len(e)
  <1>1. /\ n \in Nat /\ DOMAIN e = 1..n /\ DOMAIN f = 1..(n + 1)
        /\ \A i \in 1..n : f[i] = e[i]
        /\ f[n + 1] = x
    BY OneMoreEvent
  <1> HIDE DEF f, n
  <1>2. \A i \in 1..(n + 1) : IsModeEvent(f[i]) => i \in 1..n
    BY <1>1
  <1>3. ASSUME NEW i \in DOMAIN f, NEW j \in DOMAIN f, i < j, IsModeEvent(f[i]), IsModeEvent(f[j]),
               \A k \in DOMAIN f : i < k /\ k < j => ~IsModeEvent(f[k])
        PROVE  f[i].type # f[j].type
    <2>1. i \in 1..n /\ j \in 1..n
      BY <1>1, <1>2, <1>3
    <2> QED
      BY <1>1, <1>3, <2>1 DEF Alternates
  <1>4. ASSUME NEW i \in DOMAIN f, IsModeEvent(f[i]), \A k \in DOMAIN f : k > i => ~IsModeEvent(f[k])
        PROVE  f[i].type = "case.takeover" <=> m = "HUMAN_CONTROL"
    <2>1. i \in 1..n
      BY <1>1, <1>2, <1>4
    <2>2. e[i].type = "case.takeover" <=> m = "HUMAN_CONTROL"
      BY <1>1, <1>4, <2>1 DEF Alternates
    <2> QED
      BY <1>1, <2>1, <2>2
  <1>5. Alternates(f, m)
    BY <1>3, <1>4 DEF Alternates
  <1> QED
    BY <1>5 DEF f

LEMMA AlternatesNext ==
  ASSUME NEW e \in Seq(CaseEvent), NEW x \in CaseEvent, IsModeEvent(x), NEW m, NEW to, Alternates(e, m),
         x.type = "case.takeover" <=> to = "HUMAN_CONTROL", m = "HUMAN_CONTROL" <=> to # "HUMAN_CONTROL"
  PROVE  Alternates(Append(e, x), to)
  <1> DEFINE f == Append(e, x)
             n == Len(e)
  <1>1. /\ n \in Nat /\ DOMAIN e = 1..n /\ DOMAIN f = 1..(n + 1)
        /\ \A i \in 1..n : f[i] = e[i]
        /\ f[n + 1] = x
    BY OneMoreEvent
  <1> HIDE DEF f, n
  <1>3. ASSUME NEW i \in DOMAIN f, NEW j \in DOMAIN f, i < j, IsModeEvent(f[i]), IsModeEvent(f[j]),
               \A k \in DOMAIN f : i < k /\ k < j => ~IsModeEvent(f[k])
        PROVE  f[i].type # f[j].type
    <2>1. i \in 1..n
      BY <1>1, <1>3
    <2>2. CASE j \in 1..n
      BY <1>1, <1>3, <2>1, <2>2 DEF Alternates
    <2>3. CASE j = n + 1
      <3>1. \A k \in DOMAIN e : k > i => ~IsModeEvent(e[k])
        BY <1>1, <1>3, <2>1, <2>3
      <3>2. e[i].type = "case.takeover" <=> m = "HUMAN_CONTROL"
        BY <1>1, <1>3, <2>1, <3>1 DEF Alternates
      <3> QED
        BY <1>1, <2>1, <2>3, <3>2
    <2> QED
      BY <1>1, <2>2, <2>3
  <1>4. ASSUME NEW i \in DOMAIN f, IsModeEvent(f[i]), \A k \in DOMAIN f : k > i => ~IsModeEvent(f[k])
        PROVE  f[i].type = "case.takeover" <=> to = "HUMAN_CONTROL"
    <2>1. i = n + 1
      BY <1>1, <1>4
    <2> QED
      BY <1>1, <2>1
  <1>5. Alternates(f, to)
    BY <1>3, <1>4 DEF Alternates
  <1> QED
    BY <1>5 DEF f

LEMMA ResolvesNext ==
  ASSUME NEW e \in Seq(CaseEvent), NEW x \in CaseEvent
  PROVE  /\ Resolves(Append(e, x)) <=> Resolves(e) \/ x.type = "case.resolved"
         /\ \A s : ResolvesTo(Append(e, x), s) <=> ResolvesTo(e, s) /\ (x.type = "case.resolved" => x.to = s)
  <1> DEFINE f == Append(e, x)
             n == Len(e)
  <1>1. /\ n \in Nat /\ DOMAIN e = 1..n /\ DOMAIN f = 1..(n + 1)
        /\ \A i \in 1..n : f[i] = e[i]
        /\ f[n + 1] = x
    BY OneMoreEvent
  <1> HIDE DEF f, n
  <1>2. Resolves(f) <=> Resolves(e) \/ x.type = "case.resolved"
    BY <1>1 DEF Resolves
  <1>3. ASSUME NEW s PROVE ResolvesTo(f, s) <=> ResolvesTo(e, s) /\ (x.type = "case.resolved" => x.to = s)
    BY <1>1 DEF ResolvesTo
  <1> QED
    BY <1>2, <1>3 DEF f

LEMMA TellsOther ==
  ASSUME NEW e \in Seq(CaseEvent), NEW x \in CaseEvent, NEW a, NEW c, NEW p, ~IsDecision(x, a), TellsOf(e, a, c, p)
  PROVE  TellsOf(Append(e, x), a, c, p)
  <1> DEFINE f == Append(e, x)
             n == Len(e)
  <1>1. /\ n \in Nat /\ DOMAIN e = 1..n /\ DOMAIN f = 1..(n + 1)
        /\ \A i \in 1..n : f[i] = e[i]
        /\ f[n + 1] = x
    BY OneMoreEvent
  <1> HIDE DEF f, n
  <1>2. \A i \in DOMAIN f : IsDecision(f[i], a) => i \in DOMAIN e /\ IsDecision(e[i], a) /\ f[i] = e[i]
    BY <1>1
  <1>3. TellsOf(f, a, c, p)
    BY <1>2 DEF TellsOf
  <1> QED
    BY <1>3 DEF f

LEMMA TellsNext ==
  ASSUME NEW e \in Seq(CaseEvent), NEW x \in CaseEvent, NEW a, NEW c, NEW p,
         \A i \in DOMAIN e : ~IsDecision(e[i], a),
         p.case = c, p.decided_by # "none", x.type = DecisionEvent[p.status]
  PROVE  TellsOf(Append(e, x), a, c, p)
  <1> DEFINE f == Append(e, x)
             n == Len(e)
  <1>1. /\ n \in Nat /\ DOMAIN e = 1..n /\ DOMAIN f = 1..(n + 1)
        /\ \A i \in 1..n : f[i] = e[i]
        /\ f[n + 1] = x
    BY OneMoreEvent
  <1> HIDE DEF f, n
  <1>2. \A i \in DOMAIN f : IsDecision(f[i], a) => i = n + 1
    BY <1>1
  <1>3. TellsOf(f, a, c, p)
    BY <1>1, <1>2 DEF TellsOf
  <1> QED
    BY <1>3 DEF f
\* What a log tells of its case, whose row says s and m.
RowTold(e, s, m) ==
  /\ Chained(e, s) /\ Alternates(e, m) /\ ResolvesTo(e, s)
  /\ Resolves(e) <=> s # "none" /\ is_terminal(s)
  /\ s = "none" => e = <<>>

Plain(x) == ~IsStatusEvent(x) /\ ~IsModeEvent(x) /\ x.type # "case.resolved"

LEMMA ToldPlain ==
  ASSUME NEW e \in Seq(CaseEvent), NEW x \in CaseEvent, Plain(x), NEW s, NEW m, s # "none", RowTold(e, s, m)
  PROVE  RowTold(Append(e, x), s, m)
  <1>1. Chained(Append(e, x), s) /\ Alternates(Append(e, x), m)
    BY ChainedOther, AlternatesOther DEF RowTold, Plain
  <1>2. ResolvesTo(Append(e, x), s) /\ (Resolves(Append(e, x)) <=> Resolves(e))
    BY ResolvesNext DEF RowTold, Plain
  <1> QED
    BY <1>1, <1>2 DEF RowTold

LEMMA ToldStatus ==
  ASSUME NEW e \in Seq(CaseEvent), NEW s \in CaseStatus, NEW to \in CaseStatus, NEW m,
         ~is_terminal(s), RowTold(e, s, m)
  PROVE  /\ e \o StateChanged(s, to, None) \in Seq(CaseEvent)
         /\ RowTold(e \o StateChanged(s, to, None), to, m)
  <1> DEFINE x == Event("case.state_changed", s, to, None)
             y == Event("case.resolved", s, to, None)
             f == Append(e, x)
  <1>1. /\ x \in CaseEvent /\ x.from = s /\ x.to = to /\ IsStatusEvent(x) /\ ~IsModeEvent(x)
        /\ x.type # "case.resolved"
        /\ y \in CaseEvent /\ y.to = to /\ ~IsStatusEvent(y) /\ ~IsModeEvent(y)
        /\ y.type = "case.resolved"
    BY DEF Event, CaseEvent, EventType, IsStatusEvent, IsModeEvent
  <1>2. StateChanged(s, to, None) = IF is_terminal(to) THEN <<x, y>> ELSE <<x>>
    BY DEF StateChanged
  <1> HIDE DEF x, y
  <1>3. ~Resolves(e) /\ s # "none" /\ to # "none"
    BY DEF RowTold, CaseStatus
  <1>4. f \in Seq(CaseEvent) /\ Chained(f, to) /\ Alternates(f, m) /\ ~Resolves(f)
    BY <1>1, <1>3, ChainedNext, AlternatesOther, ResolvesNext DEF RowTold
  <1>5. ResolvesTo(f, to)
    BY <1>4 DEF Resolves, ResolvesTo
  <1>6. CASE is_terminal(to)
    <2>1. e \o StateChanged(s, to, None) = Append(f, y)
      BY <1>1, <1>2, <1>6
    <2> HIDE DEF f
    <2>2. Append(f, y) \in Seq(CaseEvent) /\ Chained(Append(f, y), to) /\ Alternates(Append(f, y), m)
      BY <1>1, <1>4, ChainedOther, AlternatesOther
    <2>3. Resolves(Append(f, y)) /\ ResolvesTo(Append(f, y), to)
      BY <1>1, <1>4, <1>5, ResolvesNext
    <2> QED
      BY <1>3, <1>6, <2>1, <2>2, <2>3 DEF RowTold
  <1>7. CASE ~is_terminal(to)
    <2>1. e \o StateChanged(s, to, None) = f
      BY <1>1, <1>2, <1>7
    <2> QED
      BY <1>3, <1>4, <1>5, <1>7, <2>1 DEF RowTold
  <1> QED
    BY <1>6, <1>7

LEMMA TellsStatus ==
  ASSUME NEW e \in Seq(CaseEvent), NEW s \in CaseStatus, NEW to \in CaseStatus, NEW a, NEW c, NEW p,
         TellsOf(e, a, c, p)
  PROVE  TellsOf(e \o StateChanged(s, to, None), a, c, p)
  <1> DEFINE x == Event("case.state_changed", s, to, None)
             y == Event("case.resolved", s, to, None)
             f == Append(e, x)
  <1>1. x \in CaseEvent /\ ~IsDecision(x, a) /\ y \in CaseEvent /\ ~IsDecision(y, a)
    BY DEF Event, CaseEvent, EventType, IsDecision
  <1>2. StateChanged(s, to, None) = IF is_terminal(to) THEN <<x, y>> ELSE <<x>>
    BY DEF StateChanged
  <1> HIDE DEF x, y
  <1>3. f \in Seq(CaseEvent) /\ TellsOf(f, a, c, p)
    BY <1>1, TellsOther
  <1>4. e \o <<x, y>> = Append(f, y) /\ e \o <<x>> = f
    BY <1>1
  <1> HIDE DEF f
  <1>5. TellsOf(Append(f, y), a, c, p)
    BY <1>1, <1>3, TellsOther
  <1> QED
    BY <1>2, <1>3, <1>4, <1>5

\* Nobody has decided an action whose row says so, nor one of another case.
LEMMA TellsNothing ==
  ASSUME NEW e, NEW a, NEW c, NEW p, TellsOf(e, a, c, p), p.decided_by = "none" \/ p.case # c
  PROVE  \A i \in DOMAIN e : ~IsDecision(e[i], a)
  BY DEF TellsOf

LEMMA TellsExecuted ==
  ASSUME NEW e, NEW a, NEW c, NEW p, NEW q, TellsOf(e, a, c, p),
         q.case = p.case, q.decided_by = p.decided_by, q.status \notin Decision
  PROVE  TellsOf(e, a, c, q)
  BY DEF TellsOf

ReplayInv ==
  /\ \A c \in Cases : RowTold(log[c], status[c], mode[c])
  /\ \A c \in Cases, a \in Actions : TellsOf(log[c], a, c, act[a])
  /\ \A a \in Actions : act[a].status \in {"none", "PENDING"} => act[a].decided_by = "none"

\* A step that writes one case's row and log.
LEMMA ReplayOne ==
  ASSUME ReplayInv, NEW c \in Cases,
         RowTold(log'[c], status'[c], mode'[c]),
         \A a \in Actions : TellsOf(log'[c], a, c, act'[a]),
         \A d \in Cases \ {c} :
           /\ log'[d] = log[d] /\ status'[d] = status[d] /\ mode'[d] = mode[d]
           /\ \A a \in Actions : TellsOf(log'[d], a, d, act'[a]),
         \A a \in Actions : act'[a].status \in {"none", "PENDING"} => act'[a].decided_by = "none"
  PROVE  ReplayInv'
  <1>1. ASSUME NEW d \in Cases PROVE RowTold(log'[d], status'[d], mode'[d])
    <2>1. CASE d # c
      <3>1. RowTold(log[d], status[d], mode[d])
        BY DEF ReplayInv
      <3> QED
        BY <2>1, <3>1
    <2> QED
      BY <2>1
  <1>2. ASSUME NEW d \in Cases, NEW a \in Actions PROVE TellsOf(log'[d], a, d, act'[a])
    OBVIOUS
  <1> QED
    BY <1>1, <1>2 DEF ReplayInv

\* One plain event and nothing decided.
LEMMA ReplayPlain ==
  ASSUME TypeOK, ReplayInv, NEW c \in Cases, NEW x \in CaseEvent, status[c] # "none", Plain(x),
         \A a \in Actions : ~IsDecision(x, a),
         log' = [log EXCEPT ![c] = Append(@, x)], UNCHANGED <<status, mode, act>>
  PROVE  ReplayInv'
  <1>1. /\ log'[c] = Append(log[c], x) /\ log[c] \in Seq(CaseEvent)
        /\ \A d \in Cases \ {c} : log'[d] = log[d]
    BY DEF TypeOK
  <1>2. RowTold(log[c], status[c], mode[c])
    BY DEF ReplayInv
  <1>3. RowTold(log'[c], status'[c], mode'[c])
    BY <1>1, <1>2, ToldPlain
  <1>4. ASSUME NEW a \in Actions PROVE TellsOf(log'[c], a, c, act'[a])
    <2>1. TellsOf(log[c], a, c, act[a])
      BY DEF ReplayInv
    <2> QED
      BY <1>1, <2>1, TellsOther
  <1>5. \A d \in Cases \ {c}, a \in Actions : TellsOf(log'[d], a, d, act'[a])
    BY <1>1 DEF ReplayInv
  <1>6. \A a \in Actions : act'[a].status \in {"none", "PENDING"} => act'[a].decided_by = "none"
    BY DEF ReplayInv
  <1> QED
    BY <1>1, <1>3, <1>4, <1>5, <1>6, ReplayOne

LEMMA Appends ==
  ASSUME NEW e \in Seq(CaseEvent), NEW x \in CaseEvent
  PROVE  e \o <<x>> = Append(e, x) /\ \A f \in Seq(CaseEvent) : e \o (<<x>> \o f) = Append(e, x) \o f
  OBVIOUS
LEMMA Vocabulary ==
  /\ \A type \in EventType, from \in CaseStatus \cup {"none"}, to \in CaseStatus \cup {"none"},
        a \in Actions \cup {None} : Event(type, from, to, a) \in CaseEvent
  /\ \A type, from, to, a : /\ Event(type, from, to, a).type = type /\ Event(type, from, to, a).action = a
                            /\ Event(type, from, to, a).from = from /\ Event(type, from, to, a).to = to
  BY DEF Event, CaseEvent

\* What is appended to one log, and to no other.
LEMMA SaysOne ==
  ASSUME TypeOK, NEW c \in Cases, NEW x \in CaseEvent, log' = [log EXCEPT ![c] = @ \o <<x>>]
  PROVE  log'[c] = Append(log[c], x) /\ \A d \in Cases \ {c} : log'[d] = log[d]
  BY Appends DEF TypeOK

LEMMA SaysMore ==
  ASSUME TypeOK, NEW c \in Cases, NEW x \in CaseEvent, NEW f \in Seq(CaseEvent),
         log' = [log EXCEPT ![c] = @ \o (<<x>> \o f)]
  PROVE  log'[c] = Append(log[c], x) \o f /\ \A d \in Cases \ {c} : log'[d] = log[d]
  <1>1. log[c] \in Seq(CaseEvent)
    BY DEF TypeOK
  <1>2. log[c] \o (<<x>> \o f) = Append(log[c], x) \o f
    BY <1>1, Appends
  <1>3. log'[c] = log[c] \o (<<x>> \o f) /\ \A d \in Cases \ {c} : log'[d] = log[d]
    BY DEF TypeOK
  <1> QED
    BY <1>2, <1>3

LEMMA ReplayOpen ==
  ASSUME TypeOK, ReplayInv, NEW c \in Cases, NEW S \in SUBSET Invoices, L!Open(c, S)
  PROVE  ReplayInv'
  <1> DEFINE x == Event("case.created", "none", "NEW", None)
  <1>1. /\ x \in CaseEvent /\ x.from = "none" /\ x.to = "NEW" /\ IsStatusEvent(x) /\ ~IsModeEvent(x)
        /\ x.type # "case.resolved" /\ \A a \in Actions : ~IsDecision(x, a)
    BY DEF Event, CaseEvent, EventType, IsStatusEvent, IsModeEvent, IsDecision, CaseStatus
  <1>2. log' = [log EXCEPT ![c] = @ \o <<x>>]
    BY SameEvents DEF L!Open, L!Say
  <1> HIDE DEF x
  <1>3. /\ status[c] = "none" /\ log[c] \in Seq(CaseEvent) /\ log'[c] = Append(log[c], x)
        /\ status'[c] = "NEW" /\ UNCHANGED <<mode, act>>
        /\ \A d \in Cases \ {c} : log'[d] = log[d] /\ status'[d] = status[d] /\ mode'[d] = mode[d]
    BY <1>1, <1>2, Appends DEF L!Open, L!Exists, TypeOK
  <1>4. RowTold(log[c], "none", mode[c])
    BY <1>3 DEF ReplayInv
  <1>5. Chained(Append(log[c], x), "NEW") /\ Alternates(Append(log[c], x), mode[c])
    BY <1>1, <1>3, <1>4, ChainedNext, AlternatesOther DEF RowTold
  <1>6. ~Resolves(Append(log[c], x)) /\ ~is_terminal("NEW")
    BY <1>1, <1>3, <1>4, ResolvesNext DEF RowTold, is_terminal, TERMINAL
  <1>7. RowTold(log'[c], status'[c], mode'[c])
    BY <1>3, <1>5, <1>6 DEF RowTold, ResolvesTo, Resolves
  <1>8. ASSUME NEW a \in Actions PROVE TellsOf(log'[c], a, c, act'[a])
    <2>1. TellsOf(log[c], a, c, act[a])
      BY DEF ReplayInv
    <2> QED
      BY <1>1, <1>3, <2>1, TellsOther
  <1>9. \A d \in Cases \ {c}, a \in Actions : TellsOf(log'[d], a, d, act'[a])
    BY <1>3 DEF ReplayInv
  <1>10. \A a \in Actions : act'[a].status \in {"none", "PENDING"} => act'[a].decided_by = "none"
    BY <1>3 DEF ReplayInv
  <1> QED
    BY <1>3, <1>7, <1>8, <1>9, <1>10, ReplayOne

LEMMA ReplayMove ==
  ASSUME TypeOK, ReplayInv, NEW c \in Cases, NEW to \in CaseStatus, L!Move(c, to)
  PROVE  ReplayInv'
  <1>1. /\ status[c] \in CaseStatus /\ ~is_terminal(status[c]) /\ log[c] \in Seq(CaseEvent)
    BY SameStates, Lifecycle DEF L!Move, L!Exists, TypeOK
  <1>2. /\ log'[c] = log[c] \o StateChanged(status[c], to, None) /\ status'[c] = to
        /\ UNCHANGED <<mode, act>>
        /\ \A d \in Cases \ {c} : log'[d] = log[d] /\ status'[d] = status[d] /\ mode'[d] = mode[d]
    BY SameEvents DEF L!Move, L!Say, TypeOK
  <1>3. RowTold(log[c], status[c], mode[c])
    BY DEF ReplayInv
  <1>4. RowTold(log'[c], status'[c], mode'[c])
    BY <1>1, <1>2, <1>3, ToldStatus
  <1>5. ASSUME NEW a \in Actions PROVE TellsOf(log'[c], a, c, act'[a])
    <2>1. TellsOf(log[c], a, c, act[a])
      BY DEF ReplayInv
    <2> QED
      BY <1>1, <1>2, <2>1, TellsStatus
  <1>6. \A d \in Cases \ {c}, a \in Actions : TellsOf(log'[d], a, d, act'[a])
    BY <1>2 DEF ReplayInv
  <1>7. \A a \in Actions : act'[a].status \in {"none", "PENDING"} => act'[a].decided_by = "none"
    BY <1>2 DEF ReplayInv
  <1> QED
    BY <1>2, <1>4, <1>5, <1>6, <1>7, ReplayOne

LEMMA ReplayNote ==
  ASSUME TypeOK, ReplayInv, NEW c \in Cases, L!Note(c)
  PROVE  ReplayInv'
  <1> DEFINE x == Event("case.note.added", "none", "none", None)
  <1>1. x \in CaseEvent /\ Plain(x) /\ \A a \in Actions : ~IsDecision(x, a)
    BY DEF Event, CaseEvent, EventType, IsStatusEvent, IsModeEvent, IsDecision, Plain
  <1>2. log' = [log EXCEPT ![c] = @ \o <<x>>]
    BY SameEvents DEF L!Note, L!Say
  <1> HIDE DEF x
  <1>3. log' = [log EXCEPT ![c] = Append(@, x)]
    BY <1>1, <1>2, Appends DEF TypeOK
  <1> QED
    BY <1>1, <1>3, ReplayPlain DEF L!Note, L!Exists

\* Somebody takes the case over or hands it back.
LEMMA ReplayMode ==
  ASSUME TypeOK, ReplayInv, NEW c \in Cases, L!TakeOver(c) \/ L!HandBack(c)
  PROVE  ReplayInv'
  <1> DEFINE type == IF mode[c] = "AUTONOMOUS" THEN "case.takeover" ELSE "case.released"
             x == Event(type, "none", "none", None)
  <1>1. /\ x \in CaseEvent /\ ~IsStatusEvent(x) /\ IsModeEvent(x) /\ x.type = type
        /\ x.type # "case.resolved" /\ \A a \in Actions : ~IsDecision(x, a)
    BY DEF Event, CaseEvent, EventType, IsStatusEvent, IsModeEvent, IsDecision
  <1>2. /\ log' = [log EXCEPT ![c] = @ \o <<x>>] /\ status[c] # "none"
        /\ mode[c] = "AUTONOMOUS" \/ mode[c] = "HUMAN_CONTROL"
        /\ mode' = [mode EXCEPT ![c] = IF mode[c] = "AUTONOMOUS" THEN "HUMAN_CONTROL" ELSE "AUTONOMOUS"]
        /\ UNCHANGED <<status, act>>
    BY SameEvents DEF L!TakeOver, L!HandBack, L!Live, L!Exists, L!Say
  <1>3. /\ mode[c] = "HUMAN_CONTROL" <=> mode'[c] # "HUMAN_CONTROL"
        /\ x.type = "case.takeover" <=> mode'[c] = "HUMAN_CONTROL"
    BY <1>1, <1>2 DEF TypeOK
  <1> HIDE DEF x, type
  <1>4. /\ log[c] \in Seq(CaseEvent) /\ log'[c] = Append(log[c], x)
        /\ \A d \in Cases \ {c} : log'[d] = log[d] /\ status'[d] = status[d] /\ mode'[d] = mode[d]
    BY <1>1, <1>2, Appends DEF TypeOK
  <1>5. RowTold(log[c], status[c], mode[c])
    BY DEF ReplayInv
  <1>6. Chained(Append(log[c], x), status[c]) /\ Alternates(Append(log[c], x), mode'[c])
    BY <1>1, <1>3, <1>4, <1>5, ChainedOther, AlternatesNext DEF RowTold
  <1>7. /\ Resolves(Append(log[c], x)) <=> Resolves(log[c])
        /\ ResolvesTo(Append(log[c], x), status[c])
    BY <1>1, <1>4, <1>5, ResolvesNext DEF RowTold
  <1>8. RowTold(log'[c], status'[c], mode'[c])
    BY <1>2, <1>4, <1>5, <1>6, <1>7 DEF RowTold
  <1>9. ASSUME NEW a \in Actions PROVE TellsOf(log'[c], a, c, act'[a])
    <2>1. TellsOf(log[c], a, c, act[a])
      BY DEF ReplayInv
    <2>2. act'[a] = act[a]
      BY <1>2
    <2> QED
      BY <1>1, <1>4, <2>1, <2>2, TellsOther
  <1>10. \A d \in Cases \ {c}, a \in Actions : TellsOf(log'[d], a, d, act'[a])
    BY <1>2, <1>4 DEF ReplayInv
  <1>11. \A a \in Actions : act'[a].status \in {"none", "PENDING"} => act'[a].decided_by = "none"
    BY <1>2 DEF ReplayInv
  <1> QED
    BY <1>4, <1>8, <1>9, <1>10, <1>11, ReplayOne

LEMMA ReplayExecute ==
  ASSUME TypeOK, ReplayInv, NEW a \in Actions, L!Execute(a)
  PROVE  ReplayInv'
  <1>1. /\ UNCHANGED <<status, mode, log>> /\ act[a] \in ActionRow
        /\ \A b \in Actions \ {a} : act'[b] = act[b]
    BY DEF L!Execute, TypeOK
  <1>2. /\ act'[a].case = act[a].case /\ act'[a].decided_by = act[a].decided_by
        /\ act'[a].status \in {"AUTO_EXECUTED", "EXECUTED"}
    BY DEF L!Execute, TypeOK, ActionRow
  <1>3. ASSUME NEW d \in Cases, NEW b \in Actions PROVE TellsOf(log'[d], b, d, act'[b])
    <2>1. TellsOf(log[d], b, d, act[b])
      BY DEF ReplayInv
    <2>2. CASE b = a
      <3>1. act'[a].status \notin Decision
        BY <1>2 DEF Decision
      <3> QED
        BY <1>1, <1>2, <2>1, <2>2, <3>1, TellsExecuted
    <2> QED
      BY <1>1, <2>1, <2>2
  <1>4. \A d \in Cases : RowTold(log'[d], status'[d], mode'[d])
    BY <1>1 DEF ReplayInv
  <1>5. \A b \in Actions : act'[b].status \in {"none", "PENDING"} => act'[b].decided_by = "none"
    BY <1>1, <1>2 DEF ReplayInv
  <1> QED
    BY <1>3, <1>4, <1>5 DEF ReplayInv

\* An event about an action, perhaps with a change of status after it.
LEMMA ReplayAction ==
  ASSUME TypeOK, ReplayInv, NEW c \in Cases, NEW a \in Actions, NEW x \in CaseEvent, Plain(x), x.action = a,
         status[c] \in CaseStatus, UNCHANGED mode,
         \/ log'[c] = Append(log[c], x) /\ status'[c] = status[c]
         \/ \E to \in CaseStatus :
              /\ ~is_terminal(status[c])
              /\ log'[c] = Append(log[c], x) \o StateChanged(status[c], to, None) /\ status'[c] = to,
         \A d \in Cases \ {c} : log'[d] = log[d] /\ status'[d] = status[d],
         \A b \in Actions \ {a} : act'[b] = act[b],
         \A d \in Cases : \A i \in DOMAIN log[d] : ~IsDecision(log[d][i], a),
         IsDecision(x, a) => /\ act'[a].case = c /\ act'[a].decided_by # "none"
                             /\ x.type = DecisionEvent[act'[a].status],
         act'[a].status \in {"none", "PENDING"} => act'[a].decided_by = "none"
  PROVE  ReplayInv'
  <1>1. log[c] \in Seq(CaseEvent) /\ status[c] # "none"
    BY DEF TypeOK, CaseStatus
  <1> DEFINE e == Append(log[c], x)
  <1>2. RowTold(log[c], status[c], mode[c])
    BY DEF ReplayInv
  <1>3. e \in Seq(CaseEvent) /\ RowTold(e, status[c], mode[c])
    BY <1>1, <1>2, ToldPlain, OneMoreEvent
  <1>4. ASSUME NEW b \in Actions PROVE TellsOf(e, b, c, act'[b])
    <2>1. TellsOf(log[c], b, c, act[b])
      BY DEF ReplayInv
    <2>2. CASE b # a
      <3>1. ~IsDecision(x, b)
        BY <2>2 DEF IsDecision
      <3> QED
        BY <1>1, <2>1, <2>2, <3>1, TellsOther
    <2>3. CASE b = a /\ IsDecision(x, a)
      BY <1>1, <2>3, TellsNext
    <2>4. CASE b = a /\ ~IsDecision(x, a)
      <3>1. TellsOf(log[c], a, c, act'[a])
        BY DEF TellsOf
      <3> QED
        BY <1>1, <2>4, <3>1, TellsOther
    <2> QED
      BY <2>2, <2>3, <2>4
  <1> HIDE DEF e
  <1>5. RowTold(log'[c], status'[c], mode'[c]) /\ \A b \in Actions : TellsOf(log'[c], b, c, act'[b])
    <2>1. CASE log'[c] = e /\ status'[c] = status[c]
      BY <1>3, <1>4, <2>1
    <2>2. ASSUME NEW to \in CaseStatus, ~is_terminal(status[c]),
                 log'[c] = e \o StateChanged(status[c], to, None), status'[c] = to
          PROVE  RowTold(log'[c], status'[c], mode'[c]) /\ \A b \in Actions : TellsOf(log'[c], b, c, act'[b])
      <3>1. RowTold(log'[c], status'[c], mode'[c])
        BY <1>3, <2>2, ToldStatus
      <3>2. ASSUME NEW b \in Actions PROVE TellsOf(log'[c], b, c, act'[b])
        <4>1. TellsOf(e, b, c, act'[b])
          BY <1>4
        <4> QED
          BY <1>3, <2>2, <4>1, TellsStatus
      <3> QED
        BY <3>1, <3>2
    <2> QED
      BY <2>1, <2>2 DEF e
  <1>6. ASSUME NEW d \in Cases \ {c}, NEW b \in Actions PROVE TellsOf(log'[d], b, d, act'[b])
    <2>1. TellsOf(log[d], b, d, act[b])
      BY DEF ReplayInv
    <2>2. CASE b # a
      BY <2>1, <2>2
    <2>3. CASE b = a
      <3>1. log'[d] = log[d]
        OBVIOUS
      <3> QED
        BY <2>3, <3>1 DEF TellsOf
    <2> QED
      BY <2>2, <2>3
  <1>7. \A b \in Actions : act'[b].status \in {"none", "PENDING"} => act'[b].decided_by = "none"
    BY DEF ReplayInv
  <1> QED
    BY <1>5, <1>6, <1>7, ReplayOne

LEMMA ReplayPropose ==
  ASSUME TypeOK, ReplayInv, NEW c \in Cases, NEW a \in Actions, NEW verdict \in PolicyDecision,
         NEW required \in Role \cup {"none"}, L!Propose(c, a, verdict, required)
  PROVE  ReplayInv'
  <1> DEFINE x == Event("case.action.proposed", "none", "none", a)
  <1>1. x \in CaseEvent /\ Plain(x) /\ x.action = a /\ ~IsDecision(x, a)
    BY DEF Event, CaseEvent, EventType, IsStatusEvent, IsModeEvent, IsDecision, Plain
  <1>2. /\ status[c] \in CaseStatus /\ ~is_terminal(status[c]) /\ UNCHANGED mode
        /\ act[a] = L!NoAction /\ log[c] \in Seq(CaseEvent)
        /\ \A b \in Actions \ {a} : act'[b] = act[b]
    BY SameStates DEF L!Propose, L!Live, L!Exists, TypeOK
  <1>3. \/ log' = [log EXCEPT ![c] = @ \o <<x>>] /\ UNCHANGED status
        \/ /\ log' = [log EXCEPT ![c] = @ \o (<<x>> \o StateChanged(status[c], "PENDING_APPROVAL", None))]
           /\ status' = [status EXCEPT ![c] = "PENDING_APPROVAL"]
    BY SameEvents DEF L!Propose, L!Say
  <1>4. act'[a].decided_by = "none"
    BY DEF L!Propose, TypeOK
  <1>5. ASSUME NEW d \in Cases PROVE \A i \in DOMAIN log[d] : ~IsDecision(log[d][i], a)
    <2>1. TellsOf(log[d], a, d, act[a])
      BY DEF ReplayInv
    <2>2. act[a].decided_by = "none"
      BY <1>2 DEF L!NoAction
    <2> QED
      BY <2>1, <2>2, TellsNothing
  <1>6. "PENDING_APPROVAL" \in CaseStatus /\ StateChanged(status[c], "PENDING_APPROVAL", None) \in Seq(CaseEvent)
    BY <1>2, StateChangedTyped DEF CaseStatus
  <1> HIDE DEF x
  <1>7. /\ \/ log'[c] = Append(log[c], x) /\ status'[c] = status[c]
           \/ \E to \in CaseStatus :
                /\ ~is_terminal(status[c])
                /\ log'[c] = Append(log[c], x) \o StateChanged(status[c], to, None) /\ status'[c] = to
        /\ \A d \in Cases \ {c} : log'[d] = log[d] /\ status'[d] = status[d]
    <2>1. CASE log' = [log EXCEPT ![c] = @ \o <<x>>] /\ UNCHANGED status
      BY <1>1, <2>1, SaysOne
    <2>2. CASE /\ log' = [log EXCEPT ![c] = @ \o (<<x>> \o StateChanged(status[c], "PENDING_APPROVAL", None))]
               /\ status' = [status EXCEPT ![c] = "PENDING_APPROVAL"]
      <3>1. /\ log'[c] = Append(log[c], x) \o StateChanged(status[c], "PENDING_APPROVAL", None)
            /\ \A d \in Cases \ {c} : log'[d] = log[d]
        BY <1>1, <1>6, <2>2, SaysMore
      <3>2. /\ status'[c] = "PENDING_APPROVAL" /\ "PENDING_APPROVAL" \in CaseStatus
            /\ \A d \in Cases \ {c} : status'[d] = status[d]
        BY <1>6, <2>2 DEF TypeOK
      <3> QED
        BY <1>2, <3>1, <3>2
    <2> QED
      BY <1>3, <2>1, <2>2
  <1> QED
    BY <1>1, <1>2, <1>4, <1>5, <1>6, <1>7, ReplayAction

LEMMA ReplayDecide ==
  ASSUME TypeOK, ReplayInv, NEW c \in Cases, NEW a \in Actions, NEW decision \in Decision, NEW role \in Role,
         L!Decide(c, a, decision, role), status[c] # "none"
  PROVE  ReplayInv'
  <1> DEFINE x == Event(DecisionEvent[decision], "none", "none", a)
             to == IF decision = "REJECTED" THEN "INVESTIGATING" ELSE "ACTION_TAKEN"
  <1>1. x \in CaseEvent /\ Plain(x) /\ x.action = a /\ x.type = DecisionEvent[decision]
    BY DEF Event, CaseEvent, EventType, IsStatusEvent, IsModeEvent, Plain, Decision, DecisionEvent
  <1>2. /\ status[c] \in CaseStatus /\ UNCHANGED mode /\ log[c] \in Seq(CaseEvent)
        /\ act[a] \in ActionRow /\ act[a].status = "PENDING"
        /\ act' = [act EXCEPT ![a] = [act[a] EXCEPT !.status = decision, !.decided_by = role]]
        /\ \A b \in Actions \ {a} : act'[b] = act[b]
    BY DEF L!Decide, TypeOK
  <1>3. \/ log' = [log EXCEPT ![c] = @ \o <<x>>] /\ UNCHANGED status
        \/ /\ status[c] = "PENDING_APPROVAL"
           /\ log' = [log EXCEPT ![c] = @ \o (<<x>> \o StateChanged(status[c], to, None))]
           /\ status' = [status EXCEPT ![c] = to]
    BY SameEvents DEF L!Decide, L!Say
  <1>4. /\ act'[a].status = decision /\ act'[a].decided_by = role /\ act'[a].case = c
        /\ role # "none" /\ decision \notin {"none", "PENDING"}
    <2>1. act[a].case = c /\ act'[a] = [act[a] EXCEPT !.status = decision, !.decided_by = role]
      BY <1>2 DEF L!Decide, TypeOK
    <2>0. act[a] \in ActionRow
      BY <1>2
    <2>2. act'[a].status = decision /\ act'[a].decided_by = role /\ act'[a].case = act[a].case
      BY <2>0, <2>1 DEF ActionRow
    <2>3. role # "none" /\ decision \notin {"none", "PENDING"}
      BY DEF Role, Decision
    <2> QED
      BY <2>1, <2>2, <2>3
  <1>5. ASSUME NEW d \in Cases PROVE \A i \in DOMAIN log[d] : ~IsDecision(log[d][i], a)
    <2>1. TellsOf(log[d], a, d, act[a])
      BY DEF ReplayInv
    <2>2. act[a].decided_by = "none"
      BY <1>2 DEF ReplayInv
    <2> QED
      BY <2>1, <2>2, TellsNothing
  <1>6. to \in CaseStatus /\ StateChanged(status[c], to, None) \in Seq(CaseEvent)
    BY <1>2, StateChangedTyped DEF CaseStatus
  <1>7. status[c] = "PENDING_APPROVAL" => ~is_terminal(status[c])
    BY DEF is_terminal, TERMINAL
  <1> HIDE DEF x, to
  <1>8. /\ \/ log'[c] = Append(log[c], x) /\ status'[c] = status[c]
           \/ \E s \in CaseStatus :
                /\ ~is_terminal(status[c])
                /\ log'[c] = Append(log[c], x) \o StateChanged(status[c], s, None) /\ status'[c] = s
        /\ \A d \in Cases \ {c} : log'[d] = log[d] /\ status'[d] = status[d]
    <2>1. CASE log' = [log EXCEPT ![c] = @ \o <<x>>] /\ UNCHANGED status
      BY <1>1, <2>1, SaysOne
    <2>2. CASE /\ status[c] = "PENDING_APPROVAL"
               /\ log' = [log EXCEPT ![c] = @ \o (<<x>> \o StateChanged(status[c], to, None))]
               /\ status' = [status EXCEPT ![c] = to]
      <3>1. /\ log'[c] = Append(log[c], x) \o StateChanged(status[c], to, None)
            /\ \A d \in Cases \ {c} : log'[d] = log[d]
        BY <1>1, <1>6, <2>2, SaysMore
      <3>2. /\ status'[c] = to /\ to \in CaseStatus /\ ~is_terminal(status[c])
            /\ \A d \in Cases \ {c} : status'[d] = status[d]
        BY <1>6, <1>7, <2>2 DEF TypeOK
      <3> QED
        BY <3>1, <3>2
    <2> QED
      BY <1>3, <2>1, <2>2
  <1>9. /\ \A d \in Cases : \A i \in DOMAIN log[d] : ~IsDecision(log[d][i], a)
        /\ IsDecision(x, a) => /\ act'[a].case = c /\ act'[a].decided_by # "none"
                               /\ x.type = DecisionEvent[act'[a].status]
        /\ act'[a].status \in {"none", "PENDING"} => act'[a].decided_by = "none"
    BY <1>1, <1>4, <1>5
  <1> QED
    BY <1>1, <1>2, <1>8, <1>9, ReplayAction

\* A pending action's case is there.
HasCase == \A a \in Actions : act[a].status = "PENDING" => act[a].case \in Cases /\ L!Exists(act[a].case)
LEMMA HasCaseStep == TypeOK /\ HasCase /\ [L!Next]_(L!ledger) => HasCase'
  <1> SUFFICES ASSUME TypeOK, HasCase, [L!Next]_(L!ledger)
               PROVE  HasCase'
    OBVIOUS
  <1>1. ASSUME \A c \in Cases : status[c] # "none" => status'[c] # "none",
               \A a \in Actions : act'[a].status = "PENDING" =>
                 \/ act[a].status = "PENDING" /\ act'[a].case = act[a].case
                 \/ act'[a].case \in Cases /\ status'[act'[a].case] # "none"
        PROVE  HasCase'
    BY <1>1 DEF HasCase, L!Exists
  <1>2. CASE UNCHANGED <<status, act>>
    BY <1>2 DEF HasCase, L!Exists
  <1>3. ASSUME NEW c \in Cases,
               \/ \E S \in (SUBSET Invoices) \ {{}} : L!Open(c, S)
               \/ \E to \in CaseStatus : L!Move(c, to)
        PROVE  HasCase'
    <2>1. /\ UNCHANGED act /\ \A d \in Cases \ {c} : status'[d] = status[d]
          /\ status'[c] \in CaseStatus
      BY <1>3 DEF L!Open, L!Move, TypeOK, CaseStatus
    <2> QED
      BY <1>1, <2>1 DEF CaseStatus
  <1>4. ASSUME NEW c \in Cases, NEW a \in Actions, NEW verdict \in PolicyDecision,
               NEW required \in Role \cup {"none"}, L!Propose(c, a, verdict, required)
        PROVE  HasCase'
    <2>1. /\ act'[a].case = c /\ \A b \in Actions \ {a} : act'[b] = act[b]
          /\ status[c] # "none" /\ \A d \in Cases : status'[d] \in {status[d], "PENDING_APPROVAL"}
      BY <1>4 DEF L!Propose, L!Live, L!Exists, TypeOK
    <2> QED
      BY <1>1, <2>1
  <1>5. ASSUME NEW c \in Cases, NEW a \in Actions, NEW decision \in Decision, NEW role \in Role,
               L!Decide(c, a, decision, role)
        PROVE  HasCase'
    <2>1. /\ act[a] \in ActionRow /\ act'[a] = [act[a] EXCEPT !.status = decision, !.decided_by = role]
          /\ \A b \in Actions \ {a} : act'[b] = act[b]
      BY <1>5 DEF L!Decide, TypeOK
    <2>2. act'[a].status # "PENDING"
      BY <2>1 DEF Decision, ActionRow
    <2>3. \A d \in Cases : status'[d] \in {status[d], "INVESTIGATING", "ACTION_TAKEN"}
      BY <1>5 DEF L!Decide, TypeOK
    <2> QED
      BY <1>1, <2>1, <2>2, <2>3
  <1>6. ASSUME NEW a \in Actions, L!Execute(a)
        PROVE  HasCase'
    <2>1. /\ UNCHANGED status /\ \A b \in Actions \ {a} : act'[b] = act[b]
          /\ act[a] \in ActionRow
      BY <1>6 DEF L!Execute, TypeOK
    <2>2. act'[a].status # "PENDING"
      BY <1>6, <2>1 DEF L!Execute, TypeOK, ActionRow
    <2> QED
      BY <1>1, <2>1, <2>2
  <1> QED
    BY <1>2, <1>3, <1>4, <1>5, <1>6, SameStates, SameActions
    DEF L!Next, L!ledger, L!Note, L!TakeOver, L!HandBack

LEMMA ReplayStep == TypeOK /\ HasCase /\ ReplayInv /\ [L!Next]_(L!ledger) => ReplayInv'
  <1> SUFFICES ASSUME TypeOK, HasCase, ReplayInv, [L!Next]_(L!ledger)
               PROVE  ReplayInv'
    OBVIOUS
  <1>1. CASE UNCHANGED L!ledger
    <2>1. UNCHANGED <<log, status, mode, act>>
      BY <1>1 DEF L!ledger
    <2>2. ASSUME NEW c \in Cases, NEW a \in Actions
          PROVE  TellsOf(log'[c], a, c, act'[a])
      BY <2>1 DEF ReplayInv
    <2>3. ASSUME NEW c \in Cases
          PROVE  RowTold(log'[c], status'[c], mode'[c])
      BY <2>1 DEF ReplayInv
    <2>4. \A a \in Actions : act'[a].status \in {"none", "PENDING"} => act'[a].decided_by = "none"
      BY <2>1 DEF ReplayInv
    <2> QED
      BY <2>2, <2>3, <2>4 DEF ReplayInv
  <1>2. ASSUME NEW c \in Cases, NEW a \in Actions, NEW decision \in Decision, NEW role \in Role,
               L!Decide(c, a, decision, role)
        PROVE  ReplayInv'
    <2>1. status[c] # "none"
      BY <1>2 DEF L!Decide, HasCase, L!Exists
    <2> QED
      BY <1>2, <2>1, ReplayDecide
  <1> QED
    BY <1>1, <1>2, ReplayOpen, ReplayMove, ReplayNote, ReplayMode, ReplayPropose, ReplayExecute,
       SameStates, SameActions
    DEF L!Next

LEMMA ReplayInit == Init => ReplayInv /\ HasCase
  <1> SUFFICES ASSUME Init PROVE ReplayInv /\ HasCase
    OBVIOUS
  <1>1. /\ \A c \in Cases : log[c] = <<>> /\ status[c] = "none"
        /\ \A a \in Actions : act[a].status = "none" /\ act[a].decided_by = "none"
    BY DEF Init, L!Init, L!NoAction
  <1>2. ASSUME NEW c \in Cases PROVE RowTold(log[c], status[c], mode[c])
    BY <1>1 DEF RowTold, Chained, Alternates, Resolves, ResolvesTo
  <1>3. ASSUME NEW c \in Cases, NEW a \in Actions PROVE TellsOf(log[c], a, c, act[a])
    BY <1>1 DEF TellsOf
  <1> QED
    BY <1>1, <1>2, <1>3 DEF ReplayInv, HasCase

\* Whoever replays a case's events in the order they were committed finds each change of
\* status starting where the last ended and ends at the case's row; a case is announced
\* resolved when it is, and each action is decided once, as its row says.
THEOREM EventsTellTheRow == Spec => []EventsReplayToRow
  <1>1. IInv /\ ReplayInv /\ HasCase /\ [Next]_vars => (ReplayInv /\ HasCase)'
    BY StepImplements, ReplayStep, HasCaseStep DEF IInv
  <1>2. ReplayInv => EventsReplayToRow
    <2> SUFFICES ASSUME ReplayInv PROVE EventsReplayToRow
      OBVIOUS
    <2>1. ASSUME NEW c \in Cases PROVE RowTold(log[c], status[c], mode[c])
      BY DEF ReplayInv
    <2>2. ASSUME NEW c \in Cases, NEW a \in Actions PROVE DecidedOnce(c, a)
      BY DEF ReplayInv, TellsOf, DecidedOnce
    <2> QED
      BY <2>1, <2>2 DEF EventsReplayToRow, RowTold, Chained, Alternates, Resolves, ResolvesTo, L!Exists
  <1> QED
    BY <1>1, <1>2, ReplayInit, Inductive, PTL DEF Spec

-----------------------------------------------------------------------------
(* A TENANT'S POLICIES: names and versions stay sound, and a policy that    *)
(* denied all along is never overlooked or outvoted.                        *)

Offered == Submitted \cup Defaults
AllBodies == {d.body : d \in Offered} \cup Bodies
PolicyRow ==
  [state : {"there"}, name : {d.name : d \in Offered}, type : {d.type : d \in Offered},
   priority : Nat, enabled : BOOLEAN, current : Nat]
NoRow == {NoPolicy, Gone}

WriteState ==
  {AtRest} \cup [phase : {"checked"}, batch : SUBSET Offered]
           \cup [phase : {"loaded"}, policy : Policies, copy : PolicyRow]
\* The tables: their types, what StoreSound says of them, and that a policy has a version.
TablesInv ==
  /\ policy \in [Policies -> PolicyRow \cup NoRow]
  /\ versions \in [Policies -> Seq(AllBodies)]
  /\ StoreSound
  /\ \A p \in Policies : There(p) => policy[p].current >= 1

\* A batch names each of its policies differently.
BatchInv(m) ==
  write[m].phase = "checked" =>
    \A d, e \in write[m].batch : d.name = e.name => d = e

\* The version copied is one of the policy's, if it is still there.
CopyInv(m) ==
  write[m].phase = "loaded" =>
    /\ policy[write[m].policy].state # "none"
    /\ There(write[m].policy) =>
         write[m].copy.current \in 1..Len(versions[write[m].policy])

WritesInv ==
  /\ write \in [Managers -> WriteState]
  /\ \A m \in Managers : BatchInv(m) /\ CopyInv(m)

PoliciesInv == TablesInv /\ WritesInv

\* What a step may do to the tables: versions are added to a policy that stays, and
\* an id is used once.
Grows ==
  \A p \in Policies :
    /\ policy[p].state # "none" => policy'[p].state # "none"
    /\ policy[p].state # "none" /\ There(p)' =>
         /\ There(p)
         /\ Len(versions[p]) <= Len(versions'[p])
         /\ \A k \in 1..Len(versions[p]) : versions'[p][k] = versions[p][k]

-----------------------------------------------------------------------------
(* The tables                                                               *)

LEMMA States ==
  /\ NoPolicy.state = "none" /\ Gone.state = "gone"
  /\ \A rec \in PolicyRow : rec.state = "there"
  BY DEF NoPolicy, Gone, PolicyRow

LEMMA ThereIsRow ==
  ASSUME TablesInv, NEW p \in Policies
  PROVE  There(p) <=> policy[p] \in PolicyRow
  BY States DEF TablesInv, There, NoRow

LEMMA InitTables == PolicyInit => PoliciesInv
<1> SUFFICES ASSUME PolicyInit PROVE PoliciesInv
  OBVIOUS
<1>1. /\ policy = [p \in Policies |-> NoPolicy] /\ versions = [p \in Policies |-> <<>>]
      /\ write = [m \in Managers |-> AtRest]
  BY DEF PolicyInit
<1>2. \A p \in Policies : policy[p] = NoPolicy /\ ~There(p)
  BY <1>1, States DEF There
<1>3. TablesInv
  <2>1. policy \in [Policies -> PolicyRow \cup NoRow]
    BY <1>1 DEF NoRow
  <2>2. versions \in [Policies -> Seq(AllBodies)]
    BY <1>1
  <2> QED
    BY <1>2, <2>1, <2>2 DEF TablesInv, StoreSound
<1>4. AtRest.phase = "idle"
  BY DEF AtRest
<1>5. WritesInv
  BY <1>1, <1>4 DEF WritesInv, WriteState, BatchInv, CopyInv
<1> QED
  BY <1>3, <1>5 DEF PoliciesInv

(* The INSERTs: drawn ids are new and each a batch's policy of its own.     *)
LEMMA InsertsTables ==
  ASSUME PoliciesInv, NEW m \in Managers, Inserts(m)
  PROVE  TablesInv' /\ Grows
<1> DEFINE batch == write[m].batch
           id == CHOOSE f \in Drawn(batch) : TRUE
           Of(p) == CHOOSE d \in batch : id[d] = p
           new == {id[d] : d \in batch}
<1>1. /\ write[m].phase = "checked" /\ UniqueNames(batch) /\ Drawn(batch) # {}
      /\ policy' = [p \in Policies |-> IF p \in new THEN Row(Of(p)) ELSE policy[p]]
      /\ versions' = [p \in Policies |-> IF p \in new THEN <<Of(p).body>> ELSE versions[p]]
  BY DEF Inserts
<1>2. batch \subseteq Offered /\ \A d, e \in batch : d.name = e.name => d = e
  <2>1. write[m] \in WriteState /\ BatchInv(m)
    BY DEF PoliciesInv, WritesInv
  <2> QED
    BY <1>1, <2>1 DEF WriteState, BatchInv, AtRest
<1>3. id \in Drawn(batch)
  BY <1>1
<1> HIDE DEF id, batch
<1>4. /\ \A d \in batch : id[d] \in Policies /\ policy[id[d]].state = "none"
      /\ \A d, e \in batch : id[d] = id[e] => d = e
  BY <1>3 DEF Drawn
<1>5. \A p \in new : Of(p) \in batch /\ id[Of(p)] = p /\ ~There(p) /\ p \in Policies
  BY <1>4 DEF There
<1>6. ASSUME NEW d \in Offered
      PROVE  /\ Row(d) \in PolicyRow /\ Row(d).name = d.name /\ Row(d).current = 1
             /\ <<d.body>> \in Seq(AllBodies) /\ Len(<<d.body>>) = 1
  <2>1. d.priority \in Nat
    BY PolicyAssumption DEF Offered
  <2>2. d.body \in AllBodies
    BY DEF AllBodies
  <2> QED
    BY <2>1, <2>2 DEF Row, PolicyRow
<1> HIDE DEF new, Of
<1>7. \A p \in Policies : IF p \in new
        THEN /\ policy'[p] \in PolicyRow /\ policy'[p].name = Of(p).name /\ policy'[p].current = 1
             /\ versions'[p] \in Seq(AllBodies) /\ Len(versions'[p]) = 1 /\ There(p)'
        ELSE policy'[p] = policy[p] /\ versions'[p] = versions[p] /\ (There(p)' <=> There(p))
  BY <1>1, <1>2, <1>5, <1>6, States DEF There
<1>8. policy' \in [Policies -> PolicyRow \cup NoRow] /\ versions' \in [Policies -> Seq(AllBodies)]
  BY <1>1, <1>7 DEF PoliciesInv, TablesInv
<1>9. StoreSound'
  <2>1. ASSUME NEW p \in Policies, NEW q \in Policies, There(p)', There(q)',
               policy'[p].name = policy'[q].name
        PROVE  p = q
    <3>1. CASE p \in new /\ q \in new
      BY <1>2, <1>5, <1>7, <2>1, <3>1
    <3>2. ASSUME NEW r \in Policies, NEW n \in new, r \notin new, There(r)
          PROVE  policy[r].name # Of(n).name
      BY <1>1, <1>5, <3>2 DEF UniqueNames, Taken, Names
    <3>3. CASE p \notin new /\ q \notin new
      BY <1>7, <2>1, <3>3 DEF PoliciesInv, TablesInv, StoreSound
    <3> QED
      BY <1>7, <2>1, <3>1, <3>2, <3>3
  <2>2. \A p \in Policies : There(p)' => policy'[p].current = Len(versions'[p])
    BY <1>7 DEF PoliciesInv, TablesInv, StoreSound
  <2> QED
    BY <2>1, <2>2 DEF StoreSound
<1>10. \A p \in Policies : There(p)' => policy'[p].current >= 1
  BY <1>7 DEF PoliciesInv, TablesInv
<1>11. Grows
  BY <1>5, <1>7, <1>4 DEF Grows, There, new, PoliciesInv, TablesInv
<1> QED
  BY <1>8, <1>9, <1>10, <1>11 DEF TablesInv

(* What a manager's request loaded, and the row it is about to write.       *)
LEMMA LoadedRow ==
  ASSUME PoliciesInv, NEW m \in Managers, write[m].phase = "loaded"
  PROVE  /\ write[m].policy \in Policies /\ write[m].copy \in PolicyRow
         /\ policy[write[m].policy].state # "none"
         /\ There(write[m].policy) =>
              write[m].copy.current \in 1..Len(versions[write[m].policy])
<1>1. write[m] \in WriteState /\ CopyInv(m)
  BY DEF PoliciesInv, WritesInv
<1> QED
  BY <1>1 DEF WriteState, CopyInv, AtRest

LEMMA UpdatesTables ==
  ASSUME PoliciesInv, NEW m \in Managers, update_policy(m)
  PROVE  TablesInv' /\ Grows
<1> DEFINE p == write[m].policy
<1>1. p \in Policies /\ write[m].copy \in PolicyRow /\ There(p)
  BY LoadedRow DEF update_policy
<1>2. PICK priority \in Priorities \cup {write[m].copy.priority}, enabled \in BOOLEAN :
        policy' = [policy EXCEPT
                     ![p].priority = Set(write[m].copy.priority, priority, @),
                     ![p].enabled = Set(write[m].copy.enabled, enabled, @)]
  BY DEF update_policy
<1>3. versions' = versions
  BY DEF update_policy
<1> HIDE DEF p
<1>4. policy[p] \in PolicyRow
  BY <1>1, ThereIsRow DEF PoliciesInv
<1>5. PICK prio \in Nat, on \in BOOLEAN :
        policy' = [policy EXCEPT ![p] = [policy[p] EXCEPT !.priority = prio, !.enabled = on]]
  <2>1. Set(write[m].copy.priority, priority, policy[p].priority) \in Nat
    BY <1>1, <1>2, <1>4, PolicyAssumption DEF Set, PolicyRow
  <2>2. Set(write[m].copy.enabled, enabled, policy[p].enabled) \in BOOLEAN
    BY <1>1, <1>2, <1>4 DEF Set, PolicyRow
  <2>3. policy' = [policy EXCEPT ![p] =
                     [policy[p] EXCEPT
                        !.priority = Set(write[m].copy.priority, priority, policy[p].priority),
                        !.enabled = Set(write[m].copy.enabled, enabled, policy[p].enabled)]]
    BY <1>1, <1>2 DEF PoliciesInv, TablesInv
  <2> QED
    BY <2>1, <2>2, <2>3
<1>6. /\ policy' \in [Policies -> PolicyRow \cup NoRow] /\ policy'[p] \in PolicyRow
      /\ policy'[p].name = policy[p].name /\ policy'[p].current = policy[p].current
      /\ \A q \in Policies \ {p} : policy'[q] = policy[q]
  <2>1. LET rec == [policy[p] EXCEPT !.priority = prio, !.enabled = on]
        IN  rec \in PolicyRow /\ rec.name = policy[p].name /\ rec.current = policy[p].current
    BY <1>4 DEF PolicyRow
  <2> QED
    BY <1>1, <1>5, <2>1 DEF PoliciesInv, TablesInv
<1>7. \A q \in Policies : (There(q)' <=> There(q)) /\ policy'[q].state = policy[q].state
  BY <1>4, <1>6, States DEF There
<1>8. TablesInv'
  <2>1. \A q \in Policies : There(q) =>
          policy'[q].name = policy[q].name /\ policy'[q].current = policy[q].current
    BY <1>6
  <2> QED
    BY <1>3, <1>6, <1>7, <2>1 DEF PoliciesInv, TablesInv, StoreSound
<1>9. Grows
  BY <1>3, <1>7 DEF Grows, There, PoliciesInv, TablesInv
<1> QED
  BY <1>8, <1>9

LEMMA AddsVersionTables ==
  ASSUME PoliciesInv, NEW m \in Managers, add_version(m)
  PROVE  TablesInv' /\ Grows
<1> DEFINE p == write[m].policy
           n == write[m].copy.current + 1
<1>1. /\ p \in Policies /\ There(p) /\ n \notin DOMAIN versions[p]
      /\ write[m].copy.current \in 1..Len(versions[p])
  BY LoadedRow DEF add_version, UniqueVersion
<1>2. PICK body \in Bodies : versions' = [versions EXCEPT ![p] = Append(@, body)]
  BY DEF add_version
<1>3. policy' = [policy EXCEPT ![p].current = n]
  BY DEF add_version
<1>4. /\ versions[p] \in Seq(AllBodies) /\ Len(versions[p]) \in Nat
      /\ DOMAIN versions[p] = 1..Len(versions[p]) /\ body \in AllBodies
  BY <1>1 DEF PoliciesInv, TablesInv, AllBodies
<1>5. n = Len(versions[p]) + 1 /\ n \in Nat /\ n >= 1
  <2>1. \A len \in Nat : \A k \in 1..len :
          k + 1 \notin 1..len => k + 1 = len + 1 /\ k + 1 \in Nat /\ k + 1 >= 1
    OBVIOUS
  <2> QED
    BY <1>1, <1>4, <2>1
<1> HIDE DEF p, n
<1>6. /\ versions' \in [Policies -> Seq(AllBodies)]
      /\ Len(versions'[p]) = n
      /\ \A k \in 1..Len(versions[p]) : versions'[p][k] = versions[p][k]
      /\ \A q \in Policies \ {p} : versions'[q] = versions[q]
  BY <1>1, <1>2, <1>4, <1>5 DEF PoliciesInv, TablesInv
<1>7. policy[p] \in PolicyRow
  BY <1>1, ThereIsRow DEF PoliciesInv
<1>8. /\ policy' \in [Policies -> PolicyRow \cup NoRow] /\ policy'[p] \in PolicyRow
      /\ policy'[p].name = policy[p].name /\ policy'[p].current = n
      /\ \A q \in Policies \ {p} : policy'[q] = policy[q]
  <2>1. LET rec == [policy[p] EXCEPT !.current = n]
        IN  rec \in PolicyRow /\ rec.name = policy[p].name /\ rec.current = n
    BY <1>5, <1>7 DEF PolicyRow
  <2>2. policy' = [policy EXCEPT ![p] = [policy[p] EXCEPT !.current = n]]
    BY <1>1, <1>3 DEF PoliciesInv, TablesInv
  <2> QED
    BY <1>1, <2>1, <2>2 DEF PoliciesInv, TablesInv
<1>9. \A q \in Policies : (There(q)' <=> There(q)) /\ policy'[q].state = policy[q].state
  BY <1>7, <1>8, States DEF There
<1>10. TablesInv'
  <2>1. \A q \in Policies : There(q) => policy'[q].name = policy[q].name
    BY <1>8
  <2>2. \A q \in Policies : There(q) =>
          policy'[q].current = Len(versions'[q]) /\ policy'[q].current >= 1
    BY <1>5, <1>6, <1>8 DEF PoliciesInv, TablesInv, StoreSound
  <2> QED
    BY <1>6, <1>8, <1>9, <2>1, <2>2 DEF PoliciesInv, TablesInv, StoreSound
<1>11. Grows
  <2>1. \A q \in Policies : Len(versions[q]) \in Nat
    BY DEF PoliciesInv, TablesInv
  <2> QED
    BY <1>4, <1>5, <1>6, <1>9, <2>1 DEF Grows, There
<1> QED
  BY <1>10, <1>11

LEMMA DeletesTables ==
  ASSUME PoliciesInv, NEW m \in Managers, delete_policy(m)
  PROVE  TablesInv' /\ Grows
<1> DEFINE p == write[m].policy
<1>1. p \in Policies /\ policy[p].state # "none"
  BY LoadedRow DEF delete_policy
<1>2. policy' = [policy EXCEPT ![p] = Gone] /\ versions' = [versions EXCEPT ![p] = <<>>]
  BY DEF delete_policy
<1> HIDE DEF p
<1>3. /\ policy' \in [Policies -> PolicyRow \cup NoRow] /\ policy'[p] = Gone
      /\ \A q \in Policies \ {p} : policy'[q] = policy[q] /\ versions'[q] = versions[q]
      /\ versions' \in [Policies -> Seq(AllBodies)]
  BY <1>1, <1>2 DEF PoliciesInv, TablesInv, NoRow
<1>4. \A q \in Policies : There(q)' => q # p /\ There(q)
  BY <1>3, States DEF There
<1>5. TablesInv'
  BY <1>3, <1>4 DEF PoliciesInv, TablesInv, StoreSound
<1>6. Grows
  <2>1. \A q \in Policies : Len(versions[q]) \in Nat
    BY DEF PoliciesInv, TablesInv
  <2> QED
    BY <1>1, <1>3, <1>4, <2>1, States DEF Grows, There
<1> QED
  BY <1>5, <1>6

-----------------------------------------------------------------------------
(* The requests                                                             *)

(* A request ends with its writing; those of other managers outlive the change. *)
LEMMA WritesEnd ==
  ASSUME PoliciesInv, NEW m \in Managers, write' = [write EXCEPT ![m] = AtRest], TablesInv', Grows
  PROVE  PoliciesInv'
<1>1. /\ write' \in [Managers -> WriteState] /\ write'[m] = AtRest
      /\ \A k \in Managers \ {m} : write'[k] = write[k]
  BY DEF PoliciesInv, WritesInv, WriteState
<1>2. AtRest.phase = "idle"
  BY DEF AtRest
<1>3. BatchInv(m)' /\ CopyInv(m)'
  BY <1>1, <1>2 DEF BatchInv, CopyInv
<1>4. ASSUME NEW k \in Managers \ {m} PROVE BatchInv(k)' /\ CopyInv(k)'
  <2>1. BatchInv(k)'
    BY <1>1 DEF PoliciesInv, WritesInv, BatchInv
  <2>2. ASSUME write'[k].phase = "loaded" PROVE CopyInv(k)'
    <3>1. PICK p \in Policies :
            /\ p = write[k].policy /\ policy[p].state # "none"
            /\ There(p) => write[k].copy.current \in 1..Len(versions[p])
      BY <1>1, <2>2, LoadedRow
    <3>2. \A q \in Policies : Len(versions[q]) \in Nat /\ Len(versions'[q]) \in Nat
      BY DEF PoliciesInv, TablesInv
    <3>3. policy'[p].state # "none"
      BY <3>1 DEF Grows
    <3>4. There(p)' => write[k].copy.current \in 1..Len(versions'[p])
      BY <3>1, <3>2 DEF Grows
    <3> QED
      BY <1>1, <3>1, <3>3, <3>4 DEF CopyInv
  <2> QED
    BY <2>1, <2>2 DEF CopyInv
<1> QED
  BY <1>1, <1>3, <1>4 DEF PoliciesInv, WritesInv

(* A request begins, having read; or ends, having written nothing.          *)
LEMMA TablesStay ==
  ASSUME PoliciesInv, UNCHANGED <<policy, versions>>
  PROVE  TablesInv' /\ Grows
<1>1. TablesInv'
  BY DEF PoliciesInv, TablesInv, StoreSound, There
<1>2. \A p \in Policies : Len(versions[p]) \in Nat
  BY DEF PoliciesInv, TablesInv
<1> QED
  BY <1>1, <1>2 DEF Grows, There

LEMMA ChecksInv ==
  ASSUME PoliciesInv, NEW m \in Managers, NEW batch \in SUBSET Offered,
         \A d, e \in batch : d.name = e.name => d = e, ChecksNames(m, batch)
  PROVE  PoliciesInv'
<1> DEFINE w == [phase |-> "checked", batch |-> batch]
<1>1. write' = [write EXCEPT ![m] = w] /\ UNCHANGED <<policy, versions>>
  BY DEF ChecksNames
<1>2. w \in WriteState /\ w.phase = "checked" /\ w.batch = batch
  BY DEF WriteState
<1> HIDE DEF w
<1>3. /\ write' \in [Managers -> WriteState] /\ write'[m] = w
      /\ \A k \in Managers \ {m} : write'[k] = write[k]
  BY <1>1, <1>2 DEF PoliciesInv, WritesInv
<1>4. BatchInv(m)' /\ CopyInv(m)'
  BY <1>2, <1>3 DEF BatchInv, CopyInv
<1>5. \A k \in Managers \ {m} : BatchInv(k)' /\ CopyInv(k)'
  BY <1>1, <1>3 DEF PoliciesInv, WritesInv, BatchInv, CopyInv, There
<1> QED
  BY <1>1, <1>3, <1>4, <1>5, TablesStay DEF PoliciesInv, WritesInv

LEMMA GetsInv ==
  ASSUME PoliciesInv, NEW m \in Managers, NEW p \in Policies, get_policy(m, p)
  PROVE  PoliciesInv'
<1> DEFINE w == [phase |-> "loaded", policy |-> p, copy |-> policy[p]]
<1>1. write' = [write EXCEPT ![m] = w] /\ UNCHANGED <<policy, versions>> /\ There(p)
  BY DEF get_policy
<1>2. policy[p] \in PolicyRow
  BY <1>1, ThereIsRow DEF PoliciesInv
<1>3. /\ w \in WriteState /\ w.phase = "loaded" /\ w.policy = p /\ w.copy = policy[p]
  BY <1>2 DEF WriteState
<1> HIDE DEF w
<1>4. policy[p].state # "none" /\ policy[p].current \in 1..Len(versions[p])
  BY <1>1 DEF There, PoliciesInv, TablesInv, StoreSound
<1>5. /\ write' \in [Managers -> WriteState] /\ write'[m] = w
      /\ \A k \in Managers \ {m} : write'[k] = write[k]
  BY <1>1, <1>3 DEF PoliciesInv, WritesInv
<1>6. BatchInv(m)' /\ CopyInv(m)'
  BY <1>1, <1>3, <1>4, <1>5 DEF BatchInv, CopyInv
<1>7. \A k \in Managers \ {m} : BatchInv(k)' /\ CopyInv(k)'
  BY <1>1, <1>5 DEF PoliciesInv, WritesInv, BatchInv, CopyInv, There
<1> QED
  BY <1>1, <1>5, <1>6, <1>7, TablesStay DEF PoliciesInv, WritesInv

LEMMA RequestsInv ==
  ASSUME PoliciesInv, NEW m \in Managers,
         \/ create_policy(m) \/ install_defaults(m) \/ Inserts(m) \/ Conflicts(m)
         \/ update_policy(m) \/ add_version(m) \/ delete_policy(m) \/ Aborts(m)
         \/ \E p \in Policies : get_policy(m, p)
  PROVE  PoliciesInv'
<1>1. CASE create_policy(m)
  <2>1. PICK d \in Submitted : ChecksNames(m, {d})
    BY <1>1 DEF create_policy
  <2>2. {d} \in SUBSET Offered /\ \A e, f \in {d} : e.name = f.name => e = f
    BY DEF Offered
  <2> QED
    BY <2>1, <2>2, ChecksInv
<1>2. CASE install_defaults(m)
  <2> DEFINE batch == {d \in Defaults : ~Taken({d.name})}
  <2>1. batch \in SUBSET Offered /\ \A e, f \in batch : e.name = f.name => e = f
    BY PolicyAssumption DEF Offered
  <2>2. ChecksNames(m, batch)
    BY <1>2 DEF install_defaults
  <2> HIDE DEF batch
  <2> QED
    BY <2>1, <2>2, ChecksInv
<1>3. CASE Inserts(m)
  BY <1>3, InsertsTables, WritesEnd DEF Inserts
<1>4. CASE Conflicts(m) \/ Aborts(m)
  BY <1>4, TablesStay, WritesEnd DEF Conflicts, Aborts
<1>5. CASE update_policy(m)
  BY <1>5, UpdatesTables, WritesEnd DEF update_policy
<1>6. CASE add_version(m)
  BY <1>6, AddsVersionTables, WritesEnd DEF add_version
<1>7. CASE delete_policy(m)
  BY <1>7, DeletesTables, WritesEnd DEF delete_policy
<1>8. CASE \E p \in Policies : get_policy(m, p)
  BY <1>8, GetsInv
<1> QED
  BY <1>1, <1>2, <1>3, <1>4, <1>5, <1>6, <1>7, <1>8

LEMMA StaysInv ==
  ASSUME PoliciesInv, UNCHANGED <<policy, versions, write>>
  PROVE  PoliciesInv'
<1>1. TablesInv'
  BY TablesStay
<1>2. \A m \in Managers : BatchInv(m)' /\ CopyInv(m)'
  BY DEF PoliciesInv, WritesInv, BatchInv, CopyInv, There
<1> QED
  BY <1>1, <1>2 DEF PoliciesInv, WritesInv

LEMMA Step == PoliciesInv /\ [PolicyNext]_policies => PoliciesInv'
<1> SUFFICES ASSUME PoliciesInv, [PolicyNext]_policies PROVE PoliciesInv'
  OBVIOUS
<1>1. CASE \E m \in Managers :
         \/ create_policy(m) \/ install_defaults(m) \/ Inserts(m) \/ Conflicts(m)
         \/ update_policy(m) \/ add_version(m) \/ delete_policy(m) \/ Aborts(m)
         \/ \E p \in Policies : get_policy(m, p)
  BY <1>1, RequestsInv
<1>2. CASE \E c \in Evaluators :
         evaluate_request(c) \/ Leaves(c) \/ \E r \in Questions : ReadsPolicies(c, r)
  BY <1>2, StaysInv DEF evaluate_request, Leaves, ReadsPolicies
<1>3. CASE UNCHANGED policies
  BY <1>3, StaysInv DEF policies
<1> QED
  BY <1>1, <1>2, <1>3 DEF PolicyNext

(* A tenant never has two policies of one name, and a policy is at the last of its *)
(* versions, however many managers create, install, change and delete at once.     *)
THEOREM StoreAlwaysSound == PolicySpec => []StoreSound
<1>1. PoliciesInv => StoreSound
  BY DEF PoliciesInv, TablesInv
<1> QED
  BY InitTables, Step, <1>1, PTL DEF PolicySpec

-----------------------------------------------------------------------------
(* Denials                                                                  *)

\* A row that denies r on a version of the policy's that is there.
HoldsTo(rec, vs, r) == rec.current \in 1..Len(vs) /\ Denies(rec, vs, r)

ListedInv(c) ==
  judged[c].phase = "listed" =>
    /\ judged[c].request \in Questions
    /\ \A p \in judged[c].deny :
         p \in Policies /\ There(p) /\ HoldsTo(judged[c].rows[p], versions[p], judged[c].request)

AnsweredInv(c) ==
  judged[c].phase = "answered" /\ judged[c].deny # {} => judged[c].verdict.decision = "DENY"

\* Each evaluation is at rest, has listed the policies, or has answered.
JudgeShape(j) ==
  \/ j = AtRest
  \/ j = [phase |-> "listed", request |-> j.request, rows |-> j.rows, deny |-> j.deny]
  \/ j = [phase |-> "answered", deny |-> j.deny, verdict |-> j.verdict]

JudgeInv ==
  /\ judged = [c \in Evaluators |-> judged[c]]
  /\ \A c \in Evaluators : JudgeShape(judged[c]) /\ ListedInv(c) /\ AnsweredInv(c)

LEMMA InitJudge == PolicyInit => JudgeInv
  BY DEF PolicyInit, JudgeInv, JudgeShape, ListedInv, AnsweredInv, AtRest

(* While the tables change, the denials that are watched are those that still stand, *)
(* and the versions they stand on are the ones that were listed.                     *)
LEMMA WatchedHolds ==
  ASSUME PoliciesInv, Grows, NEW p \in Policies, There(p), There(p)', NEW rec, NEW r,
         HoldsTo(rec, versions[p], r)
  PROVE  HoldsTo(rec, versions'[p], r)
<1>1. policy[p].state # "none" /\ Len(versions[p]) \in Nat /\ Len(versions'[p]) \in Nat
  BY DEF There, PoliciesInv, TablesInv, Grows
<1>2. /\ Len(versions[p]) <= Len(versions'[p])
      /\ \A k \in 1..Len(versions[p]) : versions'[p][k] = versions[p][k]
  BY <1>1 DEF Grows
<1> QED
  BY <1>1, <1>2 DEF HoldsTo, Denies

LEMMA WritesWatched ==
  ASSUME PoliciesInv, JudgeInv, Grows, Watch
  PROVE  JudgeInv'
<1>1. judged' = [c \in Evaluators |-> judged'[c]]
  BY DEF Watch
<1>2. ASSUME NEW c \in Evaluators
      PROVE  JudgeShape(judged'[c]) /\ ListedInv(c)' /\ AnsweredInv(c)'
  <2>1. JudgeShape(judged[c]) /\ ListedInv(c) /\ AnsweredInv(c)
    BY DEF JudgeInv
  <2>2. CASE judged[c].phase # "listed"
    <3>1. judged'[c] = judged[c]
      BY <2>2 DEF Watch
    <3> QED
      BY <2>1, <2>2, <3>1 DEF ListedInv, AnsweredInv
  <2>3. CASE judged[c].phase = "listed"
    <3> DEFINE deny == {p \in judged[c].deny : Denies(policy'[p], versions'[p], judged[c].request)}
    <3>1. judged'[c] = [judged[c] EXCEPT !.deny = deny]
      BY <2>3 DEF Watch
    <3>2. judged[c] = [phase |-> "listed", request |-> judged[c].request,
                       rows |-> judged[c].rows, deny |-> judged[c].deny]
      BY <2>1, <2>3 DEF JudgeShape, AtRest
    <3> HIDE DEF deny
    <3>3. judged'[c] = [phase |-> "listed", request |-> judged[c].request,
                        rows |-> judged[c].rows, deny |-> deny]
      BY <3>1, <3>2
    <3>4. /\ judged'[c].phase = "listed" /\ judged'[c].request = judged[c].request
          /\ judged'[c].rows = judged[c].rows /\ judged'[c].deny = deny
      BY <3>3
    <3>5. judged[c].request \in Questions
      BY <2>1, <2>3 DEF ListedInv
    <3>6. ASSUME NEW p \in deny
          PROVE  /\ p \in Policies /\ There(p)'
                 /\ HoldsTo(judged[c].rows[p], versions'[p], judged[c].request)
      <4>1. /\ p \in Policies /\ There(p) /\ There(p)'
            /\ HoldsTo(judged[c].rows[p], versions[p], judged[c].request)
        BY <2>1, <2>3 DEF ListedInv, deny, Denies, There
      <4> QED
        BY <4>1, WatchedHolds
    <3>7. ListedInv(c)'
      BY <3>4, <3>5, <3>6 DEF ListedInv
    <3> QED
      BY <3>3, <3>4, <3>7 DEF JudgeShape, AnsweredInv
  <2> QED
    BY <2>2, <2>3
<1> QED
  BY <1>1, <1>2 DEF JudgeInv

(* A step of an evaluation concerns no other.                               *)
LEMMA OthersJudge ==
  ASSUME JudgeInv, UNCHANGED <<policy, versions>>, NEW c \in Evaluators, NEW j,
         judged' = [judged EXCEPT ![c] = j], JudgeShape(j), ListedInv(c)', AnsweredInv(c)'
  PROVE  JudgeInv'
<1>1. /\ judged' = [d \in Evaluators |-> judged'[d]] /\ judged'[c] = j
      /\ \A d \in Evaluators \ {c} : judged'[d] = judged[d]
  BY DEF JudgeInv
<1>2. \A d \in Evaluators \ {c} : JudgeShape(judged'[d]) /\ ListedInv(d)' /\ AnsweredInv(d)'
  BY <1>1 DEF JudgeInv, ListedInv, AnsweredInv, There
<1> QED
  BY <1>1, <1>2 DEF JudgeInv

LEMMA ReadsJudge ==
  ASSUME PoliciesInv, JudgeInv, NEW c \in Evaluators, NEW r \in Questions, ReadsPolicies(c, r)
  PROVE  JudgeInv'
<1> DEFINE deny == {p \in Policies : Denies(policy[p], versions[p], r)}
           j == [phase |-> "listed", request |-> r, rows |-> EnabledRows, deny |-> deny]
<1>1. judged' = [judged EXCEPT ![c] = j] /\ UNCHANGED <<policy, versions>>
  BY DEF ReadsPolicies
<1>2. judged'[c] = j
  BY <1>1 DEF JudgeInv
<1> HIDE DEF deny
<1>3. ASSUME NEW p \in deny
      PROVE  p \in Policies /\ There(p) /\ HoldsTo(EnabledRows[p], versions[p], r)
  <2>1. p \in Policies /\ Denies(policy[p], versions[p], r)
    BY DEF deny
  <2>2. There(p) /\ EnabledRows[p] = policy[p]
    BY <2>1 DEF Denies, There, EnabledRows
  <2>3. policy[p].current \in 1..Len(versions[p])
    <3>1. policy[p].current = Len(versions[p]) /\ policy[p].current >= 1 /\ Len(versions[p]) \in Nat
      BY <2>1, <2>2 DEF PoliciesInv, TablesInv, StoreSound
    <3> QED
      BY <3>1
  <2> QED
    BY <2>1, <2>2, <2>3 DEF HoldsTo
<1>4. /\ JudgeShape(j) /\ j.phase = "listed" /\ j.request = r /\ j.rows = EnabledRows
      /\ j.deny = deny
  BY DEF JudgeShape
<1> HIDE DEF j
<1>5. ListedInv(c)' /\ AnsweredInv(c)'
  BY <1>1, <1>2, <1>3, <1>4 DEF ListedInv, AnsweredInv, There
<1> QED
  BY <1>1, <1>4, <1>5, OthersJudge

(* A policy that denies among those in force: the answer is DENY.           *)
LEMMA DeniedIsDenied ==
  ASSUME NEW type, NEW context, NEW rules, NEW rule \in rules,
         Applicable(rule, type), Matches(rule.rule, context), rule.decision = "DENY"
  PROVE  evaluate(type, context, rules).decision = "DENY"
  BY DEF evaluate

LEMMA EvaluatesJudge ==
  ASSUME PoliciesInv, JudgeInv, NEW c \in Evaluators, evaluate_request(c)
  PROVE  JudgeInv'
<1> DEFINE r == judged[c].request
           rows == judged[c].rows
           rules == compiled_rules(rows, versions)
           j == [phase |-> "answered", deny |-> judged[c].deny,
                 verdict |-> evaluate(r.type, r.context, rules)]
<1>1. judged' = [judged EXCEPT ![c] = j] /\ UNCHANGED <<policy, versions>>
  BY DEF evaluate_request
<1>2. judged'[c] = j
  BY <1>1 DEF JudgeInv
<1>3. ASSUME NEW p \in judged[c].deny
      PROVE  evaluate(r.type, r.context, rules).decision = "DENY"
  <2>1. /\ p \in Policies /\ r \in Questions /\ HoldsTo(rows[p], versions[p], r)
    BY DEF JudgeInv, ListedInv, evaluate_request
  <2> DEFINE body == versions[p][rows[p].current]
             rule == [policy |-> p, name |-> rows[p].name, type |-> rows[p].type,
                      priority |-> rows[p].priority, rule |-> body.rule,
                      decision |-> body.decision, role |-> body.role]
  <2>2. versions[p] \in Seq(AllBodies) /\ rows[p].current \in DOMAIN versions[p]
    BY <2>1 DEF PoliciesInv, TablesInv, HoldsTo
  <2>3. body.decision = "DENY" /\ Matches(body.rule, r.context)
    BY <2>1 DEF HoldsTo, Denies
  <2>4. rows[p].state = "there" /\ rows[p].enabled /\ Applicable(rows[p], r.type)
    BY <2>1 DEF HoldsTo, Denies
  <2>5. rule \in rules
    BY <2>1, <2>2, <2>4 DEF compiled_rules
  <2>6. Applicable(rule, r.type) /\ rule.rule = body.rule /\ rule.decision = body.decision
    BY <2>4 DEF Applicable
  <2> HIDE DEF rule, rules, body
  <2> QED
    BY <2>3, <2>5, <2>6, DeniedIsDenied
<1> HIDE DEF rules, r
<1>4. /\ JudgeShape(j) /\ j.phase = "answered" /\ j.deny = judged[c].deny
      /\ j.verdict = evaluate(r.type, r.context, rules)
  BY DEF JudgeShape
<1> HIDE DEF j
<1>5. ListedInv(c)' /\ AnsweredInv(c)'
  BY <1>2, <1>3, <1>4 DEF ListedInv, AnsweredInv
<1> QED
  BY <1>1, <1>4, <1>5, OthersJudge

LEMMA LeavesJudge ==
  ASSUME JudgeInv, NEW c \in Evaluators, Leaves(c)
  PROVE  JudgeInv'
<1>1. judged' = [judged EXCEPT ![c] = AtRest] /\ UNCHANGED <<policy, versions>>
  BY DEF Leaves
<1>2. judged'[c] = AtRest /\ AtRest.phase = "idle" /\ JudgeShape(AtRest)
  BY <1>1 DEF JudgeInv, JudgeShape, AtRest
<1> QED
  BY <1>1, <1>2, OthersJudge DEF ListedInv, AnsweredInv

LEMMA JudgeStep ==
  ASSUME PoliciesInv, JudgeInv, [PolicyNext]_policies
  PROVE  JudgeInv'
<1>1. CASE UNCHANGED <<policy, versions, judged>>
  BY <1>1 DEF JudgeInv, ListedInv, AnsweredInv, There
<1>2. ASSUME NEW m \in Managers, Inserts(m) PROVE JudgeInv'
  BY <1>2, InsertsTables, WritesWatched DEF Inserts
<1>3. ASSUME NEW m \in Managers, update_policy(m) PROVE JudgeInv'
  BY <1>3, UpdatesTables, WritesWatched DEF update_policy
<1>4. ASSUME NEW m \in Managers, add_version(m) PROVE JudgeInv'
  BY <1>4, AddsVersionTables, WritesWatched DEF add_version
<1>5. ASSUME NEW m \in Managers, delete_policy(m) PROVE JudgeInv'
  BY <1>5, DeletesTables, WritesWatched DEF delete_policy
<1>6. ASSUME NEW m \in Managers,
             \/ create_policy(m) \/ install_defaults(m) \/ Conflicts(m) \/ Aborts(m)
             \/ \E p \in Policies : get_policy(m, p)
      PROVE  JudgeInv'
  BY <1>1, <1>6 DEF create_policy, install_defaults, ChecksNames, Conflicts, Aborts, get_policy
<1>7. CASE UNCHANGED policies
  BY <1>1, <1>7 DEF policies
<1> QED
  BY <1>2, <1>3, <1>4, <1>5, <1>6, <1>7, ReadsJudge, EvaluatesJudge, LeavesJudge DEF PolicyNext

(* A policy that denied the facts put before an evaluation, from the moment it read *)
(* the policies to the moment it answered, is obeyed, whatever managers write       *)
(* between its two readings and whatever else matches first.                        *)
THEOREM StandingDenialsWin == PolicySpec => []StandingDenyWins
<1>1. PolicyInit => PoliciesInv /\ JudgeInv
  BY InitTables, InitJudge
<1>2. PoliciesInv /\ JudgeInv /\ [PolicyNext]_policies => (PoliciesInv /\ JudgeInv)'
  BY Step, JudgeStep
<1>3. PoliciesInv /\ JudgeInv => StandingDenyWins
  BY DEF JudgeInv, AnsweredInv, StandingDenyWins
<1> QED
  BY <1>1, <1>2, <1>3, PTL DEF PolicySpec

-----------------------------------------------------------------------------
(* The prompts.  What a transaction is about to write fits the rows as they *)
(* are by then, because versions are only added, one at a time, and each at *)
(* the end.                                                                 *)

VersionRow == [by : {"system:seed", "manager"}, content : Nat, active : BOOLEAN]
TxKinds == {"none", "seed", "add", "add_active", "activate"}
Tx == [kind : TxKinds, seen : Seq(VersionRow), target : Nat, content : Nat, inserted : BOOLEAN]

PromptType == prompt \in Seq(VersionRow) /\ tx \in [Requesters -> Tx] /\ raced \in BOOLEAN

Adds(s) == tx[s].kind \in {"add", "add_active"}

\* What was read is not ahead of the table, and what is inserted is next in it.
InLine ==
  /\ \A s \in Requesters :
       /\ Len(tx[s].seen) <= Len(prompt) /\ tx[s].target <= Len(prompt) + 1
       /\ tx[s].kind = "activate" => tx[s].target \in 1..Len(prompt)
       /\ Adds(s) => Len(tx[s].seen) > 0
       /\ tx[s].inserted => Adds(s) /\ tx[s].target = Len(prompt) + 1
  /\ \A s, r \in Requesters : tx[s].inserted /\ tx[r].inserted => s = r

\* Unless activations overlapped, whoever goes by a copy of an active version has it active.
SeesActive ==
  ~raced => \A s \in Requesters : \A v \in Active(prompt) : GoesByCopy(s, v) => v \in Active(tx[s].seen)

OneAtMost == raced \/ \A u, v \in Active(prompt) : u = v
SomeActive == prompt # <<>> => Active(prompt) # {}

PromptInv == PromptType /\ InLine /\ SeesActive /\ OneAtMost /\ SomeActive

-----------------------------------------------------------------------------
(* Rows                                                                     *)

LEMMA AppendRow ==
  ASSUME NEW rows \in Seq(VersionRow), NEW rec \in VersionRow, ~rec.active
  PROVE  /\ Append(rows, rec) \in Seq(VersionRow)
         /\ Len(Append(rows, rec)) = Len(rows) + 1
         /\ Active(Append(rows, rec)) = Active(rows)
<1>1. /\ Append(rows, rec) \in Seq(VersionRow) /\ Len(Append(rows, rec)) = Len(rows) + 1
      /\ Len(rows) \in Nat
      /\ DOMAIN rows = 1..Len(rows) /\ DOMAIN Append(rows, rec) = 1..Len(rows) + 1
      /\ \A k \in 1..Len(rows) : Append(rows, rec)[k] = rows[k]
      /\ Append(rows, rec)[Len(rows) + 1] = rec
  OBVIOUS
<1> QED
  BY <1>1 DEF Active

LEMMA SwitchedRows ==
  ASSUME NEW rows \in Seq(VersionRow), NEW seen, NEW target \in 1..Len(rows)
  PROVE  /\ Switched(rows, seen, target) \in Seq(VersionRow)
         /\ Len(Switched(rows, seen, target)) = Len(rows)
         /\ target \in Active(Switched(rows, seen, target))
         /\ Active(rows) \subseteq Active(seen) => Active(Switched(rows, seen, target)) = {target}
<1> DEFINE new == Switched(rows, seen, target)
<1>1. DOMAIN rows = 1..Len(rows) /\ Len(rows) \in Nat /\ \A v \in 1..Len(rows) : rows[v] \in VersionRow
  OBVIOUS
<1>2. /\ DOMAIN new = 1..Len(rows)
      /\ \A v \in 1..Len(rows) :
           /\ new[v] = [rows[v] EXCEPT !.active = v = target \/ (@ /\ v \notin Active(seen))]
           /\ new[v] \in VersionRow
           /\ new[v].active <=> v = target \/ (rows[v].active /\ v \notin Active(seen))
  <2>1. DOMAIN new = 1..Len(rows) /\ \A v \in 1..Len(rows) :
           new[v] = [rows[v] EXCEPT !.active = v = target \/ (@ /\ v \notin Active(seen))]
    BY <1>1 DEF Switched
  <2>2. ASSUME NEW v \in 1..Len(rows), NEW b \in BOOLEAN
        PROVE  /\ [rows[v] EXCEPT !.active = b] \in VersionRow
               /\ [rows[v] EXCEPT !.active = b].active = b
    BY <1>1 DEF VersionRow
  <2> HIDE DEF new
  <2> QED
    BY <2>1, <2>2
<1>3. new \in Seq(VersionRow) /\ Len(new) = Len(rows)
  <2>1. \E n \in Nat : DOMAIN new = 1..n
    BY <1>1, <1>2
  <2>2. new \in [1..Len(rows) -> VersionRow]
    BY <1>1, <1>2 DEF Switched
  <2> HIDE DEF new
  <2> QED
    BY <1>1, <2>2
<1> HIDE DEF new
<1>4. Active(new) = {v \in 1..Len(rows) : v = target \/ (rows[v].active /\ v \notin Active(seen))}
  BY <1>2 DEF Active
<1>5. target \in Active(new)
  BY <1>4
<1>6. ASSUME Active(rows) \subseteq Active(seen) PROVE Active(new) = {target}
  BY <1>1, <1>4, <1>6 DEF Active
<1> QED
  BY <1>3, <1>5, <1>6 DEF new

-----------------------------------------------------------------------------
(* The steps                                                                *)

LEMMA PromptInitInv == PromptInit => PromptInv
<1> SUFFICES ASSUME PromptInit PROVE PromptInv
  OBVIOUS
<1>1. prompt = <<>> /\ tx = [s \in Requesters |-> NoTx] /\ raced = FALSE
  BY DEF PromptInit
<1>2. NoTx \in Tx /\ NoTx.kind = "none" /\ ~NoTx.inserted /\ NoTx.seen = <<>> /\ NoTx.target = 0
  BY DEF NoTx, Tx, TxKinds
<1>3. Len(prompt) = 0 /\ Active(prompt) = {}
  BY <1>1 DEF Active
<1>4. PromptType
  <2>1. prompt \in Seq(VersionRow)
    BY <1>1
  <2>2. tx \in [Requesters -> Tx]
    BY <1>1, <1>2
  <2> QED
    BY <1>1, <2>1, <2>2 DEF PromptType
<1>5. \A s \in Requesters : tx[s] = NoTx
  BY <1>1
<1>6. InLine
  BY <1>2, <1>3, <1>5 DEF InLine, Adds
<1>7. SeesActive
  BY <1>3 DEF SeesActive
<1>8. OneAtMost /\ SomeActive
  BY <1>1, <1>3 DEF OneAtMost, SomeActive
<1> QED
  BY <1>4, <1>6, <1>7, <1>8 DEF PromptInv

(* What a request does to its own transaction leaves the others' as they are. *)
LEMMA OthersKeep ==
  ASSUME PromptType, NEW s \in Requesters, NEW t \in Tx, tx' = [tx EXCEPT ![s] = t]
  PROVE  /\ tx' \in [Requesters -> Tx] /\ tx'[s] = t
         /\ \A r \in Requesters \ {s} : tx'[r] = tx[r] /\ (Activates(r)' <=> Activates(r))
         /\ \A r \in Requesters \ {s}, v \in Nat : GoesByCopy(r, v)' <=> GoesByCopy(r, v)
<1>1. tx' \in [Requesters -> Tx] /\ tx'[s] = t /\ \A r \in Requesters \ {s} : tx'[r] = tx[r]
  BY DEF PromptType
<1>2. ASSUME NEW r \in Requesters \ {s} PROVE Activates(r)' <=> Activates(r)
  BY <1>1 DEF Activates
<1>3. ASSUME NEW r \in Requesters \ {s}, NEW v \in Nat PROVE GoesByCopy(r, v)' <=> GoesByCopy(r, v)
  BY <1>1, <1>2 DEF GoesByCopy, Latest
<1> QED
  BY <1>1, <1>2, <1>3

LEMMA ReadsAllInv ==
  ASSUME PromptInv, NEW s \in Requesters, NEW kind \in TxKinds, NEW target \in Nat,
         NEW content \in Nat, target <= Len(prompt) + 1,
         kind = "activate" => target \in 1..Len(prompt),
         kind \in {"add", "add_active"} => Len(prompt) > 0,
         ReadsAll(s, kind, target, content)
  PROVE  PromptInv'
<1> DEFINE t == [NoTx EXCEPT !.kind = kind, !.seen = prompt, !.target = target, !.content = content]
<1>1. tx' = [tx EXCEPT ![s] = t] /\ prompt' = prompt /\ raced' = raced
  BY DEF ReadsAll
<1>2. NoTx \in Tx /\ ~NoTx.inserted
  BY DEF NoTx, Tx, TxKinds
<1>3. t \in Tx /\ t.kind = kind /\ t.seen = prompt /\ t.target = target /\ ~t.inserted
  BY <1>2 DEF PromptInv, PromptType, Tx
<1> HIDE DEF t
<1>4. /\ tx' \in [Requesters -> Tx] /\ tx'[s] = t
      /\ \A r \in Requesters \ {s} : tx'[r] = tx[r] /\ (Activates(r)' <=> Activates(r))
      /\ \A r \in Requesters \ {s}, v \in Nat : GoesByCopy(r, v)' <=> GoesByCopy(r, v)
  BY <1>1, <1>3, OthersKeep DEF PromptInv
<1>5. PromptType'
  BY <1>1, <1>4 DEF PromptInv, PromptType
<1>6. InLine'
  <2>1. Len(prompt) \in Nat
    BY DEF PromptInv, PromptType
  <2>2. ASSUME NEW r \in Requesters
        PROVE  /\ Len(tx'[r].seen) <= Len(prompt') /\ tx'[r].target <= Len(prompt') + 1
               /\ tx'[r].kind = "activate" => tx'[r].target \in 1..Len(prompt')
               /\ Adds(r)' => Len(tx'[r].seen) > 0
               /\ tx'[r].inserted => Adds(r)' /\ tx'[r].target = Len(prompt') + 1
    <3>1. CASE r = s
      BY <1>1, <1>3, <1>4, <2>1, <3>1 DEF Adds
    <3>2. CASE r # s
      BY <1>1, <1>4, <3>2 DEF PromptInv, InLine, Adds
    <3> QED
      BY <3>1, <3>2
  <2>3. ASSUME NEW q \in Requesters, NEW r \in Requesters, tx'[q].inserted, tx'[r].inserted
        PROVE  q = r
    BY <1>3, <1>4, <2>3 DEF PromptInv, InLine
  <2> QED
    BY <2>2, <2>3 DEF InLine
<1>7. SeesActive'
  <2>1. ASSUME NEW r \in Requesters, NEW v \in Active(prompt), ~raced', GoesByCopy(r, v)'
        PROVE  v \in Active(tx'[r].seen)
    <3>1. CASE r = s
      BY <1>1, <1>3, <1>4, <3>1
    <3>2. CASE r # s
      <4>1. v \in Nat
        BY DEF Active, PromptInv, PromptType
      <4> QED
        BY <1>1, <1>4, <2>1, <3>2, <4>1 DEF PromptInv, SeesActive
    <3> QED
      BY <3>1, <3>2
  <2>2. Active(prompt)' = Active(prompt) /\ \A r \in Requesters : Active(tx[r].seen)' = Active(tx'[r].seen)
    BY <1>1 DEF Active
  <2> QED
    BY <2>1, <2>2 DEF SeesActive
<1>8. OneAtMost' /\ SomeActive'
  BY <1>1 DEF PromptInv, OneAtMost, SomeActive, Active
<1> QED
  BY <1>5, <1>6, <1>7, <1>8 DEF PromptInv

LEMMA InsertsRowInv ==
  ASSUME PromptInv, NEW s \in Requesters, InsertsRow(s)
  PROVE  PromptInv'
<1> DEFINE kept == Reread(s)
           t == [tx[s] EXCEPT !.inserted = TRUE, !.seen = kept]
<1>1. /\ tx[s] \in Tx /\ prompt \in Seq(VersionRow) /\ Len(prompt) \in Nat
      /\ tx[s].seen \in Seq(VersionRow) /\ Len(tx[s].seen) \in Nat
  BY DEF PromptInv, PromptType, Tx
<1>2. Adds(s) /\ Latest(s) \in 1..Len(prompt)
  BY <1>1 DEF InsertsRow, Adds, Latest, PromptInv, InLine
<1>3. /\ kept \in Seq(VersionRow) /\ Len(kept) = Len(prompt)
      /\ kept[Latest(s)] = tx[s].seen[Latest(s)]
      /\ \A v \in 1..Len(prompt) : v # Latest(s) => kept[v] = prompt[v]
  <2>1. Latest(s) \in 1..Len(tx[s].seen)
    BY <1>1, <1>2 DEF Latest
  <2>2. tx[s].seen[Latest(s)] \in VersionRow
    BY <1>1, <2>1
  <2> DEFINE l == Latest(s)
             held == tx[s].seen[l]
  <2>3. kept = [prompt EXCEPT ![l] = held]
    BY DEF Reread
  <2> HIDE DEF kept, l, held
  <2>4. held \in VersionRow /\ l \in 1..Len(prompt)
    BY <1>2, <2>2 DEF l, held
  <2>5. kept \in Seq(VersionRow) /\ Len(kept) = Len(prompt) /\ kept[l] = held
        /\ \A v \in 1..Len(prompt) : v # l => kept[v] = prompt[v]
    BY <1>1, <2>3, <2>4
  <2> QED
    BY <2>5 DEF l, held
<1> HIDE DEF kept
<1>4. tx' = [tx EXCEPT ![s] = t] /\ prompt' = prompt /\ raced' = raced
  BY <1>1 DEF InsertsRow, PromptInv, PromptType, Tx, kept
<1>5. t \in Tx /\ t.kind = tx[s].kind /\ t.seen = kept /\ t.target = tx[s].target /\ t.inserted
  BY <1>1, <1>3 DEF Tx
<1>6. /\ tx[s].target = Len(prompt) + 1 /\ Adds(s)
      /\ \A r \in Requesters \ {s} : ~tx[r].inserted
  BY <1>1 DEF InsertsRow, Insertable, Inserting, PromptInv, InLine, Tx, Adds
<1> HIDE DEF t
<1>7. /\ tx' \in [Requesters -> Tx] /\ tx'[s] = t
      /\ \A r \in Requesters \ {s} : tx'[r] = tx[r] /\ (Activates(r)' <=> Activates(r))
      /\ \A r \in Requesters \ {s}, v \in Nat : GoesByCopy(r, v)' <=> GoesByCopy(r, v)
  BY <1>4, <1>5, OthersKeep DEF PromptInv
<1>8. PromptType'
  BY <1>4, <1>7 DEF PromptInv, PromptType
<1>9. InLine'
  <2>1. ASSUME NEW r \in Requesters
        PROVE  /\ Len(tx'[r].seen) <= Len(prompt') /\ tx'[r].target <= Len(prompt') + 1
               /\ tx'[r].kind = "activate" => tx'[r].target \in 1..Len(prompt')
               /\ Adds(r)' => Len(tx'[r].seen) > 0
               /\ tx'[r].inserted => Adds(r)' /\ tx'[r].target = Len(prompt') + 1
    <3>1. CASE r = s
      BY <1>1, <1>4, <1>5, <1>6, <1>7, <1>2, <1>3, <3>1 DEF PromptInv, InLine, Adds
    <3>2. CASE r # s
      BY <1>4, <1>7, <3>2 DEF PromptInv, InLine, Adds
    <3> QED
      BY <3>1, <3>2
  <2>2. ASSUME NEW q \in Requesters, NEW r \in Requesters, tx'[q].inserted, tx'[r].inserted
        PROVE  q = r
    BY <1>6, <1>7, <2>2
  <2> QED
    BY <2>1, <2>2 DEF InLine
<1>10. SeesActive'
  <2>1. ASSUME NEW r \in Requesters, NEW v \in Active(prompt), ~raced', GoesByCopy(r, v)'
        PROVE  v \in Active(tx'[r].seen)
    <3>1. v \in 1..Len(prompt) /\ v \in Nat /\ prompt[v].active
      BY <1>1 DEF Active
    <3>2. CASE r = s
      <4>1. CASE v # Latest(s)
        BY <1>1, <1>5, <1>7, <1>3, <3>1, <3>2, <4>1 DEF Active
      <4>2. CASE v = Latest(s)
        <5>1. tx[s].kind = "add_active"
          BY <1>5, <1>7, <1>2, <2>1, <3>2 DEF GoesByCopy, Activates, Adds
        <5>2. GoesByCopy(s, v)
          BY <4>2, <5>1 DEF GoesByCopy
        <5>3. tx[s].seen[v].active
          BY <1>4, <2>1, <5>2 DEF PromptInv, SeesActive, Active
        <5> QED
          BY <1>5, <1>7, <1>3, <3>1, <3>2, <4>2, <5>3 DEF Active
      <4> QED
        BY <4>1, <4>2
    <3>3. CASE r # s
      BY <1>4, <1>7, <2>1, <3>1, <3>3 DEF PromptInv, SeesActive
    <3> QED
      BY <3>2, <3>3
  <2>2. Active(prompt)' = Active(prompt) /\ \A r \in Requesters : Active(tx[r].seen)' = Active(tx'[r].seen)
    BY <1>4 DEF Active
  <2> QED
    BY <2>1, <2>2 DEF SeesActive
<1>11. OneAtMost' /\ SomeActive'
  BY <1>4 DEF PromptInv, OneAtMost, SomeActive, Active
<1> QED
  BY <1>8, <1>9, <1>10, <1>11 DEF PromptInv

(* A transaction ends and its rows are in the table: they either leave active what *)
(* was, or one version is active that the transaction chose.                       *)
LEMMA EndsInv ==
  ASSUME PromptInv, NEW s \in Requesters, tx' = [tx EXCEPT ![s] = NoTx],
         prompt' \in Seq(VersionRow), raced' \in BOOLEAN, raced => raced',
         \/ Len(prompt') = Len(prompt)
         \/ Len(prompt') = Len(prompt) + 1 /\ \A r \in Requesters \ {s} : ~tx[r].inserted,
         \/ /\ Active(prompt') = Active(prompt)
            /\ prompt' # <<>> => prompt # <<>>
         \/ /\ \A r \in Requesters \ {s} : \A v \in Active(prompt') : GoesByCopy(r, v) => raced'
            /\ Active(prompt') # {}
            /\ ~raced' => \A u, v \in Active(prompt') : u = v
  PROVE  PromptInv'
<1>1. Len(prompt) \in Nat /\ Len(prompt') \in Nat
  BY DEF PromptInv, PromptType
<1>2. NoTx \in Tx /\ NoTx.kind = "none" /\ ~NoTx.inserted /\ NoTx.seen = <<>> /\ NoTx.target = 0
  BY DEF NoTx, Tx, TxKinds
<1>3. /\ tx' \in [Requesters -> Tx] /\ tx'[s] = NoTx
      /\ \A r \in Requesters \ {s} : tx'[r] = tx[r] /\ (Activates(r)' <=> Activates(r))
      /\ \A r \in Requesters \ {s}, v \in Nat : GoesByCopy(r, v)' <=> GoesByCopy(r, v)
  BY <1>2, OthersKeep DEF PromptInv
<1>4. PromptType'
  BY <1>3 DEF PromptType
<1>5. InLine'
  <2>1. ASSUME NEW r \in Requesters
        PROVE  /\ Len(tx'[r].seen) <= Len(prompt') /\ tx'[r].target <= Len(prompt') + 1
               /\ tx'[r].kind = "activate" => tx'[r].target \in 1..Len(prompt')
               /\ Adds(r)' => Len(tx'[r].seen) > 0
               /\ tx'[r].inserted => Adds(r)' /\ tx'[r].target = Len(prompt') + 1
    <3>1. CASE r = s
      <4>1. Len(<<>>) = 0
        OBVIOUS
      <4> QED
        BY <1>1, <1>2, <1>3, <3>1, <4>1 DEF Adds
    <3>2. CASE r # s
      <4>1. tx'[r] = tx[r] /\ tx[r] \in Tx
        BY <1>3, <3>2 DEF PromptInv, PromptType
      <4>2. Len(tx[r].seen) \in Nat /\ tx[r].target \in Nat
        BY <4>1 DEF Tx
      <4>3. /\ Len(tx[r].seen) <= Len(prompt) /\ tx[r].target <= Len(prompt) + 1
            /\ tx[r].kind = "activate" => tx[r].target \in 1..Len(prompt)
            /\ Adds(r) => Len(tx[r].seen) > 0
            /\ tx[r].inserted => Adds(r) /\ tx[r].target = Len(prompt) + 1
        BY DEF PromptInv, InLine
      <4>6. tx[r].inserted => Len(prompt') = Len(prompt)
        BY <3>2
      <4>7. Adds(r)' <=> Adds(r)
        BY <4>1 DEF Adds
      <4> QED
        BY <1>1, <4>1, <4>2, <4>3, <4>6, <4>7
    <3> QED
      BY <3>1, <3>2
  <2>2. ASSUME NEW q \in Requesters, NEW r \in Requesters, tx'[q].inserted, tx'[r].inserted
        PROVE  q = r
    BY <1>2, <1>3, <2>2 DEF PromptInv, InLine
  <2> QED
    BY <2>1, <2>2 DEF InLine
<1>6. \A v : ~GoesByCopy(s, v)'
  BY <1>2, <1>3 DEF GoesByCopy, Activates
<1>7. SeesActive'
  <2>1. ASSUME NEW r \in Requesters, NEW v \in Active(prompt'), ~raced', GoesByCopy(r, v)'
        PROVE  v \in Active(tx'[r].seen)
    <3>1. v \in Nat
      BY DEF Active
    <3>2. r # s /\ GoesByCopy(r, v) /\ ~raced /\ tx'[r] = tx[r]
      BY <1>3, <1>6, <2>1, <3>1
    <3>3. Active(prompt') = Active(prompt)
      BY <2>1, <3>2
    <3> QED
      BY <3>2, <3>3 DEF PromptInv, SeesActive
  <2>2. Active(prompt)' = Active(prompt') /\ \A r \in Requesters : Active(tx[r].seen)' = Active(tx'[r].seen)
    BY DEF Active
  <2> QED
    BY <2>1, <2>2 DEF SeesActive
<1>8. OneAtMost' /\ SomeActive'
  <2>1. OneAtMost' <=> raced' \/ \A u, v \in Active(prompt') : u = v
    BY DEF OneAtMost, Active
  <2>2. SomeActive' <=> (prompt' # <<>> => Active(prompt') # {})
    BY DEF SomeActive, Active
  <2> QED
    BY <2>1, <2>2 DEF PromptInv, OneAtMost, SomeActive
<1> QED
  BY <1>4, <1>5, <1>7, <1>8 DEF PromptInv

(* A row is added after all that are there, while nobody else is adding one. *)
LEMMA TakesNext ==
  ASSUME PromptInv, NEW s \in Requesters, tx[s].inserted \/ Insertable(s)
  PROVE  tx[s].target = Len(prompt) + 1 /\ \A r \in Requesters \ {s} : ~tx[r].inserted
<1>1. tx[s] \in Tx /\ Len(prompt) \in Nat /\ tx[s].target \in Nat
  BY DEF PromptInv, PromptType, Tx
<1> QED
  BY <1>1 DEF PromptInv, InLine, Insertable, Inserting

LEMMA CommitsInv ==
  ASSUME PromptInv, NEW s \in Requesters, Commits(s)
  PROVE  PromptInv'
<1>1. /\ tx[s] \in Tx /\ prompt \in Seq(VersionRow) /\ Len(prompt) \in Nat /\ raced \in BOOLEAN
      /\ tx[s].seen \in Seq(VersionRow) /\ Len(tx[s].seen) \in Nat /\ tx[s].content \in Nat
  BY DEF PromptInv, PromptType, Tx
<1>2. /\ tx' = [tx EXCEPT ![s] = NoTx]
      /\ raced' = (raced \/ (Activates(s) /\ \E r \in Requesters \ {s} : GoesByCopy(r, tx[s].target)))
  BY DEF Commits
<1>3. raced' \in BOOLEAN /\ (raced => raced')
  BY <1>1, <1>2
<1>4. Activates(s) => \A r \in Requesters \ {s} : GoesByCopy(r, tx[s].target) => raced'
  BY <1>2
<1>5. Activates(s) /\ ~raced' => Active(prompt) \subseteq Active(tx[s].seen)
  BY <1>3 DEF PromptInv, SeesActive, GoesByCopy
<1>6. CASE tx[s].kind = "activate"
  <2>1. prompt' = Switched(prompt, tx[s].seen, tx[s].target) /\ tx[s].target \in 1..Len(prompt)
    BY <1>6 DEF Commits, PromptInv, InLine
  <2>2. Activates(s)
    BY <1>6 DEF Activates
  <2>3. /\ prompt' \in Seq(VersionRow) /\ Len(prompt') = Len(prompt)
        /\ tx[s].target \in Active(prompt')
        /\ Active(prompt) \subseteq Active(tx[s].seen) => Active(prompt') = {tx[s].target}
    BY <1>1, <2>1, SwitchedRows
  <2> QED
    BY <1>2, <1>3, <1>4, <1>5, <2>2, <2>3, EndsInv
<1>7. CASE tx[s].kind = "seed" /\ Known(tx[s].seen, tx[s].content)
  <2>1. prompt' = prompt
    BY <1>7 DEF Commits
  <2> QED
    BY <1>1, <1>2, <1>3, <2>1, EndsInv
<1>8. CASE tx[s].kind # "activate" /\ ~(tx[s].kind = "seed" /\ Known(tx[s].seen, tx[s].content))
  <2> DEFINE rows == Append(prompt, Added(s))
  <2>1. /\ IF tx[s].kind = "seed" THEN Insertable(s) ELSE tx[s].inserted
        /\ prompt' = IF Activates(s) THEN Switched(rows, tx[s].seen, tx[s].target) ELSE rows
    BY <1>8 DEF Commits
  <2>2. tx[s].target = Len(prompt) + 1 /\ \A r \in Requesters \ {s} : ~tx[r].inserted
    BY <2>1, TakesNext
  <2>3. Added(s) \in VersionRow /\ ~Added(s).active
    BY <1>1 DEF Added, VersionRow
  <2>4. /\ rows \in Seq(VersionRow) /\ Len(rows) = Len(prompt) + 1
        /\ Active(rows) = Active(prompt)
    BY <1>1, <2>3, AppendRow
  <2> HIDE DEF rows
  <2>5. CASE Activates(s)
    <3>1. prompt' = Switched(rows, tx[s].seen, tx[s].target) /\ tx[s].target \in 1..Len(rows)
      BY <1>1, <2>1, <2>2, <2>4, <2>5
    <3>2. /\ prompt' \in Seq(VersionRow) /\ Len(prompt') = Len(rows)
          /\ tx[s].target \in Active(prompt')
          /\ Active(rows) \subseteq Active(tx[s].seen) => Active(prompt') = {tx[s].target}
      BY <2>4, <3>1, SwitchedRows
    <3> QED
      BY <1>2, <1>3, <1>4, <1>5, <2>2, <2>4, <2>5, <3>2, EndsInv
  <2>6. CASE ~Activates(s)
    <3>1. prompt' = rows
      BY <2>1, <2>6
    <3>2. prompt # <<>>
      <4>1. CASE tx[s].kind = "seed"
        <5>1. Active(tx[s].seen) # {}
          BY <1>8, <2>6, <4>1 DEF Activates, SeedActivates
        <5>2. Len(tx[s].seen) > 0
          BY <1>1, <5>1 DEF Active
        <5>3. Len(prompt) > 0
          BY <1>1, <5>2 DEF PromptInv, InLine
        <5> QED
          BY <5>3
      <4>2. CASE tx[s].kind # "seed"
        BY <1>1, <2>1, <4>2 DEF PromptInv, InLine
      <4> QED
        BY <4>1, <4>2
    <3> QED
      BY <1>2, <1>3, <2>2, <2>4, <3>1, <3>2, EndsInv
  <2> QED
    BY <2>5, <2>6
<1> QED
  BY <1>6, <1>7, <1>8

LEMMA PromptStep == PromptInv /\ [PromptNext]_prompts => PromptInv'
<1> SUFFICES ASSUME PromptInv, [PromptNext]_prompts PROVE PromptInv'
  OBVIOUS
<1>1. prompt \in Seq(VersionRow) /\ Len(prompt) \in Nat
  BY DEF PromptInv, PromptType
<1>2. ASSUME NEW s \in Requesters, NEW revision \in 1..MaxRevision, seed_from_files(s, revision)
      PROVE  PromptInv'
  BY <1>1, <1>2, ReadsAllInv DEF seed_from_files, TxKinds
<1>3. ASSUME NEW s \in Requesters, NEW activate \in BOOLEAN, add_prompt_version(s, activate)
      PROVE  PromptInv'
  <2>1. CASE activate
    BY <1>1, <1>3, <2>1, ReadsAllInv DEF add_prompt_version, TxKinds
  <2>2. CASE ~activate
    BY <1>1, <1>3, <2>2, ReadsAllInv DEF add_prompt_version, TxKinds
  <2> QED
    BY <2>1, <2>2
<1>4. ASSUME NEW s \in Requesters, NEW v \in DOMAIN prompt, activate_version(s, v)
      PROVE  PromptInv'
  <2>1. v \in 1..Len(prompt) /\ v \in Nat /\ v <= Len(prompt) + 1
    BY <1>1
  <2> QED
    BY <1>4, <2>1, ReadsAllInv DEF activate_version, TxKinds
<1>5. ASSUME NEW s \in Requesters, RollsBack(s) PROVE PromptInv'
  BY <1>1, <1>5, EndsInv DEF RollsBack, PromptInv, PromptType
<1>6. CASE UNCHANGED prompts
  BY <1>6 DEF prompts, PromptInv, PromptType, InLine, SeesActive, OneAtMost, SomeActive,
              Activates, GoesByCopy, Latest, Adds, Active
<1> QED
  BY <1>2, <1>3, <1>4, <1>5, <1>6, InsertsRowInv, CommitsInv DEF PromptNext

(* A run finds an active version of every prompt that was ever seeded, and exactly one *)
(* unless some version was activated while another activation was to go by an older    *)
(* copy of it, however many replicas seed, managers add and activate, and transactions *)
(* fail.                                                                               *)
THEOREM ActivePromptFound == PromptSpec => []OneActivePrompt
<1>1. PromptInv => OneActivePrompt
  <2> SUFFICES ASSUME PromptInv PROVE OneActivePrompt
    OBVIOUS
  <2>1. SomeActive /\ OneAtMost /\ Active(prompt) \subseteq DOMAIN prompt
    BY DEF PromptInv, Active
  <2>2. ASSUME NEW u \in Active(prompt), ~raced PROVE Active(prompt) = {u}
    BY <2>1, <2>2 DEF OneAtMost
  <2> QED
    BY <2>1, <2>2 DEF SomeActive, OneActivePrompt
<1> QED
  BY PromptInitInv, PromptStep, <1>1, PTL DEF PromptSpec

-----------------------------------------------------------------------------
(* MONEY: what is rounded, what a plan comes to                             *)

\* Half is rounded up, or to what is even: either is within a half.
LEMMA HalfUpIs ==
  ASSUME NEW n \in Int, NEW m \in Int, m > 0, NEW h, h = RoundHalfUp(n, m)
  PROVE  h \in Int /\ 2 * (m * h) <= 2 * n + m /\ 2 * n + m < 2 * (m * h) + 2 * m
<1> DEFINE a == 2 * n + m
           k == 2 * m
<1>1. a \in Int /\ k \in Int /\ k > 0 /\ h = a \div k
  BY DEF RoundHalfUp
<1> HIDE DEF a, k
<1>2. h \in Int /\ k * h <= a /\ a < k * h + k
  BY <1>1, DivisionIs
<1>3. k * h = 2 * (m * h)
  BY <1>2 DEF k
<1> QED
  BY <1>2, <1>3 DEF a, k

\* The same of what Decimal does, halves to the even one.
LEMMA HalfEvenIs ==
  ASSUME NEW n \in Int, NEW m \in Int, m > 0, NEW e, e = RoundHalfEven(n, m)
  PROVE  e \in Int /\ 2 * n - m <= 2 * (m * e) /\ 2 * (m * e) <= 2 * n + m
<1> DEFINE q == n \div m
           r == n % m
<1>1. q \in Int /\ r \in Int /\ 0 <= r /\ r < m /\ n = m * q + r
  <2>1. q = n \div m /\ r = n % m
    OBVIOUS
  <2> HIDE DEF q, r
  <2> QED
    BY <2>1
<1>2. \/ e = q /\ 2 * r <= m
      \/ e = q + 1 /\ 2 * r >= m
  <2>1. e = IF 2 * r > m \/ (2 * r = m /\ q % 2 = 1) THEN q + 1 ELSE q
    BY DEF RoundHalfEven
  <2> HIDE DEF q, r
  <2> QED
    BY <1>1, <2>1
<1> HIDE DEF q, r
<1>3. m * (q + 1) = m * q + m /\ m * q \in Int
  BY <1>1
<1> QED
  BY <1>1, <1>2, <1>3

\* So they differ by one at most, and never the other way.
LEMMA HalvesAgree ==
  ASSUME NEW n \in Int, NEW m \in Int, m > 0
  PROVE  RoundHalfUp(n, m) - RoundHalfEven(n, m) \in {0, 1}
<1> DEFINE h == RoundHalfUp(n, m)
           e == RoundHalfEven(n, m)
<1>1. h \in Int /\ 2 * (m * h) <= 2 * n + m /\ 2 * n + m < 2 * (m * h) + 2 * m
  BY HalfUpIs
<1>2. e \in Int /\ 2 * n - m <= 2 * (m * e) /\ 2 * (m * e) <= 2 * n + m
  BY HalfEvenIs
<1> HIDE DEF h, e
<1>3. m * (h + 1) = m * h + m /\ m * (e + 1) = m * e + m /\ m * h \in Int /\ m * e \in Int
  BY <1>1, <1>2
<1>4. m * e < m * (h + 1) /\ m * h <= m * (e + 1)
  BY <1>1, <1>2, <1>3
<1>5. e < h + 1
  BY <1>1, <1>2, <1>4, Cancel
<1>6. h <= e + 1
  BY <1>1, <1>2, <1>4, Cancel
<1>7. h - e = 0 \/ h - e = 1
  BY <1>1, <1>2, <1>5, <1>6
<1> QED
  BY <1>7 DEF h, e

\* What is left when the last installment has been worked out is nothing.
LEMMA PartsAddUp ==
  ASSUME NEW n \in Nat \ {0}, NEW per \in Int, NEW total \in Int
  PROVE  SumFunction([k \in 1 .. n |-> IF k < n THEN per ELSE total - (n - 1) * per]) = total
<1> DEFINE f == [k \in 1 .. n |-> IF k < n THEN per ELSE total - (n - 1) * per]
           S == 1 .. n
           T == S \ {n}
<1>1. (n - 1) * per \in Int
  OBVIOUS
<1>2. \A k \in S : f[k] \in Int
  BY <1>1
<1>3. n \in S /\ f[n] = total - (n - 1) * per
  OBVIOUS
<1>4. \A k \in T : f[k] = per
  OBVIOUS
<1>5. IsFiniteSet(S) /\ Cardinality(S) = n
  <2>1. 0 + 1 .. 0 + n = S
    OBVIOUS
  <2>2. Cardinality(0 + 1 .. 0 + n) = n
    <3> HIDE DEF S
    <3> QED
      BY IntervalSize
  <2>3. IsFiniteSet(S)
    BY FS_Interval
  <2> QED
    BY <2>1, <2>2, <2>3
<1>6. DOMAIN f = S
  OBVIOUS
<1> HIDE DEF f, S
<1>7. IsFiniteSet(T) /\ Cardinality(T) = n - 1
  <2>1. Cardinality(S \ {n}) = Cardinality(S) - 1 /\ IsFiniteSet(S \ {n})
    BY <1>3, <1>5, FS_RemoveElement
  <2> QED
    BY <1>5, <2>1
<1>8. SumFunctionOnSet(f, S) = f[n] + SumFunctionOnSet(f, T)
  BY <1>2, <1>3, <1>5, SumRemove
<1> HIDE DEF T
<1>9. SumFunctionOnSet(f, T) = (n - 1) * per
  BY <1>4, <1>7, SumConstant
<1>10. SumFunctionOnSet(f, S) = total
  BY <1>1, <1>3, <1>8, <1>9
<1>11. SumFunction(f) = total
  BY <1>6, <1>10 DEF SumFunction
<1> QED
  BY <1>11 DEF f

\* The installments a person is shown and those the ERP books: either come to their total.
LEMMA BothAddUp ==
  ASSUME NEW n \in Nat \ {0}, NEW total \in Int
  PROVE  SumFunction(Installments(total, n)) = total /\ SumFunction(BookedInstallments(total, n)) = total
<1>1. RoundHalfUp(total, n) \in Int /\ RoundHalfEven(total, n) \in Int
  BY HalfUpIs, HalfEvenIs
<1> QED
  BY <1>1, PartsAddUp DEF Installments, BookedInstallments, Remainder

\* Rounded up, so many installments may come to more than there is; but not when
\* there is enough for that of the last one.
LEMMA NoneNegative ==
  ASSUME NEW n \in Nat \ {0}, NEW total \in Int, 2 * total >= n * (n - 1), NEW k \in 1 .. n
  PROVE  Installments(total, n)[k] >= 0
<1> DEFINE per == RoundHalfUp(total, n)
<1>1. per \in Int /\ 2 * (n * per) <= 2 * total + n /\ 2 * total + n < 2 * (n * per) + 2 * n
  BY HalfUpIs
<1>2. Installments(total, n)[k] = IF k < n THEN per ELSE total - (n - 1) * per
  BY DEF Installments, Remainder
<1> HIDE DEF per
<1>3. n - 1 \in Nat /\ n * (n - 1) \in Nat /\ n * per \in Int
  BY <1>1
<1>4. per >= 0
  <2>1. n * (0 - 1) = 0 - n /\ n * (0 - 1) < n * per
    BY <1>1, <1>3
  <2>2. 0 - 1 < per
    BY <1>1, <2>1, Cancel
  <2> QED
    BY <1>1, <2>2
<1>5. total - (n - 1) * per >= 0
  <2>1. (n - 1) * (2 * (n * per)) <= (n - 1) * (2 * total + n)
    BY <1>1, <1>3, Times
  <2>2. (n - 1) * (2 * (n * per)) = n * (2 * ((n - 1) * per))
    BY <1>1
  <2>3. (n - 1) * (2 * total + n) = n * (2 * total) - 2 * total + n * (n - 1)
    OBVIOUS
  <2>4. n * (2 * total) - 2 * total + n * (n - 1) <= n * (2 * total)
    <3>1. n * (2 * total) \in Int /\ 2 * total \in Int
      OBVIOUS
    <3> QED
      BY <1>3, <3>1
  <2>5. n * (2 * ((n - 1) * per)) <= n * (2 * total)
    <3>1. n * (2 * ((n - 1) * per)) \in Int /\ n * (2 * total) \in Int
      BY <1>1
    <3> QED
      BY <2>1, <2>2, <2>3, <2>4, <3>1
  <2>6. 2 * ((n - 1) * per) <= 2 * total
    <3>1. 2 * ((n - 1) * per) \in Int /\ 2 * total \in Int
      BY <1>1
    <3> QED
      BY <2>5, <3>1, Cancel
  <2>7. (n - 1) * per \in Int
    BY <1>1
  <2> QED
    BY <2>6, <2>7
<1> QED
  BY <1>1, <1>2, <1>4, <1>5

\* The discount is taken off, rounded; or what is left is rounded.
LEMMA TotalsAgree ==
  ASSUME NEW open \in Int, NEW pct \in Int
  PROVE  PlanBooked(open, pct) - PlanTotal(open, pct) \in {0, 1} /\ PlanTotal(open, pct) \in Int
<1> DEFINE x == open * pct
           h == RoundHalfUp(x, 100)
           y == open * (100 - pct)
           e == RoundHalfEven(y, 100)
<1>1. x \in Int /\ y \in Int /\ y = 100 * open - x
  OBVIOUS
<1>2. PlanBooked(open, pct) = e /\ PlanTotal(open, pct) = open - h
  BY DEF PlanBooked, PlanTotal
<1> HIDE DEF x, y
<1>3. h \in Int /\ 2 * (100 * h) <= 2 * x + 100 /\ 2 * x + 100 < 2 * (100 * h) + 2 * 100
  BY <1>1, HalfUpIs
<1>4. e \in Int /\ 2 * y - 100 <= 2 * (100 * e) /\ 2 * (100 * e) <= 2 * y + 100
  BY <1>1, HalfEvenIs
<1> HIDE DEF h, e
<1>5. e - (open - h) = 0 \/ e - (open - h) = 1
  BY <1>1, <1>3, <1>4
<1> QED
  BY <1>2, <1>3, <1>5

\* A quote says what was asked for.
PlanOf(open, pct, n) == [of |-> "plan", open |-> open, pct |-> pct, said |-> Installments(PlanTotal(open, pct), n)]
QuotedPlan == \E open \in 1 .. MaxPlan : \E pct \in Discounts : \E n \in 1 .. MaxInstallments : quote = PlanOf(open, pct, n)

\* A plan that was quoted is what the ERP will book, but for rounding.
LEMMA PlansAgreeAlways == quote.of = "plan" /\ QuotedPlan => PlansAgree
<1> SUFFICES ASSUME QuotedPlan PROVE PlansAgree
  OBVIOUS
<1>1. PICK open \in 1 .. MaxPlan, pct \in Discounts, n \in 1 .. MaxInstallments : quote = PlanOf(open, pct, n)
  BY DEF QuotedPlan
<1>2. open \in Int /\ pct \in Int /\ n \in Nat \ {0}
  BY AmountsAssumption
<1> DEFINE told == PlanTotal(open, pct)
           booked == PlanBooked(open, pct)
           said == Installments(told, n)
           falls == BookedInstallments(booked, n)
<1>3. quote.open = open /\ quote.pct = pct /\ quote.said = said
  BY <1>1 DEF PlanOf
<1>4. Len(said) = n /\ \A k \in 1 .. n : falls[k] = falls[k]
  BY <1>2 DEF Installments
<1>5. told \in Int /\ booked \in Int /\ booked - told \in {0, 1}
  <2>1. told \in Int /\ booked - told \in {0, 1}
    BY <1>2, TotalsAgree
  <2>2. open * (100 - pct) \in Int
    BY <1>2
  <2>3. booked \in Int
    BY <2>2, HalfEvenIs DEF PlanBooked
  <2> QED
    BY <2>1, <2>3
<1> HIDE DEF told, booked
<1>6. SumFunction(said) = told /\ SumFunction(falls) = booked
  BY <1>2, <1>5, BothAddUp
<1>7. 2 * told >= n * (n - 1) => \A k \in 1 .. n : said[k] >= 0
  BY <1>2, <1>5, NoneNegative
<1>8. ASSUME told = booked, NEW k \in 1 .. n - 1
      PROVE  said[k] - falls[k] \in {0, 1}
  <2>1. said[k] = RoundHalfUp(told, n) /\ falls[k] = RoundHalfEven(told, n)
    BY <1>2, <1>8 DEF Installments, BookedInstallments
  <2> QED
    BY <1>2, <1>5, <2>1, HalvesAgree
<1> HIDE DEF said, falls
<1> QED
  BY <1>3, <1>4, <1>5, <1>6, <1>7, <1>8 DEF PlansAgree, told, booked, falls

\* A credit that was asked for; and all that can be quoted.
CreditFor(line, po, delivered, contract, tax) ==
  [of |-> "credit", doc |-> Document(line, po, delivered, contract, 2, tax)]
QuotedCredit ==
  \E line \in Line : \E po \in Po : \E delivered \in Delivery : \E contract \in Contract : \E tax \in {0, 1} :
    quote = CreditFor(line, po, delivered, contract, tax)
QuoteInv == quote = NoQuote \/ QuotedCredit \/ QuotedPlan

\* What is quoted was asked for: nothing, a credit, or a plan.
LEMMA QuoteInvAlways == QuoteSpec => []QuoteInv
<1>1. QuoteInit => QuoteInv
  BY DEF QuoteInit, QuoteInv
<1>2. ASSUME QuoteInv, [QuoteNext]_quote PROVE QuoteInv'
  <2>1. CASE reconcile_lines
    <3>1. PICK line \in Line, po \in Po, delivered \in Delivery, contract \in Contract, tax \in {0, 1} :
            quote' = CreditFor(line, po, delivered, contract, tax)
      BY <2>1 DEF reconcile_lines, CreditFor
    <3>2. QuotedCredit'
      BY <3>1 DEF QuotedCredit, CreditFor, Line, Po, Delivery, Contract, Prices
    <3> QED
      BY <3>2 DEF QuoteInv
  <2>2. CASE simulate_payment_plan
    <3>1. PICK open \in 1 .. MaxPlan, pct \in Discounts, n \in 1 .. MaxInstallments :
            quote' = PlanOf(open, pct, n)
      BY <2>2 DEF simulate_payment_plan, PlanOf
    <3>2. QuotedPlan'
      BY <3>1 DEF QuotedPlan, PlanOf
    <3> QED
      BY <3>2 DEF QuoteInv
  <2>3. CASE UNCHANGED quote
    BY <1>2, <2>3 DEF QuoteInv, QuotedCredit, QuotedPlan, NoQuote
  <2> QED
    BY <1>2, <2>1, <2>2, <2>3 DEF QuoteNext
<1> QED
  BY <1>1, <1>2, PTL DEF QuoteSpec

\* For every amount, discount and number of installments: the installments the
\* gateway simulates and those the ERP books each add up to their totals, none
\* is negative unless the total is tiny, and they differ by rounding only.
THEOREM PlansHold == QuoteSpec => []PlansAgree
<1>1. QuoteInv => PlansAgree
  <2>1. quote = NoQuote => PlansAgree
    BY DEF NoQuote, PlansAgree
  <2>2. QuotedCredit => PlansAgree
    <3> SUFFICES ASSUME QuotedCredit PROVE quote.of # "plan"
      BY DEF PlansAgree
    <3>1. PICK line \in Line, po \in Po, delivered \in Delivery, contract \in Contract, tax \in {0, 1} :
            quote = CreditFor(line, po, delivered, contract, tax)
      BY DEF QuotedCredit
    <3> QED
      BY <3>1 DEF CreditFor
  <2>3. QuotedPlan => quote.of = "plan"
    BY DEF QuotedPlan, PlanOf
  <2> QED
    BY <2>1, <2>2, <2>3, PlansAgreeAlways DEF QuoteInv
<1> QED
  BY <1>1, QuoteInvAlways, PTL

-----------------------------------------------------------------------------
(* What a line is credited                                                  *)

\* What is in a set of numbers and below all of it is its least.
LEMMA MinIs ==
  ASSUME NEW S, NEW m \in S, S \subseteq Int, \A y \in S : m <= y
  PROVE  Min(S) = m
<1>1. \E x \in S : \A y \in S : x <= y
  OBVIOUS
<1>2. Min(S) \in S /\ \A y \in S : Min(S) <= y
  BY <1>1 DEF Min
<1>3. Min(S) <= m /\ m <= Min(S) /\ Min(S) \in Int /\ m \in Int
  BY <1>2
<1> HIDE DEF Min
<1> QED
  BY <1>3

\* The credit of no discrepancy, and of one.
LEMMA CreditNone == ASSUME NEW ks PROVE CreditOf({}, ks) = 0
<1>1. {x \in {} : x.kind \in ks} = {}
  OBVIOUS
<1> QED
  BY <1>1, SumEmpty DEF CreditOf

LEMMA CreditOne ==
  ASSUME NEW x, x.credit \in Int, NEW ks, x.kind \in ks
  PROVE  CreditOf({x}, ks) = x.credit
<1> DEFINE f == [y \in {x} |-> y.credit]
<1>1. {y \in {x} : y.kind \in ks} = {x}
  OBVIOUS
<1>2. f[x] = x.credit
  OBVIOUS
<1>3. CreditOf({x}, ks) = SumFunctionOnSet(f, {x})
  BY <1>1 DEF CreditOf
<1> HIDE DEF f
<1> QED
  BY <1>2, <1>3, SumOne

\* Finitely many discrepancies, none of them in the seller's favour.
Costed(S) == IsFiniteSet(S) /\ \A x \in S : x.credit \in Nat

\* To credit more kinds of discrepancy is to credit no less.
LEMMA CreditWithin ==
  ASSUME NEW S, Costed(S), NEW ks, NEW ls, ks \subseteq ls
  PROVE  CreditOf(S, ks) \in Nat /\ CreditOf(S, ks) <= CreditOf(S, ls)
<1> DEFINE f == [y \in S |-> y.credit]
           T == {y \in S : y.kind \in ks}
           U == {y \in S : y.kind \in ls}
<1>1. T \in SUBSET U /\ U \in SUBSET S
  OBVIOUS
<1>2. \A y \in U : f[y] \in Nat
  BY DEF Costed
<1>3. IsFiniteSet(U)
  BY <1>1, FS_Subset DEF Costed
<1>4. CreditOf(S, ks) = SumFunctionOnSet(f, T) /\ CreditOf(S, ls) = SumFunctionOnSet(f, U)
  BY DEF CreditOf
<1> HIDE DEF f, T, U
<1> QED
  BY <1>1, <1>2, <1>3, <1>4, SumWithin

\* Of discrepancies that are not the same the credits add up.
LEMMA CreditJoin ==
  ASSUME NEW S, NEW T, Costed(S), Costed(T), S \cap T = {}, NEW ks
  PROVE  CreditOf(S \cup T, ks) = CreditOf(S, ks) + CreditOf(T, ks) /\ Costed(S \cup T)
<1> DEFINE f == [y \in S |-> y.credit]
           g == [y \in T |-> y.credit]
           h == [y \in S \cup T |-> y.credit]
           A == {y \in S : y.kind \in ks}
           B == {y \in T : y.kind \in ks}
<1>1. {y \in S \cup T : y.kind \in ks} = A \cup B
  OBVIOUS
<1>2. A \in SUBSET S /\ B \in SUBSET T /\ A \cap B = {}
  OBVIOUS
<1>3. IsFiniteSet(A) /\ IsFiniteSet(B)
  BY <1>2, FS_Subset DEF Costed
<1>4. (\A y \in A : f[y] = h[y] /\ f[y] \in Int) /\ (\A y \in B : g[y] = h[y] /\ g[y] \in Int)
  BY DEF Costed
<1>5. /\ CreditOf(S \cup T, ks) = SumFunctionOnSet(h, A \cup B)
      /\ CreditOf(S, ks) = SumFunctionOnSet(f, A) /\ CreditOf(T, ks) = SumFunctionOnSet(g, B)
  BY <1>1 DEF CreditOf
<1>6. Costed(S \cup T)
  BY FS_Union DEF Costed
<1> HIDE DEF f, g, h, A, B
<1>7. \A y \in A \cup B : h[y] \in Int
  BY <1>4
<1>8. SumFunctionOnSet(h, A \cup B) = SumFunctionOnSet(h, A) + SumFunctionOnSet(h, B)
  BY <1>2, <1>3, <1>7, SumUnion
<1>9. SumFunctionOnSet(f, A) = SumFunctionOnSet(h, A) /\ SumFunctionOnSet(g, B) = SumFunctionOnSet(h, B)
  BY <1>3, <1>4, SumAgree
<1> QED
  BY <1>5, <1>6, <1>8, <1>9

\* S is the discrepancy of one of these kinds worth v, or none and worth nothing.
Part(S, kinds, v) ==
  \/ S = {} /\ v = 0
  \/ \E x \in S : S = {x} /\ x.kind \in kinds /\ x.credit = v

\* What such a set is credited.
LEMMA PartIs ==
  ASSUME NEW S, NEW kinds, NEW v \in Nat, Part(S, kinds, v), kinds \subseteq Kinds
  PROVE  Costed(S) /\ CreditOf(S, Kinds) = v /\ \A x \in S : x.kind \in kinds
<1>1. CASE S = {} /\ v = 0
  BY <1>1, CreditNone, FS_EmptySet DEF Costed
<1>2. CASE \E x \in S : S = {x} /\ x.kind \in kinds /\ x.credit = v
  <2>1. PICK x \in S : S = {x} /\ x.kind \in kinds /\ x.credit = v
    BY <1>2
  <2>2. IsFiniteSet(S)
    BY <2>1, FS_Singleton
  <2>3. CreditOf({x}, Kinds) = x.credit
    BY <2>1, CreditOne
  <2> QED
    BY <2>1, <2>2, <2>3 DEF Costed
<1> QED
  BY <1>1, <1>2 DEF Part

\* What a document says about a line: R the price it should have, O what is
\* on order, D what was delivered; each may be nobody's to say.
Upto(S, T) == S = {} \/ \E x \in T : S = {x}
Says(d, line, O, D) ==
  /\ line.freight = FALSE /\ line.qty \in Nat /\ line.price \in Nat \ {0}
  /\ Upto(RefPrice(d, line.sku), Nat \ {0})
  /\ Upto(O, Nat) /\ (O = {} => OnOrder(d, line) = line.qty) /\ (O # {} => O = {OnOrder(d, line)})
  /\ O # {} => RefPrice(d, line.sku) # {}
  /\ Upto(D, Nat)
  /\ D = {d.delivered[s] : s \in DOMAIN d.delivered \cap {line.sku}}
  /\ D = {d.delivered[s] : s \in DOMAIN d.delivered}
  /\ O = {d.po.lines[s].qty : s \in DOMAIN d.po.lines}

\* What PriceAbove says of a line.
PriceKinds == {"PRICE_ABOVE_PO", "PRICE_ABOVE_CONTRACT"}

\* The least price, what may be billed, what was received of it.
LEMMA BestPrice ==
  ASSUME NEW d, NEW line, NEW O, NEW D, Says(d, line, O, D),
         NEW P, P = PriceForCredit(d, line)
  PROVE  /\ P \in Nat /\ P <= line.price /\ P = Min({line.price} \cup RefPrice(d, line.sku))
         /\ Part(PriceAbove(d, line), PriceKinds, (line.price - P) * line.qty)
<1> DEFINE R == RefPrice(d, line.sku)
           p == line.price
           S == {p} \cup R
           kind == IF line.sku \in DOMAIN d.po.lines THEN "PRICE_ABOVE_PO" ELSE "PRICE_ABOVE_CONTRACT"
<1>1. p \in Nat /\ line.qty \in Nat /\ (R = {} \/ \E x \in Nat \ {0} : R = {x})
  BY DEF Says, Upto
<1>2. {x \in R : x # 0} = R
  BY <1>1
<1>3. P = Min(S)
  BY <1>2 DEF PriceForCredit
<1>4. kind \in PriceKinds
  BY DEF PriceKinds
<1>5. PriceAbove(d, line) = {[kind |-> kind, credit |-> (p - x) * line.qty] : x \in {y \in R : p > y}}
  BY DEF PriceAbove
<1> HIDE DEF R, kind, p
<1>6. ASSUME R = {}
      PROVE  P \in Nat /\ P <= p /\ Part(PriceAbove(d, line), PriceKinds, (p - P) * line.qty)
  <2>1. P = p
    <3>1. p \in S /\ S \subseteq Int /\ \A y \in S : p <= y
      BY <1>1, <1>6
    <3> HIDE DEF S
    <3> QED
      BY <1>3, <3>1, MinIs
  <2>2. PriceAbove(d, line) = {}
    BY <1>5, <1>6
  <2>3. (p - P) * line.qty = 0
    BY <1>1, <2>1
  <2> QED
    <3>1. P \in Nat /\ P <= p
      BY <1>1, <2>1
    <3>2. Part(PriceAbove(d, line), PriceKinds, (p - P) * line.qty)
      BY <2>2, <2>3 DEF Part
    <3> QED
      BY <3>1, <3>2
<1>7. ASSUME \E x \in Nat \ {0} : R = {x}
      PROVE  P \in Nat /\ P <= p /\ Part(PriceAbove(d, line), PriceKinds, (p - P) * line.qty)
  <2>1. PICK x \in Nat \ {0} : R = {x}
    BY <1>7
  <2>2. CASE p > x
    <3>1. P = x
      <4>1. x \in S /\ S \subseteq Int /\ \A y \in S : x <= y
        BY <1>1, <2>1, <2>2
      <4> HIDE DEF S
      <4> QED
        BY <1>3, <4>1, MinIs
    <3> DEFINE r == [kind |-> kind, credit |-> (p - P) * line.qty]
    <3>2. PriceAbove(d, line) = {r}
      <4>1. {y \in R : p > y} = {x}
        BY <2>1, <2>2
      <4> QED
        BY <1>5, <3>1, <4>1
    <3>3. r.kind \in PriceKinds /\ r.credit = (p - P) * line.qty
      BY <1>4
    <3> HIDE DEF r
    <3>4. P \in Nat /\ P <= p
      BY <1>1, <2>2, <3>1
    <3>5. Part(PriceAbove(d, line), PriceKinds, (p - P) * line.qty)
      BY <3>2, <3>3 DEF Part
    <3> QED
      BY <3>4, <3>5
  <2>3. CASE ~(p > x)
    <3>1. P = p
      <4>1. p \in S /\ S \subseteq Int /\ \A y \in S : p <= y
        BY <1>1, <2>1, <2>3
      <4> HIDE DEF S
      <4> QED
        BY <1>3, <4>1, MinIs
    <3>2. PriceAbove(d, line) = {}
      BY <1>5, <2>1, <2>3
    <3>3. (p - P) * line.qty = 0
      BY <1>1, <3>1
    <3>4. P \in Nat /\ P <= p
      BY <1>1, <3>1
    <3>5. Part(PriceAbove(d, line), PriceKinds, (p - P) * line.qty)
      BY <3>2, <3>3 DEF Part
    <3> QED
      BY <3>4, <3>5
  <2> QED
    BY <2>2, <2>3
<1>8. P \in Nat /\ P <= p /\ Part(PriceAbove(d, line), PriceKinds, (p - P) * line.qty)
  BY <1>1, <1>6, <1>7
<1> QED
  BY <1>3, <1>8 DEF p, R

\* What is billed beyond the order.
LEMMA OverOrder ==
  ASSUME NEW d, NEW line, NEW O, NEW D, Says(d, line, O, D),
         NEW P, P = PriceForCredit(d, line), P \in Nat, NEW b, b = BillableQty(d, line)
  PROVE  /\ b \in Nat /\ b <= line.qty /\ b = Min({line.qty} \cup O)
         /\ Part(QtyAbovePo(d, line), {"QTY_ABOVE_PO"}, (line.qty - b) * P)
<1> DEFINE q == line.qty
           o == OnOrder(d, line)
           S == {q} \cup O
<1>1. q \in Nat /\ o \in Nat /\ ((O = {} /\ o = q) \/ O = {o})
  <2>1. q \in Nat /\ (O = {} \/ \E x \in Nat : O = {x}) /\ (O = {} => o = q) /\ (O # {} => O = {o})
    BY DEF Says, Upto
  <2> HIDE DEF o, q
  <2> QED
    BY <2>1
<1>2. b = IF q <= o THEN q ELSE o
  BY DEF BillableQty, Least
<1>3. QtyAbovePo(d, line) = {[kind |-> "QTY_ABOVE_PO", credit |-> x * P] : x \in {q - o} \cap (Nat \ {0})}
  BY DEF QtyAbovePo
<1> HIDE DEF q, o
<1>4. b \in Nat /\ b <= q
  BY <1>1, <1>2
<1>5. b = Min(S)
  <2>1. b \in S /\ S \subseteq Int /\ \A y \in S : b <= y
    BY <1>1, <1>2
  <2> HIDE DEF S
  <2> QED
    BY <2>1, MinIs
<1>6. Part(QtyAbovePo(d, line), {"QTY_ABOVE_PO"}, (q - b) * P)
  <2>1. CASE q <= o
    <3>1. {q - o} \cap (Nat \ {0}) = {}
      BY <1>1, <2>1
    <3>2. QtyAbovePo(d, line) = {}
      BY <1>3, <3>1
    <3>3. (q - b) * P = 0
      BY <1>1, <1>2, <2>1
    <3> QED
      BY <3>2, <3>3 DEF Part
  <2>2. CASE ~(q <= o)
    <3> DEFINE r == [kind |-> "QTY_ABOVE_PO", credit |-> (q - b) * P]
    <3>1. {q - o} \cap (Nat \ {0}) = {q - b}
      BY <1>1, <1>2, <2>2
    <3>2. QtyAbovePo(d, line) = {r}
      BY <1>3, <3>1
    <3>3. r.kind \in {"QTY_ABOVE_PO"} /\ r.credit = (q - b) * P
      OBVIOUS
    <3> HIDE DEF r
    <3> QED
      BY <3>2, <3>3 DEF Part
  <2> QED
    BY <2>1, <2>2
<1> QED
  BY <1>4, <1>5, <1>6 DEF q

\* What was not delivered of what may be billed.
LEMMA ShortOf ==
  ASSUME NEW d, NEW line, NEW O, NEW D, Says(d, line, O, D),
         NEW P, P = PriceForCredit(d, line), P \in Nat, NEW b, b = BillableQty(d, line), b \in Nat,
         NEW g, g = Min({b} \cup D)
  PROVE  /\ g \in Nat /\ g <= b /\ \A y \in D : g <= y
         /\ g \in {b} \cup D
         /\ Part(QtyShort(d, line), {"QTY_SHORT_DELIVERED"}, (b - g) * P)
<1> DEFINE S == {b} \cup D
<1>1. D = {} \/ \E x \in Nat : D = {x}
  BY DEF Says, Upto
<1>2. QtyShort(d, line) =
        {[kind |-> "QTY_SHORT_DELIVERED", credit |-> x * P] : x \in {b - y : y \in D} \cap (Nat \ {0})}
  <2>1. D = {d.delivered[s] : s \in DOMAIN d.delivered \cap {line.sku}}
    BY DEF Says
  <2> QED
    BY <2>1 DEF QtyShort
<1>3. CASE D = {}
  <2>1. g = b
    <3>1. b \in S /\ S \subseteq Int /\ \A y \in S : b <= y
      BY <1>3
    <3> HIDE DEF S
    <3> QED
      BY <3>1, MinIs DEF S
  <2>2. QtyShort(d, line) = {} /\ (b - g) * P = 0
    <3>1. {b - y : y \in D} \cap (Nat \ {0}) = {}
      BY <1>3
    <3>2. (b - g) * P = 0
      BY <2>1
    <3> QED
      BY <1>2, <3>1, <3>2
  <2>3. g \in Nat /\ g <= b /\ g \in {b} \cup D /\ \A y \in D : g <= y
    BY <1>3, <2>1
  <2>4. Part(QtyShort(d, line), {"QTY_SHORT_DELIVERED"}, (b - g) * P)
    BY <2>2 DEF Part
  <2> QED
    BY <2>3, <2>4
<1>4. CASE \E x \in Nat : D = {x}
  <2>1. PICK x \in Nat : D = {x}
    BY <1>4
  <2>2. CASE b <= x
    <3>1. g = b
      <4>1. b \in S /\ S \subseteq Int /\ \A y \in S : b <= y
        BY <2>1, <2>2
      <4> HIDE DEF S
      <4> QED
        BY <4>1, MinIs DEF S
    <3>2. {b - y : y \in D} \cap (Nat \ {0}) = {}
      BY <2>1, <2>2
    <3>3. QtyShort(d, line) = {}
      BY <1>2, <3>2
    <3>4. (b - g) * P = 0
      BY <3>1
    <3>5. g \in Nat /\ g <= b /\ g \in {b} \cup D /\ \A y \in D : g <= y
      <4>1. g \in Nat /\ g <= b /\ g \in {b} \cup D
        BY <3>1
      <4>2. ASSUME NEW y \in D PROVE g <= y
        <5>1. y = x
          BY <2>1
        <5> QED
          BY <2>2, <3>1, <5>1
      <4> QED
        BY <4>1, <4>2
    <3>6. Part(QtyShort(d, line), {"QTY_SHORT_DELIVERED"}, (b - g) * P)
      BY <3>3, <3>4 DEF Part
    <3> QED
      BY <3>5, <3>6
  <2>3. CASE ~(b <= x)
    <3>1. g = x
      <4>1. x \in S /\ S \subseteq Int /\ \A y \in S : x <= y
        BY <2>1, <2>3
      <4> HIDE DEF S
      <4> QED
        BY <4>1, MinIs DEF S
    <3> DEFINE r == [kind |-> "QTY_SHORT_DELIVERED", credit |-> (b - g) * P]
    <3>2. {b - y : y \in D} \cap (Nat \ {0}) = {b - g}
      BY <2>1, <2>3, <3>1
    <3>3. QtyShort(d, line) = {r}
      BY <1>2, <3>2
    <3>4. r.kind \in {"QTY_SHORT_DELIVERED"} /\ r.credit = (b - g) * P
      OBVIOUS
    <3> HIDE DEF r
    <3>5. Part(QtyShort(d, line), {"QTY_SHORT_DELIVERED"}, (b - g) * P)
      BY <3>3, <3>4 DEF Part
    <3>6. g \in Nat /\ g <= b /\ \A y \in D : g <= y
      <4>1. g \in Nat /\ g <= b
        BY <2>3, <3>1
      <4>2. ASSUME NEW y \in D PROVE g <= y
        <5>1. y = g
          BY <2>1, <3>1
        <5> QED
          BY <4>1, <5>1
      <4> QED
        BY <4>1, <4>2
    <3>7. g \in {b} \cup D
      BY <2>1, <3>1
    <3> QED
      BY <3>5, <3>6, <3>7
  <2> QED
    BY <2>2, <2>3
<1> QED
  BY <1>1, <1>3, <1>4

\* Beyond the best price, beyond the order, beyond the delivery: the three do
\* not overlap, and leave out only what is owed.
LEMMA ThreeParts ==
  ASSUME NEW p \in Nat, NEW P \in Nat, NEW q \in Nat, NEW b \in Nat, NEW g \in Nat
  PROVE  (p - P) * q + ((q - b) * P + (b - g) * P) = q * p - P * g
<1>1. (p - P) * q = q * p - q * P
  OBVIOUS
<1>2. (q - b) * P = q * P - b * P
  OBVIOUS
<1>3. (b - g) * P = b * P - P * g
  OBVIOUS
<1>4. q * p \in Int /\ q * P \in Int /\ b * P \in Int /\ P * g \in Int
  OBVIOUS
<1> QED
  BY <1>1, <1>2, <1>3, <1>4

\* A difference that is not negative, times what is not.
LEMMA ProductNat ==
  ASSUME NEW a \in Nat, NEW b \in Nat, a <= b, NEW c \in Nat PROVE (b - a) * c \in Nat
<1> DEFINE e == b - a
<1>1. e \in Nat
  OBVIOUS
<1> HIDE DEF e
<1>2. e * c \in Nat
  BY <1>1
<1> QED
  BY <1>2 DEF e

\* A line is credited with what it bills beyond what is owed, whoever speaks of it.
LEMMA Overbilled ==
  ASSUME NEW d, NEW line, NEW O, NEW D, Says(d, line, O, D)
  PROVE  /\ Costed(LineDiscrepancies(d, line))
         /\ CreditOf(LineDiscrepancies(d, line), Kinds) = line.qty * line.price - Owed(d, line)
<1>1. line.qty \in Nat /\ line.price \in Nat /\ line.freight = FALSE
  BY DEF Says
<1>2. ASSUME OffPo(d, line)
      PROVE  /\ Costed(LineDiscrepancies(d, line))
             /\ CreditOf(LineDiscrepancies(d, line), Kinds) = line.qty * line.price - Owed(d, line)
  <2> DEFINE r == [kind |-> "LINE_NOT_ON_PO", credit |-> line.qty * line.price]
             v == line.qty * line.price
  <2>1. LineDiscrepancies(d, line) = {r}
    BY <1>1, <1>2 DEF LineDiscrepancies
  <2>2. r.kind \in {"LINE_NOT_ON_PO"} /\ r.credit = v
    OBVIOUS
  <2>3. v \in Nat
    BY <1>1
  <2>4. Owed(d, line) = 0
    BY <1>2 DEF Owed
  <2> HIDE DEF r, v
  <2>5. Part({r}, {"LINE_NOT_ON_PO"}, v)
    BY <2>2 DEF Part
  <2>6. {"LINE_NOT_ON_PO"} \subseteq Kinds
    BY DEF Kinds
  <2>7. Costed({r}) /\ CreditOf({r}, Kinds) = v
    BY <2>3, <2>5, <2>6, PartIs
  <2>8. v - 0 = v
    BY <2>3
  <2> QED
    BY <2>1, <2>4, <2>7, <2>8 DEF v
<1>3. ASSUME ~OffPo(d, line)
      PROVE  /\ Costed(LineDiscrepancies(d, line))
             /\ CreditOf(LineDiscrepancies(d, line), Kinds) = line.qty * line.price - Owed(d, line)
  <2> DEFINE p == line.price
             q == line.qty
             P == PriceForCredit(d, line)
             b == BillableQty(d, line)
             g == Min({b} \cup D)
             A == PriceAbove(d, line)
             B == QtyAbovePo(d, line)
             C == QtyShort(d, line)
  <2>0. P = PriceForCredit(d, line) /\ b = BillableQty(d, line) /\ g = Min({b} \cup D)
    OBVIOUS
  <2> HIDE DEF P, b, g
  <2>1. P \in Nat /\ P <= p /\ P = Min({p} \cup RefPrice(d, line.sku)) /\ Part(A, PriceKinds, (p - P) * q)
    BY <2>0, BestPrice
  <2>a. P \in Nat
    BY <2>1
  <2>2. b \in Nat /\ b <= q /\ b = Min({q} \cup O) /\ Part(B, {"QTY_ABOVE_PO"}, (q - b) * P)
    BY <2>0, <2>a, OverOrder
  <2>b. b \in Nat
    BY <2>2
  <2>3. /\ g \in Nat /\ g <= b /\ \A y \in D : g <= y
        /\ g \in {b} \cup D /\ Part(C, {"QTY_SHORT_DELIVERED"}, (b - g) * P)
    BY <2>0, <2>a, <2>b, ShortOf
  <2>4. Owed(d, line) = P * Min({q} \cup (O \cup D))
    BY <1>3, <2>1 DEF Owed, Says
  <2>5. LineDiscrepancies(d, line) = A \cup (B \cup C)
    BY <1>1, <1>3 DEF LineDiscrepancies
  <2>6. p \in Nat /\ q \in Nat
    BY <1>1
  <2>7. O = {} \/ \E x \in Nat : O = {x}
    BY DEF Says, Upto
  <2>8. D = {} \/ \E x \in Nat : D = {x}
    BY DEF Says, Upto
  <2> HIDE DEF A, B, C, p, q
  <2>9. g = Min({q} \cup (O \cup D))
    <3> DEFINE S == {q} \cup (O \cup D)
               T == {q} \cup O
    <3>1. T \subseteq Int
      BY <2>6, <2>7
    <3>2. D \subseteq Int
      BY <2>8
    <3>3. b \in T /\ \A y \in T : b <= y
      <4>1. \E x \in T : \A y \in T : x <= y
        <5>1. CASE O = {}
          <6>1. \A y \in T : q <= y
            BY <2>6, <5>1
          <6> QED
            BY <6>1
        <5>2. CASE \E x \in Nat : O = {x}
          <6>1. PICK x \in Nat : O = {x}
            BY <5>2
          <6>2. CASE x <= q
            <7>1. \A y \in T : x <= y
              BY <2>6, <6>1, <6>2
            <7> QED
              BY <6>1, <7>1
          <6>3. CASE q <= x
            <7>1. \A y \in T : q <= y
              BY <2>6, <6>1, <6>3
            <7> QED
              BY <7>1
          <6> QED
            BY <2>6, <6>2, <6>3
        <5> QED
          BY <2>7, <5>1, <5>2
      <4> HIDE DEF T
      <4>2. Min(T) \in T /\ \A y \in T : Min(T) <= y
        BY <4>1 DEF Min
      <4>3. b = Min(T)
        BY <2>2 DEF T
      <4> QED
        BY <4>2, <4>3
    <3>4. g \in S
      BY <2>3, <3>3
    <3>5. ASSUME NEW y \in S PROVE g <= y
      <4>1. CASE y \in T
        <5>1. b <= y /\ y \in Int
          BY <3>1, <3>3, <4>1
        <5> QED
          BY <2>2, <2>3, <5>1
      <4>2. CASE y \in D
        BY <2>3, <4>2
      <4> QED
        BY <4>1, <4>2
    <3>6. S \subseteq Int
      BY <3>1, <3>2
    <3> HIDE DEF S
    <3>7. Min(S) = g
      BY <3>4, <3>5, <3>6, MinIs
    <3> QED
      BY <3>7 DEF S
  <2> DEFINE va == (p - P) * q
             vb == (q - b) * P
             vc == (b - g) * P
  <2>10. va \in Nat /\ vb \in Nat /\ vc \in Nat
    BY <2>1, <2>2, <2>3, <2>6, ProductNat
  <2>11. va + (vb + vc) = q * p - P * g
    BY <2>1, <2>2, <2>3, <2>6, ThreeParts
  <2>12. Part(A, PriceKinds, va) /\ Part(B, {"QTY_ABOVE_PO"}, vb) /\ Part(C, {"QTY_SHORT_DELIVERED"}, vc)
    BY <2>1, <2>2, <2>3
  <2> HIDE DEF va, vb, vc, A, B, C
  <2>13. PriceKinds \subseteq Kinds /\ {"QTY_ABOVE_PO"} \subseteq Kinds /\ {"QTY_SHORT_DELIVERED"} \subseteq Kinds
    BY DEF PriceKinds, Kinds
  <2>14. Costed(A) /\ CreditOf(A, Kinds) = va /\ \A x \in A : x.kind \in PriceKinds
    BY <2>10, <2>12, <2>13, PartIs
  <2>15. Costed(B) /\ CreditOf(B, Kinds) = vb /\ \A x \in B : x.kind \in {"QTY_ABOVE_PO"}
    BY <2>10, <2>12, <2>13, PartIs
  <2>16. Costed(C) /\ CreditOf(C, Kinds) = vc /\ \A x \in C : x.kind \in {"QTY_SHORT_DELIVERED"}
    BY <2>10, <2>12, <2>13, PartIs
  <2>17. B \cap C = {} /\ A \cap (B \cup C) = {}
    BY <2>14, <2>15, <2>16 DEF PriceKinds
  <2>18. CreditOf(B \cup C, Kinds) = vb + vc /\ Costed(B \cup C)
    BY <2>15, <2>16, <2>17, CreditJoin
  <2>19. CreditOf(A \cup (B \cup C), Kinds) = va + (vb + vc) /\ Costed(A \cup (B \cup C))
    <3> DEFINE R == B \cup C
    <3>1. Costed(R) /\ CreditOf(R, Kinds) = vb + vc /\ A \cap R = {}
      BY <2>17, <2>18
    <3> HIDE DEF R
    <3>2. CreditOf(A \cup R, Kinds) = CreditOf(A, Kinds) + CreditOf(R, Kinds) /\ Costed(A \cup R)
      BY <2>14, <3>1, CreditJoin
    <3>3. CreditOf(A \cup R, Kinds) = va + (vb + vc)
      BY <2>14, <3>1, <3>2
    <3> QED
      BY <3>2, <3>3 DEF R
  <2>20. CreditOf(A \cup (B \cup C), Kinds) = q * p - Owed(d, line)
    BY <2>4, <2>9, <2>11, <2>19
  <2> QED
    BY <2>5, <2>19, <2>20 DEF p, q
<1> QED
  BY <1>2, <1>3

\* Every document that is asked about says that much.
LEMMA Documented ==
  ASSUME NEW line \in Line, NEW po \in Po, NEW delivered \in Delivery, NEW contract \in Contract, NEW tax,
         NEW d, d = Document(line, po, delivered, contract, 2, tax)
  PROVE  \E O, D : Says(d, line, O, D)
<1> DEFINE O == {d.po.lines[s].qty : s \in DOMAIN d.po.lines}
           D == {d.delivered[s] : s \in DOMAIN d.delivered}
           R == RefPrice(d, line.sku)
<1>1. d.po = po /\ d.delivered = delivered /\ d.contract = contract
  BY DEF Document
<1>2. line.sku = "a" /\ line.freight = FALSE /\ line.qty \in Nat /\ line.price \in Nat \ {0}
  <2>1. line.sku \in {"a"} /\ line.qty \in 1 .. MaxQty /\ line.price \in 1 .. MaxPrice /\ line.freight \in {FALSE}
    BY DEF Line, Prices
  <2>2. line.qty \in Nat /\ line.price \in Nat \ {0}
    BY <2>1, AmountsAssumption
  <2> QED
    BY <2>1, <2>2
<1>3. DOMAIN <<>> = {}
  OBVIOUS
<1>4. D = {d.delivered[s] : s \in DOMAIN d.delivered \cap {line.sku}} /\ Upto(D, Nat)
  <2>1. CASE delivered = <<>>
    BY <1>1, <1>3, <2>1 DEF Upto
  <2>2. CASE delivered \in [{"a"} -> 0 .. MaxQty]
    <3>1. DOMAIN delivered = {"a"} /\ delivered["a"] \in Nat
      BY <2>2, AmountsAssumption
    <3>2. D = {delivered["a"]} /\ {d.delivered[s] : s \in DOMAIN d.delivered \cap {line.sku}} = {delivered["a"]}
      BY <1>1, <1>2, <3>1
    <3> HIDE DEF D
    <3> QED
      BY <3>1, <3>2 DEF Upto
  <2> QED
    BY <2>1, <2>2 DEF Delivery
<1>5. Upto({contract.prices[s] : s \in DOMAIN contract.prices \cap {"a"}}, Nat \ {0})
  <2>1. CASE contract.prices = <<>>
    BY <1>3, <2>1 DEF Upto
  <2>2. CASE contract.prices \in [{"a"} -> Prices]
    <3>1. DOMAIN contract.prices = {"a"} /\ contract.prices["a"] \in Nat \ {0}
      BY <2>2, AmountsAssumption DEF Prices
    <3>2. {contract.prices[s] : s \in DOMAIN contract.prices \cap {"a"}} = {contract.prices["a"]}
      BY <3>1
    <3> QED
      BY <3>1, <3>2 DEF Upto
  <2>3. contract.prices \in {<<>>} \cup [{"a"} -> Prices]
    <3>1. CASE contract \in [found : {TRUE}, prices : {<<>>} \cup [{"a"} -> Prices], freight_billable : BOOLEAN]
      BY <3>1
    <3>2. CASE contract = [found |-> FALSE, prices |-> <<>>, freight_billable |-> TRUE]
      BY <3>2
    <3> QED
      BY <3>1, <3>2 DEF Contract
  <2> QED
    BY <2>1, <2>2, <2>3
<1>6. CASE po.lines = <<>>
  <2>1. O = {}
    BY <1>1, <1>3, <1>6
  <2>2. OnOrder(d, line) = line.qty
    BY <1>1, <1>3, <1>6 DEF OnOrder
  <2>3. R = {contract.prices[s] : s \in DOMAIN contract.prices \cap {"a"}}
    <3>1. R = IF "a" \in DOMAIN contract.prices THEN {contract.prices["a"]} ELSE {}
      BY <1>1, <1>2, <1>3, <1>6 DEF RefPrice
    <3> HIDE DEF R
    <3> QED
      BY <3>1
  <2>4. Upto(R, Nat \ {0})
    BY <1>5, <2>3
  <2>5. Upto(O, Nat)
    BY <2>1 DEF Upto
  <2> HIDE DEF O, D
  <2>6. Says(d, line, O, D)
    BY <1>2, <1>4, <2>1, <2>2, <2>4, <2>5 DEF Says, O, D
  <2> QED
    BY <2>6
<1>7. CASE po.lines \in [{"a"} -> [qty : 0 .. MaxQty, price : Prices]]
  <2>1. DOMAIN po.lines = {"a"} /\ po.lines["a"].qty \in Nat /\ po.lines["a"].price \in Nat \ {0}
    BY <1>7, AmountsAssumption DEF Prices
  <2>2. O = {po.lines["a"].qty}
    BY <1>1, <2>1
  <2>3. OnOrder(d, line) = po.lines["a"].qty
    BY <1>1, <1>2, <2>1 DEF OnOrder
  <2>4. R = {po.lines["a"].price}
    BY <1>1, <1>2, <2>1 DEF RefPrice
  <2>5. Upto(R, Nat \ {0}) /\ R # {}
    BY <2>1, <2>4 DEF Upto
  <2>6. Upto(O, Nat) /\ O = {OnOrder(d, line)}
    BY <2>1, <2>2, <2>3 DEF Upto
  <2> HIDE DEF O, D
  <2>7. Says(d, line, O, D)
    BY <1>2, <1>4, <2>5, <2>6 DEF Says, O, D
  <2> QED
    BY <2>7
<1>8. po.lines = <<>> \/ po.lines \in [{"a"} -> [qty : 0 .. MaxQty, price : Prices]]
  <2>1. CASE po \in [found : {TRUE}, ours : {TRUE}, lines : [{"a"} -> [qty : 0 .. MaxQty, price : Prices]]]
    BY <2>1
  <2>2. CASE po = [found |-> FALSE, ours |-> FALSE, lines |-> <<>>] \/ po = [found |-> TRUE, ours |-> TRUE, lines |-> <<>>]
    BY <2>2
  <2> QED
    BY <2>1, <2>2 DEF Po
<1> QED
  BY <1>6, <1>7, <1>8

-----------------------------------------------------------------------------
(* What an invoice is credited                                              *)

\* What is rounded up keeps its order, and whole units do not change how.
LEMMA RoundsUpInOrder ==
  ASSUME NEW x \in Int, NEW y \in Int, x <= y
  PROVE  RoundHalfUp(x, 10000) <= RoundHalfUp(y, 10000)
<1> DEFINE h == RoundHalfUp(x, 10000)
           k == RoundHalfUp(y, 10000)
<1>1. h \in Int /\ 2 * (10000 * h) <= 2 * x + 10000
  BY HalfUpIs
<1>2. k \in Int /\ 2 * y + 10000 < 2 * (10000 * k) + 2 * 10000
  BY HalfUpIs
<1> HIDE DEF h, k
<1>3. h <= k
  BY <1>1, <1>2
<1> QED
  BY <1>3 DEF h, k

\* So the tax is rounded by itself or with what it is on.
LEMMA WholeUnits ==
  ASSUME NEW n \in Int, NEW y \in Int
  PROVE  RoundHalfUp(10000 * n + y, 10000) = n + RoundHalfUp(y, 10000)
<1> DEFINE x == 10000 * n + y
           h == RoundHalfUp(x, 10000)
           k == RoundHalfUp(y, 10000)
<1>0. x \in Int /\ x = 10000 * n + y
  OBVIOUS
<1> HIDE DEF x
<1>1. h \in Int /\ 2 * (10000 * h) <= 2 * x + 10000 /\ 2 * x + 10000 < 2 * (10000 * h) + 2 * 10000
  BY <1>0, HalfUpIs
<1>2. k \in Int /\ 2 * (10000 * k) <= 2 * y + 10000 /\ 2 * y + 10000 < 2 * (10000 * k) + 2 * 10000
  BY HalfUpIs
<1> HIDE DEF h, k
<1>3. h = n + k
  BY <1>0, <1>1, <1>2
<1> QED
  BY <1>3 DEF h, k, x

\* A rate is not negative.
LEMMA RateIs ==
  ASSUME NEW d, d.tax \in Nat, d.subtotal \in Nat
  PROVE  TaxRate(d) \in Nat
<1> DEFINE m == d.subtotal
           n == 10000 * d.tax
           t == RoundHalfEven(n, m)
<1>1. CASE m = 0
  BY <1>1 DEF TaxRate
<1>2. CASE m # 0
  <2>1. m \in Nat /\ m > 0 /\ n \in Nat
    BY <1>2
  <2>2. TaxRate(d) = t
    BY <1>2 DEF TaxRate
  <2> HIDE DEF m, n
  <2>3. t \in Int /\ 2 * n - m <= 2 * (m * t)
    BY <2>1, HalfEvenIs
  <2> HIDE DEF t
  <2>4. m * (0 - 1) = 0 - m /\ m * t \in Int
    BY <2>1, <2>3
  <2>5. m * (0 - 1) < m * t
    BY <2>1, <2>3, <2>4
  <2>6. 0 - 1 < t
    BY <2>1, <2>3, <2>5, Cancel
  <2> QED
    BY <2>2, <2>3, <2>6
<1> QED
  BY <1>1, <1>2

\* An invoice of one line is credited what the line is.
LEMMA OneLine ==
  ASSUME NEW d, NEW line, d.lines = <<line>>, Costed(LineDiscrepancies(d, line)), NEW ks
  PROVE  LineCredit(d, ks) = CreditOf(LineDiscrepancies(d, line), ks)
<1> DEFINE f == [n \in DOMAIN d.lines |-> CreditOf(LineDiscrepancies(d, d.lines[n]), ks)]
           v == CreditOf(LineDiscrepancies(d, line), ks)
<1>1. DOMAIN d.lines = {1} /\ d.lines[1] = line
  OBVIOUS
<1>2. DOMAIN f = {1} /\ f[1] = v
  BY <1>1
<1>3. v \in Int
  BY CreditWithin
<1>4. LineCredit(d, ks) = SumFunctionOnSet(f, DOMAIN f)
  BY DEF LineCredit, SumFunction
<1> HIDE DEF f, v
<1> QED
  BY <1>2, <1>3, <1>4, SumOne DEF v

\* Freight is one discrepancy at most.
LEMMA FreightCosted == ASSUME NEW d, d.freight \in Nat PROVE Costed(FreightDiscrepancies(d))
<1> DEFINE r == [kind |-> "FREIGHT_NOT_BILLABLE", credit |-> d.freight]
<1>1. FreightDiscrepancies(d) = {} \/ FreightDiscrepancies(d) = {r}
  BY DEF FreightDiscrepancies
<1>2. r.credit \in Nat
  OBVIOUS
<1> HIDE DEF r
<1> QED
  BY <1>1, <1>2, FS_EmptySet, FS_Singleton DEF Costed

\* The sums behind both: of the lines before tax, of freight, and the rate.
LEMMA WithinProposed ==
  ASSUME NEW d, NEW open \in Nat \ {0}, NEW ks, ks \subseteq Kinds,
         \A js : js \subseteq Kinds => /\ LineCredit(d, js) \in Nat /\ LineCredit(d, js) <= LineCredit(d, Kinds)
                                       /\ FreightCredit(d, js) \in Nat /\ FreightCredit(d, js) <= FreightCredit(d, Kinds),
         TaxRate(d) \in Nat
  PROVE  /\ calculate_credit_memo(d, open, Kinds) = proposed_credit_memo(d, open)
         /\ calculate_credit_memo(d, open, ks) <= Min({open, proposed_credit_memo(d, open)})
<1> DEFINE whole == LineCredit(d, Kinds)
           F == FreightCredit(d, Kinds)
           some == LineCredit(d, ks)
           f == FreightCredit(d, ks)
           t == TaxRate(d)
           H == RoundHalfUp(whole * t, 10000)
           h == RoundHalfUp(some * t, 10000)
           T == whole + H + F
           w == some + h + f
<1>1. whole \in Nat /\ F \in Nat /\ some \in Nat /\ f \in Nat /\ t \in Nat /\ some <= whole /\ f <= F
  OBVIOUS
<1>2. whole * t \in Int /\ some * t \in Int /\ some * t <= whole * t
  <2> HIDE DEF whole, some, t
  <2>1. t * some <= t * whole
    BY <1>1, Times
  <2>2. t * some = some * t /\ t * whole = whole * t /\ whole * t \in Int /\ some * t \in Int
    BY <1>1
  <2> QED
    BY <2>1, <2>2
<1>3. H \in Int /\ h \in Int /\ h <= H
  BY <1>2, HalfUpIs, RoundsUpInOrder
<1>4. RoundHalfUp(whole * (10000 + t), 10000) = whole + H
  <2>1. RoundHalfUp(10000 * whole + whole * t, 10000) = whole + RoundHalfUp(whole * t, 10000)
    <3> HIDE DEF whole, t
    <3> QED
      BY <1>1, <1>2, WholeUnits
  <2>2. 10000 * whole + whole * t = whole * (10000 + t)
    <3> HIDE DEF whole, t
    <3> QED
      BY <1>1
  <2> QED
    BY <2>1, <2>2
<1>5. proposed_credit_memo(d, open) = Least(T, open)
  BY <1>4 DEF proposed_credit_memo
<1>6. calculate_credit_memo(d, open, Kinds) = Least(T, open) /\ calculate_credit_memo(d, open, ks) = Least(w, open)
  BY DEF calculate_credit_memo
<1> HIDE DEF whole, F, some, f, t, H, h
<1>7. T \in Int /\ w \in Int /\ w <= T
  BY <1>1, <1>3
<1> HIDE DEF T, w
<1> DEFINE p == Least(T, open)
<1>8. Least(w, open) <= p /\ p <= open /\ p \in Int
  BY <1>7 DEF Least
<1> HIDE DEF p
<1>9. Min({open, p}) = p
  <2>1. p \in {open, p} /\ {open, p} \subseteq Int /\ \A y \in {open, p} : p <= y
    BY <1>8
  <2> QED
    BY <2>1, MinIs
<1>10. Least(w, open) <= Min({open, p})
  BY <1>8, <1>9
<1> QED
  BY <1>5, <1>6, <1>10 DEF p

\* A credit that was quoted is what the documents say.
LEMMA CreditsMatch == QuotedCredit => CreditsMatchDocuments
<1> SUFFICES ASSUME QuotedCredit PROVE CreditsMatchDocuments
  OBVIOUS
<1>1. PICK line \in Line, po \in Po, delivered \in Delivery, contract \in Contract, tax \in {0, 1} :
        quote = CreditFor(line, po, delivered, contract, tax)
  BY DEF QuotedCredit
<1> DEFINE d == Document(line, po, delivered, contract, 2, tax)
<1>2. quote.doc = d
  BY <1>1 DEF CreditFor
<1>3. d.lines = <<line>> /\ d.freight \in Nat /\ d.tax \in Nat /\ d.subtotal = line.qty * line.price
  BY DEF Document
<1>4. \E O, D : Says(d, line, O, D)
  BY Documented
<1> HIDE DEF d
<1>5. d.lines[1] = line
  BY <1>3
<1>6. PICK O, D : Says(d, line, O, D)
  BY <1>4
<1>7. /\ Costed(LineDiscrepancies(d, line))
      /\ CreditOf(LineDiscrepancies(d, line), Kinds) = line.qty * line.price - Owed(d, line)
  BY <1>6, Overbilled
<1>8. \A ks : LineCredit(d, ks) = CreditOf(LineDiscrepancies(d, line), ks)
  BY <1>3, <1>7, OneLine
<1>9. TaxRate(d) \in Nat
  <2>1. line.qty \in Nat /\ line.price \in Nat
    BY <1>6 DEF Says
  <2>2. line.qty * line.price \in Nat
    BY <2>1
  <2>3. d.subtotal \in Nat
    BY <1>3, <2>2
  <2> QED
    BY <1>3, <2>3, RateIs
<1>10. ASSUME NEW js, js \subseteq Kinds
       PROVE  /\ LineCredit(d, js) \in Nat /\ LineCredit(d, js) <= LineCredit(d, Kinds)
              /\ FreightCredit(d, js) \in Nat /\ FreightCredit(d, js) <= FreightCredit(d, Kinds)
  <2>1. Costed(FreightDiscrepancies(d))
    BY <1>3, FreightCosted
  <2>2. FreightCredit(d, js) \in Nat /\ FreightCredit(d, js) <= FreightCredit(d, Kinds)
    BY <1>10, <2>1, CreditWithin DEF FreightCredit
  <2>3. LineCredit(d, js) \in Nat /\ LineCredit(d, js) <= LineCredit(d, Kinds)
    BY <1>7, <1>8, <1>10, CreditWithin
  <2> QED
    BY <2>2, <2>3
<1>11. ASSUME NEW open \in 1 .. MaxOpen, NEW k \in Kinds
       PROVE  /\ calculate_credit_memo(d, open, Kinds) = proposed_credit_memo(d, open)
              /\ calculate_credit_memo(d, open, {k}) <= Min({open, proposed_credit_memo(d, open)})
  <2>1. open \in Nat \ {0} /\ {k} \subseteq Kinds
    BY AmountsAssumption
  <2> QED
    BY <1>9, <1>10, <2>1, WithinProposed
<1>12. Kinds # {}
  BY DEF Kinds
<1>13. LineCredit(d, Kinds) = line.qty * line.price - Owed(d, line)
  BY <1>7, <1>8
<1> QED
  BY <1>2, <1>5, <1>11, <1>12, <1>13 DEF CreditsMatchDocuments

\* For every quantity, price, order, delivery and contract: what is credited for
\* a line is what it bills beyond what is owed, and a credit calculated from
\* some of the discrepancies is within the balance and within the proposal.
THEOREM CreditsHold == QuoteSpec => []CreditsMatchDocuments
<1>1. QuoteInv => CreditsMatchDocuments
  <2>1. quote = NoQuote => CreditsMatchDocuments
    BY DEF NoQuote, CreditsMatchDocuments
  <2>2. QuotedPlan => CreditsMatchDocuments
    <3> SUFFICES ASSUME QuotedPlan PROVE quote.of # "credit"
      BY DEF CreditsMatchDocuments
    <3> QED
      BY DEF QuotedPlan, PlanOf
  <2> QED
    BY <2>1, <2>2, CreditsMatch DEF QuoteInv
<1> QED
  BY <1>1, QuoteInvAlways, PTL

-----------------------------------------------------------------------------
(* The ERP's books                                                          *)

\* At most one; and credits that are numbers, of either sign.
Single(S) == \A x, y \in S : x = y
Numbered(S) == IsFiniteSet(S) /\ \A x \in S : x.credit \in Int

\* Their sum is one.
LEMMA CreditIsNumber == ASSUME NEW S, Numbered(S), NEW ks PROVE CreditOf(S, ks) \in Int
<1> DEFINE f == [y \in S |-> y.credit]
           T == {y \in S : y.kind \in ks}
<1>1. T \in SUBSET S /\ \A y \in T : f[y] \in Int
  BY DEF Numbered
<1>2. IsFiniteSet(T)
  BY <1>1, FS_Subset DEF Numbered
<1>3. CreditOf(S, ks) = SumFunctionOnSet(f, T)
  BY DEF CreditOf
<1> HIDE DEF f, T
<1> QED
  BY <1>1, <1>2, <1>3, SumType

\* One at most are finitely many.
LEMMA AtMostOneIsFinite == ASSUME NEW S, Single(S) PROVE IsFiniteSet(S)
<1>1. S = {} \/ \E x \in S : S = {x}
  BY DEF Single
<1>2. IsFiniteSet({}) /\ \A x \in S : IsFiniteSet({x})
  BY FS_EmptySet, FS_Singleton
<1> QED
  BY <1>1, <1>2

\* What is found on a line of a well-formed document.
LEMMA LinesNumbered ==
  ASSUME NEW d, WellFormed(d), NEW n \in DOMAIN d.lines
  PROVE  Numbered(LineDiscrepancies(d, d.lines[n]))
<1> DEFINE line == d.lines[n]
           P == PriceForCredit(d, line)
           R == RefPrice(d, line.sku)
           A == PriceAbove(d, line)
           B == QtyAbovePo(d, line)
           C == QtyShort(d, line)
<1>1. line.qty \in Int /\ line.price \in Int
  BY DEF WellFormed
<1>2. Single(R) /\ R \subseteq Int
  BY DEF RefPrice, Single, WellFormed
<1>3. OnOrder(d, line) \in Int
  BY <1>1 DEF OnOrder, WellFormed
<1>4. \A s \in DOMAIN d.delivered : d.delivered[s] \in Int
  BY DEF WellFormed
<1> HIDE DEF line, R
<1>5. P \in Int
  <2> DEFINE S == {line.price} \cup {p \in R : p # 0}
  <2>1. \E x \in S : \A y \in S : x <= y
    <3>1. CASE R = {}
      <4>1. \A y \in S : line.price <= y
        BY <1>1, <3>1
      <4> QED
        BY <4>1
    <3>2. CASE R # {}
      <4>1. PICK x \in R : R = {x}
        BY <1>2, <3>2 DEF Single
      <4>2. CASE x # 0 /\ x <= line.price
        <5>1. x \in S /\ \A y \in S : x <= y
          BY <1>1, <1>2, <4>1, <4>2
        <5> QED
          BY <5>1
      <4>3. CASE ~(x # 0 /\ x <= line.price)
        <5>1. \A y \in S : line.price <= y
          BY <1>1, <1>2, <4>1, <4>3
        <5> QED
          BY <5>1
      <4> QED
        BY <4>2, <4>3
    <3> QED
      BY <3>1, <3>2
  <2>2. S \subseteq Int
    BY <1>1, <1>2
  <2>3. P = Min(S)
    BY DEF PriceForCredit, R
  <2> HIDE DEF S
  <2>4. Min(S) \in S
    BY <2>1 DEF Min
  <2> QED
    BY <2>2, <2>3, <2>4
<1> HIDE DEF P
<1>6. Single(A) /\ \A x \in A : x.credit \in Int
  <2>1. \A x, y \in {q \in R : line.price > q} : x = y
    BY <1>2 DEF Single
  <2>2. \A q \in R : (line.price - q) * line.qty \in Int
    BY <1>1, <1>2
  <2> QED
    BY <2>1, <2>2 DEF PriceAbove, Single, R
<1>7. Single(B) /\ \A x \in B : x.credit \in Int
  <2>1. \A over \in Nat : over * P \in Int
    BY <1>5
  <2>2. \A x, y \in {line.qty - OnOrder(d, line)} \cap (Nat \ {0}) : x = y
    OBVIOUS
  <2> QED
    BY <2>1, <2>2 DEF QtyAbovePo, Single, P
<1>8. Single(C) /\ \A x \in C : x.credit \in Int
  <2>1. \A short \in Nat : short * P \in Int
    BY <1>5
  <2>2. \A x, y \in {d.delivered[s] : s \in DOMAIN d.delivered \cap {line.sku}} : x = y
    OBVIOUS
  <2>3. \A x, y \in {BillableQty(d, line) - q : q \in {d.delivered[s] : s \in DOMAIN d.delivered \cap {line.sku}}}
                    \cap (Nat \ {0}) : x = y
    BY <2>2
  <2> QED
    BY <2>1, <2>3 DEF QtyShort, Single, P
<1>9. IsFiniteSet(A \cup B \cup C)
  BY <1>6, <1>7, <1>8, AtMostOneIsFinite, FS_Union
<1>10. Numbered(A \cup B \cup C)
  BY <1>6, <1>7, <1>8, <1>9 DEF Numbered
<1>11. Numbered({})
  BY FS_EmptySet DEF Numbered
<1>12. Numbered({[kind |-> "LINE_NOT_ON_PO", credit |-> line.qty * line.price]})
  <2> DEFINE r == [kind |-> "LINE_NOT_ON_PO", credit |-> line.qty * line.price]
  <2>1. r.credit \in Int
    BY <1>1
  <2>2. IsFiniteSet({r})
    BY FS_Singleton
  <2> HIDE DEF r
  <2>3. Numbered({r})
    BY <2>1, <2>2 DEF Numbered
  <2> QED
    BY <2>3 DEF r
<1>13. \/ LineDiscrepancies(d, line) = {}
       \/ LineDiscrepancies(d, line) = {[kind |-> "LINE_NOT_ON_PO", credit |-> line.qty * line.price]}
       \/ LineDiscrepancies(d, line) = A \cup B \cup C
  BY DEF LineDiscrepancies
<1> HIDE DEF A, B, C
<1>14. Numbered(LineDiscrepancies(d, line))
  BY <1>10, <1>11, <1>12, <1>13
<1> QED
  BY <1>14 DEF line

\* So the amount an agent settles on is a number.
LEMMA MemoIsNumber ==
  ASSUME NEW d, WellFormed(d), NEW open \in Int, NEW ks
  PROVE  calculate_credit_memo(d, open, ks) \in Int
<1> DEFINE f == [n \in DOMAIN d.lines |-> CreditOf(LineDiscrepancies(d, d.lines[n]), ks)]
           whole == LineCredit(d, ks)
           t == TaxRate(d)
           F == FreightCredit(d, ks)
<1>1. whole \in Int
  <2>1. \A n \in DOMAIN d.lines : f[n] \in Int
    BY LinesNumbered, CreditIsNumber
  <2>2. whole = SumFunctionOnSet(f, DOMAIN f) /\ DOMAIN f = DOMAIN d.lines
    BY DEF LineCredit, SumFunction
  <2>3. IsFiniteSet(DOMAIN d.lines)
    BY DEF WellFormed
  <2> HIDE DEF f, whole
  <2> QED
    BY <2>1, <2>2, <2>3, SumType
<1>2. t \in Int
  <2>1. d.subtotal \in Nat /\ 10000 * d.tax \in Int
    BY DEF WellFormed
  <2>2. CASE d.subtotal = 0
    BY <2>2 DEF TaxRate
  <2>3. CASE d.subtotal # 0
    <3> DEFINE m == d.subtotal
               n == 10000 * d.tax
               e == RoundHalfEven(n, m)
    <3>1. m \in Int /\ m > 0 /\ n \in Int
      BY <2>1, <2>3
    <3>2. TaxRate(d) = e
      BY <2>3 DEF TaxRate
    <3> HIDE DEF m, n
    <3>3. e \in Int
      BY <3>1, HalfEvenIs
    <3> QED
      BY <3>2, <3>3
  <2> QED
    BY <2>2, <2>3
<1>3. F \in Int
  <2>1. Numbered(FreightDiscrepancies(d))
    <3> DEFINE r == [kind |-> "FREIGHT_NOT_BILLABLE", credit |-> d.freight]
    <3>1. r.credit \in Int
      BY DEF WellFormed
    <3>2. FreightDiscrepancies(d) = {} \/ FreightDiscrepancies(d) = {r}
      BY DEF FreightDiscrepancies
    <3> HIDE DEF r
    <3>3. Numbered({}) /\ Numbered({r})
      <4>1. IsFiniteSet({}) /\ IsFiniteSet({r})
        BY FS_EmptySet, FS_Singleton
      <4> QED
        BY <3>1, <4>1 DEF Numbered
    <3> QED
      BY <3>2, <3>3
  <2> QED
    BY <2>1, CreditIsNumber DEF FreightCredit
<1> HIDE DEF whole, t, F
<1>4. whole * t \in Int
  BY <1>1, <1>2
<1>5. RoundHalfUp(whole * t, 10000) \in Int
  BY <1>4, HalfUpIs
<1>6. Least(whole + RoundHalfUp(whole * t, 10000) + F, open) \in Int
  BY <1>1, <1>3, <1>5 DEF Least
<1> QED
  BY <1>6 DEF calculate_credit_memo, whole, t, F

\* Keys ask for something of an invoice; a request in flight read a balance that
\* its credit fits; and the books balance.
AskOk(k) == asked[k] = NoAsk \/ (asked[k].invoice \in Bills /\ asked[k].amount \in Nat \ {0})
PostOk(e) ==
  post[e].phase = "read" =>
    /\ post[e].key \in Keys /\ asked[post[e].key] # NoAsk
    /\ post[e].open \in Nat /\ asked[post[e].key].amount <= post[e].open
ErpInv ==
  /\ balance \in [Bills -> Nat]
  /\ DOMAIN asked = Keys /\ \A k \in Keys : AskOk(k)
  /\ memos \subseteq Keys /\ IsFiniteSet(memos) /\ \A k \in memos : asked[k] # NoAsk
  /\ DOMAIN post = Posts /\ \A e \in Posts : PostOk(e)
  /\ CreditsAddUp

\* What has been credited depends on the memos that there are, and on nothing else.
LEMMA CreditedSame ==
  ASSUME ErpInv, memos' = memos, \A k \in memos : asked'[k] = asked[k], NEW i
  PROVE  Credited(i)' = Credited(i)
<1> DEFINE f == [k \in memos |-> asked[k].amount]
           g == [k \in memos |-> asked'[k].amount]
           S == {k \in memos : asked[k].invoice = i}
           T == {k \in memos : asked'[k].invoice = i}
<1>1. f = g /\ S = T
  OBVIOUS
<1>2. Credited(i)' = SumFunctionOnSet([k \in memos' |-> asked'[k].amount], {k \in memos' : asked'[k].invoice = i})
  BY DEF Credited
<1>3. Credited(i)' = SumFunctionOnSet(g, T)
  BY <1>2
<1>4. Credited(i) = SumFunctionOnSet(f, S)
  BY DEF Credited
<1> QED
  BY <1>1, <1>3, <1>4

\* A memo adds its amount to what its invoice was credited, and to no other's.
LEMMA CreditedMore ==
  ASSUME ErpInv, NEW k \in Keys \ memos, asked[k] # NoAsk, memos' = memos \cup {k}, asked' = asked, NEW i
  PROVE  Credited(i)' = Credited(i) + (IF asked[k].invoice = i THEN asked[k].amount ELSE 0)
<1> DEFINE f == [x \in memos |-> asked[x].amount]
           g == [x \in memos \cup {k} |-> asked[x].amount]
           S == {x \in memos : asked[x].invoice = i}
           T == {x \in memos \cup {k} : asked[x].invoice = i}
<1>1. Credited(i) = SumFunctionOnSet(f, S) /\ Credited(i)' = SumFunctionOnSet(g, T)
  <2>1. Credited(i)' = SumFunctionOnSet([x \in memos' |-> asked'[x].amount], {x \in memos' : asked'[x].invoice = i})
    BY DEF Credited
  <2> QED
    BY <2>1 DEF Credited
<1>2. \A x \in memos \cup {k} : asked[x].amount \in Int
  BY DEF ErpInv, AskOk
<1>3. S \in SUBSET memos /\ IsFiniteSet(S) /\ k \notin S
  BY FS_Subset DEF ErpInv
<1>4. \A x \in S : f[x] = g[x] /\ f[x] \in Int
  BY <1>2
<1>5. g[k] = asked[k].amount /\ g[k] \in Int
  BY <1>2
<1>6. T = IF asked[k].invoice = i THEN S \cup {k} ELSE S
  OBVIOUS
<1> HIDE DEF f, g, S, T
<1>7. SumFunctionOnSet(f, S) = SumFunctionOnSet(g, S)
  BY <1>3, <1>4, SumAgree
<1>8. SumFunctionOnSet(f, S) \in Int
  BY <1>3, <1>4, SumType
<1>9. CASE asked[k].invoice = i
  <2>1. IsFiniteSet({k}) /\ S \cap {k} = {} /\ \A x \in S \cup {k} : g[x] \in Int
    BY <1>3, <1>4, <1>5, FS_Singleton
  <2>2. SumFunctionOnSet(g, S \cup {k}) = SumFunctionOnSet(g, S) + SumFunctionOnSet(g, {k})
    BY <1>3, <2>1, SumUnion
  <2>3. SumFunctionOnSet(g, {k}) = g[k]
    BY <1>5, SumOne
  <2> QED
    BY <1>1, <1>5, <1>6, <1>7, <1>9, <2>2, <2>3
<1>10. CASE asked[k].invoice # i
  BY <1>1, <1>6, <1>7, <1>8, <1>10
<1> QED
  BY <1>9, <1>10

\* To begin with nothing was credited.
LEMMA ErpInvInit == ErpInit => ErpInv
<1> SUFFICES ASSUME ErpInit PROVE ErpInv
  OBVIOUS
<1>1. balance \in [Bills -> Nat] /\ \A i \in Bills : balance[i] = Amount[i] /\ Amount[i] \in Nat \ {0}
  BY ErpAssumption DEF ErpInit
<1>2. DOMAIN asked = Keys /\ \A k \in Keys : AskOk(k)
  BY DEF ErpInit, AskOk
<1>3. memos \subseteq Keys /\ IsFiniteSet(memos) /\ \A k \in memos : asked[k] # NoAsk
  BY FS_EmptySet DEF ErpInit
<1>4. DOMAIN post = Posts /\ \A e \in Posts : PostOk(e)
  BY DEF ErpInit, PostOk, NoPost
<1>5. \A i \in Bills : Credited(i) = 0
  <2>1. \A i \in Bills : {k \in memos : asked[k].invoice = i} = {}
    BY DEF ErpInit
  <2> QED
    BY <2>1, SumEmpty DEF Credited
<1>6. CreditsAddUp
  BY <1>1, <1>5 DEF CreditsAddUp, ErpInit
<1> QED
  BY <1>1, <1>2, <1>3, <1>4, <1>6 DEF ErpInv

\* A step that leaves balances, memos and what they stand for alone.
LEMMA BooksUntouched ==
  ASSUME ErpInv, memos' = memos, \A k \in memos : asked'[k] = asked[k],
         balance' = balance, settled' = settled, torn' = torn
  PROVE  CreditsAddUp'
<1>1. \A i \in Bills : Credited(i)' = Credited(i)
  BY CreditedSame
<1>2. CreditsAddUp
  BY DEF ErpInv
<1> QED
  BY <1>1, <1>2 DEF CreditsAddUp

\* Each of the ERP's steps keeps that so.
LEMMA ErpStep == ErpInv /\ ErpNext => ErpInv'
<1> SUFFICES ASSUME ErpInv, ErpNext PROVE ErpInv'
  OBVIOUS
<1>1. CASE FallsDue
  <2>1. CreditsAddUp'
    BY <1>1, BooksUntouched DEF FallsDue
  <2> QED
    BY <1>1, <2>1 DEF FallsDue, ErpInv, AskOk, PostOk
<1>2. ASSUME NEW k \in Keys, NEW i \in Creditable, NEW kinds \in KindSets, Asks(k, i, kinds)
      PROVE  ErpInv'
  <2> DEFINE amount == calculate_credit_memo(Docs[i], balance[i], kinds)
  <2>1. asked[k] = NoAsk /\ amount > 0 /\ asked' = [asked EXCEPT ![k] = [amount |-> amount, invoice |-> i]]
    BY <1>2 DEF Asks
  <2>2. UNCHANGED <<balance, settled, memos, post, torn>>
    BY <1>2 DEF Asks
  <2>3. i \in Bills /\ WellFormed(Docs[i]) /\ balance[i] \in Int
    BY ErpAssumption DEF ErpInv
  <2>4. amount \in Int
    BY <2>3, MemoIsNumber
  <2> HIDE DEF amount
  <2>5. k \notin memos
    BY <2>1 DEF ErpInv
  <2>6. \A x \in memos : asked'[x] = asked[x]
    BY <2>1, <2>5 DEF ErpInv
  <2>7. CreditsAddUp'
    BY <2>2, <2>6, BooksUntouched
  <2>8. DOMAIN asked' = Keys /\ \A x \in Keys : x # k => asked'[x] = asked[x]
    BY <2>1 DEF ErpInv
  <2>9. asked'[k].amount \in Nat \ {0} /\ asked'[k].invoice \in Bills /\ asked'[k] # NoAsk
    <3>1. asked'[k] = [amount |-> amount, invoice |-> i]
      BY <2>1 DEF ErpInv
    <3>2. asked'[k].amount = amount /\ asked'[k].invoice = i
      BY <3>1
    <3>3. asked'[k].amount # NoAsk.amount
      BY <2>1, <2>4, <3>2 DEF NoAsk
    <3> QED
      BY <2>1, <2>3, <2>4, <3>2, <3>3
  <2>10. ASSUME NEW x \in Keys PROVE AskOk(x)'
    BY <2>8, <2>9 DEF ErpInv, AskOk
  <2>11. ASSUME NEW e \in Posts PROVE PostOk(e)'
    BY <2>1, <2>2, <2>8 DEF ErpInv, PostOk
  <2> QED
    BY <2>2, <2>6, <2>7, <2>8, <2>10, <2>11 DEF ErpInv
<1>3. ASSUME NEW e \in Posts, Credits(e)
      PROVE  ErpInv'
  <2>0. PICK k, i, a, open :
          k = post[e].key /\ i = asked[k].invoice /\ a = asked[k].amount /\ open = post[e].open
    OBVIOUS
  <2> DEFINE rest == Max({0, open - a})
  <2>1. post[e].phase = "read" /\ k \notin memos /\ memos' = memos \cup {k} /\ asked' = asked
    BY <1>3, <2>0 DEF Credits
  <2>2. balance' = [balance EXCEPT ![i] = rest] /\ settled' = IF rest = 0 THEN settled \cup {i} ELSE settled
    BY <1>3, <2>0 DEF Credits
  <2>3. torn' = IF balance[i] # open THEN torn \cup {i} ELSE torn
    BY <1>3, <2>0 DEF Credits
  <2>4. post' = [post EXCEPT ![e] = NoPost]
    BY <1>3, <2>0 DEF Credits
  <2>5. k \in Keys /\ asked[k] # NoAsk /\ open \in Nat /\ a <= open
    BY <2>0, <2>1 DEF ErpInv, PostOk
  <2>6. i \in Bills /\ a \in Nat \ {0}
    BY <2>0, <2>5 DEF ErpInv, AskOk
  <2>7. rest = open - a /\ rest \in Nat
    <3>1. open - a \in Nat
      BY <2>5, <2>6
    <3>2. {0, open - a} \in SUBSET Int /\ IsFiniteSet({0, open - a}) /\ {0, open - a} # {}
      <4> DEFINE x == open - a
      <4>1. {0, x} = {0} \cup {x}
        OBVIOUS
      <4> HIDE DEF x
      <4>4. IsFiniteSet({0}) /\ IsFiniteSet({x})
        BY FS_Singleton
      <4>2. IsFiniteSet({0, x})
        BY <4>1, <4>4, FS_Union
      <4>3. {0, x} \in SUBSET Int /\ {0, x} # {}
        BY <3>1 DEF x
      <4> QED
        BY <4>2, <4>3 DEF x
    <3>3. rest \in {0, open - a} /\ rest >= open - a /\ rest >= 0
      BY <3>2, MaxIs
    <3> QED
      BY <3>1, <3>3
  <2> HIDE DEF rest
  <2>8. \A j \in Bills : Credited(j)' = Credited(j) + (IF i = j THEN a ELSE 0)
    BY <2>0, <2>1, <2>5, CreditedMore
  <2>9. \A j \in Bills : Credited(j) \in Int
    <3> SUFFICES ASSUME NEW j \in Bills PROVE Credited(j) \in Int
      OBVIOUS
    <3> DEFINE f == [x \in memos |-> asked[x].amount]
               S == {x \in memos : asked[x].invoice = j}
    <3>1. IsFiniteSet(S)
      BY FS_Subset DEF ErpInv
    <3>2. \A x \in S : f[x] \in Int
      BY DEF ErpInv, AskOk
    <3>3. Credited(j) = SumFunctionOnSet(f, S)
      BY DEF Credited
    <3> HIDE DEF f, S
    <3> QED
      BY <3>1, <3>2, <3>3, SumType
  <2>10. balance \in [Bills -> Nat] /\ balance'[i] = rest /\ \A j \in Bills : j # i => balance'[j] = balance[j]
    BY <2>2, <2>6 DEF ErpInv
  <2>11. balance' \in [Bills -> Nat]
    BY <2>2, <2>7, <2>10
  <2>12. ASSUME NEW j \in Bills \ torn'
         PROVE  /\ balance'[j] + Credited(j)' = Amount[j]
                /\ j \in settled' <=> balance'[j] = 0
    <3>1. j \in Bills \ torn
      BY <2>3
    <3>2. balance[j] + Credited(j) = Amount[j] /\ (j \in settled <=> balance[j] = 0)
      BY <3>1 DEF ErpInv, CreditsAddUp
    <3>3. CASE j = i
      <4>1. balance[i] = open
        BY <2>3, <3>3
      <4>2. balance'[i] + a = balance[i] /\ Credited(i)' = Credited(i) + a
        <5>1. balance'[i] + a = balance[i]
          BY <2>5, <2>6, <2>7, <2>10, <4>1
        <5>2. Credited(i)' = Credited(i) + a
          BY <2>6, <2>8
        <5> QED
          BY <5>1, <5>2
      <4>3. balance'[i] \in Int /\ Credited(i) \in Int /\ balance[i] \in Int
        BY <2>5, <2>6, <2>7, <2>9, <2>10, <4>1
      <4>4. balance'[i] + Credited(i)' = balance[i] + Credited(i)
        BY <2>6, <4>2, <4>3
      <4>5. i \in settled' <=> balance'[i] = 0
        <5>1. balance[i] # 0
          BY <2>6, <2>7, <2>10, <4>2
        <5> QED
          BY <2>2, <2>10, <3>2, <3>3, <5>1
      <4>6. balance'[i] + Credited(i)' = Amount[i]
        BY <3>2, <3>3, <4>4
      <4> QED
        BY <3>3, <4>5, <4>6
    <3>4. CASE j # i
      <4>1. balance'[j] = balance[j] /\ Credited(j)' = Credited(j)
        BY <2>8, <2>9, <2>10, <3>4
      <4>2. j \in settled' <=> j \in settled
        BY <2>2, <3>4
      <4> QED
        BY <3>2, <4>1, <4>2
    <3> QED
      BY <3>3, <3>4
  <2>13. CreditsAddUp'
    BY <2>12 DEF CreditsAddUp
  <2>14. memos' \subseteq Keys /\ IsFiniteSet(memos') /\ \A x \in memos' : asked'[x] # NoAsk
    BY <2>1, <2>5, FS_AddElement DEF ErpInv
  <2>15. DOMAIN asked' = Keys /\ \A x \in Keys : AskOk(x)'
    BY <2>1 DEF ErpInv, AskOk
  <2>16. DOMAIN post' = Posts
    BY <2>4 DEF ErpInv
  <2>17. ASSUME NEW x \in Posts PROVE PostOk(x)'
    <3>1. CASE x = e
      BY <2>4, <3>1 DEF ErpInv, PostOk, NoPost
    <3>2. CASE x # e
      BY <2>1, <2>4, <3>2 DEF ErpInv, PostOk
    <3> QED
      BY <3>1, <3>2
  <2> QED
    BY <2>11, <2>13, <2>14, <2>15, <2>16, <2>17 DEF ErpInv
<1>4. ASSUME NEW e \in Posts, Drops(e)
      PROVE  ErpInv'
  <2>1. CreditsAddUp'
    BY <1>4, BooksUntouched DEF Drops
  <2>2. ASSUME NEW x \in Posts PROVE PostOk(x)'
    <3>1. CASE x = e
      BY <1>4, <3>1 DEF Drops, ErpInv, PostOk, NoPost
    <3>2. CASE x # e
      BY <1>4, <3>2 DEF Drops, ErpInv, PostOk
    <3> QED
      BY <3>1, <3>2
  <2> QED
    BY <1>4, <2>1, <2>2 DEF Drops, ErpInv, AskOk
<1>5. ASSUME NEW e \in Posts, NEW k \in Keys, ReadsInvoice(e, k)
      PROVE  ErpInv'
  <2> DEFINE open == balance[asked[k].invoice]
  <2>1. /\ asked[k] # NoAsk /\ asked[k].amount <= open
        /\ post' = [post EXCEPT ![e] = [phase |-> "read", key |-> k, open |-> open]]
    BY <1>5 DEF ReadsInvoice, Fits
  <2>2. UNCHANGED <<balance, settled, asked, memos, torn>>
    BY <1>5 DEF ReadsInvoice
  <2>3. CreditsAddUp'
    BY <2>2, BooksUntouched
  <2>4. open \in Nat
    BY <2>1 DEF ErpInv, AskOk
  <2> HIDE DEF open
  <2>5. ASSUME NEW x \in Posts PROVE PostOk(x)'
    <3>1. CASE x = e
      <4>1. post'[e] = [phase |-> "read", key |-> k, open |-> open]
        BY <2>1 DEF ErpInv
      <4> QED
        BY <2>1, <2>2, <2>4, <3>1, <4>1 DEF PostOk
    <3>2. CASE x # e
      BY <2>1, <2>2, <3>2 DEF ErpInv, PostOk
    <3> QED
      BY <3>1, <3>2
  <2>6. DOMAIN post' = Posts
    BY <2>1 DEF ErpInv
  <2> QED
    BY <2>2, <2>3, <2>5, <2>6 DEF ErpInv, AskOk
<1> QED
  BY <1>1, <1>2, <1>3, <1>4, <1>5 DEF ErpNext

\* Opening cases is no business of the ERP's.
LEMMA OthersLeaveTheBooks == IntakeNext => ErpNext \/ UNCHANGED erpVars
<1> SUFFICES ASSUME IntakeNext PROVE ErpNext \/ UNCHANGED erpVars
  OBVIOUS
<1>1. ASSUME NEW r \in Loops, LoopStep(r) \/ Fails(r)
      PROVE  UNCHANGED erpVars
  BY <1>1 DEF LoopStep, Fails, Lists, Skips, Wants, Begins, Opens, Finishes, Stops, Aborted
<1>2. ASSUME NEW r \in Requests \ Loops, Person(r)
      PROVE  UNCHANGED erpVars
  BY <1>2 DEF Person
<1> QED
  BY <1>1, <1>2 DEF IntakeNext

\* However many credits are asked for and posted, under however many keys, and
\* whoever opens cases meanwhile: but for invoices two credits of which overlapped,
\* the open amount and the memos add up to what was invoiced, and an invoice is
\* settled exactly when nothing is open.
THEOREM BooksBalance == IntakeSpec => []CreditsAddUp
<1>1. IntakeInit => ErpInv
  BY ErpInvInit DEF IntakeInit
<1>2. ErpInv /\ [IntakeNext]_intakeVars => ErpInv'
  <2> SUFFICES ASSUME ErpInv, [IntakeNext]_intakeVars PROVE ErpInv'
    OBVIOUS
  <2>1. ErpNext \/ UNCHANGED erpVars
    BY OthersLeaveTheBooks DEF intakeVars
  <2>2. CASE UNCHANGED erpVars
    <3>1. UNCHANGED <<balance, settled, asked, memos, post, torn>>
      BY <2>2 DEF erpVars
    <3>2. CreditsAddUp'
      BY <3>1, BooksUntouched
    <3> QED
      BY <3>1, <3>2 DEF ErpInv, AskOk, PostOk
  <2> QED
    BY <2>1, <2>2, ErpStep
<1>3. ErpInv => CreditsAddUp
  BY DEF ErpInv
<1> QED
  BY <1>1, <1>2, <1>3, PTL DEF IntakeSpec
=============================================================================

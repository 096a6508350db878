---------------------------- MODULE ToolGateway ----------------------------
(***************************************************************************)
(* The only way an agent changes the world: every tool call runs, in one   *)
(* of the gateway's replicas, through cache, policy, approval, handler,    *)
(* mark and audit.  Each of these is a call to another service, and        *)
(* between any two the others run: calls with the same key, people who     *)
(* decide, requests that outlive the timeout of the call that sent them.   *)
(*                                                                         *)
(*   services/tool-gateway/recoup_tool_gateway/service.py, tools/          *)
(*   services/orchestrator/.../{agents/loop,workflows/activities}.py       *)
(*                                                                         *)
(* Two tools stand for the others: create_credit_memo, which acts, and     *)
(* propose_action.  Policy is read anew by every call and may answer       *)
(* anything: rules, facts and versions change.  Arguments are those of     *)
(* the model or those a human edited.                                      *)
(***************************************************************************)
EXTENDS CaseStateMachine

CONSTANTS Actions,     \* proposals of one case, all for a credit memo
          MemoKeys,    \* idempotency keys of agents' own calls to create_credit_memo
          ProposeKeys, \* and to propose_action
          ShadowKeys,  \* those of the two that belong to shadow runs
          Calls,       \* calls under way at once, in all replicas
          None

ASSUME KeyAssumption ==
  /\ ShadowKeys \subseteq MemoKeys \cup ProposeKeys
  /\ MemoKeys \cap ProposeKeys = {}
  /\ Actions \cap (MemoKeys \cup ProposeKeys) = {}
  /\ None \notin Actions \cup MemoKeys \cup ProposeKeys

VARIABLES act,     \* the case service's proposals
          call,    \* the gateway's calls under way
          sent,    \* requests on their way to the ERP or the case service
          memos,   \* the credit memos the ERP has issued
          audit    \* tool_invocations: the keys that have a SUCCESS row

vars == <<act, call, sent, memos, audit>>

Keys == Actions \cup MemoKeys \cup ProposeKeys
Live(key) == key \notin ShadowKeys

NoAction == [status |-> "none", args |-> "model"]
NoRequest == [key |-> None, ref |-> None, args |-> "model", verdict |-> "none"]
Idle == [phase |-> "idle", key |-> None, ref |-> None, args |-> "model",
         request |-> NoRequest, ok |-> FALSE]

Init ==
  /\ act = [a \in Actions |-> NoAction]
  /\ call = [i \in Calls |-> Idle]
  /\ sent = {}
  /\ memos = <<>>
  /\ audit = {}

-----------------------------------------------------------------------------
(* The callers                                                               *)

Start(i, key, ref, args) ==
  /\ call[i].phase = "idle"
  /\ call' = [call EXCEPT ![i] = [Idle EXCEPT !.phase = "received", !.key = key,
                                              !.ref = ref, !.args = args]]
  /\ UNCHANGED <<act, sent, memos, audit>>

\* An agent's call.  Its key is that of the run, iteration, tool and arguments: a
\* retried activity repeats it, perhaps while the first call is still under way.
invoke(i, key) == Start(i, key, None, "model")

Open(a) == act[a].status \in {"PENDING", "APPROVED", "EDITED"}
Decided(a) == act[a].status \in {"APPROVED", "EDITED", "EXECUTED"}

\* A mutation: the payload as the model proposed it.
ModelPayload(i, a) == Decided(a) /\ Start(i, a, a, "model")

\* The executor found the action approved, once; its retries do not look again.
\* It sends the payload with the human's edits merged over it.
execute_action(i, a) == Decided(a) /\ Start(i, a, a, act[a].args)

-----------------------------------------------------------------------------
(* The pipeline                                                              *)

Moves(i, phase) == call' = [call EXCEPT ![i] = [call[i] EXCEPT !.phase = phase]]
Answers(i, ok) ==
  call' = [call EXCEPT ![i] = [Idle EXCEPT !.phase = "answered", !.key = call[i].key, !.ok = ok]]

\* Invalid arguments, no key, too many calls, no policy, denied, no approval, a handler
\* that raises or times out: an error.  Its row is not a SUCCESS row.
Fails(i) ==
  /\ call[i].phase \in {"received", "checked", "proposing", "running", "ran"}
  /\ Answers(i, FALSE)
  /\ UNCHANGED <<act, sent, memos, audit>>

\* A SUCCESS row with this key answers the call.
_cached(i) ==
  /\ call[i].phase = "received"
  /\ IF call[i].key \in audit THEN Answers(i, TRUE) ELSE Moves(i, "checked")
  /\ UNCHANGED <<act, sent, memos, audit>>

\* A shadow call ends with what policy would have said; its row is a SHADOW row.
_simulate(i) ==
  /\ call[i].phase = "checked"
  /\ ~Live(call[i].key)
  /\ Answers(i, TRUE)
  /\ UNCHANGED <<act, sent, memos, audit>>

Request(i, decision, args) ==
  [key |-> call[i].key, ref |-> call[i].ref, args |-> args, verdict |-> decision]

Sends(i, q) ==
  /\ sent' = sent \cup {q}
  /\ call' = [call EXCEPT ![i] = [call[i] EXCEPT !.phase = "running", !.request = q]]

IsLive(i) == Live(call[i].key)

Approval(a) == a # None /\ act[a].status \in {"APPROVED", "EDITED"}

\* The gate, then at once the handler, whose request leaves for the ERP.  ALLOW needs
\* nothing and DENY ends the call; otherwise an approval that is not used up is needed,
\* and what the human edited in it overrides the arguments of the call.  From here on a
\* timeout ends the call and not the request.
create_credit_memo(i) ==
  LET a == call[i].ref
      final == IF act[a].status = "EDITED" THEN act[a].args ELSE call[i].args
  IN
  /\ call[i].phase = "checked" /\ call[i].key \notin ProposeKeys
  /\ IsLive(i)
  /\ \/ Sends(i, Request(i, "ALLOW", call[i].args))
     \/ Approval(a) /\ Sends(i, Request(i, "REQUIRE_APPROVAL", final))
  /\ UNCHANGED <<act, memos, audit>>

\* Proposing passes the gate whatever the verdict, which is stored with the proposal.
_gate_proposal(i) ==
  /\ call[i].phase = "checked" /\ call[i].key \in ProposeKeys
  /\ IsLive(i)
  /\ \E decision \in PolicyDecision :
       call' = [call EXCEPT ![i] =
         [call[i] EXCEPT !.phase = "proposing", !.request = Request(i, decision, "model")]]
  /\ UNCHANGED <<act, sent, memos, audit>>

\* propose_action returns the open proposal of that type if there is one.
propose_action(i) ==
  /\ call[i].phase = "proposing"
  /\ IF \E a \in Actions : Open(a)
     THEN Moves(i, "succeeding") /\ UNCHANGED sent
     ELSE Sends(i, call[i].request)
  /\ UNCHANGED <<act, memos, audit>>

\* Its request has arrived and left something behind.
Served(key) ==
  IF key \in ProposeKeys THEN \E a \in Actions : act[a] # NoAction
                         ELSE \E k \in DOMAIN memos : memos[k].key = key

handler_returns(i) ==
  /\ call[i].phase = "running"
  /\ call[i].request \notin sent
  /\ Served(call[i].key)
  /\ call' = [call EXCEPT ![i] =
       [Idle EXCEPT !.phase = IF call[i].ref = None THEN "succeeding" ELSE "ran",
                    !.key = call[i].key, !.ref = call[i].ref]]
  /\ UNCHANGED <<act, sent, memos, audit>>

\* EXECUTED stands for AUTO_EXECUTED too, the status of what nobody had to decide.
Executes(a) == act' = [act EXCEPT ![a] = [act[a] EXCEPT !.status = "EXECUTED"]]

\* A mutation: the action is marked before its tool has run.
MarkFirst(i) == call[i].phase \in {"checked", "running", "ran"}
Ran(i) == call[i].phase = "ran"

mark_executed(i) ==
  /\ Ran(i)
  /\ Approval(call[i].ref)
  /\ Executes(call[i].ref)
  /\ Moves(i, "succeeding")
  /\ UNCHANGED <<sent, memos, audit>>

\* A 4xx or 5xx from the case service (the action is no longer approved, the case was
\* written meanwhile, a database error) is logged; the call succeeds all the same.
mark_refused(i) ==
  /\ call[i].phase = "ran"
  /\ Moves(i, "succeeding")
  /\ UNCHANGED <<act, sent, memos, audit>>

\* Marked, but the answer was lost: unlike a refusal, that is an error of the call.
mark_unanswered(i) ==
  /\ Ran(i)
  /\ Approval(call[i].ref)
  /\ Executes(call[i].ref)
  /\ Answers(i, FALSE)
  /\ UNCHANGED <<sent, memos, audit>>

\* A mutation: the row is written before the handler has returned.
AuditEarly(i) == call[i].phase \in {"running", "succeeding"}
Succeeds(i) == call[i].phase = "succeeding"

\* The row of a call that worked; a second SUCCESS row breaks the unique index, and
\* then the caller gets an error for what was done.
_audit(i) ==
  /\ Succeeds(i)
  /\ Answers(i, call[i].key \notin audit)
  /\ audit' = audit \cup {call[i].key}
  /\ UNCHANGED <<act, sent, memos>>

\* The caller has its answer; or it never gets one: a replica died, a client gave up.
Ends(i) ==
  /\ call[i].phase # "idle"
  /\ call' = [call EXCEPT ![i] = Idle]
  /\ UNCHANGED <<act, sent, memos, audit>>

-----------------------------------------------------------------------------
(* The services behind, and the people                                       *)

\* A mutation: the ERP does not look for the key.
Unchecked(q) == TRUE
NewKey(q) == \A k \in DOMAIN memos : memos[k].key # q.key

\* The ERP: one memo per key, whatever the rest of the request.
erp_credit_memo(q) ==
  /\ q.key \notin ProposeKeys
  /\ memos' = IF NewKey(q) THEN Append(memos, q) ELSE memos
  /\ sent' = sent \ {q}
  /\ UNCHANGED <<act, call, audit>>

\* The case service: nothing in the request tells it that it came before.
case_propose(q, a) ==
  /\ q.key \in ProposeKeys
  /\ act[a] = NoAction
  /\ act' = [act EXCEPT ![a] = [NoAction EXCEPT !.status = InitialActionStatus[q.verdict]]]
  /\ sent' = sent \ {q}
  /\ UNCHANGED <<call, memos, audit>>

\* Refused (not within what is open) or lost.
Dropped(q) == sent' = sent \ {q} /\ UNCHANGED <<act, call, memos, audit>>

decide_action(a, decision) ==
  /\ act[a].status = "PENDING"
  /\ act' = [act EXCEPT ![a] =
       [status |-> decision, args |-> IF decision = "EDITED" THEN "human" ELSE "model"]]
  /\ UNCHANGED <<call, sent, memos, audit>>

Pipeline(i) ==
  \/ _cached(i) \/ _simulate(i)
  \/ create_credit_memo(i) \/ _gate_proposal(i) \/ propose_action(i) \/ handler_returns(i)
  \/ mark_executed(i) \/ mark_refused(i) \/ mark_unanswered(i)
  \/ _audit(i) \/ Fails(i) \/ Ends(i)

Callers(i) ==
  \/ \E key \in MemoKeys \cup ProposeKeys : invoke(i, key)
  \/ \E a \in Actions : execute_action(i, a)

Backends ==
  \E q \in sent : erp_credit_memo(q) \/ Dropped(q) \/ \E a \in Actions : case_propose(q, a)

Next ==
  \/ \E i \in Calls : Callers(i) \/ Pipeline(i)
  \/ Backends
  \/ \E a \in Actions, decision \in Decision : decide_action(a, decision)

Spec == Init /\ [][Next]_vars

-----------------------------------------------------------------------------
(* Properties *)

Args == {"model", "human"}
RequestRow == [key : Keys, ref : Actions \cup {None}, args : Args, verdict : PolicyDecision]

\* Every row, call and request is well formed.
TypeOK ==
  /\ act \in [Actions -> [status : ActionStatus \cup {"none"}, args : Args]]
  /\ call \in [Calls -> [phase : {"idle", "received", "checked", "proposing", "running", "ran",
                                  "succeeding", "answered"},
                         key : Keys \cup {None}, ref : Actions \cup {None}, args : Args,
                         request : RequestRow \cup {NoRequest}, ok : BOOLEAN]]
  /\ sent \subseteq RequestRow
  /\ memos \in Seq(RequestRow)
  /\ audit \subseteq Keys

\* However often a call is repeated, by whichever replica, and whatever became of the
\* answers: one memo per key, and one per approval.
AtMostOneMemo ==
  \A j, k \in DOMAIN memos :
    \/ memos[j].key = memos[k].key
    \/ memos[j].ref = memos[k].ref /\ memos[j].ref # None
    => j = k

\* No memo without leave: the policy allowed that call, or required an approval and
\* the call named an action that was approved or edited.  No shadow run has one.  What a
\* human edited is what is issued, though it is edited, read and sent by three services
\* and the policy may have stopped requiring an approval since.
MemoAuthorised ==
  \A k \in DOMAIN memos :
    LET m == memos[k]
    IN /\ Live(m.key)
       /\ m.verdict # "DENY"
       /\ m.verdict = "REQUIRE_APPROVAL" => m.ref # None
       /\ m.ref # None => Decided(m.ref) /\ m.args = act[m.ref].args

\* An action is marked executed only when the ERP has issued its memo.
ExecutedWasIssued ==
  \A a \in Actions :
    act[a].status = "EXECUTED" => \E k \in DOMAIN memos : memos[k].ref = a

\* A live call is told SUCCESS, or has a row that will tell later ones so, only when what
\* it asked for is there.
SuccessIsTrue ==
  /\ \A i \in Calls :
       call[i].phase = "answered" /\ call[i].ok /\ Live(call[i].key) => Served(call[i].key)
  /\ \A key \in audit : Served(key)
=============================================================================

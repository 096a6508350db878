---------------------------- MODULE CallsProofs -----------------------------
(***************************************************************************)
(* Proofs about the calls agents make: of the gateway they go through, for  *)
(* any number of proposals, keys and calls under way, and of the loop that  *)
(* makes them, for any budgets and however much it calls in a turn.         *)
(***************************************************************************)
EXTENDS ToolGateway, AgentLoop, SequenceTheorems, Induction, TLAPS

-----------------------------------------------------------------------------
(* THE GATEWAY                                                              *)
(*                                                                          *)
(* The inductive invariant IInv says of every request on its way and every  *)
(* memo that it has leave (RequestOK), of every call that its phase tells   *)
(* the truth about what has happened behind it (CallOK), and that SUCCESS   *)
(* rows and executed actions have their memo.  All of it depends on two     *)
(* facts that no step breaks (Keep): what was decided stays decided, with   *)
(* the same arguments, and what was served stays served.                    *)

\* Keys name the approval they stand for: the executor's key is the action itself.
RefOf(key) == IF key \in Actions THEN key ELSE None

RequestOK(q) ==
  /\ q.ref = RefOf(q.key)
  /\ q.key \notin ProposeKeys =>
       /\ Live(q.key)
       /\ q.verdict # "DENY"
       /\ q.verdict = "REQUIRE_APPROVAL" => q.ref # None
       /\ q.ref # None => Decided(q.ref) /\ q.args = act[q.ref].args

ActRow == [status : ActionStatus \cup {"none"}, args : Args]
CallRow ==
  [phase : {"idle", "received", "checked", "proposing", "running", "ran",
            "succeeding", "answered"},
   key : Keys \cup {None}, ref : Actions \cup {None}, args : Args,
   request : RequestRow \cup {NoRequest}, ok : BOOLEAN]

CallOK(c) ==
  /\ c.phase # "idle" => c.key \in Keys
  /\ c.phase \notin {"idle", "answered"} => c.ref = RefOf(c.key)
  /\ c.phase \in {"received", "checked"} /\ c.ref # None =>
       Decided(c.ref) /\ c.args = act[c.ref].args
  /\ c.phase = "proposing" =>
       c.key \in ProposeKeys /\ c.request \in RequestRow /\ c.request.key = c.key
                             /\ c.request.ref = None
  /\ c.phase = "ran" => c.ref \in Actions
  /\ c.phase \in {"ran", "succeeding"} => Served(c.key)
  /\ c.phase = "answered" /\ c.ok /\ Live(c.key) => Served(c.key)

RequestsOK == \A q \in sent : RequestOK(q)
MemosOK == \A k \in DOMAIN memos : RequestOK(memos[k]) /\ memos[k].key \notin ProposeKeys
UniqueKeys == \A j, k \in DOMAIN memos : memos[j].key = memos[k].key => j = k
AuditOK == \A key \in audit : Served(key)
CallsOK == \A i \in Calls : CallOK(call[i])

IInv == TypeOK /\ RequestsOK /\ MemosOK /\ UniqueKeys /\ AuditOK /\ CallsOK /\ ExecutedWasIssued

\* What no step breaks.
Keep ==
  /\ \A a \in Actions : Decided(a) => Decided(a)' /\ act'[a].args = act[a].args
  /\ \A key \in Keys : Served(key) => Served(key)'

-----------------------------------------------------------------------------
(* Helpers                                                                  *)

LEMMA Verdicts == \A d \in PolicyDecision : InitialActionStatus[d] \in {"APPROVED", "PENDING", "DENIED"}
BY DEF PolicyDecision, InitialActionStatus

LEMMA RefTyped == \A key : RefOf(key) \in Actions \cup {None}
BY DEF RefOf

LEMMA RequestStays ==
  ASSUME Keep, NEW q \in RequestRow, RequestOK(q)
  PROVE  RequestOK(q)'
BY DEF RequestRow, RequestOK, Keep

LEMMA CallStays ==
  ASSUME Keep, NEW c \in CallRow, CallOK(c)
  PROVE  CallOK(c)'
<1>1. c.key \in Keys => (Served(c.key) => Served(c.key)')
  BY DEF Keep
<1>2. c.ref # None /\ Decided(c.ref) => Decided(c.ref)' /\ act'[c.ref].args = act[c.ref].args
  BY DEF Keep, CallRow
<1> QED BY <1>1, <1>2 DEF CallOK

\* A step of the pipeline changes one call, perhaps sends a request or adds a row, and
\* leaves the ERP alone.
LEMMA PipelineStep ==
  ASSUME IInv, Keep, NEW i \in Calls,
         act' \in [Actions -> ActRow], ExecutedWasIssued', memos' = memos,
         \E c \in CallRow : CallOK(c) /\ call' = [call EXCEPT ![i] = c],
         \A q \in sent' : q \in sent \/ (q \in RequestRow /\ RequestOK(q)),
         \A key \in audit' : key \in audit \/ (key \in Keys /\ Served(key))
  PROVE  IInv'
<1>1. PICK c \in CallRow : CallOK(c) /\ call' = [call EXCEPT ![i] = c]
  OBVIOUS
<1>2. TypeOK'
  BY <1>1 DEF IInv, TypeOK, ActRow, CallRow
<1>3. CallsOK'
  <2> SUFFICES ASSUME NEW j \in Calls PROVE CallOK(call[j])'
    BY DEF CallsOK
  <2>1. PICK d \in CallRow : CallOK(d) /\ call'[j] = d
    BY <1>1 DEF IInv, TypeOK, CallRow, CallsOK
  <2>2. CallOK(d)'
    BY <2>1, CallStays
  <2> QED BY <2>1, <2>2 DEF CallOK
<1>4. RequestsOK'
  <2> SUFFICES ASSUME NEW q \in sent' PROVE RequestOK(q)'
    BY DEF RequestsOK
  <2> QED BY RequestStays DEF IInv, RequestsOK, TypeOK
<1>5. MemosOK'
  <2> SUFFICES ASSUME NEW k \in DOMAIN memos
               PROVE  RequestOK(memos[k])' /\ memos[k].key \notin ProposeKeys
    BY DEF MemosOK
  <2>1. PICK m \in RequestRow : m = memos[k]
    BY DEF IInv, TypeOK
  <2>2. RequestOK(m)'
    BY <2>1, RequestStays DEF IInv, MemosOK
  <2> QED BY <2>1, <2>2 DEF RequestOK, IInv, MemosOK
<1>6. AuditOK'
  BY DEF AuditOK, IInv, TypeOK, Keep
<1>7. UniqueKeys'
  BY DEF UniqueKeys, IInv
<1> QED BY <1>2, <1>3, <1>4, <1>5, <1>6, <1>7 DEF IInv

\* Most steps change nothing but the call.
LEMMA CallStep ==
  ASSUME IInv, NEW i \in Calls, UNCHANGED <<act, sent, memos, audit>>,
         \E c \in CallRow : CallOK(c) /\ call' = [call EXCEPT ![i] = c]
  PROVE  IInv'
<1>1. Keep
  BY DEF Keep, Decided, Served
<1>2. act' \in [Actions -> ActRow] /\ ExecutedWasIssued'
  BY DEF IInv, TypeOK, ActRow, ExecutedWasIssued
<1> QED BY <1>1, <1>2, PipelineStep

LEMMA InitIInv == Init => IInv
BY KeyAssumption
   DEF Init, IInv, TypeOK, RequestsOK, MemosOK, UniqueKeys, AuditOK, CallsOK, CallOK,
       ExecutedWasIssued, NoAction, Idle, NoRequest, Args, RequestRow, Keys

-----------------------------------------------------------------------------
(* The steps of the pipeline                                                *)

LEMMA IdleOK == Idle \in CallRow /\ CallOK(Idle)
BY DEF Idle, CallRow, CallOK, Args

LEMMA CallsTyped == TypeOK => \A i \in Calls : call[i] \in CallRow
BY DEF TypeOK, CallRow

LEMMA StartStep ==
  ASSUME IInv, NEW i \in Calls, NEW key \in Keys, NEW x \in Args,
         Start(i, key, RefOf(key), x),
         RefOf(key) # None => Decided(key) /\ x = act[key].args
  PROVE  IInv'
<1> DEFINE c == [Idle EXCEPT !.phase = "received", !.key = key, !.ref = RefOf(key), !.args = x]
<1>1. c \in CallRow
  BY RefTyped DEF Idle, CallRow
<1>2. CallOK(c)
  BY DEF Idle, CallOK, RefOf
<1> QED BY <1>1, <1>2, CallStep DEF Start

LEMMA AnswerStep ==
  ASSUME IInv, NEW i \in Calls, NEW ok \in BOOLEAN, Answers(i, ok),
         UNCHANGED <<act, sent, memos, audit>>, call[i].phase # "idle",
         ok /\ Live(call[i].key) => Served(call[i].key)
  PROVE  IInv'
<1>1. call[i] \in CallRow /\ CallOK(call[i])
  BY CallsTyped DEF IInv, CallsOK
<1> DEFINE c == [Idle EXCEPT !.phase = "answered", !.key = call[i].key, !.ok = ok]
<1>2. c \in CallRow
  BY <1>1 DEF Idle, CallRow, Args
<1>3. CallOK(c)
  BY <1>1 DEF Idle, CallOK
<1> QED BY <1>2, <1>3, CallStep DEF Answers

\* A call that goes on as it is, in a phase that asks no more than Served.
LEMMA MoveStep ==
  ASSUME IInv, NEW i \in Calls, NEW p \in {"checked", "succeeding"}, Moves(i, p),
         UNCHANGED <<act, sent, memos, audit>>,
         p = "checked" => call[i].phase = "received",
         p = "succeeding" => call[i].phase \in {"proposing", "ran"} /\ Served(call[i].key)
  PROVE  IInv'
<1>1. call[i] \in CallRow /\ CallOK(call[i])
  BY CallsTyped DEF IInv, CallsOK
<1> DEFINE c == [call[i] EXCEPT !.phase = p]
<1>2. c \in CallRow
  BY <1>1 DEF CallRow
<1>3. CallOK(c)
  BY <1>1 DEF CallOK, CallRow
<1> QED BY <1>2, <1>3, CallStep DEF Moves

LEMMA RequestTyped ==
  ASSUME TypeOK, NEW i \in Calls, NEW d \in PolicyDecision, NEW x \in Args,
         call[i].key \in Keys
  PROVE  Request(i, d, x) \in RequestRow
BY DEF TypeOK, Request, RequestRow

LEMMA SendStep ==
  ASSUME IInv, NEW i \in Calls, NEW q \in RequestRow, RequestOK(q), Sends(i, q),
         call[i].phase \notin {"idle", "answered"},
         UNCHANGED <<act, memos, audit>>
  PROVE  IInv'
<1>1. call[i] \in CallRow /\ CallOK(call[i])
  BY CallsTyped DEF IInv, CallsOK
<1> DEFINE c == [call[i] EXCEPT !.phase = "running", !.request = q]
<1>2. c \in CallRow
  BY <1>1 DEF CallRow
<1>3. CallOK(c)
  BY <1>1 DEF CallOK, CallRow
<1>4. \E d \in CallRow : CallOK(d) /\ call' = [call EXCEPT ![i] = d]
  BY <1>2, <1>3 DEF Sends
<1>5. Keep
  BY DEF Keep, Decided, Served
<1>6. act' \in [Actions -> ActRow] /\ ExecutedWasIssued'
  BY DEF IInv, TypeOK, ActRow, ExecutedWasIssued
<1>7. \A r \in sent' : r \in sent \/ (r \in RequestRow /\ RequestOK(r))
  BY DEF Sends
<1> HIDE DEF c
<1> QED BY <1>4, <1>5, <1>6, <1>7, PipelineStep

LEMMA ReturnStep ==
  ASSUME IInv, NEW i \in Calls, handler_returns(i)
  PROVE  IInv'
<1>1. call[i] \in CallRow /\ CallOK(call[i])
  BY CallsTyped DEF IInv, CallsOK
<1>2. call[i].phase = "running" /\ Served(call[i].key)
  BY DEF handler_returns
<1> DEFINE c == [Idle EXCEPT !.phase = IF call[i].ref = None THEN "succeeding" ELSE "ran",
                             !.key = call[i].key, !.ref = call[i].ref]
<1>3. c \in CallRow
  BY <1>1 DEF CallRow, Idle, Args
<1>4. CallOK(c)
  BY <1>1, <1>2 DEF CallOK, CallRow, Idle
<1> QED BY <1>3, <1>4, CallStep DEF handler_returns

\* The action of a call that ran becomes EXECUTED: its memo is there, under its own key.
LEMMA MarkStep ==
  ASSUME IInv, NEW i \in Calls, Ran(i), Approval(call[i].ref), Executes(call[i].ref),
         UNCHANGED <<sent, memos, audit>>,
         Moves(i, "succeeding") \/ Answers(i, FALSE)
  PROVE  IInv'
<1> DEFINE a == call[i].ref
<1>1. call[i] \in CallRow /\ CallOK(call[i])
  BY CallsTyped DEF IInv, CallsOK
<1>2. a \in Actions /\ call[i].key = a /\ Served(call[i].key)
  BY <1>1, KeyAssumption DEF CallOK, Ran, RefOf
<1>3. act' = [act EXCEPT ![a] = [act[a] EXCEPT !.status = "EXECUTED"]]
  BY DEF Executes
<1>4. act \in [Actions -> ActRow]
  BY DEF IInv, TypeOK, ActRow
<1> HIDE DEF a
<1>5. act' \in [Actions -> ActRow]
  BY <1>2, <1>3, <1>4 DEF ActRow, ActionStatus
<1>6. Keep
  BY <1>2, <1>3, <1>4 DEF Keep, Decided, Served, ActRow, NoAction
<1>7. \E k \in DOMAIN memos : memos[k].ref = a
  <2>1. a \notin ProposeKeys
    BY <1>2, KeyAssumption
  <2>2. PICK k \in DOMAIN memos : memos[k].key = a
    BY <1>2, <2>1 DEF Served
  <2> QED BY <1>2, <2>2 DEF IInv, MemosOK, RequestOK, RefOf
<1>8. ExecutedWasIssued'
  <2> SUFFICES ASSUME NEW b \in Actions, act'[b].status = "EXECUTED"
               PROVE  \E k \in DOMAIN memos : memos[k].ref = b
    BY DEF ExecutedWasIssued
  <2>1. CASE b = a
    BY <1>7, <2>1
  <2>2. CASE b # a
    BY <1>3, <1>4, <2>2 DEF IInv, ExecutedWasIssued
  <2> QED BY <2>1, <2>2
<1>9. \E c \in CallRow : CallOK(c) /\ call' = [call EXCEPT ![i] = c]
  <2>1. CASE Moves(i, "succeeding")
    <3> DEFINE c == [call[i] EXCEPT !.phase = "succeeding"]
    <3>1. c \in CallRow
      BY <1>1 DEF CallRow
    <3>2. CallOK(c)
      BY <1>1 DEF CallOK, CallRow, Ran
    <3> QED BY <2>1, <3>1, <3>2 DEF Moves
  <2>2. CASE Answers(i, FALSE)
    <3> DEFINE c == [Idle EXCEPT !.phase = "answered", !.key = call[i].key, !.ok = FALSE]
    <3>1. c \in CallRow
      BY <1>1 DEF CallRow, Idle, Args
    <3>2. CallOK(c)
      BY <1>1 DEF CallOK, CallRow, Idle, Ran
    <3> QED BY <2>2, <3>1, <3>2 DEF Answers
  <2> QED BY <2>1, <2>2
<1> QED BY <1>5, <1>6, <1>8, <1>9, PipelineStep

LEMMA AuditStep ==
  ASSUME IInv, NEW i \in Calls, _audit(i)
  PROVE  IInv'
<1>1. call[i] \in CallRow /\ CallOK(call[i])
  BY CallsTyped DEF IInv, CallsOK
<1>2. call[i].phase = "succeeding" /\ Served(call[i].key) /\ call[i].key \in Keys
  BY <1>1 DEF _audit, Succeeds, CallOK
<1>3. PICK ok \in BOOLEAN : Answers(i, ok)
  BY DEF _audit
<1> DEFINE c == [Idle EXCEPT !.phase = "answered", !.key = call[i].key, !.ok = ok]
<1>4. c \in CallRow
  BY <1>1 DEF CallRow, Idle, Args
<1>5. CallOK(c)
  BY <1>2 DEF CallOK, CallRow, Idle
<1>6. \E d \in CallRow : CallOK(d) /\ call' = [call EXCEPT ![i] = d]
  BY <1>3, <1>4, <1>5 DEF Answers
<1>7. Keep /\ act' \in [Actions -> ActRow] /\ ExecutedWasIssued'
  BY DEF _audit, Keep, Decided, Served, IInv, TypeOK, ActRow, ExecutedWasIssued
<1>8. \A key \in audit' : key \in audit \/ (key \in Keys /\ Served(key))
  BY <1>2 DEF _audit
<1>9. sent' = sent /\ memos' = memos
  BY DEF _audit
<1> HIDE DEF c
<1> QED BY <1>6, <1>7, <1>8, <1>9, PipelineStep

LEMMA MemoStep ==
  ASSUME IInv, NEW i \in Calls, create_credit_memo(i)
  PROVE  IInv'
<1> DEFINE a == call[i].ref
<1>1. call[i] \in CallRow /\ CallOK(call[i])
  BY CallsTyped DEF IInv, CallsOK
<1>2. /\ call[i].phase = "checked" /\ call[i].key \in Keys /\ Live(call[i].key)
      /\ a = RefOf(call[i].key) /\ call[i].key \notin ProposeKeys
      /\ a # None => a \in Actions /\ Decided(a) /\ call[i].args = act[a].args
      /\ call[i].args \in Args /\ UNCHANGED <<act, memos, audit>>
  BY <1>1 DEF create_credit_memo, CallOK, CallRow, IsLive
<1>3. CASE Sends(i, Request(i, "ALLOW", call[i].args))
  <2>1. Request(i, "ALLOW", call[i].args) \in RequestRow
    BY <1>2, RequestTyped DEF PolicyDecision, IInv
  <2>2. RequestOK(Request(i, "ALLOW", call[i].args))
    BY <1>2 DEF RequestOK, Request
  <2> QED BY <1>2, <1>3, <2>1, <2>2, SendStep
<1>4. ASSUME Approval(a), Sends(i, Request(i, "REQUIRE_APPROVAL",
               IF act[a].status = "EDITED" THEN act[a].args ELSE call[i].args))
      PROVE IInv'
  <2>1. Sends(i, Request(i, "REQUIRE_APPROVAL", act[a].args)) /\ a \in Actions /\ a # None
    BY <1>2, <1>4 DEF Approval
  <2>2. Request(i, "REQUIRE_APPROVAL", act[a].args) \in RequestRow
    BY <1>2, <2>1, RequestTyped DEF PolicyDecision, IInv, TypeOK
  <2>3. RequestOK(Request(i, "REQUIRE_APPROVAL", act[a].args))
    BY <1>2, <2>1 DEF RequestOK, Request
  <2> QED BY <1>2, <2>1, <2>2, <2>3, SendStep
<1> QED BY <1>3, <1>4 DEF create_credit_memo

LEMMA ProposalStep ==
  ASSUME IInv, NEW i \in Calls, _gate_proposal(i) \/ propose_action(i)
  PROVE  IInv'
<1>1. call[i] \in CallRow /\ CallOK(call[i])
  BY CallsTyped DEF IInv, CallsOK
<1>2. CASE _gate_proposal(i)
  <2>1. PICK d \in PolicyDecision :
          call' = [call EXCEPT ![i] =
            [call[i] EXCEPT !.phase = "proposing", !.request = Request(i, d, "model")]]
    BY <1>2 DEF _gate_proposal
  <2>2. call[i].key \in ProposeKeys /\ call[i].key \in Keys /\ call[i].phase = "checked"
    BY <1>2 DEF _gate_proposal, Keys
  <2>3. call[i].ref = None
    BY <1>1, <2>2, KeyAssumption DEF CallOK, RefOf
  <2>4. Request(i, d, "model") \in RequestRow
    BY <2>2, RequestTyped DEF Args, IInv
  <2> DEFINE c == [call[i] EXCEPT !.phase = "proposing", !.request = Request(i, d, "model")]
  <2>5. c \in CallRow
    BY <1>1, <2>4 DEF CallRow
  <2>6. CallOK(c)
    BY <1>1, <2>2, <2>3, <2>4 DEF CallOK, CallRow, Request
  <2> QED BY <1>2, <2>1, <2>5, <2>6, CallStep DEF _gate_proposal
<1>3. CASE propose_action(i)
  <2>1. /\ call[i].phase = "proposing" /\ call[i].key \in ProposeKeys
        /\ call[i].request \in RequestRow /\ call[i].request.key = call[i].key
        /\ call[i].request.ref = None /\ UNCHANGED <<act, memos, audit>>
    BY <1>1, <1>3 DEF propose_action, CallOK
  <2>2. ASSUME NEW a \in Actions, Open(a), Moves(i, "succeeding"), UNCHANGED sent
        PROVE IInv'
    <3>1. Served(call[i].key)
      BY <2>1, <2>2 DEF Served, Open, NoAction
    <3> QED BY <2>1, <2>2, <3>1, MoveStep
  <2>3. ASSUME Sends(i, call[i].request)
        PROVE IInv'
    <3>1. RequestOK(call[i].request)
      BY <2>1, KeyAssumption DEF RequestOK, RefOf
    <3> QED BY <2>1, <2>3, <3>1, SendStep
  <2> QED BY <1>3, <2>2, <2>3 DEF propose_action
<1> QED BY <1>2, <1>3

LEMMA PipelinePreserves ==
  ASSUME IInv, NEW i \in Calls, Pipeline(i)
  PROVE  IInv'
<1>1. call[i] \in CallRow /\ CallOK(call[i])
  BY CallsTyped DEF IInv, CallsOK
<1>2. CASE _cached(i)
  <2>1. ASSUME call[i].key \in audit, Answers(i, TRUE) PROVE IInv'
    <3>1. Served(call[i].key)
      BY <2>1 DEF IInv, AuditOK
    <3> QED BY <1>2, <2>1, <3>1, AnswerStep DEF _cached
  <2>2. ASSUME Moves(i, "checked") PROVE IInv'
    BY <1>2, <2>2, MoveStep DEF _cached
  <2> QED BY <1>2, <2>1, <2>2 DEF _cached
<1>3. CASE _simulate(i)
  BY <1>3, AnswerStep DEF _simulate
<1>4. CASE Fails(i)
  BY <1>4, AnswerStep DEF Fails
<1>5. CASE mark_executed(i) \/ mark_unanswered(i)
  BY <1>5, MarkStep DEF mark_executed, mark_unanswered
<1>6. CASE mark_refused(i)
  BY <1>1, <1>6, MoveStep DEF mark_refused, CallOK
<1>7. CASE Ends(i)
  BY <1>7, IdleOK, CallStep DEF Ends
<1> QED
  BY <1>2, <1>3, <1>4, <1>5, <1>6, <1>7, MemoStep, ProposalStep, ReturnStep, AuditStep
     DEF Pipeline

LEMMA CallersPreserve ==
  ASSUME IInv, NEW i \in Calls, Callers(i)
  PROVE  IInv'
<1>1. ASSUME NEW key \in MemoKeys \cup ProposeKeys, invoke(i, key) PROVE IInv'
  <2>1. RefOf(key) = None /\ key \in Keys /\ "model" \in Args
    BY KeyAssumption DEF RefOf, Keys, Args
  <2> QED BY <1>1, <2>1, StartStep DEF invoke
<1>2. ASSUME NEW a \in Actions, execute_action(i, a) PROVE IInv'
  <2>1. RefOf(a) = a /\ a \in Keys /\ act[a].args \in Args
    BY DEF RefOf, Keys, IInv, TypeOK
  <2> QED BY <1>2, <2>1, StartStep DEF execute_action
<1> QED BY <1>1, <1>2 DEF Callers

-----------------------------------------------------------------------------
(* The steps of the services behind, and of the people                      *)

LEMMA ErpStep ==
  ASSUME IInv, NEW q \in sent, erp_credit_memo(q)
  PROVE  IInv'
<1>1. q \in RequestRow /\ RequestOK(q) /\ q.key \notin ProposeKeys
  BY DEF IInv, TypeOK, RequestsOK, erp_credit_memo
<1>2. memos' = memos \/ (NewKey(q) /\ memos' = Append(memos, q))
  BY DEF erp_credit_memo
<1>3. /\ memos' \in Seq(RequestRow) /\ DOMAIN memos \subseteq DOMAIN memos'
      /\ \A k \in DOMAIN memos : memos'[k] = memos[k]
      /\ \A k \in DOMAIN memos' \ DOMAIN memos :
           k = Len(memos) + 1 /\ memos'[k] = q /\ NewKey(q)
  BY <1>1, <1>2 DEF IInv, TypeOK
<1>4. Keep
  <2>1. \A key \in Keys : Served(key) => Served(key)'
    BY <1>3 DEF Served, erp_credit_memo
  <2> QED BY <2>1 DEF Keep, Decided, erp_credit_memo
<1>5. TypeOK'
  BY <1>3 DEF IInv, TypeOK, erp_credit_memo
<1>6. CallsOK'
  BY <1>4, CallStays, CallsTyped DEF IInv, CallsOK, erp_credit_memo
<1>7. RequestsOK'
  BY <1>4, RequestStays DEF IInv, RequestsOK, TypeOK, erp_credit_memo
<1>8. MemosOK'
  <2> SUFFICES ASSUME NEW k \in DOMAIN memos'
               PROVE  RequestOK(memos[k])' /\ memos'[k].key \notin ProposeKeys
    BY DEF MemosOK
  <2>1. PICK m \in RequestRow : m = memos'[k] /\ RequestOK(m) /\ m.key \notin ProposeKeys
    BY <1>1, <1>3 DEF IInv, TypeOK, MemosOK
  <2>2. RequestOK(m)'
    BY <1>4, <2>1, RequestStays
  <2> QED BY <2>1, <2>2 DEF RequestOK
<1>9. UniqueKeys'
  BY <1>3 DEF IInv, UniqueKeys, NewKey
<1>10. AuditOK'
  BY <1>4 DEF IInv, TypeOK, AuditOK, Keep, erp_credit_memo
<1>11. ExecutedWasIssued'
  BY <1>3 DEF IInv, ExecutedWasIssued, erp_credit_memo
<1> QED BY <1>5, <1>6, <1>7, <1>8, <1>9, <1>10, <1>11 DEF IInv

\* A step that changes an action that was not decided, and at most takes a request away.
LEMMA RowStep ==
  ASSUME IInv, NEW a \in Actions, NEW r \in ActRow,
         ~Decided(a), r.status \notin {"EXECUTED", "none"},
         act' = [act EXCEPT ![a] = r], sent' \subseteq sent, UNCHANGED <<call, memos, audit>>
  PROVE  IInv'
<1>1. act \in [Actions -> ActRow]
  BY DEF IInv, TypeOK, ActRow
<1>2. act' \in [Actions -> ActRow] /\ act'[a] = r
  BY <1>1
<1>3. Keep
  <2>1. \A b \in Actions : Decided(b) => Decided(b)' /\ act'[b].args = act[b].args
    BY <1>1 DEF Decided
  <2>2. \A key \in Keys : Served(key) => Served(key)'
    BY <1>1, <1>2 DEF Served, NoAction
  <2> QED BY <2>1, <2>2 DEF Keep
<1>4. TypeOK'
  BY <1>2 DEF IInv, TypeOK, ActRow
<1>5. CallsOK'
  BY <1>3, CallStays, CallsTyped DEF IInv, CallsOK
<1>6. RequestsOK'
  BY <1>3, RequestStays DEF IInv, RequestsOK, TypeOK
<1>7. MemosOK'
  <2> SUFFICES ASSUME NEW k \in DOMAIN memos
               PROVE  RequestOK(memos[k])' /\ memos[k].key \notin ProposeKeys
    BY DEF MemosOK
  <2>1. PICK m \in RequestRow : m = memos[k]
    BY DEF IInv, TypeOK
  <2>2. RequestOK(m)'
    BY <1>3, <2>1, RequestStays DEF IInv, MemosOK
  <2> QED BY <2>1, <2>2 DEF RequestOK, IInv, MemosOK
<1>8. UniqueKeys' /\ AuditOK'
  BY <1>3 DEF IInv, TypeOK, UniqueKeys, AuditOK, Keep
<1>9. ExecutedWasIssued'
  BY <1>1 DEF IInv, ExecutedWasIssued
<1> QED BY <1>4, <1>5, <1>6, <1>7, <1>8, <1>9 DEF IInv

LEMMA DropStep ==
  ASSUME IInv, NEW q \in sent, Dropped(q)
  PROVE  IInv'
<1>1. Keep
  BY DEF Dropped, Keep, Decided, Served
<1>2. CallsOK' /\ RequestsOK'
  BY <1>1, CallStays, CallsTyped, RequestStays DEF IInv, CallsOK, RequestsOK, TypeOK, Dropped
<1>3. MemosOK'
  BY DEF IInv, MemosOK, RequestOK, Decided, Dropped
<1> QED
  BY <1>2, <1>3
     DEF IInv, TypeOK, UniqueKeys, AuditOK, Served, ExecutedWasIssued, Dropped

LEMMA ServicesPreserve ==
  ASSUME IInv, Backends \/ \E a \in Actions, decision \in Decision : decide_action(a, decision)
  PROVE  IInv'
<1>1. ASSUME NEW q \in sent, NEW a \in Actions, case_propose(q, a) PROVE IInv'
  <2>1. q.verdict \in PolicyDecision
    BY DEF IInv, TypeOK, RequestRow
  <2> DEFINE r == [NoAction EXCEPT !.status = InitialActionStatus[q.verdict]]
  <2>2. r \in ActRow /\ r.status \notin {"EXECUTED", "none"}
    BY <2>1, Verdicts DEF NoAction, ActRow, Args, ActionStatus
  <2>3. ~Decided(a)
    BY <1>1 DEF case_propose, NoAction, Decided
  <2> QED BY <1>1, <2>2, <2>3, RowStep DEF case_propose
<1>2. ASSUME NEW a \in Actions, NEW decision \in Decision, decide_action(a, decision)
      PROVE IInv'
  <2> DEFINE r == [status |-> decision, args |-> IF decision = "EDITED" THEN "human" ELSE "model"]
  <2>1. r \in ActRow /\ r.status \notin {"EXECUTED", "none"}
    BY DEF ActRow, Args, ActionStatus, Decision
  <2>2. ~Decided(a)
    BY <1>2 DEF decide_action, Decided
  <2> QED BY <1>2, <2>1, <2>2, RowStep DEF decide_action
<1> QED BY <1>1, <1>2, ErpStep, DropStep DEF Backends

LEMMA Stutter == ASSUME IInv, UNCHANGED vars PROVE IInv'
BY DEF vars, IInv, TypeOK, RequestsOK, RequestOK, MemosOK, UniqueKeys, AuditOK, CallsOK,
       CallOK, Served, Decided, ExecutedWasIssued

THEOREM Inductive == Spec => []IInv
<1>1. IInv /\ [Next]_vars => IInv'
  BY PipelinePreserves, CallersPreserve, ServicesPreserve, Stutter DEF Next
<1> QED BY InitIInv, <1>1, PTL DEF Spec

-----------------------------------------------------------------------------
(* What follows                                                             *)

\* Every row, call and request is well formed.
THEOREM TypeCorrect == Spec => []TypeOK
<1>1. IInv => TypeOK
  BY DEF IInv
<1> QED BY Inductive, <1>1, PTL

\* One memo per key and one per approval: with the executor's keys the second
\* follows from the ERP's unique keys, which are all that retries can rely on.
THEOREM OneMemoEach == Spec => []AtMostOneMemo
<1>1. IInv => AtMostOneMemo
  BY KeyAssumption DEF IInv, AtMostOneMemo, MemosOK, RequestOK, UniqueKeys, RefOf, TypeOK
<1> QED BY Inductive, <1>1, PTL

\* No memo without a policy that allows it or an approval, and none in shadow runs;
\* the human's edit is what the ERP is given, whichever way policy decides later.
THEOREM NothingUnauthorised == Spec => []MemoAuthorised
<1>1. IInv => MemoAuthorised
  BY DEF IInv, MemoAuthorised, MemosOK, RequestOK
<1> QED BY Inductive, <1>1, PTL

\* Nothing is marked executed that was not.
THEOREM ExecutedIsTrue == Spec => []ExecutedWasIssued
<1>1. IInv => ExecutedWasIssued
  BY DEF IInv
<1> QED BY Inductive, <1>1, PTL

\* SUCCESS, given or remembered, means that it happened.
THEOREM SuccessIsHonest == Spec => []SuccessIsTrue
<1>1. IInv => SuccessIsTrue
  BY DEF IInv, SuccessIsTrue, CallsOK, CallOK, AuditOK
<1> QED BY Inductive, <1>1, PTL

-----------------------------------------------------------------------------
(* The loop.  Two nodes make an iteration, so LangGraph's limit, which has  *)
(* room for two more, is never what stops it.                               *)

Nodes == {"model", "tools", "ended"}

\* How many nodes may have run by the time the loop is at one of them.
Paced ==
  /\ loop.iterations \in 0..max_iterations /\ loop.nodes \in Nat
  /\ loop.node = "model" => loop.nodes <= 2 * loop.iterations
  /\ loop.node = "tools" => loop.nodes < 2 * loop.iterations

Shaped ==
  /\ loop.node \in Nodes
  /\ loop = [node |-> loop.node, iterations |-> loop.iterations, repairs |-> loop.repairs,
             nodes |-> loop.nodes, accepted |-> loop.accepted, outcome |-> loop.outcome]

\* While it works nothing has become of it.
Undecided == loop.node # "ended" => loop.outcome = "none"

LoopInv == Shaped /\ Paced /\ Undecided /\ BudgetsBind

LEMMA LoopInitInv == LoopInit => LoopInv
  BY LoopAssumption DEF LoopInit, LoopInv, Shaped, Paced, Undecided, BudgetsBind, Nodes

(* The graph's own limit is out of reach while there are iterations to spare. *)
LEMMA BelowLimit == LoopInv /\ loop.node # "ended" => loop.nodes < recursion_limit
<1> SUFFICES ASSUME LoopInv, loop.node # "ended" PROVE loop.nodes < recursion_limit
  OBVIOUS
<1>1. /\ loop.iterations \in Nat /\ loop.iterations <= max_iterations /\ max_iterations \in Nat
      /\ loop.nodes \in Nat /\ loop.nodes <= 2 * loop.iterations
  BY LoopAssumption DEF LoopInv, Shaped, Paced, Nodes
<1> QED
  BY <1>1 DEF recursion_limit

LEMMA FinishesInv ==
  ASSUME LoopInv, NEW outcome, Finishes(outcome), outcome \notin {"recursion", "result"}
  PROVE  LoopInv'
<1>1. /\ loop'.node = "ended" /\ loop'.outcome = outcome
      /\ loop'.iterations = loop.iterations /\ loop'.nodes = loop.nodes
      /\ loop' = [node |-> "ended", iterations |-> loop.iterations, repairs |-> loop.repairs,
                  nodes |-> loop.nodes, accepted |-> loop.accepted, outcome |-> outcome]
  BY DEF LoopInv, Shaped, Finishes
<1> QED
  BY <1>1 DEF LoopInv, Shaped, Paced, Undecided, BudgetsBind, Nodes

LEMMA ModelNodeInv == LoopInv /\ _model_node => LoopInv'
<1> SUFFICES ASSUME LoopInv, _model_node PROVE LoopInv'
  OBVIOUS
<1>1. PICK calls \in Turns :
        loop' = [loop EXCEPT !.node = _route(calls), !.iterations = @ + 1, !.nodes = @ + 1,
                             !.outcome = IF loop.accepted THEN "result" ELSE "none"]
  BY DEF _model_node
<1>2. loop' = [node |-> _route(calls), iterations |-> loop.iterations + 1, repairs |-> loop.repairs,
               nodes |-> loop.nodes + 1, accepted |-> loop.accepted,
               outcome |-> IF loop.accepted THEN "result" ELSE "none"]
  BY <1>1 DEF LoopInv, Shaped
<1>3. _route(calls) \in Nodes
  BY DEF _route, Nodes
<1>4. Shaped'
  BY <1>2, <1>3 DEF Shaped
<1>5. /\ loop.iterations \in Nat /\ loop.iterations < max_iterations /\ max_iterations \in Nat
      /\ loop.nodes \in Nat /\ loop.nodes <= 2 * loop.iterations
  BY LoopAssumption DEF LoopInv, Shaped, Paced, Nodes, _model_node, At
<1>6. Paced'
  BY <1>2, <1>5 DEF Paced
<1>7. BudgetsBind' /\ Undecided'
  BY <1>2 DEF BudgetsBind, Undecided, _route
<1> QED
  BY <1>4, <1>6, <1>7 DEF LoopInv

LEMMA ToolsNodeInv == LoopInv /\ _tools_node => LoopInv'
<1> SUFFICES ASSUME LoopInv, _tools_node PROVE LoopInv'
  OBVIOUS
<1>1. PICK repairs, accepted :
        /\ loop' = [loop EXCEPT !.node = "model", !.nodes = @ + 1, !.repairs = repairs,
                                !.accepted = accepted]
        /\ loop.node = "tools"
  BY DEF _tools_node, At
<1>2. loop' = [node |-> "model", iterations |-> loop.iterations, repairs |-> repairs,
               nodes |-> loop.nodes + 1, accepted |-> accepted, outcome |-> loop.outcome]
  BY <1>1 DEF LoopInv, Shaped
<1>3. Shaped'
  BY <1>2 DEF Shaped, Nodes
<1>4. Paced'
  BY <1>1, <1>2, LoopAssumption DEF LoopInv, Paced
<1>5. BudgetsBind' /\ Undecided'
  BY <1>1, <1>2 DEF LoopInv, BudgetsBind, Undecided
<1> QED
  BY <1>3, <1>4, <1>5 DEF LoopInv

LEMMA LoopStep == LoopInv /\ [LoopNext]_agent => LoopInv'
<1> SUFFICES ASSUME LoopInv, [LoopNext]_agent PROVE LoopInv'
  OBVIOUS
<1>1. CASE _model_node
  BY <1>1, ModelNodeInv
<1>2. CASE _tools_node
  BY <1>2, ToolsNodeInv
<1>3. CASE Stopped
  <2>1. Finishes("budget")
    BY <1>3, BelowLimit, LoopAssumption DEF Stopped, recursion_limit, LoopInv, Paced
  <2> QED
    BY <2>1, FinishesInv
<1>4. CASE ModelFails
  BY <1>4, FinishesInv DEF ModelFails
<1>5. CASE RepairExhausted
  BY <1>5, FinishesInv DEF RepairExhausted
<1>6. CASE UNCHANGED agent
  BY <1>6 DEF agent, LoopInv, Shaped, Paced, Undecided, BudgetsBind
<1> QED
  BY <1>1, <1>2, <1>3, <1>4, <1>5, <1>6 DEF LoopNext

(* Whatever the model answers and however often it has to repair what it submits, an *)
(* agent's own budgets stop it, with the error that keeps its transcript, before     *)
(* LangGraph does, and what it returns was submitted and found valid.                *)
THEOREM BudgetsAlwaysBind == LoopSpec => []BudgetsBind
<1>1. LoopInv => BudgetsBind
  BY DEF LoopInv
<1> QED
  BY LoopInitInv, LoopStep, <1>1, PTL DEF LoopSpec

-----------------------------------------------------------------------------
(* What a transcript owes to a provider: an answer to each call.            *)

\* There is one way, and one only, of putting the numbers of a finite set in order; what
\* matters here is that it takes each of them once.
LEMMA AscendingExists ==
  ASSUME NEW S \in SUBSET Nat, IsFiniteSet(S)
  PROVE  \E s \in [1..Cardinality(S) -> S] : \A i, j \in 1..Cardinality(S) : i < j => s[i] < s[j]
<1> DEFINE A == {n \in Nat : \A T \in SUBSET S : Cardinality(T) = n =>
                    \E s \in [1..n -> T] : \A i, j \in 1..n : i < j => s[i] < s[j]}
<1>1. 0 \in A
  <2> SUFFICES ASSUME NEW T \in SUBSET S, Cardinality(T) = 0
               PROVE  \E s \in [1..0 -> T] : \A i, j \in 1..0 : i < j => s[i] < s[j]
    OBVIOUS
  <2> DEFINE s == [i \in 1..0 |-> i]
  <2>1. s \in [1..0 -> T] /\ \A i, j \in 1..0 : i < j => s[i] < s[j]
    OBVIOUS
  <2> QED
    BY <2>1
<1>2. ASSUME NEW n \in A
      PROVE  n + 1 \in A
  <2>1. n \in Nat /\ n + 1 \in Nat
    OBVIOUS
  <2> SUFFICES ASSUME NEW T \in SUBSET S, Cardinality(T) = n + 1
               PROVE  \E s \in [1..(n + 1) -> T] : \A i, j \in 1..(n + 1) : i < j => s[i] < s[j]
    BY <2>1
  <2>0. \A U \in SUBSET S : Cardinality(U) = n =>
          \E s \in [1..n -> U] : \A i, j \in 1..n : i < j => s[i] < s[j]
    OBVIOUS
  <2> HIDE DEF A
  <2>2. IsFiniteSet(T) /\ T # {} /\ T \in SUBSET Int
    <3>1. IsFiniteSet(T)
      BY FS_Subset
    <3>2. n + 1 # 0
      BY <2>1
    <3>3. T # {}
      BY <3>2, FS_EmptySet
    <3> QED
      BY <3>1, <3>3
  <2> DEFINE m == Max(T)
  <2>3. m \in T /\ \A y \in T : m >= y
    BY <2>2, MaxIs
  <2> HIDE DEF m
  <2>4. T \ {m} \in SUBSET S /\ Cardinality(T \ {m}) = n
    <3>1. Cardinality(T \ {m}) = Cardinality(T) - 1
      BY <2>2, <2>3, FS_RemoveElement
    <3>2. Cardinality(T \ {m}) = n
      BY <2>1, <3>1
    <3>3. T \ {m} \in SUBSET S
      OBVIOUS
    <3> QED
      BY <3>2, <3>3
  <2>5. PICK s \in [1..n -> T \ {m}] : \A i, j \in 1..n : i < j => s[i] < s[j]
    BY <2>0, <2>4
  <2> DEFINE t == [i \in 1..(n + 1) |-> IF i = n + 1 THEN m ELSE s[i]]
  <2>6. t \in [1..(n + 1) -> T]
    BY <2>1, <2>3, <2>5
  <2>7. ASSUME NEW i \in 1..(n + 1), NEW j \in 1..(n + 1), i < j
        PROVE  t[i] < t[j]
    <3>0. i \in 1..n /\ i # n + 1
      BY <2>1, <2>7
    <3>1. i \in 1..n /\ t[i] = s[i] /\ s[i] \in T /\ s[i] # m /\ s[i] \in Nat /\ m \in Nat
      BY <3>0, <2>3, <2>5
    <3>2. CASE j = n + 1
      <4>1. m >= s[i]
        BY <2>3, <3>1
      <4> QED
        BY <3>1, <3>2, <4>1
    <3>3. CASE j \in 1..n
      BY <2>1, <2>5, <2>7, <3>1, <3>3
    <3> QED
      BY <2>1, <3>2, <3>3
  <2> HIDE DEF t
  <2> QED
    BY <2>6, <2>7
<1> HIDE DEF A
<1>3. A = Nat
  BY <1>1, <1>2, NatSetInduction DEF A
<1>4. Cardinality(S) \in Nat
  BY FS_CardinalityType
<1> QED
  BY <1>3, <1>4 DEF A

\* Each of S once.
Lists(s, S) ==
  /\ s \in Seq(S) /\ Len(s) = Cardinality(S)
  /\ \A x \in S : \E i \in DOMAIN s : s[i] = x
  /\ \A i, j \in DOMAIN s : s[i] = s[j] => i = j

LEMMA AscendingLists ==
  ASSUME NEW S \in SUBSET Nat, IsFiniteSet(S)
  PROVE  Lists(Ascending(S), S)
<1> DEFINE n == Cardinality(S)
           s == Ascending(S)
<1>1. n \in Nat
  BY FS_CardinalityType
<1>2. s \in [1..n -> S] /\ \A i, j \in 1..n : i < j => s[i] < s[j]
  BY AscendingExists, Zenon DEF Ascending
<1> HIDE DEF s
<1>3. s \in Seq(S) /\ Len(s) = n /\ DOMAIN s = 1..n
  <2> HIDE DEF n
  <2> QED
    BY <1>1, <1>2
<1>4. ASSUME NEW i \in 1..n, NEW j \in 1..n, s[i] = s[j]
      PROVE  i = j
  <2>1. s[i] \in Nat /\ s[j] \in Nat
    BY <1>2
  <2>2. ~(i < j) /\ ~(j < i)
    BY <1>2, <1>4, <2>1
  <2> QED
    BY <2>2
<1>5. s \in Injection(1..n, S)
  BY <1>2, <1>4 DEF Injection, IsInjective
<1>6. IsFiniteSet(1..n) /\ Cardinality(1..n) = n
  <2>1. Cardinality(1..n) = IF 1 > n THEN 0 ELSE n - 1 + 1
    BY <1>1, FS_Interval
  <2> HIDE DEF n
  <2> QED
    BY <1>1, <2>1, FS_Interval
<1>7. s \in Surjection(1..n, S)
  BY <1>5, <1>6, FS_Injection
<1>8. \A x \in S : \E i \in 1..n : s[i] = x
  BY <1>7 DEF Surjection
<1>9. Lists(s, S)
  BY <1>3, <1>4, <1>8 DEF Lists
<1> QED
  BY <1>9 DEF s

\* The gateway's calls and the submissions: a list of all the calls.
LEMMA InOrderLists ==
  ASSUME NEW calls \in Seq(CallKinds)
  PROVE  Lists(InOrder(calls), DOMAIN calls) /\ Len(InOrder(calls)) = Len(calls)
<1> DEFINE D == DOMAIN calls
           A == {k \in D : calls[k] \in {"tool"}}
           B == {k \in D : calls[k] \in {"valid", "invalid"}}
           s == Ascending(A)
           t == Ascending(B)
<1>1. D = 1..Len(calls) /\ Len(calls) \in Nat /\ D \in SUBSET Nat
  OBVIOUS
<1>2. IsFiniteSet(D) /\ Cardinality(D) = Len(calls)
  <2>1. Cardinality(1..Len(calls)) = IF 1 > Len(calls) THEN 0 ELSE Len(calls) - 1 + 1
    BY <1>1, FS_Interval
  <2>2. IsFiniteSet(1..Len(calls))
    BY <1>1, FS_Interval
  <2> QED
    BY <1>1, <2>1, <2>2
<1>3. A \cup B = D /\ A \cap B = {} /\ A \in SUBSET Nat /\ B \in SUBSET Nat
  <2>1. \A k \in D : calls[k] \in CallKinds
    OBVIOUS
  <2> QED
    BY <1>1, <2>1 DEF CallKinds
<1>4. IsFiniteSet(A) /\ IsFiniteSet(B)
  BY <1>2, FS_Subset
<1>5. Cardinality(A) + Cardinality(B) = Len(calls)
  <2> HIDE DEF A, B, D
  <2>1. Cardinality(A \cup B) = Cardinality(A) + Cardinality(B) - Cardinality(A \cap B)
    BY <1>4, FS_Union
  <2>2. Cardinality(A \cap B) = 0 /\ Cardinality(A \cup B) = Len(calls)
    BY <1>2, <1>3, FS_EmptySet
  <2>3. Cardinality(A) \in Nat /\ Cardinality(B) \in Nat
    BY <1>4, FS_CardinalityType
  <2> QED
    BY <2>1, <2>2, <2>3
<1>6. InOrder(calls) = s \o t
  BY DEF InOrder, Places
<1>7. Lists(s, A) /\ Lists(t, B)
  BY <1>3, <1>4, AscendingLists
<1> HIDE DEF A, B, s, t, D
<1>8. /\ s \in Seq(D) /\ t \in Seq(D) /\ Len(s) \in Nat /\ Len(t) \in Nat
      /\ DOMAIN s = 1..Len(s) /\ DOMAIN t = 1..Len(t)
      /\ \A i \in DOMAIN s : s[i] \in A
      /\ \A i \in DOMAIN t : t[i] \in B
  BY <1>3, <1>7 DEF Lists
<1>9. /\ s \o t \in Seq(D) /\ Len(s \o t) = Len(calls) /\ DOMAIN (s \o t) = 1..(Len(s) + Len(t))
      /\ \A i \in 1..Len(s) : (s \o t)[i] = s[i]
      /\ \A i \in 1..Len(t) : (s \o t)[Len(s) + i] = t[i]
  BY <1>5, <1>7, <1>8 DEF Lists
<1>10. \A i \in DOMAIN (s \o t) : i \in 1..Len(s) \/ \E k \in 1..Len(t) : i = Len(s) + k
  <2>1. ASSUME NEW i \in 1..(Len(s) + Len(t)), i \notin 1..Len(s)
        PROVE  i - Len(s) \in 1..Len(t) /\ i = Len(s) + (i - Len(s))
    BY <1>8, <2>1
  <2> QED
    BY <1>9, <2>1
<1>11. ASSUME NEW x \in D
       PROVE  \E i \in DOMAIN (s \o t) : (s \o t)[i] = x
  <2>1. CASE x \in A
    <3>1. PICK i \in DOMAIN s : s[i] = x
      BY <1>7, <2>1 DEF Lists
    <3> QED
      BY <1>8, <1>9, <3>1
  <2>2. CASE x \in B
    <3>1. PICK i \in DOMAIN t : t[i] = x
      BY <1>7, <2>2 DEF Lists
    <3>2. Len(s) + i \in 1..(Len(s) + Len(t)) /\ (s \o t)[Len(s) + i] = x
      BY <1>8, <1>9, <3>1
    <3> QED
      BY <1>9, <3>2
  <2> QED
    BY <1>3, <2>1, <2>2
<1>12. ASSUME NEW i \in DOMAIN (s \o t), NEW j \in DOMAIN (s \o t), (s \o t)[i] = (s \o t)[j]
       PROVE  i = j
  <2>1. CASE i \in 1..Len(s) /\ j \in 1..Len(s)
    <3>1. s[i] = s[j] /\ i \in DOMAIN s /\ j \in DOMAIN s
      BY <1>8, <1>9, <1>12, <2>1
    <3> QED
      BY <1>7, <3>1 DEF Lists
  <2>2. ASSUME NEW k \in 1..Len(t), NEW l \in 1..Len(t), i = Len(s) + k, j = Len(s) + l
        PROVE  i = j
    <3>1. t[k] = (s \o t)[i] /\ t[l] = (s \o t)[j] /\ k \in DOMAIN t /\ l \in DOMAIN t
      BY <1>8, <1>9, <2>2
    <3>2. k = l
      BY <1>7, <1>12, <3>1 DEF Lists
    <3> QED
      BY <2>2, <3>2
  <2>0. \A l \in 1..Len(s) : (s \o t)[l] \in A
    BY <1>8, <1>9
  <2>5. \A l \in 1..Len(t) : (s \o t)[Len(s) + l] \in B
    BY <1>8, <1>9
  <2>3. ~(i \in 1..Len(s) /\ \E k \in 1..Len(t) : j = Len(s) + k)
    BY <1>3, <1>12, <2>0, <2>5
  <2>4. ~(j \in 1..Len(s) /\ \E k \in 1..Len(t) : i = Len(s) + k)
    BY <1>3, <1>12, <2>0, <2>5
  <2> QED
    BY <1>10, <2>1, <2>2, <2>3, <2>4
<1>13. Lists(s \o t, D)
  BY <1>2, <1>9, <1>11, <1>12 DEF Lists
<1> QED
  BY <1>6, <1>9, <1>13 DEF D

Message == [role : {"user", "assistant", "tool"}, calls : Seq(CallKinds), answers : Nat]

\* What follows a message, and nothing but answers between.
RepliesIn(m, i) == {j \in DOMAIN m : i < j /\ \A k \in i + 1 .. j : m[k].role = "tool"}
Answered(m, i) ==
  /\ {m[j].answers : j \in RepliesIn(m, i)} = DOMAIN m[i].calls
  /\ Cardinality(RepliesIn(m, i)) = Len(m[i].calls)

\* What the model has said is answered, at each of its turns but the one under way.
Heard(m, node) ==
  \A i \in DOMAIN m : m[i].role = "assistant" =>
    /\ i < Len(m) \/ node = "model" => Answered(m, i)
    /\ i < Len(m) => m[i + 1].role # "assistant"

\* The tools run upon what the model has just said.
Spoken ==
  /\ messages \in Seq(Message)
  /\ loop.node = "tools" => messages # <<>> /\ Last(messages).role = "assistant"
  /\ Heard(messages, loop.node)

LEMMA HeardIs == Heard(messages, loop.node) <=> CallsAnswered
  BY DEF Heard, Answered, RepliesIn, CallsAnswered

\* A message that is no answer ends what a turn was given, whatever comes after it.
LEMMA AnsweredKept ==
  ASSUME NEW m, NEW n, NEW M \in Nat, NEW N \in Nat, M <= N,
         DOMAIN m = 1..M, DOMAIN n = 1..N, \A k \in 1..M : n[k] = m[k],
         NEW i \in Nat, 1 <= i, i <= M, NEW p \in Nat, i < p, p <= M + 1,
         p <= N => n[p].role # "tool",
         Answered(m, i)
  PROVE  Answered(n, i)
<1>2. ASSUME NEW j \in DOMAIN n, i < j, \A k \in i + 1 .. j : n[k].role = "tool"
      PROVE  j \in DOMAIN m
  <2>0. j \in Nat /\ 1 <= j /\ j <= N
    OBVIOUS
  <2>1. SUFFICES ASSUME j > M PROVE FALSE
    BY <2>0
  <2>2. p \in i + 1 .. j /\ p <= N
    BY <2>0, <2>1
  <2>3. n[p].role = "tool"
    BY <1>2, <2>2
  <2> QED
    BY <2>2, <2>3
<1>3. \A j \in DOMAIN m : \A k \in i + 1 .. j : k \in 1..M
  OBVIOUS
<1>4. \A j \in DOMAIN m : (\A k \in i + 1 .. j : n[k].role = "tool") <=> (\A k \in i + 1 .. j : m[k].role = "tool")
  BY <1>3
<1>5. DOMAIN m \subseteq DOMAIN n
  OBVIOUS
<1>6. RepliesIn(n, i) = RepliesIn(m, i)
  BY <1>2, <1>4, <1>5 DEF RepliesIn
<1>7. \A j \in RepliesIn(m, i) : n[j].answers = m[j].answers
  BY DEF RepliesIn
<1>8. n[i].calls = m[i].calls
  OBVIOUS
<1>9. {n[j].answers : j \in RepliesIn(n, i)} = {m[j].answers : j \in RepliesIn(m, i)}
  BY <1>6, <1>7
<1> QED
  BY <1>6, <1>8, <1>9 DEF Answered

LEMMA SpokenInit == LoopInit => Spoken
  BY DEF LoopInit, Spoken, Heard

\* Asked again, the model has had its answers.
LEMMA ModelNodeSpoken == LoopInv /\ Spoken /\ _model_node => Spoken'
<1> SUFFICES ASSUME LoopInv, Spoken, _model_node PROVE Spoken'
  OBVIOUS
<1>0. PICK calls \in Turns :
        /\ messages' = Append(Transcript, Assistant(calls))
        /\ loop' = [loop EXCEPT !.node = _route(calls), !.iterations = @ + 1, !.nodes = @ + 1,
                                !.outcome = IF loop.accepted THEN "result" ELSE "none"]
  BY DEF _model_node
<1>1. loop.node = "model"
  BY DEF _model_node, At
<1>2. loop'.node = _route(calls)
  BY <1>0 DEF LoopInv, Shaped
<1>3. calls \in Seq(CallKinds) /\ DOMAIN calls = 1..Len(calls) /\ Len(calls) \in Nat
  <2>1. PICK n \in 0..MaxCalls : calls \in [1..n -> CallKinds]
    BY DEF Turns
  <2>2. n \in Nat
    BY LoopAssumption
  <2>3. calls \in Seq(CallKinds)
    BY <2>1, <2>2
  <2> QED
    BY <2>3
<1> DEFINE a == Assistant(calls)
           N == Len(messages)
           t == Transcript
<1>4. a \in Message /\ Continue \in Message /\ a.role = "assistant" /\ Continue.role = "user" /\ a.calls = calls
  BY <1>3 DEF Assistant, Continue, Message
<1>5. messages \in Seq(Message) /\ N \in Nat /\ DOMAIN messages = 1..N
  BY DEF Spoken
<1>6. ASSUME N > 0
      PROVE  Last(messages) = messages[N] /\ messages # <<>>
  BY <1>5, <1>6 DEF Last
<1>7. \A i \in 1..N : messages[i].role = "assistant" => Answered(messages, i)
  BY <1>1, <1>5 DEF Spoken, Heard
\* Nothing follows what was said last: it called nothing.
<1>8. ASSUME N > 0, messages[N].role = "assistant"
      PROVE  messages[N].calls = <<>>
  <2>1. N \in 1..N /\ Answered(messages, N)
    BY <1>5, <1>7, <1>8
  <2>2. RepliesIn(messages, N) = {}
    BY <1>5 DEF RepliesIn
  <2>4. messages[N].calls \in Seq(CallKinds)
    <3>1. messages[N] \in Message
      BY <1>5, <2>1
    <3> QED
      BY <3>1 DEF Message
  <2>6. Len(messages[N].calls) = 0
    BY <2>1, <2>2, FS_EmptySet DEF Answered
  <2> QED
    BY <2>4, <2>6
<1>9. \/ t = messages /\ (N > 0 => messages[N].role # "assistant")
      \/ t = Append(messages, Continue)
  <2>1. CASE N = 0
    <3>1. messages = <<>>
      BY <1>5, <2>1
    <3> QED
      BY <2>1, <3>1 DEF Transcript
  <2>2. CASE N > 0
    BY <1>6, <1>8, <2>2 DEF Transcript
  <2> QED
    BY <1>5, <2>1, <2>2
<1> DEFINE T == Len(t)
           n == Append(t, a)
<1>10. t \in Seq(Message) /\ T \in Nat /\ N <= T /\ \A k \in 1..N : t[k] = messages[k]
  BY <1>4, <1>5, <1>9
<1>11. T = N \/ (T = N + 1 /\ t[T] = Continue)
  BY <1>5, <1>9
<1>12. T > 0 => t[T].role # "assistant"
  BY <1>4, <1>5, <1>9, <1>11
<1> HIDE DEF t, a
<1>13. /\ n \in Seq(Message) /\ Len(n) = T + 1 /\ DOMAIN n = 1..(T + 1) /\ n[T + 1] = a
       /\ \A k \in 1..T : n[k] = t[k]
  BY <1>4, <1>10
<1>14. messages' = n
  BY <1>0 DEF t, a
<1> HIDE DEF n, T
<1>15. n[N + 1].role # "tool"
  <2>1. CASE T = N
    BY <1>4, <1>13, <2>1
  <2>2. CASE T = N + 1 /\ t[T] = Continue
    <3>1. N + 1 \in 1..T
      BY <1>5, <2>2
    <3>2. n[N + 1] = t[N + 1]
      BY <1>13, <3>1
    <3> QED
      BY <1>4, <2>2, <3>2
  <2> QED
    BY <1>11, <2>1, <2>2
<1>16. ASSUME NEW i \in 1..(T + 1), n[i].role = "assistant"
       PROVE  /\ i < T + 1 \/ loop'.node = "model" => Answered(n, i)
              /\ i < T + 1 => n[i + 1].role # "assistant"
  <2>1. CASE i \in 1..N
    <3>1. n[i] = messages[i]
      BY <1>10, <1>13, <2>1
    <3>2. Answered(messages, i)
      BY <1>7, <1>16, <2>1, <3>1
    <3>3. \A k \in 1..N : n[k] = messages[k]
      BY <1>5, <1>10, <1>13
    <3>4. /\ N \in Nat /\ T + 1 \in Nat /\ N <= T + 1 /\ N + 1 \in Nat
          /\ i \in Nat /\ 1 <= i /\ i <= N /\ i < N + 1 /\ N + 1 <= N + 1
      BY <1>5, <1>10, <2>1
    <3> HIDE DEF N
    <3>5. Answered(n, i)
      BY <1>5, <1>13, <1>15, <3>2, <3>3, <3>4, AnsweredKept
    <3>6. CASE i < N
      <4>1. i \in DOMAIN messages /\ messages[i].role = "assistant" /\ i < Len(messages)
        BY <1>5, <1>16, <2>1, <3>1, <3>6 DEF N
      <4>2. messages[i + 1].role # "assistant"
        BY <4>1 DEF Spoken, Heard, N
      <4>3. i + 1 \in 1..N
        BY <1>5, <2>1, <3>6
      <4> QED
        BY <3>3, <3>5, <4>2, <4>3
    <3>7. CASE i = N
      <4>1. T = N + 1 /\ t[T] = Continue
        BY <1>11, <1>12, <1>10, <1>16, <2>1, <3>1, <3>7
      <4>2. n[i + 1] = Continue
        BY <1>10, <1>13, <3>7, <4>1
      <4> QED
        BY <1>4, <3>5, <4>2
    <3> QED
      BY <1>5, <2>1, <3>6, <3>7
  <2>2. CASE i = T + 1
    <3>1. SUFFICES ASSUME loop'.node = "model" PROVE Answered(n, i)
      BY <1>10, <2>2
    <3>2. calls = <<>>
      BY <1>2, <3>1 DEF _route
    <3>3. RepliesIn(n, i) = {}
      BY <1>10, <1>13, <2>2 DEF RepliesIn
    <3>4. n[i].calls = <<>>
      BY <1>4, <1>13, <2>2, <3>2
    <3> QED
      BY <3>3, <3>4, FS_EmptySet DEF Answered
  <2>3. CASE i = N + 1 /\ i = T
    BY <1>11, <1>12, <1>13, <1>16, <1>4, <2>3
  <2>4. \A k \in 1..(T + 1) : k \in 1..N \/ k = T + 1 \/ (k = N + 1 /\ k = T)
    <3> HIDE DEF N
    <3> QED
      BY <1>5, <1>10, <1>11
  <2> QED
    BY <2>1, <2>2, <2>3, <2>4
<1>17. Heard(n, loop'.node)
  BY <1>13, <1>16 DEF Heard
<1>18. n # <<>> /\ Last(n).role = "assistant"
  <2>1. Last(n) = n[T + 1]
    BY <1>13 DEF Last
  <2> QED
    BY <1>4, <1>10, <1>13, <2>1
<1> QED
  BY <1>13, <1>14, <1>17, <1>18 DEF Spoken

\* Its tools answer each call once, whatever order they are taken in.
LEMMA ToolsNodeSpoken == LoopInv /\ Spoken /\ _tools_node => Spoken'
<1> SUFFICES ASSUME LoopInv, Spoken, _tools_node PROVE Spoken'
  OBVIOUS
<1> DEFINE N == Len(messages)
           calls == Last(messages).calls
           L == InOrder(calls)
           r == [k \in DOMAIN L |-> Reply(L[k])]
           n == messages \o r
<1>1. messages \in Seq(Message) /\ N \in Nat /\ DOMAIN messages = 1..N
  BY DEF Spoken
<1>2. N > 0 /\ Last(messages) = messages[N] /\ messages[N].role = "assistant"
  <2>1. messages # <<>> /\ Last(messages).role = "assistant"
    BY DEF Spoken, _tools_node, At
  <2> QED
    BY <1>1, <2>1 DEF Last
<1>3. calls = messages[N].calls /\ calls \in Seq(CallKinds)
  <2>1. messages[N] \in Message
    BY <1>1, <1>2
  <2> QED
    BY <1>2, <2>1 DEF Message
<1>4. Lists(L, DOMAIN calls) /\ Len(L) = Len(calls)
  BY <1>3, InOrderLists
<1>5. messages' = n
  BY DEF _tools_node
<1>6. loop'.node = "model"
  BY DEF _tools_node, LoopInv, Shaped
<1> HIDE DEF L
<1>7. /\ Len(L) \in Nat /\ DOMAIN L = 1..Len(L) /\ Len(calls) \in Nat /\ DOMAIN calls = 1..Len(calls)
      /\ \A k \in DOMAIN L : L[k] \in DOMAIN calls
  BY <1>3, <1>4 DEF Lists
<1>8. r \in Seq(Message) /\ Len(r) = Len(L) /\ \A k \in 1..Len(L) : r[k] = Reply(L[k])
  <2>1. \A k \in DOMAIN L : Reply(L[k]) \in Message
    BY <1>7 DEF Reply, Message
  <2> QED
    BY <1>7, <2>1
<1> HIDE DEF r
<1>9. /\ n \in Seq(Message) /\ Len(n) = N + Len(L) /\ DOMAIN n = 1..(N + Len(L))
      /\ \A k \in 1..N : n[k] = messages[k]
      /\ \A k \in 1..Len(L) : n[N + k] = r[k]
  BY <1>1, <1>8
<1> HIDE DEF n, calls, N
<1>10. \A k \in 1..Len(L) : n[N + k].role = "tool" /\ n[N + k].answers = L[k]
  <2>1. ASSUME NEW k \in 1..Len(L)
        PROVE  n[N + k].role = "tool" /\ n[N + k].answers = L[k]
    <3>1. n[N + k] = Reply(L[k])
      BY <1>8, <1>9
    <3> QED
      BY <3>1 DEF Reply
  <2> QED
    BY <2>1
<1>11. \A j \in DOMAIN n : j \in 1..N \/ (j - N \in 1..Len(L) /\ N + (j - N) = j)
  BY <1>1, <1>7, <1>9
<1>12. \A j \in N + 1 .. N + Len(L) : n[j].role = "tool" /\ n[j].answers = L[j - N]
  <2>1. \A j \in N + 1 .. N + Len(L) : j - N \in 1..Len(L) /\ N + (j - N) = j
    BY <1>1, <1>7
  <2> QED
    BY <1>10, <2>1
<1>13. RepliesIn(n, N) = N + 1 .. N + Len(L)
  <2>1. \A j \in N + 1 .. N + Len(L) : j \in DOMAIN n /\ N < j /\ \A k \in N + 1 .. j : k \in N + 1 .. N + Len(L)
    BY <1>1, <1>7, <1>9
  <2>2. \A j \in DOMAIN n : N < j => j \in N + 1 .. N + Len(L)
    BY <1>1, <1>7, <1>9
  <2> QED
    BY <1>12, <2>1, <2>2 DEF RepliesIn
<1>14. Answered(n, N)
  <2>1. n[N].calls = calls
    BY <1>2, <1>3, <1>9, <1>1
  <2>2. Cardinality(N + 1 .. N + Len(L)) = Len(L)
    BY <1>1, <1>7, IntervalSize
  <2>3. \A j \in N + 1 .. N + Len(L) : n[j].answers \in DOMAIN calls
    <3>1. \A j \in N + 1 .. N + Len(L) : j - N \in 1..Len(L)
      BY <1>1, <1>7
    <3> QED
      BY <1>7, <1>12, <3>1
  <2>4. ASSUME NEW x \in DOMAIN calls
        PROVE  \E j \in N + 1 .. N + Len(L) : n[j].answers = x
    <3>1. PICK k \in 1..Len(L) : L[k] = x
      BY <1>4, <1>7 DEF Lists
    <3>2. N + k \in N + 1 .. N + Len(L) /\ n[N + k].answers = x
      BY <1>1, <1>7, <1>10, <3>1
    <3> QED
      BY <3>2
  <2>5. {n[j].answers : j \in N + 1 .. N + Len(L)} = DOMAIN calls
    BY <2>3, <2>4
  <2> QED
    BY <1>4, <1>13, <2>1, <2>2, <2>5 DEF Answered
<1>15. ASSUME NEW i \in DOMAIN n, n[i].role = "assistant"
       PROVE  Answered(n, i) /\ (i < Len(n) => n[i + 1].role # "assistant")
  <2>1. CASE i \in 1..N /\ i < N
    <3>1. n[i] = messages[i] /\ i \in DOMAIN messages
      BY <1>1, <1>9, <2>1
    <3>2. Answered(messages, i) /\ messages[i + 1].role # "assistant"
      BY <1>15, <2>1, <3>1 DEF Spoken, Heard, N
    <3>3. i \in Nat /\ 1 <= i /\ i <= N /\ N <= N + 1 /\ i + 1 \in 1..N /\ N \in 1..N
      BY <1>1, <2>1
    <3>4. n[N].role # "tool" /\ N <= N + Len(L) /\ N + Len(L) \in Nat
      BY <1>1, <1>2, <1>7, <1>9, <3>3
    <3>5. Answered(n, i)
      BY <1>1, <1>9, <2>1, <3>2, <3>3, <3>4, AnsweredKept
    <3> QED
      BY <1>9, <3>2, <3>3, <3>5
  <2>2. CASE i = N
    <3>1. SUFFICES ASSUME i < Len(n) PROVE n[i + 1].role # "assistant"
      BY <1>14, <2>2
    <3>2. 1 \in 1..Len(L)
      BY <1>1, <1>7, <1>9, <2>2, <3>1
    <3> QED
      BY <1>10, <2>2, <3>2
  <2>3. CASE i \in N + 1 .. N + Len(L)
    BY <1>12, <1>15, <2>3
  <2> QED
    BY <1>1, <1>7, <1>9, <2>1, <2>2, <2>3
<1>16. Heard(n, loop'.node)
  BY <1>15 DEF Heard
<1> QED
  BY <1>5, <1>6, <1>9, <1>16 DEF Spoken

LEMMA FinishesSpoken ==
  ASSUME LoopInv, Spoken, NEW outcome, Finishes(outcome)
  PROVE  Spoken'
<1>1. loop'.node = "ended" /\ messages' = messages
  BY DEF Finishes, LoopInv, Shaped
<1>2. Heard(messages, "ended")
  BY DEF Spoken, Heard
<1> QED
  BY <1>1, <1>2 DEF Spoken

LEMMA SpokenStep == LoopInv /\ Spoken /\ [LoopNext]_agent => Spoken'
<1> SUFFICES ASSUME LoopInv, Spoken, [LoopNext]_agent PROVE Spoken'
  OBVIOUS
<1>1. CASE _model_node
  BY <1>1, ModelNodeSpoken
<1>2. CASE _tools_node
  BY <1>2, ToolsNodeSpoken
<1>3. CASE Stopped
  BY <1>3, FinishesSpoken DEF Stopped
<1>4. CASE ModelFails
  BY <1>4, FinishesSpoken DEF ModelFails
<1>5. CASE RepairExhausted
  BY <1>5, FinishesSpoken DEF RepairExhausted
<1>6. CASE UNCHANGED agent
  BY <1>6 DEF agent, Spoken
<1> QED
  BY <1>1, <1>2, <1>3, <1>4, <1>5, <1>6 DEF LoopNext

\* Whatever the model calls in a turn, tools and submissions together and in any order,
\* the loop answers each of its calls once before it asks it again, and never leaves two
\* turns of the model side by side: a transcript no provider refuses.
THEOREM CallsAlwaysAnswered == LoopSpec => []CallsAnswered
<1>1. Spoken => CallsAnswered
  BY HeardIs DEF Spoken
<1> QED
  BY LoopInitInv, LoopStep, SpokenInit, SpokenStep, <1>1, PTL DEF LoopSpec
=============================================================================

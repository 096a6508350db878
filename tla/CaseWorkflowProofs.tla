-------------------------- MODULE CaseWorkflowProofs --------------------------
(***************************************************************************)
(* Theorems of CaseWorkflow, for any set of actions and specialists and    *)
(* any limits: types, the overrun of the step budget, what the row of a    *)
(* finished run says, and what a shadow run leaves alone.                  *)
(***************************************************************************)
EXTENDS CaseWorkflow, FiniteSetTheorems, SequenceTheorems, TLAPS

(* A refresh: the type of its result, and what it leaves alone. *)
LEMMA RefreshType ==
  ASSUME NEW s \in StateType, NEW acts \in [Actions -> Stored], NEW t \in Refreshed(s, acts)
  PROVE  t \in StateType /\ t.step = s.step /\ t.signals = s.signals /\ t.intent = s.intent
<1>1. CASE \A a \in Actions : s.actions[a] = "untracked"
  BY <1>1 DEF Refreshed
<1>2. CASE ~\A a \in Actions : s.actions[a] = "untracked"
  <2>1. PICK paid \in BOOLEAN :
          t = [s EXCEPT !.actions = Known(s.actions, acts), !.paid = paid]
    BY <1>2 DEF Refreshed
  <2>2. Known(s.actions, acts) \in [Actions -> Tracked]
    BY DEF StateType, Tracked, Stored, Known
  <2> QED
    BY <2>1, <2>2 DEF StateType
<1> QED
  BY <1>1, <1>2

(* One more step, alone or with what the reply was read as. *)
LEMMA StepType ==
  ASSUME NEW s \in StateType
  PROVE  /\ s.step \in Nat
         /\ [s EXCEPT !.step = s.step + 1] \in StateType
         /\ [s EXCEPT !.step = s.step + 1].step = s.step + 1
<1>1. s.step \in Nat /\ s.step + 1 \in Nat
  BY DEF StateType
<1> QED
  BY <1>1 DEF StateType
LEMMA ReadType ==
  ASSUME NEW s \in StateType, NEW i \in Intents
  PROVE  /\ [s EXCEPT !.step = s.step + 1, !.intent = i] \in StateType
         /\ [s EXCEPT !.step = s.step + 1, !.intent = i].step = s.step + 1
<1>1. s.step \in Nat /\ s.step + 1 \in Nat
  BY DEF StateType
<1> QED
  BY <1>1 DEF StateType

(* Fresh arguments, with any one thing passed in them, are arguments. *)
LEMMA ArgsFresh ==
  /\ NoArgs \in ArgsType
  /\ \A o \in Outcomes : [NoArgs EXCEPT !.outcome = o] \in ArgsType
  /\ \A b \in Seq(Signal) : [NoArgs EXCEPT !.batch = b] \in ArgsType
  /\ \A b \in Seq(Signal) : [NoArgs EXCEPT !.batch = b, !.then = "supervisor"] \in ArgsType
  /\ \A sp \in SPECIALISTS : [NoArgs EXCEPT !.agent = sp] \in ArgsType
<1>1. 0 \in 0..MaxTries /\ <<>> \in Seq(Signal)
  BY WorkflowAssumption
<1>2. NoArgs \in ArgsType
  BY <1>1 DEF NoArgs, ArgsType
<1> QED
  BY <1>2 DEF ArgsType

(* What is remembered of a sequence of signals is one. *)
LEMMA LatestType ==
  ASSUME NEW q \in Seq(Signal)
  PROVE  Latest(q) \in Seq(Signal)
BY DEF Latest

(* Each place bounds the steps so far: one pass of the executor and one supervisor *)
(* step separate the places where the budget is looked at.                         *)
StepInv ==
  /\ pc \in {"load", "record_human", "parked", "record_customer", "record_approval",
             "customer", "approval", "merge", "intent", "specialist"} => st.step < MaxSteps
  /\ pc = "refresh" => st.step <= MaxSteps
  /\ pc = "execute" => st.step + Cardinality(io.todo) <= MaxSteps + Cardinality(Actions)
  /\ pc \in {"loop", "supervisor"} => st.step <= MaxSteps + Cardinality(Actions)
  /\ StepsBounded

(* The grounds of an outcome hold from the decision to the row. *)
Grounded(o) ==
  /\ o \in Outcomes
  /\ o = "RESOLVED" => _resolution_secured(st) /\ ~Pending(st)
  /\ o = "CANCELLED" => cancel
OutcomeInv ==
  /\ pc \in {"finalize", "row"} => Grounded(io.outcome)
  /\ pc = "row" => /\ io.agent \in Outcomes
                   /\ io.agent = "CANCELLED" => io.outcome = "CANCELLED"
                   /\ io.agent = "RESOLVED" =>
                        /\ io.outcome = "RESOLVED"
                        /\ mode = "LIVE" => case.moved = "RESOLVED"
  /\ run \in {"COMPLETED", "CANCELLED"} => pc = "done"
  /\ OutcomeTold

IInv == TypeOK /\ StepInv /\ OutcomeInv

LEMMA SizesFinite ==
  /\ Cardinality(Actions) \in Nat
  /\ \A S \in SUBSET Actions :
       /\ IsFiniteSet(S) /\ Cardinality(S) \in Nat
       /\ Cardinality(S) <= Cardinality(Actions)
       /\ \A a \in S : Cardinality(S \ {a}) = Cardinality(S) - 1
BY WorkflowAssumption, FS_CardinalityType, FS_Subset, FS_RemoveElement

LEMMA InitInv == Init => IInv
<1> SUFFICES ASSUME Init PROVE IInv
  OBVIOUS
<1>1. TypeOK
  <2>1. st \in StateType
    BY DEF Init, StateType, Tracked
  <2>2. io \in ArgsType
    BY ArgsFresh DEF Init
  <2>3. case \in CaseType
    BY WorkflowAssumption DEF Init, CaseType
  <2>4. <<>> \in Seq(Signal) /\ <<>> \in Seq(Mail) /\ 0 \in 0..MaxEvents
    BY WorkflowAssumption
  <2>5. pc = "load" /\ pending = <<>> /\ mail = <<>> /\ count = 0 /\ run = "none"
        /\ human = FALSE /\ cancel = FALSE /\ mode \in {"LIVE", "SHADOW"}
    BY DEF Init
  <2> QED
    BY <2>1, <2>2, <2>3, <2>4, <2>5 DEF TypeOK, RunType
<1>2. StepInv
  BY SizesFinite, WorkflowAssumption DEF Init, StepInv, StepsBounded
<1>3. OutcomeInv
  BY DEF Init, OutcomeInv, OutcomeTold
<1> QED
  BY <1>1, <1>2, <1>3 DEF IInv

(* The three parts of the invariant are preserved by each action. *)
USE DEF signals, outside
LEMMA StepLoad == IInv /\ load_case_state => IInv'
<1> SUFFICES ASSUME IInv, load_case_state PROVE IInv'
  OBVIOUS
<1> USE DEF IInv
<1>1. PICK informed \in BOOLEAN, paid \in BOOLEAN :
        st' = [st EXCEPT !.actions = Prior(case.acts), !.informed = informed, !.paid = paid]
  BY DEF load_case_state
<1>2. Prior(case.acts) \in [Actions -> Tracked]
  BY DEF TypeOK, CaseType, Prior, Stored, Tracked
<1>3. st' \in StateType /\ st'.step = st.step
  BY <1>1, <1>2 DEF TypeOK, StateType
<1>4. TypeOK'
  BY <1>3 DEF load_case_state, TypeOK, RunType
<1>5. StepInv'
  BY <1>3, SizesFinite, WorkflowAssumption DEF load_case_state, TypeOK, StateType, StepInv, StepsBounded
<1>6. OutcomeInv'
  BY DEF load_case_state, OutcomeInv, OutcomeTold
<1> QED
  BY <1>4, <1>5, <1>6

(* While a run is under way its row tells nothing yet. *)
LEMMA Untold ==
  ASSUME IInv, pc # "done", run' \in {run, "RUNNING", "WAITING"}, pc' \notin {"finalize", "row"}
  PROVE  OutcomeInv'
BY DEF IInv, OutcomeInv, OutcomeTold

(* Moves of the workflow that change the place and the arguments only. *)
LEMMA Move ==
  ASSUME IInv, pc # "done", io' \in ArgsType, pending' \in Seq(Signal),
         UNCHANGED <<st, case, run, mode, cancel, human, mail, count>>,
         pc' \in {"finalize", "record_human", "loop", "merge", "supervisor", "crashed"},
         StepInv', pc' = "finalize" => Grounded(io.outcome)'
  PROVE  IInv'
<1>1. TypeOK'
  BY DEF IInv, TypeOK
<1>2. OutcomeInv'
  BY DEF IInv, OutcomeInv, OutcomeTold
<1> QED
  BY <1>1, <1>2 DEF IInv

LEMMA StepHead == IInv /\ (BudgetEnds \/ Cancels \/ Pauses \/ Merges \/ Thinks) => IInv'
<1> SUFFICES ASSUME IInv, BudgetEnds \/ Cancels \/ Pauses \/ Merges \/ Thinks PROVE IInv'
  OBVIOUS
<1>0. <<>> \in Seq(Signal) /\ io \in ArgsType /\ pending \in Seq(Signal) /\ st.step \in Nat
  BY DEF IInv, TypeOK, StateType
<1>1. CASE BudgetEnds
  <2>1. io' \in ArgsType /\ io'.outcome = "ESCALATED"
    BY <1>1, ArgsFresh DEF BudgetEnds, Finalizes, Outcomes, NoArgs
  <2>2. StepInv'
    BY <1>1 DEF IInv, StepInv, StepsBounded, BudgetEnds, Finalizes
  <2> QED
    BY <1>0, <1>1, <2>1, <2>2, Move DEF BudgetEnds, Finalizes, Grounded, Outcomes
<1>2. CASE Cancels
  <2>1. io' \in ArgsType /\ io'.outcome = "CANCELLED"
    BY <1>2, ArgsFresh DEF Cancels, Finalizes, Outcomes, NoArgs
  <2>2. StepInv'
    BY <1>2 DEF IInv, StepInv, StepsBounded, Cancels, Finalizes
  <2> QED
    BY <1>0, <1>2, <2>1, <2>2, Move DEF Cancels, Finalizes, Grounded, Outcomes, WithinBudget
<1>3. CASE Pauses
  <2>1. StepInv'
    BY <1>3 DEF IInv, StepInv, StepsBounded, Pauses, WithinBudget
  <2> QED
    BY <1>0, <1>3, <2>1, Move DEF Pauses, WithinBudget
<1>4. CASE Merges
  <2>1. io' \in ArgsType
    BY <1>0, <1>4, ArgsFresh DEF Merges
  <2>2. StepInv'
    BY <1>4 DEF IInv, StepInv, StepsBounded, Merges, WithinBudget
  <2> QED
    BY <1>0, <1>4, <2>1, <2>2, Move DEF Merges, WithinBudget
<1>5. CASE Thinks
  <2>1. StepInv'
    BY <1>5 DEF IInv, StepInv, StepsBounded, Thinks, WithinBudget
  <2> QED
    BY <1>0, <1>5, <2>1, Move DEF Thinks, WithinBudget
<1> QED
  BY <1>1, <1>2, <1>3, <1>4, <1>5

LEMMA StepWaiting == IInv /\ (Resumes \/ Woken \/ Expires \/ AllExecuted \/ Crashes) => IInv'
<1> SUFFICES ASSUME IInv, Resumes \/ Woken \/ Expires \/ AllExecuted \/ Crashes PROVE IInv'
  OBVIOUS
<1>0. /\ <<>> \in Seq(Signal) /\ <<"timeout">> \in Seq(Signal)
      /\ io \in ArgsType /\ pending \in Seq(Signal) /\ st.step \in Nat
  BY DEF IInv, TypeOK, StateType, Signal
<1>1. CASE Resumes
  <2>1. StepInv'
    BY <1>0, <1>1, SizesFinite, WorkflowAssumption DEF IInv, StepInv, StepsBounded, Resumes, ResumesIf
  <2> QED
    BY <1>0, <1>1, <2>1, Move DEF Resumes, ResumesIf
<1>2. CASE Woken
  <2>1. io' \in ArgsType
    BY <1>0, <1>2, ArgsFresh DEF Woken, WokenWith
  <2>2. StepInv'
    BY <1>2 DEF IInv, StepInv, StepsBounded, Woken, WokenWith, Waits
  <2> QED
    BY <1>0, <1>2, <2>1, <2>2, Move DEF Woken, WokenWith, Waits
<1>3. CASE Expires
  <2>1. io' \in ArgsType
    BY <1>0, <1>3, ArgsFresh DEF Expires
  <2>2. StepInv'
    BY <1>3 DEF IInv, StepInv, StepsBounded, Expires, Waits
  <2> QED
    BY <1>0, <1>3, <2>1, <2>2, Move DEF Expires, Waits
<1>4. CASE AllExecuted
  <2>1. io' \in ArgsType /\ pc' \in {"loop", "supervisor"}
    BY <1>0, <1>4, ArgsFresh DEF AllExecuted, ArgsType
  <2>2. st.step <= MaxSteps + Cardinality(Actions)
    <3>1. Cardinality(io.todo) \in Nat
      BY <1>0, SizesFinite DEF ArgsType
    <3> QED
      BY <1>0, <1>4, <3>1, SizesFinite, WorkflowAssumption DEF IInv, StepInv, AllExecuted
  <2>3. StepInv'
    BY <1>4, <2>1, <2>2 DEF IInv, StepInv, StepsBounded, AllExecuted
  <2> QED
    BY <1>0, <1>4, <2>1, <2>3, Move DEF AllExecuted
<1>5. CASE Crashes
  <2>1. io' \in ArgsType
    BY <1>5, ArgsFresh DEF Crashes
  <2>2. StepInv'
    BY <1>5 DEF IInv, StepInv, StepsBounded, Crashes
  <2> QED
    BY <1>0, <1>5, <2>1, <2>2, Move DEF Crashes
<1> QED
  BY <1>1, <1>2, <1>3, <1>4, <1>5

(* record_wait, for each of the three waits. *)
LEMMA StepRecord == IInv /\ (WaitsForHuman \/ WaitsForCustomer \/ WaitsForApproval) => IInv'
<1> SUFFICES ASSUME IInv, WaitsForHuman \/ WaitsForCustomer \/ WaitsForApproval PROVE IInv'
  OBVIOUS
<1>1. /\ pc \in {"record_human", "record_customer", "record_approval"}
      /\ pc' \in {"parked", "customer", "approval"} /\ run' = "WAITING"
      /\ case' = [case EXCEPT !.noted = TRUE]
      /\ UNCHANGED <<st, io, signals, mode, outside>>
  BY DEF WaitsForHuman, WaitsForCustomer, WaitsForApproval, record_wait
<1>2. TypeOK'
  BY <1>1 DEF IInv, TypeOK, CaseType, RunType
<1>3. StepInv'
  BY <1>1 DEF IInv, StepInv, StepsBounded
<1>4. OutcomeInv'
  BY <1>1, Untold
<1> QED
  BY <1>2, <1>3, <1>4 DEF IInv

LEMMA StepMerge == IInv /\ merge_signals => IInv'
<1> SUFFICES ASSUME IInv, merge_signals PROVE IInv'
  OBVIOUS
<1>1. /\ pc = "merge" /\ pc' \in {"intent", "refresh"} /\ run' = "RUNNING"
      /\ io' = [io EXCEPT !.batch = <<>>] /\ UNCHANGED <<signals, mode, case, outside>>
  BY DEF merge_signals
<1>2. st' \in StateType /\ st'.step = st.step
  <2> DEFINE merged == Latest(st.signals \o io.batch)
  <2>1. merged \in Seq(Signal)
    <3>1. st.signals \in Seq(Signal) /\ io.batch \in Seq(Signal)
      BY DEF IInv, TypeOK, StateType, ArgsType
    <3>2. st.signals \o io.batch \in Seq(Signal)
      BY <3>1
    <3> QED
      BY <3>2, LatestType
  <2>2. CASE st' = st
    BY <2>2 DEF IInv, TypeOK
  <2>3. CASE \E paid \in BOOLEAN :
               st' \in Refreshed([st EXCEPT !.signals = merged, !.paid = paid], case.acts)
    <3>1. PICK paid \in BOOLEAN :
                 st' \in Refreshed([st EXCEPT !.signals = merged, !.paid = paid], case.acts)
      BY <2>3
    <3>2. [st EXCEPT !.signals = merged, !.paid = paid] \in StateType
      BY <2>1 DEF IInv, TypeOK, StateType
    <3>3. [st EXCEPT !.signals = merged, !.paid = paid].step = st.step
      BY DEF IInv, TypeOK, StateType
    <3> HIDE DEF merged
    <3> QED
      BY <3>1, <3>2, <3>3, RefreshType DEF IInv, TypeOK, CaseType
  <2> QED
    BY <2>2, <2>3 DEF merge_signals
<1>3. <<>> \in Seq(Signal)
  OBVIOUS
<1>4. io' \in ArgsType
  BY <1>1, <1>3 DEF IInv, TypeOK, ArgsType
<1>5. TypeOK'
  BY <1>1, <1>2, <1>4 DEF IInv, TypeOK, RunType
<1>6. StepInv'
  BY <1>1, <1>2, WorkflowAssumption DEF IInv, StepInv, StepsBounded, TypeOK, StateType
<1>7. OutcomeInv'
  BY <1>1, Untold
<1> QED
  BY <1>5, <1>6, <1>7 DEF IInv

LEMMA StepIntent == IInv /\ Intent => IInv'
<1> SUFFICES ASSUME IInv, Intent PROVE IInv'
  OBVIOUS
<1>1. st' \in StateType /\ st'.step \in {st.step, st.step + 1} /\ st.step \in Nat
  <2>1. st \in StateType
    BY DEF IInv, TypeOK
  <2>2. CASE st' = st
    BY <2>1, <2>2 DEF StateType
  <2>3. CASE \E i \in Intents : st' = [st EXCEPT !.step = @ + 1, !.intent = i]
    BY <2>1, <2>3, StepType, ReadType
  <2> QED
    BY <2>2, <2>3 DEF Intent
<1>2. TypeOK'
  BY <1>1 DEF IInv, TypeOK, RunType, Intent
<1>3. StepInv'
  <2>1. pc = "intent" /\ pc' = "refresh" /\ st.step < MaxSteps
    BY DEF IInv, StepInv, Intent
  <2> QED
    BY <1>1, <2>1, SizesFinite, WorkflowAssumption DEF StepInv, StepsBounded
<1>4. OutcomeInv'
  BY Untold DEF Intent
<1> QED
  BY <1>2, <1>3, <1>4 DEF IInv

LEMMA StepRefresh == IInv /\ refresh_actions => IInv'
<1> SUFFICES ASSUME IInv, refresh_actions PROVE IInv'
  OBVIOUS
<1>1. PICK s \in Refreshed(st, case.acts) :
        /\ pc = "refresh" /\ st' = s /\ UNCHANGED <<signals, run, mode, case, outside>>
        /\ \/ pc' = io.then /\ io' = NoArgs
           \/ /\ pc' = "execute"
              /\ io' = [io EXCEPT !.todo = approved_unexecuted(s), !.tries = 0]
  BY DEF refresh_actions
<1>2. st' \in StateType /\ st'.step = st.step /\ st.step \in Nat
  BY <1>1, RefreshType DEF IInv, TypeOK, CaseType, StateType
<1>3. io' \in ArgsType /\ io.then \in {"loop", "supervisor"}
  <2>1. approved_unexecuted(st') \in SUBSET Actions /\ 0 \in 0..MaxTries
    BY WorkflowAssumption DEF approved_unexecuted
  <2>2. io \in ArgsType
    BY DEF IInv, TypeOK
  <2>3. CASE io' = NoArgs
    BY <2>2, <2>3, ArgsFresh DEF ArgsType
  <2>4. CASE io' = [io EXCEPT !.todo = approved_unexecuted(st'), !.tries = 0]
    BY <2>1, <2>2, <2>4 DEF ArgsType
  <2> QED
    BY <1>1, <2>3, <2>4
<1>4. TypeOK'
  BY <1>1, <1>2, <1>3 DEF IInv, TypeOK
<1>5. StepInv'
  <2>1. st.step <= MaxSteps
    BY <1>1 DEF IInv, StepInv
  <2>2. pc' = "execute" => Cardinality(io'.todo) \in Nat /\ Cardinality(io'.todo) <= Cardinality(Actions)
    BY <1>3, SizesFinite DEF ArgsType
  <2> QED
    BY <1>1, <1>2, <1>3, <2>1, <2>2, SizesFinite, WorkflowAssumption DEF StepInv, StepsBounded
<1>6. OutcomeInv'
  BY <1>1, <1>3, Untold
<1> QED
  BY <1>4, <1>5, <1>6 DEF IInv

(* The executor: live, simulated, and failing. *)
LEMMA InvokedType ==
  ASSUME IInv, NEW a \in Actions, NEW acts \in Invoked(a)
  PROVE  acts \in [Actions -> Stored]
BY DEF IInv, TypeOK, CaseType, Invoked, Stored

LEMMA ExecutedType ==
  ASSUME IInv, NEW a \in Actions, Executing(a), Executed(a)
  PROVE  /\ io' \in ArgsType
         /\ st.step \in Nat /\ Cardinality(io'.todo) \in Nat
         /\ st.step + 1 + Cardinality(io'.todo) <= MaxSteps + Cardinality(Actions)
<1>1. io' \in ArgsType /\ io'.todo = io.todo \ {a} /\ io.todo \in SUBSET Actions
  <2>1. 0 \in 0..MaxTries /\ io \in ArgsType
    BY WorkflowAssumption DEF IInv, TypeOK
  <2>2. io' = [io EXCEPT !.todo = io.todo \ {a}, !.agent = None, !.tries = 0]
    BY DEF Executed
  <2> HIDE DEF signals
  <2> QED
    BY <2>1, <2>2 DEF ArgsType
<1>2. /\ Cardinality(io'.todo) = Cardinality(io.todo) - 1
      /\ Cardinality(io.todo) \in Nat /\ Cardinality(io'.todo) \in Nat
  <2>1. a \in io.todo /\ io'.todo \in SUBSET Actions
    BY <1>1 DEF Executing
  <2> QED
    BY <1>1, <2>1, SizesFinite
<1>3. st.step \in Nat /\ st.step + Cardinality(io.todo) <= MaxSteps + Cardinality(Actions)
  BY DEF IInv, TypeOK, StateType, StepInv, Executing
<1> QED
  BY <1>1, <1>2, <1>3, SizesFinite, WorkflowAssumption

LEMMA StepExecute == \A a \in Actions : IInv /\ execute_action(a) => IInv'
<1> SUFFICES ASSUME NEW a \in Actions, IInv, execute_action(a) PROVE IInv'
  OBVIOUS
<1>1. PICK acts \in Invoked(a) :
        case' = [case EXCEPT !.acts = acts] /\ st' \in Refreshed([st EXCEPT !.step = @ + 1], acts)
  BY DEF execute_action
<1>2. acts \in [Actions -> Stored]
  BY <1>1, InvokedType
<1>3. st' \in StateType /\ st'.step = st.step + 1
  <2>1. [st EXCEPT !.step = @ + 1] \in StateType /\ [st EXCEPT !.step = @ + 1].step = st.step + 1
    BY StepType DEF IInv, TypeOK
  <2> QED
    BY <1>1, <1>2, <2>1, RefreshType
<1>4. /\ io' \in ArgsType
      /\ st.step \in Nat /\ Cardinality(io'.todo) \in Nat
      /\ st.step + 1 + Cardinality(io'.todo) <= MaxSteps + Cardinality(Actions)
  BY ExecutedType DEF execute_action
<1>5. TypeOK'
  BY <1>1, <1>2, <1>3, <1>4 DEF IInv, TypeOK, CaseType, RunType, execute_action
<1>6. StepInv'
  BY <1>3, <1>4, SizesFinite, WorkflowAssumption DEF StepInv, StepsBounded, execute_action, Executing
<1>7. OutcomeInv'
  BY Untold DEF execute_action, Executing
<1> QED
  BY <1>5, <1>6, <1>7 DEF IInv

LEMMA StepSimulate == \A a \in Actions : IInv /\ simulate_action(a) => IInv'
<1> SUFFICES ASSUME NEW a \in Actions, IInv, simulate_action(a) PROVE IInv'
  OBVIOUS
<1>1. st' \in StateType /\ st'.step = st.step
  BY DEF IInv, TypeOK, StateType, Tracked, simulate_action
<1>2. /\ io' \in ArgsType
      /\ st.step \in Nat /\ Cardinality(io'.todo) \in Nat
      /\ st.step + 1 + Cardinality(io'.todo) <= MaxSteps + Cardinality(Actions)
  BY ExecutedType DEF simulate_action
<1>3. TypeOK'
  BY <1>1, <1>2 DEF IInv, TypeOK, simulate_action
<1>4. StepInv'
  BY <1>1, <1>2, SizesFinite, WorkflowAssumption DEF StepInv, StepsBounded, simulate_action, Executing
<1>5. OutcomeInv'
  BY Untold DEF simulate_action, Executing
<1> QED
  BY <1>3, <1>4, <1>5 DEF IInv

LEMMA StepExecuteFails == \A a \in Actions : IInv /\ execute_fails(a) => IInv'
<1> SUFFICES ASSUME NEW a \in Actions, IInv, execute_fails(a) PROVE IInv'
  OBVIOUS
<1>1. PICK acts \in Invoked(a) : case' = [case EXCEPT !.acts = acts]
  BY DEF execute_fails
<1>2. acts \in [Actions -> Stored]
  BY <1>1, InvokedType
<1>3. /\ pc = "execute" /\ run' = "RUNNING" /\ UNCHANGED <<st, signals, mode, outside>>
      /\ \/ pc' = pc /\ io.tries + 1 < MaxTries /\ io' = [io EXCEPT !.tries = @ + 1, !.agent = a]
         \/ pc' = "crashed" /\ io' = NoArgs
  BY DEF execute_fails, Executing
<1>4. io' \in ArgsType /\ (pc' = pc => io'.todo = io.todo)
  <2>1. io \in ArgsType
    BY DEF IInv, TypeOK
  <2>2. CASE pc' = pc /\ io.tries + 1 < MaxTries /\ io' = [io EXCEPT !.tries = @ + 1, !.agent = a]
    <3>1. io.tries + 1 \in 0..MaxTries
      BY <2>1, <2>2, WorkflowAssumption DEF ArgsType
    <3> QED
      BY <2>1, <2>2, <3>1 DEF ArgsType
  <2> QED
    BY <1>3, <2>2, ArgsFresh
<1>5. TypeOK'
  BY <1>1, <1>2, <1>3, <1>4 DEF IInv, TypeOK, CaseType, RunType
<1>6. StepInv'
  BY <1>3, <1>4 DEF IInv, StepInv, StepsBounded
<1>7. OutcomeInv'
  BY <1>3, Untold
<1> QED
  BY <1>5, <1>6, <1>7 DEF IInv

(* The supervisor: a run is resolved only on the grounds the guards demand, and only *)
(* an end is left to it once the budget is spent.                                    *)
LEMMA GuardsHold ==
  ASSUME NEW s, NEW d \in Decisions, NEW tokens_spent \in BOOLEAN
  PROVE  /\ effective_next(s, d, tokens_spent) = "RESOLVED" => _resolution_secured(s) /\ ~Pending(s)
         /\ effective_next(s, d, tokens_spent) \notin {"RESOLVED", "ESCALATED"} => ~(s.step >= MaxSteps)
<1>1. Guarded(s, d) \in {"ESCALATED", "AWAIT_APPROVAL", d}
  BY DEF Guarded
<1>2. Guarded(s, d) = "RESOLVED" => d = "RESOLVED"
  BY <1>1
<1>3. Guarded(s, "RESOLVED") = "RESOLVED" => _resolution_secured(s) /\ ~Pending(s)
  BY DEF Guarded, SPECIALISTS, Proposers
<1>4. Guarded(s, d) = "RESOLVED" => _resolution_secured(s) /\ ~Pending(s)
  BY <1>2, <1>3
<1> QED
  BY <1>4 DEF effective_next

(* A decision to end the run is grounded; what ended before said nothing. *)
LEMMA Ending ==
  ASSUME IInv, pc # "done", run' \in {run, "RUNNING"}, pc' = "finalize", Grounded(io.outcome)'
  PROVE  OutcomeInv'
BY DEF IInv, OutcomeInv, OutcomeTold

LEMMA StepSupervise == IInv /\ supervisor_step => IInv'
<1> SUFFICES ASSUME IInv, supervisor_step PROVE IInv'
  OBVIOUS
<1> DEFINE s == [st EXCEPT !.step = st.step + 1]
<1>1. PICK d \in Decisions, tokens_spent \in BOOLEAN :
        st' = s /\ Goes(effective_next(s, d, tokens_spent))
  BY DEF supervisor_step
<1>2. s \in StateType /\ s.step = st.step + 1 /\ st.step \in Nat
  BY StepType DEF IInv, TypeOK
<1>3. /\ pc = "supervisor" /\ run' = "RUNNING" /\ UNCHANGED <<signals, mode, case, outside>>
      /\ st.step <= MaxSteps + Cardinality(Actions)
  BY DEF supervisor_step, IInv, StepInv
<1> DEFINE next == effective_next(s, d, tokens_spent)
<1>4. /\ next = "RESOLVED" => _resolution_secured(s) /\ ~Pending(s)
      /\ next \notin {"RESOLVED", "ESCALATED"} => ~(s.step >= MaxSteps)
  BY GuardsHold
<1>5. Goes(next)
  BY <1>1
<1> HIDE DEF s, next
<1>6. io' \in ArgsType
  BY <1>5, ArgsFresh, WorkflowAssumption DEF Goes, Finalizes, Outcomes
<1>7. /\ pc' \in {"finalize", "record_customer", "record_approval", "specialist"}
      /\ pc' = "finalize" => next \in {"RESOLVED", "ESCALATED"} /\ io'.outcome = next
      /\ pc' # "finalize" => next \notin {"RESOLVED", "ESCALATED"}
  <2>1. [NoArgs EXCEPT !.outcome = next].outcome = next
    BY DEF NoArgs
  <2>2. "RESOLVED" \notin Specialists /\ "ESCALATED" \notin Specialists
    BY WorkflowAssumption DEF SPECIALISTS, Proposers
  <2> QED
    BY <1>5, <2>1, <2>2 DEF Goes, Finalizes
<1>8. TypeOK'
  BY <1>1, <1>2, <1>3, <1>6, <1>7 DEF IInv, TypeOK, RunType
<1>9. StepInv'
  BY <1>1, <1>2, <1>3, <1>4, <1>7, SizesFinite, WorkflowAssumption DEF StepInv, StepsBounded
<1>10. OutcomeInv'
  <2>1. CASE pc' = "finalize"
    <3>1. Grounded(io.outcome)'
      BY <1>1, <1>4, <1>7, <2>1 DEF Grounded, Outcomes, _resolution_secured, Pending, Emailed
    <3> QED
      BY <1>3, <2>1, <3>1, Ending
  <2>2. CASE pc' # "finalize"
    BY <1>3, <1>7, <2>2, Untold
  <2> QED
    BY <2>1, <2>2
<1> QED
  BY <1>8, <1>9, <1>10 DEF IInv

LEMMA StepAgentFails == IInv /\ AgentFails => IInv'
<1> SUFFICES ASSUME IInv, AgentFails PROVE IInv'
  OBVIOUS
<1>1. /\ pc \in {"supervisor", "specialist"} /\ pc' = "finalize" /\ run' = "RUNNING"
      /\ io' = [NoArgs EXCEPT !.outcome = "FAILED"]
      /\ UNCHANGED <<st, signals, mode, case, outside>>
  BY DEF AgentFails, Finalizes
<1>2. io' \in ArgsType /\ io'.outcome = "FAILED"
  BY <1>1, ArgsFresh DEF Outcomes, NoArgs
<1>3. TypeOK'
  BY <1>1, <1>2 DEF IInv, TypeOK, RunType
<1>4. StepInv'
  BY <1>1 DEF IInv, StepInv, StepsBounded
<1>5. Grounded(io.outcome)'
  BY <1>2 DEF Grounded, Outcomes
<1>6. OutcomeInv'
  BY <1>1, <1>5, Ending
<1> QED
  BY <1>3, <1>4, <1>6 DEF IInv

LEMMA StepPropose == \A a \in Actions : IInv /\ propose_action(a) => IInv'
<1> SUFFICES ASSUME NEW a \in Actions, IInv, propose_action(a) PROVE IInv'
  OBVIOUS
<1>1. PICK status \in {"PENDING", "APPROVED", "DENIED"} :
        case' = [case EXCEPT !.acts = [case.acts EXCEPT ![a] = status]]
  BY DEF propose_action
<1>2. pc = "specialist" /\ UNCHANGED <<pc, st, io, signals, run, mode, outside>>
  BY DEF propose_action
<1>3. TypeOK'
  BY <1>1, <1>2 DEF IInv, TypeOK, CaseType, Stored
<1>4. StepInv'
  BY <1>2 DEF IInv, StepInv, StepsBounded
<1>5. OutcomeInv'
  BY <1>2, Untold
<1> QED
  BY <1>3, <1>4, <1>5 DEF IInv

LEMMA StepSpecialist == IInv /\ run_specialist => IInv'
<1> SUFFICES ASSUME IInv, run_specialist PROVE IInv'
  OBVIOUS
<1>1. PICK actions \in _track_action(st.actions) :
        st' = [st EXCEPT !.step = @ + 1, !.actions = actions,
                         !.runs = [st.runs EXCEPT ![io.agent] = @ + 1],
                         !.informed = @ \/ io.agent \in {"Triage", "Investigator"}]
  <2>1. st \in StateType
    BY DEF IInv, TypeOK
  <2>3. PICK actions \in _track_action(st.actions) :
          st' = [_apply_specialist_output(actions) EXCEPT
                   !.step = @ + 1, !.runs = [st.runs EXCEPT ![io.agent] = @ + 1]]
    BY DEF run_specialist
  <2> DEFINE informed == st.informed \/ io.agent \in {"Triage", "Investigator"}
  <2>4. _apply_specialist_output(actions)
          = [st EXCEPT !.actions = actions, !.informed = informed]
    BY DEF _apply_specialist_output
  <2> HIDE DEF informed
  <2>5. st' = [st EXCEPT !.step = @ + 1, !.actions = actions,
                         !.runs = [st.runs EXCEPT ![io.agent] = @ + 1],
                         !.informed = informed]
    BY <2>1, <2>3, <2>4 DEF StateType
  <2> QED
    BY <2>5 DEF informed
<1>2. /\ pc = "specialist" /\ pc' = "refresh" /\ io' = NoArgs /\ run' = "RUNNING"
      /\ UNCHANGED <<signals, mode, case, outside>> /\ st.step < MaxSteps
  BY DEF run_specialist, IInv, StepInv
<1>3. st' \in StateType /\ st'.step = st.step + 1 /\ st.step \in Nat
  <2>1. st \in StateType
    BY DEF IInv, TypeOK
  <2>2. actions \in [Actions -> Tracked]
    BY <1>1, <2>1 DEF _track_action, TrackedAs, StateType, Tracked
  <2>3. [st.runs EXCEPT ![io.agent] = @ + 1] \in [SPECIALISTS -> Nat]
    <3>1. st.runs \in [SPECIALISTS -> Nat]
      BY <2>1 DEF StateType
    <3>2. \A sp \in SPECIALISTS : st.runs[sp] + 1 \in Nat
      BY <3>1
    <3> QED
      BY <3>1, <3>2
  <2>4. st.step \in Nat /\ st.step + 1 \in Nat
    BY <2>1 DEF StateType
  <2>5. (st.informed \/ io.agent \in {"Triage", "Investigator"}) \in BOOLEAN
    OBVIOUS
  <2> QED
    BY <1>1, <2>1, <2>2, <2>3, <2>4, <2>5 DEF StateType
<1>4. TypeOK'
  BY <1>2, <1>3, ArgsFresh DEF IInv, TypeOK, RunType
<1>5. StepInv'
  BY <1>2, <1>3, SizesFinite, WorkflowAssumption DEF StepInv, StepsBounded
<1>6. OutcomeInv'
  BY <1>2, Untold
<1> QED
  BY <1>4, <1>5, <1>6 DEF IInv

(* The end: what the row will say is what the case was moved to. *)
LEMMA StepFinalize == IInv /\ finalize_case => IInv'
<1> SUFFICES ASSUME IInv, finalize_case PROVE IInv'
  OBVIOUS
<1>1. PICK moved \in BOOLEAN :
        /\ moved => mode = "LIVE" /\ io.outcome # "CANCELLED" /\ case.moved # "RESOLVED"
        /\ case' = IF moved
                   THEN [case EXCEPT !.moved = IF io.outcome = "RESOLVED" THEN "RESOLVED"
                                               ELSE "ESCALATED"]
                   ELSE case
        /\ io' = [io EXCEPT !.agent = Outcome(moved)]
  BY DEF finalize_case, FinalizesIn
<1>2. /\ pc = "finalize" /\ pc' = "row" /\ UNCHANGED <<st, signals, run, mode, outside>>
  BY DEF finalize_case, FinalizesIn
<1>3. io \in ArgsType /\ case \in CaseType /\ Grounded(io.outcome) /\ io.outcome \in Outcomes
  BY <1>2 DEF IInv, TypeOK, OutcomeInv, Grounded
<1>4. /\ io' \in ArgsType /\ io'.outcome = io.outcome /\ io'.agent = Outcome(moved)
      /\ Outcome(moved) \in Outcomes
  <2>1. Outcome(moved) \in Outcomes
    BY <1>3 DEF Outcome, Outcomes
  <2> QED
    BY <1>1, <1>3, <2>1 DEF ArgsType
<1>5. case' \in CaseType /\ (moved /\ io.outcome = "RESOLVED" => case'.moved = "RESOLVED")
  BY <1>1, <1>3 DEF CaseType
<1>6. TypeOK'
  BY <1>2, <1>4, <1>5 DEF IInv, TypeOK
<1>7. StepInv'
  BY <1>2 DEF IInv, StepInv, StepsBounded
<1>8. OutcomeInv'
  <2>1. Grounded(io.outcome)'
    BY <1>2, <1>3, <1>4 DEF Grounded, Outcomes, _resolution_secured, Pending, Emailed
  <2>2. io'.agent = "RESOLVED" => io'.outcome = "RESOLVED" /\ (mode = "LIVE" => moved)
    BY <1>4 DEF Outcome
  <2>3. io'.agent = "CANCELLED" => io'.outcome = "CANCELLED"
    BY <1>4 DEF Outcome
  <2>4. run' \notin {"COMPLETED", "CANCELLED"}
    BY <1>2 DEF IInv, OutcomeInv
  <2> QED
    BY <1>2, <1>4, <1>5, <2>1, <2>2, <2>3, <2>4 DEF OutcomeInv, OutcomeTold
<1> QED
  BY <1>6, <1>7, <1>8 DEF IInv

LEMMA StepRow == IInv /\ RecordsOutcome => IInv'
<1> SUFFICES ASSUME IInv, RecordsOutcome PROVE IInv'
  OBVIOUS
<1>1. /\ pc = "row" /\ pc' = "done" /\ run' = Final[io.agent] /\ io' = NoArgs
      /\ UNCHANGED <<st, signals, mode, case, outside>>
  BY DEF RecordsOutcome
<1>2. /\ io.agent \in Outcomes /\ Grounded(io.outcome)
      /\ io.agent = "CANCELLED" => io.outcome = "CANCELLED"
      /\ io.agent = "RESOLVED" =>
           io.outcome = "RESOLVED" /\ (mode = "LIVE" => case.moved = "RESOLVED")
  BY <1>1 DEF IInv, OutcomeInv
<1>3. /\ run' \in {"COMPLETED", "ESCALATED", "FAILED", "CANCELLED"}
      /\ run' = "COMPLETED" => io.agent = "RESOLVED"
      /\ run' = "CANCELLED" => io.agent = "CANCELLED"
  <2>1. Final["RESOLVED"] = "COMPLETED" /\ Final["ESCALATED"] = "ESCALATED"
        /\ Final["FAILED"] = "FAILED" /\ Final["CANCELLED"] = "CANCELLED"
    BY DEF Final
  <2> QED
    BY <1>1, <1>2, <2>1 DEF Outcomes
<1>4. TypeOK'
  BY <1>1, <1>3, ArgsFresh DEF IInv, TypeOK, RunType
<1>5. StepInv'
  BY <1>1 DEF IInv, StepInv, StepsBounded
<1>6. OutcomeInv'
  BY <1>1, <1>2, <1>3 DEF OutcomeInv, OutcomeTold, Grounded, Outcomes, _resolution_secured, Pending, Emailed
<1> QED
  BY <1>4, <1>5, <1>6 DEF IInv

LEMMA StepFinalizeFails == IInv /\ FinalizeFails => IInv'
<1> SUFFICES ASSUME IInv, FinalizeFails PROVE IInv'
  OBVIOUS
<1>1. /\ pc = "row" /\ UNCHANGED <<st, signals, run, mode, case, outside>>
      /\ \/ /\ pc' = "finalize" /\ io.tries + 1 < MaxTries
            /\ io' = [io EXCEPT !.tries = io.tries + 1, !.agent = None]
         \/ pc' = "crashed" /\ io' = NoArgs
  BY DEF FinalizeFails
<1>2. io' \in ArgsType /\ (pc' = "finalize" => io'.outcome = io.outcome)
  <2>1. io \in ArgsType
    BY DEF IInv, TypeOK
  <2>2. CASE io.tries + 1 < MaxTries /\ io' = [io EXCEPT !.tries = io.tries + 1, !.agent = None]
    <3>1. io.tries + 1 \in 0..MaxTries
      BY <2>1, <2>2, WorkflowAssumption DEF ArgsType
    <3> QED
      BY <2>1, <2>2, <3>1 DEF ArgsType
  <2> QED
    BY <1>1, <2>2, ArgsFresh
<1>3. TypeOK'
  BY <1>1, <1>2 DEF IInv, TypeOK
<1>4. StepInv'
  BY <1>1 DEF IInv, StepInv, StepsBounded
<1>5. OutcomeInv'
  <2>1. pc' = "finalize" => Grounded(io.outcome)'
    BY <1>1, <1>2 DEF IInv, OutcomeInv, Grounded, Outcomes, _resolution_secured, Pending, Emailed
  <2>2. run' \notin {"COMPLETED", "CANCELLED"}
    BY <1>1 DEF IInv, OutcomeInv
  <2> QED
    BY <1>1, <2>1, <2>2 DEF OutcomeInv, OutcomeTold
<1> QED
  BY <1>3, <1>4, <1>5 DEF IInv

(* What happens outside disturbs neither the workflow nor the grounds of its outcome: *)
(* a cancellation is never taken back.                                                *)
LEMMA Disturbance ==
  ASSUME IInv, UNCHANGED <<pc, st, io, run, mode>>, TypeOK', case'.moved = case.moved,
         cancel => cancel'
  PROVE  IInv'
<1>1. StepInv'
  BY DEF IInv, StepInv, StepsBounded
<1>2. \A o : Grounded(o) => Grounded(o)'
  BY DEF Grounded, Outcomes, _resolution_secured, Pending, Emailed
<1>3. pc \in {"finalize", "row"} => Grounded(io.outcome)'
  BY <1>2 DEF IInv, OutcomeInv, Grounded, Outcomes, _resolution_secured, Pending, Emailed
<1>4. OutcomeTold'
  BY DEF IInv, OutcomeInv, OutcomeTold, _resolution_secured, Pending, Emailed
<1>5. OutcomeInv'
  BY <1>3, <1>4 DEF IInv, OutcomeInv
<1> QED
  BY <1>1, <1>5 DEF IInv

LEMMA StepHappens ==
  ASSUME IInv, NEW e \in Mail, Happens(e), case' \in CaseType, case'.moved = case.moved
  PROVE  IInv'
<1>1. mail' \in Seq(Mail) /\ count' \in 0..MaxEvents
  BY WorkflowAssumption DEF IInv, TypeOK, Happens
<1>2. TypeOK'
  BY <1>1 DEF IInv, TypeOK, Happens
<1> QED
  BY <1>2, Disturbance DEF Happens

LEMMA StepPeople ==
  ASSUME IInv, takeover \/ release \/ email_received \/ \E a \in Actions : decide_action(a)
  PROVE  IInv'
<1>1. CASE takeover \/ release \/ email_received
  <2>1. \E e \in Mail : Happens(e) /\ UNCHANGED case
    BY <1>1 DEF takeover, release, email_received, Mail
  <2> QED
    BY <2>1, StepHappens DEF IInv, TypeOK
<1>2. ASSUME NEW a \in Actions, decide_action(a) PROVE IInv'
  <2>1. PICK status \in {"APPROVED", "REJECTED"} :
          case' = [case EXCEPT !.acts = [case.acts EXCEPT ![a] = status]]
    BY <1>2 DEF decide_action
  <2>2. case' \in CaseType /\ case'.moved = case.moved
    BY <2>1 DEF IInv, TypeOK, CaseType, Stored
  <2>3. "action_decided" \in Mail
    BY DEF Mail
  <2> QED
    BY <1>2, <2>2, <2>3, StepHappens DEF decide_action
<1> QED
  BY <1>1, <1>2

LEMMA StepBridge == IInv /\ (handle \/ cancel_run) => IInv'
<1> SUFFICES ASSUME IInv, handle \/ cancel_run PROVE IInv'
  OBVIOUS
<1>1. CASE handle
  <2>1. mail \in Seq(Mail) /\ mail # <<>> /\ pending \in Seq(Signal) /\ human \in BOOLEAN
        /\ count \in 0..MaxEvents
    BY <1>1 DEF handle, IInv, TypeOK
  <2>2. Tail(mail) \in Seq(Mail)
    BY <2>1
  <2>3. ASSUME NEW e, Signalled(e) PROVE pending' \in Seq(Signal) /\ human' \in BOOLEAN
    <3>1. e \in Signal => Append(pending, e) \in Seq(Signal)
      BY <2>1
    <3> QED
      BY <2>1, <2>3, <3>1 DEF Signalled
  <2>4. mail' \in Seq(Mail) /\ count' \in 0..MaxEvents
        /\ pending' \in Seq(Signal) /\ human' \in BOOLEAN
    <3>1. mail' \in {mail, Tail(mail)}
      BY <1>1 DEF handle
    <3>2. pending' \in Seq(Signal) /\ human' \in BOOLEAN
      BY <1>1, <2>1, <2>3 DEF handle
    <3>3. count' \in 0..MaxEvents
      <4>1. count' = count \/ (count < MaxEvents /\ count' = count + 1)
        BY <1>1 DEF handle
      <4> QED
        BY <2>1, <4>1, WorkflowAssumption
    <3> QED
      BY <2>1, <2>2, <3>1, <3>2, <3>3
  <2>5. UNCHANGED <<pc, st, io, cancel, run, mode, case>>
    BY <1>1 DEF handle
  <2>6. TypeOK'
    BY <2>4, <2>5 DEF IInv, TypeOK
  <2> QED
    BY <2>5, <2>6, Disturbance
<1>2. CASE cancel_run
  <2>1. TypeOK'
    BY <1>2, WorkflowAssumption DEF IInv, TypeOK, cancel_run
  <2> QED
    BY <1>2, <2>1, Disturbance DEF cancel_run
<1> QED
  BY <1>1, <1>2

LEMMA StepStutter == IInv /\ UNCHANGED vars => IInv'
<1> SUFFICES ASSUME IInv, UNCHANGED vars PROVE IInv'
  OBVIOUS
<1>1. TypeOK'
  BY DEF IInv, TypeOK, vars
<1> QED
  BY <1>1, Disturbance DEF vars

LEMMA Inductive == IInv /\ [Next]_vars => IInv'
<1> SUFFICES ASSUME IInv, [Next]_vars PROVE IInv'
  OBVIOUS
<1>1. CASE Workflow
  BY <1>1, StepLoad, StepHead, StepWaiting, StepRecord, StepMerge, StepIntent, StepRefresh,
     StepExecute, StepSimulate, StepExecuteFails, StepPropose, StepSupervise, StepAgentFails,
     StepSpecialist, StepFinalize, StepRow, StepFinalizeFails DEF Workflow
<1>2. CASE Outside
  BY <1>2, StepPeople, StepBridge DEF Outside
<1>3. CASE UNCHANGED vars
  BY <1>3, StepStutter
<1> QED
  BY <1>1, <1>2, <1>3 DEF Next

LEMMA Invariant == Spec => []IInv
BY InitInv, Inductive, PTL DEF Spec

(* Type correctness of the workflow, its arguments, and what surrounds it. *)
THEOREM TypeCorrect == Spec => []TypeOK
<1>1. IInv => TypeOK
  BY DEF IInv
<1> QED
  BY <1>1, Invariant, PTL

(* The step budget is overrun by no more than one pass of the executor and one step, *)
(* whatever the models answer and the customers write.                               *)
THEOREM BudgetHolds == Spec => []StepsBounded
<1>1. IInv => StepsBounded
  BY DEF IInv, StepInv
<1> QED
  BY <1>1, Invariant, PTL

(* The row of a finished run tells what happened to the case. *)
THEOREM OutcomeHonest == Spec => []OutcomeTold
<1>1. IInv => OutcomeTold
  BY DEF IInv, OutcomeInv
<1> QED
  BY <1>1, Invariant, PTL

(* A shadow run leaves the case alone: what changes then is a decision on a proposal *)
(* that was there, made by a person.                                                 *)
LEMMA ShadowStep ==
  TypeOK /\ [Next]_vars =>
    [ mode = "SHADOW" => /\ case'.moved = case.moved
                         /\ \A a \in Actions : case'.acts[a] # case.acts[a] =>
                              case.acts[a] = "PENDING" /\ count' > count ]_vars
<1> SUFFICES ASSUME TypeOK, Next, mode = "SHADOW"
             PROVE  /\ case'.moved = case.moved
                    /\ \A a \in Actions : case'.acts[a] # case.acts[a] =>
                         case.acts[a] = "PENDING" /\ count' > count
  OBVIOUS
<1>1. case \in CaseType /\ count \in Nat
  BY DEF TypeOK
<1>2. CASE WaitsForHuman \/ WaitsForCustomer \/ WaitsForApproval
  <2>1. case' = [case EXCEPT !.noted = TRUE]
    BY <1>2 DEF WaitsForHuman, WaitsForCustomer, WaitsForApproval, record_wait
  <2> QED
    BY <1>1, <2>1 DEF CaseType
<1>3. CASE finalize_case
  BY <1>3 DEF finalize_case, FinalizesIn
<1>4. ASSUME NEW b \in Actions, decide_action(b)
      PROVE  /\ case'.moved = case.moved
             /\ \A a \in Actions : case'.acts[a] # case.acts[a] =>
                  case.acts[a] = "PENDING" /\ count' > count
  <2>1. PICK status \in {"APPROVED", "REJECTED"} :
          case' = [case EXCEPT !.acts = [case.acts EXCEPT ![b] = status]]
    BY <1>4 DEF decide_action
  <2>2. case.acts[b] = "PENDING" /\ count' = count + 1
    BY <1>4 DEF decide_action, Happens
  <2> QED
    BY <1>1, <2>1, <2>2 DEF CaseType
<1>5. ASSUME NEW a \in Actions, execute_action(a) \/ execute_fails(a) \/ propose_action(a)
      PROVE  FALSE
  BY <1>5 DEF execute_action, execute_fails, propose_action
<1>6. ASSUME NEW a \in Actions, simulate_action(a) PROVE case' = case
  BY <1>6 DEF simulate_action
<1>7. CASE \/ load_case_state \/ BudgetEnds \/ Cancels \/ Pauses \/ Resumes \/ Merges \/ Thinks
           \/ Woken \/ Expires \/ merge_signals \/ Intent \/ refresh_actions \/ AllExecuted
           \/ supervisor_step \/ AgentFails \/ run_specialist \/ RecordsOutcome
           \/ FinalizeFails \/ Crashes
  <2>1. case' = case
    BY <1>7 DEF load_case_state, BudgetEnds, Cancels, Pauses, Resumes, ResumesIf, Merges, Thinks,
       Woken, WokenWith, Expires, merge_signals, Intent, refresh_actions, AllExecuted,
       supervisor_step, AgentFails, run_specialist, RecordsOutcome, FinalizeFails, Crashes
  <2> QED
    BY <2>1
<1>8. CASE takeover \/ release \/ email_received \/ handle \/ cancel_run
  BY <1>8 DEF takeover, release, email_received, handle, cancel_run
<1> QED
  BY <1>2, <1>3, <1>4, <1>5, <1>6, <1>7, <1>8 DEF Next, Workflow, Outside

(* ShadowMovesNothing: what a live run would do, a shadow run only simulates. *)
THEOREM ShadowLeavesCase == Spec => ShadowMovesNothing
BY TypeCorrect, ShadowStep, PTL DEF Spec, ShadowMovesNothing

-----------------------------------------------------------------------------
(* Only a merge has signals in its arguments. *)
BatchInv == pc # "merge" => io.batch = <<>>

LEMMA FreshBatch ==
  /\ NoArgs.batch = <<>>
  /\ \A o : [NoArgs EXCEPT !.outcome = o].batch = <<>> /\ [NoArgs EXCEPT !.agent = o].batch = <<>>
BY DEF NoArgs

(* Steps of the workflow that neither start a merge nor make one leave nothing unread. *)
Settles ==
  \/ BudgetEnds \/ Cancels \/ refresh_actions \/ AllExecuted \/ supervisor_step \/ AgentFails
  \/ run_specialist \/ finalize_case \/ RecordsOutcome \/ FinalizeFails \/ Crashes
  \/ \E a \in Actions : execute_action(a) \/ simulate_action(a) \/ execute_fails(a)

LEMMA SettlesEmpty ==
  ASSUME TypeOK, BatchInv, Settles
  PROVE  /\ io'.batch = <<>> /\ pc' # "merge" /\ UNCHANGED pending
         /\ pc # "merge" \/ pc' = "crashed"
<1>0. io \in ArgsType
  BY DEF TypeOK
<1>1. CASE BudgetEnds \/ Cancels \/ AgentFails
  BY <1>1, FreshBatch DEF BudgetEnds, Cancels, AgentFails, Finalizes, WithinBudget
<1>2. CASE refresh_actions
  <2>1. /\ pc = "refresh" /\ UNCHANGED pending
        /\ \E todo : io' \in {NoArgs, [io EXCEPT !.todo = todo, !.tries = 0]}
        /\ pc' \in {io.then, "execute"}
    BY <1>2 DEF refresh_actions
  <2> QED
    BY <1>0, <2>1, FreshBatch DEF BatchInv, ArgsType
<1>3. CASE AllExecuted \/ run_specialist \/ RecordsOutcome \/ Crashes
  BY <1>0, <1>3, FreshBatch DEF AllExecuted, run_specialist, RecordsOutcome, Crashes, ArgsType
<1>4. CASE supervisor_step
  <2>1. /\ pc = "supervisor" /\ UNCHANGED pending
        /\ pc' \in {"record_customer", "record_approval", "finalize", "specialist"}
        /\ io' = NoArgs \/ \E o : io' \in {[NoArgs EXCEPT !.outcome = o], [NoArgs EXCEPT !.agent = o]}
    BY <1>4 DEF supervisor_step, Goes, Finalizes
  <2> QED
    BY <2>1, FreshBatch
<1>5. CASE finalize_case
  <2>1. /\ pc = "finalize" /\ pc' = "row" /\ UNCHANGED pending
        /\ \E o : io' = [io EXCEPT !.agent = o]
    BY <1>5 DEF finalize_case, FinalizesIn
  <2> QED
    BY <1>0, <2>1 DEF BatchInv, ArgsType
<1>6. CASE FinalizeFails
  <2>1. /\ pc = "row" /\ pc' \in {"finalize", "crashed"} /\ UNCHANGED pending
        /\ io' = NoArgs \/ io' = [io EXCEPT !.tries = io.tries + 1, !.agent = None]
    BY <1>6 DEF FinalizeFails
  <2> QED
    BY <1>0, <2>1, FreshBatch DEF BatchInv, ArgsType
<1>7. ASSUME NEW a \in Actions, execute_action(a) \/ simulate_action(a) \/ execute_fails(a)
      PROVE  io'.batch = <<>> /\ pc = "execute" /\ pc' # "merge" /\ UNCHANGED pending
  <2>1. /\ pc = "execute" /\ pc' \in {"execute", "crashed"} /\ UNCHANGED pending
        /\ \/ io' = [io EXCEPT !.todo = io.todo \ {a}, !.agent = None, !.tries = 0]
           \/ io' = [io EXCEPT !.tries = io.tries + 1, !.agent = a]
           \/ io' = NoArgs
    BY <1>7 DEF execute_action, simulate_action, execute_fails, Executing, Executed
  <2> QED
    BY <1>0, <2>1, FreshBatch DEF BatchInv, ArgsType
<1> QED
  BY <1>1, <1>2, <1>3, <1>4, <1>5, <1>6, <1>7 DEF Settles

(* Steps that touch neither what is being merged nor what is pending. *)
Quiet ==
  \/ load_case_state \/ Pauses \/ Resumes \/ Thinks \/ Intent \/ WaitsForHuman
  \/ WaitsForCustomer \/ WaitsForApproval \/ takeover \/ release \/ email_received \/ cancel_run
  \/ UNCHANGED vars \/ \E a \in Actions : propose_action(a) \/ decide_action(a)

LEMMA QuietUnread ==
  ASSUME Quiet
  PROVE  UNCHANGED <<io, pending>> /\ (pc # "merge" \/ pc' = pc)
<1>1. CASE load_case_state \/ Pauses \/ Resumes \/ Thinks \/ Intent
  BY <1>1 DEF load_case_state, Pauses, Resumes, ResumesIf, Thinks, Intent, WithinBudget
<1>2. CASE WaitsForHuman \/ WaitsForCustomer \/ WaitsForApproval
  BY <1>2 DEF WaitsForHuman, WaitsForCustomer, WaitsForApproval, record_wait
<1>3. CASE takeover \/ release \/ email_received \/ cancel_run \/ UNCHANGED vars
  BY <1>3 DEF takeover, release, email_received, cancel_run, Happens, vars
<1>4. ASSUME NEW a \in Actions, propose_action(a) \/ decide_action(a)
      PROVE  UNCHANGED <<io, pending, pc>>
  BY <1>4 DEF propose_action, decide_action, Happens
<1> QED
  BY <1>1, <1>2, <1>3, <1>4 DEF Quiet

LEMMA MergesUnread ==
  ASSUME TypeOK, BatchInv, Merges \/ Woken \/ Expires
  PROVE  /\ pc' = "merge" /\ Unread = pending
         /\ Unread' = Unread \/ Unread' = <<"timeout">> \o Unread
<1>1. pending \in Seq(Signal) /\ <<>> \o pending = pending /\ pending \o <<>> = pending
  BY DEF TypeOK
<1>2. io.batch = <<>>
  BY DEF BatchInv, Merges, Woken, WokenWith, Expires, Waits, WithinBudget
<1>3. CASE Merges
  <2>1. io'.batch = pending /\ pending' = <<>> /\ pc' = "merge"
    BY <1>3 DEF Merges, NoArgs
  <2> QED
    BY <1>1, <1>2, <2>1 DEF Unread
<1>4. CASE Woken
  <2>1. io'.batch = pending /\ pending' = <<>> /\ pc' = "merge"
    BY <1>4 DEF Woken, WokenWith, NoArgs
  <2> QED
    BY <1>1, <1>2, <2>1 DEF Unread
<1>5. CASE Expires
  <2>1. io'.batch = <<"timeout">> /\ pending' = pending /\ pc' = "merge"
    BY <1>5 DEF Expires, NoArgs
  <2> QED
    BY <1>1, <1>2, <2>1 DEF Unread
<1> QED
  BY <1>3, <1>4, <1>5

(* What is merged is all that was to be merged, and the state remembers the last of it. *)
LEMMA MergeReads ==
  ASSUME TypeOK, merge_signals
  PROVE  /\ io'.batch = <<>>
         /\ \/ Unread' = Unread
            \/ io.batch \o Unread' = Unread /\ st'.signals = Latest(st.signals \o io.batch)
<1>1. io'.batch = <<>> /\ UNCHANGED pending
  BY DEF merge_signals, TypeOK, ArgsType
<1>2. pending \in Seq(Signal) /\ <<>> \o pending = pending
  BY DEF TypeOK
<1>3. Unread' = pending
  BY <1>1, <1>2 DEF Unread
<1>4. CASE io.batch = <<>>
  BY <1>1, <1>2, <1>3, <1>4 DEF Unread
<1>5. CASE io.batch # <<>>
  <2> DEFINE merged == Latest(st.signals \o io.batch)
  <2>1. PICK paid \in BOOLEAN :
          st' \in Refreshed([st EXCEPT !.signals = merged, !.paid = paid], case.acts)
    BY <1>5 DEF merge_signals
  <2>2. merged \in Seq(Signal)
    <3>1. st.signals \in Seq(Signal) /\ io.batch \in Seq(Signal)
      BY DEF TypeOK, StateType, ArgsType
    <3>2. st.signals \o io.batch \in Seq(Signal)
      BY <3>1
    <3> QED
      BY <3>2, LatestType
  <2> HIDE DEF merged
  <2>3. [st EXCEPT !.signals = merged, !.paid = paid] \in StateType
        /\ [st EXCEPT !.signals = merged, !.paid = paid].signals = merged
    BY <2>2 DEF TypeOK, StateType
  <2>4. st'.signals = merged
    BY <2>1, <2>3, RefreshType DEF TypeOK, CaseType
  <2> QED
    BY <1>1, <1>3, <2>4 DEF merged, Unread
<1> QED
  BY <1>1, <1>4, <1>5

LEMMA AppendAtTheEnd ==
  \A s, t \in Seq(Signal), e \in Signal : s \o Append(t, e) = Append(s \o t, e)
<1> SUFFICES ASSUME NEW s \in Seq(Signal), NEW t \in Seq(Signal), NEW e \in Signal
             PROVE  s \o Append(t, e) = Append(s \o t, e)
  OBVIOUS
<1>1. s \o Append(t, e) \in Seq(Signal) /\ Append(s \o t, e) \in Seq(Signal)
  OBVIOUS
<1>2. Len(s \o Append(t, e)) = Len(Append(s \o t, e))
  OBVIOUS
<1>3. \A i \in 1..Len(s \o Append(t, e)) : (s \o Append(t, e))[i] = Append(s \o t, e)[i]
  OBVIOUS
<1> QED
  BY <1>1, <1>2, <1>3, SeqEqual

LEMMA HandleAppends ==
  ASSUME TypeOK, handle
  PROVE  /\ UNCHANGED <<io, pc>>
         /\ Unread' = Unread \/ \E e \in Signal : Unread' = Append(Unread, e)
<1>1. pending \in Seq(Signal) /\ io.batch \in Seq(Signal)
  BY DEF TypeOK, ArgsType
<1>2. UNCHANGED <<io, pc>> /\ (pending' = pending \/ \E e \in Signal : pending' = Append(pending, e))
  BY DEF handle, Signalled
<1>3. \A e \in Signal : io.batch \o Append(pending, e) = Append(io.batch \o pending, e)
  BY <1>1, AppendAtTheEnd, Zenon
<1> QED
  BY <1>2, <1>3 DEF Unread

LEMMA SignalsStep ==
  TypeOK /\ BatchInv /\ [Next]_vars =>
    /\ BatchInv'
    /\ [ ~Ended' =>
            \/ Unread' = Unread
            \/ \E e \in Signal : Unread' = Append(Unread, e)
            \/ Unread' = <<"timeout">> \o Unread
            \/ io.batch \o Unread' = Unread /\ st'.signals = Latest(st.signals \o io.batch) ]_vars
<1> SUFFICES ASSUME TypeOK, BatchInv, [Next]_vars
             PROVE  /\ BatchInv'
                    /\ ~Ended' =>
                         \/ Unread' = Unread
                         \/ \E e \in Signal : Unread' = Append(Unread, e)
                         \/ Unread' = <<"timeout">> \o Unread
                         \/ io.batch \o Unread' = Unread /\ st'.signals = Latest(st.signals \o io.batch)
  OBVIOUS
<1>1. CASE Settles
  <2>1. io'.batch = <<>> /\ UNCHANGED pending /\ (pc # "merge" \/ pc' = "crashed")
    BY <1>1, SettlesEmpty
  <2> QED
    BY <2>1 DEF BatchInv, Unread, Ended
<1>2. CASE Quiet
  BY <1>2, QuietUnread DEF BatchInv, Unread
<1>3. CASE Merges \/ Woken \/ Expires
  BY <1>3, MergesUnread DEF BatchInv
<1>4. CASE merge_signals
  BY <1>4, MergeReads DEF BatchInv
<1>5. CASE handle
  BY <1>5, HandleAppends DEF BatchInv
<1> QED
  BY <1>1, <1>2, <1>3, <1>4, <1>5 DEF Next, Workflow, Outside, Settles, Quiet

LEMMA BatchInit == Init => BatchInv
BY DEF Init, BatchInv, NoArgs

(* SignalsKept: from the mailbox to the state no signal is lost, doubled or overtaken. *)
THEOREM SignalsReachTheState == Spec => SignalsKept
BY TypeCorrect, BatchInit, SignalsStep, PTL DEF Spec, SignalsKept

=============================================================================

---------------------------- MODULE EvalsProofs ----------------------------
(***************************************************************************)
(* What is proved of the evaluation harness, for any dataset, number of     *)
(* workers, workflows, failures and cancellations: it leaves live runs      *)
(* alone, although a signal of the harness is addressed by a run's row;     *)
(* what a suite stores, shows and counts agrees; and the cases it picks     *)
(* are as many as asked for and balanced among their causes.                *)
(***************************************************************************)
EXTENDS Evals, Induction, TLAPS

-----------------------------------------------------------------------------
(* A job that awaits or cancels a run knows it by the id its own start gave *)
(* it, so the run is a shadow one; a shadow run is signalled by its own     *)
(* workflow's id, so that of its case is never used.                        *)

Awaiting == {"polling", "parked", "looking"}

JobShaped(j) ==
  j \in [phase : {j.phase}, tries : {j.tries}, run : {j.run}, detail : {j.detail}, read : {j.read}]
WorkflowShaped(r) ==
  r \in [mode : {r.mode}, case : {r.case}, status : {r.status}, cancelled : {r.cancelled}]

Tables ==
  /\ job = [c \in Cases |-> job[c]] /\ \A c \in Cases : JobShaped(job[c])
  /\ wf = [w \in Workflows |-> wf[w]] /\ \A w \in Workflows : WorkflowShaped(wf[w])

AwaitsShadow(j) == j.phase \in Awaiting => j.run \in Shadows
JobsAwaitShadows == \A c \in Cases : AwaitsShadow(job[c])
ShadowsAreShadows == \A w \in Shadows : wf[w].mode # "LIVE"

HarnessInv == Tables /\ JobsAwaitShadows /\ ShadowsAreShadows /\ LiveLeftAlone

\* What of it a step of the jobs, or one of the workflows, can disturb.
JobInv == job = [c \in Cases |-> job[c]] /\ \A c \in Cases : JobShaped(job[c]) /\ AwaitsShadow(job[c])
WorkflowInv ==
  /\ wf = [w \in Workflows |-> wf[w]] /\ \A w \in Workflows : WorkflowShaped(wf[w])
  /\ ShadowsAreShadows /\ LiveLeftAlone

LEMMA InvIsBoth == HarnessInv <=> JobInv /\ WorkflowInv
  BY DEF HarnessInv, JobInv, WorkflowInv, Tables, JobsAwaitShadows

LEMMA InitInv == Init => HarnessInv
<1> SUFFICES ASSUME Init PROVE JobInv /\ WorkflowInv
  BY InvIsBoth
<1>1. JobInv
  BY DEF Init, NoJob, JobInv, JobShaped, AwaitsShadow, Awaiting
<1>2. WorkflowInv
  BY DEF Init, NoWorkflow, WorkflowInv, WorkflowShaped, ShadowsAreShadows, LiveLeftAlone, Workflows
<1> QED
  BY <1>1, <1>2

-----------------------------------------------------------------------------
(* The jobs                                                                 *)

(* A job whose record is replaced by one that awaits nothing new.           *)
LEMMA OneJob ==
  ASSUME JobInv, NEW c \in Cases, NEW j, JobShaped(j), AwaitsShadow(j), job' = [job EXCEPT ![c] = j]
  PROVE  JobInv'
  BY DEF JobInv, JobShaped, AwaitsShadow

(* It keeps its run, and awaits one only if it did.                         *)
LEMMA MovesOn ==
  ASSUME JobInv, NEW c \in Cases, NEW phase, Goes(c, phase),
         phase \in Awaiting => job[c].phase \in Awaiting
  PROVE  JobInv'
<1> DEFINE j == [job[c] EXCEPT !.phase = phase]
<1>1. JobShaped(j) /\ AwaitsShadow(j)
  BY DEF JobInv, JobShaped, AwaitsShadow
<1>2. job' = [job EXCEPT ![c] = j]
  BY DEF Goes
<1> QED
  BY <1>1, <1>2, OneJob

(* The record of one that is done with its run is begun anew.               *)
LEMMA LeavesInv ==
  ASSUME JobInv, NEW c \in Cases, NEW phase, Leaves(c, phase), phase \notin Awaiting
  PROVE  JobInv'
<1> DEFINE j == [NoJob EXCEPT !.phase = phase]
<1>1. JobShaped(j) /\ AwaitsShadow(j)
  BY DEF NoJob, JobShaped, AwaitsShadow
<1>2. job' = [job EXCEPT ![c] = j]
  BY DEF Leaves
<1> QED
  BY <1>1, <1>2, OneJob

(* Tasks that are dropped await nothing.                                    *)
LEMMA DropsInv == JobInv /\ job' = Dropped => JobInv'
<1> SUFFICES ASSUME JobInv, job' = Dropped PROVE JobInv'
  OBVIOUS
<1>1. ASSUME NEW c \in Cases PROVE JobShaped(job'[c]) /\ AwaitsShadow(job'[c])
  <2>1. job'[c] = NoJob \/ job'[c] = job[c]
    BY DEF Dropped
  <2> QED
    BY <2>1 DEF NoJob, JobInv, JobShaped, AwaitsShadow, Awaiting
<1>2. job' = [c \in Cases |-> job'[c]]
  BY DEF Dropped
<1> QED
  BY <1>1, <1>2 DEF JobInv

-----------------------------------------------------------------------------
(* The workflows                                                            *)

(* One is started under an id of its kind.                                  *)
LEMMA StartInv ==
  ASSUME WorkflowInv, NEW w \in Workflows, NEW mode, NEW c, Start(w, mode, c),
         mode = "LIVE" => w \in Lives
  PROVE  WorkflowInv'
<1> DEFINE r == [NoWorkflow EXCEPT !.mode = mode, !.case = c, !.status = "RUNNING"]
<1>1. wf' = [wf EXCEPT ![w] = r]
  BY DEF Start
<1>2. WorkflowShaped(r) /\ r.cancelled # "harness" /\ (w \in Shadows => r.mode # "LIVE")
  BY EvalsAssumption DEF WorkflowShaped, NoWorkflow
<1> HIDE DEF r
<1> QED
  BY <1>1, <1>2 DEF WorkflowInv, ShadowsAreShadows, LiveLeftAlone, Workflows

LEMMA StartShadowInv == ASSUME WorkflowInv, NEW c, StartShadow(c) PROVE WorkflowInv'
<1>1. NextOf(Unused(Shadows)) \in Shadows
  BY DEF StartShadow, NextOf, Unused
<1> QED
  BY <1>1, StartInv DEF StartShadow, Workflows

LEMMA StartLiveInv == ASSUME WorkflowInv, NEW c, StartLive(c) PROVE WorkflowInv'
<1>1. NextOf(Unused(Lives)) \in Lives
  BY DEF StartLive, NextOf, Unused
<1> QED
  BY <1>1, StartInv DEF StartLive, Workflows

(* A cancellation reaches only those it is addressed to, none of them live if it comes *)
(* from the harness.                                                                   *)
LEMMA CancelInv ==
  ASSUME WorkflowInv, NEW S, NEW who, CancelBy(S, who), who = "harness" => S \cap Lives = {}
  PROVE  WorkflowInv'
<1>1. ASSUME NEW v \in Workflows
      PROVE  wf'[v] = wf[v] \/ (v \in S /\ wf'[v] = [wf[v] EXCEPT !.cancelled = who])
  BY <1>1 DEF CancelBy
<1>2. ASSUME NEW v \in Workflows
      PROVE  WorkflowShaped(wf'[v]) /\ wf'[v].mode = wf[v].mode
  BY <1>1, <1>2 DEF WorkflowInv, WorkflowShaped
<1>3. ASSUME NEW v \in Lives PROVE wf'[v].cancelled # "harness"
  <2>1. v \in Workflows /\ wf[v].cancelled # "harness" /\ WorkflowShaped(wf[v])
    BY DEF Workflows, WorkflowInv, LiveLeftAlone
  <2>2. CASE wf'[v] = wf[v]
    BY <2>1, <2>2
  <2>3. CASE v \in S /\ wf'[v] = [wf[v] EXCEPT !.cancelled = who]
    BY <2>1, <2>3 DEF WorkflowShaped
  <2> QED
    BY <1>1, <2>1, <2>2, <2>3
<1>4. wf' = [w \in Workflows |-> wf'[w]]
  BY DEF CancelBy
<1> QED
  BY <1>2, <1>3, <1>4 DEF WorkflowInv, ShadowsAreShadows, LiveLeftAlone, Workflows

-----------------------------------------------------------------------------
(* The steps                                                                *)

LEMMA Stays == (JobInv /\ UNCHANGED job => JobInv') /\ (WorkflowInv /\ UNCHANGED wf => WorkflowInv')
<1>1. JobInv /\ UNCHANGED job => JobInv'
  BY DEF JobInv
<1>2. WorkflowInv /\ UNCHANGED wf => WorkflowInv'
  BY DEF WorkflowInv, ShadowsAreShadows, LiveLeftAlone
<1> QED
  BY <1>1, <1>2

LEMMA CancelsRunInv ==
  ASSUME JobInv, WorkflowInv, NEW c \in Cases, CancelsRun(c)
  PROVE  JobInv' /\ WorkflowInv'
<1>1. job[c].run \in Shadows
  BY DEF CancelsRun, In, JobInv, AwaitsShadow, Awaiting
<1>2. Signalled(job[c].run) \cap Lives = {}
  BY <1>1, EvalsAssumption DEF Signalled, WorkflowInv, ShadowsAreShadows
<1>3. JobInv'
  BY MovesOn DEF CancelsRun, In, Awaiting
<1>4. WorkflowInv'
  BY <1>2, CancelInv, Stays DEF CancelsRun
<1> QED
  BY <1>3, <1>4

LEMMA StartsInv ==
  ASSUME JobInv, WorkflowInv, NEW c \in Cases, Starts(c)
  PROVE  JobInv' /\ WorkflowInv'
<1> DEFINE j == [job[c] EXCEPT !.phase = "polling", !.run = NextOf(Unused(Shadows))]
<1>1. NextOf(Unused(Shadows)) \in Shadows
  BY DEF Starts, StartShadow, NextOf, Unused
<1>2. JobShaped(j) /\ AwaitsShadow(j)
  BY <1>1 DEF JobInv, JobShaped, AwaitsShadow
<1>3. job' = [job EXCEPT ![c] = j]
  BY DEF Starts
<1>4. JobInv'
  BY <1>2, <1>3, OneJob
<1>5. WorkflowInv'
  BY StartShadowInv DEF Starts
<1> QED
  BY <1>4, <1>5

LEMMA RetriesInv ==
  ASSUME JobInv, WorkflowInv, NEW c \in Cases, Retries(c)
  PROVE  JobInv' /\ WorkflowInv'
<1>1. PICK phase \in {"starting", "erring"} :
        job' = [job EXCEPT ![c] = [job[c] EXCEPT !.tries = job[c].tries + 1, !.phase = phase]]
  BY DEF Retries
<1> DEFINE j == [job[c] EXCEPT !.tries = job[c].tries + 1, !.phase = phase]
<1>2. JobShaped(j) /\ AwaitsShadow(j)
  BY <1>1 DEF JobInv, JobShaped, AwaitsShadow, Awaiting
<1>3. JobInv'
  BY <1>1, <1>2, OneJob
<1>4. WorkflowInv'
  BY StartShadowInv, Stays DEF Retries
<1> QED
  BY <1>3, <1>4

(* What a job does by itself starts and signals nothing.                    *)
LEMMA QuietInv ==
  ASSUME JobInv, WorkflowInv, NEW c \in Cases,
         \/ Enters(c) \/ Polls(c) \/ Looks(c) \/ TimesOut(c) \/ Errs(c) \/ Reads(c)
         \/ Stores(c) \/ StoreFails(c)
  PROVE  JobInv' /\ WorkflowInv'
<1>1. UNCHANGED wf
  BY DEF Enters, Polls, Looks, TimesOut, Errs, Reads, Stores, StoreFails, Commits, Stored, orchestrator
<1>2. CASE Enters(c)
  BY <1>1, <1>2, MovesOn, Stays DEF Enters, Awaiting
<1>3. CASE TimesOut(c) \/ Errs(c) \/ Stores(c) \/ StoreFails(c)
  <2>1. \E phase \in {"erring", "done", "broken"} : Leaves(c, phase)
    BY <1>3 DEF TimesOut, Errs, Stores, StoreFails, Afterwards
  <2> QED
    BY <1>1, <2>1, LeavesInv, Stays DEF Awaiting
<1>4. CASE Polls(c) /\ Row(c) = "WAITING"
  BY <1>1, <1>4, MovesOn, Stays DEF Polls, Goes, In, Awaiting
<1>5. CASE (Polls(c) /\ Row(c) # "WAITING") \/ Looks(c)
  <2> DEFINE j == [job[c] EXCEPT !.phase = "scoring", !.detail = Row(c)]
  <2>1. job' = [job EXCEPT ![c].phase = "scoring", ![c].detail = Row(c)]
    BY <1>5 DEF Polls, Looks
  <2> HIDE DEF Row
  <2>2. job' = [job EXCEPT ![c] = j]
    BY <2>1
  <2>3. JobShaped(j) /\ AwaitsShadow(j)
    BY DEF JobInv, JobShaped, AwaitsShadow, Awaiting
  <2> QED
    BY <1>1, <2>2, <2>3, OneJob, Stays
<1>6. CASE Reads(c)
  <2> DEFINE phase == IF In(c, "scoring") THEN "storing" ELSE "storing_error"
             j == [job[c] EXCEPT !.phase = phase, !.read = suite.done]
  <2>1. job' = [job EXCEPT ![c] = j]
    BY <1>6 DEF Reads
  <2>2. JobShaped(j) /\ AwaitsShadow(j)
    BY DEF JobInv, JobShaped, AwaitsShadow, Awaiting
  <2> QED
    BY <1>1, <2>1, <2>2, OneJob, Stays
<1> QED
  BY <1>1, <1>2, <1>4, <1>5, <1>6, <1>3, Stays

LEMMA StartRunInv ==
  ASSUME JobInv, WorkflowInv, NEW offered, NEW kind, start_run(offered, kind)
  PROVE  JobInv' /\ WorkflowInv'
<1>1. ASSUME NEW c \in Cases PROVE JobShaped(job'[c]) /\ AwaitsShadow(job'[c])
  <2>1. \E phase \in {"queued", "absent"} : job'[c] = [NoJob EXCEPT !.phase = phase]
    BY DEF start_run
  <2> QED
    BY <2>1 DEF NoJob, JobShaped, AwaitsShadow, Awaiting
<1>2. job' = [c \in Cases |-> job'[c]]
  BY DEF start_run
<1>3. UNCHANGED wf
  BY DEF start_run, orchestrator
<1> QED
  BY <1>1, <1>2, <1>3, Stays DEF JobInv

\* What the task that runs the suite does once its cases are under way.
Ends == Gathers \/ ReadFails \/ Breaks \/ _finish \/ FinishFails \/ cancel \/ Crashes

LEMMA EndsInv ==
  ASSUME JobInv, WorkflowInv, Ends
  PROVE  JobInv' /\ WorkflowInv'
<1>1. UNCHANGED wf
  BY DEF Ends, Gathers, ReadFails, Breaks, _finish, FinishFails, cancel, Crashes, orchestrator
<1>2. UNCHANGED job \/ job' = Dropped
  BY DEF Ends, Gathers, ReadFails, Breaks, _finish, FinishFails, cancel, Crashes
<1> QED
  BY <1>1, <1>2, Stays, DropsInv

LEMMA OrchestratorInv ==
  ASSUME JobInv, WorkflowInv, Person \/ \E w \in Workflows : Runs(w)
  PROVE  JobInv' /\ WorkflowInv'
<1>1. UNCHANGED job
  BY DEF Person, Runs
<1>2. CASE Person
  <2>1. CASE \E c \in Busy : StartLive(c)
    BY <1>1, <2>1, StartLiveInv, Stays
  <2>2. CASE \E w \in Workflows : CancelBy(SignalsCase(w), "person")
    BY <1>1, <2>2, CancelInv, Stays
  <2> QED
    BY <1>2, <2>1, <2>2 DEF Person
<1>3. CASE \E w \in Workflows : Runs(w)
  <2>1. PICK w \in Workflows : Runs(w)
    BY <1>3
  <2>2. PICK s : wf' = [wf EXCEPT ![w] = [wf[w] EXCEPT !.status = s]]
    BY <2>1 DEF Runs
  <2>3. WorkflowShaped([wf[w] EXCEPT !.status = s]) /\ [wf[w] EXCEPT !.status = s].mode = wf[w].mode
          /\ [wf[w] EXCEPT !.status = s].cancelled = wf[w].cancelled
    BY DEF WorkflowInv, WorkflowShaped
  <2> QED
    BY <1>1, <2>2, <2>3, Stays DEF WorkflowInv, ShadowsAreShadows, LiveLeftAlone, Workflows
<1> QED
  BY <1>1, <1>2, <1>3, Stays

LEMMA StepInv == HarnessInv /\ [Next]_vars => HarnessInv'
<1> SUFFICES ASSUME JobInv, WorkflowInv, [Next]_vars PROVE JobInv' /\ WorkflowInv'
  BY InvIsBoth, PTL
<1>1. ASSUME NEW offered \in Offers, NEW kind \in {"golden", "redteam"}, start_run(offered, kind)
      PROVE  JobInv' /\ WorkflowInv'
  BY <1>1, StartRunInv
<1>2. CASE \E c \in Cases : _run_redteam(c) \/ ProbesFail(c)
  BY <1>2, Stays DEF ProbesFail, _run_redteam, orchestrator
<1>3. ASSUME NEW c \in Cases, JobStep(c) \/ JobFails(c)
      PROVE  JobInv' /\ WorkflowInv'
  BY <1>3, CancelsRunInv, StartsInv, RetriesInv, QuietInv DEF JobStep, JobFails
<1>4. CASE Ends
  BY <1>4, EndsInv
<1>5. CASE Person \/ \E w \in Workflows : Runs(w)
  BY <1>5, OrchestratorInv
<1>6. CASE UNCHANGED vars
  BY <1>6, Stays DEF vars
<1> QED
  BY <1>1, <1>2, <1>3, <1>4, <1>5, <1>6 DEF Next, Ends

(* The harness never cancels a live run: whatever it starts, whatever answers are lost *)
(* on the way and however often it is cancelled itself, the row it cancels by is that  *)
(* of a shadow run, whose signal goes to its own workflow and not to its case's.       *)
THEOREM LiveRunsLeftAlone == Spec => []LiveLeftAlone
<1>1. HarnessInv => LiveLeftAlone
  BY DEF HarnessInv
<1> QED
  BY InitInv, StepInv, <1>1, PTL DEF Spec

-----------------------------------------------------------------------------
(* WHAT A SUITE ADDS UP TO                                                  *)
(*                                                                          *)
(* The rows are counted by a sum over the cases.  A task that has read the  *)
(* count counts on it until it stores its row, so what the invariant says   *)
(* of a count it says of each one read; that a case has one row is because  *)
(* its task was there and was not done, and one that stored a row without   *)
(* hearing of it stores at most one more; and nothing is added to a suite   *)
(* that has completed, because none of its tasks is there any more.         *)

SuiteShaped(s) ==
  s \in [status : {s.status}, kind : {"golden", "redteam"}, total : {s.total}, done : Nat, metrics : {s.metrics},
         cases : SUBSET Cases, offered : {s.offered}]

\* How many rows there are.
RowsOf(r) == SumFunctionOnSet([c \in Cases |-> Len(r[c])], Cases)

LEMMA RowsOfIsNat == ASSUME NEW r \in [Cases -> Seq(BOOLEAN)] PROVE RowsOf(r) \in Nat
<1> DEFINE f == [c \in Cases |-> Len(r[c])]
<1>1. IsFiniteSet(Cases) /\ \A c \in Cases : f[c] \in Nat
  BY EvalsAssumption DEF Cases
<1> HIDE DEF f
<1>2. SumFunctionOnSet(f, Cases) \in Nat
  BY <1>1, SumNat
<1> QED
  BY <1>2 DEF f, RowsOf

\* One case has its rows replaced.
LEMMA RowsOfChange ==
  ASSUME NEW r \in [Cases -> Seq(BOOLEAN)], NEW c \in Cases, NEW rows \in Seq(BOOLEAN)
  PROVE  RowsOf([r EXCEPT ![c] = rows]) = RowsOf(r) - Len(r[c]) + Len(rows)
<1> DEFINE f == [d \in Cases |-> Len(r[d])]
           g == [d \in Cases |-> Len([r EXCEPT ![c] = rows][d])]
<1>1. IsFiniteSet(Cases)
  BY EvalsAssumption DEF Cases
<1>2. \A d \in Cases : f[d] \in Int /\ g[d] \in Int
  OBVIOUS
<1>3. \A d \in Cases \ {c} : g[d] = f[d]
  OBVIOUS
<1>4. f[c] = Len(r[c]) /\ g[c] = Len(rows)
  OBVIOUS
<1>5. RowsOf(r) = SumFunctionOnSet(f, Cases) /\ RowsOf([r EXCEPT ![c] = rows]) = SumFunctionOnSet(g, Cases)
  BY DEF RowsOf
<1> HIDE DEF f, g
<1>6. SumFunctionOnSet(g, Cases) = SumFunctionOnSet(f, Cases) - f[c] + g[c]
  BY <1>1, <1>2, <1>3, SumChange
<1> QED
  BY <1>4, <1>5, <1>6

\* One row each for some of the cases.
LEMMA RowsOfOnes ==
  ASSUME NEW r \in [Cases -> Seq(BOOLEAN)], NEW T \in SUBSET Cases,
         \A c \in Cases : Len(r[c]) = IF c \in T THEN 1 ELSE 0
  PROVE  RowsOf(r) = Cardinality(T)
<1> DEFINE f == [c \in Cases |-> Len(r[c])]
<1>1. IsFiniteSet(Cases) /\ \A c \in Cases : f[c] = IF c \in T THEN 1 ELSE 0
  BY EvalsAssumption DEF Cases
<1> HIDE DEF f
<1>2. SumFunctionOnSet(f, Cases) = Cardinality(T)
  BY <1>1, SumOfOnes
<1> QED
  BY <1>2 DEF f, RowsOf

\* What the runner counts.
LEMMA CountIsRows == ASSUME results \in [Cases -> Seq(BOOLEAN)] PROVE Count(BOOLEAN) = RowsOf(results)
<1> DEFINE f == [c \in Cases |-> Len(results[c])]
<1>1. ASSUME NEW c \in Cases
      PROVE  Rows(BOOLEAN)[c] = f[c] /\ f[c] \in Int
  <2>1. results[c] \in Seq(BOOLEAN)
    OBVIOUS
  <2> DEFINE s == results[c]
  <2>2. s \in Seq(BOOLEAN) /\ Len(s) \in Nat /\ {k \in DOMAIN s : s[k] \in BOOLEAN} = 0 + 1 .. 0 + Len(s)
    BY <2>1
  <2> HIDE DEF s
  <2>3. Cardinality({k \in DOMAIN s : s[k] \in BOOLEAN}) = Len(s)
    BY <2>2, IntervalSize
  <2> QED
    BY <2>2, <2>3 DEF Rows, s
<1>2. IsFiniteSet(Cases)
  BY EvalsAssumption DEF Cases
<1> HIDE DEF f
<1>3. SumFunctionOnSet(Rows(BOOLEAN), Cases) = SumFunctionOnSet(f, Cases)
  BY <1>1, <1>2, SumAgree
<1> QED
  BY <1>3 DEF Count, RowsOf, f

-----------------------------------------------------------------------------
\* The rows of a case: one if its task is done, and perhaps one more that was not heard of.
Rowed(c) ==
  /\ c \notin suite.cases => Len(results[c]) = 0
  /\ c \notin unheard => Len(results[c]) = IF In(c, "done") THEN 1 ELSE 0
  /\ c \in unheard =>
       /\ job[c].phase \in {"absent", "erring", "storing_error", "done", "broken"}
       /\ Len(results[c]) <= 2
       /\ job[c].phase \in {"erring", "storing_error"} => Len(results[c]) = 1
       /\ In(c, "done") => Len(results[c]) # 0

\* Only the cases of a golden suite have tasks; a red team has none.
Golden ==
  /\ \A c \in Cases \ suite.cases : In(c, "absent")
  /\ \A c \in Cases : Rowed(c)
  /\ suite.status # "none" => suite.total = Cardinality(suite.cases)

Redteam ==
  /\ \A c \in Cases : In(c, "absent")
  /\ task.phase = "probing" => \A c \in Cases : results[c] = <<>>

\* What the task that runs the suite has come to.
Phases == {"none", "probing", "gathering", "finishing", "over", "abandoned", "dead"}
Whole ==
  /\ suite.kind = "golden" => AllOfThem
  /\ suite.kind = "redteam" => RowsOf(results) = suite.total
Course ==
  /\ task \in [phase : Phases, end : Terminal \cup {"none"}]
  /\ suite.status = "none" => suite = NoSuite /\ task.phase = "none" /\ unheard = {}
  /\ task.phase \in {"none", "gathering"} => suite.kind = "golden"
  /\ task.phase = "probing" => suite.kind = "redteam"
  /\ task.phase \in {"none", "probing", "gathering"} => task.end = "none" /\ suite.status # "COMPLETED"
  /\ task.phase \in {"finishing", "over"} => task.end \in Terminal
  /\ suite.status = "COMPLETED" => suite.metrics.cases = RowsOf(results)
  /\ suite.status = "COMPLETED" \/ task.end = "COMPLETED" => Whole

\* What has been counted, and what is about to be counted on, is no more than there is.
Counted ==
  /\ suite.done <= RowsOf(results) /\ (~torn => suite.done = RowsOf(results))
  /\ \A c \in Cases : job[c].read \in Nat /\ job[c].read <= RowsOf(results)

Written ==
  /\ SuiteShaped(suite) /\ results \in [Cases -> Seq(BOOLEAN)]
  /\ torn \in BOOLEAN /\ unheard \in SUBSET Cases

SuiteInv ==
  /\ Written /\ Counted /\ Course
  /\ suite.kind = "golden" => Golden
  /\ suite.kind = "redteam" => Redteam

LEMMA SuiteInit == Init => SuiteInv
<1> SUFFICES ASSUME Init PROVE SuiteInv
  OBVIOUS
<1>1. Written
  <2>1. results \in [Cases -> Seq(BOOLEAN)]
    BY DEF Init
  <2>2. suite = NoSuite /\ {} \in SUBSET Cases
    BY DEF Init
  <2>3. SuiteShaped(suite)
    BY <2>2 DEF SuiteShaped, NoSuite
  <2>4. torn \in BOOLEAN /\ unheard \in SUBSET Cases
    BY DEF Init
  <2> QED
    BY <2>1, <2>3, <2>4 DEF Written
<1>2. RowsOf(results) = 0
  <2>1. Cardinality({}) = 0 /\ {} \in SUBSET Cases /\ \A c \in Cases : Len(results[c]) = IF c \in {} THEN 1 ELSE 0
    BY FS_EmptySet DEF Init
  <2> QED
    BY <1>1, <2>1, RowsOfOnes DEF Written
<1>3. suite = NoSuite /\ suite.kind = "golden" /\ suite.status = "none" /\ suite.done = 0
  BY DEF Init, NoSuite
<1>4. Counted
  BY <1>2, <1>3 DEF Init, Counted, NoJob
<1>5. Course
  BY <1>3 DEF Init, Course, Phases, Terminal
<1>6. Golden
  BY <1>3 DEF Init, Golden, Rowed, In, NoJob
<1> QED
  BY <1>1, <1>3, <1>4, <1>5, <1>6 DEF SuiteInv

\* While a case is being scored its suite is a golden one that has not completed.
LEMMA Underway ==
  ASSUME SuiteInv, NEW c \in Cases, job[c].phase \notin {"absent", "done"}
  PROVE  /\ suite.kind = "golden" /\ c \in suite.cases /\ task.end # "COMPLETED"
         /\ suite.status \notin {"none", "COMPLETED"}
<1>1. suite.kind = "golden"
  BY DEF SuiteInv, Redteam, In, Written, SuiteShaped
<1>2. c \in suite.cases
  BY <1>1 DEF SuiteInv, Golden, In
<1>3. task.end # "COMPLETED" /\ suite.status # "COMPLETED"
  <2>1. ~AllOfThem
    BY <1>2 DEF AllOfThem, In
  <2> QED
    BY <1>1, <2>1 DEF SuiteInv, Course, Whole
<1>4. suite.status # "none"
  <2>1. suite.status = "none" => suite.cases = {}
    BY DEF SuiteInv, Course, NoSuite
  <2> QED
    BY <1>2, <2>1
<1> QED
  BY <1>1, <1>2, <1>3, <1>4

\* The task of a case goes on without storing anything.
LEMMA GoesOn ==
  ASSUME SuiteInv, JobInv, NEW c \in Cases, job[c].phase \notin {"absent", "done", "broken"},
         NEW j, job' = [job EXCEPT ![c] = j], j.phase \notin {"absent", "done"},
         c \in unheard => j.phase \in {"storing_error", "broken"},
         j.read \in Nat, j.read <= RowsOf(results),
         UNCHANGED <<suite, results, task, torn, unheard>>
  PROVE  SuiteInv'
<1>1. /\ suite.kind = "golden" /\ c \in suite.cases /\ task.end # "COMPLETED"
      /\ suite.status \notin {"none", "COMPLETED"}
  BY Underway
<1>2. job'[c] = j /\ \A d \in Cases \ {c} : job'[d] = job[d]
  BY DEF JobInv
<1>3. Written'
  BY DEF SuiteInv, Written, SuiteShaped
<1>4. Counted'
  BY <1>2 DEF SuiteInv, Counted, RowsOf
<1>5. Course'
  BY <1>1 DEF SuiteInv, Course
<1>6. Golden'
  <2>1. Golden
    BY <1>1 DEF SuiteInv
  <2>2. ASSUME NEW d \in Cases \ {c} PROVE Rowed(d)'
    BY <1>2, <2>1 DEF Golden, Rowed, In
  <2>3. Rowed(c)'
    BY <1>1, <1>2, <2>1 DEF Golden, Rowed, In
  <2>4. \A d \in Cases \ suite.cases : In(d, "absent")'
    BY <1>1, <1>2, <2>1 DEF Golden, In
  <2> QED
    BY <2>1, <2>2, <2>3, <2>4 DEF Golden
<1> QED
  BY <1>1, <1>3, <1>4, <1>5, <1>6 DEF SuiteInv

\* A row is stored, and its task is done or has not heard of it.
LEMMA StoredInv ==
  ASSUME SuiteInv, JobInv, NEW c \in Cases, job[c].phase \in {"storing", "storing_error"},
         NEW passed \in BOOLEAN, Stored(c, passed), NEW phase, Leaves(c, phase),
         \/ phase = "done" /\ UNCHANGED unheard
         \/ phase = Afterwards(c) /\ unheard' = unheard \cup {c}
  PROVE  SuiteInv'
<1>1. /\ suite.kind = "golden" /\ c \in suite.cases /\ task.end # "COMPLETED"
      /\ suite.status \notin {"none", "COMPLETED"}
  BY Underway
<1>2. /\ results \in [Cases -> Seq(BOOLEAN)] /\ SuiteShaped(suite)
      /\ torn \in BOOLEAN /\ unheard \in SUBSET Cases
  BY DEF SuiteInv, Written
<1>3. Golden
  BY <1>1 DEF SuiteInv
<1>4. /\ job[c].read \in Nat /\ job[c].read <= RowsOf(results) /\ suite.done \in Nat /\ RowsOf(results) \in Nat
      /\ (~torn => suite.done = RowsOf(results))
  BY <1>2, RowsOfIsNat DEF SuiteInv, Counted, SuiteShaped
<1> DEFINE rows == Append(results[c], passed)
<1>5. results' = [results EXCEPT ![c] = rows]
  BY DEF Stored
<1>6. rows \in Seq(BOOLEAN) /\ Len(results[c]) \in Nat /\ Len(rows) = Len(results[c]) + 1
  <2>1. results[c] \in Seq(BOOLEAN)
    BY <1>2
  <2> QED
    BY <2>1
<1> HIDE DEF rows
<1>7. RowsOf(results') = RowsOf(results) + 1
  <2>1. RowsOf([results EXCEPT ![c] = rows]) = RowsOf(results) - Len(results[c]) + Len(rows)
    BY <1>2, <1>6, RowsOfChange
  <2> QED
    BY <1>4, <1>5, <1>6, <2>1
<1>8. /\ suite' = [status |-> suite.status, kind |-> suite.kind, total |-> suite.total, done |-> job[c].read + 1,
                   metrics |-> suite.metrics, cases |-> suite.cases, offered |-> suite.offered]
      /\ torn' = (torn \/ suite.done # job[c].read)
      /\ task' = task
  BY <1>2 DEF Stored, DoneAfter, SuiteShaped
<1>9. job'[c] = [NoJob EXCEPT !.phase = phase] /\ \A d \in Cases \ {c} : job'[d] = job[d]
  BY DEF JobInv, Leaves
<1>10. job'[c].phase = phase /\ job'[c].read = 0
  BY <1>9 DEF NoJob
<1>11. Written'
  <2>1. results' \in [Cases -> Seq(BOOLEAN)]
    BY <1>2, <1>5, <1>6
  <2>2. SuiteShaped(suite)'
    BY <1>2, <1>4, <1>8 DEF SuiteShaped
  <2>3. torn' \in BOOLEAN /\ unheard' \in SUBSET Cases
    BY <1>2, <1>8
  <2> QED
    BY <2>1, <2>2, <2>3 DEF Written
<1>12. Counted'
  <2>1. suite'.done = job[c].read + 1
    BY <1>8
  <2>2. suite'.done <= RowsOf(results')
    BY <1>4, <1>7, <2>1
  <2>3. ~torn' => suite'.done = RowsOf(results')
    BY <1>4, <1>7, <1>8, <2>1
  <2>4. \A d \in Cases : job'[d].read = job[d].read \/ job'[d].read = 0
    BY <1>9, <1>10
  <2>5. \A d \in Cases : job[d].read \in Nat /\ job[d].read <= RowsOf(results)
    BY DEF SuiteInv, Counted
  <2>6. \A d \in Cases : job'[d].read \in Nat /\ job'[d].read <= RowsOf(results')
    BY <1>4, <1>7, <2>4, <2>5
  <2> QED
    BY <2>2, <2>3, <2>6 DEF Counted
<1>13. Course'
  <2>1. suite'.status = suite.status /\ suite'.kind = suite.kind
    BY <1>8
  <2> QED
    BY <1>1, <1>8, <2>1 DEF SuiteInv, Course
<1>14. Golden'
  <2>1. /\ suite'.cases = suite.cases /\ suite'.status = suite.status /\ suite'.total = suite.total
    BY <1>8
  <2>2. ASSUME NEW d \in Cases \ {c} PROVE Rowed(d)' /\ (In(d, "absent") => In(d, "absent")')
    <3>1. results'[d] = results[d] /\ (d \in unheard' <=> d \in unheard)
      BY <1>5
    <3> QED
      BY <1>3, <1>9, <2>1, <3>1 DEF Golden, Rowed, In
  <2>3. Rowed(c)'
    <3>1. results'[c] = rows
      BY <1>2, <1>5
    <3>2. /\ c \notin unheard => Len(results[c]) = 0
          /\ c \in unheard => Len(results[c]) = 1 /\ job[c].phase = "storing_error"
      BY <1>3 DEF Golden, Rowed, In
    <3>3. (Len(results[c]) = 0 => Len(rows) = 1) /\ (Len(results[c]) = 1 => Len(rows) = 2)
      <4> DEFINE n == Len(results[c])
                 m == Len(rows)
      <4>1. n \in Nat /\ m = n + 1
        BY <1>6
      <4> HIDE DEF n, m
      <4>2. (n = 0 => m = 1) /\ (n = 1 => m = 2)
        BY <4>1
      <4> QED
        BY <4>2 DEF n, m
    <3>4. /\ c \notin unheard => Len(rows) = 1
          /\ c \in unheard => Len(rows) = 2 /\ job[c].phase = "storing_error"
      BY <3>2, <3>3, Zenon
    <3>5. Len(rows) <= 2 /\ Len(rows) # 0
      <4> DEFINE m == Len(rows)
      <4>1. m = 1 \/ m = 2
        BY <3>4, Zenon
      <4> HIDE DEF m
      <4>2. m <= 2 /\ m # 0
        BY <4>1
      <4> QED
        BY <4>2 DEF m
    <3>6. c \in suite'.cases
      BY <1>1, <2>1
    <3>7. CASE phase = "done" /\ UNCHANGED unheard
      BY <1>10, <3>1, <3>4, <3>6, <3>7, <3>5 DEF Rowed, In
    <3>8. CASE phase = Afterwards(c) /\ unheard' = unheard \cup {c}
      <4>1. c \in unheard' /\ job'[c].phase \in {"erring", "broken"}
        BY <1>10, <3>8 DEF Afterwards
      <4>2. job'[c].phase = "erring" => job[c].phase = "storing"
        BY <1>10, <3>8 DEF Afterwards, In
      <4>3. job'[c].phase = "erring" => Len(rows) = 1
        BY <3>4, <4>2
      <4> QED
        BY <3>1, <3>6, <3>5, <4>1, <4>3 DEF Rowed, In
    <3> QED
      BY <3>7, <3>8
  <2>4. \A d \in Cases \ suite'.cases : In(d, "absent")'
    BY <1>1, <1>3, <2>1, <2>2 DEF Golden
  <2> QED
    BY <1>1, <1>3, <2>1, <2>2, <2>3, <2>4 DEF Golden
<1> QED
  BY <1>1, <1>8, <1>11, <1>12, <1>13, <1>14 DEF SuiteInv

\* What is not about the suite leaves it as it is.
LEMMA SuiteStays ==
  ASSUME SuiteInv, UNCHANGED <<suite, results, job, task, torn, unheard>>
  PROVE  SuiteInv'
<1>1. Written' /\ Counted'
  BY DEF SuiteInv, Written, SuiteShaped, Counted, RowsOf
<1>2. Course'
  BY DEF SuiteInv, Course, Whole, RowsOf, AllOfThem, In
<1>3. (suite.kind = "golden" => Golden') /\ (suite.kind = "redteam" => Redteam')
  BY DEF SuiteInv, Golden, Rowed, Redteam, In
<1> QED
  BY <1>1, <1>2, <1>3 DEF SuiteInv

\* The steps of a case's task.
LEMMA JobSuite ==
  ASSUME SuiteInv, JobInv, NEW c \in Cases, JobStep(c) \/ JobFails(c)
  PROVE  SuiteInv'
<1>1. job[c].read \in Nat /\ job[c].read <= RowsOf(results) /\ JobShaped(job[c])
  BY DEF SuiteInv, Counted, JobInv
<1>2. suite.done \in Nat /\ suite.done <= RowsOf(results) /\ 0 <= RowsOf(results)
  BY RowsOfIsNat DEF SuiteInv, Counted, Written, SuiteShaped
<1>3. job[c].phase \in {"queued", "starting", "polling", "parked", "looking", "scoring", "storing"} => c \notin unheard
  <2>1. suite.kind = "golden" => Rowed(c)
    BY DEF SuiteInv, Golden
  <2> QED
    BY <2>1, Underway DEF Rowed
<1>4. CASE Enters(c) \/ CancelsRun(c) \/ (Polls(c) /\ Row(c) = "WAITING")
  <2>1. PICK phase \in {"starting", "looking", "parked"} : job' = [job EXCEPT ![c].phase = phase]
    BY <1>4 DEF Enters, CancelsRun, Polls, Goes
  <2> DEFINE j == [job[c] EXCEPT !.phase = phase]
  <2>2. job' = [job EXCEPT ![c] = j]
    BY <2>1
  <2>3. j.phase = phase /\ j.read = job[c].read
    BY <1>1 DEF JobShaped
  <2>4. job[c].phase \in {"queued", "parked", "polling"} /\ UNCHANGED <<suite, results, task, torn, unheard>>
    BY <1>4 DEF Enters, CancelsRun, Polls, In, history
  <2> HIDE DEF j
  <2> QED
    BY <1>1, <1>3, <2>2, <2>3, <2>4, GoesOn
<1>5. CASE (Polls(c) /\ Row(c) # "WAITING") \/ Looks(c)
  <2> DEFINE j == [job[c] EXCEPT !.phase = "scoring", !.detail = Row(c)]
  <2>1. job' = [job EXCEPT ![c] = j]
    BY <1>5 DEF Polls, Looks
  <2>2. j.phase = "scoring" /\ j.read = job[c].read
    BY <1>1 DEF JobShaped
  <2>3. job[c].phase \in {"polling", "looking"} /\ UNCHANGED <<suite, results, task, torn, unheard>>
    BY <1>5 DEF Polls, Looks, In, history
  <2> HIDE DEF j
  <2> QED
    BY <1>1, <1>3, <2>1, <2>2, <2>3, GoesOn
<1>6. CASE Starts(c) \/ Retries(c)
  <2>1. PICK j : job' = [job EXCEPT ![c] = j] /\ j.phase \notin {"absent", "done"} /\ j.read = job[c].read
    <3>1. CASE Starts(c)
      <4> DEFINE j == [job[c] EXCEPT !.phase = "polling", !.run = NextOf(Unused(Shadows))]
      <4>1. job' = [job EXCEPT ![c] = j]
        BY <3>1 DEF Starts
      <4>2. j.phase = "polling" /\ j.read = job[c].read
        BY <1>1 DEF JobShaped
      <4> HIDE DEF j
      <4> QED
        BY <4>1, <4>2
    <3>2. CASE Retries(c)
      <4>1. PICK phase \in {"starting", "erring"} :
              job' = [job EXCEPT ![c] = [job[c] EXCEPT !.tries = job[c].tries + 1, !.phase = phase]]
        BY <3>2 DEF Retries
      <4> DEFINE j == [job[c] EXCEPT !.tries = job[c].tries + 1, !.phase = phase]
      <4>2. job' = [job EXCEPT ![c] = j]
        BY <4>1
      <4>3. j.phase = phase /\ j.read = job[c].read
        BY <1>1 DEF JobShaped
      <4> HIDE DEF j
      <4> QED
        BY <4>2, <4>3
    <3> QED
      BY <1>6, <3>1, <3>2
  <2>2. job[c].phase = "starting" /\ UNCHANGED <<suite, results, task, torn, unheard>>
    BY <1>6 DEF Starts, Retries, In, history
  <2> QED
    BY <1>1, <1>3, <2>1, <2>2, GoesOn
<1>7. CASE Reads(c)
  <2> DEFINE phase == IF In(c, "scoring") THEN "storing" ELSE "storing_error"
             j == [job[c] EXCEPT !.phase = phase, !.read = suite.done]
  <2>1. job' = [job EXCEPT ![c] = j]
    BY <1>7 DEF Reads
  <2>2. j.phase = phase /\ j.read = suite.done
    BY <1>1 DEF JobShaped
  <2>3. job[c].phase \in {"scoring", "erring"} /\ UNCHANGED <<suite, results, task, torn, unheard>>
    BY <1>7 DEF Reads, history
  <2>4. c \in unheard => phase = "storing_error"
    BY <1>3 DEF In
  <2>5. phase \in {"storing", "storing_error"}
    OBVIOUS
  <2> HIDE DEF j, phase
  <2> QED
    BY <1>2, <2>1, <2>2, <2>3, <2>4, <2>5, GoesOn
<1>8. ASSUME Leaves(c, "erring") \/ Leaves(c, "broken"),
             \/ job[c].phase \in {"polling", "looking", "scoring", "storing"}
             \/ job[c].phase = "storing_error" /\ Leaves(c, "broken"),
             UNCHANGED <<suite, results, task, torn, unheard>>
      PROVE  SuiteInv'
  <2>1. PICK phase \in {"erring", "broken"} : Leaves(c, phase) /\ (c \in unheard => phase = "broken")
    BY <1>3, <1>8
  <2> DEFINE j == [NoJob EXCEPT !.phase = phase]
  <2>2. job' = [job EXCEPT ![c] = j]
    BY <2>1 DEF Leaves
  <2>3. j.phase = phase /\ j.read = 0
    BY DEF NoJob
  <2>4. job[c].phase \notin {"absent", "done", "broken"} /\ UNCHANGED <<suite, results, task, torn, unheard>>
    BY <1>8
  <2>5. j.phase \notin {"absent", "done"} /\ (c \in unheard => j.phase \in {"storing_error", "broken"})
    BY <2>1, <2>3
  <2>6. j.read \in Nat /\ j.read <= RowsOf(results)
    BY <1>2, <2>3
  <2> HIDE DEF j
  <2> QED
    BY <2>2, <2>4, <2>5, <2>6, GoesOn
<1>9. CASE TimesOut(c) \/ Errs(c)
  BY <1>8, <1>9 DEF TimesOut, Deadline, Errs, In, history
<1>10. ASSUME NEW phase, Leaves(c, phase), Commits(c),
              \/ phase = "done" /\ UNCHANGED unheard
              \/ phase = Afterwards(c) /\ unheard' = unheard \cup {c}
       PROVE  SuiteInv'
  <2>1. PICK passed \in BOOLEAN : Stored(c, passed)
    BY <1>10 DEF Commits, score_case
  <2>2. job[c].phase \in {"storing", "storing_error"}
    BY <1>10 DEF Commits, In
  <2> QED
    BY <1>10, <2>1, <2>2, StoredInv
<1>11. CASE Stores(c)
  BY <1>10, <1>11 DEF Stores
<1>12. CASE StoreFails(c)
  <2>1. CASE UNCHANGED <<suite, results, task, orchestrator, history>>
    <3>1. Leaves(c, "erring") \/ Leaves(c, "broken")
      BY <1>12 DEF StoreFails, Afterwards
    <3>2. \/ job[c].phase = "storing"
          \/ job[c].phase = "storing_error" /\ Leaves(c, "broken")
      BY <1>12 DEF StoreFails, Afterwards, In
    <3> QED
      BY <1>8, <2>1, <3>1, <3>2 DEF history
  <2>2. CASE Commits(c) /\ unheard' = unheard \cup {c}
    BY <1>10, <1>12, <2>2 DEF StoreFails
  <2> QED
    BY <1>12, <2>1, <2>2 DEF StoreFails
<1> QED
  BY <1>4, <1>5, <1>6, <1>7, <1>9, <1>11, <1>12 DEF JobStep, JobFails

\* The task of the suite goes on to its end, whichever it is; tasks may be dropped, what is
\* done stays so, and the end may be written, heard of or not.
LEMMA EndsSuite ==
  ASSUME SuiteInv, JobInv, job' = Dropped \/ UNCHANGED job, UNCHANGED <<results, torn, unheard>>,
         task.phase \in {"probing", "gathering", "finishing"}, MayHaveEnded,
         NEW phase \in {"finishing", "over", "abandoned", "dead"}, NEW end \in Terminal \cup {"none"},
         task' = [phase |-> phase, end |-> end],
         phase \in {"finishing", "over"} => end \in Terminal,
         end = "COMPLETED" => Whole
  PROVE  SuiteInv'
<1>1. ASSUME NEW c \in Cases
      PROVE  /\ job'[c].read \in {0, job[c].read}
             /\ In(c, "done")' <=> In(c, "done")
             /\ In(c, "absent")' \/ (job'[c].phase = job[c].phase /\ ~In(c, "absent"))
  <2>1. (job'[c] = NoJob /\ ~In(c, "done")) \/ job'[c] = job[c]
    BY DEF Dropped, Working, In
  <2> QED
    BY <2>1 DEF NoJob, In
<1>2. SuiteShaped(suite) /\ Course /\ Counted /\ Written
  BY DEF SuiteInv, Written
<1>3. suite.status # "none"
  BY <1>2 DEF Course
<1>4. /\ suite'.kind = suite.kind /\ suite'.done = suite.done /\ suite'.cases = suite.cases
      /\ suite'.total = suite.total /\ SuiteShaped(suite)' /\ suite'.status # "none"
      /\ suite'.status = "COMPLETED" =>
           suite'.metrics.cases = RowsOf(results) /\ (suite.status = "COMPLETED" \/ task.end = "COMPLETED")
  <2>1. CASE UNCHANGED suite
    BY <1>2, <1>3, <2>1 DEF SuiteShaped, Course
  <2>2. CASE task.phase = "finishing" /\ WritesEnd
    <3>1. suite' = [status |-> task.end, kind |-> suite.kind, total |-> suite.total, done |-> suite.done,
                    metrics |-> aggregate, cases |-> suite.cases, offered |-> suite.offered]
      BY <1>2, <2>2 DEF SuiteShaped, WritesEnd
    <3>2. aggregate.cases = RowsOf(results)
      BY <1>2, CountIsRows DEF aggregate, Written
    <3>3. task.end \in Terminal
      BY <1>2, <2>2 DEF Course
    <3> HIDE DEF aggregate
    <3>4. /\ suite'.kind = suite.kind /\ suite'.done = suite.done /\ suite'.cases = suite.cases
          /\ suite'.total = suite.total /\ suite'.status = task.end /\ suite'.metrics.cases = RowsOf(results)
      BY <3>1, <3>2
    <3>5. SuiteShaped(suite)'
      BY <1>2, <3>1 DEF SuiteShaped
    <3> QED
      BY <3>3, <3>4, <3>5 DEF Terminal
  <2> QED
    BY <2>1, <2>2 DEF MayHaveEnded
<1>5. Written'
  BY <1>2, <1>4 DEF Written
<1>6. Counted'
  <2>1. RowsOf(results)' = RowsOf(results) /\ RowsOf(results) \in Nat
    BY <1>2, RowsOfIsNat DEF RowsOf, Written
  <2>2. ASSUME NEW c \in Cases PROVE job'[c].read \in Nat /\ job'[c].read <= RowsOf(results)
    BY <1>1, <1>2, <2>1 DEF Counted
  <2> QED
    BY <1>2, <1>4, <2>1, <2>2 DEF Counted
<1>7. Course'
  <2>1. Whole => Whole'
    <3>1. suite.cases \in SUBSET Cases
      BY <1>2 DEF SuiteShaped
    <3>2. AllOfThem => AllOfThem'
      BY <1>1, <1>4, <3>1 DEF AllOfThem
    <3>3. RowsOf(results)' = RowsOf(results)
      BY DEF RowsOf
    <3> QED
      BY <1>4, <3>2, <3>3 DEF Whole
  <2>2. suite'.status = "COMPLETED" \/ task'.end = "COMPLETED" => Whole'
    BY <1>2, <1>4, <2>1 DEF Course
  <2>3. suite'.status = "COMPLETED" => suite'.metrics.cases = RowsOf(results)'
    BY <1>4 DEF RowsOf
  <2>4. task' \in [phase : Phases, end : Terminal \cup {"none"}]
    BY DEF Phases
  <2> QED
    BY <1>4, <2>2, <2>3, <2>4 DEF Course
<1>8. suite.kind = "golden" => Golden'
  <2> SUFFICES ASSUME Golden PROVE Golden'
    BY DEF SuiteInv
  <2>1. ASSUME NEW c \in Cases PROVE Rowed(c)'
    BY <1>1, <1>4 DEF Golden, Rowed, In
  <2>2. \A c \in Cases \ suite'.cases : In(c, "absent")'
    BY <1>1, <1>4 DEF Golden
  <2> QED
    BY <1>3, <1>4, <2>1, <2>2 DEF Golden
<1>9. suite.kind = "redteam" => Redteam'
  BY <1>1 DEF SuiteInv, Redteam
<1> QED
  BY <1>4, <1>5, <1>6, <1>7, <1>8, <1>9 DEF SuiteInv

LEMMA EndsAre == ASSUME SuiteInv, JobInv, Ends PROVE SuiteInv'
<1>1. /\ job' = Dropped \/ UNCHANGED job
      /\ UNCHANGED <<results, torn, unheard>>
      /\ task.phase \in {"probing", "gathering", "finishing"} /\ MayHaveEnded
  BY DEF Ends, Gathers, ReadFails, Breaks, _finish, FinishFails, cancel, Crashes, MayHaveEnded, history
<1>2. /\ task.phase = "gathering" => suite.kind = "golden"
      /\ task.phase = "finishing" => task.end \in Terminal
      /\ task.end \in Terminal \cup {"none"} /\ (task.end = "COMPLETED" => Whole)
  BY DEF SuiteInv, Course
<1>3. \E phase \in {"finishing", "over", "abandoned", "dead"}, end \in Terminal \cup {"none"} :
        /\ task' = [phase |-> phase, end |-> end]
        /\ phase \in {"finishing", "over"} => end \in Terminal
        /\ end = "COMPLETED" => Whole
  <2>1. CASE Gathers
    BY <1>2, <2>1 DEF Gathers, Finishes, Whole, Terminal
  <2>2. CASE ReadFails \/ Breaks
    BY <2>2 DEF ReadFails, Breaks, Finishes, Terminal
  <2>3. CASE _finish \/ Crashes
    BY <1>2, <2>3 DEF _finish, Crashes
  <2>4. CASE FinishFails \/ cancel
    BY <1>2, <2>4 DEF FinishFails, cancel, HandledAs, Finishes, Terminal
  <2> QED
    BY <2>1, <2>2, <2>3, <2>4 DEF Ends
<1> QED
  BY <1>1, <1>3, EndsSuite

\* A dataset is some of what was offered.
LEMMA PickedAre == ASSUME NEW offered \in Offers PROVE Picked(offered) \in SUBSET Cases
<1>1. offered \in Seq(Cases)
  BY EvalsAssumption DEF Cases
<1> QED
  BY <1>1 DEF Picked

LEMMA StartSuite ==
  ASSUME SuiteInv, NEW offered \in Offers, NEW kind \in {"golden", "redteam"}, start_run(offered, kind)
  PROVE  SuiteInv'
<1> DEFINE picked == Picked(offered)
           first == IF kind = "golden" THEN "queued" ELSE "absent"
<1>1. picked \in SUBSET Cases
  BY PickedAre
<1>2. /\ suite.status = "none" /\ UNCHANGED <<results, torn, unheard>>
      /\ suite' = [NoSuite EXCEPT !.status = "RUNNING", !.kind = kind, !.total = Cardinality(picked),
                                  !.cases = picked, !.offered = offered]
      /\ job' = [c \in Cases |-> [NoJob EXCEPT !.phase = IF c \in picked THEN first ELSE "absent"]]
      /\ task' = [phase |-> IF kind = "golden" THEN "gathering" ELSE "probing", end |-> "none"]
  BY DEF start_run, history
<1> HIDE DEF picked
<1>3. suite' = [status |-> "RUNNING", kind |-> kind, total |-> Cardinality(picked), done |-> 0,
                metrics |-> NoSuite.metrics, cases |-> picked, offered |-> offered]
  BY <1>2 DEF NoSuite
<1>4. suite = NoSuite /\ suite.kind = "golden" /\ suite.cases = {} /\ suite.done = 0 /\ unheard = {}
  BY <1>2 DEF SuiteInv, Course, NoSuite
<1>5. results \in [Cases -> Seq(BOOLEAN)] /\ \A c \in Cases : Len(results[c]) = 0 /\ results[c] = <<>>
  <2>1. results \in [Cases -> Seq(BOOLEAN)]
    BY DEF SuiteInv, Written
  <2>2. \A c \in Cases : Len(results[c]) = 0
    BY <1>4 DEF SuiteInv, Golden, Rowed
  <2>3. ASSUME NEW c \in Cases
        PROVE  results[c] = <<>>
    <3>1. results[c] \in Seq(BOOLEAN) /\ Len(results[c]) = 0
      BY <2>1, <2>2
    <3> QED
      BY <3>1
  <2> QED
    BY <2>1, <2>2, <2>3
<1>6. RowsOf(results) = 0
  <2>1. {} \in SUBSET Cases /\ Cardinality({}) = 0
    BY FS_EmptySet
  <2>2. \A c \in Cases : Len(results[c]) = IF c \in {} THEN 1 ELSE 0
    BY <1>5
  <2>3. RowsOf(results) = Cardinality({})
    BY <1>5, <2>1, <2>2, RowsOfOnes
  <2> QED
    BY <2>1, <2>3
<1>7. ASSUME NEW c \in Cases
      PROVE  job'[c].read = 0 /\ job'[c].phase = IF c \in picked THEN first ELSE "absent"
  BY <1>2 DEF NoJob
<1>8. Written'
  BY <1>1, <1>2, <1>3 DEF Written, SuiteShaped, SuiteInv
<1>9. Counted'
  <2>0. suite'.done = 0
    BY <1>3
  <2>1. results' = results
    BY <1>2
  <2>2. RowsOf(results') = 0
    BY <1>6, <2>1
  <2>3. \A c \in Cases : job'[c].read \in Nat /\ job'[c].read <= 0
    BY <1>7
  <2> QED
    BY <2>0, <2>1, <2>2, <2>3 DEF Counted
<1>10. Course'
  <2>1. suite'.status = "RUNNING" /\ suite'.kind = kind
    BY <1>3
  <2> QED
    BY <1>2, <2>1 DEF Course, Phases
<1>11. kind = "golden" => Golden'
  <2>1. suite'.cases = picked /\ suite'.total = Cardinality(picked)
    BY <1>3
  <2> QED
    BY <1>2, <1>4, <1>5, <1>7, <2>1 DEF Golden, Rowed, In
<1>12. kind = "redteam" => Redteam'
  BY <1>2, <1>5, <1>7 DEF Redteam, In
<1>13. suite'.kind = kind
  BY <1>3
<1> QED
  BY <1>8, <1>9, <1>10, <1>11, <1>12, <1>13 DEF SuiteInv

\* The results of a red team are stored together, whether or not this is heard of.
LEMMA ProbesSuite ==
  ASSUME SuiteInv, NEW c \in Cases, task.phase = "probing", StoresProbes(c),
         NEW end \in {"COMPLETED", "FAILED"}, Finishes(end), UNCHANGED <<job, torn, unheard>>
  PROVE  SuiteInv'
<1>1. PICK passed \in [1 .. Probes -> BOOLEAN] : results' = [results EXCEPT ![c] = passed]
  BY DEF StoresProbes
<1>2. /\ suite' = [suite EXCEPT !.done = Probes, !.total = Probes]
      /\ task' = [phase |-> "finishing", end |-> end]
  BY DEF StoresProbes, Finishes
<1>3. suite.kind = "redteam" /\ suite.status \notin {"none", "COMPLETED"}
  BY <1>2 DEF SuiteInv, Course
<1>4. /\ results \in [Cases -> Seq(BOOLEAN)] /\ \A d \in Cases : In(d, "absent") /\ results[d] = <<>>
  BY <1>2, <1>3 DEF SuiteInv, Written, Redteam
<1>5. suite' = [status |-> suite.status, kind |-> suite.kind, total |-> Probes, done |-> Probes,
                metrics |-> suite.metrics, cases |-> suite.cases, offered |-> suite.offered]
  BY <1>2 DEF SuiteInv, Written, SuiteShaped
<1>6. passed \in Seq(BOOLEAN) /\ Len(passed) = Probes /\ Probes \in Nat
  BY EvalsAssumption
<1>7. RowsOf(results') = Probes /\ RowsOf(results) = 0
  <2>0. Cardinality({}) = 0 /\ {} \in SUBSET Cases
    BY FS_EmptySet
  <2>1. \A d \in Cases : Len(results[d]) = IF d \in {} THEN 1 ELSE 0
    BY <1>4
  <2>2. RowsOf(results) = Cardinality({})
    BY <1>4, <2>0, <2>1, RowsOfOnes
  <2>3. RowsOf([results EXCEPT ![c] = passed]) = RowsOf(results) - Len(results[c]) + Len(passed)
    BY <1>4, <1>6, RowsOfChange
  <2>4. Len(results[c]) = 0
    BY <1>4
  <2>5. 0 - 0 + Probes = Probes
    BY <1>6
  <2> QED
    BY <1>1, <1>6, <2>0, <2>2, <2>3, <2>4, <2>5
<1>8. Written'
  <2>1. results' \in [Cases -> Seq(BOOLEAN)]
    BY <1>1, <1>4, <1>6
  <2>2. SuiteShaped(suite)'
    BY <1>5, <1>6 DEF SuiteInv, Written, SuiteShaped
  <2>3. torn' \in BOOLEAN /\ unheard' \in SUBSET Cases
    BY DEF SuiteInv, Written
  <2> QED
    BY <2>1, <2>2, <2>3 DEF Written
<1>9. Counted'
  <2>1. suite'.done = Probes
    BY <1>5
  <2>2. \A d \in Cases : job'[d].read \in Nat /\ job'[d].read <= Probes
    BY <1>6, <1>7 DEF SuiteInv, Counted
  <2> QED
    BY <1>6, <1>7, <2>1, <2>2 DEF Counted
<1>10. Course'
  <2>1. suite'.status = suite.status /\ suite'.kind = suite.kind /\ suite'.total = Probes
    BY <1>5
  <2> QED
    BY <1>2, <1>3, <1>7, <2>1 DEF Course, Whole, Phases, Terminal
<1>11. Redteam'
  BY <1>2, <1>4 DEF Redteam, In
<1>12. suite'.kind = "redteam"
  BY <1>3, <1>5
<1> QED
  BY <1>8, <1>9, <1>10, <1>11, <1>12 DEF SuiteInv

\* The database fails as they are probed or as their results are stored.
LEMMA ProbesFailSuite ==
  ASSUME SuiteInv, JobInv, NEW c \in Cases, ProbesFail(c)
  PROVE  SuiteInv'
<1>1. task.phase = "probing" /\ Finishes("FAILED") /\ UNCHANGED <<job, torn, unheard>>
  BY DEF ProbesFail, Finishes, history
<1>2. CASE StoresProbes(c)
  BY <1>1, <1>2, ProbesSuite
<1>3. CASE UNCHANGED <<suite, results>>
  <2>1. task' = [phase |-> "finishing", end |-> "FAILED"] /\ MayHaveEnded
    BY <1>1, <1>3 DEF Finishes, MayHaveEnded
  <2> QED
    BY <1>1, <1>3, <2>1, EndsSuite DEF Terminal
<1> QED
  BY <1>2, <1>3 DEF ProbesFail

LEMMA SuiteStep == HarnessInv /\ SuiteInv /\ [Next]_vars => SuiteInv'
<1> SUFFICES ASSUME JobInv, SuiteInv, [Next]_vars PROVE SuiteInv'
  BY InvIsBoth
<1>1. ASSUME NEW offered \in Offers, NEW kind \in {"golden", "redteam"}, start_run(offered, kind)
      PROVE  SuiteInv'
  BY <1>1, StartSuite
<1>2. ASSUME NEW c \in Cases, _run_redteam(c)
      PROVE  SuiteInv'
  BY <1>2, ProbesSuite DEF _run_redteam, Finishes, history
<1>3. ASSUME NEW c \in Cases, ProbesFail(c)
      PROVE  SuiteInv'
  BY <1>3, ProbesFailSuite
<1>4. ASSUME NEW c \in Cases, JobStep(c) \/ JobFails(c)
      PROVE  SuiteInv'
  BY <1>4, JobSuite
<1>5. CASE Ends
  BY <1>5, EndsAre
<1>6. CASE Person \/ \E w \in Workflows : Runs(w)
  BY <1>6, SuiteStays DEF Person, Runs, history
<1>7. CASE UNCHANGED vars
  BY <1>7, SuiteStays DEF vars
<1> QED
  BY <1>1, <1>2, <1>3, <1>4, <1>5, <1>6, <1>7 DEF Next, Ends

\* When its tasks are all done, and all were heard of, there is a row for each of the cases.
LEMMA DoneIsAll ==
  ASSUME SuiteInv, suite.kind = "golden", AllOfThem, unheard = {}
  PROVE  RowsOf(results) = Cardinality(suite.cases)
<1>1. results \in [Cases -> Seq(BOOLEAN)] /\ suite.cases \in SUBSET Cases /\ Golden
  BY DEF SuiteInv, Written, SuiteShaped
<1>2. \A c \in Cases : Len(results[c]) = IF c \in suite.cases THEN 1 ELSE 0
  BY <1>1 DEF Golden, Rowed, AllOfThem, In
<1> QED
  BY <1>1, <1>2, RowsOfOnes

LEMMA SuiteInvAddsUp == SuiteInv => SuiteAddsUp
<1> SUFFICES ASSUME SuiteInv PROVE SuiteAddsUp
  OBVIOUS
<1>1. Count(BOOLEAN) = RowsOf(results)
  BY CountIsRows DEF SuiteInv, Written
<1>2. suite.kind = "golden" =>
        \A c \in Cases : Len(results[c]) <= IF c \notin suite.cases THEN 0 ELSE IF c \in unheard THEN 2 ELSE 1
  <2>1. ASSUME NEW c \in Cases, Rowed(c)
        PROVE  Len(results[c]) <= IF c \notin suite.cases THEN 0 ELSE IF c \in unheard THEN 2 ELSE 1
    BY <2>1 DEF Rowed
  <2> QED
    BY <2>1 DEF SuiteInv, Golden
<1>3. suite.done <= RowsOf(results) /\ (~torn => suite.done = RowsOf(results))
  BY DEF SuiteInv, Counted
<1>4. ASSUME suite.status = "COMPLETED"
      PROVE  /\ suite.metrics.cases = RowsOf(results)
             /\ suite.kind = "golden" => \A c \in suite.cases : results[c] # <<>>
             /\ unheard = {} => RowsOf(results) = suite.total
  <2>1. suite.metrics.cases = RowsOf(results) /\ Whole /\ suite.kind \in {"golden", "redteam"}
    BY <1>4 DEF SuiteInv, Course, Written, SuiteShaped
  <2>2. ASSUME suite.kind = "golden", NEW c \in suite.cases
        PROVE  results[c] # <<>>
    <3>1. c \in Cases /\ Rowed(c) /\ In(c, "done")
      BY <2>1, <2>2 DEF SuiteInv, Written, SuiteShaped, Golden, Whole, AllOfThem
    <3> QED
      BY <3>1 DEF Rowed
  <2>3. suite.kind = "golden" => suite.total = Cardinality(suite.cases)
    BY <1>4 DEF SuiteInv, Golden
  <2>4. unheard = {} => RowsOf(results) = suite.total
    BY <2>1, <2>3, DoneIsAll DEF Whole
  <2> QED
    BY <2>1, <2>2, <2>4
<1> QED
  BY <1>1, <1>2, <1>3, <1>4 DEF SuiteAddsUp

\* No case of a suite has two rows, whatever is retried, timed out or cancelled, unless a
\* commit was not heard of; the progress a suite shows never exceeds its rows and falls
\* behind them only if two were stored on the same count; and a suite that completes has a
\* row for each of its cases, and its metrics count what it has.
THEOREM SuitesAddUp == Spec => []SuiteAddsUp
<1>1. Init => HarnessInv /\ SuiteInv
  BY InitInv, SuiteInit
<1>2. HarnessInv /\ SuiteInv /\ [Next]_vars => HarnessInv' /\ SuiteInv'
  BY StepInv, SuiteStep
<1> QED
  BY <1>1, <1>2, SuiteInvAddsUp, PTL DEF Spec

-----------------------------------------------------------------------------
(* Which cases are picked: those of the lowest ranks, every rank taken once. *)
(* A case is offered in the round that comes to it among those of its cause; *)
(* within a round there is at most one of a cause.                           *)

\* Two sets that a function pairs off are of a size.
LEMMA PairedOff ==
  ASSUME NEW S, IsFiniteSet(S), NEW T, NEW f \in [S -> T],
         \A x, y \in S : f[x] = f[y] => x = y, \A z \in T : \E x \in S : f[x] = z
  PROVE  IsFiniteSet(T) /\ Cardinality(T) = Cardinality(S)
<1>1. f \in Surjection(S, T)
  BY DEF Surjection
<1>2. f \in Injection(S, T)
  BY DEF Injection, IsInjective
<1> QED
  BY <1>1, <1>2, FS_Surjection

\* Of N things with a rank each from 0 up, no two the same, k have one below k.
LEMMA BelowK ==
  ASSUME NEW N \in Nat, NEW rank \in [1 .. N -> 0 .. N - 1],
         \A m, n \in 1 .. N : rank[m] = rank[n] => m = n, NEW k \in Nat
  PROVE  Cardinality({n \in 1 .. N : rank[n] < k}) = IF k <= N THEN k ELSE N
<1> DEFINE D == 1 .. N
           R == 0 .. N - 1
           U == {n \in D : rank[n] < k}
           V == {x \in R : x < k}
           g == [n \in U |-> rank[n]]
           M == IF k <= N THEN k ELSE N
<1>1. IsFiniteSet(D) /\ Cardinality(D) = N
  <2>1. IsFiniteSet(1 .. N) /\ Cardinality(1 .. N) = IF 1 > N THEN 0 ELSE N - 1 + 1
    BY FS_Interval
  <2> QED
    BY <2>1
<1>2. IsFiniteSet(R) /\ Cardinality(R) = N
  <2> DEFINE hi == N - 1
  <2>1. hi \in Int /\ (0 > hi => N = 0) /\ (~(0 > hi) => hi - 0 + 1 = N)
    OBVIOUS
  <2> HIDE DEF hi
  <2>2. Cardinality(0 .. hi) = IF 0 > hi THEN 0 ELSE hi - 0 + 1
    BY <2>1, FS_Interval
  <2>3. Cardinality(0 .. hi) = N
    BY <2>1, <2>2
  <2>4. IsFiniteSet(0 .. hi)
    BY <2>1, FS_Interval
  <2> QED
    BY <2>3, <2>4 DEF hi
<1>3. rank \in Injection(D, R)
  BY DEF Injection, IsInjective
<1> HIDE DEF R, D
<1>4. rank \in Surjection(D, R)
  BY <1>1, <1>2, <1>3, FS_Injection
<1>5. \A x \in R : \E n \in D : rank[n] = x
  BY <1>4 DEF Surjection
<1>6. g \in [U -> V] /\ \A x, y \in U : g[x] = g[y] => x = y
  BY <1>3 DEF Injection, IsInjective
<1>7. \A z \in V : \E x \in U : g[x] = z
  BY <1>5
<1>8. U \in SUBSET D
  OBVIOUS
<1> HIDE DEF U, V, g
<1>9. IsFiniteSet(U)
  BY <1>1, <1>8, FS_Subset
<1>10. Cardinality(V) = Cardinality(U)
  BY <1>6, <1>7, <1>9, PairedOff
<1>11. Cardinality(V) = M
  <2> DEFINE hi == M - 1
  <2>1. M \in Nat /\ M <= N /\ M <= k /\ (M = N \/ M = k)
    OBVIOUS
  <2> HIDE DEF M
  <2>2. V = 0 .. hi
    BY <2>1 DEF V, R
  <2>3. hi \in Int /\ (0 > hi => M = 0) /\ (~(0 > hi) => hi - 0 + 1 = M)
    BY <2>1
  <2> HIDE DEF hi
  <2>4. Cardinality(0 .. hi) = IF 0 > hi THEN 0 ELSE hi - 0 + 1
    BY <2>3, FS_Interval
  <2>5. Cardinality(0 .. hi) = M
    BY <2>3, <2>4
  <2> QED
    BY <2>2, <2>5
<1> QED
  BY <1>10, <1>11 DEF U, D

\* The cases that were found, none of them twice.
Offer(o) == o \in Seq(Cases) /\ IsInjective(o)
LEMMA OfferIs ==
  ASSUME NEW o, Offer(o)
  PROVE  /\ Len(o) \in Nat /\ DOMAIN o = 1 .. Len(o)
         /\ \A n \in 1 .. Len(o) : o[n] \in Cases /\ Cause[o[n]] \in Nat
         /\ \A m, n \in 1 .. Len(o) : o[m] = o[n] => m = n
<1>1. Len(o) \in Nat /\ DOMAIN o = 1 .. Len(o) /\ \A n \in 1 .. Len(o) : o[n] \in Cases
  BY DEF Offer
<1> QED
  BY <1>1, EvalsAssumption DEF Offer, IsInjective, Cases

\* Those of its cause up to the n-th.
SameCause(o, n) == {m \in 1 .. n : Cause[o[m]] = Cause[o[n]]}
LEMMA RoundIs ==
  ASSUME NEW o, NEW n \in Nat
  PROVE  IsFiniteSet(SameCause(o, n)) /\ Round(o, n) = Cardinality(SameCause(o, n)) /\ Round(o, n) \in Nat
<1>1. IsFiniteSet(1 .. n)
  BY FS_Interval
<1>2. SameCause(o, n) \in SUBSET (1 .. n)
  BY DEF SameCause
<1>3. IsFiniteSet(SameCause(o, n))
  BY <1>1, <1>2, FS_Subset
<1>4. Round(o, n) = Cardinality(SameCause(o, n))
  BY DEF Round, SameCause
<1> QED
  BY <1>3, <1>4, FS_CardinalityType

\* Cases of one cause go one round after another.
LEMMA RoundGrows ==
  ASSUME NEW o, NEW m \in Nat, NEW n \in Nat, m < n, Cause[o[m]] = Cause[o[n]]
  PROVE  Round(o, m) < Round(o, n)
<1> DEFINE S == SameCause(o, m)
           T == SameCause(o, n)
<1>1. S \in SUBSET T /\ n \in T /\ n \notin S
  BY DEF SameCause
<1>2. IsFiniteSet(S) /\ IsFiniteSet(T) /\ Round(o, m) = Cardinality(S) /\ Round(o, n) = Cardinality(T)
  BY RoundIs
<1>3. Round(o, m) \in Nat /\ Round(o, n) \in Nat
  BY RoundIs
<1> HIDE DEF S, T
<1>4. Cardinality(S) <= Cardinality(T) /\ Cardinality(T) # Cardinality(S)
  BY <1>1, <1>2, FS_Subset
<1> QED
  BY <1>2, <1>3, <1>4

\* Sooner is a strict order that tells any two apart.
LEMMA SoonerOrders ==
  ASSUME NEW o, Offer(o)
  PROVE  /\ \A n \in 1 .. Len(o) : ~Sooner(o, n, n)
         /\ \A l, m, n \in 1 .. Len(o) : Sooner(o, l, m) /\ Sooner(o, m, n) => Sooner(o, l, n)
         /\ \A m, n \in 1 .. Len(o) : m # n => Sooner(o, m, n) \/ Sooner(o, n, m)
<1> DEFINE D == 1 .. Len(o)
<1>1. ASSUME NEW n \in D PROVE Round(o, n) \in Nat /\ Cause[o[n]] \in Nat
  BY OfferIs, RoundIs
<1>2. ASSUME NEW n \in D PROVE ~Sooner(o, n, n)
  BY <1>1 DEF Sooner
<1>3. ASSUME NEW l \in D, NEW m \in D, NEW n \in D, Sooner(o, l, m), Sooner(o, m, n)
      PROVE  Sooner(o, l, n)
  <2>1. Round(o, l) \in Nat /\ Round(o, m) \in Nat /\ Round(o, n) \in Nat
    BY <1>1
  <2>2. Cause[o[l]] \in Nat /\ Cause[o[m]] \in Nat /\ Cause[o[n]] \in Nat
    BY <1>1
  <2> QED
    BY <1>3, <2>1, <2>2 DEF Sooner
<1>4. ASSUME NEW m \in D, NEW n \in D, m # n
      PROVE  Sooner(o, m, n) \/ Sooner(o, n, m)
  <2>1. Round(o, m) \in Nat /\ Round(o, n) \in Nat /\ Cause[o[m]] \in Nat /\ Cause[o[n]] \in Nat
    BY <1>1
  <2>2. Cause[o[m]] = Cause[o[n]] => Round(o, m) # Round(o, n)
    <3> SUFFICES ASSUME Cause[o[m]] = Cause[o[n]] PROVE Round(o, m) # Round(o, n)
      OBVIOUS
    <3>1. m \in Nat /\ n \in Nat /\ (m < n \/ n < m)
      BY <1>4, OfferIs
    <3>2. CASE m < n
      <4>1. Round(o, m) < Round(o, n)
        BY <3>1, <3>2, RoundGrows
      <4> QED
        BY <2>1, <4>1
    <3>3. CASE n < m
      <4>1. Round(o, n) < Round(o, m)
        BY <3>1, <3>3, RoundGrows
      <4> QED
        BY <2>1, <4>1
    <3> QED
      BY <3>1, <3>2, <3>3
  <2> QED
    BY <2>1, <2>2 DEF Sooner
<1> QED
  BY <1>2, <1>3, <1>4

\* Whoever is sooner ranks lower, and no rank is out of reach.
Before(o, n) == {m \in 1 .. Len(o) : Sooner(o, m, n)}
LEMMA RankIs ==
  ASSUME NEW o, Offer(o), NEW n \in 1 .. Len(o)
  PROVE  /\ Rank(o, n) = Cardinality(Before(o, n)) /\ IsFiniteSet(Before(o, n))
         /\ Rank(o, n) \in 0 .. Len(o) - 1
<1> DEFINE D == 1 .. Len(o)
           S == Before(o, n)
<1>1. Len(o) \in Nat /\ DOMAIN o = D
  BY OfferIs
<1>2. Rank(o, n) = Cardinality(S)
  BY <1>1 DEF Rank, Before
<1>3. IsFiniteSet(D) /\ Cardinality(D) = Len(o)
  <2>1. IsFiniteSet(D) /\ Cardinality(D) = IF 1 > Len(o) THEN 0 ELSE Len(o) - 1 + 1
    BY <1>1, FS_Interval
  <2> QED
    BY <1>1, <2>1
<1>4. S \in SUBSET D /\ n \in D /\ n \notin S
  BY SoonerOrders DEF Before
<1> HIDE DEF D, S
<1>5. IsFiniteSet(S) /\ Cardinality(S) <= Cardinality(D) /\ Cardinality(S) # Cardinality(D)
  BY <1>3, <1>4, FS_Subset
<1>6. Cardinality(S) \in Nat
  BY <1>5, FS_CardinalityType
<1>7. Cardinality(S) \in 0 .. Len(o) - 1
  BY <1>1, <1>3, <1>5, <1>6
<1> QED
  BY <1>2, <1>5, <1>7 DEF S

LEMMA RankGrows ==
  ASSUME NEW o, Offer(o), NEW m \in 1 .. Len(o), NEW n \in 1 .. Len(o), Sooner(o, m, n)
  PROVE  Rank(o, m) < Rank(o, n)
<1> DEFINE S == Before(o, m)
           T == Before(o, n)
<1>1. S \in SUBSET T
  BY SoonerOrders DEF Before
<1>2. m \in T /\ m \notin S
  BY SoonerOrders DEF Before
<1>3. /\ Rank(o, m) = Cardinality(S) /\ Rank(o, n) = Cardinality(T)
      /\ IsFiniteSet(T)
  BY RankIs
<1>4. Rank(o, m) \in Int /\ Rank(o, n) \in Int
  <2>1. Rank(o, m) \in 0 .. Len(o) - 1 /\ Rank(o, n) \in 0 .. Len(o) - 1
    BY RankIs
  <2> QED
    BY <2>1
<1> HIDE DEF S, T
<1>5. Cardinality(S) <= Cardinality(T) /\ Cardinality(T) # Cardinality(S)
  BY <1>1, <1>2, <1>3, FS_Subset
<1> QED
  BY <1>3, <1>4, <1>5

\* The places that are taken, and those of a cause.
Taken(o) == {n \in 1 .. Len(o) : Rank(o, n) < Size}
TakenOf(o, a) == {n \in Taken(o) : Cause[o[n]] = a}

\* A set of places is as large as the set of cases found there.
LEMMA CasesAt ==
  ASSUME NEW o, Offer(o), NEW U \in SUBSET (1 .. Len(o))
  PROVE  IsFiniteSet(U) /\ Cardinality({o[n] : n \in U}) = Cardinality(U)
<1> DEFINE f == [n \in U |-> o[n]]
           T == {o[n] : n \in U}
<1>1. IsFiniteSet(1 .. Len(o))
  BY OfferIs, FS_Interval
<1>2. IsFiniteSet(U)
  BY <1>1, FS_Subset
<1>3. f \in [U -> T] /\ \A z \in T : \E x \in U : f[x] = z
  OBVIOUS
<1>4. \A x, y \in U : f[x] = f[y] => x = y
  BY OfferIs
<1> HIDE DEF f, T
<1>5. Cardinality(T) = Cardinality(U)
  BY <1>2, <1>3, <1>4, PairedOff
<1> QED
  BY <1>2, <1>5 DEF T

LEMMA PickedIs ==
  ASSUME NEW o, Offer(o)
  PROVE  /\ Picked(o) = {o[n] : n \in Taken(o)}
         /\ \A a : {c \in Picked(o) : Cause[c] = a} = {o[n] : n \in TakenOf(o, a)}
<1>1. DOMAIN o = 1 .. Len(o)
  BY OfferIs
<1>2. Picked(o) = {o[n] : n \in Taken(o)}
  BY <1>1 DEF Picked, Taken
<1> QED
  BY <1>2 DEF TakenOf

\* As many are picked as are asked for, if there are as many.
LEMMA PickedMany ==
  ASSUME NEW o, Offer(o)
  PROVE  Cardinality(Picked(o)) = Min({Size, Len(o)})
<1> DEFINE D == 1 .. Len(o)
           rank == [n \in D |-> Rank(o, n)]
           k == IF Size <= Len(o) THEN Size ELSE Len(o)
<1>1. Len(o) \in Nat /\ Size \in Nat
  BY OfferIs, EvalsAssumption
<1>2. rank \in [D -> 0 .. Len(o) - 1]
  BY RankIs
<1>3. ASSUME NEW m \in D, NEW n \in D, rank[m] = rank[n]
      PROVE  m = n
  <2>1. Rank(o, m) = Rank(o, n)
    BY <1>3
  <2>2. Rank(o, m) \in Int
    <3>1. Rank(o, m) \in 0 .. Len(o) - 1
      BY RankIs
    <3> QED
      BY <3>1
  <2>3. ~Sooner(o, m, n) /\ ~Sooner(o, n, m)
    <3>1. Sooner(o, m, n) => Rank(o, m) < Rank(o, n)
      BY RankGrows
    <3>2. Sooner(o, n, m) => Rank(o, n) < Rank(o, m)
      BY RankGrows
    <3> QED
      BY <2>1, <2>2, <3>1, <3>2
  <2> QED
    BY <2>3, SoonerOrders
<1>4. Taken(o) = {n \in D : rank[n] < Size}
  BY DEF Taken
<1> HIDE DEF rank
<1>5. Cardinality(Taken(o)) = k
  <2>1. Cardinality({n \in D : rank[n] < Size}) = k
    BY <1>1, <1>2, <1>3, BelowK
  <2> QED
    BY <1>4, <2>1
<1>6. Taken(o) \in SUBSET D
  BY DEF Taken
<1>7. Cardinality(Picked(o)) = k
  <2>1. Cardinality({o[n] : n \in Taken(o)}) = Cardinality(Taken(o))
    BY <1>6, CasesAt
  <2>2. Picked(o) = {o[n] : n \in Taken(o)}
    BY PickedIs
  <2> QED
    BY <1>5, <2>1, <2>2
<1>8. Min({Size, Len(o)}) = k
  <2>1. k \in {Size, Len(o)} /\ \A y \in {Size, Len(o)} : k <= y
    BY <1>1
  <2> HIDE DEF k
  <2>2. Min({Size, Len(o)}) \in {Size, Len(o)} /\ \A y \in {Size, Len(o)} : Min({Size, Len(o)}) <= y
    BY <2>1 DEF Min
  <2> DEFINE w == Min({Size, Len(o)})
  <2>3. w \in Int /\ k \in Int /\ w <= k /\ k <= w
    BY <1>1, <2>1, <2>2
  <2> HIDE DEF w
  <2>4. w = k
    BY <2>3
  <2> QED
    BY <2>4 DEF w
<1> QED
  BY <1>7, <1>8

\* Of the places in a set the first.
LEMMA FirstPlace ==
  ASSUME NEW N \in Nat, NEW S \in SUBSET (1 .. N), S # {}
  PROVE  \E n \in S : \A m \in S : n <= m
<1> DEFINE T == {x \in 0 .. N : N - x \in S}
<1>1. T \in SUBSET Int /\ T \in SUBSET (0 .. N)
  OBVIOUS
<1>2. T # {}
  <2>1. PICK n \in S : TRUE
    OBVIOUS
  <2>2. N - n \in 0 .. N /\ N - (N - n) = n
    OBVIOUS
  <2>3. N - n \in T
    BY <2>2
  <2> QED
    BY <2>3
<1>3. IsFiniteSet(T)
  <2>1. IsFiniteSet(0 .. N)
    BY FS_Interval
  <2> HIDE DEF T
  <2> QED
    BY <1>1, <2>1, FS_Subset
<1>4. Max(T) \in T /\ \A y \in T : Max(T) >= y
  <2> HIDE DEF T
  <2> QED
    BY <1>1, <1>2, <1>3, MaxIs
<1>5. PICK x \in T : \A y \in T : x >= y
  BY <1>4
<1>6. N - x \in S /\ x \in 0 .. N
  BY <1>5
<1>7. ASSUME NEW m \in S PROVE N - x <= m
  <2>1. N - m \in 0 .. N /\ N - (N - m) = m
    OBVIOUS
  <2>2. N - m \in T
    BY <2>1
  <2>3. x >= N - m
    BY <1>5, <2>2
  <2> QED
    BY <1>6, <2>1, <2>3
<1> QED
  BY <1>6, <1>7

\* A cause that has one left has given all it was asked for before that one, and
\* every cause has given one a round at most.
LEMMA PickedEvenly ==
  ASSUME NEW o, Offer(o), NEW a, NEW b, NEW n0 \in 1 .. Len(o), n0 \notin Taken(o), Cause[o[n0]] = b
  PROVE  Cardinality(TakenOf(o, a)) <= Cardinality(TakenOf(o, b)) + 1
<1> DEFINE N == Len(o)
           Left == {m \in 1 .. N : m \notin Taken(o) /\ Cause[o[m]] = b}
           A == TakenOf(o, a)
           B == TakenOf(o, b)
<1>1. N \in Nat
  BY OfferIs
<1>2. PICK n \in Left : \A m \in Left : n <= m
  <2>1. Left \in SUBSET (1 .. N) /\ Left # {}
    OBVIOUS
  <2> HIDE DEF Left
  <2> QED
    BY <1>1, <2>1, FirstPlace
<1>3. n \in 1 .. N /\ n \notin Taken(o) /\ Cause[o[n]] = b /\ n \in Nat
  BY <1>1, <1>2
<1>4. IsFiniteSet(A) /\ IsFiniteSet(B)
  <2>1. A \in SUBSET (1 .. N) /\ B \in SUBSET (1 .. N)
    BY DEF TakenOf, Taken
  <2> QED
    BY <2>1, CasesAt
<1> DEFINE r == Round(o, n)
<1>5. IsFiniteSet(SameCause(o, n)) /\ r = Cardinality(SameCause(o, n)) /\ r \in Nat
  BY <1>3, RoundIs
<1>6. r <= Cardinality(B) + 1
  <2> DEFINE S == SameCause(o, n) \ {n}
  <2>1. n \in SameCause(o, n)
    BY <1>3 DEF SameCause
  <2>2. Cardinality(S) = r - 1 /\ IsFiniteSet(S)
    BY <1>5, <2>1, FS_RemoveElement
  <2>3. S \in SUBSET B
    <3> SUFFICES ASSUME NEW m \in S PROVE m \in B
      OBVIOUS
    <3>1. m \in 1 .. n /\ m # n /\ Cause[o[m]] = b
      BY <1>3 DEF SameCause
    <3>2. m \in 1 .. N /\ ~(n <= m)
      BY <1>1, <1>3, <3>1
    <3>3. m \notin Left
      BY <1>2, <3>2
    <3> QED
      BY <3>1, <3>2, <3>3 DEF TakenOf
  <2> HIDE DEF S
  <2>4. Cardinality(S) <= Cardinality(B)
    BY <1>4, <2>3, FS_Subset
  <2>5. Cardinality(B) \in Nat
    BY <1>4, FS_CardinalityType
  <2> QED
    BY <1>5, <2>2, <2>4, <2>5
<1>7. ASSUME NEW m \in A PROVE m \in 1 .. N /\ Cause[o[m]] = a /\ Round(o, m) \in 1 .. r
  <2>1. m \in 1 .. N /\ Rank(o, m) < Size /\ Cause[o[m]] = a
    BY DEF TakenOf, Taken
  <2>2. ~(Rank(o, n) < Size)
    BY <1>3 DEF Taken
  <2>3. Rank(o, m) \in Int /\ Rank(o, n) \in Int /\ Size \in Int
    <3>1. Rank(o, m) \in 0 .. N - 1 /\ Rank(o, n) \in 0 .. N - 1
      BY <1>3, <2>1, RankIs
    <3> QED
      BY <3>1, EvalsAssumption
  <2>4. ~Sooner(o, n, m)
    <3>1. Sooner(o, n, m) => Rank(o, n) < Rank(o, m)
      BY <1>3, <2>1, RankGrows
    <3> QED
      BY <2>1, <2>2, <2>3, <3>1
  <2>5. Sooner(o, m, n)
    <3>1. m # n
      BY <1>3 DEF TakenOf
    <3> QED
      BY <1>3, <2>1, <2>4, <3>1, SoonerOrders
  <2>6. Round(o, m) \in Nat /\ Round(o, m) <= r
    <3>1. m \in Nat
      BY <1>1, <2>1
    <3>2. Round(o, m) \in Nat
      BY <3>1, RoundIs
    <3> QED
      BY <1>5, <2>5, <3>2 DEF Sooner
  <2>7. Round(o, m) # 0
    <3>1. m \in SameCause(o, m) /\ m \in Nat
      BY <1>1, <2>1 DEF SameCause
    <3>2. IsFiniteSet(SameCause(o, m)) /\ Round(o, m) = Cardinality(SameCause(o, m))
      BY <3>1, RoundIs
    <3> QED
      BY <3>1, <3>2, FS_EmptySet
  <2> QED
    BY <1>5, <2>1, <2>6, <2>7
<1>8. ASSUME NEW x \in A, NEW y \in A, Round(o, x) = Round(o, y)
      PROVE  x = y
  <2>1. x \in Nat /\ y \in Nat /\ Cause[o[x]] = Cause[o[y]]
    BY <1>1, <1>7
  <2>2. Round(o, x) \in Int
    BY <1>7
  <2>3. ~(x < y)
    <3>1. x < y => Round(o, x) < Round(o, y)
      BY <2>1, RoundGrows
    <3> QED
      BY <1>8, <2>2, <3>1
  <2>4. ~(y < x)
    <3>1. y < x => Round(o, y) < Round(o, x)
      BY <2>1, RoundGrows
    <3> QED
      BY <1>8, <2>2, <3>1
  <2> QED
    BY <2>1, <2>3, <2>4
<1>9. Cardinality(A) <= r
  <2> DEFINE f == [x \in A |-> Round(o, x)]
             R == 1 .. r
  <2>1. f \in [A -> R] /\ \A x, y \in A : f[x] = f[y] => x = y
    BY <1>7, <1>8
  <2>2. f \in Injection(A, R)
    BY <2>1 DEF Injection, IsInjective
  <2>3. IsFiniteSet(R) /\ Cardinality(R) = r
    <3> HIDE DEF r
    <3>1. r \in Int /\ IsFiniteSet(1 .. r)
      BY <1>5, FS_Interval
    <3>2. Cardinality(0 + 1 .. 0 + r) = r
      BY <1>5, IntervalSize
    <3>3. 0 + 1 .. 0 + r = 1 .. r
      BY <3>1
    <3> QED
      BY <3>1, <3>2, <3>3
  <2> HIDE DEF f, R, A
  <2> QED
    BY <2>2, <2>3, FS_Injection
<1>10. Cardinality(A) \in Nat /\ Cardinality(B) \in Nat
  BY <1>4, FS_CardinalityType
<1> HIDE DEF A, B, r
<1>11. Cardinality(A) <= Cardinality(B) + 1
  BY <1>5, <1>6, <1>9, <1>10
<1> QED
  BY <1>11 DEF A, B

\* What a suite scores is what was picked of what was found.
DatasetInv ==
  suite.status # "none" => \E o \in Offers : suite.offered = o /\ suite.cases = Picked(o)

LEMMA OffersAre == ASSUME NEW o \in Offers PROVE Offer(o)
  BY EvalsAssumption DEF Offer, Cases

LEMMA DatasetStep == SuiteInv /\ DatasetInv /\ [Next]_vars => DatasetInv'
<1> SUFFICES ASSUME SuiteInv, DatasetInv, [Next]_vars PROVE DatasetInv'
  OBVIOUS
<1>1. SuiteShaped(suite) /\ Course
  BY DEF SuiteInv, Written
<1>2. ASSUME NEW offered \in Offers, NEW kind \in {"golden", "redteam"}, start_run(offered, kind)
      PROVE  DatasetInv'
  <2> DEFINE picked == Picked(offered)
  <2>1. suite' = [NoSuite EXCEPT !.status = "RUNNING", !.kind = kind, !.total = Cardinality(picked),
                                 !.cases = picked, !.offered = offered]
    BY <1>2 DEF start_run
  <2> HIDE DEF picked
  <2>2. suite'.offered = offered /\ suite'.cases = picked
    BY <2>1 DEF NoSuite
  <2> QED
    BY <2>2 DEF DatasetInv, picked
<1>3. ASSUME suite.status # "none", suite'.offered = suite.offered, suite'.cases = suite.cases
      PROVE  DatasetInv'
  BY <1>3 DEF DatasetInv
<1>4. ASSUME suite' = suite
      PROVE  DatasetInv'
  BY <1>4 DEF DatasetInv
<1>5. ASSUME NEW c \in Cases, NEW passed \in BOOLEAN, Stored(c, passed)
      PROVE  DatasetInv'
  <2>1. suite' = [suite EXCEPT !.done = DoneAfter(c)]
    BY <1>5 DEF Stored
  <2>2. suite'.status = suite.status /\ suite'.offered = suite.offered /\ suite'.cases = suite.cases
    BY <1>1, <2>1 DEF SuiteShaped
  <2> QED
    BY <2>2 DEF DatasetInv
<1>6. ASSUME NEW c \in Cases, StoresProbes(c)
      PROVE  DatasetInv'
  <2>1. suite' = [suite EXCEPT !.done = Probes, !.total = Probes]
    BY <1>6 DEF StoresProbes
  <2>2. suite'.status = suite.status /\ suite'.offered = suite.offered /\ suite'.cases = suite.cases
    BY <1>1, <2>1 DEF SuiteShaped
  <2> QED
    BY <2>2 DEF DatasetInv
<1>7. ASSUME NEW c \in Cases, JobStep(c) \/ JobFails(c)
      PROVE  DatasetInv'
  <2>1. CASE Commits(c)
    <3>1. PICK passed \in BOOLEAN : Stored(c, passed)
      BY <2>1 DEF Commits, score_case
    <3> QED
      BY <1>5, <3>1
  <2>2. CASE UNCHANGED suite
    BY <1>4, <2>2
  <2>3. Commits(c) \/ UNCHANGED suite
    BY <1>7 DEF JobStep, JobFails, Stores, StoreFails,
                Enters, Polls, CancelsRun, Looks, TimesOut, Reads, Starts, Retries, Errs
  <2> QED
    BY <2>1, <2>2, <2>3
<1>8. ASSUME task.phase = "finishing", WritesEnd
      PROVE  DatasetInv'
  <2>1. suite' = [suite EXCEPT !.status = task.end, !.metrics = aggregate]
    BY <1>8 DEF WritesEnd
  <2>2. suite'.offered = suite.offered /\ suite'.cases = suite.cases
    BY <1>1, <2>1 DEF SuiteShaped
  <2>3. suite.status # "none"
    BY <1>1, <1>8 DEF Course
  <2> QED
    BY <1>3, <2>2, <2>3
<1>9. CASE Ends
  <2>1. MayHaveEnded
    BY <1>9 DEF Ends, Gathers, ReadFails, Breaks, _finish, FinishFails, cancel, Crashes, MayHaveEnded
  <2> QED
    BY <1>4, <1>8, <2>1 DEF MayHaveEnded
<1>10. ASSUME NEW c \in Cases, _run_redteam(c) \/ ProbesFail(c)
       PROVE  DatasetInv'
  BY <1>4, <1>6, <1>10 DEF _run_redteam, ProbesFail
<1>11. CASE Person \/ (\E w \in Workflows : Runs(w)) \/ UNCHANGED vars
  BY <1>4, <1>11 DEF Person, Runs, vars
<1> QED
  BY <1>2, <1>7, <1>9, <1>10, <1>11 DEF Next, Ends

LEMMA DatasetIs == SuiteInv /\ DatasetInv => DatasetBalanced
<1> SUFFICES ASSUME SuiteInv, DatasetInv PROVE DatasetBalanced
  OBVIOUS
<1> DEFINE Given(cause) == Cardinality({c \in suite.cases : Cause[c] = cause})
           Left(cause) == {c \in ToSet(suite.offered) \ suite.cases : Cause[c] = cause}
           causes == {Cause[c] : c \in ToSet(suite.offered)}
<1>1. CASE suite.status = "none"
  <2>1. suite = NoSuite
    BY <1>1 DEF SuiteInv, Course
  <2>2. suite.offered = <<>> /\ suite.total = 0 /\ ToSet(suite.offered) = {}
    BY <2>1 DEF NoSuite, ToSet
  <2>3. Min({Size, 0}) = 0
    <3>1. 0 \in {Size, 0} /\ \A y \in {Size, 0} : 0 <= y /\ (y <= 0 => y = 0)
      BY EvalsAssumption
    <3> QED
      BY <3>1 DEF Min
  <2>4. suite.total = Min({Size, Len(suite.offered)})
    BY <2>2, <2>3
  <2>5. causes = {}
    BY <2>2
  <2> QED
    BY <2>4, <2>5 DEF DatasetBalanced
<1>2. CASE suite.status # "none"
  <2>1. PICK o \in Offers : suite.offered = o /\ suite.cases = Picked(o)
    BY <1>2 DEF DatasetInv
  <2>2. Offer(o)
    BY OffersAre
  <2>3. suite.kind = "golden" => suite.total = Min({Size, Len(o)})
    <3>1. Cardinality(Picked(o)) = Min({Size, Len(o)})
      BY <2>2, PickedMany
    <3>2. suite.kind = "golden" => suite.total = Cardinality(suite.cases)
      BY <1>2 DEF SuiteInv, Golden
    <3> QED
      BY <2>1, <3>1, <3>2
  <2>4. ASSUME NEW z
        PROVE  Given(z) = Cardinality(TakenOf(o, z)) /\ Cardinality(TakenOf(o, z)) \in Nat
    <3>1. {c \in Picked(o) : Cause[c] = z} = {o[n] : n \in TakenOf(o, z)}
      BY <2>2, PickedIs
    <3>2. {c \in suite.cases : Cause[c] = z} = {o[n] : n \in TakenOf(o, z)}
      BY <2>1, <3>1
    <3>3. TakenOf(o, z) \in SUBSET (1 .. Len(o))
      BY DEF TakenOf, Taken
    <3>4. IsFiniteSet(TakenOf(o, z)) /\ Cardinality({o[n] : n \in TakenOf(o, z)}) = Cardinality(TakenOf(o, z))
      BY <2>2, <3>3, CasesAt
    <3>5. Cardinality(TakenOf(o, z)) \in Nat
      BY <3>4, FS_CardinalityType
    <3> QED
      BY <3>2, <3>4, <3>5
  <2>5. ASSUME NEW a, NEW b, Given(a) > Given(b) + 1
        PROVE  Left(b) = {}
    <3> SUFFICES ASSUME Left(b) # {} PROVE FALSE
      OBVIOUS
    <3>1. Given(a) = Cardinality(TakenOf(o, a)) /\ Given(b) = Cardinality(TakenOf(o, b))
      BY <2>4
    <3>2. PICK c \in Left(b) : TRUE
      OBVIOUS
    <3>3. PICK n \in DOMAIN o : o[n] = c
      BY <2>1, <3>2 DEF ToSet
    <3>4. n \in 1 .. Len(o) /\ Cause[o[n]] = b
      BY <2>2, <3>2, <3>3, OfferIs
    <3>5. n \notin Taken(o)
      <4>1. c \notin Picked(o)
        BY <2>1, <3>2
      <4>2. Picked(o) = {o[m] : m \in Taken(o)}
        BY <2>2, PickedIs
      <4> QED
        BY <3>3, <4>1, <4>2
    <3>6. Cardinality(TakenOf(o, a)) <= Cardinality(TakenOf(o, b)) + 1
      BY <2>2, <3>4, <3>5, PickedEvenly
    <3> DEFINE x == Cardinality(TakenOf(o, a))
               y == Cardinality(TakenOf(o, b))
    <3>7. x \in Nat /\ y \in Nat
      BY <2>4
    <3>8. x > y + 1
      BY <2>5, <3>1
    <3>9. x <= y + 1
      BY <3>6
    <3> HIDE DEF x, y
    <3> QED
      BY <3>7, <3>8, <3>9
  <2>6. \A a, b \in causes : Given(a) > Given(b) + 1 => Left(b) = {}
    BY <2>5
  <2>7. suite.kind = "golden" => suite.total = Min({Size, Len(suite.offered)})
    BY <2>1, <2>3
  <2> QED
    BY <2>6, <2>7 DEF DatasetBalanced
<1> QED
  BY <1>1, <1>2

\* The size and the balance of a dataset, whatever was found, in whatever order:
\* build_dataset goes round the causes in their order, a case of each at a time.
THEOREM DatasetsBalanced == Spec => []DatasetBalanced
<1>1. Init => HarnessInv /\ SuiteInv /\ DatasetInv
  BY InitInv, SuiteInit DEF Init, DatasetInv, NoSuite
<1>2. HarnessInv /\ SuiteInv /\ DatasetInv /\ [Next]_vars => HarnessInv' /\ SuiteInv' /\ DatasetInv'
  BY StepInv, SuiteStep, DatasetStep
<1> QED
  BY <1>1, <1>2, DatasetIs, PTL DEF Spec
=============================================================================

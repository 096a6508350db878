-------------------------------- MODULE Evals --------------------------------
(***************************************************************************)
(* The evaluation harness: it picks cases whose right answer is known,     *)
(* replays each through the orchestrator as a shadow run, a few at a time, *)
(* scores what comes back and keeps a row per case and one for the suite.  *)
(*                                                                         *)
(*   services/evals/recoup_evals/{runner,clients,routes,redteam}.py        *)
(*   services/orchestrator/recoup_orchestrator/{runs,routes}.py            *)
(*                                                                         *)
(* A transaction fails with nothing committed, or committed unheard.       *)
(*                                                                         *)
(* Shadow and live runs are workflows; how they work a case is             *)
(* CaseWorkflow's, here they do as they please.  Scores are reduced to     *)
(* passed or not; the judge's, and the tokens spent, are left out.  What a  *)
(* probe of the red team does to the gateway is ToolGateway's.              *)
(***************************************************************************)
EXTENDS Naturals, FiniteSetsExt, SequencesExt

CONSTANTS Offers,       \* the eligible cases, as they may be found, in the order of their invoices
          Cause,        \* case -> its root cause, by its place among the causes
          Size,         \* of a dataset
          Concurrency,  \* shadow runs awaited at once
          Probes,       \* how many calls a red team makes
          Tries,        \* TRANSIENT_RETRIES
          Shadows,      \* bound: shadow runs that are ever started
          Lives,        \* bound: live runs that are
          Busy,         \* bound: cases people start them for
          MaxFaults,    \* bound: answers lost, upstreams and databases that fail
          MaxCancels,   \* bound: people who cancel the suite
          None

ASSUME EvalsAssumption ==
  /\ \A offered \in Offers : offered \in Seq(DOMAIN Cause) /\ IsInjective(offered)
  /\ Cause \in [DOMAIN Cause -> Nat] /\ IsFiniteSet(DOMAIN Cause) /\ None \notin DOMAIN Cause
  /\ Size \in Nat \ {0} /\ Concurrency \in Nat \ {0} /\ Tries \in Nat \ {0} /\ Probes \in Nat
  /\ MaxFaults \in Nat /\ MaxCancels \in Nat /\ Shadows \cap Lives = {}

VARIABLES suite,    \* the eval_runs row
          results,  \* rows of eval_results: for each case, whether it passed
          job,      \* the tasks that score one case each
          task,     \* the task that runs the suite
          wf,       \* workflows the orchestrator was asked for
          faults, cancels,
          torn,     \* history: a result was counted on a count no longer so
          unheard   \* history: cases a result of which was committed, and not known to be

vars == <<suite, results, job, task, wf, faults, cancels, torn, unheard>>
history == <<torn, unheard>>
orchestrator == wf
budget == <<faults, cancels>>

Cases == DOMAIN Cause
Workflows == Shadows \cup Lives
Terminal == {"COMPLETED", "FAILED", "CANCELLED"}  \* ESCALATED ends a run as COMPLETED does

-----------------------------------------------------------------------------
(* build_dataset: round robin over the causes. *)

\* Were the first cases taken as they come.
TakesFirst(eligible) == ToSet(SubSeq(eligible, 1, Min({Size, Len(eligible)})))

\* The n-th is offered in the round that comes to it among those of its cause; a
\* round goes through the causes in their order.  After k rounds every cause has
\* given its first k cases; the last round ends early.
Round(eligible, n) == Cardinality({m \in 1 .. n : Cause[eligible[m]] = Cause[eligible[n]]})
Sooner(eligible, m, n) ==
  \/ Round(eligible, m) < Round(eligible, n)
  \/ Round(eligible, m) = Round(eligible, n) /\ Cause[eligible[m]] < Cause[eligible[n]]
Rank(eligible, n) == Cardinality({m \in DOMAIN eligible : Sooner(eligible, m, n)})
Picked(eligible) == {eligible[n] : n \in {m \in DOMAIN eligible : Rank(eligible, m) < Size}}

-----------------------------------------------------------------------------
NoSuite == [status |-> "none", kind |-> "golden", total |-> 0, done |-> 0, metrics |-> [cases |-> 0, passed |-> 0],
            cases |-> {}, offered |-> <<>>]
NoJob == [phase |-> "absent", tries |-> 0, run |-> None, detail |-> "none", read |-> 0]
NoWorkflow == [mode |-> "none", case |-> None, status |-> "none", cancelled |-> "no"]

Init ==
  /\ suite = NoSuite /\ results = [c \in Cases |-> <<>>]
  /\ job = [c \in Cases |-> NoJob]
  /\ task = [phase |-> "none", end |-> "none"]
  /\ wf = [w \in Workflows |-> NoWorkflow]
  /\ faults = 0 /\ cancels = 0 /\ torn = FALSE /\ unheard = {}

In(c, phase) == job[c].phase = phase
Goes(c, phase) == job' = [job EXCEPT ![c].phase = phase]
Leaves(c, phase) == job' = [job EXCEPT ![c] = [NoJob EXCEPT !.phase = phase]]
Fault == faults < MaxFaults /\ faults' = faults + 1 /\ UNCHANGED cancels

\* POST /datasets/build, then POST /runs.
start_run(offered, kind) ==
  /\ suite.status = "none"
  /\ LET picked == Picked(offered)
         first == IF kind = "golden" THEN "queued" ELSE "absent" IN
       /\ picked # {}
       /\ suite' = [NoSuite EXCEPT !.status = "RUNNING", !.kind = kind, !.total = Cardinality(picked),
                                   !.cases = picked, !.offered = offered]
       /\ job' = [c \in Cases |-> [NoJob EXCEPT !.phase = IF c \in picked THEN first ELSE "absent"]]
  /\ task' = [phase |-> IF kind = "golden" THEN "gathering" ELSE "probing", end |-> "none"]
  /\ UNCHANGED <<results, orchestrator, budget, history>>

\* _run_redteam: calls the gateway should refuse, all of them about one case, are
\* made in a row; their results are stored together and correct the total.
StoresProbes(c) ==
  /\ \E passed \in [1 .. Probes -> BOOLEAN] : results' = [results EXCEPT ![c] = passed]
  /\ suite' = [suite EXCEPT !.done = Probes, !.total = Probes]
_run_redteam(c) ==
  /\ task.phase = "probing" /\ c \in suite.cases
  /\ StoresProbes(c)
  /\ task' = [phase |-> "finishing", end |-> "COMPLETED"]
  /\ UNCHANGED <<job, orchestrator, budget, history>>
ProbesFail(c) ==
  /\ task.phase = "probing" /\ c \in suite.cases /\ Fault
  /\ StoresProbes(c) \/ UNCHANGED <<suite, results>>
  /\ task' = [phase |-> "finishing", end |-> "FAILED"]
  /\ UNCHANGED <<job, orchestrator, history>>

-----------------------------------------------------------------------------
(* _score_one *)

Working(c) == job[c].phase \notin {"absent", "queued", "done", "broken"}

Enters(c) ==
  /\ In(c, "queued")
  /\ Cardinality({d \in Cases : Working(d)}) < Concurrency
  /\ Goes(c, "starting")
  /\ UNCHANGED <<suite, results, task, orchestrator, budget, history>>

\* RunManager.start: a live run has its case's workflow id, so it is the only one.
Start(w, mode, c) == wf' = [wf EXCEPT ![w] = [NoWorkflow EXCEPT !.mode = mode, !.case = c, !.status = "RUNNING"]]
AlreadyStarted(c) == \E v \in Lives : wf[v].case = c /\ wf[v].status \notin Terminal
Unused(S) == {w \in S : wf[w] = NoWorkflow}
NextOf(S) == CHOOSE w \in S : TRUE
StartShadow(c) == Unused(Shadows) # {} /\ Start(NextOf(Unused(Shadows)), "SHADOW", c)
StartLive(c) == Unused(Lives) # {} /\ ~AlreadyStarted(c) /\ Start(NextOf(Unused(Lives)), "LIVE", c)

Starts(c) ==
  /\ In(c, "starting")
  /\ StartShadow(c)
  /\ job' = [job EXCEPT ![c].phase = "polling", ![c].run = NextOf(Unused(Shadows))]
  /\ UNCHANGED <<suite, results, task, budget, history>>

\* _retry: the answer is lost, perhaps after the workflow was started.
Retries(c) ==
  /\ In(c, "starting") /\ Fault
  /\ StartShadow(c) \/ UNCHANGED wf
  /\ job' = [job EXCEPT ![c].tries = @ + 1,
                        ![c].phase = IF job[c].tries + 1 < Tries THEN "starting" ELSE "erring"]
  /\ UNCHANGED <<suite, results, task, history>>

\* GET /internal/runs/{id}; a row not written yet is asked for again, as one RUNNING.
Row(c) == wf[job[c].run].status
Polls(c) ==
  /\ In(c, "polling") /\ Row(c) \in Terminal \cup {"WAITING"}
  /\ job' = IF Row(c) = "WAITING" THEN [job EXCEPT ![c].phase = "parked"]
            ELSE [job EXCEPT ![c].phase = "scoring", ![c].detail = Row(c)]
  /\ UNCHANGED <<suite, results, task, orchestrator, budget, history>>

\* It has waited for ten seconds.  internal_cancel: a shadow run is signalled by its
\* own workflow id, a live one by its case's.
SignalsCase(w) == {v \in Workflows : wf[v].mode = "LIVE" /\ wf[v].case = wf[w].case}
Signalled(w) == IF wf[w].mode = "LIVE" THEN SignalsCase(w) ELSE {w}
CancelBy(S, who) ==
  wf' = [v \in Workflows |-> IF v \in S /\ wf[v].status \notin Terminal
                             THEN [wf[v] EXCEPT !.cancelled = who] ELSE wf[v]]

CancelsRun(c) ==
  /\ In(c, "parked")
  /\ CancelBy(Signalled(job[c].run), "harness") \/ UNCHANGED wf
  /\ Goes(c, "looking")
  /\ UNCHANGED <<suite, results, task, budget, history>>

\* Whatever the run is by then is what is scored.
Looks(c) ==
  /\ In(c, "looking")
  /\ job' = [job EXCEPT ![c].phase = "scoring", ![c].detail = Row(c)]
  /\ UNCHANGED <<suite, results, task, orchestrator, budget, history>>

\* case_timeout_seconds, or an upstream fails for good.  (Mutant: only a run seen
\* waiting is timed.)
OnlyWaiting(c) == In(c, "polling") /\ Row(c) = "WAITING"
Deadline(c) == In(c, "polling")
TimesOut(c) ==
  /\ Deadline(c) /\ Leaves(c, "erring")
  /\ UNCHANGED <<suite, results, task, orchestrator, budget, history>>
Errs(c) ==
  /\ job[c].phase \in {"looking", "scoring"} /\ Fault /\ Leaves(c, "erring")
  /\ UNCHANGED <<suite, results, task, orchestrator, history>>

\* _store and _store_error: the count is read, and written back with the result.
Reads(c) ==
  /\ job[c].phase \in {"scoring", "erring"}
  /\ job' = [job EXCEPT ![c].phase = IF In(c, "scoring") THEN "storing" ELSE "storing_error",
                        ![c].read = suite.done]
  /\ UNCHANGED <<suite, results, task, orchestrator, budget, history>>

\* Were an error not counted as done.
CountsScores(c) == IF In(c, "storing") THEN job[c].read + 1 ELSE suite.done
DoneAfter(c) == job[c].read + 1

Stored(c, passed) ==
  /\ results' = [results EXCEPT ![c] = Append(@, passed)]
  /\ suite' = [suite EXCEPT !.done = DoneAfter(c)]
  /\ torn' = (torn \/ suite.done # job[c].read)
  /\ UNCHANGED <<task, orchestrator>>

\* The cause it names and the credit it proposes are right or wrong; a run that
\* failed has not passed.
score_case(detail) == IF detail = "FAILED" THEN {FALSE} ELSE BOOLEAN

Commits(c) ==
  \/ In(c, "storing") /\ \E passed \in score_case(job[c].detail) : Stored(c, passed)
  \/ In(c, "storing_error") /\ Stored(c, FALSE)
Stores(c) == Commits(c) /\ Leaves(c, "done") /\ UNCHANGED <<budget, unheard>>

\* The database fails: a score is stored as an error, an error ends the suite.  A
\* result is stored twice if the commit of the first was not heard of.
Afterwards(c) == IF In(c, "storing") THEN "erring" ELSE "broken"
StoreFails(c) ==
  /\ job[c].phase \in {"storing", "storing_error"} /\ Fault
  /\ Leaves(c, Afterwards(c))
  /\ \/ UNCHANGED <<suite, results, task, orchestrator, history>>
     \/ Commits(c) /\ unheard' = unheard \cup {c}

JobStep(c) ==
  \/ Enters(c) \/ Polls(c) \/ CancelsRun(c) \/ Looks(c) \/ TimesOut(c) \/ Reads(c)
  \/ Stores(c) \/ Starts(c)
JobFails(c) == Retries(c) \/ Errs(c) \/ StoreFails(c)

-----------------------------------------------------------------------------
(* _run, _finish, cancel and stop *)

Dropped == [c \in Cases |-> IF Working(c) \/ In(c, "queued") THEN NoJob ELSE job[c]]

\* Were the suite finished by the first of its cases.
FirstOfThem == \E c \in suite.cases : In(c, "done")
AllOfThem == \A c \in suite.cases : In(c, "done")
Finishes(end) == task' = [phase |-> "finishing", end |-> end]

Gathers ==
  /\ task.phase = "gathering" /\ AllOfThem
  /\ Finishes("COMPLETED")
  /\ UNCHANGED <<suite, results, job, orchestrator, budget, history>>

\* The suite's cases cannot be read.
ReadFails ==
  /\ task.phase = "gathering" /\ \A c \in suite.cases : In(c, "queued")
  /\ Fault
  /\ Finishes("FAILED") /\ job' = Dropped
  /\ UNCHANGED <<suite, results, orchestrator, history>>

\* One of them raised: gather does not stop the others.
Breaks ==
  /\ task.phase = "gathering" /\ \E c \in suite.cases : In(c, "broken")
  /\ Finishes("FAILED")
  /\ UNCHANGED <<suite, results, job, orchestrator, budget, history>>

\* An error counts among the cases, and not among those that passed.
Rows(among) == [c \in Cases |-> Cardinality({k \in DOMAIN results[c] : results[c][k] \in among})]
Count(among) == SumFunctionOnSet(Rows(among), Cases)
aggregate == [cases |-> Count(BOOLEAN), passed |-> Count({TRUE})]

WritesEnd == suite' = [suite EXCEPT !.status = task.end, !.metrics = aggregate]
_finish ==
  /\ task.phase = "finishing"
  /\ WritesEnd
  /\ task' = [phase |-> "over", end |-> task.end]
  /\ UNCHANGED <<results, job, orchestrator, budget, history>>

\* Interrupted, a suite that was being completed is finished once more; but nothing
\* protects the handlers that finish a cancelled or failed one.
HandledAs(end) ==
  IF task.end \in {"CANCELLED", "FAILED"} THEN task' = [phase |-> "abandoned", end |-> task.end]
  ELSE Finishes(end)
MayHaveEnded == UNCHANGED suite \/ (task.phase = "finishing" /\ WritesEnd)

\* The database fails as the end is written.
FinishFails ==
  /\ task.phase = "finishing" /\ Fault
  /\ HandledAs("FAILED") /\ MayHaveEnded
  /\ UNCHANGED <<results, job, orchestrator, history>>

\* The task is cancelled wherever it is, and with it the jobs it awaits.  A result that is
\* stored nonetheless is one that was stored just before.
cancel ==
  /\ cancels < MaxCancels /\ cancels' = cancels + 1
  /\ task.phase \in {"probing", "gathering", "finishing"}
  /\ HandledAs("CANCELLED") /\ MayHaveEnded
  /\ job' = IF task.phase = "gathering" THEN Dropped ELSE job
  /\ UNCHANGED <<results, orchestrator, faults, history>>

\* The process dies: nothing looks for suites it left RUNNING.
Crashes ==
  /\ task.phase \in {"probing", "gathering", "finishing"} /\ Fault
  /\ task' = [phase |-> "dead", end |-> task.end] /\ job' = Dropped
  /\ UNCHANGED <<suite, results, orchestrator, history>>

-----------------------------------------------------------------------------
(* The orchestrator, and the people who use it. *)

\* A run goes through its statuses as it likes, and ends once it has seen a
\* cancellation.  Bound: a shadow run nobody polls is left where it is, and of a
\* live one, which nobody polls, only the end is told.
Polled(w) == \E c \in Cases : job[c].run = w /\ job[c].phase \in {"polling", "parked", "looking"}
Statuses(mode) == IF mode = "LIVE" THEN {"COMPLETED"} ELSE {"RUNNING", "WAITING"} \cup Terminal
Runs(w) ==
  /\ wf[w].status \in {"RUNNING", "WAITING"} /\ (w \in Shadows => Polled(w))
  /\ \E s \in Statuses(wf[w].mode) :
       /\ s = "CANCELLED" => wf[w].cancelled # "no"
       /\ wf' = [wf EXCEPT ![w].status = s]
  /\ UNCHANGED <<suite, results, job, task, budget, history>>

\* POST /runs, and POST /runs/{id}/cancel, which signals the case's live run
\* whichever of its runs was meant.  Bound: while a suite is run.
Person ==
  /\ task.phase = "gathering"
  /\ \/ \E c \in Busy : StartLive(c)
     \/ \E w \in Workflows : wf[w] # NoWorkflow /\ CancelBy(SignalsCase(w), "person")
  /\ UNCHANGED <<suite, results, job, task, budget, history>>

Next ==
  \/ \E offered \in Offers, kind \in {"golden", "redteam"} : start_run(offered, kind)
  \/ \E c \in Cases : _run_redteam(c) \/ ProbesFail(c)
  \/ \E c \in Cases : JobStep(c) \/ JobFails(c)
  \/ Gathers \/ ReadFails \/ Breaks \/ _finish \/ FinishFails \/ cancel \/ Crashes
  \/ \E w \in Workflows : Runs(w)
  \/ Person

Fairness ==
  /\ \A c \in Cases : WF_vars(JobStep(c))
  /\ WF_vars(\E c \in Cases : _run_redteam(c)) /\ WF_vars(Gathers) /\ WF_vars(Breaks) /\ WF_vars(_finish)

Spec == Init /\ [][Next]_vars /\ Fairness

-----------------------------------------------------------------------------
(* Properties *)

\* No case has two results unless the commit of the first was not heard of, and a
\* completed suite has one for each of its cases, errors included, which its metrics
\* count, those it has twice as well.  The progress shown counts the results, unless two
\* were stored at once: then it falls behind.
SuiteAddsUp ==
  LET stored == Count(BOOLEAN) IN
  /\ suite.kind = "golden" =>
       \A c \in Cases : Len(results[c]) <= IF c \notin suite.cases THEN 0
                                          ELSE IF c \in unheard THEN 2 ELSE 1
  /\ suite.done <= stored /\ (~torn => suite.done = stored)
  /\ suite.status = "COMPLETED" =>
       /\ suite.metrics.cases = stored
       /\ suite.kind = "golden" => \A c \in suite.cases : results[c] # <<>>
       /\ unheard = {} => stored = suite.total

\* A dataset is as large as asked for, and balanced: no cause has two cases more
\* than another unless the other has none left.
DatasetBalanced ==
  LET Given(cause) == Cardinality({c \in suite.cases : Cause[c] = cause})
      Left(cause) == {c \in ToSet(suite.offered) \ suite.cases : Cause[c] = cause}
      causes == {Cause[c] : c \in ToSet(suite.offered)}
  IN  /\ suite.kind = "golden" => suite.total = Min({Size, Len(suite.offered)})
      /\ \A a, b \in causes : Given(a) > Given(b) + 1 => Left(b) = {}

\* Replaying cases is safe beside a live system: a live run is only ever
\* cancelled by people, whatever the harness starts, retries and cancels.
LiveLeftAlone == \A w \in Lives : wf[w].cancelled # "harness"

\* A suite comes to an end, however its shadow runs go on and although the database
\* fails, as it is completed too: left RUNNING is only one whose process died, or that
\* had failed or been cancelled already and, as that was being written, was cancelled
\* again or met a failing database.
SuiteEnds ==
  suite.status = "RUNNING" ~>
    \/ suite.status # "RUNNING"
    \/ task.phase = "dead"
    \/ task.phase = "abandoned" /\ task.end # "COMPLETED"
=============================================================================

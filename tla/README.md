# Recoup, verified: models, checks and proofs

Recoup collects overdue invoices with a team of agents. Thirteen FastAPI
services keep their own Postgres schemas and talk over HTTP and Kafka; one
Temporal workflow per case runs a supervisor loop that calls language models
and, through a single tool gateway, changes the world: credit memos, payment
plans, e-mails. People watch, take over, and approve what a policy says they
must.  The code is not hard line by line. What is hard is that everything
happens twice, late, or at the same time as something else. This directory
models those parts in TLA+.

## Inventory

| Component | State it keeps | Operations | Talks to |
|---|---|---|---|
| **case** (`services/case`, 2 replicas) | cases (status, `agent_mode`, `version`), proposed actions, invoice claims, timeline, outbox | open, transition, triage, note, assign, takeover, release, propose, approve/edit/reject, mark executed; ingestion loop | called by people, tool gateway, orchestrator, communication; lists invoices in the ERP; emits `case.*` |
| **outbox / relay / consumer** (`libs/recoup-common/events`) | outbox rows (`published_at`), topic partitions, group offsets | enqueue in the caller's transaction, drain, publish, poll, handle, commit | every service to every consumer |
| **tool gateway** (2 replicas) | invocation audit rows, unique on (tenant, tool, idempotency key) where SUCCESS | validate, rate limit, look up the cache, gate on policy and approval, run with a timeout, mark executed, audit | orchestrator in; policy, case, ERP, communication, knowledge out |
| **case workflow** (orchestrator, Temporal) | workflow state: pending signals, human control, step count, actions, outreach | supervisor step, specialist, execute ready actions, wait for customer / approval / release, finalise | tool gateway, case |
| **event bridge and runs** (orchestrator) | agent runs | start live or shadow, signal, cancel, on events or by people | Kafka in, Temporal out; evals |
| **agent loop** (orchestrator) | messages, iterations, repairs | model, tools, repair, submit | LLM library, tool gateway |
| **prompts** (orchestrator, every replica) | versions of each prompt, one active | seed at start, add, activate | read by every step of every run |
| **policy** | policies, their versions, evaluations | create, install the starter pack, update, add version, delete, evaluate, simulate | tool gateway |
| **communication** | threads, messages (idempotency key, external id), outbox | send, poll inbox, link, relink | SMTP, mailbox; case; emits `comm.*` |
| **mock ERP** | invoices, payments, credit memos, payment plans | list overdue, create memo, create plan | tool gateway, ingestion |
| **knowledge** | documents, chunks, facts about customers | ingest, search, distil, supersede, retire | tool gateway, workflow, Kafka |
| **analytics** | dimension and fact tables | project one event at a time, metrics | Kafka, four topics |
| **evals** | datasets, suites, results | build, run, score, red-team, cancel | orchestrator, tool gateway |
| **iam, API gateway, realtime, frontend** | users; rate buckets; sockets; pages | log in; proxy; fan out; show | each other |

What is hard, and what makes each part correct:

* *case*: nothing is locked while a request thinks; two replicas; pages that are
  stale; invoices that must not be collected twice. It is correct when the
  concurrent service is indistinguishable from a ledger that does one thing
  at a time, and its events tell that ledger's history.
* *outbox*: crashes between publishing and marking, two drainers, handlers that
  fail, batches delivered again. Nothing committed may be lost on the way to
  the topic, and what is published must have been committed.
* *tool gateway*: a timeout does not stop an effect, a retry repeats it, two
  replicas run the same key. One approval, or one key, must mean one effect.
* *communication*: SMTP is no transaction. A call repeated, or cut off half-way, must
  not mail twice and must leave a record; what customers write must arrive in
  the right conversation although the poller may fail at any line.
* *workflow*: signals arrive in any phase, people take over in the middle,
  activities are retried after they succeeded. It must stop, stay within its
  budget, and not act on what was not approved.
* *intake*: a pass is bounded and any error aborts it; loops of two replicas and people
  open cases for the same invoices. Each invoice the ERP keeps listing must get one case.
* *policy*: an evaluation reads policies and versions in two statements while
  managers write both. A denial that stands must win, whatever else is going on.
* *prompts*: nothing in the database says that one version is active; overlapping
  transactions see different sets of active ones. A step must find its prompt.
* *agent loop*: three budgets are counted apart, calls run side by side. Every call must be
  answered before the model is asked again, and the loop's own budgets must stop it first.
* *ERP and arithmetic*: credits work on an open amount read earlier; gateway and
  ERP each do the sums of a plan. Nothing may be credited twice, and the sums must agree.
* *knowledge*: writers wait for an embedding in the middle of a transaction; search reads in two
  statements. The present text must be found, and facts be neither lost nor piled up.
* *analytics*: topics are read side by side, again, and with gaps. In-order reading must give the
  case service's truth, and what was decided must not be unlearned in any order.
* *evals*: cases are scored side by side with counts read before; runs are cancelled beside
  a live system. The suite must add up, end, and leave live runs alone.

## Modules

| Module | What it is | From |
|---|---|---|
| `CaseStateMachine` | lifecycle tables, roles, the shape of events | `state_machine.py`, `auth.py` |
| `CaseLedger` | abstract: the case service with every operation at one instant | what `service.py` promises |
| `CaseService` | the service as it runs: requests that read, think, and write under a version check | `service.py`, `routes.py`, `models.py` |
| `MockErp` | invoices that fall due and are credited by overlapping requests | `mock_erp/routes.py`, `repo.py` |
| `Intake` | the ingestion loops, on top of `CaseService` and `MockErp` | `ingestion.py` |
| `Reconcile`, `Amounts` | what an invoice should be credited, what a plan comes to; the requests for these sums | `tools/reconcile.py`, `erp_write.py`, `erp_read.py` |
| `Outbox` | the table of events, the relays of all replicas, one partition | `events/outbox.py`, `publisher.py` |
| `KafkaConsumer` | a consumer group on that partition | `events/consumer.py` |
| `EventDelivery` | both, joined at the topic | |
| `Delivery` | abstract: calls of handlers in an aggregate's order, perhaps repeated | what consumers rely on |
| `Projector` | the read model, on top of `CaseLedger` and four topics | `projector.py`, `metrics.py` |
| `Knowledge` | documents, chunks, facts and their writers | `writer.py`, `ingest.py`, `retrieval.py`, `memory.py` |
| `ToolGateway` | tool calls from the agent to the effect | `service.py`, `tools/`, and the callers in the orchestrator |
| `AgentLoop` | the graph of one agent: model, tools, submission | `agents/loop.py` |
| `PromptStore` | versions of a prompt under overlapping transactions | `prompt_store.py`, `routes.py` |
| `PolicyEngine` | combining the rules that match into an answer | `engine.py` |
| `PolicyRules` | the rule language, its validation, the starter pack | `engine.py`, `defaults.py`, `schemas.py` |
| `PolicyContext` | the facts each tool puts before the policy | `context.py`, `policy_tools.py`, `tools/` |
| `PolicyStore` | managers who write policies while calls are judged by them | `service.py`, `routes.py` |
| `CaseWorkflow` | one run of the workflow, its activities, people, customers and the event bridge | `case_workflow.py`, `activities.py`, `consumer.py`, `runs.py` |
| `Playbook` | the workflow when rule-based stand-ins answer for the models | `agents/heuristics.py` |
| `Communication` | sending, the inbound poller, relinking, customers and the mail server | `service.py`, `clients.py`, `models.py` |
| `Evals` | suites, their jobs, and the shadow and live runs beside them | `evals/runner.py`, `clients.py`, `orchestrator/runs.py` |
| `MCStores` | instances of `CaseService`, `PolicyStore` (with `PolicyRules`, `PolicyContext`) and `PromptStore` | |
| `MCCalls` | instances of `ToolGateway` and `AgentLoop` | |
| `MCEvents` | `EventDelivery` with two relays and no readers, or with one relay and a consumer group | |
| `MCReaders` | instances of `Projector` and `Knowledge` | |
| `MCIntake`, `MCEvals` | instances of `Intake` with `Amounts`, and of `Evals` | |
| `StoresProofs` | theorems of `CaseService`, `PolicyStore`, `PromptStore`, `MockErp` and `Amounts` | |
| `CallsProofs` | theorems of `ToolGateway` and `AgentLoop` | |
| `ReadersProofs` | theorems of `Projector` and `Knowledge` | |
| `OutboxProofs` | theorems of `Outbox` and `EventDelivery` | |
| `CaseWorkflowProofs`, `CommunicationProofs`, `EvalsProofs` | theorems of the module they name | |
| `Induction` | induction, sums, maxima and division, for the proofs of the others | |

What is composed with what: `Intake` is the loops over the case service's own requests and the
ERP's; `EventDelivery` joins producer and consumer; `Projector` reads the events of the ledger
that `CaseService` is proved to implement, in the order that `EventDelivery` is proved to
keep. `Playbook` EXTENDS `CaseWorkflow`. `CaseService` and `ToolGateway` share the vocabulary of `CaseStateMachine`. They meet at
`propose_action`, `decide_action` and `mark_executed`; the gateway and the workflow
see only the statuses of actions, and each lets the rest of the case service do
anything `CaseLedger` allows.

`MCStores`, `MCCalls` and `MCReaders` hold components that share no state and that only a choice of inputs would connect. A behaviour of theirs takes the steps of one of them and
leaves the others in their initial states, so that the run checks each by itself and
its size is the sum of theirs, not the product. In the same way a behaviour of `MCEvents` is chosen at its start to
be the two relays' or, when `alone`, the whole way's.

### The case service

A request is a record in `req`: idle; `viewed` (a person looks at a page); `case`
(it has read the case row); `action` (it has read the action row too); or
`creating`. `version`, `status`, `mode` and `prop` in it are copies, and every
guard of `service.py` is evaluated on them, as in the code. A write is possible
only when `Fresh(r)`: SQLAlchemy adds `AND version = :v` to the `UPDATE`, and
every operation dirties the row through `_touch`. Any request may `Abort`
(4xx, 5xx, a lost race, a crash) at any point and leaves nothing. Reads of one request
happen at different instants (Postgres, READ COMMITTED), so the action row may
be newer than the case row; `SnapshotCurrent` says why that is harmless.

Arguments (target status, verdict, role) are chosen when the request commits.
Columns that no guard reads are abstracted; `append_event`, which writes a
timeline row and nothing else, is not an action.

`log` is what the service enqueues in its outbox, per case, in commit order; it is
both what consumers will see and the history the properties speak about.

`CaseService` implements `CaseLedger` under the identity on the five shared
variables: requests, versions and claims disappear. Its reads and aborts are
stutters; each write is one ledger action.

### Opening cases

`Intake` EXTENDS `CaseService` and `MockErp`. A loop is one of the case service's requests with a
pass: `Lists` (the first `Limit` overdue and open invoices, whether they have a case or not),
then for each `Skips` or `Wants` (it has none; the customer is asked for), `Begins` and `Opens`
(`create_case` of the case service, its claims under the unique index), and `Finishes`.
`Stops` and `Fails` are the exceptions that `_loop` suppresses: the pass ends, the next
one begins with a new listing. In `MockErp` a `POST /credit-memos` reads the invoice and its
key (`ReadsInvoice`) and writes the memo and what is left (`Credits`), so that two of
them overlap; what to credit was worked out by the gateway from the open amount of some
earlier moment (`Asks`). `Reconcile` holds the sums, in cents, with the rounding of the code (half up
in the gateway, half even in the ERP), and `Amounts` asks for them over all
invoices of one line up to the bounds.

### The outbox and its consumers

`row` is the outbox table. `enqueue_event` inserts in an open transaction, `Commit`
and `Rollback` end it: ids are drawn in one order and become visible in another.
`drain_once` is three kinds of step, because other replicas run between them:
`Select` (the `SELECT ... ORDER BY id LIMIT n FOR UPDATE SKIP LOCKED`), one `Publish`
per row in order, and `EndDrain`, the commit that marks what was sent. `PublishFails`
stops the batch; the broker may have the event. `RelayCrash` drops marks and locks.
Only one partition is modelled: the message key is the aggregate.

In `KafkaConsumer` a member polls a batch, calls its handler record by record,
commits. As in the code a handler's exception is logged and the record counts as done
(`handler_failed`), whereas an exception of the poll or of the commit ends the task
(`LoopDies`) until somebody restarts the service. A member that lost the partition
goes on with the batch it has. `EventDelivery` joins the two at `topic`.

### The tool gateway

A call in `call` passes through the phases of `invoke`: received; checked (no cached
answer); proposing or running; ran; succeeding; answered. Every arrow is an await on
another service, so calls with one key overlap, in one replica or two. A request in
`sent` outlives the call that sent it: `Fails` is the timeout, and the ERP or the case
service may still act on it afterwards. The policy's verdict is any, at every call.
`execute_action` is the workflow's executor: the action's id is the idempotency key.
The two tools kept are the one whose effect is not undone (`create_credit_memo`; plans
and e-mails follow the same path) and `propose_action`, which behaves unlike all others.
The ERP's "one memo per key" is what `mock_erp/routes.py` does; `MockErp` shows how.

### An agent and its prompts

`AgentLoop` is the LangGraph of `ToolLoopAgent`: `_model_node` with any turn of up to `MaxCalls`
calls, `_tools_node` with the gateway's calls before the submissions, `_route` between them.
`Stopped`, `ModelFails`, `RepairExhausted` are its exceptions. LangGraph's own limit counts
nodes, the agent's count turns and repairs.

In `PromptStore` a request reads all versions of a prompt (`ReadsAll`) and writes, when it
commits, the rows it saw active and the one it activates (`Switched`): `deactivate all, activate one`
is no single statement. `InsertsRow` is the flush that takes the unique index. What a session has loaded and still refers to it
does not load afresh: when `add_version` reads all rows again to activate its own, the one it numbered that
after says what it said before (`Reread`), so that a version activated in between stays active too.

### Policies

`PolicyEngine` is `evaluate`: `DENY` wins, then the order of priority and name; `PolicyRules` is
the language (`_compare`, `matches`, `validate_rule`) with its treatment of absent and null
facts, and the starter pack; `PolicyContext` is what each tool gathers before it asks. `PolicyStore` adds the
tables: a manager's request checks names and inserts (`ChecksNames`, `Inserts`, `Conflicts`), or loads a policy
and updates, adds a version or deletes (`get_policy`, then `update_policy`, `add_version`,
`delete_policy`, or `Aborts`); an evaluation reads the policies (`ReadsPolicies`), then their
versions and answers (`evaluate_request`). `judged[c].deny` is a history variable: the
policies that denied the facts put before the evaluation at every moment in between. The facts are those
that `PolicyContext` says a tool gathers, the ones gathered while the ERP or the case service is away included;
of facts that were left out `StandingDenyWins` says nothing (see below).

### The case workflow

`pc` is the await at which the workflow function stands; code between two awaits is
one step, as Temporal guarantees. `st` is `CaseState`, which activities take and
return, reduced to what guards read: the step number, the tracked actions, how often
each specialist ran, the last three signals, and whether there is an investigation, a
zero balance, and an intent. `io` holds the arguments of the activity under way, fixed at
its first attempt. `case` is the case service's view, which others change.

| Action | Code |
|---|---|
| `load_case_state`, `merge_signals`, `refresh_actions`, `record_wait` | the activities that only read, or write what a repetition writes again; `Crashes` is their last failed attempt |
| `BudgetEnds`, `Cancels`, `Pauses`, `Resumes`, `Merges`, `Thinks` | the head of the loop, in the order of its tests |
| `supervisor_step`, `Guarded`, `effective_next`, `Goes` | the model's choice, the guardrails after it, the branch taken |
| `run_specialist`, `propose_action`, `_apply_specialist_output`, `_track_action` | a specialist's calls through the gateway, then what the activity remembers of them |
| `Woken`, `Expires` | `_wait_for_signals` returning |
| `execute_action`, `simulate_action`, `execute_fails` | one iteration of `_execute_ready`; a failed attempt may have changed the case |
| `finalize_case`, `RecordsOutcome`, `FinalizeFails` | the two halves of `finalize_case`, which is retried as a whole |
| `takeover`, `release`, `email_received`, `decide_action`, `cancel_run` | people and customers |
| `handle` | the bridge: a signal delivered, delivered and redelivered, or dropped on an RPC error |

What the models answer is any member of the answer's type. Tokens are not counted:
that they are spent may be found at any supervisor step, and the run ends at once.
`APPROVED` stands for `EDITED` too, and a proposal's argument is its id. A shadow run is
never signalled, as its workflow id is its own.

`Playbook` answers for the models as `agents/heuristics.py` does when none is configured, each of its
actions one of `CaseWorkflow`'s with the choice decided: `supervisor` is the first of `Rules` that applies, and
a specialist's answer (`triage`, `investigator`, `proposer`, `ReadsReply`) follows its script, reduced to
what a later rule reads. `book` holds those parts of `CaseState`. What the ERP says is any input.
`Replayed` is the gateway's cache: the loop's key names no step.

### Communication

A call of `send_email` is a record in `send`, at the await where it stands; rows are known
by their idempotency key. Threads are named by the message that opened them, and
`threads` keeps the order of `created_at`, which `threads_for_case(...)[-1]` needs.

| Action | Code |
|---|---|
| `Finds` | the key is known: the row is answered as it stands |
| `Prepares`, `Queues`, `Refused` | the first transaction: look-ups and thread; the INSERT; the unique index refusing a parallel call |
| `SmtpTakes`, `SmtpFails` | `smtp.send`; an error may come after the server took the mail |
| `Settles` | the last transaction and the answer |
| `Lists`, `Reads`, `Ingests`, `Ends` | `poll_once` and `_ingest`: the listing, a mail with its look-ups, its INSERT, the end |
| `Collides`, `Aborts` | what raises in a pass ends it: a duplicate Message-ID or external id; the mailbox or the case service failing |
| `Chooses`, `ReadsThread`, `Links` | `relink_message`, whose reads and commit lie apart |
| `Writes` | external: a customer's mail arrives. It answers what has arrived (with its references) or nothing, names an invoice of a case or none, or is an earlier mail delivered again |
| `Crash` | the process: requests vanish, rows and mails stay |

`inbox` is the mail server with all it took, ours too; `Listed` is its first page, newest
first. A poll that finds nothing new is a stutter. The case's timeline, which
`clients.py` calls a convenience mirror, templates and attachments are left out.

### The read model

`Projector` takes `CaseLedger`'s log as the case topic and lets the runs, mails and tool calls of
the case appear on three others. `Consume` handles the next event of a topic as `_project` does, one
operator per handler (`Created`, `Changed`, `Resolved`, `Handover`, `Proposed`, `Decided`, ...), each an
upsert. `HandlerFails` passes an event over, `Rewind` reads a topic again from an earlier
offset, `ComesAgain` handles one old event once more. `disturbed` remembers which topics were not read in order
since. The metrics are the selections they make (`OpenCases`, `AutoAllowed`, `FunnelExecuted`, ...).
A run's row is stored as `COMPLETED` when its event says `RESOLVED` (`StoredAs`), and so the dashboard's status is
not the row's: `ReadModelFollows` asks that what the dashboard shows be the outcome the row was stored for.

### Knowledge

A writer upserts a document (`Selects`, `BeginsDelete`, `Deletes`, `Inserts`, `Indexes`), then distils
facts from it (`extract_facts`, `list_memory`, `add_fact`). A `DELETE` that had to wait deletes what
was there when it began, as READ COMMITTED does. `crossed` is a history variable: documents and
topics on which two writers missed each other. A search is `Ranks` and `Fetches`.

### Evaluation suites

`job[c]` is the task that scores one case, at the await where it stands; `task` the one that gathers
them; `wf` what the orchestrator runs. `Retries` is an answer to a start that is lost, perhaps after the
workflow was started. `Reads` and `Stores` are apart, as in `_store`: the count of cases done is
read, and written back with the result. `cancel` and `Crashes` hit the task wherever it is.

The database fails at every transaction of the runner: as the cases are read (`ReadFails`), as a result is
stored (`StoreFails`, `ProbesFail`), as the end is written (`FinishFails`); with nothing committed or with a
commit whose answer is lost. A result that was committed unheard is stored again, as an error, and `unheard` remembers the case: `eval_results` has no unique index.
An end interrupted as `COMPLETED` is written once more, as `FAILED` or `CANCELLED`; one interrupted as such is `abandoned`,
because nothing guards the handlers, whereas `dead` is a process that died. A
shadow or live run goes through statuses as it likes; how it works is `CaseWorkflow`'s.

## Runs

| Run | Question | Bounds |
|---|---|---|
| `stores_race` | do two overlapping requests of any kind behave atomically on a case, with events that replay to the row, and actions executed only with authority? are policies' names and versions sound, and no standing denial overlooked? has a prompt one active version? | 1 case, 2 actions, 2 requests, all ten statuses, 3 verdicts of 4 forms, 2 roles, 5 writes; 2 policies of 3 versions, 2 managers, 1 evaluation; 2 requests, 2 revisions, 4 prompt versions |
| `events` | with two relays: is everything committed published, nothing else, and once unless something failed? with one: do handlers see each aggregate's order (refinement of `Delivery`), and every event? | 2 aggregates, 3 rows, 2 relays, batches of 2, 2 failures; then 1 aggregate, 2 rows, 1 relay, 2 members, batches of 2, 1 + 2 failures |
| `gateway_calls` | one effect per key and approval, authorised and truthfully reported? is each call answered, and do the agent's budgets bind? | 1 proposal, keys of a live memo, a shadow memo and a proposal, 2 calls; 4 iterations, 1 repair, turns of 2 calls |
| `workflow_run` | does a run end within its budget, honestly, without losing a signal, and a shadow run without moving the case? | 1 e-mail action, 2 specialists allowed once each, 3 steps, 2 attempts, 2 outside events |
| `workflow_takeover` (violated) | does a takeover keep the executor from starting? | the same |
| `playbook_followups` (violated) | is a silent customer reminded after each of three waits before the case is given up? | 2 mails, 3 runs of a specialist, 20 steps, live, undisturbed |
| `comm_mail` | is each key mailed once, with a gapless record, replies in their thread, and every mail stored? | 1 case, 1 key, 2 calls, 2 customer mails, the loop, 1 analyst, a listing of 2, 1 failure |
| `intake` | has every invoice one case, and every one that stays listed a case at last? do memos and open amounts add up, and the sums of credits and plans agree? | 3 invoices, 3 cases, 1 loop, 1 person, a limit of 2, 1 failure, 2 keys, 2 posts; for the sums see below |
| `readers` | does the dashboard agree with the case service, and unlearn nothing? is the present text found, and are facts kept? | 1 case, 1 action, 2 runs, 5 events, 2 faults; 2 documents, 2 writers at once of 4, 2 texts, 3 facts |
| `projector_replay` (violated) | is a mail counted once? | 1 case, 3 events, 1 fault |
| `loop_submit` (violated) | is an accepted submission the end of the work? | 4 iterations, 1 repair |
| `evals` | does a suite add up, end, pick a balanced dataset, and leave live runs alone? | 3 cases of 2 causes of which 2 are picked, 2 at a time, 3 shadow and 1 live run, 1 fault, 2 cancellations, 2 tries |

*Case.* A race needs two parties and a third brings no new kind of conflict, since the
version check compares one request with whatever committed before. `MaxVersion`
bounds how often a case may be written *before a request starts* (a request
under way finishes); five writes are two proposals, two decisions and an execution,
and still leave room for a lost race. There is no liveness: a request may always be refused.

*Policies and prompts.* Two managers collide on a name, on a version, and on a deletion; one
evaluation between their steps sees every mixture of tables. The starter pack has one denial and
the tenant another whose rule needs a fact to be absent, so that both directions of an incomplete context occur.
Two replicas of two revisions, four versions: seed, add, activate and one to lose.

*Outbox.* Three rows of two aggregates are what it takes for a batch of two to be full,
to skip locked rows, and for an id drawn early to commit late. Two failures allow a
crash during the repair of a crash. The consumer's batch of two makes redelivery of
half a batch possible. An order is kept or lost among the events of one aggregate, so the
whole way is checked with one.

*Gateway.* Two calls are a call and its retry. Keys are told apart only by whether they
are equal and by the kind of run, so one of each kind is enough. The model has no
counter: calls start for ever.

*Agent.* Four iterations are a few turns with tools, a repair and the one beyond the budget; two calls in a
turn are a tool with a submission, or two submissions.

*Workflow.* Three steps leave room for a specialist, a wait and the executor before the
budget; one action and two attempts for every way an attempt can fail half-way; two
events for a takeover and its release, a reply and its redelivery, a decision and a
cancellation. The action is an e-mail because e-mails also open the wait for
the customer; proposals by others behave alike, and `Earlier` lets an action be there before.

*Playbook.* Two mails are the first and a reminder; the limits are the code's.

*Communication.* Two calls are a call and its repetition. Our mail and two of a customer's
overfill a listing of two; two customer mails are a reply and its answer, or a mail and its
duplicate. One failure is a crash between any two steps. With a second pass at the same time
the safety properties hold as well (5.8 million states, not kept as a run).

*Intake.* With three invoices and a limit of two the third is seen only once another is settled, which credits
do. One loop and one person collide on an invoice as two loops would. The sums are taken over every
document of one line with quantities and prices up to 3, with and without an order, a delivery and a
contract, open amounts up to 8, and plans of up to 12 installments over amounts up to
120 cents with five discounts: every remainder and every tie of the two roundings occurs.
They change no state, so they are asked for at the start, one at a time.

*Readers.* Five events are an opening, a proposal, its decision, and two of runs, mails, calls or
closing; two faults are a failure and the replay that repairs it. Of documents, one written by
people and the case's resolution, which two writers write at once.

*Evals.* Three cases of which two are scored at once, with three shadow runs for two jobs and a retry. One fault
and two cancellations are what it takes to interrupt a suite, then the writing of its end. With two faults, which
add a database that fails for `_store` and `_store_error` both, the invariants hold as well (4.7 million states, not
kept as a run; what `SuiteEnds` says of such a suite is what it says of any other that turned `FAILED`).

Deadlock is not checked: bounds on writes, events and versions stop every one of these
systems, and a run of the workflow, the agent or a suite is meant to end. That
they do not stop early is what `RunEnds`, `SuiteEnds`, `NothingIsLost`,
`EveryEventReachesHandler`, `EveryMailIngested` and `OverdueGetsCase` say.

## Fairness

* Outbox: weak fairness of each relay's `drain_once`. `OutboxRelay._run` catches every
  exception and polls again. No fairness on writers: a transaction may stay open.
* Consumers: weak fairness of poll, handle and commit of a member that has work, and of
  giving a dead member's partition to another, which the Kafka group protocol does.
  Nothing restarts a dead member, so `EveryEventReachesHandler` says "or all are dead".
* Failures are bounded in number, which says that they end, not when.
* Communication: weak fairness of the loop's `poll_once`: `_loop` catches every exception and
  polls again. Nobody owes a send, a mail or a link. `EveryMailIngested` excepts what the code
  cannot reach: mail pushed out of the newest 200 before a pass came to it, and mail
  behind a duplicate, on which every pass ends (`Blocked`).
* Workflow: weak fairness of the workflow as a whole. Temporal runs its tasks, expires
  its timers, and runs an activity until it succeeds or its attempts are spent. Nobody owes
  it a release, hence the second half of `RunEnds`.
* Intake: weak fairness of the loop's steps: it sleeps, and runs again whatever was raised. Nobody
  owes a day, a credit or a case opened by hand. `OverdueGetsCase` is about invoices that
  stay among those a pass is given; beyond the limit the code never looks.
* Evals: weak fairness of each job's own steps and of the task: asyncio runs what can run, and
  a job has a deadline. None of the shadow runs, so that `SuiteEnds` does not hang on them.
  It excepts a process that died (`dead`) and a failed or cancelled suite whose end could not be written,
  because the database failed or a cancellation came just then (`abandoned`).

## Where the code and its documents differ

* `workflow_takeover`: "Human takeover pauses the loop" holds for the head of the loop; a
  takeover that wakes a wait, or comes during a specialist, still lets `_execute_ready`
  send what is approved.
* `projector_replay`: `projector.py` says that every handler is an idempotent upsert; the mail
  counter of a case adds one each time its event is handled.
* `loop_submit`: "The model ends its work by calling `submit_<agent>`"; the edge from the tools
  leads to the model, which is asked once more, and its failure or the end of
  the budget loses the accepted submission.
* `playbook_followups`: "the Communicator sends the next reminder; after three unanswered follow-ups the
  case escalates". The timeout stays the last signal after the reminder is out, so the next step asks for
  another reminder instead of waiting, until the specialist has run three times: the case is
  escalated after the first 72 hours. (A reminder a person must approve brings another signal, and hides this.)

Met on the way, and of no run of their own:

* `docs/adr/0004-transactional-outbox.md` promises order per aggregate from a single drainer; the
  chart deploys two replicas, each with a relay, and `SKIP LOCKED` lets the second pass over the
  first. `OneRelayKeepsOrder` proves that the promise holds with one, and
  `DecisionsStick` shows what the dashboard keeps without it.
* `tools/case_tools.py:247` looks for an open proposal of the type before it posts one; two calls of one
  turn run concurrently and both find none.
* `tools/comm_tools.py:338` answers a send that SMTP refused, a FAILED row, as it answers one
  that was mailed.
* `record_wait` writes a line into the live case's timeline in a shadow run too (ADR-0008 says that
  case writes are skipped); `ShadowMovesNothing` is about the case, its mode and its actions.
* `case_workflow.py:231`: when the attempts of `execute_action` are spent the workflow fails and the row of
  the run stays RUNNING, which `RunEnds` counts as ended.
* `heuristics.py:622` takes the credit memo's reference from `execution_result`, which `summary_for_prompt`
  leaves out: the mail about a settled dispute always calls it "pending".
* `service.py:88` of the gateway leaves the customer out of the context when the ERP does not answer, and `matches` takes
  an absent fact for no match: a plan for a customer on credit hold is then proposed without the starter pack's `DENY`. The tool that
  applies the plan gathers the hold itself, so that the plan meets the rule before it takes effect.
* `prompt_store.py:94-97`: adding a version with `activate` does not clear a predecessor that was activated since it was read.
* `runner.py:245-250`: when `_finish` fails in a handler the suite stays RUNNING for ever, and
  nothing looks for it. When the commit of a result is not heard of, the case has two rows, and the metrics count both.
* The fallback of the LLM library probes the primary again only after the fallback's success.

## Theorems

All hold for any values of the constants that satisfy the named assumptions. Every safety and action
property that a passing run checks, and both refinements, are stated by one of them.

`StoresProofs`, *the case service*. Its inductive invariant is `IInv == TypeOK /\ SnapshotCurrent /\ ClaimInv`:

* `TypeCorrect`: `TypeOK` always.
* `SnapshotsAreCurrent`: a copy whose version still stands at the `UPDATE` is
  the current row, for the case and for the action read after it. It is the
  inductive heart: a write bumps the version of exactly the case whose rows it
  changes, and an action's case never changes.
* `ServiceImplementsLedger`: `Spec => L!Spec`. With `SnapshotCurrent` each guard
  on a copy is the ledger's guard on the row, so each write is a ledger step.
* `ExecutionsAuthorised`: the ledger's steps preserve it, hence so do the
  service's.
* `EventsTellTheRow`: proved of the ledger's steps too (`ReplayInv`). What a log tells of a row, its status
  chain, who has it in hand, and each action's fate, is followed event by event: an operation that
  appends two or three events is that many lemma applications, and nothing earlier is told anew.
* `InvoicesClaimedOnce`: `case_invoices` and the cases' invoices agree, so no two
  cases share one.
* `PagesHonoured`: what a person does on a page of version `v` changes a case only at `v`. It needs that a
  request that opens a case has looked at no page (`OpensUnseen`), and the version check does the rest.

*Policies*. `StoreAlwaysSound`, from a `TablesInv` that ties each policy's row to its versions, and from the
unique constraints, which are the only thing that a manager who has checked too early runs into.
`StandingDenialsWin` has no hypothesis on rules or facts. It is about the facts put before an evaluation, and says that two reads
of tables that managers are writing cannot lose a denial that stood from one to the other. The invariant follows
a denial through the two readings: a policy that denied at the first and still denies at the second is among
the compiled rules at the same version or a later one, and then `DENY` wins (`DeniedIsDenied`).

*Prompts*. `ActivePromptFound`: versions are only added, one at a
time, and what a transaction is about to write fits the rows as they are by then (`InLine`); unless a version was activated
while another activation was to go by an older copy of it, or had read none of it (`GoesByCopy`), whoever activates has seen every version that is active (`SeesActive`).

*Money*. `PlansHold`: the gateway rounds a plan's discount half up and the ERP half even, so that what is booked is what was
told or, on a tie, a cent more; the installments of either add up to its total, and if the totals are equal no installment differs by more than a cent.
`CreditsHold`: for a line of quantity `q` at price `p`, ordered at
`P`, with `b` on the order and `g` delivered, the three reasons for a credit do not overlap: `(p-P)q + (q-b)P + (b-g)P = qp - Pg`, so that what
is credited is what the documents leave unowed, and no reason by itself is credited more than is proposed for all. `BooksBalance`: whatever
overlaps, an invoice's memos and what is left of it come to its amount, unless one write went over another (`torn`). The
invariant (`ErpInv`) says that an amount asked for is positive, and that a request about to
write has read a balance that its amount fits.

`CallsProofs`, *the gateway*: `OneMemoEach`, `NothingUnauthorised`, `ExecutedIsTrue`,
`SuccessIsHonest`, `TypeCorrect`. The requests in flight are the crux: `RequestsOK` says
of every one sent that it was authorised when it left and still carries the arguments the
human left, because a decided action is never decided again. `Keep` states what no step
undoes (decisions, edits, memos, audit rows), so that facts about one call survive
the steps of the others.

*The loop*. `BudgetsAlwaysBind`: two nodes make an iteration, so the nodes run never exceed twice
the iterations (`Paced`), and LangGraph's limit has room for more. `CallsAlwaysAnswered`: whenever the model is asked, every
turn before has its answers and no answer lacks its call (`Spoken`): at the tools' node the last message is the
model's, and what the node appends answers each of its calls once, whatever the order it takes them in.

`ReadersProofs`, *the read model*: `ProjectorInvariant`, and from it `DashboardCorrect` (a
dashboard read in order says what the case service's rows say, and of a run the outcome its row was stored for) and `DecisionsCorrect` (in no order is a decision unlearned). `PInv` has
four parts: what the logs tell of the services' state (`Source`, which the
case service's own steps preserve); that a row holds nothing no event said, and keeps what was handled
(`Tables`); that what was read since a partition was last begun was read wholly
(`ReadWholly`); and for each column that is overwritten (`Columns`) that it shows what some prefix of its partition
says, no shorter than what was read in order. Only the last makes the first three
enough: a redelivered event may set a column back, but never behind the reader.

*Knowledge*: `SearchCorrect` and `FactsCorrect`. What a writer has read (the
chunks it is about to replace, the fact it is about to supersede) is still so when it writes, or somebody has crossed it (`Knows`), and the
row locks keep two writers from replacing one document's chunks at a time (`Exclusive`).

`OutboxProofs`: `TypeCorrect`, `OnlyCommittedIsPublished` and `MarkedWasPublished` from
`IInv`: no row has an id that was not drawn (`FreshIds`), and what a relay holds is committed
and what it calls sent is on the topic (`BatchInv`), through any crash of another.
`OneRelayKeepsOrder` adds `OrderInv`: open rows of an aggregate are newer than its
committed ones (`OpenIsNewest`, because transactions on one case do not overlap), and a
batch leaves no earlier row of its aggregates behind (`BatchClosed`), which is
what a second relay destroys. `DuplicatesAreFailures` needs no such assumption: with any number of
relays what one holds no other does and is not marked yet (`HeldByOne`), and a row that nobody has sent is on the
topic at most as often as something failed (`Counted`); a mark or a failure pays for every copy.
`DeliveryInOrder` is the refinement of `Delivery` by the whole of `EventDelivery`, for one relay and any
consumer group. `NoGap` says that every record up to where a member stands, or the group has committed, was handled, whoever
was given the partition meanwhile; so a handler is called only after calls with all that is before it on the topic, and
`OrderInv` says that this is all that is earlier in its aggregate. A commit of a transaction is an
`Announce`, a call is a `HandOver`, and every other step a stutter.

`CaseWorkflowProofs`: `TypeCorrect`; `BudgetHolds`, from a bound on the steps at each place
of the loop (`StepInv`: while the executor runs, steps spent plus actions left stay within the
limit); `OutcomeHonest`, from the grounds of an outcome, which hold from the decision to the
row because nothing between them changes the state and a cancellation is never taken
back (`OutcomeInv`); `ShadowLeavesCase`; and `SignalsReachTheState`, from `BatchInv`: only a
merge has signals in its arguments, so that the next drain finds the last one read.

`CommunicationProofs`: `TypeCorrect`, `OneMailPerKey` and `NoGap`, from one `IInv`. `SendInv` is what makes
it inductive: the unique index lets one call only past the INSERT of a key, that call
mails once, and what it claims of the mailbox is so. `Filled` says that a request that has
got so far has its key, thread or mail. `OthersStep` shows once that poller and analysts
leave all of this alone. `RepliesJoin` rests on what the references of a mail may name (`ConvInv`): our own
mail answers at most one message, stored and in its thread (`OurAnswers`); a customer's names only what
was in the mailbox, and whatever it names beside a mail of ours belongs to that mail's conversation (`TogetherWith`), so that `_find_thread` can
take any stored one and comes to the same thread. What a pass found out at its look-ups still
holds at its INSERT (`PassKnows`): a row keeps its thread, and a thread may get another case, but not lose it.

`EvalsProofs`: `LiveRunsLeftAlone`, from `HarnessInv`: a job that polls or cancels holds the id of a shadow run, which its own start
gave it (`JobsAwaitShadows`), and the signal of a shadow run goes to its own workflow. `SuitesAddUp`, from `SuiteInv`: every count a
job has read is at most the rows there are (`Counted`), a case of a golden suite has a row exactly when its task is done, or
at most two if it stored one unheard (`Rowed`), and a completed suite has no task left to add one (`Course`). `DatasetsBalanced`: the picked cases are those of rank below
`Size`, and `Rank` is a one-to-one numbering of the cases found (`SoonerOrders`: `Sooner` is a strict total order), which
gives the size; a cause gives one case a round, so if one of its cases is left out in round `r`, the cause
has given `r - 1` and no other has given more than `r` (`PickedEvenly`).

`Induction` is what these rest on where data are counted or added up. The library's induction takes a predicate as a parameter, which no
installed prover can instantiate; `Induction` has it over the naturals and over finite sets with a *set* instead, itself proved from
finite cardinality. From it come what `SumFunctionOnSet` of the community modules computes (that it exists, is unique, and what
becomes of it when one value or one element changes), maxima, sizes of intervals, and the division by a variable.

Assumptions: bounds and limits are natural numbers (batches, steps and
attempts at least one; `MaxRecords` and the like may be zero), the set of actions is finite, the callers' arguments and the
deployed specialists are among the declared ones, the kinds of idempotency key do not
overlap, our messages are not customers', ids of shadow and live runs do not overlap, policies
of the starter pack differ in name, `None` is no id, cases with a ground truth are finitely many and found once each (a case is
looked up by its invoice), discounts are percentages, and the documents of an invoice that may be credited are
well formed (`WellFormed`: finitely many lines, quantities and prices that are numbers, no negative subtotal).

Only model-checked: the liveness properties (`NothingIsLost`, `EveryEventReachesHandler`, `RunEnds`,
`EveryMailIngested`, `OverdueGetsCase`, `SuiteEnds`), which are out of the prover's reach, and the four that the
code does not satisfy.

## What is not modelled

* Prompt texts and specialists' specifications: what a model answers is any input of `CaseWorkflow` and
  `AgentLoop`. Of the stand-ins (`Playbook`), the read tools they ask, wording, amounts, priorities, and how the text of a reply is matched.
* Login and tokens (iam), the API gateway's proxying and rate buckets, the realtime hub: request-local or
  best-effort; nothing in them outlives a request except a counter in memory.
* The LLM library: external models behind retries and a fallback.
* The ERP adapter: an HTTP client; its errors are the gateway's.
* The scenario generator, seeds and migrations: data, not behaviour.
* Read routes and plain read tools, redaction, duplicate detection and dispute classification: they change nothing.
* Embeddings, ranking and chunk boundaries; judge scores and token counts; wording of mails and timeline entries.
* The frontend (its `expected_version` is in `CaseService`) and the chart, which tells how many replicas run.

## What could come next

1. Proofs: that `Playbook` implements `CaseWorkflow` without the limits of the latter's instance; that the projector reads what
   `EventDelivery` delivers, so that `disturbed` is derived and not assumed.
2. The composition of `ToolGateway` with `CaseService`, so that the gateway's view of actions is the ledger's.
3. A second live run of a case, and the rows and progress events of a run's steps.

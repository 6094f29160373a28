# Verification of the agentic engineering platform

TLA+ models of the platform: the agent workflow that carries one task from a
description to a pull request, the coordination of the workers that execute tasks
from a shared queue, the API that submits and decides tasks, the event stream, the
gates around an agent's tools, the way through tests and CI to a pull request, and
the code index. The models are checked with TLC on small instances; every invariant
and every action property of a passing run is also proved with TLAPS, for every value of
the constants or under the hypotheses that section 11 names.
All source paths are relative to `src/`.

| file | content |
|---|---|
| `Workflow.tla`, `MCWorkflow.tla` | one task: graph, nodes, routing, supervisor, checkpoints, execution service |
| `Coordination.tla`, `MCCoordination.tla` | many workers: queue, lock, lease, consumer loop, recovery sweep, API requests |
| `TaskLifecycle.tla` | abstract specification: the life of a task, which `Coordination` implements |
| `Decisions.tla` | when a decision is admitted, its status and its events; used by the next two |
| `TaskApi.tla`, `MCTaskApi.tla` | one task row between the API's transactions and the worker's |
| `EventStream.tla` | the timeline of a task and the browser that follows it |
| `Policy.tla` | the policy evaluator |
| `ToolGate.tla`, `MCToolGate.tla` | the agents' tool loop, its gates and its audit, up to the commit |
| `Delivery.tla` | test command, commit, push, CI run, pull request, call by call |
| `Retrieval.tla`, `MCRetrieval.tla` | parsers, chunker, index requests |
| `WorkflowProofs.tla`, `CoordinationProofs.tla`, `CoordinationRefinement.tla`, `TaskApiProofs.tla`, `EventStreamProofs.tla`, `ToolGateProofs.tla`, `DeliveryProofs.tla`, `RetrievalProofs.tla` | theorems |
| `*.cfg`, `PROJECT.json` | model-checking runs; components, source map, variants, findings, hazards, theorems |

To repeat a result: `tlc -config WorkflowCrash.cfg MCWorkflow`, `tlapm WorkflowProofs.tla`.

## 1. Inventory

### Components

| component | state it keeps | operations | what makes it correct |
|---|---|---|---|
| Workflow graph (`graph/`) | `AgentState`: verdicts, budgets, commit, CI status, outcome | 14 nodes, 5 routing functions | loops end by their budgets; nothing untested or blocked is committed; a review is backed by a pull request |
| Supervisor (`agents/supervisor.py`, `graph/context.py`) | the checkpoint in the task row | `instrument`: checkpoint, run the node, turn exceptions into state, checkpoint | an exception or a crash at any point leaves a state from which the task settles |
| Execution service (`apps/worker/execution.py`) | none of its own | `execute`: lock, claim, resume, run, finalise, release | every execution ends in a settled status; nothing stays held |
| Consumer and sweep (`apps/worker/consumer.py`) | semaphore, tasks in flight | `run_forever`, `_handle`, `sweep` | no task is lost; at most `worker_concurrency` in flight |
| Task queue (`infrastructure/queue/redis_queue.py`) | stream and pending entries of the consumer group | publish, receive, ack, nack, reclaim | at-least-once delivery |
| Lock (`infrastructure/locks/redis_lock.py`) | a key with owner and TTL | acquire, release, (renew) | one holder |
| Task repository (`persistence/repositories/tasks.py`) | task rows: status, state, lease; idempotency records | claim, release, set_status, save_state, the sweep queries | one live claim; a recoverable task is found |
| Task API (`apps/api/services.py`) | approval rows, agent runs | create, approve, reject, cancel, retry by `Idempotency-Key` | one task per key; one open question; a decision lasts |
| Event log and stream (`apps/api/routes/events.py`, `infrastructure/events/`, `persistence/repositories/audit.py`) | events with a per-task sequence, subscriptions | append, publish, replay, subscribe | numbers without holes; no event twice, none out of order; the stream of a settled task ends |
| Git worktrees (`tools/workspace.py`, `tools/git/`) | worktrees and branches, `_active` | create, adopt, diff, commit, push | agents write in the worktree only, once one was created or refused |
| Agents, tools, policies (`agents/`, `tools/`, `policies/`) | conversation, turn count | tool loop with three gates; rule evaluation | no tool outside the allowlist, no write without permission, no path outside the root |
| CI and SCM providers (`providers/`) | none | trigger, wait with a deadline; push, open a pull request | a verdict belongs to the commit it was asked about |
| Retrieval (`retrieval/`, `persistence/repositories/code.py`) | chunks, embeddings | scan, chunk, index, search | chunks stay in the file and within the limits, and windows lose no line of a file without usable symbols; a request replaces the rows it saw, and first requests do not mix |
| LLM providers, configuration, web UI, deployment | - | - | no protocol of their own |

### Interaction

The API commits a task row and publishes the task to the stream in a background
task. A worker's consumer loop receives a message, waits for its semaphore and
starts `_handle`, which runs `TaskExecutor.execute`: take the Redis lock, claim the
row, run the graph from the checkpointed state, write the final status, release the
lock, release the lease; then the message is acknowledged. Around every node the
supervisor writes the state and the node's status into the row, the same row that
approve, reject and cancel update. Every worker also sweeps: it publishes unclaimed
tasks and tasks with an expired lease again, and handles messages nobody has
acknowledged for `task_lease_seconds`.

### What is hard

Workers die between any two writes; messages are redelivered and duplicated; the
lock, the lease and the pending entry are three records of the same ownership and
none is renewed; API requests check a status and then update without a condition;
a resumed run starts at the first node with the verdicts of the old run in its
state; a node that raises keeps its side effects and loses its update. Each of
these, with the line where it bites, is in `PROJECT.json` under `hazards`.

## 2. How the modules divide the system

Each module looks at one part in full detail and takes the others as arbitrary
choices or as one step:

- `Workflow` has every node of the graph as one step; `ToolGate` opens the nodes that
  run agents, with the policy gate and the commit, and `Delivery` opens the nodes from
  `run_tests` to `create_pr`.
- `Coordination` has an execution as `Claim`, checkpoints and `Finish`; `Workflow` is
  what happens in between and why it ends. `TaskApi` and `EventStream` follow what one
  execution writes, the first into the task, approval and agent-run rows, the second
  into the event log and onto the bus, against the transactions of the API. The four
  share statuses and decisions (`Decisions`, and `Admits` in `Coordination`).
- `TaskLifecycle` is the abstract specification: submission, one execution at a time,
  decisions. `Coordination` implements it by the mapping of `ImplementsLifecycle`.

`Workflow`, `ToolGate` and `Delivery` treat an exception in a node alike, as
`Supervisor.instrument` does: the node's update is lost, what it did is not, and the graph
goes on along its edges with the state it had. An exception of the supervisor's own calls
leaves the graph and fails the task (`CheckpointFails`, `SupervisorFails`, `WrapperRaises`).

Still planned: `ReviewIsBacked` across resumes, with the hypotheses that it needs there;
the in-process backend as a variant of `Coordination`.

## 3. Workflow

### Correspondence

`node` is the graph node that runs or runs next; `phase` is where
`Supervisor.instrument` stands with it: `enter` (before the first checkpoint),
`run` (inside the node function), `save` (before the second checkpoint), and
`idle` between executions. `st` is the `AgentState` LangGraph carries in memory,
`row` the durable task row with its status and checkpoint; a crash loses the first
and keeps the second. `wt` is the worktree (registered or not, number of changed
files), `head` the task branch, `pr` the newest commit the pull request shows.

There is one action per node, named as in `graph/nodes.py`; `NodeViolates` and
`NodeFails` are the two `except` branches of the supervisor, with `PartialEffects`
for what the node may have done before it raised; `EnterNode` and `SaveNode` are
the two checkpoints; `Begin`, `Finalize`, `RecursionLimitReached`,
`BadRepositoryPath` and `CheckpointFails` are the paths of
`TaskExecutor._run_workflow`; `Crash` may happen in every phase. The routing
functions keep their names and the order of their tests.

Agent output is arbitrary: an agent that holds write tools leaves any number of
changed files, a test run passes, fails with some fingerprint or fails with none,
the policy gate allows or blocks, CI ends in any of its four verdicts.

History kept for the properties only: `wt.tested` and `wt.gated` (did `run_tests`
pass, and the gate allow, exactly the present content of the tree?), `head.tested`,
`head.gated` and `head.ci` for what was committed, and `checkout`.

Abstractions: a list of failure fingerprints is one value, and only the last two
are kept (`is_stuck` reads no others); `modified_files` is a number; `HUMAN_APPROVAL`
and `ALLOW` route alike; texts, events, agent-run rows and metrics are left out.

### Runs

| run | instance | shows |
|---|---|---|
| `WorkflowClean` | one execution, the default budgets 3 and 2, two fingerprints, no faults | type correctness; at most `11 + 2 MaxIterations + 5 MaxCIIterations` supersteps; a task offered for review has a pull request on its newest commit, a CI that did not fail, and an approval row |
| `WorkflowCrash` | two executions, a crash anywhere in the first, or a redelivery of the parked task | what is committed was tested and allowed; the pull request has a commit; no iteration is given back; the task settles |
| `WorkflowFaults` | every node but three raises at will, boundary violations in the nodes that can meet one, failing checkpoint writes, a recursion limit of 22 that is reached | the developer's checkout is untouched; the task settles |

### Bounds

Two fingerprints distinguish a repeated failure from a new one. `MaxFiles = 1` has
zero, some, and too many files; `WorkflowFaults` uses 0 to stay small. Budgets of 1
make each loop run and end; `WorkflowClean` uses the program's defaults. Two
executions are what a resume needs: the second reads everything the first left,
and may itself be a redelivery after `READY_FOR_REVIEW`. `RecursionLimit` is the
program's 60, except where the limit itself is to be reached. In `WorkflowFaults`
the three nodes that do not raise plainly (`implementation`, `run_tests`,
`security_policy`) are those whose exceptions falsify a property of this module; each
property names its exception in its guard, so that the theorems cover all other fault sets.
`MaxRuns` bounds crashes: the last run allowed does not crash.

### Fairness

Weak fairness of `WorkerStep`: a live worker keeps executing. Every await in a node
has a timeout (commands, HTTP, CI wait) or is a database or model call that returns
or raises. Weak fairness of `Begin` for an unsettled task: `Coordination` shows that
a task is taken up. Crashes, redeliveries and failures are never fair.

## 4. Coordination

### Correspondence

`row[t]` is the task row (status, `locked_by`, and whether the lease has expired),
`lock[t]` the Redis key, `msg[m]` an entry of the stream (`new`, then `pending`
until acknowledged), `loop[w]` the message the consumer loop holds while it waits
for the semaphore `sem[w]`, `job[h]` one running `_handle`, `sweep[w]` the recovery
sweep, `deciding[t]` the API requests between their status check and their update.
A handler is a slot of a worker, or the `Sweeper`: the sweep awaits `_handle` itself.

`job[h].pc` follows `_handle` and `execute` from one shared write to the next:
`start` -(`AcquireLock`)-> `locked` -(`Claim`)-> `running` -(`Checkpoint`, `Finish`)->
`unlock` -(`ReleaseLock`)-> `unlease` -(`ReleaseLease`)-> `settle` -(`Settle`)-> idle.
`CallRaises` is an exception (or the cancellation at shutdown) at any of these
points, with the clean-up the code still reaches. The sweep is one action per await.
What the workflow does between `Claim` and `Finish` is module `Workflow`; here it is
`Checkpoint`, the unconditional status writes.

Abstractions: time is an expiry that may happen. The lock, the lease and the idle
time of a message share `task_lease_seconds` and are not renewed. `SlowRuns` says
whether an execution may outlive that time; without it, expiry happens only to what
no live handler uses. `LocksVanish` says whether Redis may lose a key that is held.
A restarted worker has a new identity, so that what the dead one held belongs to
`Ghost`. Stream order, the batch sizes of the sweep (10 messages, 20 tasks) and
`delivery_count` are left out: no property depends on them with the few tasks of an
instance.

### Runs

| run | instance | shows |
|---|---|---|
| `CoordinationSafety` | one task, two workers with a slot and a sweeper each, two copies of its message, one crash, one failing call, a cancel request | type correctness; at most one handler executes the task; without a fault no lock or lease is left behind; the protocol implements `TaskLifecycle` |
| `CoordinationTakeUp` | the same without failing calls and requests | a submitted task is taken up, also when its publication is lost or its worker dies |

`CoordinationLockLoss` (one worker with two slots, locks that vanish) refutes a
sentence of the repository, see section 10.

`TaskLifecycle` knows of a task only whether it is absent, open, parked or closed and
who executes it. `ImplementsLifecycle` maps the status column to the first and the
handlers at `running` to the second. It says more than `MutualExclusion`: an execution
begins only on a task that is not closed, and only a submission, the one execution or
a decision moves a task; sweeps, duplicates, expiries and crashes are stuttering steps
or the silent end of an execution. `Save` may move a closed task back to open, which is
what the code does to a cancelled task (section 10).

### Bounds

Tasks do not interact except through the semaphore, so one task with four handlers
that compete for it shows the interesting cases. Two copies of a message are the
least with a duplicate; a handler that works on one copy holds it, so the refuting
run has three. A publication that finds all copies in the stream changes nothing:
the stream then already holds more duplicates than handlers. One crash and one error
let each fault meet every interleaving; the theorems have no such bound.

### Fairness

Consumer loop, sweep and handlers are loops of a live process, so their steps are
weakly fair. `Finish` is fair because module `Workflow` bounds the supersteps of an
execution; `Checkpoint` is not. Expiry of what nobody uses is the passing of time.
API requests, publications by the API, crashes and errors are not fair: the sweep
has to make up for a publication that never comes.

## 5. TaskApi

One task row, as the API's requests and the worker share it. `create[c]` follows a
`POST /tasks` request through lookup, flush, commit and answer; `key` is the committed
idempotency record; a request answered 500 is retried. `tx[r]` follows approve, reject
and cancel: the status that is read, the pending approval that is looked up, the
UPDATEs that take the row lock, the commit after the handler returned, or a rollback.
`prog` is the sequence of database operations the worker has yet to do for the node
at hand: `Supervisor.instrument` writes an agent run, a checkpoint, what the node
writes, the end of the agent run and a second checkpoint; `NextNode` chooses a node or
one of the ways an execution ends. A node that raises is one that ends its agent run all
the same; when the last node raises, `_finalize` finds no outcome, or that of an earlier
execution (`OldOutcomes`). Only the node is inside the wrapper's `try`: `WrapperRaises` is
an event, the start of the agent run, a checkpoint, or `finish_agent_run` in an `except`
branch that raises; the exception leaves the graph, the task is FAILED and the agent run
stays RUNNING. A status is `ACTIVE` for every node that does not
settle the task. At PostgreSQL's READ COMMITTED an UPDATE waits for the row lock and
its effect is seen at the commit; a unique key makes the second insert wait and fail.

Run `TaskApi` (two creating requests, for one issue or two; two decisions; two
executions, one crash; one failure, a rollback or an exception that leaves the wrapper;
one ordinary node before the end; 924,094 states): one task per
key; at most one open question, and one for every parked task (`OneOpenQuestion`, the
second part guarded by "no crash": see section 10); an agent run that stays RUNNING is the
work of a crash or of such an exception, at most one each (in `TypeOK`); a decision stands
once no execution and no admitted request is left (`DecisionsStick`), which rests on
`claim` refusing terminal tasks; the task settles for good. Two decisions are what a race
needs; a third would only repeat the second. The creating requests are answered before
the rest is explored, since their steps commute with it. Fairness: received requests
and the worker run on, the sweep brings back an unsettled task (`TasksStart`), a client
retries. Run `TaskApiCancel` refutes a sentence of the documentation (section 10).

## 6. EventStream

`task_events` are the committed rows, `plan` what the worker has yet to emit and to
write, `emitting` an emit between SELECT max, commit and publication, `tx` a decision
whose events are appended and published inside its transaction, `stream` the SSE
handler (`off`, `rows`, `replay`, `replayed`, `live`, `ended`), `got` what the browser
received over all its connections. The bus has no memory. The handler's actions are its awaits: rows, status,
one row at a time, subscription, one event at a time. A second look at the status is
answered by the session's identity map (`stream.current`).

Run `EventStream` (one decision, one dropped connection, one rollback, every way an
execution ends): the numbers have no hole, though two writers take max + 1 at the same
time, and a writer's own events keep their order (`LogIsOrdered`); a browser receives nothing twice and
nothing out of order, by replay, bus and reconnection together; what it is shown is
durable unless a transaction rolled back; and a browser that connects to a settled
task is told so. Worker, requests in flight and handler are weakly fair.

## 7. ToolGate and Policy

`Policy` has the evaluator as operators: the findings of path rules, content rules and
scope rules, the strongest action, the highest risk. A rule is a set of paths or of
contents it matches.

`ToolGate` has the loop of `Agent.run`: `turn` and `calls` count the model's turns and
the calls of a response, `call` is the one in `_execute_tool`; allowlist, policy check
of the path argument and write permission are its gates (`Invoke`), and each call ends
in an audit row and, after a write, a row in `file_changes`. A path argument is a
spelling; `Target` is what it resolves to, `Outside` what `resolve_inside` refuses. The
model asks for any tool with any path.

The root of a session is the developer's checkout for the analysing agents, and the
worktree for the changing ones; where none is registered these fall back to the checkout
too (`Root`). `implementation` creates the worktree; `create` may raise a violation, which
leaves BLOCK (`CreateRefused`), or anything else, which leaves nothing (`CreateRaises`).
`security_policy` evaluates the diff or, without a worktree, the files an earlier node
left in the state; when it raises (`PolicyRaises`), `after_policy` reads the older action.
`git_commit` adds the diff to `history` when a verdict was given on it (`gated`). `Crash`
and `Redelivered` start the task again from the analysis with the policy action and the
risk of the checkpoint; the risk is then assessed anew, and the worktree is adopted, or
not if its directory is gone (`Resumed`). `history`, `recent`, `gated` and `raised` are
kept for the properties only.

Run `ToolGate` (two files, one protected, one that needs approval; a second spelling
of the protected file and one path that escapes; two contents, one of them secret; two
turns of two calls, four sessions, one failure or crash; 934,190 states): calls and writes
are recorded unless the recording itself failed; nothing a BLOCK rule matches is committed
after a `security_policy` that returned; the risk level covers the rounds since the last
assessment; the checkout is not written unless creating the worktree raised something other
than a violation; a standing BLOCK makes agents read-only; no session passes its number of
turns (in `TypeOK`). Four sessions let one agent prepare what another one trips over, with
a commit, a crash or a second delivery in between.

## 8. Delivery

The nodes from `run_tests` to `create_pr`, one action per call; the five nodes before them
are one action. `printed` is what the
test command has printed so far, a report for each project; `parse_dotnet_output` reads
the first totals only, as the code does. `server` is the hosting service, which is
external: a push leads to runs that register later, in any order with polling, end with
any conclusion, or are deleted. Only `trigger` and `wait` look at the service, so its steps
are taken while one of them stands. `trigger` looks at a page of runs for the commit and
gives up after some attempts; `wait` polls up to its deadline. `s` is the AgentState of
the last node that ended, from which a crash restarts the graph; `rows` is `ci_runs`.

Every node may raise at every call (`NodeFails`): its update is lost and the graph goes on
along its edges (`Edges`), with an older test verdict, an older commit, an older CI status
or none (`unset`), which `after_ci` treats like a skipped run. `SupervisorFails` is an
exception that leaves the graph. A node that raises pays for no iteration; `steps` counts
the supersteps and `RecursionLimit` ends such loops. `after_tests` may halt before the
budget is spent, for `is_stuck` and the number of files, which `Workflow` looks at.
`green`, `validated` and `lost` are kept for the properties only: did the test run that was
last taken note of pass everywhere, did the last `ci_validation` return, is the sha of the
newest commit unknown to the state?

Run `Delivery` (two projects, one local and one CI round, two attempts, one poll before
the deadline, one crash, 12 supersteps, both kinds of provider; 827,074 states): past
`run_tests` every project was green in the newest test run that returned; the verdict in a
pull request is in `ci_runs`, or `ci_validation` raised and there is none, and PASSED is of
a run that concluded without failure and, unless the last `ci_validation` raised or the sha
of the commit was lost, of the very commit the pull request shows; a run that ended before
the last poll keeps its verdict; and every task leaves this part, though runs hang or vanish
and nodes raise without end. Two projects are
the least in which the first totals hide a failure. Twelve supersteps (of the program's
60) take an execution through one round to the pull request and into a second round; a
second round that opens a pull request is reached by the crash, which starts the count
again. The theorems hold for any limit. Fairness is that of the worker (`WorkerStep`),
never of the service; nodes that raise need none, since each takes a superstep.

## 9. Retrieval

The parsers and the chunker as operators (`_block_end`, `_parse_python`,
`_window_chunks`, `chunk_file`), evaluated on every file of up to three Python lines,
four lines with up to three braces each, or six of plain text, and compared with what defines the result:
chunks lie inside the file and its limits, windows cover the text and overlap
(`ChunksCover`; that they lose no line is about files without usable symbols, since lines
outside symbols and symbols above the limit are dropped); Python definitions nest by
indentation, a brace block ends on the first line where as many braces are closed as opened,
in the middle of the line too, and blocks nest (`SymbolsNest`). A text is what the regular
expressions see of its lines, and the sequence of its braces with their lines, any number to
a line. A parser's result is
the set of its symbols, each with its lines; the depth that `_block_end` counts
is a recursive function of the brace (`Depth`), and the starts of the windows are the
least set that the loop of `_window_chunks` is closed under (`WindowStarts`).

The index request is a transaction: upsert, DELETE with the snapshot of its statement,
INSERT, commit, with the waits PostgreSQL imposes; run `Retrieval` has two of them and
edits in between: rows the last DELETE saw are gone and two first requests do not mix
(`IndexReplaced`). The limits (1 line for a symbol, windows of 3 with an overlap of 1)
are small enough that files of this size cross them. The run has 1,067,363 states.

## 10. Findings and limits

Runs that TLC refutes; the quotations are in `PROJECT.json`.

- **Two executions after a lost lock** (`CoordinationLockLoss`, `OneExecution`). A
  handler that fails to claim still releases the lease by worker id in its `finally`
  block.
- **A cancelled task runs on** (`TaskApiCancel`, `CancelStops`). The worker never reads
  the status; its next checkpoint writes over `CANCELLED`.

Limits met while modelling. The guards of the properties or the constants state them:

- An execution longer than `task_lease_seconds` is joined by a second one, since
  nothing renews lock or lease (`SlowRuns`).
- A duplicate message delivered after a task was parked starts it again: `claim`
  refuses terminal statuses only (`Begin` of `TaskLifecycle` admits a parked task).
- A reclaimed message is handled without the semaphore, which `_handle` then releases:
  the number of permits may exceed `worker_concurrency`.
- Lock and lease are released in two steps and by worker id; a task whose lease a
  sibling cleared, and whose worker then dies past its first checkpoint, is found by
  no sweep query (`TasksStart` is about queued tasks).
- A boundary violation leaves BLOCK, which `security_policy` overwrites: the task goes
  on, and commits what the gate allows.
- If `run_tests` raises, `after_tests` reads an older verdict, of a tree that agents may
  have changed since (`CommitsTested` is guarded by `Unreliable`; `GreenMeansGreen` is about
  the newest run that returned). A `debugging` or `ci_debugging` node that raises does not
  pay its iteration, and only the recursion limit ends such a loop.
- If `security_policy` raises, `after_policy` reads the older action and `git_commit`
  commits a diff without a verdict (`gated` in `BlockedNeverCommitted` and `RiskCovers`,
  `Unreliable` in `CommitsGated`).
- If creating the worktree raises anything but a violation, the agents that follow have
  write tools in the developer's checkout (`raised` in `CheckoutReadOnly`).
- A resumed execution assesses the risk anew and may lower it below that of files already
  committed (`RiskCovers` is about the commits since the last assessment).
- If `ci_validation` raises, `create_pr` opens a pull request with the older CI verdict or
  none (`validated` in `PullRequestVerified`).
- An exception outside the supervisor's `try`, or of `finish_agent_run` in an `except`
  branch, leaves the agent run RUNNING, like a crash (`TypeOK` of `TaskApi`).
- After a lost worktree an old `commit_sha` satisfies `after_commit`
  (`LostWorkspaces`).
- A crash inside `human_review`, after its first checkpoint, leaves a parked task
  without an approval row.
- A crash or an exception between `git commit` and its checkpoint makes the next round push
  a commit whose CI run is asked for under another one's number (`lost` in
  `PullRequestVerified`).
- A second `create_pull_request` for a branch is refused by GitHub with 422; the supervisor
  swallows the exception, and the task is READY_FOR_REVIEW with the first pull request. The
  local provider writes a second record.
- If no run registers within the attempts of `trigger`, CI counts as SKIPPED and the
  pull request is opened. Of several runs for a commit one is looked at.
- `ci_requires_human` of an earlier round does not stop a later round that passes.
- The second `communicate()` after a kill has no timeout of its own (`runner.py:96`).
- Two writers may take the same event number; a browser then skips the second one.
  Events published between the replay and the subscription do not reach the stream. A
  live stream may outlast its task: it looks at the status on five event types only,
  and a second look is stale. A new connection ends (`SettledStreamsEnd`).
- Braces in a parameter list are counted like any other: the block of
  `function StatusBadge({ status }: {...}) {` (`StatusBadge.tsx:17`) ends on its first line,
  and its chunk is that line. Lines outside symbols, and symbols above `MAX_CHUNK_LINES`,
  are in no chunk of a file that has usable symbols.
- Overlapping index requests leave the rows of both when the second DELETE did not see
  the first INSERT; `chunk_count` is then too small.

## 11. Proofs

The theorems hold for every value of the constants that meets the named assumptions
(`ConstantsAssumption` of `Workflow`; `CoordinationAssumption`, `NoMsgAssumption`,
`NoHandlerAssumption`; `TaskApiAssumption`; `WritersDiffer` and `BoundsAssumption` of
`EventStream`; `ToolGateAssumption` and `PolicyAssumption`; `DeliveryAssumption`;
`RetrievalAssumption`): natural numbers for budgets and bounds, special values that are
no members of the sets they stand beside, that a file's own name resolves to it, and that
a window is longer than its overlap. Any number of workers, tasks, requests, crashes,
CI runs, files and lines is covered.

| theorem | statement | inductive invariant |
|---|---|---|
| `WorkflowProofs!TypeCorrect` | `Spec => []TypeOK` | `TypeInv`: `TypeOK`, and a node that runs or saves is a node of the graph (without it `SaveNode` could write no status) |
| `WorkflowProofs!BudgetsHold` | `Spec => []BudgetsRespected` | `BudgetInv`: strictly below the budget whenever the graph stands at the node that spends it, which the routing functions establish (`RoutingPays`) |
| `WorkflowProofs!LoopsBounded` | `Spec => []LoopsBoundedByState` | `StepInv`: `Distance(node)` is the length of the straight way to the node; the supersteps never exceed it plus two for each debugging and five for each CI iteration the state has paid for |
| `WorkflowProofs!OnlyTestedCommits` | `Spec => []CommitsTested` | `TestedInv`: on the way from `run_tests` to `git_commit`, with a passing verdict, the tree is the one the verdict is about |
| `WorkflowProofs!OnlyGatedCommits` | `Spec => []CommitsGated` | `GatedInv`: the same for the policy gate |
| `WorkflowProofs!CheckoutSafe` | `Spec => []CheckoutUntouched` | `CheckoutInv`: past `implementation` a worktree is registered, or `policy_action` is `BLOCK` and the write tools are withheld |
| `WorkflowProofs!BudgetsStaySpent` | `Spec => BudgetsNeverRefunded`, when `debugging` and `ci_debugging` do not raise and `RecursionLimit > 11 + 2 MaxIterations + 5 MaxCIIterations` (60 > 27 with the program's defaults) | `SpentInv`: a run has spent at least what its last checkpoint says. Only the exception of the recursion limit writes an older state, and `StepInv` shows that it is not reached |
| `WorkflowProofs!PullRequestBacked` | `Spec => []PullRequestHasCommit` | `CommitInv`: whatever state a run starts from, resumes from or ends with, a `commit_sha` in it means a branch with a commit and a registered worktree, so that `implementation` does not create the branch anew |
| `WorkflowProofs!ReviewBacked` | `Spec => []ReviewIsBacked`, for one run in which the four nodes from `git_commit` to `human_review` do not raise | `BackedInv`: during the run `AgentState` names the newest commit, and each node past CI finds what its predecessor established |
| `CoordinationProofs!TypeCorrect` | `Spec => []TypeOK` | `TypeOK` itself, which includes that a handler at work has a message |
| `CoordinationProofs!ExclusiveExecution` | `Spec => []MutualExclusion` | `LockInv`: with locks that last, a handler between acquire and release is the holder on record of its task's lock; two of them on one task would be equal |
| `CoordinationProofs!NothingLeaks` | `Spec => []NoLeakWithoutFault` | the property itself, given `LockInv`: a step that frees a handler frees what it holds first |
| `CoordinationRefinement!RefinesLifecycle` | `Spec => ImplementsLifecycle`, when runs end within the lease and Redis keeps its locks | `LockInv` (one executor), and `KnownInv`: a message, a sweep, a handler and a request are always about a task that was submitted, so that none of them moves an absent one |
| `TaskApiProofs!TypeCorrect` | `Spec => []TypeOK` | `WorkInv`: every agent run that says RUNNING is one the worker's program has still to finish, or was left by a crash or an exception of the wrapper |
| `TaskApiProofs!CreatedOnce` | `Spec => []OneTaskPerKey` | `KeyInv`: one request holds the uncommitted key, and none once the record is committed; the record is the fingerprint of the creator and of all that were replayed |
| `TaskApiProofs!QuestionOpen` | `Spec => []OneOpenQuestion` | `TaskInv` and `QuestionInv`: a program that will park the task and has no question left to ask has asked it |
| `TaskApiProofs!DecisionFinal` | `Spec => DecisionsStick` | `TaskInv`: with no execution and no admitted request, only `claim` and a new request could move the task, and both refuse |
| `EventStreamProofs!TypeCorrect` | `Spec => []TypeOK` | `TypeInv`: the worker emits what its plan says next; only an open transaction has rows of its own |
| `EventStreamProofs!LogOrdered` | `Spec => []LogIsOrdered` | `DenseInv`: the log has no hole alone, with the rows of any one open transaction, or with the row the worker is about to commit, so that commits in any order leave none; `WriterInv`: the rows of one writer rise, those in flight included |
| `EventStreamProofs!DeliveryOnce` | `Spec => []NoDuplicateDelivery` | `DeliveryInv`: nothing received is above `highest`, and what the replay has still to give is new and not below it |
| `EventStreamProofs!ShownDurable` | `Spec => []ShownIsDurable` | `DurableInv`: the same for what was received, what the replay will give and what waits in the inbox |
| `ToolGateProofs!TypeCorrect` | `Spec => []TypeOK` | `TypeOK` |
| `ToolGateProofs!CheckoutIsReadOnly` | `Spec => []CheckoutReadOnly` | `Session`: which agents run in which stage, and that a call being executed passed the allowlist, which gives the analysing agents no tool that writes; `Placed`: unless creating it raised, a changing agent without a worktree finds BLOCK in the state |
| `ToolGateProofs!BlockedIsNeverCommitted` | `Spec => []BlockedNeverCommitted` | `Gate`: between a `security_policy` that returned and `git_commit` the verdict is about the very diff that is committed; the spelling of a path plays no part in it |
| `ToolGateProofs!RiskIsCovered` | `Spec => []RiskCovers` | `Gate`, and that between two assessments `max_risk` never lowers a level |
| `ToolGateProofs!BlockedIsReadOnly` | `Spec => BlockedMeansReadOnly` | `Session`: a write that runs was permitted by the action that stands |
| `ToolGateProofs!AuditIsComplete` | `Spec => []AuditComplete` | `AuditInv`: the rows that are missing are those the call at hand still owes and, beyond them, at most one of each kind for a failure or crash |
| `DeliveryProofs!TypeCorrect` | `Spec => []TypeOK` | `ControlInv`, `HostInv`, `StateInv`, `ResultInv`: a budget is checked on the edge into the node that spends it, also on the edges a raising node leaves by; the state names commits of the branch and runs of the service |
| `DeliveryProofs!GreenIsGreen` | `Spec => []GreenMeansGreen` | `GreenInv`: a passing verdict in the state is that of the newest run that returned, and the exit code, not the parsed totals, decides it |
| `DeliveryProofs!LateVerdict` | `Spec => LateVerdictCounts` | none is needed |
| `DeliveryProofs!VerifiedPullRequest` | `Spec => []PullRequestVerified` | `ShaInv`: unless it was lost, the state names the head of the branch; `VerdictInv`: the verdict in the state is in `ci_runs` and, if it passed, of a run that did and, on the way from a `ci_validation` that returned to the pull request, for that commit; runs only grow and an ended one keeps its end |
| `RetrievalProofs!TypeCorrect` | `Spec => []TypeOK` | `StoreInv`: what a request holds and what is stored are chunks of texts |
| `RetrievalProofs!ChunksCoverTexts` | `Spec => []ChunksCover` | `DiskInv` (the disk holds texts) and `WindowsReach`: every line of any text lies in a window |
| `RetrievalProofs!SymbolsAreNested` | `Spec => []SymbolsNest` | `DiskInv`, `DepthCounts` (the depth that `_block_end` counts is the braces opened less those closed) and `BlocksNest`: two brace blocks of any text are apart or one in the other |
| `RetrievalProofs!IndexIsReplaced` | `Spec => []IndexReplaced` | `ReplaceInv`: rows bear the request that made them, only those of a request that committed are stored or seen, and the key of the repositories row has one holder |

`BudgetsRespected` is proved and not in a run: `LoopsBoundedByState`, which rests on it,
is. The proof of the refinement maps the initial states and then each action of
`Coordination` to a step of `TaskLifecycle` or to none (`LifecycleStep`).

Three theorems have hypotheses of their own. They exclude what section 10 lists as limits
of the code, and the runs meet them: `WorkflowClean` has one run and no faults,
`WorkflowCrash` a recursion limit of 60 with both budgets at 1, and `CoordinationSafety`
has neither slow runs nor vanishing locks. Other exclusions are guards of the properties
themselves (`Unreliable`, `LostWorkspaces`, `raised`, `gated`, `validated`, `lost`).

`RetrievalProofs` reasons about texts of any length. The prover instantiates no induction
rule that takes a predicate, so the induction is over sets: `LeastIs` gives every
non-empty set of natural numbers its least member (from `WFMin`, with the set of
counterexamples as its argument), `DepthIs` and `DepthShifts` obtain from it what the
recursive function computes brace by brace, `Crossing` the brace at which a depth that moves
by steps first falls, and `StartsClosed` and `StartsFollow` replace induction over the
windows by the least closed set.

Only model-checked: liveness (`EventuallySettled`, `TasksStart`, `TaskSettles`,
`SettledStreamsEnd`, `DeliveryEnds`), which rests on fairness and ENABLED and is out of
the prover's reach.

## 12. Not modelled

The rankings of the code search (floating-point scores without state); prompts, the
planner and the JSON of agent answers (arbitrary input); what searching tools return;
model providers, configuration, logging, web UI and manifests, which keep no state of
their own; the in-process queue and lock for a single process, where nothing is
redelivered or survives; Azure DevOps as a provider of its own (it has the calls of the
GitHub one). `LockManager.renew`, `hold` and `TaskRepository.renew_lease`,
`WorkspaceManager.destroy`, `get_pull_request` and the evaluation rows have no caller.

# A TLA+ development for the SWE-Forge control plane

This directory holds TLA+ models of the code under `src/`, the TLC configurations that
check them on small instances, and theorems about them that TLAPS proves for every value
of the constants. The reference is the code; where a comment, a test or a document says
something else, a run marked `violation` shows the difference (see *Findings*).

## 1. The system

The repository is two programs in one tree.

* **SWE-Forge** (`agent/sweforge/`) is a deterministic 17-node LangGraph `StateGraph` that
  takes one task to one outcome: analyse, plan, let agents edit, verify, repair, review,
  scan, score, finish. `runner.py`, `cli.py` and `graph/entrypoint.py` start it.
* **The hosting agent** (`agent/` without `sweforge/`) is a LangGraph-platform server with
  webhooks (GitHub, Linear, Slack), a dashboard, sandboxes, and several coordination
  protocols that keep their state in the platform's store, in threads and in files.

### Inventory

| Component | State | Operations | Interacts with |
|---|---|---|---|
| Workflow graph (`graph/workflow.py`, `state/graph_state.py`) | `SWEForgeState`: `test_results`, `review_results`, `security_findings`, `risk_score`, `recovery_attempts`, `execution_metrics`, `final_status`, `node_trace`; the runtime's `written_files` | 17 nodes, 6 routing functions, the metrics reducer | budget, agents, verifier, reviewer, memory |
| Execution budget (`budget.py`) | counters, start time, `exhausted_reason` | `check_*`, `would_exceed`, `consume_*` | every node and agent of a run, from several threads |
| Plan dispatch and tool loop (`graph/workflow.py`, `agents/tool_loop.py`, `agents/specialized.py`, `schemas.py`) | plan layers, thread pool, conversation | `execution_layers`, `agent.run`, `ToolCallingLoop.run`, `_run_tool` | budget, tools, providers |
| Reviewer, Diagnostician (`agents/roles.py`) | none | `review`, `diagnose_and_repair` | graph |
| Risk engine (`security/risk.py`) | none | `assess`, `_level` | graph |
| Pull-request policy (`github/finalization.py`) | none | `prepare_pull_request` | the final state of a run |
| Run driver (`runner.py`) | none | `run_task` (sets `recursion_limit`) | graph |
| MCP orchestration (`mcp/orchestration.py`) | calls of the run | `invoke` with allowlist, cap, retries | budget |
| Experience memory (`memory/store.py`) | JSONL file and records | `add`, `search` | graph |
| Router, ledger, execution policy (`routing/`) | usage ledger | `select`, `execute` (retry, then fall back) | agents |
| Dashboard message queue (`utils/thread_ops.py`, `middleware/check_message_queue.py`, `dashboard/thread_api.py`, `utils/slack_stop.py`) | a list in the store per thread | queue, drain, discard | senders, running agent, Slack stop reaction |
| Background-task monitor (`background_tasks.py`, `tools/background_execute.py`) | directories in the sandbox (task state, launch lock, monitor lock, claim, done), the thread's crons | launch, run, list, claim, dispatch, mark, retire | sandbox, platform's crons, dispatch |
| Baby-sit watches (`baby_sit.py`, `tools/manage_baby_sit.py`) | watch record in the store, lock thread with a TTL, cron | start, stop, record a rerun, evaluate (webhook, cron) | GitHub, dispatch |
| Review product (`webhooks/github.py`, `tools/publish_review.py`, `tools/add_finding.py`, `review/*.py`, `middleware/settle_review_check.py`) | reviewer thread's metadata (head, last reviewed head, check id, pending result), findings, the pull request's comments, reviews and check runs | deliver, reconcile, create a check, review, publish, settle | GitHub, platform's runs, run-completion webhook |
| Run completion, reconciliation (`completion.py`, `reconcile.py`) | flags in the thread's metadata | webhook, sweep | platform |
| Sandbox proxy (`utils/sandbox_state.py`, `server.py`, `middleware/tool_error_handler.py`, `tools/recreate_sandbox.py`) | registry of handles; a handle's backend, startup task, callback and lock; sandbox id in the thread's metadata | start, wait, ensure, recreate, replace, drop, cancel | sandbox provider, runs, tools, dashboard |
| Slack claims (`utils/slack_events.py`) | local set, claim threads | claim | platform |

`PROJECT.json` lists these and the rest, with what is modelled of each.

### What is hard, and what makes each component correct

* **Two loops share one exit.** A failed verification and a rejected review both lead to
  `recovery`, by different routes with different guards, and `recovery` always leads back
  to `verification`. They must respect one bound and always end.
* **Results go stale.** A repair edits the tree after it was verified, reviewed, scanned.
  What is delivered must be what was verified, gated and approved *last*.
* **The budget is a flag with a memory.** `would_exceed` sets `exhausted_reason` as a side
  effect and nothing clears it, so a refused probe of one node decides a route much later.
* **The reducer is part of the control.** `review_rejections` is merged by `max`.
* **Check, call and charge are separate steps** of several threads over one unlocked object.
* **Failures are swallowed at different levels**: in the loop, in `agent.run`, in the node.
* **Read, await, write** against the platform's store, threads and files, with crashes,
  duplicate deliveries and locks that expire, in the hosting agent: the message queue, the
  background tasks, the baby-sit watches and the review of a pull request are modelled.
* **Locks without owners.** The sandbox's locks are directories that go stale, the watch's
  lock is a thread with a time to live; either can be taken from a holder that is slow, who
  then releases another's lock.
* **Recorded before done, or done before recorded.** A watch records the dispatch key and
  then dispatches; the review is posted and then recorded; a tick claims, dispatches and
  marks. A crash in between must neither repeat nor lose more than the design accepts.
* **One handle, many coroutines.** A startup outlives the run that began it, a waiter may come
  back after others have replaced the backend or dropped the handle, and the thread's metadata
  and the process's memory are written one after the other.
* **Two completions of one check run**, by the hook after the agent and by the
  run-completion webhook, each from metadata it read some awaits before.

## 2. The modules

| Module | Role |
|---|---|
| `Budget` | The budget as a record, its checks, and what a node (`CallTools`) or a whole dispatch (`RunAgents`) may do to it |
| `Workflow` | The graph: one action per node with the edge it takes, and the pull-request decision on its final state |
| `ChangeControl` | Abstract promise: drafted once, altered only by a bounded number of repairs, delivered only if green as it stands |
| `AgentPool` | The inside of the `implementation` node: layers, thread pool, tool-calling loops, shared budget |
| `ImplementationNode` | Abstract specification of that node: the one step `Workflow` takes it for |
| `MessageQueue` | Follow-ups to a busy thread: sends, the drain before a model call, the end, interruption and crash of a run, the stop reaction, all on one stored list |
| `BackgroundTasks` | Background commands of a sandbox: tool calls, runners, the control scripts, and ticks of the monitor that announces endings and retires its own crons |
| `BabySit` | The watch of a pull request's CI: evaluations by tick and webhook under a lock that expires, starts and stops without it, reruns |
| `ReviewRuns` | The review of a pull request: webhooks, the reviewer run, its publication, and the settlement of the check run |
| `SandboxProxy` | The sandbox of one thread in one process: registry, handles, startup tasks, recreations, and the coroutines that wait for them |
| `MCWorkflow`, `MCAgentPool`, `MCMessageQueue`, `MCBackgroundTasks`, `MCBabySit`, `MCReviewRuns`, `MCSandboxProxy` | Values for the constants |
| `WorkflowProofs`, `WorkflowRefinement`, `AgentPoolProofs`, `MessageQueueProofs`, `BackgroundTasksProofs`, `BabySitProofs`, `ReviewRunsProofs`, `SandboxProxyProofs` | Theorems |

The two refinements hang together: `Workflow.Implementation` uses `RunAgents(budget)`, the
same operator as `ImplementationNode.Dispatch`, and `AgentPool` is shown to implement
`ImplementationNode`. So what the graph assumes about an interleaved dispatch is what the
dispatch does.

### Workflow and the code

| Code | Model |
|---|---|
| `WorkflowConfig` flags, an empty task, `runtime.verifier`, `recursion_limit` | `config`, chosen in `Init` |
| the pending node, `len(node_trace)` | `node`, `steps` |
| `runtime.written_files`, the working tree | `written`, a version number |
| `test_results`, `review_results`, `security_findings`, `risk_score` | `test`, `review`, `scan`, `risk`, each with the version (`of`) it was computed from |
| `recovery_attempts` | `attempts` |
| `execution_metrics.review_rejections`, through `_merge_metrics` | `rejections`, through `MergeRejections` |
| rejected reviews that appear in `node_trace` | `rejected` |
| `ExecutionBudget` | `budget` |
| `final_status`, `_record_experience` | `status`, `experience` |

The `of` fields are history: no guard reads them. LangGraph is not part of the repository
(it is imported from PyPI); the model takes from it that a node runs to its end, that its
update is merged by the reducers, that the routing function then sees the merged state,
and that a run which needs more nodes than its recursion limit raises
`GraphRecursionError` (`config.limit` counts the nodes that may run; it is a parameter of
`run_task`, so a run may have any of `RecursionLimits`).

A tool call from a node is a probe followed by a call; `CallTools(b, n)` gives every budget
that n calls in a row can leave. The wall clock is a choice at every check until one finds
that the time has passed: from then on every check fails, as `exhausted_reason = "time"`
records. Agents, planner, reviewer and diagnostician answer anything their parsers let
through, failures included.

### AgentPool and the code

One agent is a thread running `SpecializedAgent.run`, and its position in the code is
`stage[s]`:

```
waiting -> check -> invoke -> charge -> serve -> chargeTool -> storeTool -> runTool -> (serve | check | final)
              |                  '-> final
              '-> final -> extract -> chargeFinal -> done
```

A check is one step, and so is the charge of a model call (`model_calls += 1`, one step of the
interpreter's lock); another thread may run between any two. The charge of a tool call is two:
`tool_calls += max(0, count)` calls a function between its load (`ChargeTool`, into `loaded[s]`)
and its store (`StoreTool`), so of two workers that charge at once one may store over the
other's charge. The counter is then below the calls made, and every charge that is lost lets one
more call through.
`late` is `elapsed() >= max_wall_time_seconds`, flipped by `ClockRunsOut` at any time.
`start` is the budget the node was entered with; `edited` is what the last loop of the node
(writing the edits) leaves behind.

The handler for `BudgetExceeded` around the dispatch (`workflow.py:485`) never runs:
`SpecializedAgent.run` catches every `Exception` of its loop, so it has no action.

### MessageQueue and the code

| Code | Model |
|---|---|
| where `send_dashboard_message` is, for each message | `stage[m]`: `unsent`, `busy` (status read), `read` (list read), `queued` (200), `refused` (409 or 502) |
| `existing_messages` of `queue_message_for_thread` | `seen[m]` |
| the store's item `("queue", thread_id) / pending_messages` | `queue`, `<<>>` when absent |
| the run on the thread, and its place in `check_message_queue_before_model` | `agent`: `idle`, `start`, `got`, `deleted`, `model`; `summary` for the run of a stop reaction, which `server.py` assembles without the middleware |
| `queued_messages` of the middleware | `taken` |
| the injected messages in the checkpointed state | `transcript` |
| where `_process_slack_stop_reaction` is | `stop` |

Every await is a step boundary. A store call that raises may or may not have been carried
out. `Interrupted` is what the platform does to a run when another is dispatched on the
thread (`multitask_strategy="interrupt"`), when it is cancelled, or when its worker dies and
it resumes from its last checkpoint: what the middleware had deleted and not yet returned
is then gone. `StopCancel` does not wait for the runs it cancels.

Three history variables say what the properties are about. `accepted` is the order in which
sends reported success, `cleared` what stop reactions deleted, and `causes` the things that
have happened and may cost a message: `race` (a list was replaced or deleted after it had
changed since it was read), `cap`, `error`, `crash`, `dropped` (an exception while the deleted
messages were turned into content was swallowed, and the run went on without them), `stop`; and
two that may not cost any, `interrupt` and `unread`, which form `Harmless`. A guard never reads
them.

### BackgroundTasks and the code

| Code | Model |
|---|---|
| where `background_execute` is, for the call that launches each task | `stage[t]`: `listed`, `clear`, `locked`, `spawned`, `launched`, `search`, `create`, `prune`, then `ok`, `warned` or `failed` |
| a task's directory: `state.json` and the runner's process | `task[t]`; `dead` is a runner that is gone and has not written its end |
| `.launch-lock`, `monitor.lock`, `notify.claim`, `notify.done` | `launchLock`, `monitorLock`, `claim[t]` (`none`, `fresh` or `old`: past the age at which the list script removes it), `done` |
| the thread's crons on the platform | `crons`, numbered as created |
| where `monitor_background_tasks` is, in each tick | `at[p]`, with `todo`, `current`, `owing` (`ready`, its loop and `pending`) and `doomed` |

Every command sent to the sandbox and every call of the platform is a step of its own, and
either may fail with or without its effect. The list script tidies up as part of each list
(`ListTasks`), a tool call's as well as a tick's. The causes are `late` (the runner started
although the launch was reported as failed), `error`, `crash` (a tick stopped between claim
and mark), `overlap` (a task announced by one tick is claimed again by another, whose list is
older: `_claim` does not look at `notify.done`), `partial` (a tick stopped among its deletions),
and `launchOverrun`, `monitorOverrun` and `claimOverrun` (the launch lock, the monitor's lock or a
claim went stale in its holder's hands). Of the last three, `Monitored` and `Announced` are excused
by the monitor's lock only, `ActiveBounded` by the launch lock only, `AnnouncedOnce` by the claim
only.

`NewestFirst` says in which order a search lists crons. `ensure_background_task_cron` keeps the
first one listed and deletes the rest; the monitor deletes what it has listed. `Monitored` is
proved for newest first. Listed the other way round, with four tasks, TLC finds a task whose
only cron is deleted by another call, so the protocol leans on an order the code does not ask
for.

### BabySit and the code

| Code | Model |
|---|---|
| the watch, an item of the store | `store`, one record or none: `status`, `thread`, `head`, `retries`, `keys` (dispatch keys of that head), `settled` (`pending_check_set_key` and its time), `errors`, `cron` |
| the local copy each function works on | `mine[p]` |
| where an operation is | `at[p]`; `inside` for those that hold, or held, the lock |
| the lock thread of `_watch_lock` | `lock`; `LockExpires` is its TTL |
| GitHub: head and checks | `head`, `ci` (what `_aggregate_state` comes to, or `closed`) |

The whole record is written back by every operation, which is why a copy read before another's
write matters: `outdated[p]` records that somebody wrote since `p` read, and a write from such
a copy adds `race` (a start or a stop is involved, which take no lock) or `clash` (both are
lock holders). Further causes are `overrun` (the lock expired in its holder's hands), `error`
(a dispatch raised although it had an effect), `dropped` (an evaluation broke off with its key
saved and nothing dispatched, so the agent is never told), `partial` (a start or a stop broke off:
a lost answer of `crons.create` leaks a cron) and `rewound` (a start wrote a head fetched before
a push, which resets the rerun count).

### ReviewRuns and the code

| Code | Model |
|---|---|
| the handlers of `webhooks/github.py`, from delivery to `dispatch_agent_run` | `hook[h]`, with the head and the `last_reviewed_sha` it read and the copy of the findings it reconciled |
| the reviewer run, its prompt (`re_review`, head) and the findings it adds | `run` |
| `reviewer_thread_metadata` | `meta`: `head`, `reviewed`, `check`, `pending` |
| the findings: `first_seen_sha`, `github_review_comment_id` | `seen[i]`, `known` |
| GitHub: inline comments, reviews, check runs | `posted[i]`, `reviews`, `checks` |
| `settle_review_check_run`, called by `settle_review_check_on_exit` and by `_settle_failed_reviewer_check` | `settler["run"]`, `settler["webhook"]` |

A dispatch interrupts the run under way, wherever it is; what it had done stays. A faulty
reply of GitHub may hide what is on the pull request (`blind`), and each request may fail with
or without its effect. The other causes name what the code does not guard against, and each
is an excuse of exactly the properties that need it:

* `overtaken`: `settle_review_check_run` clears `review_check_run_id` after its request
  (`review/publish.py:471`) whatever it holds by then, so the check of a newer webhook is
  forgotten and stays in progress.
* `crossed`: `github.py:742` stores a new check id beside the pending result of the check
  before, which a retry then reports for the new one; and a publication records the live head.
* `orphan`: the check of an unchanged diff, or one whose webhook fails before it is stored, is
  in nobody's metadata. `replaced`: a second delivery for the same head forgets the first's.
* `stuck`, `killed`, `torn`, `doubled`: a last attempt fails; a run ends with neither hook nor
  webhook; a settlement stops before it clears; two settle the same check.

A webhook that replaces the findings by its reconciled copy (`Sync`, `Merge`, `Replace`) may
take back comment ids recorded meanwhile; `Backfill` finds them again by the markers in the
comments, and `PostedOnce` depends on it. `replace_findings` reads and writes in two awaits under
a lock that is kept per event loop. It is one step here, because run and webhook share the loop:
`utils/event_loop.py` forces `BG_JOB_ISOLATED_LOOPS` off, and refuses to start where it cannot.

### SandboxProxy and the code

| Model | Code |
|---|---|
| `registry`, `proxy` | `SANDBOX_BACKENDS.get(thread_id)` and the `SandboxBackendProxy` objects still referenced (`Reachable`); an object nothing refers to is used again |
| `task` | the coroutines of `ensure_sandbox_for_thread` (`ensure`), `create_sandbox(sandbox_id)` (`attach`) and `recreate_sandbox_for_thread` (`recreate`); `at` is the await they stand at |
| `call` | a coroutine in `_aget_backend` or in the operation after it: the run's preparation, a tool by the handle of the agent's graph (`file`), a tool by the registry (`tool`), the dashboard's copy of an edited plan (`mirror`) |
| `bound`, `box` | `sandbox_id` in the thread's metadata; the sandboxes at the provider |
| `Begin` | `get_agent`: `_get_cached_sandbox_backend` with this run's callback, and `start()` |
| `Get`, `Lookup`, `Ready`, `NotReady` | the four parts of `_aget_backend` between its awaits |
| `Cached` to `Bound` | `ensure_sandbox_for_thread` between its awaits; `Publish` is `set_sandbox_backend` |
| `Clear` | `clear_sandbox_backend`, called for a `SandboxClientError` of a tool; after any other exception the handle stays (`UseFails`, `NotReady`) |
| `IdentityFails` | `asyncio.gather` in the preparation raises because the lookup of the user does: the run is over, and the task that waits for the sandbox goes on as an `orphan`, with the config of its run (`inline`) |
| `HasBackend` | `cached.has_backend` in `recreate_sandbox_for_thread`, of the handle taken from the registry before the metadata are read, tested after |
| `Interrupt` | `multitask_strategy="interrupt"`: coroutines of the run are cancelled, the shielded startup is not |
| `work` | history: the sandbox in which the agent's tools have worked |

`causes` is history too. `blind`: the thread's metadata could not be read, and
`get_sandbox_metadata` answers that with an empty one. `stale`: an id came from the config of a
run, which `get_sandbox_metadata` prefers, although the thread has been bound to another
sandbox since. `split`: a recreation ended while another handle or call was in use. `torn`: the
thread was bound and the handle was not. `raced`: a handle was started or replaced (neither
takes its lock) while a coroutine held the lock to look the id up, and then overwrote the task.
`returned`: a late waiter put a dropped handle back over the one that followed it. `revived`: it
put one back that had been dropped and not been followed, although the thread may have been bound
elsewhere since. On larger instances than the run's, each of `stale`, `split`, `torn`, `raced`,
`returned` and `revived` is needed for `CachedIsBound`, `raced` and `returned` for `OneStartup`, and `blind`, `split`, `torn` and
`raced` for `WorkStays`.

### Slips

Some definitions are preceded by one with a name like `RecoverOnceMore`: what a plausible
mistake would make of the definition that follows. No specification uses them. For every
property of a passing run, `PROJECT.json` names a slip with which TLC finds that property
violated, so each property is known to be sensitive to the code it is about.

## 3. Runs

| Run | Configuration | Question |
|---|---|---|
| `workflow` | `MCWorkflow.cfg` | All safety, action and liveness properties of the graph, and that it implements `ChangeControl` |
| `agent_pool` | `MCAgentPool.cfg` | All properties of the dispatch, and that it implements `ImplementationNode` |
| `message_queue` | `MCMessageQueue.cfg` | Safety of the message queue |
| `background_tasks` | `MCBackgroundTasks.cfg` | Safety of the background tasks, with two overlapping calls and two overlapping ticks |
| `background_announced` | `MCBackgroundTasksAnnounced.cfg` | That endings are announced and crons retired |
| `baby_sit` | `MCBabySit.cfg` | Safety of the watch, with two operations at a time, two threads and two heads |
| `baby_sit_attended` | `MCBabySitAttended.cfg` | That failures reach the agent and finished watches go away |
| `review_runs` | `MCReviewRuns.cfg` | Safety of publication and of the check run |
| `sandbox` | `MCSandboxProxy.cfg` | Safety of the sandbox handle |
| `review_cycles`, `message_lost`, `review_unseen` | see *Findings* | One documented claim each, which TLC refutes |

What the properties say:

* `ShippedIsVerified`, `ShippedIsGated`, `ShippedIsApproved`: the delivered version is the
  one last verified green; with the gate on, the one scanned and scored, without a blocker
  and below HIGH; with review on and two cycles, the one the reviewer approved.
* `EndsForCause`: every ending occurs exactly, or only, when it should. Its parts are
  `RedRunIsDiagnosed`, `BudgetEndIsExact` (a sticky flag, probes with a fallback, and the
  exemption of green runs), `EscalationIsLastResort` and `PullRequestNeedsCompletion` (a policy
  that reads three fields agrees with the graph).
* `Terminates`: a run whose recursion limit allows for every repair ends with an outcome.
* `ExperienceIsOutcome`: the store learns each outcome once, and nothing of a run that was cut off or is still going.
* `ChargesCovered`: model and tool calls charged *plus those allowed and not yet charged* stay
  within the ceiling, which is the limit and one call per further worker. For tool calls this is
  claimed of one or two workers and of the counter, not of the calls made, some of whose charges
  may be lost. With three workers it is false: while one holds an old count to store, the other
  two are let in again each time one of them stores an old count (TLC finds it with
  `Workers = 3`).
* `DependenciesFirst`, `NodeReturns`: dependencies come first, and the node returns with
  everything dispatched.
* `KeptInOrder`: unless one of the six costly causes has occurred, the accepted follow-ups
  are exactly the conversation, the drain in hand and the stored list, in that order. So the
  protocol is right apart from those causes, and the refuted claim `QueuedIsKept` shows that a
  race alone is enough to break it.
* `DiscardedIsGone`: what a stop reaction has discarded stays out of the list, the drain and
  the conversation. The proviso is needed: a send that read the list before the reaction
  writes it back after, and the run after the summary injects it.
* `Monitored`: a task reported as started has a cron until it is announced, whatever other
  calls prune and other ticks retire.
* `AnnouncedOnce`, `ActiveBounded`: an ending is announced once, and the cap on running tasks
  holds, or a named cause says why not.
* `Announced`, `CronsRetired`: every ending is announced in the end, crashed ticks and stale
  claims notwithstanding, and the crons of a thread with nothing left go away.
* `LockIsolates`: holders of the lock write over each other's changes only after it expired.
* `DispatchedOnce`, `RerunsBounded`: one notice per failure and rerun, and a bounded number of
  reruns per head; `race`, `clash` and `rewound` are the only ways around both.
* `CronFollowsWatch`, `OwnedByOne`: an active watch has its cron, no watch means no cron, and a
  watch is not taken over by another thread.
* `Attended`, `Retired`: a failing pull request that is watched gets its notice, and a watch
  that is over is deleted with its cron, a failed deletion included.
* `PostedOnce`, `NoEmptyRepeat`: interrupted, failed and repeated publications post each
  finding once and the empty review once.
* `QuietIsSettled`: when nothing is under way, no check on the current head is in progress.
* `SuccessIsReviewed`, `SuccessStays`: a check says success only of a head that a publication
  was made for, and no later settlement takes it back.
* `OneStartup`: at most one task of a run's kind connects or creates the thread's sandbox, so a
  thread does not provision two at a time in one process.
* `CachedIsBound`: when nothing is under way, the backend in memory is the sandbox the thread
  is bound to.
* `WorkStays`: the agent's tools do not move to another sandbox while the one with their work
  exists, unless the agent asked for a new one.

Four properties are proved for every value of the constants and no run is spent on them:
`ApprovalIsFinal` (nothing edits an approved change, and no later node takes the approval
back), `CutOffNeedsRepairs` (only turns of the repair loop use a recursion limit up),
`RefusedAgentSendsNothing` (an agent that was refused is silent) and `OncePerBatch` (no drain
holds a follow-up twice).

### Bounds, and why they are enough

| Constant | Value | Reason |
|---|---|---|
| `MaxModelCalls` | 2 (graph), 4 (pool) | one dispatch can use all of it or none; in the pool one agent can use up its iterations and its extraction (three calls) and another be refused |
| `MaxToolCalls` | 7 (graph), 1 (pool) | repository analysis may use up to five, so that the limit is met at every later probe, on the first or a later turn of the loop, or not at all |
| `MaxRecovery` | 2 (3 in `review_cycles`, the default) | both edges into recovery can each take one attempt, and `RiskScore` has its step at 2 |
| `MaxReviewCycles` | 2 | the default; `ReviewBudgetLeft` changes nothing above 2, since `rejections` stays below 2 (proved: `ReviewInv`) |
| `RecursionLimits` | 14, 18 = 12 + 3 * 2 | two nodes over the shortest complete run; exactly the longest run |
| `MaxMajors` | 1 | findings and their absence; with `Weights` it reaches both sides of both thresholds |
| `RepoProbes` | 3 or 5 | none or one ranked file probed |
| `Weights` | 0, 12, 30 | nothing sensitive, a build script, a workflow file: each threshold of the score has values on both sides |
| `Subtasks`, `Plans` | three; fan-in and chain | a layer of two, a layer of one, a dependency on both, a dependency of a dependency |
| `Workers` | 2 | the race between two checks |
| `MaxIterations`, `MaxRetries`, `MaxRequested` | 2, 1, 2 | a second round; a retried and an abandoned tool; a response whose second call is dropped |
| `Messages` | three; two in `message_lost` | two sends overlap with each other and with a drain while a third message is already stored |
| `MaxQueued` | 2 (100 in the code) | below the number of messages, so that the cap drops one |

| `Tasks`, `Monitors`, `MaxActive` | two, two (one in `background_announced`), 1 | two launches overlap and the second is refused; two ticks overlap on the same claims and the same crons |
| `Procs`, `Threads`, `MaxHeads` | two, two, 2; one, one, 2 for liveness | an evaluation overlaps a webhook, a start, a stop or a rerun, of the same or another agent, across a push |
| `MaxRetries`, `MaxErrors` | 1, and 1 or 2 (3 and 3 in the code) | the limit is met at once, and a call past it is tried |
| `Reported` | failure; everything in `baby_sit_attended` | the safety properties are about failures; the endings need each verdict |
| `Hooks`, `MaxEvents`, `MaxHeads` | two, 2, 2; one issue | two deliveries overlap with each other and with the run of the first, across a push |
| `MaxFaults` | 1; 2 in `review_runs` and `sandbox` | a crash or a lost answer at every step; in a review, one at the first settlement and one at its retry; in a sandbox, a crash and an unreadable id after it |
| `Calls`, `MaxRuns`, `MaxUses` | two, 2, 2 | a waiter, and another coroutine that replaces or drops what it waits for, across an interruption |
| `MaxProxies`, `MaxTasks`, `MaxBoxes` | 3 | the run's handle, the one that replaced it and one of a waiter; a startup, a recreation and a lookup's task; a sandbox and two that follow |
| `MaxCalls` | 2 | a start and a stop, or two starts |

Distinct states: `MCWorkflow.cfg` 307,042, `MCAgentPool.cfg` 128,225, `MCMessageQueue.cfg`
710,006, `MCBackgroundTasks.cfg` 433,330, `MCBackgroundTasksAnnounced.cfg` 53,599,
`MCBabySit.cfg` 1.2 million, `MCBabySitAttended.cfg` 234,276, `MCReviewRuns.cfg` 5.7 million
and `MCSandboxProxy.cfg` 3.6 million. Messages, tasks, ticks, operations, threads, webhooks and calls are interchangeable in the
safety runs (symmetry); the liveness runs use none. The one state constraint is `NotRaced` in
`MCBabySit.cfg`: behaviours are not followed past a write that raced with a start or a stop, or
that lock holders made from an old copy, after which the properties of that run claim nothing
more. The same configuration with two faults, with three calls, and with two reruns per head
passes too (8 to 10 million states). Looking for an inductive
invariant of `CachedIsBound` turned up a case beyond those bounds: a coroutine that has waited for
a lookup is held up while its handle is dropped, the thread is bound to another sandbox and the
next handle is dropped too, and then puts its own back into the empty registry (`revived`). With
two uses per behaviour the configuration does not reach it; the theorems cover any number.
`transcript` is bounded although no action is: a follow-up comes back only through a send that
holds it, and each is sent once. `Done` is the stuttering of a program that has stopped, so
deadlock stays checked for `Workflow` and `AgentPool`; the runs of `BackgroundTasks`, of
`ReviewRuns`, of `SandboxProxy` and the ones of `BabySit` with bounded calls may stop at their
bounds and do not check it.

### Fairness

`Workflow` assumes `WF_vars(Step)`: a node returns, because model and tool calls have
timeouts and its loops are bounded, and LangGraph then runs the next one. Nothing is
assumed about what a node answers; a Verifier may be red and a reviewer may reject for
ever. `AgentPool` assumes that each agent's thread, the end of a layer and the end of the
node go on when they can (the interpreter's scheduler and the pool). The clock owes nothing.
In `BackgroundTasks` the cron goes on firing (`Fire`), a tick that has begun is carried through
or broken off, locks and claims grow old and running commands end. In `BabySit` a tick comes again and again (strong fairness, because
the lock may be taken whenever the cron fires), an operation that has begun is carried through
or broken off, the lock's TTL passes and so do the ten minutes for which a set of checks must
stay settled. Tool calls, webhooks, pushes and faults owe nothing. `MessageQueue`, `ReviewRuns`
and `SandboxProxy` have no liveness properties: a follow-up that is queued after a run's last model
call stays in the list until somebody starts another run (`thread_api.py:1869`), and whether a
review is published is up to the reviewer; that a startup ends is up to the provider.

## 4. Proofs

All theorems hold for every value of the constants that satisfies the assumptions of their
modules: `BudgetAssumption`, `WorkflowAssumption`, `PoolAssumption`, `QueueAssumption`, the four
of `BackgroundTasks`, the two of `BabySit`, and `BoundsAssumption` of `ReviewRuns` and of
`SandboxProxy` (naturals, at least one worker, finite sets of subtasks and tasks, acyclic plans).
TLC evaluates the assumptions on its instances. A proof about a bounded model is for every bound:
the number of calls, faults, runs or sandboxes is whatever the constants say.

The four long proofs about the hosting agent (`BackgroundTasksProofs` and the three after it) are
built alike. For each action there is a lemma that says in a few named facts what the step does to
the state (who moved, what was written, what became of the copies of others), and the lemmas about
invariants use those instead of the action. `WellFormed` is the type invariant with what a
component's records owe to each other; the invariants after it assume it.

### WorkflowProofs

`TypeCorrect` comes first. The endings are not inductive by themselves: `ShippedIsVerified`
speaks of `finalization`, whose correctness depends on what held when the run was routed
there. The inductive invariant is the conjunction of

* `GraphInv`: for each node, what it may rely on when it is about to run (which results
  are of the current version, that a run before `failure_analysis` is red, that a run at
  `security_analysis` is green, how many attempts are left at `recovery`);
* `EndInv`: for a run that has ended, the properties of endings.

`EndsAsPromised` proves both; `DeliveryIsSound`, `DeliveryIsGated`, `EndingsAreJustified`, `RecoveryIsBounded`,
`BudgetIsRespected` and `ExperienceIsRecordedOnce` are read off. The length of a run
needs a measure: `InPace` bounds `steps` at each node by its place in the graph plus three
times the attempts, from which `CutOffsComeFromRepairs` (any limit) and `NoRunIsCutOff`
(limits from `12 + 3 * MaxRecovery`) follow. `DeliveryIsApproved` and `ApprovalEndsTheLoop`
use `ReviewInv`, which says that `rejections` never exceeds 1, so that with
`MaxReviewCycles >= 2` no green change skips the review. That hypothesis is necessary: with
a bound of 1, `_review_budget_left` (`workflow.py:968`) is false after the first rejection and
a repaired change goes to the security gate without a second review.

### WorkflowRefinement

`WorkflowImplementsChangeControl`: under the mapping at the end of `Workflow`, every node is
a `Draft`, `Check`, `Repair`, `Deliver`, `HandOver` or a stutter, with the invariants above.

### AgentPoolProofs

* `PoolTypes`; `CallsAreCovered` for any number of workers: the number of agents in flight is
  at most `Width`, and an agent enters only while the counter is below the limit. The
  invariant (`CoverInv`) counts the agents that are past a check, for which the lemmas on
  cardinality are stated once. For tool calls (`ToolCallsCovered`), with one worker or two, it
  also needs `LoadsCovered`: the count that an agent is about to add to is below the limit, or it
  is the limit, the counter stands at it too and no other agent is past a tool check.
* `DependenciesComeFirst` from `LayersInv`: a dispatched subtask has returned, and only the
  current layer is active.
* `PoolImplementsNode`: from `ReasonIsGiven` and `CallsAreAllowed`, which record why a limit
  may be named and why a call could be made, in terms of the budget at entry.
* `RefusedAgentsStop` from `RefusalInv`: once refused, an agent is at its final check and
  every model check still fails, since counters only grow and time does not return.
* `RequestsAreBounded` from the requests an agent may have sent at each stage.

### MessageQueueProofs

For any set of messages and any positive cap. `QueueTypes` is the type invariant.
`QueueIsKeptInOrder` needs no strengthening beyond it: a step that leaves the list, the drain
or the conversation out of line adds a costly cause. `BatchesHaveNoRepeats` needs `ListsInv`:
the *read* copies of the list are free of repeats too, and no list at all holds a message
that has not been put yet. Without the second half a send could write back a list that
already has its message. `DiscardsAreFinal` needs `ApartInv` on top of it: without a race or a
fault, a follow-up is in one place at a time.

### BackgroundTasksProofs

For any finite set of tasks, any ticks and any bounds.

* `TaskTypes` is the type invariant.
* `AnnouncementsAreSingle` from `OnceInv`: a task in a tick's hands has a fresh claim, is in no
  other tick's hands and, before the dispatch, has not been sent; a task that was sent is done
  or in the hands of the tick that is about to mark it.
* `ActiveIsBounded` from `CountInv`: one launch at most is past the launch lock, and the task it
  is about to start counts already.
* `StartedIsMonitored` assumes `NewestFirst`. `WatchInv` says that one tick at most is past the
  monitor's lock; that a tick deletes crons only when every call past the wait for that lock has
  its task done; that the crons a tick is about to delete are older than those it leaves; and
  that among the crons a call is about to prune one stays or a newer one exists (`Outlived`).

### BabySitProofs

For any operations, threads, heads and bounds. `WatchTypes` follows from `WellFormed`, which adds
`Placed`: there is one watch at most, no record is of a head that is still to come, and each
operation has the copy, the lock and the notes that its stage calls for (`Seat`).

* `LockIsolatesAlways` from `Locked`: until a lock times out in its holder's hands there is one
  holder, the lock is held, and no other holder has written since this one read.
* `WatchKeepsItsOwner` from `Owned`: the store and the copies of holders behind whose back
  nothing was started or stopped are of one thread.
* The other three need `Agreed` first: how a copy that nobody has outdated differs from the stored
  watch at each stage, which is by what the operation is about to write and nothing else
  (`Made`, `Fits`, `Current`). It gives the argument that all three rest on: a write that adds
  neither `race` nor `clash` is made from an up-to-date copy, and so is a small change of the watch
  as it stands.
* `RerunsAreBounded` from `Counted`: the record counts at least the reruns of its head, and a
  later head has none. A start that turns the watch back to an earlier head (`rewound`) is the
  only up-to-date write that breaks it.
* `FailuresAreDispatchedOnce` from `AtMostOnce`: for each failure, whoever has recorded its key and
  not dispatched yet holds the only `Ticket`; one that was dispatched is in the record for good
  (`Guarded`); and none is out for a key that is being taken back.
* `CronsFollowTheWatch` from `CronKept`. Starts and stops take no lock, so several may be halfway
  at a time. The first of them that writes outdates the others, which can then only break off or
  cause a race (`Ordered`); as long as none is outdated, there is one start at most, and it knows
  which crons there are (`CronKnown`).

### ReviewRunsProofs

For any webhooks, findings, events and bounds. `ReviewTypes` follows from `WellFormed`, which adds
`Linked`: ids are those of check runs that exist, heads are heads of the pull request, and the run
is at its settlement exactly when its settler is busy.

* `PostedOnceAlways` and `NoEmptyRepeats` from `PostsOnce`: what the run takes to the posting
  has no comment yet, and still has none when it posts, because nobody else posts and a run that
  is interrupted takes its intentions with it.
* `QuietsSettled` from `Fresh` and `Cared`. A check that a webhook has created and not stored is
  known to it alone. Every open check is in such hands, tracked by the thread, or of an older head
  (`EachKnown`); the tracked one has somebody who is yet to settle it (`Awaited`); and who could
  not complete it will try again (`Retried`).
* `SuccessesReviewed` from `Reviewed`: whoever is to report a success, or finds one pending,
  reports it of a head in `published`, because the check that is tracked is of the head that the run
  publishes for (`Aimed`).
* `SuccessesStay` from `Stays`: one settlement acts at a time; one that brings a "neutral" is alone
  and has no success before it; and a success that is still tracked is one that the thread's
  metadata remember.

### SandboxProxyProofs

For any coroutines, handles, tasks and sandboxes. `ProxyTypes` follows from `WellFormed`: a
coroutine and a task have what their stage needs (`Seated`, `Stocked`), and a run that is being
prepared has nothing else of its own under way (`Phased`). `Held` says who refers to what: a task is one
handle's, and a recreation is waited for by the call that began it.

* `StartupsAreSingle` from `Arranged`. What makes a startup single is not the handle's lock but that
  the registry's handle is the only one that lacks a backend and may start one (`BackedProxy`),
  and that a run that is at work has no startup under way (`SoleTask`): recreations belong to such
  runs, so none overlaps a startup. The proof needs what the preparation of a run waits for
  (`PreparingCall`), through interruptions after which the next run finds the same startup, ended
  or not, in the same handle.
* `CachedIsBoundAlways` from `Agreed`, which holds as long as no cause but an unreadable id is
  named: what a task knows is what the thread is bound to, what it is about to publish the thread is
  bound to, and the registry's handle differs only while somebody is about to publish. The
  exceptions are for recreations, of which several may overlap; the last of them publishes what the
  thread is bound to, or the others' end is a `split`.
* `WorkStaysPut` from `Existing` (everything referred to was created, so that what is created next
  is nobody's) and `Settled`: a startup makes another sandbox only once the one the thread is bound
  to is gone (`ReplacingTask`), and the handles of a working run lead to that one or to nothing.

### Only model-checked

Every invariant and action property of the passing runs is stated by a theorem. `Monitored` is
proved under `NewestFirst`, and `ShippedIsApproved` for two review cycles or more. Liveness under
fairness is out of the prover's reach: `Terminates`, `NodeReturns`, `Announced`, `CronsRetired`,
`Attended` and `Retired` stay with TLC. That each slip breaks its property is TLC's alone, and so
are the refuted claims of section 5.

## 5. Findings

| Run | Property | What the code does |
|---|---|---|
| `review_cycles` | `ReviewCyclesBounded` | `max` in `_merge_metrics` keeps the rejection counter at 1, so `max_review_cycles = 2` never stops anything |
| `message_lost` | `QueuedIsKept` | of two overlapping sends that both report success, one loses its message |
| `review_unseen` | `ReviewedIsVisible` | a first review that a push interrupts becomes a re-review: its findings are never posted and the check says success |

The quotations are in `PROJECT.json`. None of them contradicts a property of the passing
runs, which state what the code does keep.

Behaviour of the same kind that the models have and no run is spent on: a rejected review
starts a repair although the budget is exhausted (`workflow.py:954`); with two workers a budget's
counter ends above its limit, within the ceiling of `ChargesCovered`, and tool calls are made
that it does not count (`budget.py:175`); an agent whose tool phase
is refused fails in its final extraction instead of answering (`tool_loop.py:220`); a send that
overlaps a drain puts drained follow-ups back (`check_message_queue.py:251`); a recursion limit
below `12 + 3 * max_recovery` cuts repairing runs off without an outcome (`runner.py:169`;
`CutOffNeedsRepairs` says that nothing else is); two overlapping ticks announce a task twice, since `_claim` does not
look at `notify.done` (`background_tasks.py:95`); an evaluation or a webhook that read a watch
before it was stopped writes its copy back, active again (`baby_sit.py:120`).

In `SandboxProxy`: a deleted sandbox whose backend is still in the process's memory is found out
by the token refresh, which reports every failure as unreachable (`server.py:448`), so that run
after run on that process fails where `server.py:533` promises a replacement; an unreadable
thread counts as one without a sandbox (`sandbox_state.py:387`) and is given a new one; after a
sandbox error the agent's own handle keeps the backend that the registry has dropped, and a
recreation then replaces only the registry's (`tool_error_handler.py:166`); a late error of one
tool cancels the startup that another one waits for; a startup that has failed and that nobody
has waited for yet is what the next run waits for (`start` replaces cancelled ones only).

## 6. What is left out of the modelled components

* Tokens and cost: no caller passes either to the budget; `check_tokens`, `check_recovery`
  and `sync_from_ledger` are called by tests only.
* The planner, the reviewer and the diagnostician neither check nor charge their model calls,
  so a repair costs no model call in the model either.
* Prompts, parsing of model output, wording, traces and metrics that no route reads.
* `_record_experience` swallows a failing write; the model records what it is given.
* Exceptions of `gather_context` and `router.select`, which lie outside the `try` of
  `agent.run` and would end the graph; both catch what they read.
* The security scanner's and the error classifier's patterns.
* The pending autofix event, which the middleware reads and the stop reaction deletes and
  nothing in the repository writes; `plan_approval_blocked`, which the middleware sets and
  nothing reads; the contents of a follow-up and the messages built from it.
* Background tasks: a thread without a sandbox id, the seven days after which the files of a
  task are removed, output and its truncation.
* Baby-sit: delivery ids and alert keys (they suppress repeats of one webhook and of one
  notice), notices on Slack and GitHub, the installation id and the branch's name.
* Reviews: the watch that `process_github_pr_close` toggles, statuses and resolution of
  findings, the retry without anchors after a 422, severity threshold and cap, the status
  comment, usage, the reply on Slack, more review threads than one page, and the dry run of
  evaluations. A run's own locked read-modify-write of findings is one step. A failing read of
  the metadata in a "ready" delivery behaves as an "opened" one.
* Sandboxes: more than one process (each has its registry, and nothing keeps a startup that
  outlives its run from overlapping a run on another process), desktop runs, reviewers and
  analyzers (they call `ensure_sandbox_for_thread` from their own preparation), the token's
  expiry, and files.

## 7. What is not modelled

Static analysis, the router's tables, the failure classifier and the verifier's parser are
pure functions over text. The user interface and the parsing and authorisation of webhooks are
I/O. `server.py` assembles the agent from an external library; its middleware rewrites message
lists. The dashboard is reads and writes of single items of the store, apart from the message
queue. The remaining coordination protocols are planned next.

## 8. Plan

In order of what is most likely to go wrong and least likely to be tested:

1. `RunCompletion`: failure replies and posted run ids under duplicate deliveries
   (`completion.py:316`), and the sweep over pages that shrink while it cancels
   (`reconcile.py:111`).
2. `SandboxProxy` with several processes, and with the reviewer's preparation.
3. `SlackClaims`: local cache and claim threads with a TTL, failing open.
4. `ModelExecution` and `MCPPolicy`: retries, fallbacks and caps as bounded loops over the
   budget; then schedules and plan approval.
5. An abstract specification of an announcement (claimed, sent, marked) that `BackgroundTasks`
   and `BabySit` both refine.
6. Proofs: the digests of actions that the proofs share, and the abstract announcement of item 5
   as a refinement of both modules.

# A TLA+ verification of Operant's coordination protocols

Operant is a local harness for AI agents: a Python Core (`src/src/operant`)
keeps Sessions, Workflows, Graphs, Schedules, remote targets and memories in one
SQLite database, talks to model providers, runs tools, and serves a GUI, a TUI
and SDKs over REST. Several Core processes may share the database, and any of
them may stall, die and be started again. What makes the program correct is
therefore less in its algorithms than in its *protocols*: leases with fencing,
receipts for actions that may have had an effect, approvals, claims,
compare-and-set on revisions, and recovery after a restart. This project models
those protocols, checks them with TLC and proves the main properties with TLAPS.

Paths of code are relative to `src/src/operant/`; `doc` is
`src/docs/PROJECT_ARCHITECTURE.md`.

## 1. Inventory

Every part is listed in `PROJECT.json` under `components`, with its sources. The
parts with a protocol of their own:

| Part | State | Operations | Interacts with | What is hard | What makes it correct |
|---|---|---|---|---|---|
| Session run (`application/service.py`, `runtime/loop.py`, `persistence/sqlite.py` 13278-14380) | `session_run_leases`, `tool_action_receipts`, `approval_requests` + decisions; in memory the admitted lease, the call in hand, approval futures | admit, renew, cancel, release; reserve, complete, fail a tool action; request, review, decide, expire an approval; initialize | every client; providers; tools; the approval reviewer | a stalled process outlives its lease; crash between effect and receipt; a tool_call_id that comes back; decision, expiry and execution race | one process in a side effect; at most once; only after approval; receipts tell the truth; a run ends |
| Scheduler queue (`persistence/scheduler.py`, `runtime/scheduler.py`, `runtime/scheduler_integration.py`) | authority rows, `run_requests`, `job_leases`, `job_attempts`, `scheduler_graph_dispatches` | acquire/renew/release authority; claim, start, dispatch, bind, settle, fail, recover, take over; cancel, replay | GraphRuntime and executor; users; triggers | two Cores compete; a crash anywhere between two of the transactions of a dispatch; retry of what was done; expiry against a late answer | one Writer; no lost claim; no second dispatch of a non-idempotent job; outcome of the graph = outcome of the request |
| Scheduler triggers (`application/scheduler.py`, `runtime/scheduler_watch.py`) | schedule heads and versions, cursor, watch baselines, keys of requests; leader and writer lease | materialize due occurrences, hooks, watches, manual triggers | the queue | missed time, a clock that was read long ago, version and leader changes between a read and its transaction, slow probes | what the cursor passes is requested or left out by the policy; a baseline never goes back; one Core has both leases |
| Multi-writer (`persistence/multiwriter.py`, `application/multiwriter.py`, `multiwriter/git.py`) | `writer_leases`, artifacts, conflicts, `merge_runs`; the target worktree and its lock | acquire/renew/release; publish; detect and resolve conflicts; create, finalize, heartbeat, complete, recover, reconcile | graph runs, Git, people | checks outside the claim's transaction; owner in the adapter after its lease; Git fails half way | target moves once; result recorded truthfully and never overwritten; conflicts decided |
| Graph runtime and executor (`application/graph.py`, `graph_execution.py`) | graph, node and attempt rows, outputs, iterations; in memory the executor loop and a task per node | create, start, schedule, complete, fail, wait, decide, iterate a loop, cancel, interrupt, resume, recover | Scheduler, API, Session runs, merge runs | a method is several transactions and the Core dies between any two; parallel nodes meet in joins; cancel, deadline and late results; skips that are decisions and skips that are failures | an effect once in an occurrence; nothing of unknown outcome behind a final status; results stay; a driven run ends |
| Team (`application/team.py`, `persistence/graph_team.py`) | roster, mailbox, task and artifact boards | send, deliver, acknowledge, claim, complete | graph nodes | duplicate and late acknowledgement, two claims | one claimant; a message is delivered and acknowledged once |
| Workflow runs (`application/workflow.py`) | `workflow_runs`, execution leases | start, advance a stage, interrupt, recover | Session runs | update without revision | one executor; stages in order |
| Remote execution (`persistence/remote_execution.py`, `application/remote_execution.py`, `remote/`) | on the Core: target leases, jobs, results; on the target: a ledger of its own | acquire, renew, release a lease; create, poll, complete, cancel a job; post, verify, enter, run, settle | dispatch processes, the service on the other host, clients | two databases and no transaction across them; lost, late and repeated requests; deaths on either side; the next lease | a command acts at most once; the Core's record is true of it |
| Remote control, pairing (`persistence/remote_control.py`, `caller_pairing/`) | devices, grants, cursors | pair, grant, revoke, replay | remote clients | revoke against use; replay | nothing accepted after revocation |
| Security and phase 4/5 gateway (`application/security.py`, `application/phase45_gateway.py`, `persistence/phase45.py`) | capability leases, audit, MCP servers, action receipts | issue, use, revoke; reserve, approve, settle | tools, MCP | one-shot capabilities, crash in an action | used once; audited |
| Command receipts (`api.py`, `persistence/sqlite.py` 13897-14059) | `command_executions` | begin, finish, replay | clients | retry against the first execution | at most once per key |
| Artifacts and retention; context revisions; memory ledger; plug-in host; OAuth; resource budgets | tables and files | see `PROJECT.json` | | file against row, compare-and-set, time-outs of a child process | see the plan |

Providers, tools, clients, SDKs, migrations, skills and configuration are I/O,
wire formats, generated code or forms; they have no protocol to check and are
listed as not modelled.

The hazards of the parts, each at its line with the properties that cover it,
are in `PROJECT.json` under `hazards`.

## 2. What is modelled

A database transaction (`BEGIN IMMEDIATE`) is one step, and everything else may
happen between two transactions of a coroutine. Timestamps are timers that run
down to 0 under `Tick`, so `expires_at <= now` is a timer at 0; only
`SchedulerTrigger`, where a cycle works with an old reading of the clock, has an
absolute one. A process that is started again is either the same process with
empty memory (`SessionRun`) or another member of the set of incarnations
(`SchedulerQueue`, `MergeRun`, where owner ids are fresh); in `SchedulerTrigger`
it is the same Core without the token in its memory, in `GraphRun` the next Core,
of which there is one at a time, and in `RemoteExecution` a dispatcher or a
service with nothing but the database behind it. Random tokens are compared
for equality only and are represented by who has them in memory. Definitions
carry the code's names; `PROJECT.json` maps each to its lines.

### SessionRun

One Session (rows of other Sessions are never touched) and the Core processes
that may run an Agent in it. `lease`, `receipt[r][c]` and `approval[r][c]` are
the rows; `pc`, `mine`, `cur` and `fut` are what a process keeps: where
`run_session` and `AgentLoop.run` are, the generation of its lease, the call in
hand, the approval future. `effects` counts how often the tool really ran and
`outcome` keeps the last answer to an admission; both are history variables.

Admission is four actions, one per outcome of `acquire_session_run_lease`
(pending approval, busy, uncertain receipt, granted); then `BindAgent`,
`Reserve`, the approval (`RequestApproval`, `BeginWait`, then the review in its
four transactions, `ReviewLatest`, `ReviewReceipt`, `ReviewDecide` and `Reread`, or
`UserDecide`), the two verifications, `Effect`, the settlement, and `Stop` and
`EndRun`. `Decidable` and `DecideApproval` look for a request by its tool_call_id
alone, as `decide_approval` does, so that a verdict may meet the request of another
run. `Renew` is the heartbeat, `CancelSession` a client in any process,
`Crash` and `Restart` (`initialize`) the failures. A provider's answer, the
reviewer's verdict and the tool's success are free choices.

### SchedulerQueue

Core incarnations (`Worker`) that compete for the `runtime_writer` authority;
the rows of the queue; the registry and the status of the GraphRun of each
request; the local state of `run_one`. One action per transaction of
`_ensure_leases`, `renew_dispatched_jobs`, `_reconcile_one`, `claim_due`,
`dispatch_workflow` and the settlement, one per user operation (enqueue, cancel,
replay, schedule status, new version), and the graph, crashes, shutdown and time
around them. Each new version has its own `concurrency_limit`, which its requests
keep (`req[r].limit`); the other numbers of a version (attempts, delays) are the
same for all, since nothing compares those of two requests. A refused `reserve` of
the registry (`ReserveRefused`) leaves the job lease to its expiry, every other
exception of the gateway fails the job (`GatewayRaises`). The GraphRun is abstracted
to its status: any process with an executor task for it may let it wait, go on or
end.

### SchedulerTrigger

The other half of the coordinator's cycle. `head`, `def`, `base` (watch
baselines), `rows` (the keys of requests) and `lease` (leader and writer) are
tables; `pc` and `mem` say where a Core is in `run_cycle_async` and what it has
read: the clock at the start of the cycle, then version and cursor, or version
and fingerprint, of the schedule in hand. One action per transaction:
`EnsureLeader`, `EnsureWriter`, the releases, `ReadSchedule` and
`EnqueueOccurrences`, `Probe` and `Observe`; then users, the watched file,
crashes and `Tick`. A Cron expression is the set of instants it matches;
`occurrences_between`, `_due_occurrences` and `_apply_misfire` are operators on
such sets. `since` and `missed` are history: where the current version began,
and which occurrences were passed after a gap of more than `Interval`.

The module overlaps with `SchedulerQueue` in the writer lease and in the status
of a schedule, and shares no variable with it: a request enters the queue
through `Enqueue` there, whatever trigger made it, and nothing in the queue is
read by a trigger.

### MergeRun

Writers with leases on workspaces, artifacts (published or not), conflicts, the
merge runs of one target with one frozen base, and the Cores that create and
finalize them: every check, the claim, the lock file, application, moving HEAD,
rollback, completion. `Heartbeat` renews the owner or lets the thread die;
`Start` recovers expired owners; `Reconcile` and `CleanTarget` are the person on
the host. `landed`, `judge` and `late` are history variables.

### GraphRun and GraphPromise

One GraphRun: the methods of the runtime, the executor loop that drives it and a
Core that starts, stops and dies. The methods are synchronous, so no other task
acts while one runs; but each is a sequence of transactions, and the Core may die
after any of them. `call` holds what the method in progress has still to do:
route a node (`propagate`), close attempts and nodes one by one before the status
of the run (`terminalize`), put running nodes back (`reset`), forget routed skips
(`derive`), unlock the body of a loop (`unlock`), write the last status (`end`).
`run`, `node`, `try` (latest attempt) and `iteration` are rows; `out[n]` is the
set of nodes whose edges the result of `n` enables, which is all that ports,
payloads and conditions come to; `core`, `drive` and `task` are the process, its
executor loop and the node tasks; `effects` is history. `waiting` stands for
`waiting_input` and `waiting_approval`, `manual` for
`manual_reconcile_required`. `task[n]` distinguishes an attempt that is open, one
that is marked started and has its workspace and approval still to get (`marked`,
the tools and scripts of a writer), one that may act (`cleared`) and one whose
effect has happened (`acted`), because a failure, a crash or a cancel means
something else at each: a failure before `Dispatch` has done nothing. The compiler
is the assumption `Compiled`: what it refuses (cycles without a back edge, a back
edge that does not start at a loop).

One Core at a time serves a graph, as `doc`:1182 has it ("a single Core and a
single SQLite are the only authority"); `SchedulerQueue` does let several Cores
drive a graph after a take-over, as a status only. Not modelled: child graphs,
durable timers, the numbers of budgets, loops inside loops.

`GraphPromise` is what those who start a run rely on and all they can see: one
status that is never left once final, an effect that must not be repeated at
most once in an occurrence, and final statuses that say that every such effect is
known. The refinement mapping takes `status` from the row, `entered` from
`effects` and `known` from the nodes that have succeeded.

### RemoteExecution and RemotePromise

One target, its lease, its jobs, the processes that dispatch them and the service
on the other host. `lease`, `job` and `kind` are rows of the Core, `ledger` is the
database of the target, `call[j][x]` a request to execute `j`, which may never
arrive, arrive late, or never be answered; `x` says whether the dispatcher that
claimed the job posted it or a client. A client is anybody with the credentials of
the lease: it may poll jobs and complete a running one with any final status over
the REST interface of the Core (`PollByClient`, `CompleteByClient`,
`api_phase56_target.py` 516-599), also one that a dispatcher has posted, and post
or cancel a job on the target itself (`PostByClient`, `CancelOnTarget`). `job[j].by`
says whose result the row has, as `result_idempotency_key` does in the code
(`remote-target:` or `connector-unknown:` for a dispatcher, `core-lease-invalidated:`
for the Core, a client's own choice). One action per transaction of `acquire_lease`
(two, with one clock reading: `BeginAcquire`, `Acquire`), of job creation and cancellation, of
`dispatch_available` (`Check`, `Poll`, `Complete`, `CompleteAgain` if a client was
first with the same result, `CompleteRefused`), per message
(`Post`, `Hear`, `GiveUp`) and per transaction of the service (`Verify`, which is
a transaction of the Core, then `Enter`, `Replay` or `Doubt`, `Run`, `Settle` or
`SettleDoubted`). The ledger survives every death; an earlier service is stopped
before one for the next lease is started. A job that the Core itself records as
failed has the status `void`, so that it can be told from the word of the target.
Jobs are polled in any order. Left out: registration (the target is online, and
nothing in the repository revokes one), the browsers and computers a Core drives
itself, their observations and artifacts.

`RemotePromise` is what the one row that its owner sees promises of a job: its
command acts at most once, not after a dispatcher reported on it, and not at all if
the Core recorded it as failed or cancelled without a word from the target. A job
that is unknown, or that a client completed, may have acted or act yet. The
refinement mapping is `PhaseOf`.

## 3. Runs

| Run | Module, cfg | Shows | Bounds |
|---|---|---|---|
| session_safety | MCSessionRun, SessionRun.cfg | `TypeOK`, `SideEffectExclusion`, `AtMostOnce`, `ApprovedOnly`, `ReceiptsTruthful`, `OldRunsSettled`, `OnePending`, `SettledStays` | 2 processes, 2 runs, 1 tool_call_id that both may use, an action that needs approval and one that does not |
| session_waits | MCSessionRun, SessionRunWaits.cfg | `RunEnds`, `SessionFreed` | 2 processes, 1 run with 2 tool calls that need approval |
| graph_safety | MCGraphRun, GraphRun.cfg | `TypeOK`, `CompletedTruthful`, `EffectOnce`, `UnknownHeld`, `NeverStuck`, `ResultStays`, `Promise`, `DrivenEnds` | 4 nodes in 3 shapes (a choice with a boundary, a loop, parallel nodes with `any` and `join`), 2 attempts, 2 at once, 2 iterations, 2 Cores one after the other |
| graph_doc_slots | MCGraphRun, GraphRunSlots.cfg | violation of `FailsOnlyIdle` | 4 nodes, 1 at once, 1 Core |
| queue_safety | MCSchedulerQueue, SchedulerQueue.cfg | `TypeOK`, `SingleWriter`, `ConcurrencyLimit`, `NonIdempotentOnce`, `OutcomeTruthful`, `SettledStays` | 2 Cores, 2 requests of a schedule, versions with limits 1 and 2, 2 attempts, idempotent or not, leases of 2 ticks, all schedule statuses; constraint `Bounded` |
| queue_liveness | MCSchedulerQueue, SchedulerQueueLive.cfg | `ClaimRecovered`, `DispatchSettled` | 2 Cores, 1 request, 1 attempt |
| queue_doc_cancel | MCSchedulerQueue, SchedulerQueueCancel.cfg | violation of `CancelSettles` | 2 Cores, 1 request, 2 attempts |
| trigger_safety | MCSchedulerTrigger, SchedulerTrigger.cfg | `TypeOK`, `WriterLeads`, `PassedOver`, `OnTimeFires`, `WatchForward` | 2 Cores, 1 schedule that is a Cron (`skip` or `catch_up` of one) or a watch, 2 versions and pauses, minutes of 2 ticks, 4 ticks of time, 2 changes of the file; constraint `Second` |
| remote_safety | MCRemoteExecution, RemoteExecution.cfg | `TypeOK`, `Agreed`, `Promise` | 2 dispatchers, 1 owner, 2 leases of one tick, 2 jobs that are commands, reads or wrongly declared commands; constraint `Few` |
| merge_safety | MCMergeRun, MergeRun.cfg | `TypeOK`, `LandsOnce`, `RecordedTruthfully`, `ResultStays` | 2 Cores, 2 merge runs, 1 workspace with 2 writers and 2 acquisitions |
| merge_conflicts | MCMergeRun, MergeRunConflicts.cfg | `ConflictsDecided`, `OwnerSettles` | 2 Cores, 1 merge run, conflicting artifacts, review required |
| merge_doc_recovery | MCMergeRun, MergeRunRecover.cfg | violation of `ExpiredRecovered` | the same, without review |

The processes of a run are interchangeable, and so are the merge runs and the
writers of merge_safety: safety runs use symmetry, liveness runs do not.

**Bounds.** Two processes suffice for every race here: each protocol is about a
process that lost something against the one that has it now. Two runs of a
Session give an old one and a new one. A lease of one tick can be renewed,
expire and be taken anew at any moment; the queue's leases have two ticks in the
safety run, so that a job lease can be shorter than its authority and a claim
can happen late in it. Named bounds: `MaxRuns` (runs of a Session), `MaxFence`
(the fencing of a taken-over job lease wraps round; more values than a stale
worker can still have in memory in these runs), `MaxFencing` (acquisitions of a
workspace lease), `Moves` (what users do to schedules), `Idempotency` (of new
requests; with a single attempt, as in the liveness run, both kinds take the same
steps up to the name of the settled status), `Spared` (the last Core is neither
stopped nor killed, since nothing can be said about a dead system), `MaxStarts`
(Cores of a graph; two give a crash and a recovery that may crash in turn),
`MaxLeases` (leases of a target; two give an old and a new one). `MaxTime`,
`MaxVersion` and `MaxChange` bound the clock, the versions and the changes of a
watched file in the trigger run: two occurrences come due, so that one can be
passed over in favour of the other, and a second version can be put between a
read and its transaction; two changes let a slow probe come back with the older
one. The leases last one tick there, so that every reading of the clock can be
too old.

Three runs look at part of the states, by a constraint:

- `Bounded` (queue_safety): with one request, everything, except that during its
  second attempt graphs do not wait for input and no Core is shut down in order.
  A second request, changes of the schedule's status and a limit of 2 only while a
  single Core takes part and stays up or dies, with idempotent requests, at most one
  of them cancelled, first attempts and graphs that neither wait nor are
  interrupted: the limit is about the rows of two requests,
  whoever writes them, since every claim, take-over and recovery is one transaction.
- `Second` (trigger_safety): a second version only of a `catch_up` Cron schedule
  that is not paused, a pause only of the first version of one, one version of a
  watch. `skip` is about the minute of a cycle and a watch about the order of
  probes; versions and pauses change the cursor, which `catch_up` depends on.
- `Few` (remote_safety): a second job comes after the first one, and only while
  both are commands declared as they should be, on the first lease, with nobody
  acquiring the lease and without requests or results of clients; and a client that
  completes the first job does not say `cancelled`, which to everything but a
  dispatcher with that very result is like `failed`. Otherwise a single job meets
  everything. The theorems have no such restriction.

Deadlock is checked, except in the graph runs: a run that has ended needs no
step, and a Core that is down after its last start takes none. Elsewhere time
always passes, in SchedulerTrigger a Core can always begin a cycle, and the target
service can always be started or stopped.

**Fairness.** `SessionRun`: time passes and a live process schedules its
coroutine (weak fairness of `Tick` and `Progress`); `Stop` is part of `Progress`
because a run has a deadline of its own (`budget.timeout_seconds`). Nothing is
owed to heartbeats, users, new runs, crashes or restarts. `SchedulerQueue`: time
passes and the coordinator task of a live Core takes its next step; in addition
strong fairness for three steps *while the lease they need is alive*, because a
cycle takes about a second and a lease thirty, so that a Core that comes to such
a step again and again does so in time again and again. `MergeRun`: time passes,
every Core is started, and a call that has begun goes on while its process lives
(every Git command has a timeout). `GraphRun`: the event loop of a live Core is
fair: a method that has begun goes on, the executor loop comes round, every node
task is scheduled and ends, since nodes have time limits. Nobody has to answer,
to cancel, or to start a Core, and none has to die; so `DrivenEnds` asks of a run
that is driven that it ends, stops being driven, or waits for a person.

## 4. Findings

Three runs show the code doing something else than a document of the repository
says; `PROJECT.json` quotes the lines.

1. A cancel that is accepted while a job is leased and not bound is forgotten
   when the attempt fails or expires: the request stays in `retry_wait`, never
   cancelled and never claimed (`persistence/scheduler.py` 638).
2. Expired owners of merge runs are looked for only when a Core starts: one
   that started before the expiry never finds them, and the target stays blocked
   (`application/multiwriter.py` 94).
3. A loop that waits for its body uses up a slot of the executor, so a graph with a
   ready node may be failed as stuck (`application/graph_execution.py` 604).

Things a maintainer should know, which either no document denies or no run shows:

- *Session.* A pending approval past its expiry still refuses a new run until
  something else sweeps it (`persistence/sqlite.py` 13334), while `doc`:1096 asks
  for a pending one that has not expired.
  A review, or a click in a client, that comes late may be stored as the decision on
  a newer run's request if that has the same tool_call_id: `decide_approval`
  (`persistence/sqlite.py` 14327) has nothing else to find it by. No document says
  otherwise, and the run of session_safety includes it; the call then has an answer
  that was given for the earlier one, whose arguments may differ.
- *Scheduler.* `claim_due` compares with the limit of the request at hand
  (`persistence/scheduler.py` 632): after a version with a lower limit was put, a
  request of the earlier version may still be leased beside one of the new version,
  so that the new limit is exceeded until the old requests are through.
  `ConcurrencyLimit` says what does hold: of the requests whose own version allows
  no more than *n*, at most *n* are leased.
- *Triggers.* A Timer under `skip` is requested only if a cycle begins at the very
  instant of `timer_at`, which hardly ever happens (`application/scheduler.py`
  411); `OnTimeFires` leaves it out. A Core that takes over a released leader lease
  with an old clock reading moves the cursor back, which only the keys of the
  requests make harmless.
- *Graph.* A crash between `advance_loop`'s save and `_unlock_loop_body`
  (`application/graph.py` 1543) lets the loop decide again about the same body. A
  restarted run that was half cancelled stays interrupted until someone resumes it,
  and is failed as stuck then; `NeverStuck` says that nothing else gets a run
  stuck, and is proved of runs without loops. `_reset_loop_occurrence` (2159) increments the iteration of every body node, so
  that of a loop inside a loop would count on from the outer one's iterations. TLC
  finds three more facts about loops, in definitions that the compiler accepts and
  that are not among those of graph_safety. (a) A loop inside the body of another
  one never decides: `_loop_cycle_nodes` (2115) follows the back edges of all loops,
  so that the inner loop waits for the outer one, and the run is failed as stuck.
  (b) `_unlock_loop_body` (2068) resets the body and the nodes it branches to, not
  those that come after: these may keep a result that the last iteration did not ask
  for. (c) It does so in one transaction per node; a crash in between leaves results
  of the earlier iteration in the body, and the recovered run takes them for new
  ones if the body branches. (a) breaks `NeverStuck`, (b) and (c) break
  `CompletedTruthful`.
- *Remote.* A client with the credentials of the lease may complete a running job
  over REST with any final status, also one that a dispatcher has posted
  (`api_phase56_target.py` 533). The target is not asked, and its command may act
  after that; the dispatcher's own result is then refused, unless it is the same.
  Such a record is only the client's word, so `Agreed` and `RemotePromise` promise
  nothing of it but the single start. A job recorded as cancelled may have run to
  its end: the flag decides at settlement. A command of an old lease may still run when the jobs of the next
  one start. `acquire_lease` reconciles and acquires in two transactions
  (`application/remote_execution.py` 235); a release in between leaves active jobs
  of the old lease, which count against the new owner until the next
  reconciliation, contrary to the comment there. The check for unknown jobs (806)
  and the poll are separate connections, so that two dispatchers on one lease may
  take a job after an unknown one. `reconcile_expired` calls every running command
  unknown, the dispatcher only one declared `non_idempotent`; the target refuses
  any other command, so that both are right.

## 5. Proofs

The theorems hold for every value of the constants that satisfies the named
assumption of the module (`ConstantsOK`, `QueueConstants`, `TriggerConstants`,
`MergeConstants`, `GraphConstants` with `Compiled`, `RemoteConstants`), so for any
number of processes, runs, requests, workspaces, nodes, jobs and for any time
limits. TLC evaluates the assumptions on every run. `QueueConstants` states that
powers of two are natural numbers because the provers do not know `^`.
`TriggerDefinitions` says of the definitions a user may put what the code makes
sure of: a Cron expression matches whole minutes (`application/scheduler.py` 151,
383), a Timer has one instant (412), and a Scheduler that is up begins a cycle at
least once a minute (`runtime/scheduler_integration.py` 480). `GraphConstants` and
`Compiled` hold because the compiler refuses anything else: an empty graph, a cycle
without a back edge, a back edge that does not start at a loop.

**SessionRunProofs** — `TypeCorrect`, `Exclusion`, `EffectAtMostOnce`,
`EffectApproved`, `ReceiptsTrue`, `OldSettled`, `PendingAlone` (`OnePending`),
`Finality` (the action property `SettledStays`). None of the properties is
inductive alone. `IInv` adds: a process has a run exactly while it is busy, no
newer than the lease (`Owned`), and never the run of another one (`Apart`); what
the rows of one call say about each other and its effect (`RowInv`); and what a
process inside a call may rely on (`CallInv`): until its tool has run its
receipt is uncertain and no denial is on record. The argument for exclusion: a
process in a side effect has an uncertain receipt, an uncertain receipt of an
older run contradicts `RowInv` as soon as a newer run has been admitted, and two
processes never share a run. `PendingAlone` and `Finality` need a second invariant,
`AskInv`: a pending approval is the one that the process of its run waits for,
unless the run is about to end. A process leaves a call only with an answer in its
future, and the answer comes after the durable decision. A decision names a
tool_call_id only, but whichever run's request it finds, none is pending for that
tool_call_id afterwards (`DecidedAll`).

**SchedulerQueueProofs** — `TypeCorrect`, `OneWriter`, `LeasesMatch`,
`AttemptsBounded`. `IInv` adds: who has a job in hand (`Hand`); the rows of a
request agree, with the fencing of attempt *n* equal to *n* and every lease
within `AuthorityTTL` (`Agree`); and `Covered`: the live job leases of a worker
inside `run_one` end no later than the authority it holds. `OneWriter` is
`Covered` for the job in hand. The hard steps are those that change the
authority: an authority is acquired only when the old one is at 0, and then no
job lease under it is alive; time keeps the order of two timers.

**SchedulerOutcomeProofs** — `OutcomesTrue` (`OutcomeTruthful`),
`EntersRegistryOnce` (`NonIdempotentOnce`), `WithinLimit` (`ConcurrencyLimit`),
`SettledFinal` (the action property `SettledStays`). The second invariant, `OInv`,
says what the memory of a worker is worth (`Relies`): a final status of a graph that
it has read is still the status, since nobody drives a final graph, so it may settle
a job long after its lease has gone. A request that is not idempotent and that
somebody has entered into the registry, or still may, is settled or runs an attempt
that is marked started (`EntersOnce`), so its lease does not lapse into another
attempt. What a step may do to the rows of one request is stated once, as a handful
of transitions (`Opened`, `Dropped`, `Lapsing`, `Claimed` and so on, in `NextMoved`),
from which the four results follow. `WithinLimit` counts, for every number *n*, the
leased requests whose own limit is at most *n* (`Within`): a claim adds a request with
limit *k* after it has found fewer than *k* leased ones of all versions, the expired
ones taken out, so that every such set with *n* no smaller than *k* has room for it
and the others do not get it; every other step leaves the sets as they are or makes
them smaller.

**SchedulerTriggerProofs** — `TypeCorrect`, `WriterIsLeader` (the property
`WriterLeads`), `NothingPassedOver` (`PassedOver`), `DueFires` (`OnTimeFires`),
`BaselineForward` (the action property `WatchForward`), under `TriggerConstants`. `IInv` adds to the types that a
transaction has a schedule in hand (`InHand`), that a lease that nobody has ends
at 0 and no lease ends later than a TTL from now (`RowsEnd`), and what a Core in
the middle of taking or giving back leases may rely on (`Local`). The hard
cases: a Core that takes the leader lease with an old clock finds no live writer
lease, because the writer's leader lease would be alive too; the writer lease it
takes next ends with the leader lease it took before, unless that has run out
and with it the new writer lease; and whoever gives back the leader lease has no
live writer lease left. The last three rest on a second invariant, `RInv`: no key is
of a version or an instant to come (`KeysSoFar`), and what a Core has read for the
schedule in hand is what its transaction will find as long as it is the leader
(`AsRead`). The step that matters is `EnqueueOccurrences`: what `fire_once` and
`catch_up` leave out is older than as many occurrences as the policy selects
(`LeftOut`; a bounded set of naturals has a greatest member because `<` is
well-founded, so no induction is needed), and `skip` does not leave out an
occurrence within a minute of the cycle (`WholeMinute`). A cursor that goes back with
an old clock reading only passes again over occurrences that have their keys.

**MergeRunProofs** — `TypeCorrect`, `TargetMovesOnce`, `OwnerTruthful`,
`NoLateResult` (an action property), `FencingsDiffer`, `MergesDecided`. `IInv`
adds: whoever is past the lock holds it and the target is at its base while
artifacts are applied (`Locked`); what a call has read is still so unless the
revision moved (`ReadStill`); a merge run is claimed once (`Claimed`, `Alone`,
`Untouched`); and what a Core in the adapter knows about HEAD (`Landing`). The
last two theorems have small invariants of their own.

**GraphRunProofs** — `TypeCorrect`, `OnceOnly` (`EffectOnce`),
`NothingForgotten` (`UnknownHeld`), `ResultsStay` (an action property) and
`KeepsPromise` (the refinement), for any set of nodes and of compiled
definitions. `IInv` adds: what a method in progress may assume of the run and of
the node it is at (`Calls`); no task outlives the executor loop, so that a
recovery is alone with the rows (`Alone`); an open attempt belongs to a running
node (`Attempts`); a node runs only while the run does or after it was given up
(`RunningHeld`); a failed or unknown node is on the mind of the method in
progress until the run says so (`Seen`); and, for a node that must not be
repeated, the rows say wherever its effect may have happened (`Effects`). The
argument for the effects: a node is put back only if its attempt is not marked
started, and a task is marked or cleared to act only after the mark is in the
database.
`KeepsPromise` shows for each transaction which step of GraphPromise it is, or
that it is hidden; the hard ones are the ends of a run (`KnownNow`: with no node
running or unknown, every effect is known).

**GraphRoutingProofs** — `RoutedAsAsked` (`CompletedTruthful`) and `NobodyStuck`
(`NeverStuck`), of every run whose definition has no loop (`Straight`); with loops
neither is true in general, as section 4 says. `RInv` adds to `IInv`: only a result
enables edges (`Silent`), so that what a node was asked for is never withdrawn; what
runs was asked for (`Led`); what the routing skipped was refused by the nodes before
it, unless a recovery has still to derive the routing again (`Declined`); a running
node has its task (`Tended`); and where a method ends nothing is left to route
(`NothingLeft`). The argument for `NobodyStuck`: nothing runs and nothing has
failed, and the first ready node would be chosen, so the nodes are pending or
settled; of the pending ones one comes after no other (`Earliest`: the one with the
most nodes behind it, since the edges have no cycle), and it could be routed.

**RemoteExecutionProofs** — `TypeCorrect`, `Agreement` (`Agreed`) and
`KeepsPromise` (the refinement), for any number of jobs, dispatchers, owners and
leases. `IInv` adds, for each job: it is posted after it was claimed, and nothing
happens on the target before (`Fresh`); at most one handler is between entry and
settlement, and none once the job is settled (`OneHandler`); a command is started
at most once and only if it is declared not to be repeated (`Started`); every
result is the one in the ledger (`Sourced`); the Core or a dispatcher closes a posted
job as not done only if it may be repeated, and a dispatcher reports what is in the
ledger (`Recorded`). And for each dispatcher: what it
knows of the job it holds (`DispInv`), which nobody else holds (`Alone`). The
argument for the refinement is in `RunFits`: when the command starts, the row of
the job can be neither reported, because no handler is left once the ledger is
settled, nor void, because what is started is declared not to be repeated; it may be
told, and then the promise says no more than that the command starts once.

**Model-checked only.** The liveness properties `RunEnds`, `SessionFreed`,
`ClaimRecovered`, `DispatchSettled`, `OwnerSettles` and `DrivenEnds`: fairness and
`ENABLED` are out of the provers' reach. `CompletedTruthful` and `NeverStuck` of
definitions with a loop: TLC checks them for a body without branches, and they do
not hold of every definition that the compiler accepts.

## 6. Plan

Done: SessionRun, SchedulerQueue, MergeRun, SchedulerTrigger, GraphRun with
GraphPromise, RemoteExecution with RemotePromise, in the order of what an error
would cost. Next, each with an MC module, runs and mutants:

1. **Composition of Scheduler and graph** — SchedulerQueue's graph replaced by
   GraphPromise, of which its rules for a status are an instance; the keys of
   SchedulerTrigger as the abstract specification of what triggers promise to the
   queue; the LIMIT of the candidates of `claim_due`.
2. **WorkflowRun** and **CommandReceipt** — an abstract *at most once* object
   (a key is free, taken, settled or unknown) that CommandReceipt, the receipts of
   SessionRun and the MCP action receipts implement.
3. **TeamMailbox**, **CapabilityLease** with the phase 4/5 gateway,
   **RemoteControl** with pairing, **ArtifactRetention**, **MemoryLedger**,
   **PluginHost**.
4. Two Cores that drive one graph, once the repository supports it.
5. Theorems: `NeverStuck` of definitions whose loops are not inside one another; the
   statuses of a graph in SchedulerQueue as steps of GraphPromise.

## 7. Not modelled, and why

Contents: messages, prompts, patches, artifacts, memories and their ranking are
data that no protocol property tells apart. Wire formats, REST routing,
authentication of a request, migrations, settings, discovery of skills: no state
that several actors change. Network and process I/O appear as free choices of
the components that call them. `PROJECT.json` gives the reason for each part.

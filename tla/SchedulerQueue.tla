---------------------------- MODULE SchedulerQueue ----------------------------
(***************************************************************************)
(* The Scheduler's job queue: persistence/scheduler.py, the worker of      *)
(* runtime/scheduler.py and the gateway and coordinator of                 *)
(* runtime/scheduler_integration.py.                                       *)
(*                                                                         *)
(* Several Core processes compete for the runtime_writer authority; the    *)
(* holder claims due RunRequests under a job lease, dispatches each as a   *)
(* GraphRun with a deterministic id, and settles the request when the      *)
(* graph has ended.  A transaction is one step; between two transactions   *)
(* of a worker everything else may happen.                                 *)
(*                                                                         *)
(* A Worker is one incarnation of a Core process: its owner string holds   *)
(* the process id, so a restart is another Worker.  The random token of    *)
(* the authority is compared for equality only; auth.holder is the worker  *)
(* whose memory holds the token of the row.  Job leases are compared by    *)
(* owner and fencing alone, which is weaker than the code, where a random  *)
(* token and the attempt number are compared as well: the number of the    *)
(* attempt is attempt_count as long as the lease exists.  Timestamps are   *)
(* timers that run down to 0, as in SessionRun.                            *)
(***************************************************************************)
EXTENDS Naturals, FiniteSets

CONSTANTS
    Worker,        \* incarnations of Core processes sharing the database
    Nobody,        \* no worker
    Request,       \* RunRequests that can ever be enqueued
    Schedule,      \* schedule ids
    ScheduleOf,    \* [Request -> Schedule]: schedule_id of a request
    Limits,        \* bound: the concurrency_limit of the versions of a schedule
    MaxAttempts,   \* max_attempts of every request
    RetryBase,     \* retry_base_seconds, in ticks
    RetryMax,      \* retry_max_seconds, in ticks
    AuthorityTTL,  \* lease_ttl_seconds of the coordinator, in ticks
    JobTTL,        \* job_ttl_seconds of the worker, in ticks
    MaxFence,      \* bound: the fencing of a job lease wraps round after it
    Moves,         \* bound: the statuses users give to schedules
    Idempotency    \* bound: the dispatch_idempotency of new requests

ASSUME QueueConstants ==
    /\ Nobody \notin Worker
    /\ ScheduleOf \in [Request -> Schedule]
    /\ Limits \subseteq Nat \ {0}
    /\ MaxAttempts \in Nat \ {0}
    /\ RetryBase \in Nat \ {0} /\ RetryMax \in Nat \ {0}
    /\ AuthorityTTL \in Nat \ {0} /\ JobTTL \in Nat \ {0}
    /\ MaxFence \in Nat /\ MaxFence > MaxAttempts
    /\ Moves \subseteq {"enabled", "paused", "cancelled"}
    /\ Idempotency \subseteq BOOLEAN
    /\ \A n \in 1..MaxAttempts : 2 ^ (n - 1) \in Nat  \* the provers do not know ^

VARIABLES
    head,      \* head[s]: status of the schedule_heads row
    req,       \* req[r]: the run_requests row; status "none": not enqueued
    job,       \* job[r]: the job_leases row; owner Nobody: no row
    attempt,   \* attempt[r][n]: the job_attempts row of attempt n
    auth,      \* the runtime_writer row of scheduler_authority_leases
    binding,   \* binding[r]: status of the scheduler_graph_dispatches row
    graph,     \* graph[r]: status of the GraphRun with the id derived from r
    driven,    \* driven[w]: runs with a task in w's graph executor
    pc,        \* pc[w]: where w is in run_cycle / run_one / dispatch_workflow
    has,       \* has[w]: w keeps a _writer_lease
    mem,       \* mem[w]: the local variables of run_one in w
    entered    \* entered[r]: how many attempts reached the registry (history)

queueVars == <<head, req, job, attempt>>
graphVars == <<binding, graph, driven, entered>>
procVars == <<pc, has, mem>>
vars == <<head, req, job, attempt, auth, binding, graph, driven, entered, pc, has, mem>>

Attempts == 1..MaxAttempts
OpenStatus == {"queued", "leased", "retry_wait"}
SettledStatus == {"succeeded", "cancelled", "dead_letter", "manual_reconcile_required"}
GraphEnd == {"completed", "failed", "cancelled", "manual_reconcile_required"}
\* queued is created as far as the Scheduler can tell; waiting_input and
\* waiting_approval are one status
GraphStatus == {"none", "created", "running", "waiting", "interrupted"} \cup GraphEnd
AttemptStatus == {"none", "running", "succeeded", "failed", "outcome_unknown"}
Fencing == 0..MaxFence
\* A JobLease in memory, with the cancel_requested of the request read with it
JobLease == [r : Request, fence : Fencing, cancel : BOOLEAN]
NoLease == [r |-> Nobody, fence |-> 0, cancel |-> FALSE]
\* todo: the jobs renew_dispatched_jobs returned that are still to be looked
\* at; cur: the job in hand; seen: the status read for it; fresh: this
\* run_one has dispatched it
Memory == [todo : SUBSET JobLease, cur : JobLease \cup {NoLease}, seen : GraphStatus,
           fresh : BOOLEAN]
Blank == [todo |-> {}, cur |-> NoLease, seen |-> "none", fresh |-> FALSE]
Label == {"idle", "ready", "reconcile", "cancelling", "settle", "claim", "claimed",
          "dropping", "starting", "marked", "reserved", "creating", "start_run",
          "completing", "binding", "failing", "failing_unknown", "aborting",
          "stopping", "closing", "dead"}

HeadStatus == {"enabled", "paused", "cancelled"}
\* idem and limit: dispatch_idempotency and concurrency_limit of the
\* schedule_version of the request; limit 0: not enqueued
RequestRow == [status : {"none"} \cup OpenStatus \cup SettledStatus, count : 0..MaxAttempts,
               cancel : BOOLEAN, bound : BOOLEAN, wait : 0..RetryMax, idem : BOOLEAN,
               limit : Limits \cup {0}]
JobRow == [owner : Worker \cup {Nobody}, fence : Fencing, ttl : 0..JobTTL]
AttemptRow == [status : AttemptStatus, started : BOOLEAN, fence : Fencing]

TypeOK ==
    /\ head \in [Schedule -> HeadStatus]
    /\ req \in [Request -> RequestRow]
    /\ job \in [Request -> JobRow]
    /\ attempt \in [Request -> [Attempts -> AttemptRow]]
    /\ auth \in [holder : Worker \cup {Nobody}, ttl : 0..AuthorityTTL]
    /\ binding \in [Request -> {"none", "pending", "completed"}]
    /\ graph \in [Request -> GraphStatus]
    /\ driven \in [Worker -> SUBSET Request]
    /\ entered \in [Request -> Nat]
    /\ pc \in [Worker -> Label]
    /\ has \in [Worker -> BOOLEAN]
    /\ mem \in [Worker -> Memory]

NoRow == [holder |-> Nobody, ttl |-> 0]
NoJob == [owner |-> Nobody, fence |-> 0, ttl |-> 0]
NoAttempt == [status |-> "none", started |-> FALSE, fence |-> 0]

Init ==
    /\ head = [s \in Schedule |-> "enabled"]
    /\ req = [r \in Request |-> [status |-> "none", count |-> 0, cancel |-> FALSE,
                                 bound |-> FALSE, wait |-> 0, idem |-> FALSE,
                                 limit |-> 0]]
    /\ job = [r \in Request |-> NoJob]
    /\ attempt = [r \in Request |-> [n \in Attempts |-> NoAttempt]]
    /\ auth = NoRow
    /\ binding = [r \in Request |-> "none"]
    /\ graph = [r \in Request |-> "none"]
    /\ driven = [w \in Worker |-> {}]
    /\ entered = [r \in Request |-> 0]
    /\ pc = [w \in Worker |-> "idle"]
    /\ has = [w \in Worker |-> FALSE]
    /\ mem = [w \in Worker |-> Blank]
-----------------------------------------------------------------------------
(***************************************************************************)
(* What the statements ask of the rows.                                    *)
(***************************************************************************)
Least(a, b) == IF a <= b THEN a ELSE b
Greatest(S) == CHOOSE n \in S : \A k \in S : k <= n

\* _assert_authority for the lease that w keeps: its token is the row's
HoldsAuthority(w) == has[w] /\ auth.holder = w /\ auth.ttl > 0

\* _assert_job_lease for the job lease j of w
HoldsJob(w, j) == job[j.r].owner = w /\ job[j.r].fence = j.fence /\ job[j.r].ttl > 0

Expired(r) == job[r].owner # Nobody /\ job[r].ttl = 0

\* Mutant of Unsafe: a started dispatch of a non-idempotent job is retried.
UnsafeNever(r) == FALSE

\* The job must not be dispatched again once its side effect may have begun.
Unsafe(r) == ~req[r].idem /\ attempt[r][req[r].count].started

\* Mutant of Backoff: one doubling too many, and no ceiling.
BackoffUncapped(n) == RetryBase * 2 ^ n

\* min(retry_max_seconds, retry_base_seconds * 2 ** (attempt_count - 1))
Backoff(n) == Least(RetryMax, RetryBase * 2 ^ (n - 1))

\* The status fail_job and _recover_expired_jobs give a request.
AfterFailure(r, unknown) ==
    IF unknown THEN "manual_reconcile_required"
    ELSE IF req[r].count >= MaxAttempts THEN "dead_letter" ELSE "retry_wait"

\* The attempts of r with the current one closed, if it was running.
Closed(r, status) ==
    [attempt[r] EXCEPT ![req[r].count].status = IF @ = "running" THEN status ELSE @]

\* Mutants of Lapsed: a bound job is given up as well; no job ever is.
LapsedAll == {r \in Request : Expired(r)}
LapsedNone == {r \in Request : FALSE}

\* The jobs _recover_expired_jobs gives up: the ones whose graph is bound
\* are left for the next Writer to take over.
Lapsed == {r \in Request : Expired(r) /\ ~req[r].bound}

RecoveredReq ==
    [r \in Request |-> IF r \in Lapsed /\ req[r].status = "leased"
                       THEN [req[r] EXCEPT !.status = AfterFailure(r, Unsafe(r)), !.wait = 0]
                       ELSE req[r]]
RecoveredAttempt ==
    [r \in Request |-> IF r \in Lapsed
                       THEN Closed(r, IF Unsafe(r) THEN "outcome_unknown" ELSE "failed")
                       ELSE attempt[r]]

RecoveredJob == [r \in Request |-> IF r \in Lapsed THEN NoJob ELSE job[r]]

\* The end of a job, with its lease: the request gets the row, the running
\* attempt the verdict (complete_job, finish_dispatched_job, fail_job and
\* cancel_claimed_job).
EndJob(r, row, verdict) ==
    /\ req' = [req EXCEPT ![r] = IF @.status = "leased" THEN row ELSE @]
    /\ attempt' = [attempt EXCEPT ![r] = Closed(r, verdict)]
    /\ job' = [job EXCEPT ![r] = NoJob]
    /\ UNCHANGED head

Goto(w, label) == pc' = [pc EXCEPT ![w] = label] /\ UNCHANGED <<has, mem>>

\* run_one is left: its local variables are gone
Leave(w, label) ==
    /\ pc' = [pc EXCEPT ![w] = label]
    /\ mem' = [mem EXCEPT ![w] = Blank]
    /\ UNCHANGED has

\* SchedulerConflictError, or what the gateway raises, leaves run_one; run()
\* catches it and releases the leases before the next cycle.
Abort(w) == Leave(w, "aborting") /\ UNCHANGED queueVars

\* run_one has returned a request: the cycle goes on, unless
\* max_dispatches_per_cycle is reached
NextDispatch(w) == \E label \in {"ready", "idle"} : Leave(w, label)
-----------------------------------------------------------------------------
(***************************************************************************)
(* The coordinator's authority (_ensure_leases, release_leases, stop).     *)
(***************************************************************************)
AcquireAuthority(w) ==
    /\ pc[w] = "idle" /\ ~has[w]
    /\ auth.ttl = 0
    /\ auth' = [holder |-> w, ttl |-> AuthorityTTL]
    /\ has' = [has EXCEPT ![w] = TRUE]
    /\ pc' = [pc EXCEPT ![w] = "ready"]
    /\ UNCHANGED <<queueVars, graphVars, mem>>

RenewAuthority(w) ==
    /\ pc[w] = "idle" /\ has[w]
    /\ IF HoldsAuthority(w)
       THEN auth' = [auth EXCEPT !.ttl = AuthorityTTL] /\ Goto(w, "ready")
       ELSE UNCHANGED auth /\ Goto(w, "aborting")
    /\ UNCHANGED <<queueVars, graphVars>>

\* DELETE ... WHERE kind, owner, token and fencing are the ones w keeps
ReleaseAuthority(w) ==
    /\ pc[w] \in {"aborting", "stopping"}
    /\ auth' = IF has[w] /\ auth.holder = w THEN NoRow ELSE auth
    /\ has' = [has EXCEPT ![w] = FALSE]
    /\ pc' = [pc EXCEPT ![w] = IF @ = "aborting" THEN "idle" ELSE "closing"]
    /\ UNCHANGED <<queueVars, graphVars, mem>>

\* Bound: a Core is stopped or dies only while another one goes on.
Spared(w) == \E v \in Worker \ {w} : pc[v] \notin {"stopping", "closing", "dead"}

\* SchedulerCoordinator.stop waits for the cycle to end
Stop(w) ==
    /\ pc[w] = "idle"
    /\ Spared(w)
    /\ Goto(w, "stopping")
    /\ UNCHANGED <<queueVars, auth, graphVars>>
-----------------------------------------------------------------------------
(***************************************************************************)
(* run_one: first the jobs that are already dispatched.                    *)
(***************************************************************************)
\* Mutant of Takeover: a bound job stays with the worker that dispatched it.
TakeoverNever(r) == FALSE

\* A bound job whose lease has expired goes to the current Writer.
Takeover(r) == Expired(r) /\ req[r].status = "leased" /\ req[r].bound

\* renew_dispatched_jobs
RenewDispatched(w) ==
    LET left == Least(JobTTL, auth.ttl)
        taken == {r \in Request : Takeover(r)}
        kept == {r \in Request : /\ req[r].status = "leased" /\ req[r].bound
                                 /\ job[r].owner = w /\ job[r].ttl > 0}
        fence(r) == IF r \in taken THEN (job[r].fence % MaxFence) + 1 ELSE job[r].fence
    IN  /\ pc[w] = "ready"
        /\ \/ /\ ~HoldsAuthority(w)
              /\ Abort(w)
           \/ /\ HoldsAuthority(w)
              /\ req' = RecoveredReq
              /\ attempt' = RecoveredAttempt
              /\ job' = [r \in Request |->
                            IF r \in taken \cup kept
                            THEN [owner |-> w, fence |-> fence(r), ttl |-> left]
                            ELSE RecoveredJob[r]]
              /\ mem' = [mem EXCEPT ![w].todo =
                            {[r |-> r, fence |-> fence(r), cancel |-> req[r].cancel] :
                                r \in taken \cup kept}]
              /\ pc' = [pc EXCEPT ![w] = "reconcile"]
              /\ UNCHANGED <<head, has>>
        /\ UNCHANGED <<auth, graphVars>>

\* _reconcile_one: read the graph status; a cancelled request's graph is to
\* be cancelled, any other one that has not ended gets an executor task.
ReconcileOne(w) ==
    \E j \in mem[w].todo :
        LET live == graph[j.r] \notin GraphEnd
        IN  /\ pc[w] = "reconcile"
            /\ mem' = [mem EXCEPT ![w].todo = @ \ {j}, ![w].cur = j, ![w].seen = graph[j.r]]
            /\ pc' = [pc EXCEPT ![w] = IF j.cancel /\ live THEN "cancelling" ELSE "settle"]
            /\ driven' = IF ~j.cancel /\ graph[j.r] \in {"created", "running", "interrupted"}
                         THEN [driven EXCEPT ![w] = @ \cup {j.r}] ELSE driven
            /\ UNCHANGED <<queueVars, auth, binding, graph, entered, has>>

\* The run ends in status g; the executor tasks that drive it end with it.
GraphEnds(r, g) ==
    /\ graph' = [graph EXCEPT ![r] = g]
    /\ driven' = [w \in Worker |-> driven[w] \ {r}]

\* cancel_workflow, BoundedGraphExecutor.cancel, and the status read after it;
\* cancel_run may meet a concurrent revision and raise
CancelWorkflow(w) ==
    LET r == mem[w].cur.r
    IN  /\ pc[w] = "cancelling"
        /\ \/ /\ Abort(w)
              /\ UNCHANGED <<graph, driven>>
           \/ /\ IF graph[r] \in GraphEnd
                 THEN UNCHANGED <<graph, driven>>
                 ELSE \E g \in {"cancelled", "manual_reconcile_required"} : GraphEnds(r, g)
              /\ mem' = [mem EXCEPT ![w].seen = graph'[r]]
              /\ pc' = [pc EXCEPT ![w] = "settle"]
              /\ UNCHANGED <<queueVars, has>>
        /\ UNCHANGED <<auth, binding, entered>>

\* Mutant of Outcome: a graph that failed is reported as a success.
OutcomeOptimistic(g) == IF g \in {"completed", "failed"} THEN "succeeded" ELSE g

\* The request's status for the graph's terminal status.
Outcome(g) ==
    CASE g = "completed" -> "succeeded"
      [] g = "failed" -> "dead_letter"
      [] OTHER -> g

Verdict(g) ==
    CASE g = "completed" -> "succeeded"
      [] g = "manual_reconcile_required" -> "outcome_unknown"
      [] OTHER -> "failed"

\* _finish_if_terminal: complete_job or finish_dispatched_job
Settle(w) ==
    LET j == mem[w].cur
        g == mem[w].seen
    IN  /\ pc[w] = "settle"
        /\ \/ /\ g \in GraphEnd /\ HoldsJob(w, j)
              /\ EndJob(j.r, [req[j.r] EXCEPT !.status = Outcome(g)], Verdict(g))
              /\ NextDispatch(w)
           \/ /\ g \in GraphEnd /\ ~HoldsJob(w, j)
              /\ Abort(w)
           \/ /\ g \notin GraphEnd
              /\ IF mem[w].fresh THEN NextDispatch(w) ELSE Goto(w, "reconcile")
              /\ UNCHANGED queueVars
        /\ UNCHANGED <<auth, graphVars>>
-----------------------------------------------------------------------------
(***************************************************************************)
(* run_one: then one job that is due.                                      *)
(***************************************************************************)
\* Mutant of Due: concurrency_limit is compared one too high.
DueOneMore(rows, r) ==
    /\ rows[r].status \in {"queued", "retry_wait"} /\ rows[r].wait = 0 /\ ~rows[r].cancel
    /\ head[ScheduleOf[r]] = "enabled"
    /\ Cardinality({q \in Request : ScheduleOf[q] = ScheduleOf[r] /\ rows[q].status = "leased"})
         <= rows[r].limit

\* The candidates of claim_due whose schedule has room, by the limit of the
\* schedule version of the request; the leased requests of every version
\* count.  The code takes the oldest candidate; any one may be it here.
Due(rows, r) ==
    /\ rows[r].status \in {"queued", "retry_wait"} /\ rows[r].wait = 0 /\ ~rows[r].cancel
    /\ head[ScheduleOf[r]] = "enabled"
    /\ Cardinality({q \in Request : ScheduleOf[q] = ScheduleOf[r] /\ rows[q].status = "leased"})
         < rows[r].limit

\* Mutant of ClaimTTL: the job may outlive the Writer's authority.
ClaimTTLUncapped == JobTTL

\* min(now + ttl_seconds, writer_lease.expires_at)
ClaimTTL == Least(JobTTL, auth.ttl)

\* claim_due
ClaimDue(w) ==
    /\ pc[w] = "claim"
    /\ \/ /\ ~HoldsAuthority(w)
          /\ Abort(w)
       \/ /\ HoldsAuthority(w)
          /\ \A r \in Request : ~Due(RecoveredReq, r)
          /\ req' = RecoveredReq
          /\ attempt' = RecoveredAttempt
          /\ job' = RecoveredJob
          /\ Leave(w, "idle")
          /\ UNCHANGED head
       \/ /\ HoldsAuthority(w)
          /\ \E r \in Request :
               LET n == req[r].count + 1
                   prior == {attempt[r][k].fence : k \in Attempts}
                   fence == Greatest(prior) + 1
               IN  /\ Due(RecoveredReq, r)
                   /\ n \in Attempts    \* always so: AttemptsLeft
                   /\ req' = [RecoveredReq EXCEPT ![r].status = "leased", ![r].count = n]
                   /\ attempt' = [RecoveredAttempt EXCEPT ![r][n] =
                                     [status |-> "running", started |-> FALSE, fence |-> fence]]
                   /\ job' = [RecoveredJob EXCEPT ![r] =
                                     [owner |-> w, fence |-> fence, ttl |-> ClaimTTL]]
                   /\ mem' = [mem EXCEPT ![w].cur = [r |-> r, fence |-> fence, cancel |-> FALSE]]
          /\ pc' = [pc EXCEPT ![w] = "claimed"]
          /\ UNCHANGED <<head, has>>
    /\ UNCHANGED <<auth, graphVars>>

\* for request, lease in jobs: no job is left, and none has ended
ReconcileDone(w) ==
    /\ pc[w] = "reconcile" /\ mem[w].todo = {}
    /\ pc' = [pc EXCEPT ![w] = "claim"]
    /\ mem' = [mem EXCEPT ![w] = Blank]
    /\ UNCHANGED <<queueVars, auth, graphVars, has>>

\* get_request, to see whether the job was cancelled meanwhile
CheckCancel(w) ==
    /\ pc[w] = "claimed"
    /\ Goto(w, IF req[mem[w].cur.r].cancel THEN "dropping" ELSE "starting")
    /\ UNCHANGED <<queueVars, auth, graphVars>>

\* cancel_claimed_job
CancelClaimed(w) ==
    LET j == mem[w].cur
    IN  /\ pc[w] = "dropping"
        /\ IF HoldsJob(w, j) /\ ~attempt[j.r][req[j.r].count].started
           THEN /\ EndJob(j.r, [req[j.r] EXCEPT !.status = "cancelled", !.cancel = TRUE], "failed")
                /\ NextDispatch(w)
           ELSE Abort(w)
        /\ UNCHANGED <<auth, graphVars>>

\* mark_side_effect_started
MarkStarted(w) ==
    LET j == mem[w].cur
    IN  /\ pc[w] = "starting"
        /\ IF HoldsJob(w, j) /\ req[j.r].status = "leased" /\ ~req[j.r].cancel
           THEN /\ attempt' = [attempt EXCEPT ![j.r][req[j.r].count].started = TRUE]
                /\ Goto(w, "marked")
                /\ UNCHANGED <<head, req, job>>
           ELSE Abort(w)
        /\ UNCHANGED <<auth, graphVars>>
-----------------------------------------------------------------------------
(***************************************************************************)
(* dispatch_workflow of GraphSchedulerActionGateway.                       *)
(***************************************************************************)
\* The definition, its input, the policy or the workspace is refused
\* (DispatchError with outcome_unknown=False), before anything is reserved.
Refused(w) ==
    /\ pc[w] = "marked"
    /\ Goto(w, "failing")
    /\ UNCHANGED <<queueVars, auth, graphVars>>

\* Any exception but a conflict of the registry: capability broker,
\* create_run, start_run or the registry (outcome_unknown=True).
GatewayRaises(w) ==
    /\ pc[w] \in {"marked", "reserved", "creating", "start_run", "completing"}
    /\ Goto(w, "failing_unknown")
    /\ UNCHANGED <<queueVars, auth, graphVars>>

\* reserve meets a row of another request or action: the
\* SchedulerConflictError leaves run_one, and the job lease to its expiry.
ReserveRefused(w) ==
    /\ pc[w] = "marked"
    /\ Abort(w)
    /\ UNCHANGED <<auth, graphVars>>

\* SQLiteGraphDispatchRegistry.reserve
Reserve(w) ==
    LET r == mem[w].cur.r
    IN  /\ pc[w] = "marked"
        /\ entered' = [entered EXCEPT ![r] = @ + 1]
        /\ binding' = [binding EXCEPT ![r] = IF @ = "none" THEN "pending" ELSE @]
        /\ Goto(w, CASE binding[r] = "none" -> "creating"
                     [] binding[r] = "pending" -> "reserved"
                     [] OTHER -> "binding")
        /\ UNCHANGED <<queueVars, auth, graph, driven>>

\* A pending binding of an earlier attempt: look for its GraphRun.
FindGraph(w) ==
    LET g == graph[mem[w].cur.r]
    IN  /\ pc[w] = "reserved"
        /\ Goto(w, CASE g = "none" -> "creating"
                     [] g \in {"created", "interrupted"} -> "start_run"
                     [] OTHER -> "completing")
        /\ UNCHANGED <<queueVars, auth, graphVars>>

\* GraphRuntime.create_run with the deterministic run id
CreateRun(w) ==
    LET r == mem[w].cur.r
    IN  /\ pc[w] = "creating"
        /\ IF graph[r] = "none"
           THEN graph' = [graph EXCEPT ![r] = "created"] /\ Goto(w, "start_run")
           ELSE UNCHANGED graph /\ Goto(w, "failing_unknown")
        /\ UNCHANGED <<queueVars, auth, binding, driven, entered>>

\* GraphRuntime.start_run
StartRun(w) ==
    LET r == mem[w].cur.r
    IN  /\ pc[w] = "start_run"
        /\ IF graph[r] \in {"created", "interrupted"}
           THEN graph' = [graph EXCEPT ![r] = "running"] /\ Goto(w, "completing")
           ELSE UNCHANGED graph /\ Goto(w, "failing_unknown")
        /\ UNCHANGED <<queueVars, auth, binding, driven, entered>>

\* SQLiteGraphDispatchRegistry.complete
CompleteBinding(w) ==
    /\ pc[w] = "completing"
    /\ binding' = [binding EXCEPT ![mem[w].cur.r] = "completed"]
    /\ Goto(w, "binding")
    /\ UNCHANGED <<queueVars, auth, graph, driven, entered>>

\* mark_workflow_dispatched; run_one goes on with _reconcile_one for this job
MarkDispatched(w) ==
    LET j == mem[w].cur
    IN  /\ pc[w] = "binding"
        /\ IF HoldsJob(w, j) /\ attempt[j.r][req[j.r].count].started
           THEN /\ req' = [req EXCEPT ![j.r].bound = TRUE]
                /\ mem' = [mem EXCEPT ![w].todo = {[j EXCEPT !.cancel = req[j.r].cancel]},
                                      ![w].fresh = TRUE]
                /\ pc' = [pc EXCEPT ![w] = "reconcile"]
                /\ UNCHANGED <<head, job, attempt, has>>
           ELSE Abort(w)
        /\ UNCHANGED <<auth, graphVars>>

\* An unknown outcome of a non-idempotent job needs manual reconciliation.
UnknownIsManual(w, r) == pc[w] = "failing_unknown" /\ ~req[r].idem

\* fail_job
FailJob(w) ==
    LET j == mem[w].cur
        manual == UnknownIsManual(w, j.r)
        status == AfterFailure(j.r, manual)
        wait == IF status = "retry_wait" THEN Backoff(req[j.r].count) ELSE 0
    IN  /\ pc[w] \in {"failing", "failing_unknown"}
        /\ IF HoldsJob(w, j)
           THEN /\ EndJob(j.r, [req[j.r] EXCEPT !.status = status, !.wait = wait],
                          IF manual THEN "outcome_unknown" ELSE "failed")
                /\ NextDispatch(w)
           ELSE Abort(w)
        /\ UNCHANGED <<auth, graphVars>>
-----------------------------------------------------------------------------
(***************************************************************************)
(* Triggers, users, the graph executor, failures and time.                 *)
(***************************************************************************)
\* A new RunRequest: an occurrence, a hook, a watch or a manual trigger; its
\* dispatch_idempotency and its limit are the ones of the version that is
\* current, and put_schedule may have given that any
Enqueue(r, idem, limit) ==
    /\ req[r].status = "none"
    /\ head[ScheduleOf[r]] # "cancelled"
    /\ req' = [req EXCEPT ![r].status = "queued", ![r].idem = idem, ![r].limit = limit]
    /\ UNCHANGED <<head, job, attempt, auth, graphVars, procVars>>

\* replay_dead_letter: the new request q repeats the dead-letter request r,
\* with its schedule_version
ReplayDeadLetter(r, q) ==
    /\ req[r].status = "dead_letter"
    /\ req[q].status = "none"
    /\ ScheduleOf[q] = ScheduleOf[r]
    /\ req' = [req EXCEPT ![q].status = "queued", ![q].idem = req[r].idem,
                          ![q].limit = req[r].limit]
    /\ UNCHANGED <<head, job, attempt, auth, graphVars, procVars>>

\* The row of a request that is to be cancelled, by the user or with its schedule.
CancelMarked(row) ==
    CASE row.status \in {"queued", "retry_wait"} -> [row EXCEPT !.status = "cancelled"]
      [] row.status = "leased" -> [row EXCEPT !.cancel = TRUE]
      [] OTHER -> row

\* request_cancel
RequestCancel(r) ==
    /\ req[r].status \in OpenStatus
    /\ req' = [req EXCEPT ![r] = CancelMarked([@ EXCEPT !.cancel = TRUE])]
    /\ UNCHANGED <<head, job, attempt, auth, graphVars, procVars>>

\* update_schedule_status
UpdateScheduleStatus(s, status) ==
    /\ head[s] # "cancelled" /\ head[s] # status
    /\ head' = [head EXCEPT ![s] = status]
    /\ req' = IF status = "cancelled"
              THEN [r \in Request |-> IF ScheduleOf[r] = s THEN CancelMarked(req[r]) ELSE req[r]]
              ELSE req
    /\ UNCHANGED <<job, attempt, auth, graphVars, procVars>>

\* put_schedule with the next version: the head takes its status, whatever
\* it was; requests of the older version stay and keep that version's limit
PutSchedule(s, status) ==
    /\ head[s] # status
    /\ head' = [head EXCEPT ![s] = status]
    /\ UNCHANGED <<req, job, attempt, auth, graphVars, procVars>>

\* A run that some process drives waits, goes on, is recovered or ends.
GraphStep(r) ==
    /\ \E w \in Worker : r \in driven[w]
    /\ graph[r] \notin GraphEnd \cup {"none"}
    /\ \/ \E g \in {"running", "waiting"} \ {graph[r]} :
            graph' = [graph EXCEPT ![r] = g] /\ UNCHANGED driven
       \/ \E g \in GraphEnd \ {"cancelled"} : GraphEnds(r, g)
    /\ UNCHANGED <<queueVars, auth, binding, entered, procVars>>

\* The user cancels the GraphRun itself.
GraphCancelled(r) ==
    /\ graph[r] \notin GraphEnd \cup {"none"}
    /\ \E g \in {"cancelled", "manual_reconcile_required"} : GraphEnds(r, g)
    /\ UNCHANGED <<queueVars, auth, binding, entered, procVars>>

\* Core shutdown: the runs it drives are interrupted, then the process is gone.
Shutdown(w) ==
    /\ pc[w] = "closing"
    /\ \/ /\ driven[w] = {}
          /\ Leave(w, "dead")
          /\ UNCHANGED <<graph, driven>>
       \/ \E r \in driven[w] :
            /\ \E g \in {"interrupted", "manual_reconcile_required"} :
                 graph' = [graph EXCEPT ![r] = g]
            /\ driven' = [driven EXCEPT ![w] = @ \ {r}]
            /\ UNCHANGED procVars
    /\ UNCHANGED <<queueVars, auth, binding, entered>>

\* The process dies.
Crash(w) ==
    /\ pc[w] # "dead"
    /\ Spared(w)
    /\ pc' = [pc EXCEPT ![w] = "dead"]
    /\ has' = [has EXCEPT ![w] = FALSE]
    /\ mem' = [mem EXCEPT ![w] = Blank]
    /\ driven' = [driven EXCEPT ![w] = {}]
    /\ UNCHANGED <<queueVars, auth, binding, graph, entered>>

Less1(t) == IF t = 0 THEN 0 ELSE t - 1

Tick ==
    /\ auth' = [auth EXCEPT !.ttl = Less1(@)]
    /\ job' = [r \in Request |-> [job[r] EXCEPT !.ttl = Less1(@)]]
    /\ req' = [r \in Request |-> [req[r] EXCEPT !.wait = Less1(@)]]
    /\ UNCHANGED <<head, attempt, graphVars, procVars>>

RunOne(w) ==
    \/ RenewDispatched(w) \/ ReconcileOne(w) \/ ReconcileDone(w) \/ CancelWorkflow(w)
    \/ Settle(w) \/ ClaimDue(w) \/ CheckCancel(w) \/ CancelClaimed(w) \/ MarkStarted(w)
    \/ Refused(w) \/ GatewayRaises(w) \/ ReserveRefused(w) \/ Reserve(w) \/ FindGraph(w)
    \/ CreateRun(w) \/ StartRun(w) \/ CompleteBinding(w) \/ MarkDispatched(w) \/ FailJob(w)

Coordinate(w) ==
    AcquireAuthority(w) \/ RenewAuthority(w) \/ ReleaseAuthority(w) \/ Shutdown(w)

Environment ==
    \/ \E r \in Request, idem \in Idempotency, limit \in Limits : Enqueue(r, idem, limit)
    \/ \E r \in Request : RequestCancel(r) \/ GraphStep(r) \/ GraphCancelled(r)
    \/ \E r, q \in Request : ReplayDeadLetter(r, q)
    \/ \E s \in Schedule, status \in Moves :
         UpdateScheduleStatus(s, status) \/ PutSchedule(s, status)
    \/ \E w \in Worker : Stop(w) \/ Crash(w)

Next == (\E w \in Worker : RunOne(w) \/ Coordinate(w)) \/ Environment \/ Tick

Spec == Init /\ [][Next]_vars

\* The coordinator task of a live Core always takes its next step, and time
\* passes.  A cycle is a second and the leases are thirty: Cores that get to
\* such a step again and again are in time again and again.
Fairness ==
    /\ WF_vars(Tick)
    /\ \A w \in Worker : WF_vars(RunOne(w) \/ Coordinate(w))
    /\ SF_vars(\E w \in Worker : RenewDispatched(w) /\ HoldsAuthority(w))
    /\ SF_vars(\E w \in Worker : ReconcileOne(w) /\ HoldsAuthority(w))
    /\ SF_vars(\E w \in Worker : Settle(w) /\ HoldsJob(w, mem[w].cur))

FairSpec == Spec /\ Fairness
-----------------------------------------------------------------------------
(***************************************************************************)
(* Properties.                                                             *)
(***************************************************************************)
\* The concurrency_limit of a version of a schedule is never exceeded by the
\* leased requests whose own version allows no more, through claims,
\* take-overs, recoveries, replays and changes of the limit (claim_due).  A
\* request of a version with a higher limit may be leased beside them.
ConcurrencyLimit ==
    \A r \in Request :
        req[r].status = "leased" =>
            Cardinality({q \in Request : /\ ScheduleOf[q] = ScheduleOf[r]
                                         /\ req[q].status = "leased"
                                         /\ req[q].limit <= req[r].limit}) <= req[r].limit

\* A request is leased exactly while its job lease row exists, and exactly
\* then its latest attempt, and no other, is running: no claim, failure,
\* recovery or take-over loses a lease or leaves an attempt open.
LeaseMatchesAttempt ==
    \A r \in Request :
        /\ req[r].status = "leased" <=> job[r].owner # Nobody
        /\ \A n \in Attempts :
             attempt[r][n].status = "running" <=> (n = req[r].count /\ req[r].status = "leased")

\* A request that can still be claimed has an attempt left, so max_attempts
\* bounds the attempts although claim_due does not compare them.
AttemptsLeft ==
    \A r \in Request : req[r].status \in {"queued", "retry_wait"} => req[r].count < MaxAttempts

\* A single Writer: a worker that has a job in hand under a lease that is
\* alive holds the runtime_writer authority, so no other worker may claim or
\* take over anything meanwhile; mark_side_effect_started, fail_job,
\* mark_workflow_dispatched and complete_job look at the job lease alone
\* (claim_due, renew_dispatched_jobs, _ensure_leases).
SingleWriter ==
    \A w \in Worker :
        (mem[w].cur # NoLease /\ HoldsJob(w, mem[w].cur)) => HoldsAuthority(w)

\* A job that is not idempotent reaches the graph registry in one attempt
\* only: an unknown outcome, a crash or an expiry is never retried
\* (_recover_expired_jobs, fail_job).
NonIdempotentOnce == \A r \in Request : ~req[r].idem => entered[r] <= 1

\* What the queue says about a dispatched request is what became of its
\* graph; only a request whose graph has completed has succeeded.
OutcomeTruthful ==
    \A r \in Request :
        /\ req[r].status = "succeeded" => req[r].bound /\ graph[r] = "completed"
        /\ req[r].bound =>
             /\ binding[r] = "completed" /\ graph[r] # "none"
             /\ req[r].status = "cancelled" => graph[r] = "cancelled"
             /\ req[r].status = "dead_letter" => graph[r] = "failed"
             /\ req[r].status \in SettledStatus \cup {"leased"}

\* A settled request is never touched again, and a bound one keeps its graph
\* and gets no further attempt, even with max_attempts = 1: its expired
\* lease is taken over instead (renew_dispatched_jobs).
SettledStays ==
    [][\A r \in Request :
        /\ req[r].status \in SettledStatus =>
             req'[r].status = req[r].status /\ attempt'[r] = attempt[r]
        /\ req[r].bound => req'[r].bound /\ req'[r].count = req[r].count]_vars

\* A claim is never lost: a leased request that is not bound to a graph is
\* bound, settled or put back, also when its worker has died.
ClaimRecovered ==
    \A r \in Request :
        (req[r].status = "leased" /\ ~req[r].bound)
            ~> (req[r].status # "leased" \/ req[r].bound)

\* A request whose bound graph has ended is settled, by the worker that
\* dispatched it or by one that takes it over.
DispatchSettled ==
    \A r \in Request :
        (req[r].bound /\ graph[r] \in GraphEnd) ~> req[r].status \in SettledStatus

\* docs/PROJECT_ARCHITECTURE.md: a cancel stops a pending or executing
\* RunRequest and propagates to its graph; a request with an accepted cancel
\* is settled in the end.
CancelSettles ==
    \A r \in Request :
        (req[r].cancel /\ ~req[r].bound) ~> (req[r].status \in SettledStatus \/ req[r].bound)
=============================================================================

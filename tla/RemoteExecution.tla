---------------------------- MODULE RemoteExecution ----------------------------
(***************************************************************************)
(* Jobs on a remote target: persistence/remote_execution.py and            *)
(* application/remote_execution.py on the side of the Core, the dispatch   *)
(* command of remote/target_cli.py with its HTTPS connector, and           *)
(* remote/target_service.py on the other host.                             *)
(*                                                                         *)
(* One target.  The Core keeps its lease, its jobs and their results; the  *)
(* target keeps a ledger of its own; nothing is atomic across the two.  A  *)
(* dispatcher claims a job and posts it; the service asks the Core whether *)
(* the job is still authorized, enters it in the ledger, runs the command, *)
(* settles the ledger and answers.  A transaction of either database is    *)
(* one step.  Requests and answers may be lost or late, and the connector  *)
(* gives up at a deadline; dispatchers and the service may die at any      *)
(* point.  A client with the credentials of the lease may poll and         *)
(* complete over the REST interface of the Core, whatever the target       *)
(* knows, and may post a claimed job to the target itself.                 *)
(*                                                                         *)
(* status "failed" is the word of the target, "void" is failed as the Core *)
(* writes it on its own account (remote.lease_invalidated, or              *)
(* remote.outcome_unknown for an idempotent job).  The result row is       *)
(* written with the status of its job and has no variable of its own; by   *)
(* stands for its result_idempotency_key, which tells whose result it is.  *)
(* The target is online: nothing in the repository revokes one.  Local     *)
(* browsers and computers, their observations and artifacts are left out.  *)
(***************************************************************************)
EXTENDS Naturals, FiniteSets

CONSTANTS
    Job,           \* job ids
    NoJob,
    Kind,          \* the kinds of jobs: TARGET_EXEC or not, NON_IDEMPOTENT or not
    Dispatcher,    \* processes of remote-target dispatch, and REST calls of poll_jobs
    Owner,         \* clients that ask for the lease of the target
    MaxConcurrent, \* max_concurrent_jobs of the capability manifest
    LeaseTTL,      \* ttl_seconds of a lease, in ticks
    MaxLeases      \* bound: leases ever granted

ASSUME RemoteConstants ==
    /\ NoJob \notin Job
    /\ Kind \subseteq [exec : BOOLEAN, once : BOOLEAN]
    /\ MaxConcurrent \in Nat /\ LeaseTTL \in Nat \ {0} /\ MaxLeases \in Nat

VARIABLES
    lease,     \* the latest lease of the target; older ones have ended
    taker,     \* taker[o]: what the acquire_lease call of o has read
    job,       \* job[j]: the remote_execution_jobs row
    kind,      \* kind[j]: capability and idempotency of j
    disp,      \* disp[d]: where dispatcher d is, with its lease, job and result
    serving,   \* fencing of the lease the target service runs for, 0: it is down
    ledger,    \* ledger[j]: the row of j in the target's own database
    call,      \* call[j][x]: the request to execute j, posted by x
    ran        \* ran[j]: how often the command of j was started (history)

coreVars == <<lease, taker, job, kind>>
targetVars == <<serving, ledger, ran>>
vars == <<lease, taker, job, kind, disp, serving, ledger, call, ran>>

Reported == {"succeeded", "failed", "cancelled"}
Result == Reported \cup {"manual"}
Status == {"none", "queued", "running", "void"} \cup Result
\* Who posts a job: the dispatcher that claimed it, or a client
Poster == {"dispatcher", "client"}
\* Whose result a job has
Author == {"nobody", "core", "dispatcher", "client"}
\* A handler of the service is at work on the call.
Handled == {"verified", "running", "performed"}

LeaseRow == [fence : 0..MaxLeases, left : 0..LeaseTTL, released : BOOLEAN]
Reading == [busy : BOOLEAN, fence : 0..MaxLeases, free : BOOLEAN, left : 0..LeaseTTL]
JobRow == [status : Status, fence : 0..MaxLeases, cancel : BOOLEAN, by : Author]
Declared == [exec : BOOLEAN, once : BOOLEAN]
Dispatch == [pc : {"idle", "checked", "claimed", "posted", "heard"}, fence : 0..MaxLeases,
             job : Job \cup {NoJob}, result : Result \cup {"none", "void"}]
LedgerRow == [row : {"absent", "running", "done", "unknown"}, result : Result \cup {"none"},
              cancel : BOOLEAN]
Request == [pc : Handled \cup {"none", "sent", "answered", "over"}, result : Result \cup {"none"}]

TypeOK ==
    /\ lease \in LeaseRow
    /\ taker \in [Owner -> Reading]
    /\ job \in [Job -> JobRow]
    /\ kind \in [Job -> Declared]
    /\ disp \in [Dispatcher -> Dispatch]
    /\ serving \in 0..MaxLeases
    /\ ledger \in [Job -> LedgerRow]
    /\ call \in [Job -> [Poster -> Request]]
    /\ ran \in [Job -> Nat]

Rest == [pc |-> "idle", fence |-> 0, job |-> NoJob, result |-> "none"]
At(pc, result) == [pc |-> pc, result |-> result]

Init ==
    /\ lease = [fence |-> 0, left |-> 0, released |-> FALSE]
    /\ taker = [o \in Owner |-> [busy |-> FALSE, fence |-> 0, free |-> FALSE, left |-> 0]]
    /\ job = [j \in Job |-> [status |-> "none", fence |-> 0, cancel |-> FALSE, by |-> "nobody"]]
    /\ kind = [j \in Job |-> [exec |-> FALSE, once |-> FALSE]]
    /\ disp = [d \in Dispatcher |-> Rest]
    /\ serving = 0
    /\ ledger = [j \in Job |-> [row |-> "absent", result |-> "none", cancel |-> FALSE]]
    /\ call = [j \in Job |-> [x \in Poster |-> At("none", "none")]]
    /\ ran = [j \in Job |-> 0]
-----------------------------------------------------------------------------
(***************************************************************************)
(* The Core: the lease and what its end does to jobs                       *)
(***************************************************************************)
Live(fence) == fence = lease.fence /\ lease.left > 0 /\ ~lease.released

Active(j) == job[j].status \in {"queued", "running"}

\* Mutant of Withheld: the status a merge run would have, and jobs have not.
WithheldAsMerge(j) ==
    IF job[j].status = "running" /\ (kind[j].once \/ kind[j].exec) THEN "outcome_unknown" ELSE "void"

Withheld(j) ==
    IF job[j].status = "running" /\ (kind[j].once \/ kind[j].exec) THEN "manual" ELSE "void"

\* reconcile_expired: jobs of a lease that is released or has expired are closed
Reconciled ==
    [j \in Job |-> IF Active(j) /\ ~Live(job[j].fence)
                   THEN [job[j] EXCEPT !.status = Withheld(j), !.by = "core"] ELSE job[j]]

\* A Core starts, or someone looks for unknown actions
Reconcile ==
    /\ job' = Reconciled
    /\ UNCHANGED <<lease, taker, kind, disp, serving, ledger, call, ran>>

\* acquire_lease reads the clock once, for its two transactions
BeginAcquire(o) ==
    /\ ~taker[o].busy /\ lease.fence < MaxLeases
    /\ job' = Reconciled
    /\ taker' = [taker EXCEPT ![o] = [busy |-> TRUE, fence |-> lease.fence,
                                      free |-> lease.left = 0, left |-> LeaseTTL]]
    /\ UNCHANGED <<lease, kind, disp, serving, ledger, call, ran>>

\* No lease is active by the clock that o has read
Vacant(o) == lease.released \/ (taker[o].free /\ taker[o].fence = lease.fence)

Idle(o) == taker' = [taker EXCEPT ![o] = [busy |-> FALSE, fence |-> 0, free |-> FALSE, left |-> 0]]

Acquire(o) ==
    /\ taker[o].busy /\ Vacant(o) /\ lease.fence < MaxLeases
    /\ lease' = [fence |-> lease.fence + 1, left |-> taker[o].left, released |-> FALSE]
    /\ Idle(o)
    /\ UNCHANGED <<job, kind, disp, serving, ledger, call, ran>>

AcquireRefused(o) ==
    /\ taker[o].busy /\ ~Vacant(o)
    /\ Idle(o)
    /\ UNCHANGED <<lease, job, kind, disp, serving, ledger, call, ran>>

Renew ==
    /\ Live(lease.fence)
    /\ lease' = [lease EXCEPT !.left = LeaseTTL]
    /\ UNCHANGED <<taker, job, kind, disp, serving, ledger, call, ran>>

Release ==
    /\ Live(lease.fence)
    /\ lease' = [lease EXCEPT !.left = 0, !.released = TRUE]
    /\ UNCHANGED <<taker, job, kind, disp, serving, ledger, call, ran>>

Minus1(n) == IF n > 0 THEN n - 1 ELSE 0

Tick ==
    /\ lease.left > 0 \/ \E o \in Owner : taker[o].left > 0
    /\ lease' = [lease EXCEPT !.left = Minus1(lease.left)]
    /\ taker' = [o \in Owner |-> [taker[o] EXCEPT !.left = Minus1(taker[o].left)]]
    /\ UNCHANGED <<job, kind, disp, serving, ledger, call, ran>>

CreateJob(j, k) ==
    /\ Live(lease.fence)
    /\ job[j].status = "none"
    /\ Cardinality({i \in Job : Active(i)}) < MaxConcurrent
    /\ job' = [job EXCEPT ![j] = [status |-> "queued", fence |-> lease.fence, cancel |-> FALSE,
                                  by |-> "nobody"]]
    /\ kind' = [kind EXCEPT ![j] = k]
    /\ UNCHANGED <<lease, taker, disp, serving, ledger, call, ran>>

CancelJob(j) ==
    /\ \/ /\ job[j].status = "queued"
          /\ job' = [job EXCEPT ![j] = [status |-> "cancelled", fence |-> job[j].fence,
                                        cancel |-> TRUE, by |-> "core"]]
       \/ /\ job[j].status = "running"
          /\ job' = [job EXCEPT ![j].cancel = TRUE]
    /\ UNCHANGED <<lease, taker, kind, disp, serving, ledger, call, ran>>
-----------------------------------------------------------------------------
(***************************************************************************)
(* A dispatcher, bound to the lease that was live when it started.  The    *)
(* next round of the loop of dispatch_available is another call.           *)
(***************************************************************************)
\* _require_no_unknown_on_lease, in a connection of its own before the poll
Unknown(fence) == \E j \in Job : job[j].fence = fence /\ job[j].status = "manual"

Check(d) ==
    /\ disp[d].pc = "idle"
    /\ Live(lease.fence) /\ ~Unknown(lease.fence)
    /\ disp' = [disp EXCEPT ![d] = [pc |-> "checked", fence |-> lease.fence, job |-> NoJob,
                                    result |-> "none"]]
    /\ UNCHANGED <<coreVars, targetVars, call>>

Claimable(d, j) ==
    Live(disp[d].fence) /\ job[j].status = "queued" /\ job[j].fence = disp[d].fence

Poll(d, j) ==
    /\ disp[d].pc = "checked" /\ Claimable(d, j)
    /\ job' = [job EXCEPT ![j].status = "running"]
    /\ disp' = [disp EXCEPT ![d] = [pc |-> "claimed", fence |-> disp[d].fence, job |-> j,
                                    result |-> "none"]]
    /\ UNCHANGED <<lease, taker, kind, targetVars, call>>

\* The REST route: up to limit jobs in one transaction, and no dispatcher for them
PollByClient(d, jobs) ==
    /\ disp[d].pc = "checked" /\ \A j \in jobs : Claimable(d, j)
    /\ job' = [j \in Job |-> IF j \in jobs THEN [job[j] EXCEPT !.status = "running"] ELSE job[j]]
    /\ disp' = [disp EXCEPT ![d] = Rest]
    /\ UNCHANGED <<lease, taker, kind, targetVars, call>>

PollNothing(d) ==
    /\ disp[d].pc = "checked" /\ ~\E j \in Job : Claimable(d, j)
    /\ disp' = [disp EXCEPT ![d] = Rest]
    /\ UNCHANGED <<coreVars, targetVars, call>>

Post(d) ==
    /\ disp[d].pc = "claimed"
    /\ disp' = [disp EXCEPT ![d].pc = "posted"]
    /\ call' = [call EXCEPT ![disp[d].job]["dispatcher"] = At("sent", "none")]
    /\ UNCHANGED <<coreVars, targetVars>>

Heard(d, r) ==
    disp' = [disp EXCEPT ![d] = [pc |-> "heard", fence |-> disp[d].fence, job |-> disp[d].job,
                                 result |-> r]]

Hear(d) ==
    /\ disp[d].pc = "posted"
    /\ call[disp[d].job]["dispatcher"].pc = "answered"
    /\ Heard(d, call[disp[d].job]["dispatcher"].result)
    /\ call' = [call EXCEPT ![disp[d].job]["dispatcher"] = At("over", "none")]
    /\ UNCHANGED <<coreVars, targetVars>>

\* RemoteOutcomeUnknown: deadline, lost connection, refusal, unsigned answer
GiveUp(d) ==
    /\ disp[d].pc = "posted"
    /\ Heard(d, IF kind[disp[d].job].once THEN "manual" ELSE "void")
    /\ UNCHANGED <<coreVars, targetVars, call>>

Completable(d) == Live(disp[d].fence) /\ job[disp[d].job].status = "running"

Complete(d) ==
    /\ disp[d].pc = "heard" /\ Completable(d)
    /\ job' = [job EXCEPT ![disp[d].job].status = disp[d].result,
                          ![disp[d].job].by = "dispatcher"]
    /\ disp' = [disp EXCEPT ![d] = Rest]
    /\ UNCHANGED <<lease, taker, kind, targetVars, call>>

\* The REST route: any final status, whatever the target knows
CompleteByClient(j, r) ==
    /\ Live(job[j].fence) /\ job[j].status = "running"
    /\ job' = [job EXCEPT ![j].status = r, ![j].by = "client"]
    /\ UNCHANGED <<lease, taker, kind, disp, targetVars, call>>

\* A client has given the very result that the dispatcher brings
CompleteAgain(d) ==
    /\ disp[d].pc = "heard" /\ Live(disp[d].fence)
    /\ job[disp[d].job].by = "client" /\ job[disp[d].job].status = disp[d].result
    /\ disp' = [disp EXCEPT ![d] = Rest]
    /\ UNCHANGED <<coreVars, targetVars, call>>

\* ConflictError, for the lease or for another result: the result that
\* reconcile_expired leaves is taken instead, or there is none to give
CompleteRefused(d) ==
    /\ disp[d].pc = "heard" /\ ~Completable(d)
    /\ job' = Reconciled
    /\ disp' = [disp EXCEPT ![d] = Rest]
    /\ UNCHANGED <<lease, taker, kind, targetVars, call>>

Die(d) ==
    /\ disp[d].pc # "idle"
    /\ disp' = [disp EXCEPT ![d] = Rest]
    /\ UNCHANGED <<coreVars, targetVars, call>>

\* A client posts a claimed job with the credentials of its lease.
PostByClient(j) ==
    /\ job[j].status = "running" /\ call[j]["client"].pc = "none"
    /\ call' = [call EXCEPT ![j]["client"] = At("sent", "none")]
    /\ UNCHANGED <<coreVars, disp, targetVars>>
-----------------------------------------------------------------------------
(***************************************************************************)
(* The target service                                                      *)
(***************************************************************************)
Set(j, x, c) == call' = [call EXCEPT ![j][x] = c]
\* What a client does with the answer is CompleteByClient.
Answer(j, x, r) == Set(j, x, IF x = "dispatcher" THEN At("answered", r) ELSE At("over", "none"))

Dropped ==
    [j \in Job |-> [x \in Poster |->
        IF call[j][x].pc \in Handled THEN At("over", "none") ELSE call[j][x]]]

\* The service is started for the lease; an earlier one is stopped first.
Serve ==
    /\ serving # lease.fence
    /\ serving' = lease.fence
    /\ call' = Dropped
    /\ UNCHANGED <<coreVars, disp, ledger, ran>>

StopService ==
    /\ serving # 0
    /\ serving' = 0
    /\ call' = Dropped
    /\ UNCHANGED <<coreVars, disp, ledger, ran>>

\* verify_job_execution: the row in the Core equals the job that was claimed
Authorized(j) ==
    Live(job[j].fence) /\ job[j].status = "running" /\ ~job[j].cancel

Accepted(j) == serving = job[j].fence /\ (kind[j].exec => kind[j].once)

Verify(j, x) ==
    /\ call[j][x].pc = "sent" /\ serving # 0
    /\ Accepted(j) /\ Authorized(j)
    /\ Set(j, x, At("verified", "none"))
    /\ UNCHANGED <<coreVars, disp, targetVars>>

Refuse(j, x) ==
    /\ call[j][x].pc = "sent" /\ serving # 0
    /\ ~(Accepted(j) /\ Authorized(j))
    /\ Set(j, x, At("over", "none"))
    /\ UNCHANGED <<coreVars, disp, targetVars>>

Enter(j, x) ==
    /\ call[j][x].pc = "verified" /\ ledger[j].row = "absent"
    /\ ledger' = [ledger EXCEPT ![j] = [row |-> "running", result |-> "none", cancel |-> FALSE]]
    /\ Set(j, x, At("running", "none"))
    /\ UNCHANGED <<coreVars, disp, serving, ran>>

Replay(j, x) ==
    /\ call[j][x].pc = "verified" /\ ledger[j].row = "done"
    /\ Answer(j, x, ledger[j].result)
    /\ UNCHANGED <<coreVars, disp, targetVars>>

\* Mutant of Doubt: a command that was entered and not settled is run again.
DoubtRetries(j, x) ==
    /\ call[j][x].pc = "verified" /\ ledger[j].row \in {"running", "unknown"}
    /\ ledger' = [ledger EXCEPT ![j].row = "running"]
    /\ Set(j, x, At("running", "none"))
    /\ UNCHANGED <<coreVars, disp, serving, ran>>

\* A prior handler may have reached the side effect
Doubt(j, x) ==
    /\ call[j][x].pc = "verified" /\ ledger[j].row \in {"running", "unknown"}
    /\ ledger' = [ledger EXCEPT ![j] = [row |-> "unknown", result |-> "manual",
                                        cancel |-> ledger[j].cancel]]
    /\ Answer(j, x, "manual")
    /\ UNCHANGED <<coreVars, disp, serving, ran>>

\* _perform: nothing is started for a job that is denied
Decline(j, x) ==
    /\ call[j][x].pc = "running"
    /\ Set(j, x, At("performed", "failed"))
    /\ UNCHANGED <<coreVars, disp, targetVars>>

\* "manual": the command ran out of time or wrote too much
Run(j, x) ==
    /\ call[j][x].pc = "running" /\ kind[j].exec
    /\ ran' = [ran EXCEPT ![j] = ran[j] + 1]
    /\ \E r \in {"succeeded", "failed", "manual"} : Set(j, x, At("performed", r))
    /\ UNCHANGED <<coreVars, disp, serving, ledger>>

Read(j, x) ==
    /\ call[j][x].pc = "running" /\ ~kind[j].exec
    /\ Set(j, x, At("performed", "succeeded"))
    /\ UNCHANGED <<coreVars, disp, targetVars>>

Outcome(j, x) == IF ledger[j].cancel THEN "cancelled" ELSE call[j][x].result

Settle(j, x) ==
    /\ call[j][x].pc = "performed" /\ ledger[j].row = "running"
    /\ ledger' = [ledger EXCEPT ![j] = [row |-> "done", result |-> Outcome(j, x),
                                        cancel |-> ledger[j].cancel]]
    /\ Answer(j, x, Outcome(j, x))
    /\ UNCHANGED <<coreVars, disp, serving, ran>>

\* Mutant of SettleDoubted: the handler answers what it saw.
SettleDoubtedBlindly(j, x) ==
    /\ call[j][x].pc = "performed" /\ ledger[j].row = "unknown"
    /\ Answer(j, x, call[j][x].result)
    /\ UNCHANGED <<coreVars, disp, targetVars>>

SettleDoubted(j, x) ==
    /\ call[j][x].pc = "performed" /\ ledger[j].row = "unknown"
    /\ Answer(j, x, "manual")
    /\ UNCHANGED <<coreVars, disp, targetVars>>

\* cancel, posted by whoever has the credentials of the lease; the ledger is
\* locked while the Core is asked
CancelOnTarget(j) ==
    /\ serving # 0 /\ serving = job[j].fence
    /\ ledger[j].row # "absent" /\ ~ledger[j].cancel
    /\ Live(job[j].fence) /\ job[j].status = "running" /\ job[j].cancel
    /\ ledger' = [ledger EXCEPT ![j].cancel = TRUE]
    /\ UNCHANGED <<coreVars, disp, serving, call, ran>>
-----------------------------------------------------------------------------
Next ==
    \/ Reconcile \/ Renew \/ Release \/ Tick
    \/ \E o \in Owner : BeginAcquire(o) \/ Acquire(o) \/ AcquireRefused(o)
    \/ \E j \in Job : CancelJob(j) \/ PostByClient(j) \/ CancelOnTarget(j)
    \/ \E j \in Job, k \in Kind : CreateJob(j, k)
    \/ \E j \in Job, r \in Result : CompleteByClient(j, r)
    \/ \E d \in Dispatcher :
          \/ Check(d) \/ PollNothing(d) \/ Post(d) \/ Hear(d) \/ GiveUp(d)
          \/ Complete(d) \/ CompleteAgain(d) \/ CompleteRefused(d) \/ Die(d)
          \/ \E j \in Job : Poll(d, j)
          \/ \E jobs \in SUBSET Job \ {{}} : PollByClient(d, jobs)
    \/ Serve \/ StopService
    \/ \E j \in Job, x \in Poster :
          \/ Verify(j, x) \/ Refuse(j, x) \/ Enter(j, x) \/ Replay(j, x) \/ Doubt(j, x)
          \/ Decline(j, x) \/ Run(j, x) \/ Read(j, x) \/ Settle(j, x) \/ SettleDoubted(j, x)

Spec == Init /\ [][Next]_vars
-----------------------------------------------------------------------------
\* What a dispatcher has recorded as the word of the target is what the target's
\* own ledger says, whatever was posted twice, lost, cancelled or late, and
\* whatever clients complete meanwhile; and a command that succeeded has run.
Agreed ==
    \A j \in Job : job[j].by = "dispatcher" /\ job[j].status \in Reported =>
        /\ ledger[j].row = "done" /\ ledger[j].result = job[j].status
        /\ kind[j].exec /\ job[j].status = "succeeded" => ran[j] = 1

PhaseOf(j) ==
    IF job[j].status \in {"none", "queued"} THEN "new"
    ELSE IF job[j].status = "running" THEN "running"
    ELSE IF job[j].by = "client" THEN "told"
    ELSE IF job[j].status = "manual" THEN "unknown"
    ELSE IF job[j].status = "void" \/ job[j].by = "core" THEN "void" ELSE "reported"

Promised == INSTANCE RemotePromise WITH phase <- [j \in Job |-> PhaseOf(j)]

\* The rows of the Core keep the promise, step by step: a command acts at most
\* once, and never after a dispatcher recorded the target's report on its job, or
\* the Core closed it as not done.
Promise == Promised!Spec
=============================================================================

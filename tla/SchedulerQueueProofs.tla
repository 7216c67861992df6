------------------------- MODULE SchedulerQueueProofs -------------------------
(***************************************************************************)
(* Theorems about SchedulerQueue, for any number of Core processes,        *)
(* requests and schedules, any limits and any time limits.                 *)
(***************************************************************************)
EXTENDS SchedulerQueue, TLAPS

-----------------------------------------------------------------------------
(***************************************************************************)
(* The inductive invariant.                                                *)
(***************************************************************************)
\* run_one has not been entered, or has been left
Outside == {"idle", "aborting", "stopping", "closing", "dead"}
\* run_one has a job in hand
InHand == {"cancelling", "settle", "claimed", "dropping", "starting", "marked", "reserved",
           "creating", "start_run", "completing", "binding", "failing", "failing_unknown"}

Hand(w) ==
    /\ pc[w] \in InHand => mem[w].cur \in JobLease
    /\ pc[w] \in Outside => mem[w].cur = NoLease

\* The job leases of a worker inside run_one end with its authority.
Covered(w) ==
    pc[w] \notin Outside =>
        \A r \in Request : (job[r].owner = w /\ job[r].ttl > 0) =>
            has[w] /\ auth.holder = w /\ job[r].ttl <= auth.ttl

\* The rows of a request agree: the lease ends before an authority that is
\* acquired now, attempt n has the fencing n, the lease exists while the
\* latest attempt runs, and a request that may be claimed has an attempt left.
Agree(q, j, a) ==
    /\ j.ttl <= AuthorityTTL
    /\ \A n \in Attempts : a[n].fence = (IF n <= q.count THEN n ELSE 0)
    /\ q.status = "leased" <=> j.owner # Nobody
    /\ \A n \in Attempts : a[n].status = "running" <=> (n = q.count /\ q.status = "leased")
    /\ q.status = "leased" => q.count # 0
    /\ q.status = "none" => q.count = 0
    /\ q.status \in {"queued", "retry_wait"} => q.count < MaxAttempts

Rows(r) == Agree(req[r], job[r], attempt[r])

QueueType ==
    /\ head \in [Schedule -> HeadStatus]
    /\ req \in [Request -> RequestRow]
    /\ job \in [Request -> JobRow]
    /\ attempt \in [Request -> [Attempts -> AttemptRow]]
AuthType == auth \in [holder : Worker \cup {Nobody}, ttl : 0..AuthorityTTL]
GraphType ==
    /\ binding \in [Request -> {"none", "pending", "completed"}]
    /\ graph \in [Request -> GraphStatus]
    /\ driven \in [Worker -> SUBSET Request]
    /\ entered \in [Request -> Nat]
ProcType ==
    /\ pc \in [Worker -> Label]
    /\ has \in [Worker -> BOOLEAN]
    /\ mem \in [Worker -> Memory]

\* SingleWriter needs that a job lease never outlives the authority under
\* which it was taken (Covered); the types need the fencings of the attempts.
IInv ==
    /\ QueueType /\ AuthType /\ GraphType /\ ProcType
    /\ \A w \in Worker : Hand(w) /\ Covered(w)
    /\ \A r \in Request : Rows(r)

-----------------------------------------------------------------------------
(***************************************************************************)
(* Lemmas about the helpers.                                               *)
(***************************************************************************)
\* Time runs down within its limits and keeps the order of two timers.
LEMMA Less1Type ==
    ASSUME NEW n \in Nat, NEW t \in 0..n
    PROVE  Less1(t) \in 0..n /\ Less1(t) <= t
  BY DEF Less1

LEMMA Less1Order ==
    ASSUME NEW s \in Nat, NEW t \in Nat, s <= t
    PROVE  Less1(s) <= Less1(t) /\ (Less1(s) > 0 => s > 0)
  BY DEF Less1

\* The retry delay stays within retry_max_seconds.
LEMMA BackoffType ==
    ASSUME NEW n \in Attempts
    PROVE  Backoff(n) \in 0..RetryMax
<1>1. 2 ^ (n - 1) \in Nat
  BY QueueConstants DEF Attempts
<1>2. RetryBase * 2 ^ (n - 1) \in Nat
  BY <1>1, QueueConstants
<1> QED
  BY <1>2, QueueConstants DEF Backoff, Least

\* The lease of a claim is a lease and does not outlive the authority.
LEMMA LeastType ==
    ASSUME AuthType
    PROVE  /\ Least(JobTTL, auth.ttl) \in 0..JobTTL
           /\ Least(JobTTL, auth.ttl) <= auth.ttl /\ auth.ttl <= AuthorityTTL /\ auth.ttl \in Nat
  BY QueueConstants DEF AuthType, Least

\* The fencing of a claim is the number of its attempt.
LEMMA NextFence ==
    ASSUME QueueType, NEW r \in Request, Rows(r), req[r].count < MaxAttempts
    PROVE  Greatest({attempt[r][k].fence : k \in Attempts}) + 1 = req[r].count + 1
<1> DEFINE S == {attempt[r][k].fence : k \in Attempts}
           c == req[r].count
<1>1. c \in Nat /\ 1 \in Attempts
  BY QueueConstants DEF QueueType, RequestRow, Attempts
<1>2. c \in S
  <2>1. CASE c = 0
    <3>1. attempt[r][1].fence = 0
      BY <1>1, <2>1 DEF Rows, Agree
    <3> QED
      BY <1>1, <2>1, <3>1
  <2>2. CASE c # 0
    <3>1. c \in Attempts
      BY <1>1, <2>2, QueueConstants DEF Attempts
    <3>2. attempt[r][c].fence = c
      BY <1>1, <3>1 DEF Rows, Agree
    <3> QED
      BY <3>1, <3>2
  <2> QED
    BY <2>1, <2>2
<1>3. \A k \in S : k <= c /\ k \in Nat
  BY <1>1 DEF Rows, Agree, Attempts
<1> HIDE DEF S, c
<1>4. \A x \in S : (\A k \in S : k <= x) => x = c
  BY <1>1, <1>2, <1>3
<1>5. \E n \in S : \A k \in S : k <= n
  BY <1>2, <1>3
<1>6. Greatest(S) \in S /\ \A k \in S : k <= Greatest(S)
  BY <1>5 DEF Greatest
<1> QED
  BY <1>4, <1>6 DEF S, c

\* Closing an attempt keeps its fencing and touches no other attempt.
LEMMA ClosedRows ==
    ASSUME QueueType, NEW r \in Request, NEW v \in AttemptStatus
    PROVE  /\ Closed(r, v) \in [Attempts -> AttemptRow]
           /\ \A n \in Attempts :
                /\ Closed(r, v)[n].fence = attempt[r][n].fence
                /\ Closed(r, v)[n].started = attempt[r][n].started
                /\ Closed(r, v)[n].status =
                     IF n = req[r].count /\ attempt[r][n].status = "running" THEN v
                     ELSE attempt[r][n].status
<1>1. attempt[r] \in [Attempts -> AttemptRow]
  BY DEF QueueType
<1>2. ASSUME NEW n \in Attempts, NEW s \in AttemptStatus
      PROVE  /\ [attempt[r][n] EXCEPT !.status = s] \in AttemptRow
             /\ [attempt[r][n] EXCEPT !.status = s].fence = attempt[r][n].fence
             /\ [attempt[r][n] EXCEPT !.status = s].started = attempt[r][n].started
             /\ [attempt[r][n] EXCEPT !.status = s].status = s
             /\ attempt[r][n].status \in AttemptStatus
  BY <1>1 DEF AttemptRow
<1>3. CASE req[r].count \in Attempts
  <2> DEFINE n == req[r].count
             s == IF attempt[r][n].status = "running" THEN v ELSE attempt[r][n].status
  <2>1. Closed(r, v) = [attempt[r] EXCEPT ![n] = [attempt[r][n] EXCEPT !.status = s]]
    BY <1>1, <1>3 DEF Closed, AttemptRow
  <2>2. s \in AttemptStatus
    BY <1>2, <1>3
  <2> HIDE DEF s
  <2>3. /\ Closed(r, v) \in [Attempts -> AttemptRow]
        /\ Closed(r, v)[n].fence = attempt[r][n].fence
        /\ Closed(r, v)[n].started = attempt[r][n].started
        /\ Closed(r, v)[n].status = s
        /\ \A k \in Attempts \ {n} : Closed(r, v)[k] = attempt[r][k]
    BY <1>1, <1>2, <1>3, <2>1, <2>2
  <2> QED
    BY <1>3, <2>3 DEF s
<1>4. CASE req[r].count \notin Attempts
  BY <1>1, <1>4 DEF Closed
<1> QED
  BY <1>3, <1>4

-----------------------------------------------------------------------------
(***************************************************************************)
(* The workers' local state.                                               *)
(***************************************************************************)
ProcOK == ProcType /\ \A w \in Worker : Hand(w)

\* One worker takes a step to a label that fits what it has in hand.
LEMMA WorkerMoves ==
    ASSUME ProcOK, NEW w \in Worker, NEW label \in Label, NEW row \in Memory,
           pc' = [pc EXCEPT ![w] = label], mem' = [mem EXCEPT ![w] = row],
           has' \in [Worker -> BOOLEAN],
           label \in InHand => row.cur \in JobLease, label \in Outside => row.cur = NoLease
    PROVE  ProcOK'
  BY DEF ProcOK, ProcType, Hand

LEMMA BlankType == Blank \in Memory /\ Blank.cur = NoLease /\ "none" \in GraphStatus
  BY DEF Blank, Memory, GraphStatus

\* run_one is left or goes on without a job in hand.
LEMMA LeaveOK ==
    ASSUME ProcOK, NEW w \in Worker, NEW label \in Label \ InHand, Leave(w, label)
    PROVE  ProcOK'
<1>1. has' \in [Worker -> BOOLEAN]
  BY DEF Leave, ProcOK, ProcType
<1> QED
  BY <1>1, BlankType, WorkerMoves DEF Leave

LEMMA AbortOK ==
    ASSUME ProcOK, NEW w \in Worker, Abort(w) PROVE ProcOK'
  BY LeaveOK DEF Abort, Label, InHand

LEMMA NextDispatchOK ==
    ASSUME ProcOK, NEW w \in Worker, NextDispatch(w) PROVE ProcOK'
  BY LeaveOK DEF NextDispatch, Label, InHand

\* The worker keeps what it has.
LEMMA GotoOK ==
    ASSUME ProcOK, NEW w \in Worker, NEW label \in Label, Goto(w, label),
           \/ pc[w] \in InHand /\ label \notin Outside
           \/ pc[w] \in Outside /\ label \notin InHand
           \/ label \notin InHand \cup Outside
    PROVE  ProcOK'
<1>1. mem[w] \in Memory /\ mem' = [mem EXCEPT ![w] = mem[w]] /\ has' \in [Worker -> BOOLEAN]
  BY DEF ProcOK, ProcType, Goto
<1>2. /\ label \in InHand => mem[w].cur \in JobLease
      /\ label \in Outside => mem[w].cur = NoLease
  BY DEF ProcOK, Hand
<1> QED
  BY <1>1, <1>2, WorkerMoves DEF Goto

\* Every step of run_one keeps the worker's local state in order.
LEMMA RunOneProc ==
    ASSUME IInv, NEW w \in Worker, RunOne(w), graph' \in [Request -> GraphStatus]
    PROVE  ProcOK'
<1>0. /\ ProcOK /\ mem[w] \in Memory /\ mem \in [Worker -> Memory] /\ has \in [Worker -> BOOLEAN]
      /\ pc[w] \in InHand => mem[w].cur \in JobLease
  BY DEF IInv, ProcOK, ProcType, Hand
<1> USE DEF queueVars, graphVars, procVars
<1>1. CASE RenewDispatched(w)
  <2>1. CASE Abort(w)
    BY <1>0, <2>1, AbortOK
  <2>2. CASE ~Abort(w)
    <3> DEFINE taken == {r \in Request : Takeover(r)}
               kept == {r \in Request : /\ req[r].status = "leased" /\ req[r].bound
                                        /\ job[r].owner = w /\ job[r].ttl > 0}
               fence(r) == IF r \in taken THEN (job[r].fence % MaxFence) + 1 ELSE job[r].fence
               T == {[r |-> r, fence |-> fence(r), cancel |-> req[r].cancel] :
                       r \in taken \cup kept}
    <3>1. /\ mem' = [mem EXCEPT ![w].todo = T] /\ pc' = [pc EXCEPT ![w] = "reconcile"]
          /\ has' = has
      BY <1>1, <2>2 DEF RenewDispatched
    <3>2. ASSUME NEW r \in Request PROVE fence(r) \in Fencing /\ req[r].cancel \in BOOLEAN
      <4>1. job[r].fence \in 0..MaxFence /\ MaxFence \in Nat /\ MaxFence > 0
        BY QueueConstants DEF IInv, QueueType, JobRow, Fencing
      <4>2. (job[r].fence % MaxFence) + 1 \in 0..MaxFence
        BY <4>1
      <4>3. req[r].cancel \in BOOLEAN
        BY DEF IInv, QueueType, RequestRow
      <4> QED
        BY <4>1, <4>2, <4>3 DEF Fencing
    <3>3. T \in SUBSET JobLease
      <4> HIDE DEF fence, taken, kept
      <4>1. taken \cup kept \subseteq Request
        BY DEF taken, kept
      <4> QED
        BY <3>2, <4>1 DEF JobLease
    <3> HIDE DEF T
    <3> DEFINE row == [mem[w] EXCEPT !.todo = T]
    <3>4. mem' = [mem EXCEPT ![w] = row] /\ row \in Memory
      BY <1>0, <3>1, <3>3 DEF Memory
    <3>5. "reconcile" \in Label \ (InHand \cup Outside) /\ has' \in [Worker -> BOOLEAN]
      BY <1>0, <3>1 DEF Label, InHand, Outside
    <3> HIDE DEF row, taken, kept, fence
    <3> QED
      BY <1>0, <3>1, <3>4, <3>5, WorkerMoves
  <2> QED
    BY <2>1, <2>2
<1>2. CASE ReconcileOne(w)
  <2>1. PICK j \in mem[w].todo :
          /\ mem' = [mem EXCEPT ![w].todo = @ \ {j}, ![w].cur = j, ![w].seen = graph[j.r]]
          /\ pc' = [pc EXCEPT ![w] = IF j.cancel /\ graph[j.r] \notin GraphEnd
                                     THEN "cancelling" ELSE "settle"]
          /\ has' = has
    BY <1>2 DEF ReconcileOne
  <2>2. j \in JobLease /\ mem[w].todo \ {j} \in SUBSET JobLease /\ j.r \in Request
    BY <1>0, <2>1 DEF Memory, JobLease
  <2>3. graph[j.r] \in GraphStatus
    BY <2>2 DEF IInv, GraphType
  <2> DEFINE row == [mem[w] EXCEPT !.todo = @ \ {j}, !.cur = j, !.seen = graph[j.r]]
  <2>4. row \in Memory /\ row.cur = j /\ mem' = [mem EXCEPT ![w] = row]
    BY <1>0, <2>1, <2>2, <2>3 DEF Memory
  <2> HIDE DEF row
  <2>5. ASSUME NEW label \in {"cancelling", "settle"}, pc' = [pc EXCEPT ![w] = label]
        PROVE  ProcOK'
    BY <1>0, <2>1, <2>2, <2>4, <2>5, WorkerMoves DEF Label, InHand, Outside
  <2> QED
    BY <2>1, <2>5
<1>3. CASE ReconcileDone(w)
  BY <1>0, <1>3, BlankType, WorkerMoves DEF ReconcileDone, Label, InHand, Outside
<1>4. CASE CancelWorkflow(w)
  <2>1. CASE Abort(w)
    BY <1>0, <2>1, AbortOK
  <2>2. CASE ~Abort(w)
    <3>1. /\ mem' = [mem EXCEPT ![w].seen = graph'[mem[w].cur.r]]
          /\ pc' = [pc EXCEPT ![w] = "settle"] /\ has' = has /\ pc[w] = "cancelling"
      BY <1>4, <2>2 DEF CancelWorkflow
    <3>2. mem[w].cur \in JobLease /\ mem[w].cur.r \in Request
      BY <1>0, <3>1 DEF InHand, JobLease
    <3>3. graph'[mem[w].cur.r] \in GraphStatus
      BY <3>2
    <3> DEFINE row == [mem[w] EXCEPT !.seen = graph'[mem[w].cur.r]]
    <3>4. row \in Memory /\ row.cur = mem[w].cur /\ mem' = [mem EXCEPT ![w] = row]
      BY <1>0, <3>1, <3>3 DEF Memory
    <3> HIDE DEF row
    <3> QED
      BY <1>0, <3>1, <3>2, <3>4, WorkerMoves DEF Label, InHand, Outside
  <2> QED
    BY <2>1, <2>2
<1>5. CASE Settle(w)
  <2>1. CASE Abort(w) \/ NextDispatch(w)
    BY <1>0, <2>1, AbortOK, NextDispatchOK
  <2>2. CASE Goto(w, "reconcile")
    BY <1>0, <2>2, GotoOK DEF Label, InHand, Outside
  <2> QED
    BY <1>5, <2>1, <2>2 DEF Settle
<1>6. CASE ClaimDue(w)
  <2>1. CASE Abort(w) \/ Leave(w, "idle")
    BY <1>0, <2>1, AbortOK, LeaveOK DEF Label, InHand
  <2>2. CASE ~(Abort(w) \/ Leave(w, "idle"))
    <3>1. PICK r \in Request :
            /\ req[r].count + 1 \in Attempts
            /\ mem' = [mem EXCEPT ![w].cur =
                 [r |-> r, fence |-> Greatest({attempt[r][k].fence : k \in Attempts}) + 1,
                  cancel |-> FALSE]]
            /\ pc' = [pc EXCEPT ![w] = "claimed"] /\ has' = has
      BY <1>6, <2>2 DEF ClaimDue
    <3>2. req[r].count \in Nat /\ req[r].count < MaxAttempts
      BY <3>1, QueueConstants DEF IInv, QueueType, RequestRow, Attempts
    <3> DEFINE f == Greatest({attempt[r][k].fence : k \in Attempts}) + 1
               j == [r |-> r, fence |-> f, cancel |-> FALSE]
    <3>3. f = req[r].count + 1
      BY <3>2, NextFence DEF IInv
    <3>4. f \in Fencing
      BY <3>2, <3>3, QueueConstants DEF Fencing
    <3>5. j \in JobLease
      BY <3>4 DEF JobLease
    <3>6. mem' = [mem EXCEPT ![w].cur = j]
      BY <3>1
    <3> HIDE DEF j
    <3> DEFINE row == [mem[w] EXCEPT !.cur = j]
    <3>7. row \in Memory /\ row.cur = j /\ mem' = [mem EXCEPT ![w] = row]
      BY <1>0, <3>5, <3>6 DEF Memory
    <3> HIDE DEF row
    <3> QED
      BY <1>0, <3>1, <3>5, <3>7, WorkerMoves DEF Label, InHand, Outside
  <2> QED
    BY <2>1, <2>2
<1>7. CASE CheckCancel(w) \/ Refused(w) \/ GatewayRaises(w)
  <2>1. PICK label \in InHand : Goto(w, label)
    BY <1>7 DEF CheckCancel, Refused, GatewayRaises, InHand
  <2>2. pc[w] \in InHand
    BY <1>7 DEF CheckCancel, Refused, GatewayRaises, InHand
  <2> QED
    BY <1>0, <2>1, <2>2, GotoOK DEF Label, InHand, Outside
<1>8. CASE CancelClaimed(w) \/ FailJob(w) \/ ReserveRefused(w)
  <2>1. Abort(w) \/ NextDispatch(w)
    BY <1>8 DEF CancelClaimed, FailJob, ReserveRefused
  <2> QED
    BY <1>0, <2>1, AbortOK, NextDispatchOK
<1>9. CASE \/ MarkStarted(w) \/ Reserve(w) \/ FindGraph(w) \/ CreateRun(w) \/ StartRun(w)
           \/ CompleteBinding(w)
  <2>1. CASE Abort(w)
    BY <1>0, <2>1, AbortOK
  <2>2. ASSUME NEW label \in InHand, Goto(w, label), pc[w] \in InHand PROVE ProcOK'
    BY <1>0, <2>2, GotoOK DEF Label, InHand, Outside
  <2>3. CASE MarkStarted(w)
    BY <2>1, <2>2, <2>3 DEF MarkStarted, InHand
  <2>4. CASE Reserve(w) \/ CreateRun(w) \/ StartRun(w) \/ CompleteBinding(w)
    BY <2>2, <2>4 DEF Reserve, CreateRun, StartRun, CompleteBinding, InHand
  <2>5. CASE FindGraph(w)
    BY <2>2, <2>5 DEF FindGraph, InHand
  <2> QED
    BY <1>9, <2>3, <2>4, <2>5
<1>10. CASE MarkDispatched(w)
  <2>1. CASE Abort(w)
    BY <1>0, <2>1, AbortOK
  <2>2. CASE ~Abort(w)
    <3> DEFINE j == mem[w].cur
               T == {[j EXCEPT !.cancel = req[j.r].cancel]}
               row == [mem[w] EXCEPT !.todo = T, !.fresh = TRUE]
    <3>1. /\ pc' = [pc EXCEPT ![w] = "reconcile"] /\ has' = has /\ pc[w] = "binding"
          /\ mem' = [mem EXCEPT ![w].todo = T, ![w].fresh = TRUE]
      BY <1>10, <2>2 DEF MarkDispatched
    <3>2. j \in JobLease /\ j.r \in Request
      BY <1>0, <3>1 DEF InHand, JobLease
    <3>3. req[j.r].cancel \in BOOLEAN
      BY <3>2 DEF IInv, QueueType, RequestRow
    <3>4. T \in SUBSET JobLease
      <4>1. [j EXCEPT !.cancel = req[j.r].cancel] \in JobLease
        <5> HIDE DEF j
        <5> QED
          BY <3>2, <3>3 DEF JobLease
      <4> QED
        BY <4>1
    <3> HIDE DEF T
    <3>5. row \in Memory /\ mem' = [mem EXCEPT ![w] = row]
      BY <1>0, <3>1, <3>4 DEF Memory
    <3> HIDE DEF row, j
    <3>6. pc' = [pc EXCEPT ![w] = "reconcile"] /\ has' \in [Worker -> BOOLEAN]
      BY <1>0, <3>1
    <3>7. "reconcile" \in Label /\ "reconcile" \notin InHand \cup Outside
      BY DEF Label, InHand, Outside
    <3> QED
      BY <1>0, <3>5, <3>6, <3>7, WorkerMoves
  <2> QED
    BY <2>1, <2>2
<1> QED
  BY <1>1, <1>2, <1>3, <1>4, <1>5, <1>6, <1>7, <1>8, <1>9, <1>10 DEF RunOne

-----------------------------------------------------------------------------
(***************************************************************************)
(* The rows of the queue.                                                  *)
(***************************************************************************)
QueueOK == QueueType /\ \A r \in Request : Rows(r)

\* The rows of a request that a step leaves alone agree as before; so do the
\* queue's rows when all that changed agree.
LEMMA QueueRows ==
    ASSUME QueueType', \A r \in Request : Agree(req'[r], job'[r], attempt'[r])
    PROVE  QueueOK'
  BY DEF QueueOK, Rows

LEMMA NoJobType == NoJob \in JobRow /\ NoJob.owner = Nobody /\ NoJob.ttl = 0
  BY QueueConstants DEF NoJob, JobRow, Fencing

\* The columns of a request.
LEMMA RequestColumns ==
    ASSUME QueueType, NEW r \in Request
    PROVE  /\ req[r] \in RequestRow /\ req[r].count \in 0..MaxAttempts
           /\ req[r].cancel \in BOOLEAN /\ req[r].wait \in 0..RetryMax
           /\ job[r] \in JobRow /\ job[r].ttl \in Nat /\ attempt[r] \in [Attempts -> AttemptRow]
  BY QueueConstants DEF QueueType, RequestRow, JobRow

RequestStatus == {"none"} \cup OpenStatus \cup SettledStatus

\* A job ends: complete_job, finish_dispatched_job, fail_job, cancel_claimed_job.
LEMMA EndJobOK ==
    ASSUME QueueOK, NEW r \in Request, NEW row \in RequestRow, NEW v \in AttemptStatus \ {"running"},
           EndJob(r, row, v), job[r].owner # Nobody, row.count = req[r].count,
           row.status \in SettledStatus \cup {"retry_wait"},
           row.status = "retry_wait" => req[r].count < MaxAttempts
    PROVE  QueueOK'
<1>1. QueueType /\ Rows(r) /\ req[r].status = "leased"
  BY DEF QueueOK, Rows, Agree
<1>2. /\ req' = [req EXCEPT ![r] = row] /\ job' = [job EXCEPT ![r] = NoJob]
      /\ attempt' = [attempt EXCEPT ![r] = Closed(r, v)] /\ head' = head
  BY <1>1 DEF EndJob
<1>3. QueueType'
  BY <1>1, <1>2, NoJobType, ClosedRows DEF QueueType
<1>4. Agree(row, NoJob, Closed(r, v))
  <2>1. \A n \in Attempts : Closed(r, v)[n].fence = (IF n <= row.count THEN n ELSE 0)
    BY <1>1, ClosedRows DEF Rows, Agree
  <2>2. \A n \in Attempts : Closed(r, v)[n].status # "running"
    BY <1>1, ClosedRows DEF Rows, Agree
  <2> QED
    BY <2>1, <2>2, NoJobType, QueueConstants DEF Agree, SettledStatus
<1>5. ASSUME NEW k \in Request PROVE Agree(req'[k], job'[k], attempt'[k])
  <2>1. CASE k = r
    BY <1>1, <1>2, <1>4, <2>1 DEF QueueType
  <2>2. CASE k # r
    BY <1>1, <1>2, <2>2 DEF QueueOK, QueueType, Rows
  <2> QED
    BY <2>1, <2>2
<1> QED
  BY <1>3, <1>5, QueueRows

\* _recover_expired_jobs leaves rows that agree, and no attempt number changes.
LEMMA RecoveredOK ==
    ASSUME QueueOK
    PROVE  /\ RecoveredReq \in [Request -> RequestRow]
           /\ RecoveredAttempt \in [Request -> [Attempts -> AttemptRow]]
           /\ RecoveredJob \in [Request -> JobRow]
           /\ \A r \in Request :
                /\ Agree(RecoveredReq[r], RecoveredJob[r], RecoveredAttempt[r])
                /\ RecoveredReq[r].count = req[r].count
                /\ RecoveredJob[r] \in {job[r], NoJob}
                /\ ~(r \in Lapsed) => /\ RecoveredReq[r] = req[r] /\ RecoveredJob[r] = job[r]
                                      /\ RecoveredAttempt[r] = attempt[r]
<1>0. QueueType
  BY DEF QueueOK
<1>1. ASSUME NEW r \in Request, r \in Lapsed
      PROVE  /\ RecoveredReq[r] \in RequestRow
             /\ RecoveredAttempt[r] \in [Attempts -> AttemptRow]
             /\ RecoveredJob[r] = NoJob
             /\ Agree(RecoveredReq[r], RecoveredJob[r], RecoveredAttempt[r])
             /\ RecoveredReq[r].count = req[r].count
  <2> DEFINE s == AfterFailure(r, Unsafe(r))
             v == IF Unsafe(r) THEN "outcome_unknown" ELSE "failed"
  <2>1. Rows(r) /\ job[r].owner # Nobody /\ req[r].status = "leased"
    BY <1>1 DEF QueueOK, Rows, Agree, Lapsed, Expired
  <2>2. /\ s \in {"manual_reconcile_required", "dead_letter", "retry_wait"}
        /\ s = "retry_wait" => req[r].count < MaxAttempts
    BY <1>0, RequestColumns, QueueConstants DEF AfterFailure
  <2>3. v \in AttemptStatus \ {"running"}
    BY DEF AttemptStatus
  <2>4. RecoveredReq[r] = [req[r] EXCEPT !.status = s, !.wait = 0] /\ RecoveredJob[r] = NoJob
    BY <1>1, <2>1 DEF RecoveredReq, RecoveredJob
  <2>5. RecoveredAttempt[r] = Closed(r, v)
    BY <1>1 DEF RecoveredAttempt
  <2> HIDE DEF s, v
  <2>6. /\ RecoveredReq[r] \in RequestRow /\ RecoveredReq[r].count = req[r].count
        /\ RecoveredReq[r].status = s
    <3>1. s \in RequestStatus /\ 0 \in 0..RetryMax /\ req[r] \in RequestRow
      BY <1>0, <2>2, RequestColumns, QueueConstants DEF RequestStatus, OpenStatus, SettledStatus
    <3>2. /\ [req[r] EXCEPT !.status = s, !.wait = 0] \in RequestRow
          /\ [req[r] EXCEPT !.status = s, !.wait = 0].status = s
          /\ [req[r] EXCEPT !.status = s, !.wait = 0].count = req[r].count
      BY <3>1 DEF RequestRow, RequestStatus
    <3> QED
      BY <2>4, <3>2, Zenon
  <2>7. RecoveredAttempt[r] \in [Attempts -> AttemptRow]
    BY <1>0, <2>3, <2>5, ClosedRows
  <2>8. \A n \in Attempts : /\ RecoveredAttempt[r][n].fence = attempt[r][n].fence
                            /\ RecoveredAttempt[r][n].status # "running"
    BY <1>0, <2>1, <2>3, <2>5, ClosedRows DEF Rows, Agree
  <2>9. Agree(RecoveredReq[r], NoJob, RecoveredAttempt[r])
    BY <2>1, <2>2, <2>6, <2>8, NoJobType, QueueConstants DEF Rows, Agree
  <2> QED
    BY <2>4, <2>6, <2>7, <2>9
<1>2. ASSUME NEW r \in Request, ~(r \in Lapsed)
      PROVE  /\ RecoveredReq[r] = req[r] /\ RecoveredJob[r] = job[r]
             /\ RecoveredAttempt[r] = attempt[r]
             /\ Agree(RecoveredReq[r], RecoveredJob[r], RecoveredAttempt[r])
  <2>1. /\ RecoveredReq[r] = req[r] /\ RecoveredJob[r] = job[r]
        /\ RecoveredAttempt[r] = attempt[r]
    BY <1>2 DEF RecoveredReq, RecoveredJob, RecoveredAttempt
  <2> QED
    BY <2>1 DEF QueueOK, Rows
<1>3. ASSUME NEW r \in Request
      PROVE  /\ RecoveredReq[r] \in RequestRow /\ RecoveredJob[r] \in JobRow
             /\ RecoveredAttempt[r] \in [Attempts -> AttemptRow]
  BY <1>0, <1>1, <1>2, RequestColumns, NoJobType
<1>4. /\ RecoveredReq \in [Request -> RequestRow]
      /\ RecoveredAttempt \in [Request -> [Attempts -> AttemptRow]]
      /\ RecoveredJob \in [Request -> JobRow]
  <2>1. /\ RecoveredReq = [r \in Request |-> RecoveredReq[r]]
        /\ RecoveredAttempt = [r \in Request |-> RecoveredAttempt[r]]
        /\ RecoveredJob = [r \in Request |-> RecoveredJob[r]]
    BY DEF RecoveredReq, RecoveredAttempt, RecoveredJob
  <2> QED
    BY <1>3, <2>1
<1> QED
  BY <1>1, <1>2, <1>4

\* A step leaves the queue alone.
LEMMA QueueSame ==
    ASSUME QueueOK, UNCHANGED queueVars PROVE QueueOK'
  BY DEF QueueOK, QueueType, Rows, queueVars

\* Requests change without their leases and attempts, and without becoming
\* leased, claimable or unclaimable by it.
LEMMA RequestsChange ==
    ASSUME QueueOK, head' \in [Schedule -> HeadStatus], req' \in [Request -> RequestRow],
           UNCHANGED <<job, attempt>>,
           \A r \in Request :
             /\ req'[r].count = req[r].count
             /\ \/ req'[r].status = req[r].status
                \/ req[r].status = "none" /\ req'[r].status = "queued"
                \/ req[r].status \in {"queued", "retry_wait"} /\ req'[r].status = "cancelled"
    PROVE  QueueOK'
<1>1. QueueType'
  BY DEF QueueOK, QueueType
<1>2. ASSUME NEW r \in Request PROVE Agree(req'[r], job'[r], attempt'[r])
  <2>1. Agree(req[r], job[r], attempt[r]) /\ job'[r] = job[r] /\ attempt'[r] = attempt[r]
    BY DEF QueueOK, Rows
  <2> QED
    BY <2>1, QueueConstants DEF Agree
<1> QED
  BY <1>1, <1>2, QueueRows

\* Every step of run_one keeps the rows of the queue in agreement.
LEMMA RunOneQueue ==
    ASSUME IInv, NEW w \in Worker, RunOne(w) PROVE QueueOK'
<1>0. QueueOK /\ QueueType /\ AuthType /\ ProcType
  BY DEF IInv, QueueOK
<1>h. ASSUME pc[w] \in InHand
      PROVE  mem[w].cur \in JobLease /\ mem[w].cur.r \in Request
  BY <1>h DEF IInv, Hand, JobLease
<1> USE DEF queueVars, graphVars, procVars
<1>1. CASE RenewDispatched(w)
  <2>1. CASE Abort(w)
    BY <1>0, <2>1, QueueSame DEF Abort
  <2>2. CASE ~Abort(w)
    <3> DEFINE taken == {r \in Request : Takeover(r)}
               kept == {r \in Request : /\ req[r].status = "leased" /\ req[r].bound
                                        /\ job[r].owner = w /\ job[r].ttl > 0}
               fence(r) == IF r \in taken THEN (job[r].fence % MaxFence) + 1 ELSE job[r].fence
               left == Least(JobTTL, auth.ttl)
               row(r) == [owner |-> w, fence |-> fence(r), ttl |-> left]
    <3>1. /\ req' = RecoveredReq /\ attempt' = RecoveredAttempt /\ head' = head
          /\ job' = [r \in Request |-> IF r \in taken \cup kept THEN row(r) ELSE RecoveredJob[r]]
      BY <1>1, <2>2 DEF RenewDispatched
    <3>2. ASSUME NEW r \in Request PROVE fence(r) \in Fencing
      <4>1. job[r].fence \in 0..MaxFence /\ MaxFence \in Nat /\ MaxFence > 0
        BY <1>0, QueueConstants DEF QueueType, JobRow, Fencing
      <4>2. (job[r].fence % MaxFence) + 1 \in 0..MaxFence
        BY <4>1
      <4> QED
        BY <4>1, <4>2 DEF Fencing
    <3> HIDE DEF fence
    <3>3. left \in 0..JobTTL /\ left <= AuthorityTTL
      BY <1>0, LeastType, QueueConstants
    <3> HIDE DEF left
    <3>4. ASSUME NEW r \in Request
          PROVE  row(r) \in JobRow /\ row(r).owner = w /\ row(r).ttl = left
      BY <3>2, <3>3 DEF JobRow
    <3>5. ASSUME NEW r \in taken \cup kept
          PROVE  /\ r \in Request /\ ~(r \in Lapsed) /\ req[r].status = "leased"
      BY DEF Takeover, Expired, Lapsed
    <3> HIDE DEF taken, kept, row
    <3>6. QueueType'
      <4>1. job' \in [Request -> JobRow]
        BY <1>0, <3>1, <3>4, RecoveredOK
      <4> QED
        BY <1>0, <3>1, <4>1, RecoveredOK DEF QueueType
    <3>7. ASSUME NEW r \in Request PROVE Agree(req'[r], job'[r], attempt'[r])
      <4>1. CASE r \in taken \cup kept
        <5>1. req'[r] = req[r] /\ attempt'[r] = attempt[r] /\ job'[r] = row(r)
          BY <1>0, <3>1, <3>5, <4>1, RecoveredOK
        <5>2. Agree(req[r], job[r], attempt[r]) /\ req[r].status = "leased"
          BY <1>0, <3>5, <4>1 DEF QueueOK, Rows
        <5>3. w # Nobody
          BY QueueConstants
        <5> QED
          BY <3>3, <3>4, <5>1, <5>2, <5>3 DEF Agree
      <4>2. CASE r \notin taken \cup kept
        <5>1. req'[r] = RecoveredReq[r] /\ attempt'[r] = RecoveredAttempt[r]
              /\ job'[r] = RecoveredJob[r]
          BY <3>1, <4>2
        <5> QED
          BY <1>0, <5>1, RecoveredOK
      <4> QED
        BY <4>1, <4>2
    <3> QED
      BY <3>6, <3>7, QueueRows
  <2> QED
    BY <2>1, <2>2
<1>2. CASE Settle(w)
  <2> DEFINE j == mem[w].cur
             g == mem[w].seen
             row == [req[j.r] EXCEPT !.status = Outcome(g)]
  <2>1. j \in JobLease /\ j.r \in Request
    BY <1>2, <1>h DEF Settle, InHand
  <2>2. CASE g \in GraphEnd /\ HoldsJob(w, j)
    <3>1. EndJob(j.r, row, Verdict(g))
      BY <1>2, <2>2 DEF Settle, Abort, Leave
    <3>2. Outcome(g) \in SettledStatus
      BY <2>2 DEF Outcome, GraphEnd, SettledStatus
    <3>3. Verdict(g) \in AttemptStatus \ {"running"}
      BY DEF Verdict, AttemptStatus
    <3>4. req[j.r] \in RequestRow /\ job[j.r].owner # Nobody
      BY <1>0, <2>1, <2>2, RequestColumns, QueueConstants DEF HoldsJob
    <3>5. row \in RequestRow /\ row.status = Outcome(g) /\ row.count = req[j.r].count
      BY <3>2, <3>4 DEF RequestRow
    <3>6. row.status # "retry_wait"
      BY <3>2, <3>5 DEF SettledStatus
    <3> HIDE DEF row, j, g
    <3> QED
      BY <1>0, <2>1, <3>1, <3>2, <3>3, <3>4, <3>5, <3>6, EndJobOK
  <2>3. CASE ~(g \in GraphEnd /\ HoldsJob(w, j))
    BY <1>0, <1>2, <2>3, QueueSame DEF Settle, Abort
  <2> QED
    BY <2>2, <2>3
<1>3. CASE ClaimDue(w)
  <2>1. CASE Abort(w)
    BY <1>0, <2>1, QueueSame DEF Abort
  <2>2. CASE req' = RecoveredReq /\ attempt' = RecoveredAttempt /\ job' = RecoveredJob
             /\ head' = head
    <3>1. QueueType'
      BY <1>0, <2>2, RecoveredOK DEF QueueType
    <3> QED
      BY <1>0, <2>2, <3>1, RecoveredOK, QueueRows
  <2>3. ASSUME NEW r \in Request, NEW n, NEW fence, Due(RecoveredReq, r), n = req[r].count + 1,
               n \in Attempts, fence = Greatest({attempt[r][k].fence : k \in Attempts}) + 1,
               head' = head,
               req' = [RecoveredReq EXCEPT ![r].status = "leased", ![r].count = n],
               attempt' = [RecoveredAttempt EXCEPT ![r][n] =
                             [status |-> "running", started |-> FALSE, fence |-> fence]],
               job' = [RecoveredJob EXCEPT ![r] = [owner |-> w, fence |-> fence, ttl |-> ClaimTTL]]
        PROVE  QueueOK'
    <3>1. /\ req[r].count \in Nat /\ req[r].count < MaxAttempts /\ fence = n /\ Rows(r)
          /\ n \in 0..MaxAttempts
      <4>1. /\ req[r].count \in 0..MaxAttempts /\ n = req[r].count + 1 /\ n \in 1..MaxAttempts
            /\ MaxAttempts \in Nat
        <5>1. req[r].count \in 0..MaxAttempts
          BY <1>0, RequestColumns
        <5> QED
          BY <2>3, <5>1, QueueConstants DEF Attempts
      <4>2. req[r].count \in Nat /\ req[r].count < MaxAttempts /\ n \in 0..MaxAttempts
        BY <4>1
      <4> QED
        BY <1>0, <2>3, <4>1, <4>2, NextFence DEF QueueOK
    <3> DEFINE q == [RecoveredReq[r] EXCEPT !.status = "leased", !.count = n]
               a == [status |-> "running", started |-> FALSE, fence |-> fence]
               l == [owner |-> w, fence |-> fence, ttl |-> ClaimTTL]
    <3>2. /\ RecoveredReq \in [Request -> RequestRow] /\ RecoveredReq[r] \in RequestRow
          /\ RecoveredAttempt \in [Request -> [Attempts -> AttemptRow]]
          /\ RecoveredJob \in [Request -> JobRow]
          /\ Agree(RecoveredReq[r], RecoveredJob[r], RecoveredAttempt[r])
          /\ RecoveredReq[r].count = req[r].count
      BY <1>0, RecoveredOK
    <3>3. q \in RequestRow /\ q.status = "leased" /\ q.count = n
      BY <3>1, <3>2 DEF RequestRow, OpenStatus
    <3>4. a \in AttemptRow /\ a.status = "running" /\ a.fence = n
      BY <3>1, QueueConstants DEF AttemptRow, AttemptStatus, Fencing
    <3>5. l \in JobRow /\ l.owner = w /\ l.ttl <= AuthorityTTL
      BY <1>0, <3>1, LeastType, QueueConstants DEF JobRow, Fencing, ClaimTTL
    <3> HIDE DEF q, a, l
    <3>6. /\ req' = [RecoveredReq EXCEPT ![r] = q]
          /\ attempt' = [RecoveredAttempt EXCEPT ![r] = [RecoveredAttempt[r] EXCEPT ![n] = a]]
          /\ job' = [RecoveredJob EXCEPT ![r] = l]
      BY <2>3, <3>2 DEF q, a, l, RequestRow
    <3>7. QueueType'
      <4>1. [RecoveredAttempt[r] EXCEPT ![n] = a] \in [Attempts -> AttemptRow]
        BY <3>2, <3>4
      <4>2. attempt' \in [Request -> [Attempts -> AttemptRow]]
        BY <3>2, <3>6, <4>1
      <4>3. req' \in [Request -> RequestRow] /\ job' \in [Request -> JobRow]
        BY <3>2, <3>3, <3>5, <3>6
      <4> QED
        BY <1>0, <2>3, <4>2, <4>3 DEF QueueType
    <3>8. Agree(q, l, [RecoveredAttempt[r] EXCEPT ![n] = a])
      <4>1. RecoveredReq[r].status # "leased"
        BY <2>3 DEF Due
      <4>2. \A k \in Attempts : RecoveredAttempt[r][k].status # "running"
        BY <3>2, <4>1 DEF Agree
      <4>3. \A k \in Attempts :
              [RecoveredAttempt[r] EXCEPT ![n] = a][k] =
                IF k = n THEN a ELSE RecoveredAttempt[r][k]
        BY <2>3, <3>2
      <4>4. \A k \in Attempts \ {n} :
              RecoveredAttempt[r][k].fence = (IF k <= n THEN k ELSE 0)
        BY <2>3, <3>1, <3>2 DEF Agree, Attempts
      <4>5. w # Nobody /\ n # 0 /\ n <= n
        BY <2>3, <3>1, QueueConstants DEF Attempts
      <4> QED
        BY <3>3, <3>4, <3>5, <4>2, <4>3, <4>4, <4>5 DEF Agree
    <3>9. ASSUME NEW k \in Request PROVE Agree(req'[k], job'[k], attempt'[k])
      <4>1. CASE k = r
        BY <3>2, <3>6, <3>8, <4>1
      <4>2. CASE k # r
        <5>1. req'[k] = RecoveredReq[k] /\ attempt'[k] = RecoveredAttempt[k]
              /\ job'[k] = RecoveredJob[k]
          BY <3>2, <3>6, <4>2
        <5> QED
          BY <1>0, <5>1, RecoveredOK
      <4> QED
        BY <4>1, <4>2
    <3> QED
      BY <3>7, <3>9, QueueRows
  <2>4. CASE ~Abort(w) /\ ~(/\ req' = RecoveredReq /\ attempt' = RecoveredAttempt
                            /\ job' = RecoveredJob /\ head' = head)
    <3>1. PICK r \in Request :
            /\ Due(RecoveredReq, r) /\ req[r].count + 1 \in Attempts /\ head' = head
            /\ req' = [RecoveredReq EXCEPT ![r].status = "leased", ![r].count = req[r].count + 1]
            /\ attempt' = [RecoveredAttempt EXCEPT ![r][req[r].count + 1] =
                 [status |-> "running", started |-> FALSE,
                  fence |-> Greatest({attempt[r][k].fence : k \in Attempts}) + 1]]
            /\ job' = [RecoveredJob EXCEPT ![r] =
                 [owner |-> w, fence |-> Greatest({attempt[r][k].fence : k \in Attempts}) + 1,
                  ttl |-> ClaimTTL]]
      BY <1>3, <2>4 DEF ClaimDue
    <3> QED
      BY <2>3, <3>1
  <2> QED
    BY <2>1, <2>2, <2>4
<1>4. CASE CancelClaimed(w)
  <2> DEFINE j == mem[w].cur
             row == [req[j.r] EXCEPT !.status = "cancelled", !.cancel = TRUE]
  <2>1. j \in JobLease /\ j.r \in Request
    BY <1>4, <1>h DEF CancelClaimed, InHand
  <2>2. CASE Abort(w)
    BY <1>0, <2>2, QueueSame DEF Abort
  <2>3. CASE ~Abort(w)
    <3>1. EndJob(j.r, row, "failed") /\ HoldsJob(w, j)
      BY <1>4, <2>3 DEF CancelClaimed
    <3>2. req[j.r] \in RequestRow /\ job[j.r].owner # Nobody
      BY <1>0, <2>1, <3>1, RequestColumns, QueueConstants DEF HoldsJob
    <3>3. row \in RequestRow /\ row.status = "cancelled" /\ row.count = req[j.r].count
      BY <3>2 DEF RequestRow, SettledStatus
    <3>4. "cancelled" \in SettledStatus /\ "failed" \in AttemptStatus \ {"running"}
      BY DEF SettledStatus, AttemptStatus
    <3> HIDE DEF row, j
    <3> QED
      BY <1>0, <2>1, <3>1, <3>2, <3>3, <3>4, EndJobOK
  <2> QED
    BY <2>2, <2>3
<1>5. CASE MarkStarted(w)
  <2> DEFINE r == mem[w].cur.r
             n == req[r].count
  <2>1. r \in Request
    BY <1>5, <1>h DEF MarkStarted, InHand
  <2>2. CASE Abort(w)
    BY <1>0, <2>2, QueueSame DEF Abort
  <2>3. CASE ~Abort(w)
    <3>1. /\ attempt' = [attempt EXCEPT ![r][n].started = TRUE] /\ UNCHANGED <<head, req, job>>
          /\ req[r].status = "leased"
      BY <1>5, <2>3 DEF MarkStarted
    <3>2. n \in Attempts /\ attempt[r] \in [Attempts -> AttemptRow] /\ attempt[r][n] \in AttemptRow
      <4>1. n \in Attempts
        <5> HIDE DEF r
        <5>1. n \in 0..MaxAttempts /\ n # 0
          BY <1>0, <2>1, <3>1, RequestColumns DEF QueueOK, Rows, Agree
        <5> HIDE DEF n
        <5> QED
          BY <5>1, QueueConstants DEF Attempts
      <4> QED
        BY <1>0, <2>1, <4>1 DEF QueueType
    <3> DEFINE a == [attempt[r][n] EXCEPT !.started = TRUE]
    <3>3. a \in AttemptRow /\ a.status = attempt[r][n].status /\ a.fence = attempt[r][n].fence
      BY <3>2 DEF AttemptRow
    <3>4. attempt' = [attempt EXCEPT ![r] = [attempt[r] EXCEPT ![n] = a]]
      BY <1>0, <2>1, <3>1, <3>2 DEF QueueType, AttemptRow
    <3> HIDE DEF a, n, r
    <3>5. QueueType'
      <4>1. [attempt[r] EXCEPT ![n] = a] \in [Attempts -> AttemptRow]
        BY <3>2, <3>3
      <4>2. attempt' \in [Request -> [Attempts -> AttemptRow]]
        BY <1>0, <2>1, <3>4, <4>1 DEF QueueType
      <4> QED
        BY <1>0, <3>1, <4>2 DEF QueueType
    <3>6. ASSUME NEW k \in Request PROVE Agree(req'[k], job'[k], attempt'[k])
      <4>1. Agree(req[k], job[k], attempt[k])
        BY <1>0 DEF QueueOK, Rows
      <4>2. \A i \in Attempts : /\ attempt'[k][i].status = attempt[k][i].status
                                /\ attempt'[k][i].fence = attempt[k][i].fence
        BY <1>0, <2>1, <3>2, <3>3, <3>4 DEF QueueType
      <4> QED
        BY <3>1, <4>1, <4>2 DEF Agree
    <3> QED
      BY <3>5, <3>6, QueueRows
  <2> QED
    BY <2>2, <2>3
<1>6. CASE MarkDispatched(w)
  <2> DEFINE r == mem[w].cur.r
  <2>1. r \in Request
    BY <1>6, <1>h DEF MarkDispatched, InHand
  <2>2. CASE Abort(w)
    BY <1>0, <2>2, QueueSame DEF Abort
  <2>3. CASE ~Abort(w)
    <3>1. req' = [req EXCEPT ![r].bound = TRUE] /\ UNCHANGED <<head, job, attempt>>
      BY <1>6, <2>3 DEF MarkDispatched
    <3> DEFINE row == [req[r] EXCEPT !.bound = TRUE]
    <3>0. req \in [Request -> RequestRow] /\ req[r] \in RequestRow
      BY <1>0, <2>1 DEF QueueType
    <3>4. row \in RequestRow /\ row.count = req[r].count /\ row.status = req[r].status
      BY <3>0 DEF RequestRow
    <3>5. req' = [req EXCEPT ![r] = row]
      BY <3>0, <3>1
    <3> HIDE DEF row, r
    <3>2. /\ req' \in [Request -> RequestRow]
          /\ \A k \in Request : req'[k].count = req[k].count /\ req'[k].status = req[k].status
      BY <2>1, <3>0, <3>4, <3>5
    <3>3. head' \in [Schedule -> HeadStatus]
      BY <1>0, <3>1 DEF QueueType
    <3> QED
      BY <1>0, <3>1, <3>2, <3>3, RequestsChange
  <2> QED
    BY <2>2, <2>3
<1>7. CASE FailJob(w)
  <2> DEFINE j == mem[w].cur
             manual == UnknownIsManual(w, j.r)
             status == AfterFailure(j.r, manual)
             wait == IF status = "retry_wait" THEN Backoff(req[j.r].count) ELSE 0
             row == [req[j.r] EXCEPT !.status = status, !.wait = wait]
             v == IF manual THEN "outcome_unknown" ELSE "failed"
  <2>1. j \in JobLease /\ j.r \in Request
    BY <1>7, <1>h DEF FailJob, InHand
  <2>2. CASE Abort(w)
    BY <1>0, <2>2, QueueSame DEF Abort
  <2>3. CASE ~Abort(w)
    <3>1. EndJob(j.r, row, v) /\ HoldsJob(w, j)
      BY <1>7, <2>3 DEF FailJob
    <3>2. req[j.r] \in RequestRow /\ job[j.r].owner # Nobody /\ req[j.r].count \in Attempts
      <4>1. /\ req[j.r] \in RequestRow /\ job[j.r].owner # Nobody
            /\ req[j.r].count \in 0..MaxAttempts /\ req[j.r].count # 0
        BY <1>0, <2>1, <3>1, RequestColumns, QueueConstants DEF HoldsJob, QueueOK, Rows, Agree
      <4> QED
        BY <4>1, QueueConstants DEF Attempts
    <3>3. /\ status \in {"manual_reconcile_required", "dead_letter", "retry_wait"}
          /\ status = "retry_wait" => req[j.r].count < MaxAttempts
      BY <1>0, <2>1, RequestColumns, QueueConstants DEF AfterFailure
    <3>4. wait \in 0..RetryMax
      BY <3>2, BackoffType, QueueConstants
    <3>5. v \in AttemptStatus \ {"running"}
      BY DEF AttemptStatus
    <3> HIDE DEF status, wait, v
    <3>6. row \in RequestRow /\ row.status = status /\ row.count = req[j.r].count
      BY <3>2, <3>3, <3>4 DEF RequestRow, OpenStatus, SettledStatus
    <3>7. status \in SettledStatus \cup {"retry_wait"}
      BY <3>3 DEF SettledStatus
    <3> HIDE DEF row, j
    <3> QED
      BY <1>0, <2>1, <3>1, <3>2, <3>3, <3>5, <3>6, <3>7, EndJobOK
  <2> QED
    BY <2>2, <2>3
<1>8. CASE \/ ReconcileOne(w) \/ ReconcileDone(w) \/ CancelWorkflow(w) \/ CheckCancel(w)
           \/ Refused(w) \/ GatewayRaises(w) \/ ReserveRefused(w) \/ Reserve(w) \/ FindGraph(w)
           \/ CreateRun(w) \/ StartRun(w) \/ CompleteBinding(w)
  BY <1>0, <1>8, QueueSame
  DEF ReconcileOne, ReconcileDone, CancelWorkflow, Abort, CheckCancel, Refused, GatewayRaises,
      ReserveRefused,
      Reserve, FindGraph, CreateRun, StartRun, CompleteBinding
<1> QED
  BY <1>1, <1>2, <1>3, <1>4, <1>5, <1>6, <1>7, <1>8 DEF RunOne

-----------------------------------------------------------------------------
(***************************************************************************)
(* The steps outside run_one.                                              *)
(***************************************************************************)
\* The coordinator and the environment keep the workers' local state in order.
LEMMA OtherProc ==
    ASSUME IInv, (\E w \in Worker : Coordinate(w)) \/ Environment \/ Tick
    PROVE  ProcOK'
<1>0. ProcOK /\ pc \in [Worker -> Label] /\ mem \in [Worker -> Memory] /\ has \in [Worker -> BOOLEAN]
  BY DEF IInv, ProcOK, ProcType
<1> USE DEF queueVars, graphVars, procVars
<1>1. ASSUME UNCHANGED procVars PROVE ProcOK'
  BY <1>0, <1>1 DEF ProcOK, ProcType, Hand
<1>2. ASSUME NEW w \in Worker, AcquireAuthority(w) PROVE ProcOK'
  <2>1. /\ pc' = [pc EXCEPT ![w] = "ready"] /\ mem' = [mem EXCEPT ![w] = mem[w]]
        /\ has' \in [Worker -> BOOLEAN] /\ mem[w] \in Memory
    BY <1>0, <1>2 DEF AcquireAuthority
  <2> QED
    BY <1>0, <2>1, WorkerMoves DEF Label, InHand, Outside
<1>3. ASSUME NEW w \in Worker, RenewAuthority(w) \/ Stop(w) PROVE ProcOK'
  <2>1. PICK label \in {"ready", "aborting", "stopping"} : Goto(w, label)
    BY <1>3 DEF RenewAuthority, Stop
  <2>2. pc[w] \in Outside
    BY <1>3 DEF RenewAuthority, Stop, Outside
  <2> QED
    BY <1>0, <2>1, <2>2, GotoOK DEF Label, InHand, Outside
<1>4. ASSUME NEW w \in Worker, ReleaseAuthority(w) PROVE ProcOK'
  <2>1. PICK label \in {"idle", "closing"} : pc' = [pc EXCEPT ![w] = label]
    BY <1>4 DEF ReleaseAuthority
  <2>2. /\ mem' = [mem EXCEPT ![w] = mem[w]]
        /\ has' \in [Worker -> BOOLEAN] /\ mem[w] \in Memory /\ pc[w] \in Outside
    BY <1>0, <1>4 DEF ReleaseAuthority, Outside
  <2>3. mem[w].cur = NoLease
    BY <1>0, <2>2 DEF ProcOK, Hand
  <2> QED
    BY <1>0, <2>1, <2>2, <2>3, WorkerMoves DEF Label, InHand, Outside
<1>5. ASSUME NEW w \in Worker, Shutdown(w) PROVE ProcOK'
  <2>1. UNCHANGED procVars \/ Leave(w, "dead")
    BY <1>5 DEF Shutdown
  <2> QED
    BY <1>0, <1>1, <2>1, LeaveOK DEF Label, InHand
<1>6. ASSUME NEW w \in Worker, Crash(w) PROVE ProcOK'
  <2>1. /\ pc' = [pc EXCEPT ![w] = "dead"] /\ mem' = [mem EXCEPT ![w] = Blank]
        /\ has' \in [Worker -> BOOLEAN]
    BY <1>0, <1>6 DEF Crash
  <2>2. "dead" \in Label /\ "dead" \notin InHand
    BY DEF Label, InHand
  <2> QED
    BY <1>0, <2>1, <2>2, BlankType, WorkerMoves
<1>7. ASSUME Environment \/ Tick, \A w \in Worker : ~Stop(w) /\ ~Crash(w) PROVE ProcOK'
  <2>1. UNCHANGED procVars
    BY <1>7 DEF Environment, Tick, Enqueue, RequestCancel, GraphStep, GraphCancelled,
                ReplayDeadLetter, UpdateScheduleStatus, PutSchedule
  <2> QED
    BY <1>1, <2>1
<1> QED
  BY <1>2, <1>3, <1>4, <1>5, <1>6, <1>7 DEF Coordinate

\* What cancelling does to the row of a request.
LEMMA CancelMarkedRow ==
    ASSUME NEW row \in RequestRow
    PROVE  /\ CancelMarked(row) \in RequestRow
           /\ CancelMarked(row).count = row.count
           /\ \/ CancelMarked(row).status = row.status
              \/ row.status \in {"queued", "retry_wait"} /\ CancelMarked(row).status = "cancelled"
  BY DEF CancelMarked, RequestRow, OpenStatus, SettledStatus

\* The coordinator, users, triggers, graphs, failures and time keep the rows
\* of the queue in agreement.
LEMMA OtherQueue ==
    ASSUME IInv, (\E w \in Worker : Coordinate(w)) \/ Environment \/ Tick
    PROVE  QueueOK'
<1>0. /\ QueueOK /\ QueueType
      /\ head \in [Schedule -> HeadStatus] /\ req \in [Request -> RequestRow]
      /\ "queued" \in RequestStatus
  BY DEF IInv, QueueOK, QueueType, RequestStatus, OpenStatus
<1> USE DEF queueVars, graphVars, procVars
<1>1. ASSUME NEW w \in Worker, Coordinate(w) \/ Stop(w) \/ Crash(w) PROVE QueueOK'
  BY <1>0, <1>1, QueueSame
  DEF Coordinate, AcquireAuthority, RenewAuthority, ReleaseAuthority, Shutdown, Stop, Crash
<1>2. ASSUME NEW r \in Request, GraphStep(r) \/ GraphCancelled(r) PROVE QueueOK'
  BY <1>0, <1>2, QueueSame DEF GraphStep, GraphCancelled
<1>3. ASSUME NEW r \in Request, NEW idem \in BOOLEAN, NEW limit \in Limits \cup {0},
             req[r].status = "none",
             req' = [req EXCEPT ![r].status = "queued", ![r].idem = idem, ![r].limit = limit],
             UNCHANGED <<head, job, attempt>>
      PROVE  QueueOK'
  <2> DEFINE row == [req[r] EXCEPT !.status = "queued", !.idem = idem, !.limit = limit]
  <2>1. row \in RequestRow /\ row.status = "queued" /\ row.count = req[r].count
    BY <1>0 DEF RequestRow, RequestStatus
  <2>0. req' = [req EXCEPT ![r] = row]
    BY <1>0, <1>3 DEF RequestRow
  <2> HIDE DEF row
  <2>2. req' \in [Request -> RequestRow] /\ req'[r].status = "queued" /\ req'[r].count = req[r].count
    BY <1>0, <2>0, <2>1
  <2>3. \A k \in Request \ {r} : req'[k] = req[k]
    BY <1>0, <2>0
  <2>4. head' \in [Schedule -> HeadStatus]
    BY <1>0, <1>3
  <2> QED
    BY <1>0, <1>3, <2>2, <2>3, <2>4, RequestsChange
<1>4. ASSUME NEW r \in Request, RequestCancel(r) PROVE QueueOK'
  <2> DEFINE row == [req[r] EXCEPT !.cancel = TRUE]
             new == CancelMarked(row)
  <2>1. req' = [req EXCEPT ![r] = new] /\ UNCHANGED <<head, job, attempt>>
    BY <1>4 DEF RequestCancel
  <2>2. row \in RequestRow /\ row.count = req[r].count /\ row.status = req[r].status
    BY <1>0 DEF RequestRow
  <2> HIDE DEF row
  <2>3. /\ new \in RequestRow /\ new.count = req[r].count
        /\ \/ new.status = req[r].status
           \/ req[r].status \in {"queued", "retry_wait"} /\ new.status = "cancelled"
    BY <2>2, CancelMarkedRow
  <2> HIDE DEF new
  <2>4. /\ req' \in [Request -> RequestRow] /\ req'[r] = new
        /\ \A k \in Request \ {r} : req'[k] = req[k]
    BY <1>0, <2>1, <2>3
  <2>5. head' \in [Schedule -> HeadStatus]
    BY <1>0, <2>1
  <2> QED
    BY <1>0, <2>1, <2>3, <2>4, <2>5, RequestsChange
<1>5. ASSUME NEW s \in Schedule, NEW status \in Moves, UpdateScheduleStatus(s, status)
      PROVE  QueueOK'
  <2>1. head' \in [Schedule -> HeadStatus] /\ UNCHANGED <<job, attempt>>
    BY <1>0, <1>5, QueueConstants DEF UpdateScheduleStatus, HeadStatus
  <2>2. CASE req' = req
    BY <1>0, <2>1, <2>2, RequestsChange
  <2>3. CASE req' = [r \in Request |-> IF ScheduleOf[r] = s THEN CancelMarked(req[r]) ELSE req[r]]
    <3>1. ASSUME NEW r \in Request
          PROVE  /\ req'[r] \in RequestRow /\ req'[r].count = req[r].count
                 /\ \/ req'[r].status = req[r].status
                    \/ /\ req[r].status \in {"queued", "retry_wait"}
                       /\ req'[r].status = "cancelled"
      <4>1. req[r] \in RequestRow /\ req'[r] \in {CancelMarked(req[r]), req[r]}
        BY <1>0, <2>3
      <4> QED
        BY <4>1, CancelMarkedRow
    <3>2. req' \in [Request -> RequestRow]
      <4>1. req' = [r \in Request |-> req'[r]]
        BY <2>3
      <4> QED
        BY <3>1, <4>1
    <3> QED
      BY <1>0, <2>1, <3>1, <3>2, RequestsChange
  <2> QED
    BY <1>5, <2>2, <2>3 DEF UpdateScheduleStatus
<1>6. ASSUME NEW s \in Schedule, NEW status \in Moves, PutSchedule(s, status) PROVE QueueOK'
  <2>1. head' \in [Schedule -> HeadStatus] /\ UNCHANGED <<req, job, attempt>>
    BY <1>0, <1>6, QueueConstants DEF PutSchedule, HeadStatus
  <2> QED
    BY <1>0, <2>1, RequestsChange
<1>7. ASSUME Tick PROVE QueueOK'
  <2>1. ASSUME NEW r \in Request
        PROVE  /\ req'[r] \in RequestRow /\ job'[r] \in JobRow
               /\ req'[r].status = req[r].status /\ req'[r].count = req[r].count
               /\ job'[r].owner = job[r].owner /\ job'[r].ttl <= job[r].ttl
               /\ job'[r].ttl \in Nat
    <3>1. /\ req[r] \in RequestRow /\ job[r] \in JobRow /\ req[r].wait \in 0..RetryMax
          /\ job[r].ttl \in 0..JobTTL /\ RetryMax \in Nat /\ JobTTL \in Nat
      BY <1>0, QueueConstants DEF QueueType, RequestRow, JobRow
    <3>2. Less1(req[r].wait) \in 0..RetryMax
      BY <3>1, Less1Type
    <3>3. Less1(job[r].ttl) \in 0..JobTTL /\ Less1(job[r].ttl) <= job[r].ttl
      BY <3>1, Less1Type
    <3>4. /\ req'[r] = [req[r] EXCEPT !.wait = Less1(req[r].wait)]
          /\ job'[r] = [job[r] EXCEPT !.ttl = Less1(job[r].ttl)]
      BY <1>7, <3>1 DEF Tick, RequestRow, JobRow
    <3>5. req'[r] \in RequestRow /\ req'[r].status = req[r].status /\ req'[r].count = req[r].count
      BY <3>1, <3>2, <3>4 DEF RequestRow
    <3>6. job'[r] \in JobRow /\ job'[r].owner = job[r].owner /\ job'[r].ttl = Less1(job[r].ttl)
      BY <3>1, <3>3, <3>4 DEF JobRow
    <3> QED
      BY <3>1, <3>3, <3>5, <3>6
  <2>2. QueueType'
    <3>1. req' = [r \in Request |-> req'[r]] /\ job' = [r \in Request |-> job'[r]]
      BY <1>7 DEF Tick
    <3>2. req' \in [Request -> RequestRow] /\ job' \in [Request -> JobRow]
      BY <2>1, <3>1
    <3> QED
      BY <1>0, <1>7, <3>2 DEF QueueType, Tick
  <2>3. ASSUME NEW r \in Request PROVE Agree(req'[r], job'[r], attempt'[r])
    <3>1. Agree(req[r], job[r], attempt[r]) /\ attempt'[r] = attempt[r]
      BY <1>0, <1>7 DEF QueueOK, Rows, Tick
    <3>2. job[r].ttl \in Nat /\ AuthorityTTL \in Nat
      BY <1>0, RequestColumns, QueueConstants
    <3>3. job'[r].ttl <= AuthorityTTL
      BY <2>1, <3>1, <3>2 DEF Agree
    <3> QED
      BY <2>1, <3>1, <3>3 DEF Agree
  <2> QED
    BY <2>2, <2>3, QueueRows
<1>8. ASSUME NEW r \in Request, NEW idem \in Idempotency, NEW limit \in Limits,
             Enqueue(r, idem, limit)
      PROVE  QueueOK'
  <2>1. idem \in BOOLEAN
    BY QueueConstants
  <2> QED
    BY <1>3, <1>8, <2>1 DEF Enqueue
<1>9. ASSUME NEW r \in Request, NEW q \in Request, ReplayDeadLetter(r, q) PROVE QueueOK'
  <2>1. req[r].idem \in BOOLEAN /\ req[r].limit \in Limits \cup {0}
    BY <1>0 DEF RequestRow
  <2> QED
    BY <1>3, <1>9, <2>1 DEF ReplayDeadLetter
<1> QED
  BY <1>1, <1>2, <1>4, <1>5, <1>6, <1>7, <1>8, <1>9 DEF Environment

\* The authority row and the tables of the gateway keep their types.
LEMMA TablesTyped ==
    ASSUME IInv, Next PROVE AuthType' /\ GraphType'
<1>0. /\ AuthType /\ GraphType /\ AuthorityTTL \in Nat
      /\ auth.ttl \in 0..AuthorityTTL /\ auth.holder \in Worker \cup {Nobody}
      /\ binding \in [Request -> {"none", "pending", "completed"}]
      /\ graph \in [Request -> GraphStatus]
      /\ driven \in [Worker -> SUBSET Request] /\ entered \in [Request -> Nat]
  BY QueueConstants DEF IInv, AuthType, GraphType
<1> USE DEF queueVars, graphVars, procVars
<1>a. ASSUME UNCHANGED auth PROVE AuthType'
  BY <1>0, <1>a DEF AuthType
<1>g. ASSUME UNCHANGED graphVars PROVE GraphType'
  BY <1>0, <1>g DEF GraphType
<1>h. ASSUME NEW w \in Worker, pc[w] \in InHand PROVE mem[w].cur.r \in Request
  BY <1>h DEF IInv, Hand, JobLease
<1>e. ASSUME NEW r \in Request, NEW g \in GraphStatus, GraphEnds(r, g)
      PROVE  graph' \in [Request -> GraphStatus] /\ driven' \in [Worker -> SUBSET Request]
  BY <1>0, <1>e DEF GraphEnds
<1>1. ASSUME NEW w \in Worker, RunOne(w) PROVE AuthType' /\ GraphType'
  <2>1. UNCHANGED auth
    BY <1>1 DEF RunOne, RenewDispatched, ReconcileOne, ReconcileDone, CancelWorkflow, Settle,
                ClaimDue, CheckCancel, CancelClaimed, MarkStarted, Refused, GatewayRaises,
                ReserveRefused,
                Reserve, FindGraph, CreateRun, StartRun, CompleteBinding, MarkDispatched, FailJob
  <2>2. ASSUME ReconcileOne(w) PROVE GraphType'
    <3>1. PICK j \in mem[w].todo :
            /\ driven' \in {[driven EXCEPT ![w] = @ \cup {j.r}], driven}
            /\ UNCHANGED <<binding, graph, entered>>
      BY <2>2 DEF ReconcileOne
    <3>2. j.r \in Request
      BY DEF IInv, ProcType, Memory, JobLease
    <3> QED
      BY <1>0, <3>1, <3>2 DEF GraphType
  <2>3. ASSUME CancelWorkflow(w) PROVE GraphType'
    <3>1. mem[w].cur.r \in Request
      BY <1>h, <2>3 DEF CancelWorkflow, InHand
    <3>2. UNCHANGED <<binding, entered>>
      BY <2>3 DEF CancelWorkflow
    <3>3. \/ UNCHANGED <<graph, driven>>
          \/ \E g \in {"cancelled", "manual_reconcile_required"} : GraphEnds(mem[w].cur.r, g)
      BY <2>3 DEF CancelWorkflow
    <3>4. {"cancelled", "manual_reconcile_required"} \subseteq GraphStatus
      BY DEF GraphStatus, GraphEnd
    <3>5. graph' \in [Request -> GraphStatus] /\ driven' \in [Worker -> SUBSET Request]
      BY <1>0, <1>e, <3>1, <3>3, <3>4
    <3> QED
      BY <1>0, <3>2, <3>5 DEF GraphType
  <2>4. ASSUME Reserve(w) PROVE GraphType'
    <3>1. mem[w].cur.r \in Request
      BY <1>h, <2>4 DEF Reserve, InHand
    <3> QED
      BY <1>0, <2>4, <3>1 DEF GraphType, Reserve
  <2>5. ASSUME CreateRun(w) \/ StartRun(w) PROVE GraphType'
    <3>1. mem[w].cur.r \in Request
      BY <1>h, <2>5 DEF CreateRun, StartRun, InHand
    <3> QED
      BY <1>0, <2>5, <3>1 DEF GraphType, CreateRun, StartRun, GraphStatus
  <2>6. ASSUME CompleteBinding(w) PROVE GraphType'
    <3>1. mem[w].cur.r \in Request
      BY <1>h, <2>6 DEF CompleteBinding, InHand
    <3> QED
      BY <1>0, <2>6, <3>1 DEF GraphType, CompleteBinding
  <2>7. ASSUME UNCHANGED graphVars PROVE GraphType'
    BY <1>g, <2>7
  <2>8. \/ ReconcileOne(w) \/ CancelWorkflow(w) \/ Reserve(w) \/ CreateRun(w) \/ StartRun(w)
        \/ CompleteBinding(w) \/ UNCHANGED graphVars
    BY <1>1 DEF RunOne, RenewDispatched, ReconcileDone, Settle,
                ClaimDue, CheckCancel, CancelClaimed, MarkStarted, Refused, GatewayRaises,
                ReserveRefused,
                FindGraph, MarkDispatched, FailJob
  <2>9. GraphType'
    BY <2>2, <2>3, <2>4, <2>5, <2>6, <2>7, <2>8
  <2> QED
    BY <1>a, <2>1, <2>9
<1>2. ASSUME NEW w \in Worker, Coordinate(w) PROVE AuthType' /\ GraphType'
  <2>1. CASE AcquireAuthority(w)
    BY <1>0, <1>g, <2>1 DEF AcquireAuthority, AuthType
  <2>2. CASE RenewAuthority(w)
    BY <1>0, <1>g, <2>2 DEF RenewAuthority, AuthType
  <2>3. CASE ReleaseAuthority(w)
    BY <1>0, <1>g, <2>3 DEF ReleaseAuthority, AuthType, NoRow
  <2>4. CASE Shutdown(w)
    <3>1. UNCHANGED <<auth, binding, entered>>
      BY <2>4 DEF Shutdown
    <3>2. \/ UNCHANGED <<graph, driven>>
          \/ \E r \in driven[w], g \in {"interrupted", "manual_reconcile_required"} :
               graph' = [graph EXCEPT ![r] = g] /\ driven' = [driven EXCEPT ![w] = @ \ {r}]
      BY <2>4 DEF Shutdown
    <3>3. graph' \in [Request -> GraphStatus] /\ driven' \in [Worker -> SUBSET Request]
      BY <1>0, <3>2 DEF GraphStatus, GraphEnd
    <3> QED
      BY <1>0, <1>a, <3>1, <3>3 DEF GraphType
  <2> QED
    BY <1>2, <2>1, <2>2, <2>3, <2>4 DEF Coordinate
<1>3. CASE Environment
  <2>1. UNCHANGED auth
    BY <1>3 DEF Environment, Enqueue, RequestCancel, GraphStep, GraphCancelled, ReplayDeadLetter,
                UpdateScheduleStatus, PutSchedule, Stop, Crash
  <2>2. ASSUME NEW r \in Request, GraphStep(r) \/ GraphCancelled(r) PROVE GraphType'
    <3>1. UNCHANGED <<binding, entered>>
      BY <2>2 DEF GraphStep, GraphCancelled
    <3>2. \/ \E g \in GraphEnd : GraphEnds(r, g)
          \/ \E g \in {"running", "waiting"} : graph' = [graph EXCEPT ![r] = g] /\ UNCHANGED driven
      BY <2>2 DEF GraphStep, GraphCancelled, GraphEnd
    <3>3. GraphEnd \subseteq GraphStatus /\ {"running", "waiting"} \subseteq GraphStatus
      BY DEF GraphStatus
    <3>4. graph' \in [Request -> GraphStatus] /\ driven' \in [Worker -> SUBSET Request]
      BY <1>0, <1>e, <3>2, <3>3
    <3> QED
      BY <1>0, <3>1, <3>4 DEF GraphType
  <2>3. ASSUME NEW w \in Worker, Crash(w) PROVE GraphType'
    BY <1>0, <2>3 DEF Crash, GraphType
  <2>4. \/ \E r \in Request : GraphStep(r) \/ GraphCancelled(r)
        \/ \E w \in Worker : Crash(w)
        \/ UNCHANGED graphVars
    BY <1>3 DEF Environment, Enqueue, RequestCancel, ReplayDeadLetter, UpdateScheduleStatus,
                PutSchedule, Stop
  <2> QED
    BY <1>a, <1>g, <2>1, <2>2, <2>3, <2>4
<1>4. CASE Tick
  <2>1. Less1(auth.ttl) \in 0..AuthorityTTL
    BY <1>0, Less1Type
  <2> QED
    BY <1>0, <1>g, <1>4, <2>1 DEF Tick, AuthType
<1> QED
  BY <1>1, <1>2, <1>3, <1>4 DEF Next

-----------------------------------------------------------------------------
(***************************************************************************)
(* A job lease ends with the authority under which it was taken.           *)
(***************************************************************************)
\* A step that takes no lease and leaves the authority alone, and after which
\* only workers that were inside run_one before are inside it.
LEMMA CoveredStays ==
    ASSUME IInv, NEW v \in Worker, UNCHANGED <<auth, has>>,
           pc'[v] \notin Outside => pc[v] \notin Outside,
           \A r \in Request : job'[r] \in {job[r], NoJob}
    PROVE  Covered(v)'
<1>1. Covered(v)
  BY DEF IInv
<1>2. NoJob.owner # v
  BY NoJobType, QueueConstants
<1> QED
  BY <1>1, <1>2 DEF Covered

\* The Writer takes, keeps or takes over leases that end with its authority.
LEMMA CoveredTaken ==
    ASSUME IInv, NEW w \in Worker, NEW v \in Worker, HoldsAuthority(w), UNCHANGED <<auth, has>>,
           pc[w] \notin Outside, v # w => pc'[v] = pc[v],
           \A r \in Request : \/ job'[r] \in {job[r], NoJob}
                              \/ job'[r].owner = w /\ job'[r].ttl <= auth.ttl
    PROVE  Covered(v)'
<1>1. Covered(v) /\ NoJob.owner # v
  BY NoJobType, QueueConstants DEF IInv
<1>2. CASE v = w
  BY <1>1, <1>2 DEF Covered, HoldsAuthority
<1>3. CASE v # w
  BY <1>1, <1>3 DEF Covered
<1> QED
  BY <1>2, <1>3

\* Every step of run_one keeps the leases within the authority.
LEMMA RunOneCovered ==
    ASSUME IInv, NEW w \in Worker, NEW v \in Worker, RunOne(w) PROVE Covered(v)'
<1>0. /\ QueueOK /\ AuthType /\ pc \in [Worker -> Label]
      /\ job \in [Request -> JobRow]
  BY DEF IInv, QueueOK, QueueType, ProcType
<1> USE DEF queueVars, graphVars, procVars
<1>1. UNCHANGED <<auth, has>> /\ pc[w] \notin Outside
  BY DEF RunOne, RenewDispatched, ReconcileOne, ReconcileDone, CancelWorkflow, Settle,
         ClaimDue, CheckCancel, CancelClaimed, MarkStarted, Refused, GatewayRaises, ReserveRefused,
         Reserve, FindGraph, CreateRun, StartRun, CompleteBinding, MarkDispatched, FailJob,
         Abort, Leave, Goto, NextDispatch, Outside
<1>2. v # w => pc'[v] = pc[v]
  <2>1. \E label : pc' = [pc EXCEPT ![w] = label]
    BY DEF RunOne, RenewDispatched, ReconcileOne, ReconcileDone, CancelWorkflow, Settle,
         ClaimDue, CheckCancel, CancelClaimed, MarkStarted, Refused, GatewayRaises, ReserveRefused,
         Reserve, FindGraph, CreateRun, StartRun, CompleteBinding, MarkDispatched, FailJob,
         Abort, Leave, Goto, NextDispatch
  <2> QED
    BY <1>0, <2>1
<1>3. pc'[v] \notin Outside => pc[v] \notin Outside
  BY <1>1, <1>2
<1>4. CASE job' = job
  BY <1>1, <1>3, <1>4, CoveredStays
<1>5. CASE \E r : job' = [job EXCEPT ![r] = NoJob]
  <2>1. \A r \in Request : job'[r] \in {job[r], NoJob}
    BY <1>0, <1>5
  <2> QED
    BY <1>1, <1>3, <2>1, CoveredStays
<1>6. CASE RenewDispatched(w) /\ job' # job
  <2> DEFINE left == Least(JobTTL, auth.ttl)
  <2>1. HoldsAuthority(w)
    BY <1>6 DEF RenewDispatched, Abort
  <2>2. \A r \in Request : \/ job'[r] = RecoveredJob[r]
                           \/ job'[r].owner = w /\ job'[r].ttl = left
    BY <1>6, <2>1 DEF RenewDispatched
  <2>3. left <= auth.ttl
    BY <1>0, LeastType
  <2>4. \A r \in Request : RecoveredJob[r] \in {job[r], NoJob}
    BY <1>0, RecoveredOK
  <2> QED
    BY <1>1, <1>2, <2>1, <2>2, <2>3, <2>4, CoveredTaken
<1>7. CASE ClaimDue(w) /\ job' # job
  <2>1. HoldsAuthority(w)
    BY <1>7 DEF ClaimDue, Abort
  <2>2. ClaimTTL <= auth.ttl
    BY <1>0, LeastType DEF ClaimTTL
  <2>3. \A r \in Request : RecoveredJob[r] \in {job[r], NoJob}
    BY <1>0, RecoveredOK
  <2>4. CASE job' = RecoveredJob
    BY <1>1, <1>3, <2>3, <2>4, CoveredStays
  <2>5. CASE job' # RecoveredJob
    <3>1. PICK r \in Request : \E fence :
            job' = [RecoveredJob EXCEPT ![r] = [owner |-> w, fence |-> fence, ttl |-> ClaimTTL]]
      BY <1>7, <2>5 DEF ClaimDue, Abort
    <3>2. RecoveredJob \in [Request -> JobRow]
      BY <1>0, RecoveredOK
    <3>3. \A k \in Request : \/ job'[k] = RecoveredJob[k]
                             \/ job'[k].owner = w /\ job'[k].ttl = ClaimTTL
      BY <3>1, <3>2
    <3> QED
      BY <1>1, <1>2, <2>1, <2>2, <2>3, <3>3, CoveredTaken
  <2> QED
    BY <2>4, <2>5
<1>8. \/ job' = job \/ RenewDispatched(w) \/ ClaimDue(w)
      \/ \E r : job' = [job EXCEPT ![r] = NoJob]
  BY DEF RunOne, ReconcileOne, ReconcileDone, CancelWorkflow, Settle, CheckCancel,
         CancelClaimed, MarkStarted, Refused, GatewayRaises,
         ReserveRefused, Reserve, FindGraph, CreateRun,
         StartRun, CompleteBinding, MarkDispatched, FailJob, Abort, EndJob
<1> QED
  BY <1>4, <1>5, <1>6, <1>7, <1>8

\* So do the coordinator, the environment and time: an authority is acquired
\* when no lease is alive under another one.
LEMMA OtherCovered ==
    ASSUME IInv, NEW v \in Worker, (\E w \in Worker : Coordinate(w)) \/ Environment \/ Tick
    PROVE  Covered(v)'
<1>0. /\ QueueType /\ AuthType /\ AuthorityTTL \in Nat /\ pc \in [Worker -> Label]
      /\ has \in [Worker -> BOOLEAN] /\ Covered(v)
      /\ auth.ttl \in Nat /\ \A r \in Request : job[r].ttl \in Nat /\ job[r].ttl <= AuthorityTTL
  <2>1. QueueType /\ AuthType /\ ProcType /\ Covered(v) /\ \A r \in Request : Rows(r)
    BY DEF IInv
  <2>2. \A r \in Request : job[r].ttl \in Nat
    BY <2>1, RequestColumns
  <2>3. \A r \in Request : job[r].ttl <= AuthorityTTL
    BY <2>1 DEF Rows, Agree
  <2>4. auth.ttl \in Nat
    BY <2>1, LeastType
  <2> QED
    BY <2>1, <2>2, <2>3, <2>4, QueueConstants DEF ProcType
<1> USE DEF queueVars, graphVars, procVars
<1>1. ASSUME NEW w \in Worker, AcquireAuthority(w) PROVE Covered(v)'
  <2>1. /\ job' = job /\ auth' = [holder |-> w, ttl |-> AuthorityTTL] /\ auth.ttl = 0
        /\ has' = [has EXCEPT ![w] = TRUE] /\ pc' = [pc EXCEPT ![w] = "ready"]
    BY <1>1 DEF AcquireAuthority
  <2>2. CASE v = w
    BY <1>0, <2>1, <2>2 DEF Covered
  <2>3. CASE v # w
    <3>1. pc'[v] = pc[v]
      BY <1>0, <2>1, <2>3
    <3>2. pc[v] \notin Outside => \A r \in Request : ~(job[r].owner = v /\ job[r].ttl > 0)
      BY <1>0, <2>1 DEF Covered
    <3> QED
      BY <2>1, <3>1, <3>2 DEF Covered
  <2> QED
    BY <2>2, <2>3
<1>2. ASSUME NEW w \in Worker, RenewAuthority(w) PROVE Covered(v)'
  <2>1. job' = job /\ has' = has
    BY <1>2 DEF RenewAuthority, Goto
  <2>2. CASE HoldsAuthority(w)
    <3>1. /\ auth' = [auth EXCEPT !.ttl = AuthorityTTL] /\ pc' = [pc EXCEPT ![w] = "ready"]
      BY <1>2, <2>2 DEF RenewAuthority, Goto
    <3>2. auth'.ttl = AuthorityTTL /\ auth'.holder = auth.holder
      BY <1>0, <3>1 DEF AuthType
    <3>3. CASE v = w
      BY <1>0, <2>1, <2>2, <3>2, <3>3 DEF Covered, HoldsAuthority
    <3>4. CASE v # w
      BY <1>0, <2>1, <3>1, <3>2, <3>4 DEF Covered
    <3> QED
      BY <3>3, <3>4
  <2>3. CASE ~HoldsAuthority(w)
    <3>1. auth' = auth /\ pc' = [pc EXCEPT ![w] = "aborting"]
      BY <1>2, <2>3 DEF RenewAuthority, Goto
    <3>2. pc'[v] \notin Outside => pc[v] \notin Outside
      BY <1>0, <3>1 DEF Outside
    <3> QED
      BY <2>1, <3>1, <3>2, CoveredStays
  <2> QED
    BY <2>2, <2>3
<1>3. ASSUME NEW w \in Worker, ReleaseAuthority(w) \/ Crash(w) PROVE Covered(v)'
  <2>1. /\ job' = job /\ has' = [has EXCEPT ![w] = FALSE]
        /\ auth' = auth \/ auth.holder = w
    BY <1>3 DEF ReleaseAuthority, Crash
  <2>2. PICK label \in Outside : pc' = [pc EXCEPT ![w] = label]
    BY <1>3 DEF ReleaseAuthority, Crash, Outside
  <2>3. CASE v = w
    BY <1>0, <2>2, <2>3 DEF Covered
  <2>4. CASE v # w
    <3>1. pc'[v] = pc[v] /\ has'[v] = has[v]
      BY <1>0, <2>1, <2>2, <2>4
    <3>2. auth' = auth \/ auth.holder # v
      BY <2>1, <2>4
    <3> QED
      BY <1>0, <2>1, <3>1, <3>2 DEF Covered
  <2> QED
    BY <2>3, <2>4
<1>4. ASSUME NEW w \in Worker, Shutdown(w) \/ Stop(w) PROVE Covered(v)'
  <2>1. job' = job /\ UNCHANGED <<auth, has>>
    BY <1>4 DEF Shutdown, Stop, Leave, Goto
  <2>2. pc' = pc \/ \E label \in Outside : pc' = [pc EXCEPT ![w] = label]
    BY <1>4 DEF Shutdown, Stop, Leave, Goto, Outside
  <2>3. pc'[v] \notin Outside => pc[v] \notin Outside
    BY <1>0, <2>2
  <2> QED
    BY <2>1, <2>3, CoveredStays
<1>5. ASSUME Tick PROVE Covered(v)'
  <2>1. /\ auth'.ttl = Less1(auth.ttl) /\ auth'.holder = auth.holder
        /\ UNCHANGED <<pc, has>>
    BY <1>0, <1>5 DEF Tick, AuthType
  <2>2. ASSUME NEW r \in Request
        PROVE  job'[r].owner = job[r].owner /\ job'[r].ttl = Less1(job[r].ttl)
    <3>1. job[r] \in JobRow
      BY <1>0, RequestColumns
    <3>2. job'[r] = [job[r] EXCEPT !.ttl = Less1(job[r].ttl)]
      BY <1>5, <3>1 DEF Tick, JobRow
    <3> QED
      BY <3>1, <3>2 DEF JobRow
  <2>3. ASSUME NEW r \in Request, pc[v] \notin Outside, job'[r].owner = v, job'[r].ttl > 0
        PROVE  has'[v] /\ auth'.holder = v /\ job'[r].ttl <= auth'.ttl
    <3>1. job[r].owner = v /\ Less1(job[r].ttl) > 0 /\ job[r].ttl \in Nat
      BY <1>0, <2>2, <2>3
    <3>2. job[r].ttl > 0
      BY <3>1, Less1Order
    <3>3. has[v] /\ auth.holder = v /\ job[r].ttl <= auth.ttl
      BY <1>0, <2>3, <3>1, <3>2 DEF Covered
    <3>4. Less1(job[r].ttl) <= Less1(auth.ttl)
      BY <1>0, <3>1, <3>3, Less1Order
    <3> QED
      BY <2>1, <2>2, <3>3, <3>4
  <2> QED
    BY <2>1, <2>3 DEF Covered
<1>6. CASE UNCHANGED <<job, auth, has, pc>>
  BY <1>6, CoveredStays
<1>7. \/ \E w \in Worker : Coordinate(w) \/ Stop(w) \/ Crash(w)
      \/ Tick \/ UNCHANGED <<job, auth, has, pc>>
  BY DEF Environment, Enqueue, RequestCancel, GraphStep, GraphCancelled, ReplayDeadLetter,
         UpdateScheduleStatus, PutSchedule
<1> QED
  BY <1>1, <1>2, <1>3, <1>4, <1>5, <1>6, <1>7 DEF Coordinate

-----------------------------------------------------------------------------
(***************************************************************************)
(* The theorems.                                                           *)
(***************************************************************************)
\* The empty queue satisfies the inductive invariant.
LEMMA InitIInv == Init => IInv
<1> SUFFICES ASSUME Init PROVE IInv
  OBVIOUS
<1>1. /\ NoJob \in JobRow /\ NoAttempt \in AttemptRow /\ NoRow.ttl = 0 /\ NoRow.holder = Nobody
      /\ NoAttempt.status = "none" /\ NoAttempt.fence = 0
  BY NoJobType, QueueConstants DEF NoAttempt, AttemptRow, AttemptStatus, Fencing, NoRow
<1> DEFINE new == [status |-> "none", count |-> 0, cancel |-> FALSE, bound |-> FALSE, wait |-> 0,
                   idem |-> FALSE, limit |-> 0]
<1>2. new \in RequestRow /\ new.status = "none" /\ new.count = 0
  BY QueueConstants DEF RequestRow
<1> HIDE DEF new
<1>3. /\ req = [r \in Request |-> new] /\ job = [r \in Request |-> NoJob]
      /\ attempt = [r \in Request |-> [n \in Attempts |-> NoAttempt]]
  BY DEF Init, new
<1>4. QueueType
  <2>1. [n \in Attempts |-> NoAttempt] \in [Attempts -> AttemptRow]
    BY <1>1
  <2>2. attempt \in [Request -> [Attempts -> AttemptRow]]
    BY <1>3, <2>1
  <2>3. req \in [Request -> RequestRow] /\ job \in [Request -> JobRow]
    BY <1>1, <1>2, <1>3
  <2> QED
    BY <2>2, <2>3 DEF Init, QueueType, HeadStatus
<1>5. AuthType
  BY QueueConstants DEF Init, AuthType, NoRow
<1>6. GraphType
  BY DEF Init, GraphType, GraphStatus
<1>7. ProcType /\ \A w \in Worker : Hand(w) /\ pc[w] \in Outside
  BY BlankType DEF Init, ProcType, Hand, Label, InHand, Outside
<1>8. ASSUME NEW r \in Request PROVE Rows(r)
  <2>1. /\ req[r] = new /\ job[r] = NoJob
        /\ \A n \in Attempts : attempt[r][n] = NoAttempt
    BY <1>3
  <2>2. \A n \in Attempts : ~(n <= 0) /\ n # 0
    BY DEF Attempts
  <2> QED
    BY <1>1, <1>2, <2>1, <2>2, NoJobType, QueueConstants DEF Rows, Agree
<1> QED
  BY <1>4, <1>5, <1>6, <1>7, <1>8 DEF IInv, Covered

\* Every step keeps the inductive invariant.
LEMMA NextIInv == IInv /\ [Next]_vars => IInv'
<1> SUFFICES ASSUME IInv, [Next]_vars PROVE IInv'
  OBVIOUS
<1>1. CASE Next
  <2>1. AuthType' /\ GraphType'
    BY <1>1, TablesTyped
  <2>2. graph' \in [Request -> GraphStatus]
    BY <2>1 DEF GraphType
  <2>3. ProcOK'
    BY <1>1, <2>2, RunOneProc, OtherProc DEF Next
  <2>4. QueueOK'
    BY <1>1, RunOneQueue, OtherQueue DEF Next
  <2>5. \A v \in Worker : Covered(v)'
    BY <1>1, RunOneCovered, OtherCovered DEF Next
  <2> QED
    BY <2>1, <2>3, <2>4, <2>5 DEF IInv, ProcOK, QueueOK
<1>2. CASE UNCHANGED vars
  <2>1. UNCHANGED <<auth, has, pc, job, mem>> /\ UNCHANGED queueVars /\ UNCHANGED graphVars
    BY <1>2 DEF vars, queueVars, graphVars
  <2>2. QueueOK'
    BY <2>1, QueueSame DEF IInv, QueueOK
  <2>3. \A v \in Worker : Covered(v)'
    BY <2>1, CoveredStays
  <2>4. AuthType' /\ GraphType' /\ ProcType' /\ \A v \in Worker : Hand(v)'
    BY <2>1 DEF IInv, AuthType, GraphType, ProcType, Hand, graphVars
  <2> QED
    BY <2>2, <2>3, <2>4 DEF IInv, QueueOK
<1> QED
  BY <1>1, <1>2

\* The inductive invariant holds in every reachable state of the queue.
THEOREM Invariance == Spec => []IInv
  BY InitIInv, NextIInv, PTL DEF Spec

\* Every table, and every local variable of run_one, keeps its type: the
\* fencing of a lease, the number of an attempt and every timer included.
THEOREM TypeCorrect == Spec => []TypeOK
<1>1. IInv => TypeOK
  BY DEF IInv, QueueType, AuthType, GraphType, ProcType, TypeOK
<1> QED
  BY <1>1, Invariance, PTL

\* A worker with a job in hand under a lease that is alive is the Writer,
\* although mark_side_effect_started, fail_job, mark_workflow_dispatched and
\* complete_job look at the job lease alone.
THEOREM OneWriter == Spec => []SingleWriter
<1>1. IInv => SingleWriter
  <2> SUFFICES ASSUME IInv, NEW w \in Worker, mem[w].cur # NoLease, HoldsJob(w, mem[w].cur)
               PROVE  HoldsAuthority(w)
    BY DEF SingleWriter
  <2>1. pc[w] \notin Outside /\ mem[w].cur \in JobLease
    BY DEF IInv, Hand, ProcType, Memory
  <2>2. mem[w].cur.r \in Request
    BY <2>1 DEF JobLease
  <2> DEFINE r == mem[w].cur.r
  <2>3. job[r].owner = w /\ job[r].ttl > 0 /\ job[r].ttl \in Nat /\ auth.ttl \in Nat
    <3>1. job[r].owner = w /\ job[r].ttl > 0
      BY DEF HoldsJob
    <3>2. job[r].ttl \in Nat /\ auth.ttl \in Nat
      BY <2>2, RequestColumns, LeastType DEF IInv
    <3> QED
      BY <3>1, <3>2
  <2> HIDE DEF r
  <2>4. r \in Request
    BY <2>2 DEF r
  <2>5. has[w] /\ auth.holder = w /\ job[r].ttl <= auth.ttl
    BY <2>1, <2>3, <2>4 DEF IInv, Covered
  <2> QED
    BY <2>3, <2>5 DEF HoldsAuthority
<1> QED
  BY <1>1, Invariance, PTL

\* A request is leased exactly while its job lease row exists and its latest
\* attempt runs: no claim, failure, recovery or take-over loses a lease or
\* leaves an attempt open.
THEOREM LeasesMatch == Spec => []LeaseMatchesAttempt
<1>1. IInv => LeaseMatchesAttempt
  BY DEF IInv, Rows, Agree, LeaseMatchesAttempt
<1> QED
  BY <1>1, Invariance, PTL

\* max_attempts bounds the attempts, although claim_due does not compare them:
\* a request that can be claimed has an attempt left.
THEOREM AttemptsBounded == Spec => []AttemptsLeft
<1>1. IInv => AttemptsLeft
  BY DEF IInv, Rows, Agree, AttemptsLeft
<1> QED
  BY <1>1, Invariance, PTL
=============================================================================

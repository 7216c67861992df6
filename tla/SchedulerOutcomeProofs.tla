------------------------ MODULE SchedulerOutcomeProofs ------------------------
(***************************************************************************)
(* What becomes of a request of SchedulerQueue: theorems about its         *)
(* outcome, its dispatches and the limit of its schedule, for any number   *)
(* of Core processes, requests and schedules.  They rest on the invariant  *)
(* of SchedulerQueueProofs.                                                *)
(***************************************************************************)
EXTENDS SchedulerQueueProofs, FiniteSetTheorems

-----------------------------------------------------------------------------
(***************************************************************************)
(* The inductive invariant.                                                *)
(***************************************************************************)
\* Statuses of a graph that no step changes any more
Final == {"completed", "failed", "cancelled"}
\* The worker has claimed the job in hand and has not bound it to a graph.
Dispatching == {"claimed", "dropping", "starting", "marked", "reserved", "creating", "start_run",
                "completing", "binding", "failing", "failing_unknown"}
\* The worker has claimed the job in hand and has not entered the registry.
Before == {"claimed", "dropping", "starting", "failing"}

\* A request is bound when its graph exists and its binding is complete, its
\* status says what became of the graph, and nobody drives a final graph.
Truthful(r) ==
    /\ binding[r] = "completed" => graph[r] # "none"
    /\ graph[r] \in Final => \A w \in Worker : r \notin driven[w]
    /\ req[r].status = "succeeded" => req[r].bound /\ graph[r] = "completed"
    /\ req[r].bound =>
         /\ binding[r] = "completed"
         /\ req[r].status = "cancelled" => graph[r] = "cancelled"
         /\ req[r].status = "dead_letter" => graph[r] = "failed"
         /\ req[r].status \in SettledStatus \cup {"leased"}

\* What a worker relies on between two transactions: the jobs to reconcile
\* are bound, a status that was read and is final is still the graph's, and
\* the job it dispatches under a lease of its own is not bound.
Relies(w) ==
    /\ \A j \in mem[w].todo : req[j.r].bound
    /\ pc[w] \in {"cancelling", "settle"} => req[mem[w].cur.r].bound
    /\ pc[w] = "settle" /\ mem[w].seen \in Final => graph[mem[w].cur.r] = mem[w].seen
    /\ pc[w] = "completing" => graph[mem[w].cur.r] # "none"
    /\ pc[w] = "binding" => binding[mem[w].cur.r] = "completed"
    /\ pc[w] \in Dispatching /\ job[mem[w].cur.r].owner = w => ~req[mem[w].cur.r].bound

\* w will enter the registry for r, whether or not its lease is still alive.
Entering(w, r) == pc[w] = "marked" /\ mem[w].cur.r = r

\* A non-idempotent request enters the registry once: while somebody may
\* still do so, or has, it is settled or its running attempt is started.
EntersOnce(r) ==
    /\ req[r].status = "none" => ~req[r].idem
    /\ ~req[r].idem =>
         /\ entered[r] <= 1
         /\ \A w \in Worker : Entering(w, r) =>
              entered[r] = 0 /\ \A v \in Worker : Entering(v, r) => v = w
         /\ (entered[r] # 0 \/ \E w \in Worker : Entering(w, r)) =>
              \/ req[r].status \in SettledStatus
              \/ req[r].status = "leased" /\ attempt[r][req[r].count].started

\* Nobody has entered the registry for r, or will before it is marked again.
Fresh(r) == entered[r] = 0 /\ \A v \in Worker : ~Entering(v, r)

\* The holder of a lease that has not entered finds that nobody has or will.
Unentered(w) ==
    LET r == mem[w].cur.r
    IN  pc[w] \in Before /\ job[r].owner = w /\ ~req[r].idem => Fresh(r)

Leased(s) == {r \in Request : ScheduleOf[r] = s /\ req[r].status = "leased"}

Within(s, n) == {r \in Leased(s) : req[r].limit <= n}

\* The leased requests of a schedule are finitely many, and those whose version
\* allows at most n are at most n.
Limited(s) == IsFiniteSet(Leased(s)) /\ \A n \in Nat : Cardinality(Within(s, n)) <= n

OInv ==
    /\ \A r \in Request : Truthful(r) /\ EntersOnce(r)
    /\ \A w \in Worker : Relies(w) /\ Unentered(w)
    /\ \A s \in Schedule : Limited(s)

-----------------------------------------------------------------------------
(***************************************************************************)
(* What one step may do to the rows of one request.                        *)
(***************************************************************************)
Kept(r) ==
    /\ req'[r].bound = req[r].bound /\ req'[r].idem = req[r].idem
    /\ req'[r].limit = req[r].limit
Unrun(r) == req'[r].count = req[r].count /\ attempt'[r] = attempt[r]

Still(r) ==
    /\ Kept(r) /\ Unrun(r)
    /\ req'[r].status = req[r].status /\ job'[r].owner = job[r].owner

\* A trigger or a replay opens it.
Opened(r) ==
    /\ req[r].status = "none" /\ req'[r].status = "queued"
    /\ req'[r].bound = req[r].bound /\ Unrun(r) /\ job'[r].owner = job[r].owner

\* A user cancels it while nobody has it.
Dropped(r) ==
    /\ req[r].status \in {"queued", "retry_wait"} /\ req'[r].status = "cancelled"
    /\ Kept(r) /\ Unrun(r) /\ job'[r].owner = job[r].owner

\* Its lease has expired: _recover_expired_jobs gives it up.
Lapsing(r) ==
    /\ req[r].status = "leased" /\ ~req[r].bound
    /\ req'[r].status = AfterFailure(r, Unsafe(r))
    /\ Kept(r) /\ job'[r].owner = Nobody

\* w claims it, perhaps after its lease has expired.
Claimed(w, r) ==
    /\ ClaimDue(w)
    /\ \/ req[r].status \in {"queued", "retry_wait"}
       \/ req[r].status = "leased" /\ ~req[r].bound /\ AfterFailure(r, Unsafe(r)) = "retry_wait"
    /\ req'[r].status = "leased" /\ Kept(r)
    /\ job'[r].owner = w /\ pc'[w] = "claimed" /\ mem'[w].cur.r = r

\* w takes it over with its graph, or renews its lease.
Taken(w, r) ==
    /\ req[r].status = "leased" /\ req[r].bound
    /\ req'[r].status = "leased" /\ Kept(r) /\ Unrun(r)
    /\ job'[r].owner = w /\ pc'[w] = "reconcile"

\* w has it in hand under a lease of its own.
InHandOf(w, r) == req[r].status = "leased" /\ job[r].owner = w /\ mem[w].cur.r = r

\* w settles it, drops it or fails it.
Ended(w, r) ==
    /\ InHandOf(w, r) /\ Kept(r) /\ req'[r].count = req[r].count /\ job'[r].owner = Nobody
    /\ \/ /\ pc[w] = "settle" /\ mem[w].seen \in GraphEnd
          /\ req'[r].status = Outcome(mem[w].seen)
       \/ pc[w] = "dropping" /\ req'[r].status = "cancelled"
       \/ pc[w] = "failing" /\ req'[r].status = AfterFailure(r, FALSE)
       \/ pc[w] = "failing_unknown" /\ req'[r].status = AfterFailure(r, ~req[r].idem)

\* w marks its side effect started.
Started(w, r) ==
    /\ InHandOf(w, r) /\ pc[w] = "starting" /\ pc'[w] = "marked" /\ mem'[w].cur.r = r
    /\ req'[r].status = "leased" /\ Kept(r) /\ req'[r].count = req[r].count
    /\ attempt'[r][req[r].count].started /\ job'[r].owner = w

\* w binds it to its graph.
Bound(w, r) ==
    /\ InHandOf(w, r) /\ pc[w] = "binding" /\ pc'[w] = "reconcile"
    /\ req'[r].status = "leased" /\ req'[r].bound /\ req'[r].idem = req[r].idem
    /\ req'[r].limit = req[r].limit /\ Unrun(r) /\ job'[r].owner = w

Moved(r) ==
    \/ Still(r) \/ Opened(r) \/ Dropped(r) \/ Lapsing(r)
    \/ \E w \in Worker :
         Claimed(w, r) \/ Taken(w, r) \/ Ended(w, r) \/ Started(w, r) \/ Bound(w, r)

\* A step that leaves the queue alone.
LEMMA QueueStill ==
    ASSUME NEW r \in Request, UNCHANGED <<req, job, attempt>> PROVE Moved(r)
  BY DEF Moved, Still, Kept, Unrun

\* The end of a job settles or puts back its request and no other one.
LEMMA EndJobRows ==
    ASSUME QueueOK, NEW w \in Worker, NEW r \in Request, NEW row \in RequestRow, NEW v,
           EndJob(r, row, v), job[r].owner = w
    PROVE  /\ req[r].status = "leased" /\ req'[r] = row /\ job'[r].owner = Nobody
           /\ \A k \in Request \ {r} : Still(k)
<1>1. QueueType /\ Rows(r) /\ req[r].status = "leased"
  BY QueueConstants DEF QueueOK, Rows, Agree
<1>2. /\ req' = [req EXCEPT ![r] = row] /\ job' = [job EXCEPT ![r] = NoJob]
      /\ attempt' = [attempt EXCEPT ![r] = Closed(r, v)]
  BY <1>1 DEF EndJob
<1> QED
  BY <1>1, <1>2, NoJobType DEF QueueType, Still, Kept, Unrun

\* _recover_expired_jobs gives up a job that is not bound, or leaves it alone.
LEMMA RecoveredRows ==
    ASSUME QueueOK, NEW r \in Request
    PROVE  /\ RecoveredReq[r].bound = req[r].bound /\ RecoveredReq[r].idem = req[r].idem
           /\ RecoveredReq[r].count = req[r].count /\ RecoveredReq[r].limit = req[r].limit
           /\ \/ /\ RecoveredReq[r].status = req[r].status /\ RecoveredJob[r] = job[r]
                 /\ RecoveredAttempt[r] = attempt[r]
              \/ /\ req[r].status = "leased" /\ ~req[r].bound /\ RecoveredJob[r] = NoJob
                 /\ RecoveredReq[r].status = AfterFailure(r, Unsafe(r))
<1>0. QueueType /\ Rows(r) /\ req[r] \in RequestRow
  BY RequestColumns DEF QueueOK
<1>1. CASE r \in Lapsed
  <2>1. req[r].status = "leased" /\ ~req[r].bound
    BY <1>0, <1>1 DEF Rows, Agree, Lapsed, Expired
  <2> DEFINE s == AfterFailure(r, Unsafe(r))
  <2>2. RecoveredReq[r] = [req[r] EXCEPT !.status = s, !.wait = 0] /\ RecoveredJob[r] = NoJob
    BY <1>1, <2>1 DEF RecoveredReq, RecoveredJob
  <2> HIDE DEF s
  <2>3. /\ [req[r] EXCEPT !.status = s, !.wait = 0].status = s
        /\ [req[r] EXCEPT !.status = s, !.wait = 0].count = req[r].count
        /\ [req[r] EXCEPT !.status = s, !.wait = 0].bound = req[r].bound
        /\ [req[r] EXCEPT !.status = s, !.wait = 0].idem = req[r].idem
        /\ [req[r] EXCEPT !.status = s, !.wait = 0].limit = req[r].limit
    BY <1>0 DEF RequestRow
  <2> QED
    BY <2>1, <2>2, <2>3 DEF s
<1>2. CASE ~(r \in Lapsed)
  BY <1>2 DEF RecoveredReq, RecoveredJob, RecoveredAttempt
<1> QED
  BY <1>1, <1>2

\* w claims r, and nobody else is given anything.
Claims(w, r) ==
    /\ Due(RecoveredReq, r) /\ Claimed(w, r)
    /\ mem'[w].todo = mem[w].todo /\ pc'[w] = "claimed" /\ mem'[w].cur.r = r
    /\ \A k \in Request \ {r} : /\ req'[k] = RecoveredReq[k] /\ job'[k] = RecoveredJob[k]
                                /\ attempt'[k] = RecoveredAttempt[k]

\* claim_due gives up expired jobs and then claims one that is due, if any.
LEMMA ClaimRows ==
    ASSUME IInv, NEW w \in Worker, ClaimDue(w)
    PROVE  \/ Abort(w)
           \/ /\ req' = RecoveredReq /\ attempt' = RecoveredAttempt /\ job' = RecoveredJob
              /\ Leave(w, "idle")
           \/ \E r \in Request : Claims(w, r)
<1>0. /\ QueueOK /\ pc \in [Worker -> Label] /\ mem \in [Worker -> Memory] /\ mem[w] \in Memory
  BY DEF IInv, QueueOK, ProcType
<1>1. SUFFICES ASSUME ~Abort(w), ~(/\ req' = RecoveredReq /\ attempt' = RecoveredAttempt
                                   /\ job' = RecoveredJob /\ Leave(w, "idle"))
               PROVE  \E r \in Request : Claims(w, r)
  OBVIOUS
<1> DEFINE number(r) == req[r].count + 1
           lease(r) == Greatest({attempt[r][i].fence : i \in Attempts}) + 1
<1>2. PICK r \in Request :
        /\ Due(RecoveredReq, r) /\ number(r) \in Attempts
        /\ req' = [RecoveredReq EXCEPT ![r].status = "leased", ![r].count = number(r)]
        /\ attempt' = [RecoveredAttempt EXCEPT ![r][number(r)] =
             [status |-> "running", started |-> FALSE, fence |-> lease(r)]]
        /\ job' = [RecoveredJob EXCEPT ![r] = [owner |-> w, fence |-> lease(r), ttl |-> ClaimTTL]]
        /\ mem' = [mem EXCEPT ![w].cur = [r |-> r, fence |-> lease(r), cancel |-> FALSE]]
        /\ pc' = [pc EXCEPT ![w] = "claimed"]
  BY <1>1 DEF ClaimDue
<1> DEFINE n == number(r)
<1> HIDE DEF number, lease
<1>3. /\ RecoveredReq \in [Request -> RequestRow] /\ RecoveredReq[r] \in RequestRow
      /\ RecoveredAttempt \in [Request -> [Attempts -> AttemptRow]]
      /\ RecoveredJob \in [Request -> JobRow]
  BY <1>0, RecoveredOK
<1>4. \A k \in Request \ {r} : /\ req'[k] = RecoveredReq[k] /\ attempt'[k] = RecoveredAttempt[k]
                               /\ job'[k] = RecoveredJob[k]
  BY <1>2, <1>3
<1> DEFINE q == [RecoveredReq[r] EXCEPT !.status = "leased", !.count = n]
<1>5. /\ q.status = "leased" /\ q.bound = RecoveredReq[r].bound /\ q.idem = RecoveredReq[r].idem
      /\ q.limit = RecoveredReq[r].limit
  BY <1>3 DEF RequestRow
<1>6. req' = [RecoveredReq EXCEPT ![r] = q]
  BY <1>2, <1>3 DEF RequestRow
<1> HIDE DEF q
<1>7. req'[r] = q /\ job'[r].owner = w
  BY <1>2, <1>3, <1>6
<1>8. pc'[w] = "claimed" /\ mem'[w].cur.r = r /\ mem'[w].todo = mem[w].todo
  BY <1>0, <1>2 DEF Memory
<1>9. RecoveredReq[r].status \in {"queued", "retry_wait"} /\ AfterFailure(r, Unsafe(r)) # "queued"
  BY <1>2 DEF Due, AfterFailure
<1>10. Claimed(w, r)
  BY <1>0, <1>5, <1>7, <1>8, <1>9, RecoveredRows DEF Claimed, Kept
<1> QED
  BY <1>2, <1>4, <1>8, <1>10 DEF Claims

\* mark_side_effect_started marks the job in hand and no other one.
LEMMA StartRows ==
    ASSUME IInv, NEW w \in Worker, MarkStarted(w), ~Abort(w)
    PROVE  /\ mem[w].cur.r \in Request /\ Started(w, mem[w].cur.r) /\ mem' = mem
           /\ req' = req /\ job' = job
           /\ \A k \in Request : k # mem[w].cur.r => Still(k)
<1>0. QueueOK /\ QueueType /\ pc \in [Worker -> Label]
  BY DEF IInv, QueueOK, ProcType
<1> DEFINE r == mem[w].cur.r
           n == req[r].count
<1>1. pc[w] = "starting" /\ r \in Request
  BY DEF MarkStarted, IInv, Hand, JobLease, InHand
<1>2. /\ attempt' = [attempt EXCEPT ![r][n].started = TRUE] /\ req' = req /\ job' = job
      /\ req[r].status = "leased" /\ job[r].owner = w
      /\ pc' = [pc EXCEPT ![w] = "marked"] /\ mem' = mem
  BY DEF MarkStarted, Goto, HoldsJob
<1>3. n \in Attempts /\ attempt[r] \in [Attempts -> AttemptRow]
  <2> HIDE DEF r
  <2>1. n \in 0..MaxAttempts /\ n # 0
    BY <1>0, <1>1, <1>2, RequestColumns DEF QueueOK, Rows, Agree
  <2>2. n \in Attempts
    <3> HIDE DEF n
    <3> QED
      BY <2>1, QueueConstants DEF Attempts
  <2> QED
    BY <1>0, <1>1, <2>2 DEF QueueType
<1>4. attempt'[r][n].started /\ \A i \in Request \ {r} : attempt'[i] = attempt[i]
  BY <1>0, <1>1, <1>2, <1>3 DEF QueueType, AttemptRow
<1>5. pc'[w] = "marked"
  BY <1>0, <1>2
<1>6. Started(w, r)
  BY <1>1, <1>2, <1>4, <1>5 DEF Started, InHandOf, Kept
<1>7. \A k \in Request : k # r => Still(k)
  BY <1>2, <1>4 DEF Still, Kept, Unrun
<1> QED
  BY <1>1, <1>2, <1>6, <1>7

\* Every step of run_one does one of these to a request.
LEMMA RunOneMoved ==
    ASSUME IInv, NEW w \in Worker, RunOne(w), NEW k \in Request PROVE Moved(k)
<1>0. QueueOK /\ QueueType /\ pc \in [Worker -> Label] /\ mem \in [Worker -> Memory]
  BY DEF IInv, QueueOK, ProcType
<1>h. ASSUME pc[w] \in InHand
      PROVE  mem[w].cur \in JobLease /\ mem[w].cur.r \in Request
  BY <1>h DEF IInv, Hand, JobLease
<1>l. ASSUME NEW r \in Request, job[r].owner = w PROVE req[r].status = "leased"
  BY <1>0, <1>l, QueueConstants DEF QueueOK, Rows, Agree
<1> USE DEF queueVars, graphVars, procVars
<1>1. CASE RenewDispatched(w)
  <2>1. CASE Abort(w)
    BY <2>1, QueueStill DEF Abort
  <2>2. CASE ~Abort(w)
    <3> DEFINE mine == Takeover(k) \/ (req[k].status = "leased" /\ req[k].bound)
    <3>1. /\ req' = RecoveredReq /\ attempt' = RecoveredAttempt
          /\ pc' = [pc EXCEPT ![w] = "reconcile"]
      BY <1>1, <2>2 DEF RenewDispatched
    <3>2. \/ job'[k] = RecoveredJob[k]
          \/ job'[k].owner = w /\ req[k].status = "leased" /\ req[k].bound
      BY <1>1, <2>2 DEF RenewDispatched, Takeover
    <3>3. pc'[w] = "reconcile"
      BY <1>0, <3>1
    <3>4. \/ Still(k) \/ Lapsing(k) \/ Taken(w, k)
      BY <1>0, <3>1, <3>2, <3>3, RecoveredRows, NoJobType DEF Still, Lapsing, Taken, Kept, Unrun
    <3> QED
      BY <3>4 DEF Moved
  <2> QED
    BY <2>1, <2>2
<1>2. CASE Settle(w)
  <2> DEFINE j == mem[w].cur
             g == mem[w].seen
             row == [req[j.r] EXCEPT !.status = Outcome(g)]
  <2>1. j \in JobLease /\ j.r \in Request /\ pc[w] = "settle"
    BY <1>2, <1>h DEF Settle, InHand
  <2>2. CASE g \in GraphEnd /\ HoldsJob(w, j)
    <3>1. EndJob(j.r, row, Verdict(g)) /\ job[j.r].owner = w
      BY <1>2, <2>2 DEF Settle, Abort, Leave, HoldsJob
    <3>2. Outcome(g) \in SettledStatus /\ req[j.r] \in RequestRow
      BY <1>0, <2>1, <2>2, RequestColumns DEF Outcome, GraphEnd, SettledStatus
    <3>3. /\ row \in RequestRow /\ row.status = Outcome(g) /\ row.count = req[j.r].count
          /\ row.bound = req[j.r].bound /\ row.idem = req[j.r].idem
          /\ row.limit = req[j.r].limit
      BY <3>2 DEF RequestRow
    <3> HIDE DEF row
    <3>4. /\ req[j.r].status = "leased" /\ req'[j.r] = row /\ job'[j.r].owner = Nobody
          /\ \A i \in Request \ {j.r} : Still(i)
      BY <1>0, <2>1, <3>1, <3>3, EndJobRows
    <3>5. Ended(w, j.r)
      BY <2>1, <2>2, <3>1, <3>3, <3>4 DEF Ended, InHandOf, Kept
    <3> QED
      BY <3>4, <3>5 DEF Moved
  <2>3. CASE ~(g \in GraphEnd /\ HoldsJob(w, j))
    BY <1>2, <2>3, QueueStill DEF Settle, Abort
  <2> QED
    BY <2>2, <2>3
<1>3. CASE ClaimDue(w)
  <2>1. CASE Abort(w)
    BY <2>1, QueueStill DEF Abort
  <2>2. CASE req' = RecoveredReq /\ attempt' = RecoveredAttempt /\ job' = RecoveredJob
    <3>1. Still(k) \/ Lapsing(k)
      BY <1>0, <2>2, RecoveredRows, NoJobType DEF Still, Lapsing, Kept, Unrun
    <3> QED
      BY <3>1 DEF Moved
  <2>3. ASSUME NEW r \in Request, Claims(w, r) PROVE Moved(k)
    <3>1. CASE k # r
      <4>1. Still(k) \/ Lapsing(k)
        BY <1>0, <2>3, <3>1, RecoveredRows, NoJobType DEF Claims, Still, Lapsing, Kept, Unrun
      <4> QED
        BY <4>1 DEF Moved
    <3> QED
      BY <2>3, <3>1 DEF Claims, Moved
  <2> QED
    BY <1>3, <2>1, <2>2, <2>3, ClaimRows
<1>4. CASE CancelClaimed(w)
  <2> DEFINE j == mem[w].cur
             row == [req[j.r] EXCEPT !.status = "cancelled", !.cancel = TRUE]
  <2>1. j \in JobLease /\ j.r \in Request /\ pc[w] = "dropping"
    BY <1>4, <1>h DEF CancelClaimed, InHand
  <2>2. CASE Abort(w)
    BY <2>2, QueueStill DEF Abort
  <2>3. CASE ~Abort(w)
    <3>1. EndJob(j.r, row, "failed") /\ job[j.r].owner = w
      BY <1>4, <2>3 DEF CancelClaimed, HoldsJob
    <3>2. req[j.r] \in RequestRow
      BY <1>0, <2>1, RequestColumns
    <3>3. /\ row \in RequestRow /\ row.status = "cancelled" /\ row.count = req[j.r].count
          /\ row.bound = req[j.r].bound /\ row.idem = req[j.r].idem
          /\ row.limit = req[j.r].limit
      BY <3>2 DEF RequestRow, SettledStatus
    <3> HIDE DEF row
    <3>4. /\ req[j.r].status = "leased" /\ req'[j.r] = row /\ job'[j.r].owner = Nobody
          /\ \A i \in Request \ {j.r} : Still(i)
      BY <1>0, <2>1, <3>1, <3>3, EndJobRows
    <3>5. Ended(w, j.r)
      BY <2>1, <3>1, <3>3, <3>4 DEF Ended, InHandOf, Kept
    <3> QED
      BY <3>4, <3>5 DEF Moved
  <2> QED
    BY <2>2, <2>3
<1>5. CASE MarkStarted(w)
  <2>1. CASE Abort(w)
    BY <2>1, QueueStill DEF Abort
  <2>2. CASE ~Abort(w)
    BY <1>5, <2>2, StartRows DEF Moved
  <2> QED
    BY <2>1, <2>2
<1>6. CASE MarkDispatched(w)
  <2> DEFINE r == mem[w].cur.r
  <2>1. r \in Request /\ pc[w] = "binding"
    BY <1>6, <1>h DEF MarkDispatched, InHand
  <2>2. CASE Abort(w)
    BY <2>2, QueueStill DEF Abort
  <2>3. CASE ~Abort(w)
    <3>1. /\ req' = [req EXCEPT ![r].bound = TRUE] /\ UNCHANGED <<job, attempt>>
          /\ pc' = [pc EXCEPT ![w] = "reconcile"] /\ job[r].owner = w
      BY <1>6, <2>3 DEF MarkDispatched, HoldsJob
    <3> DEFINE row == [req[r] EXCEPT !.bound = TRUE]
    <3>2. req \in [Request -> RequestRow] /\ req[r] \in RequestRow
      BY <1>0, <2>1 DEF QueueType
    <3>3. /\ row.count = req[r].count /\ row.status = req[r].status /\ row.bound
          /\ row.idem = req[r].idem /\ row.limit = req[r].limit
      BY <3>2 DEF RequestRow
    <3>4. req' = [req EXCEPT ![r] = row]
      BY <3>1, <3>2
    <3> HIDE DEF row
    <3>5. req'[r] = row /\ \A i \in Request \ {r} : req'[i] = req[i]
      BY <2>1, <3>2, <3>4
    <3>6. pc'[w] = "reconcile" /\ req[r].status = "leased"
      BY <1>0, <1>l, <2>1, <3>1
    <3>7. Bound(w, r)
      BY <2>1, <3>1, <3>3, <3>5, <3>6 DEF Bound, InHandOf, Unrun
    <3>8. k # r => Still(k)
      BY <3>1, <3>5 DEF Still, Kept, Unrun
    <3> QED
      BY <2>1, <3>7, <3>8 DEF Moved
  <2> QED
    BY <2>2, <2>3
<1>7. CASE FailJob(w)
  <2> DEFINE j == mem[w].cur
             manual == UnknownIsManual(w, j.r)
             status == AfterFailure(j.r, manual)
             wait == IF status = "retry_wait" THEN Backoff(req[j.r].count) ELSE 0
             row == [req[j.r] EXCEPT !.status = status, !.wait = wait]
             v == IF manual THEN "outcome_unknown" ELSE "failed"
  <2>1. j \in JobLease /\ j.r \in Request /\ pc[w] \in {"failing", "failing_unknown"}
    BY <1>7, <1>h DEF FailJob, InHand
  <2>2. CASE Abort(w)
    BY <2>2, QueueStill DEF Abort
  <2>3. CASE ~Abort(w)
    <3>1. EndJob(j.r, row, v) /\ job[j.r].owner = w
      BY <1>7, <2>3 DEF FailJob, HoldsJob
    <3>2. req[j.r] \in RequestRow /\ req[j.r].count \in Attempts
      <4>1. /\ req[j.r] \in RequestRow
            /\ req[j.r].count \in 0..MaxAttempts /\ req[j.r].count # 0
        BY <1>0, <1>l, <2>1, <3>1, RequestColumns DEF QueueOK, Rows, Agree
      <4> QED
        BY <4>1, QueueConstants DEF Attempts
    <3>3. status \in {"manual_reconcile_required", "dead_letter", "retry_wait"}
      BY DEF AfterFailure
    <3>4. wait \in 0..RetryMax
      BY <3>2, BackoffType, QueueConstants
    <3>5. manual = (pc[w] = "failing_unknown" /\ ~req[j.r].idem)
      BY DEF UnknownIsManual
    <3> HIDE DEF status, wait, v
    <3>6. /\ row \in RequestRow /\ row.status = status /\ row.count = req[j.r].count
          /\ row.bound = req[j.r].bound /\ row.idem = req[j.r].idem
          /\ row.limit = req[j.r].limit
      BY <3>2, <3>3, <3>4 DEF RequestRow, OpenStatus, SettledStatus
    <3> HIDE DEF row
    <3>7. /\ req[j.r].status = "leased" /\ req'[j.r] = row /\ job'[j.r].owner = Nobody
          /\ \A i \in Request \ {j.r} : Still(i)
      BY <1>0, <2>1, <3>1, <3>6, EndJobRows
    <3>8. \/ pc[w] = "failing" /\ status = AfterFailure(j.r, FALSE)
          \/ pc[w] = "failing_unknown" /\ status = AfterFailure(j.r, ~req[j.r].idem)
      BY <2>1, <3>5, Zenon DEF status, AfterFailure
    <3>9. Ended(w, j.r)
      BY <2>1, <3>1, <3>6, <3>7, <3>8 DEF Ended, InHandOf, Kept
    <3> QED
      BY <3>7, <3>9 DEF Moved
  <2> QED
    BY <2>2, <2>3
<1>8. CASE \/ ReconcileOne(w) \/ ReconcileDone(w) \/ CancelWorkflow(w) \/ CheckCancel(w)
           \/ Refused(w) \/ GatewayRaises(w) \/ ReserveRefused(w) \/ Reserve(w) \/ FindGraph(w)
           \/ CreateRun(w) \/ StartRun(w) \/ CompleteBinding(w)
  <2>1. UNCHANGED <<req, job, attempt>>
    BY <1>8 DEF ReconcileOne, ReconcileDone, CancelWorkflow, Abort, CheckCancel, Refused,
                GatewayRaises,
  ReserveRefused, Reserve, FindGraph, CreateRun, StartRun, CompleteBinding
  <2> QED
    BY <2>1, QueueStill
<1> QED
  BY <1>1, <1>2, <1>3, <1>4, <1>5, <1>6, <1>7, <1>8 DEF RunOne

\* A row that cancelling changes was nobody's, or keeps its status.
LEMMA CancelMarkedKeeps ==
    ASSUME NEW row \in RequestRow
    PROVE  /\ CancelMarked(row).bound = row.bound /\ CancelMarked(row).idem = row.idem
           /\ CancelMarked(row).count = row.count /\ CancelMarked(row).limit = row.limit
           /\ \/ CancelMarked(row).status = row.status
              \/ row.status \in {"queued", "retry_wait"} /\ CancelMarked(row).status = "cancelled"
  BY DEF CancelMarked, RequestRow, OpenStatus, SettledStatus

\* So does every step of the coordinator, of the environment and of time.
LEMMA OtherMoved ==
    ASSUME IInv, (\E w \in Worker : Coordinate(w)) \/ Environment \/ Tick, NEW k \in Request
    PROVE  Moved(k)
<1>0. /\ QueueOK /\ QueueType /\ req \in [Request -> RequestRow] /\ req[k] \in RequestRow
      /\ job[k] \in JobRow
  BY RequestColumns DEF IInv, QueueOK, QueueType
<1> USE DEF queueVars, graphVars, procVars
<1>1. ASSUME NEW w \in Worker, Coordinate(w) \/ Stop(w) \/ Crash(w) PROVE Moved(k)
  BY <1>1, QueueStill
  DEF Coordinate, AcquireAuthority, RenewAuthority, ReleaseAuthority, Shutdown, Stop, Crash
<1>2. ASSUME NEW r \in Request, GraphStep(r) \/ GraphCancelled(r) PROVE Moved(k)
  BY <1>2, QueueStill DEF GraphStep, GraphCancelled
<1>3. ASSUME NEW r \in Request, NEW idem, NEW limit, req[r].status = "none",
             req' = [req EXCEPT ![r].status = "queued", ![r].idem = idem, ![r].limit = limit],
             UNCHANGED <<job, attempt>>
      PROVE  Moved(k)
  <2> DEFINE row == [req[r] EXCEPT !.status = "queued", !.idem = idem, !.limit = limit]
  <2>1. row.status = "queued" /\ row.count = req[r].count /\ row.bound = req[r].bound
    BY <1>0 DEF RequestRow
  <2>2. req' = [req EXCEPT ![r] = row]
    BY <1>0, <1>3 DEF RequestRow
  <2> HIDE DEF row
  <2>3. CASE k = r
    <3>1. Opened(k)
      BY <1>0, <1>3, <2>1, <2>2, <2>3 DEF Opened, Unrun
    <3> QED
      BY <3>1 DEF Moved
  <2>4. CASE k # r
    <3>1. Still(k)
      BY <1>0, <1>3, <2>2, <2>4 DEF Still, Kept, Unrun
    <3> QED
      BY <3>1 DEF Moved
  <2> QED
    BY <2>3, <2>4
<1>4. ASSUME NEW row \in RequestRow, req'[k] = CancelMarked(row) \/ req'[k] = req[k],
             row.status = req[k].status, row.count = req[k].count,
             row.bound = req[k].bound, row.idem = req[k].idem, row.limit = req[k].limit,
             UNCHANGED <<job, attempt>>
      PROVE  Moved(k)
  <2>1. Still(k) \/ Dropped(k)
    BY <1>4, CancelMarkedKeeps DEF Still, Dropped, Kept, Unrun
  <2> QED
    BY <2>1 DEF Moved
<1>5. ASSUME NEW r \in Request, RequestCancel(r) PROVE Moved(k)
  <2> DEFINE row == [req[k] EXCEPT !.cancel = TRUE]
  <2>1. (req'[k] = CancelMarked(row) \/ req'[k] = req[k]) /\ UNCHANGED <<job, attempt>>
    BY <1>0, <1>5 DEF RequestCancel
  <2>2. /\ row \in RequestRow /\ row.status = req[k].status /\ row.count = req[k].count
        /\ row.bound = req[k].bound /\ row.idem = req[k].idem /\ row.limit = req[k].limit
    BY <1>0 DEF RequestRow
  <2> HIDE DEF row
  <2> QED
    BY <1>4, <2>1, <2>2
<1>6. ASSUME NEW s \in Schedule, NEW status \in Moves, UpdateScheduleStatus(s, status)
      PROVE  Moved(k)
  <2>1. (req'[k] = CancelMarked(req[k]) \/ req'[k] = req[k]) /\ UNCHANGED <<job, attempt>>
    BY <1>6 DEF UpdateScheduleStatus
  <2> QED
    BY <1>0, <1>4, <2>1
<1>7. ASSUME NEW s \in Schedule, NEW status \in Moves, PutSchedule(s, status) PROVE Moved(k)
  BY <1>7, QueueStill DEF PutSchedule
<1>8. ASSUME Tick PROVE Moved(k)
  <2>1. /\ req'[k] = [req[k] EXCEPT !.wait = Less1(@)] /\ attempt' = attempt
        /\ job'[k] = [job[k] EXCEPT !.ttl = Less1(@)]
    BY <1>8 DEF Tick
  <2>2. Still(k)
    BY <1>0, <2>1 DEF Still, Kept, Unrun, RequestRow, JobRow
  <2> QED
    BY <2>2 DEF Moved
<1>9. ASSUME NEW r \in Request, NEW idem \in Idempotency, NEW limit \in Limits,
             Enqueue(r, idem, limit)
      PROVE  Moved(k)
  BY <1>3, <1>9 DEF Enqueue
<1>10. ASSUME NEW r \in Request, NEW q \in Request, ReplayDeadLetter(r, q) PROVE Moved(k)
  BY <1>3, <1>10 DEF ReplayDeadLetter
<1> QED
  BY <1>1, <1>2, <1>5, <1>6, <1>7, <1>8, <1>9, <1>10 DEF Environment

-----------------------------------------------------------------------------
(***************************************************************************)
(* What one step may do to the graph of a request, and to the workers.     *)
(***************************************************************************)
\* A worker that does not act keeps its place and its local variables.
LEMMA Bystander ==
    ASSUME IInv, NEW w \in Worker, NEW v \in Worker, v # w,
           RunOne(w) \/ Coordinate(w) \/ Stop(w) \/ Crash(w)
    PROVE  pc'[v] = pc[v] /\ mem'[v] = mem[v]
<1>0. pc \in [Worker -> Label] /\ mem \in [Worker -> Memory]
  BY DEF IInv, ProcType
<1>1. (\E label : pc' = [pc EXCEPT ![w] = label]) \/ pc' = pc
  BY DEF RunOne, RenewDispatched, ReconcileOne, ReconcileDone, CancelWorkflow, Settle,
         ClaimDue, CheckCancel, CancelClaimed, MarkStarted, Refused, GatewayRaises, ReserveRefused,
         Reserve, FindGraph, CreateRun, StartRun, CompleteBinding, MarkDispatched, FailJob,
         Abort, Leave, Goto, NextDispatch, Coordinate, AcquireAuthority, RenewAuthority,
         ReleaseAuthority, Shutdown, Stop, Crash, procVars
<1>2. mem'[v] = mem[v]
  <2>0. ASSUME (\E label : Leave(w, label)) \/ (\E label : Goto(w, label)) \/ mem' = mem
        PROVE  mem'[v] = mem[v]
    BY <1>0, <2>0 DEF Leave, Goto
  <2>1. CASE RenewDispatched(w)
    BY <1>0, <2>1 DEF RenewDispatched, Abort, Leave
  <2>2. CASE ReconcileOne(w)
    BY <1>0, <2>2 DEF ReconcileOne
  <2>3. CASE CancelWorkflow(w)
    BY <1>0, <2>3 DEF CancelWorkflow, Abort, Leave
  <2>4. CASE ClaimDue(w)
    BY <1>0, <2>4 DEF ClaimDue, Abort, Leave
  <2>5. CASE MarkDispatched(w)
    BY <1>0, <2>5 DEF MarkDispatched, Abort, Leave
  <2>6. CASE ReconcileDone(w) \/ Crash(w)
    BY <1>0, <2>6 DEF ReconcileDone, Crash
  <2>7. CASE \/ Settle(w) \/ CheckCancel(w) \/ CancelClaimed(w) \/ MarkStarted(w) \/ Refused(w)
             \/ GatewayRaises(w) \/ ReserveRefused(w) \/ Reserve(w) \/ FindGraph(w) \/ CreateRun(w)
             \/ StartRun(w)
             \/ CompleteBinding(w) \/ FailJob(w) \/ Coordinate(w) \/ Stop(w)
    <3>1. (\E label : Leave(w, label)) \/ (\E label : Goto(w, label)) \/ mem' = mem
      BY <2>7
      DEF Settle, CheckCancel, CancelClaimed, MarkStarted, Refused,
          GatewayRaises,
          ReserveRefused, Reserve, FindGraph, CreateRun, StartRun, CompleteBinding, FailJob,
          Abort, NextDispatch, Coordinate, AcquireAuthority, RenewAuthority,
          ReleaseAuthority, Shutdown, Stop, procVars
    <3> QED
      BY <2>0, <3>1
  <2> QED
    BY <2>1, <2>2, <2>3, <2>4, <2>5, <2>6, <2>7 DEF RunOne
<1> QED
  BY <1>0, <1>1, <1>2

\* A graph exists once it has been created and stays as it is once it is
\* final, and so does a complete binding; a bound graph exists; nobody drives
\* a final graph.
GraphMoved(r) ==
    /\ graph[r] \in Final => graph'[r] = graph[r]
    /\ graph[r] # "none" => graph'[r] # "none"
    /\ binding[r] = "completed" => binding'[r] = "completed"
    /\ binding'[r] = "completed" => graph'[r] # "none"
    /\ graph'[r] \in Final => \A w \in Worker : r \notin driven'[w]

LEMMA GraphStill ==
    ASSUME OInv, NEW r \in Request, UNCHANGED graphVars PROVE GraphMoved(r)
  BY DEF OInv, Truthful, GraphMoved, graphVars

\* A graph that has not ended ends, and nobody drives it any more.
LEMMA GraphEndsMoved ==
    ASSUME IInv, OInv, NEW r \in Request, NEW q \in Request, NEW g \in GraphEnd,
           graph[q] \notin GraphEnd, GraphEnds(q, g), UNCHANGED binding
    PROVE  GraphMoved(r)
<1>1. /\ graph \in [Request -> GraphStatus] /\ driven \in [Worker -> SUBSET Request]
      /\ Truthful(r)
  BY DEF IInv, GraphType, OInv
<1>2. "none" \notin GraphEnd /\ Final \subseteq GraphEnd
  BY DEF GraphEnd, Final
<1>3. CASE r = q
  BY <1>1, <1>2, <1>3 DEF GraphEnds, Truthful, GraphMoved
<1>4. CASE r # q
  BY <1>1, <1>4 DEF GraphEnds, Truthful, GraphMoved
<1> QED
  BY <1>3, <1>4

\* Every step does one of these to the graph of a request.
LEMMA NextGraphMoved ==
    ASSUME IInv, OInv, Next, NEW r \in Request PROVE GraphMoved(r)
<1>0. /\ graph \in [Request -> GraphStatus] /\ driven \in [Worker -> SUBSET Request]
      /\ binding \in [Request -> {"none", "pending", "completed"}]
      /\ Truthful(r) /\ \A w \in Worker : Relies(w)
  BY DEF IInv, GraphType, OInv
<1>h. ASSUME NEW w \in Worker, pc[w] \in InHand PROVE mem[w].cur.r \in Request
  BY <1>h DEF IInv, Hand, JobLease
<1> USE DEF queueVars, graphVars, procVars
<1>1. ASSUME NEW w \in Worker, ReconcileOne(w) PROVE GraphMoved(r)
  <2>1. PICK j \in mem[w].todo :
          /\ driven' = IF ~j.cancel /\ graph[j.r] \in {"created", "running", "interrupted"}
                       THEN [driven EXCEPT ![w] = @ \cup {j.r}] ELSE driven
          /\ UNCHANGED <<binding, graph, entered>>
    BY <1>1 DEF ReconcileOne
  <2>2. \A v \in Worker : r \in driven'[v] =>
          r \in driven[v] \/ graph[r] \in {"created", "running", "interrupted"}
    BY <1>0, <2>1
  <2> QED
    BY <1>0, <2>1, <2>2 DEF Truthful, GraphMoved, Final
<1>2. ASSUME NEW w \in Worker, CancelWorkflow(w) PROVE GraphMoved(r)
  <2>1. mem[w].cur.r \in Request
    BY <1>h, <1>2 DEF CancelWorkflow, InHand
  <2>2. \/ UNCHANGED graphVars
        \/ /\ graph[mem[w].cur.r] \notin GraphEnd /\ UNCHANGED binding
           /\ \E g \in {"cancelled", "manual_reconcile_required"} : GraphEnds(mem[w].cur.r, g)
    BY <1>2 DEF CancelWorkflow
  <2>3. {"cancelled", "manual_reconcile_required"} \subseteq GraphEnd
    BY DEF GraphEnd
  <2> QED
    BY <2>1, <2>2, <2>3, GraphStill, GraphEndsMoved
<1>3. ASSUME NEW w \in Worker, Reserve(w) PROVE GraphMoved(r)
  <2>1. mem[w].cur.r \in Request
    BY <1>h, <1>3 DEF Reserve, InHand
  <2>2. binding'[r] = "completed" <=> binding[r] = "completed"
    BY <1>0, <1>3, <2>1 DEF Reserve
  <2>3. UNCHANGED <<graph, driven>>
    BY <1>3 DEF Reserve
  <2> QED
    BY <1>0, <2>2, <2>3 DEF Truthful, GraphMoved
<1>4. ASSUME NEW w \in Worker, CreateRun(w) \/ StartRun(w) PROVE GraphMoved(r)
  <2>1. mem[w].cur.r \in Request /\ UNCHANGED <<binding, driven>>
    BY <1>h, <1>4 DEF CreateRun, StartRun, InHand
  <2>2. \/ graph' = graph
        \/ \E g \in {"created", "running"} :
             /\ graph' = [graph EXCEPT ![mem[w].cur.r] = g]
             /\ graph[mem[w].cur.r] \in {"none", "created", "interrupted"}
    BY <1>4 DEF CreateRun, StartRun
  <2>3. \/ graph'[r] = graph[r]
        \/ graph'[r] \in {"created", "running"} /\ graph[r] \in {"none", "created", "interrupted"}
    BY <1>0, <2>1, <2>2
  <2> QED
    BY <1>0, <2>1, <2>3 DEF Truthful, GraphMoved, Final
<1>5. ASSUME NEW w \in Worker, CompleteBinding(w) PROVE GraphMoved(r)
  <2>1. mem[w].cur.r \in Request /\ pc[w] = "completing"
    BY <1>h, <1>5 DEF CompleteBinding, InHand
  <2>2. UNCHANGED <<graph, driven>> /\ binding' = [binding EXCEPT ![mem[w].cur.r] = "completed"]
    BY <1>5 DEF CompleteBinding
  <2>3. graph[mem[w].cur.r] # "none"
    BY <1>0, <2>1 DEF Relies
  <2> QED
    BY <1>0, <2>1, <2>2, <2>3 DEF Truthful, GraphMoved
<1>6. ASSUME NEW w \in Worker, Shutdown(w) PROVE GraphMoved(r)
  <2>1. \/ UNCHANGED graphVars
        \/ /\ UNCHANGED binding
           /\ \E q \in driven[w], g \in {"interrupted", "manual_reconcile_required"} :
                graph' = [graph EXCEPT ![q] = g] /\ driven' = [driven EXCEPT ![w] = @ \ {q}]
    BY <1>6 DEF Shutdown
  <2>2. CASE UNCHANGED graphVars
    BY <2>2, GraphStill
  <2>3. ASSUME NEW q \in driven[w], NEW g \in {"interrupted", "manual_reconcile_required"},
               graph' = [graph EXCEPT ![q] = g], driven' = [driven EXCEPT ![w] = @ \ {q}],
               UNCHANGED binding
        PROVE  GraphMoved(r)
    <3>1. q \in Request /\ g \notin Final /\ g # "none"
      BY <1>0 DEF Final
    <3>2. graph[q] \notin Final
      BY <3>1 DEF OInv, Truthful
    <3>3. \A v \in Worker : driven'[v] \subseteq driven[v]
      BY <1>0, <2>3
    <3>4. IF r = q THEN graph'[r] = g ELSE graph'[r] = graph[r]
      BY <1>0, <2>3
    <3> QED
      BY <1>0, <2>3, <3>1, <3>2, <3>3, <3>4 DEF Truthful, GraphMoved
  <2> QED
    BY <2>1, <2>2, <2>3
<1>7. ASSUME NEW q \in Request, GraphStep(q) PROVE GraphMoved(r)
  <2>1. UNCHANGED binding /\ graph[q] \notin GraphEnd /\ graph[q] # "none"
    BY <1>7 DEF GraphStep
  <2>2. \/ \E g \in GraphEnd : GraphEnds(q, g)
        \/ \E g \in {"running", "waiting"} : graph' = [graph EXCEPT ![q] = g] /\ driven' = driven
    BY <1>7 DEF GraphStep, GraphEnd
  <2>3. ASSUME NEW g \in {"running", "waiting"}, graph' = [graph EXCEPT ![q] = g], driven' = driven
        PROVE  GraphMoved(r)
    <3>1. g \notin Final /\ g # "none" /\ graph[q] \notin Final
      BY <2>1 DEF Final, GraphEnd
    <3>2. IF r = q THEN graph'[r] = g ELSE graph'[r] = graph[r]
      BY <1>0, <2>3
    <3> QED
      BY <1>0, <2>1, <2>3, <3>1, <3>2 DEF Truthful, GraphMoved
  <2> QED
    BY <2>1, <2>2, <2>3, GraphEndsMoved
<1>8. ASSUME NEW q \in Request, GraphCancelled(q) PROVE GraphMoved(r)
  <2>1. UNCHANGED binding /\ graph[q] \notin GraphEnd /\ \E g \in GraphEnd : GraphEnds(q, g)
    BY <1>8 DEF GraphCancelled, GraphEnd
  <2> QED
    BY <2>1, GraphEndsMoved
<1>9. ASSUME NEW w \in Worker, Crash(w) PROVE GraphMoved(r)
  <2>1. UNCHANGED <<binding, graph>> /\ \A v \in Worker : driven'[v] \subseteq driven[v]
    BY <1>0, <1>9 DEF Crash
  <2> QED
    BY <1>0, <2>1 DEF Truthful, GraphMoved
<1>10. ASSUME NEW w \in Worker, RunOne(w) PROVE GraphMoved(r)
  <2>1. \/ ReconcileOne(w) \/ CancelWorkflow(w) \/ Reserve(w) \/ CreateRun(w) \/ StartRun(w)
        \/ CompleteBinding(w) \/ UNCHANGED graphVars
    BY <1>10 DEF RunOne, RenewDispatched, ReconcileDone, Settle,
                 ClaimDue, CheckCancel, CancelClaimed, MarkStarted, Refused, GatewayRaises,
                 ReserveRefused,
                 FindGraph, MarkDispatched, FailJob
  <2> QED
    BY <1>1, <1>2, <1>3, <1>4, <1>5, <2>1, GraphStill
<1>11. ASSUME NEW w \in Worker, Coordinate(w) PROVE GraphMoved(r)
  <2>1. Shutdown(w) \/ UNCHANGED graphVars
    BY <1>11 DEF Coordinate, AcquireAuthority, RenewAuthority, ReleaseAuthority
  <2> QED
    BY <1>6, <2>1, GraphStill
<1>12. ASSUME Environment \/ Tick PROVE GraphMoved(r)
  <2>1. \/ \E q \in Request : GraphStep(q) \/ GraphCancelled(q)
        \/ \E w \in Worker : Crash(w)
        \/ UNCHANGED graphVars
    BY <1>12 DEF Environment, Enqueue, RequestCancel, ReplayDeadLetter, UpdateScheduleStatus,
                 PutSchedule, Stop, Tick
  <2> QED
    BY <1>7, <1>8, <1>9, <2>1, GraphStill
<1> QED
  BY <1>10, <1>11, <1>12 DEF Next

-----------------------------------------------------------------------------
(***************************************************************************)
(* Every step keeps the parts of the invariant.                            *)
(***************************************************************************)
\* Every step does one of these to the rows of a request.
LEMMA NextMoved ==
    ASSUME IInv, Next, NEW r \in Request PROVE Moved(r)
  BY RunOneMoved, OtherMoved DEF Next

\* The outcome of a request stays the truth about its graph.
LEMMA TruthfulStep ==
    ASSUME IInv, OInv, Next, NEW r \in Request PROVE Truthful(r)'
<1>0. GraphMoved(r) /\ Moved(r) /\ Truthful(r) /\ \A w \in Worker : Relies(w)
  BY NextGraphMoved, NextMoved DEF OInv
<1>1. /\ binding'[r] = "completed" => graph'[r] # "none"
      /\ graph'[r] \in Final => \A w \in Worker : r \notin driven'[w]
      /\ \A g \in Final : graph[r] = g => graph'[r] = g
      /\ binding[r] = "completed" => binding'[r] = "completed"
  BY <1>0 DEF GraphMoved
<1>2. {"completed", "failed", "cancelled"} = Final /\ "leased" \notin SettledStatus
  BY DEF Final, SettledStatus
<1>n. req[r].bound => req[r].status \notin {"none", "queued", "retry_wait"}
  BY <1>0 DEF Truthful, SettledStatus
<1>3. ASSUME req'[r].bound = req[r].bound, req'[r].status = req[r].status PROVE Truthful(r)'
  BY <1>0, <1>1, <1>2, <1>3 DEF Truthful
<1>4. ASSUME req'[r].bound = req[r].bound, ~req[r].bound, req'[r].status # "succeeded"
      PROVE  Truthful(r)'
  BY <1>1, <1>4 DEF Truthful
<1>5. CASE Still(r)
  BY <1>3, <1>5 DEF Still, Kept
<1>6. CASE Opened(r) \/ Dropped(r)
  BY <1>4, <1>6, <1>n DEF Opened, Dropped, Kept
<1>7. CASE Lapsing(r)
  BY <1>4, <1>7 DEF Lapsing, Kept, AfterFailure
<1>8. ASSUME NEW w \in Worker, Claimed(w, r) PROVE Truthful(r)'
  BY <1>4, <1>8, <1>n DEF Claimed, Kept
<1>9. ASSUME NEW w \in Worker, Taken(w, r) \/ Started(w, r) PROVE Truthful(r)'
  BY <1>3, <1>9 DEF Taken, Started, InHandOf, Kept
<1>10. ASSUME NEW w \in Worker, Bound(w, r) PROVE Truthful(r)'
  <2>1. binding[r] = "completed" /\ req'[r].bound /\ req'[r].status = "leased"
    BY <1>0, <1>10 DEF Bound, InHandOf, Relies
  <2> QED
    BY <1>1, <2>1 DEF Truthful
<1>11. ASSUME NEW w \in Worker, Ended(w, r) PROVE Truthful(r)'
  <2>1. CASE pc[w] = "settle"
    <3> DEFINE g == mem[w].seen
    <3>1. /\ req[r].bound /\ req'[r].bound /\ g \in GraphEnd /\ req'[r].status = Outcome(g)
          /\ g \in Final => graph[r] = g
      BY <1>0, <1>11, <2>1 DEF Ended, InHandOf, Kept, Relies
    <3> HIDE DEF g
    <3>2. binding'[r] = "completed"
      BY <1>0, <1>1, <3>1 DEF Truthful
    <3>3. g \in {"completed", "failed", "cancelled", "manual_reconcile_required"}
      BY <3>1 DEF GraphEnd
    <3>4. /\ Outcome(g) \in SettledStatus
          /\ Outcome(g) = "succeeded" => g = "completed"
          /\ Outcome(g) = "cancelled" => g = "cancelled"
          /\ Outcome(g) = "dead_letter" => g = "failed"
      BY <3>3 DEF Outcome, SettledStatus
    <3> QED
      BY <1>1, <1>2, <3>1, <3>2, <3>4 DEF Truthful
  <2>2. CASE pc[w] # "settle"
    <3>1. pc[w] \in Dispatching /\ req'[r].bound = req[r].bound /\ req'[r].status # "succeeded"
      BY <1>11, <2>2 DEF Ended, Kept, Dispatching, AfterFailure
    <3>2. ~req[r].bound
      BY <1>0, <1>11, <3>1 DEF Ended, InHandOf, Relies
    <3> QED
      BY <1>4, <3>1, <3>2
  <2> QED
    BY <2>1, <2>2
<1> QED
  BY <1>0, <1>5, <1>6, <1>7, <1>8, <1>9, <1>10, <1>11 DEF Moved

\* A bound request stays bound, and no other worker binds a request under the
\* lease of a worker, nor gives it one.
LEMMA BoundMoves ==
    ASSUME IInv, OInv, Next, NEW r \in Request
    PROVE  /\ req[r].bound => req'[r].bound
           /\ req'[r].bound => req[r].bound \/ \E w \in Worker : Bound(w, r)
<1>1. Moved(r) /\ Truthful(r)
  BY NextMoved DEF OInv
<1> QED
  BY <1>1 DEF Moved, Truthful, Still, Opened, Dropped, Lapsing, Claimed, Taken, Ended, Started,
              Bound, Kept, InHandOf

\* Only the worker that claims or takes over a request gets its lease.
LEMMA OwnerMoves ==
    ASSUME IInv, Next, NEW r \in Request, NEW v \in Worker, job'[r].owner = v
    PROVE  job[r].owner = v \/ Claimed(v, r) \/ Taken(v, r)
<1>1. Moved(r) /\ v # Nobody
  BY NextMoved, QueueConstants
<1> QED
  BY <1>1 DEF Moved, Still, Opened, Dropped, Lapsing, Claimed, Taken, Ended, Started, Bound,
              InHandOf

\* What a worker relies on stays true while others act.
LEMMA ReliesAside ==
    ASSUME IInv, OInv, Next, NEW v \in Worker, pc'[v] = pc[v], mem'[v] = mem[v]
    PROVE  Relies(v)'
<1> DEFINE r == mem[v].cur.r
<1>0. Relies(v) /\ pc[v] \in Label /\ mem[v] \in Memory
  BY DEF OInv, IInv, ProcType
<1>1. \A j \in mem[v].todo : j.r \in Request
  BY <1>0 DEF Memory, JobLease
<1>2. \A j \in mem[v].todo : req'[j.r].bound
  BY <1>0, <1>1, BoundMoves DEF Relies
<1>3. pc[v] \in InHand => r \in Request
  BY DEF IInv, Hand, JobLease
<1>4. {"cancelling", "settle", "completing", "binding"} \cup Dispatching \subseteq InHand
  BY DEF InHand, Dispatching
<1>5. pc[v] \in {"cancelling", "settle"} => req'[r].bound
  BY <1>0, <1>3, <1>4, BoundMoves DEF Relies
<1>6. /\ pc[v] = "settle" /\ mem[v].seen \in Final => graph'[r] = mem[v].seen
      /\ pc[v] = "completing" => graph'[r] # "none"
      /\ pc[v] = "binding" => binding'[r] = "completed"
  BY <1>0, <1>3, <1>4, NextGraphMoved DEF Relies, GraphMoved
<1>7. ASSUME pc[v] \in Dispatching, job'[r].owner = v PROVE ~req'[r].bound
  <2>1. r \in Request
    BY <1>3, <1>4, <1>7
  <2>2. ~Taken(v, r)
    BY <1>7 DEF Taken, Dispatching
  <2>3. ASSUME Claimed(v, r) PROVE ~req'[r].bound
    <3>1. Truthful(r)
      BY <2>1 DEF OInv
    <3> QED
      BY <2>3, <3>1 DEF Claimed, Kept, Truthful, SettledStatus
  <2>4. ASSUME job[r].owner = v PROVE ~req'[r].bound
    <3>1. ~req[r].bound
      BY <1>0, <1>7, <2>4 DEF Relies
    <3>2. ASSUME NEW w \in Worker, Bound(w, r) PROVE FALSE
      <4>1. w = v
        BY <2>4, <3>2 DEF Bound, InHandOf
      <4> QED
        BY <1>7, <3>2, <4>1 DEF Bound, Dispatching
    <3> QED
      BY <2>1, <3>1, <3>2, BoundMoves
  <2> QED
    BY <1>7, <2>1, <2>2, <2>3, <2>4, OwnerMoves
<1> QED
  BY <1>2, <1>5, <1>6, <1>7 DEF Relies

\* So does what the worker that acts relies on.
LEMMA ReliesActs ==
    ASSUME IInv, OInv, Next, NEW w \in Worker, RunOne(w) PROVE Relies(w)'
<1> DEFINE r == mem[w].cur.r
<1>0. /\ Relies(w) /\ pc \in [Worker -> Label] /\ mem \in [Worker -> Memory]
      /\ mem[w] \in Memory /\ QueueOK
      /\ binding \in [Request -> {"none", "pending", "completed"}]
  BY DEF OInv, IInv, ProcType, QueueOK, GraphType
<1>t. ASSUME NEW j \in mem[w].todo PROVE j.r \in Request /\ req[j.r].bound /\ req'[j.r].bound
  <2>1. j.r \in Request /\ req[j.r].bound
    BY <1>0 DEF Memory, JobLease, Relies
  <2> QED
    BY <2>1, BoundMoves
<1>h. pc[w] \in InHand => r \in Request
  BY DEF IInv, Hand, JobLease
<1>a. ASSUME pc'[w] \notin Dispatching \cup {"cancelling", "settle"},
             \A j \in mem'[w].todo : req'[j.r].bound
      PROVE  Relies(w)'
  BY <1>a DEF Relies, Dispatching
<1>b. ASSUME NEW label \in {"aborting", "ready", "idle", "claim"},
             pc' = [pc EXCEPT ![w] = label], mem' = [mem EXCEPT ![w] = Blank]
      PROVE  Relies(w)'
  <2>1. pc'[w] = label /\ mem'[w].todo = {}
    BY <1>0, <1>b DEF Blank
  <2> QED
    BY <1>a, <2>1 DEF Dispatching
<1>c. ASSUME Abort(w) \/ NextDispatch(w) PROVE Relies(w)'
  BY <1>b, <1>c DEF Abort, NextDispatch, Leave
<1>d. ASSUME NEW label \in Dispatching, pc' = [pc EXCEPT ![w] = label], pc[w] \in Dispatching,
             UNCHANGED <<mem, req, job>>,
             label = "completing" => graph'[r] # "none",
             label = "binding" => binding'[r] = "completed"
      PROVE  Relies(w)'
  <2>1. pc'[w] = label /\ label \notin {"cancelling", "settle"}
    BY <1>0, <1>d DEF Dispatching
  <2>2. job[r].owner = w => ~req[r].bound
    BY <1>0, <1>d DEF Relies
  <2> QED
    BY <1>d, <1>t, <2>1, <2>2 DEF Relies
<1> USE DEF queueVars, graphVars, procVars
<1>1. CASE RenewDispatched(w)
  <2>1. CASE Abort(w)
    BY <1>c, <2>1
  <2>2. CASE ~Abort(w)
    <3> DEFINE taken == {q \in Request : Takeover(q)}
               kept == {q \in Request : /\ req[q].status = "leased" /\ req[q].bound
                                        /\ job[q].owner = w /\ job[q].ttl > 0}
               fence(q) == IF q \in taken THEN (job[q].fence % MaxFence) + 1 ELSE job[q].fence
               T == {[r |-> q, fence |-> fence(q), cancel |-> req[q].cancel] :
                       q \in taken \cup kept}
    <3>1. mem' = [mem EXCEPT ![w].todo = T] /\ pc' = [pc EXCEPT ![w] = "reconcile"]
      BY <1>1, <2>2 DEF RenewDispatched
    <3>2. \A q \in taken \cup kept : q \in Request /\ req[q].bound
      BY DEF Takeover
    <3> HIDE DEF taken, kept, fence
    <3>3. \A j \in T : j.r \in taken \cup kept
      OBVIOUS
    <3> HIDE DEF T
    <3>5. pc'[w] = "reconcile" /\ mem'[w].todo = T
      BY <1>0, <3>1 DEF Memory
    <3>4. \A j \in mem'[w].todo : req'[j.r].bound
      BY <3>2, <3>3, <3>5, BoundMoves
    <3> QED
      BY <1>a, <3>4, <3>5 DEF Dispatching
  <2> QED
    BY <2>1, <2>2
<1>2. CASE ReconcileOne(w)
  <2>1. PICK j \in mem[w].todo :
          /\ mem' = [mem EXCEPT ![w].todo = @ \ {j}, ![w].cur = j, ![w].seen = graph[j.r]]
          /\ pc' = [pc EXCEPT ![w] = IF j.cancel /\ graph[j.r] \notin GraphEnd
                                     THEN "cancelling" ELSE "settle"]
          /\ req' = req /\ graph' = graph
    BY <1>2 DEF ReconcileOne
  <2>2. /\ mem'[w].todo = mem[w].todo \ {j} /\ mem'[w].cur = j /\ mem'[w].seen = graph[j.r]
        /\ pc'[w] \in {"cancelling", "settle"}
    BY <1>0, <2>1 DEF Memory
  <2> QED
    BY <1>t, <2>1, <2>2 DEF Relies, Dispatching
<1>3. CASE ReconcileDone(w)
  BY <1>3, <1>b DEF ReconcileDone
<1>4. CASE CancelWorkflow(w)
  <2>1. CASE Abort(w)
    BY <1>c, <2>1
  <2>2. CASE ~Abort(w)
    <3>1. /\ mem' = [mem EXCEPT ![w].seen = graph'[r]] /\ pc' = [pc EXCEPT ![w] = "settle"]
          /\ req' = req /\ pc[w] = "cancelling"
      BY <1>4, <2>2 DEF CancelWorkflow
    <3>2. /\ mem'[w].todo = mem[w].todo /\ mem'[w].cur = mem[w].cur /\ mem'[w].seen = graph'[r]
          /\ pc'[w] = "settle" /\ req[r].bound
      BY <1>0, <3>1 DEF Memory, Relies
    <3> QED
      BY <1>t, <3>1, <3>2 DEF Relies, Dispatching
  <2> QED
    BY <2>1, <2>2
<1>5. CASE Settle(w)
  <2>1. Abort(w) \/ NextDispatch(w) \/ Goto(w, "reconcile")
    BY <1>5 DEF Settle
  <2>2. ASSUME Goto(w, "reconcile") PROVE Relies(w)'
    BY <1>0, <1>a, <1>t, <2>2 DEF Goto, Dispatching
  <2> QED
    BY <1>c, <2>1, <2>2
<1>6. CASE ClaimDue(w)
  <2>1. CASE Abort(w) \/ Leave(w, "idle")
    BY <1>b, <1>c, <2>1 DEF Leave
  <2>2. ASSUME NEW q \in Request, Claims(w, q) PROVE Relies(w)'
    <3>1. /\ pc'[w] = "claimed" /\ mem'[w].cur.r = q /\ mem'[w].todo = mem[w].todo
          /\ Claimed(w, q)
      BY <2>2 DEF Claims
    <3>2. Truthful(q)
      BY DEF OInv
    <3>3. ~req'[q].bound
      BY <3>1, <3>2 DEF Claimed, Kept, Truthful, SettledStatus
    <3> QED
      BY <1>t, <3>1, <3>3 DEF Relies
  <2> QED
    BY <1>6, <2>1, <2>2, ClaimRows
<1>7. CASE CancelClaimed(w) \/ FailJob(w) \/ ReserveRefused(w)
  BY <1>7, <1>c DEF CancelClaimed, FailJob, ReserveRefused
<1>8. CASE CheckCancel(w) \/ Refused(w) \/ GatewayRaises(w) \/ CreateRun(w)
  <2>1. PICK label \in Dispatching \ {"completing", "binding"} : pc' = [pc EXCEPT ![w] = label]
    BY <1>8 DEF CheckCancel, Refused, GatewayRaises, CreateRun, Goto, Dispatching
  <2>2. pc[w] \in Dispatching /\ UNCHANGED <<mem, req, job>>
    BY <1>8 DEF CheckCancel, Refused, GatewayRaises, CreateRun, Goto, Dispatching
  <2> QED
    BY <1>d, <2>1, <2>2
<1>9. CASE MarkStarted(w)
  <2>1. CASE Abort(w)
    BY <1>c, <2>1
  <2>2. CASE ~Abort(w)
    <3>1. pc' = [pc EXCEPT ![w] = "marked"] /\ pc[w] \in Dispatching /\ "marked" \in Dispatching
      BY <1>9, <2>2 DEF MarkStarted, Goto, Dispatching
    <3> QED
      BY <1>9, <1>d, <2>2, <3>1, StartRows
  <2> QED
    BY <2>1, <2>2
<1>10. CASE Reserve(w)
  <2>1. /\ pc[w] \in Dispatching /\ UNCHANGED <<mem, req, job>> /\ r \in Request
        /\ binding' = [binding EXCEPT ![r] = IF @ = "none" THEN "pending" ELSE @]
        /\ pc' = [pc EXCEPT ![w] = CASE binding[r] = "none" -> "creating"
                                     [] binding[r] = "pending" -> "reserved"
                                     [] OTHER -> "binding"]
    BY <1>10, <1>h DEF Reserve, Goto, Dispatching, InHand
  <2>2. PICK label \in {"creating", "reserved", "binding"} :
          /\ pc' = [pc EXCEPT ![w] = label]
          /\ label = "binding" => binding[r] \notin {"none", "pending"}
    BY <2>1, Zenon
  <2>3. label = "binding" => binding'[r] = "completed"
    BY <1>0, <2>1, <2>2
  <2> QED
    BY <1>d, <2>1, <2>2, <2>3 DEF Dispatching
<1>11. CASE FindGraph(w)
  <2>1. /\ pc[w] \in Dispatching /\ UNCHANGED <<mem, req, job, graph>>
        /\ pc' = [pc EXCEPT ![w] = CASE graph[r] = "none" -> "creating"
                                     [] graph[r] \in {"created", "interrupted"} -> "start_run"
                                     [] OTHER -> "completing"]
    BY <1>11 DEF FindGraph, Goto, Dispatching
  <2>2. PICK label \in {"creating", "start_run", "completing"} :
          /\ pc' = [pc EXCEPT ![w] = label]
          /\ label = "completing" => graph[r] # "none"
    BY <2>1, Zenon
  <2> QED
    BY <1>d, <2>1, <2>2 DEF Dispatching
<1>12. CASE StartRun(w)
  <2>1. /\ pc[w] \in Dispatching /\ UNCHANGED <<mem, req, job>> /\ r \in Request
        /\ \/ pc' = [pc EXCEPT ![w] = "completing"] /\ graph' = [graph EXCEPT ![r] = "running"]
           \/ pc' = [pc EXCEPT ![w] = "failing_unknown"]
    BY <1>12, <1>h DEF StartRun, Goto, Dispatching, InHand
  <2>2. graph' = [graph EXCEPT ![r] = "running"] => graph'[r] # "none"
    BY <2>1 DEF IInv, GraphType
  <2> QED
    BY <1>d, <2>1, <2>2 DEF Dispatching
<1>13. CASE CompleteBinding(w)
  <2>1. /\ pc[w] \in Dispatching /\ UNCHANGED <<mem, req, job>> /\ r \in Request
        /\ pc' = [pc EXCEPT ![w] = "binding"] /\ binding' = [binding EXCEPT ![r] = "completed"]
    BY <1>13, <1>h DEF CompleteBinding, Goto, Dispatching, InHand
  <2>2. binding'[r] = "completed"
    BY <1>0, <2>1
  <2> QED
    BY <1>d, <2>1, <2>2 DEF Dispatching
<1>14. CASE MarkDispatched(w)
  <2>1. CASE Abort(w)
    BY <1>c, <2>1
  <2>2. CASE ~Abort(w)
    <3>1. /\ req' = [req EXCEPT ![r].bound = TRUE] /\ r \in Request
          /\ mem' = [mem EXCEPT ![w].todo = {[mem[w].cur EXCEPT !.cancel = req[r].cancel]},
                                ![w].fresh = TRUE]
          /\ pc' = [pc EXCEPT ![w] = "reconcile"] /\ mem[w].cur \in JobLease
      BY <1>14, <1>h, <2>2 DEF MarkDispatched, InHand, IInv, Hand
    <3>2. req'[r].bound
      BY <3>1 DEF IInv, QueueType, RequestRow
    <3>3. mem'[w].todo = {[mem[w].cur EXCEPT !.cancel = req[r].cancel]} /\ pc'[w] = "reconcile"
      BY <1>0, <3>1 DEF Memory
    <3>4. [mem[w].cur EXCEPT !.cancel = req[r].cancel].r = r
      BY <3>1 DEF JobLease
    <3>5. \A j \in mem'[w].todo : req'[j.r].bound
      BY <3>2, <3>3, <3>4
    <3> QED
      BY <1>a, <3>3, <3>5 DEF Dispatching
  <2> QED
    BY <2>1, <2>2
<1> QED
  BY <1>1, <1>2, <1>3, <1>4, <1>5, <1>6, <1>7, <1>8, <1>9, <1>10, <1>11, <1>12, <1>13, <1>14
  DEF RunOne

\* Whoever acts, a worker can rely on what it has read.
LEMMA ReliesStep ==
    ASSUME IInv, OInv, Next, NEW v \in Worker PROVE Relies(v)'
<1>0. Relies(v) /\ pc \in [Worker -> Label] /\ mem \in [Worker -> Memory] /\ mem[v] \in Memory
  BY DEF OInv, IInv, ProcType
<1>1. ASSUME NEW w \in Worker, RunOne(w) \/ Coordinate(w) \/ Stop(w) \/ Crash(w), w # v
      PROVE  Relies(v)'
  BY <1>1, Bystander, ReliesAside
<1>2. ASSUME Coordinate(v) \/ Stop(v) \/ Crash(v) PROVE Relies(v)'
  <2>1. \/ pc'[v] = pc[v] /\ mem'[v] = mem[v]
        \/ pc'[v] \in {"ready", "aborting", "idle", "stopping", "closing", "dead"}
    BY <1>0, <1>2 DEF Coordinate, AcquireAuthority, RenewAuthority, ReleaseAuthority, Shutdown,
                      Stop, Crash, Goto, Leave, procVars
  <2>2. mem'[v].todo = mem[v].todo \/ mem'[v].todo = {}
    BY <1>0, <1>2 DEF Coordinate, AcquireAuthority, RenewAuthority, ReleaseAuthority, Shutdown,
                      Stop, Crash, Goto, Leave, procVars, Blank
  <2>3. ASSUME NEW j \in mem[v].todo PROVE req'[j.r].bound
    <3>1. j.r \in Request /\ req[j.r].bound
      BY <1>0 DEF Memory, JobLease, Relies
    <3> QED
      BY <3>1, BoundMoves
  <2>4. CASE pc'[v] \in {"ready", "aborting", "idle", "stopping", "closing", "dead"}
    BY <2>2, <2>3, <2>4 DEF Relies, Dispatching
  <2> QED
    BY <2>1, <2>4, ReliesAside
<1>3. ASSUME Environment \/ Tick, \A w \in Worker : ~Stop(w) /\ ~Crash(w) PROVE Relies(v)'
  <2>1. UNCHANGED procVars
    BY <1>3 DEF Environment, Tick, Enqueue, RequestCancel, GraphStep, GraphCancelled,
                ReplayDeadLetter, UpdateScheduleStatus, PutSchedule
  <2> QED
    BY <2>1, ReliesAside DEF procVars
<1> QED
  BY <1>1, <1>2, <1>3, ReliesActs DEF Next, Environment

\* Nobody comes to enter the registry for a request but by marking it started.
LEMMA NowEntering ==
    ASSUME IInv, Next, NEW v \in Worker, NEW r \in Request, pc'[v] = "marked", mem'[v].cur.r = r
    PROVE  Entering(v, r) \/ Started(v, r)
<1>0. pc \in [Worker -> Label] /\ mem \in [Worker -> Memory]
  BY DEF IInv, ProcType
<1>1. CASE pc'[v] = pc[v] /\ mem'[v] = mem[v]
  BY <1>1 DEF Entering
<1>2. ASSUME NEW w \in Worker, RunOne(w) \/ Coordinate(w) \/ Stop(w) \/ Crash(w), w # v
      PROVE  Entering(v, r) \/ Started(v, r)
  BY <1>1, <1>2, Bystander
<1>3. ASSUME Coordinate(v) \/ Stop(v) \/ Crash(v) PROVE pc'[v] = pc[v] /\ mem'[v] = mem[v]
  BY <1>0, <1>3 DEF Coordinate, AcquireAuthority, RenewAuthority, ReleaseAuthority, Shutdown,
                    Stop, Crash, Goto, Leave, procVars
<1>4. ASSUME RunOne(v) PROVE MarkStarted(v) /\ ~Abort(v)
  BY <1>0, <1>4
  DEF RunOne, RenewDispatched, ReconcileOne, ReconcileDone, CancelWorkflow, Settle,
      ClaimDue, CheckCancel, CancelClaimed, MarkStarted, Refused, GatewayRaises, ReserveRefused,
      Reserve, FindGraph, CreateRun, StartRun, CompleteBinding, MarkDispatched, FailJob,
      Abort, Leave, Goto, NextDispatch
<1>5. ASSUME RunOne(v) PROVE Started(v, r)
  BY <1>4, <1>5, StartRows
<1>6. ASSUME Environment \/ Tick, \A w \in Worker : ~Stop(w) /\ ~Crash(w)
      PROVE  pc'[v] = pc[v] /\ mem'[v] = mem[v]
  BY <1>6 DEF Environment, Tick, Enqueue, RequestCancel, GraphStep, GraphCancelled,
              ReplayDeadLetter, UpdateScheduleStatus, PutSchedule, procVars
<1> QED
  BY <1>1, <1>2, <1>3, <1>5, <1>6 DEF Next, Environment

\* w enters the registry for r.
Enters(w, r) == Reserve(w) /\ Entering(w, r)

\* The entries of a request are counted by Reserve alone.
LEMMA EnteredMoves ==
    ASSUME IInv, Next, NEW r \in Request
    PROVE  \/ entered'[r] = entered[r]
           \/ \E w \in Worker : Enters(w, r) /\ entered'[r] = entered[r] + 1
<1>0. entered \in [Request -> Nat]
  BY DEF IInv, GraphType
<1>1. ASSUME NEW w \in Worker, Reserve(w)
      PROVE  entered'[r] = entered[r] \/ (Enters(w, r) /\ entered'[r] = entered[r] + 1)
  BY <1>0, <1>1 DEF Reserve, Enters, Entering
<1>2. ASSUME NEW w \in Worker, RunOne(w) PROVE UNCHANGED entered \/ Reserve(w)
  BY <1>2
  DEF RunOne, RenewDispatched, ReconcileOne, ReconcileDone, CancelWorkflow, Settle, ClaimDue,
      CheckCancel, CancelClaimed, MarkStarted, Refused, GatewayRaises,
      ReserveRefused, FindGraph, CreateRun,
      StartRun, CompleteBinding, MarkDispatched, FailJob, graphVars
<1>3. ASSUME NEW w \in Worker, Coordinate(w) PROVE UNCHANGED entered
  BY <1>3 DEF Coordinate, AcquireAuthority, RenewAuthority, ReleaseAuthority, Shutdown, graphVars
<1>4. ASSUME Environment \/ Tick PROVE UNCHANGED entered
  BY <1>4 DEF Environment, Tick, Enqueue, RequestCancel, GraphStep, GraphCancelled,
              ReplayDeadLetter, UpdateScheduleStatus, PutSchedule, Stop, Crash, graphVars
<1> QED
  BY <1>1, <1>2, <1>3, <1>4 DEF Next

\* Entering the registry leaves the queue alone, and its worker enters no more.
LEMMA EntersAlone ==
    ASSUME IInv, NEW w \in Worker, NEW r \in Request, Enters(w, r)
    PROVE  /\ UNCHANGED <<req, job, attempt>> /\ pc[w] = "marked" /\ mem' = mem
           /\ pc'[w] \in {"creating", "reserved", "binding"}
           /\ \A v \in Worker \ {w} : pc'[v] = pc[v]
<1>1. pc \in [Worker -> Label]
  BY DEF IInv, ProcType
<1> QED
  BY <1>1 DEF Enters, Entering, Reserve, Goto, queueVars

\* A request stays fresh until it is marked.
LEMMA FreshStays ==
    ASSUME IInv, Next, NEW r \in Request, Fresh(r), \A v \in Worker : ~Started(v, r)
    PROVE  Fresh(r)'
<1>1. entered'[r] = entered[r]
  BY EnteredMoves DEF Fresh, Enters
<1>2. ASSUME NEW v \in Worker, pc'[v] = "marked", mem'[v].cur.r = r PROVE FALSE
  BY <1>2, NowEntering DEF Fresh
<1> QED
  BY <1>1, <1>2 DEF Fresh, Entering

\* A non-idempotent request that can be claimed is fresh.
LEMMA ClaimedFresh ==
    ASSUME IInv, OInv, NEW w \in Worker, NEW r \in Request, Claimed(w, r), ~req[r].idem
    PROVE  Fresh(r)
<1>1. EntersOnce(r)
  BY DEF OInv
<1>2. req[r].status \notin SettledStatus
  BY DEF Claimed, SettledStatus
<1>3. ~(req[r].status = "leased" /\ attempt[r][req[r].count].started)
  BY DEF Claimed, AfterFailure, Unsafe
<1> QED
  BY <1>1, <1>2, <1>3 DEF EntersOnce, Fresh

\* Who still has to enter the registry has the job in hand since its claim.
LEMMA BeforeMoves ==
    ASSUME IInv, Next, NEW v \in Worker, pc'[v] \in Before
    PROVE  \/ pc[v] \in Before \cup {"marked"} /\ mem'[v].cur = mem[v].cur
           \/ \E r \in Request : Claimed(v, r) /\ mem'[v].cur.r = r
<1>0. pc \in [Worker -> Label] /\ mem \in [Worker -> Memory]
  BY DEF IInv, ProcType
<1>1. CASE pc'[v] = pc[v] /\ mem'[v] = mem[v]
  BY <1>1
<1>2. ASSUME NEW w \in Worker, RunOne(w) \/ Coordinate(w) \/ Stop(w) \/ Crash(w), w # v
      PROVE  pc'[v] = pc[v] /\ mem'[v] = mem[v]
  BY <1>2, Bystander
<1>3. ASSUME Coordinate(v) \/ Stop(v) \/ Crash(v) PROVE pc'[v] = pc[v] /\ mem'[v] = mem[v]
  BY <1>0, <1>3 DEF Coordinate, AcquireAuthority, RenewAuthority, ReleaseAuthority, Shutdown,
                    Stop, Crash, Goto, Leave, procVars, Before
<1>4. ASSUME RunOne(v), ~ClaimDue(v)
      PROVE  pc[v] \in Before \cup {"marked"} /\ mem'[v].cur = mem[v].cur
  <2>1. CheckCancel(v) \/ Refused(v)
    BY <1>0, <1>4
    DEF RunOne, RenewDispatched, ReconcileOne, ReconcileDone, CancelWorkflow, Settle,
        CheckCancel, CancelClaimed, MarkStarted, Refused, GatewayRaises, ReserveRefused,
        Reserve, FindGraph, CreateRun, StartRun, CompleteBinding, MarkDispatched, FailJob,
        Abort, Leave, Goto, NextDispatch, Before
  <2> QED
    BY <2>1 DEF CheckCancel, Refused, Goto, Before
<1>5. ASSUME ClaimDue(v) PROVE \E r \in Request : Claimed(v, r) /\ mem'[v].cur.r = r
  <2>1. ~Abort(v) /\ ~Leave(v, "idle")
    BY <1>0 DEF Abort, Leave, Before
  <2> QED
    BY <1>5, <2>1, ClaimRows DEF Claims
<1>6. ASSUME Environment \/ Tick, \A w \in Worker : ~Stop(w) /\ ~Crash(w)
      PROVE  pc'[v] = pc[v] /\ mem'[v] = mem[v]
  BY <1>6 DEF Environment, Tick, Enqueue, RequestCancel, GraphStep, GraphCancelled,
              ReplayDeadLetter, UpdateScheduleStatus, PutSchedule, procVars
<1> QED
  BY <1>1, <1>2, <1>3, <1>4, <1>5, <1>6 DEF Next, Environment

\* Whether a request is idempotent is settled when it is enqueued.
LEMMA IdemStays ==
    ASSUME IInv, Next, NEW r \in Request
    PROVE  /\ req[r].status # "none" => req'[r].idem = req[r].idem
           /\ req'[r].idem = req[r].idem \/ Opened(r)
<1>1. Moved(r)
  BY NextMoved
<1> QED
  BY <1>1 DEF Moved, Still, Opened, Dropped, Lapsing, Claimed, Taken, Ended, Started, Bound, Kept

\* The holder of a lease that has not entered still finds the request fresh.
LEMMA UnenteredStep ==
    ASSUME IInv, OInv, Next, NEW v \in Worker PROVE Unentered(v)'
<1> DEFINE r == mem[v].cur.r
<1>1. SUFFICES ASSUME NEW q, q = mem'[v].cur.r,
                      pc'[v] \in Before, job'[q].owner = v, ~req'[q].idem
               PROVE  Fresh(q)'
  BY DEF Unentered
<1>2. v # Nobody /\ ~Taken(v, q) /\ pc'[v] # "marked"
  BY <1>1, QueueConstants DEF Taken, Before
<1>3. ASSUME q \in Request, Claimed(v, q) PROVE Fresh(q)'
  <2>1. Fresh(q)
    BY <1>1, <1>3, ClaimedFresh DEF Claimed, Kept
  <2>2. \A w \in Worker : ~Started(w, q)
    BY <1>3 DEF Claimed, Started, InHandOf
  <2> QED
    BY <1>3, <2>1, <2>2, FreshStays
<1>4. ASSUME pc[v] \in Before \cup {"marked"}, q = r, job[q].owner = v PROVE Fresh(q)'
  <2>1. q \in Request
    BY <1>4 DEF IInv, Hand, JobLease, InHand, Before
  <2>2. req[q].status = "leased"
    BY <1>2, <1>4, <2>1 DEF IInv, Rows, Agree
  <2>3. ~req[q].idem
    BY <1>1, <2>1, <2>2, IdemStays
  <2>4. ASSUME NEW x \in Worker, Started(x, q)
        PROVE  x = v /\ pc[v] = "starting" /\ pc'[v] = "marked"
    BY <1>4, <2>4 DEF Started, InHandOf
  <2>5. CASE pc[v] \in Before
    <3>1. Fresh(q)
      BY <1>4, <2>3, <2>5 DEF OInv, Unentered
    <3> QED
      BY <1>2, <2>1, <2>4, <3>1, FreshStays
  <2>6. CASE pc[v] = "marked"
    <3>1. Entering(v, q) /\ EntersOnce(q)
      BY <1>4, <2>1, <2>6 DEF OInv, Entering
    <3>2. entered[q] = 0 /\ \A x \in Worker : Entering(x, q) => x = v
      BY <2>3, <3>1 DEF EntersOnce
    <3>3. ASSUME NEW x \in Worker, Enters(x, q) PROVE FALSE
      <4>1. x = v
        BY <3>2, <3>3 DEF Enters
      <4> QED
        BY <1>1, <2>1, <3>3, <4>1, EntersAlone DEF Before
    <3>4. entered'[q] = 0
      BY <2>1, <3>2, <3>3, EnteredMoves
    <3>5. ASSUME NEW x \in Worker, pc'[x] = "marked", mem'[x].cur.r = q PROVE FALSE
      <4>1. Entering(x, q) \/ Started(x, q)
        BY <2>1, <3>5, NowEntering
      <4> QED
        BY <1>2, <2>4, <3>2, <3>5, <4>1
    <3> QED
      BY <3>4, <3>5 DEF Fresh, Entering
  <2> QED
    BY <1>4, <2>5, <2>6
<1>5. CASE pc[v] \in Before \cup {"marked"} /\ mem'[v].cur = mem[v].cur
  <2>1. q = r /\ q \in Request
    BY <1>1, <1>5 DEF IInv, Hand, JobLease, InHand, Before
  <2> QED
    BY <1>1, <1>2, <1>3, <1>4, <1>5, <2>1, OwnerMoves
<1>6. CASE \E k \in Request : Claimed(v, k) /\ mem'[v].cur.r = k
  BY <1>1, <1>3, <1>6
<1> QED
  BY <1>1, <1>5, <1>6, BeforeMoves

\* A non-idempotent request that has or will be entered is never put back.
LEMMA EntersOnceStep ==
    ASSUME IInv, OInv, Next, NEW r \in Request PROVE EntersOnce(r)'
<1> DEFINE Closing == \/ req[r].status \in SettledStatus
                      \/ req[r].status = "leased" /\ attempt[r][req[r].count].started
           Touched == entered[r] # 0 \/ \E w \in Worker : Entering(w, r)
<1>0. EntersOnce(r) /\ Truthful(r) /\ Moved(r) /\ entered[r] \in Nat
  BY NextMoved DEF OInv, IInv, GraphType
<1>1. req'[r].status = "none" => ~req'[r].idem
  <2>1. ASSUME req'[r].status = "none" PROVE Still(r)
    <3>1. ASSUME NEW w \in Worker, Ended(w, r) PROVE FALSE
      BY <2>1, <3>1 DEF Ended, Outcome, GraphEnd, AfterFailure
    <3> QED
      BY <1>0, <2>1, <3>1
      DEF Moved, Opened, Dropped, Lapsing, Claimed, Taken, Started, Bound, AfterFailure
  <2> QED
    BY <1>0, <2>1 DEF Still, Kept, EntersOnce
<1>2. SUFFICES ASSUME ~req'[r].idem
               PROVE  /\ entered'[r] <= 1
                      /\ \A w \in Worker : Entering(w, r)' =>
                           entered'[r] = 0 /\ \A v \in Worker : Entering(v, r)' => v = w
                      /\ Touched' => Closing'
  BY <1>1 DEF EntersOnce
<1>3. ~req[r].idem
  BY <1>0, <1>2, IdemStays DEF Opened, EntersOnce
<1>4. /\ entered[r] <= 1
      /\ \A w \in Worker : Entering(w, r) =>
           entered[r] = 0 /\ \A v \in Worker : Entering(v, r) => v = w
      /\ Touched => Closing
  BY <1>0, <1>3 DEF EntersOnce
<1>5. CASE \E w \in Worker : Enters(w, r)
  <2>1. PICK w \in Worker : Enters(w, r)
    BY <1>5
  <2>2. /\ UNCHANGED <<req, job, attempt>> /\ pc[w] = "marked" /\ mem' = mem
        /\ pc'[w] \in {"creating", "reserved", "binding"}
        /\ \A v \in Worker \ {w} : pc'[v] = pc[v]
    BY <2>1, EntersAlone
  <2>3. Entering(w, r) /\ entered[r] = 0 /\ \A v \in Worker : Entering(v, r) => v = w
    BY <1>4, <2>1 DEF Enters
  <2>4. entered'[r] <= 1
    BY <2>3, EnteredMoves
  <2>5. \A v \in Worker : ~Entering(v, r)'
    BY <2>2, <2>3 DEF Entering
  <2>6. Closing'
    BY <1>4, <2>2, <2>3
  <2> QED
    BY <2>4, <2>5, <2>6
<1>6. CASE \E w \in Worker : Started(w, r)
  <2>1. PICK w \in Worker : Started(w, r)
    BY <1>6
  <2>2. Fresh(r)
    BY <1>3, <2>1 DEF OInv, Unentered, Started, InHandOf, Before
  <2>3. entered'[r] = 0
    BY <2>2, EnteredMoves DEF Fresh, Enters
  <2>4. ASSUME NEW v \in Worker, pc'[v] = "marked", mem'[v].cur.r = r PROVE v = w
    <3>1. Started(v, r)
      BY <2>2, <2>4, NowEntering DEF Fresh
    <3> QED
      BY <2>1, <3>1 DEF Started, InHandOf
  <2>5. Closing'
    BY <2>1 DEF Started
  <2> QED
    BY <2>3, <2>4, <2>5 DEF Entering
<1>7. CASE ~(\E w \in Worker : Enters(w, r)) /\ ~(\E w \in Worker : Started(w, r))
  <2>1. entered'[r] = entered[r]
    BY <1>7, EnteredMoves
  <2>2. ASSUME NEW v \in Worker, pc'[v] = "marked", mem'[v].cur.r = r PROVE Entering(v, r)
    BY <1>7, <2>2, NowEntering
  <2>3. /\ entered'[r] <= 1
        /\ \A w \in Worker : Entering(w, r)' =>
             entered'[r] = 0 /\ \A v \in Worker : Entering(v, r)' => v = w
        /\ Touched' => Touched
    BY <1>4, <2>1, <2>2 DEF Entering
  <2>4. ASSUME Touched PROVE Closing'
    <3>1. Closing /\ ~Fresh(r)
      BY <1>4, <2>4 DEF Fresh
    <3>2. req[r].status = "leased" => AfterFailure(r, Unsafe(r)) = "manual_reconcile_required"
      BY <1>3, <3>1 DEF AfterFailure, Unsafe, SettledStatus
    <3>3. "manual_reconcile_required" \in SettledStatus /\ "cancelled" \in SettledStatus
          /\ "leased" \notin SettledStatus /\ req[r].status \notin {"queued", "retry_wait", "none"}
      BY <3>1 DEF SettledStatus
    <3>4. CASE Still(r)
      BY <3>1, <3>4 DEF Still, Unrun
    <3>5. CASE Opened(r) \/ Dropped(r) \/ Lapsing(r)
      BY <3>2, <3>3, <3>5 DEF Opened, Dropped, Lapsing
    <3>6. ASSUME NEW w \in Worker, Claimed(w, r) PROVE FALSE
      BY <1>3, <3>1, <3>6, ClaimedFresh
    <3>7. ASSUME NEW w \in Worker, Taken(w, r) \/ Bound(w, r) PROVE Closing'
      BY <3>1, <3>3, <3>7 DEF Taken, Bound, InHandOf, Unrun
    <3>8. ASSUME NEW w \in Worker, Ended(w, r) PROVE Closing'
      <4>1. pc[w] # "failing"
        BY <1>3, <3>1, <3>8 DEF OInv, Unentered, Before, Ended, InHandOf
      <4>2. AfterFailure(r, TRUE) = "manual_reconcile_required"
        BY DEF AfterFailure
      <4>3. \A g \in GraphEnd : Outcome(g) \in SettledStatus
        BY DEF GraphEnd, Outcome, SettledStatus
      <4> QED
        BY <1>3, <3>3, <3>8, <4>1, <4>2, <4>3 DEF Ended
    <3> QED
      BY <1>0, <1>7, <3>4, <3>5, <3>6, <3>7, <3>8 DEF Moved
  <2> QED
    BY <2>3, <2>4
<1> QED
  BY <1>5, <1>6, <1>7

-----------------------------------------------------------------------------
(***************************************************************************)
(* The limits of a schedule.                                               *)
(***************************************************************************)
\* The limit of a request is a number.
LEMMA LimitType ==
    ASSUME IInv, NEW r \in Request PROVE req[r].limit \in Nat
<1>1. req[r] \in RequestRow
  BY RequestColumns DEF IInv
<1>2. req[r].limit \in Limits \cup {0}
  BY <1>1 DEF RequestRow
<1>3. ASSUME req[r].limit \in Limits PROVE req[r].limit \in Nat
  BY <1>3, QueueConstants
<1>4. CASE req[r].limit = 0
  BY <1>4
<1> QED
  BY <1>2, <1>3, <1>4

\* It stays as it is once the request exists.
LEMMA LimitStays ==
    ASSUME IInv, Next, NEW r \in Request
    PROVE  /\ RecoveredReq[r].limit = req[r].limit
           /\ req[r].status # "none" => req'[r].limit = req[r].limit
<1>0. QueueOK
  BY DEF IInv, QueueOK
<1>1. Moved(r)
  BY NextMoved
<1>2. req[r].status # "none" => req'[r].limit = req[r].limit
  BY <1>1 DEF Moved, Still, Opened, Dropped, Lapsing, Claimed, Taken, Ended, Started, Bound, Kept
<1> QED
  BY <1>0, <1>2, RecoveredRows

\* Fewer leased requests stay within the limit.
LEMMA FewerLeased ==
    ASSUME NEW s \in Schedule, Limited(s), Leased(s)' \subseteq Leased(s),
           \A r \in Leased(s) : req'[r].limit = req[r].limit
    PROVE  Limited(s)'
<1>1. IsFiniteSet(Leased(s)')
  BY FS_Subset DEF Limited
<1>2. ASSUME NEW n \in Nat PROVE Cardinality(Within(s, n)') <= n
  <2>1. Within(s, n)' \subseteq Within(s, n) /\ Within(s, n) \subseteq Leased(s)
    BY DEF Within
  <2>2. IsFiniteSet(Within(s, n)) /\ Cardinality(Within(s, n)) <= n
    BY <2>1, FS_Subset DEF Limited
  <2>3. /\ Cardinality(Within(s, n)') <= Cardinality(Within(s, n))
        /\ Cardinality(Within(s, n)) \in Nat /\ Cardinality(Within(s, n)') \in Nat
    BY <2>1, <2>2, FS_Subset, FS_CardinalityType
  <2> QED
    BY <2>2, <2>3
<1> QED
  BY <1>1, <1>2 DEF Limited

\* Every claim leaves its schedule within the limits, and no other step leases.
LEMMA LimitedStep ==
    ASSUME IInv, OInv, Next, NEW s \in Schedule PROVE Limited(s)'
<1>0. Limited(s) /\ QueueOK
  BY DEF OInv, IInv, QueueOK
<1>1. \A k \in Request : RecoveredReq[k].status = "leased" => req[k].status = "leased"
  BY <1>0, RecoveredRows
<1>l. \A k \in Leased(s) : req'[k].limit = req[k].limit
  BY LimitStays DEF Leased
<1>2. ASSUME NEW w \in Worker, NEW r \in Request, Claims(w, r) PROVE Limited(s)'
  <2>1. \A k \in Request \ {r} : req'[k].status = "leased" => RecoveredReq[k].status = "leased"
    BY <1>2 DEF Claims
  <2>2. CASE ScheduleOf[r] # s
    <3>1. Leased(s)' \subseteq Leased(s)
      BY <1>1, <2>1, <2>2 DEF Leased
    <3> QED
      BY <1>0, <1>l, <3>1, FewerLeased
  <2>3. CASE ScheduleOf[r] = s
    <3> DEFINE R == {q \in Request : ScheduleOf[q] = s /\ RecoveredReq[q].status = "leased"}
    <3>1. Cardinality(R) < req[r].limit /\ req[r].limit \in Nat
      BY <1>2, <2>3, LimitStays, LimitType DEF Claims, Due
    <3>2. R \subseteq Leased(s) /\ Leased(s)' \subseteq R \cup {r}
      BY <1>1, <2>1 DEF Leased
    <3>3. req'[r].limit = req[r].limit
      BY <1>2 DEF Claims, Claimed, Kept
    <3> HIDE DEF R
    <3>4. IsFiniteSet(R)
      BY <1>0, <3>2, FS_Subset DEF Limited
    <3>5. /\ IsFiniteSet(R \cup {r}) /\ Cardinality(R) \in Nat
          /\ Cardinality(R \cup {r}) \in {Cardinality(R), Cardinality(R) + 1}
      BY <3>4, FS_AddElement, FS_CardinalityType
    <3>6. IsFiniteSet(Leased(s)')
      BY <3>2, <3>5, FS_Subset
    <3>7. ASSUME NEW n \in Nat PROVE Cardinality(Within(s, n)') <= n
      <4>1. CASE req[r].limit <= n
        <5>1. Within(s, n)' \subseteq R \cup {r}
          BY <3>2 DEF Within
        <5>2. /\ Cardinality(Within(s, n)') <= Cardinality(R \cup {r})
              /\ Cardinality(Within(s, n)') \in Nat
          BY <3>5, <5>1, FS_Subset, FS_CardinalityType
        <5> QED
          BY <3>1, <3>5, <4>1, <5>2
      <4>2. CASE ~(req[r].limit <= n)
        <5>1. r \notin Within(s, n)'
          BY <3>3, <4>2 DEF Within
        <5>2. Within(s, n)' \subseteq Within(s, n) /\ Within(s, n) \subseteq Leased(s)
          BY <1>l, <3>2, <5>1 DEF Within
        <5>3. IsFiniteSet(Within(s, n)) /\ Cardinality(Within(s, n)) <= n
          BY <1>0, <5>2, FS_Subset DEF Limited
        <5>4. /\ Cardinality(Within(s, n)') <= Cardinality(Within(s, n))
              /\ Cardinality(Within(s, n)) \in Nat /\ Cardinality(Within(s, n)') \in Nat
          BY <5>2, <5>3, FS_Subset, FS_CardinalityType
        <5> QED
          BY <5>3, <5>4
      <4> QED
        BY <4>1, <4>2
    <3> QED
      BY <3>6, <3>7 DEF Limited
  <2> QED
    BY <2>2, <2>3
<1>3. CASE \A w \in Worker, r \in Request : ~Claims(w, r)
  <2>1. ASSUME NEW k \in Request, req'[k].status = "leased" PROVE req[k].status = "leased"
    <3>1. ASSUME NEW w \in Worker, Claimed(w, k) PROVE req[k].status = "leased"
      <4>1. ClaimDue(w) /\ pc'[w] = "claimed"
        BY <3>1 DEF Claimed
      <4>2. Abort(w) => req' = req
        BY DEF Abort, queueVars
      <4> QED
        BY <1>1, <1>3, <2>1, <4>1, <4>2, ClaimRows
    <3>2. Moved(k) /\ AfterFailure(k, Unsafe(k)) # "leased"
      BY NextMoved DEF AfterFailure
    <3> QED
      BY <2>1, <3>1, <3>2 DEF Moved, Still, Opened, Dropped, Lapsing, Taken, Ended, Started, Bound,
                              InHandOf
  <2>2. Leased(s)' \subseteq Leased(s)
    BY <2>1 DEF Leased
  <2> QED
    BY <1>0, <1>l, <2>2, FewerLeased
<1> QED
  BY <1>2, <1>3

-----------------------------------------------------------------------------
(***************************************************************************)
(* The theorems.                                                           *)
(***************************************************************************)
\* The empty queue satisfies the invariant.
LEMMA InitOInv == Init => OInv
<1> SUFFICES ASSUME Init PROVE OInv
  OBVIOUS
<1>1. ASSUME NEW r \in Request
      PROVE  /\ req[r].status = "none" /\ ~req[r].bound /\ ~req[r].idem
             /\ binding[r] = "none" /\ graph[r] = "none" /\ entered[r] = 0
  BY DEF Init
<1>2. \A w \in Worker : pc[w] = "idle" /\ mem[w].todo = {}
  BY DEF Init, Blank
<1>3. ASSUME NEW s \in Schedule PROVE Limited(s)
  <2>1. Leased(s) = {} /\ \A n \in Nat : Within(s, n) = {}
    BY <1>1 DEF Leased, Within
  <2> QED
    BY <2>1, FS_EmptySet DEF Limited
<1>4. \A r \in Request : Truthful(r) /\ EntersOnce(r)
  BY <1>1, <1>2 DEF Truthful, EntersOnce, Entering, Final
<1>5. \A w \in Worker : Relies(w) /\ Unentered(w)
  BY <1>2 DEF Relies, Unentered, Dispatching, Before
<1> QED
  BY <1>3, <1>4, <1>5 DEF OInv

\* Every step keeps it.
LEMMA NextOInv == IInv /\ OInv /\ [Next]_vars => OInv'
<1> SUFFICES ASSUME IInv, OInv, [Next]_vars PROVE OInv'
  OBVIOUS
<1>1. CASE Next
  BY <1>1, TruthfulStep, EntersOnceStep, ReliesStep, UnenteredStep, LimitedStep DEF OInv
<1>2. CASE UNCHANGED vars
  BY <1>2 DEF vars, OInv, Truthful, EntersOnce, Relies, Unentered, Fresh, Entering, Limited, Leased,
              Within
<1> QED
  BY <1>1, <1>2

\* What the queue, the workers and the graphs know of each other stays true
\* in every reachable state.
THEOREM OutcomeInvariance == Spec => []OInv
  BY InitOInv, NextOInv, Invariance, PTL DEF Spec

\* What the queue says about a dispatched request is what became of its graph,
\* whoever drives the graph, takes the job over or settles it.
THEOREM OutcomesTrue == Spec => []OutcomeTruthful
<1>1. OInv => OutcomeTruthful
  BY DEF OInv, Truthful, OutcomeTruthful
<1> QED
  BY <1>1, OutcomeInvariance, PTL

\* A job that is not idempotent reaches the graph registry in one attempt
\* only, through unknown outcomes, crashes, expiries and take-overs.
THEOREM EntersRegistryOnce == Spec => []NonIdempotentOnce
<1>1. OInv => NonIdempotentOnce
  BY DEF OInv, EntersOnce, NonIdempotentOnce
<1> QED
  BY <1>1, OutcomeInvariance, PTL

\* The concurrency_limit of a version of a schedule is never exceeded by the
\* leased requests whose own version allows no more: the claim counts the leased
\* requests of every version after it has recovered the expired ones.
THEOREM WithinLimit == Spec => []ConcurrencyLimit
<1>1. ASSUME IInv, OInv PROVE ConcurrencyLimit
  <2>1. ASSUME NEW r \in Request
        PROVE  Cardinality({q \in Request : /\ ScheduleOf[q] = ScheduleOf[r]
                                            /\ req[q].status = "leased"
                                            /\ req[q].limit <= req[r].limit}) <= req[r].limit
    <3>1. ScheduleOf[r] \in Schedule /\ req[r].limit \in Nat
      BY <1>1, LimitType, QueueConstants
    <3>2. Cardinality(Within(ScheduleOf[r], req[r].limit)) <= req[r].limit
      BY <1>1, <3>1 DEF OInv, Limited
    <3> QED
      BY <3>2 DEF Within, Leased
  <2> QED
    BY <2>1 DEF ConcurrencyLimit
<1> QED
  BY <1>1, Invariance, OutcomeInvariance, PTL

\* A settled request is never touched again, and a bound one keeps its graph
\* and gets no further attempt.
THEOREM SettledFinal == Spec => SettledStays
<1>1. ASSUME IInv, OInv, Next, NEW r \in Request
      PROVE  /\ req[r].status \in SettledStatus =>
                  req'[r].status = req[r].status /\ attempt'[r] = attempt[r]
             /\ req[r].bound => req'[r].bound /\ req'[r].count = req[r].count
  <2>1. Moved(r) /\ Truthful(r)
    BY <1>1, NextMoved DEF OInv
  <2> QED
    BY <2>1 DEF Moved, Truthful, Still, Opened, Dropped, Lapsing, Claimed, Taken, Ended, Started,
                Bound, Kept, Unrun, InHandOf, SettledStatus
<1>2. ASSUME UNCHANGED vars, NEW r \in Request
      PROVE  req'[r] = req[r] /\ attempt'[r] = attempt[r]
  BY <1>2 DEF vars
<1>3. IInv /\ OInv /\ [Next]_vars =>
        [\A r \in Request :
           /\ req[r].status \in SettledStatus =>
                req'[r].status = req[r].status /\ attempt'[r] = attempt[r]
           /\ req[r].bound => req'[r].bound /\ req'[r].count = req[r].count]_vars
  BY <1>1, <1>2
<1> QED
  BY <1>3, Invariance, OutcomeInvariance, PTL DEF Spec, SettledStays
=============================================================================

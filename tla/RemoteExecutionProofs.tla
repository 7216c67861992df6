------------------------- MODULE RemoteExecutionProofs -------------------------
(***************************************************************************)
(* Proofs about RemoteExecution, for any number of jobs, dispatchers,      *)
(* owners and leases, every kind of job and every limit, with clients that *)
(* poll, post and complete jobs: the types, that the Core and the target   *)
(* agree on what dispatchers reported, and that RemoteExecution implements *)
(* RemotePromise.                                                          *)
(***************************************************************************)
EXTENDS RemoteExecution, TLAPS

\* A handler stands between the entry of a job and its settlement.
Busy == {"running", "performed"}

\* Nobody has posted the job.
Unposted(j) == \A x \in Poster : call[j][x].pc = "none"

\* A job is posted after it was claimed; nothing happens on the target before.
Fresh(j) ==
    /\ job[j].status \in {"none", "queued"} => Unposted(j)
    /\ Unposted(j) => ledger[j].row = "absent"
    /\ ledger[j].row = "absent" =>
          ran[j] = 0 /\ \A x \in Poster : call[j][x].pc \notin Busy \cup {"answered"}

\* At most one handler is at work on a job, and none once the job is settled.
OneHandler(j) ==
    /\ \A x, y \in Poster : call[j][x].pc \in Busy /\ call[j][y].pc \in Busy => x = y
    /\ ledger[j].row = "done" => \A x \in Poster : call[j][x].pc \notin Busy

\* What is started is declared as not to be repeated, and is started once.
Started(j) ==
    /\ ran[j] \in {0, 1} /\ (ran[j] = 1 => kind[j].exec /\ kind[j].once)
    /\ \A x \in Poster : call[j][x].pc = "running" => ran[j] = 0
    /\ \A x \in Poster : call[j][x].pc \in Handled /\ kind[j].exec => kind[j].once

\* Results have a source: a success has run, an answer is in the ledger.
Sourced(j) ==
    /\ \A x \in Poster : call[j][x].pc = "performed" =>
          /\ call[j][x].result \in Result
          /\ call[j][x].result = "succeeded" /\ kind[j].exec => ran[j] = 1
    /\ ledger[j].row = "done" =>
          /\ ledger[j].result \in Result
          /\ ledger[j].result = "succeeded" /\ kind[j].exec => ran[j] = 1
    /\ \A x \in Poster : call[j][x].pc = "answered" =>
          /\ call[j][x].result \in Result
          /\ call[j][x].result \in Reported =>
                ledger[j].row = "done" /\ ledger[j].result = call[j][x].result

\* A posted job is closed as not done only if it may be repeated, and a
\* dispatcher records as reported only what the ledger says.
Recorded(j) ==
    /\ job[j].by = "nobody" <=> job[j].status \in {"none", "queued", "running"}
    /\ job[j].by = "core" =>
          /\ job[j].status \in {"void", "cancelled", "manual"}
          /\ job[j].status = "cancelled" => Unposted(j)
          /\ job[j].status = "void" => Unposted(j) \/ ~kind[j].once
    /\ job[j].by = "dispatcher" =>
          /\ job[j].status = "void" => ~kind[j].once
          /\ job[j].status \in Reported =>
                ledger[j].row = "done" /\ ledger[j].result = job[j].status
    /\ job[j].by = "client" => job[j].status \in Result

JobInv(j) == Fresh(j) /\ OneHandler(j) /\ Started(j) /\ Sourced(j) /\ Recorded(j)

Holds(d) == disp[d].pc \in {"claimed", "posted", "heard"}

\* What a dispatcher with a job in hand knows about it
DispInv(d) ==
    Holds(d) =>
        /\ disp[d].job \in Job
        /\ job[disp[d].job].status \notin {"none", "queued"}
        /\ job[disp[d].job].by # "dispatcher"
        /\ job[disp[d].job].by = "core" =>
              /\ job[disp[d].job].status \in {"manual", "void"}
              /\ job[disp[d].job].status = "void" => ~kind[disp[d].job].once
        /\ disp[d].pc = "claimed" <=> call[disp[d].job]["dispatcher"].pc = "none"
        /\ disp[d].pc = "heard" =>
              /\ disp[d].result \in Result \cup {"void"}
              /\ disp[d].result = "void" => ~kind[disp[d].job].once
              /\ disp[d].result \in Reported =>
                    /\ ledger[disp[d].job].row = "done"
                    /\ ledger[disp[d].job].result = disp[d].result

\* A job is in the hands of one dispatcher.
Alone == \A d, e \in Dispatcher : Holds(d) /\ Holds(e) /\ disp[d].job = disp[e].job => d = e

Inv ==
    /\ \A j \in Job : JobInv(j)
    /\ \A d \in Dispatcher : DispInv(d)
    /\ Alone

IInv == TypeOK /\ Inv

\* What others may see of a job stays, or becomes known for good.
Kept(j) ==
    /\ kind'[j] = kind[j]
    /\ job'[j].status = job[j].status /\ job'[j].by = job[j].by
    /\ call'[j]["dispatcher"].pc = "none" <=> call[j]["dispatcher"].pc = "none"
    /\ ledger[j].row = "done" => ledger'[j].row = "done" /\ ledger'[j].result = ledger[j].result
-----------------------------------------------------------------------------
(***************************************************************************)
(* Types                                                                   *)
(***************************************************************************)
LEMMA PosterType == Poster = {"dispatcher", "client"}
  BY DEF Poster

LEMMA ResultType ==
  /\ Reported = {"succeeded", "failed", "cancelled"}
  /\ Result = {"succeeded", "failed", "cancelled", "manual"}
  /\ Status = {"none", "queued", "running", "void", "succeeded", "failed", "cancelled", "manual"}
  BY DEF Status, Result, Reported

\* Fields of a job row that change keep the row a row.
LEMMA JobRowType ==
  ASSUME NEW r \in JobRow
  PROVE  /\ \A s \in Status : [r EXCEPT !.status = s] \in JobRow
         /\ \A s \in Status, a \in Author : [r EXCEPT !.status = s, !.by = a] \in JobRow
         /\ [r EXCEPT !.cancel = TRUE] \in JobRow
         /\ r.status \in Status /\ r.fence \in 0..MaxLeases /\ r.by \in Author
  BY DEF JobRow

LEMMA AuthorType == Author = {"nobody", "core", "dispatcher", "client"}
  BY DEF Author

LEMMA DispatchType ==
  ASSUME NEW r \in Dispatch
  PROVE  /\ r.fence \in 0..MaxLeases /\ r.job \in Job \cup {NoJob}
         /\ [r EXCEPT !.pc = "posted"] \in Dispatch
         /\ \A v \in Result \cup {"none", "void"} :
               [pc |-> "heard", fence |-> r.fence, job |-> r.job, result |-> v] \in Dispatch
  BY DEF Dispatch

LEMMA RequestType ==
  /\ \A p \in Handled \cup {"none", "sent", "answered", "over"}, r \in Result \cup {"none"} :
        /\ At(p, r) \in Request
        /\ At(p, r).pc = p /\ At(p, r).result = r
  /\ \A c \in Request : c.result \in Result \cup {"none"} /\ c.pc \in Handled \cup {"none", "sent", "answered", "over"}
  /\ Handled = {"verified", "running", "performed"}
  BY DEF At, Request, Handled

LEMMA LedgerType ==
  /\ \A r \in LedgerRow : r.result \in Result \cup {"none"} /\ r.cancel \in BOOLEAN
  /\ \A w \in {"absent", "running", "done", "unknown"}, v \in Result \cup {"none"}, b \in BOOLEAN :
        [row |-> w, result |-> v, cancel |-> b] \in LedgerRow
  /\ \A r \in LedgerRow : [r EXCEPT !.cancel = TRUE] \in LedgerRow
  BY DEF LedgerRow

LEMMA ReadingType ==
  ASSUME NEW r \in Reading
  PROVE  /\ r.left \in 0..LeaseTTL
         /\ [r EXCEPT !.left = Minus1(r.left)] \in Reading
         /\ [busy |-> FALSE, fence |-> 0, free |-> FALSE, left |-> 0] \in Reading
<1>1. Minus1(r.left) \in 0..LeaseTTL
  BY RemoteConstants DEF Reading, Minus1, RemoteConstants
<1> QED BY <1>1, RemoteConstants DEF Reading, RemoteConstants

LEMMA LeaseType ==
  ASSUME NEW r \in LeaseRow
  PROVE  /\ r.fence \in 0..MaxLeases
         /\ [r EXCEPT !.left = Minus1(r.left)] \in LeaseRow
         /\ [r EXCEPT !.left = LeaseTTL] \in LeaseRow
         /\ [r EXCEPT !.left = 0, !.released = TRUE] \in LeaseRow
<1>1. Minus1(r.left) \in 0..LeaseTTL
  BY RemoteConstants DEF LeaseRow, Minus1, RemoteConstants
<1>2. LeaseTTL \in 0..LeaseTTL /\ 0 \in 0..LeaseTTL
  BY RemoteConstants DEF RemoteConstants
<1> QED BY <1>1, <1>2 DEF LeaseRow

LEMMA ReconciledType ==
  ASSUME TypeOK
  PROVE  Reconciled \in [Job -> JobRow]
<1>1. ASSUME NEW j \in Job
      PROVE  job[j] \in JobRow /\ [job[j] EXCEPT !.status = Withheld(j), !.by = "core"] \in JobRow
  <2>1. job[j] \in JobRow
    BY DEF TypeOK
  <2>2. Withheld(j) \in Status
    BY ResultType DEF Withheld
  <2> QED BY <2>1, <2>2, JobRowType, AuthorType
<1> QED BY <1>1 DEF Reconciled

LEMMA SetType ==
  ASSUME call \in [Job -> [Poster -> Request]], NEW j \in Job, NEW x \in Poster, NEW c \in Request,
         Set(j, x, c)
  PROVE  /\ call' \in [Job -> [Poster -> Request]]
         /\ call'[j][x] = c
         /\ \A y \in Poster : y # x => call'[j][y] = call[j][y]
         /\ \A i \in Job : i # j => call'[i] = call[i]
  BY DEF Set

LEMMA AnswerType ==
  ASSUME call \in [Job -> [Poster -> Request]], NEW j \in Job, NEW x \in Poster,
         NEW r \in Result \cup {"none"}, Answer(j, x, r)
  PROVE  /\ call' \in [Job -> [Poster -> Request]]
         /\ \/ call'[j][x] = At("answered", r)
            \/ call'[j][x] = At("over", "none")
         /\ \A y \in Poster : y # x => call'[j][y] = call[j][y]
         /\ \A i \in Job : i # j => call'[i] = call[i]
<1>1. At("answered", r) \in Request /\ At("over", "none") \in Request
  BY RequestType
<1> QED BY <1>1, SetType DEF Answer

LEMMA TypeNext == ASSUME IInv, Next PROVE TypeOK'
<1>0. TypeOK
  BY DEF IInv
<1> MaxLeases \in Nat /\ LeaseTTL \in Nat \ {0}
  BY RemoteConstants DEF RemoteConstants
<1> lease.fence \in 0..MaxLeases
  BY <1>0 DEF TypeOK, LeaseRow
<1>1. CASE Reconcile
  BY <1>0, <1>1, ReconciledType DEF TypeOK, Reconcile
<1>2. CASE Renew \/ Release \/ Tick
  <2>1. lease' \in LeaseRow
    BY <1>0, <1>2, LeaseType DEF TypeOK, Renew, Release, Tick
  <2>2. taker' \in [Owner -> Reading]
    <3>1. \A o \in Owner : [taker[o] EXCEPT !.left = Minus1(taker[o].left)] \in Reading
      BY <1>0, ReadingType DEF TypeOK
    <3> QED BY <1>0, <1>2, <3>1 DEF TypeOK, Renew, Release, Tick
  <2> QED BY <1>0, <1>2, <2>1, <2>2 DEF TypeOK, Renew, Release, Tick
<1>3. CASE \E o \in Owner : BeginAcquire(o)
  <2>1. [busy |-> TRUE, fence |-> lease.fence, free |-> lease.left = 0, left |-> LeaseTTL] \in Reading
    <3>1. lease.fence \in 0..MaxLeases /\ LeaseTTL \in 0..LeaseTTL
      OBVIOUS
    <3> QED BY <3>1 DEF Reading
  <2> QED BY <1>0, <1>3, <2>1, ReconciledType DEF TypeOK, BeginAcquire
<1>4. CASE \E o \in Owner : Acquire(o) \/ AcquireRefused(o)
  <2>1. PICK o \in Owner : Acquire(o) \/ AcquireRefused(o)
    BY <1>4
  <2>2. taker[o].left \in 0..LeaseTTL /\ taker' \in [Owner -> Reading]
    BY <1>0, <2>1, ReadingType DEF TypeOK, Acquire, AcquireRefused, Idle
  <2>3. lease' \in LeaseRow
    <3>1. CASE Acquire(o)
      <4>1. lease.fence + 1 \in 0..MaxLeases
        BY <3>1 DEF Acquire
      <4> QED BY <2>2, <3>1, <4>1 DEF Acquire, LeaseRow
    <3> QED BY <1>0, <2>1, <3>1 DEF TypeOK, AcquireRefused
  <2> QED BY <1>0, <2>1, <2>2, <2>3 DEF TypeOK, Acquire, AcquireRefused
<1>5. CASE \E j \in Job, k \in Kind : CreateJob(j, k)
  <2>1. PICK j \in Job, k \in Kind : CreateJob(j, k)
    BY <1>5
  <2>2. k \in Declared
    BY RemoteConstants DEF RemoteConstants, Declared
  <2>3. [status |-> "queued", fence |-> lease.fence, cancel |-> FALSE, by |-> "nobody"] \in JobRow
    BY <1>0, LeaseType, ResultType, AuthorType DEF TypeOK, JobRow
  <2> QED BY <1>0, <2>1, <2>2, <2>3 DEF TypeOK, CreateJob
<1>6. CASE \E j \in Job : CancelJob(j)
  <2>1. PICK j \in Job : CancelJob(j)
    BY <1>6
  <2>2. job[j] \in JobRow
    BY <1>0 DEF TypeOK
  <2>3. [status |-> "cancelled", fence |-> job[j].fence, cancel |-> TRUE, by |-> "core"] \in JobRow
    BY <2>2, JobRowType, ResultType, AuthorType DEF JobRow
  <2>4. job' \in [Job -> JobRow]
    BY <1>0, <2>1, <2>2, <2>3, JobRowType DEF TypeOK, CancelJob
  <2> QED BY <1>0, <2>1, <2>4 DEF TypeOK, CancelJob
<1>7. CASE \E d \in Dispatcher : Check(d) \/ PollNothing(d) \/ CompleteAgain(d) \/ Die(d)
  <2>1. [pc |-> "checked", fence |-> lease.fence, job |-> NoJob, result |-> "none"] \in Dispatch
    BY DEF Dispatch
  <2>3. Rest \in Dispatch
    BY DEF Rest, Dispatch
  <2>2. disp' \in [Dispatcher -> Dispatch]
    BY <1>0, <1>7, <2>1, <2>3 DEF TypeOK, Check, PollNothing, CompleteAgain, Die
  <2> QED BY <1>0, <1>7, <2>2 DEF TypeOK, Check, PollNothing, CompleteAgain, Die, coreVars, targetVars
<1>8. CASE \E d \in Dispatcher : \E j \in Job : Poll(d, j)
  <2>1. PICK d \in Dispatcher, j \in Job : Poll(d, j)
    BY <1>8
  <2>2. job[j] \in JobRow /\ disp[d] \in Dispatch
    BY <1>0 DEF TypeOK
  <2>3. [job[j] EXCEPT !.status = "running"] \in JobRow
    BY <2>2, JobRowType, ResultType
  <2>4. [pc |-> "claimed", fence |-> disp[d].fence, job |-> j, result |-> "none"] \in Dispatch
    BY <2>2 DEF Dispatch
  <2> QED BY <1>0, <2>1, <2>3, <2>4 DEF TypeOK, Poll, targetVars
<1>9. CASE \E d \in Dispatcher : Post(d) \/ Hear(d) \/ GiveUp(d)
  <2>1. PICK d \in Dispatcher : Post(d) \/ Hear(d) \/ GiveUp(d)
    BY <1>9
  <2>2. disp[d].job \in Job /\ disp[d] \in Dispatch
    BY <1>0, <2>1 DEF TypeOK, IInv, Inv, DispInv, Holds, Post, Hear, GiveUp
  <2>3. call[disp[d].job]["dispatcher"].result \in Result \cup {"none"}
    BY <1>0, <2>2, PosterType, RequestType DEF TypeOK
  <2>4. disp' \in [Dispatcher -> Dispatch]
    <3>1. CASE Post(d)
      BY <1>0, <2>2, <3>1, DispatchType DEF TypeOK, Post
    <3>2. CASE Hear(d) \/ GiveUp(d)
      <4>1. PICK r \in Result \cup {"none", "void"} : Heard(d, r)
        BY <2>3, <3>2, ResultType DEF Hear, GiveUp
      <4> QED BY <1>0, <2>2, <4>1, DispatchType DEF TypeOK, Heard
    <3> QED BY <2>1, <3>1, <3>2
  <2>5. At("sent", "none") \in Request /\ At("over", "none") \in Request
    BY RequestType
  <2>6. call' \in [Job -> [Poster -> Request]]
    BY <1>0, <2>1, <2>2, <2>5, PosterType DEF TypeOK, Post, Hear, GiveUp
  <2> QED BY <1>0, <2>1, <2>4, <2>6 DEF TypeOK, Post, Hear, GiveUp, coreVars, targetVars
<1>10. CASE \E d \in Dispatcher : Complete(d) \/ CompleteRefused(d)
  <2>1. PICK d \in Dispatcher : Complete(d) \/ CompleteRefused(d)
    BY <1>10
  <2>2. disp[d].job \in Job /\ disp[d].result \in Status
    BY <2>1, ResultType DEF IInv, Inv, DispInv, Holds, Complete, CompleteRefused
  <2>3. job[disp[d].job] \in JobRow
    BY <1>0, <2>2 DEF TypeOK
  <2>4. job' \in [Job -> JobRow]
    <3>1. CASE Complete(d)
      <4>1. [job[disp[d].job] EXCEPT !.status = disp[d].result, !.by = "dispatcher"] \in JobRow
        BY <2>2, <2>3, JobRowType, AuthorType
      <4> QED BY <1>0, <2>2, <3>1, <4>1 DEF TypeOK, Complete
    <3>2. CASE CompleteRefused(d)
      BY <1>0, <3>2, ReconciledType DEF CompleteRefused
    <3> QED BY <2>1, <3>1, <3>2
  <2>5. Rest \in Dispatch
    BY RemoteConstants DEF Rest, Dispatch, RemoteConstants
  <2> QED BY <1>0, <2>1, <2>4, <2>5 DEF TypeOK, Complete, CompleteRefused, targetVars
<1>11. CASE \E j \in Job : PostByClient(j)
  <2>1. At("sent", "none") \in Request
    BY RequestType
  <2> QED BY <1>0, <1>11, <2>1, PosterType DEF TypeOK, PostByClient, coreVars, targetVars
<1>12. CASE \E j \in Job : CancelOnTarget(j)
  BY <1>0, <1>12, LedgerType DEF TypeOK, CancelOnTarget, coreVars
<1>13. CASE Serve \/ StopService
  <2>1. Dropped \in [Job -> [Poster -> Request]]
    BY <1>0, RequestType DEF TypeOK, Dropped
  <2>2. serving' \in 0..MaxLeases
    BY <1>0, <1>13 DEF TypeOK, Serve, StopService
  <2> QED BY <1>0, <1>13, <2>1, <2>2 DEF TypeOK, Serve, StopService, coreVars
<1>14. CASE \E j \in Job, x \in Poster :
              Verify(j, x) \/ Refuse(j, x) \/ Decline(j, x) \/ Run(j, x) \/ Read(j, x)
  <2>1. PICK j \in Job, x \in Poster :
              Verify(j, x) \/ Refuse(j, x) \/ Decline(j, x) \/ Run(j, x) \/ Read(j, x)
    BY <1>14
  <2>2. PICK c \in Request : Set(j, x, c)
    BY <2>1, RequestType, ResultType DEF Verify, Refuse, Decline, Run, Read
  <2>3. call' \in [Job -> [Poster -> Request]]
    BY <1>0, <2>2, SetType DEF TypeOK
  <2>4. ran' \in [Job -> Nat]
    BY <1>0, <2>1 DEF TypeOK, Verify, Refuse, Decline, Run, Read, targetVars
  <2> QED BY <1>0, <2>1, <2>3, <2>4 DEF TypeOK, Verify, Refuse, Decline, Run, Read, coreVars, targetVars
<1>15. CASE \E j \in Job, x \in Poster :
              Replay(j, x) \/ Doubt(j, x) \/ Settle(j, x) \/ SettleDoubted(j, x)
  <2>1. PICK j \in Job, x \in Poster :
              Replay(j, x) \/ Doubt(j, x) \/ Settle(j, x) \/ SettleDoubted(j, x)
    BY <1>15
  <2>2. /\ ledger[j].result \in Result \cup {"none"} /\ ledger[j].cancel \in BOOLEAN
        /\ Outcome(j, x) \in Result \cup {"none"} /\ "manual" \in Result \cup {"none"}
    BY <1>0, LedgerType, ResultType, RequestType DEF TypeOK, Outcome
  <2>3. PICK r \in Result \cup {"none"} : Answer(j, x, r)
    BY <2>1, <2>2 DEF Replay, Doubt, Settle, SettleDoubted
  <2>4. call' \in [Job -> [Poster -> Request]]
    BY <1>0, <2>3, AnswerType DEF TypeOK
  <2>5. ledger' \in [Job -> LedgerRow]
    <3>1. CASE Replay(j, x) \/ SettleDoubted(j, x)
      BY <1>0, <3>1 DEF TypeOK, Replay, SettleDoubted, targetVars
    <3>2. CASE Doubt(j, x)
      BY <1>0, <2>2, <3>2, LedgerType DEF TypeOK, Doubt
    <3>3. CASE Settle(j, x)
      BY <1>0, <2>2, <3>3, LedgerType DEF TypeOK, Settle
    <3> QED BY <2>1, <3>1, <3>2, <3>3
  <2> QED BY <1>0, <2>1, <2>4, <2>5 DEF TypeOK, Replay, Doubt, Settle, SettleDoubted, coreVars,
             targetVars
<1>16. CASE \E j \in Job, x \in Poster : Enter(j, x)
  <2>1. PICK j \in Job, x \in Poster : Enter(j, x)
    BY <1>16
  <2>2. At("running", "none") \in Request
    BY RequestType
  <2>3. call' \in [Job -> [Poster -> Request]]
    BY <1>0, <2>1, <2>2, SetType DEF TypeOK, Enter
  <2>4. ledger' \in [Job -> LedgerRow]
    BY <1>0, <2>1, LedgerType DEF TypeOK, Enter
  <2> QED BY <1>0, <2>1, <2>3, <2>4 DEF TypeOK, Enter, coreVars
<1>17. CASE \E d \in Dispatcher : \E jobs \in SUBSET Job \ {{}} : PollByClient(d, jobs)
  <2>1. PICK d \in Dispatcher, jobs \in SUBSET Job : PollByClient(d, jobs)
    BY <1>17
  <2>2. \A j \in Job : job[j] \in JobRow /\ [job[j] EXCEPT !.status = "running"] \in JobRow
    BY <1>0, JobRowType, ResultType DEF TypeOK
  <2>3. Rest \in Dispatch
    BY DEF Rest, Dispatch
  <2> QED BY <1>0, <2>1, <2>2, <2>3 DEF TypeOK, PollByClient, targetVars
<1>18. CASE \E j \in Job, r \in Result : CompleteByClient(j, r)
  <2>1. PICK j \in Job, r \in Result : CompleteByClient(j, r)
    BY <1>18
  <2>2. [job[j] EXCEPT !.status = r, !.by = "client"] \in JobRow
    BY <1>0, JobRowType, ResultType, AuthorType DEF TypeOK
  <2> QED BY <1>0, <2>1, <2>2 DEF TypeOK, CompleteByClient, targetVars
<1> QED BY <1>1, <1>2, <1>3, <1>4, <1>5, <1>6, <1>7, <1>8, <1>9, <1>10, <1>11, <1>12, <1>13, <1>14,
           <1>15, <1>16, <1>17, <1>18 DEF Next
-----------------------------------------------------------------------------
(***************************************************************************)
(* The invariant: what does not concern a job or a dispatcher leaves what  *)
(* is known about it alone.                                                *)
(***************************************************************************)
LEMMA JobKept ==
  ASSUME NEW j \in Job, JobInv(j), job'[j].status = job[j].status, job'[j].by = job[j].by,
         kind'[j] = kind[j], call'[j] = call[j], ledger'[j].row = ledger[j].row, ledger'[j].result = ledger[j].result,
         ran'[j] = ran[j]
  PROVE  JobInv(j)'
<1>0. Unposted(j)' <=> Unposted(j)
  BY DEF Unposted
<1>1. Fresh(j)' /\ OneHandler(j)'
  BY <1>0 DEF JobInv, Fresh, OneHandler
<1>2. Started(j)' /\ Sourced(j)' /\ Recorded(j)'
  BY <1>0 DEF JobInv, Started, Sourced, Recorded
<1> QED BY <1>1, <1>2 DEF JobInv

LEMMA DispKept ==
  ASSUME NEW d \in Dispatcher, DispInv(d), disp'[d] = disp[d], \A j \in Job : Kept(j)
  PROVE  DispInv(d)'
  BY DEF DispInv, Holds, Kept

LEMMA DispRests == ASSUME NEW d \in Dispatcher, disp'[d] = Rest PROVE DispInv(d)' /\ ~Holds(d)'
  BY DEF DispInv, Holds, Rest

\* A step that leaves the dispatchers alone and changes one job
LEMMA OneJob ==
  ASSUME Inv, NEW j \in Job, disp' = disp, JobInv(j)', Kept(j),
         \A i \in Job : i # j =>
            /\ job'[i] = job[i] /\ kind'[i] = kind[i] /\ call'[i] = call[i]
            /\ ledger'[i] = ledger[i] /\ ran'[i] = ran[i]
  PROVE  Inv'
<1>1. \A i \in Job : JobInv(i)'
  BY JobKept DEF Inv
<1>2. \A i \in Job : Kept(i)
  BY DEF Kept
<1>3. \A d \in Dispatcher : DispInv(d)'
  BY <1>2, DispKept DEF Inv
<1>4. Alone'
  BY DEF Inv, Alone, Holds
<1> QED BY <1>1, <1>3, <1>4 DEF Inv

\* A step that changes no job
LEMMA NoJobs ==
  ASSUME Inv, UNCHANGED <<job, kind, call, ledger, ran>>,
         \A d \in Dispatcher : disp'[d] = disp[d] \/ (DispInv(d)' /\ ~Holds(d)')
  PROVE  Inv'
<1>1. \A i \in Job : JobInv(i)' /\ Kept(i)
  BY JobKept DEF Inv, Kept
<1>2. \A d \in Dispatcher : DispInv(d)'
  BY <1>1, DispKept DEF Inv
<1>3. Alone'
  BY DEF Inv, Alone, Holds
<1> QED BY <1>1, <1>2, <1>3 DEF Inv

\* The end of a lease closes its jobs.
LEMMA ReconcileKeeps ==
  ASSUME TypeOK, Inv, job' = Reconciled, UNCHANGED <<kind, call, ledger, ran>>,
         \A d \in Dispatcher : disp'[d] = disp[d] \/ disp'[d] = Rest
  PROVE  Inv'
<1>1. ASSUME NEW j \in Job PROVE JobInv(j)'
  <2>1. CASE job'[j] = job[j]
    BY <2>1, JobKept DEF Inv
  <2>2. CASE job'[j] # job[j]
    <3>1. /\ Active(j) /\ job'[j].status = Withheld(j) /\ job'[j].by = "core" /\ JobInv(j)
          /\ Unposted(j)' <=> Unposted(j)
      BY <2>2 DEF Inv, Reconciled, TypeOK, JobRow, Unposted
    <3>2. Fresh(j)' /\ OneHandler(j)'
      BY <3>1 DEF JobInv, Fresh, OneHandler, Withheld
    <3>3. Started(j)' /\ Sourced(j)'
      BY <3>1 DEF JobInv, Started, Sourced
    <3>4. Recorded(j)'
      BY <3>1 DEF JobInv, Fresh, Recorded, Withheld, Active, Reported
    <3> QED BY <3>2, <3>3, <3>4 DEF JobInv
  <2> QED BY <2>1, <2>2
<1>2. ASSUME NEW d \in Dispatcher PROVE DispInv(d)'
  <2>1. CASE disp'[d] = Rest
    BY <2>1, DispRests
  <2>2. CASE disp'[d] = disp[d] /\ ~Holds(d)
    BY <2>2 DEF DispInv, Holds
  <2>3. CASE disp'[d] = disp[d] /\ Holds(d)
    <3> DEFINE j == disp[d].job
    <3>1. j \in Job /\ DispInv(d)
      BY <2>3 DEF Inv, DispInv
    <3>2. \/ job'[j] = job[j]
          \/ /\ job[j].status \in {"queued", "running"}
             /\ job'[j].status = Withheld(j) /\ job'[j].by = "core"
      BY <3>1 DEF Reconciled, Active, TypeOK, JobRow
    <3>3. /\ job'[j].status \notin {"none", "queued"} /\ job'[j].by # "dispatcher"
          /\ job'[j].by = "core" =>
                /\ job'[j].status \in {"manual", "void"}
                /\ job'[j].status = "void" => ~kind[j].once
      BY <2>3, <3>1, <3>2 DEF DispInv, Withheld
    <3> HIDE DEF j
    <3> QED BY <2>3, <3>1, <3>3 DEF DispInv, Holds, j
  <2> QED BY <2>1, <2>2, <2>3
<1>3. Alone'
  BY DEF Inv, Alone, Holds, Rest
<1> QED BY <1>1, <1>2, <1>3 DEF Inv

-----------------------------------------------------------------------------
(***************************************************************************)
(* The steps of the Core and of dispatchers                                *)
(***************************************************************************)
LEMMA LeaseKeeps ==
  ASSUME TypeOK, Inv,
         \/ Reconcile \/ Renew \/ Release \/ Tick
         \/ \E o \in Owner : BeginAcquire(o) \/ Acquire(o) \/ AcquireRefused(o)
  PROVE  Inv'
<1>1. CASE Reconcile \/ \E o \in Owner : BeginAcquire(o)
  BY <1>1, ReconcileKeeps DEF Reconcile, BeginAcquire
<1>2. CASE Renew \/ Release \/ Tick \/ \E o \in Owner : Acquire(o) \/ AcquireRefused(o)
  BY <1>2, NoJobs DEF Renew, Release, Tick, Acquire, AcquireRefused
<1> QED BY <1>1, <1>2

LEMMA CreateJobKeeps ==
  ASSUME TypeOK, Inv, NEW j \in Job, NEW k \in Kind, CreateJob(j, k) PROVE Inv'
<1>1. /\ job[j].status = "none" /\ job'[j].status = "queued" /\ job'[j].by = "nobody"
      /\ kind'[j] = k
      /\ \A i \in Job : i # j => job'[i] = job[i] /\ kind'[i] = kind[i]
      /\ UNCHANGED <<disp, ledger, call, ran>>
  BY DEF CreateJob, TypeOK
<1>2. /\ \A x \in Poster : call[j][x].pc = "none"
      /\ ledger[j].row = "absent" /\ ran[j] = 0
  BY <1>1, PosterType DEF Inv, JobInv, Fresh, Unposted
<1>3. JobInv(j)'
  <2>1. Fresh(j)' /\ OneHandler(j)'
    BY <1>1, <1>2, PosterType DEF Fresh, OneHandler, Busy, Unposted
  <2>2. Started(j)' /\ Sourced(j)' /\ Recorded(j)'
    BY <1>1, <1>2, PosterType DEF Started, Sourced, Recorded, Handled
  <2> QED BY <2>1, <2>2 DEF JobInv
<1>4. \A i \in Job : JobInv(i)'
  BY <1>1, <1>3, JobKept DEF Inv
<1>5. ASSUME NEW d \in Dispatcher PROVE DispInv(d)'
  <2>1. Holds(d) => disp[d].job # j
    BY <1>1 DEF Inv, DispInv
  <2> QED BY <1>1, <2>1 DEF Inv, DispInv, Holds
<1>6. Alone'
  BY <1>1 DEF Inv, Alone, Holds
<1> QED BY <1>4, <1>5, <1>6 DEF Inv

LEMMA CancelJobKeeps ==
  ASSUME TypeOK, Inv, NEW j \in Job, CancelJob(j) PROVE Inv'
<1>1. /\ \A i \in Job : i # j => job'[i] = job[i]
      /\ UNCHANGED <<kind, disp, ledger, call, ran>>
      /\ \/ job[j].status = "queued" /\ job'[j].status = "cancelled" /\ job'[j].by = "core"
         \/ job[j].status = "running" /\ job'[j].status = "running" /\ job'[j].by = job[j].by
  BY DEF CancelJob, TypeOK, JobRow
<1>2. \A i \in Job : i # j => JobInv(i)'
  BY <1>1, JobKept DEF Inv
<1>3. CASE job'[j].status = "running"
  <2>1. JobInv(j)' /\ \A i \in Job : Kept(i)
    BY <1>1, <1>3, JobKept DEF Inv, Kept
  <2> QED BY <1>1, <2>1, OneJob
<1>4. CASE job'[j].status = "cancelled"
  <2>1. Unposted(j) /\ Unposted(j)'
    BY <1>1, <1>4 DEF Inv, JobInv, Fresh, Unposted
  <2>2. Fresh(j)' /\ OneHandler(j)'
    BY <1>1, <2>1 DEF Inv, JobInv, Fresh, OneHandler
  <2>3. Started(j)' /\ Sourced(j)' /\ Recorded(j)'
    BY <1>1, <1>4, <2>1 DEF Inv, JobInv, Started, Sourced, Recorded
  <2>4. ASSUME NEW d \in Dispatcher PROVE DispInv(d)'
    <3>1. Holds(d) => disp[d].job # j
      BY <1>1, <1>4 DEF Inv, DispInv
    <3> QED BY <1>1, <3>1 DEF Inv, DispInv, Holds
  <2>5. Alone'
    BY <1>1 DEF Inv, Alone, Holds
  <2> QED BY <1>2, <2>2, <2>3, <2>4, <2>5 DEF Inv, JobInv
<1> QED BY <1>1, <1>3, <1>4

LEMMA IdleKeeps ==
  ASSUME TypeOK, Inv, NEW d \in Dispatcher, Check(d) \/ PollNothing(d) \/ CompleteAgain(d) \/ Die(d)
  PROVE  Inv'
<1>1. /\ UNCHANGED <<job, kind, call, ledger, ran>>
      /\ \A e \in Dispatcher : e # d => disp'[e] = disp[e]
      /\ disp'[d].pc \in {"idle", "checked"}
  BY DEF Check, PollNothing, CompleteAgain, Die, Rest, TypeOK, coreVars, targetVars
<1>2. DispInv(d)' /\ ~Holds(d)'
  BY <1>1 DEF DispInv, Holds
<1> QED BY <1>1, <1>2, NoJobs

\* What a poll, and a result given by a client, leave as it was
LEMMA ClaimKept ==
  ASSUME Inv, NEW j \in Job, UNCHANGED <<kind, call, ledger, ran>>,
         job[j].status = "queued", job'[j].status = "running", job'[j].by = job[j].by
  PROVE  JobInv(j)'
<1>1. JobInv(j) /\ (Unposted(j)' <=> Unposted(j))
  BY DEF Inv, Unposted
<1>2. Fresh(j)' /\ OneHandler(j)'
  BY <1>1 DEF JobInv, Fresh, OneHandler
<1>3. Started(j)' /\ Sourced(j)' /\ Recorded(j)'
  BY <1>1 DEF JobInv, Started, Sourced, Recorded
<1> QED BY <1>2, <1>3 DEF JobInv

LEMMA PollKeeps ==
  ASSUME TypeOK, Inv, NEW d \in Dispatcher, NEW j \in Job, Poll(d, j) PROVE Inv'
<1>1. /\ UNCHANGED <<kind, call, ledger, ran>>
      /\ \A i \in Job : i # j => job'[i] = job[i]
      /\ job[j].status = "queued" /\ job'[j].status = "running" /\ job'[j].by = job[j].by
      /\ \A e \in Dispatcher : e # d => disp'[e] = disp[e]
      /\ disp'[d].pc = "claimed" /\ disp'[d].job = j
  BY DEF Poll, Claimable, TypeOK, JobRow, targetVars
<1>2. call[j]["dispatcher"].pc = "none" /\ job[j].by = "nobody"
  BY <1>1, PosterType DEF Inv, JobInv, Fresh, Unposted, Recorded
<1>3. ASSUME NEW i \in Job PROVE JobInv(i)'
  <2>1. CASE i # j
    BY <1>1, <2>1, JobKept DEF Inv
  <2> QED BY <1>1, <2>1, ClaimKept
<1>4. \A e \in Dispatcher : Holds(e) => disp[e].job # j
  BY <1>1 DEF Inv, DispInv
<1>5. ASSUME NEW e \in Dispatcher PROVE DispInv(e)'
  <2>1. CASE e = d
    BY <1>1, <1>2, <2>1 DEF DispInv, Holds
  <2>2. CASE e # d
    BY <1>1, <1>4, <2>2 DEF Inv, DispInv, Holds
  <2> QED BY <2>1, <2>2
<1>6. Alone'
  BY <1>1, <1>4 DEF Inv, Alone, Holds
<1> QED BY <1>3, <1>5, <1>6 DEF Inv

\* Jobs that a client polls are in the hands of no dispatcher.
LEMMA PollByClientKeeps ==
  ASSUME TypeOK, Inv, NEW d \in Dispatcher, NEW jobs \in SUBSET Job, PollByClient(d, jobs)
  PROVE  Inv'
<1>1. /\ UNCHANGED <<kind, call, ledger, ran>>
      /\ \A i \in Job \ jobs : job'[i] = job[i]
      /\ \A i \in jobs : /\ job[i].status = "queued" /\ job'[i].status = "running"
                        /\ job'[i].by = job[i].by
      /\ \A e \in Dispatcher : e # d => disp'[e] = disp[e]
      /\ disp'[d] = Rest
  BY DEF PollByClient, Claimable, TypeOK, JobRow, targetVars
<1>2. ASSUME NEW i \in Job PROVE JobInv(i)'
  <2>1. CASE i \notin jobs
    BY <1>1, <2>1, JobKept DEF Inv
  <2> QED BY <1>1, <2>1, ClaimKept
<1>3. \A e \in Dispatcher : Holds(e) => disp[e].job \in Job \ jobs
  BY <1>1 DEF Inv, DispInv
<1>4. ASSUME NEW e \in Dispatcher PROVE DispInv(e)'
  <2>1. CASE e = d
    BY <1>1, <2>1, DispRests
  <2>2. CASE e # d
    BY <1>1, <1>3, <2>2 DEF Inv, DispInv, Holds
  <2> QED BY <2>1, <2>2
<1>5. Alone'
  BY <1>1 DEF Inv, Alone, Holds, Rest
<1> QED BY <1>2, <1>4, <1>5 DEF Inv

\* A dispatcher that keeps its job and changes the state of its own request
LEMMA HandKeeps ==
  ASSUME Inv, NEW d \in Dispatcher, NEW j \in Job, Holds(d), disp[d].job = j, JobInv(j)',
         UNCHANGED <<job, kind, ledger, ran>>,
         \A i \in Job : i # j => call'[i] = call[i],
         \A e \in Dispatcher : e # d => disp'[e] = disp[e],
         disp'[d].job = j, DispInv(d)'
  PROVE  Inv'
<1>1. \A i \in Job : JobInv(i)' /\ (i # j => Kept(i))
  BY JobKept DEF Inv, Kept
<1>2. \A e \in Dispatcher : e # d /\ Holds(e) => disp[e].job # j
  BY DEF Inv, Alone
<1>3. ASSUME NEW e \in Dispatcher PROVE DispInv(e)'
  <2>1. CASE e # d /\ Holds(e)
    <3>1. disp[e].job \in Job /\ Kept(disp[e].job)
      BY <1>1, <1>2, <2>1 DEF Inv, DispInv
    <3> QED BY <2>1, <3>1 DEF Inv, DispInv, Holds, Kept
  <2>2. CASE e # d /\ ~Holds(e)
    BY <2>2 DEF DispInv, Holds
  <2> QED BY <2>1, <2>2
<1>4. Alone'
  BY <1>2 DEF Inv, Alone, Holds
<1> QED BY <1>1, <1>3, <1>4 DEF Inv

LEMMA PostKeeps ==
  ASSUME TypeOK, Inv, NEW d \in Dispatcher, Post(d) PROVE Inv'
<1>1. PICK j \in Job : disp[d].job = j
  BY DEF Post, Inv, DispInv, Holds
<1>2. /\ UNCHANGED <<job, kind, ledger, ran>>
      /\ \A i \in Job : i # j => call'[i] = call[i]
      /\ call'[j]["dispatcher"] = At("sent", "none") /\ call'[j]["client"] = call[j]["client"]
      /\ \A e \in Dispatcher : e # d => disp'[e] = disp[e]
      /\ disp[d].pc = "claimed" /\ disp'[d].pc = "posted" /\ disp'[d].job = j
  BY <1>1, PosterType DEF Post, TypeOK, Dispatch, coreVars, targetVars
<1>3. /\ call'[j]["dispatcher"].pc = "sent" /\ call[j]["dispatcher"].pc = "none"
      /\ job[j].status \notin {"none", "queued"} /\ job[j].by # "dispatcher"
      /\ job[j].by = "core" =>
            job[j].status \in {"manual", "void"} /\ (job[j].status = "void" => ~kind[j].once)
  BY <1>1, <1>2 DEF At, Inv, DispInv, Holds
<1>4. JobInv(j)'
  <2>0. JobInv(j) /\ ~Unposted(j)'
    BY <1>3, PosterType DEF Inv, Unposted
  <2>1. Fresh(j)' /\ OneHandler(j)'
    BY <1>2, <1>3, <2>0, PosterType DEF JobInv, Fresh, OneHandler, Busy
  <2>2. Started(j)' /\ Sourced(j)'
    BY <1>2, <1>3, <2>0, PosterType DEF JobInv, Started, Sourced, Handled
  <2>3. Recorded(j)'
    BY <1>2, <1>3, <2>0 DEF JobInv, Recorded
  <2> QED BY <2>1, <2>2, <2>3 DEF JobInv
<1>5. DispInv(d)'
  BY <1>2, <1>3 DEF DispInv
<1> QED BY <1>1, <1>2, <1>4, <1>5, HandKeeps DEF Holds

LEMMA HearKeeps ==
  ASSUME TypeOK, Inv, NEW d \in Dispatcher, Hear(d) \/ GiveUp(d) PROVE Inv'
<1>1. PICK j \in Job : disp[d].job = j
  BY DEF Hear, GiveUp, Inv, DispInv, Holds
<1>2. /\ UNCHANGED <<job, kind, ledger, ran>>
      /\ \A i \in Job : i # j => call'[i] = call[i]
      /\ call'[j]["dispatcher"] = call[j]["dispatcher"] \/ call'[j]["dispatcher"].pc = "over"
      /\ call'[j]["client"] = call[j]["client"]
      /\ \A e \in Dispatcher : e # d => disp'[e] = disp[e]
      /\ disp[d].pc = "posted" /\ disp'[d].pc = "heard" /\ disp'[d].job = j
  BY <1>1, PosterType DEF Hear, GiveUp, Heard, At, TypeOK, coreVars, targetVars
<1>3. /\ call[j]["dispatcher"].pc # "none"
      /\ job[j].status \notin {"none", "queued"} /\ job[j].by # "dispatcher"
      /\ job[j].by = "core" =>
            job[j].status \in {"manual", "void"} /\ (job[j].status = "void" => ~kind[j].once)
  BY <1>1, <1>2 DEF Inv, DispInv, Holds
<1>4. JobInv(j) /\ ~Unposted(j) /\ ~Unposted(j)'
  BY <1>2, <1>3, PosterType DEF Inv, Unposted
<1>5. JobInv(j)'
  <2>1. Fresh(j)' /\ OneHandler(j)'
    BY <1>2, <1>3, <1>4, PosterType DEF JobInv, Fresh, OneHandler, Busy
  <2>2. Started(j)'
    BY <1>2, <1>4, PosterType DEF JobInv, Started, Handled
  <2>3. Sourced(j)'
    BY <1>2, <1>4, PosterType DEF JobInv, Sourced
  <2>4. Recorded(j)'
    BY <1>2, <1>3, <1>4 DEF JobInv, Recorded
  <2> QED BY <2>1, <2>2, <2>3, <2>4 DEF JobInv
<1>6. /\ disp'[d].result \in Result \cup {"void"}
      /\ disp'[d].result = "void" => ~kind[j].once
      /\ disp'[d].result \in Reported =>
            ledger[j].row = "done" /\ ledger[j].result = disp'[d].result
  <2>1. CASE Hear(d)
    <3>1. /\ disp'[d].result = call[j]["dispatcher"].result
          /\ call[j]["dispatcher"].pc = "answered"
      BY <1>1, <2>1 DEF Hear, Heard, TypeOK
    <3> QED BY <1>4, <3>1, PosterType, ResultType DEF JobInv, Sourced
  <2>2. CASE GiveUp(d)
    <3>1. disp'[d].result = IF kind[j].once THEN "manual" ELSE "void"
      BY <1>1, <2>2 DEF GiveUp, Heard, TypeOK
    <3> QED BY <3>1, ResultType
  <2> QED BY <2>1, <2>2
<1>7. call'[j]["dispatcher"].pc # "none"
  BY <1>2, <1>3
<1>8. DispInv(d)'
  BY <1>2, <1>3, <1>6, <1>7 DEF DispInv
<1> QED BY <1>1, <1>2, <1>5, <1>8, HandKeeps DEF Holds

LEMMA CompleteKeeps ==
  ASSUME TypeOK, Inv, NEW d \in Dispatcher, Complete(d) PROVE Inv'
<1>1. PICK j \in Job : disp[d].job = j
  BY DEF Complete, Inv, DispInv, Holds
<1>2. /\ UNCHANGED <<kind, call, ledger, ran>>
      /\ \A i \in Job : i # j => job'[i] = job[i]
      /\ job[j].status = "running"
      /\ job'[j].status = disp[d].result /\ job'[j].by = "dispatcher"
      /\ \A e \in Dispatcher : e # d => disp'[e] = disp[e]
      /\ disp[d].pc = "heard" /\ disp'[d] = Rest
  BY <1>1 DEF Complete, Completable, TypeOK, JobRow, targetVars
<1>3. /\ disp[d].result \in Result \cup {"void"}
      /\ disp[d].result = "void" => ~kind[j].once
      /\ disp[d].result \in Reported => ledger[j].row = "done" /\ ledger[j].result = disp[d].result
      /\ ~Unposted(j) /\ ~Unposted(j)'
  BY <1>1, <1>2, PosterType DEF Inv, DispInv, Holds, Unposted
<1>4. JobInv(j)'
  <2>1. Fresh(j)' /\ OneHandler(j)'
    BY <1>2, <1>3, ResultType DEF Inv, JobInv, Fresh, OneHandler
  <2>2. Started(j)' /\ Sourced(j)'
    BY <1>2 DEF Inv, JobInv, Started, Sourced
  <2>3. Recorded(j)'
    BY <1>2, <1>3, ResultType DEF Recorded
  <2> QED BY <2>1, <2>2, <2>3 DEF JobInv
<1>5. \A i \in Job : JobInv(i)' /\ (i # j => Kept(i))
  BY <1>2, <1>4, JobKept DEF Inv, Kept
<1>6. \A e \in Dispatcher : e # d /\ Holds(e) => disp[e].job # j
  BY <1>1, <1>2 DEF Inv, Alone, Holds
<1>7. ASSUME NEW e \in Dispatcher PROVE DispInv(e)'
  <2>1. CASE e = d
    BY <1>2, <2>1, DispRests
  <2>2. CASE e # d /\ Holds(e)
    <3>1. disp[e].job \in Job /\ Kept(disp[e].job)
      BY <1>5, <1>6, <2>2 DEF Inv, DispInv
    <3> QED BY <1>2, <2>2, <3>1 DEF Inv, DispInv, Holds, Kept
  <2>3. CASE e # d /\ ~Holds(e)
    BY <1>2, <2>3 DEF DispInv, Holds
  <2> QED BY <2>1, <2>2, <2>3
<1>8. Alone'
  BY <1>2 DEF Inv, Alone, Holds, Rest
<1> QED BY <1>5, <1>7, <1>8 DEF Inv

\* A client closes a running job, whatever a dispatcher or the target knows.
LEMMA CompleteByClientKeeps ==
  ASSUME TypeOK, Inv, NEW j \in Job, NEW r \in Result, CompleteByClient(j, r) PROVE Inv'
<1>1. /\ UNCHANGED <<kind, disp, call, ledger, ran>>
      /\ \A i \in Job : i # j => job'[i] = job[i]
      /\ job[j].status = "running" /\ job'[j].status = r /\ job'[j].by = "client"
      /\ Unposted(j)' <=> Unposted(j)
  BY DEF CompleteByClient, TypeOK, JobRow, targetVars, Unposted
<1>2. JobInv(j)'
  <2>1. JobInv(j)
    BY DEF Inv
  <2>2. Fresh(j)' /\ OneHandler(j)'
    BY <1>1, <2>1, ResultType DEF JobInv, Fresh, OneHandler
  <2>3. Started(j)' /\ Sourced(j)' /\ Recorded(j)'
    BY <1>1, <2>1, ResultType DEF JobInv, Started, Sourced, Recorded
  <2> QED BY <2>2, <2>3 DEF JobInv
<1>3. \A i \in Job : JobInv(i)'
  BY <1>1, <1>2, JobKept DEF Inv
<1>4. ASSUME NEW d \in Dispatcher PROVE DispInv(d)'
  <2>1. CASE disp[d].job = j
    BY <1>1, <2>1, ResultType DEF Inv, DispInv, Holds
  <2>2. CASE disp[d].job # j
    BY <1>1, <2>2 DEF Inv, DispInv, Holds
  <2> QED BY <2>1, <2>2
<1>5. Alone'
  BY <1>1 DEF Inv, Alone, Holds
<1> QED BY <1>3, <1>4, <1>5 DEF Inv

LEMMA CompleteRefusedKeeps ==
  ASSUME TypeOK, Inv, NEW d \in Dispatcher, CompleteRefused(d) PROVE Inv'
<1>1. \A e \in Dispatcher : disp'[e] = disp[e] \/ disp'[e] = Rest
  BY DEF CompleteRefused, TypeOK
<1> QED BY <1>1, ReconcileKeeps DEF CompleteRefused, targetVars
-----------------------------------------------------------------------------
(***************************************************************************)
(* The steps of requests and of the target service                         *)
(***************************************************************************)
LEMMA PostByClientKeeps ==
  ASSUME TypeOK, Inv, NEW j \in Job, PostByClient(j) PROVE Inv'
<1>1. /\ UNCHANGED <<job, kind, disp, ledger, ran>>
      /\ \A i \in Job : i # j => call'[i] = call[i]
      /\ call'[j]["dispatcher"] = call[j]["dispatcher"]
      /\ call[j]["client"].pc = "none" /\ call'[j]["client"].pc = "sent"
      /\ job[j].status = "running"
  BY PosterType DEF PostByClient, At, TypeOK, coreVars, targetVars
<1>2. JobInv(j) /\ ~Unposted(j)'
  BY <1>1, PosterType DEF Inv, Unposted
<1>3. JobInv(j)'
  <2>1. Fresh(j)' /\ OneHandler(j)'
    BY <1>1, <1>2, PosterType DEF JobInv, Fresh, OneHandler, Busy
  <2>2. Started(j)'
    BY <1>1, <1>2, PosterType DEF JobInv, Started, Handled
  <2>3. Sourced(j)' /\ Recorded(j)'
    BY <1>1, <1>2, PosterType DEF JobInv, Sourced, Recorded
  <2> QED BY <2>1, <2>2, <2>3 DEF JobInv
<1>4. Kept(j)
  BY <1>1 DEF Kept
<1> QED BY <1>1, <1>3, <1>4, OneJob

LEMMA DropKeeps ==
  ASSUME TypeOK, Inv, Serve \/ StopService PROVE Inv'
<1>1. UNCHANGED <<job, kind, disp, ledger, ran>> /\ call' = Dropped
  BY DEF Serve, StopService, coreVars
<1>2. ASSUME NEW j \in Job PROVE JobInv(j)' /\ Kept(j)
  <2>1. JobInv(j)
    BY DEF Inv
  <2>2. \A x \in Poster : \/ call'[j][x] = call[j][x]
                          \/ call'[j][x].pc = "over" /\ call[j][x].pc \in Handled
    BY <1>1, PosterType DEF Dropped, At
  <2>9. Unposted(j)' <=> Unposted(j)
    BY <2>2, PosterType DEF Unposted, Handled
  <2>3. Fresh(j)'
    BY <1>1, <2>1, <2>2, <2>9, PosterType DEF JobInv, Fresh, Busy, Handled
  <2>4. OneHandler(j)'
    BY <1>1, <2>1, <2>2, PosterType DEF JobInv, OneHandler, Busy
  <2>5. Started(j)'
    BY <1>1, <2>1, <2>2, PosterType DEF JobInv, Started, Handled
  <2>6. Sourced(j)'
    BY <1>1, <2>1, <2>2, PosterType DEF JobInv, Sourced
  <2>7. Recorded(j)'
    BY <1>1, <2>1, <2>2, <2>9, PosterType DEF JobInv, Recorded, Handled
  <2>8. Kept(j)
    BY <1>1, <2>2, PosterType DEF Kept, Handled
  <2> QED BY <2>3, <2>4, <2>5, <2>6, <2>7, <2>8 DEF JobInv
<1>3. \A d \in Dispatcher : DispInv(d)'
  BY <1>1, <1>2, DispKept DEF Inv
<1>4. Alone'
  BY <1>1 DEF Inv, Alone, Holds
<1> QED BY <1>2, <1>3, <1>4 DEF Inv

\* What a handler finds, and leaves: the job was posted.
LEMMA Posted ==
  ASSUME Inv, NEW j \in Job, NEW x \in Poster, call[j][x].pc # "none"
  PROVE  ~Unposted(j) /\ JobInv(j) /\ (call'[j][x].pc # "none" => ~Unposted(j)')
  BY DEF Inv, Unposted

\* A handler that is let in, or refused
LEMMA AdmitKeeps ==
  ASSUME TypeOK, Inv, NEW j \in Job, NEW x \in Poster, Verify(j, x) \/ Refuse(j, x)
  PROVE  Inv'
<1>1. /\ UNCHANGED <<job, kind, disp, ledger, ran>>
      /\ \A i \in Job : i # j => call'[i] = call[i]
      /\ \A y \in Poster : y # x => call'[j][y] = call[j][y]
      /\ call[j][x].pc = "sent"
      /\ \/ call'[j][x].pc = "verified" /\ (kind[j].exec => kind[j].once)
         \/ call'[j][x].pc = "over"
  BY RequestType, SetType DEF Verify, Refuse, Accepted, TypeOK, coreVars, targetVars
<1>2. JobInv(j) /\ ~Unposted(j) /\ ~Unposted(j)'
  BY <1>1, Posted
<1>3. JobInv(j)'
  <2>1. Fresh(j)' /\ OneHandler(j)'
    BY <1>1, <1>2, PosterType DEF JobInv, Fresh, OneHandler, Busy
  <2>2. Started(j)'
    BY <1>1, <1>2, PosterType DEF JobInv, Started, Handled
  <2>3. Sourced(j)' /\ Recorded(j)'
    BY <1>1, <1>2, PosterType DEF JobInv, Sourced, Recorded
  <2> QED BY <2>1, <2>2, <2>3 DEF JobInv
<1>4. Kept(j)
  BY <1>1, <1>2, PosterType DEF Kept
<1> QED BY <1>1, <1>3, <1>4, OneJob

LEMMA EnterKeeps ==
  ASSUME TypeOK, Inv, NEW j \in Job, NEW x \in Poster, Enter(j, x) PROVE Inv'
<1>1. /\ UNCHANGED <<job, kind, disp, ran>>
      /\ \A i \in Job : i # j => call'[i] = call[i] /\ ledger'[i] = ledger[i]
      /\ \A y \in Poster : y # x => call'[j][y] = call[j][y]
      /\ call[j][x].pc = "verified" /\ call'[j][x].pc = "running"
      /\ ledger[j].row = "absent" /\ ledger'[j].row = "running"
  BY RequestType, SetType DEF Enter, TypeOK, coreVars
<1>2. JobInv(j) /\ ~Unposted(j) /\ ~Unposted(j)'
  BY <1>1, Posted
<1>3. ran[j] = 0 /\ \A y \in Poster : call[j][y].pc \notin Busy
  BY <1>1, <1>2 DEF JobInv, Fresh
<1>4. JobInv(j)'
  <2>1. Fresh(j)'
    BY <1>1, <1>2, PosterType DEF JobInv, Fresh
  <2>2. OneHandler(j)'
    BY <1>1, <1>3 DEF OneHandler
  <2>3. Started(j)'
    BY <1>1, <1>2, <1>3 DEF JobInv, Started, Handled
  <2>4. Sourced(j)'
    BY <1>1, <1>2 DEF JobInv, Sourced
  <2>5. Recorded(j)'
    BY <1>1, <1>2, PosterType DEF JobInv, Recorded
  <2> QED BY <2>1, <2>2, <2>3, <2>4, <2>5 DEF JobInv
<1>5. Kept(j)
  BY <1>1, <1>2, PosterType DEF Kept
<1> QED BY <1>1, <1>4, <1>5, OneJob

\* A handler that finds the job in the ledger
LEMMA FindKeeps ==
  ASSUME TypeOK, Inv, NEW j \in Job, NEW x \in Poster, Replay(j, x) \/ Doubt(j, x)
  PROVE  Inv'
<1>1. JobInv(j) /\ ~Unposted(j)
  BY Posted DEF Replay, Doubt
<1>2. ledger[j].row = "done" => ledger[j].result \in Result
  BY <1>1 DEF JobInv, Sourced
<1>3. /\ UNCHANGED <<job, kind, disp, ran>>
      /\ \A i \in Job : i # j => call'[i] = call[i] /\ ledger'[i] = ledger[i]
      /\ \A y \in Poster : y # x => call'[j][y] = call[j][y]
      /\ call[j][x].pc = "verified"
  BY <1>2, LedgerType, ResultType, AnswerType DEF Replay, Doubt, TypeOK, coreVars, targetVars
<1>4. \/ ledger' = ledger /\ ledger[j].row = "done" /\ call'[j][x] = At("answered", ledger[j].result)
      \/ ledger' = ledger /\ ledger[j].row = "done" /\ call'[j][x] = At("over", "none")
      \/ /\ ledger[j].row \in {"running", "unknown"} /\ ledger'[j].row = "unknown"
         /\ call'[j][x] = At("answered", "manual") \/ call'[j][x] = At("over", "none")
  <2>1. CASE Replay(j, x)
    BY <1>2, <2>1, ResultType, AnswerType DEF Replay, TypeOK, targetVars
  <2>2. CASE Doubt(j, x)
    BY <2>2, ResultType, AnswerType DEF Doubt, TypeOK
  <2> QED BY <2>1, <2>2
<1>5. /\ call'[j][x].pc \in {"answered", "over"}
      /\ call'[j][x].pc = "answered" =>
            /\ call'[j][x].result \in Result
            /\ call'[j][x].result \in Reported =>
                  ledger'[j].row = "done" /\ ledger'[j].result = call'[j][x].result
      /\ ledger[j].row # "absent" /\ ledger'[j].row # "absent"
      /\ ledger'[j].row = "done" <=> ledger[j].row = "done"
      /\ ledger[j].row = "done" => ledger'[j].result = ledger[j].result
  BY <1>2, <1>4, ResultType DEF At
<1>8. ~Unposted(j)'
  BY <1>5 DEF Unposted
<1>6. JobInv(j)'
  <2>1. Fresh(j)'
    BY <1>1, <1>3, <1>5, <1>8, PosterType DEF JobInv, Fresh
  <2>2. OneHandler(j)'
    BY <1>1, <1>3, <1>5, PosterType DEF JobInv, OneHandler, Busy
  <2>3. Started(j)'
    BY <1>1, <1>3, <1>5 DEF JobInv, Started, Handled
  <2>4. Sourced(j)'
    BY <1>1, <1>3, <1>5 DEF JobInv, Sourced
  <2>5. Recorded(j)'
    BY <1>1, <1>3, <1>5, <1>8 DEF JobInv, Recorded
  <2> QED BY <2>1, <2>2, <2>3, <2>4, <2>5 DEF JobInv
<1>7. Kept(j)
  BY <1>1, <1>3, <1>5, PosterType DEF Kept
<1> QED BY <1>3, <1>6, <1>7, OneJob

LEMMA PerformKeeps ==
  ASSUME TypeOK, Inv, NEW j \in Job, NEW x \in Poster, Decline(j, x) \/ Run(j, x) \/ Read(j, x)
  PROVE  Inv'
<1>1. JobInv(j) /\ ~Unposted(j)
  BY Posted DEF Decline, Run, Read
<1>2. PICK r \in {"succeeded", "failed", "manual"} : Set(j, x, At("performed", r))
  BY DEF Decline, Run, Read
<1>3. At("performed", r) \in Request /\ At("performed", r).pc = "performed" /\ At("performed", r).result = r
  BY RequestType, ResultType
<1>4. /\ UNCHANGED <<job, kind, disp, ledger>>
      /\ \A i \in Job : i # j => call'[i] = call[i]
      /\ \A y \in Poster : y # x => call'[j][y] = call[j][y]
      /\ call[j][x].pc = "running" /\ call'[j][x].pc = "performed" /\ call'[j][x].result = r
  BY <1>2, <1>3, SetType DEF Decline, Run, Read, TypeOK, coreVars, targetVars
<1>5. /\ \A i \in Job : i # j => ran'[i] = ran[i]
      /\ \/ ran'[j] = ran[j] + 1 /\ kind[j].exec
         \/ ran'[j] = ran[j] /\ (~kind[j].exec \/ r = "failed")
  <2>1. CASE Run(j, x)
    BY <2>1 DEF Run, TypeOK
  <2>2. CASE Read(j, x)
    BY <2>2 DEF Read, targetVars
  <2>3. CASE Decline(j, x)
    <3>1. At("performed", "failed") \in Request /\ At("performed", "failed").result = "failed"
      BY RequestType, ResultType
    <3>2. call'[j][x].result = "failed"
      BY <2>3, <3>1, SetType DEF Decline, TypeOK
    <3> QED BY <1>4, <2>3, <3>2 DEF Decline, targetVars
  <2> QED BY <2>1, <2>2, <2>3
<1>6. ran[j] = 0 /\ ledger[j].row \notin {"absent", "done"}
  BY <1>1, <1>4 DEF JobInv, Fresh, OneHandler, Started, Busy, TypeOK, LedgerRow
<1>7. \A y \in Poster : y # x => call'[j][y].pc \notin Busy
  BY <1>1, <1>4 DEF JobInv, OneHandler, Busy
<1>8. kind[j].exec => kind[j].once
  BY <1>1, <1>4 DEF JobInv, Started, Handled
<1>13. ~Unposted(j)'
  BY <1>4 DEF Unposted
<1>9. JobInv(j)'
  <2>1. Fresh(j)' /\ OneHandler(j)'
    BY <1>1, <1>4, <1>6, <1>7, <1>13, PosterType DEF JobInv, Fresh, OneHandler
  <2>2. Started(j)'
    BY <1>1, <1>4, <1>5, <1>6, <1>7, <1>8 DEF JobInv, Started, Busy, Handled
  <2>3. Sourced(j)'
    <3>1. ASSUME NEW y \in Poster, call'[j][y].pc = "performed"
          PROVE  /\ call'[j][y].result \in Result
                 /\ call'[j][y].result = "succeeded" /\ kind[j].exec => ran'[j] = 1
      <4>1. y = x
        BY <1>7, <3>1 DEF Busy
      <4> QED BY <1>4, <1>5, <1>6, <4>1, ResultType
    <3>2. \A y \in Poster : call'[j][y].pc = "answered" => call'[j][y] = call[j][y]
      BY <1>4
    <3> QED BY <1>1, <1>4, <1>6, <3>1, <3>2 DEF JobInv, Sourced
  <2>4. Recorded(j)'
    BY <1>1, <1>4, <1>13 DEF JobInv, Recorded
  <2> QED BY <2>1, <2>2, <2>3, <2>4 DEF JobInv
<1>10. Kept(j)
  BY <1>1, <1>4, PosterType DEF Kept
<1>11. \A i \in Job : i # j => /\ job'[i] = job[i] /\ kind'[i] = kind[i] /\ call'[i] = call[i]
                              /\ ledger'[i] = ledger[i] /\ ran'[i] = ran[i]
  BY <1>4, <1>5
<1>12. disp' = disp
  BY <1>4
<1> QED BY <1>9, <1>10, <1>11, <1>12, OneJob

LEMMA SettleKeeps ==
  ASSUME TypeOK, Inv, NEW j \in Job, NEW x \in Poster, Settle(j, x) \/ SettleDoubted(j, x)
  PROVE  Inv'
<1>1. JobInv(j) /\ call[j][x].pc = "performed" /\ ~Unposted(j)
  BY Posted DEF Settle, SettleDoubted
<1>2. /\ call[j][x].result \in Result
      /\ call[j][x].result = "succeeded" /\ kind[j].exec => ran[j] = 1
  BY <1>1 DEF JobInv, Sourced
<1>3. /\ Outcome(j, x) \in Result
      /\ Outcome(j, x) = "succeeded" /\ kind[j].exec => ran[j] = 1
  BY <1>2, ResultType DEF Outcome
<1>4. /\ UNCHANGED <<job, kind, disp, ran>>
      /\ \A i \in Job : i # j => call'[i] = call[i] /\ ledger'[i] = ledger[i]
      /\ \A y \in Poster : y # x => call'[j][y] = call[j][y]
  BY <1>3, ResultType, AnswerType DEF Settle, SettleDoubted, TypeOK, coreVars, targetVars
<1>5. \/ /\ ledger' = ledger /\ ledger[j].row = "unknown"
         /\ call'[j][x] = At("answered", "manual") \/ call'[j][x] = At("over", "none")
      \/ /\ ledger[j].row = "running" /\ ledger'[j].row = "done"
         /\ ledger'[j].result = Outcome(j, x)
         /\ call'[j][x] = At("answered", Outcome(j, x)) \/ call'[j][x] = At("over", "none")
  <2>1. CASE Settle(j, x)
    <3>1. Outcome(j, x) \in Result \cup {"none"}
      BY <1>3
    <3>2. call'[j][x] = At("answered", Outcome(j, x)) \/ call'[j][x] = At("over", "none")
      BY <2>1, <3>1, AnswerType DEF Settle, TypeOK
    <3> QED BY <2>1, <3>2 DEF Settle, TypeOK
  <2>2. CASE SettleDoubted(j, x)
    BY <2>2, ResultType, AnswerType DEF SettleDoubted, TypeOK, targetVars
  <2> QED BY <2>1, <2>2
<1>6. /\ call'[j][x].pc \in {"answered", "over"}
      /\ call'[j][x].pc = "answered" =>
            /\ call'[j][x].result \in Result
            /\ call'[j][x].result \in Reported =>
                  ledger'[j].row = "done" /\ ledger'[j].result = call'[j][x].result
      /\ ledger[j].row \notin {"absent", "done"} /\ ledger'[j].row # "absent"
      /\ ledger'[j].row = "done" =>
            /\ ledger'[j].result \in Result
            /\ ledger'[j].result = "succeeded" /\ kind[j].exec => ran[j] = 1
  BY <1>3, <1>5, ResultType DEF At
<1>7. \A y \in Poster : call'[j][y].pc \notin Busy
  <2>1. \A y \in Poster : y # x => call'[j][y].pc \notin Busy
    BY <1>1, <1>4 DEF JobInv, OneHandler, Busy
  <2>2. call'[j][x].pc \notin Busy
    BY <1>6 DEF Busy
  <2> QED BY <2>1, <2>2
<1>10. ~Unposted(j)'
  BY <1>6 DEF Unposted
<1>8. JobInv(j)'
  <2>1. Fresh(j)'
    BY <1>1, <1>4, <1>6, <1>10, PosterType DEF JobInv, Fresh
  <2>2. OneHandler(j)'
    BY <1>7 DEF OneHandler
  <2>3. Started(j)'
    BY <1>1, <1>4, <1>6 DEF JobInv, Started, Handled
  <2>4. Sourced(j)'
    <3>1. ASSUME NEW y \in Poster, call'[j][y].pc = "answered", y # x
          PROVE  call'[j][y].result \in Result /\ call'[j][y].result \notin Reported
      BY <1>1, <1>4, <1>6, <3>1 DEF JobInv, Sourced
    <3> QED BY <1>4, <1>6, <1>7, <3>1 DEF Sourced, Busy
  <2>5. Recorded(j)'
    BY <1>1, <1>4, <1>6, <1>10 DEF JobInv, Recorded
  <2> QED BY <2>1, <2>2, <2>3, <2>4, <2>5 DEF JobInv
<1>9. Kept(j)
  BY <1>1, <1>4, <1>6, PosterType DEF Kept
<1> QED BY <1>4, <1>8, <1>9, OneJob

LEMMA CancelOnTargetKeeps ==
  ASSUME TypeOK, Inv, NEW j \in Job, CancelOnTarget(j) PROVE Inv'
<1>1. /\ UNCHANGED <<job, kind, disp, call, ran>>
      /\ \A i \in Job : i # j => ledger'[i] = ledger[i]
      /\ ledger'[j].row = ledger[j].row /\ ledger'[j].result = ledger[j].result
  BY DEF CancelOnTarget, TypeOK, LedgerRow, coreVars
<1>2. JobInv(j)' /\ Kept(j)
  BY <1>1, JobKept DEF Inv, Kept
<1> QED BY <1>1, <1>2, OneJob

LEMMA NextKeeps == ASSUME IInv, [Next]_vars PROVE IInv'
<1>1. CASE UNCHANGED vars
  BY <1>1, NoJobs DEF vars, IInv, TypeOK
<1>2. CASE Next
  <2>1. TypeOK'
    BY <1>2, TypeNext
  <2>2. Inv'
    BY <1>2, LeaseKeeps, CreateJobKeeps, CancelJobKeeps, IdleKeeps, PollKeeps, PostKeeps, HearKeeps,
       PollByClientKeeps, CompleteKeeps, CompleteByClientKeeps, CompleteRefusedKeeps,
       PostByClientKeeps, DropKeeps, AdmitKeeps, EnterKeeps,
       FindKeeps, PerformKeeps, SettleKeeps, CancelOnTargetKeeps DEF Next, IInv
  <2> QED BY <2>1, <2>2 DEF IInv
<1> QED BY <1>1, <1>2

LEMMA InitHolds == Init => IInv
<1> SUFFICES ASSUME Init PROVE IInv
  OBVIOUS
<1>1. TypeOK
  <2>1. /\ lease \in LeaseRow /\ taker \in [Owner -> Reading] /\ serving \in 0..MaxLeases
    BY RemoteConstants DEF Init, LeaseRow, Reading, RemoteConstants
  <2>2. job \in [Job -> JobRow] /\ kind \in [Job -> Declared] /\ ledger \in [Job -> LedgerRow]
    BY RemoteConstants DEF Init, JobRow, Author, Declared, LedgerRow, Status, RemoteConstants
  <2>3. disp \in [Dispatcher -> Dispatch] /\ ran \in [Job -> Nat]
    BY RemoteConstants DEF Init, Dispatch, Rest, RemoteConstants
  <2>4. call \in [Job -> [Poster -> Request]]
    BY DEF Init, Request, At
  <2> QED BY <2>1, <2>2, <2>3, <2>4 DEF TypeOK
<1>2. ASSUME NEW j \in Job PROVE JobInv(j)
  <2>1. /\ job[j].status = "none" /\ job[j].by = "nobody" /\ ledger[j].row = "absent" /\ ran[j] = 0
        /\ \A x \in Poster : call[j][x].pc = "none"
    BY DEF Init, At
  <2>2. Fresh(j) /\ OneHandler(j)
    BY <2>1, PosterType DEF Fresh, OneHandler, Busy, Unposted
  <2>3. Started(j) /\ Sourced(j) /\ Recorded(j)
    BY <2>1, PosterType DEF Started, Sourced, Recorded, Handled
  <2> QED BY <2>2, <2>3 DEF JobInv
<1>3. \A d \in Dispatcher : ~Holds(d)
  BY DEF Init, Rest, Holds
<1> QED BY <1>1, <1>2, <1>3 DEF IInv, Inv, DispInv, Alone
-----------------------------------------------------------------------------
\* The rows of the Core, the requests between the two hosts and the ledger of
\* the target keep what IInv says, through every loss, delay, death and repetition.
THEOREM Inductive == Spec => []IInv
<1>1. IInv /\ [Next]_vars => IInv'
  BY NextKeeps
<1> QED BY InitHolds, <1>1, PTL DEF Spec

\* Every row and every message keeps its type.
THEOREM TypeCorrect == Spec => []TypeOK
<1>1. IInv => TypeOK
  BY DEF IInv
<1> QED BY <1>1, Inductive, PTL

\* Dispatchers record as reported only what stands in the ledger of the target,
\* and as succeeded only a command that has run, whatever clients complete.
THEOREM Agreement == Spec => []Agreed
<1>1. IInv => Agreed
  BY DEF IInv, Inv, JobInv, Recorded, Sourced, Agreed
<1> QED BY <1>1, Inductive, PTL
-----------------------------------------------------------------------------
(***************************************************************************)
(* RemoteExecution implements RemotePromise                                *)
(***************************************************************************)
Promises == [Promised!Next]_(Promised!vars)

\* What a step may do to one job, as the promise sees it
Fits(j) ==
    \/ PhaseOf(j)' = PhaseOf(j) /\ ran'[j] = ran[j]
    \/ /\ PhaseOf(j) \in {"running", "unknown", "told"} /\ PhaseOf(j)' = PhaseOf(j)
       /\ ran[j] = 0 /\ ran'[j] = 1
    \/ /\ \/ PhaseOf(j) = "new" /\ PhaseOf(j)' \in {"running", "void"}
          \/ PhaseOf(j) = "running" /\ PhaseOf(j)' \in {"reported", "unknown", "told"}
          \/ PhaseOf(j) = "running" /\ PhaseOf(j)' = "void" /\ ran[j] = 0
       /\ ran'[j] = ran[j]

\* What the row of a job says, by its status and by whose result it is
PhaseFor(status, by) ==
    IF status \in {"none", "queued"} THEN "new"
    ELSE IF status = "running" THEN "running"
    ELSE IF by = "client" THEN "told"
    ELSE IF status = "manual" THEN "unknown"
    ELSE IF status = "void" \/ by = "core" THEN "void" ELSE "reported"

LEMMA PhaseIs == ASSUME NEW j \in Job PROVE PhaseOf(j) = PhaseFor(job[j].status, job[j].by)
  BY DEF PhaseOf, PhaseFor

LEMMA PhaseWillBe == ASSUME NEW j \in Job PROVE PhaseOf(j)' = PhaseFor(job'[j].status, job'[j].by)
  BY DEF PhaseOf, PhaseFor

LEMMA Together == ASSUME TypeOK, TypeOK', \A j \in Job : Fits(j) PROVE Promises
<1> DEFINE now == [j \in Job |-> PhaseOf(j)]
           then == [j \in Job |-> PhaseOf(j)']
<1>1. then \in [Job -> Promised!Phase]
  <2>1. ASSUME NEW j \in Job PROVE PhaseOf(j)' \in Promised!Phase
    BY PhaseWillBe DEF PhaseFor, Promised!Phase
  <2> QED BY <2>1
<1>2. ran' \in [Job -> Nat]
  BY DEF TypeOK
<1>3. ASSUME NEW j \in Job PROVE Promised!Acts(j) \/ Promised!Moves(j) \/ Promised!Rests(j)
  <2>1. now[j] = PhaseOf(j) /\ then[j] = PhaseOf(j)'
    OBVIOUS
  <2> QED BY <2>1 DEF Fits, Promised!Acts, Promised!Moves, Promised!Rests
<1> QED BY <1>1, <1>2, <1>3 DEF Promises, Promised!Next

LEMMA SameFits ==
  ASSUME NEW j \in Job, job'[j].status = job[j].status, job'[j].by = job[j].by, ran'[j] = ran[j]
  PROVE  Fits(j)
  BY PhaseIs, PhaseWillBe DEF Fits

LEMMA QuietFits == ASSUME IInv, TypeOK', UNCHANGED <<job, ran>> PROVE Promises
  BY SameFits, Together DEF IInv

LEMMA ReconciledFits ==
  ASSUME IInv, TypeOK', NEW j \in Job, job' = Reconciled, UNCHANGED <<kind, ran>>
  PROVE  Fits(j)
<1>1. TypeOK /\ JobInv(j)
  BY DEF IInv, Inv
<1>2. CASE job'[j] = job[j]
  BY <1>2, SameFits
<1>3. CASE job'[j] # job[j]
  <2>1. Active(j) /\ job'[j].status = Withheld(j) /\ job'[j].by = "core"
    BY <1>1, <1>3 DEF Reconciled, TypeOK, JobRow
  <2>2. CASE job[j].status = "queued"
    <3>1. PhaseOf(j) = "new" /\ PhaseOf(j)' = "void"
      BY <2>1, <2>2, PhaseIs, PhaseWillBe DEF Withheld, PhaseFor
    <3> QED BY <3>1 DEF Fits
  <2>3. CASE job[j].status = "running" /\ (kind[j].once \/ kind[j].exec)
    <3>1. PhaseOf(j) = "running" /\ PhaseOf(j)' = "unknown"
      BY <2>1, <2>3, PhaseIs, PhaseWillBe DEF Withheld, PhaseFor
    <3> QED BY <3>1 DEF Fits
  <2>4. CASE job[j].status = "running" /\ ~(kind[j].once \/ kind[j].exec)
    <3>1. PhaseOf(j) = "running" /\ PhaseOf(j)' = "void"
      BY <2>1, <2>4, PhaseIs, PhaseWillBe DEF Withheld, PhaseFor
    <3>2. ran[j] = 0
      BY <1>1, <2>4 DEF JobInv, Started
    <3> QED BY <3>1, <3>2 DEF Fits
  <2> QED BY <2>1, <2>2, <2>3, <2>4 DEF Active
<1> QED BY <1>2, <1>3

LEMMA LeaseFits ==
  ASSUME IInv, TypeOK',
         \/ Reconcile \/ Renew \/ Release \/ Tick
         \/ \E o \in Owner : BeginAcquire(o) \/ Acquire(o) \/ AcquireRefused(o)
         \/ \E d \in Dispatcher : CompleteRefused(d)
  PROVE  Promises
<1>1. CASE Reconcile \/ (\E o \in Owner : BeginAcquire(o)) \/ \E d \in Dispatcher : CompleteRefused(d)
  <2>1. job' = Reconciled /\ UNCHANGED <<kind, ran>>
    BY <1>1 DEF Reconcile, BeginAcquire, CompleteRefused, targetVars
  <2> QED BY <2>1, ReconciledFits, Together DEF IInv
<1>2. CASE Renew \/ Release \/ Tick \/ \E o \in Owner : Acquire(o) \/ AcquireRefused(o)
  BY <1>2, QuietFits DEF Renew, Release, Tick, Acquire, AcquireRefused
<1> QED BY <1>1, <1>2

\* A job moves on in the Core before it is posted.
Early(j) ==
    /\ ran' = ran
    /\ \/ job'[j] = job[j]
       \/ job[j].status = "none" /\ job'[j].status = "queued"
       \/ job[j].status = "queued" /\ job'[j].status = "running"
       \/ job[j].status = "queued" /\ job'[j].status = "cancelled" /\ job'[j].by = "core"
       \/ job[j].status = "running" /\ job'[j].status = "running"

LEMMA EarlyFits == ASSUME IInv, TypeOK', \A j \in Job : Early(j) PROVE Promises
<1>1. ASSUME NEW j \in Job PROVE Fits(j)
  <2>1. ran'[j] = ran[j]
    BY DEF Early
  <2>2. CASE job'[j] = job[j]
    BY <2>1, <2>2, SameFits
  <2>3. CASE job'[j] # job[j]
    <3>1. \/ PhaseOf(j)' = PhaseOf(j)
          \/ PhaseOf(j) = "new" /\ PhaseOf(j)' \in {"running", "void"}
      BY <2>3, PhaseIs, PhaseWillBe DEF Early, PhaseFor
    <3> QED BY <2>1, <3>1 DEF Fits
  <2> QED BY <2>2, <2>3
<1> QED BY <1>1, Together DEF IInv

LEMMA CoreJobFits ==
  ASSUME IInv, TypeOK',
         \/ \E j \in Job : CancelJob(j)
         \/ \E j \in Job, k \in Kind : CreateJob(j, k)
         \/ \E d \in Dispatcher, j \in Job : Poll(d, j)
         \/ \E d \in Dispatcher, jobs \in SUBSET Job : PollByClient(d, jobs)
  PROVE  Promises
<1>1. CASE \E j \in Job : CancelJob(j)
  BY <1>1, EarlyFits DEF Early, CancelJob, IInv, TypeOK, JobRow
<1>2. CASE \E j \in Job, k \in Kind : CreateJob(j, k)
  BY <1>2, EarlyFits DEF Early, CreateJob, IInv, TypeOK
<1>3. CASE \E d \in Dispatcher, j \in Job : Poll(d, j)
  BY <1>3, EarlyFits DEF Early, Poll, Claimable, IInv, TypeOK, JobRow, targetVars
<1>4. CASE \E d \in Dispatcher, jobs \in SUBSET Job : PollByClient(d, jobs)
  BY <1>4, EarlyFits DEF Early, PollByClient, Claimable, IInv, TypeOK, JobRow, targetVars
<1> QED BY <1>1, <1>2, <1>3, <1>4

LEMMA CompleteFits ==
  ASSUME IInv, TypeOK', NEW d \in Dispatcher, Complete(d) PROVE Promises
<1>1. PICK j \in Job : disp[d].job = j
  BY DEF Complete, IInv, Inv, DispInv, Holds
<1>2. TypeOK /\ JobInv(j)
  BY DEF IInv, Inv
<1>3. /\ UNCHANGED ran /\ \A i \in Job : i # j => job'[i] = job[i]
      /\ disp[d].pc = "heard" /\ job[j].status = "running"
      /\ job'[j].status = disp[d].result /\ job'[j].by = "dispatcher"
  BY <1>1, <1>2 DEF Complete, Completable, TypeOK, JobRow, targetVars
<1>4. /\ disp[d].result \in Result \cup {"void"}
      /\ disp[d].result = "void" => ~kind[j].once
  BY <1>1, <1>3 DEF IInv, Inv, DispInv, Holds
<1>5. PhaseOf(j) = "running"
  BY <1>3, PhaseIs DEF PhaseFor
<1>6. CASE disp[d].result = "void"
  <2>1. PhaseOf(j)' = "void"
    BY <1>3, <1>6, PhaseWillBe DEF PhaseFor
  <2>2. ran[j] = 0
    BY <1>2, <1>4, <1>6 DEF JobInv, Started
  <2> QED BY <1>2, <1>3, <1>5, <2>1, <2>2, SameFits, Together DEF Fits
<1>7. CASE disp[d].result \in Result
  <2>1. PhaseOf(j)' \in {"reported", "unknown"}
    BY <1>3, <1>7, PhaseWillBe, ResultType DEF PhaseFor
  <2> QED BY <1>2, <1>3, <1>5, <2>1, SameFits, Together DEF Fits
<1> QED BY <1>4, <1>6, <1>7

LEMMA CompleteByClientFits ==
  ASSUME IInv, TypeOK', NEW j \in Job, NEW r \in Result, CompleteByClient(j, r) PROVE Promises
<1>1. /\ UNCHANGED ran /\ \A i \in Job : i # j => job'[i] = job[i]
      /\ job[j].status = "running" /\ job'[j].status = r /\ job'[j].by = "client"
  BY DEF CompleteByClient, IInv, TypeOK, JobRow, targetVars
<1>2. PhaseOf(j) = "running" /\ PhaseOf(j)' = "told"
  BY <1>1, PhaseIs, PhaseWillBe, ResultType DEF PhaseFor
<1> QED BY <1>1, <1>2, SameFits, Together DEF Fits, IInv

\* A command that starts was posted and is not settled, so its job is running,
\* unknown or closed by a client.
LEMMA RunFits ==
  ASSUME IInv, TypeOK', NEW j \in Job, NEW x \in Poster, Run(j, x) PROVE Promises
<1>1. TypeOK /\ JobInv(j) /\ ~Unposted(j)
  BY Posted DEF IInv, Run
<1>2. UNCHANGED job /\ ran'[j] = ran[j] + 1 /\ \A i \in Job : i # j => ran'[i] = ran[i]
  BY <1>1 DEF Run, TypeOK, coreVars
<1>3. ran[j] = 0 /\ kind[j].once /\ ledger[j].row # "done"
  BY <1>1 DEF Run, JobInv, Started, OneHandler, Handled, Busy
<1>4. job[j].status \in {"running", "manual"} \/ (job[j].by = "client" /\ job[j].status \in Result)
  <2>1. job[j].status \in Status /\ job[j].by \in Author
    BY <1>1, JobRowType DEF TypeOK
  <2> QED BY <1>1, <1>3, <2>1, ResultType, AuthorType DEF JobInv, Fresh, Recorded
<1>5. PhaseOf(j) \in {"running", "unknown", "told"} /\ PhaseOf(j)' = PhaseOf(j)
  BY <1>2, <1>4, PhaseIs, PhaseWillBe, ResultType DEF PhaseFor
<1>6. Fits(j)
  BY <1>2, <1>3, <1>5 DEF Fits
<1> QED BY <1>1, <1>2, <1>6, SameFits, Together

LEMMA NextPromises == ASSUME IInv, [Next]_vars PROVE Promises
<1>1. TypeOK'
  BY NextKeeps DEF IInv
<1>2. CASE UNCHANGED vars
  BY <1>1, <1>2, QuietFits DEF vars
<1>3. CASE \E d \in Dispatcher : \/ Check(d) \/ PollNothing(d) \/ Post(d) \/ Hear(d) \/ GiveUp(d)
                                 \/ CompleteAgain(d) \/ Die(d)
  BY <1>1, <1>3, QuietFits
  DEF Check, PollNothing, Post, Hear, GiveUp, CompleteAgain, Die, coreVars, targetVars
<1>4. CASE Serve \/ StopService \/ \E j \in Job : PostByClient(j) \/ CancelOnTarget(j)
  BY <1>1, <1>4, QuietFits DEF Serve, StopService, PostByClient, CancelOnTarget, coreVars, targetVars
<1>5. CASE \E j \in Job, x \in Poster :
              \/ Verify(j, x) \/ Refuse(j, x) \/ Enter(j, x) \/ Replay(j, x) \/ Doubt(j, x)
              \/ Decline(j, x) \/ Read(j, x) \/ Settle(j, x) \/ SettleDoubted(j, x)
  BY <1>1, <1>5, QuietFits
  DEF Verify, Refuse, Enter, Replay, Doubt, Decline, Read, Settle, SettleDoubted, coreVars, targetVars
<1>6. CASE \/ Reconcile \/ Renew \/ Release \/ Tick
           \/ \E o \in Owner : BeginAcquire(o) \/ Acquire(o) \/ AcquireRefused(o)
           \/ \E d \in Dispatcher : CompleteRefused(d)
  BY <1>1, <1>6, LeaseFits
<1>7. CASE \/ \E j \in Job : CancelJob(j)
           \/ \E j \in Job, k \in Kind : CreateJob(j, k)
           \/ \E d \in Dispatcher, j \in Job : Poll(d, j)
           \/ \E d \in Dispatcher, jobs \in SUBSET Job : PollByClient(d, jobs)
  BY <1>1, <1>7, CoreJobFits
<1>8. CASE \/ \E d \in Dispatcher : Complete(d)
           \/ \E j \in Job, r \in Result : CompleteByClient(j, r)
           \/ \E j \in Job, x \in Poster : Run(j, x)
  BY <1>1, <1>8, CompleteFits, CompleteByClientFits, RunFits
<1> QED BY <1>2, <1>3, <1>4, <1>5, <1>6, <1>7, <1>8 DEF Next

\* What the rows of the Core tell about a job is true of its command, step by
\* step: it acts at most once, and never after a dispatcher recorded the target's
\* report on it or it was given up as not done.
THEOREM KeepsPromise == Spec => Promise
<1>1. Init => Promised!Init
  <2> SUFFICES ASSUME Init PROVE Promised!Init
    OBVIOUS
  <2>1. ASSUME NEW j \in Job PROVE PhaseOf(j) = "new"
    BY PhaseIs DEF Init, PhaseFor
  <2> QED BY <2>1 DEF Init, Promised!Init
<1>2. IInv /\ [Next]_vars => Promises
  BY NextPromises
<1> QED BY <1>1, <1>2, Inductive, PTL DEF Spec, Promise, Promised!Spec, Promises
=============================================================================

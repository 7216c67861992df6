--------------------------- MODULE SessionRunProofs ---------------------------
(***************************************************************************)
(* Theorems about SessionRun, for any processes, call ids, actions, number *)
(* of runs and time limits.                                                *)
(***************************************************************************)
EXTENDS SessionRun, TLAPS

\* The updates of single columns of an approval yield approval rows.
LEMMA ApprovalFields ==
    ASSUME NEW a \in ApprovalRow
    PROVE  /\ [a EXCEPT !.status = "expired"] \in ApprovalRow
           /\ \A v \in {"yes", "no"} : Decided(a, v) \in ApprovalRow
           /\ [a EXCEPT !.ttl = Minus1(@)] \in ApprovalRow
<1>1. [a EXCEPT !.status = "expired"] \in ApprovalRow
  BY DEF ApprovalRow, ApprovalStatus
<1>2. ASSUME NEW v \in {"yes", "no"} PROVE Decided(a, v) \in ApprovalRow
  BY DEF ApprovalRow, ApprovalStatus, Decided
<1>3. [a EXCEPT !.ttl = Minus1(@)] \in ApprovalRow
  <2>1. Minus1(a.ttl) \in 0..ApprovalTTL
    BY ConstantsOK DEF ApprovalRow, Minus1
  <2> QED
    BY <2>1 DEF ApprovalRow
<1> QED
  BY <1>1, <1>2, <1>3

\* The updates of single columns of the lease yield lease rows.
LEMMA LeaseFields ==
    ASSUME NEW l \in LeaseRow
    PROVE  /\ [l EXCEPT !.bound = TRUE] \in LeaseRow
           /\ [l EXCEPT !.cancelled = TRUE] \in LeaseRow
           /\ [l EXCEPT !.ttl = LeaseTTL] \in LeaseRow
           /\ [l EXCEPT !.released = TRUE, !.ttl = 0] \in LeaseRow
           /\ [l EXCEPT !.ttl = Minus1(@)] \in LeaseRow
<1>1. LeaseTTL \in 0..LeaseTTL /\ 0 \in 0..LeaseTTL /\ Minus1(l.ttl) \in 0..LeaseTTL
  BY ConstantsOK DEF LeaseRow, Minus1
<1>2. [l EXCEPT !.bound = TRUE] \in LeaseRow
  BY DEF LeaseRow
<1>3. [l EXCEPT !.cancelled = TRUE] \in LeaseRow
  BY DEF LeaseRow
<1>4. [l EXCEPT !.ttl = LeaseTTL] \in LeaseRow
  BY <1>1 DEF LeaseRow
<1>5. [l EXCEPT !.released = TRUE, !.ttl = 0] \in LeaseRow
  BY <1>1 DEF LeaseRow
<1>6. [l EXCEPT !.ttl = Minus1(@)] \in LeaseRow
  BY <1>1 DEF LeaseRow
<1> QED
  BY <1>2, <1>3, <1>4, <1>5, <1>6

\* The sweep of overdue approvals yields approval rows.
LEMMA SweptType ==
    ASSUME approval \in [Run -> [Call -> ApprovalRow]]
    PROVE  Swept \in [Run -> [Call -> ApprovalRow]]
  BY ApprovalFields DEF Swept

\* The clean-up of denied actions yields receipt rows.
LEMMA DenialsResolvedType ==
    ASSUME receipt \in [Run -> [Call -> ReceiptRow]]
    PROVE  DenialsResolved \in [Run -> [Call -> ReceiptRow]]
  BY DEF DenialsResolved, ReceiptRow, ReceiptStatus

\* Marking rows as unknown yields receipt rows.
LEMMA MarkUnknownType ==
    ASSUME NEW rows \in [Run -> [Call -> ReceiptRow]], NEW runs
    PROVE  MarkUnknown(rows, runs) \in [Run -> [Call -> ReceiptRow]]
  BY DEF MarkUnknown, ReceiptRow, ReceiptStatus

\* Replacing one row of a table keeps the table's type.
LEMMA RowUpdate ==
    ASSUME NEW S, NEW T, NEW R, NEW f \in [S -> [T -> R]], NEW a, NEW b, NEW v \in R
    PROVE  [f EXCEPT ![a][b] = v] \in [S -> [T -> R]]
<1>1. CASE a \in S
  <2>1. [f[a] EXCEPT ![b] = v] \in [T -> R]
    BY <1>1
  <2> QED
    BY <1>1, <2>1
<1>2. CASE a \notin S
  BY <1>2
<1> QED
  BY <1>1, <1>2

\* Settling a receipt yields receipt rows.
LEMMA SettleType ==
    ASSUME receipt \in [Run -> [Call -> ReceiptRow]], NEW p, NEW s \in ReceiptStatus, Settle(p, s)
    PROVE  receipt' \in [Run -> [Call -> ReceiptRow]]
<1> DEFINE row == receipt[mine[p]][cur[p].call]
<1>1. receipt' = [receipt EXCEPT ![mine[p]][cur[p].call] = [row EXCEPT !.status = s]]
  BY DEF Settle
<1>2. mine[p] \in Run /\ cur[p].call \in Call => row \in ReceiptRow
  OBVIOUS
<1> HIDE DEF row
<1>3. row \in ReceiptRow => [row EXCEPT !.status = s] \in ReceiptRow
  BY DEF ReceiptRow
<1>4. CASE row \in ReceiptRow
  <2>1. [receipt EXCEPT ![mine[p]][cur[p].call] = [row EXCEPT !.status = s]]
          \in [Run -> [Call -> ReceiptRow]]
    BY <1>3, <1>4, RowUpdate
  <2> QED
    BY <1>1, <2>1
<1>5. CASE mine[p] \notin Run \/ cur[p].call \notin Call
  BY <1>1, <1>5
<1> QED
  BY <1>2, <1>4, <1>5

\* The program counters that actions assign.
LEMMA PCValues ==
    /\ "off" \in PC /\ "idle" \in PC /\ "admitted" \in PC /\ "model" \in PC
    /\ "claimed" \in PC /\ "asking" \in PC /\ "reviewing" \in PC /\ "waiting" \in PC
    /\ "judged" \in PC /\ "deciding" \in PC /\ "rereading" \in PC
    /\ "verified" \in PC /\ "executing" \in PC /\ "executed" \in PC
    /\ "failing" \in PC /\ "ending" \in PC
  BY DEF PC

\* The request of run k is selected for call d, and keeps the decision v or,
\* being pending, gets it.
DecidesRow(k, d, v) ==
    /\ Selects(Swept, d, k)
    /\ \/ approval' = Swept /\ Swept[k][d].decision = v
       \/ /\ Swept[k][d].status = "pending" /\ Swept[k][d].decision = "none"
          /\ approval' = [Swept EXCEPT ![k][d] = Decided(Swept[k][d], v)]

\* A decision sweeps every approval, and decides at most a pending one.
LEMMA DecideRows ==
    ASSUME NEW q \in Proc, NEW d \in Call, NEW v \in {"yes", "no"}, DecideApproval(q, d, v)
    PROVE  \E k \in Run : DecidesRow(k, d, v)
  BY DEF DecideApproval, Decidable, DecidesRow

\* A decision keeps the approvals and the futures within their types.
LEMMA DecideType ==
    ASSUME approval \in [Run -> [Call -> ApprovalRow]], NEW q \in Proc, NEW d \in Call,
           fut \in [Proc -> {"none", "open", "yes", "no"}],
           NEW v \in {"yes", "no"}, DecideApproval(q, d, v)
    PROVE  /\ approval' \in [Run -> [Call -> ApprovalRow]]
           /\ fut' \in [Proc -> {"none", "open", "yes", "no"}]
<1>1. PICK k \in Run : DecidesRow(k, d, v)
  BY DecideRows
<1>2. Swept[k][d] \in ApprovalRow
  BY SweptType
<1>3. Decided(Swept[k][d], v) \in ApprovalRow
  BY <1>2, ApprovalFields
<1>4. [Swept EXCEPT ![k][d] = Decided(Swept[k][d], v)] \in [Run -> [Call -> ApprovalRow]]
  BY <1>3, SweptType, RowUpdate
<1>5. fut' \in [Proc -> {"none", "open", "yes", "no"}]
  BY DEF DecideApproval
<1> QED
  BY <1>1, <1>4, <1>5, SweptType DEF DecidesRow

\* Every step of the Session's processes keeps the rows and the program state
\* of SessionRun within their types.
LEMMA TypeOKStep == TypeOK /\ [Next]_vars => TypeOK'
<1> SUFFICES ASSUME TypeOK, [Next]_vars PROVE TypeOK'
  OBVIOUS
<1> USE DEF TypeOK, dbVars, procVars
<1>a. ASSUME NEW p \in Proc, Progress(p) PROVE TypeOK'
  <2>1. CASE BindAgent(p)
    BY <2>1, LeaseFields, PCValues DEF BindAgent
  <2>2. ASSUME NEW c \in Call, NEW h \in Hash, Reserve(p, c, h) PROVE TypeOK'
    BY <2>2, PCValues, LeaseFields DEF Reserve, ReceiptRow, ReceiptStatus
  <2>3. CASE RequestApproval(p)
    <3>1. [status |-> "pending", ttl |-> ApprovalTTL, decision |-> "none"] \in ApprovalRow
      BY ConstantsOK DEF ApprovalRow, ApprovalStatus
    <3>2. [approval EXCEPT ![mine[p]][cur[p].call] =
             [status |-> "pending", ttl |-> ApprovalTTL, decision |-> "none"]]
               \in [Run -> [Call -> ApprovalRow]]
      BY <3>1, RowUpdate
    <3>3. approval' \in [Run -> [Call -> ApprovalRow]]
      BY <2>3, <3>2 DEF RequestApproval
    <3> QED
      BY <2>3, <3>3, PCValues DEF RequestApproval
  <2>4. CASE BeginWait(p)
    BY <2>4, SweptType, PCValues, LeaseFields DEF BeginWait, Answer
  <2>5. CASE ReviewLatest(p) \/ ReviewReceipt(p)
    BY <2>5, SweptType, PCValues, LeaseFields DEF ReviewLatest, ReviewReceipt
  <2>15. ASSUME NEW v \in {"yes", "no"}, ReviewDecide(p, v) PROVE TypeOK'
    <3>1. cur[p].call \in Call
      OBVIOUS
    <3>2. /\ approval' \in [Run -> [Call -> ApprovalRow]]
          /\ fut' \in [Proc -> {"none", "open", "yes", "no"}]
      <4>1. CASE DecideApproval(p, cur[p].call, v)
        BY <3>1, <4>1, DecideType
      <4>2. CASE UNCHANGED <<approval, fut>>
        BY <4>2
      <4> QED
        BY <2>15, <4>1, <4>2 DEF ReviewDecide
    <3> QED
      BY <2>15, <3>2, PCValues DEF ReviewDecide
  <2>16. CASE Reread(p)
    BY <2>16, SweptType, PCValues, LeaseFields DEF Reread, Answer
  <2>6. CASE Decline(p)
    BY <2>6, PCValues, SettleType DEF Decline, ReceiptStatus
  <2>7. CASE VerifyApproval(p)
    BY <2>7, SweptType, PCValues, LeaseFields DEF VerifyApproval
  <2>8. CASE VerifyExecution(p)
    BY <2>8, PCValues, LeaseFields DEF VerifyExecution
  <2>9. CASE Effect(p)
    <3>1. effects' = [effects EXCEPT ![mine[p]][cur[p].call] = effects[mine[p]][cur[p].call] + 1]
      BY <2>9 DEF Effect
    <3>2. mine[p] \in Run /\ cur[p].call \in Call
            => effects[mine[p]][cur[p].call] + 1 \in Nat
      OBVIOUS
    <3>3. effects' \in [Run -> [Call -> Nat]]
      <4>1. CASE mine[p] \in Run
        <5>1. [effects EXCEPT ![mine[p]][cur[p].call] = effects[mine[p]][cur[p].call] + 1]
                \in [Run -> [Call -> Nat]]
          BY <3>2, <4>1, RowUpdate
        <5> QED
          BY <3>1, <5>1
      <4>2. CASE mine[p] \notin Run
        BY <3>1, <4>2
      <4> QED
        BY <4>1, <4>2
    <3> QED
      BY <2>9, <3>3, PCValues DEF Effect
  <2>10. CASE ToolFails(p)
    BY <2>10, PCValues, LeaseFields DEF ToolFails
  <2>11. CASE Complete(p)
    BY <2>11, PCValues, SettleType DEF Complete, ReceiptStatus
  <2>12. CASE Fail(p)
    BY <2>12, PCValues, SettleType DEF Fail, ReceiptStatus
  <2>13. CASE Stop(p)
    BY <2>13, PCValues, LeaseFields DEF Stop
  <2>14. CASE EndRun(p)
    <3>1. lease' \in LeaseRow
      BY <2>14, LeaseFields DEF EndRun
    <3>2. 0 \in 0..MaxRuns
      BY ConstantsOK
    <3> QED
      BY <2>14, <3>1, <3>2, PCValues DEF EndRun
  <2> QED
    BY <1>a, <2>1, <2>2, <2>3, <2>4, <2>5, <2>6, <2>7, <2>8, <2>9, <2>10, <2>11,
       <2>12, <2>13, <2>14, <2>15, <2>16 DEF Progress
<1>b. ASSUME NEW p \in Proc, ClientStep(p) PROVE TypeOK'
  <2>1. CASE AdmitPendingApproval(p)
    BY <2>1, PCValues, LeaseFields DEF AdmitPendingApproval
  <2>2. CASE AdmitBusy(p)
    BY <2>2, PCValues, LeaseFields DEF AdmitBusy
  <2>3. CASE AdmitUncertain(p)
    BY <2>3, DenialsResolvedType, MarkUnknownType, PCValues, LeaseFields DEF AdmitUncertain
  <2>4. CASE AdmitGranted(p)
    <3>1. lease.gen + 1 \in 0..MaxRuns /\ LeaseTTL \in 0..LeaseTTL
      BY <2>4, ConstantsOK DEF AdmitGranted, LeaseRow
    <3>2. lease' \in LeaseRow
      BY <2>4, <3>1 DEF AdmitGranted, LeaseRow
    <3> QED
      BY <2>4, <3>1, <3>2, DenialsResolvedType, PCValues DEF AdmitGranted
  <2>5. ASSUME NEW c \in Call, NEW v \in {"yes", "no"}, UserDecide(p, c, v) PROVE TypeOK'
    BY <2>5, DecideType DEF UserDecide
  <2>6. CASE CancelSession(p)
    BY <2>6, PCValues, LeaseFields DEF CancelSession
  <2>7. CASE ListApprovals(p)
    BY <2>7, SweptType, PCValues, LeaseFields DEF ListApprovals
  <2> QED
    BY <1>b, <2>1, <2>2, <2>3, <2>4, <2>5, <2>6, <2>7 DEF ClientStep
<1>c. ASSUME NEW p \in Proc, Renew(p) PROVE TypeOK'
  BY <1>c, ConstantsOK, PCValues, LeaseFields DEF Renew
<1>d. ASSUME NEW p \in Proc, Crash(p) PROVE TypeOK'
  <2>1. 0 \in 0..MaxRuns
    BY ConstantsOK
  <2> QED
    BY <1>d, <2>1, PCValues DEF Crash
<1>e. ASSUME NEW p \in Proc, Restart(p) PROVE TypeOK'
  BY <1>e, SweptType, MarkUnknownType, PCValues, LeaseFields DEF Restart
<1>f. CASE Tick
  BY <1>f, LeaseFields, ApprovalFields DEF Tick
<1>g. CASE UNCHANGED vars
  BY <1>g DEF vars
<1> QED
  BY <1>a, <1>b, <1>c, <1>d, <1>e, <1>f, <1>g DEF Next

\* Type correctness of the Session's rows and of every process, in every
\* reachable state.
THEOREM TypeCorrect == Spec => []TypeOK
<1>1. Init => TypeOK
  BY ConstantsOK DEF Init, TypeOK, PC, LeaseRow, ReceiptRow, ApprovalRow, ReceiptStatus, ApprovalStatus
<1> QED
  BY <1>1, TypeOKStep, PTL DEF Spec
-----------------------------------------------------------------------------
(***************************************************************************)
(* The inductive invariant behind the safety properties.                   *)
(***************************************************************************)
InCall(p) == pc[p] \in {"claimed", "asking", "reviewing", "judged", "deciding", "rereading",
                        "waiting", "verified", "executing", "executed", "failing"}

\* A process has a run exactly while it is not idle or down, and the run is
\* not newer than the Session's lease.
Owned == \A p \in Proc : /\ mine[p] # 0 <=> pc[p] \notin {"off", "idle"}
                         /\ mine[p] <= lease.gen

\* Two processes never have the same run.
Apart == \A p, q \in Proc : mine[p] # 0 /\ mine[p] = mine[q] => p = q

\* What the rows of one tool call say about each other and about its effect.
RowInv(r, c) ==
    /\ r < lease.gen => Settled(receipt[r][c].status) /\ approval[r][c].status # "pending"
    /\ r > lease.gen => receipt[r][c].status = "none"
    /\ receipt[r][c].status = "none" => /\ approval[r][c].status = "none"
                                        /\ approval[r][c].decision = "none"
                                        /\ effects[r][c] = 0
    /\ approval[r][c].status = "pending" => approval[r][c].decision = "none" /\ effects[r][c] = 0
    /\ approval[r][c].decision = "no" => effects[r][c] = 0
    /\ receipt[r][c].status = "completed" => effects[r][c] = 1
    /\ effects[r][c] <= 1
    /\ (effects[r][c] > 0 /\ (receipt[r][c].hash \in AskHash \/ approval[r][c].status # "none"))
         => approval[r][c].decision = "yes"

\* What a process in a tool call may rely on: until the tool has run, nobody
\* else settled its receipt and no denial is on record.
CallInv(p) ==
    InCall(p) =>
      /\ MyReceipt(p).hash = cur[p].hash
      /\ pc[p] \in {"claimed", "verified", "executing", "executed"} =>
           /\ Uncertain(MyReceipt(p).status)
           /\ MyApproval(p).status # "pending"
           /\ MyApproval(p).decision # "no"
      /\ pc[p] = "claimed" => MyApproval(p).status = "none"
      /\ pc[p] = "verified" => MyApproval(p).decision = "yes"
      /\ pc[p] \in {"executing", "executed"} =>
           ((cur[p].hash \in AskHash \/ MyApproval(p).status # "none")
              => MyApproval(p).decision = "yes")
      /\ pc[p] \in {"claimed", "asking", "reviewing", "judged", "deciding", "rereading",
                    "waiting", "verified", "executing"}
           => effects[mine[p]][cur[p].call] = 0
      /\ pc[p] = "executed" => effects[mine[p]][cur[p].call] = 1

IInv == /\ TypeOK
        /\ Owned
        /\ Apart
        /\ \A r \in Run, c \in Call : RowInv(r, c)
        /\ \A p \in Proc : CallInv(p)

\* What a step may do to the rows of a call it does not execute itself: sweep
\* or decide its approval, mark its receipt unknown, resolve a denied receipt.
ApprovalMoves(a, b) ==
    \/ b.decision = a.decision /\ b.status = a.status
    \/ b.decision = a.decision /\ a.status \in {"pending", "approved"} /\ b.status = "expired"
    \/ a.status = "pending" /\ b.status = "approved" /\ b.decision = "yes"
    \/ a.status = "pending" /\ b.status = "denied" /\ b.decision = "no"

ReceiptMoves(x, y, a) ==
    /\ y.hash = x.hash
    /\ \/ y.status = x.status
       \/ x.status = "in_progress" /\ y.status = "outcome_unknown"
       \/ Uncertain(x.status) /\ a.decision = "no" /\ y.status = "failed"

Quiet(r, c) ==
    /\ effects'[r][c] = effects[r][c]
    /\ ApprovalMoves(approval[r][c], approval'[r][c])
    /\ ReceiptMoves(receipt[r][c], receipt'[r][c], approval[r][c])

\* Such a step keeps what the rows say.
LEMMA QuietRow ==
    ASSUME NEW r \in Run, NEW c \in Call, TypeOK, RowInv(r, c), Quiet(r, c),
           lease'.gen = lease.gen
    PROVE  RowInv(r, c)'
<1>1. effects[r][c] \in Nat
  BY DEF TypeOK
<1> QED
  BY <1>1 DEF RowInv, Quiet, ApprovalMoves, ReceiptMoves, Settled, Uncertain

\* Such a step keeps what a process in a tool call relies on.
LEMMA QuietCall ==
    ASSUME NEW p \in Proc, CallInv(p), InCall(p) => Quiet(mine[p], cur[p].call),
           pc'[p] = pc[p], mine'[p] = mine[p], cur'[p] = cur[p]
    PROVE  CallInv(p)'
  BY DEF CallInv, InCall, Quiet, ApprovalMoves, ReceiptMoves, MyReceipt, MyApproval, Uncertain

\* A process in a tool call has a run and a call.
LEMMA InCallRun ==
    ASSUME NEW p \in Proc, TypeOK, Owned, InCall(p)
    PROVE  mine[p] \in Run /\ cur[p].call \in Call
<1>1. mine[p] # 0
  BY DEF Owned, InCall
<1> QED
  BY <1>1, ConstantsOK DEF TypeOK, Run

\* A step that moves no process and only sweeps, decides or marks rows.
LEMMA QuietStep ==
    ASSUME IInv, TypeOK', lease'.gen = lease.gen, mine' = mine, cur' = cur, pc' = pc,
           \A r \in Run, c \in Call : Quiet(r, c)
    PROVE  IInv'
<1>1. Owned' /\ Apart'
  BY DEF IInv, Owned, Apart
<1>2. ASSUME NEW r \in Run, NEW c \in Call PROVE RowInv(r, c)'
  BY QuietRow DEF IInv
<1>3. ASSUME NEW p \in Proc PROVE CallInv(p)'
  BY InCallRun, QuietCall DEF IInv
<1> QED
  BY <1>1, <1>2, <1>3 DEF IInv

\* A step of process p alone that keeps the rows' invariant and is quiet for
\* the calls of the other processes.
LEMMA ProcStep ==
    ASSUME IInv, TypeOK', NEW p \in Proc, lease'.gen = lease.gen,
           \A q \in Proc \ {p} : mine'[q] = mine[q] /\ cur'[q] = cur[q] /\ pc'[q] = pc[q],
           mine'[p] \in {0, mine[p]},
           mine'[p] # 0 <=> pc'[p] \notin {"off", "idle"},
           \A r \in Run, c \in Call : RowInv(r, c)',
           \A q \in Proc \ {p} : InCall(q) => Quiet(mine[q], cur[q].call),
           CallInv(p)'
    PROVE  IInv'
<1>1. Owned'
  <2>1. 0 <= lease.gen
    BY ConstantsOK DEF IInv, TypeOK, LeaseRow
  <2> QED
    BY <2>1 DEF IInv, Owned
<1>2. Apart'
  BY DEF IInv, Apart
<1>3. ASSUME NEW q \in Proc PROVE CallInv(q)'
  BY QuietCall DEF IInv
<1> QED
  BY <1>1, <1>2, <1>3 DEF IInv

\* Sweeping, and deciding what is pending after the sweep, are moves.
LEMMA SweptMoves ==
    ASSUME TypeOK, NEW r \in Run, NEW c \in Call
    PROVE  /\ ApprovalMoves(approval[r][c], Swept[r][c])
           /\ \A v \in {"yes", "no"} : Swept[r][c].status = "pending"
                => ApprovalMoves(approval[r][c], Decided(Swept[r][c], v))
<1>1. approval[r][c] \in ApprovalRow
  BY DEF TypeOK
<1>2. Swept[r][c] = IF approval[r][c].status \in {"pending", "approved"} /\ approval[r][c].ttl = 0
                    THEN [approval[r][c] EXCEPT !.status = "expired"]
                    ELSE approval[r][c]
  BY DEF Swept
<1>3. ApprovalMoves(approval[r][c], Swept[r][c])
  BY <1>1, <1>2 DEF ApprovalMoves, ApprovalRow
<1>4. ASSUME NEW v \in {"yes", "no"}, Swept[r][c].status = "pending"
      PROVE  ApprovalMoves(approval[r][c], Decided(Swept[r][c], v))
  BY <1>1, <1>2, <1>4 DEF ApprovalMoves, ApprovalRow, Decided
<1> QED
  BY <1>3, <1>4

\* Resolving denials and marking receipts unknown are moves.
LEMMA ReceiptsMove ==
    ASSUME TypeOK, NEW r \in Run, NEW c \in Call, NEW runs
    PROVE  /\ ReceiptMoves(receipt[r][c], DenialsResolved[r][c], approval[r][c])
           /\ ReceiptMoves(receipt[r][c], MarkUnknown(DenialsResolved, runs)[r][c], approval[r][c])
           /\ ReceiptMoves(receipt[r][c], MarkUnknown(receipt, runs)[r][c], approval[r][c])
           /\ ReceiptMoves(receipt[r][c], receipt[r][c], approval[r][c])
<1>1. receipt[r][c] \in ReceiptRow
  BY DEF TypeOK
<1>2. DenialsResolved[r][c] =
        IF Uncertain(receipt[r][c].status) /\ approval[r][c].decision = "no"
        THEN [receipt[r][c] EXCEPT !.status = "failed"] ELSE receipt[r][c]
  BY DEF DenialsResolved
<1>3. MarkUnknown(DenialsResolved, runs)[r][c] =
        IF DenialsResolved[r][c].status = "in_progress" /\ r \in runs
        THEN [DenialsResolved[r][c] EXCEPT !.status = "outcome_unknown"] ELSE DenialsResolved[r][c]
  BY DEF MarkUnknown
<1>4. MarkUnknown(receipt, runs)[r][c] =
        IF receipt[r][c].status = "in_progress" /\ r \in runs
        THEN [receipt[r][c] EXCEPT !.status = "outcome_unknown"] ELSE receipt[r][c]
  BY DEF MarkUnknown
<1>5. ReceiptMoves(receipt[r][c], DenialsResolved[r][c], approval[r][c])
  BY <1>1, <1>2 DEF ReceiptMoves, ReceiptRow
<1>6. ReceiptMoves(receipt[r][c], MarkUnknown(DenialsResolved, runs)[r][c], approval[r][c])
  BY <1>1, <1>2, <1>3 DEF ReceiptMoves, ReceiptRow
<1>7. ReceiptMoves(receipt[r][c], MarkUnknown(receipt, runs)[r][c], approval[r][c])
  BY <1>1, <1>4 DEF ReceiptMoves, ReceiptRow
<1>8. ReceiptMoves(receipt[r][c], receipt[r][c], approval[r][c])
  BY DEF ReceiptMoves
<1> QED
  BY <1>5, <1>6, <1>7, <1>8

\* Approvals that did not change, moved.
LEMMA SameApproval == \A a : ApprovalMoves(a, a)
  BY DEF ApprovalMoves

\* So is a decision, whatever request it falls on.
LEMMA DecideMoves ==
    ASSUME TypeOK, NEW r \in Run, NEW c \in Call, NEW q \in Proc, NEW d \in Call,
           NEW v \in {"yes", "no"}, DecideApproval(q, d, v)
    PROVE  ApprovalMoves(approval[r][c], approval'[r][c])
<1>1. Swept \in [Run -> [Call -> ApprovalRow]]
  BY SweptType DEF TypeOK
<1>2. PICK k \in Run : DecidesRow(k, d, v)
  BY DecideRows
<1>3. \/ approval'[r][c] = Swept[r][c]
      \/ Swept[r][c].status = "pending" /\ approval'[r][c] = Decided(Swept[r][c], v)
  BY <1>1, <1>2 DEF DecidesRow
<1> QED
  BY <1>3, SweptMoves

\* Admitting a new run keeps the invariant: no older call is open.
LEMMA AdmitGrantedSafe ==
    ASSUME IInv, TypeOK', NEW p \in Proc, AdmitGranted(p) PROVE IInv'
<1> USE DEF AdmitGranted
<1>1. lease.gen \in Nat /\ lease'.gen = lease.gen + 1
  BY ConstantsOK DEF IInv, TypeOK, LeaseRow
<1>2. \A q \in Proc : mine[q] \in Nat /\ mine[q] <= lease.gen
  BY DEF IInv, TypeOK, Owned
<1>3. mine' = [mine EXCEPT ![p] = lease.gen + 1] /\ pc' = [pc EXCEPT ![p] = "admitted"]
  OBVIOUS
<1>4. mine \in [Proc -> 0..MaxRuns] /\ pc \in [Proc -> PC]
  BY DEF IInv, TypeOK
<1>5. Owned'
  BY <1>1, <1>2, <1>3, <1>4 DEF IInv, Owned
<1>6. Apart'
  BY <1>1, <1>2, <1>3, <1>4 DEF IInv, Apart
<1>7. ASSUME NEW r \in Run, NEW c \in Call PROVE RowInv(r, c)'
  <2>1. RowInv(r, c) /\ receipt[r][c].status \in ReceiptStatus /\ effects[r][c] \in Nat /\ r \in Nat
    BY ConstantsOK DEF IInv, TypeOK, ReceiptRow, Run
  <2>2. ReceiptMoves(receipt[r][c], receipt'[r][c], approval[r][c])
    BY ReceiptsMove DEF IInv
  <2>3. ~Uncertain(receipt'[r][c].status) /\ receipt'[r][c].status \in ReceiptStatus
    <3>1. receipt'[r][c] \in ReceiptRow /\ receipt' = DenialsResolved
      BY DEF TypeOK
    <3> QED
      BY <3>1 DEF ReceiptRow
  <2>4. approval[r][c].status # "pending"
    <3>1. approval[r][c].status = "pending" => <<r, c>> \in PendingIn(approval)
      BY DEF PendingIn
    <3> QED
      BY <3>1
  <2>5. effects' = effects /\ approval' = approval
    OBVIOUS
  <2> QED
    BY <1>1, <2>1, <2>2, <2>3, <2>4, <2>5
       DEF RowInv, ReceiptMoves, Settled, Uncertain, ReceiptStatus
<1>8. ASSUME NEW q \in Proc PROVE CallInv(q)'
  <2>1. CASE q = p
    BY <1>3, <1>4, <2>1 DEF CallInv, InCall
  <2>2. CASE q # p
    <3>1. InCall(q) => Quiet(mine[q], cur[q].call)
      BY InCallRun, ReceiptsMove, SameApproval DEF IInv, Quiet
    <3> QED
      BY <1>3, <1>4, <2>2, <3>1, QuietCall DEF IInv
  <2> QED
    BY <2>1, <2>2
<1> QED
  BY <1>5, <1>6, <1>7, <1>8 DEF IInv

\* Requests from clients keep the invariant.
LEMMA ClientSafe ==
    ASSUME IInv, TypeOK', NEW p \in Proc, ClientStep(p) PROVE IInv'
<1> USE DEF dbVars, procVars
<1>1. CASE AdmitPendingApproval(p)
  <2>1. \A r \in Run, c \in Call : Quiet(r, c)
    BY <1>1, SameApproval, ReceiptsMove DEF AdmitPendingApproval, Quiet, IInv
  <2> QED
    BY <1>1, <2>1, QuietStep DEF AdmitPendingApproval
<1>2. CASE AdmitBusy(p)
  <2>1. \A r \in Run, c \in Call : Quiet(r, c)
    BY <1>2, SameApproval, ReceiptsMove DEF AdmitBusy, Quiet, IInv
  <2> QED
    BY <1>2, <2>1, QuietStep DEF AdmitBusy
<1>3. CASE AdmitUncertain(p)
  <2>1. \A r \in Run, c \in Call : Quiet(r, c)
    BY <1>3, SameApproval, ReceiptsMove DEF AdmitUncertain, Quiet, IInv
  <2> QED
    BY <1>3, <2>1, QuietStep DEF AdmitUncertain
<1>4. CASE AdmitGranted(p)
  BY <1>4, AdmitGrantedSafe
<1>5. ASSUME NEW d \in Call, NEW v \in {"yes", "no"}, UserDecide(p, d, v) PROVE IInv'
  <2>1. ASSUME NEW r \in Run, NEW c \in Call PROVE Quiet(r, c)
    BY <1>5, DecideMoves, ReceiptsMove DEF UserDecide, Quiet, IInv
  <2> QED
    BY <1>5, <2>1, QuietStep DEF UserDecide
<1>6. CASE CancelSession(p)
  <2>1. \A r \in Run, c \in Call : Quiet(r, c)
    BY <1>6, SameApproval, ReceiptsMove DEF CancelSession, Quiet, IInv
  <2>2. lease'.gen = lease.gen
    BY <1>6 DEF CancelSession, IInv, TypeOK, LeaseRow
  <2> QED
    BY <1>6, <2>1, <2>2, QuietStep DEF CancelSession
<1>7. CASE ListApprovals(p)
  <2>1. \A r \in Run, c \in Call : Quiet(r, c)
    BY <1>7, SweptMoves, ReceiptsMove DEF ListApprovals, Quiet, IInv
  <2> QED
    BY <1>7, <2>1, QuietStep DEF ListApprovals
<1> QED
  BY <1>1, <1>2, <1>3, <1>4, <1>5, <1>6, <1>7 DEF ClientStep

\* Settling the receipt of one's own call keeps the invariant.
LEMMA SettleSafe ==
    ASSUME IInv, TypeOK', NEW p \in Proc, NEW s \in {"completed", "failed"},
           InCall(p), Settle(p, s), s = "completed" => pc[p] = "executed",
           pc' = [pc EXCEPT ![p] = "model"],
           UNCHANGED <<lease, approval, mine, cur, effects>>
    PROVE  IInv'
<1>1. mine[p] \in Run /\ cur[p].call \in Call
  BY InCallRun DEF IInv
<1>2. receipt \in [Run -> [Call -> ReceiptRow]] /\ pc \in [Proc -> PC]
  BY DEF IInv, TypeOK
<1>3. receipt'[mine[p]][cur[p].call] = [MyReceipt(p) EXCEPT !.status = s]
  BY <1>1, <1>2 DEF Settle, MyReceipt
<1>4. MyReceipt(p) \in ReceiptRow
  BY <1>1, <1>2 DEF MyReceipt
<1>5. \A r \in Run, c \in Call : r # mine[p] \/ c # cur[p].call => receipt'[r][c] = receipt[r][c]
  BY <1>1, <1>2 DEF Settle
<1>6. ASSUME NEW r \in Run, NEW c \in Call PROVE RowInv(r, c)'
  <2>1. CASE r = mine[p] /\ c = cur[p].call
    <3>1. RowInv(r, c) /\ CallInv(p) /\ receipt'[r][c] = [receipt[r][c] EXCEPT !.status = s]
          /\ receipt[r][c] \in ReceiptRow
      BY <1>3, <1>4, <2>1 DEF IInv, MyReceipt
    <3>2. receipt'[r][c].status = s /\ receipt'[r][c].hash = receipt[r][c].hash
      BY <3>1 DEF ReceiptRow
    <3>3. s = "completed" => effects[r][c] = 1
      BY <2>1, <3>1 DEF CallInv, InCall
    <3>4. r > lease.gen => FALSE
      BY <2>1, ConstantsOK DEF IInv, Owned, TypeOK, LeaseRow, Run
    <3> QED
      BY <3>1, <3>2, <3>3, <3>4 DEF RowInv, Settled
  <2>2. CASE ~(r = mine[p] /\ c = cur[p].call)
    <3>1. Quiet(r, c)
      BY <1>5, <2>2, SameApproval DEF Quiet, ReceiptMoves
    <3> QED
      BY <3>1, QuietRow DEF IInv
  <2> QED
    BY <2>1, <2>2
<1>7. ASSUME NEW q \in Proc \ {p}, InCall(q) PROVE Quiet(mine[q], cur[q].call)
  <2>1. mine[q] \in Run /\ cur[q].call \in Call /\ mine[q] # mine[p]
    BY <1>7, InCallRun DEF IInv, Apart, Owned, InCall
  <2> QED
    BY <1>5, <2>1, SameApproval DEF Quiet, ReceiptMoves
<1>8. CallInv(p)'
  BY <1>2 DEF CallInv, InCall
<1>9. mine'[p] # 0 <=> pc'[p] \notin {"off", "idle"}
  BY <1>2 DEF IInv, Owned, InCall
<1> QED
  BY <1>2, <1>6, <1>7, <1>8, <1>9, ProcStep

\* A step of process p that leaves every row quiet.
LEMMA QuietMove ==
    ASSUME IInv, TypeOK', NEW p \in Proc, lease'.gen = lease.gen,
           NEW s \in PC, pc' = [pc EXCEPT ![p] = s], cur' = cur,
           NEW n \in {0, mine[p]}, mine' = [mine EXCEPT ![p] = n],
           n # 0 <=> s \notin {"off", "idle"},
           \A r \in Run, c \in Call : Quiet(r, c),
           CallInv(p)'
    PROVE  IInv'
<1>1. mine \in [Proc -> 0..MaxRuns] /\ pc \in [Proc -> PC]
  BY DEF IInv, TypeOK
<1>2. \A r \in Run, c \in Call : RowInv(r, c)'
  BY QuietRow DEF IInv
<1>3. \A q \in Proc \ {p} : InCall(q) => Quiet(mine[q], cur[q].call)
  BY InCallRun DEF IInv
<1> QED
  BY <1>1, <1>2, <1>3, ProcStep

\* Reserving a call keeps the invariant: the row was empty and belongs to the
\* run that holds the lease.
LEMMA ReserveSafe ==
    ASSUME IInv, TypeOK', NEW p \in Proc, NEW d \in Call, NEW h \in Hash, Reserve(p, d, h)
    PROVE  IInv'
<1> USE DEF Reserve
<1>1. mine[p] \in Run /\ mine[p] = lease.gen /\ mine[p] \in Nat
  BY ConstantsOK DEF Holds, IInv, TypeOK, Run
<1>2. /\ receipt \in [Run -> [Call -> ReceiptRow]] /\ pc \in [Proc -> PC]
      /\ cur \in [Proc -> [call : Call, hash : Hash]]
  BY DEF IInv, TypeOK
<1>3. receipt'[mine[p]][d] = [status |-> "in_progress", hash |-> h]
  BY <1>1, <1>2
<1>4. \A r \in Run, c \in Call : r # mine[p] \/ c # d => receipt'[r][c] = receipt[r][c]
  BY <1>1, <1>2
<1>5. RowInv(mine[p], d) /\ receipt[mine[p]][d].status = "none"
  BY <1>1 DEF IInv, Unclaimed
<1>6. ASSUME NEW r \in Run, NEW c \in Call PROVE RowInv(r, c)'
  <2>1. CASE r = mine[p] /\ c = d
    BY <1>1, <1>3, <1>5, <2>1 DEF RowInv, Settled
  <2>2. CASE ~(r = mine[p] /\ c = d)
    <3>1. Quiet(r, c)
      BY <1>4, <2>2, SameApproval DEF Quiet, ReceiptMoves
    <3> QED
      BY <3>1, QuietRow DEF IInv
  <2> QED
    BY <2>1, <2>2
<1>7. ASSUME NEW q \in Proc \ {p}, InCall(q) PROVE Quiet(mine[q], cur[q].call)
  <2>1. mine[q] \in Run /\ cur[q].call \in Call /\ mine[q] # mine[p]
    BY <1>7, InCallRun DEF IInv, Apart, Owned, InCall
  <2> QED
    BY <1>4, <2>1, SameApproval DEF Quiet, ReceiptMoves
<1>8. CallInv(p)'
  <2>1. pc'[p] = "claimed" /\ cur'[p] = [call |-> d, hash |-> h] /\ mine'[p] = mine[p]
    BY <1>2
  <2>2. /\ approval'[mine[p]][d].status = "none" /\ approval'[mine[p]][d].decision = "none"
        /\ effects'[mine[p]][d] = 0
    BY <1>5 DEF RowInv
  <2> QED
    BY <1>3, <2>1, <2>2 DEF CallInv, InCall, MyReceipt, MyApproval, Uncertain
<1>9. mine'[p] # 0 <=> pc'[p] \notin {"off", "idle"}
  BY <1>1, <1>2 DEF Holds
<1> QED
  BY <1>2, <1>6, <1>7, <1>8, <1>9, ProcStep

\* Asking for an approval keeps the invariant: the tool has not run yet.
LEMMA RequestApprovalSafe ==
    ASSUME IInv, TypeOK', NEW p \in Proc, RequestApproval(p) PROVE IInv'
<1> USE DEF RequestApproval
<1> DEFINE d == cur[p].call
<1>1. InCall(p) /\ mine[p] # 0
  BY DEF InCall, IInv, Owned
<1>2. mine[p] \in Run /\ d \in Call
  BY <1>1, InCallRun DEF IInv
<1>3. approval \in [Run -> [Call -> ApprovalRow]] /\ pc \in [Proc -> PC] /\ mine = [mine EXCEPT ![p] = mine[p]]
  BY DEF IInv, TypeOK
<1>4. CASE MyReceipt(p).status = "in_progress"
  <2>1. approval'[mine[p]][d] = [status |-> "pending", ttl |-> ApprovalTTL, decision |-> "none"]
    BY <1>2, <1>3, <1>4
  <2>2. \A r \in Run, c \in Call : r # mine[p] \/ c # d => approval'[r][c] = approval[r][c]
    BY <1>2, <1>3, <1>4
  <2>3. RowInv(mine[p], d) /\ receipt[mine[p]][d].status = "in_progress" /\ CallInv(p)
    BY <1>2, <1>4 DEF IInv, MyReceipt
  <2>4. effects[mine[p]][d] = 0 /\ receipt[mine[p]][d].hash = cur[p].hash
    BY <1>1, <2>3 DEF CallInv, MyReceipt
  <2>5. ASSUME NEW r \in Run, NEW c \in Call PROVE RowInv(r, c)'
    <3>1. CASE r = mine[p] /\ c = d
      BY <2>1, <2>3, <2>4, <3>1 DEF RowInv, Settled
    <3>2. CASE ~(r = mine[p] /\ c = d)
      <4>1. Quiet(r, c)
        BY <2>2, <3>2, SameApproval DEF Quiet, ReceiptMoves
      <4> QED
        BY <4>1, QuietRow DEF IInv
    <3> QED
      BY <3>1, <3>2
  <2>6. ASSUME NEW q \in Proc \ {p}, InCall(q) PROVE Quiet(mine[q], cur[q].call)
    <3>1. mine[q] \in Run /\ cur[q].call \in Call /\ mine[q] # mine[p]
      BY <1>1, <2>6, InCallRun DEF IInv, Apart
    <3> QED
      BY <2>2, <3>1, SameApproval DEF Quiet, ReceiptMoves
  <2>7. pc'[p] = "asking" /\ mine' = mine /\ cur' = cur
    BY <1>3, <1>4
  <2>8. CallInv(p)'
    BY <2>4, <2>7 DEF CallInv, InCall, MyReceipt
  <2> QED
    BY <1>1, <1>3, <1>4, <2>5, <2>6, <2>7, <2>8, ProcStep
<1>5. CASE MyReceipt(p).status # "in_progress"
  <2>1. \A r \in Run, c \in Call : Quiet(r, c)
    BY <1>5, SameApproval DEF Quiet, ReceiptMoves
  <2>2. CallInv(p)'
    BY <1>3, <1>5 DEF CallInv, InCall
  <2> QED
    BY <1>1, <1>3, <1>5, <2>1, <2>2, PCValues, QuietMove
<1> QED
  BY <1>4, <1>5

\* The side effect keeps the invariant: it is the first of its call.
LEMMA EffectSafe ==
    ASSUME IInv, TypeOK', NEW p \in Proc, Effect(p) PROVE IInv'
<1> USE DEF Effect
<1> DEFINE d == cur[p].call
<1>1. InCall(p) /\ mine[p] # 0
  BY DEF InCall, IInv, Owned
<1>2. mine[p] \in Run /\ d \in Call
  BY <1>1, InCallRun DEF IInv
<1>3. effects \in [Run -> [Call -> Nat]] /\ pc \in [Proc -> PC]
  BY DEF IInv, TypeOK
<1>4. effects'[mine[p]][d] = effects[mine[p]][d] + 1
  BY <1>2, <1>3
<1>5. \A r \in Run, c \in Call : r # mine[p] \/ c # d => effects'[r][c] = effects[r][c]
  BY <1>2, <1>3
<1>6. RowInv(mine[p], d) /\ CallInv(p)
  BY <1>2 DEF IInv
<1>7. effects'[mine[p]][d] = 1
  BY <1>1, <1>4, <1>6 DEF CallInv
<1>8. ASSUME NEW r \in Run, NEW c \in Call PROVE RowInv(r, c)'
  <2>1. CASE r = mine[p] /\ c = d
    <3>1. /\ Uncertain(receipt[r][c].status) /\ approval[r][c].status # "pending"
          /\ approval[r][c].decision # "no"
          /\ (receipt[r][c].hash \in AskHash \/ approval[r][c].status # "none")
               => approval[r][c].decision = "yes"
      BY <1>1, <1>6, <2>1 DEF CallInv, MyReceipt, MyApproval
    <3>2. /\ receipt'[r][c] = receipt[r][c] /\ approval'[r][c] = approval[r][c] /\ lease' = lease
          /\ effects'[r][c] = 1 /\ receipt[r][c].status \notin {"none", "completed"}
      BY <1>7, <2>1, <3>1 DEF Uncertain
    <3>3. RowInv(r, c)
      BY <1>6, <2>1
    <3> QED
      <4> HIDE DEF Effect, d
      <4> QED
        BY <3>1, <3>2, <3>3 DEF RowInv
  <2>2. CASE ~(r = mine[p] /\ c = d)
    <3>1. Quiet(r, c)
      BY <1>5, <2>2, SameApproval DEF Quiet, ReceiptMoves
    <3> QED
      BY <3>1, QuietRow DEF IInv
  <2> QED
    BY <2>1, <2>2
<1>9. ASSUME NEW q \in Proc \ {p}, InCall(q) PROVE Quiet(mine[q], cur[q].call)
  <2>1. mine[q] \in Run /\ cur[q].call \in Call /\ mine[q] # mine[p]
    BY <1>1, <1>9, InCallRun DEF IInv, Apart
  <2> QED
    BY <1>5, <2>1, SameApproval DEF Quiet, ReceiptMoves
<1>10. CallInv(p)'
  BY <1>1, <1>3, <1>6, <1>7 DEF CallInv, InCall, MyReceipt, MyApproval
<1> QED
  BY <1>1, <1>3, <1>8, <1>9, <1>10, ProcStep

\* Every step of a run keeps the invariant.
LEMMA ProgressSafe ==
    ASSUME IInv, TypeOK', NEW p \in Proc, Progress(p) PROVE IInv'
<1> USE DEF dbVars
<1>a. /\ pc \in [Proc -> PC] /\ mine \in [Proc -> 0..MaxRuns] /\ lease \in LeaseRow
      /\ mine = [mine EXCEPT ![p] = mine[p]]
      /\ mine[p] # 0 <=> pc[p] \notin {"off", "idle"}
      /\ CallInv(p)
  BY DEF IInv, TypeOK, Owned
<1>b. ASSUME UNCHANGED <<receipt, approval, effects>>
      PROVE  \A r \in Run, c \in Call : Quiet(r, c)
  BY <1>b, SameApproval DEF Quiet, ReceiptMoves
<1>c. ASSUME approval' = Swept, UNCHANGED <<receipt, effects>>
      PROVE  \A r \in Run, c \in Call : Quiet(r, c)
  BY <1>c, SweptMoves, ReceiptsMove DEF Quiet, IInv
<1>1. CASE BindAgent(p)
  <2>1. lease'.gen = lease.gen
    BY <1>1, <1>a DEF BindAgent, LeaseRow
  <2>2. CallInv(p)'
    BY <1>1, <1>a DEF BindAgent, CallInv, InCall
  <2>3. \A r \in Run, c \in Call : Quiet(r, c)
    BY <1>1, <1>b DEF BindAgent
  <2>4. CASE Holds(p)
    BY <1>1, <1>a, <2>1, <2>2, <2>3, <2>4, PCValues, QuietMove DEF BindAgent
  <2>5. CASE ~Holds(p)
    BY <1>1, <1>a, <2>1, <2>2, <2>3, <2>5, PCValues, QuietMove DEF BindAgent
  <2> QED
    BY <2>4, <2>5
<1>2. ASSUME NEW c \in Call, NEW h \in Hash, Reserve(p, c, h) PROVE IInv'
  BY <1>2, ReserveSafe
<1>3. CASE RequestApproval(p)
  BY <1>3, RequestApprovalSafe
<1>4. CASE BeginWait(p)
  <2>1. \A r \in Run, c \in Call : Quiet(r, c)
    BY <1>4, <1>c DEF BeginWait
  <2>2. PICK s \in {"reviewing", "waiting"} : pc' = [pc EXCEPT ![p] = s]
    BY <1>4 DEF BeginWait
  <2>3. CallInv(p)'
    BY <1>4, <1>a, <2>2 DEF BeginWait, CallInv, InCall, MyReceipt
  <2> QED
    BY <1>4, <1>a, <2>1, <2>2, <2>3, PCValues, QuietMove DEF BeginWait
<1>5. CASE ReviewLatest(p)
  <2>1. \A r \in Run, c \in Call : Quiet(r, c)
    BY <1>5, <1>b, <1>c DEF ReviewLatest
  <2>2. PICK s \in {"judged", "rereading"} : pc' = [pc EXCEPT ![p] = s]
    BY <1>5 DEF ReviewLatest
  <2>3. CallInv(p)'
    BY <1>5, <1>a, <2>2 DEF ReviewLatest, CallInv, InCall, MyReceipt
  <2> QED
    BY <1>5, <1>a, <2>1, <2>2, <2>3, PCValues, QuietMove DEF ReviewLatest
<1>17. CASE ReviewReceipt(p)
  <2>1. PICK s \in {"deciding", "rereading"} : pc' = [pc EXCEPT ![p] = s]
    BY <1>17 DEF ReviewReceipt
  <2>2. CallInv(p)'
    BY <1>17, <1>a, <2>1 DEF ReviewReceipt, CallInv, InCall, MyReceipt
  <2> QED
    BY <1>17, <1>a, <1>b, <2>1, <2>2, PCValues, QuietMove DEF ReviewReceipt
<1>15. ASSUME NEW v \in {"yes", "no"}, ReviewDecide(p, v) PROVE IInv'
  <2>1. cur[p].call \in Call
    BY DEF IInv, TypeOK
  <2>2. ASSUME NEW r \in Run, NEW c \in Call PROVE Quiet(r, c)
    <3>1. ApprovalMoves(approval[r][c], approval'[r][c])
      BY <1>15, <2>1, DecideMoves, SameApproval DEF ReviewDecide, IInv
    <3> QED
      BY <1>15, <3>1, ReceiptsMove DEF ReviewDecide, Quiet, IInv
  <2>3. CallInv(p)'
    BY <1>15, <1>a DEF ReviewDecide, CallInv, InCall, MyReceipt
  <2> QED
    BY <1>15, <1>a, <2>2, <2>3, PCValues, QuietMove DEF ReviewDecide
<1>16. CASE Reread(p)
  <2>1. \A r \in Run, c \in Call : Quiet(r, c)
    BY <1>16, <1>c DEF Reread
  <2>2. CallInv(p)'
    BY <1>16, <1>a DEF Reread, CallInv, InCall, MyReceipt
  <2> QED
    BY <1>16, <1>a, <2>1, <2>2, PCValues, QuietMove DEF Reread
<1>6. CASE Decline(p)
  <2>1. CASE MyReceipt(p).status = "in_progress"
    BY <1>6, <2>1, SettleSafe DEF Decline, InCall
  <2>2. CASE MyReceipt(p).status # "in_progress"
    <3>1. CallInv(p)'
      BY <1>6, <1>a, <2>2 DEF Decline, CallInv, InCall
    <3> QED
      BY <1>6, <1>a, <1>b, <2>2, <3>1, PCValues, QuietMove DEF Decline
  <2> QED
    BY <2>1, <2>2
<1>7. CASE VerifyApproval(p)
  <2>1. \A r \in Run, c \in Call : Quiet(r, c)
    BY <1>7, <1>c DEF VerifyApproval
  <2>2. CASE pc' = [pc EXCEPT ![p] = "verified"]
    <3>1. /\ approval'[mine[p]][cur[p].call].status = "approved"
          /\ approval'[mine[p]][cur[p].call].decision = "yes"
          /\ receipt'[mine[p]][cur[p].call] = MyReceipt(p)
          /\ MyReceipt(p).status = "in_progress"
      BY <1>7, <1>a, <2>2 DEF VerifyApproval, MyReceipt
    <3>2. /\ effects'[mine[p]][cur[p].call] = 0 /\ MyReceipt(p).hash = cur[p].hash
          /\ pc'[p] = "verified" /\ mine' = mine /\ cur' = cur
      BY <1>7, <1>a, <2>2 DEF VerifyApproval, CallInv, InCall
    <3>3. CallInv(p)'
      BY <3>1, <3>2 DEF CallInv, InCall, MyReceipt, MyApproval, Uncertain
    <3> QED
      BY <1>7, <1>a, <2>1, <2>2, <3>3, PCValues, QuietMove DEF VerifyApproval
  <2>3. CASE pc' = [pc EXCEPT ![p] = "failing"]
    <3>1. CallInv(p)'
      BY <1>7, <1>a, <2>3 DEF VerifyApproval, CallInv, InCall, MyReceipt
    <3> QED
      BY <1>7, <1>a, <2>1, <2>3, <3>1, PCValues, QuietMove DEF VerifyApproval
  <2> QED
    BY <1>7, <2>2, <2>3 DEF VerifyApproval
<1>8. CASE VerifyExecution(p)
  <2>1. PICK s \in {"executing", "failing"} : pc' = [pc EXCEPT ![p] = s]
    BY <1>8 DEF VerifyExecution
  <2>2. CallInv(p)'
    BY <1>8, <1>a, <2>1 DEF VerifyExecution, CallInv, InCall, MyReceipt, MyApproval, NeedsApproval
  <2> QED
    BY <1>8, <1>a, <1>b, <2>1, <2>2, PCValues, QuietMove DEF VerifyExecution
<1>9. CASE Effect(p)
  BY <1>9, EffectSafe
<1>10. CASE ToolFails(p)
  <2>1. CallInv(p)'
    BY <1>10, <1>a DEF ToolFails, CallInv, InCall, MyReceipt
  <2> QED
    BY <1>10, <1>a, <1>b, <2>1, PCValues, QuietMove DEF ToolFails
<1>11. CASE Complete(p)
  <2>1. CASE MyReceipt(p).status = "in_progress"
    BY <1>11, <2>1, SettleSafe DEF Complete, InCall
  <2>2. CASE MyReceipt(p).status # "in_progress"
    <3>1. CallInv(p)'
      BY <1>11, <1>a, <2>2 DEF Complete, CallInv, InCall
    <3> QED
      BY <1>11, <1>a, <1>b, <2>2, <3>1, PCValues, QuietMove DEF Complete
  <2> QED
    BY <2>1, <2>2
<1>12. CASE Fail(p)
  <2>1. CASE MyReceipt(p).status = "in_progress"
    BY <1>12, <2>1, SettleSafe DEF Fail, InCall
  <2>2. CASE MyReceipt(p).status # "in_progress"
    <3>1. CallInv(p)'
      BY <1>12, <1>a, <2>2 DEF Fail, CallInv, InCall
    <3> QED
      BY <1>12, <1>a, <1>b, <2>2, <3>1, PCValues, QuietMove DEF Fail
  <2> QED
    BY <2>1, <2>2
<1>13. CASE Stop(p)
  <2>1. CallInv(p)'
    BY <1>13, <1>a DEF Stop, CallInv, InCall
  <2> QED
    BY <1>13, <1>a, <1>b, <2>1, PCValues, QuietMove DEF Stop
<1>14. CASE EndRun(p)
  <2>1. CallInv(p)'
    BY <1>14, <1>a DEF EndRun, CallInv, InCall
  <2>2. lease'.gen = lease.gen
    BY <1>14, <1>a DEF EndRun, LeaseRow
  <2> QED
    BY <1>14, <1>a, <1>b, <2>1, <2>2, PCValues, QuietMove DEF EndRun
<1> QED
  BY <1>1, <1>2, <1>3, <1>4, <1>5, <1>6, <1>7, <1>8, <1>9, <1>10, <1>11, <1>12, <1>13,
     <1>14, <1>15, <1>16, <1>17 DEF Progress

\* The invariant is inductive.
LEMMA IInvStep == IInv /\ [Next]_vars => IInv'
<1> SUFFICES ASSUME IInv, [Next]_vars PROVE IInv'
  OBVIOUS
<1>1. TypeOK'
  BY TypeOKStep DEF IInv
<1> USE DEF dbVars, procVars
<1>2. ASSUME NEW p \in Proc, Renew(p) PROVE IInv'
  <2>1. \A r \in Run, c \in Call : Quiet(r, c)
    BY <1>2, SameApproval, ReceiptsMove DEF Renew, Quiet, IInv
  <2>2. lease'.gen = lease.gen
    BY <1>2 DEF Renew, IInv, TypeOK, LeaseRow
  <2> QED
    BY <1>1, <1>2, <2>1, <2>2, QuietStep DEF Renew
<1>3. ASSUME NEW p \in Proc, Crash(p) PROVE IInv'
  <2>1. \A r \in Run, c \in Call : Quiet(r, c)
    BY <1>3, SameApproval, ReceiptsMove DEF Crash, Quiet, IInv
  <2>2. CallInv(p)'
    BY <1>3 DEF Crash, IInv, TypeOK, CallInv, InCall
  <2> QED
    BY <1>1, <1>3, <2>1, <2>2, PCValues, QuietMove DEF Crash
<1>4. ASSUME NEW p \in Proc, Restart(p) PROVE IInv'
  <2>1. \A r \in Run, c \in Call : Quiet(r, c)
    BY <1>4, SweptMoves, ReceiptsMove DEF Restart, Quiet, IInv
  <2>2. CallInv(p)'
    BY <1>4 DEF Restart, IInv, TypeOK, CallInv, InCall
  <2>3. mine[p] = 0 /\ mine = [mine EXCEPT ![p] = mine[p]]
    BY <1>4 DEF Restart, IInv, TypeOK, Owned
  <2> QED
    BY <1>1, <1>4, <2>1, <2>2, <2>3, PCValues, QuietMove DEF Restart
<1>5. CASE Tick
  <2>1. ASSUME NEW r \in Run, NEW c \in Call PROVE Quiet(r, c)
    <3>1. approval[r][c] \in ApprovalRow
      BY DEF IInv, TypeOK
    <3>2. approval'[r][c] = [approval[r][c] EXCEPT !.ttl = Minus1(@)]
      BY <1>5 DEF Tick
    <3>3. ApprovalMoves(approval[r][c], approval'[r][c])
      BY <3>1, <3>2 DEF ApprovalMoves, ApprovalRow
    <3> QED
      BY <1>5, <3>3, ReceiptsMove DEF Tick, Quiet, IInv
  <2>2. lease'.gen = lease.gen
    BY <1>5 DEF Tick, IInv, TypeOK, LeaseRow
  <2> QED
    BY <1>1, <1>5, <2>1, <2>2, QuietStep DEF Tick
<1>6. CASE UNCHANGED vars
  <2>1. \A r \in Run, c \in Call : Quiet(r, c)
    BY <1>6, SameApproval, ReceiptsMove DEF vars, Quiet, IInv
  <2> QED
    BY <1>1, <1>6, <2>1, QuietStep DEF vars
<1> QED
  BY <1>1, <1>2, <1>3, <1>4, <1>5, <1>6, ClientSafe, ProgressSafe DEF Next

\* The invariant holds in every reachable state.
THEOREM Invariance == Spec => []IInv
<1>1. Init => IInv
  <2> SUFFICES ASSUME Init PROVE IInv
    OBVIOUS
  <2>1. TypeOK
    BY ConstantsOK DEF Init, TypeOK, PC, LeaseRow, ReceiptRow, ApprovalRow, ReceiptStatus,
                       ApprovalStatus
  <2>2. Owned /\ Apart
    BY DEF Init, Owned, Apart
  <2>3. \A r \in Run, c \in Call : RowInv(r, c)
    BY DEF Init, RowInv, Settled, Run
  <2>4. \A p \in Proc : CallInv(p)
    BY DEF Init, CallInv, InCall
  <2> QED
    BY <2>1, <2>2, <2>3, <2>4 DEF IInv
<1> QED
  BY <1>1, IInvStep, PTL DEF Spec

\* In every reachable state at most one process is inside a side effect of
\* the Session: an open call belongs to the newest run, which only one has.
THEOREM Exclusion == Spec => []SideEffectExclusion
<1>1. IInv => SideEffectExclusion
  <2> SUFFICES ASSUME IInv, NEW p \in Proc, NEW q \in Proc,
                      pc[p] \in {"executing", "executed"}, pc[q] \in {"executing", "executed"}
               PROVE  p = q
    BY DEF SideEffectExclusion
  <2>1. ASSUME NEW x \in Proc, pc[x] \in {"executing", "executed"} PROVE mine[x] = lease.gen /\ mine[x] # 0
    <3>1. InCall(x)
      BY <2>1 DEF InCall
    <3>2. mine[x] \in Run /\ cur[x].call \in Call /\ mine[x] <= lease.gen /\ mine[x] # 0
      BY <2>1, <3>1, InCallRun DEF IInv, Owned
    <3>3. RowInv(mine[x], cur[x].call) /\ Uncertain(receipt[mine[x]][cur[x].call].status)
      BY <2>1, <3>1, <3>2 DEF IInv, CallInv, MyReceipt
    <3>4. ~(mine[x] < lease.gen)
      BY <3>3 DEF RowInv, Settled, Uncertain
    <3> QED
      BY <3>2, <3>4, ConstantsOK DEF IInv, TypeOK, LeaseRow, Run
  <2> QED
    BY <2>1 DEF IInv, Apart
<1> QED
  BY <1>1, Invariance, PTL

\* Every tool call of a run has its effect at most once.
THEOREM EffectAtMostOnce == Spec => []AtMostOnce
<1>1. IInv => AtMostOnce
  BY DEF IInv, RowInv, AtMostOnce
<1> QED
  BY <1>1, Invariance, PTL

\* No effect without a positive decision where one is needed.
THEOREM EffectApproved == Spec => []ApprovedOnly
<1>1. IInv => ApprovedOnly
  BY DEF IInv, RowInv, ApprovedOnly
<1> QED
  BY <1>1, Invariance, PTL

\* The receipts tell the truth about the effects.
THEOREM ReceiptsTrue == Spec => []ReceiptsTruthful
<1>1. IInv => ReceiptsTruthful
  BY DEF IInv, RowInv, ReceiptsTruthful
<1> QED
  BY <1>1, Invariance, PTL

\* Nothing of an older run is open.
THEOREM OldSettled == Spec => []OldRunsSettled
<1>1. IInv => OldRunsSettled
  BY DEF IInv, RowInv, OldRunsSettled
<1> QED
  BY <1>1, Invariance, PTL
-----------------------------------------------------------------------------
(***************************************************************************)
(* One pending approval, and what is final.                                *)
(***************************************************************************)
\* The call p has in hand waits for a decision that has not been given.
AwaitsDecision(p) == \/ pc[p] = "asking"
                     \/ /\ pc[p] \in {"reviewing", "judged", "deciding", "rereading", "waiting"}
                        /\ fut[p] = "open"

\* A pending approval of p's run is the one p waits for; a run that is about
\* to end may leave one behind.
Asks(p) ==
    mine[p] # 0 =>
        \A c \in Call : approval[mine[p]][c].status = "pending" =>
            pc[p] = "ending" \/ (AwaitsDecision(p) /\ c = cur[p].call)

\* No run has two pending approvals, and a decision is part of a request.
OneAsk(r) ==
    \A c \in Call :
        /\ \A d \in Call : approval[r][c].status = "pending" /\ approval[r][d].status = "pending"
                             => c = d
        /\ approval[r][c].status = "none" => approval[r][c].decision = "none"

\* OnePending needs that a process leaves a call only when its request is no
\* longer pending: an answer in the future comes after the durable decision.
AskInv == (\A p \in Proc : Asks(p)) /\ (\A r \in Run : OneAsk(r))

\* An approval that is not being asked for is swept or decided at most.
LEMMA StepApproval ==
    ASSUME TypeOK, [Next]_vars, NEW r \in Run, NEW c \in Call
    PROVE  \/ ApprovalMoves(approval[r][c], approval'[r][c])
           \/ \E p \in Proc : /\ RequestApproval(p) /\ r = mine[p] /\ c = cur[p].call
                              /\ approval'[r][c].status = "pending"
<1> USE DEF dbVars, procVars
<1>0. Swept \in [Run -> [Call -> ApprovalRow]] /\ approval \in [Run -> [Call -> ApprovalRow]]
  BY SweptType DEF TypeOK
<1>1. CASE approval' = approval
  BY <1>1, SameApproval
<1>2. ASSUME approval' = Swept PROVE ApprovalMoves(approval[r][c], approval'[r][c])
  BY <1>2, SweptMoves
<1>3. ASSUME NEW p \in Proc, RequestApproval(p), approval' # approval
      PROVE  \/ approval'[r][c] = approval[r][c]
             \/ r = mine[p] /\ c = cur[p].call /\ approval'[r][c].status = "pending"
  <2> DEFINE new == [status |-> "pending", ttl |-> ApprovalTTL, decision |-> "none"]
  <2>1. approval' = [approval EXCEPT ![mine[p]][cur[p].call] = new] /\ new.status = "pending"
    BY <1>3 DEF RequestApproval
  <2> HIDE DEF new
  <2>2. CASE r = mine[p] /\ c = cur[p].call
    BY <1>0, <2>1, <2>2
  <2>3. CASE ~(r = mine[p] /\ c = cur[p].call)
    BY <1>0, <2>1, <2>3
  <2> QED
    BY <2>2, <2>3
<1>4. ASSUME NEW p \in Proc, NEW d \in Call, NEW v \in {"yes", "no"}, DecideApproval(p, d, v)
      PROVE  ApprovalMoves(approval[r][c], approval'[r][c])
  BY <1>4, DecideMoves
<1>5. CASE Tick
  <2>1. approval[r][c] \in ApprovalRow
    BY <1>0
  <2>2. approval'[r][c] = [approval[r][c] EXCEPT !.ttl = Minus1(@)]
    BY <1>5 DEF Tick
  <2> QED
    BY <2>1, <2>2 DEF ApprovalMoves, ApprovalRow
<1>6. \A p \in Proc : cur[p].call \in Call
  BY DEF TypeOK
<1>7. \/ approval' = approval \/ approval' = Swept \/ Tick
      \/ \E p \in Proc : \/ RequestApproval(p)
                         \/ \E d \in Call, v \in {"yes", "no"} : DecideApproval(p, d, v)
  BY <1>6
     DEF Next, vars, Progress, ClientStep, BindAgent, Reserve, BeginWait, ReviewLatest,
         ReviewReceipt, ReviewDecide, Reread, Decline, VerifyApproval,
         VerifyExecution, Effect, ToolFails, Complete, Fail, Stop, EndRun, AdmitPendingApproval,
         AdmitBusy, AdmitUncertain, AdmitGranted, UserDecide, CancelSession, ListApprovals, Renew,
         Crash, Restart
<1> QED
  BY <1>1, <1>2, <1>3, <1>4, <1>5, <1>7, SameApproval

\* A receipt is reserved when it is empty, settled when it is in progress,
\* and otherwise marked unknown or resolved by a denial at most.
LEMMA StepReceipt ==
    ASSUME TypeOK, [Next]_vars, NEW r \in Run, NEW c \in Call
    PROVE  \/ ReceiptMoves(receipt[r][c], receipt'[r][c], approval[r][c])
           \/ receipt[r][c].status \in {"none", "in_progress"}
<1> USE DEF dbVars, procVars
<1>0. receipt \in [Run -> [Call -> ReceiptRow]]
  BY DEF TypeOK
<1>1. CASE receipt' = receipt \/ receipt' = DenialsResolved
             \/ \E runs : \/ receipt' = MarkUnknown(DenialsResolved, runs)
                          \/ receipt' = MarkUnknown(receipt, runs)
  BY <1>1, ReceiptsMove
<1>2. ASSUME NEW p \in Proc, NEW d \in Call, NEW h \in Hash, Reserve(p, d, h)
      PROVE  receipt'[r][c] = receipt[r][c] \/ receipt[r][c].status = "none"
  BY <1>0, <1>2 DEF Reserve, Unclaimed
<1>3. ASSUME NEW p \in Proc, NEW s, Settle(p, s), MyReceipt(p).status = "in_progress"
      PROVE  receipt'[r][c] = receipt[r][c] \/ receipt[r][c].status = "in_progress"
  BY <1>0, <1>3 DEF Settle, MyReceipt
<1>4. ASSUME NEW p \in Proc, Decline(p) \/ Complete(p) \/ Fail(p)
      PROVE  receipt' = receipt \/ \E s : Settle(p, s) /\ MyReceipt(p).status = "in_progress"
  BY <1>4 DEF Decline, Complete, Fail
<1>5. ASSUME NEW p \in Proc, AdmitUncertain(p) \/ Restart(p)
      PROVE  \E runs : \/ receipt' = MarkUnknown(DenialsResolved, runs)
                      \/ receipt' = MarkUnknown(receipt, runs)
  <2>1. AdmitUncertain(p) => receipt' = MarkUnknown(DenialsResolved, Run)
    BY DEF AdmitUncertain
  <2>2. Restart(p) => receipt' = MarkUnknown(receipt, Run \
            {k \in Run : Unexpired /\ lease.bound /\ ~lease.cancelled /\ lease.gen = k})
    BY DEF Restart
  <2> QED
    BY <1>5, <2>1, <2>2
<1>6. \/ receipt' = receipt \/ receipt' = DenialsResolved
      \/ \E p \in Proc : \/ Decline(p) \/ Complete(p) \/ Fail(p)
                         \/ AdmitUncertain(p) \/ Restart(p)
                         \/ \E d \in Call, h \in Hash : Reserve(p, d, h)
  BY DEF Next, vars, Progress, ClientStep, BindAgent, RequestApproval, BeginWait,
         ReviewLatest, ReviewReceipt, ReviewDecide, Reread, VerifyApproval, VerifyExecution,
         Effect, ToolFails, Stop, EndRun, AdmitPendingApproval,
         AdmitBusy, AdmitGranted, UserDecide, CancelSession, ListApprovals, Renew, Crash, Tick
<1>7. receipt'[r][c] = receipt[r][c] => ReceiptMoves(receipt[r][c], receipt'[r][c], approval[r][c])
  BY DEF ReceiptMoves
<1> QED
  BY <1>1, <1>2, <1>3, <1>4, <1>5, <1>6, <1>7

\* No step but create_approval_request makes an approval pending.
LEMMA NoNewAsk ==
    ASSUME IInv, AskInv, [Next]_vars, \A p \in Proc : ~RequestApproval(p)
    PROVE  /\ \A r \in Run, c \in Call : approval'[r][c].status = "pending"
                                           => approval[r][c].status = "pending"
           /\ \A r \in Run : OneAsk(r)'
<1>1. \A r \in Run, c \in Call : ApprovalMoves(approval[r][c], approval'[r][c])
  BY StepApproval DEF IInv
<1>2. \A r \in Run, c \in Call : approval'[r][c].status = "pending"
                                   => approval[r][c].status = "pending"
  BY <1>1 DEF ApprovalMoves
<1>3. ASSUME NEW r \in Run, NEW c \in Call, approval'[r][c].status = "none"
      PROVE  approval'[r][c].decision = "none"
  BY <1>1, <1>3 DEF ApprovalMoves, AskInv, OneAsk
<1>4. ASSUME NEW r \in Run PROVE OneAsk(r)'
  BY <1>2, <1>3 DEF AskInv, OneAsk
<1> QED
  BY <1>2, <1>4

\* A process that moves on from where it does not wait keeps Asks.
LEMMA MovesOn ==
    ASSUME NEW p \in Proc, IInv, Asks(p), ~AwaitsDecision(p), pc[p] # "ending", mine'[p] = mine[p],
           \A r \in Run, c \in Call : approval'[r][c].status = "pending"
                                        => approval[r][c].status = "pending"
    PROVE  Asks(p)'
<1>1. mine[p] # 0 => mine[p] \in Run
  BY ConstantsOK DEF IInv, TypeOK, Run
<1> QED
  BY <1>1 DEF Asks

\* A process that stays where it is keeps Asks; so does one that ends.
LEMMA StaysOrEnds ==
    ASSUME NEW p \in Proc, IInv, Asks(p), mine'[p] \in {mine[p], 0},
           \/ pc'[p] = "ending" \/ mine'[p] = 0
           \/ pc'[p] = pc[p] /\ cur'[p] = cur[p] /\ fut'[p] = fut[p],
           \A r \in Run, c \in Call : approval'[r][c].status = "pending"
                                        => approval[r][c].status = "pending"
    PROVE  Asks(p)'
<1>1. mine[p] # 0 => mine[p] \in Run
  BY ConstantsOK DEF IInv, TypeOK, Run
<1>2. CASE mine'[p] = 0 \/ pc'[p] = "ending"
  BY <1>2 DEF Asks
<1>3. CASE mine'[p] # 0 /\ pc'[p] # "ending"
  <2>1. AwaitsDecision(p) => AwaitsDecision(p)'
    BY <1>3 DEF AwaitsDecision
  <2> QED
    BY <1>1, <1>3, <2>1 DEF Asks
<1> QED
  BY <1>2, <1>3

\* What _select_approval_row finds for the call of a pending request is that
\* request, so one that it finds decided is not pending.
LEMMA SelectsOwn ==
    ASSUME NEW rows, NEW r \in Run, NEW k \in Run, NEW c \in Call,
           Selects(rows, c, k), rows[r][c].status = "pending"
    PROVE  k = r
<1>1. r \in {x \in {y \in Run : rows[y][c].status # "none"} : rows[x][c].status = "pending"}
  OBVIOUS
<1> QED
  BY <1>1 DEF Selects

\* Asking makes the only pending approval of the run, by the process that
\* waits for it.
LEMMA RequestAsks ==
    ASSUME IInv, AskInv, NEW p \in Proc, RequestApproval(p) PROVE AskInv'
<1> DEFINE d == cur[p].call
           new == [status |-> "pending", ttl |-> ApprovalTTL, decision |-> "none"]
<1>0. InCall(p) /\ mine[p] # 0
  BY DEF RequestApproval, InCall, IInv, Owned
<1>1. mine[p] \in Run /\ d \in Call
  BY <1>0, InCallRun DEF IInv
<1>2. /\ approval \in [Run -> [Call -> ApprovalRow]] /\ pc \in [Proc -> PC]
      /\ mine' = mine /\ cur' = cur /\ fut' = fut
  BY DEF IInv, TypeOK, RequestApproval
<1>3. \A c \in Call : approval[mine[p]][c].status # "pending"
  BY <1>0 DEF AskInv, Asks, AwaitsDecision, RequestApproval
<1>4. CASE approval' = [approval EXCEPT ![mine[p]][d] = new] /\ pc' = [pc EXCEPT ![p] = "asking"]
  <2>0. new.status = "pending" /\ new.decision = "none"
    OBVIOUS
  <2> HIDE DEF new, d
  <2>1. /\ approval'[mine[p]][d] = new
        /\ \A r \in Run, c \in Call : r # mine[p] \/ c # d => approval'[r][c] = approval[r][c]
    BY <1>1, <1>2, <1>4
  <2>2. ASSUME NEW q \in Proc PROVE Asks(q)'
    <3>1. CASE q = p
      <4>1. AwaitsDecision(p)'
        BY <1>2, <1>4 DEF AwaitsDecision
      <4> QED
        BY <1>1, <1>2, <1>3, <2>1, <3>1, <4>1 DEF Asks, d
    <3>2. CASE q # p
      <4>1. Asks(q) /\ pc'[q] = pc[q] /\ (mine[q] # 0 => mine[q] # mine[p] /\ mine[q] \in Run)
        BY <1>2, <1>4, <3>2, ConstantsOK DEF AskInv, IInv, Apart, TypeOK, Run
      <4>2. AwaitsDecision(q) => AwaitsDecision(q)'
        BY <1>2, <4>1 DEF AwaitsDecision
      <4> QED
        BY <1>2, <2>1, <4>1, <4>2 DEF Asks
    <3> QED
      BY <3>1, <3>2
  <2>3. ASSUME NEW r \in Run PROVE OneAsk(r)'
    <3>1. CASE r = mine[p]
      <4>1. \A c \in Call : approval'[r][c].status = "pending" => c = d
        BY <1>3, <2>1, <3>1
      <4>2. \A c \in Call : approval'[r][c].status = "none" => approval'[r][c].decision = "none"
        BY <2>0, <2>1, <3>1 DEF AskInv, OneAsk
      <4> QED
        BY <4>1, <4>2 DEF OneAsk
    <3>2. CASE r # mine[p]
      BY <2>1, <3>2 DEF AskInv, OneAsk
    <3> QED
      BY <3>1, <3>2
  <2> QED
    BY <2>2, <2>3 DEF AskInv
<1>5. CASE approval' = approval /\ pc' = [pc EXCEPT ![p] = "ending"]
  <2>1. \A r \in Run : OneAsk(r)'
    BY <1>5 DEF AskInv, OneAsk
  <2>2. ASSUME NEW q \in Proc PROVE Asks(q)'
    BY <1>2, <1>5, StaysOrEnds DEF AskInv
  <2> QED
    BY <2>1, <2>2 DEF AskInv
<1> QED
  BY <1>4, <1>5 DEF RequestApproval

\* It is enough that the call in hand is still awaited, or no longer pending.
LEMMA AwaitedOrDecided ==
    ASSUME IInv, NEW p \in Proc, Asks(p), mine' = mine, cur' = cur, pc[p] # "ending",
           \A r \in Run, c \in Call : approval'[r][c].status = "pending"
                                        => approval[r][c].status = "pending",
           \/ AwaitsDecision(p)'
           \/ mine[p] # 0 => approval'[mine[p]][cur[p].call].status # "pending"
    PROVE  Asks(p)'
<1>1. mine[p] # 0 => mine[p] \in Run
  BY ConstantsOK DEF IInv, TypeOK, Run
<1> QED
  BY <1>1 DEF Asks

\* What the lemmas on waiting need of the types.
LEMMA WaitTypes ==
    ASSUME IInv, NEW p \in Proc
    PROVE  /\ cur[p].call \in Call /\ pc \in [Proc -> PC]
           /\ fut \in [Proc -> {"none", "open", "yes", "no"}]
           /\ mine[p] # 0 => mine[p] \in Run
           /\ Swept \in [Run -> [Call -> ApprovalRow]]
  BY ConstantsOK, SweptType DEF IInv, TypeOK, Run

\* wait_for_approval opens a future for a pending request only.
LEMMA BeginWaitAsks ==
    ASSUME IInv, NEW p \in Proc, Asks(p), BeginWait(p),
           \A r \in Run, c \in Call : approval'[r][c].status = "pending"
                                        => approval[r][c].status = "pending"
    PROVE  Asks(p)'
<1>0. mine' = mine /\ cur' = cur /\ pc[p] # "ending" /\ approval' = Swept
  BY DEF BeginWait
<1>1. PICK k \in Run : BeginWait(p)!3!(k)
  BY DEF BeginWait
<1>2. CASE Swept[k][cur[p].call].status = "pending"
  <2>1. pc'[p] = "reviewing" /\ fut'[p] = "open"
    BY <1>1, <1>2, WaitTypes
  <2> QED
    BY <1>0, <2>1, AwaitedOrDecided DEF AwaitsDecision
<1>3. CASE Swept[k][cur[p].call].status # "pending"
  <2>1. mine[p] # 0 => Swept[mine[p]][cur[p].call].status # "pending"
    BY <1>1, <1>3, WaitTypes, SelectsOwn
  <2> QED
    BY <1>0, <2>1, AwaitedOrDecided
<1> QED
  BY <1>2, <1>3

\* The last read of the review answers the future with the durable status.
LEMMA RereadAsks ==
    ASSUME IInv, NEW p \in Proc, Asks(p), Reread(p),
           \A r \in Run, c \in Call : approval'[r][c].status = "pending"
                                        => approval[r][c].status = "pending"
    PROVE  Asks(p)'
<1>0. /\ mine' = mine /\ cur' = cur /\ pc[p] = "rereading" /\ pc'[p] = "waiting"
      /\ approval' = Swept
  BY WaitTypes DEF Reread
<1>1. PICK k \in Run : Reread(p)!3!(k)
  BY DEF Reread
<1>2. CASE fut[p] # "open"
  BY <1>0, <1>2, MovesOn DEF AwaitsDecision
<1>3. CASE fut[p] = "open" /\ Swept[k][cur[p].call].status = "pending"
  <2>1. fut'[p] = "open"
    BY <1>1, <1>3
  <2> QED
    BY <1>0, <2>1, AwaitedOrDecided DEF AwaitsDecision
<1>4. CASE Swept[k][cur[p].call].status # "pending"
  <2>1. ASSUME mine[p] # 0, Swept[mine[p]][cur[p].call].status = "pending" PROVE FALSE
    BY <1>1, <1>4, <2>1, WaitTypes, SelectsOwn
  <2> QED
    BY <1>0, <2>1, AwaitedOrDecided
<1> QED
  BY <1>2, <1>3, <1>4

\* After a decision for a tool_call_id no run has it pending.
LEMMA DecidedAll ==
    ASSUME IInv, NEW p \in Proc, NEW q \in Proc, NEW d \in Call, NEW v \in {"yes", "no"},
           DecideApproval(q, d, v), mine[p] # 0,
           \A r \in Run, c \in Call : approval'[r][c].status = "pending"
                                        => approval[r][c].status = "pending"
    PROVE  approval'[mine[p]][d].status # "pending"
<1>1. PICK k \in Run : DecidesRow(k, d, v)
  BY DecideRows
<1> SUFFICES ASSUME approval'[mine[p]][d].status = "pending" PROVE FALSE
  OBVIOUS
<1>2. mine[p] \in Run /\ approval[mine[p]][d].status = "pending"
  BY WaitTypes
<1>3. approval[mine[p]][d].decision = "none" /\ approval[mine[p]][d] \in ApprovalRow
  BY <1>2 DEF IInv, RowInv, TypeOK
<1>4. Swept[mine[p]][d].decision = "none"
  BY <1>2, <1>3 DEF Swept, ApprovalRow
<1>5. CASE approval' = Swept /\ Swept[k][d].decision = v
  <2>1. k # mine[p]
    BY <1>4, <1>5
  <2> QED
    BY <1>1, <1>2, <1>5, <2>1, SelectsOwn DEF DecidesRow
<1>6. CASE /\ Swept[k][d].status = "pending"
           /\ approval' = [Swept EXCEPT ![k][d] = Decided(Swept[k][d], v)]
  <2>1. Decided(Swept[k][d], v).status \in {"approved", "denied"}
    <3>1. Swept[k][d] \in ApprovalRow
      BY WaitTypes
    <3> QED
      BY <3>1 DEF Decided, ApprovalRow
  <2>2. k # mine[p]
    BY <1>6, <2>1, WaitTypes
  <2>3. Swept[mine[p]][d].status = "pending"
    BY <1>2, <1>6, <2>2, WaitTypes
  <2> QED
    BY <1>1, <1>2, <2>2, <2>3, SelectsOwn DEF DecidesRow
<1> QED
  BY <1>1, <1>5, <1>6 DEF DecidesRow

\* decide_approval answers the future after the durable decision.
LEMMA UserDecideAsks ==
    ASSUME IInv, NEW p \in Proc, Asks(p), NEW d \in Call, NEW v \in {"yes", "no"},
           UserDecide(p, d, v),
           \A r \in Run, c \in Call : approval'[r][c].status = "pending"
                                        => approval[r][c].status = "pending"
    PROVE  Asks(p)'
<1>0. mine' = mine /\ cur' = cur /\ pc' = pc /\ DecideApproval(p, d, v)
  BY DEF UserDecide
<1>1. CASE fut' = fut
  BY <1>0, <1>1, StaysOrEnds
<1>2. CASE fut' # fut
  <2>1. cur[p].call = d
    BY <1>0, <1>2 DEF DecideApproval
  <2>2. mine[p] # 0 => approval'[mine[p]][d].status # "pending"
    BY <1>0, DecidedAll
  <2>3. pc[p] # "ending" \/ Asks(p)'
    BY <1>0 DEF Asks
  <2> QED
    BY <1>0, <2>1, <2>2, <2>3, AwaitedOrDecided
<1> QED
  BY <1>1, <1>2

\* A dropped verdict leaves the wait as it was; a stored one ends it.
LEMMA ReviewDecideAsks ==
    ASSUME IInv, NEW p \in Proc, Asks(p), NEW v \in {"yes", "no"}, ReviewDecide(p, v),
           \A r \in Run, c \in Call : approval'[r][c].status = "pending"
                                        => approval[r][c].status = "pending"
    PROVE  Asks(p)'
<1>0. /\ mine' = mine /\ cur' = cur /\ pc[p] = "deciding" /\ pc'[p] = "rereading"
      /\ cur[p].call \in Call
  BY WaitTypes DEF ReviewDecide
<1>1. CASE DecideApproval(p, cur[p].call, v)
  <2>1. mine[p] # 0 => approval'[mine[p]][cur[p].call].status # "pending"
    BY <1>0, <1>1, DecidedAll
  <2> QED
    BY <1>0, <2>1, AwaitedOrDecided
<1>2. CASE UNCHANGED <<approval, fut>>
  <2>1. AwaitsDecision(p) => AwaitsDecision(p)'
    BY <1>0, <1>2 DEF AwaitsDecision
  <2> QED
    BY <1>0, <1>2, <2>1 DEF Asks
<1> QED
  BY <1>1, <1>2 DEF ReviewDecide

\* Until the verdict is stored the review only reads.
LEMMA ReviewReadsAsks ==
    ASSUME IInv, NEW p \in Proc, Asks(p), ReviewLatest(p) \/ ReviewReceipt(p),
           \A r \in Run, c \in Call : approval'[r][c].status = "pending"
                                        => approval[r][c].status = "pending"
    PROVE  Asks(p)'
<1>1. /\ mine' = mine /\ cur' = cur /\ fut' = fut /\ pc[p] \in {"reviewing", "judged"}
      /\ pc'[p] \in {"judged", "deciding", "rereading"}
  BY WaitTypes DEF ReviewLatest, ReviewReceipt
<1>2. AwaitsDecision(p) => AwaitsDecision(p)'
  BY <1>1 DEF AwaitsDecision
<1>3. mine[p] # 0 => mine[p] \in Run
  BY WaitTypes
<1> QED
  BY <1>1, <1>2, <1>3 DEF Asks

\* Every step keeps the pending approvals apart.
LEMMA AskStep == IInv /\ AskInv /\ [Next]_vars => AskInv'
<1> SUFFICES ASSUME IInv, AskInv, [Next]_vars PROVE AskInv'
  OBVIOUS
<1> USE DEF dbVars, procVars
<1>1. CASE \E p \in Proc : RequestApproval(p)
  BY <1>1, RequestAsks
<1>2. CASE \A p \in Proc : ~RequestApproval(p)
  <2>1. /\ \A r \in Run, c \in Call : approval'[r][c].status = "pending"
                                        => approval[r][c].status = "pending"
        /\ \A r \in Run : OneAsk(r)'
    BY <1>2, NoNewAsk
  <2>2. /\ pc \in [Proc -> PC] /\ mine \in [Proc -> 0..MaxRuns] /\ \A p \in Proc : Asks(p)
        /\ cur \in [Proc -> [call : Call, hash : Hash]]
        /\ fut \in [Proc -> {"none", "open", "yes", "no"}]
    BY DEF IInv, TypeOK, AskInv
  \* Another process than the one that takes the step stays where it is.
  <2>3. ASSUME NEW p \in Proc, NEW q \in Proc, q # p,
               Progress(p) \/ Renew(p) \/ ClientStep(p) \/ Crash(p) \/ Restart(p)
        PROVE  pc'[q] = pc[q] /\ mine'[q] = mine[q] /\ cur'[q] = cur[q] /\ fut'[q] = fut[q]
    <3>1. CASE Renew(p) \/ ClientStep(p) \/ Crash(p) \/ Restart(p)
      BY <2>2, <2>3, <3>1 DEF ClientStep, AdmitPendingApproval, AdmitBusy, AdmitUncertain,
         AdmitGranted, UserDecide, DecideApproval, CancelSession, ListApprovals, Renew, Crash, Restart
    <3>2. CASE Progress(p)
      <4>1. CASE BindAgent(p) \/ RequestApproval(p) \/ Decline(p) \/ Complete(p) \/ Fail(p)
        BY <2>2, <2>3, <4>1 DEF BindAgent, RequestApproval, Decline, Complete, Fail
      <4>2. CASE VerifyExecution(p) \/ Effect(p) \/ ToolFails(p) \/ Stop(p)
        BY <2>2, <2>3, <4>2 DEF VerifyExecution, Effect, ToolFails, Stop
      <4>3. CASE VerifyApproval(p)
        <5>1. UNCHANGED <<mine, cur, fut>> /\ \E label : pc' = [pc EXCEPT ![p] = label]
          BY <4>3 DEF VerifyApproval
        <5> QED
          BY <2>2, <2>3, <5>1
      <4>4. CASE EndRun(p) \/ \E c \in Call, h \in Hash : Reserve(p, c, h)
        BY <2>2, <2>3, <4>4 DEF EndRun, Reserve
      <4>5. CASE BeginWait(p)
        <5>1. /\ UNCHANGED <<mine, cur>> /\ \E label : pc' = [pc EXCEPT ![p] = label]
              /\ \E a : fut' = [fut EXCEPT ![p] = a]
          BY <4>5 DEF BeginWait
        <5> QED
          BY <2>2, <2>3, <5>1
      <4>6. CASE ReviewLatest(p) \/ ReviewReceipt(p)
        <5>1. UNCHANGED <<mine, cur, fut>> /\ \E label : pc' = [pc EXCEPT ![p] = label]
          BY <4>6 DEF ReviewLatest, ReviewReceipt
        <5> QED
          BY <2>2, <2>3, <5>1
      <4>7. CASE Reread(p) \/ \E v \in {"yes", "no"} : ReviewDecide(p, v)
        <5>1. /\ UNCHANGED <<mine, cur>> /\ \E label : pc' = [pc EXCEPT ![p] = label]
              /\ fut' = fut \/ \E a : fut' = [fut EXCEPT ![p] = a]
          BY <4>7 DEF Reread, ReviewDecide, DecideApproval
        <5> QED
          BY <2>2, <2>3, <5>1
      <4> QED
        BY <3>2, <4>1, <4>2, <4>3, <4>4, <4>5, <4>6, <4>7 DEF Progress
    <3> QED
      BY <2>3, <3>1, <3>2
  <2>4. ASSUME NEW p \in Proc,
               \/ BindAgent(p) \/ \E c \in Call, h \in Hash : Reserve(p, c, h)
               \/ Decline(p) \/ VerifyApproval(p) \/ VerifyExecution(p)
               \/ Effect(p) \/ ToolFails(p) \/ Complete(p) \/ Fail(p)
        PROVE  Asks(p)'
    <3>1. /\ mine' = mine /\ pc[p] # "ending" /\ ~AwaitsDecision(p)
      BY <2>4 DEF BindAgent, Reserve, Decline, VerifyApproval, VerifyExecution, Effect, ToolFails,
                  Complete, Fail, AwaitsDecision
    <3> QED
      BY <2>1, <2>2, <3>1, MovesOn
  <2>5. ASSUME NEW p \in Proc, Stop(p) \/ EndRun(p) \/ Renew(p) \/ Crash(p) \/ CancelSession(p)
               \/ ListApprovals(p) \/ AdmitPendingApproval(p) \/ AdmitBusy(p) \/ AdmitUncertain(p)
        PROVE  Asks(p)'
    <3>1. /\ mine'[p] \in {mine[p], 0}
          /\ \/ pc'[p] = "ending" \/ mine'[p] = 0
             \/ pc'[p] = pc[p] /\ cur'[p] = cur[p] /\ fut'[p] = fut[p]
      BY <2>2, <2>5 DEF Stop, EndRun, Renew, Crash, CancelSession, ListApprovals,
                        AdmitPendingApproval, AdmitBusy, AdmitUncertain
    <3> QED
      BY <2>1, <2>2, <3>1, StaysOrEnds
  <2>6. ASSUME NEW p \in Proc, Restart(p) PROVE Asks(p)'
    <3>1. mine'[p] = 0
      BY <2>6 DEF Restart, IInv, Owned
    <3> QED
      BY <3>1 DEF Asks
  <2>7. ASSUME NEW p \in Proc, AdmitGranted(p) PROVE Asks(p)'
    <3>1. ASSUME NEW r \in Run, NEW c \in Call PROVE approval'[r][c].status # "pending"
      <4>1. approval[r][c].status = "pending" => <<r, c>> \in PendingIn(approval)
        BY DEF PendingIn
      <4> QED
        BY <2>7, <4>1 DEF AdmitGranted
    <3>2. mine'[p] \in Run
      BY <2>2, <2>7, ConstantsOK DEF AdmitGranted, IInv, TypeOK, LeaseRow, Run
    <3> QED
      BY <3>1, <3>2 DEF Asks
  <2>8. ASSUME NEW p \in Proc, Progress(p) \/ Renew(p) \/ ClientStep(p) \/ Crash(p) \/ Restart(p)
        PROVE  Asks(p)'
    <3>1. CASE BeginWait(p)
      BY <2>1, <2>2, <3>1, BeginWaitAsks
    <3>2. CASE \/ ReviewLatest(p) \/ ReviewReceipt(p) \/ Reread(p)
               \/ \E v \in {"yes", "no"} : ReviewDecide(p, v)
      BY <2>1, <2>2, <3>2, ReviewReadsAsks, ReviewDecideAsks, RereadAsks
    <3>3. CASE \E c \in Call, v \in {"yes", "no"} : UserDecide(p, c, v)
      BY <2>1, <2>2, <3>3, UserDecideAsks
    <3> QED
      BY <1>2, <2>4, <2>5, <2>6, <2>7, <2>8, <3>1, <3>2, <3>3 DEF Progress, ClientStep
  <2>9. ASSUME NEW q \in Proc, Tick \/ UNCHANGED vars PROVE Asks(q)'
    <3>1. UNCHANGED <<pc, mine, cur, fut>>
      BY <2>9 DEF Tick, vars
    <3> QED
      BY <2>1, <2>2, <3>1, StaysOrEnds
  <2>10. ASSUME NEW q \in Proc PROVE Asks(q)'
    <3>1. ASSUME NEW p \in Proc, q # p,
                 Progress(p) \/ Renew(p) \/ ClientStep(p) \/ Crash(p) \/ Restart(p)
          PROVE  Asks(q)'
      BY <2>1, <2>2, <2>3, <3>1, StaysOrEnds
    <3> QED
      BY <2>8, <2>9, <3>1 DEF Next
  <2> QED
    BY <2>1, <2>10 DEF AskInv
<1> QED
  BY <1>1, <1>2

\* In every reachable state a pending approval is the one its run waits for.
THEOREM AsksApart == Spec => []AskInv
<1>1. Init => AskInv
  BY DEF Init, AskInv, Asks, OneAsk
<1> QED
  BY <1>1, AskStep, Invariance, PTL DEF Spec

\* The error "multiple pending approvals" of _select_approval_row never
\* occurs: a pending request is one of the newest run, which waits for one
\* decision at a time.
THEOREM PendingAlone == Spec => []OnePending
<1>1. IInv /\ AskInv => OnePending
  <2> SUFFICES ASSUME IInv, AskInv, NEW x \in PendingIn(approval), NEW y \in PendingIn(approval)
               PROVE  x = y
    BY DEF OnePending
  <2>1. ASSUME NEW z \in PendingIn(approval)
        PROVE  z \in Run \X Call /\ z[1] = lease.gen /\ approval[z[1]][z[2]].status = "pending"
    <3>1. z \in Run \X Call /\ approval[z[1]][z[2]].status = "pending"
      BY DEF PendingIn
    <3>2. RowInv(z[1], z[2]) /\ z[1] \in Nat /\ lease.gen \in Nat
      BY <3>1, ConstantsOK DEF IInv, TypeOK, LeaseRow, Run
    <3> QED
      BY <3>1, <3>2 DEF RowInv
  <2>2. x[1] = y[1] /\ x[2] = y[2]
    BY <2>1 DEF AskInv, OneAsk
  <2> QED
    BY <2>1, <2>2
<1> QED
  BY <1>1, Invariance, AsksApart, PTL

\* A settled receipt and a decision are final, and an unknown outcome is only
\* resolved by a denial, whatever processes, clients and restarts do.
THEOREM Finality == Spec => SettledStays
<1> DEFINE Final(r, c) ==
        /\ receipt[r][c].status \in {"completed", "failed"} => receipt'[r][c] = receipt[r][c]
        /\ approval[r][c].decision # "none"
             => approval'[r][c].decision = approval[r][c].decision
        /\ receipt[r][c].status = "outcome_unknown"
             => \/ receipt'[r][c] = receipt[r][c]
                \/ receipt'[r][c].status = "failed" /\ approval[r][c].decision = "no"
<1>1. ASSUME IInv, IInv', AskInv, [Next]_vars, NEW r \in Run, NEW c \in Call PROVE Final(r, c)
  <2>1. receipt[r][c] \in ReceiptRow /\ receipt'[r][c] \in ReceiptRow
    BY <1>1 DEF IInv, TypeOK
  <2>2. ReceiptMoves(receipt[r][c], receipt'[r][c], approval[r][c])
          /\ receipt'[r][c].status = receipt[r][c].status => receipt'[r][c] = receipt[r][c]
    BY <2>1 DEF ReceiptMoves, ReceiptRow
  <2>3. /\ receipt[r][c].status \in {"completed", "failed"} => receipt'[r][c] = receipt[r][c]
        /\ receipt[r][c].status = "outcome_unknown"
             => \/ receipt'[r][c] = receipt[r][c]
                \/ receipt'[r][c].status = "failed" /\ approval[r][c].decision = "no"
    BY <1>1, <2>2, StepReceipt DEF ReceiptMoves, Uncertain, IInv
  <2>4. ASSUME NEW p \in Proc, RequestApproval(p), r = mine[p], c = cur[p].call
        PROVE  approval[r][c].decision = "none"
    <3>1. MyApproval(p).status = "none"
      BY <1>1, <2>4 DEF RequestApproval, IInv, CallInv, InCall
    <3> QED
      BY <1>1, <2>4, <3>1 DEF MyApproval, AskInv, OneAsk
  <2>5. approval[r][c].status = "pending" => approval[r][c].decision = "none"
    BY <1>1 DEF IInv, RowInv
  <2>6. approval[r][c].decision # "none" => approval'[r][c].decision = approval[r][c].decision
    <3>1. CASE ApprovalMoves(approval[r][c], approval'[r][c])
      BY <2>5, <3>1 DEF ApprovalMoves
    <3> QED
      BY <1>1, <2>4, <3>1, StepApproval DEF IInv
  <2> QED
    BY <2>3, <2>6
<1>2. IInv /\ IInv' /\ AskInv /\ [Next]_vars => [\A r \in Run, c \in Call : Final(r, c)]_vars
  BY <1>1
<1> QED
  BY <1>2, Invariance, AsksApart, PTL DEF Spec, SettledStays
=============================================================================

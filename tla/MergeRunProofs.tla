---------------------------- MODULE MergeRunProofs ----------------------------
(***************************************************************************)
(* Theorems about MergeRun, for any number of Cores, merge runs,           *)
(* workspaces, writers and conflicts, and any time limits.                 *)
(***************************************************************************)
EXTENDS MergeRun, TLAPS

-----------------------------------------------------------------------------
(***************************************************************************)
(* Type correctness.                                                       *)
(***************************************************************************)
\* Time runs down within the limits of a lease.
LEMMA OneLessType ==
    ASSUME NEW n \in Nat, NEW t \in 0..n
    PROVE  OneLess(t) \in 0..n
  BY DEF OneLess

\* The local variables of a call that has returned.
LEMMA BlankType == Blank \in Memory
  BY DEF Blank, Memory, Status

\* A call that returns leaves well-typed process state.
LEMMA ReturnType ==
    ASSUME TypeOK, NEW c \in Core, Return(c)
    PROVE  /\ pc' \in [Core -> Label]
           /\ mem' \in [Core -> Memory]
           /\ beating' \in [Core -> BOOLEAN]
  BY BlankType DEF TypeOK, Return, Goto, Label

\* The updates of single variables of a call keep its memory's type.
LEMMA MemoryFields ==
    ASSUME TypeOK, NEW c \in Core
    PROVE  /\ \A s \in Status : [mem EXCEPT ![c].next = s] \in [Core -> Memory]
           /\ \A T \in SUBSET Workspace : [mem EXCEPT ![c].todo = T] \in [Core -> Memory]
           /\ \A n \in Nat : [mem EXCEPT ![c].rev = n] \in [Core -> Memory]
<1>1. mem \in [Core -> Memory] /\ mem[c] \in Memory
  BY DEF TypeOK
<1>2. ASSUME NEW s \in Status PROVE [mem[c] EXCEPT !.next = s] \in Memory
  BY <1>1 DEF Memory
<1>3. ASSUME NEW T \in SUBSET Workspace PROVE [mem[c] EXCEPT !.todo = T] \in Memory
  BY <1>1 DEF Memory
<1>4. ASSUME NEW n \in Nat PROVE [mem[c] EXCEPT !.rev = n] \in Memory
  BY <1>1 DEF Memory
<1> QED
  BY <1>1, <1>2, <1>3, <1>4

\* What a call has in its memory.
LEMMA MemoryTypes ==
    ASSUME TypeOK, NEW c \in Core
    PROVE  /\ mem[c].m \in Merge \cup {Base} /\ mem[c].rev \in Nat
           /\ mem[c].status \in Status /\ mem[c].next \in Status
           /\ mem[c].todo \in SUBSET Workspace
  BY DEF TypeOK, Memory

\* The columns of a merge row.
LEMMA MergeColumns ==
    ASSUME TypeOK, NEW m \in Merge
    PROVE  /\ merge[m] \in MergeRow
           /\ merge[m].rev \in Nat /\ merge[m].status \in Status
           /\ merge[m].ttl \in 0..OwnerTTL
  BY DEF TypeOK, MergeRow

\* A row with columns of the right types is a merge row.
LEMMA MergeRowType ==
    ASSUME NEW s \in Status, NEW n \in Nat, NEW o \in Core \cup {Nobody},
           NEW t \in 0..OwnerTTL
    PROVE  [status |-> s, rev |-> n, owner |-> o, ttl |-> t] \in MergeRow
  BY DEF MergeRow

\* The updates of single columns of a merge run yield merge rows.
LEMMA MergeFields ==
    ASSUME NEW row \in MergeRow
    PROVE  /\ \A s \in Status : [row EXCEPT !.status = s] \in MergeRow
           /\ \A s \in Status : [row EXCEPT !.status = s, !.rev = @ + 1] \in MergeRow
           /\ \A t \in 0..OwnerTTL : [row EXCEPT !.ttl = t] \in MergeRow
<1>1. ASSUME NEW s \in Status PROVE [row EXCEPT !.status = s] \in MergeRow
  BY DEF MergeRow
<1>2. ASSUME NEW s \in Status PROVE [row EXCEPT !.status = s, !.rev = @ + 1] \in MergeRow
  <2>1. row.rev + 1 \in Nat
    BY DEF MergeRow
  <2> QED
    BY <2>1 DEF MergeRow
<1>3. ASSUME NEW t \in 0..OwnerTTL PROVE [row EXCEPT !.ttl = t] \in MergeRow
  BY DEF MergeRow
<1> QED
  BY <1>1, <1>2, <1>3

\* The updates of single columns of a writer lease yield lease rows.
LEMMA LeaseFields ==
    ASSUME NEW row \in LeaseRow
    PROVE  /\ \A t \in 0..WriterTTL : [row EXCEPT !.ttl = t] \in LeaseRow
           /\ \A t \in 0..WriterTTL : [row EXCEPT !.released = TRUE, !.ttl = t] \in LeaseRow
           /\ row.fencing \in 0..MaxFencing /\ row.ttl \in 0..WriterTTL
  BY DEF LeaseRow

\* What the adapter does to the target yields worktrees.
LEMMA WorktreeFields ==
    ASSUME TypeOK
    PROVE  /\ Unlock \in Worktree
           /\ \A c \in Core : [target EXCEPT !.lock = c] \in Worktree
           /\ \A b \in BOOLEAN : [target EXCEPT !.dirty = b] \in Worktree
           /\ \A m \in Merge \cup {Base} :
                [target EXCEPT !.head = m, !.dirty = FALSE] \in Worktree
  BY DEF TypeOK, Unlock, Worktree

\* Every step of writers, Cores, people and time keeps the rows, the target
\* and the process state of MergeRun within their types.
LEMMA TypeOKStep == TypeOK /\ [Next]_vars => TypeOK'
<1> SUFFICES ASSUME TypeOK, [Next]_vars PROVE TypeOK'
  OBVIOUS
<1> USE MergeConstants DEF leaseVars, procVars
<1>0. 0 \in 0..OwnerTTL /\ OwnerTTL \in 0..OwnerTTL /\ 0 \in 0..WriterTTL
      /\ WriterTTL \in 0..WriterTTL
  OBVIOUS
<1>a. ASSUME NEW c \in Core, Finalize(c) PROVE TypeOK'
  <2>1. CASE AssertLease(c)
    <3>1. CASE Return(c)
      BY <2>1, <3>1, ReturnType DEF AssertLease, TypeOK
    <3>2. CASE mem[c].todo = {} /\ Goto(c, "looking") /\ UNCHANGED <<mem, beating>>
      BY <2>1, <3>2 DEF AssertLease, TypeOK, Goto, Label
    <3>3. ASSUME NEW x \in mem[c].todo, mem' = [mem EXCEPT ![c].todo = @ \ {x}],
                 UNCHANGED <<pc, beating>>
          PROVE  TypeOK'
      <4>1. mem[c].todo \ {x} \in SUBSET Workspace
        BY MemoryTypes
      <4>2. mem' \in [Core -> Memory]
        BY <3>3, <4>1, MemoryFields
      <4> QED
        BY <2>1, <3>3, <4>2 DEF AssertLease, TypeOK
    <3> QED
      BY <2>1, <3>1, <3>2, <3>3 DEF AssertLease
  <2>2. CASE LookAtConflicts(c)
    <3>1. PICK approved \in BOOLEAN : LookAtConflicts(c)!2!(approved)
      BY <2>2 DEF LookAtConflicts
    <3>2. late' \in [Core -> SUBSET Overlap]
      BY <2>2 DEF LookAtConflicts, TypeOK
    <3>3. CASE WhatNext(mem[c].status, approved) = mem[c].status
      BY <2>2, <3>1, <3>2, <3>3, ReturnType DEF LookAtConflicts, TypeOK
    <3>4. CASE WhatNext(mem[c].status, approved) # mem[c].status
      <4>1. WhatNext(mem[c].status, approved) \in Status
        BY DEF WhatNext, Status, Claimable
      <4>2. mem' \in [Core -> Memory]
        <5>1. mem' = [mem EXCEPT ![c].next = WhatNext(mem[c].status, approved)]
          BY <3>1, <3>4
        <5>2. [mem EXCEPT ![c].next = WhatNext(mem[c].status, approved)] \in [Core -> Memory]
          BY <4>1, MemoryFields
        <5> QED
          BY <5>1, <5>2
      <4>3. pc' \in [Core -> Label]
        BY <3>1, <3>4 DEF Goto, Label, TypeOK
      <4> QED
        BY <2>2, <3>1, <3>2, <3>4, <4>2, <4>3 DEF LookAtConflicts, TypeOK
    <3> QED
      BY <3>1, <3>3, <3>4
  <2>3. CASE InsertMerge(c)
    <3>1. merge' \in [Merge -> MergeRow]
      BY <2>3, MemoryTypes, MergeFields DEF InsertMerge, TypeOK
    <3> QED
      BY <2>3, <3>1, ReturnType DEF InsertMerge, TypeOK
  <2>4. CASE NoteStatus(c)
    <3>0. [status |-> mem[c].next, rev |-> mem[c].rev + 1, owner |-> Nobody, ttl |-> 0]
            \in MergeRow
      <4>1. mem[c].rev + 1 \in Nat /\ mem[c].next \in Status
        BY MemoryTypes
      <4> QED
        BY <1>0, <4>1, MergeRowType
    <3>1. merge' \in [Merge -> MergeRow]
      BY <2>4, <3>0 DEF NoteStatus, TypeOK
    <3> QED
      BY <2>4, <3>1, ReturnType DEF NoteStatus, TypeOK
  <2>5. CASE Claim(c)
    <3>1. mem[c].rev \in Nat /\ mem[c].rev + 1 \in Nat
      BY MemoryTypes
    <3> DEFINE free == /\ Unmoved(c) /\ merge[mem[c].m].status \in Claimable
                       /\ \A k \in Merge : merge[k].status # "running"
    <3>2. CASE ~free
      BY <2>5, <3>2, ReturnType DEF Claim, TypeOK
    <3>3. CASE free
      <4>0. [status |-> "running", rev |-> mem[c].rev + 1, owner |-> c, ttl |-> OwnerTTL]
              \in MergeRow
        BY <1>0, <3>1, MergeRowType DEF Status
      <4>1. merge' \in [Merge -> MergeRow]
        BY <2>5, <3>3, <4>0 DEF Claim, TypeOK
      <4>2. mem' \in [Core -> Memory]
        <5>1. mem' = [mem EXCEPT ![c].rev = mem[c].rev + 1]
          BY <2>5, <3>3 DEF Claim
        <5>2. [mem EXCEPT ![c].rev = mem[c].rev + 1] \in [Core -> Memory]
          BY <3>1, MemoryFields
        <5> QED
          BY <5>1, <5>2
      <4> QED
        BY <2>5, <3>3, <4>1, <4>2 DEF Claim, TypeOK, Goto, Label, InAdapter
    <3> QED
      BY <3>2, <3>3
  <2>6. CASE VerifyFails(c)
    BY <2>6, WorktreeFields DEF VerifyFails, TypeOK, Goto, Label, InAdapter
  <2>7. CASE LockTarget(c)
    <3>0. target \in Worktree
      BY DEF TypeOK
    <3>1. target' \in Worktree
      BY <2>7, <3>0, WorktreeFields DEF LockTarget
    <3> QED
      BY <2>7, <3>1 DEF LockTarget, TypeOK, Goto, Label, InAdapter
  <2>8. CASE ApplyArtifacts(c)
    BY <2>8, WorktreeFields DEF ApplyArtifacts, TypeOK, Goto, Label, InAdapter
  <2>9. CASE MoveHead(c)
    <3>1. target' \in Worktree
      BY <2>9, MemoryTypes, WorktreeFields DEF MoveHead
    <3>2. landed' \in [Merge -> Nat]
      <4>1. CASE mem[c].m \in Merge
        <5>1. landed[mem[c].m] + 1 \in Nat
          BY <4>1 DEF TypeOK
        <5> QED
          BY <2>9, <5>1 DEF MoveHead, TypeOK
      <4>2. CASE mem[c].m \notin Merge
        BY <2>9, <4>2 DEF MoveHead, TypeOK
      <4> QED
        BY <4>1, <4>2
    <3> QED
      BY <2>9, <3>1, <3>2 DEF MoveHead, TypeOK, Goto, Label, InAdapter
  <2>10. CASE ApplyFails(c)
    <3>1. mem' \in [Core -> Memory] /\ target' \in Worktree
      BY <2>10, MemoryFields, WorktreeFields DEF ApplyFails, Unclear, Status
    <3> QED
      BY <2>10, <3>1 DEF ApplyFails, TypeOK, Goto, Label
  <2>11. CASE Merged(c)
    <3>1. mem' \in [Core -> Memory] /\ target' \in Worktree
      BY <2>11, MemoryFields, WorktreeFields DEF Merged, Status, Known
    <3> QED
      BY <2>11, <3>1 DEF Merged, TypeOK, Goto, Label
  <2>12. CASE Rollback(c)
    <3>1. mem' \in [Core -> Memory]
      BY <2>12, MemoryFields DEF Rollback, Status, Known
    <3> QED
      BY <2>12, <3>1 DEF Rollback, TypeOK, Goto, Label
  <2>13. CASE Complete(c)
    <3>0. [status |-> mem[c].next, rev |-> mem[c].rev + 1, owner |-> Nobody, ttl |-> 0]
            \in MergeRow
      <4>1. mem[c].rev + 1 \in Nat /\ mem[c].next \in Status
        BY MemoryTypes
      <4> QED
        BY <1>0, <4>1, MergeRowType
    <3>1. merge' \in [Merge -> MergeRow]
      BY <2>13, <3>0 DEF Complete, TypeOK
    <3>2. judge' \in [Merge -> {"none", "owner", "human"}]
      BY <2>13 DEF Complete, TypeOK
    <3> QED
      BY <2>13, <3>1, <3>2, ReturnType DEF Complete, TypeOK
  <2> QED
    BY <1>a, <2>1, <2>2, <2>3, <2>4, <2>5, <2>6, <2>7, <2>8, <2>9, <2>10, <2>11, <2>12, <2>13
    DEF Finalize
<1>b. ASSUME NEW c \in Core, Heartbeat(c) \/ Start(c) \/ Crash(c) PROVE TypeOK'
  <2>1. CASE Heartbeat(c)
    <3>1. merge' \in [Merge -> MergeRow]
      <4>1. CASE mem[c].m \in Merge
        <5>1. [merge[mem[c].m] EXCEPT !.ttl = OwnerTTL] \in MergeRow
          BY <1>0, <4>1, MergeColumns, MergeFields
        <5> QED
          BY <2>1, <5>1 DEF Heartbeat, TypeOK
      <4>2. CASE mem[c].m \notin Merge
        BY <2>1, <4>2 DEF Heartbeat, TypeOK
      <4> QED
        BY <4>1, <4>2
    <3> QED
      BY <2>1, <3>1 DEF Heartbeat, TypeOK
  <2>2. CASE Start(c)
    <3>1. merge' \in [Merge -> MergeRow]
      <4>1. ASSUME NEW m \in Merge
            PROVE  [status |-> "outcome_unknown", rev |-> merge[m].rev + 1, owner |-> Nobody,
                    ttl |-> 0] \in MergeRow
        <5>1. merge[m].rev + 1 \in Nat /\ "outcome_unknown" \in Status
          BY MergeColumns DEF Status
        <5> QED
          BY <1>0, <5>1, MergeRowType
      <4> QED
        BY <2>2, <4>1 DEF Start, TypeOK
    <3> QED
      BY <2>2, <3>1 DEF Start, TypeOK, Goto, Label
  <2>3. CASE Crash(c)
    BY <2>3, WorktreeFields, BlankType DEF Crash, TypeOK, Goto, Label
  <2> QED
    BY <1>b, <2>1, <2>2, <2>3
<1>c. ASSUME NEW c \in Core, NEW m \in Merge, Begin(c, m) PROVE TypeOK'
  <2>1. merge[m].rev \in Nat /\ merge[m].status \in Status
    BY MergeColumns
  <2>2. [x \in Workspace |-> lease[x].fencing] \in [Workspace -> Nat]
    BY DEF TypeOK, LeaseRow
  <2>3. mem'[c] \in Memory /\ mem' = [mem EXCEPT ![c] = mem'[c]]
    BY <1>c, <2>1, <2>2 DEF Begin, TypeOK, Memory, Status
  <2>4. mem' \in [Core -> Memory]
    BY <2>3 DEF TypeOK
  <2> QED
    BY <1>c, <2>4 DEF Begin, TypeOK, Goto, Label
<1>d. ASSUME NEW u \in Writer, NEW x \in Workspace,
             AcquireLease(u, x) \/ RenewLease(u, x) \/ ReleaseLease(u, x) \/ PublishArtifact(u, x)
      PROVE  TypeOK'
  <2>1. CASE AcquireLease(u, x)
    <3>1. NextFencing(x) \in 0..MaxFencing
      <4>1. lease[x].fencing \in 0..MaxFencing
        BY DEF TypeOK, LeaseRow
      <4> QED
        BY <2>1, <4>1 DEF AcquireLease, NextFencing
    <3>2. lease' \in [Workspace -> LeaseRow]
      BY <1>0, <2>1, <3>1 DEF AcquireLease, TypeOK, LeaseRow
    <3>3. held' \in [Writer -> [Workspace -> 0..MaxFencing]]
      BY <2>1, <3>1 DEF AcquireLease, TypeOK
    <3> QED
      BY <2>1, <3>2, <3>3 DEF AcquireLease, TypeOK
  <2>2. CASE RenewLease(u, x)
    <3>1. lease' \in [Workspace -> LeaseRow]
      BY <1>0, <2>2, LeaseFields DEF RenewLease, TypeOK
    <3> QED
      BY <2>2, <3>1 DEF RenewLease, TypeOK
  <2>3. CASE ReleaseLease(u, x)
    <3>1. lease' \in [Workspace -> LeaseRow]
      BY <1>0, <2>3, LeaseFields DEF ReleaseLease, TypeOK
    <3> QED
      BY <2>3, <3>1 DEF ReleaseLease, TypeOK
  <2>4. CASE PublishArtifact(u, x)
    BY <2>4 DEF PublishArtifact, TypeOK
  <2> QED
    BY <1>d, <2>1, <2>2, <2>3, <2>4
<1>e. ASSUME NEW p \in Overlap, DetectConflict(p) \/ ResolveConflict(p) PROVE TypeOK'
  BY <1>e DEF DetectConflict, ResolveConflict, Put, TypeOK
<1>f. ASSUME NEW m \in Merge, NEW status \in Known, Reconcile(m, status) PROVE TypeOK'
  <2>1. merge' \in [Merge -> MergeRow]
    <3>1. [merge[m] EXCEPT !.status = status, !.rev = @ + 1] \in MergeRow
      BY MergeColumns, MergeFields DEF Status
    <3> QED
      BY <1>f, <3>1 DEF Reconcile, TypeOK
  <2>2. judge' \in [Merge -> {"none", "owner", "human"}]
    BY <1>f DEF Reconcile, TypeOK
  <2> QED
    BY <1>f, <2>1, <2>2 DEF Reconcile, TypeOK
<1>g. CASE CleanTarget
  BY <1>g, WorktreeFields DEF CleanTarget, TypeOK
<1>h. CASE Tick
  <2>1. merge' \in [Merge -> MergeRow]
    <3>1. ASSUME NEW m \in Merge PROVE [merge[m] EXCEPT !.ttl = OneLess(@)] \in MergeRow
      BY OneLessType, MergeColumns, MergeFields
    <3> QED
      BY <1>h, <3>1 DEF Tick, TypeOK
  <2>2. lease' \in [Workspace -> LeaseRow]
    BY <1>h, OneLessType, LeaseFields DEF Tick, TypeOK
  <2> QED
    BY <1>h, <2>1, <2>2 DEF Tick, TypeOK
<1>i. CASE UNCHANGED vars
  BY <1>i DEF vars, TypeOK
<1> QED
  BY <1>a, <1>b, <1>c, <1>d, <1>e, <1>f, <1>g, <1>h, <1>i DEF Next

\* MergeRun is type correct.
THEOREM TypeCorrect == Spec => []TypeOK
<1>1. ASSUME Init PROVE TypeOK
  <2>1. merge \in [Merge -> MergeRow] /\ lease \in [Workspace -> LeaseRow] /\ target \in Worktree
    BY <1>1, MergeConstants DEF Init, MergeRow, LeaseRow, Worktree, Status
  <2>2. mem \in [Core -> Memory] /\ pc \in [Core -> Label]
    BY <1>1, BlankType DEF Init, Label
  <2> QED
    BY <1>1, <2>1, <2>2, MergeConstants DEF Init, TypeOK
<1> QED
  BY <1>1, TypeOKStep, PTL DEF Spec
-----------------------------------------------------------------------------
(***************************************************************************)
(* The inductive invariant.                                                *)
(***************************************************************************)
Before == {"asserting", "looking", "noting", "claiming"}
Busy == InAdapter \cup {"completing"}
Unclaimed == Claimable \cup {"none"}

\* A call that has begun is about a merge run.
InCall(c) == pc[c] \in Before \cup Busy \cup {"inserting"} => mem[c].m \in Merge

\* Whoever is past the lock holds it; the target is at its base while
\* artifacts are applied.
Locked(c) ==
    /\ pc[c] \in {"locked", "applying", "moved"} => target.lock = c
    /\ pc[c] = "applying" => target.head = Base

\* What a call read is still so, unless the revision has moved on; what it
\* will write before the claim leaves the merge run to be claimed.
ReadStill(c) ==
    /\ pc[c] \in Before =>
         /\ mem[c].status \in Unclaimed
         /\ mem[c].status # "none" =>
              \/ mem[c].rev < merge[mem[c].m].rev
              \/ mem[c].rev = merge[mem[c].m].rev /\ mem[c].status = merge[mem[c].m].status
    /\ pc[c] \in {"noting", "claiming"} => mem[c].status # "none"
    /\ pc[c] \in {"noting", "inserting"} => mem[c].next \in Claimable

\* A merge run in an adapter has been claimed and its owner has not judged.
Claimed(c) ==
    pc[c] \in Busy => merge[mem[c].m].status \notin Unclaimed /\ judge[mem[c].m] # "owner"

\* What a Core in the adapter knows about the target.
Landing(c) ==
    /\ pc[c] \in {"merging", "locked", "applying", "raised"} => landed[mem[c].m] = 0
    /\ pc[c] = "moved" => landed[mem[c].m] = 1
    /\ pc[c] = "completing" =>
         /\ mem[c].next \in Known \cup {"outcome_unknown"}
         /\ mem[c].next = "succeeded" => landed[mem[c].m] = 1
         /\ mem[c].next \in {"failed", "rolled_back"} => landed[mem[c].m] = 0

\* No two Cores are in the adapter for the same merge run.
Alone ==
    \A c, d \in Core : (pc[c] \in Busy /\ pc[d] \in Busy /\ mem[c].m = mem[d].m) => c = d

\* A merge run that was never claimed has touched nothing and was not judged.
Untouched ==
    \A m \in Merge : merge[m].status \in Unclaimed => landed[m] = 0 /\ judge[m] = "none"

\* The inductive invariant.  LandsOnce needs the lock and the base of the
\* Core that applies; RecordedTruthfully needs that a merge run is claimed
\* once, so that nobody moves HEAD for it after its owner has judged, and
\* that in turn needs what the revision says about the row that was read.
IInv ==
    /\ TypeOK
    /\ \A c \in Core : InCall(c) /\ Locked(c) /\ ReadStill(c) /\ Claimed(c) /\ Landing(c)
    /\ Alone /\ Untouched /\ LandsOnce /\ RecordedTruthfully

-----------------------------------------------------------------------------
(***************************************************************************)
(* The kinds of steps, and why each keeps the invariant.                   *)
(***************************************************************************)
Others(c) == \A d \in Core \ {c} : pc'[d] = pc[d] /\ mem'[d] = mem[d]
TargetKept(c) ==
    target'.head = target.head /\ \A d \in Core \ {c} : target.lock = d => target'.lock = d

\* The parts of the invariant speak of six variables only.
LEMMA Frame ==
    ASSUME IInv, TypeOK', UNCHANGED <<merge, target, pc, mem, landed, judge>>
    PROVE  IInv'
  BY DEF IInv, InCall, Locked, ReadStill, Claimed, Landing, Alone, Untouched, LandsOnce,
         RecordedTruthfully

\* A call that ends without a write: it returned, raised, was refused or died.
LEMMA Leaves ==
    ASSUME IInv, TypeOK', NEW c \in Core, Others(c), TargetKept(c), pc'[c] \in {"idle", "dead"},
           UNCHANGED <<merge, landed, judge>>
    PROVE  IInv'
<1>1. ASSUME NEW d \in Core
      PROVE  (InCall(d) /\ Locked(d) /\ ReadStill(d) /\ Claimed(d) /\ Landing(d))'
  <2>1. CASE d = c
    BY <2>1 DEF InCall, Locked, ReadStill, Claimed, Landing, Before, Busy, InAdapter
  <2>2. CASE d # c
    BY <2>2 DEF IInv, Others, TargetKept, InCall, Locked, ReadStill, Claimed, Landing
  <2> QED
    BY <2>1, <2>2
<1>2. Alone'
  BY DEF IInv, Alone, Others, Busy, InAdapter
<1>3. Untouched' /\ LandsOnce' /\ RecordedTruthfully'
  BY DEF IInv, Untouched, LandsOnce, RecordedTruthfully, TargetKept
<1> QED
  BY <1>1, <1>2, <1>3 DEF IInv

\* A step before the claim that only reads.
LEMMA Prepares ==
    ASSUME IInv, TypeOK', NEW c \in Core, Others(c), pc'[c] \in Before \cup {"inserting"},
           mem'[c].m \in Merge, ReadStill(c)', UNCHANGED <<merge, target, landed, judge>>
    PROVE  IInv'
<1>1. ASSUME NEW d \in Core
      PROVE  (InCall(d) /\ Locked(d) /\ ReadStill(d) /\ Claimed(d) /\ Landing(d))'
  <2>1. CASE d = c
    BY <2>1 DEF InCall, Locked, Claimed, Landing, Before, Busy, InAdapter
  <2>2. CASE d # c
    BY <2>2 DEF IInv, Others, InCall, Locked, ReadStill, Claimed, Landing
  <2> QED
    BY <2>1, <2>2
<1>2. Alone'
  BY DEF IInv, Alone, Others, Before, Busy, InAdapter
<1>3. Untouched' /\ LandsOnce' /\ RecordedTruthfully'
  BY DEF IInv, Untouched, LandsOnce, RecordedTruthfully
<1> QED
  BY <1>1, <1>2, <1>3 DEF IInv

\* A step within the adapter that does not move HEAD.
LEMMA Within ==
    ASSUME IInv, TypeOK', NEW c \in Core, Others(c), TargetKept(c),
           pc[c] \in Busy, pc'[c] \in Busy, mem'[c].m = mem[c].m, Locked(c)', Landing(c)',
           UNCHANGED <<merge, landed, judge>>
    PROVE  IInv'
<1>1. ASSUME NEW d \in Core
      PROVE  (InCall(d) /\ Locked(d) /\ ReadStill(d) /\ Claimed(d) /\ Landing(d))'
  <2>1. CASE d = c
    BY <2>1 DEF IInv, InCall, ReadStill, Claimed, Before, Busy, InAdapter
  <2>2. CASE d # c
    BY <2>2 DEF IInv, Others, TargetKept, InCall, Locked, ReadStill, Claimed, Landing
  <2> QED
    BY <2>1, <2>2
<1>2. Alone'
  BY DEF IInv, Alone, Others
<1>3. Untouched' /\ LandsOnce' /\ RecordedTruthfully'
  BY DEF IInv, Untouched, LandsOnce, RecordedTruthfully, TargetKept
<1> QED
  BY <1>1, <1>2, <1>3 DEF IInv

\* What may happen to a row: nothing; it is inserted; it is noted as
\* conflicted or in need of a review; or it is closed.
Same(m) ==
    merge'[m].status = merge[m].status /\ merge'[m].rev = merge[m].rev /\ judge'[m] = judge[m]
Inserted(m) ==
    /\ merge[m].status = "none" /\ merge'[m].status \in Claimable
    /\ merge'[m].rev = merge[m].rev /\ judge'[m] = judge[m]
Noted(m) ==
    /\ merge[m].status \in Claimable /\ merge'[m].status \in Claimable
    /\ merge[m].rev < merge'[m].rev /\ judge'[m] = judge[m]
Closed(m) ==
    /\ merge[m].status \notin Unclaimed /\ merge'[m].status \notin Unclaimed
    /\ merge[m].rev < merge'[m].rev
    /\ \/ judge'[m] = judge[m] /\ merge'[m].status = "outcome_unknown"
       \/ judge'[m] = "human"
       \/ /\ judge'[m] = "owner"
          /\ merge'[m].status = "succeeded" => landed[m] = 1
          /\ merge'[m].status \in {"failed", "rolled_back"} => landed[m] = 0
          /\ \A d \in Core : pc'[d] \in Busy => mem'[d].m # m

\* A write of rows; the calls go on or have ended.
LEMMA Writes ==
    ASSUME IInv, TypeOK', UNCHANGED <<target, landed>>,
           \A d \in Core : (pc'[d] = pc[d] /\ mem'[d] = mem[d]) \/ pc'[d] = "idle",
           \A m \in Merge : Same(m) \/ Inserted(m) \/ Noted(m) \/ Closed(m)
    PROVE  IInv'
<1>0. \A m \in Merge : merge[m].rev \in Nat /\ merge'[m].rev \in Nat
  BY DEF IInv, TypeOK, MergeRow
<1>1. ASSUME NEW d \in Core
      PROVE  (InCall(d) /\ Locked(d) /\ ReadStill(d) /\ Claimed(d) /\ Landing(d))'
  <2>1. CASE pc'[d] = "idle"
    BY <2>1 DEF InCall, Locked, ReadStill, Claimed, Landing, Before, Busy, InAdapter
  <2>2. CASE pc'[d] = pc[d] /\ mem'[d] = mem[d]
    <3>1. (InCall(d) /\ Locked(d) /\ Landing(d))'
      BY <2>2 DEF IInv, InCall, Locked, Landing
    <3>2. ReadStill(d)'
      <4>1. mem[d].rev \in Nat
        BY DEF IInv, TypeOK, Memory
      <4>2. CASE pc[d] \in Before
        <5>1. mem[d].m \in Merge
          BY <4>2 DEF IInv, InCall
        <5>2. Same(mem[d].m) \/ Inserted(mem[d].m) \/ merge[mem[d].m].rev < merge'[mem[d].m].rev
          BY <5>1 DEF Noted, Closed
        <5> QED
          BY <1>0, <2>2, <4>1, <4>2, <5>1, <5>2
          DEF IInv, ReadStill, Same, Inserted, Unclaimed, Claimable
      <4>3. CASE pc[d] \notin Before
        BY <2>2, <4>3 DEF IInv, ReadStill, Before
      <4> QED
        BY <4>2, <4>3
    <3>3. Claimed(d)'
      BY <2>2 DEF IInv, InCall, Claimed, Same, Inserted, Noted, Closed, Unclaimed
    <3> QED
      BY <3>1, <3>2, <3>3
  <2> QED
    BY <2>1, <2>2
<1>2. Alone'
  BY DEF IInv, Alone, Busy, InAdapter
<1>3. LandsOnce'
  BY DEF IInv, LandsOnce
<1>4. Untouched'
  BY DEF IInv, Untouched, Same, Inserted, Noted, Closed, Unclaimed
<1>5. RecordedTruthfully'
  BY <1>4 DEF IInv, Untouched, RecordedTruthfully, Same, Inserted, Noted, Closed, Unclaimed,
              Claimable
<1> QED
  BY <1>1, <1>2, <1>3, <1>4, <1>5 DEF IInv
\* Steps before the claim: requests, leases, conflicts, insert and note.
LEMMA PreparationStep ==
    ASSUME IInv, TypeOK', NEW c \in Core,
           \/ \E m \in Merge : Begin(c, m)
           \/ AssertLease(c) \/ LookAtConflicts(c) \/ InsertMerge(c) \/ NoteStatus(c)
    PROVE  IInv'
<1> USE MergeConstants DEF leaseVars, procVars
<1>0. pc \in [Core -> Label] /\ mem \in [Core -> Memory] /\ mem[c] \in Memory
  BY DEF IInv, TypeOK
<1>1. ASSUME NEW m \in Merge, Begin(c, m) PROVE IInv'
  <2>1. Others(c) /\ pc'[c] = "asserting"
    BY <1>0, <1>1 DEF Begin, Goto, Others
  <2>2. /\ mem'[c].m = m /\ mem'[c].rev = merge[m].rev /\ mem'[c].status = merge[m].status
        /\ merge[m].status \in Unclaimed
    BY <1>0, <1>1 DEF Begin, Unclaimed
  <2>3. ReadStill(c)'
    BY <1>1, <2>1, <2>2 DEF Begin, ReadStill, Before
  <2> QED
    BY <1>1, <2>1, <2>2, <2>3, Prepares DEF Begin, Before
<1>2. CASE AssertLease(c)
  <2>0. mem[c].m \in Merge /\ ReadStill(c)
    BY <1>2 DEF IInv, InCall, AssertLease, Before
  <2>1. CASE Return(c)
    BY <1>0, <1>2, <2>1, Leaves DEF AssertLease, Return, Goto, Others, TargetKept
  <2>2. CASE Goto(c, "looking") /\ UNCHANGED <<mem, beating>>
    <3>1. Others(c) /\ pc'[c] = "looking" /\ mem'[c] = mem[c] /\ UNCHANGED merge
      BY <1>0, <1>2, <2>2 DEF Goto, Others, AssertLease
    <3>2. ReadStill(c)'
      BY <1>2, <2>0, <3>1 DEF ReadStill, Before, AssertLease
    <3> QED
      BY <1>2, <2>0, <3>1, <3>2, Prepares DEF Before, AssertLease
  <2>3. ASSUME NEW x \in mem[c].todo, mem' = [mem EXCEPT ![c].todo = @ \ {x}],
               UNCHANGED <<pc, beating>>
        PROVE  IInv'
    <3>1. /\ Others(c) /\ pc'[c] = "asserting" /\ mem'[c].m = mem[c].m
          /\ mem'[c].rev = mem[c].rev /\ mem'[c].status = mem[c].status /\ UNCHANGED merge
      BY <1>0, <1>2, <2>3 DEF Others, AssertLease, Memory
    <3>2. ReadStill(c)'
      BY <1>2, <2>0, <3>1 DEF ReadStill, Before, AssertLease
    <3> QED
      BY <1>2, <2>0, <3>1, <3>2, Prepares DEF Before, AssertLease
  <2> QED
    BY <1>2, <2>1, <2>2, <2>3 DEF AssertLease
<1>3. CASE LookAtConflicts(c)
  <2>0. mem[c].m \in Merge /\ ReadStill(c) /\ pc[c] = "looking" /\ mem[c].status \in Unclaimed
    BY <1>3 DEF IInv, InCall, ReadStill, LookAtConflicts, Before
  <2>1. PICK approved \in BOOLEAN : LookAtConflicts(c)!2!(approved)
    BY <1>3 DEF LookAtConflicts
  <2> DEFINE next == WhatNext(mem[c].status, approved)
  <2>2. CASE next = mem[c].status
    <3>1. Return(c)
      BY <2>1, <2>2
    <3> QED
      BY <1>0, <1>3, <3>1, Leaves DEF LookAtConflicts, Return, Goto, Others, TargetKept
  <2>3. CASE next # mem[c].status
    <3>1. /\ Others(c) /\ mem'[c].m = mem[c].m /\ mem'[c].rev = mem[c].rev
          /\ mem'[c].status = mem[c].status /\ mem'[c].next = next
      BY <1>0, <2>1, <2>3 DEF Others, Goto, Memory
    <3>2. \/ pc'[c] = "inserting" /\ mem[c].status = "none"
          \/ pc'[c] = "claiming" /\ mem[c].status # "none"
          \/ pc'[c] = "noting" /\ mem[c].status # "none" /\ next # "running"
      BY <1>0, <2>1, <2>3 DEF Goto
    <3>3. mem[c].status = "none" \/ next # "running" => next \in Claimable
      BY DEF WhatNext, Claimable
    <3>4. UNCHANGED merge
      BY <1>3 DEF LookAtConflicts
    <3>5. ReadStill(c)'
      BY <2>0, <3>1, <3>2, <3>3, <3>4 DEF ReadStill, Before
    <3> QED
      BY <1>3, <2>0, <3>1, <3>2, <3>5, Prepares DEF LookAtConflicts, Before
  <2> QED
    BY <2>2, <2>3
<1>4. CASE InsertMerge(c)
  <2>0. mem[c].m \in Merge /\ mem[c].next \in Claimable
    BY <1>4 DEF IInv, InCall, ReadStill, InsertMerge
  <2>1. \A d \in Core : (pc'[d] = pc[d] /\ mem'[d] = mem[d]) \/ pc'[d] = "idle"
    BY <1>0, <1>4 DEF InsertMerge, Return, Goto
  <2>2. ASSUME NEW k \in Merge PROVE Same(k) \/ Inserted(k)
    BY <1>4, <2>0 DEF IInv, TypeOK, MergeRow, InsertMerge, Same, Inserted
  <2> QED
    BY <1>4, <2>1, <2>2, Writes DEF InsertMerge
<1>5. CASE NoteStatus(c)
  <2>0. mem[c].m \in Merge /\ mem[c].next \in Claimable /\ mem[c].rev \in Nat
    BY <1>0, <1>5 DEF IInv, InCall, ReadStill, NoteStatus, Before, Memory
  <2>1. \A d \in Core : (pc'[d] = pc[d] /\ mem'[d] = mem[d]) \/ pc'[d] = "idle"
    BY <1>0, <1>5 DEF NoteStatus, Return, Goto
  <2>2. CASE Unmoved(c)
    <3>1. merge[mem[c].m].status \in Claimable
      BY <1>5, <2>0, <2>2 DEF IInv, ReadStill, NoteStatus, Before, Unmoved, Unclaimed
    <3>2. /\ merge'[mem[c].m].status = mem[c].next
          /\ merge'[mem[c].m].rev = merge[mem[c].m].rev + 1 /\ UNCHANGED judge
      BY <1>5, <2>0, <2>2 DEF IInv, TypeOK, NoteStatus, Unmoved
    <3>3. Noted(mem[c].m)
      BY <2>0, <2>2, <3>1, <3>2 DEF Noted, Unmoved
    <3>4. ASSUME NEW k \in Merge, k # mem[c].m PROVE Same(k)
      BY <1>5, <2>0, <2>2, <3>4 DEF IInv, TypeOK, NoteStatus, Same
    <3> QED
      BY <1>5, <2>1, <3>3, <3>4, Writes DEF NoteStatus
  <2>3. CASE ~Unmoved(c)
    <3>1. \A k \in Merge : Same(k)
      BY <1>5, <2>3 DEF NoteStatus, Same
    <3> QED
      BY <1>5, <2>1, <3>1, Writes DEF NoteStatus
  <2> QED
    BY <2>2, <2>3
<1> QED
  BY <1>1, <1>2, <1>3, <1>4, <1>5

\* The claim: of all that read the row at this revision, one Core gets it.
LEMMA ClaimStep ==
    ASSUME IInv, TypeOK', NEW c \in Core, Claim(c)
    PROVE  IInv'
<1> DEFINE m == mem[c].m
<1> DEFINE free == /\ Unmoved(c) /\ merge[m].status \in Claimable
                   /\ \A k \in Merge : merge[k].status # "running"
<1> USE MergeConstants DEF leaseVars, procVars
<1>0. /\ pc \in [Core -> Label] /\ mem \in [Core -> Memory] /\ mem[c] \in Memory
      /\ merge \in [Merge -> MergeRow] /\ \A k \in Merge : merge[k].rev \in Nat
  BY DEF IInv, TypeOK, MergeRow
<1>1. m \in Merge /\ mem[c].rev \in Nat /\ pc[c] = "claiming"
  BY <1>0 DEF IInv, InCall, Claim, Before, Memory
<1>2. UNCHANGED <<target, landed, judge>>
  BY DEF Claim
<1>3. CASE ~free
  <2>1. Return(c) /\ UNCHANGED merge
    BY <1>3 DEF Claim
  <2> QED
    BY <1>0, <1>2, <2>1, Leaves DEF Return, Goto, Others, TargetKept
<1>4. CASE free
  <2>1. /\ Others(c) /\ pc'[c] = "merging" /\ mem'[c].m = m
        /\ \A k \in Merge \ {m} : merge'[k] = merge[k]
        /\ merge'[m].status = "running" /\ merge'[m].rev = merge[m].rev + 1
    BY <1>0, <1>1, <1>4 DEF Claim, Goto, Others, Unmoved, Memory
  <2>2. landed[m] = 0 /\ judge[m] = "none" /\ merge[m].status \in Unclaimed
    BY <1>1, <1>4 DEF IInv, Untouched, Unclaimed
  <2>3. ASSUME NEW d \in Core, pc[d] \in Busy PROVE d # c /\ mem[d].m \in Merge \ {m}
    BY <1>1, <2>2, <2>3 DEF IInv, InCall, Claimed, Busy, InAdapter
  <2>4. ASSUME NEW d \in Core
        PROVE  (InCall(d) /\ Locked(d) /\ ReadStill(d) /\ Claimed(d) /\ Landing(d))'
    <3>1. CASE d = c
      BY <1>1, <1>2, <2>1, <2>2, <3>1
      DEF InCall, Locked, ReadStill, Claimed, Landing, Before, Busy, InAdapter, Unclaimed, Claimable
    <3>2. CASE d # c
      <4>1. pc'[d] = pc[d] /\ mem'[d] = mem[d]
        BY <2>1, <3>2 DEF Others
      <4>2. (InCall(d) /\ Locked(d) /\ Landing(d))'
        BY <1>2, <4>1 DEF IInv, InCall, Locked, Landing
      <4>3. Claimed(d)'
        BY <1>2, <2>1, <2>3, <4>1 DEF IInv, Claimed
      <4>4. ReadStill(d)'
        <5>1. mem[d].rev \in Nat
          BY <1>0 DEF Memory
        <5>2. CASE pc[d] \in Before
          <6>1. mem[d].m \in Merge
            BY <5>2 DEF IInv, InCall
          <6> QED
            BY <1>0, <2>1, <4>1, <5>1, <5>2, <6>1 DEF IInv, ReadStill
        <5>3. CASE pc[d] \notin Before
          BY <4>1, <5>3 DEF IInv, ReadStill, Before
        <5> QED
          BY <5>2, <5>3
      <4> QED
        BY <4>2, <4>3, <4>4
    <3> QED
      BY <3>1, <3>2
  <2>5. Alone'
    BY <2>1, <2>3 DEF IInv, Alone, Others
  <2>6. Untouched' /\ LandsOnce' /\ RecordedTruthfully'
    BY <1>1, <1>2, <2>1, <2>2
    DEF IInv, Untouched, LandsOnce, RecordedTruthfully, Unclaimed, Claimable
  <2> QED
    BY <2>4, <2>5, <2>6 DEF IInv
<1> QED
  BY <1>3, <1>4

\* Steps inside the adapter other than the one that moves HEAD.
LEMMA AdapterStep ==
    ASSUME IInv, TypeOK', NEW c \in Core,
           \/ VerifyFails(c) \/ LockTarget(c) \/ ApplyArtifacts(c) \/ ApplyFails(c)
           \/ Merged(c) \/ Rollback(c)
    PROVE  IInv'
<1> USE MergeConstants DEF leaseVars, procVars
<1>0. /\ pc \in [Core -> Label] /\ mem \in [Core -> Memory] /\ mem[c] \in Memory
      /\ target \in Worktree
  BY DEF IInv, TypeOK
<1>1. Locked(c) /\ Landing(c) /\ Unlock.head = target.head /\ Unlock.lock = Nobody
  BY <1>0 DEF IInv, Unlock, Worktree
<1>2. UNCHANGED <<merge, landed, judge>>
  BY DEF VerifyFails, LockTarget, ApplyArtifacts, ApplyFails, Merged, Rollback
<1>3. CASE VerifyFails(c)
  <2>1. Others(c) /\ pc'[c] = "raised" /\ mem'[c] = mem[c]
    BY <1>0, <1>3 DEF VerifyFails, Goto, Others
  <2>2. TargetKept(c)
    BY <1>1, <1>3 DEF VerifyFails, TargetKept, Locked
  <2>3. Locked(c)' /\ Landing(c)'
    BY <1>1, <1>2, <1>3, <2>1 DEF VerifyFails, Locked, Landing
  <2> QED
    BY <1>2, <1>3, <2>1, <2>2, <2>3, Within DEF VerifyFails, Busy, InAdapter
<1>4. CASE LockTarget(c)
  <2>1. Others(c) /\ pc'[c] \in {"locked", "raised"} /\ mem'[c] = mem[c]
    BY <1>0, <1>4 DEF LockTarget, Goto, Others
  <2>2. TargetKept(c) /\ (pc'[c] = "locked" => target'.lock = c)
    BY <1>0, <1>4 DEF LockTarget, TargetKept, Worktree, Goto
  <2>3. Locked(c)' /\ Landing(c)'
    BY <1>1, <1>2, <1>4, <2>1, <2>2 DEF LockTarget, Locked, Landing
  <2> QED
    BY <1>2, <1>4, <2>1, <2>2, <2>3, Within DEF LockTarget, Busy, InAdapter
<1>5. CASE ApplyArtifacts(c)
  <2>1. /\ Others(c) /\ pc'[c] \in {"applying", "raised"} /\ mem'[c] = mem[c]
    BY <1>0, <1>5 DEF ApplyArtifacts, Goto, Others
  <2>2. TargetKept(c) /\ (pc'[c] = "applying" => target'.lock = c /\ target'.head = Base)
    BY <1>0, <1>1, <1>5 DEF ApplyArtifacts, TargetKept, TargetReady, Worktree, Goto, Locked
  <2>3. Locked(c)' /\ Landing(c)'
    BY <1>1, <1>2, <1>5, <2>1, <2>2 DEF ApplyArtifacts, Locked, Landing
  <2> QED
    BY <1>2, <1>5, <2>1, <2>2, <2>3, Within DEF ApplyArtifacts, Busy, InAdapter
<1>6. CASE ApplyFails(c)
  <2>1. /\ Others(c) /\ pc'[c] = "completing" /\ mem'[c].m = mem[c].m
        /\ mem'[c].next = "outcome_unknown"
    BY <1>0, <1>6 DEF ApplyFails, Goto, Others, Memory, Unclear
  <2>2. TargetKept(c)
    BY <1>1, <1>6 DEF ApplyFails, TargetKept, Locked
  <2>3. Locked(c)' /\ Landing(c)'
    BY <2>1 DEF Locked, Landing
  <2> QED
    BY <1>2, <1>6, <2>1, <2>2, <2>3, Within DEF ApplyFails, Busy, InAdapter
<1>7. CASE Merged(c)
  <2>1. /\ Others(c) /\ pc'[c] = "completing" /\ mem'[c].m = mem[c].m
        /\ mem'[c].next = "succeeded"
    BY <1>0, <1>7 DEF Merged, Goto, Others, Memory
  <2>2. TargetKept(c)
    BY <1>1, <1>7 DEF Merged, TargetKept, Locked
  <2>3. Locked(c)' /\ Landing(c)'
    BY <1>1, <1>2, <1>7, <2>1 DEF Merged, Locked, Landing, Known
  <2> QED
    BY <1>2, <1>7, <2>1, <2>2, <2>3, Within DEF Merged, Busy, InAdapter
<1>8. CASE Rollback(c)
  <2>1. /\ Others(c) /\ pc'[c] = "completing" /\ mem'[c].m = mem[c].m
        /\ mem'[c].next \in {"rolled_back", "failed"}
    BY <1>0, <1>8 DEF Rollback, Goto, Others, Memory
  <2>2. TargetKept(c)
    BY <1>8 DEF Rollback, TargetKept
  <2>3. Locked(c)' /\ Landing(c)'
    BY <1>1, <1>2, <1>8, <2>1 DEF Rollback, Locked, Landing, Known
  <2> QED
    BY <1>2, <1>8, <2>1, <2>2, <2>3, Within DEF Rollback, Busy, InAdapter
<1> QED
  BY <1>3, <1>4, <1>5, <1>6, <1>7, <1>8

\* HEAD moves: the Core holds the lock, the target is at its base, and nobody
\* else is in the adapter for this merge run.
LEMMA MoveHeadStep ==
    ASSUME IInv, TypeOK', NEW c \in Core, MoveHead(c)
    PROVE  IInv'
<1> DEFINE m == mem[c].m
<1> USE MergeConstants DEF leaseVars, procVars
<1>0. /\ pc \in [Core -> Label] /\ target \in Worktree /\ landed \in [Merge -> Nat]
  BY DEF IInv, TypeOK
<1>1. /\ m \in Merge /\ pc[c] = "applying" /\ target.lock = c /\ target.head = Base
      /\ landed[m] = 0 /\ merge[m].status \notin Unclaimed /\ judge[m] # "owner"
  BY DEF MoveHead, IInv, InCall, Locked, Claimed, Landing, Busy, InAdapter
<1>2. /\ pc'[c] = "moved" /\ \A d \in Core \ {c} : pc'[d] = pc[d]
      /\ UNCHANGED <<merge, mem, judge>>
      /\ landed'[m] = 1 /\ \A k \in Merge \ {m} : landed'[k] = landed[k]
      /\ target'.head = m /\ target'.lock = c
  BY <1>0, <1>1 DEF MoveHead, Goto, Worktree
<1>3. ASSUME NEW d \in Core
      PROVE  (InCall(d) /\ Locked(d) /\ ReadStill(d) /\ Claimed(d) /\ Landing(d))'
  <2>1. CASE d = c
    BY <1>1, <1>2, <2>1
    DEF InCall, Locked, ReadStill, Claimed, Landing, Before, Busy, InAdapter
  <2>2. CASE d # c
    <3>1. pc'[d] = pc[d] /\ mem'[d] = mem[d]
      BY <1>2, <2>2
    <3>2. pc[d] \notin {"locked", "applying", "moved"}
      BY <1>1, <2>2 DEF IInv, Locked
    <3>3. Locked(d)'
      BY <3>1, <3>2 DEF Locked
    <3>4. pc[d] \in Busy => mem[d].m \in Merge \ {m}
      BY <1>1, <2>2 DEF IInv, Alone, InCall, Busy, InAdapter
    <3>5. Landing(d)'
      BY <1>2, <3>1, <3>4 DEF IInv, Landing, Busy, InAdapter
    <3>6. (InCall(d) /\ ReadStill(d) /\ Claimed(d))'
      BY <1>2, <3>1 DEF IInv, InCall, ReadStill, Claimed
    <3> QED
      BY <3>3, <3>5, <3>6
  <2> QED
    BY <2>1, <2>2
<1>4. Alone'
  BY <1>1, <1>2 DEF IInv, Alone, Busy, InAdapter
<1>5. Untouched'
  BY <1>1, <1>2 DEF IInv, Untouched
<1>6. LandsOnce'
  BY <1>1, <1>2 DEF IInv, LandsOnce
<1>7. RecordedTruthfully'
  BY <1>1, <1>2 DEF IInv, RecordedTruthfully, Unclaimed
<1> QED
  BY <1>3, <1>4, <1>5, <1>6, <1>7 DEF IInv

\* The steps that write rows once a merge run was claimed.
LEMMA RowStep ==
    ASSUME IInv, TypeOK',
           \/ \E c \in Core : Complete(c) \/ Heartbeat(c) \/ Start(c)
           \/ \E m \in Merge, status \in Known : Reconcile(m, status)
           \/ Tick
    PROVE  IInv'
<1> USE MergeConstants DEF leaseVars, procVars
<1>0. /\ pc \in [Core -> Label] /\ mem \in [Core -> Memory] /\ merge \in [Merge -> MergeRow]
      /\ judge \in [Merge -> {"none", "owner", "human"}]
      /\ \A k \in Merge : merge[k].rev \in Nat
  BY DEF IInv, TypeOK, MergeRow
<1>1. ASSUME NEW c \in Core, Complete(c) PROVE IInv'
  <2> DEFINE m == mem[c].m
  <2>0. m \in Merge /\ Landing(c) /\ pc[c] = "completing"
    BY <1>1 DEF IInv, InCall, Complete, Busy
  <2>1. /\ \A d \in Core : (pc'[d] = pc[d] /\ mem'[d] = mem[d]) \/ pc'[d] = "idle"
        /\ pc'[c] = "idle"
    BY <1>0, <1>1 DEF Complete, Return, Goto
  <2>2. CASE Owned(c)
    <3>1. /\ merge'[m].status = mem[c].next /\ merge'[m].rev = merge[m].rev + 1
          /\ judge'[m] = "owner" /\ merge[m].status = "running"
          /\ \A k \in Merge \ {m} : Same(k)
      BY <1>0, <1>1, <2>0, <2>2 DEF Complete, Owned, Same
    <3>2. \A d \in Core : pc'[d] \in Busy => mem'[d].m # m
      BY <2>0, <2>1 DEF IInv, Alone, Busy, InAdapter
    <3>3. merge[m].status \notin Unclaimed /\ merge'[m].status \notin Unclaimed
      BY <2>0, <3>1 DEF Landing, Unclaimed, Claimable, Known
    <3>4. Closed(m)
      BY <1>0, <2>0, <3>1, <3>2, <3>3 DEF Closed, Landing
    <3> QED
      BY <1>1, <2>1, <3>1, <3>4, Writes DEF Complete
  <2>3. CASE ~Owned(c)
    <3>1. \A k \in Merge : Same(k)
      BY <1>1, <2>3 DEF Complete, Same
    <3> QED
      BY <1>1, <2>1, <3>1, Writes DEF Complete
  <2> QED
    BY <2>2, <2>3
<1>2. ASSUME NEW c \in Core, Heartbeat(c) PROVE IInv'
  <2>1. \A k \in Merge : Same(k)
    BY <1>0, <1>2 DEF Heartbeat, Same, MergeRow
  <2> QED
    BY <1>2, <2>1, Writes DEF Heartbeat
<1>3. ASSUME NEW c \in Core, Start(c) PROVE IInv'
  <2>1. \A d \in Core : (pc'[d] = pc[d] /\ mem'[d] = mem[d]) \/ pc'[d] = "idle"
    BY <1>0, <1>3 DEF Start, Goto
  <2>2. ASSUME NEW k \in Merge PROVE Same(k) \/ Closed(k)
    BY <1>0, <1>3 DEF Start, Same, Closed, Lost, Unclaimed, Claimable
  <2> QED
    BY <1>3, <2>1, <2>2, Writes DEF Start
<1>4. ASSUME NEW m \in Merge, NEW status \in Known, Reconcile(m, status) PROVE IInv'
  <2>1. /\ merge'[m].status = status /\ merge'[m].rev = merge[m].rev + 1
        /\ judge'[m] = "human" /\ merge[m].status = "outcome_unknown"
    BY <1>0, <1>4 DEF Reconcile, MergeRow
  <2>2. Closed(m)
    BY <1>0, <2>1 DEF Closed, Unclaimed, Claimable, Known
  <2>3. ASSUME NEW k \in Merge, k # m PROVE Same(k)
    BY <1>0, <1>4, <2>3 DEF Reconcile, Same
  <2> QED
    BY <1>4, <2>2, <2>3, Writes DEF Reconcile
<1>5. CASE Tick
  <2>1. \A k \in Merge : Same(k)
    BY <1>0, <1>5 DEF Tick, Same, MergeRow
  <2> QED
    BY <1>5, <2>1, Writes DEF Tick
<1> QED
  BY <1>1, <1>2, <1>3, <1>4, <1>5

\* Every step keeps the inductive invariant.
LEMMA IInvStep == IInv /\ [Next]_vars => IInv'
<1> SUFFICES ASSUME IInv, [Next]_vars PROVE IInv'
  OBVIOUS
<1> USE DEF leaseVars, procVars
<1>0. TypeOK'
  BY TypeOKStep DEF IInv
<1>1. ASSUME NEW c \in Core, Finalize(c) PROVE IInv'
  BY <1>0, <1>1, PreparationStep, ClaimStep, AdapterStep, MoveHeadStep, RowStep DEF Finalize
<1>2. ASSUME NEW c \in Core, Heartbeat(c) \/ Start(c) PROVE IInv'
  BY <1>0, <1>2, RowStep
<1>3. ASSUME NEW c \in Core, Crash(c) PROVE IInv'
  <2>1. Others(c) /\ pc'[c] = "dead" /\ UNCHANGED <<merge, landed, judge>>
    BY <1>3 DEF IInv, TypeOK, Crash, Goto, Others
  <2>2. TargetKept(c)
    BY <1>3 DEF IInv, TypeOK, Worktree, Crash, Unlock, TargetKept
  <2> QED
    BY <1>0, <2>1, <2>2, Leaves
<1>4. ASSUME NEW c \in Core, NEW m \in Merge, Begin(c, m) PROVE IInv'
  BY <1>0, <1>4, PreparationStep
<1>5. ASSUME NEW u \in Writer, NEW x \in Workspace,
             AcquireLease(u, x) \/ RenewLease(u, x) \/ ReleaseLease(u, x) \/ PublishArtifact(u, x)
      PROVE  IInv'
  BY <1>0, <1>5, Frame DEF AcquireLease, RenewLease, ReleaseLease, PublishArtifact
<1>6. ASSUME NEW p \in Overlap, DetectConflict(p) \/ ResolveConflict(p) PROVE IInv'
  BY <1>0, <1>6, Frame DEF DetectConflict, ResolveConflict
<1>7. ASSUME NEW m \in Merge, NEW status \in Known, Reconcile(m, status) PROVE IInv'
  BY <1>0, <1>7, RowStep
<1>8. CASE CleanTarget
  <2>1. target'.head = target.head /\ target'.lock = target.lock
        /\ UNCHANGED <<merge, pc, mem, landed, judge>>
    BY <1>8 DEF CleanTarget, IInv, TypeOK, Worktree
  <2> QED
    BY <1>0, <2>1 DEF IInv, InCall, Locked, ReadStill, Claimed, Landing, Alone, Untouched,
                      LandsOnce, RecordedTruthfully
<1>9. CASE Tick
  BY <1>0, <1>9, RowStep
<1>10. CASE UNCHANGED vars
  BY <1>0, <1>10, Frame DEF vars
<1> QED
  BY <1>1, <1>2, <1>3, <1>4, <1>5, <1>6, <1>7, <1>8, <1>9, <1>10 DEF Next
-----------------------------------------------------------------------------
(***************************************************************************)
(* Theorems.                                                               *)
(***************************************************************************)
\* The invariant holds for every number of Cores and merge runs.
THEOREM Invariance == Spec => []IInv
<1>1. ASSUME Init PROVE IInv
  <2>1. TypeOK
    <3>1. merge \in [Merge -> MergeRow] /\ lease \in [Workspace -> LeaseRow]
          /\ target \in Worktree
      BY <1>1, MergeConstants DEF Init, MergeRow, LeaseRow, Worktree, Status
    <3>2. mem \in [Core -> Memory] /\ pc \in [Core -> Label]
      BY <1>1, BlankType DEF Init, Label
    <3> QED
      BY <1>1, <3>1, <3>2, MergeConstants DEF Init, TypeOK
  <2>2. \A c \in Core : InCall(c) /\ Locked(c) /\ ReadStill(c) /\ Claimed(c) /\ Landing(c)
    BY <1>1 DEF Init, InCall, Locked, ReadStill, Claimed, Landing, Before, Busy, InAdapter
  <2>3. Alone /\ Untouched /\ LandsOnce /\ RecordedTruthfully
    BY <1>1, MergeConstants
    DEF Init, Alone, Untouched, LandsOnce, RecordedTruthfully, Busy, InAdapter, Claimable
  <2> QED
    BY <2>1, <2>2, <2>3 DEF IInv
<1> QED
  BY <1>1, IInvStep, PTL DEF Spec

\* However many Cores finalize however many merge runs, crash, lose their
\* leases and go on in the adapter, HEAD of the target is moved for one merge
\* run at most, and for that one once.
THEOREM TargetMovesOnce == Spec => []LandsOnce
<1>1. IInv => LandsOnce
  BY DEF IInv
<1> QED
  BY <1>1, Invariance, PTL

\* What finalize_merge_run records as owner is what happened to the target.
THEOREM OwnerTruthful == Spec => []RecordedTruthfully
<1>1. IInv => RecordedTruthfully
  BY DEF IInv
<1> QED
  BY <1>1, Invariance, PTL

\* No step of the code takes a result back.
LEMMA ResultStep == IInv /\ [Next]_vars => \A m \in Merge : ResultKept(m)
<1> SUFFICES ASSUME IInv, [Next]_vars, NEW m \in Merge PROVE ResultKept(m)
  OBVIOUS
<1> USE DEF leaseVars, procVars
<1>0. merge \in [Merge -> MergeRow] /\ merge[m] \in MergeRow
  BY DEF IInv, TypeOK
<1>1. CASE merge'[m].status = merge[m].status
  BY <1>1 DEF ResultKept
<1>2. ASSUME NEW c \in Core, InsertMerge(c) PROVE ResultKept(m)
  <2>1. merge'[m].status = merge[m].status \/ merge[m].status = "none"
    BY <1>0, <1>2 DEF InsertMerge
  <2> QED
    BY <2>1 DEF ResultKept, Known
<1>3. ASSUME NEW c \in Core, NoteStatus(c) PROVE ResultKept(m)
  <2>1. merge'[m].status = merge[m].status \/ (mem[c].m = m /\ Unmoved(c))
    BY <1>0, <1>3 DEF NoteStatus
  <2>2. mem[c].m = m /\ Unmoved(c) => merge[m].status \in Claimable
    BY <1>0, <1>3 DEF IInv, TypeOK, Memory, MergeRow, ReadStill, NoteStatus, Unmoved, Before,
                      Unclaimed
  <2> QED
    BY <2>1, <2>2 DEF ResultKept, Known, Claimable
<1>4. ASSUME NEW c \in Core, Claim(c) PROVE ResultKept(m)
  <2>1. merge'[m].status = merge[m].status \/ merge[m].status \in Claimable
    BY <1>0, <1>4 DEF Claim
  <2> QED
    BY <2>1 DEF ResultKept, Known, Claimable
<1>5. ASSUME NEW c \in Core, Complete(c) PROVE ResultKept(m)
  <2>1. \/ merge'[m].status = merge[m].status
        \/ /\ merge[m].status = "running" /\ merge[m].owner = c /\ mem[c].m = m
           /\ merge'[m].status = mem[c].next
    BY <1>0, <1>5 DEF Complete, Owned
  <2>2. pc[c] = "completing" /\ mem[c].next \in Known \cup {"outcome_unknown"}
    BY <1>5 DEF IInv, Landing, Complete
  <2> QED
    BY <2>1, <2>2 DEF ResultKept, Known
<1>6. ASSUME NEW c \in Core, Start(c) PROVE ResultKept(m)
  <2>1. \/ merge'[m] = merge[m]
        \/ /\ merge[m].status = "running" /\ merge[m].ttl = 0
           /\ merge'[m].status = "outcome_unknown"
    BY <1>0, <1>6 DEF Start, Lost
  <2> QED
    BY <2>1 DEF ResultKept, Known
<1>7. ASSUME NEW k \in Merge, NEW status \in Known, Reconcile(k, status) PROVE ResultKept(m)
  <2>1. \/ merge'[m].status = merge[m].status
        \/ k = m /\ merge[m].status = "outcome_unknown" /\ merge'[m].status = status
           /\ judge'[m] = "human"
    BY <1>0, <1>7 DEF IInv, TypeOK, Reconcile, MergeRow
  <2> QED
    BY <1>7, <2>1 DEF ResultKept, Known
<1>8. ASSUME UNCHANGED merge PROVE ResultKept(m)
  BY <1>1, <1>8
<1>9. ASSUME NEW c \in Core, Heartbeat(c) PROVE ResultKept(m)
  <2>1. merge'[m].status = merge[m].status
    BY <1>0, <1>9 DEF Heartbeat, MergeRow
  <2> QED
    BY <1>1, <2>1
<1>10. CASE Tick
  <2>1. merge'[m].status = merge[m].status
    BY <1>0, <1>10 DEF Tick, MergeRow
  <2> QED
    BY <1>1, <2>1
<1>11. ASSUME NEW c \in Core, Finalize(c) PROVE ResultKept(m)
  <2>1. CASE \/ AssertLease(c) \/ LookAtConflicts(c) \/ VerifyFails(c) \/ LockTarget(c)
             \/ ApplyArtifacts(c) \/ MoveHead(c) \/ ApplyFails(c) \/ Merged(c) \/ Rollback(c)
    BY <1>8, <2>1 DEF AssertLease, LookAtConflicts, VerifyFails, LockTarget, ApplyArtifacts,
                      MoveHead, ApplyFails, Merged, Rollback
  <2> QED
    BY <1>2, <1>3, <1>4, <1>5, <1>11, <2>1 DEF Finalize
<1>12. CASE UNCHANGED merge
  BY <1>8, <1>12
<1> QED
  <2>1. ASSUME NEW c \in Core, NEW k \in Merge, Begin(c, k) PROVE UNCHANGED merge
    BY <2>1 DEF Begin
  <2>2. ASSUME NEW c \in Core, Crash(c) PROVE UNCHANGED merge
    BY <2>2 DEF Crash
  <2>3. ASSUME NEW u \in Writer, NEW x \in Workspace,
               \/ AcquireLease(u, x) \/ RenewLease(u, x) \/ ReleaseLease(u, x)
               \/ PublishArtifact(u, x)
        PROVE  UNCHANGED merge
    BY <2>3 DEF AcquireLease, RenewLease, ReleaseLease, PublishArtifact
  <2>4. ASSUME NEW p \in Overlap, DetectConflict(p) \/ ResolveConflict(p) PROVE UNCHANGED merge
    BY <2>4 DEF DetectConflict, ResolveConflict
  <2>5. CleanTarget \/ UNCHANGED vars => UNCHANGED merge
    BY DEF CleanTarget, vars
  <2> QED
    BY <1>6, <1>7, <1>9, <1>10, <1>11, <1>12, <2>1, <2>2, <2>3, <2>4, <2>5 DEF Next

\* A known result stays, an unknown one is changed only by a person, and a
\* running merge run is left only by its owner or after its lease ran out,
\* although update_merge_run compares nothing but the revision.
THEOREM NoLateResult == Spec => ResultStays
<1>1. IInv /\ [Next]_vars => [\A m \in Merge : ResultKept(m)]_vars
  BY ResultStep
<1> QED
  BY <1>1, Invariance, PTL DEF Spec, ResultStays

\* A fencing that was given out is at most the one of the row, so the next
\* one is new.
GivenOut == \A u \in Writer, x \in Workspace : held[u][x] <= lease[x].fencing

\* Only acquire_lease gives a fencing out, and it gives a new one.
LEMMA FencingStep ==
    TypeOK /\ GivenOut /\ FencingUnique /\ [Next]_vars => (GivenOut /\ FencingUnique)'
<1> SUFFICES ASSUME TypeOK, GivenOut, FencingUnique, [Next]_vars
             PROVE  (GivenOut /\ FencingUnique)'
  OBVIOUS
<1> USE DEF leaseVars, procVars
<1>0. /\ lease \in [Workspace -> LeaseRow] /\ held \in [Writer -> [Workspace -> 0..MaxFencing]]
      /\ \A x \in Workspace : lease[x].fencing \in Nat
      /\ \A u \in Writer, x \in Workspace : held[u][x] \in Nat
  BY MergeConstants DEF TypeOK, LeaseRow
<1>1. ASSUME UNCHANGED held, \A x \in Workspace : lease'[x].fencing = lease[x].fencing
      PROVE  (GivenOut /\ FencingUnique)'
  BY <1>1 DEF GivenOut, FencingUnique
<1>2. ASSUME NEW u \in Writer, NEW x \in Workspace, AcquireLease(u, x)
      PROVE  (GivenOut /\ FencingUnique)'
  <2>1. /\ lease'[x].fencing = lease[x].fencing + 1
        /\ \A y \in Workspace \ {x} : lease'[y] = lease[y]
        /\ held'[u][x] = lease[x].fencing + 1
        /\ \A v \in Writer, y \in Workspace : (v # u \/ y # x) => held'[v][y] = held[v][y]
    BY <1>0, <1>2 DEF AcquireLease, NextFencing
  <2>2. \A v \in Writer : held[v][x] # lease[x].fencing + 1
    BY <1>0 DEF GivenOut
  <2>3. GivenOut'
    <3> SUFFICES ASSUME NEW v \in Writer, NEW y \in Workspace
                 PROVE  held'[v][y] <= lease'[y].fencing
      BY DEF GivenOut
    <3>1. CASE y = x
      BY <1>0, <2>1, <3>1 DEF GivenOut
    <3>2. CASE y # x
      BY <1>0, <2>1, <3>2 DEF GivenOut
    <3> QED
      BY <3>1, <3>2
  <2>4. FencingUnique'
    BY <2>1, <2>2 DEF FencingUnique
  <2> QED
    BY <2>3, <2>4
<1>3. ASSUME NEW u \in Writer, NEW x \in Workspace,
             RenewLease(u, x) \/ ReleaseLease(u, x) \/ PublishArtifact(u, x)
      PROVE  (GivenOut /\ FencingUnique)'
  <2>1. \A row \in LeaseRow : /\ [row EXCEPT !.ttl = WriterTTL].fencing = row.fencing
                               /\ [row EXCEPT !.released = TRUE, !.ttl = 0].fencing = row.fencing
    BY DEF LeaseRow
  <2>2. PICK row \in {lease[x], [lease[x] EXCEPT !.ttl = WriterTTL],
                      [lease[x] EXCEPT !.released = TRUE, !.ttl = 0]} :
          lease' = [lease EXCEPT ![x] = row]
    <3>1. CASE RenewLease(u, x)
      BY <1>0, <3>1 DEF RenewLease
    <3>2. CASE ReleaseLease(u, x)
      BY <1>0, <3>2 DEF ReleaseLease
    <3>3. CASE PublishArtifact(u, x)
      BY <1>0, <3>3 DEF PublishArtifact
    <3> QED
      BY <1>3, <3>1, <3>2, <3>3
  <2>3. row.fencing = lease[x].fencing
    BY <1>0, <2>1
  <2>4. \A y \in Workspace : lease'[y].fencing = lease[y].fencing
    BY <1>0, <2>2, <2>3
  <2>5. held' = held
    BY <1>3 DEF RenewLease, ReleaseLease, PublishArtifact
  <2> QED
    BY <1>1, <2>4, <2>5
<1>4. CASE Tick
  BY <1>0, <1>1, <1>4 DEF Tick, LeaseRow
<1>5. ASSUME NEW c \in Core, Finalize(c) \/ Heartbeat(c) \/ Start(c) \/ Crash(c)
      PROVE  UNCHANGED <<lease, held>>
  BY <1>5 DEF Finalize, AssertLease, LookAtConflicts, InsertMerge, NoteStatus, Claim, VerifyFails,
              LockTarget, ApplyArtifacts, MoveHead, ApplyFails, Merged, Rollback, Complete,
              Heartbeat, Start, Crash
<1>6. ASSUME NEW c \in Core, NEW m \in Merge, Begin(c, m) PROVE UNCHANGED <<lease, held>>
  BY <1>6 DEF Begin
<1>7. ASSUME NEW p \in Overlap, DetectConflict(p) \/ ResolveConflict(p)
      PROVE  UNCHANGED <<lease, held>>
  BY <1>7 DEF DetectConflict, ResolveConflict
<1>8. ASSUME NEW m \in Merge, NEW status \in Known, Reconcile(m, status)
      PROVE  UNCHANGED <<lease, held>>
  BY <1>8 DEF Reconcile
<1>9. CleanTarget \/ UNCHANGED vars => UNCHANGED <<lease, held>>
  BY DEF CleanTarget, vars
<1>10. CASE UNCHANGED <<lease, held>>
  BY <1>1, <1>10
<1> QED
  BY <1>2, <1>3, <1>4, <1>5, <1>6, <1>7, <1>8, <1>9, <1>10 DEF Next

\* acquire_lease never gives two writers the same fencing of a workspace,
\* however leases expire, are renewed and released.
THEOREM FencingsDiffer == Spec => []FencingUnique
<1>1. ASSUME Init PROVE GivenOut /\ FencingUnique
  BY <1>1, MergeConstants DEF Init, GivenOut, FencingUnique
<1> QED
  BY <1>1, FencingStep, TypeCorrect, PTL DEF Spec

\* What a Core has missed since it looked grows with every conflict put.
LEMMA ConflictsStep ==
    TypeOK /\ ConflictsDecided /\ [Next]_vars => ConflictsDecided'
<1> SUFFICES ASSUME TypeOK, ConflictsDecided, [Next]_vars, NEW c \in Core,
                    pc'[c] \in InAdapter \cup {"claiming"}, NEW p \in Overlap,
                    conflict'[p] = "open"
             PROVE  p \in late'[c]
  BY DEF ConflictsDecided, Open, TypeOK
<1> USE DEF leaseVars, procVars
<1>0. /\ pc \in [Core -> Label] /\ late \in [Core -> SUBSET Overlap]
      /\ conflict \in [Overlap -> {"none", "open", "resolved", "rejected"}]
  BY DEF TypeOK
<1>1. CASE /\ pc[c] \in InAdapter \cup {"claiming"} /\ UNCHANGED <<conflict, late>>
  BY <1>1 DEF ConflictsDecided, Open
<1>2. ASSUME NEW d \in Core, LookAtConflicts(d) PROVE p \in late'[c]
  <2>1. CASE d = c
    <3>1. PICK approved \in BOOLEAN : LookAtConflicts(c)!2!(approved)
      BY <1>2, <2>1 DEF LookAtConflicts
    <3>2. pc'[c] = "claiming" /\ WhatNext(mem[c].status, approved) = "running"
          /\ mem[c].status # "none"
      BY <1>0, <1>2, <2>1, <3>1 DEF Return, Goto, InAdapter
    <3>3. Open = {}
      BY <3>2 DEF WhatNext
    <3> QED
      BY <1>2, <3>3 DEF LookAtConflicts, Open
  <2>2. CASE d # c
    BY <1>0, <1>2, <2>2 DEF LookAtConflicts, Return, Goto, ConflictsDecided, Open
  <2> QED
    BY <2>1, <2>2
<1>3. ASSUME NEW q \in Overlap, DetectConflict(q) PROVE p \in late'[c]
  <2>1. pc[c] \in InAdapter \cup {"claiming"}
    BY <1>3 DEF DetectConflict
  <2>2. CASE conflict[p] = "open"
    BY <1>0, <1>3, <2>1, <2>2 DEF DetectConflict, ConflictsDecided, Open
  <2>3. CASE conflict[p] # "open"
    BY <1>0, <1>3, <2>3 DEF DetectConflict, Put
  <2> QED
    BY <2>2, <2>3
<1>4. ASSUME NEW q \in Overlap, ResolveConflict(q) PROVE p \in late'[c]
  <2>1. conflict[p] = "open" /\ UNCHANGED <<pc, late>>
    BY <1>0, <1>4 DEF ResolveConflict
  <2> QED
    BY <2>1 DEF ConflictsDecided, Open
<1>5. ASSUME NEW d \in Core, Finalize(d) PROVE p \in late'[c]
  <2>1. CASE AssertLease(d) \/ InsertMerge(d) \/ NoteStatus(d) \/ Complete(d)
    BY <1>0, <1>1, <2>1
    DEF AssertLease, InsertMerge, NoteStatus, Complete, Return, Goto, InAdapter
  <2>2. CASE Claim(d)
    BY <1>0, <1>1, <2>2 DEF Claim, Return, Goto, InAdapter
  <2>3. CASE \/ VerifyFails(d) \/ LockTarget(d) \/ ApplyArtifacts(d) \/ MoveHead(d)
             \/ ApplyFails(d) \/ Merged(d) \/ Rollback(d)
    BY <1>0, <1>1, <2>3 DEF VerifyFails, LockTarget, ApplyArtifacts, MoveHead, ApplyFails, Merged,
                            Rollback, Goto, InAdapter
  <2> QED
    BY <1>2, <1>5, <2>1, <2>2, <2>3 DEF Finalize
<1>6. ASSUME NEW d \in Core, Heartbeat(d) \/ Start(d) \/ Crash(d) PROVE p \in late'[c]
  BY <1>0, <1>1, <1>6 DEF Heartbeat, Start, Crash, Goto, InAdapter
<1>7. ASSUME NEW d \in Core, NEW m \in Merge, Begin(d, m) PROVE p \in late'[c]
  BY <1>0, <1>1, <1>7 DEF Begin, Goto, InAdapter
<1>8. ASSUME NEW u \in Writer, NEW x \in Workspace,
             AcquireLease(u, x) \/ RenewLease(u, x) \/ ReleaseLease(u, x) \/ PublishArtifact(u, x)
      PROVE  p \in late'[c]
  BY <1>1, <1>8 DEF AcquireLease, RenewLease, ReleaseLease, PublishArtifact
<1>9. ASSUME NEW m \in Merge, NEW status \in Known, Reconcile(m, status) PROVE p \in late'[c]
  BY <1>1, <1>9 DEF Reconcile
<1>10. CASE CleanTarget \/ Tick \/ UNCHANGED vars
  BY <1>1, <1>10 DEF CleanTarget, Tick, vars
<1> QED
  BY <1>3, <1>4, <1>5, <1>6, <1>7, <1>8, <1>9, <1>10 DEF Next

\* Nobody merges over a conflict that was open when it looked.
THEOREM MergesDecided == Spec => []ConflictsDecided
<1>1. ASSUME Init PROVE ConflictsDecided
  BY <1>1 DEF Init, ConflictsDecided, Open
<1> QED
  BY <1>1, ConflictsStep, TypeCorrect, PTL DEF Spec
=============================================================================

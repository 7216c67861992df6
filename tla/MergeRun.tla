------------------------------- MODULE MergeRun -------------------------------
(***************************************************************************)
(* Several writers, one merge: application/multiwriter.py,                 *)
(* persistence/multiwriter.py and the Git adapter of multiwriter/git.py.   *)
(*                                                                         *)
(* Writers hold leases on isolated workspaces and publish artifacts there; *)
(* a MergeRun brings the artifacts of all workspaces into one target       *)
(* worktree.  Several Core processes share the database and the target.    *)
(* A database transaction is one step; the handlers of a Core are          *)
(* synchronous, so a Core runs one create or finalize at a time, but the   *)
(* other Cores act between any two of its transactions.                    *)
(*                                                                         *)
(* All merge runs here belong to one graph run and have the same target    *)
(* and the same frozen base revision: others do not touch each other.  A   *)
(* Core is one incarnation of a process; its execution_owner_id is a fresh *)
(* uuid, so a restart is another Core.  The binding of artifacts to nodes  *)
(* of the frozen graph (_merge_inputs) is taken to hold.                   *)
(* create_merge_run takes a status from its caller; the callers in the     *)
(* repository leave it at its default, created.                            *)
(***************************************************************************)
EXTENDS Naturals

CONSTANTS
    Core,          \* incarnations of Core processes
    Nobody,        \* no Core, no writer
    Merge,         \* merge run ids
    Base,          \* the frozen base revision
    Workspace,     \* the writer workspaces of the graph run
    Writer,        \* processes that ask for writer leases
    Overlap,       \* sets of two workspaces whose artifacts conflict
    RequireReview, \* require_review of the merge policy
    RollbackOnFailure, \* rollback_on_failure of the merge policy
    WriterTTL,     \* ttl_seconds of a writer lease, in ticks
    OwnerTTL,      \* execution_lease_seconds, in ticks
    MaxFencing     \* bound: acquisitions of the lease of a workspace

ASSUME MergeConstants ==
    /\ Nobody \notin Core \cup Writer
    /\ Base \notin Merge
    /\ \A c \in Overlap : c \subseteq Workspace
    /\ RequireReview \in BOOLEAN /\ RollbackOnFailure \in BOOLEAN
    /\ WriterTTL \in Nat \ {0} /\ OwnerTTL \in Nat \ {0}
    /\ MaxFencing \in Nat

VARIABLES
    lease,     \* lease[x]: the writer_leases row of workspace x; fencing 0: none
    held,      \* held[u][x]: fencing of the lease of x that writer u was given
    published, \* workspaces with a writer_artifacts row
    conflict,  \* conflict[p]: status of the writer_conflicts row of the pair p
    merge,     \* merge[m]: the merge_runs row; status "none": no row
    target,    \* the target worktree: HEAD, uncommitted changes, lock file
    pc,        \* pc[c]: where Core c is in create_merge_run or finalize_merge_run
    mem,       \* mem[c]: its local variables
    beating,   \* beating[c]: the heartbeat thread of c runs
    landed,    \* landed[m]: how often HEAD was moved to the result of m (history)
    judge,     \* judge[m]: who gave m its terminal status (history)
    late       \* late[c]: conflicts put after c read the conflicts (history)

leaseVars == <<lease, held, published>>
procVars == <<pc, mem, beating>>
vars == <<lease, held, published, conflict, merge, target, pc, mem, beating, landed, judge, late>>

Claimable == {"created", "conflicted", "review_required"}
Known == {"succeeded", "failed", "rolled_back"}
Status == {"none", "running", "outcome_unknown"} \cup Claimable \cup Known

\* m, rev, status: the merge run as c read it; ask: the fencing of the leases
\* in the request; todo: workspaces whose lease is still to be asserted;
\* next: the status that is to be written
Memory == [m : Merge \cup {Base}, rev : Nat, status : Status, todo : SUBSET Workspace,
           ask : [Workspace -> Nat], next : Status]
Blank == [m |-> Base, rev |-> 0, status |-> "none", todo |-> {},
          ask |-> [x \in Workspace |-> 0], next |-> "none"]
\* Inside merge_adapter.merge
InAdapter == {"merging", "locked", "applying", "moved", "raised"}
Label == InAdapter \cup {"off", "idle", "asserting", "looking", "inserting", "noting",
                         "claiming", "completing", "dead"}

LeaseRow == [fencing : 0..MaxFencing, ttl : 0..WriterTTL, released : BOOLEAN]
MergeRow == [status : Status, rev : Nat, owner : Core \cup {Nobody}, ttl : 0..OwnerTTL]
Worktree == [head : Merge \cup {Base}, dirty : BOOLEAN, lock : Core \cup {Nobody}]

TypeOK ==
    /\ lease \in [Workspace -> LeaseRow]
    /\ held \in [Writer -> [Workspace -> 0..MaxFencing]]
    /\ published \subseteq Workspace
    /\ conflict \in [Overlap -> {"none", "open", "resolved", "rejected"}]
    /\ merge \in [Merge -> MergeRow]
    /\ target \in Worktree
    /\ pc \in [Core -> Label]
    /\ mem \in [Core -> Memory]
    /\ beating \in [Core -> BOOLEAN]
    /\ landed \in [Merge -> Nat]
    /\ judge \in [Merge -> {"none", "owner", "human"}]
    /\ late \in [Core -> SUBSET Overlap]

Init ==
    /\ lease = [x \in Workspace |-> [fencing |-> 0, ttl |-> 0, released |-> FALSE]]
    /\ held = [u \in Writer |-> [x \in Workspace |-> 0]]
    /\ published = {}
    /\ conflict = [p \in Overlap |-> "none"]
    /\ merge = [m \in Merge |-> [status |-> "none", rev |-> 0, owner |-> Nobody, ttl |-> 0]]
    /\ target = [head |-> Base, dirty |-> FALSE, lock |-> Nobody]
    /\ pc = [c \in Core |-> "off"]
    /\ mem = [c \in Core |-> Blank]
    /\ beating = [c \in Core |-> FALSE]
    /\ landed = [m \in Merge |-> 0]
    /\ judge = [m \in Merge |-> "none"]
    /\ late = [c \in Core |-> {}]
-----------------------------------------------------------------------------
(***************************************************************************)
(* Writers: leases and artifacts.  A Core that is not busy serves them.    *)
(***************************************************************************)
Serving == \E c \in Core : pc[c] = "idle"

Active(x) == lease[x].fencing > 0 /\ ~lease[x].released /\ lease[x].ttl > 0

\* assert_lease: owner, token and fencing of the row, not released, not expired
Asserted(x, fencing) == Active(x) /\ lease[x].fencing = fencing

NextFencing(x) == lease[x].fencing + 1

\* acquire_lease
AcquireLease(u, x) ==
    /\ Serving
    /\ ~Active(x)
    /\ NextFencing(x) <= MaxFencing
    /\ lease' = [lease EXCEPT ![x] = [fencing |-> NextFencing(x), ttl |-> WriterTTL,
                                      released |-> FALSE]]
    /\ held' = [held EXCEPT ![u][x] = NextFencing(x)]
    /\ UNCHANGED <<published, conflict, merge, target, procVars, landed, judge, late>>

\* renew_lease
RenewLease(u, x) ==
    /\ Serving
    /\ Asserted(x, held[u][x])
    /\ lease' = [lease EXCEPT ![x].ttl = WriterTTL]
    /\ UNCHANGED <<held, published, conflict, merge, target, procVars, landed, judge, late>>

\* release_lease, also of a lease that has expired
ReleaseLease(u, x) ==
    /\ Serving
    /\ held[u][x] > 0 /\ lease[x].fencing = held[u][x] /\ ~lease[x].released
    /\ lease' = [lease EXCEPT ![x].released = TRUE, ![x].ttl = 0]
    /\ UNCHANGED <<held, published, conflict, merge, target, procVars, landed, judge, late>>

\* publish_artifact: lease, base revision, ownership and test evidence are
\* checked in the transaction of the insert
PublishArtifact(u, x) ==
    /\ Serving
    /\ Asserted(x, held[u][x])
    /\ x \notin published
    /\ published' = published \cup {x}
    /\ UNCHANGED <<lease, held, conflict, merge, target, procVars, landed, judge, late>>
-----------------------------------------------------------------------------
(***************************************************************************)
(* Conflicts.                                                              *)
(***************************************************************************)
\* Mutant of Put: the row is replaced.
PutReplace(p) == "open"

\* INSERT OR IGNORE, by the hash of the two artifacts and their paths
Put(p) == IF conflict[p] = "none" THEN "open" ELSE conflict[p]

\* detect_conflicts: every pair is a transaction of its own
DetectConflict(p) ==
    /\ Serving
    /\ p \subseteq published
    /\ conflict' = [conflict EXCEPT ![p] = Put(p)]
    /\ late' = IF conflict[p] = "none" THEN [c \in Core |-> late[c] \cup {p}] ELSE late
    /\ UNCHANGED <<leaseVars, merge, target, procVars, landed, judge>>

\* resolve_conflict
ResolveConflict(p) ==
    /\ Serving
    /\ conflict[p] = "open"
    /\ \E s \in {"resolved", "rejected"} : conflict' = [conflict EXCEPT ![p] = s]
    /\ UNCHANGED <<leaseVars, merge, target, procVars, landed, judge, late>>

Open == {p \in Overlap : conflict[p] = "open"}
-----------------------------------------------------------------------------
(***************************************************************************)
(* create_merge_run and finalize_merge_run up to the claim.                *)
(***************************************************************************)
Goto(c, label) == pc' = [pc EXCEPT ![c] = label]

\* The call returns or raises.
Return(c) ==
    /\ Goto(c, "idle")
    /\ mem' = [mem EXCEPT ![c] = Blank]
    /\ beating' = [beating EXCEPT ![c] = FALSE]

\* A request carries the leases that are current when it is sent; one with
\* other leases, or for a merge run that is running or terminal, is refused
\* and changes nothing.
Begin(c, m) ==
    /\ pc[c] = "idle"
    /\ published = Workspace
    /\ merge[m].status \in {"none"} \cup Claimable
    /\ Goto(c, "asserting")
    /\ mem' = [mem EXCEPT ![c] = [m |-> m, rev |-> merge[m].rev, status |-> merge[m].status,
                                  todo |-> Workspace,
                                  ask |-> [x \in Workspace |-> lease[x].fencing],
                                  next |-> "none"]]
    /\ UNCHANGED <<leaseVars, conflict, merge, target, beating, landed, judge, late>>

\* _assert_workspace_leases: a read of its own for each workspace
AssertLease(c) ==
    /\ pc[c] = "asserting"
    /\ \/ /\ mem[c].todo = {}
          /\ Goto(c, "looking")
          /\ UNCHANGED <<mem, beating>>
       \/ \E x \in mem[c].todo :
            IF Asserted(x, mem[c].ask[x])
            THEN /\ mem' = [mem EXCEPT ![c].todo = @ \ {x}]
                 /\ UNCHANGED <<pc, beating>>
            ELSE Return(c)
    /\ UNCHANGED <<leaseVars, conflict, merge, target, landed, judge, late>>

\* What becomes of a merge run that was read with status was.
WhatNext(was, approved) ==
    CASE was = "none" -> IF Open = {} THEN "created" ELSE "conflicted"
      [] was # "none" /\ Open # {} -> "conflicted"
      [] OTHER -> IF RequireReview /\ ~approved THEN "review_required" ELSE "running"

\* list_conflicts, then the policy
LookAtConflicts(c) ==
    /\ pc[c] = "looking"
    /\ \E approved \in BOOLEAN :
         LET was == mem[c].status
             next == WhatNext(was, approved)
         IN  IF next = was
             THEN Return(c)
             ELSE /\ mem' = [mem EXCEPT ![c].next = next]
                  /\ Goto(c, CASE was = "none" -> "inserting"
                               [] was # "none" /\ next = "running" -> "claiming"
                               [] OTHER -> "noting")
                  /\ UNCHANGED beating
    /\ late' = [late EXCEPT ![c] = {}]
    /\ UNCHANGED <<leaseVars, conflict, merge, target, landed, judge>>

\* The INSERT of create_merge_run
InsertMerge(c) ==
    LET m == mem[c].m
    IN  /\ pc[c] = "inserting"
        /\ merge' = IF merge[m].status = "none"
                    THEN [merge EXCEPT ![m].status = mem[c].next]
                    ELSE merge
        /\ Return(c)
        /\ UNCHANGED <<leaseVars, conflict, target, landed, judge, late>>

\* Mutant of Unmoved: update_merge_run does not compare the revision.
UnmovedAny(c) == TRUE

\* WHERE merge_run_id = ? AND expected_revision = ?
Unmoved(c) == merge[mem[c].m].rev = mem[c].rev

\* _transition, update_merge_run: no look at the status
NoteStatus(c) ==
    /\ pc[c] = "noting"
    /\ merge' = IF Unmoved(c)
                THEN [merge EXCEPT ![mem[c].m] = [status |-> mem[c].next, rev |-> mem[c].rev + 1,
                                                  owner |-> Nobody, ttl |-> 0]]
                ELSE merge
    /\ Return(c)
    /\ UNCHANGED <<leaseVars, conflict, target, landed, judge, late>>

\* claim_merge_run; the unique index refuses a second running merge
Claim(c) ==
    LET m == mem[c].m
    IN  /\ pc[c] = "claiming"
        /\ IF /\ Unmoved(c) /\ merge[m].status \in Claimable
              /\ \A k \in Merge : merge[k].status # "running"
           THEN /\ merge' = [merge EXCEPT ![m] = [status |-> "running", rev |-> mem[c].rev + 1,
                                                  owner |-> c, ttl |-> OwnerTTL]]
                /\ mem' = [mem EXCEPT ![c].rev = @ + 1]
                /\ beating' = [beating EXCEPT ![c] = TRUE]
                /\ Goto(c, "merging")
           ELSE UNCHANGED merge /\ Return(c)
        /\ UNCHANGED <<leaseVars, conflict, target, landed, judge, late>>
-----------------------------------------------------------------------------
(***************************************************************************)
(* The heartbeat thread and the Git adapter.                               *)
(***************************************************************************)
\* renew_merge_run_lease asks for the owner alone, not for the expiry; a
\* refusal, or an error of the database, ends the thread
Heartbeat(c) ==
    LET m == mem[c].m
    IN  /\ beating[c]
        /\ \/ /\ merge[m].status = "running" /\ merge[m].owner = c
              /\ merge' = [merge EXCEPT ![m].ttl = OwnerTTL]
              /\ UNCHANGED beating
           \/ /\ beating' = [beating EXCEPT ![c] = FALSE]
              /\ UNCHANGED merge
        /\ UNCHANGED <<leaseVars, conflict, target, pc, mem, landed, judge, late>>

Unlock == [target EXCEPT !.lock = Nobody]

\* An artifact cannot be verified, or the expected tree cannot be built:
\* nothing has been changed in the target yet
VerifyFails(c) ==
    /\ pc[c] \in {"merging", "locked"}
    /\ Goto(c, "raised")
    /\ target' = IF pc[c] = "locked" THEN Unlock ELSE target
    /\ UNCHANGED <<leaseVars, conflict, merge, mem, beating, landed, judge, late>>

\* _target_lock, without waiting
LockTarget(c) ==
    /\ pc[c] = "merging"
    /\ IF target.lock = Nobody
       THEN target' = [target EXCEPT !.lock = c] /\ Goto(c, "locked")
       ELSE UNCHANGED target /\ Goto(c, "raised")
    /\ UNCHANGED <<leaseVars, conflict, merge, mem, beating, landed, judge, late>>

\* Mutant of TargetReady: HEAD is not compared with the base revision.
TargetReadyAnyHead == ~target.dirty

\* The worktree is clean and at the frozen base revision.
TargetReady == ~target.dirty /\ target.head = Base

\* The checks, then _apply_verified_artifacts on the target
ApplyArtifacts(c) ==
    /\ pc[c] = "locked"
    /\ IF TargetReady
       THEN target' = [target EXCEPT !.dirty = TRUE] /\ Goto(c, "applying")
       ELSE target' = Unlock /\ Goto(c, "raised")
    /\ UNCHANGED <<leaseVars, conflict, merge, mem, beating, landed, judge, late>>

\* git update-ref HEAD result baseline
MoveHead(c) ==
    LET m == mem[c].m
    IN  /\ pc[c] = "applying"
        /\ target' = [target EXCEPT !.head = m, !.dirty = FALSE]
        /\ landed' = [landed EXCEPT ![m] = @ + 1]
        /\ Goto(c, "moved")
        /\ UNCHANGED <<leaseVars, conflict, merge, mem, beating, judge, late>>

\* Mutants of Unclear: a status the table does not know; a failure while the target is changed is an ordinary one.
UnclearOther == "unknown"
UnclearFailed == "failed"

\* MergeOutcomeUnknownError
Unclear == "outcome_unknown"

\* A Git command fails or times out while the target is being changed, or
\* after HEAD was moved
ApplyFails(c) ==
    /\ pc[c] \in {"applying", "moved"}
    /\ target' = Unlock
    /\ mem' = [mem EXCEPT ![c].next = Unclear]
    /\ Goto(c, "completing")
    /\ UNCHANGED <<leaseVars, conflict, merge, beating, landed, judge, late>>

\* merge returns; the heartbeat is stopped before the result is recorded
Merged(c) ==
    /\ pc[c] = "moved"
    /\ target' = Unlock
    /\ mem' = [mem EXCEPT ![c].next = "succeeded"]
    /\ beating' = [beating EXCEPT ![c] = FALSE]
    /\ Goto(c, "completing")
    /\ UNCHANGED <<leaseVars, conflict, merge, landed, judge, late>>

\* Any other exception.  rollback finds no remembered HEAD and does nothing;
\* it may itself raise.
Rollback(c) ==
    /\ pc[c] = "raised"
    /\ \E s \in IF RollbackOnFailure THEN {"rolled_back", "failed"} ELSE {"failed"} :
         mem' = [mem EXCEPT ![c].next = s]
    /\ Goto(c, "completing")
    /\ UNCHANGED <<leaseVars, conflict, merge, target, beating, landed, judge, late>>

\* Mutant of Owned: the revision that was read before the claim is compared.
OwnedStale(c) ==
    LET row == merge[mem[c].m]
    IN  row.rev + 1 = mem[c].rev /\ row.status = "running" /\ row.owner = c

Owned(c) ==
    LET row == merge[mem[c].m]
    IN  row.rev = mem[c].rev /\ row.status = "running" /\ row.owner = c

\* _transition_owned, complete_owned_merge_run
Complete(c) ==
    LET m == mem[c].m
    IN  /\ pc[c] = "completing"
        /\ IF Owned(c)
           THEN /\ merge' = [merge EXCEPT ![m] = [status |-> mem[c].next, rev |-> mem[c].rev + 1,
                                                  owner |-> Nobody, ttl |-> 0]]
                /\ judge' = [judge EXCEPT ![m] = "owner"]
           ELSE UNCHANGED <<merge, judge>>
        /\ Return(c)
        /\ UNCHANGED <<leaseVars, conflict, target, landed, late>>
-----------------------------------------------------------------------------
(***************************************************************************)
(* Recovery, failures and time.                                            *)
(***************************************************************************)
\* reconcile_incomplete_merge_runs
Lost(m) == merge[m].status = "running" /\ merge[m].ttl = 0

\* MultiWriterRuntime is built when a Core starts.
Start(c) ==
    /\ pc[c] = "off"
    /\ Goto(c, "idle")
    /\ merge' = [m \in Merge |->
                    IF Lost(m) THEN [status |-> "outcome_unknown", rev |-> merge[m].rev + 1,
                                     owner |-> Nobody, ttl |-> 0]
                    ELSE merge[m]]
    /\ UNCHANGED <<leaseVars, conflict, target, mem, beating, landed, judge, late>>

\* reconcile_merge_run: a person on the host states what has happened
Reconcile(m, status) ==
    /\ Serving
    /\ merge[m].status = "outcome_unknown"
    /\ merge' = [merge EXCEPT ![m].status = status, ![m].rev = @ + 1]
    /\ judge' = [judge EXCEPT ![m] = "human"]
    /\ UNCHANGED <<leaseVars, conflict, target, procVars, landed, late>>

\* Bound: the last Core does not die.
Spared(c) == \E d \in Core \ {c} : pc[d] # "dead"

\* The process dies; the operating system frees its file lock.
Crash(c) ==
    /\ pc[c] \notin {"off", "dead"}
    /\ Spared(c)
    /\ Goto(c, "dead")
    /\ mem' = [mem EXCEPT ![c] = Blank]
    /\ beating' = [beating EXCEPT ![c] = FALSE]
    /\ target' = IF target.lock = c THEN Unlock ELSE target
    /\ UNCHANGED <<leaseVars, conflict, merge, landed, judge, late>>

\* The person who inspects the target throws uncommitted changes away.
CleanTarget ==
    /\ target.dirty /\ target.lock = Nobody
    /\ target' = [target EXCEPT !.dirty = FALSE]
    /\ UNCHANGED <<leaseVars, conflict, merge, procVars, landed, judge, late>>

OneLess(t) == IF t = 0 THEN 0 ELSE t - 1

Tick ==
    /\ lease' = [x \in Workspace |-> [lease[x] EXCEPT !.ttl = OneLess(@)]]
    /\ merge' = [m \in Merge |-> [merge[m] EXCEPT !.ttl = OneLess(@)]]
    /\ UNCHANGED <<held, published, conflict, target, procVars, landed, judge, late>>

Finalize(c) ==
    \/ AssertLease(c) \/ LookAtConflicts(c) \/ InsertMerge(c) \/ NoteStatus(c) \/ Claim(c)
    \/ VerifyFails(c) \/ LockTarget(c) \/ ApplyArtifacts(c) \/ MoveHead(c) \/ ApplyFails(c)
    \/ Merged(c) \/ Rollback(c) \/ Complete(c)

Next ==
    \/ \E c \in Core : Finalize(c) \/ Heartbeat(c) \/ Start(c) \/ Crash(c)
    \/ \E c \in Core, m \in Merge : Begin(c, m)
    \/ \E u \in Writer, x \in Workspace :
         AcquireLease(u, x) \/ RenewLease(u, x) \/ ReleaseLease(u, x) \/ PublishArtifact(u, x)
    \/ \E p \in Overlap : DetectConflict(p) \/ ResolveConflict(p)
    \/ \E m \in Merge, status \in Known : Reconcile(m, status)
    \/ CleanTarget
    \/ Tick

Spec == Init /\ [][Next]_vars

\* A call that has begun goes on as long as its process lives (every Git
\* command has a timeout), every Core is started and time passes.
FairSpec ==
    /\ Spec
    /\ WF_vars(Tick)
    /\ \A c \in Core : WF_vars(Finalize(c)) /\ WF_vars(Start(c))
-----------------------------------------------------------------------------
(***************************************************************************)
(* Properties.                                                             *)
(***************************************************************************)
\* Every acquisition of a writer lease has a fencing of its own, through
\* expiries and releases: no two writers were ever given the same one
\* (acquire_lease; "monotonic fencing" in the architecture document).
FencingUnique ==
    \A u, v \in Writer, x \in Workspace :
        (held[u][x] = held[v][x] /\ held[u][x] # 0) => u = v

\* The target leaves the frozen base at most once, for one merge run, even
\* when an owner that lost its lease is still inside the adapter while
\* another Core has claimed the next merge run (TrustedGitMultiWriterAdapter
\* .merge).
LandsOnce == \A m \in Merge : landed[m] = (IF target.head = m THEN 1 ELSE 0)

\* What the owner records is what happened to the target: success only when
\* HEAD was moved, failure or roll-back only when it was not; and a merge run
\* that could be claimed again has never moved it (finalize_merge_run).
RecordedTruthfully ==
    \A m \in Merge :
        /\ (judge[m] = "owner" /\ merge[m].status = "succeeded") => landed[m] = 1
        /\ (judge[m] = "owner" /\ merge[m].status \in {"failed", "rolled_back"}) => landed[m] = 0
        /\ merge[m].status \in Claimable => landed[m] = 0

ResultKept(m) ==
    /\ merge[m].status \in Known => merge'[m].status = merge[m].status
    /\ merge[m].status = "outcome_unknown" /\ merge'[m].status # "outcome_unknown" =>
         merge'[m].status \in Known /\ judge'[m] = "human"
    /\ merge[m].status = "running" /\ merge'[m].status # "running" =>
         \/ merge[m].ttl = 0 /\ merge'[m].status = "outcome_unknown"
         \/ /\ merge'[m].status \in Known \cup {"outcome_unknown"}
            /\ \E c \in Core : merge[m].owner = c /\ pc[c] = "completing"

\* A known result stays, an unknown one is only changed by a person, and a
\* running merge run is left only by its owner or after its lease ran out: a
\* late result never overwrites, although update_merge_run compares the
\* revision alone.
ResultStays == [][\A m \in Merge : ResultKept(m)]_vars

\* Whoever is inside the adapter saw every conflict decided: one that is open
\* now was first put after it looked (list_conflicts is not part of the
\* claim's transaction), and a decided conflict is never opened again.
ConflictsDecided ==
    \A c \in Core : pc[c] \in InAdapter \cup {"claiming"} => Open \subseteq late[c]

\* A claimed merge run of a Core that lives does not stay running.
OwnerSettles ==
    \A m \in Merge, c \in Core :
        (merge[m].status = "running" /\ merge[m].owner = c)
            ~> (merge[m].owner # c \/ pc[c] = "dead")

\* docs/PROJECT_ARCHITECTURE.md: a merge run whose owner has expired enters
\* conservative recovery.
ExpiredRecovered ==
    \A m \in Merge :
        (\E c \in Core : Lost(m) /\ merge[m].owner = c /\ pc[c] = "dead")
            ~> merge[m].status # "running"
=============================================================================

------------------------------ MODULE SessionRun ------------------------------
(***************************************************************************)
(* One Session and the Core processes that may run an Agent in it.         *)
(*                                                                         *)
(* The durable state is the Session's row in session_run_leases, its rows  *)
(* in tool_action_receipts, approval_requests and approval_decisions       *)
(* (persistence/sqlite.py).  Every SQLite transaction is BEGIN IMMEDIATE,  *)
(* so a transaction is one step; a coroutine is interleaved with the other *)
(* processes between any two of its transactions.  The volatile state is   *)
(* what ApplicationService and AgentLoop keep for the run: the admitted    *)
(* lease, the tool call in hand and the approval future.                   *)
(*                                                                         *)
(* Every run creates one Agent, so a run, its Agent and the generation of  *)
(* its lease are the same number.  The rows of another Session are never   *)
(* read or written by these statements; one Session is therefore modelled. *)
(* Timestamps are kept as the time that is left: expires_at <= now is a    *)
(* timer at 0, and Tick lets all timers run down together.                 *)
(***************************************************************************)
EXTENDS Naturals, FiniteSets

CONSTANTS
    Proc,         \* Core processes sharing the database file
    Call,         \* tool_call_id values the model can produce
    Hash,         \* action_hash values: normalised tool and arguments
    AskHash,      \* the actions that need an approval (policy ASK)
    MaxRuns,      \* bound: runs ever admitted for the Session
    LeaseTTL,     \* session_lease_ttl_seconds, in ticks
    ApprovalTTL   \* ApprovalRequest.expires_at - requested_at, in ticks

ASSUME ConstantsOK ==
    /\ AskHash \subseteq Hash
    /\ MaxRuns \in Nat \ {0}
    /\ LeaseTTL \in Nat \ {0}
    /\ ApprovalTTL \in Nat \ {0}

Run == 1..MaxRuns

VARIABLES
    lease,      \* the Session's row of session_run_leases; gen = 0: no row
    receipt,    \* receipt[r][c]: the tool_action_receipts row of run r, call c
    approval,   \* approval[r][c]: approval_requests joined with its decision
    pc,         \* pc[p]: where process p is in run_session / AgentLoop.run
    mine,       \* mine[p]: generation of p's entry in _session_run_leases, or 0
    cur,        \* cur[p]: the tool call p has in hand
    fut,        \* fut[p]: the entry of _approval_futures for that call
    effects,    \* effects[r][c]: how often the tool really ran (history)
    outcome     \* the answer to the last admission attempt (history)

dbVars == <<lease, receipt, approval>>
procVars == <<pc, mine, cur, fut>>
vars == <<lease, receipt, approval, pc, mine, cur, fut, effects, outcome>>

ReceiptStatus == {"none", "in_progress", "completed", "failed", "outcome_unknown"}
ApprovalStatus == {"none", "pending", "approved", "denied", "expired"}
LeaseRow == [gen : 0..MaxRuns, owner : Proc, bound : BOOLEAN, cancelled : BOOLEAN,
             ttl : 0..LeaseTTL, released : BOOLEAN]
ReceiptRow == [status : ReceiptStatus, hash : Hash]
ApprovalRow == [status : ApprovalStatus, ttl : 0..ApprovalTTL, decision : {"none", "yes", "no"}]
PC == {"off", "idle", "admitted", "model", "claimed", "asking", "reviewing",
       "judged", "deciding", "rereading", "waiting", "verified", "executing",
       "executed", "failing", "ending"}

TypeOK ==
    /\ lease \in LeaseRow
    /\ receipt \in [Run -> [Call -> ReceiptRow]]
    /\ approval \in [Run -> [Call -> ApprovalRow]]
    /\ pc \in [Proc -> PC]
    /\ mine \in [Proc -> 0..MaxRuns]
    /\ cur \in [Proc -> [call : Call, hash : Hash]]
    /\ fut \in [Proc -> {"none", "open", "yes", "no"}]
    /\ effects \in [Run -> [Call -> Nat]]
    /\ outcome \in {"none", "granted", "busy", "pending_approval", "manual_reconcile"}

Init ==
    /\ \E p \in Proc : lease = [gen |-> 0, owner |-> p, bound |-> FALSE,
                                cancelled |-> FALSE, ttl |-> 0, released |-> FALSE]
    /\ \E h \in Hash :
         /\ receipt = [r \in Run |-> [c \in Call |-> [status |-> "none", hash |-> h]]]
         /\ \E c \in Call : cur = [p \in Proc |-> [call |-> c, hash |-> h]]
    /\ approval = [r \in Run |-> [c \in Call |->
                    [status |-> "none", ttl |-> 0, decision |-> "none"]]]
    /\ pc = [p \in Proc |-> "idle"]
    /\ mine = [p \in Proc |-> 0]
    /\ fut = [p \in Proc |-> "none"]
    /\ effects = [r \in Run |-> [c \in Call |-> 0]]
    /\ outcome = "none"
-----------------------------------------------------------------------------
(***************************************************************************)
(* What the statements ask of the rows.                                    *)
(***************************************************************************)
\* Mutant of Unexpired: expires_at is forgotten.
UnexpiredIgnoresTTL == lease.gen # 0 /\ ~lease.released

\* released_at IS NULL AND expires_at > now
Unexpired == lease.gen # 0 /\ ~lease.released /\ lease.ttl > 0

\* Mutant of Holds: token, generation and owner are not compared.
HoldsUnfenced(p) == mine[p] # 0 /\ Unexpired /\ ~lease.cancelled

\* assert_session_run_lease: p's token, generation and owner are current
Holds(p) ==
    /\ mine[p] # 0
    /\ lease.gen = mine[p]
    /\ lease.owner = p
    /\ Unexpired
    /\ ~lease.cancelled

\* Mutant of Uncertain: an action in progress does not count.
UncertainOnlyUnknown(s) == s = "outcome_unknown"

Uncertain(s) == s \in {"in_progress", "outcome_unknown"}

\* The receipts after the denial clean-up of acquire_session_run_lease: a
\* durable denial proves that the action was never authorised.
DenialsResolved ==
    [r \in Run |-> [c \in Call |->
        IF Uncertain(receipt[r][c].status) /\ approval[r][c].decision = "no"
        THEN [receipt[r][c] EXCEPT !.status = "failed"]
        ELSE receipt[r][c]]]

\* in_progress rows of these runs become outcome_unknown
MarkUnknown(rows, runs) ==
    [r \in Run |-> [c \in Call |->
        IF rows[r][c].status = "in_progress" /\ r \in runs
        THEN [rows[r][c] EXCEPT !.status = "outcome_unknown"]
        ELSE rows[r][c]]]

\* _expire_pending_approvals
Swept ==
    [r \in Run |-> [c \in Call |->
        IF approval[r][c].status \in {"pending", "approved"} /\ approval[r][c].ttl = 0
        THEN [approval[r][c] EXCEPT !.status = "expired"]
        ELSE approval[r][c]]]

PendingIn(rows) == {rc \in Run \X Call : rows[rc[1]][rc[2]].status = "pending"}

\* _select_approval_row: the pending request for this tool_call_id, else the
\* newest one; two pending ones are an error.
Selects(rows, c, r) ==
    LET have == {k \in Run : rows[k][c].status # "none"}
        open == {k \in have : rows[k][c].status = "pending"}
    IN  IF open # {} THEN open = {r}
                     ELSE r \in have /\ \A k \in have : k <= r
-----------------------------------------------------------------------------
(***************************************************************************)
(* Admission: admit_session_run and acquire_session_run_lease.             *)
(***************************************************************************)
AdmitPendingApproval(p) ==
    /\ pc[p] = "idle"
    /\ PendingIn(approval) # {}
    /\ outcome' = "pending_approval"
    /\ UNCHANGED <<dbVars, procVars, effects>>

AdmitBusy(p) ==
    /\ pc[p] = "idle"
    /\ PendingIn(approval) = {}
    /\ Unexpired
    /\ outcome' = "busy"
    /\ UNCHANGED <<dbVars, procVars, effects>>

AdmitUncertain(p) ==
    /\ pc[p] = "idle"
    /\ PendingIn(approval) = {}
    /\ ~Unexpired
    /\ \E r \in Run, c \in Call : Uncertain(DenialsResolved[r][c].status)
    /\ receipt' = MarkUnknown(DenialsResolved, Run)
    /\ outcome' = "manual_reconcile"
    /\ UNCHANGED <<lease, approval, procVars, effects>>

AdmitGranted(p) ==
    /\ pc[p] = "idle"
    /\ PendingIn(approval) = {}
    /\ ~Unexpired
    /\ \A r \in Run, c \in Call : ~Uncertain(DenialsResolved[r][c].status)
    /\ lease.gen < MaxRuns
    /\ receipt' = DenialsResolved
    /\ lease' = [gen |-> lease.gen + 1, owner |-> p, bound |-> FALSE,
                 cancelled |-> FALSE, ttl |-> LeaseTTL, released |-> FALSE]
    /\ mine' = [mine EXCEPT ![p] = lease.gen + 1]
    /\ pc' = [pc EXCEPT ![p] = "admitted"]
    /\ outcome' = "granted"
    /\ UNCHANGED <<approval, cur, fut, effects>>

\* bind_session_run_lease_agent; a lost lease fails the run before the loop
BindAgent(p) ==
    /\ pc[p] = "admitted"
    /\ IF Holds(p)
       THEN /\ lease' = [lease EXCEPT !.bound = TRUE]
            /\ pc' = [pc EXCEPT ![p] = "model"]
       ELSE /\ pc' = [pc EXCEPT ![p] = "ending"]
            /\ UNCHANGED lease
    /\ UNCHANGED <<receipt, approval, mine, cur, fut, effects, outcome>>

\* watch_lease: a renewal that is refused cancels the run (see Stop)
Renew(p) ==
    /\ pc[p] \notin {"off", "idle", "admitted", "ending"}
    /\ Holds(p)
    /\ lease' = [lease EXCEPT !.ttl = LeaseTTL]
    /\ UNCHANGED <<receipt, approval, procVars, effects, outcome>>
-----------------------------------------------------------------------------
(***************************************************************************)
(* One tool call of AgentLoop.run through the action gateway.              *)
(***************************************************************************)
\* Mutant of Unclaimed: a failed action may be reserved again.
UnclaimedOrFailed(p, c) == receipt[mine[p]][c].status \in {"none", "failed"}

\* No row for this scope (the run's Agent) and idempotency key (the call id)
Unclaimed(p, c) == receipt[mine[p]][c].status = "none"

\* reserve_tool_action.  A fenced lease, a reused call id with another action
\* or an uncertain one raise before anything is written, and a terminal
\* receipt only replays its stored result: those answers change no state.
Reserve(p, c, h) ==
    /\ pc[p] = "model"
    /\ Holds(p)
    /\ Unclaimed(p, c)
    /\ receipt' = [receipt EXCEPT ![mine[p]][c] = [status |-> "in_progress", hash |-> h]]
    /\ cur' = [cur EXCEPT ![p] = [call |-> c, hash |-> h]]
    /\ pc' = [pc EXCEPT ![p] = "claimed"]
    /\ UNCHANGED <<lease, approval, mine, fut, effects, outcome>>

\* The receipt and the approval request of the call p has in hand.
MyReceipt(p) == receipt[mine[p]][cur[p].call]
MyApproval(p) == approval[mine[p]][cur[p].call]

Settle(p, status) ==
    receipt' = [receipt EXCEPT ![mine[p]][cur[p].call].status = status]

\* Mutant of NeedsApproval: the policy's ASK is treated as ALLOW.
NeverAsks(p) == FALSE

\* approval_requirement: the policy evaluated the action in hand to ASK
NeedsApproval(p) == cur[p].hash \in AskHash

\* create_approval_request, raised by the policy before execution or by the
\* tool itself; a receipt that is no longer in progress fails the run.
RequestApproval(p) ==
    /\ \/ pc[p] = "claimed" /\ NeedsApproval(p)
       \/ pc[p] = "executing" /\ MyApproval(p).status = "none"
    /\ IF MyReceipt(p).status = "in_progress"
       THEN /\ approval' = [approval EXCEPT ![mine[p]][cur[p].call] =
                              [status |-> "pending", ttl |-> ApprovalTTL, decision |-> "none"]]
            /\ pc' = [pc EXCEPT ![p] = "asking"]
       ELSE /\ pc' = [pc EXCEPT ![p] = "ending"]
            /\ UNCHANGED approval
    /\ UNCHANGED <<lease, receipt, mine, cur, fut, effects, outcome>>

\* Mutant of Answer: the status itself resolves the future.
AnswerStatus(status) == status

\* future.set_result(status is APPROVED)
Answer(status) == IF status = "approved" THEN "yes" ELSE "no"

\* wait_for_approval up to the reviewer's model call
BeginWait(p) ==
    /\ pc[p] = "asking"
    /\ approval' = Swept
    /\ \E r \in Run :
         /\ Selects(Swept, cur[p].call, r)
         /\ LET s == Swept[r][cur[p].call].status
            IN  IF s = "pending"
                THEN /\ fut' = [fut EXCEPT ![p] = "open"]
                     /\ pc' = [pc EXCEPT ![p] = "reviewing"]
                ELSE /\ fut' = [fut EXCEPT ![p] = Answer(s)]
                     /\ pc' = [pc EXCEPT ![p] = "waiting"]
    /\ UNCHANGED <<lease, receipt, mine, cur, effects, outcome>>

Decided(row, v) ==
    [row EXCEPT !.status = IF v = "yes" THEN "approved" ELSE "denied", !.decision = v]

\* Store.decide_approval accepts v for the request it selects: the request is
\* open, or v only repeats its decision.  The caller names a tool_call_id, not
\* a request, so r may be of another run than the one v was given for.
Decidable(c, v, r) ==
    /\ Selects(Swept, c, r)
    /\ \/ Swept[r][c].decision = "none" /\ Swept[r][c].status = "pending"
       \/ Swept[r][c].decision = v

\* ApplicationService.decide_approval in process q: the stored decision, and
\* the future of q itself if it waits for this call.
DecideApproval(q, c, v) ==
    /\ \E r \in Run :
         /\ Decidable(c, v, r)
         /\ approval' = IF Swept[r][c].decision = "none"
                        THEN [Swept EXCEPT ![r][c] = Decided(Swept[r][c], v)]
                        ELSE Swept
    /\ fut' = IF fut[q] = "open" /\ cur[q].call = c
              THEN [fut EXCEPT ![q] = v] ELSE fut

\* _review_session_approval after the reviewer's model call.  There is no await
\* from here to the wait, so Stop is not possible, but the other processes
\* interleave between its four transactions.  No usable answer: nothing is
\* done.  With one, the request is read again and must still be the one that
\* was shown, of p's own Agent and pending.
ReviewLatest(p) ==
    /\ pc[p] = "reviewing"
    /\ \/ /\ pc' = [pc EXCEPT ![p] = "rereading"]
          /\ UNCHANGED approval
       \/ /\ approval' = Swept
          /\ \E r \in Run :
               /\ Selects(Swept, cur[p].call, r)
               /\ pc' = [pc EXCEPT ![p] =
                            IF r = mine[p] /\ Swept[r][cur[p].call].status = "pending"
                            THEN "judged" ELSE "rereading"]
    /\ UNCHANGED <<lease, receipt, mine, cur, fut, effects, outcome>>

\* review_context: the receipt behind that request must still be in progress.
ReviewReceipt(p) ==
    /\ pc[p] = "judged"
    /\ pc' = [pc EXCEPT ![p] = IF MyReceipt(p).status = "in_progress"
                              THEN "deciding" ELSE "rereading"]
    /\ UNCHANGED <<dbVars, mine, cur, fut, effects, outcome>>

\* The verdict is stored for whatever request the tool_call_id selects now; a
\* refused one (a person or the expiry was faster) is dropped.
ReviewDecide(p, v) ==
    /\ pc[p] = "deciding"
    /\ \/ DecideApproval(p, cur[p].call, v)
       \/ /\ ~\E r \in Run : Decidable(cur[p].call, v, r)
          /\ UNCHANGED <<approval, fut>>
    /\ pc' = [pc EXCEPT ![p] = "rereading"]
    /\ UNCHANGED <<lease, receipt, mine, cur, effects, outcome>>

\* The durable status is read again and resolves a future that is still open.
Reread(p) ==
    /\ pc[p] = "rereading"
    /\ approval' = Swept
    /\ \E r \in Run :
         /\ Selects(Swept, cur[p].call, r)
         /\ fut' = IF fut[p] = "open" /\ Swept[r][cur[p].call].status # "pending"
                   THEN [fut EXCEPT ![p] = Answer(Swept[r][cur[p].call].status)]
                   ELSE fut
    /\ pc' = [pc EXCEPT ![p] = "waiting"]
    /\ UNCHANGED <<lease, receipt, mine, cur, effects, outcome>>

\* decide_approval through any live process; only the process that hosts the
\* future can wake the waiting loop.  A refused decision rolls everything back.
UserDecide(q, c, v) ==
    /\ pc[q] # "off"
    /\ DecideApproval(q, c, v)
    /\ UNCHANGED <<lease, receipt, pc, mine, cur, effects, outcome>>

\* fail_tool_action("approval_denied") for a future that resolved to no
Decline(p) ==
    /\ pc[p] = "waiting"
    /\ fut[p] = "no"
    /\ IF MyReceipt(p).status = "in_progress"
       THEN Settle(p, "failed") /\ pc' = [pc EXCEPT ![p] = "model"]
       ELSE pc' = [pc EXCEPT ![p] = "ending"] /\ UNCHANGED receipt
    /\ UNCHANGED <<lease, approval, mine, cur, fut, effects, outcome>>

\* verify_approval: the durable decision is read again for the exact action
VerifyApproval(p) ==
    /\ pc[p] = "waiting"
    /\ fut[p] = "yes"
    /\ approval' = Swept
    /\ LET c == cur[p].call
           valid == /\ Selects(Swept, c, mine[p])
                    /\ Swept[mine[p]][c].status = "approved"
                    /\ Swept[mine[p]][c].decision = "yes"
                    /\ MyReceipt(p).status = "in_progress"
       IN  pc' = [pc EXCEPT ![p] = IF valid THEN "verified" ELSE "failing"]
    /\ UNCHANGED <<lease, receipt, mine, cur, fut, effects, outcome>>

\* verify_execution and authorize_tool_action, then tools.execute is entered
VerifyExecution(p) ==
    /\ \/ pc[p] = "claimed" /\ ~NeedsApproval(p)
       \/ pc[p] = "verified"
    /\ pc' = [pc EXCEPT ![p] = IF Holds(p) THEN "executing" ELSE "failing"]
    /\ UNCHANGED <<lease, receipt, approval, mine, cur, fut, effects, outcome>>

\* The tool's side effect happens inside tools.execute.
Effect(p) ==
    /\ pc[p] = "executing"
    /\ effects' = [effects EXCEPT ![mine[p]][cur[p].call] = @ + 1]
    /\ pc' = [pc EXCEPT ![p] = "executed"]
    /\ UNCHANGED <<lease, receipt, approval, mine, cur, fut, outcome>>

\* ToolError from tools.execute or from the capability broker
ToolFails(p) ==
    /\ pc[p] \in {"executing", "executed"}
    /\ pc' = [pc EXCEPT ![p] = "failing"]
    /\ UNCHANGED <<dbVars, mine, cur, fut, effects, outcome>>

\* Mutant of Complete: the UPDATE lacks its WHERE status = in_progress.
CompleteAnyway(p) ==
    /\ pc[p] = "executed"
    /\ Settle(p, "completed")
    /\ pc' = [pc EXCEPT ![p] = "model"]
    /\ UNCHANGED <<lease, approval, mine, cur, fut, effects, outcome>>

\* complete_tool_action; a receipt that is no longer in progress fails the run
Complete(p) ==
    /\ pc[p] = "executed"
    /\ IF MyReceipt(p).status = "in_progress"
       THEN Settle(p, "completed") /\ pc' = [pc EXCEPT ![p] = "model"]
       ELSE pc' = [pc EXCEPT ![p] = "ending"] /\ UNCHANGED receipt
    /\ UNCHANGED <<lease, approval, mine, cur, fut, effects, outcome>>

\* Mutant of Fail: the error result is stored as a completed action.
FailAsCompleted(p) ==
    /\ pc[p] = "failing"
    /\ MyReceipt(p).status = "in_progress"
    /\ Settle(p, "completed")
    /\ pc' = [pc EXCEPT ![p] = "model"]
    /\ UNCHANGED <<lease, approval, mine, cur, fut, effects, outcome>>

\* fail_tool_action with the tool's error
Fail(p) ==
    /\ pc[p] = "failing"
    /\ IF MyReceipt(p).status = "in_progress"
       THEN Settle(p, "failed") /\ pc' = [pc EXCEPT ![p] = "model"]
       ELSE pc' = [pc EXCEPT ![p] = "ending"] /\ UNCHANGED receipt
    /\ UNCHANGED <<lease, approval, mine, cur, fut, effects, outcome>>
-----------------------------------------------------------------------------
(***************************************************************************)
(* The end of a run, and what happens around it.                           *)
(***************************************************************************)
\* Mutant of Stop: the wait for a decision has no deadline.
StopNotWaiting(p) ==
    /\ pc[p] \in {"admitted", "model", "asking", "reviewing", "executing", "executed"}
    /\ pc' = [pc EXCEPT ![p] = "ending"]
    /\ UNCHANGED <<dbVars, mine, cur, fut, effects, outcome>>

\* The run leaves an await: agent finished, deadline, cancellation, refused
\* renewal or closed stream.  A receipt in progress stays as it is.
Stop(p) ==
    /\ pc[p] \in {"admitted", "model", "asking", "reviewing", "waiting",
                  "executing", "executed"}
    /\ pc' = [pc EXCEPT ![p] = "ending"]
    /\ UNCHANGED <<dbVars, mine, cur, fut, effects, outcome>>

\* The finally block: _clear_session_approvals and release_session_run
EndRun(p) ==
    /\ pc[p] = "ending"
    /\ lease' = IF lease.gen = mine[p] /\ lease.owner = p /\ ~lease.released
                THEN [lease EXCEPT !.released = TRUE, !.ttl = 0] ELSE lease
    /\ fut' = [fut EXCEPT ![p] = "none"]
    /\ mine' = [mine EXCEPT ![p] = 0]
    /\ pc' = [pc EXCEPT ![p] = "idle"]
    /\ UNCHANGED <<receipt, approval, cur, effects, outcome>>

\* cancel_session through any live process
CancelSession(q) ==
    /\ pc[q] # "off"
    /\ Unexpired
    /\ lease' = [lease EXCEPT !.cancelled = TRUE]
    /\ UNCHANGED <<receipt, approval, procVars, effects, outcome>>

\* list_approval_requests / get_approval_request from a client
ListApprovals(q) ==
    /\ pc[q] # "off"
    /\ approval' = Swept
    /\ UNCHANGED <<lease, receipt, procVars, effects, outcome>>

Crash(p) ==
    /\ pc[p] # "off"
    /\ pc' = [pc EXCEPT ![p] = "off"]
    /\ mine' = [mine EXCEPT ![p] = 0]
    /\ fut' = [fut EXCEPT ![p] = "none"]
    /\ UNCHANGED <<dbVars, cur, effects, outcome>>

\* SQLiteStore.initialize: receipts without a live bound lease are unknown,
\* overdue approvals expire.
Restart(p) ==
    /\ pc[p] = "off"
    /\ LET live == {r \in Run : Unexpired /\ lease.bound /\ ~lease.cancelled /\ lease.gen = r}
       IN  receipt' = MarkUnknown(receipt, Run \ live)
    /\ approval' = Swept
    /\ pc' = [pc EXCEPT ![p] = "idle"]
    /\ UNCHANGED <<lease, mine, cur, fut, effects, outcome>>

Minus1(n) == IF n = 0 THEN 0 ELSE n - 1

Tick ==
    /\ lease' = [lease EXCEPT !.ttl = Minus1(@)]
    /\ approval' = [r \in Run |-> [c \in Call |->
                      [approval[r][c] EXCEPT !.ttl = Minus1(@)]]]
    /\ UNCHANGED <<receipt, procVars, effects, outcome>>

\* Everything the coroutine of p does by itself, the heartbeat left out
Progress(p) ==
    \/ BindAgent(p)
    \/ \E c \in Call, h \in Hash : Reserve(p, c, h)
    \/ RequestApproval(p) \/ BeginWait(p)
    \/ ReviewLatest(p) \/ ReviewReceipt(p) \/ Reread(p)
    \/ \E v \in {"yes", "no"} : ReviewDecide(p, v)
    \/ Decline(p) \/ VerifyApproval(p) \/ VerifyExecution(p)
    \/ Effect(p) \/ ToolFails(p) \/ Complete(p) \/ Fail(p)
    \/ Stop(p) \/ EndRun(p)

ClientStep(p) ==
    \/ AdmitPendingApproval(p) \/ AdmitBusy(p) \/ AdmitUncertain(p) \/ AdmitGranted(p)
    \/ \E c \in Call, v \in {"yes", "no"} : UserDecide(p, c, v)
    \/ CancelSession(p) \/ ListApprovals(p)

Next ==
    \/ \E p \in Proc : Progress(p) \/ Renew(p) \/ ClientStep(p) \/ Crash(p) \/ Restart(p)
    \/ Tick

Spec == Init /\ [][Next]_vars

\* A live process schedules its coroutines and every run has a deadline
\* (run_session, budget.timeout_seconds); time passes.  Heartbeats, users,
\* new requests, crashes and restarts are owed nothing.
Fairness == WF_vars(Tick) /\ \A p \in Proc : WF_vars(Progress(p))

FairSpec == Spec /\ Fairness
-----------------------------------------------------------------------------
(***************************************************************************)
(* Properties.                                                             *)
(***************************************************************************)
Settled(s) == s \in {"none", "completed", "failed"}

\* Two Core processes are never inside a side effect of the same Session at
\* the same time, even when a lease runs out under a stalled process: the
\* uncertain receipt refuses the next admission (acquire_session_run_lease).
SideEffectExclusion ==
    \A p, q \in Proc :
        (pc[p] \in {"executing", "executed"} /\ pc[q] \in {"executing", "executed"}) => p = q

\* A tool call of a run has its side effect at most once, whatever crashes,
\* restarts and new admissions happen (reserve_tool_action).
AtMostOnce == \A r \in Run, c \in Call : effects[r][c] <= 1

\* An action that the policy wants approved, or for which the tool asked,
\* has its effect only under a durable positive decision (verify_approval).
ApprovedOnly ==
    \A r \in Run, c \in Call :
        (effects[r][c] > 0 /\ (receipt[r][c].hash \in AskHash \/ approval[r][c].status # "none"))
            => approval[r][c].decision = "yes"

\* The receipts never claim an effect that did not happen, nor hide one:
\* completed means it happened, no receipt or a denial means it did not
\* (complete_tool_action, the denial clean-up of acquire_session_run_lease).
ReceiptsTruthful ==
    \A r \in Run, c \in Call :
        /\ receipt[r][c].status = "completed" => effects[r][c] = 1
        /\ receipt[r][c].status = "none" => effects[r][c] = 0
        /\ approval[r][c].decision = "no" => effects[r][c] = 0

\* Once a newer run is admitted, nothing of an older one is open or will be:
\* its receipts are settled and its approvals are not pending
\* (acquire_session_run_lease, and the fenced check of reserve_tool_action).
OldRunsSettled ==
    \A r \in Run, c \in Call :
        r < lease.gen => /\ Settled(receipt[r][c].status)
                         /\ approval[r][c].status # "pending"

\* decide_approval and get_approval_request find at most one pending request,
\* so the error "multiple pending approvals" of _select_approval_row never occurs.
OnePending == \A x, y \in PendingIn(approval) : x = y

\* A settled receipt and a decision are final, and an unknown outcome is only
\* resolved by a denial, never back to in_progress or to completed.
SettledStays ==
    [][\A r \in Run, c \in Call :
        /\ receipt[r][c].status \in {"completed", "failed"} => receipt'[r][c] = receipt[r][c]
        /\ approval[r][c].decision # "none"
             => approval'[r][c].decision = approval[r][c].decision
        /\ receipt[r][c].status = "outcome_unknown"
             => \/ receipt'[r][c] = receipt[r][c]
                \/ receipt'[r][c].status = "failed" /\ approval[r][c].decision = "no"]_vars

\* Every admitted run ends or its process dies: no wait of run_session, the
\* one for an approval that nobody decides included, is without a deadline.
RunEnds == \A p \in Proc : pc[p] = "admitted" ~> pc[p] \in {"idle", "off"}

\* A lease never blocks the Session for ever: it is released by its run or
\* runs out after its owner died (expires_at, release_session_run_lease).
SessionFreed == []<>~Unexpired
=============================================================================

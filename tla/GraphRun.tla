-------------------------------- MODULE GraphRun --------------------------------
(***************************************************************************)
(* One GraphRun: the runtime of application/graph.py, the executor of      *)
(* application/graph_execution.py that drives it, and what a Core does     *)
(* with it when it starts, stops or dies (api_phase23.py, api_b2_4.py).    *)
(*                                                                         *)
(* The methods of the runtime are synchronous: no other task of the Core   *)
(* acts while one runs.  But each is a sequence of SQLite transactions,    *)
(* and the Core may die between any two.  So a step here is a transaction; *)
(* call holds what the method has still to do.  Between methods, the tasks *)
(* of the nodes, the executor loop and the API interleave.                 *)
(*                                                                         *)
(* One Core at a time serves the database, as the documents require of a   *)
(* graph: the next one starts when the last is gone.                       *)
(*                                                                         *)
(* Ports, payloads and conditions are abstracted to out[n]: the nodes whose*)
(* edges the result of n enables.  waiting_input and waiting_approval are  *)
(* one status, of runs and of nodes; manual is manual_reconcile_required.  *)
(* An attempt marked started is one whose effect may have happened; effects*)
(* counts the ones that did.                                               *)
(***************************************************************************)
EXTENDS Naturals, FiniteSets

CONSTANTS
    Node,          \* the nodes of a definition, in the order of their rows
    Definitions,   \* the published definitions a run may have
    MaxAttempts,   \* max_attempts of the retry policies
    MaxParallel,   \* max_parallel_nodes of the graph limits
    MaxIterations, \* max_iterations of the loop policies
    MaxStarts      \* bound: how often a Core is started

Kind == {"work", "condition", "boundary", "loop"}
\* any, all: join_mode of the incoming edges; join: ALL into a join node that
\* may run with no input; join_required: into one with a required input
JoinMode == {"all", "any", "join", "join_required"}
Class == {"pure", "idempotent", "non_idempotent"}
Policy == {"fail", "skip", "manual"}

\* A definition as the compiler accepts it.  edges: the edges that are not
\* loop_back, as pairs; back: the loop_back edges; branches: what a success may
\* enable; late: the target of a timeout or of a loop limit, if there is one
Definition == [kind : [Node -> Kind], edges : SUBSET (Node \X Node),
               back : SUBSET (Node \X Node), join : [Node -> JoinMode],
               class : [Node -> Class], policy : [Node -> Policy],
               branches : [Node -> SUBSET SUBSET Node], late : [Node -> SUBSET Node]]

\* empty_graph: a workflow has a node
ASSUME GraphConstants ==
    /\ Node \subseteq Nat /\ IsFiniteSet(Node) /\ Node # {}
    /\ Definitions \subseteq Definition
    /\ MaxAttempts \in Nat \ {0} /\ MaxParallel \in Nat \ {0}
    /\ MaxIterations \in Nat \ {0} /\ MaxStarts \in Nat

\* The nodes that can be reached from S over the edges R
Reach(S, R) ==
    {n \in Node : \A X \in SUBSET Node :
        (S \subseteq X /\ \A e \in R : e[1] \in X => e[2] \in X) => n \in X}

\* illegal_cycle, invalid_loop_back: without the back edges there is no cycle,
\* and a back edge starts at a loop; the success of a loop never enables the
\* edge to the node of its limit (_edge_state).  Here every loop has such a
\* node, and only work has effects.
ASSUME Compiled ==
    \A d \in Definitions :
        /\ \A e \in d.edges : e[1] \notin Reach({e[2]}, d.edges)
        /\ \A e \in d.back : d.kind[e[1]] = "loop"
        /\ \A n \in Node :
            /\ d.kind[n] = "loop" =>
                  d.late[n] # {} /\ \A o \in d.branches[n] : o \cap d.late[n] = {}
            /\ d.kind[n] # "work" => d.class[n] = "pure"

VARIABLES
    def,       \* the frozen definition of the run
    run,       \* the graph_workflow_runs row; status "none": no row
    node,      \* node[n]: status of the node_runs row
    out,       \* out[n]: what the output_refs of n enable
    try,       \* try[n]: the latest node_attempts row of n; no 0: none
    iteration, \* iteration[n]: occurrences of n, and decisions if n is a loop
    core,      \* the Core process
    drive,     \* its executor loop for the run
    task,      \* task[n]: the asyncio task of n in the executor
    call,      \* the runtime method in progress
    starts,    \* how often a Core was started
    effects    \* effects[n]: effects in this occurrence of n (history)

rowVars == <<run, node, out, try, iteration>>
coreVars == <<core, drive, task, call, starts>>
vars == <<def, rowVars, coreVars, effects>>

RunEnd == {"completed", "failed", "cancelled", "manual"}
RunLive == {"created", "running", "waiting", "interrupted"}
NodeActive == {"ready", "running", "retry_wait"}
NodeOpen == {"pending", "waiting"} \cup NodeActive
NodeEnd == {"succeeded", "skipped", "failed", "cancelled", "manual"}

\* at: the node whose attempt is closed and whose own row is next, or the loop
\* whose body is unlocked; goal: the status the method ends with, or whether
\* it recovers a resumed or a restarted run; manual: its local variable
Call == [pc : {"idle", "propagate", "refresh", "terminalize", "reset", "derive",
               "unlock", "end"},
         at : SUBSET Node, manual : BOOLEAN,
         goal : {"none", "resumed", "restarted", "interrupted"} \cup RunEnd]
Idle == [pc |-> "idle", at |-> {}, manual |-> FALSE, goal |-> "none"]
NoTry == [no |-> 0, result |-> "none", effect |-> "none"]

Tasks == {n \in Node : task[n] # "none"}

TypeOK ==
    /\ def \in Definitions
    /\ run \in [status : {"none"} \cup RunLive \cup RunEnd, started : BOOLEAN]
    /\ node \in [Node -> NodeOpen \cup NodeEnd]
    /\ out \in [Node -> SUBSET Node]
    /\ try \in [Node -> [no : Nat,
                         result : {"none", "running", "succeeded", "failed", "cancelled",
                                   "interrupted"},
                         effect : {"none", "not_started", "started", "unknown"}]]
    /\ iteration \in [Node -> Nat]
    /\ core \in {"down", "up", "stopping"}
    /\ drive \in {"off", "on", "expired"}
    /\ task \in [Node -> {"none", "created", "open", "marked", "cleared", "acted"}]
    /\ call \in Call
    /\ starts \in 0..MaxStarts
    /\ effects \in [Node -> Nat]
    /\ Cardinality(Tasks) <= MaxParallel

In(n) == {m \in Node : <<m, n>> \in def.edges}
Entry(n) == In(n) = {}

\* create_run inserts the run and its nodes in one transaction.
Init ==
    /\ def \in Definitions
    /\ run = [status |-> "none", started |-> FALSE]
    /\ node = [n \in Node |-> IF Entry(n) THEN "ready" ELSE "pending"]
    /\ out = [n \in Node |-> {}]
    /\ try = [n \in Node |-> NoTry]
    /\ iteration = [n \in Node |-> 0]
    /\ core = "down"
    /\ drive = "off"
    /\ task = [n \in Node |-> "none"]
    /\ call = Idle
    /\ starts = 0
    /\ effects = [n \in Node |-> 0]
-----------------------------------------------------------------------------
(***************************************************************************)
(* Routing: _edge_state and _propagate_dependencies.                       *)
(***************************************************************************)
\* Mutant of Active: every edge of a success is taken, chosen or not.
ActiveUnchosen(m, n) == node[m] = "succeeded" \/ (node[m] = "skipped" /\ n \in out[m])

\* The edge from m to n has a value; it is disabled if m is resolved without.
Active(m, n) == node[m] \in {"succeeded", "skipped"} /\ n \in out[m]
Resolved(m) == node[m] \in NodeEnd

\* Mutant of Enabled: a join waits for every branch to run.
EnabledJoinAll(n) ==
    IF def.join[n] = "any" THEN \E m \in In(n) : Active(m, n)
    ELSE \A m \in In(n) : Active(m, n)

\* n becomes ready
Enabled(n) ==
    CASE def.join[n] = "any" -> \E m \in In(n) : Active(m, n)
      [] def.join[n] = "all" -> \A m \in In(n) : Active(m, n)
      [] def.join[n] = "join" -> \A m \in In(n) : Resolved(m)
      [] def.join[n] = "join_required" -> /\ \A m \in In(n) : Resolved(m)
                                          /\ \E m \in In(n) : Active(m, n)

\* n is skipped
Disabled(n) ==
    CASE def.join[n] = "all" -> \E m \in In(n) : Resolved(m) /\ ~Active(m, n)
      [] def.join[n] = "join" -> FALSE
      [] def.join[n] \in {"any", "join_required"} ->
            \A m \in In(n) : Resolved(m) /\ ~Active(m, n)

Routable(n) == node[n] = "pending" /\ ~Entry(n) /\ (Enabled(n) \/ Disabled(n))

Settled == \A n \in Node : node[n] \in {"succeeded", "skipped"}
Running == {n \in Node : node[n] = "running"}
Open == {n \in Node : node[n] \in NodeOpen}
Some(S) == \E n \in Node : node[n] \in S

\* Mutant of Desired: a run that waits is not set running again.
DesiredWaits ==
    IF Settled THEN "completed" ELSE IF Some({"waiting"}) THEN "waiting" ELSE run.status

\* _finish_if_terminal, _refresh_run_activity_status
Desired ==
    IF Settled THEN "completed"
    ELSE IF ~run.started THEN "created"
    ELSE IF Some({"manual"}) THEN "manual"
    ELSE IF Some({"failed"}) THEN "failed"
    ELSE IF Some(NodeActive) THEN "running"
    ELSE IF Some({"waiting"}) THEN "waiting"
    ELSE run.status
-----------------------------------------------------------------------------
(***************************************************************************)
(* Phases of a runtime method.                                             *)
(***************************************************************************)
Up == core = "up" /\ call.pc = "idle"
\* The rows are read and handled in their order.
First(n, S) == n \in S /\ \A m \in S : n <= m
Goto(pc, goal) == call' = [Idle EXCEPT !.pc = pc, !.goal = goal]
Return == call' = Idle

\* _propagate_dependencies, one node
Route(n) ==
    /\ call.pc = "propagate"
    /\ Routable(n)
    /\ node' = [node EXCEPT ![n] = IF Enabled(n) THEN "ready" ELSE "skipped"]
    /\ UNCHANGED <<def, run, out, try, iteration, coreVars, effects>>

\* The fixed point is reached.  A Core that starts goes on to interrupt.
Settle ==
    /\ \/ call.pc = "refresh"
       \/ call.pc = "propagate" /\ \A n \in Node : ~Routable(n)
    /\ run' = [run EXCEPT !.status = Desired]
    /\ IF call.goal = "restarted" /\ run.started /\ Desired \in RunLive
       THEN Goto("end", "interrupted")
       ELSE Return
    /\ UNCHANGED <<def, node, out, try, iteration, core, drive, task, starts, effects>>

\* Mutant of UnknownWrite: only an attempt whose outcome is noted as unknown.
UnknownWriteNoted(n) == def.class[n] = "non_idempotent" /\ try[n].effect = "unknown"

\* _unknown_non_idempotent_write
UnknownWrite(n) == def.class[n] = "non_idempotent" /\ try[n].effect \in {"started", "unknown"}

\* _terminalize_active_nodes and _reset_interrupted_nodes close an attempt ...
CloseAttempt(n) ==
    /\ call.at = {}
    /\ \/ call.pc = "terminalize" /\ First(n, Open)
       \/ call.pc = "reset" /\ First(n, Running)
    /\ node[n] = "running" /\ try[n].result = "running"
    /\ try' = [try EXCEPT ![n] =
                 [no |-> try[n].no,
                  result |-> IF call.pc = "reset" \/ UnknownWrite(n) THEN "interrupted"
                             ELSE "cancelled",
                  effect |-> IF UnknownWrite(n) THEN "unknown" ELSE try[n].effect]]
    /\ call' = [call EXCEPT !.at = {n}]
    /\ UNCHANGED <<def, run, node, out, iteration, core, drive, task, starts, effects>>

\* ... and then save its node, or a node that has no attempt to close.
CloseNode(n) ==
    LET unknown == call.at = {n} /\ UnknownWrite(n)
    IN  /\ call.pc = "terminalize" /\ First(n, Open)
        /\ \/ call.at = {n}
           \/ call.at = {} /\ ~(node[n] = "running" /\ try[n].result = "running")
        /\ node' = [node EXCEPT ![n] = IF unknown THEN "manual" ELSE "cancelled"]
        /\ call' = [call EXCEPT !.at = {}, !.manual = @ \/ unknown]
        /\ UNCHANGED <<def, run, out, try, iteration, core, drive, task, starts, effects>>

ResetNode(n) ==
    /\ call.pc = "reset" /\ First(n, Running)
    /\ call.at = {n} \/ try[n].result # "running"
    /\ node' = [node EXCEPT ![n] = IF UnknownWrite(n) THEN "manual" ELSE "ready"]
    /\ call' = [call EXCEPT !.at = {}, !.manual = @ \/ UnknownWrite(n)]
    /\ UNCHANGED <<def, run, out, try, iteration, core, drive, task, starts, effects>>

\* recover goes on from the facts: nothing is interrupted any more.
Derive ==
    /\ call.pc = "reset" /\ Running = {}
    /\ ~call.manual /\ call.goal # "interrupted"
    /\ call' = [call EXCEPT !.pc = "derive"]
    /\ UNCHANGED <<def, rowVars, core, drive, task, starts, effects>>

\* Mutant of Derived: a skip is always taken to be a routing decision.
DerivedAnySkip(n) == ~Entry(n) /\ node[n] \in {"ready", "skipped"}

\* _reset_derived_dependency_states: what was routed, not what was skipped by
\* a timeout, a loop limit or a failure
Derived(n) ==
    /\ ~Entry(n)
    /\ \/ node[n] = "ready"
       \/ node[n] = "skipped" /\ out[n] = {} /\ try[n].result # "failed"

ForgetRouting(n) ==
    /\ call.pc = "derive" /\ First(n, {m \in Node : Derived(m)})
    /\ node' = [node EXCEPT ![n] = "pending"]
    /\ UNCHANGED <<def, run, out, try, iteration, coreVars, effects>>

Rederive ==
    /\ call.pc = "derive" /\ {m \in Node : Derived(m)} = {}
    /\ call' = [call EXCEPT !.pc = "propagate"]
    /\ UNCHANGED <<def, rowVars, core, drive, task, starts, effects>>

\* The last transaction of cancel_run, fail_run, interrupt_run, of a recovery
\* that ends in manual, and of complete_attempt after a failure
EndMethod ==
    /\ \/ call.pc = "end"
       \/ call.pc = "terminalize" /\ Open = {}
       \/ /\ call.pc = "reset" /\ Running = {}
          /\ call.manual \/ call.goal = "interrupted"
    /\ run' = [run EXCEPT !.status = IF call.manual THEN "manual" ELSE call.goal]
    /\ Return
    /\ UNCHANGED <<def, node, out, try, iteration, core, drive, task, starts, effects>>
-----------------------------------------------------------------------------
(***************************************************************************)
(* Attempts of work nodes, each in an asyncio task of the executor.        *)
(***************************************************************************)
Attempted(n, result, effect) ==
    try' = [try EXCEPT ![n] = [no |-> try[n].no, result |-> result, effect |-> effect]]
Leave(n) == task' = [task EXCEPT ![n] = "none"]

\* Mutant of Chosen: the tasks that still run do not count.
ChosenAnyway(n) == Cardinality({m \in Node : node[m] = "ready" /\ m < n}) < MaxParallel

\* The free slots go to the first nodes that are ready, a loop that cannot
\* decide yet included.
Chosen(n) ==
    Cardinality({m \in Node : node[m] = "ready" /\ m < n}) + Cardinality(Tasks) < MaxParallel

\* The loop of _run_locked creates a task for a node that is ready.
Launch(n) ==
    /\ Up /\ drive = "on" /\ run.status \in {"running", "waiting"}
    /\ def.kind[n] = "work" /\ node[n] \in {"ready", "retry_wait"}
    /\ task[n] = "none" /\ Chosen(n)
    /\ task' = [task EXCEPT ![n] = "created"]
    /\ UNCHANGED <<def, rowVars, core, drive, call, starts, effects>>

\* start_attempt; only an attempt that is not pure has a boundary to mark
StartAttempt(n) ==
    /\ Up /\ task[n] = "created" /\ run.status = "running"
    /\ node[n] \in {"ready", "retry_wait"} /\ Cardinality(Running) < MaxParallel
    /\ node' = [node EXCEPT ![n] = "running"]
    /\ try' = [try EXCEPT ![n] = [no |-> try[n].no + 1, result |-> "running",
                 effect |-> IF def.class[n] = "pure" THEN "none" ELSE "not_started"]]
    /\ task' = [task EXCEPT ![n] = IF def.class[n] = "pure" THEN "cleared" ELSE "open"]
    /\ UNCHANGED <<def, run, out, iteration, core, drive, call, starts, effects>>

\* mark_side_effect_started, before the effect may happen.  A tool or script of
\* a writer has its workspace and its approval still to get (marked).
MarkStarted(n) ==
    /\ Up /\ task[n] = "open" /\ run.status = "running" /\ try[n].result = "running"
    /\ Attempted(n, "running", "started")
    /\ \E t \in {"marked", "cleared"} :
         /\ t = "marked" => def.class[n] = "non_idempotent"
         /\ task' = [task EXCEPT ![n] = t]
    /\ UNCHANGED <<def, run, node, out, iteration, core, drive, call, starts, effects>>

\* dispatched = True in _execute_action_node, after a last look at the run
Dispatch(n) ==
    /\ Up /\ task[n] = "marked" /\ run.status = "running"
    /\ task' = [task EXCEPT ![n] = "cleared"]
    /\ UNCHANGED <<def, rowVars, core, drive, call, starts, effects>>

\* The effect itself; nothing looks at the run between being cleared and this.
Act(n) ==
    /\ Up /\ task[n] = "cleared" /\ def.class[n] # "pure"
    /\ effects' = [effects EXCEPT ![n] = @ + 1]
    /\ task' = [task EXCEPT ![n] = "acted"]
    /\ UNCHANGED <<def, rowVars, core, drive, call, starts>>

\* complete_attempt asserts that the attempt is the active one of a live run.
Completes(n) ==
    /\ Up /\ run.status = "running"
    /\ node[n] = "running" /\ try[n].result = "running"

Succeed(n, o) ==
    /\ Completes(n) /\ task[n] \in {"cleared", "acted"}
    /\ node' = [node EXCEPT ![n] = "succeeded"]
    /\ out' = [out EXCEPT ![n] = o]
    /\ Attempted(n, "succeeded", try[n].effect)
    /\ Leave(n)
    /\ Goto("propagate", "none")
    /\ UNCHANGED <<def, run, iteration, core, drive, starts, effects>>

\* Mutant of FailedEffect: the failure is taken for proof that nothing happened.
FailedEffectStored(n) == try[n].effect

\* _complete_failed_attempt: once it is cleared to act, the outcome of a
\* non-idempotent attempt that failed is unknown
FailedEffect(n) ==
    IF def.class[n] = "non_idempotent" /\ task[n] \in {"cleared", "acted"}
    THEN "unknown" ELSE try[n].effect

Retries(n) == try[n].no < MaxAttempts /\ def.class[n] # "non_idempotent"

\* What becomes of a node whose attempt has failed
FailedStatus(n) ==
    CASE FailedEffect(n) = "unknown" -> "manual"
      [] FailedEffect(n) # "unknown" /\ Retries(n) -> "retry_wait"
      [] OTHER -> CASE def.policy[n] = "skip" -> "skipped"
                    [] def.policy[n] = "manual" -> "manual"
                    [] def.policy[n] = "fail" -> "failed"

Fail(n) ==
    /\ Completes(n) /\ task[n] \in {"open", "marked", "cleared", "acted"}
    /\ node' = [node EXCEPT ![n] = FailedStatus(n)]
    /\ Attempted(n, "failed", IF FailedStatus(n) = "manual" THEN "unknown" ELSE FailedEffect(n))
    /\ Leave(n)
    /\ \/ FailedStatus(n) = "retry_wait" /\ UNCHANGED call
       \/ FailedStatus(n) = "skipped" /\ Goto("propagate", "none")
       \/ FailedStatus(n) = "failed" /\ Goto("terminalize", "failed")
       \/ FailedStatus(n) = "manual" /\ Goto("end", "manual")
    /\ UNCHANGED <<def, run, out, iteration, core, drive, starts, effects>>

\* The task finds that the run does not go on, and gives up without a trace.
GiveUp(n) ==
    /\ Up /\ task[n] # "none" /\ run.status # "running"
    /\ Leave(n)
    /\ UNCHANGED <<def, rowVars, core, drive, call, starts, effects>>
-----------------------------------------------------------------------------
(***************************************************************************)
(* Control nodes and boundaries.                                           *)
(***************************************************************************)
Controls(n, kind) ==
    /\ Up /\ drive = "on" /\ run.status = "running"
    /\ def.kind[n] = kind /\ node[n] = "ready" /\ Chosen(n)

\* A result of n is saved and the dependencies are propagated.
Result(n, status, o) ==
    /\ node' = [node EXCEPT ![n] = status]
    /\ out' = [out EXCEPT ![n] = o]
    /\ Goto("propagate", "none")

\* select_condition
Decide(n, o) ==
    /\ Controls(n, "condition")
    /\ Result(n, "succeeded", o)
    /\ UNCHANGED <<def, run, try, iteration, core, drive, task, starts, effects>>

\* enter_boundary
Enter(n) ==
    /\ Controls(n, "boundary")
    /\ node' = [node EXCEPT ![n] = "waiting"]
    /\ Goto("refresh", "none")
    /\ UNCHANGED <<def, run, out, try, iteration, core, drive, task, starts, effects>>

Waits(n) == Up /\ run.status \in {"running", "waiting"} /\ node[n] = "waiting"

\* resolve_boundary: accepted ...
Accept(n, o) ==
    /\ Waits(n)
    /\ Result(n, "succeeded", o)
    /\ UNCHANGED <<def, run, try, iteration, core, drive, task, starts, effects>>

\* ... or refused
Refuse(n) ==
    /\ Waits(n)
    /\ node' = [node EXCEPT ![n] = "failed"]
    /\ Goto("terminalize", "failed")
    /\ UNCHANGED <<def, run, out, try, iteration, core, drive, task, starts, effects>>

\* timeout_boundary, by the executor
Timeout(n) ==
    /\ Waits(n) /\ drive = "on" /\ def.late[n] # {}
    /\ Result(n, "skipped", def.late[n])
    /\ UNCHANGED <<def, run, try, iteration, core, drive, task, starts, effects>>

\* A boundary that merges has a merge run of unknown outcome behind it.
Doubt(n) ==
    /\ Waits(n) /\ drive = "on"
    /\ run' = [run EXCEPT !.status = "manual"]
    /\ UNCHANGED <<def, node, out, try, iteration, coreVars, effects>>

\* The nodes a loop node repeats, itself included: _loop_cycle_nodes
Targets(l) == {m \in Node : <<l, m>> \in def.back}
Flow == def.edges \cup def.back
Cycle(l) == Reach(Targets(l), Flow) \cap Reach({l}, {<<e[2], e[1]>> : e \in Flow})

\* advance_loop, called when the body has settled
Advances(l) ==
    /\ Controls(l, "loop")
    /\ \A n \in Cycle(l) \ {l} : node[n] \in {"succeeded", "skipped"}
    /\ iteration' = [iteration EXCEPT ![l] = @ + 1]

Exit(l, o) ==
    /\ Advances(l) /\ iteration[l] < MaxIterations
    /\ Result(l, "succeeded", o)
    /\ UNCHANGED <<def, run, try, core, drive, task, starts, effects>>

\* max_iterations, or any other limit
Limit(l) ==
    /\ Advances(l)
    /\ Result(l, "skipped", def.late[l])
    /\ UNCHANGED <<def, run, try, core, drive, task, starts, effects>>

MayRepeat(l) == iteration[l] + 1 < MaxIterations

Repeat(l) ==
    /\ Advances(l) /\ MayRepeat(l)
    /\ node' = [node EXCEPT ![l] = "pending"]
    /\ call' = [Idle EXCEPT !.pc = "unlock", !.at = {l}]
    /\ UNCHANGED <<def, run, out, try, core, drive, task, starts, effects>>

\* _reset_loop_occurrence of the rest of the cycle and the nodes it branches
\* to, then of the targets of the loop
Old(n) == node[n] \in {"succeeded", "skipped", "failed"}
Rest(l) == {n \in Node \ Targets(l) : Old(n) /\ (n \in Cycle(l) \/ \E m \in Cycle(l) : m \in In(n))}
Again(l) == {n \in Targets(l) : Old(n) \/ node[n] = "pending"}

Unlock(n) ==
    /\ call.pc = "unlock"
    /\ \E l \in call.at : IF Rest(l) # {} THEN First(n, Rest(l)) ELSE n \in Again(l)
    /\ node' = [node EXCEPT ![n] = IF \E l \in call.at : n \in Targets(l) THEN "ready" ELSE "pending"]
    /\ out' = [out EXCEPT ![n] = {}]
    /\ iteration' = [iteration EXCEPT ![n] = IF Old(n) THEN @ + 1 ELSE @]
    /\ effects' = [effects EXCEPT ![n] = 0]
    /\ UNCHANGED <<def, run, try, coreVars>>

Unlocked ==
    /\ call.pc = "unlock"
    /\ \A l \in call.at : Rest(l) \cup Again(l) = {}
    /\ Return
    /\ UNCHANGED <<def, rowVars, core, drive, task, starts, effects>>
-----------------------------------------------------------------------------
(***************************************************************************)
(* The executor, the API, and the Core process.                            *)
(***************************************************************************)
\* create_run
Create ==
    /\ Up /\ run.status = "none"
    /\ run' = [run EXCEPT !.status = "created"]
    /\ UNCHANGED <<def, node, out, try, iteration, coreVars, effects>>

\* start_run, by the API after create_run or by the Scheduler
StartRun ==
    /\ Up /\ run.status \in {"created", "interrupted"}
    /\ run' = [status |-> "running", started |-> TRUE]
    /\ UNCHANGED <<def, node, out, try, iteration, coreVars, effects>>

\* The executor takes the run up; one that is interrupted is recovered first.
\* The API may resume it while an executor loop out of time is on its way out.
Drive ==
    /\ Up /\ run.status \in RunLive
    /\ drive = "off" \/ (drive = "expired" /\ run.status = "interrupted")
    /\ drive' = IF drive = "off" THEN "on" ELSE drive
    /\ IF run.status = "interrupted"
       THEN call' = [pc |-> "reset", at |-> {}, manual |-> Some({"manual"}), goal |-> "resumed"]
       ELSE UNCHANGED call
    /\ run' = IF run.status = "created" THEN [status |-> "running", started |-> TRUE] ELSE run
    /\ UNCHANGED <<def, node, out, try, iteration, core, task, starts, effects>>

\* The loop sees that the run has ended or was interrupted, and drains its tasks.
Undrive ==
    /\ Up /\ drive = "on" /\ run.status \in RunEnd \cup {"interrupted"}
    /\ drive' = "off"
    /\ task' = [n \in Node |-> "none"]
    /\ UNCHANGED <<def, rowVars, core, call, starts, effects>>

\* A loop whose body has not settled yet: _loop_body_settled
Undecided(l) ==
    def.kind[l] = "loop" /\ \E n \in Cycle(l) \ {l} : node[n] \notin {"succeeded", "skipped"}

\* Nothing the executor can do or wait for
Stuck ==
    /\ Tasks = {}
    /\ \A n \in Node :
        /\ node[n] \notin {"retry_wait", "waiting"}
        /\ node[n] = "ready" /\ Chosen(n) => Undecided(n)

\* fail_run by the executor: a task raised, a budget is exceeded, or it is stuck
FailRun ==
    /\ Up /\ drive = "on" /\ run.status \in {"running", "waiting"}
    /\ Stuck \/ Tasks # {}
    /\ Goto("terminalize", "failed")
    /\ UNCHANGED <<def, rowVars, core, drive, task, starts, effects>>

\* The time of the whole run is over: interrupt it, drain, then fail it.
Deadline ==
    /\ Up /\ drive = "on" /\ run.status \in {"running", "waiting"}
    /\ drive' = "expired"
    /\ task' = [n \in Node |-> "none"]
    /\ IF run.status = "running"
       THEN call' = [pc |-> "reset", at |-> {}, manual |-> Some({"manual"}), goal |-> "interrupted"]
       ELSE UNCHANGED call
    /\ UNCHANGED <<def, rowVars, core, starts, effects>>

Expire ==
    /\ Up /\ drive = "expired"
    /\ drive' = "off"
    /\ IF run.status \in RunLive THEN Goto("terminalize", "failed") ELSE UNCHANGED call
    /\ UNCHANGED <<def, rowVars, core, task, starts, effects>>

\* Mutant of Cancellable: a run is cancelled whatever its status.
CancellableAny == run.status # "none"

\* cancel_run leaves a run that has ended alone.
Cancellable == run.status \in RunLive

Cancel ==
    /\ Up /\ Cancellable
    /\ Goto("terminalize", "cancelled")
    /\ UNCHANGED <<def, rowVars, core, drive, task, starts, effects>>

\* A Core starts: a run that has not ended is recovered.
Startup ==
    /\ core = "down" /\ starts < MaxStarts
    /\ core' = "up"
    /\ starts' = starts + 1
    /\ IF run.status \in RunLive
       THEN call' = [pc |-> "reset", at |-> {}, manual |-> Some({"manual"}), goal |-> "restarted"]
       ELSE UNCHANGED call
    /\ UNCHANGED <<def, rowVars, drive, task, effects>>

\* An orderly shutdown interrupts a run it drives.
Shutdown ==
    /\ Up
    /\ core' = "stopping"
    /\ drive' = "off"
    /\ task' = [n \in Node |-> "none"]
    /\ IF drive # "off" /\ run.status \in RunLive
       THEN call' = [pc |-> "reset", at |-> {}, manual |-> Some({"manual"}), goal |-> "interrupted"]
       ELSE UNCHANGED call
    /\ UNCHANGED <<def, rowVars, starts, effects>>

\* The process is gone: it has stopped, or it dies anywhere.
Gone ==
    /\ core # "down"
    /\ core' = "down"
    /\ drive' = "off"
    /\ task' = [n \in Node |-> "none"]
    /\ Return
    /\ UNCHANGED <<def, rowVars, starts, effects>>
-----------------------------------------------------------------------------
Next ==
    \/ \E n \in Node : Route(n) \/ CloseAttempt(n) \/ CloseNode(n) \/ ResetNode(n)
    \/ \E n \in Node : ForgetRouting(n) \/ Unlock(n)
    \/ Settle \/ Derive \/ Rederive \/ EndMethod \/ Unlocked
    \/ \E n \in Node : Launch(n) \/ StartAttempt(n) \/ MarkStarted(n) \/ Dispatch(n)
    \/ \E n \in Node : Act(n) \/ Fail(n) \/ GiveUp(n)
    \/ \E n \in Node : \E o \in def.branches[n] : Succeed(n, o) \/ Decide(n, o) \/ Accept(n, o) \/ Exit(n, o)
    \/ \E n \in Node : Enter(n) \/ Refuse(n) \/ Timeout(n) \/ Doubt(n) \/ Limit(n) \/ Repeat(n)
    \/ Create \/ StartRun \/ Drive \/ Undrive \/ FailRun \/ Deadline \/ Expire \/ Cancel
    \/ Startup \/ Shutdown \/ Gone

Spec == Init /\ [][Next]_vars

\* The event loop of a live Core is fair: a method that has begun goes on, the
\* executor loop comes round, and every node task is scheduled and ends.
\* Nobody has to answer, to cancel, or to start a Core, and none has to die.
Fairness ==
    /\ WF_vars(\E n \in Node : Route(n) \/ CloseAttempt(n) \/ CloseNode(n) \/ ResetNode(n)
                               \/ ForgetRouting(n) \/ Unlock(n))
    /\ WF_vars(Settle \/ Derive \/ Rederive \/ EndMethod \/ Unlocked)
    /\ WF_vars(Undrive) /\ WF_vars(Stuck /\ FailRun)
    /\ \A n \in Node :
        /\ WF_vars(Launch(n))
        /\ WF_vars(StartAttempt(n) \/ MarkStarted(n) \/ Dispatch(n) \/ GiveUp(n))
        /\ WF_vars(Fail(n) \/ \E o \in def.branches[n] : Succeed(n, o))
        /\ WF_vars(Enter(n) \/ \E o \in def.branches[n] : Decide(n, o))
        /\ WF_vars(Limit(n) \/ Repeat(n) \/ \E o \in def.branches[n] : Exit(n, o))

FairSpec == Spec /\ Fairness
-----------------------------------------------------------------------------
(***************************************************************************)
(* What the parts of the system rely on.                                   *)
(***************************************************************************)
\* n was to run, by the results of the nodes before it
Asked(n) ==
    CASE def.join[n] \in {"any", "join_required"} -> \E m \in In(n) : n \in out[m]
      [] def.join[n] = "all" -> \A m \in In(n) : n \in out[m]
      [] def.join[n] = "join" -> TRUE

\* A completed run went the way its results say, whatever died in between:
\* a node has a result, or was given up for its own reasons, exactly if the
\* nodes before it asked for it.  Not so if the body of a loop branches: what a
\* new iteration does not reset, or a crash leaves of the old one, may stand.
CompletedTruthful ==
    run.status = "completed" =>
        \A n \in Node : ~Entry(n) =>
            (Asked(n) <=> node[n] = "succeeded" \/ (node[n] = "skipped" /\ ~Derived(n)))

\* A result is never taken back or run again, unless the next iteration of a
\* loop asks for it: a crash between a result and what follows from it replays
\* nothing.
ResultStays ==
    [][\A n \in Node :
        \/ node'[n] = node[n]
        \/ node[n] \in NodeOpen
        \/ node[n] = "skipped" /\ out[n] = {} /\ try[n].result # "failed"
        \/ call.pc = "unlock"]_vars

\* An effect that must not be repeated happens once in an occurrence of its
\* node, through crashes, retries and resumptions.
EffectOnce == \A n \in Node : def.class[n] = "non_idempotent" => effects[n] <= 1

\* completed, failed and cancelled are said of a run whose attempts are all
\* closed, and of whose effects that must not be repeated every one is
\* recorded as a success and none is still on its way.
UnknownHeld ==
    run.status \in {"completed", "failed", "cancelled"} =>
        \A n \in Node :
            /\ try[n].result # "running"
            /\ def.class[n] = "non_idempotent" =>
                  /\ effects[n] > 0 => node[n] = "succeeded"
                  /\ task[n] # "cleared"

\* The executor always has something to do or to wait for: routing leaves no
\* node behind for which nobody is responsible.  Only a Core that died while it
\* ended the run, with some nodes cancelled, leaves a run that gets stuck; and
\* a loop in the body of another one always waits for that one.
NeverStuck ==
    Up /\ drive = "on" /\ run.status \in {"running", "waiting"} /\ Stuck => Some({"cancelled"})

\* A run that is driven comes to an end, or to a person who is to answer, or is
\* no longer driven.
DrivenEnds == drive = "on" ~> drive # "on" \/ \E n \in Node : node[n] = "waiting"

\* The comment in _run_locked before fail_run: a run is failed as stuck when no
\* node is active or ready.  A loop that waits for its body does not count.
FailsOnlyIdle ==
    Up /\ drive = "on" /\ run.status \in {"running", "waiting"} /\ Stuck =>
        \A n \in Node : node[n] = "ready" => Undecided(n)

\* What the run promises to those who start it
RunStatus == IF run.status = "manual" THEN "manual_reconcile_required" ELSE run.status
NonIdempotent(S) == {n \in S : def.class[n] = "non_idempotent"}
Promised == INSTANCE GraphPromise WITH
    Once <- Node,
    status <- RunStatus,
    entered <- {n \in NonIdempotent(Node) : effects[n] > 0},
    known <- {n \in NonIdempotent(Node) : node[n] = "succeeded"}

\* The run keeps its promise: what the Scheduler and the API see of it, step by
\* step, is a behaviour of GraphPromise.
Promise == Promised!Spec
=============================================================================

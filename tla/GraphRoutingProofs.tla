-------------------------- MODULE GraphRoutingProofs --------------------------
(***************************************************************************)
(* Proofs about the routing of GraphRun, for every set of nodes and every  *)
(* compiled definition that has no loop: a completed run went the way its  *)
(* results say, and the executor never has nothing to do.  The compiler    *)
(* accepts definitions with loops of which neither holds: a new iteration  *)
(* leaves alone what comes after the nodes its body branches to, a crash   *)
(* while the body is unlocked leaves old results in it, and a loop inside  *)
(* the body of another one waits for that one.                             *)
(***************************************************************************)
EXTENDS GraphRunProofs, WellFoundedInduction

\* The definition of the run has no loop.
Straight == \A n \in Node : def.kind[n] # "loop"

\* Only a result enables edges.
Silent == \A n \in Node : node[n] \notin {"succeeded", "skipped"} => out[n] = {}

\* A node that failed does not run again but by a retry.
Untried == \A n \in Node : node[n] \in {"pending", "ready", "running"} => try[n].result # "failed"

\* An entry is never routed.
Entries == \A n \in Node : Entry(n) => node[n] # "pending"

\* n runs or did, or was given up for its own reasons: not for its routing
Ran(n) == \/ node[n] \in {"ready", "running", "retry_wait", "waiting", "succeeded", "failed"}
          \/ node[n] = "skipped" /\ ~Derived(n)

\* What runs was asked for.
Led == \A n \in Node : ~Entry(n) /\ Ran(n) => Asked(n)

Rows == Silent /\ Untried /\ Entries /\ Led

\* The nodes before n have decided against it.
Refused(n) ==
    CASE def.join[n] = "all" -> \E m \in In(n) : Resolved(m) /\ n \notin out[m]
      [] def.join[n] = "join" -> FALSE
      [] def.join[n] \in {"any", "join_required"} -> \A m \in In(n) : Resolved(m) /\ n \notin out[m]

\* The routing is in force: no recovery has yet to do it again.
InForce ==
    \/ run.status = "completed"
    \/ /\ run.status \in RunLive /\ core # "down" /\ call.pc # "derive"
       /\ call.pc = "reset" => call.goal = "interrupted"

\* What the routing skipped was refused.
Declined == InForce => \A n \in Node : node[n] = "skipped" /\ Derived(n) => Refused(n)

\* A run is completed when all its nodes are.
Finished == run.status = "completed" => Settled

\* Every running node has its task.
Tended ==
    core = "up" /\ run.status = "running" /\ call.pc \in {"idle", "propagate", "refresh"} =>
        \A n \in Node : node[n] = "running" => task[n] # "none"

\* Nothing is left to route where a method ends.
Rests ==
    \/ call.pc \in {"idle", "refresh"}
    \/ call.pc = "end" /\ call.goal = "interrupted"
    \/ call.pc = "reset" /\ call.goal = "interrupted" /\ ~call.manual
NothingLeft ==
    run.status \in RunLive /\ core # "down" /\ Rests => ~Settled /\ \A n \in Node : ~Routable(n)

\* The inductive invariant of a run without loops
RInv == call.pc # "unlock" /\ Rows /\ Declined /\ Finished /\ Tended /\ NothingLeft

USE DEF Tasks, Running, RunEnd, RunLive, NodeActive, NodeOpen, NodeEnd, Up, rowVars, coreVars

LEMMA InType == ASSUME NEW n PROVE In(n) \subseteq Node
  BY DEF In

LEMMA JoinIs == ASSUME TypeOK, NEW n \in Node PROVE def.join[n] \in {"all", "any", "join", "join_required"}
  BY DefinitionType DEF Definition, JoinMode

\* A node that was asked for stays asked for while results only come.
LEMMA AskedGrows ==
  ASSUME TypeOK, def' = def, \A m \in Node : out[m] \subseteq out'[m], NEW n \in Node, Asked(n)
  PROVE  Asked(n)'
<1>1. In(n)' = In(n) /\ In(n) \subseteq Node
  BY InType DEF In
<1> QED
  BY <1>1, JoinIs DEF Asked

LEMMA RefusedStays ==
  ASSUME TypeOK, def' = def, NEW n \in Node, Refused(n),
         \A m \in Node : Resolved(m) => Resolved(m)' /\ out'[m] = out[m]
  PROVE  Refused(n)'
<1>1. In(n)' = In(n) /\ In(n) \subseteq Node
  BY InType DEF In
<1> HIDE DEF NodeEnd
<1> QED
  BY <1>1, JoinIs DEF Refused

\* What may be routed after a step that resolves no node could be before.
LEMMA NoneRoutable ==
  ASSUME TypeOK, def' = def, NEW n \in Node, Routable(n)', node'[n] = "pending" => node[n] = "pending",
         \A m \in Node : (Resolved(m)' <=> Resolved(m)) /\ (Active(m, n)' <=> Active(m, n))
  PROVE  Routable(n)
<1>1. In(n)' = In(n) /\ In(n) \subseteq Node /\ (Entry(n)' <=> Entry(n))
  BY InType DEF In, Entry
<1>2. node[n] = "pending" /\ ~Entry(n)
  BY <1>1 DEF Routable
<1>3. Enabled(n)' <=> Enabled(n)
  BY <1>1, JoinIs DEF Enabled
<1>4. Disabled(n)' <=> Disabled(n)
  BY <1>1, JoinIs DEF Disabled
<1> QED
  BY <1>2, <1>3, <1>4 DEF Routable

\* Where nothing is resolved there is nothing to route.
LEMMA NoneResolved ==
  ASSUME TypeOK, Node # {}, \A m \in Node : ~Resolved(m)
  PROVE  ~Settled /\ \A n \in Node : ~Routable(n)
<1>1. ~Settled
  BY DEF Settled, Resolved
<1>2. ASSUME NEW n \in Node, Routable(n) PROVE FALSE
  <2>1. PICK m \in In(n) : m \in Node
    BY <1>2, InType DEF Routable, Entry
  <2>2. \A k \in In(n) : ~Resolved(k) /\ ~Active(k, n)
    BY InType DEF Active, Resolved
  <2>3. ~Enabled(n) /\ ~Disabled(n)
    BY <2>1, <2>2, JoinIs DEF Enabled, Disabled
  <2> QED
    BY <1>2, <2>3 DEF Routable
<1> QED
  BY <1>1, <1>2

(***************************************************************************)
(* Rows: what the rows of a node say about each other and its predecessors.*)
(***************************************************************************)
LEMMA SameRows == ASSUME Rows, UNCHANGED <<def, node, out, try>> PROVE Rows'
  BY DEF Rows, Silent, Untried, Entries, Led, Ran, Entry, In, Derived, Asked

\* A step of one node, by which no result is taken back, keeps the rows if it
\* keeps those of the node.
LEMMA OneRow ==
  ASSUME TypeOK, Rows, def' = def, NEW n \in Node,
         \A m \in Node \ {n} : node'[m] = node[m] /\ out'[m] = out[m] /\ try'[m] = try[m],
         out[n] \subseteq out'[n],
         node'[n] \notin {"succeeded", "skipped"} => out'[n] = {},
         node'[n] \in {"pending", "ready", "running"} => try'[n].result # "failed",
         node'[n] # "pending" \/ ~Entry(n),
         ~Entry(n) /\ Ran(n)' => Asked(n)
  PROVE  Rows'
<1>1. \A m \in Node : out[m] \subseteq out'[m]
  OBVIOUS
<1>2. \A m : Entry(m)' <=> Entry(m)
  BY DEF Entry, In
<1>3. Silent' /\ Untried'
  BY DEF Rows, Silent, Untried
<1>4. Entries'
  BY <1>2 DEF Rows, Entries
<1>5. ASSUME NEW m \in Node, ~Entry(m), Ran(m)' PROVE Asked(m)'
  <2>1. CASE m = n
    BY <1>1, <1>5, <2>1, AskedGrows
  <2>2. CASE m # n
    <3>1. Ran(m)
      BY <1>2, <1>5, <2>2 DEF Ran, Derived
    <3> QED
      BY <1>1, <1>5, <3>1, AskedGrows DEF Rows, Led
  <2> QED
    BY <2>1, <2>2
<1>6. Led'
  BY <1>2, <1>5 DEF Led
<1> QED
  BY <1>3, <1>4, <1>6 DEF Rows

LEMMA RouteRows == ASSUME IInv, Rows, NEW n \in Node, Route(n) PROVE Rows'
<1>1. TypeOK
  BY DEF IInv
<1>2. node[n] = "pending" /\ ~Entry(n) /\ out[n] = {} /\ try[n].result # "failed"
  BY DEF Route, Routable, Rows, Silent, Untried
<1>3. node'[n] = IF Enabled(n) THEN "ready" ELSE "skipped"
  BY <1>1 DEF Route, TypeOK
<1>4. UNCHANGED <<def, out, try>> /\ \A m \in Node \ {n} : node'[m] = node[m]
  BY <1>1 DEF Route, TypeOK
<1>5. ASSUME Ran(n)' PROVE Asked(n)
  <2>1. ~ (node'[n] = "skipped")
    BY <1>2, <1>4, <1>5 DEF Ran, Derived, Entry, In
  <2>2. Enabled(n)
    BY <1>3, <2>1
  <2>3. \A m \in In(n) : Active(m, n) => n \in out[m]
    BY DEF Active
  <2> QED
    BY <1>1, <1>2, <2>2, <2>3, JoinIs DEF Enabled, Asked, Entry
<1> QED
  BY <1>1, <1>2, <1>3, <1>4, <1>5, OneRow

LEMMA CloseAttemptRows == ASSUME IInv, Rows, NEW n \in Node, CloseAttempt(n) PROVE Rows'
<1>1. TypeOK
  BY DEF IInv
<1>2. node[n] = "running" /\ UNCHANGED <<def, node, out>> /\ try'[n].result # "failed"
        /\ \A m \in Node \ {n} : try'[m] = try[m]
  BY <1>1 DEF CloseAttempt, TypeOK
<1>3. Asked(n) \/ Entry(n)
  BY <1>2 DEF Rows, Led, Ran
<1>4. out[n] = {}
  BY <1>2 DEF Rows, Silent
<1> QED
  BY <1>1, <1>2, <1>3, <1>4, OneRow

LEMMA MarkStartedRows == ASSUME IInv, Rows, NEW n \in Node, MarkStarted(n) PROVE Rows'
<1>1. TypeOK
  BY DEF IInv
<1>2. node[n] = "running" /\ UNCHANGED <<def, node, out>> /\ try'[n].result # "failed"
        /\ \A m \in Node \ {n} : try'[m] = try[m]
  BY <1>1 DEF MarkStarted, Attempted, TypeOK, IInv, Inv, Attempts
<1>3. Asked(n) \/ Entry(n)
  BY <1>2 DEF Rows, Led, Ran
<1>4. out[n] = {}
  BY <1>2 DEF Rows, Silent
<1> QED
  BY <1>1, <1>2, <1>3, <1>4, OneRow

LEMMA CloseNodeRows == ASSUME IInv, Rows, NEW n \in Node, CloseNode(n) PROVE Rows'
<1>1. TypeOK
  BY DEF IInv
<1>2. node[n] \in NodeOpen /\ node'[n] \in {"manual", "cancelled"} /\ UNCHANGED <<def, out, try>>
        /\ \A m \in Node \ {n} : node'[m] = node[m]
  BY <1>1 DEF CloseNode, First, Open, TypeOK
<1>3. out[n] = {}
  BY <1>2 DEF Rows, Silent
<1>4. ~Ran(n)'
  BY <1>2 DEF Ran
<1> QED
  BY <1>1, <1>2, <1>3, <1>4, OneRow

LEMMA ResetNodeRows == ASSUME IInv, Rows, NEW n \in Node, ResetNode(n) PROVE Rows'
<1>1. TypeOK
  BY DEF IInv
<1>2. node[n] = "running" /\ node'[n] \in {"manual", "ready"} /\ UNCHANGED <<def, out, try>>
        /\ \A m \in Node \ {n} : node'[m] = node[m]
  BY <1>1 DEF ResetNode, First, TypeOK
<1>3. out[n] = {} /\ try[n].result # "failed"
  BY <1>2 DEF Rows, Silent, Untried
<1>4. Asked(n) \/ Entry(n)
  BY <1>2 DEF Rows, Led, Ran
<1> QED
  BY <1>1, <1>2, <1>3, <1>4, OneRow

LEMMA ForgetRoutingRows == ASSUME IInv, Rows, NEW n \in Node, ForgetRouting(n) PROVE Rows'
<1>1. TypeOK
  BY DEF IInv
<1>2. Derived(n) /\ node'[n] = "pending" /\ UNCHANGED <<def, out, try>>
        /\ \A m \in Node \ {n} : node'[m] = node[m]
  BY <1>1 DEF ForgetRouting, First, TypeOK
<1>3. ~Entry(n) /\ out[n] = {} /\ try[n].result # "failed"
  BY <1>2 DEF Rows, Silent, Untried, Derived
<1>4. ~Ran(n)'
  BY <1>2 DEF Ran
<1> QED
  BY <1>1, <1>2, <1>3, <1>4, OneRow

LEMMA StartAttemptRows == ASSUME IInv, Rows, NEW n \in Node, StartAttempt(n) PROVE Rows'
<1>1. TypeOK
  BY DEF IInv
<1>2. node[n] \in {"ready", "retry_wait"} /\ node'[n] = "running" /\ UNCHANGED <<def, out>>
        /\ try'[n].result # "failed"
        /\ \A m \in Node \ {n} : node'[m] = node[m] /\ try'[m] = try[m]
  BY <1>1 DEF StartAttempt, TypeOK
<1>3. out[n] = {}
  BY <1>2 DEF Rows, Silent
<1>4. Asked(n) \/ Entry(n)
  BY <1>2 DEF Rows, Led, Ran
<1> QED
  BY <1>1, <1>2, <1>3, <1>4, OneRow

LEMMA FailRows == ASSUME IInv, Rows, NEW n \in Node, Fail(n) PROVE Rows'
<1>1. TypeOK
  BY DEF IInv
<1>2. node[n] = "running" /\ node'[n] \in {"manual", "retry_wait", "skipped", "failed"}
        /\ UNCHANGED <<def, out>>
        /\ \A m \in Node \ {n} : node'[m] = node[m] /\ try'[m] = try[m]
  BY <1>1, FailedIs DEF Fail, Completes, Attempted, TypeOK
<1>3. out[n] = {}
  BY <1>2 DEF Rows, Silent
<1>4. Asked(n) \/ Entry(n)
  BY <1>2 DEF Rows, Led, Ran
<1> QED
  BY <1>1, <1>2, <1>3, <1>4, OneRow

\* A success, a decision, an acceptance or a timeout: a result comes.
LEMMA ResultsRows ==
  ASSUME IInv, Rows, NEW n \in Node, NEW o,
         Succeed(n, o) \/ Decide(n, o) \/ Accept(n, o) \/ Timeout(n)
  PROVE  Rows'
<1>1. TypeOK
  BY DEF IInv
<1>2. def' = def /\ node[n] \in {"ready", "running", "waiting"} /\ node'[n] \in {"succeeded", "skipped"}
        /\ \A m \in Node \ {n} : node'[m] = node[m] /\ out'[m] = out[m] /\ try'[m] = try[m]
  <2>1. CASE Succeed(n, o)
    BY <1>1, <2>1 DEF Succeed, Completes, Attempted, TypeOK
  <2>2. CASE Decide(n, o)
    BY <1>1, <2>2 DEF Decide, Controls, Result, TypeOK
  <2>3. CASE Accept(n, o)
    BY <1>1, <2>3 DEF Accept, Waits, Result, TypeOK
  <2>4. CASE Timeout(n)
    BY <1>1, <2>4 DEF Timeout, Waits, Result, TypeOK
  <2> QED
    BY <2>1, <2>2, <2>3, <2>4
<1>3. out[n] = {}
  BY <1>2 DEF Rows, Silent
<1>4. Asked(n) \/ Entry(n)
  BY <1>2 DEF Rows, Led, Ran
<1> QED
  BY <1>1, <1>2, <1>3, <1>4, OneRow

LEMMA BoundaryRows == ASSUME IInv, Rows, NEW n \in Node, Enter(n) \/ Refuse(n) PROVE Rows'
<1>1. TypeOK
  BY DEF IInv
<1>2. node[n] \in {"ready", "waiting"} /\ node'[n] \in {"waiting", "failed"} /\ UNCHANGED <<def, out, try>>
        /\ \A m \in Node \ {n} : node'[m] = node[m]
  BY <1>1 DEF Enter, Controls, Refuse, Waits, TypeOK
<1>3. out[n] = {}
  BY <1>2 DEF Rows, Silent
<1>4. Asked(n) \/ Entry(n)
  BY <1>2 DEF Rows, Led, Ran
<1> QED
  BY <1>1, <1>2, <1>3, <1>4, OneRow

(***************************************************************************)
(* The steps of a run without loops: those that leave the rows alone, and  *)
(* those of one node.                                                      *)
(***************************************************************************)
Aside ==
    \/ Settle \/ Derive \/ Rederive \/ EndMethod
    \/ Create \/ StartRun \/ Drive \/ Undrive \/ FailRun \/ Deadline \/ Expire \/ Cancel
    \/ Startup \/ Shutdown \/ Gone
    \/ \E n \in Node : Launch(n) \/ Dispatch(n) \/ Act(n) \/ GiveUp(n) \/ Doubt(n)

Resulting(n) ==
    \/ \E o \in def.branches[n] : Succeed(n, o) \/ Decide(n, o) \/ Accept(n, o)
    \/ Timeout(n)

NodeStep(n) ==
    \/ Route(n) \/ CloseAttempt(n) \/ CloseNode(n) \/ ResetNode(n) \/ ForgetRouting(n)
    \/ StartAttempt(n) \/ MarkStarted(n) \/ Fail(n) \/ Resulting(n) \/ Enter(n) \/ Refuse(n)

LEMMA AsideRows == ASSUME Aside PROVE UNCHANGED <<def, node, out, try>>
  BY DEF Aside, Settle, Derive, Rederive, EndMethod, Create, StartRun, Drive, Undrive, FailRun,
     Deadline,
     Expire, Cancel, Startup, Shutdown, Gone, Launch, Dispatch, Act, GiveUp, Doubt

LEMMA Straights ==
  ASSUME Straight, call.pc # "unlock", Next
  PROVE  Aside \/ \E n \in Node : NodeStep(n)
<1>1. ASSUME NEW n \in Node, Unlock(n) \/ Limit(n) \/ Repeat(n) \/ \E o \in def.branches[n] : Exit(n, o)
      PROVE  FALSE
  BY <1>1 DEF Straight, Unlock, Limit, Repeat, Exit, Advances, Controls
<1>2. ~Unlocked
  BY DEF Unlocked
<1>3. CASE \/ \E n \in Node : Route(n) \/ CloseAttempt(n) \/ CloseNode(n) \/ ResetNode(n)
           \/ \E n \in Node : ForgetRouting(n) \/ Unlock(n)
  BY <1>1, <1>3 DEF NodeStep
<1>4. CASE Settle \/ Derive \/ Rederive \/ EndMethod \/ Unlocked
  BY <1>2, <1>4 DEF Aside
<1>5. CASE \E n \in Node : Launch(n) \/ StartAttempt(n) \/ MarkStarted(n) \/ Dispatch(n) \/ Act(n) \/ Fail(n) \/ GiveUp(n)
  BY <1>5 DEF NodeStep, Aside
<1>6. CASE \E n \in Node : \E o \in def.branches[n] :
                Succeed(n, o) \/ Decide(n, o) \/ Accept(n, o) \/ Exit(n, o)
  BY <1>1, <1>6 DEF NodeStep, Resulting
<1>7. CASE \E n \in Node : Enter(n) \/ Refuse(n) \/ Timeout(n) \/ Doubt(n) \/ Limit(n) \/ Repeat(n)
  BY <1>1, <1>7 DEF NodeStep, Resulting, Aside
<1>8. CASE \/ Create \/ StartRun \/ Drive \/ Undrive \/ FailRun \/ Deadline \/ Expire \/ Cancel
           \/ Startup \/ Shutdown \/ Gone
  BY <1>8 DEF Aside
<1> QED
  BY <1>3, <1>4, <1>5, <1>6, <1>7, <1>8 DEF Next

LEMMA NodeStepRows == ASSUME IInv, Rows, NEW n \in Node, NodeStep(n) PROVE Rows'
<1>1. ASSUME Resulting(n) PROVE Rows'
  <2>1. ASSUME NEW o, Succeed(n, o) \/ Decide(n, o) \/ Accept(n, o) PROVE Rows'
    BY <2>1, ResultsRows
  <2>2. ASSUME Timeout(n) PROVE Rows'
    BY <2>2, ResultsRows
  <2> QED
    BY <1>1, <2>1, <2>2 DEF Resulting
<1> QED
  BY <1>1, RouteRows, CloseAttemptRows, CloseNodeRows, ResetNodeRows, ForgetRoutingRows,
     StartAttemptRows,
     MarkStartedRows, FailRows, BoundaryRows DEF NodeStep

(***************************************************************************)
(* No method but that of a loop unlocks.                                   *)
(***************************************************************************)
LEMMA NoUnlock ==
  ASSUME IInv, call.pc # "unlock", Aside \/ \E n \in Node : NodeStep(n)
  PROVE  call'.pc # "unlock"
<1>1. call \in Call
  BY DEF IInv, TypeOK
<1>2. ASSUME NEW pc \in {"propagate", "refresh", "terminalize", "end"}, NEW goal, Goto(pc, goal)
      PROVE  call'.pc # "unlock"
  BY <1>2 DEF Goto, Idle
<1>3. Return => call'.pc # "unlock"
  BY DEF Return, Idle
<1>4. CASE Settle \/ EndMethod \/ FailRun \/ Cancel \/ Gone \/ Expire
  BY <1>2, <1>3, <1>4 DEF Settle, EndMethod, FailRun, Cancel, Gone, Expire
<1>5. CASE Derive \/ Rederive
  BY <1>1, <1>5 DEF Derive, Rederive, Call
<1>6. CASE Create \/ StartRun \/ Undrive \/ \E n \in Node : Launch(n) \/ Dispatch(n) \/ Act(n) \/ GiveUp(n) \/ Doubt(n)
  BY <1>6 DEF Create, StartRun, Undrive, Launch, Dispatch, Act, GiveUp, Doubt
<1>7. CASE Drive \/ Deadline \/ Startup \/ Shutdown
  BY <1>7 DEF Drive, Deadline, Startup, Shutdown
<1>8. ASSUME NEW n \in Node, NodeStep(n) PROVE call'.pc # "unlock"
  <2>1. CASE Route(n) \/ ForgetRouting(n) \/ StartAttempt(n) \/ MarkStarted(n)
    BY <2>1 DEF Route, ForgetRouting, StartAttempt, MarkStarted
  <2>2. CASE CloseAttempt(n) \/ CloseNode(n) \/ ResetNode(n)
    BY <1>1, <2>2 DEF CloseAttempt, CloseNode, ResetNode, Call
  <2>3. CASE Fail(n)
    BY <1>2, <2>3 DEF Fail
  <2>4. CASE Resulting(n)
    BY <1>2, <2>4 DEF Resulting, Succeed, Decide, Accept, Timeout, Result
  <2>5. CASE Enter(n) \/ Refuse(n)
    BY <1>2, <2>5 DEF Enter, Refuse
  <2> QED
    BY <1>8, <2>1, <2>2, <2>3, <2>4, <2>5 DEF NodeStep
<1> QED
  BY <1>4, <1>5, <1>6, <1>7, <1>8 DEF Aside

(***************************************************************************)
(* Declined: no skip is left standing that the results do not ask for.     *)
(***************************************************************************)
LEMMA DeclinedKept ==
  ASSUME TypeOK, Declined, def' = def, InForce' => InForce,
         \A m \in Node : Resolved(m) => Resolved(m)' /\ out'[m] = out[m],
         \A m \in Node : node'[m] = "skipped" /\ Derived(m)' =>
                            (node[m] = "skipped" /\ Derived(m)) \/ Refused(m)
  PROVE  Declined'
<1>1. ASSUME InForce', NEW m \in Node, node'[m] = "skipped", Derived(m)' PROVE Refused(m)'
  <2>1. Refused(m)
    BY <1>1 DEF Declined
  <2> QED
    BY <2>1, RefusedStays
<1> QED
  BY <1>1 DEF Declined

\* The steps that leave the rows alone: the routing is in force if it was, or
\* nothing is skipped.
LEMMA AsideDeclined == ASSUME IInv, Declined, Aside PROVE Declined'
<1>1. UNCHANGED <<def, node, out, try>> /\ TypeOK
  BY AsideRows DEF IInv
<1>2. (\A m \in Node : Resolved(m) => Resolved(m)' /\ out'[m] = out[m])
        /\ \A m \in Node : Derived(m)' <=> Derived(m)
  BY <1>1 DEF Resolved, Derived, Entry, In
<1>3. ASSUME InForce' => InForce PROVE Declined'
  BY <1>1, <1>2, <1>3, DeclinedKept
<1>4. ASSUME \A m \in Node : ~ (node[m] = "skipped" /\ Derived(m)) PROVE Declined'
  BY <1>1, <1>2, <1>4 DEF Declined
<1>5. call.pc # "idle" => run.status \in RunLive /\ core # "down"
  BY DEF IInv, Inv, Calls
<1>6. CASE Settle
  <2>1. InForce
    BY <1>5, <1>6 DEF Settle, InForce
  <2> QED
    BY <1>3, <2>1
<1>7. CASE Derive
  <2>1. call'.pc = "derive" /\ run' = run /\ run.status \in RunLive
    BY <1>1, <1>5, <1>7 DEF Derive, TypeOK, Call
  <2>2. ~InForce'
    BY <2>1 DEF InForce
  <2> QED
    BY <1>3, <2>2
<1>8. CASE Rederive
  BY <1>4, <1>8 DEF Rederive
<1>9. CASE EndMethod
  <2>1. run'.status = IF call.manual THEN "manual" ELSE call.goal
    BY <1>1, <1>9 DEF EndMethod, TypeOK
  <2>2. CASE call.pc = "terminalize"
    <3>1. run'.status \in {"manual", "failed", "cancelled"}
      BY <2>1, <2>2 DEF IInv, Inv, Calls
    <3> QED
      BY <1>3, <3>1 DEF InForce
  <2>3. CASE call.pc = "end"
    BY <1>3, <1>5, <2>3 DEF InForce
  <2>4. CASE call.pc = "reset" /\ call.goal = "interrupted"
    BY <1>3, <1>5, <2>4 DEF InForce
  <2>5. CASE call.pc = "reset" /\ call.manual
    BY <1>3, <2>1, <2>5 DEF InForce
  <2> QED
    BY <1>9, <2>2, <2>3, <2>4, <2>5 DEF EndMethod
<1>10. CASE Create
  <2>1. \A m \in Node : node[m] \in {"ready", "pending"}
    BY <1>10 DEF Create, IInv, Inv, Started
  <2> QED
    BY <1>4, <2>1
<1>11. CASE StartRun \/ FailRun \/ Cancel \/ \E n \in Node : Launch(n) \/ Dispatch(n) \/ Act(n) \/ GiveUp(n) \/ Doubt(n)
  <2>1. Up /\ (run.status \in RunLive \/ run' = run) /\ (core' = core)
    BY <1>11 DEF StartRun, FailRun, Cancel, Launch, Dispatch, Act, GiveUp, Doubt, Waits
  <2>2. InForce' => InForce
    BY <2>1 DEF InForce
  <2> QED
    BY <1>3, <2>2
<1>12. CASE Drive
  <2>1. InForce
    BY <1>12 DEF Drive, InForce
  <2> QED
    BY <1>3, <2>1
<1>13. CASE Undrive \/ Deadline \/ Expire \/ Shutdown \/ Gone
  <2>1. run' = run /\ ((call.pc = "idle" /\ core # "down") \/ core' = "down")
    BY <1>13 DEF Undrive, Deadline, Expire, Shutdown, Gone
  <2>2. InForce' => InForce
    BY <2>1 DEF InForce
  <2> QED
    BY <1>3, <2>2
<1>14. CASE Startup
  <2>1. run' = run /\ (run.status \in RunLive => call'.pc = "reset" /\ call'.goal = "restarted")
    BY <1>14 DEF Startup
  <2>2. InForce' => InForce
    BY <2>1 DEF InForce
  <2> QED
    BY <1>3, <2>2
<1> QED
  BY <1>6, <1>7, <1>8, <1>9, <1>10, <1>11, <1>12, <1>13, <1>14 DEF Aside

LEMMA NodeStepDeclined == ASSUME IInv, Rows, Declined, NEW n \in Node, NodeStep(n) PROVE Declined'
<1>1. TypeOK
  BY DEF IInv
<1>2. call.pc # "idle" => run.status \in RunLive /\ core # "down"
  BY DEF IInv, Inv, Calls
<1>3. CASE Route(n)
  <2>1. InForce /\ UNCHANGED <<def, run, out, try, core, call>>
    BY <1>2, <1>3 DEF Route, InForce
  <2>2. node[n] = "pending" /\ node'[n] = (IF Enabled(n) THEN "ready" ELSE "skipped")
          /\ (\A m \in Node \ {n} : node'[m] = node[m]) /\ (Enabled(n) \/ Disabled(n))
    BY <1>1, <1>3 DEF Route, Routable, TypeOK
  <2>3. ASSUME node'[n] = "skipped" PROVE Refused(n)
    <3>1. Disabled(n)
      BY <2>2, <2>3
    <3>2. \A m \in In(n) : m \in Node /\ (Resolved(m) /\ ~Active(m, n) => n \notin out[m])
      BY InType DEF Resolved, Active, Rows, Silent
    <3> QED
      BY <1>1, <3>1, <3>2, JoinIs DEF Disabled, Refused
  <2>4. \A m \in Node : Resolved(m) => Resolved(m)' /\ out'[m] = out[m]
    BY <2>1, <2>2 DEF Resolved
  <2>5. \A m \in Node : node'[m] = "skipped" /\ Derived(m)' =>
                            (node[m] = "skipped" /\ Derived(m)) \/ Refused(m)
    BY <2>1, <2>2, <2>3 DEF Derived, Entry, In
  <2> QED
    BY <1>1, <2>1, <2>4, <2>5, DeclinedKept
<1>4. CASE CloseAttempt(n) \/ CloseNode(n) \/ ResetNode(n) \/ StartAttempt(n) \/ MarkStarted(n)
           \/ Enter(n) \/ Refuse(n)
  <2>1. UNCHANGED <<def, run, out, core>>
    BY <1>4 DEF CloseAttempt, CloseNode, ResetNode, StartAttempt, MarkStarted, Enter, Refuse
  <2>2. node[n] \in NodeOpen /\ (node'[n] = node[n] \/ node'[n] # "skipped")
          /\ (\A m \in Node \ {n} : node'[m] = node[m] /\ try'[m] = try[m])
    <3>1. CASE CloseAttempt(n)
      BY <1>1, <3>1 DEF CloseAttempt, TypeOK
    <3>2. CASE CloseNode(n) \/ ResetNode(n)
      BY <1>1, <3>2 DEF CloseNode, ResetNode, First, Open, TypeOK
    <3>3. CASE StartAttempt(n)
      BY <1>1, <3>3 DEF StartAttempt, TypeOK
    <3>4. CASE MarkStarted(n)
      BY <1>1, <3>4 DEF MarkStarted, Attempted, TypeOK, IInv, Inv, Attempts
    <3>5. CASE Enter(n) \/ Refuse(n)
      BY <1>1, <3>5 DEF Enter, Controls, Refuse, Waits, TypeOK
    <3> QED
      BY <1>4, <3>1, <3>2, <3>3, <3>4, <3>5
  <2>3. InForce' => InForce
    <3>1. CASE CloseAttempt(n) \/ CloseNode(n) \/ ResetNode(n)
      <4>1. call'.pc = call.pc /\ call'.goal = call.goal
        BY <1>1, <3>1 DEF CloseAttempt, CloseNode, ResetNode, TypeOK, Call
      <4> QED
        BY <2>1, <4>1 DEF InForce
    <3>2. CASE StartAttempt(n) \/ MarkStarted(n) \/ Enter(n) \/ Refuse(n)
      <4>1. Up
        BY <3>2 DEF StartAttempt, MarkStarted, Enter, Controls, Refuse, Waits
      <4> QED
        BY <2>1, <4>1 DEF InForce
    <3> QED
      BY <1>4, <3>1, <3>2
  <2>4. \A m \in Node : Resolved(m) => Resolved(m)' /\ out'[m] = out[m]
    BY <2>1, <2>2 DEF Resolved
  <2>5. \A m \in Node : node'[m] = "skipped" /\ Derived(m)' => node[m] = "skipped" /\ Derived(m)
    BY <2>1, <2>2 DEF Derived, Entry, In
  <2> QED
    BY <1>1, <2>1, <2>3, <2>4, <2>5, DeclinedKept
<1>5. CASE ForgetRouting(n)
  <2>1. run' = run /\ call' = call /\ run.status \in RunLive /\ call.pc = "derive"
    BY <1>2, <1>5 DEF ForgetRouting
  <2> QED
    BY <2>1 DEF Declined, InForce
<1>6. CASE Fail(n) \/ Resulting(n)
  <2>1. UNCHANGED <<def, run, core>> /\ Up
    BY <1>6 DEF Fail, Completes, Resulting, Succeed, Decide, Controls, Accept, Timeout, Waits
  <2>2. node[n] \in NodeOpen
          /\ (\A m \in Node \ {n} : node'[m] = node[m] /\ out'[m] = out[m] /\ try'[m] = try[m])
          /\ (node'[n] = "skipped" => out'[n] # {} \/ try'[n].result = "failed")
    <3>1. CASE Fail(n)
      BY <1>1, <3>1 DEF Fail, Completes, Attempted, TypeOK
    <3>2. CASE \E o \in def.branches[n] : Succeed(n, o) \/ Decide(n, o) \/ Accept(n, o)
      BY <1>1, <3>2 DEF Succeed, Completes, Attempted, Decide, Controls, Accept, Waits, Result, TypeOK
    <3>3. CASE Timeout(n)
      BY <1>1, <3>3 DEF Timeout, Waits, Result, TypeOK
    <3> QED
      BY <1>6, <3>1, <3>2, <3>3 DEF Resulting
  <2>3. InForce' => InForce
    BY <2>1 DEF InForce
  <2>4. \A m \in Node : Resolved(m) => Resolved(m)' /\ out'[m] = out[m]
    BY <2>2 DEF Resolved
  <2>5. \A m \in Node : node'[m] = "skipped" /\ Derived(m)' => node[m] = "skipped" /\ Derived(m)
    BY <2>1, <2>2 DEF Derived, Entry, In
  <2> QED
    BY <1>1, <2>1, <2>3, <2>4, <2>5, DeclinedKept
<1> QED
  BY <1>3, <1>4, <1>5, <1>6 DEF NodeStep

(***************************************************************************)
(* Finished: a run is completed when its last node is.                     *)
(***************************************************************************)
LEMMA FinishedStays == ASSUME IInv, Finished, Aside \/ \E n \in Node : NodeStep(n) PROVE Finished'
<1>1. call.pc # "idle" => run.status \in RunLive /\ core # "down"
  BY DEF IInv, Inv, Calls
<1>2. TypeOK
  BY DEF IInv
<1>3. CASE Aside
  <2>1. Settled' <=> Settled
    BY <1>3, AsideRows DEF Settled
  <2>2. CASE Settle
    <3>1. run'.status = Desired /\ run.status \in RunLive
      BY <1>1, <1>2, <2>2 DEF Settle, TypeOK
    <3> QED
      BY <2>1, <3>1, DesiredIs DEF Finished
  <2>3. CASE EndMethod
    <3>1. run'.status = IF call.manual THEN "manual" ELSE call.goal
      BY <1>2, <2>3 DEF EndMethod, TypeOK
    <3>2. ~call.manual => call.goal \in {"failed", "cancelled", "interrupted", "manual"}
      BY <2>3 DEF EndMethod, IInv, Inv, Calls
    <3> QED
      BY <3>1, <3>2 DEF Finished
  <2>4. CASE ~Settle /\ ~EndMethod
    <3>1. run'.status = "completed" => run.status = "completed"
      BY <1>2, <1>3, <2>4 DEF Aside, Derive, Rederive, Create, StartRun, Drive, Undrive,
         FailRun, Deadline,
         Expire, Cancel, Startup, Shutdown, Gone, Launch, Dispatch, Act, GiveUp, Doubt, TypeOK
    <3> QED
      BY <2>1, <3>1 DEF Finished
  <2> QED
    BY <2>2, <2>3, <2>4
<1>4. ASSUME NEW n \in Node, NodeStep(n) PROVE run' = run /\ run.status \in RunLive
  <2>1. CASE \/ Route(n) \/ CloseAttempt(n) \/ CloseNode(n) \/ ResetNode(n) \/ ForgetRouting(n)
    BY <1>1, <2>1 DEF Route, CloseAttempt, CloseNode, ResetNode, ForgetRouting
  <2>2. CASE StartAttempt(n) \/ MarkStarted(n) \/ Fail(n) \/ Resulting(n) \/ Enter(n) \/ Refuse(n)
    BY <2>2 DEF StartAttempt, MarkStarted, Fail, Completes, Resulting, Succeed, Decide,
       Controls, Accept,
       Waits, Timeout, Enter, Refuse
  <2> QED
    BY <1>4, <2>1, <2>2 DEF NodeStep
<1> QED
  BY <1>3, <1>4 DEF Finished

(***************************************************************************)
(* Tended: no running node is left without its task.                       *)
(***************************************************************************)
LEMMA AsideTended == ASSUME IInv, Tended, Aside PROVE Tended'
<1>1. UNCHANGED <<def, node, out, try>> /\ TypeOK
  BY AsideRows DEF IInv
<1>2. Running # {} => run.status \in {"running", "manual"}
  BY DEF IInv, Inv, RunningHeld
<1>3. ASSUME Running = {} PROVE Tended'
  BY <1>1, <1>3 DEF Tended
<1>4. CASE Settle
  <2>1. call.pc \in {"propagate", "refresh"} /\ task' = task /\ core' = core
    BY <1>4 DEF Settle
  <2>2. call.pc # "idle" => run.status \in RunLive
    BY DEF IInv, Inv, Calls
  <2> QED
    BY <1>1, <1>2, <1>3, <2>1, <2>2 DEF Tended
<1>5. CASE Derive
  BY <1>1, <1>5 DEF Derive, Tended, TypeOK, Call
<1>6. CASE Rederive
  <2>1. Running = {}
    BY <1>6 DEF Rederive, IInv, Inv, RunningHeld
  <2> QED
    BY <1>3, <2>1
<1>7. CASE EndMethod
  <2>1. run'.status = IF call.manual THEN "manual" ELSE call.goal
    BY <1>1, <1>7 DEF EndMethod, TypeOK
  <2>2. ~call.manual => call.goal \in {"failed", "cancelled", "interrupted", "manual"}
    BY <1>7 DEF EndMethod, IInv, Inv, Calls
  <2> QED
    BY <2>1, <2>2 DEF Tended
<1>8. CASE Create \/ StartRun
  <2>1. Running = {}
    BY <1>2, <1>8 DEF Create, StartRun
  <2> QED
    BY <1>3, <2>1
<1>9. CASE Drive
  <2>1. run.status = "created" \/ run' = run
    BY <1>9 DEF Drive
  <2> QED
    BY <1>1, <1>2, <1>3, <1>9, <2>1 DEF Drive, Tended
<1>10. CASE FailRun \/ Cancel
  <2>1. call'.pc = "terminalize"
    BY <1>10 DEF FailRun, Cancel, Goto, Idle
  <2> QED
    BY <2>1 DEF Tended
<1>11. CASE Undrive \/ Deadline
  BY <1>11 DEF Undrive, Deadline, Tended
<1>12. CASE Expire
  BY <1>1, <1>12 DEF Expire, Goto, Idle, Tended
<1>13. CASE Startup \/ Shutdown \/ Gone
  BY <1>13 DEF Startup, Shutdown, Gone, Tended
<1>14. ASSUME NEW n \in Node, Launch(n) \/ Dispatch(n) \/ Act(n) PROVE Tended'
  <2>1. UNCHANGED <<run, core, call>> /\ call.pc = "idle" /\ core = "up"
    BY <1>14 DEF Launch, Dispatch, Act
  <2>2. \A m \in Node : task'[m] = task[m] \/ task'[m] # "none"
    BY <1>1, <1>14 DEF Launch, Dispatch, Act, TypeOK
  <2> QED
    BY <1>1, <2>1, <2>2 DEF Tended
<1>15. ASSUME NEW n \in Node, GiveUp(n) \/ Doubt(n) PROVE Tended'
  BY <1>1, <1>15 DEF GiveUp, Doubt, Tended, TypeOK
<1> QED
  BY <1>4, <1>5, <1>6, <1>7, <1>8, <1>9, <1>10, <1>11, <1>12, <1>13, <1>14, <1>15 DEF Aside

LEMMA NodeStepTended == ASSUME IInv, Tended, NEW n \in Node, NodeStep(n) PROVE Tended'
<1>1. TypeOK
  BY DEF IInv
<1>2. run' = run /\ core' = core
  BY DEF NodeStep, Route, CloseAttempt, CloseNode, ResetNode, ForgetRouting, StartAttempt,
     MarkStarted, Fail, Resulting, Succeed, Decide, Accept, Timeout, Enter, Refuse
<1>3. CASE Route(n)
  <2>1. \A m \in Node : node'[m] = "running" => node[m] = "running"
    BY <1>1, <1>3 DEF Route, TypeOK
  <2> QED
    BY <1>2, <1>3, <2>1 DEF Route, Tended
<1>4. CASE CloseAttempt(n) \/ CloseNode(n) \/ ResetNode(n) \/ ForgetRouting(n)
  <2>1. call'.pc \in {"terminalize", "reset", "derive"}
    BY <1>1, <1>4 DEF CloseAttempt, CloseNode, ResetNode, ForgetRouting, TypeOK, Call
  <2> QED
    BY <2>1 DEF Tended
<1>5. CASE StartAttempt(n) \/ MarkStarted(n) \/ Fail(n) \/ Resulting(n) \/ Enter(n) \/ Refuse(n)
  <2>1. Up
    BY <1>5 DEF StartAttempt, MarkStarted, Fail, Completes, Resulting, Succeed, Decide,
       Controls, Accept,
       Waits, Timeout, Enter, Refuse
  <2>2. \A m \in Node \ {n} : node'[m] = node[m] /\ task'[m] = task[m]
    <3>1. CASE StartAttempt(n) \/ Enter(n) \/ Refuse(n)
      BY <1>1, <3>1 DEF StartAttempt, Enter, Refuse, TypeOK
    <3>2. CASE MarkStarted(n) \/ Fail(n)
      BY <1>1, <3>2 DEF MarkStarted, Fail, Leave, TypeOK
    <3>3. CASE Resulting(n)
      BY <1>1, <3>3 DEF Resulting, Succeed, Leave, Decide, Accept, Timeout, Result, TypeOK
    <3> QED
      BY <1>5, <3>1, <3>2, <3>3
  <2>3. node'[n] = "running" => task'[n] # "none"
    <3>1. CASE StartAttempt(n) \/ Enter(n) \/ Refuse(n)
      BY <1>1, <3>1 DEF StartAttempt, Enter, Refuse, TypeOK
    <3>2. CASE MarkStarted(n)
      BY <1>1, <3>2 DEF MarkStarted, TypeOK
    <3>3. CASE Fail(n)
      BY <1>1, <3>3, FailedIs DEF Fail, TypeOK
    <3>4. CASE Resulting(n)
      BY <1>1, <3>4 DEF Resulting, Succeed, Decide, Accept, Timeout, Result, TypeOK
    <3> QED
      BY <1>5, <3>1, <3>2, <3>3, <3>4
  <2> QED
    BY <1>2, <2>1, <2>2, <2>3 DEF Tended
<1> QED
  BY <1>3, <1>4, <1>5 DEF NodeStep

(***************************************************************************)
(* NothingLeft: a method of the runtime ends with nothing to route, and the *)
(* steps between methods resolve no node.                                  *)
(***************************************************************************)
Left == ~Settled /\ \A n \in Node : ~Routable(n)

LEMMA AsideNothingLeft == ASSUME IInv, NothingLeft, Aside PROVE NothingLeft'
<1>1. UNCHANGED <<def, node, out, try>> /\ TypeOK
  BY AsideRows DEF IInv
<1>2. Left => Left'
  BY <1>1 DEF Left, Settled, Routable, Entry, In, Enabled, Disabled, Active, Resolved
<1>3. Left' => NothingLeft'
  BY DEF Left, NothingLeft
<1>4. ASSUME run.status \in RunLive, core # "down", Rests PROVE NothingLeft'
  BY <1>2, <1>3, <1>4 DEF Left, NothingLeft
<1>5. call.pc # "idle" => run.status \in RunLive /\ core # "down"
  BY DEF IInv, Inv, Calls
<1>6. CASE Settle
  <2>1. run'.status = Desired /\ run.status \in RunLive /\ core # "down"
    BY <1>1, <1>5, <1>6 DEF Settle, TypeOK
  <2>2. \A n \in Node : ~Routable(n)
    BY <1>5, <1>6 DEF Settle, NothingLeft, Rests
  <2>3. Desired \in RunLive => ~Settled
    BY DEF Desired
  <2>4. run'.status \in RunLive => Left'
    BY <1>2, <2>1, <2>2, <2>3 DEF Left
  <2> QED
    BY <1>3, <2>4 DEF NothingLeft
<1>7. CASE Derive \/ Rederive
  <2>1. call'.pc \in {"derive", "propagate"}
    BY <1>1, <1>7 DEF Derive, Rederive, TypeOK, Call
  <2> QED
    BY <2>1 DEF NothingLeft, Rests
<1>8. CASE EndMethod
  <2>1. run'.status = IF call.manual THEN "manual" ELSE call.goal
    BY <1>1, <1>8 DEF EndMethod, TypeOK
  <2>2. CASE call.manual \/ call.goal # "interrupted"
    <3>1. run'.status \notin RunLive
      BY <1>8, <2>1, <2>2 DEF EndMethod, IInv, Inv, Calls
    <3> QED
      BY <3>1 DEF NothingLeft
  <2>3. CASE ~call.manual /\ call.goal = "interrupted"
    <3>1. Rests
      BY <1>8, <2>3 DEF EndMethod, Rests, IInv, Inv, Calls
    <3> QED
      BY <1>4, <1>5, <1>8, <3>1 DEF EndMethod, Rests
  <2> QED
    BY <2>2, <2>3
<1>9. CASE Create
  <2>1. \A m \in Node : ~Resolved(m)
    BY <1>9 DEF Create, IInv, Inv, Started, Resolved
  <2>2. Left
    BY <1>1, <2>1, NoneResolved, GraphConstants DEF Left
  <2> QED
    BY <1>2, <1>3, <2>2
<1>10. CASE StartRun \/ Drive \/ FailRun \/ Deadline \/ Cancel \/ \E n \in Node : Launch(n) \/ Doubt(n)
  <2>1. Up /\ run.status \in RunLive
    BY <1>10 DEF StartRun, Drive, FailRun, Deadline, Cancel, Cancellable, Launch, Doubt, Waits
  <2> QED
    BY <1>4, <2>1 DEF Rests
<1>11. CASE Undrive \/ Expire \/ Shutdown \/ \E n \in Node : Dispatch(n) \/ Act(n) \/ GiveUp(n)
  <2>1. Up /\ run' = run
    BY <1>11 DEF Undrive, Expire, Shutdown, Dispatch, Act, GiveUp
  <2> QED
    BY <1>4, <2>1 DEF Rests, NothingLeft
<1>12. CASE Startup
  BY <1>12 DEF Startup, NothingLeft, Rests
<1>13. CASE Gone
  BY <1>13 DEF Gone, NothingLeft
<1> QED
  BY <1>6, <1>7, <1>8, <1>9, <1>10, <1>11, <1>12, <1>13 DEF Aside

LEMMA NodeStepNothingLeft == ASSUME IInv, NothingLeft, NEW n \in Node, NodeStep(n) PROVE NothingLeft'
<1>1. TypeOK
  BY DEF IInv
<1>2. call.pc # "idle" => run.status \in RunLive /\ core # "down"
  BY DEF IInv, Inv, Calls
<1>3. ASSUME run.status \in RunLive, core # "down", Rests, UNCHANGED <<def, out>>,
             \A m \in Node \ {n} : node'[m] = node[m],
             node[n] = node'[n] \/ (node[n] \in {"ready", "retry_wait", "running"}
                                       /\ node'[n] \in {"ready", "retry_wait", "running", "waiting"})
      PROVE  NothingLeft'
  <2>1. ~Settled /\ \A m \in Node : ~Routable(m)
    BY <1>3 DEF NothingLeft
  <2>2. ~Settled'
    BY <1>3, <2>1 DEF Settled
  <2>3. ASSUME NEW k \in Node, Routable(k)' PROVE FALSE
    <3>1. \A m \in Node : (Resolved(m)' <=> Resolved(m)) /\ (Active(m, k)' <=> Active(m, k))
      BY <1>3 DEF Resolved, Active
    <3>2. node'[k] = "pending" => node[k] = "pending"
      BY <1>3
    <3> QED
      BY <1>1, <1>3, <2>1, <2>3, <3>1, <3>2, NoneRoutable
  <2> QED
    BY <2>2, <2>3 DEF NothingLeft
<1>4. CASE Route(n) \/ CloseNode(n) \/ ForgetRouting(n)
  <2>1. call'.pc \in {"propagate", "terminalize", "derive"}
    BY <1>1, <1>4 DEF Route, CloseNode, ForgetRouting, TypeOK, Call
  <2> QED
    BY <2>1 DEF NothingLeft, Rests
<1>5. CASE CloseAttempt(n)
  <2>1. call'.pc = call.pc /\ call'.goal = call.goal /\ call'.manual = call.manual /\ UNCHANGED <<def, node, out>>
    BY <1>1, <1>5 DEF CloseAttempt, TypeOK, Call
  <2>2. CASE Rests
    BY <1>2, <1>3, <1>5, <2>1, <2>2 DEF CloseAttempt
  <2>3. CASE ~Rests
    BY <2>1, <2>3 DEF NothingLeft, Rests
  <2> QED
    BY <2>2, <2>3
<1>6. CASE ResetNode(n)
  <2>1. call.pc = "reset" /\ call'.pc = "reset" /\ call'.goal = call.goal
          /\ call'.manual = (call.manual \/ UnknownWrite(n)) /\ UNCHANGED <<def, out>> /\ node[n] = "running"
          /\ node'[n] = (IF UnknownWrite(n) THEN "manual" ELSE "ready")
          /\ \A m \in Node \ {n} : node'[m] = node[m]
    BY <1>1, <1>6 DEF ResetNode, First, TypeOK, Call
  <2>2. CASE call.goal = "interrupted" /\ ~call.manual /\ ~UnknownWrite(n)
    BY <1>2, <1>3, <2>1, <2>2 DEF Rests
  <2>3. CASE ~ (call.goal = "interrupted" /\ ~call.manual /\ ~UnknownWrite(n))
    BY <2>1, <2>3 DEF NothingLeft, Rests
  <2> QED
    BY <2>2, <2>3
<1>7. CASE StartAttempt(n) \/ MarkStarted(n) \/ Enter(n)
  <2>1. run.status = "running" /\ Up
    BY <1>7 DEF StartAttempt, MarkStarted, Enter, Controls
  <2>2. UNCHANGED <<def, out>> /\ (\A m \in Node \ {n} : node'[m] = node[m])
          /\ (node[n] = node'[n] \/ (node[n] \in {"ready", "retry_wait", "running"}
                                       /\ node'[n] \in {"ready", "retry_wait", "running", "waiting"}))
    BY <1>1, <1>7 DEF StartAttempt, MarkStarted, Enter, Controls, TypeOK
  <2> QED
    BY <1>3, <2>1, <2>2 DEF Rests
<1>8. CASE Fail(n)
  <2>1. CASE FailedStatus(n) = "retry_wait"
    <3>1. run.status = "running" /\ Up
      BY <1>8 DEF Fail, Completes
    <3>2. UNCHANGED <<def, out>> /\ (\A m \in Node \ {n} : node'[m] = node[m])
            /\ node[n] = "running" /\ node'[n] = "retry_wait"
      BY <1>1, <1>8, <2>1 DEF Fail, Completes, TypeOK
    <3> QED
      BY <1>3, <3>1, <3>2 DEF Rests
  <2>2. CASE FailedStatus(n) # "retry_wait"
    <3>1. \/ call'.pc \in {"propagate", "terminalize"}
          \/ call'.pc = "end" /\ call'.goal = "manual"
      BY <1>8, <2>2 DEF Fail, Goto, Idle
    <3> QED
      BY <3>1 DEF NothingLeft, Rests
  <2> QED
    BY <2>1, <2>2
<1>9. CASE Resulting(n) \/ Refuse(n)
  <2>1. call'.pc \in {"propagate", "terminalize"}
    BY <1>9 DEF Resulting, Succeed, Decide, Accept, Timeout, Refuse, Result, Goto, Idle
  <2> QED
    BY <2>1 DEF NothingLeft, Rests
<1> QED
  BY <1>4, <1>5, <1>6, <1>7, <1>8, <1>9 DEF NodeStep

(***************************************************************************)
(* The routing invariant holds of every run without loops.                 *)
(***************************************************************************)
LEMMA DefinitionStays == ASSUME [Next]_vars PROVE def' = def
  BY DEF Next, vars, Route, CloseAttempt, CloseNode, ResetNode, ForgetRouting, Unlock, Settle, Derive,
     Rederive, EndMethod, Unlocked, Launch, StartAttempt, MarkStarted, Dispatch, Act, Fail,
     GiveUp, Succeed, Decide,
     Accept, Exit, Enter, Refuse, Timeout, Doubt, Limit, Repeat, Create, StartRun, Drive,
     Undrive, FailRun,
     Deadline, Expire, Cancel, Startup, Shutdown, Gone

LEMMA InitRouting == ASSUME Init PROVE RInv
<1>1. TypeOK
  BY InitKeeps DEF IInv
<1>2. \A n \in Node : node[n] \in {"ready", "pending"} /\ out[n] = {} /\ try[n].result = "none"
                        /\ (node[n] = "ready" <=> Entry(n))
  BY DEF Init, NoTry
<1>3. Rows
  BY <1>2 DEF Rows, Silent, Untried, Entries, Led, Ran
<1>4. run.status = "none" /\ core = "down" /\ call.pc = "idle"
  BY DEF Init, Idle
<1> QED
  BY <1>2, <1>3, <1>4 DEF RInv, Declined, InForce, Finished, Tended, NothingLeft

LEMMA NextRouting == ASSUME IInv, Straight => RInv, [Next]_vars PROVE (Straight => RInv)'
<1> SUFFICES ASSUME Straight' PROVE RInv'
  OBVIOUS
<1>1. Straight /\ RInv
  BY DefinitionStays DEF Straight
<1>2. CASE UNCHANGED vars
  <2>1. UNCHANGED <<def, node, out, try, run, core, call, task>>
    BY <1>2 DEF vars
  <2>2. Rows'
    BY <1>1, <2>1, SameRows DEF RInv
  <2>3. Declined' /\ Finished'
    BY <1>1, <2>1 DEF RInv, Declined, InForce, Derived, Entry, In, Refused, Resolved, Finished, Settled
  <2>4. Tended' /\ NothingLeft'
    BY <1>1, <2>1 DEF RInv, Tended, NothingLeft, Rests, Settled, Routable, Entry, In, Enabled, Disabled,
       Active, Resolved
  <2> QED
    BY <1>1, <2>1, <2>2, <2>3, <2>4 DEF RInv
<1>3. CASE Next
  <2>1. Aside \/ \E n \in Node : NodeStep(n)
    BY <1>1, <1>3, Straights DEF RInv
  <2>2. call'.pc # "unlock" /\ Finished'
    BY <1>1, <2>1, NoUnlock, FinishedStays DEF RInv
  <2>3. CASE Aside
    BY <1>1, <2>2, <2>3, AsideRows, SameRows, AsideDeclined, AsideTended, AsideNothingLeft DEF RInv
  <2>4. CASE \E n \in Node : NodeStep(n)
    BY <1>1, <2>2, <2>4, NodeStepRows, NodeStepDeclined, NodeStepTended, NodeStepNothingLeft DEF RInv
  <2> QED
    BY <2>1, <2>3, <2>4
<1> QED
  BY <1>2, <1>3

\* The routing invariant holds in every run whose definition has no loop.
THEOREM RoutingInductive == Spec => [](Straight => RInv)
<1>1. Init => (Straight => RInv)
  BY InitRouting
<1>2. IInv /\ (Straight => RInv) /\ [Next]_vars => (Straight => RInv)'
  BY NextRouting
<1> QED
  BY <1>1, <1>2, Inductive, PTL DEF Spec

\* A completed run without loops went the way its results say: a node ran, or
\* was given up for its own reasons, exactly if the nodes before it asked for
\* it, whatever died in between.
THEOREM RoutedAsAsked == Spec => [](Straight => CompletedTruthful)
<1>1. ASSUME IInv, RInv PROVE CompletedTruthful
  <2> SUFFICES ASSUME run.status = "completed", NEW n \in Node, ~Entry(n)
               PROVE  Asked(n) <=> node[n] = "succeeded" \/ (node[n] = "skipped" /\ ~Derived(n))
    BY DEF CompletedTruthful
  <2>1. node[n] \in {"succeeded", "skipped"}
    BY <1>1 DEF RInv, Finished, Settled
  <2>2. CASE node[n] = "succeeded" \/ (node[n] = "skipped" /\ ~Derived(n))
    BY <1>1, <2>2 DEF RInv, Rows, Led, Ran
  <2>3. CASE node[n] = "skipped" /\ Derived(n)
    <3>1. Refused(n)
      BY <1>1, <2>3 DEF RInv, Declined, InForce
    <3>2. ~Asked(n)
      BY <1>1, <3>1, JoinIs DEF Refused, Asked, IInv
    <3> QED
      BY <2>3, <3>2
  <2> QED
    BY <2>1, <2>2, <2>3
<1> QED
  BY <1>1, RoutingInductive, Inductive, PTL

(***************************************************************************)
(* NeverStuck: of the nodes that are pending one comes first, and it can   *)
(* be routed; the first node that is ready can be chosen.                  *)
(***************************************************************************)
LEMMA Smallest ==
  ASSUME NEW S \in SUBSET Nat, S # {}
  PROVE  \E x \in S : \A y \in S : x <= y
<1> DEFINE R == {p \in Nat \X Nat : p[1] < p[2]}
<1>1. IsWellFoundedOn(R, Nat)
  BY NatLessThanWellFounded, Zenon DEF OpToRel
<1>2. PICK x \in S : \A y \in S : ~ (<<y, x>> \in R)
  <2> HIDE DEF R
  <2> QED
    BY <1>1, WFMin, Zenon
<1>3. ASSUME NEW y \in S PROVE x <= y
  <2>1. x \in Nat /\ y \in Nat
    OBVIOUS
  <2>2. ~ (y < x)
    BY <1>2, <2>1
  <2> QED
    BY <2>1, <2>2
<1> QED
  BY <1>3

LEMMA ReachShrinks ==
  ASSUME TypeOK, NEW m \in Node, NEW n \in Node, <<m, n>> \in def.edges
  PROVE  /\ Reach({n}, def.edges) \subseteq Reach({m}, def.edges)
         /\ m \in Reach({m}, def.edges) \ Reach({n}, def.edges)
<1>1. m \in Reach({m}, def.edges)
  BY DEF Reach
<1>2. m \notin Reach({n}, def.edges)
  <2>1. def \in Definitions
    BY DEF TypeOK
  <2>2. \A e \in def.edges : e[1] \notin Reach({e[2]}, def.edges)
    BY <2>1, Compiled
  <2> QED
    BY <2>2
<1>3. ASSUME NEW x \in Reach({n}, def.edges) PROVE x \in Reach({m}, def.edges)
  <2>1. x \in Node /\ \A X \in SUBSET Node :
            ({n} \subseteq X /\ \A e \in def.edges : e[1] \in X => e[2] \in X) => x \in X
    BY <1>3 DEF Reach
  <2>2. ASSUME NEW X \in SUBSET Node, {m} \subseteq X, \A e \in def.edges : e[1] \in X => e[2] \in X
        PROVE  x \in X
    <3>1. n \in X
      BY <2>2
    <3> QED
      BY <2>1, <2>2, <3>1
  <2> QED
    BY <2>1, <2>2 DEF Reach
<1> QED
  BY <1>1, <1>2, <1>3

\* Some node of every set comes after no other of the set.
LEMMA Earliest ==
  ASSUME TypeOK, NEW S \in SUBSET Node, S # {}
  PROVE  \E n \in S : In(n) \cap S = {}
<1> DEFINE After(n) == Reach({n}, def.edges)
           size == Cardinality(Node)
           D == {size - Cardinality(After(n)) : n \in S}
<1>1. IsFiniteSet(Node) /\ size \in Nat
  BY GraphConstants, FS_CardinalityType
<1>2. ASSUME NEW n \in Node
      PROVE  /\ IsFiniteSet(After(n)) /\ Cardinality(After(n)) \in Nat
             /\ Cardinality(After(n)) <= size
  <2>1. After(n) \in SUBSET Node
    BY DEF Reach
  <2> HIDE DEF After
  <2> QED
    BY <1>1, <2>1, FS_Subset, FS_CardinalityType
<1> HIDE DEF After, size
<1>3. D \in SUBSET Nat /\ D # {}
  <2>1. ASSUME NEW n \in S PROVE size - Cardinality(After(n)) \in Nat
    <3>1. n \in Node
      OBVIOUS
    <3> QED
      BY <1>1, <1>2, <3>1
  <2> QED
    BY <2>1
<1>4. PICK d \in D : \A e \in D : d <= e
  <2> HIDE DEF D
  <2> QED
    BY <1>3, Smallest
<1>5. PICK n \in S : d = size - Cardinality(After(n))
  BY <1>4
<1>6. ASSUME NEW m \in In(n), m \in S PROVE FALSE
  <2>1. m \in Node /\ n \in Node /\ <<m, n>> \in def.edges
    BY <1>6 DEF In
  <2>2. After(n) \subseteq After(m) /\ m \in After(m) \ After(n)
    BY <2>1, ReachShrinks DEF After
  <2>3. Cardinality(After(n)) < Cardinality(After(m))
    <3>1. Cardinality(After(n)) <= Cardinality(After(m)) /\ Cardinality(After(n)) # Cardinality(After(m))
      BY <1>2, <2>1, <2>2, FS_Subset
    <3> QED
      BY <1>2, <2>1, <3>1
  <2>4. d <= size - Cardinality(After(m))
    BY <1>4, <1>6
  <2> QED
    BY <1>1, <1>2, <1>5, <2>1, <2>3, <2>4
<1> QED
  BY <1>6

\* A node whose predecessors are all settled can be routed.
LEMMA CanRoute ==
  ASSUME TypeOK, NEW n \in Node, node[n] = "pending", ~Entry(n), \A m \in In(n) : Resolved(m)
  PROVE  Routable(n)
  BY JoinIs DEF Routable, Entry, Enabled, Disabled

\* The executor of a run without loops always has something to do or to wait
\* for, unless a Core died in the middle of ending the run: no node is left
\* behind by the routing.
THEOREM NobodyStuck == Spec => [](Straight => NeverStuck)
<1>1. ASSUME IInv, Straight, RInv PROVE NeverStuck
  <2> SUFFICES ASSUME Up, drive = "on", run.status \in {"running", "waiting"}, Stuck, ~Some({"cancelled"})
               PROVE  FALSE
    BY DEF NeverStuck
  <2>1. TypeOK
    BY <1>1 DEF IInv
  <2>2. Left
    BY <1>1 DEF RInv, NothingLeft, Rests, Left
  <2>3. \A n \in Node : node[n] \notin {"failed", "manual", "cancelled"}
    BY <1>1 DEF IInv, Inv, Seen, Some
  <2>4. \A n \in Node : node[n] # "running"
    <3>1. ASSUME NEW n \in Node, node[n] = "running" PROVE FALSE
      <4>1. run.status = "running"
        BY <1>1, <3>1 DEF IInv, Inv, RunningHeld
      <4>2. task[n] # "none"
        BY <1>1, <3>1, <4>1 DEF RInv, Tended
      <4> QED
        BY <3>1, <4>2 DEF Stuck
    <3> QED
      BY <3>1
  <2>5. \A n \in Node : node[n] # "ready"
    <3> DEFINE A == {n \in Node : node[n] = "ready"}
    <3>1. ASSUME A # {} PROVE FALSE
      <4>1. A \in SUBSET Nat
        BY GraphConstants
      <4>2. PICK n \in A : \A m \in A : n <= m
        <5> HIDE DEF A
        <5> QED
          BY <3>1, <4>1, Smallest
      <4>3. {m \in Node : node[m] = "ready" /\ m < n} = {}
        <5>1. ASSUME NEW m \in Node, node[m] = "ready", m < n PROVE FALSE
          <6>1. m \in Nat /\ n \in Nat /\ n <= m
            BY <4>1, <4>2, <5>1
          <6> QED
            BY <5>1, <6>1
        <5> QED
          BY <5>1
      <4>4. Chosen(n)
        <5>1. Cardinality({}) = 0
          BY FS_EmptySet
        <5> QED
          BY <4>3, <5>1, GraphConstants DEF Chosen, Stuck
      <4>5. Undecided(n)
        BY <4>2, <4>4 DEF Stuck
      <4> QED
        BY <1>1, <4>2, <4>5 DEF Undecided, Straight
    <3> QED
      BY <3>1
  <2>6. \A n \in Node : node[n] \in {"pending", "succeeded", "skipped"}
    BY <2>1, <2>3, <2>4, <2>5 DEF TypeOK, Stuck
  <2> DEFINE P == {n \in Node : node[n] = "pending"}
  <2>7. P # {}
    BY <2>2, <2>6 DEF Left, Settled
  <2>8. PICK n \in P : In(n) \cap P = {}
    <3>1. P \in SUBSET Node
      OBVIOUS
    <3> HIDE DEF P
    <3> QED
      BY <2>1, <2>7, <3>1, Earliest
  <2>9. \A m \in In(n) : Resolved(m)
    BY <2>6, <2>8, InType DEF Resolved
  <2>10. ~Entry(n)
    BY <1>1, <2>8 DEF RInv, Rows, Entries
  <2>11. Routable(n)
    BY <2>1, <2>8, <2>9, <2>10, CanRoute
  <2> QED
    BY <2>2, <2>8, <2>11 DEF Left
<1> QED
  BY <1>1, RoutingInductive, Inductive, PTL
=============================================================================

----------------------------- MODULE GraphPromise -----------------------------
(***************************************************************************)
(* What a GraphRun promises to whoever started it: the Scheduler, a person *)
(* at the API, a parent graph.  None of them sees nodes, attempts or Core  *)
(* processes; they see one status, and rely on three things:               *)
(*  - the status moves among the live ones until it is final, and a final  *)
(*    status is never left (SchedulerQueue settles a request by it);       *)
(*  - a node that must not be repeated takes effect at most once in an     *)
(*    occurrence, whatever crashes and is resumed;                         *)
(*  - completed, failed and cancelled say that the outcome of every such   *)
(*    effect is known; if one is not, the end is manual_reconcile_required.*)
(***************************************************************************)
CONSTANT Once       \* nodes whose effect must not be repeated

VARIABLES
    status,    \* the status of the run, as SchedulerQueue has it
    entered,   \* nodes that have taken effect in this occurrence
    known      \* nodes whose result is recorded

vars == <<status, entered, known>>

Live == {"created", "running", "waiting", "interrupted"}
Known == {"completed", "failed", "cancelled"}

Init ==
    /\ status = "none"
    /\ entered = {}
    /\ known = {}

Create ==
    /\ status = "none"
    /\ status' = "created"
    /\ UNCHANGED <<entered, known>>

\* Started, resumed, waiting for a person or a time, interrupted by a Core
Move ==
    /\ status \in Live
    /\ status' \in {"running", "waiting", "interrupted"}
    /\ UNCHANGED <<entered, known>>

\* n takes effect; late, if the run was already given up for a person to look at
Enter(n) ==
    /\ status \in {"running", "manual_reconcile_required"}
    /\ n \notin entered \cup known
    /\ entered' = entered \cup {n}
    /\ UNCHANGED <<status, known>>

Know(n) ==
    /\ status = "running"
    /\ n \notin known
    /\ known' = known \cup {n}
    /\ UNCHANGED <<status, entered>>

\* The next iteration of a loop is a new occurrence of n.
Repeat(n) ==
    /\ status = "running"
    /\ n \in known
    /\ entered' = entered \ {n}
    /\ known' = known \ {n}
    /\ UNCHANGED status

End ==
    /\ status \in Live
    /\ \/ /\ status' \in Known
          /\ entered \subseteq known
       \/ status' = "manual_reconcile_required"
    /\ UNCHANGED <<entered, known>>

Next ==
    \/ Create
    \/ Move
    \/ \E n \in Once : Enter(n) \/ Know(n) \/ Repeat(n)
    \/ End

Spec == Init /\ [][Next]_vars
=============================================================================

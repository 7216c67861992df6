--------------------------- MODULE MCSchedulerQueue ---------------------------
(***************************************************************************)
(* Small instances of SchedulerQueue for TLC.                              *)
(***************************************************************************)
EXTENDS SchedulerQueue, TLC

CONSTANTS s1, r1, r2

OneSchedule == [r \in Request |-> s1]
WorkerSymmetry == Permutations(Worker)
\* A single Core takes part: the other one has neither begun nor left anything
Alone == \E w \in Worker : \A v \in Worker \ {w} :
            pc[v] = "idle" /\ pc[w] # "dead" /\ ~has[v] /\ mem[v] = Blank /\ driven[v] = {}
Staying == \A w \in Worker : pc[w] \notin {"stopping", "closing"}
\* During a second attempt graphs do not wait for input and no Core is shut
\* down in order.  The second request, which comes after the first, and changes
\* of the schedule's status, not both, and a limit of 2 only while a single
\* Core takes part that is not shut down in order, for idempotent requests, at
\* most one of them cancelled, first attempts and graphs that neither wait nor
\* are interrupted.
Bounded ==
    \/ /\ req[r2].status = "none" /\ head[s1] = "enabled" /\ req[r1].limit <= 1
       /\ req[r1].count = 2 => graph[r1] # "waiting" /\ Staying
    \/ /\ req[r2].status = "none" \/ (head[s1] = "enabled" /\ req[r1].status # "none")
       /\ \A r \in Request :
             /\ req[r].count <= 1 /\ req[r].status # "retry_wait"
             /\ req[r].status = "none" \/ req[r].idem
             /\ graph[r] \notin {"waiting", "interrupted"}
       /\ Cardinality({r \in Request : req[r].cancel}) <= 1
       /\ Alone /\ Staying
=============================================================================

--------------------------- MODULE MCRemoteExecution ---------------------------
(***************************************************************************)
(* A small instance of RemoteExecution for TLC.                            *)
(***************************************************************************)
EXTENDS RemoteExecution, TLC

CONSTANTS j1, j2

Exec == [exec |-> TRUE, once |-> TRUE]
ReadAgain == [exec |-> FALSE, once |-> FALSE]
Misdeclared == [exec |-> TRUE, once |-> FALSE]
AllKinds == {Exec, ReadAgain, Misdeclared}
DispatcherSymmetry == Permutations(Dispatcher)
\* A second job, after the first one, only with commands that are declared as
\* they should be, on the first lease, without requests or results of clients
Second ==
    /\ job[j1].status # "none" /\ lease.fence = 1
    /\ \A j \in Job : kind[j] = Exec /\ call[j]["client"].pc = "none" /\ job[j].by # "client"
    /\ \A o \in Owner : ~taker[o].busy
\* To everything but the dispatcher that brings the same, a client's "cancelled"
\* is like its "failed".
Few ==
    /\ job[j2].status = "none" \/ Second
    /\ job[j1].by = "client" => job[j1].status # "cancelled"
=============================================================================

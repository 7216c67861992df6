----------------------------- MODULE RemotePromise -----------------------------
(***************************************************************************)
(* What the record of a remote job promises to whoever asked for it.  They *)
(* read one row in the Core's database and never see the target:           *)
(*  - the command of a job acts at most once;                              *)
(*  - a job that the target reported on does not act any more;             *)
(*  - a job that the Core records as failed or cancelled without a word    *)
(*    from the target has not acted and never will;                        *)
(*  - a job that is not known to have ended may have acted or act yet:     *)
(*    one that is unknown, or one whose result a client gave without the   *)
(*    target, and both stay what they are.                                 *)
(***************************************************************************)
EXTENDS Naturals

CONSTANT Job

VARIABLES
    phase,     \* phase[j]: what the row of j says
    ran        \* ran[j]: how often the command of j has acted

vars == <<phase, ran>>

Phase == {"new", "running", "reported", "void", "unknown", "told"}

Init ==
    /\ phase = [j \in Job |-> "new"]
    /\ ran = [j \in Job |-> 0]

Acts(j) ==
    /\ phase[j] \in {"running", "unknown", "told"}
    /\ ran[j] = 0 /\ ran'[j] = 1
    /\ phase'[j] = phase[j]

Moves(j) ==
    /\ \/ phase[j] = "new" /\ phase'[j] \in {"running", "void"}
       \/ phase[j] = "running" /\ phase'[j] \in {"reported", "unknown", "told"}
       \/ phase[j] = "running" /\ phase'[j] = "void" /\ ran[j] = 0
    /\ ran'[j] = ran[j]

Rests(j) == phase'[j] = phase[j] /\ ran'[j] = ran[j]

\* A lease that ends may settle several jobs at once.
Next ==
    /\ phase' \in [Job -> Phase] /\ ran' \in [Job -> Nat]
    /\ \A j \in Job : Acts(j) \/ Moves(j) \/ Rests(j)

Spec == Init /\ [][Next]_vars
=============================================================================

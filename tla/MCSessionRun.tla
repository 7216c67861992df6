----------------------------- MODULE MCSessionRun -----------------------------
(***************************************************************************)
(* Small instances of SessionRun for TLC.                                  *)
(***************************************************************************)
EXTENDS SessionRun, TLC

ProcSymmetry == Permutations(Proc)
=============================================================================

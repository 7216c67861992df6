------------------------------ MODULE MCMergeRun ------------------------------
(***************************************************************************)
(* Small instances of MergeRun for TLC.                                    *)
(***************************************************************************)
EXTENDS MergeRun, TLC

CONSTANTS x1, x2

OnePair == {{x1, x2}}
NoPair == {}
CoreSymmetry == Permutations(Core)
MergeSymmetry == Permutations(Merge)
WriterSymmetry == Permutations(Writer)
Symmetry == CoreSymmetry \cup MergeSymmetry \cup WriterSymmetry
=============================================================================

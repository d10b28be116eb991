---------------------------- MODULE MCRunEngine ----------------------------
(***************************************************************************)
(* Instances of RunEngine for TLC.                                         *)
(***************************************************************************)
EXTENDS RunEngine, TLC

Symmetry == Permutations(Runs) \cup Permutations(Submissions)
            \cup Permutations(Fingerprints)
=============================================================================

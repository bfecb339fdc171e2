----------------------------- MODULE MCAdmission -----------------------------
(* Admission with two runs that may be interchanged. *)
EXTENDS Admission, TLC

CONSTANTS r1, r2

Runs == {r1, r2}
RunSymmetry == Permutations(Runs)
==============================================================================

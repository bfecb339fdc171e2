---------------------------- MODULE MCOrchestrate ----------------------------
(* One or two runs, one or two processes, one or two database clients.     *)
EXTENDS Orchestrate, TLC
CONSTANTS r1, r2, p1, p2, c1, c2
OneRun == {r1}
TwoRuns == {r1, r2}
OneProc == {p1}
TwoProcs == {p1, p2}
OneClient == {c1}
TwoClients == {c1, c2}
Symmetry == Permutations(TwoProcs)
=============================================================================

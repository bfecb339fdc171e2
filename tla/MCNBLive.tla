------------------------------- MODULE MCNBLive -------------------------------
(* The adapter against two values of A's port set.                         *)
EXTENDS NBLive, TLC
CONSTANTS original, drifted
MCPortSets == {original, drifted}
=============================================================================

----------------------------- MODULE MCNBRecovery -----------------------------
(* The adapter and the recovery on one journal.                            *)
EXTENDS NBRecovery, TLC
CONSTANT original
OnePortSet == {original}
=============================================================================

----------------------------- MODULE OwnedChange -----------------------------
(***************************************************************************)
(* What the NB live adapter promises about the database, without files,    *)
(* journal or process: one change that its owner may make at most once and *)
(* undo at most once, each announced before it can happen; a verdict about *)
(* the change is only given once it is there, and it is undone only after  *)
(* such a verdict.                                                         *)
(***************************************************************************)
EXTENDS Naturals

CONSTANT MaxApplied     \* bound: how often the change may be applied

VARIABLES
    db,         \* "clean" or "built"
    forward,    \* the life of the change
    undo,       \* the life of its inverse
    applied,    \* how often the change was made
    verdict     \* what the owner's record says of the database

changeVars == <<db, forward, undo, applied, verdict>>

Lives == {"idle", "announced", "running", "applied", "refused", "gone"}

ChangeInit ==
    /\ db = "clean"
    /\ forward = "idle"
    /\ undo = "idle"
    /\ applied = 0
    /\ verdict = "none"

AnnounceForward ==
    /\ forward = "idle"
    /\ forward' = "announced"
    /\ UNCHANGED <<db, undo, applied, verdict>>

(* The undo is announced on the strength of a "built" verdict, which the   *)
(* announcement withdraws.                                                 *)
AnnounceUndo ==
    /\ undo = "idle"
    /\ verdict = "built"
    /\ undo' = "announced"
    /\ verdict' = "none"
    /\ UNCHANGED <<db, forward, applied>>

HandForward ==
    /\ forward = "announced"
    /\ forward' = "running"
    /\ UNCHANGED <<db, undo, applied, verdict>>

HandUndo ==
    /\ undo = "announced"
    /\ undo' = "running"
    /\ UNCHANGED <<db, forward, applied, verdict>>

ApplyForward ==
    /\ forward = "running"
    /\ db = "clean"
    /\ applied < MaxApplied
    /\ db' = "built"
    /\ forward' = "applied"
    /\ applied' = applied + 1
    /\ UNCHANGED <<undo, verdict>>

ApplyUndo ==
    /\ undo = "running"
    /\ db = "built"
    /\ db' = "clean"
    /\ undo' = "applied"
    /\ UNCHANGED <<forward, applied, verdict>>

Lose ==
    /\ \/ forward = "running" /\ forward' \in {"refused", "gone"} /\ UNCHANGED undo
       \/ undo = "running" /\ undo' \in {"refused", "gone"} /\ UNCHANGED forward
    /\ UNCHANGED <<db, applied, verdict>>

ConfirmBuilt ==
    /\ forward = "applied"
    /\ undo = "idle"
    /\ db = "built"
    /\ verdict' = "built"
    /\ UNCHANGED <<db, forward, undo, applied>>

ConfirmClean ==
    /\ undo = "applied"
    /\ db = "clean"
    /\ verdict' = "clean"
    /\ UNCHANGED <<db, forward, undo, applied>>

Doubt ==
    /\ verdict' = "none"
    /\ UNCHANGED <<db, forward, undo, applied>>

ChangeNext ==
    \/ AnnounceForward \/ AnnounceUndo \/ HandForward \/ HandUndo
    \/ ApplyForward \/ ApplyUndo \/ Lose
    \/ ConfirmBuilt \/ ConfirmClean \/ Doubt

ChangeSpec == ChangeInit /\ [][ChangeNext]_changeVars
=============================================================================

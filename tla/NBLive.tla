-------------------------------- MODULE NBLive --------------------------------
(***************************************************************************)
(* The NB live adapter (x05-nb-live.py): one process that applies the      *)
(* forward transaction, and later the inverse, leaving one durable file    *)
(* per stage and a durable journal that binds those files in order.  The   *)
(* process may die between any two steps; the files, the journal, the      *)
(* database and a client already started inside the container survive it.  *)
(* The adapter is modelled as production builds it, bound to the admission *)
(* producer: every publication to the producer may fail.                   *)
(***************************************************************************)
EXTENDS Northbound, Sequences

VARIABLES
    (* durable *)
    jstate,         \* Journal.document["state"]; "NONE" while no file exists
    jarts,          \* how many artifact events the journal holds
    file,           \* file[s]: the content of stage s's file
    (* volatile *)
    phase,          \* the operation in progress
    pc,             \* where it is; "idle" when no adapter process runs
    next,           \* Evidence.next_stage
    view,           \* payload of the stage being recorded
    trusted,        \* the journal is still what this process last wrote
    attempted,      \* _OperationState.attempted
    (* history *)
    dispatches      \* dispatches[p]: transactions of phase p handed over

durable  == <<jstate, jarts, file>>
volatile == <<phase, pc, next, view, trusted, attempted>>
adapterVars == <<jstate, jarts, file, phase, pc, next, view, trusted, attempted, dispatches>>
vars == <<nbVars, adapterVars>>

FORWARD_STAGES == <<"preflight", "forward_tx", "forward_result",
                    "forward_checked", "built_snapshot", "built_checked">>
INVERSE_STAGES == <<"preinverse_snapshot", "inverse_tx", "inverse_result",
                    "inverse_checked", "clean_snapshot", "clean_checked">>
ALL_STAGES == FORWARD_STAGES \o INVERSE_STAGES
Stages == {"preflight", "forward_tx", "forward_result",
           "forward_checked", "built_snapshot", "built_checked",
           "preinverse_snapshot", "inverse_tx", "inverse_result",
           "inverse_checked", "clean_snapshot", "clean_checked"}

ForwardStates == {"NB_FORWARD_INTENT", "NB_FORWARD_COMMITTED",
                  "NB_FORWARD_AMBIGUOUS", "NB_FORWARD_VERIFIED"}
RecoveryStates == {"NB_FORWARD_RECOVERY_INTENT", "NB_FORWARD_RECOVERY_BLOCKED",
                   "NB_FORWARD_RECOVERED_VERIFIED", "NB_FORWARD_RECOVERED_CLEAN"}
InverseStates == {"NB_INVERSE_INTENT", "NB_INVERSE_COMMITTED",
                  "NB_INVERSE_AMBIGUOUS", "NB_INVERSE_VERIFIED"}
STATES == {"NB_ABSENT"} \cup ForwardStates \cup RecoveryStates \cup InverseStates

(* A file: absent, or the status it reports and what it saw of the NB.     *)
Content == [status : {"ABSENT", "PASS", "FAIL"}, first : Nat, last : Nat, ports : PortSets]

(* The producer-bound snapshot helpers. *)
SnapshotStages == {"preflight", "built_snapshot", "preinverse_snapshot", "clean_snapshot"}

PCs == {"idle", "helper", "reading", "write", "append", "publish", "prepare",
        "preparepub", "dispatch", "wait", "outcome", "outcomepub", "verify",
        "verifypub", "retainwrite", "retainappend", "retainoutcome", "qualify"}

TypeOK ==
    /\ NorthboundTypeOK
    /\ jstate \in STATES \cup {"NONE"}
    /\ jarts \in 0..12
    /\ file \in [Stages -> Content]
    /\ phase \in Phases
    /\ pc \in PCs
    /\ next \in 0..12
    /\ view \in Content
    /\ trusted \in BOOLEAN
    /\ attempted \in BOOLEAN
    /\ dispatches \in [Phases -> Nat]

Init ==
    /\ NorthboundInit
    /\ jstate = "NONE"
    /\ jarts = 0
    /\ file = [s \in Stages |->
                 [status |-> "ABSENT", first |-> 0, last |-> 0, ports |-> aPorts]]
    /\ phase = "forward"
    /\ pc = "idle"
    /\ next = 0
    /\ view = [status |-> "FAIL", first |-> 0, last |-> 0, ports |-> aPorts]
    /\ trusted = TRUE
    /\ attempted = FALSE
    /\ dispatches = [p \in Phases |-> 0]

-----------------------------------------------------------------------------
(* State names of a phase. *)
INTENT(p)    == IF p = "forward" THEN "NB_FORWARD_INTENT"    ELSE "NB_INVERSE_INTENT"
Mutant_COMMITTED_AsVerified(p) ==
    IF p = "forward" THEN "NB_FORWARD_VERIFIED" ELSE "NB_INVERSE_VERIFIED"
COMMITTED(p) == IF p = "forward" THEN "NB_FORWARD_COMMITTED" ELSE "NB_INVERSE_COMMITTED"
Mutant_AMBIGUOUS_Unprefixed(p) ==
    IF p = "forward" THEN "FORWARD_AMBIGUOUS" ELSE "INVERSE_AMBIGUOUS"
AMBIGUOUS(p) == IF p = "forward" THEN "NB_FORWARD_AMBIGUOUS" ELSE "NB_INVERSE_AMBIGUOUS"
VERIFIED(p)  == IF p = "forward" THEN "NB_FORWARD_VERIFIED"  ELSE "NB_INVERSE_VERIFIED"

(* Stage indexes (Evidence.next_stage before the stage is recorded). *)
ResultIndex(p) == IF p = "forward" THEN 2 ELSE 8
LastIndex(p)   == IF p = "forward" THEN 6 ELSE 12
Stage == ALL_STAGES[next + 1]

Exists(s) == file[s].status # "ABSENT"
Fingerprint == file["preflight"].ports     \* a_fingerprint, as the preflight saw it
Inserted    == file["forward_checked"].first \* the checked UUID map
ViewFor(s) == [status |-> s, first |-> 0, last |-> 0, ports |-> aPorts]

(***************************************************************************)
(* An exception: before the dispatch it ends the operation; between the    *)
(* dispatch and the published outcome the raw result is retained first;    *)
(* later _run_operation only qualifies the journal as ambiguous.           *)
(***************************************************************************)
Raised ==
    IF ~attempted THEN "idle"
    ELSE IF next = ResultIndex(phase) THEN "retainwrite"
    ELSE IF next = ResultIndex(phase) + 1 /\ pc \in {"publish", "outcome", "outcomepub"}
         THEN "retainoutcome"
    ELSE "qualify"

Raise == pc' = Raised

(* Journal.append after verify_current: the journal is replaced only when  *)
(* it is still what this process last wrote.                               *)
JournalState(s) == trusted /\ jstate' = s

(* An append that fails: the in-memory document has moved on, so every     *)
(* later append of this process is refused, whether the file was replaced  *)
(* (the directory fsync failed) or not.                                    *)
AppendFails(s) ==
    /\ trusted' = FALSE
    /\ IF trusted THEN jstate' \in {jstate, s} ELSE jstate' = jstate

-----------------------------------------------------------------------------
(* forward(): Journal.create refuses any existing journal.                 *)
StartForward ==
    /\ pc = "idle"
    /\ jstate = "NONE"
    /\ jstate' = "NB_ABSENT"
    /\ phase' = "forward"
    /\ pc' = "helper"
    /\ next' = 0
    /\ trusted' = TRUE
    /\ attempted' = FALSE
    /\ UNCHANGED <<nbVars, jarts, file, view, dispatches>>

(* Mutant: the inverse looks at the artifacts but not at the state.        *)
Mutant_LoadForInverse_AnyState ==
    /\ jarts = Len(FORWARD_STAGES)
    /\ \A s \in {"preflight", "forward_checked", "built_checked"} :
         file[s].status = "PASS"

(* inverse(): load_for_inverse accepts only NB_FORWARD_VERIFIED with the   *)
(* six forward artifacts and nothing else, all passing.                    *)
LoadForInverse ==
    /\ jstate = "NB_FORWARD_VERIFIED"
    /\ jarts = Len(FORWARD_STAGES)
    /\ \A s \in {"preflight", "forward_checked", "built_checked"} :
         file[s].status = "PASS"

StartInverse ==
    /\ pc = "idle"
    /\ LoadForInverse
    /\ phase' = "inverse"
    /\ pc' = "helper"
    /\ next' = Len(FORWARD_STAGES)
    /\ trusted' = TRUE
    /\ attempted' = FALSE
    /\ UNCHANGED <<nbVars, durable, view, dispatches>>

-----------------------------------------------------------------------------
(* The helper of a snapshot stage reads its tables one after the other.    *)
ReadFirstTables ==
    /\ pc = "helper"
    /\ Stage \in SnapshotStages
    /\ view' = [status |-> "FAIL", first |-> rows, last |-> 0, ports |-> aPorts]
    /\ pc' = "reading"
    /\ UNCHANGED <<nbVars, durable, phase, next, trusted, attempted, dispatches>>

ReadLastTables ==
    /\ pc = "reading"
    /\ view' = [view EXCEPT
          !.last = rows,
          !.status = IF Stage # "preflight" \/ (view.first = 0 /\ rows = 0)
                     THEN "PASS" ELSE "FAIL"]
    /\ pc' = "write"
    /\ UNCHANGED <<nbVars, durable, phase, next, trusted, attempted, dispatches>>

(* check_result: every operation of the raw answer must be free of errors. *)
ResultAccepted(s) == file[s].status = "PASS"

(* The local helpers: what they print for the stage, when they print JSON. *)
LocalHelperOutput(s) ==
    CASE s = "forward_tx" -> ViewFor("PASS")
      [] s = "forward_checked" -> file["forward_result"]
      [] s = "built_checked" ->
           ViewFor(IF ShowsBuilt(file["built_snapshot"], Fingerprint, Inserted)
                   THEN "PASS" ELSE "FAIL")
      [] s = "inverse_tx" -> ViewFor("PASS")
      [] s = "inverse_checked" -> file["inverse_result"]
      [] s = "clean_checked" ->
           ViewFor(IF ShowsClean(file["clean_snapshot"], Fingerprint)
                   THEN "PASS" ELSE "FAIL")
      [] OTHER -> ViewFor("FAIL")

(* complete_rows: the preinverse snapshot holds every owned row, and none  *)
(* with another UUID, or the inverse is not built.                         *)
CompleteRows(s) == Inserted # 0 /\ file[s].first = Inserted /\ file[s].last = Inserted

LocalHelperAccepts(s) ==
    /\ s = "forward_checked" => ResultAccepted("forward_result")
    /\ s = "inverse_checked" => ResultAccepted("inverse_result")
    /\ s = "inverse_tx" => CompleteRows("preinverse_snapshot")

RunLocalHelper ==
    /\ pc = "helper"
    /\ Stage \in Stages \ (SnapshotStages \cup {"forward_result", "inverse_result"})
    /\ LocalHelperAccepts(Stage)
    /\ view' = LocalHelperOutput(Stage)
    /\ pc' = "write"
    /\ UNCHANGED <<nbVars, durable, phase, next, trusted, attempted, dispatches>>

(* A helper that times out, exits without JSON or finds its source binding *)
(* changed.                                                                *)
HelperFails ==
    /\ pc \in {"helper", "reading"}
    /\ Raise
    /\ UNCHANGED <<nbVars, durable, phase, next, view, trusted, attempted, dispatches>>

-----------------------------------------------------------------------------
(* Evidence.record: the file first (refused if one exists) ...             *)
WriteArtifact ==
    /\ pc = "write"
    /\ trusted
    /\ ~Exists(Stage)
    /\ file' = [file EXCEPT ![Stage] = view]
    /\ pc' = "append"
    /\ UNCHANGED <<nbVars, jstate, jarts, phase, next, view, trusted, attempted, dispatches>>

(* Mutant: a failed write is taken for a durable one.                      *)
Mutant_WriteArtifactFails_Ignored ==
    /\ pc = "write"
    /\ pc' = "append"
    /\ UNCHANGED <<nbVars, durable, phase, next, view, trusted, attempted, dispatches>>

WriteArtifactFails ==
    /\ pc = "write"
    /\ \/ UNCHANGED file
       \/ /\ trusted /\ ~Exists(Stage)   \* replaced, then fsync failed
          /\ file' = [file EXCEPT ![Stage] = view]
    /\ Raise
    /\ UNCHANGED <<nbVars, jstate, jarts, phase, next, view, trusted, attempted, dispatches>>

(* ... then the journal event that binds it, and only then next_stage.     *)
AppendArtifact ==
    /\ pc = "append"
    /\ trusted
    /\ jarts' = next + 1
    /\ next' = next + 1
    /\ pc' = "publish"
    /\ UNCHANGED <<nbVars, jstate, file, phase, view, trusted, attempted, dispatches>>

AppendArtifactFails ==
    /\ pc \in {"append", "retainappend"}
    /\ trusted' = FALSE
    /\ IF trusted THEN jarts' \in {jarts, next + 1} ELSE jarts' = jarts
    /\ IF pc = "append" THEN Raise ELSE pc' = "qualify"
    /\ UNCHANGED <<nbVars, jstate, file, phase, next, view, attempted, dispatches>>

(* What follows a recorded artifact.  _require_command_success and         *)
(* _require_status turn a FAIL into an exception after it was recorded.    *)
AfterArtifact ==
    LET s == ALL_STAGES[next]
    IN  CASE s \in {"forward_tx", "inverse_tx"} -> "prepare"
          [] s \in {"forward_result", "inverse_result"} -> "outcome"
          [] s \in {"built_checked", "clean_checked"} /\ view.status = "PASS" -> "verify"
          [] view.status = "FAIL" -> Raised
          [] OTHER -> "helper"

PublishArtifact ==
    /\ pc = "publish"
    /\ pc' = AfterArtifact
    /\ UNCHANGED <<nbVars, durable, phase, next, view, trusted, attempted, dispatches>>

(* The producer refuses a publication (its authority or chain changed).    *)
PublishFails ==
    /\ pc \in {"publish", "preparepub", "outcomepub", "verifypub"}
    /\ Raise
    /\ UNCHANGED <<nbVars, durable, phase, next, view, trusted, attempted, dispatches>>

-----------------------------------------------------------------------------
(* Mutant: the intent is only published, not written to the journal.       *)
Mutant_Prepare_NotDurable ==
    /\ pc = "prepare"
    /\ pc' = "preparepub"
    /\ UNCHANGED <<nbVars, durable, phase, next, view, trusted, attempted, dispatches>>

(* _record_mutation_prepare: the durable INTENT precedes the transaction.  *)
Prepare ==
    /\ pc = "prepare"
    /\ JournalState(INTENT(phase))
    /\ pc' = "preparepub"
    /\ UNCHANGED <<nbVars, jarts, file, phase, next, view, trusted, attempted, dispatches>>

PublishIntent ==
    /\ pc = "preparepub"
    /\ pc' = "dispatch"
    /\ UNCHANGED <<nbVars, durable, phase, next, view, trusted, attempted, dispatches>>

StateAppendFails ==
    /\ \/ pc = "prepare" /\ AppendFails(INTENT(phase))
       \/ pc = "outcome" /\ AppendFails(COMMITTED(phase))
       \/ pc = "verify"  /\ AppendFails(VERIFIED(phase))
    /\ Raise
    /\ UNCHANGED <<nbVars, jarts, file, phase, next, view, attempted, dispatches>>

(* _ovsdb: mark_attempted, then the client runs inside the container.      *)
Dispatch ==
    /\ pc = "dispatch"
    /\ attempted' = TRUE
    /\ dispatches' = [dispatches EXCEPT ![phase] = @ + 1]
    /\ Hand(phase, Fingerprint, IF phase = "forward" THEN 0 ELSE Inserted)
    /\ pc' = "wait"
    /\ UNCHANGED <<rows, aPorts, insertions, durable, phase, next, view, trusted>>

(* The factory or container binding no longer holds before the hand-over.  *)
DispatchRefused ==
    /\ pc = "dispatch"
    /\ Raise
    /\ UNCHANGED <<nbVars, durable, phase, next, view, trusted, attempted, dispatches>>

(* The client answers: a reply with or without errors inside it.           *)
Reply ==
    /\ pc = "wait"
    /\ client[phase].st \in {"applied", "refused"}
    /\ view' = [status |-> IF client[phase].st = "applied" THEN "PASS" ELSE "FAIL",
                first |-> client[phase].rows, last |-> client[phase].rows,
                ports |-> aPorts]
    /\ pc' = "write"
    /\ UNCHANGED <<nbVars, durable, phase, next, trusted, attempted, dispatches>>

(* Mutants: a timeout that retries the transaction; no timeout at all.     *)
Mutant_GiveUp_Retries ==
    /\ pc = "wait"
    /\ pc' = "dispatch"
    /\ UNCHANGED <<nbVars, durable, phase, next, view, trusted, attempted, dispatches>>
Mutant_GiveUp_Never == FALSE

(* AmbiguousCommit: timeout, non-zero exit, malformed output or a changed  *)
(* container after the dispatch.  Nothing is learnt about the commit.      *)
GiveUp ==
    /\ pc = "wait"
    /\ view' = ViewFor("FAIL")
    /\ pc' \in {"retainwrite", "qualify"}
    /\ UNCHANGED <<nbVars, durable, phase, next, trusted, attempted, dispatches>>

(* _record_mutation_outcome with a usable answer (not yet a checked one).  *)
RecordOutcome ==
    /\ pc = "outcome"
    /\ JournalState(COMMITTED(phase))
    /\ pc' = "outcomepub"
    /\ UNCHANGED <<nbVars, jarts, file, phase, next, view, trusted, attempted, dispatches>>

PublishOutcome ==
    /\ pc = "outcomepub"
    /\ pc' = "helper"
    /\ UNCHANGED <<nbVars, durable, phase, next, view, trusted, attempted, dispatches>>

(* The last append of an operation whose postflight passed.                *)
RecordVerified ==
    /\ pc = "verify"
    /\ JournalState(VERIFIED(phase))
    /\ pc' = "verifypub"
    /\ UNCHANGED <<nbVars, jarts, file, phase, next, view, trusted, attempted, dispatches>>

PublishVerified ==
    /\ pc = "verifypub"
    /\ pc' = "idle"
    /\ UNCHANGED <<nbVars, durable, phase, next, view, trusted, attempted, dispatches>>

-----------------------------------------------------------------------------
(* _retain_ambiguous_outcome: best effort, each failure swallowed.         *)
RetainWrite ==
    /\ pc = "retainwrite"
    /\ IF trusted /\ ~Exists(Stage)
       THEN /\ file' = [file EXCEPT ![Stage] = view]
            /\ pc' = "retainappend"
       ELSE /\ pc' = "qualify"
            /\ UNCHANGED file
    /\ UNCHANGED <<nbVars, jstate, jarts, phase, next, view, trusted, attempted, dispatches>>

RetainWriteFails ==
    /\ pc = "retainwrite"
    /\ trusted /\ ~Exists(Stage)
    /\ file' \in {file, [file EXCEPT ![Stage] = view]}
    /\ pc' = "qualify"
    /\ UNCHANGED <<nbVars, jstate, jarts, phase, next, view, trusted, attempted, dispatches>>

RetainAppend ==
    /\ pc = "retainappend"
    /\ trusted
    /\ jarts' = next + 1
    /\ next' = next + 1
    /\ pc' = "retainoutcome"
    /\ UNCHANGED <<nbVars, jstate, file, phase, view, trusted, attempted, dispatches>>

RetainOutcome ==
    /\ pc = "retainoutcome"
    /\ IF trusted /\ jstate = INTENT(phase)
       THEN \/ jstate' = AMBIGUOUS(phase) /\ UNCHANGED trusted
            \/ AppendFails(AMBIGUOUS(phase))
       ELSE UNCHANGED <<jstate, trusted>>
    /\ pc' = "qualify"
    /\ UNCHANGED <<nbVars, jarts, file, phase, next, view, attempted, dispatches>>

(* _qualify_post_attempt_failure: the terminal ambiguity, if it still can. *)
Qualify ==
    /\ pc = "qualify"
    /\ \/ jstate' = IF trusted THEN AMBIGUOUS(phase) ELSE jstate
       \/ UNCHANGED jstate                          \* the append fails
    /\ pc' = "idle"
    /\ UNCHANGED <<nbVars, jarts, file, phase, next, view, trusted, attempted, dispatches>>

(* The process dies (or leaves through a BaseException): only what is      *)
(* durable and the client inside the container remain.                     *)
Crash ==
    /\ pc # "idle"
    /\ pc' = "idle"
    /\ UNCHANGED <<nbVars, durable, phase, next, view, trusted, attempted, dispatches>>

-----------------------------------------------------------------------------
(* The steps of a running operation. *)
Continue ==
    \/ ReadFirstTables \/ ReadLastTables \/ RunLocalHelper \/ HelperFails
    \/ WriteArtifact \/ WriteArtifactFails \/ AppendArtifact \/ AppendArtifactFails
    \/ PublishArtifact \/ PublishFails \/ Prepare \/ PublishIntent \/ StateAppendFails
    \/ Dispatch \/ DispatchRefused \/ Reply \/ GiveUp
    \/ RecordOutcome \/ PublishOutcome \/ RecordVerified \/ PublishVerified
    \/ RetainWrite \/ RetainWriteFails \/ RetainAppend \/ RetainOutcome \/ Qualify

AdapterNext == StartForward \/ StartInverse \/ Continue \/ Crash

Next ==
    \/ AdapterNext
    \/ NorthboundNext /\ UNCHANGED adapterVars

Spec == Init /\ [][Next]_vars

(* The interpreter keeps executing, and every wait of the adapter has a    *)
(* timeout (command_timeout), so a running operation is always scheduled.  *)
FairSpec == Spec /\ WF_vars(Continue)

-----------------------------------------------------------------------------
(* The guard against a second transaction: whatever fails, crashes or is   *)
(* retried, each phase of a run hands at most one transaction to the       *)
(* database (the "durable no-reissue guard" of                             *)
(* _qualify_post_attempt_failure).                                         *)
NoReissue == \A p \in Phases : dispatches[p] <= 1

(* A transaction that may have reached the database is always announced    *)
(* by a durable journal state that the recovery accepts or that is already *)
(* verified; the write order of _record_mutation_prepare and _ovsdb.       *)
IntentIsDurable ==
    /\ dispatches["forward"] > 0 => jstate \notin {"NONE", "NB_ABSENT"}
    /\ dispatches["inverse"] > 0 => jstate \in InverseStates

(* Every artifact event of the journal names a file that was made durable  *)
(* before it, whatever write or append failed (Evidence.record).           *)
JournalBindsFiles == \A i \in 1..jarts : Exists(ALL_STAGES[i])

(* NB_FORWARD_VERIFIED is a statement about the database, and not only     *)
(* about what the adapter remembers: the rows exist under the UUIDs of the *)
(* checked receipt and no forward transaction is still pending.            *)
ForwardVerifiedIsBuilt ==
    jstate = "NB_FORWARD_VERIFIED" =>
        /\ rows # 0
        /\ Inserted = rows
        /\ client["forward"].st = "applied"

(* NB_INVERSE_VERIFIED means the owned rows are gone for good: nothing     *)
(* that could create them again is still running in the container.         *)
InverseVerifiedIsClean ==
    jstate = "NB_INVERSE_VERIFIED" =>
        rows = 0 /\ \A p \in Phases : client[p].st # "running"

(* The rows are only ever deleted after the forward was verified and under *)
(* the UUIDs of its checked receipt, and then never come back.             *)
DeletesOnlyVerifiedRows ==
    [][ rows # 0 /\ rows' # rows =>
          rows' = 0 /\ Inserted = rows /\ jstate \in InverseStates ]_vars

(***************************************************************************)
(* The adapter, its files and its crashes implement OwnedChange: a phase   *)
(* is announced by its durable journal state, and the verdict is the       *)
(* VERIFIED state of the journal.                                          *)
(***************************************************************************)
Life(p, announced) ==
    IF client[p].st # "none" THEN client[p].st
    ELSE IF announced THEN "announced" ELSE "idle"

Change == INSTANCE OwnedChange WITH
    db <- IF rows = 0 THEN "clean" ELSE "built",
    forward <- Life("forward", jstate \notin {"NONE", "NB_ABSENT"}),
    undo <- Life("inverse", jstate \in InverseStates),
    applied <- insertions,
    verdict <- CASE jstate = "NB_FORWARD_VERIFIED" -> "built"
                 [] jstate = "NB_INVERSE_VERIFIED" -> "clean"
                 [] OTHER -> "none",
    MaxApplied <- MaxInsertions

ChangeSpec == Change!ChangeSpec

(* A started operation ends, even when the client inside the container     *)
(* never answers.                                                          *)
OperationEnds == pc # "idle" ~> pc = "idle"
=============================================================================

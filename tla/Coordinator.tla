----------------------------- MODULE Coordinator -----------------------------
(***************************************************************************)
(* The in-process experiment controller (x05-coordinator.py): one          *)
(* execution of _execute_bound from the consumed admission to its verdict. *)
(* It builds the runtime, starts the captures, proves a baseline with the  *)
(* B port in its own switch, moves the port to A with a guarded NB         *)
(* transaction, measures the leak, moves it back, stops the captures,      *)
(* decodes them, removes everything and releases the admission.  The       *)
(* transactions are handed to clients inside the OVN central container,    *)
(* which outlive a timeout and the coordinator itself; northd copies the   *)
(* port's position to the Southbound database in its own time.             *)
(***************************************************************************)
EXTENDS Naturals, Sequences

CONSTANTS
    Attempts        \* CAS_ATTEMPTS: how often a postcondition is polled

ASSUME AttemptsAssumption == Attempts \in Nat \ {0}

VARIABLES
    (* the databases *)
    aSwitch,        \* observe() finds the A sentinel's switch by its name
    rows,           \* the run's owned NB rows exist
    pos,            \* the switch that holds the B port
    sb,             \* the datapath of its Southbound binding
    drift,          \* a foreign port changes the switches' port sets
    client,         \* client[t]: the in-container client of transaction t
    handed,         \* handed[t]: how often t was handed to a client
    (* the admission's durable event log and the coordinator's view of it *)
    log, failed, stateIndex,
    (* _ControlSession *)
    prepared, base, forwardIntent, inverseDispatched, dispatchError, seen, attempt,
    (* the builder, the captures, the marker and the admission session *)
    builder, runtime, capture, marker, session,
    (* _execute_bound *)
    pc, cleaning, restored, restoreAttempted, windows, stop, semantics,
    expFailed, execError, verdict,
    faulted         \* history: something outside the coordinator went wrong

dbVars == <<aSwitch, rows, pos, sb, drift, client, handed>>
logVars == <<log, failed, stateIndex>>
casVars == <<prepared, base, forwardIntent, inverseDispatched, dispatchError, seen, attempt>>
worldVars == <<builder, runtime, capture, marker, session>>
flowVars == <<cleaning, restored, restoreAttempted, windows, stop, semantics, verdict>>
errorVars == <<expFailed, execError, faulted>>
coordVars == <<dbVars, logVars, casVars, worldVars, flowVars, errorVars, pc>>

Transactions == {"forward", "inverse", "rows"}


COORDINATOR_STATES == <<"INTENT", "BUILT", "BASELINE_PROVED", "LEAK_PROVED", "RESTORED">>
FullLog == <<"INTENT", "BUILT", "BASELINE_PROVED", "forward-intent", "LEAK_PROVED",
             "restore-intent", "RESTORED", "captures-finalized", "gates-finalized">>

Init ==
    /\ aSwitch \in BOOLEAN
    /\ rows = FALSE /\ pos = "none" /\ sb = "none" /\ drift = FALSE
    /\ client = [t \in Transactions |-> "none"]
    /\ handed = [t \in Transactions |-> 0]
    /\ log = <<>> /\ failed = FALSE /\ stateIndex = 0
    /\ prepared = FALSE /\ base = FALSE /\ forwardIntent = FALSE
    /\ inverseDispatched = FALSE /\ dispatchError = FALSE
    /\ seen = "none" /\ attempt = 0
    /\ builder = "none" /\ runtime = "absent" /\ capture = "none"
    /\ marker = FALSE /\ session = "open"
    /\ pc = "intent" /\ cleaning = FALSE
    /\ restored = FALSE /\ restoreAttempted = FALSE
    /\ windows = <<>> /\ stop = "none" /\ semantics = "none"
    /\ expFailed = FALSE /\ execError = FALSE
    /\ verdict = "none" /\ faulted = FALSE

-----------------------------------------------------------------------------
(* The environment: the NB server, northd and another writer.              *)

(* Mutant: the inverse of the NB rows does not wait for B's port set.      *)
Mutant_Guard_RowsUnguarded(t) ==
    CASE t = "forward" -> rows /\ pos = "B" /\ drift = base
      [] t = "inverse" -> rows /\ pos = "A" /\ drift = base
      [] OTHER -> rows

(* The waits of x05-cas.sh --build (both complete port sets) and, for the  *)
(* inverse of the NB rows, of build_inverse (every owned row, B's switch   *)
(* with its ports included).                                               *)
Guard(t) ==
    CASE t = "forward" -> rows /\ pos = "B" /\ drift = base
      [] t = "inverse" -> rows /\ pos = "A" /\ drift = base
      [] OTHER -> rows /\ pos = "B"

Commit(t) ==
    /\ client[t] = "running"
    /\ Guard(t)
    /\ client' = [client EXCEPT ![t] = "applied"]
    /\ pos' = CASE t = "forward" -> "A" [] t = "inverse" -> "B" [] OTHER -> "none"
    /\ rows' = (t # "rows")
    /\ UNCHANGED <<aSwitch, sb, drift, handed, logVars, casVars, worldVars, flowVars,
                   errorVars, pc>>

Refuse(t) ==
    /\ client[t] = "running"
    /\ ~Guard(t)
    /\ client' = [client EXCEPT ![t] = "refused"]
    /\ UNCHANGED <<aSwitch, rows, pos, sb, drift, handed, logVars, casVars, worldVars,
                   flowVars, errorVars, pc>>

LoseClient(t) ==
    /\ client[t] = "running"
    /\ client' = [client EXCEPT ![t] = "gone"]
    /\ faulted' = TRUE
    /\ UNCHANGED <<aSwitch, rows, pos, sb, drift, handed, logVars, casVars, worldVars,
                   flowVars, expFailed, execError, pc>>

Northd ==
    /\ sb # pos
    /\ sb' = pos
    /\ UNCHANGED <<aSwitch, rows, pos, drift, client, handed, logVars, casVars, worldVars,
                   flowVars, errorVars, pc>>

ForeignWrite ==
    /\ drift' = ~drift
    /\ faulted' = TRUE
    /\ UNCHANGED <<aSwitch, rows, pos, sb, client, handed, logVars, casVars, worldVars,
                   flowVars, expFailed, execError, pc>>

Environment ==
    \/ \E t \in Transactions : Commit(t) \/ Refuse(t) \/ LoseClient(t)
    \/ Northd \/ ForeignWrite

-----------------------------------------------------------------------------
(* remember(): a GateFailure contradicts the experiment, anything else     *)
(* only says that it could not be carried out.                             *)
Remember(kind) ==
    /\ expFailed' = (expFailed \/ kind = "gate")
    /\ execError' = (execError \/ kind = "exec")

(* An exception in the try block. *)
Abort(kind) == Remember(kind) /\ pc' = "finally"

(* _append: one record at the end of the producer's log, or an exception   *)
(* (the record may have been written) after which every append raises.     *)
Recorded(label) ==
    /\ ~failed
    /\ log' = Append(log, label)
    /\ UNCHANGED <<failed, errorVars>>
NotRecorded(label) ==
    /\ failed' = TRUE
    /\ log' \in IF failed THEN {log} ELSE {log, Append(log, label)}
    /\ Remember("exec")
    /\ faulted' = TRUE

(* An event or a state of the try block: on, or out with an exception. *)
Event(label, from, to) ==
    /\ pc = from
    /\ \/ Recorded(label) /\ pc' = to
       \/ NotRecorded(label) /\ pc' = "finally"
    /\ UNCHANGED <<dbVars, casVars, worldVars>>
State(from, to) ==
    /\ Event(COORDINATOR_STATES[stateIndex + 1], from, to)
    /\ stateIndex' = IF failed' THEN stateIndex ELSE stateIndex + 1

RecordIntent == State("intent", "build") /\ UNCHANGED flowVars
RecordBuilt == State("record-built", "start") /\ UNCHANGED flowVars
RecordBaseline == State("record-baseline", "record-forward") /\ UNCHANGED flowVars
RecordForwardIntent ==
    Event("forward-intent", "record-forward", "move") /\ UNCHANGED <<stateIndex, flowVars>>
RecordLeak == State("record-leak", "record-restore") /\ UNCHANGED flowVars
RecordRestoreIntent ==
    /\ Event("restore-intent", "record-restore", "restore")
    /\ restoreAttempted' = TRUE
    /\ UNCHANGED <<stateIndex, cleaning, restored, windows, stop, semantics, verdict>>
RecordRestored == State("record-restored", "windows-3") /\ UNCHANGED flowVars

-----------------------------------------------------------------------------
(* RuntimeBuilder.from_admission and build(): everything, or an exception  *)
(* that leaves any part of it behind ("none": before its journal exists).  *)
Build ==
    /\ pc = "build"
    /\ \/ /\ builder' = "BUILT" /\ runtime' = "present" /\ marker' = TRUE
          /\ rows' = TRUE /\ pos' = "B" /\ sb' = "B"
          /\ pc' = "contract"
          /\ UNCHANGED errorVars
       \/ /\ builder' \in {"none", "FAILED"}
          /\ marker' \in BOOLEAN /\ rows' \in BOOLEAN
          /\ runtime' \in {"absent", "partial"}
          /\ pos' = IF rows' THEN "B" ELSE "none"
          /\ Abort("exec") /\ faulted' = TRUE
          /\ UNCHANGED sb
    /\ UNCHANGED <<aSwitch, drift, client, handed, logVars, casVars, capture, session, flowVars>>

MakeCapture ==
    /\ pc = "contract"
    /\ \/ capture' = "contract" /\ pc' = "record-built" /\ UNCHANGED errorVars
       \/ Abort("exec") /\ faulted' = TRUE /\ UNCHANGED capture
    /\ UNCHANGED <<dbVars, logVars, casVars, builder, runtime, marker, session, flowVars>>

StartCapture ==
    /\ pc = "start"
    /\ \/ capture' = "running" /\ pc' = "gates-before" /\ UNCHANGED errorVars
       \/ capture' \in {"contract", "running"} /\ Abort("exec") /\ faulted' = TRUE
    /\ UNCHANGED <<dbVars, logVars, casVars, builder, runtime, marker, session, flowVars>>

(* _poll_gate and _require_gate for G1 and then G2. *)
Gates(from, to) ==
    /\ pc = from
    /\ \/ pc' = to /\ UNCHANGED errorVars
       \/ \E kind \in {"gate", "exec"} : Abort(kind) /\ faulted' = TRUE
    /\ UNCHANGED <<dbVars, logVars, casVars, worldVars, flowVars>>
GatesBefore == Gates("gates-before", "windows-1")
GatesAfter == Gates("gates-after", "finally")

(* A block of probe windows (1-8, 9-10, 11-12); each entry of windows says *)
(* where the port was while the block was measured.                        *)
Windows(from, to) ==
    /\ pc = from
    /\ \/ windows' = Append(windows, pos) /\ pc' = to /\ UNCHANGED errorVars
       \/ \E kind \in {"gate", "exec"} : Abort(kind) /\ faulted' = TRUE /\ UNCHANGED windows
    /\ UNCHANGED <<dbVars, logVars, casVars, worldVars, cleaning, restored,
                   restoreAttempted, stop, semantics, verdict>>
WindowsBaseline == Windows("windows-1", "prepare")
WindowsLeak == Windows("windows-2", "record-leak")
WindowsRestored == Windows("windows-3", "gates-after")

-----------------------------------------------------------------------------
(* _position: exact A, exact B, or neither. *)
Position == IF drift = base /\ pos \in {"A", "B"} THEN pos ELSE "UNKNOWN"

(* prepare(): both transactions are built from one observation, which must *)
(* show the port exactly in B.  Without A's switch observe() raises.       *)
Prepare ==
    /\ pc = "prepare"
    /\ \/ /\ aSwitch /\ pos = "B" /\ sb = "B"
          /\ prepared' = TRUE /\ base' = drift
          /\ pc' = "record-baseline"
          /\ UNCHANGED errorVars
       \/ /\ Abort("exec")
          /\ faulted' = (faulted \/ aSwitch)
          /\ UNCHANGED <<prepared, base>>
    /\ UNCHANGED <<dbVars, logVars, forwardIntent, inverseDispatched, dispatchError, seen,
                   attempt, worldVars, flowVars>>

Hand(t) ==
    /\ client' = [client EXCEPT ![t] = "running"]
    /\ handed' = [handed EXCEPT ![t] = @ + 1]
    /\ UNCHANGED <<aSwitch, rows, pos, sb, drift>>

(* _dispatch up to docker exec: a guard may raise before anything is sent. *)
Dispatch(t, answer, poll) ==
    \/ Hand(t) /\ pc' = answer /\ UNCHANGED <<dispatchError, errorVars>>
    \/ /\ dispatchError' = TRUE /\ pc' = poll
       /\ faulted' = TRUE
       /\ UNCHANGED <<dbVars, expFailed, execError>>

(* Mutant: the wait for the client has no timeout. *)
Mutant_TimesOut_Never == FALSE
(* runner.run gives the client up after command_timeout. *)
TimesOut == TRUE

(* _dispatch after it: acknowledged, refused, or ambiguous.  move_to_a and *)
(* restore_to_b keep the exception and let the poll decide.                *)
Answer(t, from, poll) ==
    /\ pc = from
    /\ pc' = poll
    /\ \/ client[t] = "applied" /\ dispatchError' = FALSE /\ UNCHANGED faulted
       \/ /\ client[t] # "running" \/ TimesOut
          /\ dispatchError' = TRUE /\ faulted' = TRUE
    /\ UNCHANGED <<dbVars, logVars, prepared, base, forwardIntent, inverseDispatched, seen,
                   attempt, worldVars, flowVars, expFailed, execError>>

(* move_to_a: one shot. *)
Move ==
    /\ pc = "move"
    /\ forwardIntent' = TRUE
    /\ Dispatch("forward", "move-answer", "move-observe")
    /\ UNCHANGED <<logVars, prepared, base, inverseDispatched, seen, attempt, worldVars,
                   flowVars>>
MoveAnswer == Answer("forward", "move-answer", "move-observe")

(* observe() in _poll: the switches are read first, the Southbound binding *)
(* in a later command.                                                     *)
Observe(from, to, raised) ==
    /\ pc = from
    /\ attempt' = attempt + 1
    /\ \/ seen' = Position /\ pc' = to /\ UNCHANGED errorVars
       \/ Remember("exec") /\ faulted' = TRUE /\ pc' = raised /\ UNCHANGED seen
    /\ UNCHANGED <<dbVars, logVars, prepared, base, forwardIntent, inverseDispatched,
                   dispatchError, worldVars, flowVars>>

(* evaluate_cas_postcondition, second half of _poll: PASS; RETRY while the *)
(* binding lags behind, until the budget is spent; else FAIL.              *)
Exact(side) == seen = side /\ sb = side
Lags(side) == seen = side /\ sb # side

BudgetLeft == attempt < Attempts

MoveObserve == Observe("move-observe", "move-evaluate", "finally")
MoveEvaluate ==
    /\ pc = "move-evaluate"
    /\ \/ /\ Exact("A")
          /\ pc' = "windows-2" /\ attempt' = 0 /\ UNCHANGED errorVars
       \/ /\ Lags("A") /\ BudgetLeft
          /\ pc' = "move-observe" /\ UNCHANGED <<attempt, errorVars>>
       \/ /\ seen # "A" \/ (Lags("A") /\ ~BudgetLeft)
          /\ Abort(IF dispatchError THEN "exec" ELSE "gate")
          /\ faulted' = TRUE
          /\ attempt' = 0
    /\ UNCHANGED <<dbVars, logVars, prepared, base, forwardIntent, inverseDispatched,
                   dispatchError, seen, worldVars, flowVars>>

-----------------------------------------------------------------------------
(* Where an exception of restore_to_b leads: from the try block to the     *)
(* finally block, from there on to the captures.                           *)
AfterFailedRestore == IF cleaning THEN "stop" ELSE "finally"

(* Mutant: an inverse that was already dispatched is dispatched again.     *)
Mutant_Restore_Replays ==
    /\ pc = "restore"
    /\ dispatchError' = FALSE
    /\ attempt' = 0
    /\ \/ Position = "A" /\ inverseDispatched' = TRUE /\ pc' = "restore-dispatch"
          /\ UNCHANGED errorVars
       \/ Position = "B" /\ pc' = "restore-observe" /\ UNCHANGED <<inverseDispatched, errorVars>>
       \/ /\ pc' = AfterFailedRestore /\ Remember("exec") /\ faulted' = TRUE
          /\ UNCHANGED inverseDispatched
    /\ UNCHANGED <<dbVars, logVars, prepared, base, forwardIntent, seen, worldVars, flowVars>>

(* restore_to_b: A is moved back, at most once; B needs no transaction;    *)
(* neither is ambiguous.  The observation itself may raise.                *)
Restore ==
    /\ pc = "restore"
    /\ dispatchError' = FALSE
    /\ attempt' = 0
    /\ \/ /\ Position = "A" /\ ~inverseDispatched
          /\ inverseDispatched' = TRUE /\ pc' = "restore-dispatch"
          /\ UNCHANGED errorVars
       \/ /\ Position = "B"
          /\ pc' = "restore-observe"
          /\ UNCHANGED <<inverseDispatched, errorVars>>
       \/ /\ pc' = AfterFailedRestore
          /\ Remember("exec") /\ faulted' = TRUE
          /\ UNCHANGED inverseDispatched
    /\ UNCHANGED <<dbVars, logVars, prepared, base, forwardIntent, seen, worldVars, flowVars>>

RestoreDispatch ==
    /\ pc = "restore-dispatch"
    /\ Dispatch("inverse", "restore-answer", "restore-observe")
    /\ UNCHANGED <<logVars, prepared, base, forwardIntent, inverseDispatched, seen, attempt,
                   worldVars, flowVars>>
RestoreAnswer == Answer("inverse", "restore-answer", "restore-observe")
RestoreObserve == Observe("restore-observe", "restore-evaluate", AfterFailedRestore)
RestoreEvaluate ==
    /\ pc = "restore-evaluate"
    /\ \/ /\ Exact("B")
          /\ restored' = TRUE /\ attempt' = 0
          /\ pc' = IF cleaning THEN "restore-outcome" ELSE "record-restored"
          /\ UNCHANGED errorVars
       \/ /\ Lags("B") /\ BudgetLeft
          /\ pc' = "restore-observe" /\ UNCHANGED <<restored, attempt, errorVars>>
       \/ /\ seen # "B" \/ (Lags("B") /\ ~BudgetLeft)
          /\ Remember("exec") /\ faulted' = TRUE
          /\ pc' = AfterFailedRestore /\ attempt' = 0 /\ UNCHANGED restored
    /\ UNCHANGED <<dbVars, logVars, prepared, base, forwardIntent, inverseDispatched,
                   dispatchError, seen, worldVars, cleaning, restoreAttempted, windows, stop,
                   semantics, verdict>>

(* The finally block: a move that may have happened is undone first, its   *)
(* intent announced once more if the try block did not get that far.       *)
Finally ==
    /\ pc = "finally"
    /\ cleaning' = TRUE
    /\ pc' = IF forwardIntent /\ ~restored
             THEN IF restoreAttempted THEN "restore" ELSE "late-intent"
             ELSE "stop"
    /\ UNCHANGED <<dbVars, logVars, casVars, worldVars, errorVars, restored,
                   restoreAttempted, windows, stop, semantics, verdict>>

LateRestoreIntent ==
    /\ pc = "late-intent"
    /\ restoreAttempted' = TRUE
    /\ Recorded("restore-intent") \/ NotRecorded("restore-intent")
    /\ pc' = "restore"
    /\ UNCHANGED <<dbVars, stateIndex, casVars, worldVars, cleaning, restored, windows, stop,
                   semantics, verdict>>

(* Mutant: the finally block always records the state RESTORED.            *)
Mutant_RestoredLabel_Always == "RESTORED"
(* The state RESTORED may only follow LEAK_PROVED; otherwise an event that *)
(* says that the port was seen in B.                                       *)
RestoredLabel == IF stateIndex = 4 THEN "RESTORED" ELSE "restore-outcome"

RestoreOutcome ==
    /\ pc = "restore-outcome"
    /\ Recorded(RestoredLabel) \/ NotRecorded(RestoredLabel)
    /\ stateIndex' = IF ~failed' /\ stateIndex = 4 THEN 5 ELSE stateIndex
    /\ pc' = "stop"
    /\ UNCHANGED <<dbVars, casVars, worldVars, flowVars>>

-----------------------------------------------------------------------------
(* capture.stop() and probe.close(): owned and structurally sound          *)
(* ("clean"), owned but not sound, not provably owned, or an exception.    *)
Stop ==
    /\ pc = "stop"
    /\ pc' = "semantics"
    /\ \/ /\ capture = "none"
          /\ UNCHANGED <<stop, capture, errorVars>>
       \/ /\ capture # "none"
          /\ stop' = "clean" /\ capture' = "stopped"
          /\ UNCHANGED errorVars
       \/ /\ capture # "none"
          /\ stop' \in {"none", "unproved", "structural", "clean"}
          /\ capture' \in IF stop' \in {"structural", "clean"} THEN {"stopped"}
                          ELSE {capture, "stopped"}
          /\ IF stop' = "none" THEN Remember("exec")
             ELSE \E kind \in {"none", "exec"} : Remember(kind)
          /\ faulted' = TRUE
    /\ UNCHANGED <<dbVars, logVars, casVars, builder, runtime, marker, session, cleaning,
                   restored, restoreAttempted, windows, semantics, verdict>>

Mutant_AllWindows_OneMore == Len(windows) > 3
AllWindows == Len(windows) = 3

(* capture.read and decode_capture_evidence.  An incomplete series of      *)
(* windows is not decoded after a contradiction and an error otherwise.    *)
Decode(s) ==
    /\ semantics' = s
    /\ expFailed' = (expFailed \/ s = "FAIL")
    /\ execError' = (execError \/ s = "ERROR" \/ stop # "clean")
    /\ pc' = IF s \in {"PASS", "FAIL"} THEN "captures-finalized" ELSE "compensate"

Semantics ==
    /\ pc = "semantics"
    /\ \/ /\ stop = "none"
          /\ pc' = "compensate" /\ UNCHANGED <<semantics, errorVars>>
       \/ /\ stop = "unproved"
          /\ Remember("exec") /\ pc' = "compensate" /\ UNCHANGED <<semantics, faulted>>
       \/ /\ stop \in {"structural", "clean"}
          /\ \/ AllWindows /\ Decode("PASS") /\ UNCHANGED faulted
             \/ AllWindows /\ (Decode("FAIL") \/ Decode("ERROR")) /\ faulted' = TRUE
             \/ ~AllWindows /\ Decode(IF expFailed THEN "NOT_RUN" ELSE "ERROR")
                /\ UNCHANGED faulted
             \/ /\ Remember("exec") /\ faulted' = TRUE      \* the pcaps cannot be read
                /\ pc' = "compensate" /\ UNCHANGED semantics
    /\ UNCHANGED <<dbVars, logVars, casVars, worldVars, cleaning, restored, restoreAttempted,
                   windows, stop, verdict>>

CapturesFinalized ==
    /\ pc = "captures-finalized"
    /\ \/ Recorded("captures-finalized") /\ pc' = "gates-finalized"
       \/ NotRecorded("captures-finalized") /\ pc' = "compensate"
    /\ UNCHANGED <<dbVars, stateIndex, casVars, worldVars, flowVars>>

GatesFinalized ==
    /\ pc = "gates-finalized"
    /\ Recorded("gates-finalized") \/ NotRecorded("gates-finalized")
    /\ pc' = "compensate"
    /\ UNCHANGED <<dbVars, stateIndex, casVars, worldVars, flowVars>>

-----------------------------------------------------------------------------
(* An exception while cleaning up: the rest stays where it is. *)
GiveUp(b) == Remember("exec") /\ faulted' = TRUE /\ pc' = "verdict" /\ builder' = b

(* The condition for compensation, and compensate() up to its first        *)
(* effect: the port must be found in B with its own binding.               *)
Compensate ==
    /\ pc = "compensate"
    /\ IF stop \in {"structural", "clean"} /\ (forwardIntent => restored)
       THEN \/ /\ builder = "BUILT" /\ pos = "B" /\ sb = "B"
               /\ builder' = "COMPENSATING" /\ pc' = "remove" /\ UNCHANGED errorVars
            \/ GiveUp(builder)
       ELSE pc' = "verdict" /\ UNCHANGED <<builder, errorVars>>
    /\ UNCHANGED <<dbVars, logVars, casVars, runtime, capture, marker, session, flowVars>>

(* compensate() up to the NB inverse: FRR, links, namespaces, containers.  *)
RemoveRuntime ==
    /\ pc = "remove"
    /\ \/ runtime' = "absent" /\ pc' = "inverse" /\ UNCHANGED <<builder, errorVars>>
       \/ runtime' = "partial" /\ GiveUp("CLEANUP_FAILED")
    /\ UNCHANGED <<dbVars, logVars, casVars, capture, marker, session, flowVars>>

(* NBAdapter.inverse: checked, then handed to a client. *)
InverseNB ==
    /\ pc = "inverse"
    /\ \/ Hand("rows") /\ pc' = "inverse-answer" /\ UNCHANGED <<builder, errorVars>>
       \/ GiveUp("CLEANUP_FAILED") /\ UNCHANGED dbVars
    /\ UNCHANGED <<logVars, casVars, runtime, capture, marker, session, flowVars>>

(* Mutant: any answer of the inverse is taken for its success.             *)
Mutant_InverseVerified_AnyAnswer == client["rows"] # "running"
(* NBAdapter.inverse returns only when the inverse was acknowledged and a  *)
(* clean postflight confirmed it.                                          *)
InverseVerified == client["rows"] = "applied" /\ ~rows

InverseAnswer ==
    /\ pc = "inverse-answer"
    /\ \/ InverseVerified /\ pc' = "absence" /\ UNCHANGED <<builder, errorVars>>
       \/ GiveUp("CLEANUP_FAILED")
    /\ UNCHANGED <<dbVars, logVars, casVars, runtime, capture, marker, session, flowVars>>

(* _final_absence_check at the end of compensate() and again in            *)
(* verify_final_absence(), and the decision to finalize: captures that were*)
(* not sound keep the marker.                                              *)
FinalAbsence ==
    /\ pc = "absence"
    /\ \/ /\ runtime = "absent" /\ capture = "stopped" /\ marker
          /\ builder' = "COMPENSATED"
          /\ pc' = IF stop = "clean" THEN "finalize" ELSE "verdict"
          /\ UNCHANGED errorVars
       \/ \E b \in {"CLEANUP_FAILED", "COMPENSATED"} : GiveUp(b)
    /\ UNCHANGED <<dbVars, logVars, casVars, runtime, capture, marker, session, flowVars>>

(* _terminal_finalize_call (G7): the marker goes last; after that a fault  *)
(* leaves TERMINAL_UNKNOWN.                                                *)
Finalize ==
    /\ pc = "finalize"
    /\ \/ marker' = FALSE /\ builder' = "X05_CLEANED" /\ pc' = "close" /\ UNCHANGED errorVars
       \/ \E b \in {"CLEANUP_FAILED", "TERMINAL_UNKNOWN"} :
             GiveUp(b) /\ marker' = (b = "CLEANUP_FAILED")
    /\ UNCHANGED <<dbVars, logVars, casVars, runtime, capture, session, flowVars>>

(* session.close (G8): M03 is taken down and the lock released. *)
Close ==
    /\ pc = "close"
    /\ \/ session' = "closed" /\ pc' = "verdict" /\ UNCHANGED errorVars
       \/ session' = "failed" /\ Remember("exec") /\ faulted' = TRUE /\ pc' = "verdict"
    /\ UNCHANGED <<dbVars, logVars, casVars, builder, runtime, capture, marker, flowVars>>

Mutant_Verdict_CleanIsPass ==
    CASE session = "closed" /\ semantics # "ERROR" /\ ~execError -> "PASS"
      [] session = "closed" /\ expFailed /\ ~execError -> "FAIL"
      [] OTHER -> "ERROR"
Verdict ==
    CASE session = "closed" /\ semantics = "PASS" /\ ~expFailed /\ ~execError -> "PASS"
      [] session = "closed" /\ expFailed /\ ~execError -> "FAIL"
      [] OTHER -> "ERROR"

(* The result is returned unless its evidence cannot be written. *)
Return ==
    /\ pc = "verdict"
    /\ pc' = "ended"
    /\ \/ verdict' = Verdict /\ UNCHANGED faulted
       \/ verdict' = "raised" /\ faulted' = TRUE
    /\ UNCHANGED <<dbVars, logVars, casVars, worldVars, cleaning, restored, restoreAttempted,
                   windows, stop, semantics, expFailed, execError>>

(* The coordinator's process is killed; clients and databases live on. *)
Crash ==
    /\ pc \notin {"ended", "dead"}
    /\ pc' = "dead"
    /\ faulted' = TRUE
    /\ UNCHANGED <<dbVars, logVars, casVars, worldVars, flowVars, expFailed, execError>>

CoordinatorStep ==
    \/ RecordIntent \/ Build \/ MakeCapture \/ RecordBuilt \/ StartCapture
    \/ GatesBefore \/ WindowsBaseline \/ Prepare \/ RecordBaseline
    \/ RecordForwardIntent \/ Move \/ MoveAnswer \/ MoveObserve \/ MoveEvaluate
    \/ WindowsLeak \/ RecordLeak \/ RecordRestoreIntent
    \/ Restore \/ RestoreDispatch \/ RestoreAnswer \/ RestoreObserve \/ RestoreEvaluate
    \/ RecordRestored \/ WindowsRestored \/ GatesAfter
    \/ Finally \/ LateRestoreIntent \/ RestoreOutcome \/ Stop
    \/ Semantics \/ CapturesFinalized \/ GatesFinalized
    \/ Compensate \/ RemoveRuntime \/ InverseNB \/ InverseAnswer \/ FinalAbsence
    \/ Finalize \/ Close \/ Return

Next == CoordinatorStep \/ Crash \/ Environment
Spec == Init /\ [][Next]_coordVars

(* Every command has a timeout and every poll a budget, so the coordinator *)
(* always takes its next step; nothing is assumed of servers or clients.   *)
FairSpec == Spec /\ WF_coordVars(CoordinatorStep)

-----------------------------------------------------------------------------
(* Once the admission is released nothing of the run is left, and no       *)
(* transaction that a client still carries can bring anything back: the    *)
(* rows are gone and stay gone, whatever was given up earlier.             *)
ReleasedIsClean ==
    session = "closed" =>
        /\ ~rows /\ pos = "none" /\ ~marker
        /\ runtime = "absent" /\ capture = "stopped"

(* The owned rows are only ever deleted while the B port is in its own     *)
(* switch, although a forward move that was given up may commit between    *)
(* compensate()'s check and the inverse.                                   *)
RowsLeaveFromB == [][ rows /\ ~rows' => pos = "B" ]_coordVars

(* The port never returns to A once the log says RESTORED: that state only *)
(* follows LEAK_PROVED, when no forward move can be outstanding.           *)
LoggedRestoreHolds ==
    (\E i \in 1..Len(log) : log[i] = "RESTORED") => pos # "A" /\ client["forward"] # "running"

(* No transaction is handed to a second client, and a forward move is      *)
(* announced in the durable log before its client starts, so a killed      *)
(* coordinator leaves a log that says whether the port may have moved.     *)
MovedOnceAndAnnounced ==
    /\ \A t \in Transactions : handed[t] <= 1
    /\ handed["forward"] > 0 => \E i \in 1..Len(log) : log[i] = "forward-intent"

(* A PASS was measured where it claims: the baseline windows in B, the leak*)
(* windows in A, the last ones in B again; both moves were really applied  *)
(* and the log holds the full chain in order.                              *)
PassIsMeasured ==
    verdict = "PASS" =>
        /\ windows = <<"B", "A", "B">>
        /\ client["forward"] = "applied" /\ client["inverse"] = "applied"
        /\ log = FullLog

(* Every execution returns or is killed, whatever servers and clients do. *)
ExecutionEnds == <>(pc \in {"ended", "dead"})

(* An execution in which nothing goes wrong around it passes, provided     *)
(* that observe() finds A's switch.                                        *)
FaultlessRunPasses == pc = "ended" /\ ~faulted /\ aSwitch => verdict = "PASS"

(* The same without the proviso.  The topology names A's switch            *)
(* ls-dci-tenant (x05-topology.md:14) and the contract's G5 moves the port *)
(* to "parent A only" (x05-execution-contract.md:178); observe() asks for  *)
(* ls-x05-tenant-a, which no plan of the repository creates.               *)
DocumentedRunPasses == pc = "ended" /\ ~faulted => verdict = "PASS"
=============================================================================

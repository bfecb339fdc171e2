-------------------------- MODULE CoordinatorProofs --------------------------
(***************************************************************************)
(* Proofs about one execution of the coordinator, for any poll budget.     *)
(* The inductive invariant has these parts:                                *)
(*   Types      the shape of the state;                                    *)
(*   Once       which transactions have been handed over at each step;     *)
(*   Database   where the port can be, given what the clients report;      *)
(*   Proved     what the states LEAK_PROVED and RESTORED rest on;          *)
(*   Cleaned    what the end of the clean-up rests on;                     *)
(*   Measured   the log and the windows of an execution without an error;  *)
(*   Faultless  an execution around which nothing goes wrong.              *)
(***************************************************************************)
EXTENDS Coordinator, SequenceTheorems, TLAPS

(* The steps of the try block, in order, and those of the clean-up.        *)
Building == {"intent", "build"}
Baseline == {"contract", "record-built", "start", "gates-before", "windows-1", "prepare",
             "record-baseline", "record-forward", "move"}
Moving == {"move-answer", "move-observe", "move-evaluate"}
Leaking == {"windows-2", "record-leak", "record-restore"}
Restoring == {"restore", "restore-dispatch", "restore-answer", "restore-observe",
              "restore-evaluate"}
Restored == {"record-restored", "windows-3"}
Analysing == {"stop", "semantics", "captures-finalized", "gates-finalized"}
Removing == {"compensate", "remove", "inverse"}
Removed == {"absence", "finalize", "close"}
Labels == Building \cup Baseline \cup Moving \cup Leaking \cup Restoring \cup Restored
          \cup {"gates-after", "finally", "late-intent", "restore-outcome"}
          \cup Analysing \cup Removing \cup {"inverse-answer"} \cup Removed
          \cup {"verdict", "ended", "dead"}

(* What the log may hold.                                                  *)
Entries == {"INTENT", "BUILT", "BASELINE_PROVED", "LEAK_PROVED", "RESTORED",
            "forward-intent", "restore-intent", "restore-outcome",
            "captures-finalized", "gates-finalized"}

ClientStates == {"none", "running", "applied", "refused", "gone"}

Types ==
    /\ pos \in {"none", "A", "B"}
    /\ client \in [Transactions -> ClientStates]
    /\ handed \in [Transactions -> Nat]
    /\ log \in Seq(Entries) /\ stateIndex \in 0 .. 5
    /\ pc \in Labels /\ seen \in {"none", "A", "B", "UNKNOWN"}

(* Whether the log announces the move, and whether it says RESTORED.       *)
InLog(label) == \E i \in 1 .. Len(log) : log[i] = label
Announced == InLog("forward-intent")
Reported == InLog("RESTORED")

Once ==
    /\ \A t \in Transactions : handed[t] <= 1 /\ (handed[t] = 0 => client[t] = "none")
    /\ handed["forward"] > 0 => forwardIntent
    /\ pc \in Building \cup Baseline => ~forwardIntent
    /\ handed["inverse"] > 0 => inverseDispatched
    /\ pc = "restore-dispatch" => handed["inverse"] = 0 /\ inverseDispatched
    /\ pc \in Building \cup Baseline \cup Moving \cup Leaking => ~inverseDispatched
    /\ handed["rows"] > 0 => pc \in {"inverse-answer", "verdict", "ended", "dead"} \cup Removed
    /\ forwardIntent \/ pc = "move" => Announced

Database ==
    /\ rows <=> pos # "none"
    /\ pc \in Building => ~rows
    /\ pc \in Baseline => rows /\ pos = "B"
    /\ forwardIntent /\ handed["rows"] = 0 => rows
    /\ pos = "A" => client["forward"] = "applied"
    /\ rows /\ client["forward"] = "applied" /\ client["inverse"] # "applied" => pos = "A"

Proved ==
    /\ pc = "intent" => stateIndex = 0
    /\ pc \in {"build", "contract", "record-built"} => stateIndex = 1
    /\ pc \in Baseline \ {"contract", "record-built", "record-forward", "move"} => stateIndex = 2
    /\ pc \in Moving \cup {"record-forward", "move", "windows-2", "record-leak"} => stateIndex = 3
    /\ pc \in {"record-restore", "record-restored"} => stateIndex = 4
    /\ pc \in Restoring /\ ~cleaning => stateIndex = 4
    /\ pc = "late-intent" => cleaning
    /\ seen = "A" \/ stateIndex >= 4 \/ pc \in Leaking => client["forward"] = "applied"
    /\ pc \in Leaking \cup Restoring \cup Restored \cup {"late-intent"} => forwardIntent
    /\ pc = "restore-evaluate" /\ seen = "B" /\ stateIndex >= 4 => pos # "A"
    /\ pc \in Restored \cup {"restore-outcome"} /\ stateIndex >= 4 => pos # "A"
    /\ Reported => pos # "A" /\ client["forward"] = "applied"

Cleaned ==
    /\ pc \in Removed => ~rows
    /\ pc \in {"finalize", "close"} => runtime = "absent" /\ capture = "stopped"
    /\ pc = "close" => ~marker
    /\ session = "closed" =>
        /\ pc \in {"verdict", "ended", "dead"}
        /\ ~rows /\ ~marker /\ runtime = "absent" /\ capture = "stopped"

(* The log and the windows of an execution that remembers no error.       *)
NoError == ~expFailed /\ ~execError
InOrder == \A i \in 1 .. Len(log) : i <= 9 /\ log[i] = FullLog[i]
Places == <<"B", "A", "B">>
InPlaces == \A i \in 1 .. Len(windows) : i <= 3 /\ windows[i] = Places[i]
BothApplied == client["forward"] = "applied" /\ client["inverse"] = "applied"
Measuring == Building \cup {"contract", "record-built", "start", "gates-before", "windows-1"}
Ending == {"inverse-answer", "verdict", "ended"} \cup Removing \cup Removed

LogLength ==
    /\ pc = "intent" => Len(log) = 0
    /\ pc \in {"build", "contract", "record-built"} => Len(log) = 1
    /\ pc \in {"start", "gates-before", "windows-1", "prepare", "record-baseline"}
         => Len(log) = 2
    /\ pc = "record-forward" => Len(log) = 3
    /\ pc \in Moving \cup {"move", "windows-2", "record-leak"} => Len(log) = 4
    /\ pc = "record-restore" => Len(log) = 5
    /\ pc \in Restoring \cup {"record-restored"} => Len(log) = 6
    /\ pc \in {"windows-3", "gates-after", "finally", "stop", "semantics",
               "captures-finalized"} => Len(log) = 7
    /\ pc = "gates-finalized" => Len(log) = 8
    /\ pc \in Ending /\ semantics = "PASS" => Len(log) = 9

WindowsLength ==
    /\ pc \in Measuring => Len(windows) = 0
    /\ pc \in Moving \cup {"prepare", "record-baseline", "record-forward", "move", "windows-2"}
         => Len(windows) = 1
    /\ pc \in Restoring \cup Restored \cup {"record-leak", "record-restore"}
         => Len(windows) = 2
    /\ pc \in {"gates-after", "finally"} \cup Analysing \cup Ending
         => Len(windows) = 3 /\ BothApplied

Measured ==
    /\ windows \in Seq({"none", "A", "B"})
    /\ failed => execError
    /\ NoError =>
        /\ InOrder /\ InPlaces /\ LogLength /\ WindowsLength
        /\ pc \notin {"late-intent", "restore-outcome"}
        /\ pc \in {"record-restored", "windows-3", "gates-after", "finally"} => restored
        /\ pc = "windows-3" => stateIndex = 5
        /\ pc \in Building \cup Baseline \cup Moving \cup Leaking \cup Restoring \cup Restored
             => ~cleaning
    /\ semantics = "PASS" => pc \in Ending \cup {"captures-finalized", "gates-finalized", "dead"}
    /\ verdict # "none" => pc = "ended"
    /\ verdict = "PASS" => NoError /\ semantics = "PASS"

Faultless ==
    ~faulted /\ aSwitch =>
        /\ NoError /\ pc # "dead"
        /\ pc \notin Building \cup {"contract"} => capture # "none"
        /\ pc \in Ending \cup {"semantics", "captures-finalized", "gates-finalized"}
             => stop = "clean"
        /\ pc \in Ending \cup {"captures-finalized", "gates-finalized"} => semantics = "PASS"
        /\ pc \in {"stop", "semantics", "captures-finalized", "gates-finalized", "compensate"}
             => restored
        /\ pc \in {"verdict", "ended"} => session = "closed"
        /\ pc = "ended" => verdict = "PASS"



(* What a step does to the log: the move is announced before it begins,    *)
(* and RESTORED only follows LEAK_PROVED.                                  *)
LogGrows ==
    /\ log' \in Seq(Entries)
    /\ Announced => Announced'
    /\ pc = "record-forward" /\ pc' = "move" => Announced'
    /\ \/ Reported' => Reported
       \/ stateIndex = 4 /\ pc \in {"record-restored", "restore-outcome"}

IInv == Types /\ Once /\ Database /\ Proved /\ Cleaned

(* One record at the end of the log, or none.                              *)
LEMMA Recording ==
    ASSUME log \in Seq(Entries), NEW label \in Entries, Recorded(label) \/ NotRecorded(label)
    PROVE  /\ log' \in Seq(Entries)
           /\ Announced => Announced'
           /\ Recorded(label) /\ label = "forward-intent" => Announced'
           /\ Reported' => Reported \/ label = "RESTORED"
<1>1. /\ Append(log, label) \in Seq(Entries) /\ Len(log) \in Nat
      /\ Len(Append(log, label)) = Len(log) + 1
      /\ \A i \in 1 .. Len(log) : Append(log, label)[i] = log[i]
      /\ Append(log, label)[Len(log) + 1] = label
  BY AppendProperties, LenProperties
<1>2. CASE log' = Append(log, label)
  <2>1. \A i \in 1 .. Len(log') : i \in 1 .. Len(log) \/ i = Len(log) + 1
    BY <1>1, <1>2
  <2>2. Len(log) + 1 \in 1 .. Len(log') /\ \A i \in 1 .. Len(log) : i \in 1 .. Len(log')
    BY <1>1, <1>2
  <2> QED
    BY <1>1, <1>2, <2>1, <2>2 DEF Announced, Reported, InLog
<1>3. CASE log' = log
  <2>1. ~Recorded(label)
    BY <1>1, <1>3 DEF Recorded
  <2> QED
    BY <1>3, <2>1 DEF Announced, Reported, InLog
<1> QED
  BY <1>2, <1>3 DEF Recorded, NotRecorded

(* The next state of the chain.                                            *)
LEMMA NextState ==
    ASSUME stateIndex \in 0 .. 4
    PROVE  /\ COORDINATOR_STATES[stateIndex + 1] \in Entries \ {"forward-intent"}
           /\ COORDINATOR_STATES[stateIndex + 1] = "RESTORED" => stateIndex = 4
<1>1. CASE stateIndex = 0
  BY <1>1 DEF COORDINATOR_STATES, Entries
<1>2. CASE stateIndex = 1
  BY <1>2 DEF COORDINATOR_STATES, Entries
<1>3. CASE stateIndex = 2
  BY <1>3 DEF COORDINATOR_STATES, Entries
<1>4. CASE stateIndex = 3
  BY <1>4 DEF COORDINATOR_STATES, Entries
<1>5. CASE stateIndex = 4
  BY <1>5 DEF COORDINATOR_STATES, Entries
<1> QED
  BY <1>1, <1>2, <1>3, <1>4, <1>5

LEMMA LogStep == ASSUME IInv, [Next]_coordVars PROVE LogGrows
<1> USE DEF dbVars, logVars, casVars, worldVars, flowVars, errorVars
<1>1. CASE RecordIntent
  <2>1. \/ Recorded(COORDINATOR_STATES[stateIndex + 1])
        \/ NotRecorded(COORDINATOR_STATES[stateIndex + 1])
    BY <1>1 DEF RecordIntent, State, Event
  <2>2. /\ pc # "record-forward" /\ stateIndex \in 0 .. 4
        /\ stateIndex = 4 => pc = "record-restored"
    BY <1>1 DEF RecordIntent, State, Event, IInv, Types, Proved, Baseline, Moving
  <2> QED
    BY <2>1, <2>2, NextState, Recording DEF IInv, Types, LogGrows, Entries
<1>2. CASE RecordBuilt
  <2>1. \/ Recorded(COORDINATOR_STATES[stateIndex + 1])
        \/ NotRecorded(COORDINATOR_STATES[stateIndex + 1])
    BY <1>2 DEF RecordBuilt, State, Event
  <2>2. /\ pc # "record-forward" /\ stateIndex \in 0 .. 4
        /\ stateIndex = 4 => pc = "record-restored"
    BY <1>2 DEF RecordBuilt, State, Event, IInv, Types, Proved, Baseline, Moving
  <2> QED
    BY <2>1, <2>2, NextState, Recording DEF IInv, Types, LogGrows, Entries
<1>3. CASE RecordBaseline
  <2>1. \/ Recorded(COORDINATOR_STATES[stateIndex + 1])
        \/ NotRecorded(COORDINATOR_STATES[stateIndex + 1])
    BY <1>3 DEF RecordBaseline, State, Event
  <2>2. /\ pc # "record-forward" /\ stateIndex \in 0 .. 4
        /\ stateIndex = 4 => pc = "record-restored"
    BY <1>3 DEF RecordBaseline, State, Event, IInv, Types, Proved, Baseline, Moving
  <2> QED
    BY <2>1, <2>2, NextState, Recording DEF IInv, Types, LogGrows, Entries
<1>4. CASE RecordForwardIntent
  <2>1. Recorded("forward-intent") \/ NotRecorded("forward-intent")
    BY <1>4 DEF RecordForwardIntent, Event
  <2>2. pc' = "move" => Recorded("forward-intent")
    BY <1>4 DEF RecordForwardIntent, Event
  <2> QED
    BY <2>1, <2>2, Recording DEF IInv, Types, LogGrows, Entries
<1>5. CASE RecordLeak
  <2>1. \/ Recorded(COORDINATOR_STATES[stateIndex + 1])
        \/ NotRecorded(COORDINATOR_STATES[stateIndex + 1])
    BY <1>5 DEF RecordLeak, State, Event
  <2>2. /\ pc # "record-forward" /\ stateIndex \in 0 .. 4
        /\ stateIndex = 4 => pc = "record-restored"
    BY <1>5 DEF RecordLeak, State, Event, IInv, Types, Proved, Baseline, Moving
  <2> QED
    BY <2>1, <2>2, NextState, Recording DEF IInv, Types, LogGrows, Entries
<1>6. CASE RecordRestoreIntent
  <2>1. Recorded("restore-intent") \/ NotRecorded("restore-intent")
    BY <1>6 DEF RecordRestoreIntent, Event
  <2>2. pc # "record-forward"
    BY <1>6 DEF RecordRestoreIntent, Event
  <2> QED
    BY <2>1, <2>2, Recording DEF IInv, Types, LogGrows, Entries
<1>7. CASE RecordRestored
  <2>1. \/ Recorded(COORDINATOR_STATES[stateIndex + 1])
        \/ NotRecorded(COORDINATOR_STATES[stateIndex + 1])
    BY <1>7 DEF RecordRestored, State, Event
  <2>2. /\ pc # "record-forward" /\ stateIndex \in 0 .. 4
        /\ stateIndex = 4 => pc = "record-restored"
    BY <1>7 DEF RecordRestored, State, Event, IInv, Types, Proved, Baseline, Moving
  <2> QED
    BY <2>1, <2>2, NextState, Recording DEF IInv, Types, LogGrows, Entries
<1>8. CASE LateRestoreIntent
  <2>1. Recorded("restore-intent") \/ NotRecorded("restore-intent")
    BY <1>8 DEF LateRestoreIntent
  <2>2. pc # "record-forward"
    BY <1>8 DEF LateRestoreIntent
  <2> QED
    BY <2>1, <2>2, Recording DEF IInv, Types, LogGrows, Entries
<1>9. CASE RestoreOutcome
  <2>1. Recorded(RestoredLabel) \/ NotRecorded(RestoredLabel)
    BY <1>9 DEF RestoreOutcome
  <2>2. pc = "restore-outcome" /\ RestoredLabel \in Entries \ {"forward-intent"}
    BY <1>9 DEF RestoreOutcome, RestoredLabel, Entries
  <2>3. RestoredLabel = "RESTORED" => stateIndex = 4
    BY DEF RestoredLabel
  <2> QED
    BY <2>1, <2>2, <2>3, Recording DEF IInv, Types, LogGrows, Entries
<1>10. CASE CapturesFinalized
  <2>1. Recorded("captures-finalized") \/ NotRecorded("captures-finalized")
    BY <1>10 DEF CapturesFinalized
  <2>2. pc # "record-forward"
    BY <1>10 DEF CapturesFinalized
  <2> QED
    BY <2>1, <2>2, Recording DEF IInv, Types, LogGrows, Entries
<1>11. CASE GatesFinalized
  <2>1. Recorded("gates-finalized") \/ NotRecorded("gates-finalized")
    BY <1>11 DEF GatesFinalized
  <2>2. pc # "record-forward"
    BY <1>11 DEF GatesFinalized
  <2> QED
    BY <2>1, <2>2, Recording DEF IInv, Types, LogGrows, Entries
<1>12. CASE Build \/ MakeCapture \/ StartCapture \/ GatesBefore \/ GatesAfter
            \/ WindowsBaseline \/ WindowsLeak
  <2>1. UNCHANGED log /\ (pc = "record-forward" => pc' # "move")
    BY <1>12 DEF Build, Abort, Remember, MakeCapture, StartCapture, GatesBefore, Gates,
         GatesAfter, WindowsBaseline, Windows, WindowsLeak
  <2> QED
    BY <2>1 DEF IInv, LogGrows, Types, Announced, Reported, InLog
<1>13. CASE WindowsRestored \/ Prepare \/ Move \/ MoveAnswer \/ MoveObserve
            \/ MoveEvaluate \/ Restore
  <2>1. UNCHANGED log /\ (pc = "record-forward" => pc' # "move")
    BY <1>13 DEF WindowsRestored, Windows, Abort, Remember, Prepare, Move, Dispatch,
         Hand, MoveAnswer, Answer, TimesOut, MoveObserve, Observe, Position,
         MoveEvaluate, Exact, Lags, BudgetLeft, Restore, AfterFailedRestore
  <2> QED
    BY <2>1 DEF IInv, LogGrows, Types, Announced, Reported, InLog
<1>14. CASE RestoreDispatch \/ RestoreAnswer \/ RestoreObserve \/ RestoreEvaluate
            \/ Finally \/ Stop \/ Semantics
  <2>1. UNCHANGED log /\ (pc = "record-forward" => pc' # "move")
    BY <1>14 DEF RestoreDispatch, Dispatch, Hand, RestoreAnswer, Answer, TimesOut,
         RestoreObserve, Observe, Position, Remember, AfterFailedRestore,
         RestoreEvaluate, Exact, Lags, BudgetLeft, Finally, Stop, Semantics, Decode,
         AllWindows
  <2> QED
    BY <2>1 DEF IInv, LogGrows, Types, Announced, Reported, InLog
<1>15. CASE Compensate \/ RemoveRuntime \/ InverseNB \/ InverseAnswer
            \/ FinalAbsence \/ Finalize \/ Close
  <2>1. UNCHANGED log /\ (pc = "record-forward" => pc' # "move")
    BY <1>15 DEF Compensate, GiveUp, Remember, RemoveRuntime, InverseNB, Hand,
         InverseAnswer, InverseVerified, FinalAbsence, Finalize, Close
  <2> QED
    BY <2>1 DEF IInv, LogGrows, Types, Announced, Reported, InLog
<1>16. CASE Return \/ Crash
  <2>1. UNCHANGED log /\ (pc = "record-forward" => pc' # "move")
    BY <1>16 DEF Return, Verdict, Crash
  <2> QED
    BY <2>1 DEF IInv, LogGrows, Types, Announced, Reported, InLog
<1>17. CASE Environment \/ UNCHANGED coordVars
  <2>1. UNCHANGED <<log, pc>>
    BY <1>17 DEF Environment, Commit, Refuse, LoseClient, Northd, ForeignWrite, coordVars
  <2> QED
    BY <2>1 DEF IInv, LogGrows, Types, Announced, Reported, InLog
<1> QED
  BY <1>1, <1>2, <1>3, <1>4, <1>5, <1>6, <1>7, <1>8, <1>9, <1>10, <1>11, <1>12, <1>13,
       <1>14, <1>15, <1>16, <1>17, SMT DEF Next, CoordinatorStep

(* A transaction handed to a client, and a client that reports.            *)
LEMMA Handing ==
    ASSUME Types, NEW t \in Transactions, Hand(t)
    PROVE  /\ client' \in [Transactions -> ClientStates]
           /\ handed' \in [Transactions -> Nat]
           /\ client'[t] = "running" /\ handed'[t] = handed[t] + 1
           /\ \A u \in Transactions \ {t} : client'[u] = client[u] /\ handed'[u] = handed[u]
           /\ UNCHANGED <<aSwitch, rows, pos, sb, drift>>
  BY DEF Types, Hand, ClientStates

LEMMA Reporting ==
    ASSUME Types, NEW t \in Transactions,
           NEW s \in ClientStates,
           client' = [client EXCEPT ![t] = s]
    PROVE  /\ client' \in [Transactions -> ClientStates]
           /\ client'[t] = s /\ \A u \in Transactions \ {t} : client'[u] = client[u]
  BY DEF Types

(* Each part of the invariant is preserved: first the shape of the state,  *)
LEMMA TypesStep == ASSUME IInv, [Next]_coordVars PROVE Types'
<1> USE DEF IInv, LogGrows, Types, Proved,
      Labels, Building, Baseline, Moving, Leaking, Restoring, Restored, Analysing, Removing,
      Removed
<1> USE DEF dbVars, logVars, casVars, worldVars, flowVars, errorVars, Transactions,
      ClientStates
<1>0. LogGrows
  BY LogStep
<1>1. CASE RecordIntent
  BY <1>0, <1>1 DEF RecordIntent, State, Event
<1>2. CASE RecordBuilt
  BY <1>0, <1>2 DEF RecordBuilt, State, Event
<1>3. CASE RecordBaseline
  BY <1>0, <1>3 DEF RecordBaseline, State, Event
<1>4. CASE RecordForwardIntent
  BY <1>0, <1>4 DEF RecordForwardIntent, Event
<1>5. CASE RecordLeak
  BY <1>0, <1>5 DEF RecordLeak, State, Event
<1>6. CASE RecordRestoreIntent
  BY <1>0, <1>6 DEF RecordRestoreIntent, Event
<1>7. CASE RecordRestored
  BY <1>0, <1>7 DEF RecordRestored, State, Event
<1>8. CASE Build
  BY <1>0, <1>8 DEF Build, Abort, Remember
<1>9. CASE MakeCapture
  BY <1>0, <1>9 DEF MakeCapture, Abort, Remember
<1>10. CASE StartCapture
  BY <1>0, <1>10 DEF StartCapture, Abort, Remember
<1>11. CASE GatesBefore
  BY <1>0, <1>11 DEF GatesBefore, Gates, Abort, Remember
<1>12. CASE GatesAfter
  BY <1>0, <1>12 DEF GatesAfter, Gates, Abort, Remember
<1>13. CASE WindowsBaseline
  BY <1>0, <1>13 DEF WindowsBaseline, Windows, Abort, Remember
<1>14. CASE WindowsLeak
  BY <1>0, <1>14 DEF WindowsLeak, Windows, Abort, Remember
<1>15. CASE WindowsRestored
  BY <1>0, <1>15 DEF WindowsRestored, Windows, Abort, Remember
<1>16. CASE Prepare
  BY <1>0, <1>16 DEF Prepare, Abort, Remember
<1>17. CASE Move
  <2>1. CASE Hand("forward")
    BY <1>0, <1>17, <2>1, Handing DEF Move, Dispatch
  <2>2. CASE ~Hand("forward")
    BY <1>0, <1>17, <2>2 DEF Move, Dispatch
  <2> QED
    BY <2>1, <2>2
<1>18. CASE MoveAnswer
  BY <1>0, <1>18 DEF MoveAnswer, Answer, TimesOut
<1>19. CASE MoveObserve
  BY <1>0, <1>19 DEF MoveObserve, Observe, Position, Remember
<1>20. CASE MoveEvaluate
  BY <1>0, <1>20 DEF MoveEvaluate, Exact, Lags, BudgetLeft, Abort, Remember
<1>21. CASE Restore
  BY <1>0, <1>21 DEF Restore, AfterFailedRestore, Remember, Position
<1>22. CASE RestoreDispatch
  <2>1. CASE Hand("inverse")
    BY <1>0, <1>22, <2>1, Handing DEF RestoreDispatch, Dispatch
  <2>2. CASE ~Hand("inverse")
    BY <1>0, <1>22, <2>2 DEF RestoreDispatch, Dispatch
  <2> QED
    BY <2>1, <2>2
<1>23. CASE RestoreAnswer
  BY <1>0, <1>23 DEF RestoreAnswer, Answer, TimesOut
<1>24. CASE RestoreObserve
  BY <1>0, <1>24 DEF RestoreObserve, Observe, Position, Remember, AfterFailedRestore
<1>25. CASE RestoreEvaluate
  BY <1>0, <1>25 DEF RestoreEvaluate, Exact, Lags, BudgetLeft, AfterFailedRestore,
       Remember
<1>26. CASE Finally
  BY <1>0, <1>26 DEF Finally
<1>27. CASE LateRestoreIntent
  BY <1>0, <1>27 DEF LateRestoreIntent
<1>28. CASE RestoreOutcome
  BY <1>0, <1>28 DEF RestoreOutcome, RestoredLabel
<1>29. CASE Stop
  BY <1>0, <1>29 DEF Stop, Remember
<1>30. CASE Semantics
  BY <1>0, <1>30 DEF Semantics, Decode, AllWindows, Remember
<1>31. CASE CapturesFinalized
  BY <1>0, <1>31 DEF CapturesFinalized
<1>32. CASE GatesFinalized
  BY <1>0, <1>32 DEF GatesFinalized
<1>33. CASE Compensate
  BY <1>0, <1>33 DEF Compensate, GiveUp, Remember
<1>34. CASE RemoveRuntime
  BY <1>0, <1>34 DEF RemoveRuntime, GiveUp, Remember
<1>35. CASE InverseNB
  <2>1. CASE Hand("rows")
    BY <1>0, <1>35, <2>1, Handing DEF InverseNB, GiveUp, Remember
  <2>2. CASE ~Hand("rows")
    BY <1>0, <1>35, <2>2 DEF InverseNB, GiveUp, Remember
  <2> QED
    BY <2>1, <2>2
<1>36. CASE InverseAnswer
  BY <1>0, <1>36 DEF InverseAnswer, InverseVerified, GiveUp, Remember
<1>37. CASE FinalAbsence
  BY <1>0, <1>37 DEF FinalAbsence, GiveUp, Remember
<1>38. CASE Finalize
  BY <1>0, <1>38 DEF Finalize, GiveUp, Remember
<1>39. CASE Close
  BY <1>0, <1>39 DEF Close, Remember
<1>40. CASE Return
  BY <1>0, <1>40 DEF Return, Verdict
<1>41. CASE Crash
  BY <1>0, <1>41 DEF Crash
<1>42. ASSUME NEW t \in Transactions, Commit(t) PROVE Types'
  <2>1. client' = [client EXCEPT ![t] = "applied"] /\ client[t] = "running"
    BY <1>42 DEF Commit
  <2> QED
    BY <1>0, <1>42, <2>1, Reporting DEF Commit, Guard
<1>43. ASSUME NEW t \in Transactions, Refuse(t) PROVE Types'
  <2>1. client' = [client EXCEPT ![t] = "refused"] /\ client[t] = "running"
    BY <1>43 DEF Refuse
  <2> QED
    BY <1>0, <1>43, <2>1, Reporting DEF Refuse
<1>44. ASSUME NEW t \in Transactions, LoseClient(t) PROVE Types'
  <2>1. client' = [client EXCEPT ![t] = "gone"] /\ client[t] = "running"
    BY <1>44 DEF LoseClient
  <2> QED
    BY <1>0, <1>44, <2>1, Reporting DEF LoseClient
<1>45. CASE Northd \/ ForeignWrite \/ UNCHANGED coordVars
  BY <1>0, <1>45 DEF Northd, ForeignWrite, coordVars
<1> QED
  BY <1>1, <1>2, <1>3, <1>4, <1>5, <1>6, <1>7, <1>8, <1>9, <1>10, <1>11, <1>12, <1>13,
       <1>14, <1>15, <1>16, <1>17, <1>18, <1>19, <1>20, <1>21, <1>22, <1>23, <1>24,
       <1>25, <1>26, <1>27, <1>28, <1>29, <1>30, <1>31, <1>32, <1>33, <1>34, <1>35,
       <1>36, <1>37, <1>38, <1>39, <1>40, <1>41, <1>42, <1>43, <1>44, <1>45,
       SMT DEF Next, CoordinatorStep, Environment

(* what has been handed over,                                              *)
LEMMA OnceStep == ASSUME IInv, [Next]_coordVars PROVE Once'
<1> USE DEF IInv, LogGrows, Types, Once,
      Labels, Building, Baseline, Moving, Leaking, Restoring, Restored, Analysing, Removing,
      Removed
<1> USE DEF dbVars, logVars, casVars, worldVars, flowVars, errorVars, Transactions,
      ClientStates
<1>0. LogGrows
  BY LogStep
<1>1. CASE RecordIntent
  BY <1>0, <1>1 DEF RecordIntent, State, Event
<1>2. CASE RecordBuilt
  BY <1>0, <1>2 DEF RecordBuilt, State, Event
<1>3. CASE RecordBaseline
  BY <1>0, <1>3 DEF RecordBaseline, State, Event
<1>4. CASE RecordForwardIntent
  BY <1>0, <1>4 DEF RecordForwardIntent, Event
<1>5. CASE RecordLeak
  BY <1>0, <1>5 DEF RecordLeak, State, Event
<1>6. CASE RecordRestoreIntent
  BY <1>0, <1>6 DEF RecordRestoreIntent, Event
<1>7. CASE RecordRestored
  BY <1>0, <1>7 DEF RecordRestored, State, Event
<1>8. CASE Build
  BY <1>0, <1>8 DEF Build, Abort, Remember
<1>9. CASE MakeCapture
  BY <1>0, <1>9 DEF MakeCapture, Abort, Remember
<1>10. CASE StartCapture
  BY <1>0, <1>10 DEF StartCapture, Abort, Remember
<1>11. CASE GatesBefore
  BY <1>0, <1>11 DEF GatesBefore, Gates, Abort, Remember
<1>12. CASE GatesAfter
  BY <1>0, <1>12 DEF GatesAfter, Gates, Abort, Remember
<1>13. CASE WindowsBaseline
  BY <1>0, <1>13 DEF WindowsBaseline, Windows, Abort, Remember
<1>14. CASE WindowsLeak
  BY <1>0, <1>14 DEF WindowsLeak, Windows, Abort, Remember
<1>15. CASE WindowsRestored
  BY <1>0, <1>15 DEF WindowsRestored, Windows, Abort, Remember
<1>16. CASE Prepare
  BY <1>0, <1>16 DEF Prepare, Abort, Remember
<1>17. CASE Move
  <2>1. CASE Hand("forward")
    BY <1>0, <1>17, <2>1, Handing DEF Move, Dispatch
  <2>2. CASE ~Hand("forward")
    BY <1>0, <1>17, <2>2 DEF Move, Dispatch
  <2> QED
    BY <2>1, <2>2
<1>18. CASE MoveAnswer
  BY <1>0, <1>18 DEF MoveAnswer, Answer, TimesOut
<1>19. CASE MoveObserve
  BY <1>0, <1>19 DEF MoveObserve, Observe, Position, Remember
<1>20. CASE MoveEvaluate
  BY <1>0, <1>20 DEF MoveEvaluate, Exact, Lags, BudgetLeft, Abort, Remember
<1>21. CASE Restore
  BY <1>0, <1>21 DEF Restore, AfterFailedRestore, Remember, Position
<1>22. CASE RestoreDispatch
  <2>1. CASE Hand("inverse")
    BY <1>0, <1>22, <2>1, Handing DEF RestoreDispatch, Dispatch
  <2>2. CASE ~Hand("inverse")
    BY <1>0, <1>22, <2>2 DEF RestoreDispatch, Dispatch
  <2> QED
    BY <2>1, <2>2
<1>23. CASE RestoreAnswer
  BY <1>0, <1>23 DEF RestoreAnswer, Answer, TimesOut
<1>24. CASE RestoreObserve
  BY <1>0, <1>24 DEF RestoreObserve, Observe, Position, Remember, AfterFailedRestore
<1>25. CASE RestoreEvaluate
  BY <1>0, <1>25 DEF RestoreEvaluate, Exact, Lags, BudgetLeft, AfterFailedRestore,
       Remember
<1>26. CASE Finally
  BY <1>0, <1>26 DEF Finally
<1>27. CASE LateRestoreIntent
  BY <1>0, <1>27 DEF LateRestoreIntent
<1>28. CASE RestoreOutcome
  BY <1>0, <1>28 DEF RestoreOutcome, RestoredLabel
<1>29. CASE Stop
  BY <1>0, <1>29 DEF Stop, Remember
<1>30. CASE Semantics
  BY <1>0, <1>30 DEF Semantics, Decode, AllWindows, Remember
<1>31. CASE CapturesFinalized
  BY <1>0, <1>31 DEF CapturesFinalized
<1>32. CASE GatesFinalized
  BY <1>0, <1>32 DEF GatesFinalized
<1>33. CASE Compensate
  BY <1>0, <1>33 DEF Compensate, GiveUp, Remember
<1>34. CASE RemoveRuntime
  BY <1>0, <1>34 DEF RemoveRuntime, GiveUp, Remember
<1>35. CASE InverseNB
  <2>1. CASE Hand("rows")
    BY <1>0, <1>35, <2>1, Handing DEF InverseNB, GiveUp, Remember
  <2>2. CASE ~Hand("rows")
    BY <1>0, <1>35, <2>2 DEF InverseNB, GiveUp, Remember
  <2> QED
    BY <2>1, <2>2
<1>36. CASE InverseAnswer
  BY <1>0, <1>36 DEF InverseAnswer, InverseVerified, GiveUp, Remember
<1>37. CASE FinalAbsence
  BY <1>0, <1>37 DEF FinalAbsence, GiveUp, Remember
<1>38. CASE Finalize
  BY <1>0, <1>38 DEF Finalize, GiveUp, Remember
<1>39. CASE Close
  BY <1>0, <1>39 DEF Close, Remember
<1>40. CASE Return
  BY <1>0, <1>40 DEF Return, Verdict
<1>41. CASE Crash
  BY <1>0, <1>41 DEF Crash
<1>42. ASSUME NEW t \in Transactions, Commit(t) PROVE Once'
  <2>1. client' = [client EXCEPT ![t] = "applied"] /\ client[t] = "running"
    BY <1>42 DEF Commit
  <2> QED
    BY <1>0, <1>42, <2>1, Reporting DEF Commit, Guard
<1>43. ASSUME NEW t \in Transactions, Refuse(t) PROVE Once'
  <2>1. client' = [client EXCEPT ![t] = "refused"] /\ client[t] = "running"
    BY <1>43 DEF Refuse
  <2> QED
    BY <1>0, <1>43, <2>1, Reporting DEF Refuse
<1>44. ASSUME NEW t \in Transactions, LoseClient(t) PROVE Once'
  <2>1. client' = [client EXCEPT ![t] = "gone"] /\ client[t] = "running"
    BY <1>44 DEF LoseClient
  <2> QED
    BY <1>0, <1>44, <2>1, Reporting DEF LoseClient
<1>45. CASE Northd \/ ForeignWrite \/ UNCHANGED coordVars
  BY <1>0, <1>45 DEF Northd, ForeignWrite, coordVars
<1> QED
  BY <1>1, <1>2, <1>3, <1>4, <1>5, <1>6, <1>7, <1>8, <1>9, <1>10, <1>11, <1>12, <1>13,
       <1>14, <1>15, <1>16, <1>17, <1>18, <1>19, <1>20, <1>21, <1>22, <1>23, <1>24,
       <1>25, <1>26, <1>27, <1>28, <1>29, <1>30, <1>31, <1>32, <1>33, <1>34, <1>35,
       <1>36, <1>37, <1>38, <1>39, <1>40, <1>41, <1>42, <1>43, <1>44, <1>45,
       SMT DEF Next, CoordinatorStep, Environment

(* where the port is,                                                      *)
LEMMA DatabaseStep == ASSUME IInv, [Next]_coordVars PROVE Database'
<1> USE DEF IInv, LogGrows, Types, Once, Database,
      Labels, Building, Baseline, Moving, Leaking, Restoring, Restored, Analysing, Removing,
      Removed
<1> USE DEF dbVars, logVars, casVars, worldVars, flowVars, errorVars, Transactions,
      ClientStates
<1>0. LogGrows
  BY LogStep
<1>1. CASE RecordIntent
  BY <1>0, <1>1 DEF RecordIntent, State, Event
<1>2. CASE RecordBuilt
  BY <1>0, <1>2 DEF RecordBuilt, State, Event
<1>3. CASE RecordBaseline
  BY <1>0, <1>3 DEF RecordBaseline, State, Event
<1>4. CASE RecordForwardIntent
  BY <1>0, <1>4 DEF RecordForwardIntent, Event
<1>5. CASE RecordLeak
  BY <1>0, <1>5 DEF RecordLeak, State, Event
<1>6. CASE RecordRestoreIntent
  BY <1>0, <1>6 DEF RecordRestoreIntent, Event
<1>7. CASE RecordRestored
  BY <1>0, <1>7 DEF RecordRestored, State, Event
<1>8. CASE Build
  BY <1>0, <1>8 DEF Build, Abort, Remember
<1>9. CASE MakeCapture
  BY <1>0, <1>9 DEF MakeCapture, Abort, Remember
<1>10. CASE StartCapture
  BY <1>0, <1>10 DEF StartCapture, Abort, Remember
<1>11. CASE GatesBefore
  BY <1>0, <1>11 DEF GatesBefore, Gates, Abort, Remember
<1>12. CASE GatesAfter
  BY <1>0, <1>12 DEF GatesAfter, Gates, Abort, Remember
<1>13. CASE WindowsBaseline
  BY <1>0, <1>13 DEF WindowsBaseline, Windows, Abort, Remember
<1>14. CASE WindowsLeak
  BY <1>0, <1>14 DEF WindowsLeak, Windows, Abort, Remember
<1>15. CASE WindowsRestored
  BY <1>0, <1>15 DEF WindowsRestored, Windows, Abort, Remember
<1>16. CASE Prepare
  BY <1>0, <1>16 DEF Prepare, Abort, Remember
<1>17. CASE Move
  <2>1. CASE Hand("forward")
    BY <1>0, <1>17, <2>1, Handing DEF Move, Dispatch
  <2>2. CASE ~Hand("forward")
    BY <1>0, <1>17, <2>2 DEF Move, Dispatch
  <2> QED
    BY <2>1, <2>2
<1>18. CASE MoveAnswer
  BY <1>0, <1>18 DEF MoveAnswer, Answer, TimesOut
<1>19. CASE MoveObserve
  BY <1>0, <1>19 DEF MoveObserve, Observe, Position, Remember
<1>20. CASE MoveEvaluate
  BY <1>0, <1>20 DEF MoveEvaluate, Exact, Lags, BudgetLeft, Abort, Remember
<1>21. CASE Restore
  BY <1>0, <1>21 DEF Restore, AfterFailedRestore, Remember, Position
<1>22. CASE RestoreDispatch
  <2>1. CASE Hand("inverse")
    BY <1>0, <1>22, <2>1, Handing DEF RestoreDispatch, Dispatch
  <2>2. CASE ~Hand("inverse")
    BY <1>0, <1>22, <2>2 DEF RestoreDispatch, Dispatch
  <2> QED
    BY <2>1, <2>2
<1>23. CASE RestoreAnswer
  BY <1>0, <1>23 DEF RestoreAnswer, Answer, TimesOut
<1>24. CASE RestoreObserve
  BY <1>0, <1>24 DEF RestoreObserve, Observe, Position, Remember, AfterFailedRestore
<1>25. CASE RestoreEvaluate
  BY <1>0, <1>25 DEF RestoreEvaluate, Exact, Lags, BudgetLeft, AfterFailedRestore,
       Remember
<1>26. CASE Finally
  BY <1>0, <1>26 DEF Finally
<1>27. CASE LateRestoreIntent
  BY <1>0, <1>27 DEF LateRestoreIntent
<1>28. CASE RestoreOutcome
  BY <1>0, <1>28 DEF RestoreOutcome, RestoredLabel
<1>29. CASE Stop
  BY <1>0, <1>29 DEF Stop, Remember
<1>30. CASE Semantics
  BY <1>0, <1>30 DEF Semantics, Decode, AllWindows, Remember
<1>31. CASE CapturesFinalized
  BY <1>0, <1>31 DEF CapturesFinalized
<1>32. CASE GatesFinalized
  BY <1>0, <1>32 DEF GatesFinalized
<1>33. CASE Compensate
  BY <1>0, <1>33 DEF Compensate, GiveUp, Remember
<1>34. CASE RemoveRuntime
  BY <1>0, <1>34 DEF RemoveRuntime, GiveUp, Remember
<1>35. CASE InverseNB
  <2>1. CASE Hand("rows")
    BY <1>0, <1>35, <2>1, Handing DEF InverseNB, GiveUp, Remember
  <2>2. CASE ~Hand("rows")
    BY <1>0, <1>35, <2>2 DEF InverseNB, GiveUp, Remember
  <2> QED
    BY <2>1, <2>2
<1>36. CASE InverseAnswer
  BY <1>0, <1>36 DEF InverseAnswer, InverseVerified, GiveUp, Remember
<1>37. CASE FinalAbsence
  BY <1>0, <1>37 DEF FinalAbsence, GiveUp, Remember
<1>38. CASE Finalize
  BY <1>0, <1>38 DEF Finalize, GiveUp, Remember
<1>39. CASE Close
  BY <1>0, <1>39 DEF Close, Remember
<1>40. CASE Return
  BY <1>0, <1>40 DEF Return, Verdict
<1>41. CASE Crash
  BY <1>0, <1>41 DEF Crash
<1>42. ASSUME NEW t \in Transactions, Commit(t) PROVE Database'
  <2>1. client' = [client EXCEPT ![t] = "applied"] /\ client[t] = "running"
    BY <1>42 DEF Commit
  <2>5. /\ client'[t] = "applied" /\ \A u \in Transactions \ {t} : client'[u] = client[u]
        /\ handed[t] > 0 /\ pc \notin Building \cup Baseline /\ Guard(t)
        /\ UNCHANGED <<handed, pc, forwardIntent>>
    BY <1>42, <2>1, Reporting DEF Commit
  <2>2. CASE t = "forward"
    <3>1. rows' /\ pos' = "A"
      BY <1>42, <2>2 DEF Commit
    <3> QED
      BY <2>5, <2>2, <3>1 DEF Guard
  <2>3. CASE t = "inverse"
    <3>1. rows' /\ pos' = "B"
      BY <1>42, <2>3 DEF Commit
    <3> QED
      BY <2>5, <2>3, <3>1 DEF Guard
  <2>4. CASE t = "rows"
    <3>1. ~rows' /\ pos' = "none"
      BY <1>42, <2>4 DEF Commit
    <3> QED
      BY <2>5, <2>4, <3>1 DEF Guard
  <2> QED
    BY <1>0, <1>42, <2>1, <2>2, <2>3, <2>4, Reporting DEF Commit, Guard
<1>43. ASSUME NEW t \in Transactions, Refuse(t) PROVE Database'
  <2>1. client' = [client EXCEPT ![t] = "refused"] /\ client[t] = "running"
    BY <1>43 DEF Refuse
  <2> QED
    BY <1>0, <1>43, <2>1, Reporting DEF Refuse
<1>44. ASSUME NEW t \in Transactions, LoseClient(t) PROVE Database'
  <2>1. client' = [client EXCEPT ![t] = "gone"] /\ client[t] = "running"
    BY <1>44 DEF LoseClient
  <2> QED
    BY <1>0, <1>44, <2>1, Reporting DEF LoseClient
<1>45. CASE Northd \/ ForeignWrite \/ UNCHANGED coordVars
  BY <1>0, <1>45 DEF Northd, ForeignWrite, coordVars
<1> QED
  BY <1>1, <1>2, <1>3, <1>4, <1>5, <1>6, <1>7, <1>8, <1>9, <1>10, <1>11, <1>12, <1>13,
       <1>14, <1>15, <1>16, <1>17, <1>18, <1>19, <1>20, <1>21, <1>22, <1>23, <1>24,
       <1>25, <1>26, <1>27, <1>28, <1>29, <1>30, <1>31, <1>32, <1>33, <1>34, <1>35,
       <1>36, <1>37, <1>38, <1>39, <1>40, <1>41, <1>42, <1>43, <1>44, <1>45,
       SMT DEF Next, CoordinatorStep, Environment

(* what the reported states rest on,                                       *)
LEMMA ProvedStep == ASSUME IInv, [Next]_coordVars PROVE Proved'
<1> USE DEF IInv, LogGrows, Types, Once, Database, Proved,
      Labels, Building, Baseline, Moving, Leaking, Restoring, Restored, Analysing, Removing,
      Removed
<1> USE DEF dbVars, logVars, casVars, worldVars, flowVars, errorVars, Transactions,
      ClientStates
<1>0. LogGrows
  BY LogStep
<1>1. CASE RecordIntent
  BY <1>0, <1>1 DEF RecordIntent, State, Event, Recorded, NotRecorded
<1>2. CASE RecordBuilt
  BY <1>0, <1>2 DEF RecordBuilt, State, Event, Recorded, NotRecorded
<1>3. CASE RecordBaseline
  BY <1>0, <1>3 DEF RecordBaseline, State, Event, Recorded, NotRecorded
<1>4. CASE RecordForwardIntent
  BY <1>0, <1>4 DEF RecordForwardIntent, Event
<1>5. CASE RecordLeak
  BY <1>0, <1>5 DEF RecordLeak, State, Event, Recorded, NotRecorded
<1>6. CASE RecordRestoreIntent
  BY <1>0, <1>6 DEF RecordRestoreIntent, Event
<1>7. CASE RecordRestored
  BY <1>0, <1>7 DEF RecordRestored, State, Event, Recorded, NotRecorded
<1>8. CASE Build
  BY <1>0, <1>8 DEF Build, Abort, Remember
<1>9. CASE MakeCapture
  BY <1>0, <1>9 DEF MakeCapture, Abort, Remember
<1>10. CASE StartCapture
  BY <1>0, <1>10 DEF StartCapture, Abort, Remember
<1>11. CASE GatesBefore
  BY <1>0, <1>11 DEF GatesBefore, Gates, Abort, Remember
<1>12. CASE GatesAfter
  BY <1>0, <1>12 DEF GatesAfter, Gates, Abort, Remember
<1>13. CASE WindowsBaseline
  BY <1>0, <1>13 DEF WindowsBaseline, Windows, Abort, Remember
<1>14. CASE WindowsLeak
  BY <1>0, <1>14 DEF WindowsLeak, Windows, Abort, Remember
<1>15. CASE WindowsRestored
  BY <1>0, <1>15 DEF WindowsRestored, Windows, Abort, Remember
<1>16. CASE Prepare
  BY <1>0, <1>16 DEF Prepare, Abort, Remember
<1>17. CASE Move
  <2>1. handed["forward"] = 0 /\ pc = "move" /\ ~forwardIntent
    BY <1>17 DEF Move
  <2>2. ~Reported /\ stateIndex = 3 /\ seen # "A"
    BY <2>1
  <2>3. UNCHANGED <<pos, stateIndex, seen>> /\ pc' \in {"move-answer", "move-observe"}
    BY <1>17 DEF Move, Dispatch, Hand
  <2> QED
    BY <1>0, <2>1, <2>2, <2>3
<1>18. CASE MoveAnswer
  BY <1>0, <1>18 DEF MoveAnswer, Answer, TimesOut
<1>19. CASE MoveObserve
  BY <1>0, <1>19 DEF MoveObserve, Observe, Position, Remember
<1>20. CASE MoveEvaluate
  BY <1>0, <1>20 DEF MoveEvaluate, Exact, Lags, BudgetLeft, Abort, Remember
<1>21. CASE Restore
  BY <1>0, <1>21 DEF Restore, AfterFailedRestore, Remember, Position
<1>22. CASE RestoreDispatch
  <2>1. CASE Hand("inverse")
    BY <1>0, <1>22, <2>1, Handing DEF RestoreDispatch, Dispatch
  <2>2. CASE ~Hand("inverse")
    BY <1>0, <1>22, <2>2 DEF RestoreDispatch, Dispatch
  <2> QED
    BY <2>1, <2>2
<1>23. CASE RestoreAnswer
  BY <1>0, <1>23 DEF RestoreAnswer, Answer, TimesOut
<1>24. CASE RestoreObserve
  BY <1>0, <1>24 DEF RestoreObserve, Observe, Position, Remember, AfterFailedRestore
<1>25. CASE RestoreEvaluate
  BY <1>0, <1>25 DEF RestoreEvaluate, Exact, Lags, BudgetLeft, AfterFailedRestore,
       Remember
<1>26. CASE Finally
  BY <1>0, <1>26 DEF Finally
<1>27. CASE LateRestoreIntent
  BY <1>0, <1>27 DEF LateRestoreIntent
<1>28. CASE RestoreOutcome
  BY <1>0, <1>28 DEF RestoreOutcome, RestoredLabel
<1>29. CASE Stop
  BY <1>0, <1>29 DEF Stop, Remember
<1>30. CASE Semantics
  BY <1>0, <1>30 DEF Semantics, Decode, AllWindows, Remember
<1>31. CASE CapturesFinalized
  BY <1>0, <1>31 DEF CapturesFinalized
<1>32. CASE GatesFinalized
  BY <1>0, <1>32 DEF GatesFinalized
<1>33. CASE Compensate
  BY <1>0, <1>33 DEF Compensate, GiveUp, Remember
<1>34. CASE RemoveRuntime
  BY <1>0, <1>34 DEF RemoveRuntime, GiveUp, Remember
<1>35. CASE InverseNB
  <2>1. CASE Hand("rows")
    BY <1>0, <1>35, <2>1, Handing DEF InverseNB, GiveUp, Remember
  <2>2. CASE ~Hand("rows")
    BY <1>0, <1>35, <2>2 DEF InverseNB, GiveUp, Remember
  <2> QED
    BY <2>1, <2>2
<1>36. CASE InverseAnswer
  BY <1>0, <1>36 DEF InverseAnswer, InverseVerified, GiveUp, Remember
<1>37. CASE FinalAbsence
  BY <1>0, <1>37 DEF FinalAbsence, GiveUp, Remember
<1>38. CASE Finalize
  BY <1>0, <1>38 DEF Finalize, GiveUp, Remember
<1>39. CASE Close
  BY <1>0, <1>39 DEF Close, Remember
<1>40. CASE Return
  BY <1>0, <1>40 DEF Return, Verdict
<1>41. CASE Crash
  BY <1>0, <1>41 DEF Crash
<1>42. ASSUME NEW t \in Transactions, Commit(t) PROVE Proved'
  <2>1. client' = [client EXCEPT ![t] = "applied"] /\ client[t] = "running"
    BY <1>42 DEF Commit
  <2> QED
    BY <1>0, <1>42, <2>1, Reporting DEF Commit, Guard
<1>43. ASSUME NEW t \in Transactions, Refuse(t) PROVE Proved'
  <2>1. client' = [client EXCEPT ![t] = "refused"] /\ client[t] = "running"
    BY <1>43 DEF Refuse
  <2> QED
    BY <1>0, <1>43, <2>1, Reporting DEF Refuse
<1>44. ASSUME NEW t \in Transactions, LoseClient(t) PROVE Proved'
  <2>1. client' = [client EXCEPT ![t] = "gone"] /\ client[t] = "running"
    BY <1>44 DEF LoseClient
  <2> QED
    BY <1>0, <1>44, <2>1, Reporting DEF LoseClient
<1>45. CASE Northd \/ ForeignWrite \/ UNCHANGED coordVars
  BY <1>0, <1>45 DEF Northd, ForeignWrite, coordVars
<1> QED
  BY <1>1, <1>2, <1>3, <1>4, <1>5, <1>6, <1>7, <1>8, <1>9, <1>10, <1>11, <1>12, <1>13,
       <1>14, <1>15, <1>16, <1>17, <1>18, <1>19, <1>20, <1>21, <1>22, <1>23, <1>24,
       <1>25, <1>26, <1>27, <1>28, <1>29, <1>30, <1>31, <1>32, <1>33, <1>34, <1>35,
       <1>36, <1>37, <1>38, <1>39, <1>40, <1>41, <1>42, <1>43, <1>44, <1>45,
       SMT DEF Next, CoordinatorStep, Environment

(* and what the end of the clean-up rests on.                              *)
LEMMA CleanedStep == ASSUME IInv, [Next]_coordVars PROVE Cleaned'
<1> USE DEF IInv, LogGrows, Types, Once, Database, Cleaned,
      Labels, Building, Baseline, Moving, Leaking, Restoring, Restored, Analysing, Removing,
      Removed
<1> USE DEF dbVars, logVars, casVars, worldVars, flowVars, errorVars, Transactions,
      ClientStates
<1>0. LogGrows
  BY LogStep
<1>1. CASE RecordIntent
  BY <1>0, <1>1 DEF RecordIntent, State, Event
<1>2. CASE RecordBuilt
  BY <1>0, <1>2 DEF RecordBuilt, State, Event
<1>3. CASE RecordBaseline
  BY <1>0, <1>3 DEF RecordBaseline, State, Event
<1>4. CASE RecordForwardIntent
  BY <1>0, <1>4 DEF RecordForwardIntent, Event
<1>5. CASE RecordLeak
  BY <1>0, <1>5 DEF RecordLeak, State, Event
<1>6. CASE RecordRestoreIntent
  BY <1>0, <1>6 DEF RecordRestoreIntent, Event
<1>7. CASE RecordRestored
  BY <1>0, <1>7 DEF RecordRestored, State, Event
<1>8. CASE Build
  BY <1>0, <1>8 DEF Build, Abort, Remember
<1>9. CASE MakeCapture
  BY <1>0, <1>9 DEF MakeCapture, Abort, Remember
<1>10. CASE StartCapture
  BY <1>0, <1>10 DEF StartCapture, Abort, Remember
<1>11. CASE GatesBefore
  BY <1>0, <1>11 DEF GatesBefore, Gates, Abort, Remember
<1>12. CASE GatesAfter
  BY <1>0, <1>12 DEF GatesAfter, Gates, Abort, Remember
<1>13. CASE WindowsBaseline
  BY <1>0, <1>13 DEF WindowsBaseline, Windows, Abort, Remember
<1>14. CASE WindowsLeak
  BY <1>0, <1>14 DEF WindowsLeak, Windows, Abort, Remember
<1>15. CASE WindowsRestored
  BY <1>0, <1>15 DEF WindowsRestored, Windows, Abort, Remember
<1>16. CASE Prepare
  BY <1>0, <1>16 DEF Prepare, Abort, Remember
<1>17. CASE Move
  <2>1. CASE Hand("forward")
    BY <1>0, <1>17, <2>1, Handing DEF Move, Dispatch
  <2>2. CASE ~Hand("forward")
    BY <1>0, <1>17, <2>2 DEF Move, Dispatch
  <2> QED
    BY <2>1, <2>2
<1>18. CASE MoveAnswer
  BY <1>0, <1>18 DEF MoveAnswer, Answer, TimesOut
<1>19. CASE MoveObserve
  BY <1>0, <1>19 DEF MoveObserve, Observe, Position, Remember
<1>20. CASE MoveEvaluate
  BY <1>0, <1>20 DEF MoveEvaluate, Exact, Lags, BudgetLeft, Abort, Remember
<1>21. CASE Restore
  BY <1>0, <1>21 DEF Restore, AfterFailedRestore, Remember, Position
<1>22. CASE RestoreDispatch
  <2>1. CASE Hand("inverse")
    BY <1>0, <1>22, <2>1, Handing DEF RestoreDispatch, Dispatch
  <2>2. CASE ~Hand("inverse")
    BY <1>0, <1>22, <2>2 DEF RestoreDispatch, Dispatch
  <2> QED
    BY <2>1, <2>2
<1>23. CASE RestoreAnswer
  BY <1>0, <1>23 DEF RestoreAnswer, Answer, TimesOut
<1>24. CASE RestoreObserve
  BY <1>0, <1>24 DEF RestoreObserve, Observe, Position, Remember, AfterFailedRestore
<1>25. CASE RestoreEvaluate
  BY <1>0, <1>25 DEF RestoreEvaluate, Exact, Lags, BudgetLeft, AfterFailedRestore,
       Remember
<1>26. CASE Finally
  BY <1>0, <1>26 DEF Finally
<1>27. CASE LateRestoreIntent
  BY <1>0, <1>27 DEF LateRestoreIntent
<1>28. CASE RestoreOutcome
  BY <1>0, <1>28 DEF RestoreOutcome, RestoredLabel
<1>29. CASE Stop
  BY <1>0, <1>29 DEF Stop, Remember
<1>30. CASE Semantics
  BY <1>0, <1>30 DEF Semantics, Decode, AllWindows, Remember
<1>31. CASE CapturesFinalized
  BY <1>0, <1>31 DEF CapturesFinalized
<1>32. CASE GatesFinalized
  BY <1>0, <1>32 DEF GatesFinalized
<1>33. CASE Compensate
  BY <1>0, <1>33 DEF Compensate, GiveUp, Remember
<1>34. CASE RemoveRuntime
  BY <1>0, <1>34 DEF RemoveRuntime, GiveUp, Remember
<1>35. CASE InverseNB
  <2>1. CASE Hand("rows")
    BY <1>0, <1>35, <2>1, Handing DEF InverseNB, GiveUp, Remember
  <2>2. CASE ~Hand("rows")
    BY <1>0, <1>35, <2>2 DEF InverseNB, GiveUp, Remember
  <2> QED
    BY <2>1, <2>2
<1>36. CASE InverseAnswer
  BY <1>0, <1>36 DEF InverseAnswer, InverseVerified, GiveUp, Remember
<1>37. CASE FinalAbsence
  BY <1>0, <1>37 DEF FinalAbsence, GiveUp, Remember
<1>38. CASE Finalize
  BY <1>0, <1>38 DEF Finalize, GiveUp, Remember
<1>39. CASE Close
  BY <1>0, <1>39 DEF Close, Remember
<1>40. CASE Return
  BY <1>0, <1>40 DEF Return, Verdict
<1>41. CASE Crash
  BY <1>0, <1>41 DEF Crash
<1>42. ASSUME NEW t \in Transactions, Commit(t) PROVE Cleaned'
  <2>1. client' = [client EXCEPT ![t] = "applied"] /\ client[t] = "running"
    BY <1>42 DEF Commit
  <2> QED
    BY <1>0, <1>42, <2>1, Reporting DEF Commit, Guard
<1>43. ASSUME NEW t \in Transactions, Refuse(t) PROVE Cleaned'
  <2>1. client' = [client EXCEPT ![t] = "refused"] /\ client[t] = "running"
    BY <1>43 DEF Refuse
  <2> QED
    BY <1>0, <1>43, <2>1, Reporting DEF Refuse
<1>44. ASSUME NEW t \in Transactions, LoseClient(t) PROVE Cleaned'
  <2>1. client' = [client EXCEPT ![t] = "gone"] /\ client[t] = "running"
    BY <1>44 DEF LoseClient
  <2> QED
    BY <1>0, <1>44, <2>1, Reporting DEF LoseClient
<1>45. CASE Northd \/ ForeignWrite \/ UNCHANGED coordVars
  BY <1>0, <1>45 DEF Northd, ForeignWrite, coordVars
<1> QED
  BY <1>1, <1>2, <1>3, <1>4, <1>5, <1>6, <1>7, <1>8, <1>9, <1>10, <1>11, <1>12, <1>13,
       <1>14, <1>15, <1>16, <1>17, <1>18, <1>19, <1>20, <1>21, <1>22, <1>23, <1>24,
       <1>25, <1>26, <1>27, <1>28, <1>29, <1>30, <1>31, <1>32, <1>33, <1>34, <1>35,
       <1>36, <1>37, <1>38, <1>39, <1>40, <1>41, <1>42, <1>43, <1>44, <1>45,
       SMT DEF Next, CoordinatorStep, Environment

(* The invariant of every reachable state.                                 *)
LEMMA IInvInit == Init => IInv
<1> SUFFICES ASSUME Init PROVE IInv
  OBVIOUS
<1> USE DEF Init, Transactions, ClientStates,
      Labels, Building, Baseline, Moving, Leaking, Restoring, Restored, Analysing, Removing,
      Removed
<1>1. Types
  <2>1. <<>> \in Seq(Entries)
    BY EmptySeq
  <2> QED
    BY <2>1 DEF Types
<1>2. Len(log) = 0
  BY EmptySeq
<1>3. ~Announced /\ ~Reported
  BY <1>2 DEF Announced, Reported, InLog
<1>4. Once
  BY <1>3 DEF Once
<1>5. Database /\ Cleaned
  BY DEF Database, Cleaned
<1>6. Proved
  BY <1>3 DEF Proved
<1> QED
  BY <1>1, <1>4, <1>5, <1>6 DEF IInv

(* The parts together.                                                     *)
LEMMA IInvStep == ASSUME IInv, [Next]_coordVars PROVE IInv'
  BY TypesStep, OnceStep, DatabaseStep, ProvedStep, CleanedStep DEF IInv

LEMMA Invariance == Spec => []IInv
<1>1. IInv /\ [Next]_coordVars => IInv'
  BY IInvStep
<1> QED
  BY <1>1, IInvInit, PTL DEF Spec

(* Whatever was given up earlier, nothing of a released run is left.       *)
THEOREM ReleasedStaysClean == Spec => []ReleasedIsClean
<1>1. IInv => ReleasedIsClean
  BY DEF IInv, Cleaned, Database, ReleasedIsClean
<1> QED
  BY <1>1, Invariance, PTL

(* The owned rows only go while the B port is in its own switch.           *)
THEOREM RowsNeverLeaveFromA == Spec => RowsLeaveFromB
<1>1. IInv /\ [Next]_coordVars => (rows /\ ~rows' => pos = "B")
  <2> SUFFICES ASSUME IInv, [Next]_coordVars, rows, ~rows' PROVE pos = "B"
    OBVIOUS
  <2> USE DEF dbVars
  <2>1. ASSUME NEW t \in Transactions, Commit(t) PROVE pos = "B"
    <3>1. t = "rows"
      BY <2>1 DEF Commit, Transactions
    <3> QED
      BY <2>1, <3>1 DEF Commit, Guard
  <2>2. ~(\E t \in Transactions : Refuse(t) \/ LoseClient(t)) /\ ~Northd /\ ~ForeignWrite
    BY DEF Refuse, LoseClient, Northd, ForeignWrite
  <2>3. ~Build
    BY DEF Build, IInv, Database, Building
  <2>4. ~(RecordIntent \/ RecordBuilt \/ RecordBaseline \/ RecordForwardIntent \/ RecordLeak
          \/ RecordRestoreIntent \/ RecordRestored \/ LateRestoreIntent \/ RestoreOutcome
          \/ CapturesFinalized \/ GatesFinalized)
    BY DEF RecordIntent, RecordBuilt, RecordBaseline, RecordForwardIntent, RecordLeak,
         RecordRestoreIntent, RecordRestored, LateRestoreIntent, RestoreOutcome,
         CapturesFinalized, GatesFinalized, State, Event
  <2>5. ~(MakeCapture \/ StartCapture \/ GatesBefore \/ GatesAfter \/ WindowsBaseline
          \/ WindowsLeak \/ WindowsRestored \/ Prepare \/ Finally \/ Stop \/ Semantics)
    BY DEF MakeCapture, StartCapture, GatesBefore, GatesAfter, Gates, WindowsBaseline,
         WindowsLeak, WindowsRestored, Windows, Prepare, Finally, Stop, Semantics
  <2>6. ~(Move \/ MoveAnswer \/ MoveObserve \/ MoveEvaluate \/ Restore \/ RestoreDispatch
          \/ RestoreAnswer \/ RestoreObserve \/ RestoreEvaluate)
    BY DEF Move, MoveAnswer, MoveObserve, MoveEvaluate, Restore, RestoreDispatch,
         RestoreAnswer, RestoreObserve, RestoreEvaluate, Dispatch, Hand, Answer, Observe
  <2>7. ~(Compensate \/ RemoveRuntime \/ InverseNB \/ InverseAnswer \/ FinalAbsence
          \/ Finalize \/ Close \/ Return \/ Crash)
    BY DEF Compensate, RemoveRuntime, InverseNB, InverseAnswer, FinalAbsence, Finalize,
         Close, Return, Crash, Hand
  <2>8. ~UNCHANGED coordVars
    BY DEF coordVars
  <2> QED
    BY <2>1, <2>2, <2>3, <2>4, <2>5, <2>6, <2>7, <2>8 DEF Next, CoordinatorStep,
       Environment
<1> QED
  BY <1>1, Invariance, PTL DEF Spec, RowsLeaveFromB

(* Once the log says RESTORED, no forward move is outstanding.             *)
THEOREM LoggedRestoreIsFinal == Spec => []LoggedRestoreHolds
<1>1. IInv => LoggedRestoreHolds
  BY DEF IInv, Proved, Reported, InLog, LoggedRestoreHolds
<1> QED
  BY <1>1, Invariance, PTL

(* A killed coordinator leaves a log that says whether the port may have   *)
(* moved, and no transaction is ever with a second client.                 *)
THEOREM MovesAreAnnouncedOnce == Spec => []MovedOnceAndAnnounced
<1>1. IInv => MovedOnceAndAnnounced
  BY DEF IInv, Once, Announced, InLog, MovedOnceAndAnnounced
<1> QED
  BY <1>1, Invariance, PTL

(* The log and the windows grow by the entry that is due.                  *)
LEMMA Chained ==
    ASSUME log \in Seq(Entries), InOrder, Len(log) < 9,
           NEW label \in Entries, label = FullLog[Len(log) + 1], log' = Append(log, label)
    PROVE  InOrder' /\ Len(log') = Len(log) + 1
<1>1. /\ Len(log) \in Nat /\ Len(log') = Len(log) + 1
      /\ \A i \in 1 .. Len(log) : log'[i] = log[i]
      /\ log'[Len(log) + 1] = label
  BY AppendProperties, LenProperties
<1>2. \A i \in 1 .. Len(log') : i <= 9 /\ (i \in 1 .. Len(log) \/ i = Len(log) + 1)
  BY <1>1
<1> QED
  BY <1>1, <1>2 DEF InOrder

LEMMA Placed ==
    ASSUME windows \in Seq({"none", "A", "B"}), InPlaces, Len(windows) < 3,
           pos \in {"none", "A", "B"}, pos = Places[Len(windows) + 1],
           windows' = Append(windows, pos)
    PROVE  InPlaces' /\ Len(windows') = Len(windows) + 1
<1>1. /\ Len(windows) \in Nat /\ Len(windows') = Len(windows) + 1
      /\ \A i \in 1 .. Len(windows) : windows'[i] = windows[i]
      /\ windows'[Len(windows) + 1] = pos
  BY AppendProperties, LenProperties
<1>2. \A i \in 1 .. Len(windows') : i <= 3 /\ (i \in 1 .. Len(windows) \/ i = Len(windows) + 1)
  BY <1>1
<1> QED
  BY <1>1, <1>2 DEF InPlaces

(* A record of the chain, as long as there was no error.                   *)
LEMMA RecordedInOrder ==
    ASSUME log \in Seq(Entries), NoError => InOrder, failed => execError,
           NEW n \in 0 .. 8, NoError => Len(log) = n,
           NEW label \in Entries, NoError => label = FullLog[n + 1],
           Recorded(label) \/ NotRecorded(label)
    PROVE  /\ NoError' => NoError /\ ~failed' /\ InOrder' /\ Len(log') = n + 1
           /\ failed' => execError'
           /\ NotRecorded(label) => failed'
<1>1. NotRecorded(label) => failed' /\ execError' /\ ~NoError'
  BY Zenon DEF NotRecorded, Remember, NoError
<1>2. ASSUME Recorded(label)
      PROVE  ~failed' /\ (NoError' <=> NoError) /\ log' = Append(log, label)
  BY <1>2, Zenon DEF Recorded, errorVars, NoError
<1>3. ASSUME Recorded(label), NoError PROVE InOrder' /\ Len(log') = n + 1
  BY <1>2, <1>3, Chained
<1> QED
  BY <1>1, <1>2, <1>3

(* A block of windows, as long as there was no error.                      *)
LEMMA WindowsInPlace ==
    ASSUME windows \in Seq({"none", "A", "B"}), pos \in {"none", "A", "B"},
           NEW from, NEW to, Windows(from, to),
           NEW n \in 0 .. 2,
           NoError => InPlaces /\ Len(windows) = n /\ pos = Places[n + 1]
    PROVE  /\ windows' \in Seq({"none", "A", "B"})
           /\ NoError' => NoError /\ pc' = to /\ InPlaces' /\ Len(windows') = n + 1
<1>1. ASSUME NEW kind \in {"gate", "exec"}, Abort(kind) PROVE ~NoError'
  BY <1>1 DEF Abort, Remember, NoError
<1>2. CASE windows' = Append(windows, pos) /\ pc' = to /\ UNCHANGED errorVars
  <2>1. windows' \in Seq({"none", "A", "B"})
    BY <1>2, AppendProperties
  <2>2. NoError' <=> NoError
    BY <1>2, Zenon DEF errorVars, NoError
  <2>3. CASE NoError
    BY <1>2, <2>1, <2>3, Placed
  <2> QED
    BY <1>2, <2>1, <2>2, <2>3
<1>3. CASE UNCHANGED windows /\ \E kind \in {"gate", "exec"} : Abort(kind)
  BY <1>1, <1>3
<1> QED
  BY <1>2, <1>3 DEF Windows

(* Nothing recorded, nothing measured.                                     *)
LEMMA Unlengthened ==
    /\ UNCHANGED log => (InOrder' <=> InOrder) /\ Len(log') = Len(log)
    /\ UNCHANGED windows => (InPlaces' <=> InPlaces) /\ Len(windows') = Len(windows)
  BY DEF InOrder, InPlaces

LEMMA Unmeasured ==
    ASSUME UNCHANGED <<log, windows>>
    PROVE  /\ (InOrder' <=> InOrder) /\ Len(log') = Len(log)
           /\ (InPlaces' <=> InPlaces) /\ Len(windows') = Len(windows)
  BY DEF InOrder, InPlaces

(* What a PASS rests on.                                                   *)
LEMMA MeasuredStep == ASSUME IInv, Measured, [Next]_coordVars PROVE Measured'
<1> USE DEF Measured, NoError, LogLength, WindowsLength, Measuring, Ending, BothApplied,
      Building, Baseline, Moving, Leaking, Restoring, Restored, Analysing, Removing, Removed
<1> USE DEF dbVars, logVars, casVars, worldVars, flowVars, errorVars
<1>0. log \in Seq(Entries) /\ Len(log) \in Nat /\ Len(windows) \in Nat
  BY LenProperties DEF IInv, Types
<1>1. CASE RecordIntent
  <2>1. stateIndex = 0 /\ pc = "intent"
    BY <1>1 DEF RecordIntent, State, Event, IInv, Proved
  <2>2. Recorded("INTENT") \/ NotRecorded("INTENT")
    BY <1>1, <2>1 DEF RecordIntent, State, Event, COORDINATOR_STATES
  <2>3. /\ NoError' => NoError /\ ~failed' /\ InOrder' /\ Len(log') = 1
        /\ failed' => execError'
        /\ NotRecorded("INTENT") => failed'
    BY <1>0, <2>1, <2>2, RecordedInOrder DEF FullLog, Entries
  <2> QED
    BY <1>1, <2>1, <2>3, Unlengthened DEF RecordIntent, State, Event, COORDINATOR_STATES
<1>2. CASE RecordBuilt
  <2>1. stateIndex = 1 /\ pc = "record-built"
    BY <1>2 DEF RecordBuilt, State, Event, IInv, Proved
  <2>2. Recorded("BUILT") \/ NotRecorded("BUILT")
    BY <1>2, <2>1 DEF RecordBuilt, State, Event, COORDINATOR_STATES
  <2>3. /\ NoError' => NoError /\ ~failed' /\ InOrder' /\ Len(log') = 2
        /\ failed' => execError'
        /\ NotRecorded("BUILT") => failed'
    BY <1>0, <2>1, <2>2, RecordedInOrder DEF FullLog, Entries
  <2> QED
    BY <1>2, <2>1, <2>3, Unlengthened DEF RecordBuilt, State, Event, COORDINATOR_STATES
<1>3. CASE RecordBaseline
  <2>1. stateIndex = 2 /\ pc = "record-baseline"
    BY <1>3 DEF RecordBaseline, State, Event, IInv, Proved
  <2>2. Recorded("BASELINE_PROVED") \/ NotRecorded("BASELINE_PROVED")
    BY <1>3, <2>1 DEF RecordBaseline, State, Event, COORDINATOR_STATES
  <2>3. /\ NoError' => NoError /\ ~failed' /\ InOrder' /\ Len(log') = 3
        /\ failed' => execError'
        /\ NotRecorded("BASELINE_PROVED") => failed'
    BY <1>0, <2>1, <2>2, RecordedInOrder DEF FullLog, Entries
  <2> QED
    BY <1>3, <2>1, <2>3, Unlengthened DEF RecordBaseline, State, Event, COORDINATOR_STATES
<1>4. CASE RecordForwardIntent
  <2>1. pc = "record-forward"
    BY <1>4 DEF RecordForwardIntent, Event
  <2>2. Recorded("forward-intent") \/ NotRecorded("forward-intent")
    BY <1>4 DEF RecordForwardIntent, Event
  <2>3. /\ NoError' => NoError /\ ~failed' /\ InOrder' /\ Len(log') = 4
        /\ failed' => execError'
        /\ NotRecorded("forward-intent") => failed'
    BY <1>0, <2>1, <2>2, RecordedInOrder DEF FullLog, Entries
  <2> QED
    BY <1>4, <2>1, <2>3, Unlengthened DEF RecordForwardIntent, Event
<1>5. CASE RecordLeak
  <2>1. stateIndex = 3 /\ pc = "record-leak"
    BY <1>5 DEF RecordLeak, State, Event, IInv, Proved
  <2>2. Recorded("LEAK_PROVED") \/ NotRecorded("LEAK_PROVED")
    BY <1>5, <2>1 DEF RecordLeak, State, Event, COORDINATOR_STATES
  <2>3. /\ NoError' => NoError /\ ~failed' /\ InOrder' /\ Len(log') = 5
        /\ failed' => execError'
        /\ NotRecorded("LEAK_PROVED") => failed'
    BY <1>0, <2>1, <2>2, RecordedInOrder DEF FullLog, Entries
  <2> QED
    BY <1>5, <2>1, <2>3, Unlengthened DEF RecordLeak, State, Event, COORDINATOR_STATES
<1>6. CASE RecordRestoreIntent
  <2>1. pc = "record-restore"
    BY <1>6 DEF RecordRestoreIntent, Event
  <2>2. Recorded("restore-intent") \/ NotRecorded("restore-intent")
    BY <1>6 DEF RecordRestoreIntent, Event
  <2>3. /\ NoError' => NoError /\ ~failed' /\ InOrder' /\ Len(log') = 6
        /\ failed' => execError'
        /\ NotRecorded("restore-intent") => failed'
    BY <1>0, <2>1, <2>2, RecordedInOrder DEF FullLog, Entries
  <2> QED
    BY <1>6, <2>1, <2>3, Unlengthened DEF RecordRestoreIntent, Event
<1>7. CASE RecordRestored
  <2>1. stateIndex = 4 /\ pc = "record-restored"
    BY <1>7 DEF RecordRestored, State, Event, IInv, Proved
  <2>2. Recorded("RESTORED") \/ NotRecorded("RESTORED")
    BY <1>7, <2>1 DEF RecordRestored, State, Event, COORDINATOR_STATES
  <2>3. /\ NoError' => NoError /\ ~failed' /\ InOrder' /\ Len(log') = 7
        /\ failed' => execError'
        /\ NotRecorded("RESTORED") => failed'
    BY <1>0, <2>1, <2>2, RecordedInOrder DEF FullLog, Entries
  <2> QED
    BY <1>7, <2>1, <2>3, Unlengthened DEF RecordRestored, State, Event, COORDINATOR_STATES
<1>8. CASE Build
  <2>1. UNCHANGED <<log, windows>>
    BY <1>8 DEF Build, Abort, Remember
  <2> QED
    BY <1>8, <2>1, Unmeasured DEF Build, Abort, Remember, IInv, Proved
<1>9. CASE MakeCapture
  <2>1. UNCHANGED <<log, windows>>
    BY <1>9 DEF MakeCapture, Abort, Remember
  <2> QED
    BY <1>9, <2>1, Unmeasured DEF MakeCapture, Abort, Remember, IInv, Proved
<1>10. CASE StartCapture
  <2>1. UNCHANGED <<log, windows>>
    BY <1>10 DEF StartCapture, Abort, Remember
  <2> QED
    BY <1>10, <2>1, Unmeasured DEF StartCapture, Abort, Remember, IInv, Proved
<1>11. CASE GatesBefore
  <2>1. UNCHANGED <<log, windows>>
    BY <1>11 DEF GatesBefore, Gates, Abort, Remember
  <2> QED
    BY <1>11, <2>1, Unmeasured DEF GatesBefore, Gates, Abort, Remember, IInv, Proved
<1>12. CASE GatesAfter
  <2>1. UNCHANGED <<log, windows>>
    BY <1>12 DEF GatesAfter, Gates, Abort, Remember
  <2> QED
    BY <1>12, <2>1, Unmeasured DEF GatesAfter, Gates, Abort, Remember, IInv, Proved
<1>13. CASE WindowsBaseline
  <2>1. NoError => pos = "B"
    BY <1>13 DEF WindowsBaseline, Windows, IInv, Types, Once, Database, Proved,
       Transactions, ClientStates
  <2>2. /\ windows' \in Seq({"none", "A", "B"})
        /\ NoError' => NoError /\ pc' = "prepare" /\ InPlaces' /\ Len(windows') = 1
    <3>1. pc = "windows-1" /\ Windows("windows-1", "prepare")
      BY <1>13 DEF WindowsBaseline, Windows
    <3> QED
      BY <1>0, <2>1, <3>1, WindowsInPlace DEF Places, IInv, Types
  <2>3. UNCHANGED <<log, failed, client, stateIndex, restored, cleaning, semantics, verdict>>
    BY <1>13 DEF WindowsBaseline, Windows
  <2>4. pc' \in {"prepare", "finally"} /\ (execError => execError')
    BY <1>13 DEF WindowsBaseline, Windows, Abort, Remember
  <2> QED
    BY <1>13, <2>1, <2>2, <2>3, <2>4, Unlengthened DEF WindowsBaseline, Windows
<1>14. CASE WindowsLeak
  <2>1. NoError => pos = "A"
    BY <1>14 DEF WindowsLeak, Windows, IInv, Types, Once, Database, Proved,
       Transactions, ClientStates
  <2>2. /\ windows' \in Seq({"none", "A", "B"})
        /\ NoError' => NoError /\ pc' = "record-leak" /\ InPlaces' /\ Len(windows') = 2
    <3>1. pc = "windows-2" /\ Windows("windows-2", "record-leak")
      BY <1>14 DEF WindowsLeak, Windows
    <3> QED
      BY <1>0, <2>1, <3>1, WindowsInPlace DEF Places, IInv, Types
  <2>3. UNCHANGED <<log, failed, client, stateIndex, restored, cleaning, semantics, verdict>>
    BY <1>14 DEF WindowsLeak, Windows
  <2>4. pc' \in {"record-leak", "finally"} /\ (execError => execError')
    BY <1>14 DEF WindowsLeak, Windows, Abort, Remember
  <2> QED
    BY <1>14, <2>1, <2>2, <2>3, <2>4, Unlengthened DEF WindowsLeak, Windows
<1>15. CASE WindowsRestored
  <2>1. NoError => pos = "B" /\ BothApplied
    BY <1>15 DEF WindowsRestored, Windows, IInv, Types, Once, Database, Proved,
       Transactions, ClientStates
  <2>2. /\ windows' \in Seq({"none", "A", "B"})
        /\ NoError' => NoError /\ pc' = "gates-after" /\ InPlaces' /\ Len(windows') = 3
    <3>1. pc = "windows-3" /\ Windows("windows-3", "gates-after")
      BY <1>15 DEF WindowsRestored, Windows
    <3> QED
      BY <1>0, <2>1, <3>1, WindowsInPlace DEF Places, IInv, Types
  <2>3. UNCHANGED <<log, failed, client, stateIndex, restored, cleaning, semantics, verdict>>
    BY <1>15 DEF WindowsRestored, Windows
  <2>4. pc' \in {"gates-after", "finally"} /\ (execError => execError')
    BY <1>15 DEF WindowsRestored, Windows, Abort, Remember
  <2> QED
    BY <1>15, <2>1, <2>2, <2>3, <2>4, Unlengthened DEF WindowsRestored, Windows
<1>16. CASE Prepare
  <2>1. UNCHANGED <<log, windows>>
    BY <1>16 DEF Prepare, Abort, Remember
  <2> QED
    BY <1>16, <2>1, Unmeasured DEF Prepare, Abort, Remember, IInv, Proved
<1>17. CASE Move
  <2>1. UNCHANGED <<log, windows>>
    BY <1>17 DEF Move, Dispatch
  <2>2. CASE Hand("forward")
    <3>1. BothApplied => TRUE
      BY <2>2, Handing DEF IInv, Transactions
    <3> QED
      BY <1>17, <2>1, <2>2, <3>1, Unmeasured DEF Move, Dispatch
  <2>3. CASE ~Hand("forward")
    BY <1>17, <2>1, <2>3, Unmeasured DEF Move, Dispatch
  <2> QED
    BY <2>2, <2>3
<1>18. CASE MoveAnswer
  <2>1. UNCHANGED <<log, windows>>
    BY <1>18 DEF MoveAnswer, Answer, TimesOut
  <2> QED
    BY <1>18, <2>1, Unmeasured DEF MoveAnswer, Answer, TimesOut, IInv, Proved
<1>19. CASE MoveObserve
  <2>1. UNCHANGED <<log, windows>>
    BY <1>19 DEF MoveObserve, Observe, Position, Remember
  <2> QED
    BY <1>19, <2>1, Unmeasured DEF MoveObserve, Observe, Position, Remember, IInv, Proved
<1>20. CASE MoveEvaluate
  <2>1. UNCHANGED <<log, windows>>
    BY <1>20 DEF MoveEvaluate, Exact, Lags, BudgetLeft, Abort, Remember
  <2> QED
    BY <1>20, <2>1, Unmeasured DEF MoveEvaluate, Exact, Lags, BudgetLeft, Abort,
       Remember, IInv, Proved
<1>21. CASE Restore
  <2>1. UNCHANGED <<log, windows>>
    BY <1>21 DEF Restore, AfterFailedRestore, Remember, Position
  <2> QED
    BY <1>21, <2>1, Unmeasured DEF Restore, AfterFailedRestore, Remember, Position,
       IInv, Proved
<1>22. CASE RestoreDispatch
  <2>1. UNCHANGED <<log, windows>>
    BY <1>22 DEF RestoreDispatch, Dispatch
  <2>2. CASE Hand("inverse")
    <3>1. BothApplied => TRUE
      BY <2>2, Handing DEF IInv, Transactions
    <3> QED
      BY <1>22, <2>1, <2>2, <3>1, Unmeasured DEF RestoreDispatch, Dispatch
  <2>3. CASE ~Hand("inverse")
    BY <1>22, <2>1, <2>3, Unmeasured DEF RestoreDispatch, Dispatch
  <2> QED
    BY <2>2, <2>3
<1>23. CASE RestoreAnswer
  <2>1. UNCHANGED <<log, windows>>
    BY <1>23 DEF RestoreAnswer, Answer, TimesOut
  <2> QED
    BY <1>23, <2>1, Unmeasured DEF RestoreAnswer, Answer, TimesOut, IInv, Proved
<1>24. CASE RestoreObserve
  <2>1. UNCHANGED <<log, windows>>
    BY <1>24 DEF RestoreObserve, Observe, Position, Remember, AfterFailedRestore
  <2> QED
    BY <1>24, <2>1, Unmeasured DEF RestoreObserve, Observe, Position, Remember,
       AfterFailedRestore, IInv, Proved
<1>25. CASE RestoreEvaluate
  <2>1. UNCHANGED <<log, windows>>
    BY <1>25 DEF RestoreEvaluate, Exact, Lags, BudgetLeft, AfterFailedRestore, Remember
  <2> QED
    BY <1>25, <2>1, Unmeasured DEF RestoreEvaluate, Exact, Lags, BudgetLeft,
       AfterFailedRestore, Remember, IInv, Proved
<1>26. CASE Finally
  <2>1. UNCHANGED <<log, windows>>
    BY <1>26 DEF Finally
  <2> QED
    BY <1>26, <2>1, Unmeasured DEF Finally, IInv, Proved
<1>27. CASE LateRestoreIntent
  <2>1. PICK label : Recorded(label) \/ NotRecorded(label)
    BY <1>27 DEF LateRestoreIntent
  <2>2. ~NoError' /\ (failed' => execError')
    <3>1. ~NoError
      BY <1>27 DEF LateRestoreIntent
    <3>2. CASE Recorded(label)
      BY <3>1, <3>2, Zenon DEF Recorded
    <3>3. CASE NotRecorded(label)
      BY <3>3, Zenon DEF NotRecorded, Remember
    <3> QED
      BY <2>1, <3>2, <3>3
  <2> QED
    BY <1>27, <2>2 DEF LateRestoreIntent
<1>28. CASE RestoreOutcome
  <2>1. PICK label : Recorded(label) \/ NotRecorded(label)
    BY <1>28 DEF RestoreOutcome
  <2>2. ~NoError' /\ (failed' => execError')
    <3>1. ~NoError
      BY <1>28 DEF RestoreOutcome
    <3>2. CASE Recorded(label)
      BY <3>1, <3>2, Zenon DEF Recorded
    <3>3. CASE NotRecorded(label)
      BY <3>3, Zenon DEF NotRecorded, Remember
    <3> QED
      BY <2>1, <3>2, <3>3
  <2> QED
    BY <1>28, <2>2 DEF RestoreOutcome
<1>29. CASE Stop
  <2>1. UNCHANGED <<log, windows>>
    BY <1>29 DEF Stop, Remember
  <2> QED
    BY <1>29, <2>1, Unmeasured DEF Stop, Remember, IInv, Proved
<1>30. CASE Semantics
  <2>1. UNCHANGED <<log, windows>>
    BY <1>30 DEF Semantics, Decode, AllWindows, Remember
  <2> QED
    BY <1>30, <2>1, Unmeasured DEF Semantics, Decode, AllWindows, Remember, IInv, Proved
<1>31. CASE CapturesFinalized
  <2>1. pc = "captures-finalized"
    BY <1>31 DEF CapturesFinalized
  <2>2. Recorded("captures-finalized") \/ NotRecorded("captures-finalized")
    BY <1>31 DEF CapturesFinalized
  <2>3. /\ NoError' => NoError /\ ~failed' /\ InOrder' /\ Len(log') = 8
        /\ failed' => execError'
        /\ NotRecorded("captures-finalized") => failed'
    BY <1>0, <2>1, <2>2, RecordedInOrder DEF FullLog, Entries
  <2> QED
    BY <1>31, <2>1, <2>3, Unlengthened DEF CapturesFinalized
<1>32. CASE GatesFinalized
  <2>1. pc = "gates-finalized"
    BY <1>32 DEF GatesFinalized
  <2>2. Recorded("gates-finalized") \/ NotRecorded("gates-finalized")
    BY <1>32 DEF GatesFinalized
  <2>3. /\ NoError' => NoError /\ ~failed' /\ InOrder' /\ Len(log') = 9
        /\ failed' => execError'
        /\ NotRecorded("gates-finalized") => failed'
    BY <1>0, <2>1, <2>2, RecordedInOrder DEF FullLog, Entries
  <2> QED
    BY <1>32, <2>1, <2>3, Unlengthened DEF GatesFinalized
<1>33. CASE Compensate
  <2>1. UNCHANGED <<log, windows>>
    BY <1>33 DEF Compensate, GiveUp, Remember
  <2> QED
    BY <1>33, <2>1, Unmeasured DEF Compensate, GiveUp, Remember, IInv, Proved
<1>34. CASE RemoveRuntime
  <2>1. UNCHANGED <<log, windows>>
    BY <1>34 DEF RemoveRuntime, GiveUp, Remember
  <2> QED
    BY <1>34, <2>1, Unmeasured DEF RemoveRuntime, GiveUp, Remember, IInv, Proved
<1>35. CASE InverseNB
  <2>1. UNCHANGED <<log, windows>>
    BY <1>35 DEF InverseNB, GiveUp, Remember
  <2>2. CASE Hand("rows")
    <3>1. BothApplied => BothApplied'
      BY <2>2, Handing DEF IInv, Transactions
    <3> QED
      BY <1>35, <2>1, <2>2, <3>1, Unmeasured DEF InverseNB, GiveUp, Remember
  <2>3. CASE ~Hand("rows")
    BY <1>35, <2>1, <2>3, Unmeasured DEF InverseNB, GiveUp, Remember
  <2> QED
    BY <2>2, <2>3
<1>36. CASE InverseAnswer
  <2>1. UNCHANGED <<log, windows>>
    BY <1>36 DEF InverseAnswer, InverseVerified, GiveUp, Remember
  <2> QED
    BY <1>36, <2>1, Unmeasured DEF InverseAnswer, InverseVerified, GiveUp, Remember,
       IInv, Proved
<1>37. CASE FinalAbsence
  <2>1. UNCHANGED <<log, windows>>
    BY <1>37 DEF FinalAbsence, GiveUp, Remember
  <2> QED
    BY <1>37, <2>1, Unmeasured DEF FinalAbsence, GiveUp, Remember, IInv, Proved
<1>38. CASE Finalize
  <2>1. UNCHANGED <<log, windows>>
    BY <1>38 DEF Finalize, GiveUp, Remember
  <2> QED
    BY <1>38, <2>1, Unmeasured DEF Finalize, GiveUp, Remember, IInv, Proved
<1>39. CASE Close
  <2>1. UNCHANGED <<log, windows>>
    BY <1>39 DEF Close, Remember
  <2> QED
    BY <1>39, <2>1, Unmeasured DEF Close, Remember, IInv, Proved
<1>40. CASE Return
  <2>1. UNCHANGED <<log, windows>>
    BY <1>40 DEF Return, Verdict
  <2> QED
    BY <1>40, <2>1, Unmeasured DEF Return, Verdict, IInv, Proved
<1>41. CASE Crash
  <2>1. UNCHANGED <<log, windows>>
    BY <1>41 DEF Crash
  <2> QED
    BY <1>41, <2>1, Unmeasured DEF Crash, IInv, Proved
<1>42. ASSUME NEW t \in Transactions, Commit(t) PROVE Measured'
  <2>1. client' = [client EXCEPT ![t] = "applied"] /\ client[t] = "running"
    BY <1>42 DEF Commit
  <2>2. BothApplied => BothApplied'
    BY <2>1, Reporting DEF IInv, Transactions, ClientStates
  <2>3. UNCHANGED <<log, windows>>
    BY <1>42 DEF Commit
  <2> QED
    BY <1>42, <2>2, <2>3, Unmeasured DEF Commit
<1>43. ASSUME NEW t \in Transactions, Refuse(t) PROVE Measured'
  <2>1. client' = [client EXCEPT ![t] = "refused"] /\ client[t] = "running"
    BY <1>43 DEF Refuse
  <2>2. BothApplied => BothApplied'
    BY <2>1, Reporting DEF IInv, Transactions, ClientStates
  <2>3. UNCHANGED <<log, windows>>
    BY <1>43 DEF Refuse
  <2> QED
    BY <1>43, <2>2, <2>3, Unmeasured DEF Refuse
<1>44. ASSUME NEW t \in Transactions, LoseClient(t) PROVE Measured'
  <2>1. client' = [client EXCEPT ![t] = "gone"] /\ client[t] = "running"
    BY <1>44 DEF LoseClient
  <2>2. BothApplied => BothApplied'
    BY <2>1, Reporting DEF IInv, Transactions, ClientStates
  <2>3. UNCHANGED <<log, windows>>
    BY <1>44 DEF LoseClient
  <2> QED
    BY <1>44, <2>2, <2>3, Unmeasured DEF LoseClient
<1>45. CASE Northd \/ ForeignWrite \/ UNCHANGED coordVars
  <2>1. UNCHANGED <<log, windows>>
    BY <1>45 DEF Northd, ForeignWrite, coordVars
  <2> QED
    BY <1>45, <2>1, Unmeasured DEF Northd, ForeignWrite, coordVars
<1> HIDE DEF Measured
<1> QED
  BY <1>1, <1>2, <1>3, <1>4, <1>5, <1>6, <1>7, <1>8, <1>9, <1>10, <1>11, <1>12, <1>13,
       <1>14, <1>15, <1>16, <1>17, <1>18, <1>19, <1>20, <1>21, <1>22, <1>23, <1>24,
       <1>25, <1>26, <1>27, <1>28, <1>29, <1>30, <1>31, <1>32, <1>33, <1>34, <1>35,
       <1>36, <1>37, <1>38, <1>39, <1>40, <1>41, <1>42, <1>43, <1>44, <1>45,
       SMT DEF Next, CoordinatorStep, Environment

LEMMA MeasuredInit == Init => Measured
<1> SUFFICES ASSUME Init PROVE Measured
  OBVIOUS
<1>1. /\ log = <<>> /\ windows = <<>> /\ pc = "intent" /\ ~failed /\ ~cleaning
      /\ semantics = "none" /\ verdict = "none"
  BY DEF Init
<1>2. Len(log) = 0 /\ Len(windows) = 0 /\ windows \in Seq({"none", "A", "B"})
  BY <1>1, EmptySeq
<1>3. InOrder /\ InPlaces
  BY <1>2 DEF InOrder, InPlaces
<1> QED
  BY <1>1, <1>2, <1>3 DEF Measured, LogLength, WindowsLength, Measuring, Ending, Building,
       Moving, Restoring, Restored, Analysing, Removing, Removed

LEMMA Measurement == Spec => [](IInv /\ Measured)
<1>1. IInv /\ Measured /\ [Next]_coordVars => Measured'
  BY MeasuredStep
<1> QED
  BY <1>1, MeasuredInit, Invariance, PTL DEF Spec

(* A verdict PASS was measured in B, in A and in B again, both moves were  *)
(* applied, and the log holds the whole chain in order.                    *)
THEOREM PassWasMeasured == Spec => []PassIsMeasured
<1>1. ASSUME IInv, Measured, verdict = "PASS"
      PROVE  windows = <<"B", "A", "B">> /\ BothApplied /\ log = FullLog
  <2>1. NoError /\ pc = "ended" /\ semantics = "PASS"
    BY <1>1 DEF Measured
  <2>2. InOrder /\ InPlaces /\ Len(log) = 9 /\ Len(windows) = 3 /\ BothApplied
    BY <1>1, <2>1 DEF Measured, LogLength, WindowsLength, Ending
  <2>3. FullLog \in Seq(Entries) /\ Len(FullLog) = 9
    BY DEF FullLog, Entries
  <2>4. \A i \in 1 .. Len(log) : log[i] = FullLog[i]
    BY <2>2 DEF InOrder
  <2>5. log = FullLog
    BY <1>1, <2>2, <2>3, <2>4, SeqEqual DEF IInv, Types
  <2>6. Places \in Seq({"none", "A", "B"}) /\ Len(Places) = 3
    BY DEF Places
  <2>7. \A i \in 1 .. Len(windows) : windows[i] = Places[i]
    BY <2>2 DEF InPlaces
  <2>8. windows = Places
    BY <1>1, <2>2, <2>6, <2>7, SeqEqual DEF Measured
  <2> QED
    BY <2>2, <2>5, <2>8 DEF Places
<1>2. IInv /\ Measured => PassIsMeasured
  BY <1>1 DEF PassIsMeasured, BothApplied
<1> QED
  BY <1>2, Measurement, PTL

(* What an execution without a fault around it rests on.                   *)
LEMMA FaultlessStep == ASSUME IInv, Measured, Faultless, [Next]_coordVars PROVE Faultless'
<1> USE DEF Faultless, NoError, Ending, Building, Analysing, Removing, Removed
<1> USE DEF dbVars, logVars, casVars, worldVars, flowVars, errorVars
<1>1. CASE RecordIntent
  BY <1>1 DEF RecordIntent, State, Event, Recorded, NotRecorded, Remember
<1>2. CASE RecordBuilt
  BY <1>2 DEF RecordBuilt, State, Event, Recorded, NotRecorded, Remember
<1>3. CASE RecordBaseline
  BY <1>3 DEF RecordBaseline, State, Event, Recorded, NotRecorded, Remember
<1>4. CASE RecordForwardIntent
  BY <1>4 DEF RecordForwardIntent, Event, Recorded, NotRecorded, Remember
<1>5. CASE RecordLeak
  BY <1>5 DEF RecordLeak, State, Event, Recorded, NotRecorded, Remember
<1>6. CASE RecordRestoreIntent
  BY <1>6 DEF RecordRestoreIntent, Event, Recorded, NotRecorded, Remember
<1>7. CASE RecordRestored
  BY <1>7 DEF RecordRestored, State, Event, Recorded, NotRecorded, Remember
<1>8. CASE Build
  BY <1>8 DEF Build, Abort, Remember
<1>9. CASE MakeCapture
  BY <1>9 DEF MakeCapture, Abort, Remember
<1>10. CASE StartCapture
  BY <1>10 DEF StartCapture, Abort, Remember
<1>11. CASE GatesBefore
  BY <1>11 DEF GatesBefore, Gates, Abort, Remember
<1>12. CASE GatesAfter
  BY <1>12 DEF GatesAfter, Gates, Abort, Remember
<1>13. CASE WindowsBaseline
  BY <1>13 DEF WindowsBaseline, Windows, Abort, Remember
<1>14. CASE WindowsLeak
  BY <1>14 DEF WindowsLeak, Windows, Abort, Remember
<1>15. CASE WindowsRestored
  BY <1>15 DEF WindowsRestored, Windows, Abort, Remember
<1>16. CASE Prepare
  BY <1>16 DEF Prepare, Abort, Remember
<1>17. CASE Move
  BY <1>17 DEF Move, Dispatch, Hand
<1>18. CASE MoveAnswer
  BY <1>18 DEF MoveAnswer, Answer, TimesOut
<1>19. CASE MoveObserve
  BY <1>19 DEF MoveObserve, Observe, Position, Remember
<1>20. CASE MoveEvaluate
  BY <1>20 DEF MoveEvaluate, Exact, Lags, BudgetLeft, Abort, Remember
<1>21. CASE Restore
  BY <1>21 DEF Restore, AfterFailedRestore, Remember, Position
<1>22. CASE RestoreDispatch
  BY <1>22 DEF RestoreDispatch, Dispatch, Hand
<1>23. CASE RestoreAnswer
  BY <1>23 DEF RestoreAnswer, Answer, TimesOut
<1>24. CASE RestoreObserve
  BY <1>24 DEF RestoreObserve, Observe, Position, Remember, AfterFailedRestore
<1>25. CASE RestoreEvaluate
  BY <1>25 DEF RestoreEvaluate, Exact, Lags, BudgetLeft, AfterFailedRestore, Remember
<1>26. CASE Finally
  BY <1>26 DEF Finally, Measured
<1>27. CASE LateRestoreIntent
  <2>1. faulted \/ ~aSwitch
    BY <1>27 DEF LateRestoreIntent, Measured
  <2>2. Recorded("restore-intent") => UNCHANGED faulted
    BY Zenon DEF Recorded
  <2>3. NotRecorded("restore-intent") => faulted'
    BY Zenon DEF NotRecorded
  <2>4. UNCHANGED aSwitch /\ (faulted => faulted')
    BY <1>27, <2>2, <2>3 DEF LateRestoreIntent
  <2> QED
    BY <2>1, <2>4
<1>28. CASE RestoreOutcome
  <2>1. faulted \/ ~aSwitch
    BY <1>28 DEF RestoreOutcome, Measured
  <2>2. Recorded(RestoredLabel) => UNCHANGED faulted
    BY Zenon DEF Recorded
  <2>3. NotRecorded(RestoredLabel) => faulted'
    BY Zenon DEF NotRecorded
  <2>4. UNCHANGED aSwitch /\ (faulted => faulted')
    BY <1>28, <2>2, <2>3 DEF RestoreOutcome
  <2> QED
    BY <2>1, <2>4
<1>29. CASE Stop
  BY <1>29 DEF Stop, Remember
<1>30. CASE Semantics
  BY <1>30 DEF Semantics, Decode, AllWindows, Remember, Measured, WindowsLength
<1>31. CASE CapturesFinalized
  BY <1>31 DEF CapturesFinalized, Recorded, NotRecorded, Remember
<1>32. CASE GatesFinalized
  BY <1>32 DEF GatesFinalized, Recorded, NotRecorded, Remember
<1>33. CASE Compensate
  BY <1>33 DEF Compensate, GiveUp, Remember
<1>34. CASE RemoveRuntime
  BY <1>34 DEF RemoveRuntime, GiveUp, Remember
<1>35. CASE InverseNB
  BY <1>35 DEF InverseNB, Hand, GiveUp, Remember
<1>36. CASE InverseAnswer
  BY <1>36 DEF InverseAnswer, InverseVerified, GiveUp, Remember
<1>37. CASE FinalAbsence
  BY <1>37 DEF FinalAbsence, GiveUp, Remember
<1>38. CASE Finalize
  BY <1>38 DEF Finalize, GiveUp, Remember
<1>39. CASE Close
  BY <1>39 DEF Close, Remember
<1>40. CASE Return
  BY <1>40 DEF Return, Verdict
<1>41. CASE Crash
  BY <1>41 DEF Crash
<1>42. ASSUME NEW t \in Transactions, Commit(t) \/ Refuse(t) \/ LoseClient(t) PROVE Faultless'
  BY <1>42 DEF Commit, Refuse, LoseClient
<1>43. CASE Northd \/ ForeignWrite \/ UNCHANGED coordVars
  BY <1>43 DEF Northd, ForeignWrite, coordVars
<1> HIDE DEF Faultless
<1> QED
  BY <1>1, <1>2, <1>3, <1>4, <1>5, <1>6, <1>7, <1>8, <1>9, <1>10, <1>11, <1>12, <1>13,
       <1>14, <1>15, <1>16, <1>17, <1>18, <1>19, <1>20, <1>21, <1>22, <1>23, <1>24,
       <1>25, <1>26, <1>27, <1>28, <1>29, <1>30, <1>31, <1>32, <1>33, <1>34, <1>35,
       <1>36, <1>37, <1>38, <1>39, <1>40, <1>41, <1>42, <1>43, SMT DEF Next,
       CoordinatorStep, Environment

(* Nothing but a fault around it keeps an execution from passing.          *)
THEOREM FaultlessRunsPass == Spec => []FaultlessRunPasses
<1>1. Init => Faultless
  BY DEF Init, Faultless, NoError, Ending, Building, Removing, Removed
<1>2. IInv /\ Measured /\ Faultless /\ [Next]_coordVars => Faultless'
  BY FaultlessStep
<1>3. Faultless => FaultlessRunPasses
  BY DEF Faultless, FaultlessRunPasses
<1> QED
  BY <1>1, <1>2, <1>3, Measurement, PTL DEF Spec
=============================================================================

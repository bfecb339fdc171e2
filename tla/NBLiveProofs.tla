----------------------------- MODULE NBLiveProofs -----------------------------
(***************************************************************************)
(* Proofs about the NB live adapter.  One inductive invariant, IndInv,     *)
(* carries the safety properties of NBLive and the refinement of           *)
(* OwnedChange:                                                            *)
(*   Control   where an operation is, against the stage it is about to     *)
(*             record, the journal state and the dispatches made so far;   *)
(*   Bound     which files exist, against the journal and next_stage;      *)
(*   Database  what the database and the clients are, against the          *)
(*             dispatches;                                                 *)
(*   Receipts  what the recorded results say of the database.              *)
(***************************************************************************)
EXTENDS NBLive, TLAPS

Running == pc # "idle"

(* The range of next_stage in a phase. *)
FirstIndex(p) == IF p = "forward" THEN 0 ELSE 6

LatePCs == {"wait", "outcome", "outcomepub", "verify", "verifypub",
            "retainwrite", "retainappend", "retainoutcome", "qualify"}

ForwardControl ==
    Running /\ phase = "forward" =>
        /\ jstate \in {"NB_ABSENT"} \cup ForwardStates
        /\ dispatches["inverse"] = 0

InverseControl ==
    Running /\ phase = "inverse" => jstate \in {"NB_FORWARD_VERIFIED"} \cup InverseStates

(* The next stage never leaves the phase and never returns to the          *)
(* transaction once it was attempted.                                      *)
StageControl ==
    Running =>
        /\ FirstIndex(phase) <= next /\ next <= LastIndex(phase)
        /\ attempted => next >= ResultIndex(phase)
        /\ pc \in {"helper", "reading"} =>
             /\ next < LastIndex(phase)
             /\ IF attempted THEN next > ResultIndex(phase) ELSE next < ResultIndex(phase)
        /\ pc \in {"write", "append"} =>
             /\ next < LastIndex(phase)
             /\ ~attempted => next < ResultIndex(phase)
        /\ pc = "publish" =>
             /\ next > FirstIndex(phase)
             /\ IF attempted THEN next > ResultIndex(phase) ELSE next <= ResultIndex(phase)
        /\ pc \in {"prepare", "preparepub", "dispatch"} =>
             next = ResultIndex(phase) /\ ~attempted
        /\ pc \in {"wait", "retainwrite", "retainappend"} => next = ResultIndex(phase)
        /\ pc \in {"outcome", "outcomepub"} => next = ResultIndex(phase) + 1
        /\ pc \in {"verify", "verifypub"} => next = LastIndex(phase)
        /\ pc \in LatePCs => attempted

DispatchControl ==
    /\ Running => dispatches[phase] = IF attempted THEN 1 ELSE 0
    /\ Running /\ pc \in {"preparepub", "dispatch"} => jstate = INTENT(phase)
    /\ view.status \in {"PASS", "FAIL"}

Control ==
    /\ ForwardControl
    /\ InverseControl
    /\ StageControl
    /\ DispatchControl
    /\ NoReissue
    /\ IntentIsDurable

Bound ==
    /\ JournalBindsFiles
    /\ Running => \A i \in 1..next : Exists(ALL_STAGES[i])
    /\ pc \in {"append", "retainappend"} => Exists(ALL_STAGES[next + 1])

Database ==
    /\ \A p \in Phases : client[p].st = "none" <=> dispatches[p] = 0
    /\ insertions = IF client["forward"].st = "applied" THEN 1 ELSE 0
    /\ rows = IF client["forward"].st = "applied" /\ client["inverse"].st # "applied"
              THEN 1 ELSE 0
    /\ client["forward"].st = "applied" => client["forward"].rows = 1
    /\ client["inverse"].st = "applied" => client["forward"].st = "applied"
    /\ dispatches["inverse"] > 0 =>
         Exists("forward_checked") /\ client["inverse"].rows = Inserted

(* What a passing forward (inverse) answer c says of the database. *)
ForwardAnswer(c) ==
    c.status = "PASS" => client["forward"].st = "applied" /\ c.first = 1
InverseAnswer(c) == c.status = "PASS" => client["inverse"].st = "applied"

PendingView ==
    pc \in {"write", "append", "retainwrite"} =>
        /\ next = 2 => ForwardAnswer(view)
        /\ next = 3 => view.status = "PASS" /\ ForwardAnswer(view)
        /\ next = 8 => InverseAnswer(view)
        /\ next = 9 => view.status = "PASS" /\ InverseAnswer(view)

(* Only a snapshot helper is read in two halves. *)
Reading == pc = "reading" => next \in {0, 4, 6, 10}

Receipts ==
    /\ ForwardAnswer(file["forward_result"])
    /\ ForwardAnswer(file["forward_checked"])
    /\ InverseAnswer(file["inverse_result"])
    /\ InverseAnswer(file["inverse_checked"])
    /\ Exists("forward_checked") => file["forward_checked"].status = "PASS"
    /\ Exists("inverse_checked") => file["inverse_checked"].status = "PASS"
    /\ PendingView
    /\ Reading
    /\ jstate = "NB_FORWARD_VERIFIED" => Exists("forward_checked")
    /\ jstate = "NB_INVERSE_VERIFIED" => Exists("inverse_checked")

IndInv == TypeOK /\ Control /\ Bound /\ Database /\ Receipts

-----------------------------------------------------------------------------
LEMMA StageAt ==
    /\ ALL_STAGES[1] = "preflight"       /\ ALL_STAGES[2] = "forward_tx"
    /\ ALL_STAGES[3] = "forward_result"  /\ ALL_STAGES[4] = "forward_checked"
    /\ ALL_STAGES[5] = "built_snapshot"  /\ ALL_STAGES[6] = "built_checked"
    /\ ALL_STAGES[7] = "preinverse_snapshot" /\ ALL_STAGES[8] = "inverse_tx"
    /\ ALL_STAGES[9] = "inverse_result"  /\ ALL_STAGES[10] = "inverse_checked"
    /\ ALL_STAGES[11] = "clean_snapshot" /\ ALL_STAGES[12] = "clean_checked"
BY DEF ALL_STAGES, FORWARD_STAGES, INVERSE_STAGES

LEMMA Lengths == Len(FORWARD_STAGES) = 6
BY DEF FORWARD_STAGES

LEMMA RaisedPC == Raised \in {"idle", "retainwrite", "retainoutcome", "qualify"}
BY DEF Raised

LEMMA TypeInit == Init => TypeOK
<1> SUFFICES ASSUME Init PROVE TypeOK
  OBVIOUS
<1>1. NorthboundTypeOK
  BY DEF Init, NorthboundInit, NorthboundTypeOK, Phases, Client, ClientStates
<1>2. file \in [Stages -> Content] /\ view \in Content
  BY <1>1 DEF Init, NorthboundTypeOK, Content
<1>3. jstate \in STATES \cup {"NONE"} /\ phase \in Phases /\ pc \in PCs
  BY DEF Init, Phases, PCs
<1>4. jarts \in 0..12 /\ next \in 0..12
  BY DEF Init
<1>5. trusted \in BOOLEAN /\ attempted \in BOOLEAN
  BY Zenon DEF Init
<1>6. dispatches \in [Phases -> Nat]
  BY DEF Init
<1> QED
  BY <1>1, <1>2, <1>3, <1>4, <1>5, <1>6 DEF TypeOK

LEMMA TypeStep == IndInv /\ [Next]_vars => TypeOK'
<1> SUFFICES ASSUME IndInv, [Next]_vars PROVE TypeOK'
  OBVIOUS
<1> USE DEF TypeOK, NorthboundTypeOK, nbVars, durable, Phases
<1> TypeOK
  BY DEF IndInv
<1> Raised \in PCs
  BY RaisedPC DEF PCs
<1>1. CASE StartForward
  <2>1. jstate' \in STATES \cup {"NONE"} /\ phase' \in Phases /\ pc' \in PCs
    BY <1>1 DEF StartForward, STATES, PCs
  <2>2. trusted' \in BOOLEAN /\ attempted' \in BOOLEAN
    BY <1>1, Zenon DEF StartForward
  <2> QED
    BY <1>1, <2>1, <2>2 DEF StartForward
<1>2. CASE StartInverse
  BY <1>2, Lengths DEF StartInverse, LoadForInverse, PCs
<1>3. CASE ReadFirstTables
  BY <1>3 DEF ReadFirstTables, Content, PCs
<1>4. CASE ReadLastTables
  BY <1>4 DEF ReadLastTables, Content, PCs
<1>5. CASE RunLocalHelper
  BY <1>5 DEF RunLocalHelper, LocalHelperOutput, ViewFor, Content, PCs, Stages
<1>6. CASE HelperFails
  BY <1>6 DEF HelperFails, Raise
<1>7. CASE WriteArtifact
  BY <1>7 DEF WriteArtifact, PCs
<1>8. CASE WriteArtifactFails
  BY <1>8 DEF WriteArtifactFails, Raise
<1>9. CASE AppendArtifact
  BY <1>9 DEF AppendArtifact, PCs, IndInv, Control, StageControl, Running, LastIndex
<1>10. CASE AppendArtifactFails
  <2>1. next < 12
    BY <1>10 DEF AppendArtifactFails, IndInv, Control, StageControl, Running, LastIndex,
        ResultIndex
  <2>2. jarts' \in 0..12
    BY <1>10, <2>1 DEF AppendArtifactFails
  <2>3. pc' \in PCs
    BY <1>10 DEF AppendArtifactFails, Raise, PCs
  <2> QED
    BY <1>10, <2>2, <2>3 DEF AppendArtifactFails
<1>11. CASE PublishArtifact
  BY <1>11 DEF PublishArtifact, AfterArtifact, PCs
<1>12. CASE PublishFails
  BY <1>12 DEF PublishFails, Raise
<1>13. CASE Prepare
  BY <1>13 DEF Prepare, JournalState, INTENT, STATES, ForwardStates, InverseStates, PCs
<1>14. CASE PublishIntent
  BY <1>14 DEF PublishIntent, PCs
<1>15. CASE StateAppendFails
  BY <1>15 DEF StateAppendFails, AppendFails, Raise, INTENT, COMMITTED, VERIFIED, STATES,
      ForwardStates, InverseStates
<1>16. CASE Dispatch
  BY <1>16 DEF Dispatch, Hand, Client, ClientStates, PCs, Fingerprint, Inserted, Content, Stages
<1>17. CASE DispatchRefused
  BY <1>17 DEF DispatchRefused, Raise
<1>18. CASE Reply
  BY <1>18 DEF Reply, Content, Client, PCs
<1>19. CASE GiveUp
  BY <1>19 DEF GiveUp, ViewFor, Content, PCs
<1>20. CASE RecordOutcome
  BY <1>20 DEF RecordOutcome, JournalState, COMMITTED, STATES, ForwardStates, InverseStates, PCs
<1>21. CASE PublishOutcome
  BY <1>21 DEF PublishOutcome, PCs
<1>22. CASE RecordVerified
  BY <1>22 DEF RecordVerified, JournalState, VERIFIED, STATES, ForwardStates, InverseStates, PCs
<1>23. CASE PublishVerified
  BY <1>23 DEF PublishVerified, PCs
<1>24. CASE RetainWrite \/ RetainWriteFails
  BY <1>24 DEF RetainWrite, RetainWriteFails, PCs
<1>25. CASE RetainAppend
  BY <1>25 DEF RetainAppend, PCs, IndInv, Control, StageControl, Running, ResultIndex
<1>26. CASE RetainOutcome
  BY <1>26 DEF RetainOutcome, AppendFails, AMBIGUOUS, STATES, ForwardStates, InverseStates, PCs
<1>27. CASE Qualify
  BY <1>27 DEF Qualify, AMBIGUOUS, STATES, ForwardStates, InverseStates, PCs
<1>28. CASE Crash
  BY <1>28 DEF Crash, PCs
<1>29. CASE NorthboundNext /\ UNCHANGED adapterVars
  <2> USE <1>29 DEF adapterVars, Client, ClientStates
  <2>1. CASE CommitForward
    BY <2>1 DEF CommitForward
  <2>2. CASE CommitInverse
    BY <2>2 DEF CommitInverse
  <2>3. ASSUME NEW p \in Phases, Refuse(p) PROVE TypeOK'
    BY <2>3 DEF Refuse
  <2>4. ASSUME NEW p \in Phases, LoseClient(p) PROVE TypeOK'
    BY <2>4 DEF LoseClient
  <2>5. CASE ForeignWrite
    BY <2>5 DEF ForeignWrite
  <2> QED
    BY <2>1, <2>2, <2>3, <2>4, <2>5 DEF NorthboundNext, ServerStep
<1>30. CASE UNCHANGED vars
  BY <1>30 DEF vars, adapterVars
<1> QED
  BY <1>1, <1>2, <1>3, <1>4, <1>5, <1>6, <1>7, <1>8, <1>9, <1>10, <1>11, <1>12, <1>13,
      <1>14, <1>15, <1>16, <1>17, <1>18, <1>19, <1>20, <1>21, <1>22, <1>23, <1>24, <1>25,
      <1>26, <1>27, <1>28, <1>29, <1>30 DEF Next, AdapterNext, Continue

-----------------------------------------------------------------------------
(* Control.                                                                *)

LEMMA RaisedControl ==
    ASSUME TypeOK
    PROVE  /\ Raised # "idle" => attempted
           /\ Raised = "retainwrite" => next = ResultIndex(phase)
           /\ Raised \in {"idle", "qualify", "retainwrite", "retainoutcome"}
BY DEF Raised

(* Where a recorded stage leads, in terms of the stage index alone.        *)
LEMMA AfterPublish ==
    ASSUME TypeOK, StageControl, view.status \in {"PASS", "FAIL"}, pc = "publish"
    PROVE  \/ AfterArtifact = "prepare" /\ next = ResultIndex(phase)
           \/ AfterArtifact = "outcome" /\ next = ResultIndex(phase) + 1
           \/ AfterArtifact = "verify" /\ next = LastIndex(phase)
           \/ AfterArtifact = "helper" /\ next < LastIndex(phase) /\ next # ResultIndex(phase)
           \/ AfterArtifact = Raised
<1> USE DEF StageControl, Running, FirstIndex, LastIndex, ResultIndex
<1>1. CASE phase = "forward"
  <2>1. next \in {1, 2, 3, 4, 5, 6}
    BY <1>1 DEF TypeOK
  <2> QED
    BY <1>1, <2>1, StageAt DEF AfterArtifact
<1>2. CASE phase = "inverse"
  <2>1. next \in {7, 8, 9, 10, 11, 12}
    BY <1>2 DEF TypeOK
  <2> QED
    BY <1>2, <2>1, StageAt DEF AfterArtifact
<1> QED
  BY <1>1, <1>2 DEF TypeOK, Phases

LEMMA ControlInit == Init => Control
BY DEF Init, Control, ForwardControl, InverseControl, StageControl, DispatchControl, Running,
       NoReissue, IntentIsDurable, Phases

LEMMA ControlStep == IndInv /\ [Next]_vars => Control'
<1> SUFFICES ASSUME IndInv, [Next]_vars PROVE Control'
  OBVIOUS
<1> USE DEF Control, ForwardControl, InverseControl, StageControl, DispatchControl, Running,
            NoReissue, IntentIsDurable, FirstIndex, LastIndex, ResultIndex, LatePCs,
            durable, Phases
<1> TypeOK /\ Control
  BY DEF IndInv
<1> phase \in Phases /\ next \in 0..12 /\ dispatches \in [Phases -> Nat]
  BY DEF TypeOK
<1>0. StageControl /\ view.status \in {"PASS", "FAIL"}
  OBVIOUS
<1>1. CASE StartForward
  BY <1>1 DEF StartForward, ForwardStates, InverseStates
<1>2. CASE StartInverse
  BY <1>2, Lengths DEF StartInverse, LoadForInverse, InverseStates
<1>3. CASE ReadFirstTables
  BY <1>3 DEF ReadFirstTables
<1>4. CASE ReadLastTables
  BY <1>4 DEF ReadLastTables
<1>5. CASE RunLocalHelper
  BY <1>5 DEF RunLocalHelper, LocalHelperOutput, LocalHelperAccepts, ViewFor, ResultAccepted
<1>6. CASE HelperFails
  BY <1>6, RaisedControl DEF HelperFails, Raise
<1>7. CASE WriteArtifact
  BY <1>7 DEF WriteArtifact
<1>8. CASE WriteArtifactFails
  BY <1>8, RaisedControl DEF WriteArtifactFails, Raise
<1>9. CASE AppendArtifact
  BY <1>9 DEF AppendArtifact
<1>10. CASE AppendArtifactFails
  BY <1>10, RaisedControl DEF AppendArtifactFails, Raise
<1>11. CASE PublishArtifact
  BY <1>11, <1>0, AfterPublish, RaisedControl DEF PublishArtifact
<1>12. CASE PublishFails
  BY <1>12, RaisedControl DEF PublishFails, Raise
<1>13. CASE Prepare
  BY <1>13 DEF Prepare, JournalState, INTENT, ForwardStates, InverseStates
<1>14. CASE PublishIntent
  BY <1>14 DEF PublishIntent
<1>15. CASE StateAppendFails
  BY <1>15, RaisedControl DEF StateAppendFails, AppendFails, Raise, INTENT, COMMITTED,
      VERIFIED, ForwardStates, InverseStates
<1>16. CASE Dispatch
  BY <1>16 DEF Dispatch, INTENT, InverseStates
<1>17. CASE DispatchRefused
  BY <1>17, RaisedControl DEF DispatchRefused, Raise
<1>18. CASE Reply
  BY <1>18 DEF Reply
<1>19. CASE GiveUp
  BY <1>19 DEF GiveUp, ViewFor
<1>20. CASE RecordOutcome
  BY <1>20 DEF RecordOutcome, JournalState, COMMITTED, ForwardStates, InverseStates
<1>21. CASE PublishOutcome
  BY <1>21 DEF PublishOutcome
<1>22. CASE RecordVerified
  BY <1>22 DEF RecordVerified, JournalState, VERIFIED, ForwardStates, InverseStates
<1>23. CASE PublishVerified
  BY <1>23 DEF PublishVerified
<1>24. CASE RetainWrite \/ RetainWriteFails
  BY <1>24 DEF RetainWrite, RetainWriteFails
<1>25. CASE RetainAppend
  BY <1>25 DEF RetainAppend
<1>26. CASE RetainOutcome
  BY <1>26 DEF RetainOutcome, AppendFails, AMBIGUOUS, INTENT, ForwardStates, InverseStates
<1>27. CASE Qualify
  BY <1>27 DEF Qualify, AMBIGUOUS, ForwardStates, InverseStates
<1>28. CASE Crash
  BY <1>28 DEF Crash
<1>29. CASE UNCHANGED adapterVars
  BY <1>29 DEF adapterVars
<1> QED
  BY <1>1, <1>2, <1>3, <1>4, <1>5, <1>6, <1>7, <1>8, <1>9, <1>10, <1>11, <1>12, <1>13,
      <1>14, <1>15, <1>16, <1>17, <1>18, <1>19, <1>20, <1>21, <1>22, <1>23, <1>24, <1>25,
      <1>26, <1>27, <1>28, <1>29 DEF Next, AdapterNext, Continue, vars

-----------------------------------------------------------------------------
(* Files.                                                                  *)

LEMMA StageIndex == \A i \in 1..12 : ALL_STAGES[i] \in Stages
<1> SUFFICES ASSUME NEW i \in 1..12 PROVE ALL_STAGES[i] \in Stages
  OBVIOUS
<1>1. i \in {1, 2, 3, 4, 5, 6, 7, 8, 9, 10, 11, 12}
  OBVIOUS
<1> QED
  BY <1>1, StageAt DEF Stages

(* A file that exists stays as it is; the file of the pending stage is     *)
(* only ever written with a pending view.                                  *)
LEMMA FileStep ==
    ASSUME IndInv, [Next]_vars
    PROVE  \/ file' = file
           \/ /\ pc \in {"write", "retainwrite"}
              /\ next < 12
              /\ ~Exists(Stage)
              /\ file' = [file EXCEPT ![Stage] = view]
<1>0. pc \in {"write", "retainwrite"} => next < 12
  BY DEF IndInv, TypeOK, Phases, Control, StageControl, Running, LastIndex, ResultIndex
<1> USE DEF durable
<1>1. CASE WriteArtifact
  BY <1>0, <1>1 DEF WriteArtifact
<1>2. CASE WriteArtifactFails
  BY <1>0, <1>2 DEF WriteArtifactFails
<1>3. CASE RetainWrite \/ RetainWriteFails
  BY <1>0, <1>3 DEF RetainWrite, RetainWriteFails
<1>4. CASE StartForward \/ StartInverse \/ ReadFirstTables \/ ReadLastTables
            \/ RunLocalHelper \/ HelperFails \/ AppendArtifact \/ AppendArtifactFails
            \/ PublishArtifact
            \/ PublishFails \/ Prepare \/ PublishIntent \/ StateAppendFails \/ Dispatch
            \/ DispatchRefused \/ Reply \/ GiveUp \/ RecordOutcome
            \/ PublishOutcome \/ RecordVerified \/ PublishVerified \/ RetainAppend
            \/ RetainOutcome \/ Qualify \/ Crash
  BY <1>4 DEF StartForward, StartInverse, ReadFirstTables, ReadLastTables, RunLocalHelper,
      HelperFails, AppendArtifact, AppendArtifactFails, PublishArtifact, PublishFails,
          Prepare, PublishIntent, StateAppendFails, Dispatch, DispatchRefused, Reply,
              GiveUp, RecordOutcome, PublishOutcome, RecordVerified, PublishVerified,
                  RetainAppend, RetainOutcome, Qualify, Crash
<1>5. CASE UNCHANGED adapterVars
  BY <1>5 DEF adapterVars
<1> QED
  BY <1>1, <1>2, <1>3, <1>4, <1>5 DEF Next, AdapterNext, Continue, vars

LEMMA FilesKept ==
    ASSUME IndInv, [Next]_vars, NEW s \in Stages, Exists(s)
    PROVE  file'[s] = file[s] /\ Exists(s)'
<1>1. file \in [Stages -> Content]
  BY DEF IndInv, TypeOK
<1> QED
  BY <1>1, FileStep DEF Exists

LEMMA BoundInit == Init => Bound
BY DEF Init, Bound, JournalBindsFiles, Running

LEMMA BoundStep == IndInv /\ [Next]_vars => Bound'
<1> SUFFICES ASSUME IndInv, [Next]_vars PROVE Bound'
  OBVIOUS
<1> TypeOK /\ Control /\ Bound
  BY DEF IndInv
<1> next \in 0..12 /\ jarts \in 0..12 /\ phase \in Phases
  BY DEF TypeOK
<1>0. \A i \in 1..12 : Exists(ALL_STAGES[i]) => Exists(ALL_STAGES[i])'
  BY StageIndex, FilesKept
<1>a. file \in [Stages -> Content]
  BY DEF TypeOK
<1>b. \A i \in 0..11 : Exists(ALL_STAGES[i + 1]) => Exists(ALL_STAGES[i + 1])'
  BY <1>0
<1> USE <1>0, <1>b DEF Bound, JournalBindsFiles, Running, durable, Phases
<1>1. CASE StartForward
  BY <1>1 DEF StartForward
<1>2. CASE StartInverse
  BY <1>2, Lengths DEF StartInverse, LoadForInverse
<1>3. CASE ReadFirstTables
  BY <1>3 DEF ReadFirstTables
<1>4. CASE ReadLastTables
  BY <1>4 DEF ReadLastTables
<1>5. CASE RunLocalHelper
  BY <1>5 DEF RunLocalHelper
<1>6. CASE HelperFails
  BY <1>6, RaisedPC DEF HelperFails, Raise
<1>7. CASE WriteArtifact
  <2>1. next < 12 /\ view.status # "ABSENT"
    BY <1>7 DEF WriteArtifact, Control, StageControl, DispatchControl, LastIndex, ResultIndex
  <2>2. ALL_STAGES[next + 1] \in Stages
    BY <2>1, StageIndex
  <2> QED
    BY <1>7, <1>a, <2>1, <2>2 DEF WriteArtifact, Stage, Exists
<1>8. CASE WriteArtifactFails
  BY <1>8, RaisedPC DEF WriteArtifactFails, Raise
<1>9. CASE AppendArtifact
  BY <1>9 DEF AppendArtifact, Control, StageControl, LastIndex
<1>10. CASE AppendArtifactFails
  BY <1>10, RaisedPC DEF AppendArtifactFails, Raise, Control, StageControl, LastIndex,
      ResultIndex
<1>11. CASE PublishArtifact
  BY <1>11, AfterPublish, RaisedPC DEF PublishArtifact, Control, DispatchControl
<1>12. CASE PublishFails
  BY <1>12, RaisedPC DEF PublishFails, Raise
<1>13. CASE Prepare
  BY <1>13 DEF Prepare
<1>14. CASE PublishIntent
  BY <1>14 DEF PublishIntent
<1>15. CASE StateAppendFails
  BY <1>15, RaisedPC DEF StateAppendFails, Raise
<1>16. CASE Dispatch
  BY <1>16 DEF Dispatch
<1>17. CASE DispatchRefused
  BY <1>17, RaisedPC DEF DispatchRefused, Raise
<1>18. CASE Reply
  BY <1>18 DEF Reply
<1>19. CASE GiveUp
  BY <1>19 DEF GiveUp
<1>20. CASE RecordOutcome
  BY <1>20 DEF RecordOutcome
<1>21. CASE PublishOutcome
  BY <1>21 DEF PublishOutcome
<1>22. CASE RecordVerified
  BY <1>22 DEF RecordVerified
<1>23. CASE PublishVerified
  BY <1>23 DEF PublishVerified
<1>24. CASE RetainWrite \/ RetainWriteFails
  <2>1. next < 12 /\ view.status # "ABSENT"
    BY <1>24 DEF RetainWrite, RetainWriteFails, Control, StageControl, DispatchControl,
        LastIndex, ResultIndex
  <2>2. ALL_STAGES[next + 1] \in Stages
    BY <2>1, StageIndex
  <2> QED
    BY <1>24, <1>a, <2>1, <2>2 DEF RetainWrite, RetainWriteFails, Stage, Exists
<1>25. CASE RetainAppend
  BY <1>25 DEF RetainAppend, Control, StageControl, ResultIndex
<1>26. CASE RetainOutcome
  BY <1>26 DEF RetainOutcome
<1>27. CASE Qualify
  BY <1>27 DEF Qualify
<1>28. CASE Crash
  BY <1>28 DEF Crash
<1>29. CASE UNCHANGED adapterVars
  <2>1. UNCHANGED <<jarts, file, next, pc>>
    BY <1>29 DEF adapterVars
  <2> QED
    BY <2>1 DEF Exists
<1> QED
  BY <1>1, <1>2, <1>3, <1>4, <1>5, <1>6, <1>7, <1>8, <1>9, <1>10, <1>11, <1>12, <1>13,
      <1>14, <1>15, <1>16, <1>17, <1>18, <1>19, <1>20, <1>21, <1>22, <1>23, <1>24, <1>25,
      <1>26, <1>27, <1>28, <1>29 DEF Next, AdapterNext, Continue, vars

-----------------------------------------------------------------------------
(* The database.                                                           *)

LEMMA DatabaseInit == Init => Database
BY DEF Init, NorthboundInit, Database, Exists, Phases

(* Only the dispatch and the server move the clients and the rows.         *)
LEMMA WhoMovesTheDatabase ==
    ASSUME [Next]_vars
    PROVE  \/ UNCHANGED <<nbVars, dispatches>>
           \/ Dispatch
           \/ NorthboundNext /\ UNCHANGED adapterVars
<1>1. CASE StartForward \/ StartInverse \/ ReadFirstTables \/ ReadLastTables
            \/ RunLocalHelper \/ HelperFails \/ WriteArtifact
            \/ WriteArtifactFails \/ AppendArtifact \/ AppendArtifactFails
            \/ PublishArtifact \/ PublishFails \/ Prepare \/ PublishIntent
            \/ StateAppendFails \/ DispatchRefused \/ Reply \/ GiveUp \/ RecordOutcome
            \/ PublishOutcome \/ RecordVerified
            \/ PublishVerified \/ RetainWrite \/ RetainWriteFails \/ RetainAppend
            \/ RetainOutcome \/ Qualify \/ Crash
  BY <1>1 DEF StartForward, StartInverse, ReadFirstTables, ReadLastTables, RunLocalHelper,
      HelperFails, WriteArtifact, WriteArtifactFails, AppendArtifact, AppendArtifactFails,
          PublishArtifact, PublishFails, Prepare, PublishIntent, StateAppendFails,
              DispatchRefused, Reply, GiveUp, RecordOutcome, PublishOutcome,
                  RecordVerified, PublishVerified, RetainWrite, RetainWriteFails,
                      RetainAppend, RetainOutcome, Qualify, Crash, durable
<1>2. CASE UNCHANGED vars
  BY <1>2 DEF vars, adapterVars
<1> QED
  BY <1>1, <1>2 DEF Next, AdapterNext, Continue

LEMMA DatabaseStep == IndInv /\ [Next]_vars => Database'
<1> SUFFICES ASSUME IndInv, [Next]_vars PROVE Database'
  OBVIOUS
<1> TypeOK /\ Control /\ Bound /\ Database
  BY DEF IndInv
<1> client \in [Phases -> Client] /\ dispatches \in [Phases -> Nat] /\ phase \in Phases
  BY DEF TypeOK, NorthboundTypeOK
<1>0. Exists("forward_checked") => Exists("forward_checked")' /\ Inserted' = Inserted
  <2>1. "forward_checked" \in Stages
    BY DEF Stages
  <2> QED
    BY <2>1, FilesKept DEF Inserted
<1> USE DEF Database, Phases
<1>1. CASE UNCHANGED <<nbVars, dispatches>>
  BY <1>0, <1>1 DEF nbVars
<1>2. CASE Dispatch
  <2>1. dispatches[phase] = 0 /\ dispatches' = [dispatches EXCEPT ![phase] = 1]
    <3>1. pc = "dispatch"
      BY <1>2 DEF Dispatch
    <3>2. ~attempted
      BY <3>1 DEF Control, StageControl, Running
    <3>3. dispatches[phase] = 0
      BY <3>1, <3>2 DEF Control, DispatchControl, Running
    <3>4. dispatches' = [dispatches EXCEPT ![phase] = @ + 1]
      BY <1>2 DEF Dispatch
    <3> QED
      BY <3>3, <3>4
  <2>2. CASE phase = "forward"
    <3>1. dispatches["inverse"] = 0
      BY <1>2, <2>2 DEF Dispatch, Control, ForwardControl, Running
    <3> QED
      BY <1>2, <2>1, <2>2, <3>1 DEF Dispatch, Hand, Client
  <2>3. CASE phase = "inverse"
    <3>1. Exists("forward_checked")
      <4>1. next = 8
        BY <1>2, <2>3 DEF Dispatch, Control, StageControl, Running, ResultIndex
      <4> QED
        BY <1>2, <4>1, StageAt DEF Dispatch, Bound, Running
    <3> QED
      BY <1>0, <1>2, <2>1, <2>3, <3>1 DEF Dispatch, Hand, Client
  <2> QED
    BY <2>2, <2>3
<1>3. CASE NorthboundNext /\ UNCHANGED adapterVars
  <2>0. UNCHANGED dispatches
    BY <1>3 DEF adapterVars
  <2> USE <1>0, <2>0
  <2>1. CASE CommitForward
    BY <2>1 DEF CommitForward, ForwardGuard, Client
  <2>2. CASE CommitInverse
    BY <2>2 DEF CommitInverse, InverseGuard, Client
  <2>3. ASSUME NEW p \in Phases, Refuse(p) PROVE Database'
    BY <2>3 DEF Refuse, Client
  <2>4. ASSUME NEW p \in Phases, LoseClient(p) PROVE Database'
    BY <2>4 DEF LoseClient, Client
  <2>5. CASE ForeignWrite
    BY <2>5 DEF ForeignWrite
  <2> QED
    BY <1>3, <2>1, <2>2, <2>3, <2>4, <2>5 DEF NorthboundNext, ServerStep
<1> QED
  BY <1>1, <1>2, <1>3, WhoMovesTheDatabase

-----------------------------------------------------------------------------
(* The receipts.                                                           *)

LEMMA StagesDiffer ==
    \A i \in 1..12 :
        /\ ALL_STAGES[i] = "forward_result"  <=> i = 3
        /\ ALL_STAGES[i] = "forward_checked" <=> i = 4
        /\ ALL_STAGES[i] = "inverse_result"  <=> i = 9
        /\ ALL_STAGES[i] = "inverse_checked" <=> i = 10
        /\ ALL_STAGES[i] \in SnapshotStages <=> i \in {1, 5, 7, 11}
<1> SUFFICES ASSUME NEW i \in 1..12
             PROVE  /\ ALL_STAGES[i] = "forward_result"  <=> i = 3
                    /\ ALL_STAGES[i] = "forward_checked" <=> i = 4
                    /\ ALL_STAGES[i] = "inverse_result"  <=> i = 9
                    /\ ALL_STAGES[i] = "inverse_checked" <=> i = 10
                    /\ ALL_STAGES[i] \in SnapshotStages <=> i \in {1, 5, 7, 11}
  OBVIOUS
<1>1. i \in {1, 2, 3, 4, 5, 6, 7, 8, 9, 10, 11, 12}
  OBVIOUS
<1> QED
  BY <1>1, StageAt DEF SnapshotStages

(* An applied client stays applied and keeps its answer.                   *)
LEMMA AppliedStays ==
    ASSUME IndInv, [Next]_vars, NEW p \in Phases, client[p].st = "applied"
    PROVE  client'[p].st = "applied" /\ client'[p].rows = client[p].rows
<1> client \in [Phases -> Client] /\ phase \in Phases /\ dispatches \in [Phases -> Nat]
  BY DEF IndInv, TypeOK, NorthboundTypeOK
<1>1. CASE UNCHANGED <<nbVars, dispatches>>
  BY <1>1 DEF nbVars
<1>2. CASE Dispatch
  <2>1. pc = "dispatch"
    BY <1>2 DEF Dispatch
  <2>2. ~attempted
    BY <2>1 DEF IndInv, Control, StageControl, Running
  <2>3. dispatches[phase] = 0
    BY <2>1, <2>2 DEF IndInv, Control, DispatchControl, Running
  <2>4. client[phase].st = "none"
    BY <2>3 DEF IndInv, Database
  <2> QED
    BY <1>2, <2>4 DEF Dispatch, Hand
<1>3. CASE NorthboundNext
  BY <1>3 DEF NorthboundNext, ServerStep, CommitForward, CommitInverse, Refuse, LoseClient,
              ForeignWrite, Client, Phases
<1> QED
  BY <1>1, <1>2, <1>3, WhoMovesTheDatabase

LEMMA AnswersStay ==
    ASSUME IndInv, [Next]_vars, NEW c
    PROVE  /\ ForwardAnswer(c) =>
                (c.status = "PASS" => client'["forward"].st = "applied" /\ c.first = 1)
           /\ InverseAnswer(c) => (c.status = "PASS" => client'["inverse"].st = "applied")
BY AppliedStays DEF ForwardAnswer, InverseAnswer, Phases

LEMMA ReceiptsInit == Init => Receipts
<1> SUFFICES ASSUME Init PROVE Receipts
  OBVIOUS
<1>1. \A s \in Stages : file[s].status = "ABSENT"
  BY DEF Init
<1> QED
  BY <1>1 DEF Init, Receipts, PendingView, Reading, ForwardAnswer, InverseAnswer, Exists, Stages

LEMMA PendingViewStep == IndInv /\ [Next]_vars => PendingView'
<1> SUFFICES ASSUME IndInv, [Next]_vars,
                    pc' \in {"write", "append", "retainwrite"}
             PROVE  /\ next' = 2 => ForwardAnswer(view)'
                    /\ next' = 3 => view'.status = "PASS" /\ ForwardAnswer(view)'
                    /\ next' = 8 => InverseAnswer(view)'
                    /\ next' = 9 => view'.status = "PASS" /\ InverseAnswer(view)'
  BY DEF PendingView
<1> TypeOK /\ Control /\ Database /\ Receipts /\ PendingView
  BY DEF IndInv, Receipts
<1> next \in 0..12 /\ phase \in Phases
  BY DEF TypeOK
<1> DEFINE Same == /\ pc \in {"write", "append", "retainwrite"}
                   /\ next' = next
                   /\ view' = view
           Harmless == next' \notin {2, 3, 8, 9}
<1>0. CASE Same
  <2>1. next = 2 => ForwardAnswer(view)
    BY <1>0 DEF PendingView
  <2>2. next = 3 => view.status = "PASS" /\ ForwardAnswer(view)
    BY <1>0 DEF PendingView
  <2>3. next = 8 => InverseAnswer(view)
    BY <1>0 DEF PendingView
  <2>4. next = 9 => view.status = "PASS" /\ InverseAnswer(view)
    BY <1>0 DEF PendingView
  <2>5. view' = view /\ next' = next
    BY <1>0
  <2>6. /\ ForwardAnswer(view) => ForwardAnswer(view)'
        /\ InverseAnswer(view) => InverseAnswer(view)'
    BY <2>5, AnswersStay DEF ForwardAnswer, InverseAnswer
  <2> QED
    BY <2>1, <2>2, <2>3, <2>4, <2>5, <2>6
<1>1. CASE Harmless
  BY <1>1
<1>2. CASE ReadLastTables
  BY <1>1, <1>2 DEF ReadLastTables, Reading, Receipts
<1>3. CASE RunLocalHelper
  <2>1. next < 12 /\ next + 1 \in 1..12 /\ next' = next
    BY <1>3 DEF RunLocalHelper, Control, StageControl, Running, LastIndex
  <2>2. Stage = ALL_STAGES[next + 1]
    BY DEF Stage
  <2>3. next # 2 /\ next # 8
    BY <1>3, <2>1, <2>2, StagesDiffer DEF RunLocalHelper
  <2>4. UNCHANGED <<client, file>>
    BY <1>3 DEF RunLocalHelper, nbVars, durable
  <2>5. CASE next = 3
    <3>1. Stage = "forward_checked"
      BY <2>1, <2>2, <2>5, StageAt
    <3>2. view' = file["forward_result"] /\ file["forward_result"].status = "PASS"
      BY <1>3, <3>1 DEF RunLocalHelper, LocalHelperOutput, LocalHelperAccepts, ResultAccepted
    <3> QED
      BY <2>1, <2>4, <2>5, <3>2 DEF Receipts, ForwardAnswer
  <2>6. CASE next = 9
    <3>1. Stage = "inverse_checked"
      BY <2>1, <2>2, <2>6, StageAt
    <3>2. view' = file["inverse_result"] /\ file["inverse_result"].status = "PASS"
      BY <1>3, <3>1 DEF RunLocalHelper, LocalHelperOutput, LocalHelperAccepts, ResultAccepted
    <3> QED
      BY <2>1, <2>4, <2>6, <3>2 DEF Receipts, InverseAnswer
  <2> QED
    BY <1>1, <2>1, <2>3, <2>5, <2>6
<1>4. CASE WriteArtifact \/ WriteArtifactFails
  BY <1>0, <1>4 DEF WriteArtifact, WriteArtifactFails
<1>5. CASE AppendArtifactFails
  BY <1>0, <1>5 DEF AppendArtifactFails
<1>6. CASE Reply
  <2>1. /\ next' = next
        /\ next = ResultIndex(phase)
        /\ client' = client
        /\ view'.status = "PASS" => client[phase].st = "applied"
        /\ view'.first = client[phase].rows
    BY <1>6 DEF Reply, Control, StageControl, Running, nbVars
  <2> QED
    BY <2>1 DEF ResultIndex, Database, ForwardAnswer, InverseAnswer, Phases
<1>7. CASE GiveUp
  <2>1. next' = next /\ next = ResultIndex(phase) /\ view'.status = "FAIL"
    BY <1>7 DEF GiveUp, ViewFor, Control, StageControl, Running
  <2> QED
    BY <2>1 DEF ResultIndex, ForwardAnswer, InverseAnswer
(* A failure leads to retainwrite only right after the dispatch, and none  *)
(* of these points is there.                                               *)
<1>8. CASE HelperFails \/ PublishFails \/ StateAppendFails \/ DispatchRefused
  <2>1. pc' = Raised
    BY <1>8 DEF HelperFails, PublishFails, StateAppendFails, DispatchRefused, Raise
  <2>2. attempted /\ next = ResultIndex(phase)
    BY <2>1, RaisedControl
  <2>3. pc \in {"helper", "reading", "publish", "prepare", "preparepub", "dispatch",
                "outcome", "outcomepub", "verify", "verifypub"}
    BY <1>8 DEF HelperFails, PublishFails, StateAppendFails, DispatchRefused
  <2>4. StageControl
    BY DEF Control
  <2>5. CASE phase = "forward"
    BY <2>2, <2>3, <2>4, <2>5 DEF StageControl, Running, LastIndex, ResultIndex
  <2>6. CASE phase = "inverse"
    BY <2>2, <2>3, <2>4, <2>6 DEF StageControl, Running, LastIndex, ResultIndex
  <2> QED
    BY <2>5, <2>6 DEF Phases
<1>9. CASE PublishArtifact
  <2>1. pc = "publish" /\ pc' = AfterArtifact
    BY <1>9 DEF PublishArtifact
  <2>2. AfterArtifact = Raised
    BY <2>1, AfterPublish DEF Control, DispatchControl
  <2>3. attempted /\ next = ResultIndex(phase)
    BY <2>1, <2>2, RaisedControl
  <2> QED
    BY <2>1, <2>3 DEF Control, StageControl, Running, ResultIndex
<1>10. CASE StartForward \/ StartInverse \/ ReadFirstTables \/ AppendArtifact \/ Prepare
            \/ PublishIntent
            \/ Dispatch \/ RecordOutcome \/ PublishOutcome \/ RecordVerified
            \/ PublishVerified \/ RetainWrite \/ RetainWriteFails
            \/ RetainAppend \/ RetainOutcome \/ Qualify \/ Crash
  BY <1>10 DEF StartForward, StartInverse, ReadFirstTables, AppendArtifact, Prepare,
      PublishIntent, Dispatch, RecordOutcome, PublishOutcome, RecordVerified,
          PublishVerified, RetainWrite, RetainWriteFails, RetainAppend, RetainOutcome,
              Qualify, Crash
<1>11. CASE UNCHANGED adapterVars
  BY <1>0, <1>11 DEF adapterVars
<1> QED
  BY <1>2, <1>3, <1>4, <1>5, <1>6, <1>7, <1>8, <1>9, <1>10, <1>11
     DEF Next, AdapterNext, Continue, vars

LEMMA ReadingStep == IndInv /\ [Next]_vars => Reading'
<1> SUFFICES ASSUME IndInv, [Next]_vars, pc' = "reading"
             PROVE  next' \in {0, 4, 6, 10}
  BY DEF Reading
<1> TypeOK /\ Control /\ Reading
  BY DEF IndInv, Receipts
<1>1. CASE ReadFirstTables
  <2>1. next + 1 \in 1..12 /\ next' = next /\ Stage \in SnapshotStages
    BY <1>1 DEF ReadFirstTables, Control, StageControl, Running, LastIndex, TypeOK
  <2> QED
    BY <2>1, StagesDiffer DEF Stage, TypeOK
<1>2. CASE HelperFails \/ PublishFails \/ StateAppendFails \/ DispatchRefused
            \/ WriteArtifactFails \/ AppendArtifactFails
  BY <1>2, RaisedPC DEF HelperFails, PublishFails, StateAppendFails, DispatchRefused,
         WriteArtifactFails, AppendArtifactFails, Raise
<1>3. CASE PublishArtifact
  BY <1>3, RaisedPC DEF PublishArtifact, AfterArtifact
<1>4. CASE StartForward \/ StartInverse \/ ReadLastTables \/ RunLocalHelper
            \/ WriteArtifact \/ AppendArtifact
            \/ Prepare \/ PublishIntent \/ Dispatch \/ Reply \/ GiveUp \/ RecordOutcome
            \/ PublishOutcome \/ RecordVerified \/ PublishVerified \/ RetainWrite
            \/ RetainWriteFails \/ RetainAppend \/ RetainOutcome
            \/ Qualify \/ Crash
  BY <1>4 DEF StartForward, StartInverse, ReadLastTables, RunLocalHelper,
         WriteArtifact, AppendArtifact, Prepare, PublishIntent, Dispatch,
         Reply, GiveUp, RecordOutcome, PublishOutcome, RecordVerified,
         PublishVerified, RetainWrite, RetainWriteFails, RetainAppend, RetainOutcome, Qualify,
         Crash
<1>5. CASE UNCHANGED adapterVars
  BY <1>5 DEF adapterVars, Reading
<1> QED
  BY <1>1, <1>2, <1>3, <1>4, <1>5 DEF Next, AdapterNext, Continue, vars

(* The journal only becomes VERIFIED when all files of the phase exist.    *)
LEMMA VerifiedStep ==
    ASSUME IndInv, [Next]_vars
    PROVE  /\ jstate' = "NB_FORWARD_VERIFIED" => Exists("forward_checked")'
           /\ jstate' = "NB_INVERSE_VERIFIED" => Exists("inverse_checked")'
<1> TypeOK /\ Control /\ Bound /\ Receipts
  BY DEF IndInv
<1>0. \A s \in {"forward_checked", "inverse_checked"} : Exists(s) => Exists(s)'
  BY FilesKept DEF Stages
<1>1. CASE jstate' = jstate
  BY <1>0, <1>1 DEF Receipts
<1>2. CASE RecordVerified \/ (pc = "verify" /\ StateAppendFails)
  <2>1. pc = "verify" /\ next = LastIndex(phase) /\ jstate' \in {jstate, VERIFIED(phase)}
    BY <1>2 DEF RecordVerified, StateAppendFails, AppendFails, JournalState, Control,
                StageControl, Running
  <2>2. \A i \in 1..next : Exists(ALL_STAGES[i])
    BY <2>1 DEF Bound, Running
  <2>3. CASE phase = "forward"
    BY <1>0, <2>1, <2>2, <2>3, StageAt DEF LastIndex, VERIFIED, Receipts
  <2>4. CASE phase = "inverse"
    BY <1>0, <2>1, <2>2, <2>4, StageAt DEF LastIndex, VERIFIED, Receipts
  <2> QED
    BY <2>3, <2>4 DEF TypeOK, Phases
<1>3. CASE StartForward \/ Prepare \/ (pc # "verify" /\ StateAppendFails)
            \/ RecordOutcome \/ RetainOutcome \/ Qualify
  <2>1. jstate' = jstate \/ jstate' \in {"NB_ABSENT", INTENT(phase), COMMITTED(phase),
            AMBIGUOUS(phase)}
    BY <1>3 DEF StartForward, Prepare, StateAppendFails, AppendFails, JournalState,
                RecordOutcome, RetainOutcome, Qualify, AppendFails
  <2> QED
    BY <1>1, <2>1 DEF INTENT, COMMITTED, AMBIGUOUS
<1>4. CASE StartInverse \/ ReadFirstTables \/ ReadLastTables \/ RunLocalHelper
            \/ HelperFails \/ WriteArtifact
            \/ WriteArtifactFails \/ AppendArtifact \/ AppendArtifactFails
            \/ PublishArtifact \/ PublishFails \/ PublishIntent
            \/ Dispatch \/ DispatchRefused \/ Reply \/ GiveUp \/ PublishOutcome
            \/ PublishVerified
            \/ RetainWrite \/ RetainWriteFails \/ RetainAppend \/ Crash
  BY <1>1, <1>4 DEF StartInverse, ReadFirstTables, ReadLastTables, RunLocalHelper,
         HelperFails, WriteArtifact, WriteArtifactFails, AppendArtifact,
         AppendArtifactFails, PublishArtifact, PublishFails, PublishIntent,
         Dispatch, DispatchRefused, Reply, GiveUp, PublishOutcome,
         PublishVerified, RetainWrite, RetainWriteFails, RetainAppend, Crash, durable
<1>5. CASE UNCHANGED adapterVars
  BY <1>1, <1>5 DEF adapterVars
<1> QED
  BY <1>2, <1>3, <1>4, <1>5 DEF Next, AdapterNext, Continue, vars

(* What a file held, or what is written into it now, is a right answer.    *)
LEMMA FileAnswers ==
    ASSUME IndInv, [Next]_vars
    PROVE  /\ ForwardAnswer(file'["forward_result"])
           /\ ForwardAnswer(file'["forward_checked"])
           /\ InverseAnswer(file'["inverse_result"])
           /\ InverseAnswer(file'["inverse_checked"])
           /\ Exists("forward_checked")' => file'["forward_checked"].status = "PASS"
           /\ Exists("inverse_checked")' => file'["inverse_checked"].status = "PASS"
<1> TypeOK /\ Receipts
  BY DEF IndInv
<1> next \in 0..12 /\ file \in [Stages -> Content]
  BY DEF TypeOK
<1>1. CASE file' = file
  BY <1>1 DEF Receipts, Exists
<1>2. CASE /\ pc \in {"write", "retainwrite"}
           /\ next < 12
           /\ file' = [file EXCEPT ![Stage] = view]
  <2>1. next + 1 \in 1..12 /\ Stage = ALL_STAGES[next + 1]
    BY <1>2 DEF Stage
  <2>2. /\ Stage = "forward_result"  <=> next = 2
        /\ Stage = "forward_checked" <=> next = 3
        /\ Stage = "inverse_result"  <=> next = 8
        /\ Stage = "inverse_checked" <=> next = 9
    BY <2>1, StagesDiffer
  <2>3. Stage \in Stages
    BY <2>1, StageIndex
  <2>4. PendingView
    BY DEF Receipts
  <2>5. \A s \in Stages : file'[s] = IF s = Stage THEN view ELSE file[s]
    BY <1>2
  <2>6. {"forward_result", "forward_checked", "inverse_result",
            "inverse_checked"} \subseteq Stages
    BY DEF Stages
  <2> QED
    BY <1>2, <2>2, <2>4, <2>5, <2>6 DEF Receipts, PendingView, Exists
<1> QED
  BY <1>1, <1>2, FileStep

LEMMA ReceiptsStep == IndInv /\ [Next]_vars => Receipts'
<1> SUFFICES ASSUME IndInv, [Next]_vars PROVE Receipts'
  OBVIOUS
<1>1. /\ ForwardAnswer(file["forward_result"])'
      /\ ForwardAnswer(file["forward_checked"])'
      /\ InverseAnswer(file["inverse_result"])'
      /\ InverseAnswer(file["inverse_checked"])'
  BY FileAnswers, AnswersStay DEF ForwardAnswer, InverseAnswer
<1> QED
  BY <1>1, FileAnswers, PendingViewStep, ReadingStep, VerifiedStep DEF Receipts

-----------------------------------------------------------------------------
(* The theorems.                                                           *)

LEMMA Inductive == Spec => []IndInv
<1>1. Init => IndInv
  BY TypeInit, ControlInit, BoundInit, DatabaseInit, ReceiptsInit DEF IndInv
<1>2. IndInv /\ [Next]_vars => IndInv'
  BY TypeStep, ControlStep, BoundStep, DatabaseStep, ReceiptsStep DEF IndInv
<1> QED
  BY <1>1, <1>2, PTL DEF Spec

(* Every variable keeps its type, the stage index never leaves the twelve  *)
(* stages, and a journal never binds more than twelve artifacts.           *)
THEOREM TypeCorrect == Spec => []TypeOK
BY Inductive, PTL DEF IndInv

(* Whatever fails, crashes or is restarted, each phase of a run hands at   *)
(* most one transaction to the database.                                   *)
THEOREM AtMostOneDispatch == Spec => []NoReissue
BY Inductive, PTL DEF IndInv, Control

(* A transaction that was handed over is announced by a durable state.     *)
THEOREM AnnouncedBeforeDispatch == Spec => []IntentIsDurable
BY Inductive, PTL DEF IndInv, Control

(* The journal never names a file that is not durable.                     *)
THEOREM JournalIsBacked == Spec => []JournalBindsFiles
BY Inductive, PTL DEF IndInv, Bound

(* A forward that the journal calls verified is in the database, under the *)
(* UUIDs of the checked receipt.                                           *)
LEMMA VerifiedBuilt == IndInv => ForwardVerifiedIsBuilt
<1> SUFFICES ASSUME IndInv, jstate = "NB_FORWARD_VERIFIED"
             PROVE  rows # 0 /\ Inserted = rows /\ client["forward"].st = "applied"
  BY DEF ForwardVerifiedIsBuilt
<1>1. client["forward"].st = "applied" /\ Inserted = 1
  BY DEF IndInv, Receipts, ForwardAnswer, Inserted
<1>2. dispatches["inverse"] = 0
  BY DEF IndInv, TypeOK, Phases, Control, IntentIsDurable, InverseStates
<1>3. client["inverse"].st = "none"
  BY <1>2 DEF IndInv, Database, Phases
<1> QED
  BY <1>1, <1>3 DEF IndInv, Database

THEOREM VerifiedIsTrue == Spec => []ForwardVerifiedIsBuilt
BY Inductive, VerifiedBuilt, PTL

(* An inverse that the journal calls verified is final: the rows are gone  *)
(* and no client is left that could create them again.                     *)
LEMMA VerifiedClean == IndInv => InverseVerifiedIsClean
<1> SUFFICES ASSUME IndInv, jstate = "NB_INVERSE_VERIFIED"
             PROVE  rows = 0 /\ \A p \in Phases : client[p].st # "running"
  BY DEF InverseVerifiedIsClean
<1>1. client["inverse"].st = "applied"
  BY DEF IndInv, Receipts, InverseAnswer
<1> QED
  BY <1>1 DEF IndInv, Database, Phases

THEOREM CleanIsFinal == Spec => []InverseVerifiedIsClean
BY Inductive, VerifiedClean, PTL

(* The rows are only deleted by the inverse, in its own journal states,    *)
(* and under the UUIDs that the checked receipt names.                     *)
THEOREM DeletesOnlyVerified == Spec => DeletesOnlyVerifiedRows
<1>1. IndInv /\ [Next]_vars =>
        (rows # 0 /\ rows' # rows => rows' = 0 /\ Inserted = rows /\ jstate \in InverseStates)
  <2> SUFFICES ASSUME IndInv, [Next]_vars, rows # 0, rows' # rows
               PROVE  rows' = 0 /\ Inserted = rows /\ jstate \in InverseStates
    OBVIOUS
  <2>1. NorthboundNext
    BY WhoMovesTheDatabase DEF nbVars, Dispatch
  <2>2. CommitForward \/ CommitInverse
    BY <2>1 DEF NorthboundNext, ServerStep, Refuse, LoseClient, ForeignWrite
  <2>3. ~CommitForward
    BY DEF CommitForward, ForwardGuard
  <2>4. /\ client["inverse"].st = "running"
        /\ rows' = 0
        /\ rows = client["inverse"].rows
    BY <2>2, <2>3 DEF CommitInverse, InverseGuard
  <2>5. dispatches["inverse"] > 0
    BY <2>4 DEF IndInv, TypeOK, Phases, Database
  <2> QED
    BY <2>4, <2>5 DEF IndInv, Control, IntentIsDurable, Database
<1> QED
  BY <1>1, Inductive, PTL DEF Spec, DeletesOnlyVerifiedRows

-----------------------------------------------------------------------------
(* The refinement.                                                         *)

(* How the journal state may move in one step. *)
LEMMA JournalStep ==
    ASSUME IndInv, [Next]_vars
    PROVE  \/ jstate' = jstate
           \/ /\ UNCHANGED <<nbVars, dispatches>>
              /\ \/ jstate = "NONE" /\ jstate' = "NB_ABSENT"
                 \/ Running /\ ~attempted /\ jstate' = INTENT(phase)
                 \/ /\ Running /\ attempted
                    /\ jstate' \in {COMMITTED(phase), AMBIGUOUS(phase), VERIFIED(phase)}
<1> StageControl
  BY DEF IndInv, Control
<1>1. CASE StartForward
  BY <1>1 DEF StartForward
<1>2. CASE Prepare
  BY <1>2 DEF Prepare, JournalState, StageControl, Running
<1>3. CASE RecordOutcome \/ RecordVerified
  BY <1>3 DEF RecordOutcome, RecordVerified, JournalState, StageControl, Running, LatePCs
<1>4. CASE StateAppendFails
  BY <1>4 DEF StateAppendFails, AppendFails, StageControl, Running, LatePCs
<1>5. CASE RetainOutcome \/ Qualify
  BY <1>5 DEF RetainOutcome, Qualify, AppendFails, StageControl, Running, LatePCs
<1>6. CASE StartInverse \/ ReadFirstTables \/ ReadLastTables \/ RunLocalHelper
            \/ HelperFails \/ WriteArtifact
            \/ WriteArtifactFails \/ AppendArtifact \/ AppendArtifactFails
            \/ PublishArtifact \/ PublishFails \/ PublishIntent
            \/ Dispatch \/ DispatchRefused \/ Reply \/ GiveUp \/ PublishOutcome
            \/ PublishVerified
            \/ RetainWrite \/ RetainWriteFails \/ RetainAppend \/ Crash
  BY <1>6 DEF StartInverse, ReadFirstTables, ReadLastTables, RunLocalHelper,
         HelperFails, WriteArtifact, WriteArtifactFails, AppendArtifact,
         AppendArtifactFails, PublishArtifact, PublishFails, PublishIntent,
         Dispatch, DispatchRefused, Reply, GiveUp, PublishOutcome,
         PublishVerified, RetainWrite, RetainWriteFails, RetainAppend, Crash, durable
<1>7. CASE UNCHANGED adapterVars
  BY <1>7 DEF adapterVars
<1> QED
  BY <1>1, <1>2, <1>3, <1>4, <1>5, <1>6, <1>7 DEF Next, AdapterNext, Continue, vars

LEMMA ChangeInit == Init => Change!ChangeInit
BY DEF Init, NorthboundInit, Change!ChangeInit, Life, InverseStates, Phases

LEMMA ChangeStep ==
    IndInv /\ IndInv' /\ [Next]_vars => [Change!ChangeNext]_(Change!changeVars)
<1> SUFFICES ASSUME IndInv, IndInv', [Next]_vars
             PROVE  Change!ChangeNext \/ UNCHANGED Change!changeVars
  OBVIOUS
<1> DEFINE db == IF rows = 0 THEN "clean" ELSE "built"
           forward == Life("forward", jstate \notin {"NONE", "NB_ABSENT"})
           undo == Life("inverse", jstate \in InverseStates)
           verdict == CASE jstate = "NB_FORWARD_VERIFIED" -> "built"
                        [] jstate = "NB_INVERSE_VERIFIED" -> "clean"
                        [] OTHER -> "none"
<1> TypeOK /\ Control /\ Database
  BY DEF IndInv
<1> client \in [Phases -> Client] /\ dispatches \in [Phases -> Nat] /\ phase \in Phases
  BY DEF TypeOK, NorthboundTypeOK
<1>1. CASE jstate' = jstate /\ UNCHANGED nbVars
  BY <1>1 DEF nbVars, Change!changeVars, Life
<1>2. CASE jstate' # jstate /\ UNCHANGED <<nbVars, dispatches>>
  <2>0. UNCHANGED <<rows, insertions, client>>
    BY <1>2 DEF nbVars
  <2>1. CASE jstate = "NONE" /\ jstate' = "NB_ABSENT"
    BY <2>0, <2>1 DEF Change!changeVars, Life, InverseStates
  <2>2. CASE Running /\ ~attempted /\ jstate' = INTENT(phase)
    <3>1. client[phase].st = "none"
      BY <2>2 DEF DispatchControl, Control, Database
    <3>2. CASE phase = "forward"
      <4>1. jstate \in {"NB_ABSENT"} \cup ForwardStates
        BY <2>2, <3>2 DEF Control, ForwardControl
      <4> QED
        BY <2>0, <2>2, <3>1, <3>2, <4>1 DEF INTENT, ForwardStates, InverseStates, Life,
           Change!ChangeNext, Change!AnnounceForward, Change!Doubt, Change!changeVars
    <3>3. CASE phase = "inverse"
      <4>1. jstate \in {"NB_FORWARD_VERIFIED"} \cup InverseStates
        BY <2>2, <3>3 DEF Control, InverseControl
      <4> QED
        BY <2>0, <2>2, <3>1, <3>3, <4>1 DEF INTENT, InverseStates, Life,
           Change!ChangeNext, Change!AnnounceUndo, Change!Doubt, Change!changeVars
    <3> QED
      BY <3>2, <3>3 DEF Phases
  <2>3. CASE /\ Running /\ attempted
             /\ jstate' \in {COMMITTED(phase), AMBIGUOUS(phase), VERIFIED(phase)}
    <3>1. client[phase].st # "none"
      BY <2>3 DEF DispatchControl, Control, Database
    <3>2. ForwardVerifiedIsBuilt' /\ InverseVerifiedIsClean'
      BY VerifiedBuilt, VerifiedClean, PTL
    <3>3. CASE phase = "forward"
      <4>1. jstate \in {"NB_ABSENT"} \cup ForwardStates /\ client["inverse"].st = "none"
        BY <2>3, <3>3 DEF Control, ForwardControl, Database, Phases
      <4> QED
        BY <2>0, <2>3, <3>1, <3>2, <3>3, <4>1 DEF COMMITTED, AMBIGUOUS, VERIFIED,
           ForwardStates, InverseStates, Life, ForwardVerifiedIsBuilt,
           Change!ChangeNext, Change!ConfirmBuilt, Change!Doubt
    <3>4. CASE phase = "inverse"
      <4>1. jstate \in {"NB_FORWARD_VERIFIED"} \cup InverseStates
        BY <2>3, <3>4 DEF Control, InverseControl
      <4>2. jstate' = "NB_INVERSE_VERIFIED" => client["inverse"].st = "applied"
        BY <2>0 DEF IndInv, Receipts, InverseAnswer
      <4> QED
        BY <2>0, <2>3, <3>1, <3>2, <3>4, <4>1, <4>2 DEF COMMITTED, AMBIGUOUS, VERIFIED,
           InverseStates, Life, InverseVerifiedIsClean,
           Change!ChangeNext, Change!ConfirmClean, Change!Doubt
    <3> QED
      BY <3>3, <3>4 DEF Phases
  <2> QED
    BY <1>2, <2>1, <2>2, <2>3, JournalStep
<1>3. CASE Dispatch
  <2>1. pc = "dispatch" /\ jstate' = jstate /\ UNCHANGED <<rows, insertions>>
    BY <1>3 DEF Dispatch, durable
  <2>2. client[phase].st = "none" /\ jstate = INTENT(phase)
    BY <2>1 DEF Control, DispatchControl, StageControl, Running, Database
  <2>3. CASE phase = "forward"
    BY <1>3, <2>1, <2>2, <2>3 DEF Dispatch, Hand, INTENT, Life, Change!ChangeNext,
        Change!HandForward, Phases
  <2>4. CASE phase = "inverse"
    BY <1>3, <2>1, <2>2, <2>4 DEF Dispatch, Hand, INTENT, InverseStates, Life,
        Change!ChangeNext, Change!HandUndo, Phases
  <2> QED
    BY <2>3, <2>4 DEF Phases
<1>4. CASE NorthboundNext /\ UNCHANGED adapterVars
  <2>0. jstate' = jstate
    BY <1>4 DEF adapterVars
  <2>1. CASE CommitForward
    <3>1. /\ client["forward"].st = "running" /\ client'["forward"].st = "applied"
          /\ client'["inverse"] = client["inverse"]
      BY <2>1 DEF CommitForward, Phases
    <3>2. /\ rows = 0 /\ rows' # 0
          /\ insertions < MaxInsertions /\ insertions' = insertions + 1
      BY <2>1 DEF CommitForward, ForwardGuard, TypeOK, NorthboundTypeOK
    <3> QED
      BY <2>0, <3>1, <3>2 DEF Life, Change!ChangeNext, Change!ApplyForward
  <2>2. CASE CommitInverse
    BY <2>0, <2>2 DEF CommitInverse, InverseGuard, Life, Change!ChangeNext,
        Change!ApplyUndo, Phases
  <2>3. ASSUME NEW p \in Phases, Refuse(p) \/ LoseClient(p)
        PROVE  Change!ChangeNext
    <3>1. /\ client[p].st = "running" /\ client'[p].st \in {"refused", "gone"}
          /\ \A q \in Phases \ {p} : client'[q] = client[q]
          /\ UNCHANGED <<rows, insertions>>
      <4>1. CASE Refuse(p)
        BY <4>1 DEF Refuse, Client
      <4>2. CASE LoseClient(p)
        BY <4>2 DEF LoseClient, Client
      <4> QED
        BY <2>3, <4>1, <4>2
    <3>2. CASE p = "forward"
      BY <2>0, <3>1, <3>2 DEF Life, Change!ChangeNext, Change!Lose, Phases
    <3>3. CASE p = "inverse"
      BY <2>0, <3>1, <3>3 DEF Life, Change!ChangeNext, Change!Lose, Phases
    <3> QED
      BY <3>2, <3>3 DEF Phases
  <2>4. CASE ForeignWrite
    BY <2>0, <2>4 DEF ForeignWrite, Life, Change!changeVars
  <2> QED
    BY <1>4, <2>1, <2>2, <2>3, <2>4 DEF NorthboundNext, ServerStep
<1> QED
  BY <1>1, <1>2, <1>3, <1>4, WhoMovesTheDatabase

(* The adapter with its files, failures and crashes implements the         *)
(* abstract change: announced first, made at most once, verified only when *)
(* it is there, undone only after that.                                    *)
THEOREM Refinement == Spec => ChangeSpec
<1>1. Init => Change!ChangeInit
  BY ChangeInit
<1>2. IndInv /\ IndInv' /\ [Next]_vars => [Change!ChangeNext]_(Change!changeVars)
  BY ChangeStep
<1> QED
  BY <1>1, <1>2, Inductive, PTL DEF Spec, ChangeSpec, Change!ChangeSpec
=============================================================================

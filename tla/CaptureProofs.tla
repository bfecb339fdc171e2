---------------------------- MODULE CaptureProofs ----------------------------
(***************************************************************************)
(* Proofs about the runtime builder and its capture session, for any       *)
(* number of capture points, either datapath and any foreign things.  The  *)
(* inductive invariant has five parts:                                     *)
(*   Shape   the shape of the state;                                       *)
(*   Flow    which states of the builder and of the session go with each   *)
(*           step of the code;                                             *)
(*   Cover   where the marker is missing, nothing exists;                  *)
(*   Count   an intent without its readback belongs to the step under way; *)
(*   Files   a passing packet verdict has seen every capture point.        *)
(***************************************************************************)
EXTENDS Capture, FiniteSetTheorems, TLAPS

Finals == {"f-m03", "f-release", "f-remove", "f-unlink", "f-complete"}
Checkpoints == {"k-intent", "k-marker", "k-complete"}
Starting == {"c-spawn", "c-prove", "c-wait", "c-started"}
Labels == {"ready", "marker-dir", "marker-intent", "build", "verify", "marker-built",
           "compensate", "absence", "c-stop"} \cup Finals \cup Checkpoints \cup Starting

Shape ==
    /\ pc \in Labels
    /\ at \in {"check", "act", "outcome", "readback"}
    /\ pc \notin EffectPhases => at = "check"
    /\ resume \in {"ready", "c-wait"}
    /\ pc \notin Checkpoints => resume = "ready"
    /\ unknown \in BOOLEAN
    /\ journal \in [intents : Nat, outcomes : Nat, readbacks : Nat]
    /\ child \in [Points -> {"none", "alive", "exited", "reaped"}]
    /\ pcap \in [Points -> {"none", "active", "retained"}]
    /\ ready \in Nat

Compensation == {"COMPENSATING", "COMPENSATED", "X05_CLEANED"}

Flow ==
    /\ pc \in {"marker-dir", "marker-intent"} => state = "ADMITTED"
    /\ pc \in {"build", "verify", "marker-built"} => state = "INTENT"
    /\ pc \in {"compensate", "absence"} => state = "COMPENSATING" /\ ~unknown
    /\ pc \in Finals => state = "COMPENSATED" /\ ~unknown /\ packet = "PASS"
    /\ state = "ADMITTED" =>
         capture = "none" /\ pc \in {"ready", "marker-dir", "marker-intent"}
    /\ state \in Compensation =>
         CapturesStopped /\ pc \notin Checkpoints \cup Starting \cup {"c-stop"}
    /\ pc \in Starting \/ resume = "c-wait" => capture = "STARTING"
    /\ capture = "STOPPED" => Unreaped = {}

Covered == marker[1] \in {"INTENT", "BUILT"}
Nothing == (\A t \in Things : ~Exists(t)) /\ late = NoEffect /\ Unreaped = {}

Cover ==
    /\ late # NoEffect => state \in {"FAILED", "CLEANUP_FAILED"}
    /\ state \in {"INTENT", "BUILT", "COMPENSATING"} => Covered
    /\ pc = "marker-intent" /\ at \in {"outcome", "readback"} => Covered
    /\ state \in {"ADMITTED", "COMPENSATED", "X05_CLEANED"} => Nothing
    /\ Covered \/ Nothing

Pending == (pc \in EffectPhases /\ at # "check") \/ pc \in {"k-marker", "k-complete"}

Count ==
    /\ ~unknown => journal.intents = journal.readbacks + (IF Pending THEN 1 ELSE 0)
    /\ state \in {"COMPENSATED", "X05_CLEANED"} => journal.intents = journal.readbacks

Files ==
    /\ \E n \in 0 .. CapturePoints :
         /\ Handles = 1 .. n
         /\ ready <= n
         /\ pc = "c-spawn" => n < CapturePoints
         /\ pc \in {"c-prove", "c-wait"} \/ resume = "c-wait" => ready < n
    /\ \A i \in Handles : pcap[i] # "none"
    /\ packet = "PASS" => ready = CapturePoints
    /\ pc \in {"f-remove", "f-unlink", "f-complete"} => \A i \in Points : pcap[i] # "active"
    /\ pc = "f-unlink" => removal = "intent"

-----------------------------------------------------------------------------
LEMMA InitHolds == Init => Shape /\ Flow /\ Cover /\ Count /\ Files
<1> SUFFICES ASSUME Init PROVE Shape /\ Flow /\ Cover /\ Count /\ Files
  OBVIOUS
<1>1. Unreaped = {} /\ Handles = 1 .. 0
  BY DEF Init, Unreaped, Handles, Points
<1>2. Shape
  BY DEF Init, RuntimeInit, Shape, Labels, EffectPhases, Checkpoints, Starting, Finals
<1>3. Flow
  BY <1>1 DEF Init, RuntimeInit, Flow, Compensation, Finals, Checkpoints, Starting
<1>4. Cover
  BY <1>1 DEF Init, RuntimeInit, Cover, Covered, Nothing, Exists
<1>5. Count
  BY DEF Init, RuntimeInit, Count, Pending, EffectPhases
<1>6. Files
  BY <1>1, PointsAssumption DEF Init, RuntimeInit, Files
<1> QED
  BY <1>2, <1>3, <1>4, <1>5, <1>6

(* The steps of the session's own code, without the release of the files.  *)
SessionStep ==
    \/ CheckpointIntent \/ ReplaceMarker \/ CheckpointComplete \/ CheckpointFails
    \/ Spawn \/ SpawnFails \/ Prove \/ ProveFails \/ Ready \/ NotReady \/ Started
    \/ Reap \/ StopDone \/ Attach \/ Start \/ Stop

ReleaseStep == RetentionIntent \/ Retain \/ Released \/ RetentionFails

(* What goes on around the process. *)
OutsideStep == LateEffect \/ Northd \/ MovePort \/ Interfere

LEMMA StepCases ==
    ASSUME Next
    PROVE  \/ BuilderStep /\ UNCHANGED captureVars
           \/ (Build \/ Compensate \/ Finalize) /\ UNCHANGED captureVars
           \/ OutsideStep /\ UNCHANGED captureVars
           \/ SessionStep \/ ReleaseStep \/ ChildExits
  BY DEF Next, RuntimeNext, CaptureStep, OutsideStep, SessionStep, ReleaseStep

LEMMA JournalShape ==
    ASSUME Shape, NEW kind \in {"intents", "outcomes", "readbacks"},
           Recorded(kind) \/ NotRecorded(kind)
    PROVE  journal' \in [intents : Nat, outcomes : Nat, readbacks : Nat]
<1>1. journal' = journal \/ journal' = [journal EXCEPT ![kind] = @ + 1]
  BY DEF Recorded, NotRecorded
<1> QED
  BY <1>1 DEF Shape

LEMMA AbortShape ==
    ASSUME Shape, Abort, UNCHANGED <<resume, child, pcap, ready>>,
           pc \notin Checkpoints,
           journal' \in [intents : Nat, outcomes : Nat, readbacks : Nat]
    PROVE  Shape'
  BY DEF Shape, Abort, Labels, EffectPhases, Checkpoints, Starting, Finals

(* A step that goes to another place of the code. *)
LEMMA GotoShape ==
    ASSUME Shape, pc' \in Labels, at' \in {"check", "act", "outcome", "readback"},
           pc' \notin EffectPhases => at' = "check",
           pc' \notin Checkpoints, resume' = "ready", unknown' \in BOOLEAN,
           journal' \in [intents : Nat, outcomes : Nat, readbacks : Nat],
           UNCHANGED <<child, pcap, ready>>
    PROVE  Shape'
  BY DEF Shape

LEMMA ShapeStep == Shape /\ [Next]_vars => Shape'
<1> SUFFICES ASSUME Shape, [Next]_vars PROVE Shape'
  OBVIOUS
<1> USE DEF labVars, diskVars, builderVars, flowVars, captureView, runtimeVars, captureVars
<1>1. CASE UNCHANGED vars
  BY <1>1 DEF vars, Shape
<1>2. CASE OutsideStep /\ UNCHANGED captureVars
  BY <1>2 DEF OutsideStep, LateEffect, Northd, MovePort, Interfere, Shape
<1>3. CASE (Build \/ Compensate \/ Finalize) /\ UNCHANGED captureVars
  BY <1>3 DEF Build, Compensate, Finalize, Abort, Labels, EffectPhases, Checkpoints, Starting,
     Finals, Shape
<1>4. CASE BuilderStep /\ UNCHANGED captureVars
  <2> USE DEF EffectPhases, Checkpoints
  <2>1. CASE Announce
    BY <1>4, <2>1, JournalShape, GotoShape DEF Announce, Shape
  <2>2. CASE AnnounceFails
    BY <1>4, <2>2, JournalShape, AbortShape DEF AnnounceFails
  <2>3. CASE Dispatch
    BY <1>4, <2>3, GotoShape DEF Dispatch, Shape
  <2>4. CASE DispatchLost
    BY <1>4, <2>4, JournalShape, AbortShape DEF DispatchLost
  <2>5. CASE Outcome
    <3>1. journal' \in [intents : Nat, outcomes : Nat, readbacks : Nat]
      BY <2>5, JournalShape DEF Outcome
    <3>2. CASE Abort
      BY <1>4, <2>5, <3>1, <3>2, AbortShape DEF Outcome
    <3>3. CASE at' = "readback" /\ UNCHANGED <<pc, unknown>>
      BY <1>4, <2>5, <3>1, <3>3, GotoShape DEF Outcome, Shape
    <3> QED
      BY <2>5, <3>2, <3>3 DEF Outcome
  <2>6. CASE Readback
    BY <1>4, <2>6, JournalShape, GotoShape DEF Readback, Advance, Labels, Shape
  <2>7. CASE ReadbackFails
    BY <1>4, <2>7, JournalShape, AbortShape DEF ReadbackFails
  <2>8. CASE Poll
    <3>1. CASE Abort
      BY <1>4, <2>8, <3>1, AbortShape DEF Poll, Shape
    <3>2. CASE Advance /\ UNCHANGED unknown
      BY <1>4, <2>8, <3>2, GotoShape DEF Poll, Advance, Labels, Shape
    <3> QED
      BY <2>8, <3>1, <3>2 DEF Poll
  <2>9. CASE WriteMarker
    BY <1>4, <2>9, GotoShape DEF WriteMarker, Shape
  <2>10. CASE WriteMarkerFails
    BY <1>4, <2>10, AbortShape DEF WriteMarkerFails, Shape
  <2>11. CASE MarkerVerified
    BY <1>4, <2>11, JournalShape, GotoShape DEF MarkerVerified, Labels, Shape
  <2>12. CASE Verify \/ FinalAbsence \/ RemoveIntent \/ Unlink \/ Complete
    <3>1. CASE Abort
      BY <1>4, <2>12, <3>1, AbortShape DEF Verify, FinalAbsence, RemoveIntent, Unlink, Complete,
         Shape
    <3>2. CASE ~Abort
      BY <1>4, <2>12, <3>2, GotoShape DEF Verify, FinalAbsence, RemoveIntent, Unlink, Complete,
         Shape, Labels, Finals
    <3> QED
      BY <3>1, <3>2
  <2>13. CASE VerifyM03
    <3>1. journal' \in [intents : Nat, outcomes : Nat, readbacks : Nat]
      BY <2>13, JournalShape DEF VerifyM03
    <3>2. CASE Abort
      BY <1>4, <2>13, <3>1, <3>2, AbortShape DEF VerifyM03
    <3>3. CASE ~Abort
      BY <1>4, <2>13, <3>1, <3>3, GotoShape DEF VerifyM03, Shape, Labels, Finals
    <3> QED
      BY <3>2, <3>3
  <2> QED
    BY <1>4, <2>1, <2>2, <2>3, <2>4, <2>5, <2>6, <2>7, <2>8, <2>9, <2>10, <2>11, <2>12, <2>13
       DEF BuilderStep
<1>5. CASE SessionStep
  <2> USE DEF Labels, EffectPhases, Checkpoints, Starting, Finals
  <2>1. CASE CheckpointIntent
    <3>1. journal' \in [intents : Nat, outcomes : Nat, readbacks : Nat]
      BY <2>1, JournalShape DEF CheckpointIntent
    <3> QED
      BY <2>1, <3>1 DEF CheckpointIntent, Shape
  <2>2. CASE ReplaceMarker
    BY <2>2 DEF ReplaceMarker, Shape
  <2>3. CASE CheckpointComplete
    <3>1. journal' \in [intents : Nat, outcomes : Nat, readbacks : Nat]
      BY <2>3, JournalShape DEF CheckpointComplete
    <3> QED
      BY <2>3, <3>1 DEF CheckpointComplete, Shape
  <2>4. CASE CheckpointFails
    <3>1. journal' \in [intents : Nat, outcomes : Nat, readbacks : Nat]
      BY <2>4, JournalShape DEF CheckpointFails, Shape
    <3> QED
      BY <2>4, <3>1 DEF CheckpointFails, Shape
  <2>5. CASE Spawn \/ SpawnFails
    BY <2>5 DEF Spawn, SpawnFails, StartFails, Shape
  <2>6. CASE Prove \/ Started
    BY <2>6 DEF Prove, Started, Checkpoint, Shape
  <2>7. CASE ProveFails
    BY <2>7 DEF ProveFails, StartFails, Shape
  <2>8. CASE NotReady
    BY <2>8 DEF NotReady, StartFails, Shape
  <2>9. CASE Ready
    BY <2>9 DEF Ready, Shape
  <2>10. CASE Reap
    BY <2>10 DEF Reap, Shape
  <2>11. CASE StopDone \/ Attach \/ Start \/ Stop
    BY <2>11 DEF StopDone, Attach, Start, Stop, Checkpoint, Shape
  <2> QED
    BY <1>5, <2>1, <2>2, <2>3, <2>4, <2>5, <2>6, <2>7, <2>8, <2>9, <2>10, <2>11 DEF SessionStep
<1>6. CASE ReleaseStep
  <2>1. CASE Abort
    BY <1>6, <2>1, AbortShape DEF ReleaseStep, RetentionIntent, Retain, Released, RetentionFails,
       Checkpoints, Shape
  <2>2. CASE ~Abort
    BY <1>6, <2>2 DEF ReleaseStep, RetentionIntent, Retain, Released, RetentionFails, Labels,
       EffectPhases, Checkpoints, Finals, Shape
  <2> QED
    BY <2>1, <2>2
<1>7. CASE ChildExits
  BY <1>7 DEF ChildExits, Shape
<1> QED
  BY <1>1, <1>2, <1>3, <1>4, <1>5, <1>6, <1>7, StepCases

-----------------------------------------------------------------------------
(* A step that leaves the children alone, or reaps or loses one, leaves no *)
(* new one to be reaped.                                                   *)
LEMMA UnreapedSame == ASSUME child' = child PROVE Unreaped' = Unreaped /\ Handles' = Handles
  BY DEF Unreaped, Handles, Points

LEMMA UnreapedLess ==
    ASSUME Shape, Reap \/ ChildExits
    PROVE  Unreaped' \subseteq Unreaped /\ Handles' = Handles
<1>1. \A i \in Points : child'[i] # child[i]
         => child[i] \in {"alive", "exited"} /\ child'[i] \in {"exited", "reaped"}
  BY DEF Reap, ChildExits, Unreaped, Shape
<1> QED
  BY <1>1 DEF Unreaped, Handles, Shape

(* The operation ends with an exception. *)
LEMMA FlowAbort ==
    ASSUME Flow, Abort, child' = child,
           UNCHANGED <<captureView, resume>>, resume = "ready"
    PROVE  Flow'
  BY UnreapedSame DEF Flow, Abort, Compensation, Finals, Checkpoints, Starting, captureView

(* The labels of the session's code keep off the states of compensation. *)
InSession == pc \in Checkpoints \cup Starting \cup {"c-stop"}

LEMMA FlowSession ==
    ASSUME Shape, Flow,
           InSession \/ (pc = "ready" /\ capture # "none" /\ state \notin Compensation),
           InSession' \/ pc' = "ready",
           state' = state,
           pc' \in Starting \/ resume' = "c-wait" => capture' = "STARTING",
           capture' = "STOPPED" => Unreaped' = {}
    PROVE  Flow'
  BY DEF Shape, Flow, InSession, Compensation, Finals, Checkpoints, Starting

LEMMA FlowStep == Shape /\ Flow /\ [Next]_vars => Flow'
<1> SUFFICES ASSUME Shape, Flow, [Next]_vars PROVE Flow'
  OBVIOUS
<1> USE DEF labVars, diskVars, builderVars, flowVars, captureView, runtimeVars, captureVars
<1>1. CASE UNCHANGED vars
  BY <1>1, UnreapedSame DEF vars, Flow, CapturesStopped
<1>2. CASE OutsideStep /\ UNCHANGED captureVars
  BY <1>2, UnreapedSame DEF OutsideStep, LateEffect, Northd, MovePort, Interfere, Flow,
     CapturesStopped
<1>3. CASE (Build \/ Compensate \/ Finalize) /\ UNCHANGED captureVars
  <2>1. resume = "ready"
    BY <1>3 DEF Build, Compensate, Finalize, Shape, Checkpoints
  <2>2. CASE Build
    BY <1>3, <2>1, <2>2, UnreapedSame DEF Build, Flow, Compensation, Finals, Checkpoints, Starting
  <2>3. CASE Compensate
    BY <1>3, <2>1, <2>3, UnreapedSame DEF Compensate, Flow, Compensation, Finals, Checkpoints,
       Starting, CapturesStopped
  <2>4. CASE Finalize
    <3>1. CASE Abort
      BY <1>3, <2>1, <2>4, <3>1, FlowAbort DEF Finalize
    <3>2. CASE ~Abort
      BY <1>3, <2>1, <2>4, <3>2, UnreapedSame DEF Finalize, Flow, Compensation, Finals,
         Checkpoints, Starting, CapturesStopped
    <3> QED
      BY <3>1, <3>2
  <2> QED
    BY <1>3, <2>2, <2>3, <2>4
<1>4. CASE BuilderStep /\ UNCHANGED captureVars
  <2> USE DEF EffectPhases, Compensation, Finals, Checkpoints, Starting
  <2>1. resume = "ready"
    BY <1>4 DEF BuilderStep, Announce, AnnounceFails, Dispatch, DispatchLost, Outcome, Readback,
       ReadbackFails, Poll, WriteMarker, WriteMarkerFails, MarkerVerified, Verify, FinalAbsence,
       VerifyM03, RemoveIntent, Unlink, Complete, Shape
  <2>2. Unreaped' = Unreaped
    BY <1>4, UnreapedSame
  <2>3. CASE Abort
    <3>1. UNCHANGED captureView
      BY <1>4, <2>3 DEF BuilderStep, Announce, AnnounceFails, Dispatch, DispatchLost, Outcome,
         Readback, ReadbackFails, Poll, WriteMarker, WriteMarkerFails, MarkerVerified, Verify,
         FinalAbsence, VerifyM03, RemoveIntent, Unlink, Complete
    <3> QED
      BY <1>4, <2>1, <2>3, <3>1, FlowAbort
  <2>4. CASE Announce \/ Dispatch \/ WriteMarker \/ (Outcome /\ ~Abort)
    <3>1. UNCHANGED <<pc, state, unknown, captureView>>
      BY <2>4 DEF Announce, Dispatch, WriteMarker, Outcome
    <3> QED
      BY <1>4, <2>2, <3>1 DEF Flow, CapturesStopped
  <2>5. CASE Readback \/ (Poll /\ ~Abort)
    <3>1. /\ \/ pc' = pc
             \/ pc = "build" /\ pc' = "verify"
             \/ pc = "compensate" /\ pc' = "absence"
          /\ UNCHANGED <<state, unknown, captureView>>
      BY <2>5 DEF Readback, Poll, Advance
    <3> QED
      BY <1>4, <2>1, <2>2, <3>1 DEF Flow, CapturesStopped
  <2>6. CASE MarkerVerified
    BY <1>4, <2>1, <2>2, <2>6 DEF MarkerVerified, Flow, CapturesStopped
  <2>7. CASE Verify /\ ~Abort
    BY <1>4, <2>1, <2>2, <2>7 DEF Verify, Flow, CapturesStopped
  <2>8. CASE FinalAbsence /\ ~Abort
    BY <1>4, <2>1, <2>2, <2>8 DEF FinalAbsence, Flow, CapturesStopped
  <2>9. CASE (VerifyM03 \/ RemoveIntent \/ Unlink \/ Complete) /\ ~Abort
    BY <1>4, <2>1, <2>2, <2>9 DEF VerifyM03, RemoveIntent, Unlink, Complete, Flow, CapturesStopped
  <2> QED
    BY <1>4, <2>3, <2>4, <2>5, <2>6, <2>7, <2>8, <2>9 DEF BuilderStep, AnnounceFails,
       DispatchLost, ReadbackFails, WriteMarkerFails
<1>5. CASE SessionStep
  <2> USE DEF InSession, Checkpoints, Starting
  <2>1. CASE Attach
    BY <2>1, UnreapedSame DEF Attach, Checkpoint, Flow, Compensation, Finals, Shape
  <2>2. CASE CheckpointIntent \/ ReplaceMarker
    BY <2>2, UnreapedSame, FlowSession DEF CheckpointIntent, ReplaceMarker, Flow
  <2>3. CASE CheckpointComplete
    BY <2>3, UnreapedSame, FlowSession DEF CheckpointComplete, Flow, Shape
  <2>4. CASE CheckpointFails
    BY <2>4, UnreapedSame, FlowSession DEF CheckpointFails, Flow
  <2>5. CASE Start \/ Stop
    <3>1. state \notin Compensation /\ resume = "ready"
      BY <2>5 DEF Start, Stop, Flow, CapturesStopped, Shape
    <3> QED
      BY <2>5, <3>1, UnreapedSame, FlowSession DEF Start, Stop, Flow
  <2>6. CASE Spawn
    BY <2>6, FlowSession DEF Spawn, Flow, Shape
  <2>7. CASE SpawnFails \/ ProveFails \/ NotReady
    BY <2>7, UnreapedSame, FlowSession DEF SpawnFails, ProveFails, NotReady, StartFails, Flow,
       Shape
  <2>8. CASE Prove \/ Ready \/ Started
    BY <2>8, UnreapedSame, FlowSession DEF Prove, Ready, Started, Checkpoint, Flow, Shape
  <2>9. CASE Reap
    BY <2>9, UnreapedLess, FlowSession DEF Reap, Flow, Shape
  <2>10. CASE StopDone
    BY <2>10, UnreapedSame, FlowSession DEF StopDone, Checkpoint, OwnershipProved, Flow, Shape
  <2> QED
    BY <1>5, <2>1, <2>2, <2>3, <2>4, <2>5, <2>6, <2>7, <2>8, <2>9, <2>10 DEF SessionStep
<1>6. CASE ReleaseStep
  <2>1. CASE RetentionIntent \/ RetentionFails
    <3>1. resume = "ready" /\ UNCHANGED <<child, captureView, resume>>
      BY <2>1 DEF RetentionIntent, RetentionFails, Shape, Checkpoints
    <3>2. CASE Abort
      BY <3>1, <3>2, FlowAbort
    <3>3. CASE UNCHANGED <<pc, state, unknown>>
      BY <3>1, <3>3, UnreapedSame DEF Flow, CapturesStopped
    <3> QED
      BY <2>1, <3>2, <3>3 DEF RetentionIntent, RetentionFails
  <2>2. CASE Retain
    BY <2>2, UnreapedSame DEF Retain, Flow, CapturesStopped
  <2>3. CASE Released
    BY <2>3, UnreapedSame DEF Released, Flow, Compensation, Finals, Checkpoints, Starting,
       CapturesStopped
  <2> QED
    BY <1>6, <2>1, <2>2, <2>3 DEF ReleaseStep
<1>7. CASE ChildExits
  BY <1>7, UnreapedLess DEF ChildExits, Flow, CapturesStopped
<1> QED
  BY <1>1, <1>2, <1>3, <1>4, <1>5, <1>6, <1>7, StepCases

-----------------------------------------------------------------------------
(* Where nothing exists nothing comes to exist: no tool is left running,   *)
(* northd finds no router, and no other tool starts.                       *)
LEMMA NothingStays ==
    ASSUME Nothing, Cover, (OutsideStep /\ UNCHANGED captureVars) \/ ChildExits, Shape,
           state \notin {"INTENT", "BUILT", "COMPENSATING"}
    PROVE  Nothing'
<1> USE DEF labVars, diskVars, builderVars, flowVars, captureView, runtimeVars, captureVars
<1>1. Unreaped' \subseteq Unreaped
  BY UnreapedSame, UnreapedLess
<1>2. UNCHANGED <<world, late>>
  <2>1. CASE Northd
    <3>1. \A g \in Generated : ~Exists(g)
      BY DEF Nothing, Things
    <3>2. ~Exists(Rows)
      BY DEF Nothing, Things
    <3> QED
      BY <2>1, <3>1, <3>2 DEF Northd, Exists
  <2>2. CASE ~Northd
    BY <2>2 DEF OutsideStep, LateEffect, MovePort, Interfere, ChildExits, Nothing
  <2> QED
    BY <2>1, <2>2
<1> QED
  BY <1>1, <1>2 DEF Nothing, Exists

(* The operation ends with an exception and leaves the laboratory alone. *)
LEMMA CoverAbort ==
    ASSUME Cover, Flow, Abort, child' = child, UNCHANGED <<world, late>>,
           Covered => Covered'
    PROVE  Cover'
<1>1. Unreaped' = Unreaped
  BY UnreapedSame
<1> QED
  BY <1>1 DEF Cover, Flow, Abort, Nothing, Exists, Finals

(* A step of a session. *)
LEMMA CoverSession ==
    ASSUME Cover, state' = state, UNCHANGED <<world, late>>, Covered => Covered',
           pc' # "marker-intent",
           Unreaped' \subseteq Unreaped
    PROVE  Cover'
  BY DEF Cover, Nothing, Exists

LEMMA CoverStep == Shape /\ Flow /\ Cover /\ [Next]_vars => Cover'
<1> SUFFICES ASSUME Shape, Flow, Cover, [Next]_vars PROVE Cover'
  OBVIOUS
<1> USE DEF labVars, diskVars, builderVars, flowVars, captureView, runtimeVars, captureVars
<1>1. CASE UNCHANGED vars
  BY <1>1, UnreapedSame DEF vars, Cover, Covered, Nothing, Exists
<1>2. CASE (OutsideStep /\ UNCHANGED captureVars) \/ ChildExits
  <2>1. UNCHANGED <<marker, state, pc, at>>
    BY <1>2 DEF OutsideStep, LateEffect, Northd, MovePort, Interfere, ChildExits
  <2>2. late' \in {late, NoEffect}
    BY <1>2 DEF OutsideStep, LateEffect, Northd, MovePort, Interfere, ChildExits
  <2>3. Covered' = Covered
    BY <2>1 DEF Covered
  <2> QED
    BY <1>2, <2>1, <2>2, <2>3, NothingStays DEF Cover
<1>3. CASE (Build \/ Compensate \/ Finalize) /\ UNCHANGED captureVars
  <2>1. UNCHANGED <<world, late, marker>> /\ Unreaped' = Unreaped /\ Covered' = Covered
    BY <1>3, UnreapedSame DEF Build, Compensate, Finalize, Covered
  <2> QED
    BY <1>3, <2>1 DEF Build, Compensate, Finalize, Abort, Cover, Nothing, Exists
<1>4. CASE BuilderStep /\ UNCHANGED captureVars
  <2> USE DEF EffectPhases, Finals
  <2>1. Unreaped' = Unreaped
    BY <1>4, UnreapedSame
  <2>2. CASE Announce \/ Readback \/ Outcome \/ Poll \/ Verify \/ VerifyM03 \/ RemoveIntent
             \/ Complete \/ AnnounceFails \/ ReadbackFails \/ MarkerVerified \/ FinalAbsence
    <3>1. UNCHANGED <<world, late, marker>> /\ Covered' = Covered
      BY <2>2 DEF Announce, Readback, Outcome, Poll, Verify, VerifyM03, RemoveIntent,
         Complete, AnnounceFails, ReadbackFails, MarkerVerified, FinalAbsence, Covered
    <3>2. CASE Abort
      BY <1>4, <3>1, <3>2, CoverAbort
    <3>3. CASE Announce \/ Readback \/ ((Poll \/ Verify \/ VerifyM03 \/ RemoveIntent) /\ ~Abort)
      <4>1. state' = state /\ (pc' = "marker-intent" => at' \notin {"outcome", "readback"})
        BY <3>3 DEF Announce, Readback, Poll, Verify, VerifyM03, RemoveIntent, Advance, Shape
      <4> QED
        BY <2>1, <3>1, <4>1 DEF Cover, Nothing, Exists
    <3>4. CASE Outcome /\ ~Abort
      <4>1. state' = state /\ pc' = pc /\ at = "outcome"
        BY <3>4 DEF Outcome
      <4> QED
        BY <2>1, <3>1, <4>1 DEF Cover, Nothing, Exists
    <3>5. CASE MarkerVerified
      BY <2>1, <3>1, <3>5 DEF MarkerVerified, Cover, Nothing, Exists, Flow
    <3>6. CASE FinalAbsence /\ ~Abort
      <4>1. RuntimeAbsent /\ Unreaped = {} /\ late = NoEffect
        BY <3>6 DEF FinalAbsence, CapturesStopped, Flow, Cover
      <4>2. Nothing'
        BY <2>1, <3>1, <4>1 DEF Nothing, RuntimeAbsent, Exists
      <4> QED
        BY <3>1, <3>6, <4>1, <4>2 DEF FinalAbsence, Cover
    <3>7. CASE Complete /\ ~Abort
      BY <2>1, <3>1, <3>7 DEF Complete, Cover, Nothing, Exists, Flow
    <3> QED
      BY <2>2, <3>2, <3>3, <3>4, <3>5, <3>6, <3>7 DEF AnnounceFails, ReadbackFails
  <2>3. CASE Dispatch \/ DispatchLost
    <3>1. Covered /\ Covered'
      BY <2>3 DEF Dispatch, DispatchLost, Flow, Cover, Covered
    <3>2. CASE Dispatch
      BY <3>1, <3>2 DEF Dispatch, Cover, Flow
    <3>3. CASE DispatchLost
      BY <3>1, <3>3 DEF DispatchLost, Abort, Cover, Flow
    <3> QED
      BY <2>3, <3>2, <3>3
  <2>4. CASE WriteMarker
    <3>1. CASE pc = "marker-dir"
      BY <2>1, <2>4, <3>1 DEF WriteMarker, Cover, Flow, Nothing, Exists
    <3>2. CASE pc \in {"marker-intent", "marker-built"}
      <4>1. Covered'
        BY <2>4, <3>2 DEF WriteMarker, NextMarker, Covered
      <4> QED
        BY <2>1, <2>4, <3>2, <4>1 DEF WriteMarker, Cover, Nothing, Exists
    <3> QED
      BY <2>4, <3>1, <3>2 DEF WriteMarker
  <2>5. CASE WriteMarkerFails
    <3>1. CASE pc = "marker-dir"
      BY <2>1, <2>5, <3>1 DEF WriteMarkerFails, Abort, Cover, Flow, Nothing, Exists
    <3>2. CASE pc \in {"marker-intent", "marker-built"}
      <4>1. Covered => Covered'
        BY <2>5, <3>2 DEF WriteMarkerFails, NextMarker, Covered
      <4> QED
        BY <1>4, <2>5, <4>1, CoverAbort DEF WriteMarkerFails
    <3> QED
      BY <2>5, <3>1, <3>2 DEF WriteMarkerFails
  <2>6. CASE Unlink
    BY <2>1, <2>6 DEF Unlink, Abort, Cover, Covered, Nothing, Exists, Flow
  <2> QED
    BY <1>4, <2>2, <2>3, <2>4, <2>5, <2>6 DEF BuilderStep
<1>5. CASE SessionStep
  <2> USE DEF Checkpoints, Starting
  <2>1. CASE Spawn
    <3>1. Covered /\ Covered' /\ state = "BUILT"
      BY <2>1 DEF Spawn, Cover, Covered
    <3> QED
      BY <2>1, <3>1 DEF Spawn, Cover
  <2>2. CASE ~Spawn
    <3>1. Unreaped' \subseteq Unreaped
      BY <1>5, <2>2, UnreapedSame, UnreapedLess DEF SessionStep, CheckpointIntent, ReplaceMarker,
         CheckpointComplete, CheckpointFails, SpawnFails, Prove, ProveFails, Ready, NotReady,
         Started, StopDone, Attach, Start, Stop, StartFails
    <3>2. UNCHANGED <<world, late, state>>
      BY <1>5, <2>2 DEF SessionStep, CheckpointIntent, ReplaceMarker,
         CheckpointComplete, CheckpointFails, SpawnFails, Prove, ProveFails, Ready, NotReady,
         Started, StopDone, Attach, Start, Stop, StartFails, Reap
    <3>3. pc' # "marker-intent"
      BY <1>5, <2>2 DEF SessionStep, CheckpointIntent, ReplaceMarker,
         CheckpointComplete, CheckpointFails, SpawnFails, Prove, ProveFails, Ready, NotReady,
         Started, StopDone, Attach, Start, Stop, StartFails, Reap, Checkpoint, Shape
    <3>4. Covered => Covered'
      BY <1>5, <2>2 DEF SessionStep, CheckpointIntent, ReplaceMarker,
         CheckpointComplete, CheckpointFails, SpawnFails, Prove, ProveFails, Ready, NotReady,
         Started, StopDone, Attach, Start, Stop, StartFails, Reap, Covered
    <3> QED
      BY <3>1, <3>2, <3>3, <3>4, CoverSession
  <2> QED
    BY <2>1, <2>2
<1>6. CASE ReleaseStep
  <2>1. UNCHANGED <<world, late, marker, child>> /\ Unreaped' = Unreaped /\ Covered' = Covered
    BY <1>6, UnreapedSame DEF ReleaseStep, RetentionIntent, Retain, Released, RetentionFails,
       Covered
  <2>2. CASE Abort
    BY <2>1, <2>2, CoverAbort
  <2>3. CASE ~Abort
    <3>1. state' = state /\ pc' # "marker-intent"
      BY <1>6, <2>3 DEF ReleaseStep, RetentionIntent, Retain, Released, RetentionFails
    <3> QED
      BY <2>1, <3>1, CoverSession
  <2> QED
    BY <2>2, <2>3
<1> QED
  BY <1>1, <1>2, <1>3, <1>4, <1>5, <1>6, StepCases

-----------------------------------------------------------------------------
LEMMA CountStep == Shape /\ Flow /\ Count /\ [Next]_vars => Count'
<1> SUFFICES ASSUME Shape, Flow, Count, [Next]_vars PROVE Count'
  OBVIOUS
<1> USE DEF labVars, diskVars, builderVars, flowVars, captureView, runtimeVars, captureVars
<1>1. CASE UNCHANGED vars
  BY <1>1 DEF vars, Count, Pending
<1>2. CASE (OutsideStep /\ UNCHANGED captureVars) \/ ChildExits
  BY <1>2 DEF OutsideStep, LateEffect, Northd, MovePort, Interfere, ChildExits, Count, Pending
<1>3. CASE (Build \/ Compensate \/ Finalize) /\ UNCHANGED captureVars
  BY <1>3 DEF Build, Compensate, Finalize, Abort, Count, Pending, EffectPhases, Shape
<1>4. CASE Abort
  <2>1. unknown' /\ state' \notin {"COMPENSATED", "X05_CLEANED"}
    BY <1>4 DEF Abort
  <2> QED
    BY <2>1 DEF Count
<1>5. CASE BuilderStep /\ ~Abort
  <2> USE DEF EffectPhases
  <2>1. CASE Announce
    BY <2>1 DEF Announce, Recorded, Count, Pending, Shape, Flow, Finals
  <2>2. CASE Dispatch \/ WriteMarker
    BY <2>2 DEF Dispatch, WriteMarker, Count, Pending
  <2>3. CASE Outcome
    BY <1>5, <2>3 DEF Outcome, Recorded, Count, Pending, Shape
  <2>4. CASE Readback \/ MarkerVerified
    <3>1. /\ journal' = [journal EXCEPT !.readbacks = @ + 1]
          /\ Pending /\ ~Pending' /\ unknown' = unknown
      BY <2>4 DEF Readback, MarkerVerified, Advance, Recorded, Pending
    <3>2. state' \notin {"COMPENSATED", "X05_CLEANED"}
      BY <2>4 DEF Readback, MarkerVerified, Flow
    <3> QED
      BY <3>1, <3>2 DEF Count, Shape
  <2>5. CASE Poll
    <3>1. journal' = journal /\ ~Pending /\ ~Pending' /\ UNCHANGED <<state, unknown>>
      BY <1>5, <2>5 DEF Poll, Advance, Pending
    <3> QED
      BY <3>1 DEF Count
  <2>6. CASE Verify
    BY <1>5, <2>6 DEF Verify, Count, Pending, Shape
  <2>7. CASE FinalAbsence
    BY <1>5, <2>7 DEF FinalAbsence, Count, Pending, Shape, Flow
  <2>8. CASE VerifyM03
    BY <1>5, <2>8 DEF VerifyM03, Recorded, Count, Pending, Shape
  <2>9. CASE RemoveIntent \/ Unlink \/ Complete
    BY <1>5, <2>9 DEF RemoveIntent, Unlink, Complete, Count, Pending, Shape, Flow, Finals
  <2> QED
    BY <1>5, <2>1, <2>2, <2>3, <2>4, <2>5, <2>6, <2>7, <2>8, <2>9 DEF BuilderStep,
       AnnounceFails, DispatchLost, ReadbackFails, WriteMarkerFails
<1>6. CASE SessionStep
  <2> USE DEF EffectPhases, Checkpoints, Starting
  <2>1. CASE CheckpointIntent
    BY <2>1 DEF CheckpointIntent, Recorded, Count, Pending, Shape
  <2>2. CASE CheckpointComplete
    <3>1. /\ journal' = [journal EXCEPT !.readbacks = @ + 1]
          /\ Pending /\ ~Pending' /\ UNCHANGED <<state, unknown>>
      BY <2>2 DEF CheckpointComplete, Recorded, Pending, Shape
    <3>2. state \notin {"COMPENSATED", "X05_CLEANED"}
      BY <2>2 DEF CheckpointComplete, Flow, Compensation
    <3> QED
      BY <3>1, <3>2 DEF Count, Shape
  <2>3. CASE CheckpointFails
    BY <2>3 DEF CheckpointFails, Count, Flow, Compensation
  <2>4. CASE ReplaceMarker \/ Spawn \/ SpawnFails \/ Prove \/ ProveFails \/ Ready \/ NotReady
             \/ Started \/ Reap \/ StopDone \/ Attach \/ Start \/ Stop
    <3>1. /\ UNCHANGED <<journal, state>>
          /\ Pending' = Pending
          /\ unknown' \in {unknown, TRUE}
      BY <2>4 DEF ReplaceMarker, Spawn, SpawnFails, Prove, ProveFails, Ready, NotReady, Started,
         Reap, StopDone, Attach, Start, Stop, StartFails, Checkpoint, Pending, Shape
    <3> QED
      BY <3>1 DEF Count
  <2> QED
    BY <1>6, <2>1, <2>2, <2>3, <2>4 DEF SessionStep
<1>7. CASE ReleaseStep /\ ~Abort
  BY <1>7 DEF ReleaseStep, RetentionIntent, Retain, Released, RetentionFails, Count, Pending,
     EffectPhases
<1> QED
  BY <1>1, <1>2, <1>3, <1>4, <1>5, <1>6, <1>7, StepCases

-----------------------------------------------------------------------------
LEMMA HandlesCount == ASSUME NEW n \in Nat, Handles = 1 .. n PROVE Newest = n /\ Point = n + 1
  BY FS_Interval DEF Newest, Point

(* A step that starts no child and counts no readiness. *)
LEMMA FilesSame ==
    ASSUME Files, Handles' = Handles, ready' = ready,
           pc' = "c-spawn" => pc = "c-spawn",
           pc' \in {"c-prove", "c-wait"} \/ resume' = "c-wait"
             => pc \in {"c-prove", "c-wait"} \/ resume = "c-wait",
           \A i \in Points : pcap[i] # "none" => pcap'[i] # "none",
           packet' = "PASS" => ready = CapturePoints,
           pc' \in {"f-remove", "f-unlink", "f-complete"} =>
             \A i \in Points : pcap'[i] # "active",
           pc' = "f-unlink" => removal' = "intent"
    PROVE  Files'
<1>1. \A i \in Handles' : pcap'[i] # "none"
  BY DEF Files, Handles
<1> QED
  BY <1>1 DEF Files

LEMMA FilesStep == Shape /\ Files /\ [Next]_vars => Files'
<1> SUFFICES ASSUME Shape, Files, [Next]_vars PROVE Files'
  OBVIOUS
<1> USE DEF labVars, diskVars, builderVars, flowVars, captureView, runtimeVars, captureVars
<1>1. CASE UNCHANGED vars
  BY <1>1, UnreapedSame DEF vars, Files
<1>2. CASE OutsideStep /\ UNCHANGED captureVars
  BY <1>2, UnreapedSame DEF OutsideStep, LateEffect, Northd, MovePort, Interfere, Files
<1>3. CASE (Build \/ Compensate \/ Finalize) /\ UNCHANGED captureVars
  BY <1>3, UnreapedSame, FilesSame DEF Build, Compensate, Finalize, Abort, Files
<1>4. CASE BuilderStep /\ UNCHANGED captureVars
  <2>1. UNCHANGED <<ready, resume, pcap, packet>> /\ Handles' = Handles
    BY <1>4, UnreapedSame DEF BuilderStep, Announce, AnnounceFails, Dispatch, DispatchLost,
       Outcome, Readback, ReadbackFails, Poll, WriteMarker, WriteMarkerFails, MarkerVerified,
       Verify, FinalAbsence, VerifyM03, RemoveIntent, Unlink, Complete
  <2>2. CASE Abort
    BY <2>1, <2>2, FilesSame DEF Abort, Files
  <2>3. CASE ~Abort
    <3>1. CASE RemoveIntent \/ Unlink \/ Complete
      BY <2>1, <2>3, <3>1, FilesSame DEF RemoveIntent, Unlink, Complete, Files
    <3>2. CASE ~(RemoveIntent \/ Unlink \/ Complete)
      <4>1. pc' \notin {"f-remove", "f-unlink", "f-complete", "c-spawn", "c-prove", "c-wait"}
        BY <1>4, <2>3, <3>2 DEF BuilderStep, Announce, AnnounceFails, Dispatch, DispatchLost,
           Outcome, Readback, ReadbackFails, Poll, WriteMarker, WriteMarkerFails,
           MarkerVerified, Verify, FinalAbsence, VerifyM03, Advance, EffectPhases
      <4> QED
        BY <2>1, <4>1, FilesSame DEF Files
    <3> QED
      BY <3>1, <3>2
  <2> QED
    BY <2>2, <2>3
<1>5. CASE SessionStep
  <2> PICK n \in 0 .. CapturePoints :
            /\ Handles = 1 .. n
            /\ ready <= n
            /\ pc = "c-spawn" => n < CapturePoints
            /\ pc \in {"c-prove", "c-wait"} \/ resume = "c-wait" => ready < n
    BY DEF Files
  <2>1. n \in Nat /\ Newest = n /\ Point = n + 1
    BY HandlesCount, PointsAssumption
  <2>2. CASE Spawn
    <3>1. n + 1 \in 0 .. CapturePoints /\ n + 1 \in Points
      BY <2>2, <2>1, PointsAssumption DEF Spawn, Points
    <3>2. Handles' = 1 .. n + 1
      BY <2>2, <2>1, <3>1, PointsAssumption DEF Spawn, Handles, Points, Shape
    <3>3. \A i \in Handles' : pcap'[i] # "none"
      BY <2>2, <2>1, <3>1, <3>2 DEF Spawn, Files, Shape, Points
    <3>4. pc' = "c-prove" /\ ready' = ready /\ resume' = resume /\ packet' = packet
      BY <2>2 DEF Spawn
    <3>5. ready' <= n + 1 /\ ready' < n + 1
      BY <2>1, <3>4 DEF Shape
    <3> QED
      BY <3>1, <3>2, <3>3, <3>4, <3>5 DEF Files
  <2>3. CASE Ready
    <3>1. Handles' = Handles
      BY <2>3, UnreapedSame DEF Ready
    <3>2. /\ ready < n /\ ready' = ready + 1 /\ resume' = resume /\ resume = "ready"
          /\ pcap' = pcap /\ packet' = packet
          /\ pc' = IF n = CapturePoints THEN "c-started" ELSE "c-spawn"
      BY <2>1, <2>3 DEF Ready, Shape, Checkpoints
    <3>3. ready' <= n /\ (pc' = "c-spawn" => n < CapturePoints)
      BY <2>1, <3>2, PointsAssumption DEF Shape
    <3>4. packet # "PASS"
      BY <2>1, <3>2, PointsAssumption DEF Files, Shape
    <3>5. pc' \notin {"c-prove", "c-wait", "f-remove", "f-unlink", "f-complete"}
      BY <3>2
    <3> QED
      BY <3>1, <3>2, <3>3, <3>4, <3>5 DEF Files
  <2>4. CASE Start
    <3>1. n = 0
      <4>1. 1 \notin Handles
        BY <2>4 DEF Start
      <4> QED
        BY <2>1, <4>1
    <3>2. Handles' = Handles /\ UNCHANGED <<ready, resume, pcap, packet>> /\ pc' = "c-spawn"
      BY <2>4, UnreapedSame DEF Start
    <3>3. resume = "ready" /\ 0 < CapturePoints
      BY <2>4, PointsAssumption DEF Start, Shape, Checkpoints
    <3> QED
      BY <3>1, <3>2, <3>3 DEF Files
  <2>5. CASE StopDone
    <3>1. Handles' = Handles /\ UNCHANGED <<ready, pcap>>
          /\ pc' \in {"ready", "k-intent"} /\ resume' = "ready"
      BY <2>5, UnreapedSame DEF StopDone, Checkpoint, Shape, Checkpoints
    <3>2. packet' = "PASS" => ready = CapturePoints
      BY <2>5 DEF StopDone, PacketsProved
    <3> QED
      BY <3>1, <3>2, FilesSame
  <2>6. CASE Reap
    BY <2>6, UnreapedLess, FilesSame DEF Reap, Files
  <2>7. CASE Prove
    <3>1. Handles' = Handles /\ UNCHANGED <<ready, pcap>> /\ packet' \in {packet, "ERROR"}
          /\ pc' \in {"ready", "k-intent"} /\ pc = "c-prove"
      BY <2>7, UnreapedSame DEF Prove, Checkpoint
    <3> QED
      BY <3>1, FilesSame DEF Files
  <2>8. CASE SpawnFails \/ ProveFails \/ NotReady
    <3>1. Handles' = Handles /\ UNCHANGED <<ready, resume>> /\ packet' = "ERROR"
          /\ pc' = "ready"
      BY <2>8, UnreapedSame DEF SpawnFails, ProveFails, NotReady, StartFails
    <3>2. \A i \in Points : pcap[i] # "none" => pcap'[i] # "none"
      BY <2>8 DEF SpawnFails, ProveFails, NotReady, Shape
    <3> QED
      BY <3>1, <3>2, FilesSame DEF Files
  <2>9. CASE CheckpointComplete
    <3>1. Handles' = Handles /\ UNCHANGED <<ready, pcap, packet>>
          /\ pc' = resume /\ resume' = "ready" /\ resume \in {"ready", "c-wait"}
      BY <2>9, UnreapedSame DEF CheckpointComplete, Shape
    <3> QED
      BY <3>1, FilesSame DEF Files
  <2>10. CASE CheckpointIntent \/ ReplaceMarker \/ CheckpointFails \/ Started \/ Attach \/ Stop
    <3>1. Handles' = Handles /\ UNCHANGED <<ready, pcap>>
          /\ packet' \in {packet, "ERROR", "PENDING"} /\ resume' \in {resume, "ready"}
          /\ pc' \notin {"f-remove", "f-unlink", "f-complete", "c-spawn", "c-prove", "c-wait"}
      BY <2>10, UnreapedSame DEF CheckpointIntent, ReplaceMarker, CheckpointFails, Started, Attach,
         Stop, Checkpoint
    <3> QED
      BY <3>1, FilesSame DEF Files
  <2> QED
    BY <1>5, <2>2, <2>3, <2>4, <2>5, <2>6, <2>7, <2>8, <2>9, <2>10 DEF SessionStep
<1>6. CASE ReleaseStep
  <2>1. Handles' = Handles /\ UNCHANGED <<ready, resume, packet>>
    BY <1>6, UnreapedSame DEF ReleaseStep, RetentionIntent, Retain, Released, RetentionFails
  <2>2. \A i \in Points : pcap[i] # "none" => pcap'[i] # "none"
    BY <1>6 DEF ReleaseStep, RetentionIntent, Retain, Released, RetentionFails, Shape
  <2>3. CASE Released
    BY <2>1, <2>2, <2>3, FilesSame DEF Released, Files
  <2>4. CASE ~Released
    <3>1. pc' \in {"f-release", "ready"}
      BY <1>6, <2>4 DEF ReleaseStep, RetentionIntent, Retain, RetentionFails, Abort
    <3> QED
      BY <2>1, <2>2, <3>1, FilesSame DEF Files
  <2> QED
    BY <2>3, <2>4
<1>7. CASE ChildExits
  <2>1. Handles' = Handles
    BY <1>7, UnreapedLess
  <2>2. UNCHANGED <<ready, resume, pcap, packet, pc, removal>>
    BY <1>7 DEF ChildExits
  <2> QED
    BY <2>1, <2>2, FilesSame DEF Files
<1> QED
  BY <1>1, <1>2, <1>3, <1>4, <1>5, <1>6, <1>7, StepCases

-----------------------------------------------------------------------------
IInv == Shape /\ Flow /\ Cover /\ Count /\ Files

LEMMA Invariance == Spec => []IInv
<1>1. Init => IInv
  BY InitHolds DEF IInv
<1>2. IInv /\ [Next]_vars => IInv'
  BY ShapeStep, FlowStep, CoverStep, CountStep, FilesStep DEF IInv
<1> QED
  BY <1>1, <1>2, PTL DEF Spec

(* Whatever failed and wherever the process was killed: as long as         *)
(* anything of the runtime is there, its marker is.                        *)
THEOREM MarkerIsThere == Spec => []MarkerCoversRuntime
<1>1. IInv => MarkerCoversRuntime
  <2> SUFFICES ASSUME IInv, Nothing
               PROVE  Ours = {} /\ late = NoEffect /\ \A i \in Points : child[i] # "alive"
    BY DEF IInv, Cover, Covered, MarkerCoversRuntime
  <2> QED
    BY DEF Nothing, Ours, Things, Unreaped
<1> QED
  BY <1>1, Invariance, PTL

(* A compensation that ends well leaves nothing behind. *)
THEOREM CompensationIsClean == Spec => []CompensatedIsClean
<1>1. IInv => CompensatedIsClean
  <2> SUFFICES ASSUME IInv, state \in {"COMPENSATED", "X05_CLEANED"}
               PROVE  Ours = {} /\ late = NoEffect /\ Unreaped = {}
                      /\ journal.intents = journal.readbacks
    BY DEF CompensatedIsClean
  <2>1. Nothing
    BY DEF IInv, Cover
  <2>2. Ours = {}
    BY <2>1 DEF Nothing, Ours, Things
  <2> QED
    BY <2>1, <2>2 DEF IInv, Count, Nothing
<1> QED
  BY <1>1, Invariance, PTL

(* The marker of a built runtime is the last thing that goes. *)
THEOREM BuiltMarkerGoesLast == Spec => MarkerRemovedLast
<1> USE DEF labVars, diskVars, builderVars, flowVars, captureView, runtimeVars, captureVars
<1>1. IInv /\ [Next]_vars
        => [marker[1] = "BUILT" /\ marker'[1] = "none" =>
              /\ removal = "intent" /\ ~unknown /\ packet = "PASS"
              /\ \A i \in Points : pcap[i] = "retained"]_vars
  <2> SUFFICES ASSUME IInv, Next, marker[1] = "BUILT", marker'[1] = "none"
               PROVE  /\ removal = "intent" /\ ~unknown /\ packet = "PASS"
                      /\ \A i \in Points : pcap[i] = "retained"
    OBVIOUS
  <2>1. Unlink
    <3>1. BuilderStep
      <4>1. ~(ReplaceMarker \/ CheckpointFails)
        BY DEF ReplaceMarker, CheckpointFails
      <4>2. ~(OutsideStep \/ Build \/ Compensate \/ Finalize \/ ReleaseStep \/ ChildExits)
        BY DEF OutsideStep, LateEffect, Northd, MovePort, Interfere, Build, Compensate,
           Finalize, ReleaseStep, RetentionIntent, Retain, Released, RetentionFails, ChildExits
      <4>3. SessionStep => ReplaceMarker \/ CheckpointFails
        BY DEF SessionStep, CheckpointIntent, CheckpointComplete, Spawn, SpawnFails, Prove,
           ProveFails, Ready, NotReady, Started, Reap, StopDone, Attach, Start, Stop, StartFails
      <4> QED
        BY <4>1, <4>2, <4>3, StepCases
    <3>2. marker' = marker \/ Unlink \/ (WriteMarker \/ WriteMarkerFails)
      BY <3>1 DEF BuilderStep, Announce, AnnounceFails, Dispatch, DispatchLost,
         Outcome, Readback, ReadbackFails, Poll, MarkerVerified, Verify, FinalAbsence,
         VerifyM03, RemoveIntent, Complete
    <3>3. pc \in {"marker-dir", "marker-intent", "marker-built"} => NextMarker[1] # "none"
      BY DEF NextMarker
    <3>4. ~(WriteMarker \/ WriteMarkerFails)
      BY <3>3 DEF WriteMarker, WriteMarkerFails
    <3> QED
      BY <3>2, <3>4
  <2>2. removal = "intent" /\ ~unknown /\ packet = "PASS" /\ ready = CapturePoints
    BY <2>1 DEF Unlink, IInv, Files, Flow, Finals
  <2>3. Handles = Points
    <3>1. PICK n \in 0 .. CapturePoints : Handles = 1 .. n /\ ready <= n
      BY DEF IInv, Files
    <3>2. n = CapturePoints
      BY <2>2, <3>1, PointsAssumption
    <3> QED
      BY <3>1, <3>2 DEF Points
  <2>4. \A i \in Points : pcap[i] \notin {"none", "active"}
    BY <2>1, <2>3 DEF Unlink, IInv, Files
  <2> QED
    BY <2>2, <2>4 DEF IInv, Shape
<1> QED
  BY <1>1, Invariance, PTL DEF Spec, MarkerRemovedLast
==============================================================================

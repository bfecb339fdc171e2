------------------------------- MODULE Capture -------------------------------
(***************************************************************************)
(* The packet captures (x05-capture.py) that the coordinator attaches to a *)
(* built runtime: one tcpdump per point, each a child in a session of its  *)
(* own that outlives its parent.  What the session has started is written  *)
(* to a PID journal and then, through the builder, to a successor of the   *)
(* X05 marker; the runtime may be removed only after the same session has  *)
(* reaped all its children and a successor says STOPPED.  After the        *)
(* removal the capture files are moved into a directory that is kept.      *)
(* Everything runs in the builder's thread, so it shares its pc.           *)
(***************************************************************************)
EXTENDS RuntimeApply

CONSTANT CapturePoints      \* how many tcpdumps (CAPTURE_POINT_IDS has five)

ASSUME PointsAssumption == CapturePoints \in Nat \ {0}

VARIABLES
    child,      \* per point: "none", "alive", "exited" or "reaped"
    held,       \* the points whose pidfd is open
    proven,     \* ... and whose session and group were proved
    ready,      \* _ready_count
    unclear,    \* _publication_unknown
    pcap,       \* per point: "none", "active" or "retained"
    retention,  \* the move of the files: "none", "started" or "unknown"
    resume      \* where start() continues after a checkpoint

captureVars == <<child, held, proven, ready, unclear, pcap, retention, resume>>
vars == <<runtimeVars, captureVars>>

Points == 1 .. CapturePoints
Handles == {i \in Points : child[i] # "none"}
Unreaped == {i \in Points : child[i] \in {"alive", "exited"}}
Point == Cardinality(Handles) + 1       \* the next point to start

Init ==
    /\ RuntimeInit
    /\ child = [i \in Points |-> "none"] /\ held = {} /\ proven = {} /\ ready = 0
    /\ unclear = FALSE /\ pcap = [i \in Points |-> "none"]
    /\ retention = "none" /\ resume = "ready"

-----------------------------------------------------------------------------
(* Checkpoints: the PID journal, then the builder's successor marker.      *)
Checkpoint(next) == pc' = "k-intent" /\ resume' = next

(* _record_capture_progress asks for a normal capture path. *)
CheckpointIntent ==
    /\ pc = "k-intent" /\ ~unclear
    /\ Authority /\ state = "BUILT" /\ ~unknown
    /\ Recorded("intents")
    /\ pc' = "k-marker"
    /\ UNCHANGED <<labVars, marker, removal, state, unknown, known, bound, bRestore, at, step,
                   answer, captureView, captureVars>>

ReplaceMarker ==
    /\ pc = "k-marker" /\ marker = known
    /\ marker' = <<"BUILT", marker[2] + 1>>
    /\ pc' = "k-complete"
    /\ UNCHANGED <<labVars, journal, removal, builderVars, at, step, answer, captureView,
                   captureVars>>

CheckpointComplete ==
    /\ pc = "k-complete"
    /\ Recorded("readbacks")
    /\ known' = marker
    /\ published' = capture
    /\ pc' = resume /\ resume' = "ready"
    /\ UNCHANGED <<labVars, marker, removal, state, unknown, bound, bRestore, at, step, answer,
                   capture, packet, ownership, released, child, held, proven, ready, unclear,
                   pcap, retention>>

(* A session whose first checkpoint fails is closed, never handed out.     *)
CheckpointFails ==
    /\ \/ pc = "k-intent" /\ NotRecorded("intents") /\ UNCHANGED marker
       \/ /\ pc = "k-marker"
          /\ marker' \in {marker, <<"BUILT", marker[2] + 1>>}
          /\ UNCHANGED <<journal, trusted>>
       \/ pc = "k-complete" /\ NotRecorded("readbacks") /\ UNCHANGED marker
    /\ unclear' = TRUE /\ unknown' = TRUE
    /\ capture' = IF published = "none" THEN "closed" ELSE capture
    /\ packet' = "ERROR"
    /\ pc' = "ready" /\ resume' = "ready"
    /\ UNCHANGED <<labVars, removal, state, known, bound, bRestore, at, step, answer, published,
                   ownership, released, child, held, proven, ready, pcap, retention>>

-----------------------------------------------------------------------------
(* from_builder and start                                                  *)
Attach ==
    /\ pc = "ready" /\ state = "BUILT" /\ capture = "none"
    /\ Authority /\ ~unknown
    /\ capture' = "STARTING"
    /\ Checkpoint("ready")
    /\ UNCHANGED <<labVars, diskVars, builderVars, at, step, answer, published, packet,
                   ownership, released, child, held, proven, ready, unclear, pcap, retention>>

(* start is one-shot: it is refused once a child was started. *)
Start ==
    /\ pc = "ready" /\ capture = "STARTING" /\ Handles = {}
    /\ packet = "PENDING"
    /\ pc' = "c-spawn"
    /\ UNCHANGED <<labVars, diskVars, builderVars, at, step, answer, captureView, captureVars>>

(* An exception of start leaves the session to stop(). *)
StartFails ==
    /\ packet' = "ERROR" /\ pc' = "ready"
    /\ UNCHANGED <<labVars, diskVars, state, known, bound, bRestore, at, step, answer, capture,
                   published, released, child, proven, ready, retention, resume>>

Spawn ==
    /\ pc = "c-spawn" /\ Authority /\ state = "BUILT" /\ ~unknown
    /\ child' = [child EXCEPT ![Point] = "alive"]
    /\ pcap' = [pcap EXCEPT ![Point] = "active"]
    /\ pc' = "c-prove"
    /\ UNCHANGED <<labVars, diskVars, builderVars, at, step, answer, captureView, held, proven,
                   ready, unclear, retention, resume>>

(* The spawn intent, the file or Popen fails: there is no child. *)
SpawnFails ==
    /\ pc = "c-spawn" /\ StartFails
    /\ \/ trusted' \in BOOLEAN /\ UNCHANGED pcap
       \/ pcap' = [pcap EXCEPT ![Point] = "active"] /\ UNCHANGED trusted
    /\ trusted' => trusted
    /\ UNCHANGED <<unknown, ownership, held, unclear>>

Newest == Cardinality(Handles)

(* The pidfd, the start time, the session and the group of the new child.  *)
Prove ==
    /\ pc = "c-prove"
    /\ held' = held \cup {Newest} /\ proven' = proven \cup {Newest}
    /\ \/ Checkpoint("c-wait") /\ UNCHANGED packet
       \/ packet' = "ERROR" /\ pc' = "ready" /\ UNCHANGED resume    \* its guards failed
    /\ UNCHANGED <<labVars, diskVars, builderVars, at, step, answer, capture, published,
                   ownership, released, child, ready, unclear, pcap, retention>>

(* Without the stderr receiver the publication is lost as well. *)
ProveFails ==
    /\ pc = "c-prove" /\ StartFails
    /\ held' \in {held, held \cup {Newest}}
    /\ unclear' \in BOOLEAN
    /\ ownership' = "ERROR" /\ unknown' = TRUE
    /\ UNCHANGED <<trusted, pcap>>

Ready ==
    /\ pc = "c-wait" /\ child[Newest] = "alive"
    /\ ready' = ready + 1
    /\ pc' = IF Newest = CapturePoints THEN "c-started" ELSE "c-spawn"
    /\ UNCHANGED <<labVars, diskVars, builderVars, at, step, answer, captureView, child, held,
                   proven, unclear, pcap, retention, resume>>

(* _wait_ready: the readiness line does not come in time, or the child has *)
(* exited.                                                                 *)
NotReady ==
    /\ pc = "c-wait" /\ StartFails
    /\ UNCHANGED <<trusted, unknown, ownership, held, unclear, pcap>>

Started ==
    /\ pc = "c-started"
    /\ \/ /\ \A i \in Points : child[i] = "alive"
          /\ Authority
          /\ capture' = "STARTED" /\ packet' = "PENDING"
          /\ Checkpoint("ready")
       \/ packet' = "ERROR" /\ pc' = "ready" /\ UNCHANGED <<capture, resume>>
    /\ UNCHANGED <<labVars, diskVars, builderVars, at, step, answer, published, ownership,
                   released, child, held, proven, ready, unclear, pcap, retention>>

-----------------------------------------------------------------------------
(* stop                                                                    *)
Stop ==
    /\ pc = "ready" /\ capture \in {"STARTING", "STARTED"}
    /\ pc' = "c-stop"
    /\ UNCHANGED <<labVars, diskVars, builderVars, at, step, answer, captureView, captureVars>>

(* A child is signalled through its pidfd, three times ever harder, and    *)
(* waited for; one without a pidfd is neither.                             *)
Reap ==
    /\ pc = "c-stop"
    /\ \E i \in Unreaped \cap held : child' = [child EXCEPT ![i] = "reaped"]
    /\ UNCHANGED <<labVars, diskVars, builderVars, flowVars, captureView, held, proven, ready,
                   unclear, pcap, retention, resume>>

(* Mutant: a child that no signal and no wait could end is not counted. *)
Mutant_OwnershipProved_NotReaped == Handles \subseteq proven

OwnershipProved == Unreaped = {} /\ Handles \subseteq proven

(* The packets are good only if nothing at all went wrong, the footers of  *)
(* the captures included.                                                  *)
PacketsProved == packet # "ERROR" /\ ready = CapturePoints /\ OwnershipProved

StopDone ==
    /\ pc = "c-stop"
    /\ ownership' = IF OwnershipProved THEN "PASS" ELSE "ERROR"
    /\ packet' \in IF PacketsProved THEN {"PASS", "ERROR"} ELSE {"ERROR"}
    /\ IF OwnershipProved
       THEN /\ capture' = "STOPPED" /\ UNCHANGED unknown
            /\ IF unclear THEN pc' = "ready" /\ UNCHANGED resume ELSE Checkpoint("ready")
       ELSE /\ capture' = "STOP_FAILED" /\ unknown' = TRUE
            /\ pc' = "ready" /\ UNCHANGED resume
    /\ UNCHANGED <<labVars, diskVars, state, known, trusted, bound, bRestore, at, step, answer,
                   published, released, child, held, proven, ready, unclear, pcap, retention>>

-----------------------------------------------------------------------------
(* _release_after_compensation                                             *)
RetentionUnknown == retention' = "unknown" /\ unclear' = TRUE

RetentionIntent ==
    /\ pc = "f-release" /\ retention = "none"
    /\ \/ /\ Authority /\ state = "COMPENSATED" /\ RuntimeAbsent /\ Unreaped = {}
          /\ retention' = "started"
          /\ UNCHANGED <<trusted, unclear, unknown, state, pc, at, step, answer>>
       \/ RetentionUnknown /\ trusted' \in BOOLEAN /\ (trusted' => trusted) /\ Abort
    /\ UNCHANGED <<labVars, diskVars, known, bound, bRestore, captureView, child, held, proven,
                   ready, pcap, resume>>

(* One file at a time, renamed and made durable, never over another. *)
Retain ==
    /\ pc = "f-release" /\ retention = "started"
    /\ \E i \in Points :
          pcap[i] = "active" /\ pcap' = [pcap EXCEPT ![i] = "retained"]
    /\ UNCHANGED <<labVars, diskVars, builderVars, flowVars, captureView, child, held, proven,
                   ready, unclear, retention, resume>>

(* Mutant: the release does not look for files left behind. *)
Mutant_Released_SomeLeft ==
    /\ pc = "f-release" /\ retention = "started"
    /\ Authority
    /\ released' = TRUE
    /\ pc' = "f-remove"
    /\ UNCHANGED <<labVars, diskVars, builderVars, at, step, answer, capture, published, packet,
                   ownership, captureVars>>

Released ==
    /\ pc = "f-release" /\ retention = "started"
    /\ \A i \in Points : pcap[i] # "active"
    /\ Authority
    /\ released' = TRUE
    /\ pc' = "f-remove"
    /\ UNCHANGED <<labVars, diskVars, builderVars, at, step, answer, capture, published, packet,
                   ownership, captureVars>>

RetentionFails ==
    /\ pc = "f-release" /\ retention = "started"
    /\ RetentionUnknown /\ trusted' \in BOOLEAN /\ (trusted' => trusted) /\ Abort
    /\ UNCHANGED <<labVars, diskVars, known, bound, bRestore, captureView, child, held, proven,
                   ready, pcap, resume>>

(* A tcpdump ends by itself: its interface is gone, or its disk is full.   *)
ChildExits ==
    /\ \E i \in Points : child[i] = "alive" /\ child' = [child EXCEPT ![i] = "exited"]
    /\ UNCHANGED <<runtimeVars, held, proven, ready, unclear, pcap, retention, resume>>

CaptureStep ==
    \/ CheckpointIntent \/ ReplaceMarker \/ CheckpointComplete \/ CheckpointFails
    \/ Spawn \/ SpawnFails \/ Prove \/ ProveFails \/ Ready \/ NotReady \/ Started
    \/ Reap \/ StopDone
    \/ RetentionIntent \/ Retain \/ Released \/ RetentionFails

Next ==
    \/ RuntimeNext /\ UNCHANGED captureVars
    \/ CaptureStep \/ Attach \/ Start \/ Stop \/ ChildExits

(* The process runs on by itself until the call returns; nothing is asked   *)
(* of northd, of a tool left running or of the tcpdumps.                   *)
Spec ==
    /\ Init /\ [][Next]_vars
    /\ WF_vars((BuilderStep /\ UNCHANGED captureVars) \/ CaptureStep)

-----------------------------------------------------------------------------
(* Properties.                                                             *)
(* While anything of the runtime exists, may still come to exist through a *)
(* tool nobody waits for, or captures packets of it, the X05 marker is on  *)
(* disk, whatever failed and wherever the process was killed.              *)
MarkerCoversRuntime ==
    (Ours # {} \/ late # NoEffect \/ \E i \in Points : child[i] = "alive")
        => marker[1] \in {"INTENT", "BUILT"}

(* What exists of the runtime, and what a tool nobody waits for may still  *)
(* change, was announced in the journal before: whoever reads the journal  *)
(* after a crash learns of everything                                      *)
(* (a wait is not announced, and two intents of the marker precede all).   *)
Announces(i) == BuildProgram[i].check # "await"
IntentOf ==
    [i \in 0 .. Len(BuildProgram) |-> 2 + Cardinality({j \in 1 .. i : Announces(j)})]
Described ==
    [k \in 0 .. IntentOf[Len(BuildProgram)] |->
        UNION {BuildProgram[i].of :
                 i \in {j \in DOMAIN BuildProgram : Announces(j) /\ IntentOf[j] <= k}}]
JournalDescribesRuntime ==
    journal.intents \in DOMAIN Described => Ours \cup late.of \subseteq Described[journal.intents]

(* If nobody touched the laboratory, a build all of whose effects were     *)
(* read back passes its own final verification: no effect disturbs an      *)
(* identity captured before it.                                            *)
BuildVerifies == pc = "verify" /\ touched = {} => RuntimeComplete

(* A compensation that ends well leaves nothing of the runtime, no tool    *)
(* that could still bring something back, no tcpdump, and no announced     *)
(* effect whose result nobody read.                                        *)
CompensatedIsClean ==
    state \in {"COMPENSATED", "X05_CLEANED"} =>
        /\ Ours = {} /\ late = NoEffect /\ Unreaped = {}
        /\ journal.intents = journal.readbacks

(* What another tool put under a planned name is not removed: never, if it *)
(* is a port, a container or a map, and otherwise only in the window       *)
(* between the last identity check and the removal by name, or with the    *)
(* container or namespace that holds it, or if it is a namespace that was  *)
(* exchanged before the builder first read it: a namespace bears no mark   *)
(* of its owner.                                                           *)
GoesWithHolder(t) ==
    \E h \in Mutable \ {t} : t \in Fallout(h) /\ Exists(h) /\ world'[h] = {}
ForeignKept ==
    [][\A t \in Mutable :
          Foreign(t) /\ "foreign" \notin world'[t] =>
              \/ GoesWithHolder(t)
              \/ t \in swapped /\ t[1] \notin {"port", "container", "ids"}
              \/ t[1] = "netns" /\ "foreign" \in bound[t]]_vars

(* The marker of a built runtime goes only under a durable intent, after   *)
(* every capture file was moved to safety and every packet was accounted   *)
(* for.                                                                    *)
MarkerRemovedLast ==
    [][marker[1] = "BUILT" /\ marker'[1] = "none" =>
          /\ removal = "intent" /\ ~unknown /\ packet = "PASS"
          /\ \A i \in Points : pcap[i] = "retained"]_vars

(* An operation that was called returns, whatever its tools answer and     *)
(* whatever northd, other tools and the tcpdumps do meanwhile.             *)
OperationReturns == pc # "ready" ~> pc = "ready"

==============================================================================

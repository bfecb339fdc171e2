------------------------------ MODULE Admission ------------------------------
(***************************************************************************)
(* The admission producer (AdmissionSession of x05-runtime-live.py): takes *)
(* the flock that serialises the DCI lifecycle, has labctl bring up the    *)
(* M03 substrate, publishes a snapshot, hands out one capability that is   *)
(* consumed once and rechecked before every later effect, and on close     *)
(* takes M03 down again, provided it is still its own and no X05 marker    *)
(* needs it.  The labctl commands are children that inherit the lock's     *)
(* descriptor (FD 9): they outlive a timeout and the session itself.  An   *)
(* operator may run labctl too, under the same lock (labs/dci.sh).         *)
(***************************************************************************)
EXTENDS Naturals

CONSTANTS
    Sessions,       \* the runs (run_hex) that ask for admission
    EventLimit      \* a bound: the execution events a session records

ASSUME SessionsAssumption == {"none", "operator"} \cap Sessions = {}
ASSUME EventsAssumption == EventLimit \in Nat

VARIABLES
    m03,        \* who brought M03 up ("none": nobody), and how far it is
    x05,        \* whose X05 marker exists
    lockfile,   \* the inode at the lock's path
    lock,       \* lock[a]: the inode a's open file description has locked (0: none)
    child       \* child[a]: a's labctl command and its stage

(* AdmissionSession, one function on Sessions per field.                   *)
VARIABLES
    pc,
    open,       \* _lock_fd and its keeper are open
    lost,       \* _lock_authority_lost
    answer,     \* what the last command returned
    retained,   \* _retained_descriptor
    setup, owned, swept,    \* _setup_attempted, _owned_m03, _cleanup_attempted
    mine,       \* _m03_ownership_sha256: whose M03 was read after the setup
    prepared,   \* the PreparedAdmission: "untried", "none", "active", "consumed", "void"
    failed,     \* _execution_failure is set
    log,        \* consume and execution records that are durable
    mem,        \* ... that the live event log has counted
    head,       \* ... that the capability is bound to
    accepted,   \* history: records that were returned to the caller
    refused     \* history: a check or record of the consumed capability failed

labVars == <<m03, x05, lockfile, lock, child>>
lifeVars == <<open, lost, answer, retained, setup, owned, swept, mine>>
eventVars == <<prepared, failed, log, mem, head, accepted, refused>>
vars == <<labVars, pc, lifeVars, eventVars>>

Actors == Sessions \cup {"operator"}
Absent == <<"none", "absent">>
NoChild == <<"none", "none">>
Commands == {"up", "verify", "down", "baseline"}

Init ==
    /\ m03 = Absent /\ x05 = "none" /\ lockfile = 1
    /\ lock = [a \in Actors |-> 0]
    /\ child = [a \in Actors |-> NoChild]
    /\ pc = [s \in Sessions |-> "out"]
    /\ answer = [s \in Sessions |-> "none"]
    /\ mine = [s \in Sessions |-> "none"]
    /\ prepared = [s \in Sessions |-> "untried"]
    /\ LET never == [s \in Sessions |-> FALSE]
           zero == [s \in Sessions |-> 0] IN
       /\ open = never /\ lost = never /\ retained = never /\ setup = never
       /\ owned = never /\ swept = never /\ failed = never /\ refused = never
       /\ log = zero /\ mem = zero /\ head = zero /\ accepted = zero

Goto(s, l) == pc' = [pc EXCEPT ![s] = l]
Set(f, s, v) == [f EXCEPT ![s] = v]

-----------------------------------------------------------------------------
(* labctl dci up, verify and down (labs/dci.sh), a child that a session or *)
(* the operator started.  It ends with its goal reached or fails anywhere. *)

Locked(i) == \E a \in Actors : lock[a] = i

(* The flock goes with the last descriptor of the open file description.   *)
AfterChild(a) ==
    IF a \in Sessions /\ open[a] THEN lock[a] ELSE 0

(* dci_m03_lock_action and dci_x05_guard let this command go on.           *)
Guarded(a) ==
    /\ lock[a] = lockfile
    /\ x05 \in {"none", a}

(* The guards, then up: M03 that is whole is only verified, else it must   *)
(* be absent.  verify and down --m03 fail without what they ask for.       *)
ChildBegins(a) ==
    LET cmd == child[a][1] IN
    /\ child[a][2] = "new" /\ Guarded(a)
    /\ cmd = "up" => m03[2] # "partial"
    /\ child' = Set(child, a, <<cmd, "working">>)
    /\ UNCHANGED <<m03, x05, lockfile, lock, pc, lifeVars, eventVars>>

ChildWorks(a) ==
    /\ \/ child[a] = <<"up", "working">> /\ m03 = Absent /\ m03' = <<a, "partial">>
       \/ child[a] = <<"up", "working">> /\ m03 = <<a, "partial">> /\ m03' = <<a, "whole">>
       \/ child[a] = <<"down", "working">> /\ m03[2] = "whole" /\ m03' = <<m03[1], "partial">>
       \/ child[a] = <<"down", "working">> /\ m03[2] = "partial" /\ m03' = Absent
    /\ UNCHANGED <<x05, lockfile, lock, child, pc, lifeVars, eventVars>>

Reached(cmd) == m03[2] = IF cmd \in {"up", "verify"} THEN "whole" ELSE "absent"

Answer(a, value) == answer' = IF a \in Sessions /\ pc[a] \in Commands THEN Set(answer, a, value)
                              ELSE answer

ChildEnds(a) ==
    /\ child[a] # NoChild
    /\ \/ Answer(a, "failed")
       \/ child[a][2] = "working" /\ Reached(child[a][1]) /\ Answer(a, "ok")
    /\ child' = Set(child, a, NoChild)
    /\ lock' = Set(lock, a, AfterChild(a))
    /\ UNCHANGED <<m03, x05, lockfile, pc, open, lost, retained, setup, owned, swept, mine,
                   eventVars>>

(* The operator's command opens the lock itself (FD 8).                    *)
OperatorRuns ==
    /\ child["operator"] = NoChild /\ ~Locked(lockfile)
    /\ lock' = Set(lock, "operator", lockfile)
    /\ \E cmd \in {"up", "down"} : child' = Set(child, "operator", <<cmd, "new">>)
    /\ UNCHANGED <<m03, x05, lockfile, pc, lifeVars, eventVars>>

(* Somebody removes the lock's path and a new file appears there.          *)
LockReplaced ==
    /\ lockfile = 1 /\ lockfile' = 2
    /\ UNCHANGED <<m03, x05, lock, child, pc, lifeVars, eventVars>>

-----------------------------------------------------------------------------
(* The kernel shows, in the fdinfo of FD 9, one exclusive flock.           *)
FlockShown(s) == lock[s] # 0

(* _prove_lock_authority: FD 9, its keeper and the path are one inode, and *)
(* the flock is there.  Once it fails it fails for good.                   *)
Proof(s) == open[s] /\ ~lost[s] /\ FlockShown(s) /\ lock[s] = lockfile
ProofSeen(s) == lost' = Set(lost, s, ~Proof(s))

(* _labctl: the proof and the bundle, then a command that inherits FD 9.   *)
Labctl(s, cmd) ==
    /\ Proof(s)
    /\ child' = Set(child, s, <<cmd, "new">>)
    /\ answer' = Set(answer, s, "none")
    /\ Goto(s, cmd)

(* SubprocessRunner.run: the time or the output bound is exceeded.  The    *)
(* process group is killed; a descendant may have left it and live on.     *)
GivenUp(s) ==
    /\ pc[s] \in Commands /\ answer[s] = "none"
    /\ answer' = Set(answer, s, "unknown")
    /\ retained' = Set(retained, s, TRUE)
    /\ child' \in {child, Set(child, s, NoChild)}
    /\ UNCHANGED <<m03, x05, lockfile, lock, pc, open, lost, setup, owned, swept, mine,
                   eventVars>>

-----------------------------------------------------------------------------
(* __enter__ and prepare.  A failed append, a failed read or a check that  *)
(* does not hold raises, and the caller has the session back: "open".      *)

(* A bound: on a lock file that was exchanged only the operator goes on.   *)
LockFree == lockfile = 1 /\ ~Locked(lockfile)

Enter(s) ==
    /\ pc[s] = "out" /\ LockFree
    /\ lock' = Set(lock, s, lockfile) /\ open' = Set(open, s, TRUE)
    /\ Goto(s, "open")
    /\ UNCHANGED <<m03, x05, lockfile, child, lost, answer, retained, setup, owned, swept, mine,
                   eventVars>>

(* The event log, opened O_EXCL, is left: this run cannot enter again.     *)
EnterFails(s) ==
    /\ pc[s] = "out" /\ LockFree
    /\ Goto(s, "gone")
    /\ UNCHANGED <<labVars, lifeVars, eventVars>>

Prepare(s) ==
    /\ pc[s] = "open" /\ prepared[s] = "untried"
    /\ ProofSeen(s)
    /\ IF Proof(s)
       THEN prepared' = Set(prepared, s, "none") /\ Goto(s, "g0")
       ELSE UNCHANGED <<prepared, pc>>
    /\ UNCHANGED <<labVars, open, answer, retained, setup, owned, swept, mine,
                   failed, log, mem, head, accepted, refused>>

(* marker: the X05 marker file exists.                                     *)
Marked == x05 # "none"

(* _observe_*: nothing that an X05 run could have left is there, neither   *)
(* its marker nor a container, link, namespace, port, route or process.    *)
X05Absent == ~Marked

(* Every link, process, row and external identifier of M03 is there.       *)
WholeM03 == m03[2] = "whole"

(* m03_section: ... and the owner its marker, peer and links name is the   *)
(* one that was read after this session's setup.                           *)
OwnM03(s) == WholeM03 /\ m03[1] = mine[s]

(* _assert_m03_absent                                                      *)
M03Absent == m03 = Absent

(* Mutant: a substrate that is already there does not stop G0.             *)
Mutant_Baseline_AnyM03 == X05Absent

(* g0: no X05 marker and no trace of M03.                                  *)
Baseline == X05Absent /\ M03Absent

G0(s) ==
    /\ pc[s] = "g0" /\ Baseline
    /\ Goto(s, "up-intent")
    /\ UNCHANGED <<labVars, lifeVars, eventVars>>

UpIntent(s) ==
    /\ pc[s] = "up-intent" /\ Proof(s)
    /\ setup' = Set(setup, s, TRUE)
    /\ Goto(s, "run-up")
    /\ UNCHANGED <<labVars, open, lost, answer, retained, owned, swept, mine, eventVars>>

RunCommand(s) ==
    /\ \/ pc[s] = "run-up" /\ Labctl(s, "up")
       \/ pc[s] = "run-verify" /\ Labctl(s, "verify")
       \/ pc[s] = "run-down" /\ Labctl(s, "down")
       \/ pc[s] = "run-baseline" /\ Labctl(s, "baseline")
    /\ UNCHANGED <<m03, x05, lockfile, lock, open, lost, retained, setup, owned, swept, mine,
                   eventVars>>

(* The command is refused before it starts: a binding or the lock changed. *)
CommandRefused(s) ==
    /\ pc[s] \in {"run-up", "run-verify", "run-down", "run-baseline"}
    /\ ProofSeen(s)
    /\ answer' = Set(answer, s, "unknown")
    /\ Goto(s, CASE pc[s] = "run-up" -> "discover"
                 [] pc[s] = "run-verify" -> "open"
                 [] OTHER -> "finally")
    /\ UNCHANGED <<labVars, open, retained, setup, owned, swept, mine, eventVars>>

UpReturns(s) ==
    /\ pc[s] = "up" /\ answer[s] # "none"
    /\ pc' \in {Set(pc, s, "discover"), Set(pc, s, "open")}   \* the outcome's append may fail
    /\ UNCHANGED <<labVars, lifeVars, eventVars>>

(* _discover_cleanup_ownership: M03 belongs to this setup when its marker, *)
(* peer and links can be read completely; any uncertainty says it does not.*)
Discover(s) ==
    /\ pc[s] = "discover"
    /\ \/ /\ WholeM03
          /\ owned' = Set(owned, s, TRUE) /\ mine' = Set(mine, s, m03[1])
          /\ Goto(s, IF answer[s] = "ok" THEN "run-verify" ELSE "open")
       \/ /\ UNCHANGED <<owned, mine>>
          /\ Goto(s, "open")
    /\ UNCHANGED <<labVars, open, lost, answer, retained, setup, swept, eventVars>>

VerifyReturns(s) ==
    /\ pc[s] = "verify" /\ answer[s] # "none"
    /\ Goto(s, IF answer[s] = "ok" THEN "collect" ELSE "open")
    /\ UNCHANGED <<labVars, lifeVars, eventVars>>

(* collect_snapshot, the anchors, the inputs and the receipt.              *)
Collect(s) ==
    /\ pc[s] = "collect" /\ OwnM03(s) /\ X05Absent
    /\ Goto(s, "publish")
    /\ UNCHANGED <<labVars, lifeVars, eventVars>>

(* _persist_snapshot, the anchors again, the last events and the chain.    *)
Publish(s) ==
    /\ pc[s] = "publish" /\ OwnM03(s)
    /\ prepared' = Set(prepared, s, "active")
    /\ Goto(s, "open")
    /\ UNCHANGED <<labVars, lifeVars, failed, log, mem, head, accepted, refused>>

PrepareFails(s) ==
    /\ pc[s] \in {"g0", "up-intent", "collect", "publish"}
    /\ \/ pc[s] = "up-intent" /\ ProofSeen(s)
       \/ UNCHANGED lost
    /\ Goto(s, "open")
    /\ UNCHANGED <<labVars, open, answer, retained, setup, owned, swept, mine, eventVars>>

-----------------------------------------------------------------------------
(* The capability: consume, verify_execution, record_execution_event.      *)

(* _event_append_locked: the record is durable and counted, or an error    *)
(* leaves it unwritten or durable but not counted.                         *)
Append(s) ==
    \/ log' = Set(log, s, log[s] + 1) /\ mem' = Set(mem, s, mem[s] + 1)
AppendFails(s) ==
    log' \in {log, Set(log, s, log[s] + 1)} /\ UNCHANGED mem

(* Mutant: verify trusts the live chain without rereading the file.        *)
Mutant_ChainAt_LiveOnly(s, h) == mem[s] = h

(* The durable chain is the live one and ends at the given head.           *)
ChainAt(s, h) == log[s] = mem[s] /\ mem[s] = h

Consume(s) ==
    /\ pc[s] = "open" /\ prepared[s] = "active"
    /\ Proof(s) /\ ChainAt(s, head[s])
    /\ OwnM03(s) /\ X05Absent
    /\ Append(s)
    /\ head' = Set(head, s, mem'[s])
    /\ prepared' = Set(prepared, s, "consumed")
    /\ UNCHANGED <<labVars, pc, lifeVars, failed, accepted, refused>>

(* A refusal does not spoil the capability: consume may be called again.   *)
ConsumeFails(s) ==
    /\ pc[s] = "open" /\ prepared[s] = "active"
    /\ ProofSeen(s)
    /\ \/ UNCHANGED <<log, mem>>
       \/ Proof(s) /\ ChainAt(s, head[s]) /\ AppendFails(s)
    /\ UNCHANGED <<labVars, pc, open, answer, retained, setup, owned, swept, mine,
                   prepared, failed, head, accepted, refused>>

(* _assert_execution_capability_locked                                     *)
Capable(s) == prepared[s] = "consumed" /\ ~failed[s]

(* _verify_execution_state_locked; the snapshot's file, the bundle, the    *)
(* receipt and the kubeconfigs may fail it too (ExecutionFails).           *)
StateHolds(s, h) == Proof(s) /\ setup[s] /\ owned[s] /\ ChainAt(s, h)

(* Both verify_execution, whose caller goes on to its effect, and the      *)
(* first half of record_execution_event.                                   *)
ExecutionVerified(s) ==
    /\ pc[s] = "open" /\ Capable(s) /\ StateHolds(s, head[s])
    /\ \/ Goto(s, "verified")
       \/ accepted[s] < EventLimit /\ Goto(s, "append")
    /\ UNCHANGED <<labVars, lifeVars, eventVars>>

RecordAppended(s) ==
    /\ pc[s] = "append" /\ Append(s)
    /\ Goto(s, "recheck")
    /\ UNCHANGED <<labVars, lifeVars, prepared, failed, head, accepted, refused>>

RecordReturned(s) ==
    /\ pc[s] = "recheck" /\ StateHolds(s, head[s] + 1)
    /\ head' = Set(head, s, head[s] + 1)
    /\ accepted' = Set(accepted, s, accepted[s] + 1)
    /\ Goto(s, "open")
    /\ UNCHANGED <<labVars, lifeVars, prepared, failed, log, mem, refused>>

(* Mutant: a failed check or record leaves no memory.                      *)
Mutant_Remember_Forgotten(s) == failed' = failed

(* _remember_execution_failure                                             *)
Remember(s) == failed' = Set(failed, s, TRUE)

(* A check of the state or an append that fails.  An event or a detail     *)
(* that is not well formed raises earlier, before anything is read: that   *)
(* call is neither remembered nor a step of this model.                    *)
ExecutionFails(s) ==
    /\ \/ pc[s] = "open" /\ prepared[s] = "consumed"
       \/ pc[s] \in {"append", "recheck"}
    /\ Remember(s)
    /\ ProofSeen(s)
    /\ \/ pc[s] = "append" /\ AppendFails(s)
       \/ UNCHANGED <<log, mem>>
    /\ refused' = Set(refused, s, TRUE)
    /\ Goto(s, "open")
    /\ UNCHANGED <<labVars, open, answer, retained, setup, owned, swept, mine, prepared, head,
                   accepted>>

(* The builder's effect under the consume lock: it publishes the X05       *)
(* marker, or removes it after its compensation, or changes neither.       *)
Effect(s) ==
    /\ pc[s] = "verified"
    /\ \/ x05 = "none" /\ x05' = s
       \/ x05 = s /\ x05' = "none"
       \/ UNCHANGED x05
    /\ Goto(s, "open")
    /\ UNCHANGED <<m03, lockfile, lock, child, lifeVars, eventVars>>

-----------------------------------------------------------------------------
(* close                                                                   *)

Close(s) ==
    /\ pc[s] = "open"
    /\ prepared' = Set(prepared, s, "void")
    /\ ProofSeen(s)
    /\ Goto(s, IF ~(setup[s] /\ owned[s] /\ ~swept[s]) THEN "finally" ELSE "sweep")
    /\ UNCHANGED <<labVars, open, answer, retained, setup, owned, swept, mine,
                   failed, log, mem, head, accepted, refused>>

(* The incident's append raises outside the try: the session stays open.   *)
CloseRaises(s) ==
    /\ pc[s] = "open" /\ ~Proof(s)
    /\ prepared' = Set(prepared, s, "void")
    /\ ProofSeen(s)
    /\ UNCHANGED <<labVars, pc, open, answer, retained, setup, owned, swept, mine,
                   failed, log, mem, head, accepted, refused>>

(* Mutant: close does not look for its own runtime's marker.               *)
Mutant_MayRemove_UnderMarker(s) == ~lost[s] /\ ~retained[s]

(* A lost lock, a descendant that may hold FD 9 or an X05 marker keeps M03.*)
MayRemove(s) == ~lost[s] /\ ~retained[s] /\ ~Marked

Sweep(s) ==
    /\ pc[s] = "sweep"
    /\ swept' = Set(swept, s, TRUE)
    /\ \/ MayRemove(s) /\ Goto(s, "readback")
       \/ Goto(s, "finally")         \* the marker cannot be read, or MayRemove fails
    /\ UNCHANGED <<labVars, open, lost, answer, retained, setup, owned, mine, eventVars>>

(* _verify_published_evidence: the published files are those of the chain. *)
PublishedIntact(s) == ChainAt(s, head[s])

(* m03-pre-down-readback: what setup read, the published evidence and the  *)
(* anchors are all as they were.                                           *)
Readback(s) ==
    /\ pc[s] = "readback"
    /\ \/ /\ OwnM03(s)
          /\ PublishedIntact(s)
          /\ Goto(s, "down-intent") /\ UNCHANGED owned
       \/ Goto(s, "finally") /\ owned' = Set(owned, s, FALSE)
    /\ UNCHANGED <<labVars, open, lost, answer, retained, setup, swept, mine, eventVars>>

DownIntent(s) ==
    /\ pc[s] = "down-intent"
    /\ ProofSeen(s)
    /\ \/ Proof(s) /\ Goto(s, "run-down")
       \/ Goto(s, "finally")
    /\ UNCHANGED <<labVars, open, answer, retained, setup, owned, swept, mine, eventVars>>

DownReturns(s) ==
    /\ pc[s] = "down" /\ answer[s] # "none"
    /\ \/ answer[s] = "ok" /\ Goto(s, "run-baseline")
       \/ Goto(s, "finally")
    /\ UNCHANGED <<labVars, lifeVars, eventVars>>

(* The baseline is verified, then compared with what G0 read.              *)
BaselineReturns(s) ==
    /\ pc[s] = "baseline" /\ answer[s] # "none"
    /\ \/ answer[s] = "ok" /\ Baseline /\ owned' = Set(owned, s, FALSE)
       \/ UNCHANGED owned
    /\ Goto(s, "finally")
    /\ UNCHANGED <<labVars, open, lost, answer, retained, setup, swept, mine, eventVars>>

(* The release intent, then the event log's descriptor, whose failure is   *)
(* a loss of authority.                                                    *)
Finally(s) ==
    /\ pc[s] = "finally"
    /\ lost' \in {Set(lost, s, ~Proof(s)), Set(lost, s, TRUE)}
    /\ Goto(s, "release")
    /\ UNCHANGED <<labVars, open, answer, retained, setup, owned, swept, mine, eventVars>>

(* Mutant: the release unlocks the file, whoever still has it open.        *)
Mutant_Unlocked_Outright(s) == 0

(* No LOCK_UN: a descendant that has FD 9 keeps the flock.                 *)
Unlocked(s) == IF child[s] # NoChild THEN lock[s] ELSE 0

(* _release_lock: descriptors that may be foreign are never closed.        *)
Release(s) ==
    /\ pc[s] = "release"
    /\ ProofSeen(s)
    /\ IF Proof(s)
       THEN open' = Set(open, s, FALSE) /\ lock' = Set(lock, s, Unlocked(s))
       ELSE UNCHANGED <<open, lock>>
    /\ Goto(s, "closed")
    /\ UNCHANGED <<m03, x05, lockfile, child, answer, retained, setup, owned, swept, mine,
                   eventVars>>

(* The process ends, after close or in the middle of anything; its memory  *)
(* goes with it and nobody reads its event log again; its child lives on.  *)
Exit(s) ==
    /\ pc[s] \notin {"out", "gone"}
    /\ Goto(s, "gone")
    /\ lock' = Set(lock, s, IF child[s] # NoChild THEN lock[s] ELSE 0)
    /\ open' = Set(open, s, FALSE) /\ lost' = Set(lost, s, FALSE)
    /\ answer' = Set(answer, s, "none") /\ retained' = Set(retained, s, FALSE)
    /\ setup' = Set(setup, s, FALSE) /\ owned' = Set(owned, s, FALSE)
    /\ swept' = Set(swept, s, FALSE) /\ mine' = Set(mine, s, "none")
    /\ prepared' = Set(prepared, s, "void") /\ failed' = Set(failed, s, FALSE)
    /\ log' = Set(log, s, 0) /\ mem' = Set(mem, s, 0) /\ head' = Set(head, s, 0)
    /\ accepted' = Set(accepted, s, 0) /\ refused' = Set(refused, s, FALSE)
    /\ UNCHANGED <<m03, x05, lockfile, child>>

-----------------------------------------------------------------------------
(* What a call that has been made does next, and the calls.                *)
Inside(s) ==
    \/ GivenUp(s) \/ G0(s) \/ UpIntent(s) \/ RunCommand(s) \/ CommandRefused(s)
    \/ UpReturns(s) \/ Discover(s) \/ VerifyReturns(s) \/ Collect(s) \/ Publish(s)
    \/ PrepareFails(s) \/ RecordAppended(s) \/ RecordReturned(s) \/ Effect(s)
    \/ (pc[s] # "open" /\ ExecutionFails(s))
    \/ Sweep(s) \/ Readback(s) \/ DownIntent(s) \/ DownReturns(s) \/ BaselineReturns(s)
    \/ Finally(s) \/ Release(s)

Calls(s) ==
    \/ Enter(s) \/ EnterFails(s) \/ Prepare(s) \/ Consume(s) \/ ConsumeFails(s)
    \/ ExecutionVerified(s) \/ (pc[s] = "open" /\ ExecutionFails(s))
    \/ Close(s) \/ CloseRaises(s)

Child(a) == ChildBegins(a) \/ ChildWorks(a) \/ ChildEnds(a)

Next ==
    \/ \E s \in Sessions : Inside(s) \/ Calls(s) \/ Exit(s)
    \/ \E a \in Actors : Child(a)
    \/ OperatorRuns
    \/ LockReplaced

Spec == Init /\ [][Next]_vars

-----------------------------------------------------------------------------
(* Properties                                                              *)

(* Unless the lock's file was exchanged, no two processes are changing the *)
(* lab at once: a session's labctl, one it gave up or left behind, and the *)
(* operator's exclude each other, and whoever works holds the lock.        *)
OneMutator ==
    lockfile = 1 =>
        \A a, b \in Actors :
            child[a] # NoChild /\ b # a => child[b] = NoChild /\ (b \in Sessions => ~open[b])

(* M03 is taken down only by the session that brought it up or by the      *)
(* operator: what a session had to keep, after an incident or a crash, no  *)
(* later session removes (G0 refuses a lab that has any of it).            *)
KeptM03Stays ==
    [][(lockfile = 1 /\ m03' # m03 /\ m03 # Absent)
         => \E a \in {m03[1], "operator"} \cap Actors : child[a] # NoChild]_vars

(* While an X05 marker exists the substrate under the runtime is not       *)
(* touched: dci_x05_guard would let the marker's own session through, so   *)
(* only close's own look at the marker protects a runtime left behind.     *)
SubstrateStays == [][lockfile = 1 /\ x05 # "none" => m03' = m03]_vars

(* After one check of the state that failed, or one record of unknown      *)
(* outcome, the capability authorises nothing again, though the same check *)
(* would pass later: no record is accepted and no marker appears.  (An     *)
(* argument that is refused by its form alone says nothing of the state,   *)
(* and leaves the capability as it was.)                                   *)
RefusalIsFinal ==
    [][\A s \in Sessions :
        refused[s] => accepted'[s] <= accepted[s] /\ (x05' = s => x05 = s)]_vars

(* No record that was returned to a caller is missing from the log; and    *)
(* while the capability may be used the log holds no other but the consume *)
(* record: one that became durable although its call raised has ended it.  *)
AcceptedIsDurable ==
    \A s \in Sessions :
        /\ accepted[s] <= log[s]
        /\ prepared[s] = "consumed" /\ ~failed[s] /\ pc[s] = "open" => log[s] = accepted[s] + 1
==============================================================================

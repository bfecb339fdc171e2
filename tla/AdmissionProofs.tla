--------------------------- MODULE AdmissionProofs ---------------------------
(***************************************************************************)
(* Proofs about the admission producer, for any set of sessions.  The      *)
(* inductive invariant has these parts:                                    *)
(*   Locks    who has the flock, against the children that inherited it    *)
(*            and the descriptors that are open;                           *)
(*   Events   the durable log, the live chain and the capability's head,   *)
(*            against what was returned to the caller;                     *)
(*   SessionsWork  what a session has when it runs a command or hands out  *)
(*            the capability;                                              *)
(*   OwnSubstrate  what there is of M03 belongs to the session that works  *)
(*            on it;                                                       *)
(*   MarkerAlone   no command is at work under an X05 marker.              *)
(***************************************************************************)
EXTENDS Admission, TLAPS

LockTypes ==
    /\ lockfile \in {1, 2}
    /\ lock \in [Actors -> 0 .. 2]
    /\ child \in [Actors -> {NoChild} \cup (Commands \X {"new", "working"})]
    /\ open \in [Sessions -> BOOLEAN]

(* A flock belongs to one open file description, and everybody who may     *)
(* change the lab, now or later, has one.                                  *)
Locks ==
    /\ LockTypes
    /\ \A a \in Actors : child[a] # NoChild => lock[a] # 0
    /\ \A s \in Sessions : open[s] => lock[s] # 0
    /\ \A a, b \in Actors : a # b /\ lock[a] # 0 => lock[a] # lock[b]
    /\ lockfile = 1 => \A a \in Actors : lock[a] # 2

lockVars == <<lockfile, lock, child, open>>

LEMMA LocksInit == Init => Locks
<1> SUFFICES ASSUME Init PROVE Locks
  OBVIOUS
<1>1. LockTypes
  BY DEF Init, LockTypes, NoChild
<1> QED
  BY <1>1 DEF Init, Locks

LEMMA LocksQuiet == Locks /\ UNCHANGED lockVars => Locks'
  BY DEF Locks, LockTypes, lockVars

(* a's command ends, or its process goes: a keeps the lock or gives it up. *)
LEMMA LocksGiven ==
    ASSUME Locks, NEW a \in Actors, lockfile' = lockfile,
           child' \in [Actors -> {NoChild} \cup (Commands \X {"new", "working"})],
           open' \in [Sessions -> BOOLEAN],
           \A b \in Actors : child'[b] # NoChild => child[b] # NoChild,
           \A s \in Sessions : open'[s] => open[s],
           \/ lock' = lock
           \/ /\ lock' = [lock EXCEPT ![a] = 0]
              /\ child'[a] = NoChild /\ (a \in Sessions => ~open'[a])
    PROVE  Locks'
<1>1. CASE lock' = lock
  BY <1>1 DEF Locks, LockTypes
<1>2. CASE /\ lock' = [lock EXCEPT ![a] = 0]
           /\ child'[a] = NoChild /\ (a \in Sessions => ~open'[a])
  <2>1. LockTypes'
    BY <1>2 DEF Locks, LockTypes
  <2>2. \A b \in Actors : lock'[b] = IF b = a THEN 0 ELSE lock[b]
    BY <1>2 DEF Locks, LockTypes
  <2>3. Sessions \subseteq Actors
    BY DEF Actors
  <2> QED
    BY <1>2, <2>1, <2>2, <2>3 DEF Locks
<1> QED
  BY <1>1, <1>2

(* a takes the lock file, which nobody has locked.                         *)
LEMMA LocksTaken ==
    ASSUME Locks, NEW a \in Actors, ~Locked(lockfile), lockfile' = lockfile,
           lock' = [lock EXCEPT ![a] = lockfile],
           child' \in [Actors -> {NoChild} \cup (Commands \X {"new", "working"})],
           open' \in [Sessions -> BOOLEAN],
           \A b \in Actors \ {a} : child'[b] = child[b],
           \A s \in Sessions \ {a} : open'[s] = open[s]
    PROVE  Locks'
<1>0. lockfile \in 0 .. 2 /\ lockfile \in {1, 2}
  BY DEF Locks, LockTypes
<1>1. LockTypes'
  BY <1>0 DEF Locks, LockTypes
<1>2. \A b \in Actors : lock'[b] = IF b = a THEN lockfile ELSE lock[b]
  BY DEF Locks, LockTypes
<1>3. \A b \in Actors : lock[b] # lockfile
  BY DEF Locked
<1>4. Sessions \subseteq Actors
  BY DEF Actors
<1>5. lockfile # 0
  BY DEF Locks, LockTypes
<1> QED
  BY <1>1, <1>2, <1>3, <1>4, <1>5 DEF Locks, LockTypes

LEMMA LocksStep == Locks /\ Next => Locks'
<1> SUFFICES ASSUME Locks, Next PROVE Locks'
  OBVIOUS
<1> USE DEF Set
<1>0. Sessions \subseteq Actors
  BY DEF Actors
<1>1. ASSUME NEW s \in Sessions, Inside(s) PROVE Locks'
  <2>1. CASE GivenUp(s)
    <3>1. child' \in [Actors -> {NoChild} \cup (Commands \X {"new", "working"})]
          /\ \A b \in Actors : child'[b] # NoChild => child[b] # NoChild
      BY <2>1, <1>0 DEF GivenUp, Locks, LockTypes
    <3> QED
      BY <2>1, <1>0, <3>1, LocksGiven DEF GivenUp, Locks, LockTypes
  <2>2. CASE RunCommand(s)
    <3>1. PICK cmd \in Commands : Labctl(s, cmd)
      BY <2>2 DEF RunCommand, Commands
    <3>2. /\ child' = [child EXCEPT ![s] = <<cmd, "new">>]
          /\ lock[s] = lockfile /\ UNCHANGED <<lockfile, lock, open>>
      BY <2>2, <3>1 DEF RunCommand, Labctl, Proof
    <3>3. LockTypes' /\ lockfile # 0
      <4>1. <<cmd, "new">> \in Commands \X {"new", "working"}
        BY <3>1
      <4>2. child' \in [Actors -> {NoChild} \cup (Commands \X {"new", "working"})]
        BY <3>2, <4>1 DEF Locks, LockTypes
      <4> QED
        BY <3>2, <4>2 DEF Locks, LockTypes
    <3>4. \A b \in Actors : b # s => child'[b] = child[b]
      BY <3>2, <1>0 DEF Locks, LockTypes
    <3> QED
      BY <3>2, <3>3, <3>4 DEF Locks
  <2>3. CASE Release(s)
    <3>1. CASE UNCHANGED <<open, lock>>
      BY <2>3, <3>1, LocksQuiet DEF Release, lockVars
    <3>2. CASE open' = [open EXCEPT ![s] = FALSE] /\ lock' = [lock EXCEPT ![s] = Unlocked(s)]
      <4>1. open' \in [Sessions -> BOOLEAN] /\ ~open'[s]
            /\ \A r \in Sessions : open'[r] => open[r]
        BY <3>2 DEF Locks, LockTypes
      <4>2. UNCHANGED <<child, lockfile>>
        BY <2>3 DEF Release
      <4>3. CASE child[s] # NoChild
        <5>1. lock' = lock
          BY <1>0, <3>2, <4>3 DEF Unlocked, Locks, LockTypes
        <5> QED
          BY <1>0, <4>1, <4>2, <5>1, LocksGiven DEF Locks, LockTypes
      <4>4. CASE child[s] = NoChild
        <5>1. lock' = [lock EXCEPT ![s] = 0]
          BY <3>2, <4>4 DEF Unlocked
        <5> QED
          BY <1>0, <4>1, <4>2, <4>4, <5>1, LocksGiven DEF Locks, LockTypes
      <4> QED
        BY <4>3, <4>4
    <3> QED
      BY <2>3, <3>1, <3>2 DEF Release
  <2>4. CASE UNCHANGED lockVars
    BY <2>4, LocksQuiet
  <2> QED
    BY <1>1, <2>1, <2>2, <2>3, <2>4 DEF Inside, G0, UpIntent, CommandRefused, UpReturns,
        Discover, VerifyReturns, Collect, Publish, PrepareFails, RecordAppended,
        RecordReturned, Effect, ExecutionFails, Sweep, Readback, DownIntent, DownReturns,
        BaselineReturns, Finally, labVars, lifeVars, lockVars
<1>2. ASSUME NEW s \in Sessions, Calls(s) PROVE Locks'
  <2>1. CASE Enter(s)
    BY <1>0, <2>1, LocksTaken DEF Enter, LockFree, Locks, LockTypes
  <2>2. CASE UNCHANGED lockVars
    BY <2>2, LocksQuiet
  <2> QED
    BY <1>2, <2>1, <2>2 DEF Calls, EnterFails, Prepare, Consume, ConsumeFails,
        ExecutionVerified, ExecutionFails, Close, CloseRaises, labVars, lifeVars, lockVars
<1>3. ASSUME NEW s \in Sessions, Exit(s) PROVE Locks'
  <2>1. /\ open' = [open EXCEPT ![s] = FALSE] /\ UNCHANGED <<child, lockfile>>
        /\ lock' = [lock EXCEPT ![s] = IF child[s] # NoChild THEN lock[s] ELSE 0]
    BY <1>3 DEF Exit
  <2>2. open' \in [Sessions -> BOOLEAN] /\ ~open'[s] /\ \A r \in Sessions : open'[r] => open[r]
    BY <2>1 DEF Locks, LockTypes
  <2>3. CASE child[s] # NoChild
    <3>1. lock' = lock
      BY <1>0, <2>1, <2>3 DEF Locks, LockTypes
    <3> QED
      BY <1>0, <2>1, <2>2, <3>1, LocksGiven DEF Locks, LockTypes
  <2>4. CASE child[s] = NoChild
    BY <1>0, <2>1, <2>2, <2>4, LocksGiven DEF Locks, LockTypes
  <2> QED
    BY <2>3, <2>4
<1>4. ASSUME NEW a \in Actors, Child(a) PROVE Locks'
  <2>1. CASE ChildBegins(a)
    <3>1. /\ child' = [child EXCEPT ![a] = <<child[a][1], "working">>]
          /\ child[a][2] = "new" /\ UNCHANGED <<lockfile, lock, open>>
      BY <2>1 DEF ChildBegins, lifeVars
    <3>2. child[a] \in Commands \X {"new", "working"}
      BY <3>1 DEF Locks, LockTypes, NoChild
    <3>3. child' \in [Actors -> {NoChild} \cup (Commands \X {"new", "working"})]
      BY <3>1, <3>2 DEF Locks, LockTypes
    <3>4. \A b \in Actors : child'[b] # NoChild => child[b] # NoChild
      BY <3>1, <3>2 DEF Locks, LockTypes, NoChild, Commands
    <3> QED
      BY <3>1, <3>3, <3>4, LocksGiven DEF Locks, LockTypes
  <2>2. CASE ChildWorks(a)
    BY <2>2, LocksQuiet DEF ChildWorks, lifeVars, lockVars
  <2>3. CASE ChildEnds(a)
    <3>1. /\ child' = [child EXCEPT ![a] = NoChild] /\ UNCHANGED <<lockfile, open>>
          /\ lock' = [lock EXCEPT ![a] = AfterChild(a)]
      BY <2>3 DEF ChildEnds
    <3>2. /\ child' \in [Actors -> {NoChild} \cup (Commands \X {"new", "working"})]
          /\ child'[a] = NoChild
          /\ \A b \in Actors : child'[b] # NoChild => child[b] # NoChild
      BY <3>1 DEF Locks, LockTypes
    <3>3. CASE a \in Sessions /\ open[a]
      <4>1. lock' = lock
        BY <3>1, <3>3 DEF AfterChild, Locks, LockTypes
      <4> QED
        BY <3>1, <3>2, <4>1, LocksGiven DEF Locks, LockTypes
    <3>4. CASE ~(a \in Sessions /\ open[a])
      <4>1. lock' = [lock EXCEPT ![a] = 0]
        BY <3>1, <3>4 DEF AfterChild
      <4> QED
        BY <3>1, <3>2, <3>4, <4>1, LocksGiven DEF Locks, LockTypes
    <3> QED
      BY <3>3, <3>4
  <2> QED
    BY <1>4, <2>1, <2>2, <2>3 DEF Child
<1>5. CASE OperatorRuns
  <2>1. PICK cmd \in {"up", "down"} : child' = [child EXCEPT !["operator"] = <<cmd, "new">>]
    BY <1>5 DEF OperatorRuns
  <2>2. "operator" \in Actors /\ "operator" \notin Sessions
    BY SessionsAssumption DEF Actors
  <2>3. child' \in [Actors -> {NoChild} \cup (Commands \X {"new", "working"})]
    BY <2>1 DEF Locks, LockTypes, Commands
  <2>4. \A b \in Actors \ {"operator"} : child'[b] = child[b]
    BY <2>1 DEF Locks, LockTypes
  <2> QED
    BY <1>5, <2>2, <2>3, <2>4, LocksTaken DEF OperatorRuns, lifeVars, Locks, LockTypes
<1>6. CASE LockReplaced
  BY <1>6 DEF LockReplaced, lifeVars, Locks, LockTypes
<1> QED
  BY <1>1, <1>2, <1>3, <1>4, <1>5, <1>6 DEF Next

(* Unless the lock's file was exchanged, a session's labctl, one that it   *)
(* gave up or left behind, and the operator's never work at the same time, *)
(* whatever timeouts, crashes and releases come between.                   *)
THEOREM MutatorsExcludeEachOther == Spec => []OneMutator
<1>1. Locks => OneMutator
  <2> SUFFICES ASSUME Locks, lockfile = 1, NEW a \in Actors, NEW b \in Actors,
                      child[a] # NoChild, b # a
               PROVE  child[b] = NoChild /\ (b \in Sessions => ~open[b])
    BY DEF OneMutator
  <2>1. lock[a] = 1
    BY DEF Locks, LockTypes
  <2>2. lock[b] = 0
    BY <2>1 DEF Locks, LockTypes
  <2> QED
    BY <2>2 DEF Locks
<1>2. Locks /\ UNCHANGED vars => Locks'
  BY LocksQuiet DEF vars, labVars, lifeVars, lockVars
<1> QED
  BY <1>1, <1>2, LocksInit, LocksStep, PTL DEF Spec

-----------------------------------------------------------------------------
(* The event log of one session.  The chain has one record for the consume *)
(* and one for each record accepted; an error may leave the file one ahead,*)
(* and is remembered, so that nothing is checked or recorded after it.     *)
Preparing == {"g0", "up-intent", "run-up", "up", "discover", "run-verify", "verify",
              "collect", "publish"}
Trusted == {"verified", "append", "recheck"}
Labels == Preparing \cup Trusted \cup
          {"out", "open", "gone", "sweep", "readback", "down-intent", "run-down", "down",
           "run-baseline", "baseline", "finally", "release", "closed"}

EventTypes ==
    /\ pc \in [Sessions -> Labels]
    /\ prepared \in [Sessions -> {"untried", "none", "active", "consumed", "void"}]
    /\ failed \in [Sessions -> BOOLEAN] /\ refused \in [Sessions -> BOOLEAN]
    /\ log \in [Sessions -> Nat] /\ mem \in [Sessions -> Nat]
    /\ head \in [Sessions -> Nat] /\ accepted \in [Sessions -> Nat]

EventsAt(s) ==
    /\ accepted[s] <= mem[s] /\ mem[s] <= log[s]
    /\ refused[s] => failed[s]
    /\ pc[s] \in Trusted => prepared[s] = "consumed" /\ ~failed[s]
    /\ pc[s] \in Preparing => prepared[s] = "none"
    /\ prepared[s] \notin {"consumed", "void"} => accepted[s] = 0 /\ mem[s] = 0 /\ head[s] = 0
    /\ prepared[s] = "consumed" /\ ~failed[s] =>
        /\ head[s] = accepted[s] + 1
        /\ log[s] = mem[s]
        /\ mem[s] = IF pc[s] = "recheck" THEN head[s] + 1 ELSE head[s]

Events == EventTypes /\ \A s \in Sessions : EventsAt(s)

LEMMA EventsInit == Init => Events
<1> SUFFICES ASSUME Init PROVE Events
  OBVIOUS
<1>1. EventTypes
  BY DEF Init, EventTypes, Labels
<1>2. ASSUME NEW s \in Sessions PROVE EventsAt(s)
  BY DEF Init, EventsAt, Trusted, Preparing
<1> QED
  BY <1>1, <1>2 DEF Events

LEMMA EventsQuiet == Events /\ UNCHANGED <<pc, eventVars>> => Events'
  BY DEF Events, EventTypes, EventsAt, eventVars

(* s moves on, and no record is written.                                   *)
LEMMA EventsMoved ==
    ASSUME Events, NEW s \in Sessions, NEW l \in Labels, pc' = Set(pc, s, l),
           UNCHANGED eventVars, pc[s] # "recheck", l # "recheck",
           l \in Preparing => pc[s] \in Preparing,
           l \in Trusted => Capable(s)
    PROVE  Events'
<1>1. EventTypes'
  BY DEF Events, EventTypes, eventVars, Set
<1>2. \A r \in Sessions : pc'[r] = IF r = s THEN l ELSE pc[r]
  BY DEF Events, EventTypes, Set
<1> QED
  BY <1>1, <1>2 DEF Events, EventsAt, eventVars, Capable

(* A step of s that leaves the others' events as they are.                 *)
LEMMA EventsOfOne ==
    ASSUME Events, NEW s \in Sessions, EventTypes', EventsAt(s)',
           \A r \in Sessions \ {s} :
               /\ pc'[r] = pc[r] /\ prepared'[r] = prepared[r] /\ failed'[r] = failed[r]
               /\ log'[r] = log[r] /\ mem'[r] = mem[r] /\ head'[r] = head[r]
               /\ accepted'[r] = accepted[r] /\ refused'[r] = refused[r]
    PROVE  Events'
  BY DEF Events, EventsAt

(* A refused check or record is remembered, whatever it left in the file.  *)
LEMMA EventsFail ==
    ASSUME Events, NEW s \in Sessions, ExecutionFails(s)
    PROVE  Events' /\ failed'[s]
<1> USE DEF Goto, Set, Labels, Preparing, Trusted
<1>1. /\ prepared[s] = "consumed" /\ pc' = [pc EXCEPT ![s] = "open"]
      /\ failed' = [failed EXCEPT ![s] = TRUE] /\ refused' = [refused EXCEPT ![s] = TRUE]
      /\ log' \in {log, [log EXCEPT ![s] = log[s] + 1]}
      /\ UNCHANGED <<prepared, mem, head, accepted>>
  BY DEF ExecutionFails, Remember, AppendFails, Events, EventsAt
<1>2. EventTypes'
  BY <1>1 DEF Events, EventTypes
<1>3. failed'[s] /\ pc'[s] = "open"
  BY <1>1 DEF Events, EventTypes
<1>4. EventsAt(s)'
  BY <1>1, <1>3 DEF Events, EventTypes, EventsAt
<1>5. \A r \in Sessions \ {s} :
        /\ pc'[r] = pc[r] /\ prepared'[r] = prepared[r] /\ failed'[r] = failed[r]
        /\ log'[r] = log[r] /\ mem'[r] = mem[r] /\ head'[r] = head[r]
        /\ accepted'[r] = accepted[r] /\ refused'[r] = refused[r]
  BY <1>1 DEF Events, EventTypes
<1> QED
  BY <1>2, <1>3, <1>4, <1>5, EventsOfOne

LEMMA EventsStep == Events /\ Next => Events'
<1> SUFFICES ASSUME Events, Next PROVE Events'
  OBVIOUS
<1> USE DEF Goto, Set
<1>1. ASSUME NEW s \in Sessions, Inside(s) PROVE Events'
  <2> USE DEF Preparing, Trusted, Labels
  <2>1. CASE GivenUp(s) \/ Sweep(s) \/ Readback(s) \/ DownReturns(s)
             \/ BaselineReturns(s) \/ Finally(s) \/ Release(s) \/ DownIntent(s)
    BY <2>1, EventsMoved, EventsQuiet DEF GivenUp, Sweep, Readback, DownReturns,
        BaselineReturns, Finally, Release, DownIntent, eventVars, Commands
  <2>2. CASE G0(s) \/ UpIntent(s) \/ UpReturns(s) \/ VerifyReturns(s) \/ Collect(s)
             \/ PrepareFails(s)
    BY <2>2, EventsMoved DEF G0, UpIntent, UpReturns, VerifyReturns, Collect, PrepareFails
  <2>3. CASE RunCommand(s)
    BY <2>3, EventsMoved DEF RunCommand, Labctl
  <2>4. CASE CommandRefused(s)
    BY <2>4, EventsMoved DEF CommandRefused
  <2>5. CASE Discover(s)
    BY <2>5, EventsMoved DEF Discover
  <2>6. CASE Effect(s)
    BY <2>6, EventsMoved DEF Effect
  <2>7. CASE Publish(s)
    <3>1. EventTypes'
      BY <2>7 DEF Publish, Events, EventTypes, eventVars
    <3>2. EventsAt(s)'
      BY <2>7 DEF Publish, Events, EventTypes, EventsAt
    <3> QED
      BY <2>7, <3>1, <3>2, EventsOfOne DEF Publish, Events, EventTypes
  <2>8. CASE RecordAppended(s)
    <3>1. EventTypes'
      BY <2>8 DEF RecordAppended, Append, Events, EventTypes, lifeVars
    <3>2. EventsAt(s)'
      BY <2>8 DEF RecordAppended, Append, Events, EventTypes, EventsAt
    <3> QED
      BY <2>8, <3>1, <3>2, EventsOfOne DEF RecordAppended, Append, Events, EventTypes
  <2>9. CASE RecordReturned(s)
    <3>1. EventTypes'
      BY <2>9 DEF RecordReturned, Events, EventTypes
    <3>2. EventsAt(s)'
      BY <2>9 DEF RecordReturned, StateHolds, ChainAt, Events, EventTypes, EventsAt
    <3> QED
      BY <2>9, <3>1, <3>2, EventsOfOne DEF RecordReturned, Events, EventTypes
  <2>10. CASE ExecutionFails(s)
    BY <2>10, EventsFail
  <2> QED
    BY <1>1, <2>1, <2>2, <2>3, <2>4, <2>5, <2>6, <2>7, <2>8, <2>9, <2>10 DEF Inside
<1>2. ASSUME NEW s \in Sessions, Calls(s) PROVE Events'
  <2> USE DEF Preparing, Trusted, Labels
  <2>1. CASE Enter(s) \/ EnterFails(s) \/ ExecutionVerified(s)
    BY <2>1, EventsMoved DEF Enter, EnterFails, ExecutionVerified
  <2>2. CASE Prepare(s)
    <3>1. CASE Proof(s)
      <4>1. EventTypes'
        BY <2>2, <3>1 DEF Prepare, Events, EventTypes
      <4>2. EventsAt(s)'
        BY <2>2, <3>1 DEF Prepare, Events, EventTypes, EventsAt
      <4> QED
        BY <2>2, <3>1, <4>1, <4>2, EventsOfOne DEF Prepare, Events, EventTypes
    <3>2. CASE ~Proof(s)
      BY <2>2, <3>2, EventsQuiet DEF Prepare, eventVars
    <3> QED
      BY <3>1, <3>2
  <2>3. CASE Consume(s)
    <3>1. EventTypes'
      BY <2>3 DEF Consume, Append, Events, EventTypes
    <3>2. EventsAt(s)'
      BY <2>3 DEF Consume, Append, ChainAt, Events, EventTypes, EventsAt
    <3> QED
      BY <2>3, <3>1, <3>2, EventsOfOne DEF Consume, Append, Events, EventTypes
  <2>4. CASE ConsumeFails(s)
    <3>1. EventTypes'
      BY <2>4 DEF ConsumeFails, AppendFails, Events, EventTypes
    <3>2. EventsAt(s)'
      BY <2>4 DEF ConsumeFails, AppendFails, Events, EventTypes, EventsAt
    <3> QED
      BY <2>4, <3>1, <3>2, EventsOfOne DEF ConsumeFails, AppendFails, Events, EventTypes
  <2>5. CASE ExecutionFails(s)
    BY <2>5, EventsFail
  <2>6. CASE Close(s) \/ CloseRaises(s)
    <3>1. EventTypes'
      BY <2>6 DEF Close, CloseRaises, Events, EventTypes
    <3>2. EventsAt(s)'
      BY <2>6 DEF Close, CloseRaises, Events, EventTypes, EventsAt
    <3> QED
      BY <2>6, <3>1, <3>2, EventsOfOne DEF Close, CloseRaises, Events, EventTypes
  <2> QED
    BY <1>2, <2>1, <2>2, <2>3, <2>4, <2>5, <2>6 DEF Calls
<1>3. ASSUME NEW s \in Sessions, Exit(s) PROVE Events'
  <2>1. EventTypes'
    BY <1>3 DEF Exit, Events, EventTypes, Labels
  <2>2. EventsAt(s)'
    BY <1>3 DEF Exit, Events, EventTypes, EventsAt, Trusted, Preparing
  <2> QED
    BY <1>3, <2>1, <2>2, EventsOfOne DEF Exit, Events, EventTypes
<1>4. CASE OperatorRuns \/ LockReplaced \/ \E a \in Actors : Child(a)
  BY <1>4, EventsQuiet DEF OperatorRuns, LockReplaced, Child, ChildBegins, ChildWorks, ChildEnds
<1> QED
  BY <1>1, <1>2, <1>3, <1>4 DEF Next

(* Whatever a caller was told is recorded is in the file, and a capability *)
(* that nothing has spoilt has a file that ends where the caller is.       *)
THEOREM AcceptedRecordsAreDurable == Spec => []AcceptedIsDurable
<1>1. Events => AcceptedIsDurable
  <2> SUFFICES ASSUME Events, NEW s \in Sessions
               PROVE  /\ accepted[s] <= log[s]
                      /\ prepared[s] = "consumed" /\ ~failed[s] /\ pc[s] = "open"
                            => log[s] = accepted[s] + 1
    BY DEF AcceptedIsDurable
  <2>1. EventsAt(s) /\ log[s] \in Nat /\ mem[s] \in Nat /\ head[s] \in Nat /\ accepted[s] \in Nat
    BY DEF Events, EventTypes
  <2> QED
    BY <2>1 DEF EventsAt
<1>2. Events /\ UNCHANGED vars => Events'
  BY EventsQuiet DEF vars
<1> QED
  BY <1>1, <1>2, EventsInit, EventsStep, PTL DEF Spec

(* A capability that was once refused authorises no record and no marker   *)
(* any more, even if every later check would pass.                         *)
THEOREM RefusalsAreFinal == Spec => RefusalIsFinal
<1> DEFINE Kept == \A s \in Sessions :
        refused[s] => accepted'[s] <= accepted[s] /\ (x05' = s => x05 = s)
<1>1. Events /\ Next => Kept
  <2> SUFFICES ASSUME Events, Next, NEW s \in Sessions, refused[s]
               PROVE  accepted'[s] <= accepted[s] /\ (x05' = s => x05 = s)
    OBVIOUS
  <2>1. accepted[s] \in Nat /\ pc[s] \notin Trusted
    BY DEF Events, EventTypes, EventsAt
  <2>2. CASE UNCHANGED <<accepted, x05>>
    BY <2>1, <2>2
  <2>3. ASSUME NEW r \in Sessions, RecordReturned(r)
        PROVE  accepted'[s] <= accepted[s] /\ (x05' = s => x05 = s)
    <3>1. r # s
      BY <2>1, <2>3 DEF RecordReturned, Trusted
    <3>2. accepted'[s] = accepted[s] /\ x05' = x05
      BY <2>3, <3>1 DEF RecordReturned, Set, labVars, Events, EventTypes
    <3> QED
      BY <2>1, <3>2
  <2>4. ASSUME NEW r \in Sessions, Effect(r)
        PROVE  accepted'[s] <= accepted[s] /\ (x05' = s => x05 = s)
    <3>0. s # "none"
      BY SessionsAssumption
    <3>1. r # s
      BY <2>1, <2>4 DEF Effect, Trusted
    <3>2. accepted' = accepted /\ x05' \in {r, "none", x05}
      BY <2>4 DEF Effect, eventVars
    <3> QED
      BY <2>1, <3>0, <3>1, <3>2
  <2>5. ASSUME NEW r \in Sessions, Exit(r)
        PROVE  accepted'[s] <= accepted[s] /\ (x05' = s => x05 = s)
    <3>1. accepted'[s] \in {0, accepted[s]} /\ x05' = x05
      BY <2>5 DEF Exit, Set, Events, EventTypes
    <3> QED
      BY <2>1, <3>1
  <2>6. ASSUME NEW r \in Sessions, Inside(r) \/ Calls(r)
        PROVE  UNCHANGED <<accepted, x05>> \/ RecordReturned(r) \/ Effect(r)
    BY <2>6 DEF Inside, Calls, labVars, eventVars, GivenUp, G0, UpIntent, RunCommand,
        CommandRefused, UpReturns, Discover, VerifyReturns, Collect, Publish, PrepareFails,
        RecordAppended, ExecutionFails, Sweep, Readback, DownIntent, DownReturns,
        BaselineReturns, Finally, Release, Enter, EnterFails, Prepare, Consume, ConsumeFails,
        ExecutionVerified, Close, CloseRaises
  <2>7. CASE OperatorRuns \/ LockReplaced \/ \E a \in Actors : Child(a)
    BY <2>2, <2>7 DEF OperatorRuns, LockReplaced, Child, ChildBegins, ChildWorks, ChildEnds,
        eventVars
  <2> QED
    BY <2>2, <2>3, <2>4, <2>5, <2>6, <2>7 DEF Next
<1>2. Events /\ UNCHANGED vars => Events' /\ (UNCHANGED vars \/ Kept)
  BY EventsQuiet DEF vars
<1>3. Events /\ [Next]_vars => [Kept]_vars
  BY <1>1
<1> QED
  BY <1>2, <1>3, EventsInit, EventsStep, PTL DEF Spec, RefusalIsFinal
-----------------------------------------------------------------------------
(* M03 and the X05 marker.  First the session: it has its lock descriptor  *)
(* until the release, has attempted its setup when it runs a command, and  *)
(* has no command left when it hands out the capability.                   *)
Commanding == {"run-up", "up", "discover", "run-verify", "verify", "collect", "publish", "sweep",
               "readback", "down-intent", "run-down", "down", "run-baseline", "baseline"}

SessionTypes ==
    /\ setup \in [Sessions -> BOOLEAN]
    /\ answer \in [Sessions -> {"none", "ok", "failed", "unknown"}]

SessionAt(s) ==
    /\ pc[s] \notin {"out", "gone", "closed"} => open[s]
    /\ pc[s] \in Commanding => setup[s]
    /\ pc[s] = "out" => ~setup[s]
    /\ pc[s] = "verify" /\ answer[s] = "ok" => child[s] = NoChild
    /\ pc[s] \in {"collect", "publish"} \/ prepared[s] \in {"active", "consumed"} => child[s] = NoChild
    /\ prepared[s] \in {"active", "consumed"} => pc[s] \in {"open"} \cup Trusted
SessionsWork == SessionTypes /\ \A s \in Sessions : SessionAt(s)

(* From G0's look at a lab without M03 until its lock is free again, what  *)
(* there is of M03 is the session's own.                                   *)
Setting(s) == (setup[s] /\ open[s]) \/ pc[s] = "up-intent" \/ child[s] # NoChild
OwnSubstrate ==
    lockfile = 1 => \A s \in Sessions : Setting(s) => m03 = Absent \/ m03[1] = s

(* A marker is one session's, which will run no command any more, and no   *)
(* command is at work.                                                     *)
Settled == {"open", "sweep", "finally", "release", "closed", "gone"} \cup Trusted
MarkerAlone ==
    lockfile = 1 /\ x05 # "none" =>
        /\ x05 \in Sessions /\ child[x05] = NoChild /\ pc[x05] \in Settled
        /\ prepared[x05] \in {"consumed", "void"}
        /\ \A a \in Actors : child[a][2] # "working"

LEMMA SessionsInit == Init => SessionsWork /\ OwnSubstrate /\ MarkerAlone
<1> SUFFICES ASSUME Init PROVE SessionsWork /\ OwnSubstrate /\ MarkerAlone
  OBVIOUS
<1>1. SessionTypes
  BY DEF Init, SessionTypes
<1>2. /\ \A s \in Sessions : child[s] = NoChild /\ pc[s] = "out" /\ prepared[s] = "untried"
      /\ x05 = "none" /\ m03 = Absent
  BY DEF Init, Actors
<1>3. \A s \in Sessions : ~setup[s]
  BY DEF Init
<1>4. SessionsWork
  BY <1>1, <1>2, <1>3 DEF SessionsWork, SessionAt, Commanding
<1> QED
  BY <1>2, <1>4 DEF OwnSubstrate, MarkerAlone

(* A session's step is about that session: the others keep their state,    *)
(* their descriptors and their commands.                                   *)
LEMMA StepOfOne ==
    ASSUME Locks, Events, SessionsWork, NEW s \in Sessions, Inside(s) \/ Calls(s) \/ Exit(s)
    PROVE  /\ \A r \in Sessions \ {s} :
                /\ pc'[r] = pc[r] /\ prepared'[r] = prepared[r] /\ open'[r] = open[r]
                /\ setup'[r] = setup[r] /\ answer'[r] = answer[r]
           /\ \A a \in Actors \ {s} : child'[a] = child[a]
           /\ SessionTypes' /\ UNCHANGED <<m03, lockfile>>
<1>0. /\ pc \in [Sessions -> Labels] /\ open \in [Sessions -> BOOLEAN]
      /\ prepared \in [Sessions -> {"untried", "none", "active", "consumed", "void"}]
      /\ setup \in [Sessions -> BOOLEAN]
      /\ answer \in [Sessions -> {"none", "ok", "failed", "unknown"}]
      /\ child \in [Actors -> {NoChild} \cup (Commands \X {"new", "working"})]
  BY DEF Locks, LockTypes, Events, EventTypes, SessionsWork, SessionTypes
<1>1. pc' = pc \/ \E l : pc' = [pc EXCEPT ![s] = l]
  BY DEF Inside, Calls, Goto, Set, Labctl, lifeVars, eventVars,
    GivenUp, G0, UpIntent, RunCommand, CommandRefused, UpReturns, Discover,
    VerifyReturns, Collect, Publish, PrepareFails, RecordAppended, RecordReturned,
    Effect, ExecutionFails, Sweep, Readback, DownIntent, DownReturns, BaselineReturns,
    Finally, Release, Enter, EnterFails, Prepare, Consume, ConsumeFails,
    ExecutionVerified, Close, CloseRaises, Exit
<1>2. prepared' = prepared \/ \E l : prepared' = [prepared EXCEPT ![s] = l]
  BY DEF Inside, Calls, Set, eventVars,
    GivenUp, G0, UpIntent, RunCommand, CommandRefused, UpReturns, Discover,
    VerifyReturns, Collect, Publish, PrepareFails, RecordAppended, RecordReturned,
    Effect, ExecutionFails, Sweep, Readback, DownIntent, DownReturns, BaselineReturns,
    Finally, Release, Enter, EnterFails, Prepare, Consume, ConsumeFails,
    ExecutionVerified, Close, CloseRaises, Exit
<1>3. open' = open \/ \E b : open' = [open EXCEPT ![s] = b]
  BY DEF Inside, Calls, Set, lifeVars,
    GivenUp, G0, UpIntent, RunCommand, CommandRefused, UpReturns, Discover,
    VerifyReturns, Collect, Publish, PrepareFails, RecordAppended, RecordReturned,
    Effect, ExecutionFails, Sweep, Readback, DownIntent, DownReturns, BaselineReturns,
    Finally, Release, Enter, EnterFails, Prepare, Consume, ConsumeFails,
    ExecutionVerified, Close, CloseRaises, Exit
<1>4. setup' = setup \/ \E b \in BOOLEAN : setup' = [setup EXCEPT ![s] = b]
  BY DEF Inside, Calls, Set, lifeVars,
    GivenUp, G0, UpIntent, RunCommand, CommandRefused, UpReturns, Discover,
    VerifyReturns, Collect, Publish, PrepareFails, RecordAppended, RecordReturned,
    Effect, ExecutionFails, Sweep, Readback, DownIntent, DownReturns, BaselineReturns,
    Finally, Release, Enter, EnterFails, Prepare, Consume, ConsumeFails,
    ExecutionVerified, Close, CloseRaises, Exit
<1>5. answer' = answer \/ \E v \in {"none", "unknown"} : answer' = [answer EXCEPT ![s] = v]
  BY DEF Inside, Calls, Set, Labctl, lifeVars,
    GivenUp, G0, UpIntent, RunCommand, CommandRefused, UpReturns, Discover,
    VerifyReturns, Collect, Publish, PrepareFails, RecordAppended, RecordReturned,
    Effect, ExecutionFails, Sweep, Readback, DownIntent, DownReturns, BaselineReturns,
    Finally, Release, Enter, EnterFails, Prepare, Consume, ConsumeFails,
    ExecutionVerified, Close, CloseRaises, Exit
<1>6. child' = child \/ \E c : child' = [child EXCEPT ![s] = c]
  BY DEF Inside, Calls, Set, Labctl, labVars,
    GivenUp, G0, UpIntent, RunCommand, CommandRefused, UpReturns, Discover,
    VerifyReturns, Collect, Publish, PrepareFails, RecordAppended, RecordReturned,
    Effect, ExecutionFails, Sweep, Readback, DownIntent, DownReturns, BaselineReturns,
    Finally, Release, Enter, EnterFails, Prepare, Consume, ConsumeFails,
    ExecutionVerified, Close, CloseRaises, Exit
<1>7. UNCHANGED <<m03, lockfile>>
  BY DEF Inside, Calls, labVars,
    GivenUp, G0, UpIntent, RunCommand, CommandRefused, UpReturns, Discover,
    VerifyReturns, Collect, Publish, PrepareFails, RecordAppended, RecordReturned,
    Effect, ExecutionFails, Sweep, Readback, DownIntent, DownReturns, BaselineReturns,
    Finally, Release, Enter, EnterFails, Prepare, Consume, ConsumeFails,
    ExecutionVerified, Close, CloseRaises, Exit
<1>8. SessionTypes'
  BY <1>0, <1>4, <1>5 DEF SessionTypes
<1> QED
  BY <1>0, <1>1, <1>2, <1>3, <1>4, <1>5, <1>6, <1>7, <1>8

LEMMA SessionsStep == Locks /\ Events /\ SessionsWork /\ Next => SessionsWork'
<1> SUFFICES ASSUME Locks, Events, SessionsWork, Next PROVE SessionsWork'
  OBVIOUS
<1>0. /\ pc \in [Sessions -> Labels] /\ open \in [Sessions -> BOOLEAN]
      /\ prepared \in [Sessions -> {"untried", "none", "active", "consumed", "void"}]
      /\ setup \in [Sessions -> BOOLEAN]
      /\ answer \in [Sessions -> {"none", "ok", "failed", "unknown"}]
      /\ child \in [Actors -> {NoChild} \cup (Commands \X {"new", "working"})]
      /\ Sessions \subseteq Actors
  BY DEF Locks, LockTypes, Events, EventTypes, SessionsWork, SessionTypes, Actors
<1>1. ASSUME NEW s \in Sessions, Inside(s) \/ Calls(s) \/ Exit(s) PROVE SessionsWork'
  <2>1. \A r \in Sessions \ {s} : SessionAt(r)'
    BY <1>0, <1>1, StepOfOne DEF SessionsWork, SessionAt
  <2>2. SessionAt(s) /\ EventsAt(s) /\ SessionTypes'
    BY <1>1, StepOfOne DEF SessionsWork, Events
  <2>3. ASSUME GivenUp(s) PROVE SessionAt(s)'
    BY <1>0, <2>2, <2>3 DEF GivenUp, Goto, Set, SessionAt, Commanding, Trusted, lifeVars,
       labVars, eventVars
  <2>4. ASSUME G0(s) PROVE SessionAt(s)'
    BY <1>0, <2>2, <2>4 DEF G0, Goto, Set, SessionAt, Commanding, Trusted, lifeVars,
       labVars, eventVars, EventsAt, Preparing
  <2>5. ASSUME UpIntent(s) PROVE SessionAt(s)'
    BY <1>0, <2>2, <2>5 DEF UpIntent, Goto, Set, SessionAt, Commanding, Trusted, lifeVars,
       labVars, eventVars, EventsAt, Preparing
  <2>6. ASSUME RunCommand(s) PROVE SessionAt(s)'
    BY <1>0, <2>2, <2>6 DEF RunCommand, Goto, Set, SessionAt, Commanding, Trusted, lifeVars,
       labVars, eventVars, Labctl
  <2>7. ASSUME CommandRefused(s) PROVE SessionAt(s)'
    BY <1>0, <2>2, <2>7 DEF CommandRefused, Goto, Set, SessionAt, Commanding, Trusted,
       lifeVars, labVars, eventVars
  <2>8. ASSUME UpReturns(s) PROVE SessionAt(s)'
    BY <1>0, <2>2, <2>8 DEF UpReturns, Goto, Set, SessionAt, Commanding, Trusted, lifeVars,
       labVars, eventVars
  <2>9. ASSUME Discover(s) PROVE SessionAt(s)'
    BY <1>0, <2>2, <2>9 DEF Discover, Goto, Set, SessionAt, Commanding, Trusted, lifeVars,
       labVars, eventVars
  <2>10. ASSUME VerifyReturns(s) PROVE SessionAt(s)'
    BY <1>0, <2>2, <2>10 DEF VerifyReturns, Goto, Set, SessionAt, Commanding, Trusted,
       lifeVars, labVars, eventVars
  <2>11. ASSUME Collect(s) PROVE SessionAt(s)'
    BY <1>0, <2>2, <2>11 DEF Collect, Goto, Set, SessionAt, Commanding, Trusted, lifeVars,
       labVars, eventVars, EventsAt, Preparing
  <2>12. ASSUME Publish(s) PROVE SessionAt(s)'
    BY <1>0, <2>2, <2>12 DEF Publish, Goto, Set, SessionAt, Commanding, Trusted, lifeVars,
       labVars, eventVars, EventsAt, Preparing
  <2>13. ASSUME PrepareFails(s) PROVE SessionAt(s)'
    BY <1>0, <2>2, <2>13 DEF PrepareFails, Goto, Set, SessionAt, Commanding, Trusted,
       lifeVars, labVars, eventVars, EventsAt, Preparing
  <2>14. ASSUME RecordAppended(s) PROVE SessionAt(s)'
    BY <1>0, <2>2, <2>14 DEF RecordAppended, Goto, Set, SessionAt, Commanding, Trusted,
       lifeVars, labVars, eventVars, EventsAt, Preparing
  <2>15. ASSUME RecordReturned(s) PROVE SessionAt(s)'
    BY <1>0, <2>2, <2>15 DEF RecordReturned, Goto, Set, SessionAt, Commanding, Trusted,
       lifeVars, labVars, eventVars, Capable, StateHolds, Proof, EventsAt, Preparing
  <2>16. ASSUME Effect(s) PROVE SessionAt(s)'
    BY <1>0, <2>2, <2>16 DEF Effect, Goto, Set, SessionAt, Commanding, Trusted, lifeVars,
       labVars, eventVars
  <2>17. ASSUME ExecutionFails(s) PROVE SessionAt(s)'
    BY <1>0, <2>2, <2>17 DEF ExecutionFails, Goto, Set, SessionAt, Commanding, Trusted,
       lifeVars, labVars, eventVars, Capable, StateHolds, Proof
  <2>18. ASSUME Sweep(s) PROVE SessionAt(s)'
    BY <1>0, <2>2, <2>18 DEF Sweep, Goto, Set, SessionAt, Commanding, Trusted, lifeVars,
       labVars, eventVars
  <2>19. ASSUME Readback(s) PROVE SessionAt(s)'
    BY <1>0, <2>2, <2>19 DEF Readback, Goto, Set, SessionAt, Commanding, Trusted, lifeVars,
       labVars, eventVars
  <2>20. ASSUME DownIntent(s) PROVE SessionAt(s)'
    BY <1>0, <2>2, <2>20 DEF DownIntent, Goto, Set, SessionAt, Commanding, Trusted,
       lifeVars, labVars, eventVars
  <2>21. ASSUME DownReturns(s) PROVE SessionAt(s)'
    BY <1>0, <2>2, <2>21 DEF DownReturns, Goto, Set, SessionAt, Commanding, Trusted,
       lifeVars, labVars, eventVars
  <2>22. ASSUME BaselineReturns(s) PROVE SessionAt(s)'
    BY <1>0, <2>2, <2>22 DEF BaselineReturns, Goto, Set, SessionAt, Commanding, Trusted,
       lifeVars, labVars, eventVars
  <2>23. ASSUME Finally(s) PROVE SessionAt(s)'
    BY <1>0, <2>2, <2>23 DEF Finally, Goto, Set, SessionAt, Commanding, Trusted, lifeVars,
       labVars, eventVars
  <2>24. ASSUME Release(s) PROVE SessionAt(s)'
    BY <1>0, <2>2, <2>24 DEF Release, Goto, Set, SessionAt, Commanding, Trusted, lifeVars,
       labVars, eventVars
  <2>25. ASSUME Enter(s) PROVE SessionAt(s)'
    BY <1>0, <2>2, <2>25 DEF Enter, Goto, Set, SessionAt, Commanding, Trusted, lifeVars,
       labVars, eventVars
  <2>26. ASSUME EnterFails(s) PROVE SessionAt(s)'
    BY <1>0, <2>2, <2>26 DEF EnterFails, Goto, Set, SessionAt, Commanding, Trusted,
       lifeVars, labVars, eventVars
  <2>27. ASSUME Prepare(s) PROVE SessionAt(s)'
    BY <1>0, <2>2, <2>27 DEF Prepare, Goto, Set, SessionAt, Commanding, Trusted, lifeVars,
       labVars, eventVars
  <2>28. ASSUME Consume(s) PROVE SessionAt(s)'
    BY <1>0, <2>2, <2>28 DEF Consume, Goto, Set, SessionAt, Commanding, Trusted, lifeVars,
       labVars, eventVars
  <2>29. ASSUME ConsumeFails(s) PROVE SessionAt(s)'
    BY <1>0, <2>2, <2>29 DEF ConsumeFails, Goto, Set, SessionAt, Commanding, Trusted,
       lifeVars, labVars, eventVars
  <2>30. ASSUME ExecutionVerified(s) PROVE SessionAt(s)'
    BY <1>0, <2>2, <2>30 DEF ExecutionVerified, Goto, Set, SessionAt, Commanding, Trusted,
       lifeVars, labVars, eventVars, Capable, StateHolds, Proof
  <2>31. ASSUME Close(s) PROVE SessionAt(s)'
    BY <1>0, <2>2, <2>31 DEF Close, Goto, Set, SessionAt, Commanding, Trusted, lifeVars,
       labVars, eventVars
  <2>32. ASSUME CloseRaises(s) PROVE SessionAt(s)'
    BY <1>0, <2>2, <2>32 DEF CloseRaises, Goto, Set, SessionAt, Commanding, Trusted,
       lifeVars, labVars, eventVars
  <2>33. ASSUME Exit(s) PROVE SessionAt(s)'
    BY <1>0, <2>2, <2>33 DEF Exit, Goto, Set, SessionAt, Commanding, Trusted, lifeVars,
       labVars, eventVars
  <2>34. SessionAt(s)'
    BY <1>1, <2>3, <2>4, <2>5, <2>6, <2>7, <2>8, <2>9, <2>10, <2>11, <2>12, <2>13, <2>14,
       <2>15, <2>16, <2>17, <2>18, <2>19, <2>20, <2>21, <2>22, <2>23, <2>24, <2>25, <2>26,
       <2>27, <2>28, <2>29, <2>30, <2>31, <2>32, <2>33 DEF Inside, Calls
  <2> QED
    BY <2>1, <2>2, <2>34 DEF SessionsWork
<1>2. ASSUME NEW a \in Actors, Child(a) PROVE SessionsWork'
  <2>1. /\ UNCHANGED <<pc, prepared, open, setup>>
        /\ \A b \in Actors : child'[b] = NoChild \/ (child[b] # NoChild /\ answer' = answer)
                               \/ child'[b] = child[b]
    BY <1>0, <1>2 DEF Child, ChildBegins, ChildWorks, ChildEnds, Set, NoChild, lifeVars,
       eventVars
  <2>2. /\ answer' \in [Sessions -> {"none", "ok", "failed", "unknown"}]
        /\ \A s \in Sessions : answer'[s] = answer[s] \/ child'[s] = NoChild
    BY <1>0, <1>2 DEF Child, ChildBegins, ChildWorks, ChildEnds, Set, Answer, lifeVars
  <2>3. \A s \in Sessions : SessionAt(s)'
    BY <1>0, <2>1, <2>2 DEF SessionsWork, SessionAt
  <2> QED
    BY <1>0, <2>1, <2>2, <2>3 DEF SessionsWork, SessionTypes
<1>3. CASE OperatorRuns
  <2>1. \A s \in Sessions : child'[s] = child[s]
    BY <1>0, <1>3, SessionsAssumption DEF OperatorRuns, Set
  <2> QED
    BY <1>3, <2>1 DEF OperatorRuns, lifeVars, eventVars, SessionsWork, SessionTypes,
       SessionAt
<1>4. CASE LockReplaced
  BY <1>4 DEF LockReplaced, lifeVars, eventVars, SessionsWork, SessionTypes, SessionAt
<1> QED
  BY <1>1, <1>2, <1>3, <1>4 DEF Next

(* Whoever has a command or a descriptor has the lock file locked, and     *)
(* nobody else then has either.                                            *)
LEMMA OneHolder ==
    ASSUME Locks, lockfile = 1, NEW a \in Actors, NEW b \in Actors, a # b,
           child[a] # NoChild \/ (a \in Sessions /\ open[a])
    PROVE  child[b] = NoChild /\ (b \in Sessions => ~open[b])
<1>1. lock[a] = 1
  BY DEF Locks, LockTypes
<1>2. lock[b] = 0
  BY <1>1 DEF Locks, LockTypes
<1> QED
  BY <1>2 DEF Locks

(* A session makes M03 its own by G0's look at a lab that has none.        *)
LEMMA SettingBegins ==
    ASSUME Locks, Events, SessionsWork, NEW s \in Sessions, Inside(s) \/ Calls(s) \/ Exit(s),
           Setting(s)'
    PROVE  Setting(s) \/ m03 = Absent
<1>0. /\ pc \in [Sessions -> Labels] /\ open \in [Sessions -> BOOLEAN]
      /\ setup \in [Sessions -> BOOLEAN] /\ SessionAt(s) /\ s \in Actors
      /\ child \in [Actors -> {NoChild} \cup (Commands \X {"new", "working"})]
  BY DEF Locks, LockTypes, Events, EventTypes, SessionsWork, SessionTypes, Actors
<1>1. CASE G0(s)
  BY <1>1 DEF G0, Baseline, M03Absent
<1>2. CASE RunCommand(s) \/ UpIntent(s) \/ Enter(s)
  BY <1>0, <1>2 DEF RunCommand, UpIntent, Enter, SessionAt, Commanding, Setting, Set, Goto,
     lifeVars
<1>3. CASE Exit(s)
  BY <1>0, <1>3 DEF Exit, Setting, Set, Goto
<1>4. CASE GivenUp(s)
  BY <1>0, <1>4 DEF GivenUp, Setting, Set, Goto, lifeVars, labVars
<1>5. CASE CommandRefused(s)
  BY <1>0, <1>5 DEF CommandRefused, Setting, Set, Goto, lifeVars, labVars
<1>6. CASE UpReturns(s)
  BY <1>0, <1>6 DEF UpReturns, Setting, Set, Goto, lifeVars, labVars
<1>7. CASE Discover(s)
  BY <1>0, <1>7 DEF Discover, Setting, Set, Goto, lifeVars, labVars
<1>8. CASE VerifyReturns(s)
  BY <1>0, <1>8 DEF VerifyReturns, Setting, Set, Goto, lifeVars, labVars
<1>9. CASE Collect(s)
  BY <1>0, <1>9 DEF Collect, Setting, Set, Goto, lifeVars, labVars
<1>10. CASE Publish(s)
  BY <1>0, <1>10 DEF Publish, Setting, Set, Goto, lifeVars, labVars
<1>11. CASE PrepareFails(s)
  BY <1>0, <1>11 DEF PrepareFails, Setting, Set, Goto, lifeVars, labVars
<1>12. CASE RecordAppended(s)
  BY <1>0, <1>12 DEF RecordAppended, Setting, Set, Goto, lifeVars, labVars
<1>13. CASE RecordReturned(s)
  BY <1>0, <1>13 DEF RecordReturned, Setting, Set, Goto, lifeVars, labVars
<1>14. CASE Effect(s)
  BY <1>0, <1>14 DEF Effect, Setting, Set, Goto, lifeVars, labVars
<1>15. CASE ExecutionFails(s)
  BY <1>0, <1>15 DEF ExecutionFails, Setting, Set, Goto, lifeVars, labVars
<1>16. CASE Sweep(s)
  BY <1>0, <1>16 DEF Sweep, Setting, Set, Goto, lifeVars, labVars
<1>17. CASE Readback(s)
  BY <1>0, <1>17 DEF Readback, Setting, Set, Goto, lifeVars, labVars
<1>18. CASE DownIntent(s)
  BY <1>0, <1>18 DEF DownIntent, Setting, Set, Goto, lifeVars, labVars
<1>19. CASE DownReturns(s)
  BY <1>0, <1>19 DEF DownReturns, Setting, Set, Goto, lifeVars, labVars
<1>20. CASE BaselineReturns(s)
  BY <1>0, <1>20 DEF BaselineReturns, Setting, Set, Goto, lifeVars, labVars
<1>21. CASE Finally(s)
  BY <1>0, <1>21 DEF Finally, Setting, Set, Goto, lifeVars, labVars
<1>22. CASE Release(s)
  BY <1>0, <1>22 DEF Release, Setting, Set, Goto, lifeVars, labVars
<1>23. CASE EnterFails(s)
  BY <1>0, <1>23 DEF EnterFails, Setting, Set, Goto, lifeVars, labVars
<1>24. CASE Prepare(s)
  BY <1>0, <1>24 DEF Prepare, Setting, Set, Goto, lifeVars, labVars
<1>25. CASE Consume(s)
  BY <1>0, <1>25 DEF Consume, Setting, Set, Goto, lifeVars, labVars
<1>26. CASE ConsumeFails(s)
  BY <1>0, <1>26 DEF ConsumeFails, Setting, Set, Goto, lifeVars, labVars
<1>27. CASE ExecutionVerified(s)
  BY <1>0, <1>27 DEF ExecutionVerified, Setting, Set, Goto, lifeVars, labVars
<1>28. CASE Close(s)
  BY <1>0, <1>28 DEF Close, Setting, Set, Goto, lifeVars, labVars
<1>29. CASE CloseRaises(s)
  BY <1>0, <1>29 DEF CloseRaises, Setting, Set, Goto, lifeVars, labVars
<1> QED
  BY <1>1, <1>2, <1>3, <1>4, <1>5, <1>6, <1>7, <1>8, <1>9, <1>10, <1>11, <1>12, <1>13,
     <1>14, <1>15, <1>16, <1>17, <1>18, <1>19, <1>20, <1>21, <1>22, <1>23, <1>24, <1>25,
     <1>26, <1>27, <1>28, <1>29 DEF Inside, Calls

LEMMA OwnSubstrateStep ==
    Locks /\ Events /\ SessionsWork /\ OwnSubstrate /\ Next => OwnSubstrate'
<1> SUFFICES ASSUME Locks, Events, SessionsWork, OwnSubstrate, Next, lockfile' = 1,
                    NEW s \in Sessions, Setting(s)'
             PROVE  m03' = Absent \/ m03'[1] = s
  BY DEF OwnSubstrate
<1>0. /\ child \in [Actors -> {NoChild} \cup (Commands \X {"new", "working"})]
      /\ s \in Actors /\ SessionAt(s)
      /\ lockfile = 1 /\ Setting(s) => m03 = Absent \/ m03[1] = s
  BY DEF Locks, LockTypes, SessionsWork, OwnSubstrate, Actors
<1>1. ASSUME NEW r \in Sessions, Inside(r) \/ Calls(r) \/ Exit(r)
      PROVE  m03' = Absent \/ m03'[1] = s
  <2>1. /\ UNCHANGED <<m03, lockfile>>
        /\ r # s => pc'[s] = pc[s] /\ open'[s] = open[s] /\ setup'[s] = setup[s] /\ child'[s] = child[s]
    BY <1>0, <1>1, StepOfOne
  <2>2. Setting(s) \/ m03 = Absent
    BY <1>1, <2>1, SettingBegins DEF Setting
  <2> QED
    BY <1>0, <2>1, <2>2
<1>2. ASSUME NEW a \in Actors, Child(a) PROVE m03' = Absent \/ m03'[1] = s
  <2>1. /\ UNCHANGED <<pc, open, setup, lockfile>> /\ child[a] # NoChild
        /\ child'[s] # NoChild => child[s] # NoChild
    BY <1>0, <1>2 DEF Child, ChildBegins, ChildWorks, ChildEnds, Set, NoChild, lifeVars
  <2>2. m03 = Absent \/ m03[1] = s
    BY <1>0, <2>1 DEF Setting
  <2>3. CASE m03' = m03
    BY <2>2, <2>3
  <2>4. CASE ChildWorks(a)
    <3>1. a = s
      <4>1. child[s] # NoChild \/ open[s]
        BY <1>0, <2>1 DEF Setting, SessionAt
      <4> QED
        BY <1>0, <2>1, <4>1, OneHolder
    <3> QED
      BY <2>2, <2>4, <3>1 DEF ChildWorks, Absent
  <2> QED
    BY <1>2, <2>3, <2>4 DEF Child, ChildBegins, ChildEnds
<1>3. CASE OperatorRuns
  <2>1. UNCHANGED <<pc, open, setup, lockfile, m03>> /\ child'[s] = child[s]
    BY <1>0, <1>3, SessionsAssumption DEF OperatorRuns, Set, lifeVars
  <2> QED
    BY <1>0, <2>1 DEF Setting
<1>4. ~LockReplaced
  BY DEF LockReplaced
<1> QED
  BY <1>1, <1>2, <1>3, <1>4 DEF Next

(* What the session whose marker exists still does: no command.            *)
LEMMA MarkedSession ==
    ASSUME Events, SessionsWork, NEW s \in Sessions, Inside(s) \/ Calls(s) \/ Exit(s),
           x05 # "none", child[s] = NoChild, pc[s] \in Settled, prepared[s] \in {"consumed", "void"}
    PROVE  child'[s] = NoChild /\ pc'[s] \in Settled /\ prepared'[s] \in {"consumed", "void"}
<1>0. /\ pc \in [Sessions -> Labels]
      /\ prepared \in [Sessions -> {"untried", "none", "active", "consumed", "void"}]
  BY DEF Events, EventTypes
<1> USE DEF Settled, Trusted
<1>1. CASE GivenUp(s)
  BY <1>0, <1>1 DEF GivenUp, Set, Goto, lifeVars, labVars, eventVars, Commands
<1>2. CASE G0(s)
  BY <1>0, <1>2 DEF G0, Set, Goto, lifeVars, labVars, eventVars
<1>3. CASE UpIntent(s)
  BY <1>0, <1>3 DEF UpIntent, Set, Goto, lifeVars, labVars, eventVars
<1>4. CASE RunCommand(s)
  BY <1>0, <1>4 DEF RunCommand, Set, Goto, lifeVars, labVars, eventVars
<1>5. CASE CommandRefused(s)
  BY <1>0, <1>5 DEF CommandRefused, Set, Goto, lifeVars, labVars, eventVars
<1>6. CASE UpReturns(s)
  BY <1>0, <1>6 DEF UpReturns, Set, Goto, lifeVars, labVars, eventVars, Commands
<1>7. CASE Discover(s)
  BY <1>0, <1>7 DEF Discover, Set, Goto, lifeVars, labVars, eventVars
<1>8. CASE VerifyReturns(s)
  BY <1>0, <1>8 DEF VerifyReturns, Set, Goto, lifeVars, labVars, eventVars
<1>9. CASE Collect(s)
  BY <1>0, <1>9 DEF Collect, Set, Goto, lifeVars, labVars, eventVars
<1>10. CASE Publish(s)
  BY <1>0, <1>10 DEF Publish, Set, Goto, lifeVars, labVars, eventVars
<1>11. CASE PrepareFails(s)
  BY <1>0, <1>11 DEF PrepareFails, Set, Goto, lifeVars, labVars, eventVars
<1>12. CASE RecordAppended(s)
  BY <1>0, <1>12 DEF RecordAppended, Set, Goto, lifeVars, labVars, eventVars
<1>13. CASE RecordReturned(s)
  BY <1>0, <1>13 DEF RecordReturned, Set, Goto, lifeVars, labVars, eventVars
<1>14. CASE Effect(s)
  BY <1>0, <1>14 DEF Effect, Set, Goto, lifeVars, labVars, eventVars
<1>15. CASE ExecutionFails(s)
  BY <1>0, <1>15 DEF ExecutionFails, Set, Goto, lifeVars, labVars, eventVars
<1>16. CASE Sweep(s)
  BY <1>0, <1>16 DEF Sweep, Set, Goto, lifeVars, labVars, eventVars, MayRemove, Marked
<1>17. CASE Readback(s)
  BY <1>0, <1>17 DEF Readback, Set, Goto, lifeVars, labVars, eventVars
<1>18. CASE DownIntent(s)
  BY <1>0, <1>18 DEF DownIntent, Set, Goto, lifeVars, labVars, eventVars
<1>19. CASE DownReturns(s)
  BY <1>0, <1>19 DEF DownReturns, Set, Goto, lifeVars, labVars, eventVars
<1>20. CASE BaselineReturns(s)
  BY <1>0, <1>20 DEF BaselineReturns, Set, Goto, lifeVars, labVars, eventVars
<1>21. CASE Finally(s)
  BY <1>0, <1>21 DEF Finally, Set, Goto, lifeVars, labVars, eventVars
<1>22. CASE Release(s)
  BY <1>0, <1>22 DEF Release, Set, Goto, lifeVars, labVars, eventVars
<1>23. CASE Enter(s)
  BY <1>0, <1>23 DEF Enter, Set, Goto, lifeVars, labVars, eventVars
<1>24. CASE EnterFails(s)
  BY <1>0, <1>24 DEF EnterFails, Set, Goto, lifeVars, labVars, eventVars
<1>25. CASE Prepare(s)
  BY <1>0, <1>25 DEF Prepare, Set, Goto, lifeVars, labVars, eventVars
<1>26. CASE Consume(s)
  BY <1>0, <1>26 DEF Consume, Set, Goto, lifeVars, labVars, eventVars
<1>27. CASE ConsumeFails(s)
  BY <1>0, <1>27 DEF ConsumeFails, Set, Goto, lifeVars, labVars, eventVars
<1>28. CASE ExecutionVerified(s)
  BY <1>0, <1>28 DEF ExecutionVerified, Set, Goto, lifeVars, labVars, eventVars
<1>29. CASE Close(s)
  BY <1>0, <1>29 DEF Close, Set, Goto, lifeVars, labVars, eventVars
<1>30. CASE CloseRaises(s)
  BY <1>0, <1>30 DEF CloseRaises, Set, Goto, lifeVars, labVars, eventVars
<1>31. CASE Exit(s)
  BY <1>0, <1>31 DEF Exit, Set, Goto, lifeVars, labVars, eventVars
<1> QED
  BY <1>1, <1>2, <1>3, <1>4, <1>5, <1>6, <1>7, <1>8, <1>9, <1>10, <1>11, <1>12, <1>13,
     <1>14, <1>15, <1>16, <1>17, <1>18, <1>19, <1>20, <1>21, <1>22, <1>23, <1>24, <1>25,
     <1>26, <1>27, <1>28, <1>29, <1>30, <1>31 DEF Inside, Calls

LEMMA MarkerAloneStep ==
    Locks /\ Events /\ SessionsWork /\ MarkerAlone /\ Next => MarkerAlone'
<1> SUFFICES ASSUME Locks, Events, SessionsWork, MarkerAlone, Next, lockfile' = 1, x05' # "none"
             PROVE  /\ x05' \in Sessions /\ child'[x05'] = NoChild /\ pc'[x05'] \in Settled
                    /\ prepared'[x05'] \in {"consumed", "void"}
                    /\ \A a \in Actors : child'[a][2] # "working"
  BY DEF MarkerAlone
<1> DEFINE Goal == /\ x05' \in Sessions /\ child'[x05'] = NoChild /\ pc'[x05'] \in Settled
                   /\ prepared'[x05'] \in {"consumed", "void"}
                   /\ \A a \in Actors : child'[a][2] # "working"
<1>0. /\ child \in [Actors -> {NoChild} \cup (Commands \X {"new", "working"})]
      /\ pc \in [Sessions -> Labels] /\ Sessions \subseteq Actors /\ NoChild[2] = "none"
  BY DEF Locks, LockTypes, Events, EventTypes, Actors, NoChild
<1>1. ASSUME NEW s \in Sessions, Inside(s) \/ Calls(s) \/ Exit(s) PROVE Goal
  <2>1. /\ UNCHANGED lockfile
        /\ \A r \in Sessions \ {s} : pc'[r] = pc[r] /\ prepared'[r] = prepared[r]
        /\ \A a \in Actors \ {s} : child'[a] = child[a]
    BY <1>1, StepOfOne
  <2>2. child'[s] = child[s] \/ child'[s] = NoChild \/ child'[s][2] = "new"
    BY <1>0, <1>1 DEF Inside, Calls, Set, Labctl, labVars,
        GivenUp, G0, UpIntent, RunCommand, CommandRefused, UpReturns, Discover,
        VerifyReturns, Collect, Publish, PrepareFails, RecordAppended, RecordReturned,
        Effect, ExecutionFails, Sweep, Readback, DownIntent, DownReturns,
        BaselineReturns, Finally, Release, Enter, EnterFails, Prepare, Consume,
        ConsumeFails, ExecutionVerified, Close, CloseRaises, Exit
  <2>3. CASE x05 # "none" /\ x05' = x05
    <3>1. /\ x05 \in Sessions /\ child[x05] = NoChild /\ pc[x05] \in Settled
          /\ prepared[x05] \in {"consumed", "void"}
          /\ \A a \in Actors : child[a][2] # "working"
      BY <2>1, <2>3 DEF MarkerAlone
    <3>2. \A a \in Actors : child'[a][2] # "working"
      BY <1>0, <2>1, <2>2, <3>1
    <3>3. CASE s = x05
      BY <1>1, <2>3, <3>1, <3>2, <3>3, MarkedSession
    <3>4. CASE s # x05
      BY <1>0, <2>1, <2>3, <3>1, <3>2, <3>4
    <3> QED
      BY <3>3, <3>4
  <2>4. CASE Effect(s) /\ x05' = s
    <3>1. /\ pc[s] = "verified" /\ pc'[s] = "open" /\ UNCHANGED <<child, prepared>>
      BY <1>0, <2>4 DEF Effect, Goto, labVars, eventVars
    <3>2. open[s] /\ prepared[s] = "consumed" /\ child[s] = NoChild
      BY <3>1 DEF SessionsWork, SessionAt, Events, EventsAt, Trusted
    <3>3. \A a \in Actors : child[a] = NoChild
      BY <1>0, <2>1, <3>2, OneHolder
    <3> QED
      BY <1>0, <2>4, <3>1, <3>2, <3>3 DEF Settled
  <2>5. x05' = x05 \/ (Effect(s) /\ x05' = s)
    BY <1>1 DEF Inside, Calls, labVars,
        GivenUp, G0, UpIntent, RunCommand, CommandRefused, UpReturns, Discover,
        VerifyReturns, Collect, Publish, PrepareFails, RecordAppended, RecordReturned,
        Effect, ExecutionFails, Sweep, Readback, DownIntent, DownReturns,
        BaselineReturns, Finally, Release, Enter, EnterFails, Prepare, Consume,
        ConsumeFails, ExecutionVerified, Close, CloseRaises, Exit
  <2> QED
    BY <2>3, <2>4, <2>5
<1>2. ASSUME NEW a \in Actors, Child(a) PROVE Goal
  <2>1. UNCHANGED <<lockfile, x05, pc, prepared>>
    BY <1>2 DEF Child, ChildBegins, ChildWorks, ChildEnds, eventVars
  <2>2. /\ x05 \in Sessions /\ child[x05] = NoChild /\ pc[x05] \in Settled
        /\ prepared[x05] \in {"consumed", "void"}
        /\ \A b \in Actors : child[b][2] # "working"
    BY <2>1 DEF MarkerAlone
  <2>3. ChildEnds(a)
    BY <1>0, <1>2, <2>1, <2>2 DEF Child, ChildBegins, ChildWorks, Guarded
  <2>4. child' = [child EXCEPT ![a] = NoChild]
    BY <2>3 DEF ChildEnds, Set
  <2> QED
    BY <1>0, <2>1, <2>2, <2>4
<1>3. CASE OperatorRuns
  <2>1. /\ UNCHANGED <<lockfile, x05, pc, prepared>>
        /\ \E cmd : child' = [child EXCEPT !["operator"] = <<cmd, "new">>]
    BY <1>3 DEF OperatorRuns, Set, eventVars
  <2> QED
    BY <1>0, <2>1, SessionsAssumption DEF MarkerAlone
<1>4. ~LockReplaced
  BY DEF LockReplaced
<1> QED
  BY <1>1, <1>2, <1>3, <1>4 DEF Next

AdmissionIInv == Locks /\ Events /\ SessionsWork /\ OwnSubstrate /\ MarkerAlone

LEMMA AdmissionIInvHolds == Spec => []AdmissionIInv
<1>1. Init => AdmissionIInv
  BY LocksInit, EventsInit, SessionsInit DEF AdmissionIInv
<1>2. AdmissionIInv /\ Next => AdmissionIInv'
  BY LocksStep, EventsStep, SessionsStep, OwnSubstrateStep, MarkerAloneStep DEF
     AdmissionIInv
<1>3. AdmissionIInv /\ UNCHANGED vars => AdmissionIInv'
  <2> SUFFICES ASSUME AdmissionIInv, UNCHANGED vars PROVE AdmissionIInv'
    OBVIOUS
  <2>1. Locks' /\ Events'
    BY LocksQuiet, EventsQuiet DEF AdmissionIInv, vars, labVars, lifeVars, lockVars
  <2>2. SessionsWork'
    BY DEF AdmissionIInv, SessionsWork, SessionTypes, SessionAt, vars, labVars, lifeVars,
       eventVars
  <2>3. OwnSubstrate' /\ MarkerAlone'
    BY DEF AdmissionIInv, OwnSubstrate, Setting, MarkerAlone, vars, labVars, lifeVars,
       eventVars
  <2> QED
    BY <2>1, <2>2, <2>3 DEF AdmissionIInv
<1> QED
  BY <1>1, <1>2, <1>3, PTL DEF Spec

(* Only the session that brought M03 up, or the operator, has a command at *)
(* work when a lab that has any of M03 changes: what somebody had to leave *)
(* behind is never removed or completed by a later session.                *)
THEOREM KeptSubstrateStays == Spec => KeptM03Stays
<1> DEFINE Kept == lockfile = 1 /\ m03' # m03 /\ m03 # Absent
                      => \E a \in {m03[1], "operator"} \cap Actors : child[a] # NoChild
<1>1. AdmissionIInv /\ [Next]_vars => [Kept]_vars
  <2> SUFFICES ASSUME AdmissionIInv, Next, lockfile = 1, m03' # m03, m03 # Absent
               PROVE  \E a \in {m03[1], "operator"} \cap Actors : child[a] # NoChild
    OBVIOUS
  <2>1. PICK a \in Actors : ChildWorks(a)
    BY StepOfOne DEF AdmissionIInv, Next, Child, ChildBegins, ChildEnds, OperatorRuns,
       LockReplaced
  <2>2. child[a] # NoChild
    BY <2>1 DEF ChildWorks, NoChild
  <2>3. a \in Sessions => m03[1] = a
    BY <2>2 DEF AdmissionIInv, OwnSubstrate, Setting
  <2> QED
    BY <2>2, <2>3 DEF Actors
<1> QED
  BY <1>1, AdmissionIInvHolds, PTL DEF Spec, KeptM03Stays

(* While an X05 marker exists nobody changes M03: not the operator, not a  *)
(* command that was given up, not the marker's own session on its way out. *)
THEOREM SubstrateStaysUnderMarker == Spec => SubstrateStays
<1> DEFINE Kept == lockfile = 1 /\ x05 # "none" => m03' = m03
<1>1. AdmissionIInv /\ [Next]_vars => [Kept]_vars
  <2> SUFFICES ASSUME AdmissionIInv, Next, lockfile = 1, x05 # "none", m03' # m03 PROVE FALSE
    OBVIOUS
  <2>1. PICK a \in Actors : ChildWorks(a)
    BY StepOfOne DEF AdmissionIInv, Next, Child, ChildBegins, ChildEnds, OperatorRuns,
       LockReplaced
  <2>2. child[a][2] = "working"
    BY <2>1 DEF ChildWorks
  <2> QED
    BY <2>2 DEF AdmissionIInv, MarkerAlone
<1> QED
  BY <1>1, AdmissionIInvHolds, PTL DEF Spec, SubstrateStays
=============================================================================

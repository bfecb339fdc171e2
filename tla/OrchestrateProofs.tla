-------------------------- MODULE OrchestrateProofs --------------------------
(***************************************************************************)
(* Proofs about the per-gate orchestrator, for any runs, processes, OVSDB  *)
(* clients and number of forward commits.  The inductive invariant says    *)
(* what the M03 lock protects:                                             *)
(*   Types      the shape of the state;                                    *)
(*   Awaited    a process awaits at most one client, and only at "wait";   *)
(*   Holding    a process inside a gate that mutates holds the lock, and   *)
(*              one about to take M03 down has no marker of its own left;  *)
(*   Settled    between the proof of absence and the removal of the        *)
(*              marker, and between the verification of the B port and its *)
(*              record, nothing comes back but by a client given up before *)
(*              and still running.                                         *)
(***************************************************************************)
EXTENDS Orchestrate, TLAPS

Labels == {"idle", "prepare", "lock", "start", "check", "transact", "wait", "built",
           "marker", "build", "containers", "position", "remember", "uncertain",
           "teardown", "remove", "inverse", "absence", "verifym03", "unlink", "down",
           "record"}
Kinds == {"forward", "move", "restore", "inverse"}
ClientStates == [st : {"none", "running", "applied", "refused"}, kind : Kinds,
                 run : Runs \cup {None}, gen : Nat, by : Procs \cup {None}]
States == [nb : BOOLEAN, cas : {"none", "moved", "restored"}]

Types ==
    /\ pc \in [Procs -> Labels]
    /\ gate \in [Procs -> Gates]
    /\ run \in [Procs -> Runs \cup {None}]
    /\ \A p \in Procs : pc[p] # "idle" => run[p] \in Runs
    /\ mem \in [Procs -> States] /\ file \in [Runs -> States]
    /\ client \in [Clients -> ClientStates] /\ gen \in Nat

Awaited ==
    \A p \in Procs, c \in Clients : client[c].by = p =>
        /\ pc[p] = "wait"
        /\ \A d \in Clients : client[d].by = p => d = c

(* The part of a gate that the M03 lock covers.                            *)
Inside(p) == pc[p] \notin {"idle", "prepare", "lock"} /\ gate[p] \in LockedGates

Holding ==
    \A p \in Procs :
        /\ gate[p] \notin LockedGates => pc[p] \in {"idle", "prepare", "start", "record"}
        /\ Inside(p) => lock = p
        /\ pc[p] = "down" => marker # run[p]

(* Late(p): the marker is about to be removed.  Sure(p): the restoration   *)
(* is verified and about to be recorded.                                   *)
Late(p) == pc[p] \in {"verifym03", "unlink"}
Sure(p) == pc[p] = "remember" /\ gate[p] # "5"
Running(kind) == \E c \in Clients : Live(c) /\ client[c].kind = kind

Settled ==
    settled => \A p \in Procs :
        /\ Late(p) => /\ rows = None /\ links = None /\ containers = None
                      /\ ~Running("forward")
        /\ Sure(p) => lsp # "A" /\ ~Running("move")

-----------------------------------------------------------------------------
LEMMA TypesInit == Init => Types
  BY DEF Init, Types, Labels, Gates, ClientStates, Kinds, States, NoState, NoClient

(* One process moves on, and nothing else of the processes changes.        *)
LEMMA TypesMove ==
    ASSUME Types, NEW p \in Procs, pc[p] # "idle", NEW l \in Labels, Goto(p, l),
           UNCHANGED <<run, gate>>,
           mem' \in [Procs -> States], file' \in [Runs -> States],
           client' \in [Clients -> ClientStates], gen' \in Nat
    PROVE  Types'
  BY DEF Types, Goto

LEMMA AbandonedType ==
    ASSUME Types, NEW p \in Procs
    PROVE  Abandoned(p) \in [Clients -> ClientStates]
  BY DEF Types, Abandoned, ClientStates, Kinds, NoClient

LEMMA TypesEnd ==
    ASSUME Types, NEW p \in Procs, End(p), file' \in [Runs -> States], gen' = gen
    PROVE  Types'
<1>1. pc' \in [Procs -> Labels] /\ gate' \in [Procs -> Gates]
      /\ run' \in [Procs -> Runs \cup {None}] /\ mem' \in [Procs -> States]
  BY DEF Types, End, Labels, Gates, States, NoState
<1>2. client' \in [Clients -> ClientStates]
  BY AbandonedType DEF End
<1>3. \A q \in Procs : pc'[q] # "idle" => run'[q] \in Runs
  BY DEF Types, End
<1> QED
  BY <1>1, <1>2, <1>3 DEF Types

LEMMA TypesStep == Types /\ [Next]_vars => Types'
<1> SUFFICES ASSUME Types, [Next]_vars PROVE Types'
  OBVIOUS
<1>1. CASE UNCHANGED vars
  BY <1>1 DEF vars, lab, procs, Types
<1>2. ASSUME NEW p \in Procs, NEW r \in Runs, NEW g \in Gates, Invoke(p, r, g) PROVE Types'
  BY <1>2 DEF Invoke, Goto, lab, Types, Labels
<1>3. CASE OperatorStopsM03
  BY <1>3 DEF OperatorStopsM03, procs, Types
<1>4. ASSUME NEW c \in Clients, Commit(c) \/ ClientEnds(c) PROVE Types'
  <2>1. ASSUME NEW st \in {"applied", "refused"}
        PROVE  Answer(c, st) \in [Clients -> ClientStates]
    BY DEF Answer, NoClient, ClientStates, Kinds, Types
  <2>2. UNCHANGED <<procs, file>>
    BY <1>4 DEF Commit, ClientEnds
  <2>3. client' \in [Clients -> ClientStates]
    BY <1>4, <2>1 DEF Commit, ClientEnds
  <2>4. gen' \in Nat
    BY <1>4 DEF Commit, ClientEnds, Types, lab
  <2> QED
    BY <2>2, <2>3, <2>4 DEF Types, procs
<1>5. ASSUME NEW p \in Procs, Step(p) PROVE Types'
  <2> DEFINE Plain ==
        \/ Gate0(p) \/ Observe(p) \/ StartM03(p) \/ Preflight(p) \/ Reply(p)
        \/ RestorationFails(p) \/ Postflight(p) \/ ReadParents(p) \/ StartRollback(p)
        \/ VerifyPosition(p) \/ Uncertain(p) \/ StartTeardown(p) \/ TeardownLinks(p)
        \/ TeardownContainers(p) \/ ProveAbsence(p) \/ VerifyM03(p) \/ RemoveMarker(p)
        \/ StopM03(p)
  <2>1. CASE Plain
    <3>1. PICK l \in Labels : Goto(p, l)
      BY <2>1 DEF Gate0, Observe, StartM03, Preflight, Reply, RestorationFails, Postflight,
         ReadParents, StartRollback, VerifyPosition, Uncertain, StartTeardown, TeardownLinks,
         TeardownContainers, ProveAbsence, VerifyM03, RemoveMarker, StopM03, AfterReply, Labels
    <3>2. pc[p] # "idle" /\ UNCHANGED <<run, gate, mem, file, gen>>
      BY <2>1 DEF Gate0, Observe, StartM03, Preflight, Reply, RestorationFails, Postflight,
         ReadParents, StartRollback, VerifyPosition, Uncertain, StartTeardown, TeardownLinks,
         TeardownContainers, ProveAbsence, VerifyM03, RemoveMarker, StopM03, Unrestored, lab
    <3>3. \A c \in Clients : [client EXCEPT ![c] = NoClient] \in [Clients -> ClientStates]
      BY DEF ClientStates, Kinds, NoClient, Types
    <3>4. client' \in [Clients -> ClientStates]
      BY <2>1, <3>3, AbandonedType DEF Gate0, Observe, StartM03, Preflight, Reply, RestorationFails,
         Postflight, ReadParents, StartRollback, VerifyPosition, Uncertain, StartTeardown,
         TeardownLinks, TeardownContainers, ProveAbsence, VerifyM03, RemoveMarker, StopM03,
         Types
    <3> QED
      BY <3>1, <3>2, <3>4, TypesMove DEF Types
  <2>2. CASE PrepareRun(p) \/ Acquire(p) \/ WriteMarker(p) \/ BuildLinks(p) \/ BuildContainers(p)
    <3>1. PICK l \in Labels : Goto(p, l)
      BY <2>2 DEF PrepareRun, Acquire, WriteMarker, BuildLinks, BuildContainers, Labels
    <3>2. pc[p] # "idle" /\ Save(p) /\ UNCHANGED <<run, gate, mem, client, gen>>
      BY <2>2 DEF PrepareRun, Acquire, WriteMarker, BuildLinks, BuildContainers, lab
    <3>3. file' \in [Runs -> States]
      BY <3>2 DEF Save, Types
    <3> QED
      BY <3>1, <3>2, <3>3, TypesMove DEF Types
  <2>3. CASE Transact(p)
    <3>1. KindOf(p) \in Kinds /\ (KindOf(p) = "forward" => run[p] \in Runs)
      BY <2>3 DEF Transact, InverseBuilt, KindOf, Kinds, Types
    <3>2. Transaction(p) \in ClientStates
      BY <3>1 DEF Transaction, NoClient, ClientStates, Kinds, Types
    <3>3. client' \in [Clients -> ClientStates]
      BY <2>3, <3>2 DEF Transact, Types
    <3> QED
      BY <2>3, <3>3, TypesMove DEF Transact, InverseBuilt, lab, Labels, Types
  <2>4. CASE Remember(p)
    <3>1. mem' \in [Procs -> States]
      BY <2>4 DEF Remember, Types, States
    <3>2. file' \in [Runs -> States]
      BY <2>4, <3>1 DEF Remember, Types
    <3>3. pc[p] # "idle" /\ UNCHANGED <<run, gate, client, gen>>
          /\ Goto(p, IF gate[p] = "rollback" THEN "teardown" ELSE "record")
      BY <2>4 DEF Remember, lab
    <3> QED
      BY <3>1, <3>2, <3>3, TypesMove DEF Labels, Types
  <2>5. CASE Stop(p)
    BY <2>5, TypesEnd DEF Stop, lab, Types
  <2>6. CASE Record(p)
    <3> DEFINE recorded == [mem[p] EXCEPT !.nb = @ \/ gate[p] = "nb"]
    <3>2. mem[p] \in States /\ run[p] \in Runs
      BY <2>6 DEF Record, Types
    <3>3. (mem[p].nb \/ gate[p] = "nb") \in BOOLEAN
      OBVIOUS
    <3>4. recorded \in States
      BY <3>2, <3>3 DEF States
    <3>1. file' \in [Runs -> States]
      BY <2>6, <3>2, <3>4 DEF Record, Types
    <3> QED
      BY <2>6, <3>1, TypesEnd DEF Record, lab
  <2> QED
    BY <1>5, <2>1, <2>2, <2>3, <2>4, <2>5, <2>6 DEF Step
<1> QED
  BY <1>1, <1>2, <1>3, <1>4, <1>5 DEF Next

-----------------------------------------------------------------------------
(* Two processes are never both inside.                                    *)
LEMMA OneInside ==
    ASSUME Holding, NEW p \in Procs, NEW q \in Procs, Inside(p), Inside(q)
    PROVE  p = q
  BY DEF Holding

(* A process at any label but these four is inside.                        *)
LEMMA Deep ==
    ASSUME Types, Holding, NEW p \in Procs,
           pc[p] \notin {"idle", "prepare", "lock", "start", "record"}
    PROVE  Inside(p)
  BY DEF Types, Holding, Inside

LEMMA HoldingInit == Init => Holding
  BY DEF Init, Holding, Inside, LockedGates, Gates

(* A process that goes on inside its gate keeps what it holds.             *)
LEMMA HoldingMove ==
    ASSUME Types, Holding, NEW p \in Procs, NEW l \in Labels \ {"down"}, Goto(p, l),
           UNCHANGED <<run, gate, lock>>,
           pc[p] \notin {"idle", "prepare", "lock"},
           gate[p] \notin LockedGates => l \in {"start", "record"},
           marker' = marker \/ Inside(p)
    PROVE  Holding'
<1> SUFFICES ASSUME NEW q \in Procs
             PROVE  /\ gate[q] \notin LockedGates
                         => pc'[q] \in {"idle", "prepare", "start", "record"}
                    /\ pc'[q] \notin {"idle", "prepare", "lock"} /\ gate[q] \in LockedGates
                         => lock = q
                    /\ pc'[q] = "down" => marker' # run[q]
  BY DEF Holding, Inside
<1>1. CASE q = p
  BY <1>1 DEF Types, Holding, Inside, Goto
<1>2. CASE q # p
  <2>1. pc'[q] = pc[q]
    BY <1>2 DEF Types, Goto
  <2>2. pc[q] = "down" => Inside(q)
    BY Deep
  <2>3. pc[q] = "down" => marker' = marker
    BY <1>2, <2>2, OneInside
  <2> QED
    BY <2>1, <2>3 DEF Holding, Inside
<1> QED
  BY <1>1, <1>2

LEMMA HoldingEnd ==
    ASSUME Types, Holding, NEW p \in Procs, End(p), marker' = marker
    PROVE  Holding'
<1> SUFFICES ASSUME NEW q \in Procs
             PROVE  /\ gate'[q] \notin LockedGates
                         => pc'[q] \in {"idle", "prepare", "start", "record"}
                    /\ pc'[q] \notin {"idle", "prepare", "lock"} /\ gate'[q] \in LockedGates
                         => lock' = q
                    /\ pc'[q] = "down" => marker' # run'[q]
  BY DEF Holding, Inside
<1>1. CASE q = p
  BY <1>1 DEF Types, End
<1>2. CASE q # p
  BY <1>2 DEF Types, End, Holding, Inside
<1> QED
  BY <1>1, <1>2

LEMMA HoldingStep == Types /\ Holding /\ [Next]_vars => Holding'
<1> SUFFICES ASSUME Types, Holding, [Next]_vars PROVE Holding'
  OBVIOUS
<1>1. CASE UNCHANGED vars
  BY <1>1 DEF vars, lab, procs, Holding, Inside
<1>2. ASSUME NEW p \in Procs, NEW r \in Runs, NEW g \in Gates, Invoke(p, r, g)
      PROVE  Holding'
  <2> SUFFICES ASSUME NEW q \in Procs
               PROVE  /\ gate'[q] \notin LockedGates
                           => pc'[q] \in {"idle", "prepare", "start", "record"}
                      /\ pc'[q] \notin {"idle", "prepare", "lock"} /\ gate'[q] \in LockedGates
                           => lock' = q
                      /\ pc'[q] = "down" => marker' # run'[q]
    BY DEF Holding, Inside
  <2>1. CASE q = p
    BY <1>2, <2>1 DEF Types, Invoke, Goto, lab
  <2>2. CASE q # p
    BY <1>2, <2>2 DEF Types, Invoke, Goto, lab, Holding, Inside
  <2> QED
    BY <2>1, <2>2
<1>3. CASE OperatorStopsM03
  BY <1>3 DEF OperatorStopsM03, procs, Holding, Inside
<1>4. ASSUME NEW c \in Clients, Commit(c) \/ ClientEnds(c) PROVE Holding'
  <2>1. UNCHANGED <<marker, lock, procs>>
    BY <1>4 DEF Commit, ClientEnds, lab
  <2> QED
    BY <2>1 DEF procs, Holding, Inside
<1>5. ASSUME NEW p \in Procs, Step(p) PROVE Holding'
  <2>1. CASE PrepareRun(p) \/ Acquire(p)
    <3> SUFFICES ASSUME NEW q \in Procs
                 PROVE  /\ gate[q] \notin LockedGates
                             => pc'[q] \in {"idle", "prepare", "start", "record"}
                        /\ pc'[q] \notin {"idle", "prepare", "lock"} /\ gate[q] \in LockedGates
                             => lock' = q
                        /\ pc'[q] = "down" => marker # run[q]
      BY <2>1 DEF Holding, Inside, PrepareRun, Acquire, lab
    <3>1. CASE PrepareRun(p)
      BY <3>1 DEF Types, PrepareRun, Goto, lab, Holding, Inside
    <3>2. CASE Acquire(p)
      <4>1. ~Inside(q)
        BY <3>2, NoneAssumption DEF Acquire, Holding
      <4>2. gate[p] \in LockedGates
        BY <3>2 DEF Acquire, Holding
      <4> QED
        BY <3>2, <4>1, <4>2 DEF Types, Acquire, Goto, lab, Holding, Inside
    <3> QED
      BY <2>1, <3>1, <3>2
  <2>2. CASE Gate0(p) \/ Observe(p)
    BY <2>2, HoldingMove DEF Gate0, Observe, Labels, lab
  <2>3. CASE \/ StartM03(p) \/ Preflight(p) \/ Reply(p) \/ RestorationFails(p)
             \/ Postflight(p) \/ ReadParents(p) \/ StartRollback(p) \/ StopM03(p)
    <3>1. gate[p] \in LockedGates
      BY <2>3 DEF StartM03, Preflight, Reply, RestorationFails, Postflight, ReadParents,
         StartRollback, StopM03, Holding, LockedGates, Gates
    <3>2. PICK l \in Labels \ {"down"} : Goto(p, l)
      BY <2>3 DEF StartM03, Preflight, Reply, RestorationFails, Postflight, ReadParents,
         StartRollback, StopM03, AfterReply, Labels
    <3>3. /\ pc[p] \notin {"idle", "prepare", "lock"}
          /\ UNCHANGED <<run, gate, lock, marker>>
      BY <2>3 DEF StartM03, Preflight, Reply, RestorationFails, Postflight, ReadParents,
         StartRollback, StopM03, Unrestored, lab
    <3> QED
      BY <3>1, <3>2, <3>3, HoldingMove
  <2>4. CASE \/ Transact(p) \/ WriteMarker(p) \/ BuildLinks(p) \/ BuildContainers(p)
             \/ VerifyPosition(p) \/ Remember(p) \/ Uncertain(p) \/ TeardownLinks(p)
             \/ TeardownContainers(p) \/ ProveAbsence(p) \/ VerifyM03(p)
    <3>1. Inside(p)
      BY <2>4, Deep DEF Transact, InverseBuilt, WriteMarker, BuildLinks, BuildContainers,
         VerifyPosition, Remember, Uncertain, TeardownLinks, TeardownContainers, ProveAbsence,
         VerifyM03
    <3>2. PICK l \in Labels \ {"down"} : Goto(p, l)
      BY <2>4 DEF Transact, WriteMarker, BuildLinks, BuildContainers, VerifyPosition,
         Remember, Uncertain, TeardownLinks, TeardownContainers, ProveAbsence, VerifyM03, Labels
    <3>3. UNCHANGED <<run, gate, lock>>
      BY <2>4 DEF Transact, WriteMarker, BuildLinks, BuildContainers, VerifyPosition,
         Remember, Uncertain, TeardownLinks, TeardownContainers, ProveAbsence, VerifyM03, lab
    <3> QED
      BY <3>1, <3>2, <3>3, HoldingMove DEF Inside
  <2>5. CASE StartTeardown(p)
    BY <2>5, HoldingMove DEF StartTeardown, Labels, LockedGates, Gates, lab
  <2>6. CASE RemoveMarker(p)
    <3>1. Inside(p)
      BY <2>6, Deep DEF RemoveMarker
    <3>2. CASE gate[p] = "7"
      BY <2>6, <3>1, <3>2, HoldingMove DEF RemoveMarker, Labels, Inside
    <3>3. CASE gate[p] # "7"
      <4> SUFFICES ASSUME NEW q \in Procs
                   PROVE  /\ gate[q] \notin LockedGates
                               => pc'[q] \in {"idle", "prepare", "start", "record"}
                          /\ pc'[q] \notin {"idle", "prepare", "lock"} /\ gate[q] \in LockedGates
                               => lock = q
                          /\ pc'[q] = "down" => marker' # run[q]
        BY <2>6 DEF Holding, Inside, RemoveMarker
      <4>1. CASE q = p
        <5>1. run[p] \in Runs /\ marker' # run[p]
          BY <2>6, NoneAssumption DEF RemoveMarker, Types
        <5> QED
          BY <3>1, <4>1, <5>1 DEF Inside, Holding
      <4>2. CASE q # p
        <5>1. pc'[q] = pc[q]
          BY <2>6, <4>2 DEF RemoveMarker, Goto, Types
        <5>2. pc[q] # "down"
          BY <3>1, <4>2, Deep, OneInside
        <5> QED
          BY <5>1, <5>2 DEF Holding, Inside
      <4> QED
        BY <4>1, <4>2
    <3> QED
      BY <3>2, <3>3
  <2>7. CASE Stop(p) \/ Record(p)
    BY <2>7, HoldingEnd DEF Stop, Record, lab
  <2> QED
    BY <1>5, <2>1, <2>2, <2>3, <2>4, <2>5, <2>6, <2>7 DEF Step
<1> QED
  BY <1>1, <1>2, <1>3, <1>4, <1>5 DEF Next

-----------------------------------------------------------------------------
LEMMA AwaitedInit == Init => Awaited
  BY NoneAssumption DEF Init, Awaited, NoClient

(* A process that leaves "wait" leaves no client behind that it awaits.    *)
LEMMA AwaitedLeft ==
    ASSUME Types, NEW p \in Procs, client' = Abandoned(p)
    PROVE  /\ \A c \in Clients : client'[c].by # p
           /\ \A c \in Clients, q \in Procs : client'[c].by = q => client[c].by = q
  BY NoneAssumption DEF Types, Abandoned, Live, NoClient, ClientStates

LEMMA AwaitedStep == Types /\ Awaited /\ [Next]_vars => Awaited'
<1> SUFFICES ASSUME Types, Awaited, [Next]_vars PROVE Awaited'
  OBVIOUS
<1>1. CASE UNCHANGED vars
  BY <1>1 DEF vars, lab, procs, Awaited
<1>2. ASSUME NEW p \in Procs, NEW r \in Runs, NEW g \in Gates, Invoke(p, r, g)
      PROVE  Awaited'
  BY <1>2 DEF Invoke, Goto, Types, Awaited
<1>3. CASE OperatorStopsM03
  BY <1>3 DEF OperatorStopsM03, procs, Awaited
<1>4. ASSUME NEW c \in Clients, Commit(c) \/ ClientEnds(c) PROVE Awaited'
  <2>1. \A q \in Procs, d \in Clients : client'[d].by = q => client[d].by = q
    BY <1>4, NoneAssumption DEF Commit, ClientEnds, Answer, NoClient, Types, ClientStates
  <2>2. UNCHANGED pc
    BY <1>4 DEF Commit, ClientEnds, procs
  <2> QED
    BY <2>1, <2>2 DEF Awaited
<1>5. ASSUME NEW p \in Procs, Step(p) PROVE Awaited'
  <2>1. ASSUME \A c \in Clients : client'[c].by # p,
               \A c \in Clients, q \in Procs : client'[c].by = q => client[c].by = q,
               \A q \in Procs \ {p} : pc'[q] = pc[q]
        PROVE  Awaited'
    BY <2>1 DEF Awaited
  <2>2. CASE Stop(p) \/ Record(p)
    BY <2>1, <2>2, AwaitedLeft DEF Stop, Record, End, Types
  <2>3. CASE RestorationFails(p)
    BY <2>1, <2>3, AwaitedLeft DEF RestorationFails, Goto, Types
  <2>4. CASE Reply(p)
    <3>1. PICK c \in Clients : client[c].by = p /\ client' = [client EXCEPT ![c] = NoClient]
      BY <2>4 DEF Reply
    <3>2. \A d \in Clients : client'[d].by # p
      BY <3>1, NoneAssumption DEF Awaited, NoClient, Types
    <3>3. \A d \in Clients, q \in Procs : client'[d].by = q => client[d].by = q
      BY <3>1, NoneAssumption DEF NoClient, Types
    <3> QED
      BY <2>1, <2>4, <3>2, <3>3 DEF Reply, Goto, Types
  <2>5. CASE Transact(p)
    <3>1. PICK c \in Clients : client' = [client EXCEPT ![c] = Transaction(p)]
      BY <2>5 DEF Transact
    <3>2. pc[p] # "wait" /\ pc' = [pc EXCEPT ![p] = "wait"]
      BY <2>5 DEF Transact, InverseBuilt, Goto
    <3>3. \A d \in Clients : client[d].by # p
      BY <3>2 DEF Awaited
    <3>4. \A d \in Clients : client'[d].by = IF d = c THEN p ELSE client[d].by
      BY <3>1 DEF Transaction, NoClient, Types
    <3> QED
      BY <3>2, <3>3, <3>4 DEF Awaited, Types
  <2>6. CASE \/ PrepareRun(p) \/ Acquire(p) \/ Gate0(p) \/ Observe(p) \/ StartM03(p)
             \/ Preflight(p) \/ Postflight(p) \/ WriteMarker(p) \/ BuildLinks(p)
             \/ BuildContainers(p) \/ ReadParents(p) \/ StartRollback(p) \/ VerifyPosition(p)
             \/ Remember(p) \/ Uncertain(p) \/ StartTeardown(p) \/ TeardownLinks(p)
             \/ TeardownContainers(p) \/ ProveAbsence(p) \/ VerifyM03(p) \/ RemoveMarker(p)
             \/ StopM03(p)
    <3>1. UNCHANGED client /\ pc[p] # "wait" /\ (\E l \in Labels : Goto(p, l))
      BY <2>6 DEF PrepareRun, Acquire, Gate0, Observe, StartM03, Preflight, Postflight,
         WriteMarker, BuildLinks, BuildContainers, ReadParents, StartRollback, VerifyPosition,
         Remember, Uncertain, StartTeardown, TeardownLinks, TeardownContainers, ProveAbsence,
         VerifyM03, RemoveMarker, StopM03, Labels
    <3>2. \A c \in Clients : client'[c].by # p
      BY <3>1 DEF Awaited
    <3> QED
      BY <2>1, <3>1, <3>2 DEF Goto, Types
  <2> QED
    BY <1>5, <2>2, <2>3, <2>4, <2>5, <2>6 DEF Step
<1> QED
  BY <1>1, <1>2, <1>3, <1>4, <1>5 DEF Next

-----------------------------------------------------------------------------
LEMMA SettledInit == Init => Settled
  BY DEF Init, Settled, Late, Sure

(* No new process gets there, and nothing it relies on comes back.         *)
LEMMA SettledKept ==
    ASSUME Settled, settled' => settled,
           \A q \in Procs : (Late(q)' => Late(q)) /\ (Sure(q)' => Sure(q)),
           UNCHANGED <<rows, links, containers, lsp>>,
           \A kind \in Kinds : Running(kind)' => Running(kind)
    PROVE  Settled'
  BY DEF Settled, Kinds

(* A process inside at another label keeps every other one from there.     *)
LEMMA SettledInside ==
    ASSUME Types, Holding, NEW p \in Procs, Inside(p),
           NEW l \in Labels \ {"verifym03", "unlink", "remember"}, Goto(p, l),
           UNCHANGED gate
    PROVE  Settled'
<1>1. ASSUME NEW q \in Procs PROVE ~Late(q)' /\ ~Sure(q)'
  <2>1. CASE q = p
    BY <2>1 DEF Types, Goto, Late, Sure
  <2>2. CASE q # p
    <3>1. ~Late(q) /\ ~Sure(q)
      BY <2>2, Deep, OneInside DEF Late, Sure
    <3> QED
      BY <2>2, <3>1 DEF Types, Goto, Late, Sure
  <2> QED
    BY <2>1, <2>2
<1> QED
  BY <1>1 DEF Settled

(* A client that runs is given up, or awaited by a process inside.         *)
LEMMA RunningInside ==
    ASSUME Types, Awaited, Holding, NEW p \in Procs, Inside(p), pc[p] # "wait",
           NEW kind, NoneGivenUp(kind)
    PROVE  ~Running(kind)
<1> SUFFICES ASSUME NEW c \in Clients, Live(c), client[c].kind = kind PROVE FALSE
  BY DEF Running
<1>1. client[c].by \in Procs
  BY DEF NoneGivenUp, GivenUp, Types, ClientStates
<1>2. pc[client[c].by] = "wait"
  BY <1>1 DEF Awaited
<1>3. Inside(client[c].by)
  BY <1>1, <1>2, Deep
<1> QED
  BY <1>1, <1>2, <1>3, OneInside

LEMMA SettledStep == Types /\ Awaited /\ Holding /\ Settled /\ [Next]_vars => Settled'
<1> SUFFICES ASSUME Types, Awaited, Holding, Settled, [Next]_vars PROVE Settled'
  OBVIOUS
<1>1. CASE UNCHANGED vars
  BY <1>1 DEF vars, lab, procs, Settled, Late, Sure, Running, Live
<1>2. ASSUME NEW p \in Procs, NEW r \in Runs, NEW g \in Gates, Invoke(p, r, g)
      PROVE  Settled'
  <2>1. \A q \in Procs : (Late(q)' => Late(q)) /\ (Sure(q)' => Sure(q))
    BY <1>2 DEF Invoke, Goto, Types, Late, Sure
  <2>2. UNCHANGED <<rows, links, containers, lsp, settled, client>>
    BY <1>2 DEF Invoke, lab
  <2> QED
    BY <2>1, <2>2, SettledKept DEF Running, Live
<1>3. CASE OperatorStopsM03
  BY <1>3 DEF OperatorStopsM03, procs, Settled, Late, Sure, Running, Live
<1>4. ASSUME NEW c \in Clients, Commit(c) \/ ClientEnds(c) PROVE Settled'
  <2>1. Live(c) /\ UNCHANGED <<procs, settled, links, containers>>
    BY <1>4 DEF Commit, ClientEnds, lab
  <2>2. \A d \in Clients : Live(d)' => Live(d) /\ client'[d] = client[d]
    BY <1>4 DEF Commit, ClientEnds, Answer, NoClient, Live, Types, ClientStates
  <2>3. \A kind \in Kinds : Running(kind)' => Running(kind)
    BY <2>2 DEF Running
  <2>4. ~Running("forward") /\ rows = None => rows' = None
    BY <1>4, <2>1 DEF Commit, ClientEnds, Running, lab
  <2>5. ~Running("move") /\ lsp # "A" => lsp' # "A"
    BY <1>4, <2>1 DEF Commit, ClientEnds, Running, lab
  <2> QED
    BY <2>1, <2>3, <2>4, <2>5 DEF Settled, Late, Sure, procs, Kinds
<1>5. ASSUME NEW p \in Procs, Step(p) PROVE Settled'
  <2>1. CASE PrepareRun(p) \/ Acquire(p) \/ Gate0(p) \/ Observe(p) \/ StartM03(p)
             \/ Preflight(p) \/ Reply(p) \/ RestorationFails(p) \/ Postflight(p)
             \/ WriteMarker(p) \/ ReadParents(p) \/ StartRollback(p)
             \/ Remember(p) \/ Uncertain(p) \/ StartTeardown(p) \/ StopM03(p)
             \/ RemoveMarker(p)
    <3>1. PICK l \in Labels \ {"verifym03", "unlink", "remember"} : Goto(p, l)
      BY <2>1 DEF PrepareRun, Acquire, Gate0, Observe, StartM03, Preflight, Reply,
         RestorationFails, Postflight, WriteMarker, ReadParents, StartRollback,
         Remember, Uncertain, StartTeardown, StopM03, RemoveMarker, AfterReply, Labels
    <3>2. UNCHANGED <<rows, links, containers, lsp, settled, gate>>
      BY <2>1 DEF PrepareRun, Acquire, Gate0, Observe, StartM03, Preflight, Reply,
         RestorationFails, Postflight, WriteMarker, ReadParents, StartRollback,
         Remember, Uncertain, StartTeardown, StopM03, RemoveMarker, lab
    <3>3. \A q \in Procs : (Late(q)' => Late(q)) /\ (Sure(q)' => Sure(q))
      BY <3>1, <3>2 DEF Goto, Types, Late, Sure
    <3>4. \/ UNCHANGED client \/ client' = Abandoned(p)
          \/ \E c \in Clients : client' = [client EXCEPT ![c] = NoClient]
      BY <2>1 DEF PrepareRun, Acquire, Gate0, Observe, StartM03, Preflight, Reply,
         RestorationFails, Postflight, WriteMarker, ReadParents, StartRollback,
         Remember, Uncertain, StartTeardown, StopM03, RemoveMarker
    <3>5. \A c \in Clients : Live(c)' => Live(c) /\ client'[c].kind = client[c].kind
      BY <3>4 DEF Abandoned, NoClient, Live, Types, ClientStates
    <3> QED
      BY <3>2, <3>3, <3>5, SettledKept DEF Running
  <2>2. CASE Transact(p) \/ BuildLinks(p) \/ BuildContainers(p) \/ TeardownLinks(p)
             \/ TeardownContainers(p)
    <3>1. Inside(p) /\ UNCHANGED gate
      BY <2>2, Deep DEF Transact, InverseBuilt, BuildLinks, BuildContainers, TeardownLinks,
         TeardownContainers
    <3>2. PICK l \in Labels \ {"verifym03", "unlink", "remember"} : Goto(p, l)
      BY <2>2 DEF Transact, BuildLinks, BuildContainers, TeardownLinks, TeardownContainers,
         Labels
    <3> QED
      BY <3>1, <3>2, SettledInside
  <2>3. CASE ProveAbsence(p)
    <3>1. Inside(p) /\ pc[p] # "wait"
      BY <2>3, Deep DEF ProveAbsence
    <3>2. settled' => ~Running("forward")
      BY <2>3, <3>1, RunningInside DEF ProveAbsence
    <3>3. \A q \in Procs : ~Sure(q)'
      BY <2>3, <3>1, Deep, OneInside DEF ProveAbsence, Goto, Types, Sure
    <3>4. /\ rows = None /\ links = None /\ containers = None
          /\ UNCHANGED <<rows, links, containers, client>>
      BY <2>3 DEF ProveAbsence, lab
    <3> QED
      BY <3>2, <3>3, <3>4 DEF Settled, Running, Live
  <2>4. CASE VerifyPosition(p)
    <3>1. Inside(p) /\ pc[p] # "wait" /\ UNCHANGED <<gate, lsp, client>>
      BY <2>4, Deep DEF VerifyPosition, lab
    <3>2. CASE Goto(p, "uncertain")
      BY <3>1, <3>2, SettledInside DEF Labels
    <3>3. CASE settled' = NoneGivenUp("move") /\ Goto(p, "remember")
      <4>1. settled' => ~Running("move")
        BY <3>1, <3>3, RunningInside
      <4>2. \A q \in Procs : ~Late(q)'
        BY <3>1, <3>3, Deep, OneInside DEF Goto, Types, Late
      <4>3. \A q \in Procs : Sure(q)' => q = p
        BY <3>1, <3>3, Deep, OneInside DEF Goto, Types, Sure
      <4>4. gate[p] # "5" => lsp # "A"
        BY <2>4, <3>3 DEF VerifyPosition, Goto, Types
      <4> QED
        BY <3>1, <4>1, <4>2, <4>3, <4>4 DEF Settled, Sure, Running, Live
    <3> QED
      BY <2>4, <3>2, <3>3 DEF VerifyPosition
  <2>5. CASE VerifyM03(p)
    <3>1. UNCHANGED <<rows, links, containers, lsp, settled, client, gate>> /\ Late(p)
      BY <2>5 DEF VerifyM03, lab, Late
    <3>2. \A q \in Procs : (Late(q)' => Late(q)) /\ (Sure(q)' => Sure(q))
      BY <2>5, <3>1 DEF VerifyM03, Goto, Types, Late, Sure
    <3> QED
      BY <3>1, <3>2, SettledKept DEF Running, Live
  <2>6. CASE Stop(p) \/ Record(p)
    <3>1. /\ ~Late(p)' /\ ~Sure(p)'
          /\ \A q \in Procs : (Late(q)' => Late(q)) /\ (Sure(q)' => Sure(q))
      BY <2>6 DEF Stop, Record, End, Types, Late, Sure
    <3>2. UNCHANGED <<rows, links, containers, lsp>>
      BY <2>6 DEF Stop, Record, lab
    <3>3. client' = Abandoned(p) /\ settled' = (settled \/ lock = p)
      BY <2>6 DEF Stop, Record, End
    <3>4. \A c \in Clients : Live(c)' => Live(c) /\ client'[c].kind = client[c].kind
      BY <3>3 DEF Abandoned, NoClient, Live, Types, ClientStates
    <3>5. CASE lock # p
      <4>1. settled' => settled
        BY <3>3, <3>5
      <4> QED
        BY <3>1, <3>2, <3>4, <4>1, SettledKept DEF Running
    <3>6. CASE lock = p
      <4>1. \A q \in Procs : q # p => ~Late(q) /\ ~Sure(q)
        BY <3>6, Deep DEF Late, Sure, Holding
      <4> QED
        BY <3>1, <4>1 DEF Settled
    <3> QED
      BY <3>5, <3>6
  <2> QED
    BY <1>5, <2>1, <2>2, <2>3, <2>4, <2>5, <2>6 DEF Step
<1> QED
  BY <1>1, <1>2, <1>3, <1>4, <1>5 DEF Next

IInv == Types /\ Awaited /\ Holding /\ Settled

LEMMA Invariance == Spec => []IInv
<1>1. Init => IInv
  BY TypesInit, AwaitedInit, HoldingInit, SettledInit DEF IInv
<1>2. IInv /\ [Next]_vars => IInv'
  BY TypesStep, AwaitedStep, HoldingStep, SettledStep DEF IInv
<1> QED
  BY <1>1, <1>2, PTL DEF Spec

-----------------------------------------------------------------------------
(* Whatever gates are invoked, in whatever order, by however many          *)
(* processes and beside however many given-up clients: the marker leaves   *)
(* last.                                                                   *)
THEOREM MarkerGoesLast == Spec => MarkerRemovedClean
<1>1. IInv /\ [Next]_vars
        => [ settled /\ marker # None /\ marker' = None
               => rows = None /\ links = None /\ containers = None ]_vars
  <2> SUFFICES ASSUME IInv, Next, settled, marker # None, marker' = None
               PROVE  rows = None /\ links = None /\ containers = None
    BY DEF IInv
  <2>1. PICK p \in Procs : WriteMarker(p) \/ RemoveMarker(p)
    BY DEF Next, Step, Invoke, OperatorStopsM03, Commit, ClientEnds, PrepareRun, Acquire, Stop,
       Record, Gate0, Observe, StartM03, Preflight, Transact, Reply, RestorationFails,
       Postflight, BuildLinks, BuildContainers, ReadParents, StartRollback, VerifyPosition,
       Remember, Uncertain, StartTeardown, TeardownLinks, TeardownContainers, ProveAbsence,
       VerifyM03, StopM03, lab
  <2>2. ~WriteMarker(p)
    BY NoneAssumption DEF WriteMarker, IInv, Types
  <2> QED
    BY <2>1, <2>2 DEF RemoveMarker, IInv, Settled, Late
<1> QED
  BY <1>1, Invariance, PTL DEF Spec, MarkerRemovedClean

(* Nobody takes M03 away under a run's marker: whoever reaches the end of  *)
(* a rollback has removed its own, and the guard refuses any other.        *)
THEOREM M03StaysUnderMarker == Spec => M03KeptUnderMarker
<1>1. IInv /\ [Next]_vars => [ m03 /\ ~m03' => marker = None ]_vars
  <2> SUFFICES ASSUME IInv, Next, m03, ~m03' PROVE marker = None
    OBVIOUS
  <2>1. (\E p \in Procs : StopM03(p)) \/ OperatorStopsM03
    BY DEF Next, Step, Invoke, Commit, ClientEnds, PrepareRun, Acquire, Stop,
       Record, Gate0, Observe, StartM03, Preflight, Transact, Reply, RestorationFails,
       Postflight, BuildLinks, BuildContainers, ReadParents, StartRollback, VerifyPosition,
       Remember, Uncertain, StartTeardown, TeardownLinks, TeardownContainers, ProveAbsence,
       VerifyM03, WriteMarker, RemoveMarker, lab
  <2> QED
    BY <2>1 DEF StopM03, OperatorStopsM03, X05Guard, IInv, Holding
<1> QED
  BY <1>1, Invariance, PTL DEF Spec, M03KeptUnderMarker

(* Whoever records that the B port was restored does so with the port out  *)
(* of A, however many invocations of however many runs are under way,      *)
(* stopped and started again, and whatever clients were given up, but for  *)
(* a move given up that was still running when the position was verified.  *)
THEOREM RestorationIsTrue == Spec => RestoredIsTrue
<1>1. IInv /\ [Next]_vars
        => [ \A p \in Procs :
               /\ pc[p] # "idle" /\ mem[p].cas # "restored" /\ mem'[p].cas = "restored"
               /\ settled
               => lsp # "A" ]_vars
  <2> SUFFICES ASSUME IInv, Next, NEW p \in Procs, pc[p] # "idle", settled,
                      mem[p].cas # "restored", mem'[p].cas = "restored"
               PROVE  lsp # "A"
    OBVIOUS
  <2>1. mem \in [Procs -> States] /\ mem' # mem
    BY DEF IInv, Types
  <2>2. ~OperatorStopsM03 /\ \A c \in Clients : ~(Commit(c) \/ ClientEnds(c))
    BY <2>1 DEF OperatorStopsM03, Commit, ClientEnds, procs
  <2>3. \A q \in Procs, r \in Runs, g \in Gates : ~Invoke(q, r, g)
    BY <2>1 DEF Invoke
  <2>4. PICK q \in Procs : Step(q)
    BY <2>2, <2>3 DEF Next
  <2>5. Remember(q) \/ Stop(q) \/ Record(q)
    BY <2>1, <2>4 DEF Step, PrepareRun, Acquire, Gate0, Observe, StartM03, Preflight, Transact,
       Reply, RestorationFails, Postflight, WriteMarker, BuildLinks, BuildContainers,
       ReadParents, StartRollback, VerifyPosition, Uncertain, StartTeardown, TeardownLinks,
       TeardownContainers, ProveAbsence, VerifyM03, RemoveMarker, StopM03
  <2>6. ~(Stop(q) \/ Record(q))
    BY <2>1 DEF Stop, Record, End, NoState
  <2>7. Remember(q) /\ q = p /\ gate[p] # "5"
    BY <2>1, <2>5, <2>6 DEF Remember, States
  <2> QED
    BY <2>7 DEF Remember, Sure, IInv, Settled
<1> QED
  BY <1>1, Invariance, PTL DEF Spec, RestoredIsTrue
=============================================================================

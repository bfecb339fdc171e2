----------------------------- MODULE Orchestrate -----------------------------
(***************************************************************************)
(* The per-gate orchestrator (x05-orchestrate.py).  Every invocation is a  *)
(* process that runs one gate, or the rollback, of one run: it loads the   *)
(* run's state file, takes the M03 lock for the gates that mutate, acts on *)
(* the Northbound database, on the runtime resources and, through labctl,  *)
(* on the M03 substrate, and writes the state file as it goes.  An         *)
(* operator invokes the gates in any order and as often as he likes; a     *)
(* process may fail or die at any step, and an OVSDB client whose answer   *)
(* was given up (nb_transact, 30 s) runs on inside the container beside    *)
(* any later invocation, and may still commit.                             *)
(***************************************************************************)
EXTENDS Naturals

CONSTANTS
    Runs,           \* run identifiers, hence owner tokens
    Procs,          \* process slots: how many invocations may run at a time
    Clients,        \* bound: how many OVSDB clients may run at a time
    None,           \* no run, no process
    MaxForwards     \* bound: how often a forward transaction may commit

ASSUME NoneAssumption == None \notin Runs \cup Procs
ASSUME MaxForwardsAssumption == MaxForwards \in Nat

VARIABLES
    (* the lab *)
    m03,        \* the M03 template is up (its marker exists)
    marker,     \* the run whose token the X05 marker carries
    rows,       \* the run that owns the 34 Northbound rows
    gen,        \* how many forwards committed: the UUIDs of the rows
    lsp,        \* the switch the B sentinel port is attached to
    links,      \* the run whose links, ports, FRR and sentinels exist
    containers, \* the run whose labelled containers exist
    lock,       \* the process that holds the M03 lock
    file,       \* file[r]: orchestrate-state.json of run r
    (* the processes *)
    pc, run, gate,
    mem,        \* RunContext.state, as loaded and changed by this process
    client,     \* the OVSDB clients, awaited by a process or given up
    (* history *)
    settled     \* FALSE when the lock's holder last proved absence, or the B
                \* port's position, beside a given-up client that can undo it

lab == <<m03, marker, rows, gen, lsp, links, containers>>
procs == <<pc, run, gate, mem>>
vars == <<lab, lock, file, procs, client, settled>>

(* "observe" stands for the gates 1 to 4, which take no lock.              *)
Gates == {"0", "0a", "nb", "observe", "5", "6", "7", "8", "rollback"}
LockedGates == Gates \ {"0", "observe"}

(* What the state file tells the gates apart by: gates.nb is PASS, and the *)
(* cas entry is absent ("none"), present ("moved"), or "restored".         *)
NoState == [nb |-> FALSE, cas |-> "none"]
NoClient == [st |-> "none", kind |-> "forward", run |-> None, gen |-> 0, by |-> None]

Init ==
    /\ m03 = FALSE /\ marker = None /\ rows = None /\ gen = 0
    /\ lsp = "absent" /\ links = None /\ containers = None /\ lock = None
    /\ file = [r \in Runs |-> NoState]
    /\ pc = [p \in Procs |-> "idle"]
    /\ run = [p \in Procs |-> None]
    /\ gate = [p \in Procs |-> "0"]
    /\ mem = [p \in Procs |-> NoState]
    /\ client = [c \in Clients |-> NoClient]
    /\ settled = TRUE

(* A client that still runs, and nobody awaits.                            *)
Live(c) == client[c].st = "running"
GivenUp(c) == Live(c) /\ client[c].by = None
NoneGivenUp(kind) == \A c \in Clients : GivenUp(c) => client[c].kind # kind

(* The timeout, or the end of the process, kills docker exec: not the      *)
(* client that still runs inside the container.                            *)
Abandoned(p) ==
    [c \in Clients |-> CASE client[c].by # p -> client[c]
                        [] Live(c) -> [client[c] EXCEPT !.by = None]
                        [] OTHER -> NoClient]
Goto(p, label) == pc' = [pc EXCEPT ![p] = label]
Save(p) == file' = [file EXCEPT ![run[p]] = mem[p]]

(* dci_x05_guard: labctl refuses under another run's X05 marker.           *)
Mutant_X05Guard_Open(token) == TRUE     \* mutant: the marker is not looked at
X05Guard(token) == marker \in {None, token}

-----------------------------------------------------------------------------
(* RunContext.__init__ loads the state file before any lock is taken.      *)
Invoke(p, r, g) ==
    /\ pc[p] = "idle"
    /\ run' = [run EXCEPT ![p] = r]
    /\ gate' = [gate EXCEPT ![p] = g]
    /\ mem' = [mem EXCEPT ![p] = file[r]]
    /\ Goto(p, "prepare")
    /\ UNCHANGED <<lab, lock, file, client, settled>>

(* prepare_run writes what was loaded back, still without the lock.        *)
PrepareRun(p) ==
    /\ pc[p] = "prepare"
    /\ Save(p)
    /\ Goto(p, IF gate[p] \in LockedGates THEN "lock" ELSE "start")
    /\ UNCHANGED <<lab, lock, run, gate, mem, client, settled>>

(* M03Lock.acquire: a non-blocking flock, then the state is saved again.   *)
Acquire(p) ==
    /\ pc[p] = "lock"
    /\ lock = None
    /\ lock' = p
    /\ Save(p)
    /\ Goto(p, "start")
    /\ UNCHANGED <<lab, run, gate, mem, client, settled>>

(* The process ends: the lock and its memory go with it.                   *)
End(p) ==
    /\ pc' = [pc EXCEPT ![p] = "idle"]
    /\ run' = [run EXCEPT ![p] = None]
    /\ gate' = [gate EXCEPT ![p] = "0"]
    /\ mem' = [mem EXCEPT ![p] = NoState]
    /\ lock' = IF lock = p THEN None ELSE lock
    /\ client' = Abandoned(p)
    /\ settled' = (settled \/ lock = p)

(* Mutant: the answer of an OVSDB client is awaited without a timeout.     *)
Mutant_Stop_NoTimeout(p) ==
    /\ pc[p] # "idle"
    /\ \A c \in Clients : client[c].by = p => ~Live(c)
    /\ End(p)
    /\ UNCHANGED <<lab, file>>

(* A command failed, a check raised, or the process was killed.            *)
Stop(p) ==
    /\ pc[p] # "idle"
    /\ End(p)
    /\ UNCHANGED <<lab, file>>

(* pass_gate or fail_gate, then the end of the process.                    *)
Record(p) ==
    /\ pc[p] = "record"
    /\ file' = [file EXCEPT ![run[p]] =
                    [mem[p] EXCEPT !.nb = @ \/ gate[p] = "nb"]]
    /\ End(p)
    /\ UNCHANGED lab

-----------------------------------------------------------------------------
(* gate_0: neither marker may exist.                                       *)
Gate0(p) ==
    /\ pc[p] = "start" /\ gate[p] = "0"
    /\ marker = None /\ ~m03
    /\ Goto(p, "record")
    /\ UNCHANGED <<lab, lock, file, run, gate, mem, client, settled>>

(* gate_1 to gate_4 measure and pass, or raise (Stop).                     *)
Observe(p) ==
    /\ pc[p] = "start" /\ gate[p] = "observe"
    /\ Goto(p, "record")
    /\ UNCHANGED <<lab, lock, file, run, gate, mem, client, settled>>

(* gate_0a: labctl dci up --m03, then the Northbound preflight.            *)
StartM03(p) ==
    /\ pc[p] = "start"
    /\ gate[p] = "0a"
    /\ ~m03
    /\ X05Guard(run[p])
    /\ m03' = TRUE
    /\ Goto(p, "check")
    /\ UNCHANGED <<marker, rows, gen, lsp, links, containers, lock, file, run, gate, mem,
           client, settled>>

(* The read-only preflight of gate_0a and gate_nb: no planned row exists.  *)
Preflight(p) ==
    /\ \/ pc[p] = "check"
       \/ pc[p] = "start" /\ gate[p] = "nb"
    /\ rows = None
    /\ Goto(p, IF gate[p] = "nb" THEN "transact" ELSE "record")
    /\ UNCHANGED <<lab, lock, file, run, gate, mem, client, settled>>

(* The transaction a process hands over, bound to the rows it has read.    *)
KindOf(p) ==
    CASE gate[p] = "nb" -> "forward"
      [] gate[p] = "5" -> "move"
      [] pc[p] = "inverse" -> "inverse"
      [] OTHER -> "restore"

(* A forward names the run it builds; the others name the rows by their    *)
(* UUIDs, which tell one forward's rows from another's.                    *)
Transaction(p) ==
    [NoClient EXCEPT !.st = "running", !.kind = KindOf(p), !.by = p,
                     !.run = IF KindOf(p) = "forward" THEN run[p] ELSE None,
                     !.gen = IF KindOf(p) = "forward" THEN 0 ELSE gen]

(* --build-inverse succeeds on the exact rows only, the LSP back in B.     *)
InverseBuilt(p) == pc[p] = "inverse" /\ rows = run[p] /\ lsp = "B"

(* nb_transact: ovsdb-client inside the OVN central container.             *)
Transact(p) ==
    /\ pc[p] = "transact" \/ InverseBuilt(p)
    /\ \E c \in Clients :
          /\ client[c] = NoClient
          /\ client' = [client EXCEPT ![c] = Transaction(p)]
    /\ Goto(p, "wait")
    /\ UNCHANGED <<lab, lock, file, run, gate, mem, settled>>

AfterReply(kind) ==
    CASE kind = "forward" -> "built"
      [] kind = "inverse" -> "absence"
      [] OTHER -> "position"

Reply(p) ==
    /\ pc[p] = "wait"
    /\ \E c \in Clients :
          /\ client[c].by = p /\ client[c].st = "applied"
          /\ Goto(p, AfterReply(client[c].kind))
          /\ client' = [client EXCEPT ![c] = NoClient]
    /\ UNCHANGED <<lab, lock, file, run, gate, mem, settled>>

(* The restoration it awaits is refused, or still has no answer.           *)
Unrestored(p) ==
    /\ pc[p] = "wait"
    /\ \E c \in Clients : /\ client[c].by = p /\ client[c].kind = "restore"
                         /\ client[c].st # "applied"

(* Mutant: a failed restoration is swallowed and recorded as done.         *)
Mutant_RestorationFails_Swallowed(p) ==
    /\ gate[p] = "rollback"
    /\ Unrestored(p)
    /\ client' = Abandoned(p)
    /\ Goto(p, "remember")
    /\ UNCHANGED <<lab, lock, file, run, gate, mem, settled>>

(* The rollback catches a restoration that could not be built, was refused *)
(* or got no answer in time; in every other gate that ends the process.    *)
RestorationFails(p) ==
    /\ gate[p] = "rollback"
    /\ pc[p] = "transact" \/ Unrestored(p)
    /\ client' = Abandoned(p)
    /\ Goto(p, "uncertain")
    /\ UNCHANGED <<lab, lock, file, run, gate, mem, settled>>

(* The built postflight of gate_nb.                                        *)
Postflight(p) ==
    /\ pc[p] = "built"
    /\ rows = run[p]
    /\ Goto(p, "marker")
    /\ UNCHANGED <<lab, lock, file, run, gate, mem, client, settled>>

(* build_runtime starts with the marker (opened for writing), which the    *)
(* journal entry that follows makes the process save its state again ...   *)
WriteMarker(p) ==
    /\ pc[p] = "marker"
    /\ marker' = run[p]
    /\ Save(p)
    /\ Goto(p, "build")
    /\ UNCHANGED <<m03, rows, gen, lsp, links, containers, lock, run, gate, mem, client,
           settled>>

(* ... and then creates the resources, the two containers last.            *)
BuildLinks(p) ==
    /\ pc[p] = "build"
    /\ links' = run[p]
    /\ Save(p)
    /\ Goto(p, "containers")
    /\ UNCHANGED <<m03, marker, rows, gen, lsp, containers, lock, run, gate, mem, client,
           settled>>

BuildContainers(p) ==
    /\ pc[p] = "containers"
    /\ containers' = run[p]
    /\ Save(p)
    /\ Goto(p, "record")
    /\ UNCHANGED <<m03, marker, rows, gen, lsp, links, lock, run, gate, mem, client, settled>>

-----------------------------------------------------------------------------
(* gate_5 reads the parents and requires the LSP in B and only there;      *)
(* gate_6 requires a recorded move and the LSP in A.                       *)
ReadParents(p) ==
    /\ pc[p] = "start"
    /\ \/ gate[p] = "5" /\ lsp = "B"
       \/ gate[p] = "6" /\ lsp = "A" /\ mem[p].cas # "none"
    /\ Goto(p, "transact")
    /\ UNCHANGED <<lab, lock, file, run, gate, mem, client, settled>>

(* run_rollback: the restoration runs when the state file says so.         *)
StartRollback(p) ==
    /\ pc[p] = "start"
    /\ gate[p] = "rollback"
    /\ Goto(p, IF mem[p].cas # "moved" THEN "teardown"
               ELSE CASE lsp = "A" -> "transact"
                      [] lsp = "B" -> "position"
                      [] OTHER -> "uncertain")
    /\ UNCHANGED <<lab, lock, file, run, gate, mem, client, settled>>

(* verify_cas_position: both parents are read again after the commit.      *)
VerifyPosition(p) ==
    /\ pc[p] = "position"
    /\ LET expected == IF gate[p] = "5" THEN "A" ELSE "B"
       IN  \/ lsp = expected /\ Goto(p, "remember") /\ settled' = NoneGivenUp("move")
           \/ /\ gate[p] = "rollback" /\ Goto(p, "uncertain")   \* or the read fails
              /\ UNCHANGED settled
    /\ UNCHANGED <<lab, lock, file, run, gate, mem, client>>

(* state["cas"] and its "restored" flag are saved after the commit.        *)
Remember(p) ==
    /\ pc[p] = "remember"
    /\ mem' = [mem EXCEPT ![p].cas = IF gate[p] = "5" THEN "moved" ELSE "restored"]
    /\ file' = [file EXCEPT ![run[p]] = mem'[p]]
    /\ Goto(p, IF gate[p] = "rollback" THEN "teardown" ELSE "record")
    /\ UNCHANGED <<lab, lock, run, gate, client, settled>>

(* Both markers are retained: the gate is recorded as failed, rc 75.       *)
Uncertain(p) ==
    /\ pc[p] = "uncertain"
    /\ Goto(p, "record")
    /\ UNCHANGED <<lab, lock, file, run, gate, mem, client, settled>>

-----------------------------------------------------------------------------
(* gate_7 refuses while the state file says that the LSP is moved.         *)
StartTeardown(p) ==
    /\ pc[p] = "start"
    /\ gate[p] = "7"
    /\ mem[p].cas # "moved"
    /\ Goto(p, "teardown")
    /\ UNCHANGED <<lab, lock, file, run, gate, mem, client, settled>>

(* teardown_runtime: FRR, sentinels and ports by name, whoever made them;  *)
TeardownLinks(p) ==
    /\ pc[p] = "teardown"
    /\ links' = None
    /\ Goto(p, "remove")
    /\ UNCHANGED <<m03, marker, rows, gen, lsp, containers, lock, file, run, gate, mem,
           client, settled>>

(* then the containers with this run's label, and the Northbound inverse   *)
(* when the state file says that gate nb passed.                           *)
TeardownContainers(p) ==
    /\ pc[p] = "remove"
    /\ containers \in {None, run[p]}
    /\ containers' = None
    /\ Goto(p, IF mem[p].nb THEN "inverse" ELSE "absence")
    /\ UNCHANGED <<m03, marker, rows, gen, lsp, links, lock, file, run, gate, mem, client,
           settled>>

(* Mutant: the absence proof looks at the runtime resources only.          *)
Mutant_ProveAbsence_RuntimeOnly(p) ==
    /\ pc[p] = "absence"
    /\ links = None
    /\ containers = None
    /\ settled' = NoneGivenUp("forward")
    /\ Goto(p, "verifym03")
    /\ UNCHANGED <<lab, lock, file, run, gate, mem, client>>

(* The generated VRFs are gone (so are the rows) and prove_x05_absence.    *)
ProveAbsence(p) ==
    /\ pc[p] = "absence"
    /\ rows = None
    /\ links = None
    /\ containers = None
    /\ settled' = NoneGivenUp("forward")
    /\ Goto(p, "verifym03")
    /\ UNCHANGED <<lab, lock, file, run, gate, mem, client>>

VerifyM03(p) ==
    /\ pc[p] = "verifym03"
    /\ m03
    /\ X05Guard(run[p])
    /\ Goto(p, "unlink")
    /\ UNCHANGED <<lab, lock, file, run, gate, mem, client, settled>>

(* gate_7 requires its own marker; the rollback leaves a foreign one.      *)
RemoveMarker(p) ==
    /\ pc[p] = "unlink"
    /\ gate[p] = "7" => marker = run[p]
    /\ marker' = IF marker = run[p] THEN None ELSE marker
    /\ Goto(p, IF gate[p] = "7" THEN "record" ELSE "down")
    /\ UNCHANGED <<m03, rows, gen, lsp, links, containers, lock, file, run, gate, mem,
           client, settled>>

(* labctl dci down --m03, by gate_8 (no marker left) or by the rollback.   *)
StopM03(p) ==
    /\ \/ pc[p] = "start" /\ gate[p] = "8" /\ marker = None
       \/ pc[p] = "down"
    /\ X05Guard(run[p])
    /\ m03' = FALSE
    /\ Goto(p, "record")
    /\ UNCHANGED <<marker, rows, gen, lsp, links, containers, lock, file, run, gate, mem,
           client, settled>>

(* The operator runs labctl dci down --m03 himself: it takes the lock, and *)
(* its guard knows an X05 run by the marker alone.                         *)
OperatorStopsM03 ==
    /\ lock = None
    /\ X05Guard(None)
    /\ m03 /\ m03' = FALSE
    /\ UNCHANGED <<marker, rows, gen, lsp, links, containers, lock, file, procs, client,
           settled>>

-----------------------------------------------------------------------------
(* The server: a transaction is applied when its guards hold, and refused  *)
(* when they do not, or when another writer changed A's switch.            *)
Applies(t) ==
    CASE t.kind = "forward" -> rows = None /\ gen < MaxForwards
      [] t.kind = "restore" -> rows # None /\ gen = t.gen /\ lsp = "A"
      [] OTHER -> rows # None /\ gen = t.gen /\ lsp = "B"

(* The answer, which nobody reads once the process has given up.           *)
Answer(c, st) ==
    [client EXCEPT ![c] = IF @.by = None THEN NoClient ELSE [@ EXCEPT !.st = st]]

Commit(c) ==
    LET t == client[c]
    IN  /\ Live(c)
        /\ Applies(t)
        /\ rows' = CASE t.kind = "forward" -> t.run
                     [] t.kind = "inverse" -> None
                     [] OTHER -> rows
        /\ gen' = IF t.kind = "forward" THEN gen + 1 ELSE gen
        /\ lsp' = CASE t.kind = "move" -> "A"
                    [] t.kind = "inverse" -> "absent"
                    [] OTHER -> "B"
        /\ client' = Answer(c, "applied")
        /\ UNCHANGED <<m03, marker, links, containers, lock, file, procs, settled>>

ClientEnds(c) ==
    /\ Live(c)
    /\ client' = Answer(c, "refused")
    /\ UNCHANGED <<lab, lock, file, procs, settled>>

-----------------------------------------------------------------------------
Step(p) ==
    \/ PrepareRun(p) \/ Acquire(p) \/ Stop(p) \/ Record(p)
    \/ Gate0(p) \/ Observe(p) \/ StartM03(p) \/ Preflight(p) \/ Transact(p)
    \/ Reply(p) \/ RestorationFails(p) \/ Postflight(p)
    \/ WriteMarker(p) \/ BuildLinks(p) \/ BuildContainers(p)
    \/ ReadParents(p) \/ StartRollback(p) \/ VerifyPosition(p) \/ Remember(p)
    \/ Uncertain(p) \/ StartTeardown(p) \/ TeardownLinks(p) \/ TeardownContainers(p)
    \/ ProveAbsence(p)
    \/ VerifyM03(p) \/ RemoveMarker(p) \/ StopM03(p)

Next ==
    \/ \E p \in Procs : Step(p)
    \/ \E c \in Clients : Commit(c) \/ ClientEnds(c)
    \/ \E p \in Procs, r \in Runs, g \in Gates : Invoke(p, r, g)
    \/ OperatorStopsM03

Spec == Init /\ [][Next]_vars

(* Every command of the orchestrator has a timeout and no wait is          *)
(* unbounded (the lock is tried, not awaited), so a process keeps running. *)
FairSpec == Spec /\ \A p \in Procs : WF_vars(Step(p))

-----------------------------------------------------------------------------
(* "A marker may be removed only after every X05 resource is absent and    *)
(* the B LSP is back in its original LS" (contract): whatever gates ran,   *)
(* in whatever order and with whatever stale state, unless a forward given *)
(* up earlier was still running when the absence was proved.               *)
MarkerRemovedClean ==
    [][ settled /\ marker # None /\ marker' = None
          => rows = None /\ links = None /\ containers = None ]_vars

(* While a run's marker exists nobody takes M03 away under it: neither an  *)
(* operator, nor another run's rollback, nor gate 8 (dci_x05_guard).       *)
M03KeptUnderMarker == [][ m03 /\ ~m03' => marker = None ]_vars

(* An invocation records that the B port was restored only when the port   *)
(* has left A, whatever other invocations and given-up clients do between  *)
(* the restoration, its verification and the save: no failed or unanswered *)
(* restoration is recorded as done.  The one exception is a move given up  *)
(* earlier that was still running when the position was verified.          *)
RestoredIsTrue ==
    [][ \A p \in Procs :
          /\ pc[p] # "idle" /\ mem[p].cas # "restored" /\ mem'[p].cas = "restored"
          /\ settled
          => lsp # "A" ]_vars

(* "Restoration uses the inverse compare-and-swap transaction.  It is the  *)
(* first rollback step after any failure" (contract): a teardown never     *)
(* begins with the B port still in A, when no given-up client may move it. *)
RestoredBeforeTeardown ==
    (\A c \in Clients : ~GivenUp(c)) => \A p \in Procs :
        gate[p] = "rollback" /\ pc[p] = "teardown" => lsp # "A"

(* Every invocation ends, and so gives the lock back, even when the OVSDB  *)
(* client never answers.                                                   *)
InvocationEnds == \A p \in Procs : pc[p] # "idle" ~> pc[p] = "idle"
=============================================================================

# TLA+ models of learn-cilium's X05 experiment

The repository is a networking laboratory: about a hundred experiment scripts
(`studies/p003` to `studies/p008`), a front end that brings labs up and down
(`labctl`), and one subsystem that is a program in its own right, the *X05*
control experiment under `src/poc-k8s-fabric/studies/p004/ovn/`. X05 adds a
second tenant to a shared OVN database, moves a logical switch port into the
wrong tenant on purpose, observes the leak, moves the port back and removes
everything again, on a laboratory ("M03") that other tools share. Almost all of
its code, and of the tools under `../host-installation/` that install it, is
about doing that exactly once, with a durable record, whatever fails half-way.
That is what these modules are about.

Paths below are relative to `src/poc-k8s-fabric/studies/p004/ovn/` unless they
start with `labctl/`.

## 1. Inventory

| Component | State it keeps | Operations | Talks to |
|---|---|---|---|
| Northbound adapter `x05-nb-live.py` | one file per stage, `journal.json` (both durable, fsynced), the in-memory journal and stage | `forward`, `inverse`, each 6 stages with one OVSDB transaction | OVN central (docker exec), the admission producer (events), the helpers below |
| Transactions and checks `x05-nb-{plan,preflight,tx,postflight,full-snapshot}` | none | build forward / inverse, check results, check a snapshot BUILT or CLEAN | called by the adapter, the recovery and the orchestrator |
| Recovery `x05-nb-recovery.py` | attempt events in the adapter's journal, copied snapshots, a proof, a temporary file | `recover`, `revalidate_proof` | the adapter's files; takes no lock |
| Orchestrator `x05-orchestrate.py` | `orchestrate-state.json` per run, the X05 marker, the M03 lock | gates 0, 0a, nb, 1 to 8, `--rollback`, each an own process | OVN, docker, `labctl dci`, `x05-cas.sh` |
| labctl `labctl/labs/dci.sh` | the M03 marker, the lock file | `dci up/verify/down [--m03]` guarded by lock and X05 marker | everything in the lab |
| Coordinator `x05-coordinator.py` | evidence, coordinator events, one-shot control session | `execute`: one process, G1 to G8 | builder, capture, admission, OVN |
| Runtime builder `x05-runtime-apply.py` | runtime journal, X05 marker, captured identities | `build`, `compensate`, final absence, finalizer | OVN, docker, OVS, FRR, the producer |
| Capture `x05-capture.py` | tcpdump children and their pidfds, PID journal, pcaps | `from_builder`, `start`, `stop`, retention | the builder's marker, the coordinator |
| Admission producer `x05-runtime-live.py` | the DCI flock (FD 9), one-shot capability, durable event log | prepare, consume, record, close, release | labctl children, all of the above |
| Evaluator `x05-evaluator.py` | none | parse, evaluate, combine retries | coordinator |
| Host updaters `../host-installation/*.py` | installed tree, temporaries, ledgers that nothing overwrites | `migrate`, `stage`, `selftest`, `sources`, each with `--apply` | file system, DCI lock and markers |
| `m01.sh`, `m02.sh`, `m03.sh`, `x05.sh`, labctl's other labs, the case scripts, fixtures, guide builders | the lab itself | linear scripts | docker, kubectl |

What is hard in it:

* **Crashes between two durable steps.** Every program writes intent, acts, and
  writes the outcome; the process may die in between, and so may an append
  whose `os.replace` already happened.
* **Commits nobody waited for.** A transaction runs in an `ovsdb-client` inside
  a container. When the caller's timeout expires the client lives on and may
  commit at any later moment.
* **Reads that are not atomic.** A snapshot is a sequence of table reads.
* **State that is loaded before the lock.** Orchestrator invocations read, and
  write back, their state file before (or without) taking the M03 lock.
* **Two records of the same thing.** Database, journal, state file, marker and
  lab resources change in separate steps, in an order that matters.
* **Children that outlive their parents.** A labctl child inherits the lock's
  descriptor, a tcpdump lives in its own session, a tool whose caller timed out
  may still change the laboratory.
* **Names that others use too.** Links, namespaces, ports and files are removed
  or exchanged by name, a moment after their identity was read.

What makes each part correct: the adapter hands each transaction over at most
once, announces it durably first, and says VERIFIED only of a database that is
as it says; the recovery adds to that journal only what is proved and never
takes anything back; the orchestrator removes its marker only from a clean lab,
never loses M03 under a marker, and never records a restoration that did not
happen; the coordinator passes only what it measured and releases only a clean
lab; the builder covers everything it makes by the marker and removes exactly
that; the admission lets one process change the lab at a time and never
authorises anything after a refusal; an updater loses no file and its PASS is
true; every wait ends.

## 2. Modules

| Module | Models | EXTENDS / composes |
|---|---|---|
| `Northbound` | the OVN Northbound database, the two guarded transactions, the in-container clients, what a snapshot shows | |
| `NBLive` | `x05-nb-live.py` as a process over `Northbound` | `Northbound` |
| `OwnedChange` | abstract: a change made and undone at most once, announced before, confirmed only when there | refined by `NBLive` |
| `NBRecovery` | `x05-nb-recovery.py` composed with the adapter and its journal | `NBLive` |
| `Orchestrate` | `x05-orchestrate.py`: gates and rollback as processes, lab, marker, lock, labctl's guard | |
| `Coordinator` | `x05-coordinator.py`: one execution, its event chain, the move and its undoing, clean-up and verdict, with the builder's and the captures' outcomes | |
| `RuntimeApply` | `x05-runtime-apply.py` with the plan of `x05-runtime-plan.py`: every effect of build and compensation | |
| `Capture` | `x05-capture.py` composed with the builder whose marker it continues | `RuntimeApply` |
| `Admission` | `x05-runtime-live.py` and its labctl children (`labctl/labs/dci.sh`), with sessions and an operator on one lab | |
| `HostUpdate` | the four tools of `../host-installation/` on one file tree | |
| `NBLiveProofs`, `NBRecoveryProofs`, `OrchestrateProofs`, `CoordinatorProofs`, `CaptureProofs`, `AdmissionProofs`, `HostUpdateProofs` | theorems and their proofs | the module they are named for, TLAPS |
| `RuntimeProofs` | theorems about the two programs of effects and what they do to the laboratory | `CaptureProofs` |
| `MC*` | instances for TLC | |

### How state and actions correspond

*Northbound.* `rows` is 0 or the number of the forward commit whose UUIDs the 34
owned rows carry; `aPorts` is the complete port set of `ls-dci-tenant` without
the sentinel, which another client may change at any time (`ForeignWrite`).
`ForwardGuard` and `InverseGuard` are the `wait` operations that `x05-nb-tx.py`
generates; a failed wait refuses the whole transaction. A client is `running`
until the server applies or refuses it or it dies; nothing ties it to the
process that started it.

*NBLive.* `jstate`/`jarts` are `Journal.document["state"]` and its artifact
events, `file[s]` the file of stage `s`. One stage is `helper` (a command, or two
reads for a snapshot), `write` (the atomic file write), `append` (the journal
event), `publish` (the producer); the transaction's stage is `prepare`,
`preparepub`, `dispatch`, `wait`, then `outcome`, `outcomepub`, and the phase
ends with `verify`, `verifypub`. Every one of these steps has its failing
sibling. `Raised` is `_run_operation`'s exception path: nothing, retention of the
raw outcome (`retain*`), or qualification as AMBIGUOUS. An append that failed
leaves memory ahead of disk (`trusted` FALSE), after which `verify_current`
refuses every append of that process. `Crash` is enabled at every step.

*NBRecovery.* `attempts` and `copies` are the recovery events and files, `tmp` the
fixed-name temporary, `source`/`revalidation` the operator's two snapshots
(captured table by table, at any time). `rpc` follows `recover()`: reconcile,
intent, validate, copy, recheck, publish, recheck; each append is two steps
(create the temporary, replace), with a crash or an error possible in between.

*Orchestrate.* `Procs` are process slots; `Invoke` starts a gate of a run in a
slot by loading the state file. `file[r]`/`mem[p]` keep what the gates decide on:
`gates.nb` passed, and the `cas` entry. `rows`, `gen`, `lsp`, `links`,
`containers`, `marker`, `m03` are the lab. `Transact` hands a transaction, bound to
the row UUIDs just read, to a client that may outlive the process: `client[c].by`
is the process that awaits it, or nobody once the 30 s are over or the process has
ended. Such a given-up client runs on beside every later invocation, of the same
slot too, and may still commit. `settled` is history: FALSE when the lock's holder
proved absence, or the position of the B port, beside a given-up client that can
still undo what was proved. `Stop` is any failed command, raised check or kill; the `finally` clause (or the kernel)
releases the lock. Gates 1 to 4 only observe and are one gate, "observe". The
command `--gate all` is a sequence of such gates in one process; its behaviours
are those of the sequence of invocations, minus the interleavings.

*Coordinator.* `pc` walks `_execute_bound`: one action per call of its try block,
then the finally block (`cleaning`), the captures, the clean-up and the verdict;
every action has an exceptional outcome (`Abort`: to the finally block; `GiveUp`:
clean-up stops). `log` is what the admission's durable event log holds, `failed`
and `stateIndex` are `_CoordinatorEvents`. `Restore`..`RestoreEvaluate` are
`restore_to_b`, entered from the try block or from the finally block. `pos` and
`sb` are the port's switch and its Southbound datapath, which `Northd` copies in
its own time; `client[t]` is a transaction in the container, committed only if
its waits hold then (`Guard`), even long after the coordinator gave it up or was
killed. `windows` keeps, for each completed block of probes, where the port was.
`aSwitch` says whether `observe` finds A's switch under the name it asks for; both
values are initial states (see the disagreements below). `faulted` is history:
something outside the coordinator went wrong.

*RuntimeApply.* `world[t]` is the set of attributes the thing `t` (a link end, a
port, a namespace, a container, an FRR instance, a mapping, the Northbound rows,
a generated VRF) shows, empty when it does not exist. `BuildProgram` and
`CompensateProgram` are the two call sequences of `build` and `compensate`, one
*effect* per resource change. Every effect is the same five steps: check what
is there and announce (`Announce`), `Dispatch`, record the `Outcome`, read back
and keep the identity (`Readback`); each may fail, `DispatchLost` leaves the tool
running (`late`), and one failure ends the builder for good (`Abort`). An effect
names what is checked before it, what its tool insists on when it runs, and the
attributes it adds or takes; `Fallout` is what the kernel or docker removes with
it. `bound` are `_bindings`, `known` and `marker` the marker in memory and on disk,
`removal` the journal's two events about the marker's removal. `LateEffect`,
`Northd`, `MovePort` and `Interfere` go on around the builder.

*Capture.* A point's tcpdump is a child (`none`, `alive`, `exited`, `reaped`) with
a held pidfd and a proved session. `start` is spawn, prove and wait for every
point, `stop` signals, reaps and publishes; each checkpoint is an intent, a
successor of the marker and a completion in the builder's journal. A tcpdump
may end by itself at any time. After the compensation `Retain` moves the files.

*Admission.* Per session, the fields of `AdmissionSession`; `pc` walks `prepare`
(lock, baseline, `up`, `verify`, snapshot), the open capability, and `close`
(`verify`, `down`, baseline, release). `child[a]` is a labctl command in three
stages; it owns a copy of the lock's descriptor, so `lock[a]` outlives the session
(`AfterChild`). `log`, `mem`, `head` and `accepted` count the durable records, those
of the live chain, those the capability is bound to, and those that were
returned. The operator is anyone who runs labctl by hand; `lockfile` is the inode
at the lock's path, which may be exchanged once.

*HostUpdate.* `fs` maps names to inodes (who made them, complete or not), `disk` is
what a power cut leaves, `ledger[a]` the durable records. `Program[t]` is the list
of effects of a tool. An invocation checks, writes the intent, checks again
(`act`), does the effect (`do`), syncs, checks the result and writes it; a refused
check before the ledger exists changes nothing, later it ends in UNKNOWN. The
markers of DCI sessions, the lock and its inode are shared with them.

### Abstractions

* The 34 rows are one value: both transactions insert or delete all of them.
* Stage files keep the status and the database facts that a later check reads.
* `verify_current` and the replacement of the journal are one step of the
  adapter. With the recovery running *at the same time* this would hide a window;
  the runs keep the two apart (`Concurrent = FALSE`), as the operator must: with
  `Concurrent = TRUE`, `NothingTakenBack` fails at once.
* The coordinator sees builder, captures and NB adapter through their outcomes:
  everything done, or an exception with anything left behind. Its source and
  capability guards are exceptions that may come from any step. A block of probe
  windows (1-8, 9-10, 11-12) is one step, as is each pair of gates G1, G2. An
  observation is the reading of the switches and, later, of the binding.
* The adapter is bound to the admission producer, as production builds it; the
  mode without a producer is left out. The producer is external: a publication
  succeeds or fails.
* Orchestrator: gates 1 to 4 only measure and are one gate, "observe"; the
  capture processes they start are left out. A forward transaction names the run
  it builds; the others name the rows by the number of the forward that made them.
* Builder: a command's argument lists and the parsing of its output are left
  out; an identity is a set of attributes. A namespace bears no mark of its
  owner: one exchanged between its creation and its first reading is taken for
  the builder's own (the third disjunct of `ForeignKept`). There is no action for
  a kill, because nothing takes over from a dead builder: its behaviours are
  those that stop in any state, with the surroundings going on.
* Capture: what the packets say is one verdict. `health()` changes nothing.
* Admission: what the collector reads is whose M03 and whose X05 runtime there
  is; the guards against replaced Python objects and the snapshot validators
  are a check that may fail. Sessions only enter while the lock file is the
  original one; whoever works on an exchanged file is the operator. Leaving the
  process resets a session's memory. An execution event whose name or detail is not
  well formed is refused before anything is read (`x05-runtime-live.py:4527-4528`,
  outside the try): it changes nothing, is not remembered, and is no step of the
  model. `RefusalIsFinal` is about the checks of the state and the appends.
* HostUpdate: a refusal before the ledger exists is a stuttering step, a torn
  record is no record, and the many directories, aliases and modes of the new
  evidence store are one step, `fill`. Records of an unknown step are left out;
  the terminal UNKNOWN is not. Only `sources` takes the flock; the other three
  look at the lock's inode and at the markers. A PASS may be durable although
  its command reports UNKNOWN (`PassFails`). No tool works after a reboot: the
  pinned lock inode is on tmpfs.
* Bounds: `MaxInsertions`, `MaxForwards` (forward commits), `MaxAttempts` (recovery
  attempts), `EventLimit` (execution records of a session), `CapturePoints`,
  `Attempts` of the coordinator (polls), `Clients` of `Orchestrate` (how many OVSDB
  clients run at a time, awaited or given up: a transaction waits for a free slot,
  a new invocation for none). Another tool interferes with the runtime once, and
  exchanges a file of the host once; the power fails once.

## 3. Runs

| Run | Instance | Shows |
|---|---|---|
| `nb_live` | 2 port sets, 2 commits | `TypeOK`; `NoReissue` (each phase is dispatched at most once across all crashes and restarts); `IntentIsDurable`; `JournalBindsFiles`; `ForwardVerifiedIsBuilt`, `InverseVerifiedIsClean` (a VERIFIED state tells the truth about the database, late commits and torn snapshots included); `DeletesOnlyVerifiedRows`; refinement of `OwnedChange` (`ChangeSpec`); `OperationEnds` |
| `nb_recovery` | 1 port set, 1 commit, 2 attempts, sequential | `RecoveredIsBacked` (what is published is the last attempt's, numbered uniquely, with its three files); `RecoveredVerifiedIsBuilt`; `SettledCleanIsClean` (true of the database when the snapshots were taken after the client ended); `NothingTakenBack` |
| `orchestrate` | 1 run, 2 processes, 1 client, 2 forward commits (4.2 million states) | `MarkerRemovedClean` whatever gates are invoked in whatever order, with stale state files and a given-up client |
| `orchestrate_runs` | 2 runs, 1 process, 2 clients, 1 forward commit (1 million states) | `M03KeptUnderMarker`, `RestoredIsTrue` (beside given-up clients, and but for a given-up move that still runs when the position is verified), `InvocationEnds` |
| `coordinator` | 2 polls, A's switch present or not | `ReleasedIsClean` (a released admission leaves nothing, and nothing given up can come back), `RowsLeaveFromB`, `LoggedRestoreHolds`, `MovedOnceAndAnnounced`, `PassIsMeasured`, `FaultlessRunPasses`, `ExecutionEnds` |
| `runtime` | 2 capture points, a link, a namespace and a container that another tool may take | `MarkerCoversRuntime` (nothing of the runtime, nor a tool or tcpdump that still runs, without the marker), `JournalDescribesRuntime` (everything was announced), `BuildVerifies`, `CompensatedIsClean`, `ForeignKept`, `MarkerRemovedLast`, `OperationReturns` |
| `admission` | 2 interchangeable sessions, an operator, 1 event | `OneMutator`, `AcceptedIsDurable`, `KeptM03Stays`, `SubstrateStays`, `RefusalIsFinal` |
| `host_update` | each tool once, `selftest` twice, 3 files of which `sources` exchanges 2, one of them that of `selftest` | `PassIsWhole` (and stays so over kill -9 and a power cut), `OnceOnly`, `NothingLost`, `MixedOnlyAfterUnknown` |

Two port sets (the original and a drifted one) are enough to make either guard
fail and come back. Two forward commits are what it takes for a row UUID to be
stale and for a given-up forward to commit after a rollback; two attempts for a
recovery to find a predecessor's remains; two processes for an invocation to
meet the lock and a stale state file; two runs for a foreign marker; one client
slot for a transaction that commits after it was given up, two for one that does so
while a later gate or rollback awaits its own. The runs divide these between them
(`orchestrate` has the two processes, `orchestrate_runs` the two runs and clients),
because all of them together are too many states; the proofs of section 4 have
them all. The recovery runs fix the port set (drift is what
`nb_live` explores; the recovery only reads it). Two polls let the Southbound once and converge, or not.
Two capture points are what it takes for one to be published and the next not;
the three things another tool may touch are one that bears the owner's mark,
one that does not and one that others fall with. Two sessions are a first one
that leaves something behind and a later one that finds it. One tool twice is
what `OnceOnly` is about. Two targets are what makes an update half done; one is
the file that `selftest` has exchanged before (`TARGET_ORDER[2]` of
`update-runtime-sources.py`), the other comes from `stage` as the other three do, and
the third file is one that no updater touches.

Deadlock is checked where an operator can always start something. It is not in
`runtime` (a builder works once and its laboratory then stands still),
`admission` (a session's object is used once, and a session that may not enter
ends the story) and `host_update` (each tool runs once): these systems do stop.

Fairness: `OperationEnds` assumes weak fairness of the steps of a running
operation, `InvocationEnds` of a running invocation, `ExecutionEnds` of the
coordinator and `OperationReturns` of the thread that runs builder and captures.
The code justifies it: they are ordinary processes, every subprocess call
carries a timeout, polls are counted, and the lock is tried and not awaited.
Nothing is assumed of the OVSDB client or server, northd, the tcpdumps, the
producer, or an operator.

### Disagreements between the code and its documentation

Runs that expect a violation; each states a sentence or a test of the repository.

| Run | Sentence | What the code does |
|---|---|---|
| `nb_recovery_crash` (`CrashLeavesRecoverable`) | "Keep the global state recoverable if the process crashes during this reconciliation write" (`x05-nb-recovery.py:669`) | a crash after the fixed-name temporary was created blocks every later append |
| `orchestrate_move` (`RestoredBeforeTeardown`) | "It is the first rollback step after any failure" (`x05-execution-contract.md:162`) | a move whose record was not saved is not restored |
| `coordinator_switch` (`DocumentedRunPasses`) | A's VPC is `ls-dci-tenant` (`x05-topology.md:14`) | the coordinator looks for `ls-x05-tenant-a`, which nothing creates: no execution gets past `prepare` |
| `runtime_ovs` (`BuildVerifies` with `KernelDatapath = TRUE`) | a build ends in `BUILT` (`x05-runtime-apply-selftest.py:2236`) | the identity of a link that becomes an OVS port is read before the port is added; a kernel datapath then gives it the master `ovs-system`, and the final verification raises |

Five more are described and have no run:

* The recovery never compares its snapshots' age with the dispatch
  (`x05-nb-recovery.py:1024`): snapshots taken before it prove CLEAN. This is why
  `SettledCleanIsClean` has its condition.
* Gate nb commits the Northbound rows before it writes the marker
  (`x05-orchestrate.py:2026` and `:937`); `x05-execution-contract.md:31` says the
  marker is persisted "before the first mutation".
* The rollback skips the Northbound inverse when gate nb was not recorded as
  passed (`x05-orchestrate.py:1410`); `x05-execution-contract.md:33` says it "checks
  actual state".
* Gate nb overwrites a marker that another run left (`x05-orchestrate.py:937`);
  `x05-execution-contract.md:22` says "A stale marker stops the run".

* The rollback verifies that the B port is in B (`x05-orchestrate.py:2305`) and then
  saves `restored` (`:2307`). A move that an earlier gate 5 gave up after 30 s may
  commit in between: the state file then says restored, the rollback goes on to the
  teardown, and the port is in A, against the same sentence of
  `x05-execution-contract.md:162` as above. Gate 6 has the same window (`:2215` to
  `:2217`). This is why `RestoredIsTrue` has its condition (`settled`): without it
  `orchestrate_runs` fails, with one invocation after another.

## 4. Proofs

`NBLiveProofs` proves, for every set of port sets and every bound on commits, the
type invariant, `NoReissue`, `IntentIsDurable`, `JournalBindsFiles`,
`ForwardVerifiedIsBuilt`, `InverseVerifiedIsClean`, `DeletesOnlyVerifiedRows` and
the refinement `Spec => ChangeSpec`. Assumptions: `PortSets` is not empty and
`MaxInsertions` is a positive natural number.

None of these is inductive alone. The inductive invariant is

    IndInv == TypeOK /\ Control /\ Bound /\ Database /\ Receipts

* `Control`: where a running operation can be. The stage index never leaves its
  phase and never returns to the transaction's stage once `attempted` is set;
  a process that reaches the dispatch has the durable INTENT of its own phase,
  which only a process that found the journal at its beginning can have
  written. `NoReissue` and `IntentIsDurable` are conjuncts of it.
* `Bound`: every journalled stage, and every stage before the current one, has a
  file.
* `Database`: with at most one dispatch per phase, the rows exist exactly when
  the forward was applied and the inverse was not, under the first UUIDs.
* `Receipts`: a passing result or checked file, or the one about to be written,
  was produced by a client that had been applied; and a VERIFIED state has its
  checked file.

`VERIFIED => true` then follows without trusting the snapshot at all: the proof
shows that the receipt of the transaction already decides it. The refinement
maps the journal's state to the abstract announcements and verdicts and each
client to a life; each step of `Next` is one abstract action or a stutter.

`NBRecoveryProofs` proves `RecoveredIsBacked` for any number of attempts and also
beside a running adapter, and under the assumption `~Concurrent`
`NothingTakenBack`, `RecoveredVerifiedIsBuilt` and `SettledCleanIsClean`. The
invariant is `Types`, `Journal` (while the adapter trusts its journal, it is the
adapter's own), `Numbers` (attempt numbers grow in journal and memory, and the
files have a largest one, so the `CHOOSE` of `AttemptNumber` is a maximum),
`Backed` (from the three copies on, the last attempt's files exist; a recovered
journal is met only by the publisher's own recheck) and `Alone` (the journal has
one writer), which alone needs the assumption. For the last two theorems `Truth`
follows a reading from the snapshot through the proof into the attempt that is
published: a BUILT rests on a client that had been applied, under the very UUIDs,
and a CLEAN begun after the client ended on one that never will be. `Truth` rests
in turn on `NBLiveProofs`' `IndInv`, which survives a recovery only because nobody
else writes the journal meanwhile.

`OrchestrateProofs` proves `MarkerRemovedClean`, `M03KeptUnderMarker` and
`RestoredIsTrue` for any runs, any number of processes, of clients and of forward
commits. `Awaited` says that a process awaits at most one client and only while it
waits, `Holding` that a process inside a mutating gate holds the M03 lock, and that
one about to take M03 down has no marker of its own left. With these `Settled` is
inductive: between the proof of absence and the removal of the marker the lab stays
empty and no forward runs, and between the verification of the B port and its record
the port is out of A and no move runs, because a client that is not given up
belongs to a process inside, and there is only one. Both hold under `settled`, as the
properties do: a client given up earlier and still running then escapes the lock.

`CoordinatorProofs` proves all six safety properties of the coordinator, for any
poll budget. `Once` says which transactions can have been handed over at each
step, `Database` where the port is, given what the clients report (while the rows
exist it is in A if the forward was applied and the inverse was not, and never
without an applied forward), `Proved` what LEAK_PROVED and RESTORED rest on (a
forward that has been applied, so that none can be outstanding), `Cleaned` what
the release rests on: a restoration that only looked at the port is harmless
there, because the last transaction waits for B itself. On top
of them, `Measured` counts log and windows of an execution without an error,
and `Faultless` follows one around which nothing goes wrong.

`CaptureProofs` proves `MarkerCoversRuntime`, `CompensatedIsClean` and
`MarkerRemovedLast` for builder and captures together, any number of points,
either datapath and any foreign things. `Cover` is the heart: where the marker is
missing, nothing of the runtime exists, and from the final absence on nothing
can come back, because the one tool that may still run belongs to the one
effect that ended the builder. `Count` says that an intent without its readback
belongs to the step under way, `Files` that a passing packet verdict has seen
every point; `Flow` ties states to steps.

`RuntimeProofs` goes on from there and looks into the laboratory. Its first half is
about the two programs alone: what shape every effect has (a build never adds
`foreign` and takes away nothing but the staged file; a compensation adds nothing
and removes either what it has identified or what bears no owner's mark), that the
build covers every planned thing, and how the intents count it. The programs are
concatenations of parts, so these lemmas go part by part through `ConcatEffects`,
without unfolding the whole. The second half reduces the thirty-odd actions to the
kinds of step that matter here (`StepKinds`) and proves, kind by kind:

* `ForeignKept`, from `Lab` (whose the things are) and `Kept`: a finished
  build has captured no owner-checked thing that was somebody else's, and a removal
  under way, the builder's or a given-up tool's, meets a foreign thing only if that
  was exchanged or captured as such. This is inductive only together with
  the late tool: the effect that was given up is the one that acts when nobody
  looks.
* `JournalDescribesRuntime`, from `Place`, `IntentCount` (from the
  announcement of its step `i` on a build has exactly `IntentOf[i]` intents) and
  `Describes` (these name what exists and what a late tool works on).
* `BuildVerifies` under the assumption `~KernelDatapath`, from `Built`: each effect
  that was read back is still done, and each thing still is as it was read. The
  assumption is needed: `runtime_ovs` shows what happens without it.

`AdmissionProofs` proves, for any set of sessions, `OneMutator` (from `Locks`: who
may change the lab has an open descriptor of its own, and two of them never
have the same inode locked), `AcceptedIsDurable` (from `Events`: durable log, live
chain and capability head never drift by more than the record under way) and
`RefusalIsFinal`. `KeptM03Stays` and `SubstrateStays` need three more parts:
`SessionsWork` (a session has its lock descriptor until the release, has attempted
its setup when it runs a command, and has no command left when it hands out the
capability), `OwnSubstrate` (from G0's look at a lab without M03 until the lock is
free again, what there is of M03 is the session's own) and `MarkerAlone` (a marker
is that of a session which will run no command any more, and nobody's command
works under it). All but the first hold as long as the lock's file is the one the
session locked; the properties say so too.

`HostUpdateProofs` proves, for any invocations, any list of reviewed files and any of
them as targets of `sources`, that of `selftest` among them as in the code
(`TargetsAssumption`), `OnceOnly` (from
`Owners`: the ledger directory is made by exactly one invocation of a tool),
`NothingLost` (from `Hosts`: a tool writes only into the incomplete file it made
itself; every other effect creates, links or exchanges names), `PassIsWhole` and
`MixedOnlyAfterUnknown`. The last two are about a whole update and need the rest:
`Progress` and `Ordered` (an effect is recorded only after every earlier one, and
`sources` acts only after a `selftest` that passed),
`Unsynced` (an entry that a power cut would change back is that of a tool between
its effect and its fsync, or of one that stopped there),
`Secured` (a passed tool's files have their names for good, or are parked by a later
updater, whose ledger says so: the file of `stage` that `selftest` exchanges, those that
`sources` exchanges, and the file of `selftest` itself), `Complete` and `Locking` (the updater holds the
DCI lock from its preflight on). Targets are a sequence of any length without
repetitions, so the proof counts along it with the library's sequence theorems.

Every safety property of the passing runs is thus also a theorem. Only
model-checked are the four liveness properties `OperationEnds`, `InvocationEnds`,
`ExecutionEnds` and `OperationReturns`: the prover has neither fairness nor
ENABLED.

## 5. Not modelled

Pure I/O and data are left out: the case scripts, `m01.sh` to `m03.sh` and `x05.sh`,
the lab constructors, the guide builders, YAML and router configuration. They
are linear scripts around docker, containerlab and kubectl, with no state of
their own beyond the lab they build. The evaluator and the preflights are pure
functions over command output; what depends on them is an outcome in the
modules that call them. The selftests are tests. Of the modelled parts the
following is left out, and said so in their status: the object graphs and
digests by which the adapter, the coordinator and the producer check that
nobody replaced their Python objects (a check that may fail, wherever it is
called), the adapter's mode without a producer, the columns of the 34 planned
rows, the packet decoder, and the dry runs and fixture modes of the host tools.

`recover()` beside a running adapter (`Concurrent = TRUE`) is modelled, and what
it breaks is known (`NothingTakenBack`); no document says it must not, so there
is no run for it. What it does not break, `RecoveredIsBacked`, is proved.

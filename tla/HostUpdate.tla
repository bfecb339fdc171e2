----------------------------- MODULE HostUpdate -----------------------------
(***************************************************************************)
(* The four one-shot tools that install the laboratory's reviewed sources  *)
(* on the host (host-installation/): "migrate" replaces the evidence alias *)
(* by a private store, "stage" publishes the source files, "selftest"      *)
(* exchanges one of them and "sources" exchanges four, that one again      *)
(* among them.  Each runs next to DCI sessions, to somebody changing a     *)
(* file, to kill -9 and to a power cut; each writes a ledger that nothing  *)
(* ever overwrites.                                                        *)
(***************************************************************************)
EXTENDS Naturals, Sequences, FiniteSets, SequencesExt

CONSTANTS
    Attempts,       \* the invocations with --apply: <<tool, identifier>>
    Files,          \* the reviewed files, in the order "stage" publishes them
    TargetOrder     \* TARGET_ORDER: the files that "sources" exchanges

Tools == {"migrate", "stage", "selftest", "sources"}

ASSUME AttemptsAssumption == \A a \in Attempts : a[1] \in Tools
ASSUME FilesAssumption ==
    /\ Files \in Seq(Range(Files)) /\ IsInjective(Files)
    /\ Range(Files) \cap {"evidence", "ovn"} = {}
(* The file of "selftest", x05-runtime-live-selftest.py, is TARGET_ORDER[2]*)
ASSUME TargetsAssumption ==
    /\ TargetOrder \in Seq(Range(TargetOrder)) /\ IsInjective(TargetOrder)
    /\ "selftest" \in Range(TargetOrder) /\ Range(TargetOrder) \subseteq Range(Files)

VARIABLES
    fs,         \* the directory entries: which inode each name has
    disk,       \* the entries a power cut leaves
    rooted,     \* the bundle root belongs to root
    store,      \* store[t]: the fixed ledger directory of tool t exists
    ledger,     \* ledger[a]: the durable records <<kind, step, status>> of a
    pc, step,   \* where an invocation is
    done,       \* done[a]: the effects it knows (phase of its targets)
    lock,       \* who holds the flock of the canonical lock file
    pinned,     \* the canonical lock file is the inode all tools pin
    marker,     \* /run/labctl/dci-m03/active or dci-x05/active exists
    outside,    \* history: somebody else has changed a file
    late        \* history: invocations whose last readback was over by then

hostVars == <<fs, disk, rooted>>
runVars == <<store, ledger, pc, step, done>>
dciVars == <<lock, pinned, marker>>
vars == <<hostVars, runVars, dciVars, outside, late>>

Tool(a) == a[1]
Nobody == <<"nobody", 0>>
Entries == {"evidence", "ovn"} \cup Range(Files)

(* The effects of a tool in their order.  The many directories, aliases    *)
(* and modes of the new store are one step, "fill".                        *)
MigrateProgram == <<<<"own", "evidence">>, <<"store", "evidence">>,
                    <<"fill", "evidence">>, <<"exchange", "evidence">>>>
StageProgram ==
    [i \in 1 .. 1 + 2 * Len(Files) |->
        IF i = 1 THEN <<"mkdir", "ovn">>
        ELSE <<IF i % 2 = 0 THEN "create" ELSE "publish", Files[i \div 2]>>]
SelftestProgram == <<<<"create", "selftest">>, <<"exchange", "selftest">>>>
SourcesProgram == [i \in DOMAIN TargetOrder |-> <<"create", TargetOrder[i]>>]
                  \o [i \in DOMAIN TargetOrder |-> <<"exchange", TargetOrder[i]>>]
Program == [migrate |-> MigrateProgram, stage |-> StageProgram,
            selftest |-> SelftestProgram, sources |-> SourcesProgram]
Targets == [t \in Tools |-> {s[2] : s \in Range(Program[t])}]

(* The name of an entry, and the temporary or parking name next to it,     *)
(* which carries the attempt: .p004-...-<attempt>.tmp, STAGE_PREFIX.       *)
At(f) == <<Nobody, f>>
Temp(a, f) == <<a, f>>
Names == {At(f) : f \in Entries}
         \cup UNION {{Temp(a, f) : f \in Targets[Tool(a)]} : a \in Attempts}
Op(a) == Program[Tool(a)][step[a]][1]
File(a) == Program[Tool(a)][step[a]][2]

(* An inode is known by who made it, and whether its content is complete.  *)
Inode(by, whole) == [by |-> by, whole |-> whole]
Nothing == Inode(Nobody, FALSE)
Legacy == Inode(<<"legacy", 0>>, TRUE)
Foreign == Inode(<<"outsider", 0>>, TRUE)
Mine(a) == Inode(a, TRUE)
MadeBy(t, name) == fs[name].whole /\ fs[name].by[1] = t

Init ==
    /\ fs = [n \in Names |-> IF n = At("evidence") THEN Legacy ELSE Nothing]
    /\ disk = fs /\ rooted = FALSE
    /\ store = [t \in Tools |-> FALSE]
    /\ ledger = [a \in Attempts |-> {}]
    /\ pc = [a \in Attempts |-> "idle"]
    /\ step = [a \in Attempts |-> 1]
    /\ done = [a \in Attempts |-> {}]
    /\ lock = Nobody /\ pinned = TRUE /\ marker = FALSE
    /\ outside = FALSE /\ late = {}

(***************************************************************************)
(* What a tool verifies before and after each effect.                      *)
(***************************************************************************)
(* root, evidence, P004 and S002 are the pinned directories.               *)
Pins(a) == Tool(a) = "migrate" \/ (rooted /\ MadeBy("migrate", At("evidence")))

(* The file's maker according to the tool's baseline: that of "sources"    *)
(* has the file of "selftest" as "selftest" left it.                       *)
Baseline(t, f) ==
    CASE f = "evidence" -> "legacy"
      [] f = "selftest" /\ t = "sources" -> "selftest"
      [] OTHER -> "stage"

(* Files that are not the tool's own: absent before the migration, as the  *)
(* baseline records them for the two updaters.  "stage" does not look.     *)
Bare == \A f \in Range(Files) : fs[At(f)] = Nothing
Unchanged(t) == \A f \in Range(Files) \ Targets[t] : MadeBy(Baseline(t, f), At(f))
Protected(a) ==
    /\ Tool(a) = "migrate" => Bare
    /\ Tool(a) \in {"selftest", "sources"} => Unchanged(Tool(a))

(* The phase of each target: ORIGINAL, STAGED, EXCHANGED.                  *)
Staged(a, f) ==
    fs[Temp(a, f)] =
        CASE done[a] \cap {<<"create", f>>, <<"fill", f>>} # {} -> Mine(a)
          [] <<"store", f>> \in done[a] -> Inode(a, FALSE)
          [] OTHER -> Nothing
Parked(a, f) == MadeBy(Baseline(Tool(a), f), Temp(a, f))
Phase(a, f) ==
    IF <<"exchange", f>> \in done[a]
    THEN fs[At(f)] = Mine(a) /\ Parked(a, f)
    ELSE MadeBy(Baseline(Tool(a), f), At(f)) /\ Staged(a, f)
Phases(a) == Tool(a) = "stage" \/ \A f \in Targets[Tool(a)] : Phase(a, f)

(* The pinned terminal records of the earlier tools; "sources" also finds  *)
(* the original that "selftest" displaced under the name it was parked at. *)
Passed(t) == \E b \in Attempts : Tool(b) = t /\ <<"terminal", 0, "PASS">> \in ledger[b]
ParkedBaseline ==
    \E b \in Attempts : /\ Tool(b) = "selftest" /\ <<"terminal", 0, "PASS">> \in ledger[b]
                       /\ MadeBy("stage", Temp(b, "selftest"))
Proofs(a) ==
    /\ Tool(a) \in {"selftest", "sources"} => Passed("migrate") /\ Passed("stage")
    /\ Tool(a) = "sources" => Passed("selftest") /\ ParkedBaseline

(* All four look at the lock file's identity and at the markers; only      *)
(* "sources" holds the flock (and takes it again each time it verifies).   *)
LockPinned == pinned
NoMarkers == ~marker
LockAndMarkers == LockPinned /\ NoMarkers
Flocked(a) == Tool(a) = "sources" => lock \in {Nobody, a}

Verified(a) ==
    /\ LockAndMarkers /\ Flocked(a)
    /\ Pins(a) /\ Protected(a) /\ Phases(a) /\ Proofs(a)

(***************************************************************************)
(* The ledger.  A record is created with O_EXCL, written, and synced with  *)
(* its directory; the write may fail although the record is durable.  (A   *)
(* torn record is as good as none.  The UNKNOWN result of a step is left   *)
(* out: it is written if it can be, and nothing reads it.)                 *)
(***************************************************************************)
Vacant(a, kind, i) == <<kind, i>> \notin {<<r[1], r[2]>> : r \in ledger[a]}
Write(a, kind, i, status) ==
    /\ Vacant(a, kind, i)
    /\ ledger' = [ledger EXCEPT ![a] = @ \cup {<<kind, i, status>>}]
WriteFails(a, kind, i, status) == UNCHANGED ledger \/ Write(a, kind, i, status)
Goto(a, p) == pc' = [pc EXCEPT ![a] = p]

(* With the process go its memory and its descriptors.                     *)
Gone(a, p) ==
    /\ Goto(a, p)
    /\ step' = [step EXCEPT ![a] = 1] /\ done' = [done EXCEPT ![a] = {}]
    /\ lock' = IF lock = a THEN Nobody ELSE lock

(***************************************************************************)
(* Before the first effect.                                                *)
(***************************************************************************)
(* The lock file is opened, and locked by nobody.                          *)
Mutant_Acquired_OpenOnly(a) == lock

Acquired(a) == IF Tool(a) = "sources" THEN a ELSE lock

(* The destinations of "stage" are absent.                                 *)
Fresh(a) == Tool(a) = "stage" => Bare

(* A refusal changes nothing and is no step.                               *)
Preflight(a) ==
    /\ pc[a] = "idle" /\ ~store[Tool(a)]
    /\ Verified(a) /\ Fresh(a)
    /\ step' = [step EXCEPT ![a] =
            IF Tool(a) = "stage" /\ fs[At("ovn")] # Nothing THEN 2 ELSE 1]
    /\ lock' = Acquired(a)
    /\ Goto(a, "prepare")
    /\ UNCHANGED <<hostVars, store, ledger, done, pinned, marker, outside, late>>

(* makedirs(..., exist_ok=True).                                           *)
Mutant_Vacancy_Tolerated(t) == TRUE

(* mkdir is what excludes every other invocation of the same tool.  The    *)
(* last tool verifies everything once more before it.                      *)
Vacancy(t) == ~store[t]
PrepareStore(a) ==
    /\ pc[a] = "prepare" /\ Vacancy(Tool(a))
    /\ Tool(a) = "sources" => Verified(a)
    /\ store' = [store EXCEPT ![Tool(a)] = TRUE]
    /\ Goto(a, "begin")
    /\ UNCHANGED <<hostVars, ledger, step, done, dciVars, outside, late>>
PrepareFails(a) ==
    /\ pc[a] = "prepare" /\ Gone(a, "ended")
    /\ store' \in {store, [store EXCEPT ![Tool(a)] = TRUE]}
    /\ UNCHANGED <<hostVars, ledger, pinned, marker, outside, late>>

Begin(a) ==
    /\ pc[a] = "begin"
    /\ \/ Write(a, "run", 0, "INTENT") /\ Goto(a, "check")
       \/ WriteFails(a, "run", 0, "INTENT") /\ Goto(a, "fail")
    /\ UNCHANGED <<hostVars, store, step, done, dciVars, outside, late>>

(***************************************************************************)
(* One effect: verify, announce, verify, act, sync, verify, record.        *)
(***************************************************************************)
AllDone(a) == step[a] \notin DOMAIN Program[Tool(a)]
Check(a) ==
    /\ pc[a] = "check" /\ ~AllDone(a)
    /\ Goto(a, IF Verified(a) THEN "intent" ELSE "fail")
    /\ UNCHANGED <<hostVars, store, ledger, step, done, dciVars, outside, late>>

Announce(a) ==
    /\ pc[a] = "intent"
    /\ \/ Write(a, "intent", step[a], "INTENT") /\ Goto(a, "act")
       \/ WriteFails(a, "intent", step[a], "INTENT") /\ Goto(a, "fail")
    /\ UNCHANGED <<hostVars, store, step, done, dciVars, outside, late>>

(* The action looks once more, except where the tools do not.              *)
LooksAgain(a) == Tool(a) \in {"selftest", "sources"} \/ Op(a) \in {"exchange", "publish"}
Sound(a) == Verified(a) /\ (Op(a) = "publish" => fs[At(File(a))] = Nothing)
Recheck(a) ==
    /\ pc[a] = "act"
    /\ Goto(a, IF LooksAgain(a) /\ ~Sound(a) THEN "fail" ELSE "do")
    /\ UNCHANGED <<hostVars, store, ledger, step, done, dciVars, outside, late>>

Free(name) == fs[name] = Nothing        \* O_EXCL, mkdir

(* A plain rename.                                                         *)
Mutant_NoReplace_Rename(f) == TRUE

NoReplace(f) == Free(At(f))             \* RENAME_NOREPLACE
Effect(a, op, f) ==
    \/ /\ op = "own" /\ fs' = fs
    \/ /\ op = "mkdir" /\ Free(At(f))
       /\ fs' = [fs EXCEPT ![At(f)] = Mine(a)]
    \/ /\ op \in {"store", "create"} /\ Free(Temp(a, f))
       /\ fs' = [fs EXCEPT ![Temp(a, f)] = Inode(a, FALSE)]
    \/ /\ op = "fill" /\ fs[Temp(a, f)] = Inode(a, FALSE)
       /\ fs' = [fs EXCEPT ![Temp(a, f)] = Mine(a)]
    \/ /\ op = "publish" /\ NoReplace(f) /\ ~Free(Temp(a, f))
       /\ fs' = [fs EXCEPT ![At(f)] = fs[Temp(a, f)], ![Temp(a, f)] = Nothing]
    \/ /\ op = "exchange" /\ ~Free(At(f)) /\ ~Free(Temp(a, f))
       /\ fs' = [fs EXCEPT ![At(f)] = fs[Temp(a, f)], ![Temp(a, f)] = fs[At(f)]]
Act(a) ==
    /\ pc[a] = "do" /\ Effect(a, Op(a), File(a))
    /\ rooted' = (rooted \/ Op(a) = "own")
    /\ Goto(a, IF Op(a) = "create" THEN "write" ELSE "sync")
    /\ UNCHANGED <<disk, store, ledger, step, done, dciVars, outside, late>>

WritePayload(a) ==
    /\ pc[a] = "write"
    /\ fs' = [fs EXCEPT ![Temp(a, File(a))] = Mine(a)]
    /\ Goto(a, "sync")
    /\ UNCHANGED <<disk, rooted, store, ledger, step, done, dciVars, outside, late>>

(* The file is synced, its directory is not.                               *)
Mutant_Synced_FileOnly(a, f) == disk

(* fsync of the parent directory.                                          *)
Synced(a, f) == [disk EXCEPT ![At(f)] = fs[At(f)], ![Temp(a, f)] = fs[Temp(a, f)]]
Sync(a) ==
    /\ pc[a] = "sync"
    /\ disk' = Synced(a, File(a))
    /\ done' = [done EXCEPT ![a] = @ \cup {<<Op(a), File(a)>>}]
    /\ Goto(a, "after")
    /\ UNCHANGED <<fs, rooted, store, ledger, step, dciVars, outside, late>>

(* _verify_file after a publication, the phases after an exchange.         *)
Landed(a) == Op(a) = "publish" => fs[At(File(a))] = Mine(a)
After(a) ==
    /\ pc[a] = "after"
    /\ Goto(a, IF Verified(a) /\ Landed(a) THEN "result" ELSE "fail")
    /\ UNCHANGED <<hostVars, store, ledger, step, done, dciVars, outside, late>>

Prove(a) ==
    /\ pc[a] = "result"
    /\ \/ /\ Write(a, "result", step[a], "PROVED") /\ Goto(a, "check")
          /\ step' = [step EXCEPT ![a] = @ + 1]
       \/ WriteFails(a, "result", step[a], "PROVED") /\ Goto(a, "fail")
          /\ UNCHANGED step
    /\ UNCHANGED <<hostVars, store, done, dciVars, outside, late>>

(* Any call of the action may fail, whatever it has already done.          *)
ActFails(a) ==
    /\ pc[a] \in {"act", "do", "write", "sync", "after"} /\ Goto(a, "fail")
    /\ UNCHANGED <<hostVars, store, ledger, step, done, dciVars, outside, late>>

(***************************************************************************)
(* The end.  Nothing is ever retried, cleaned or rolled back.              *)
(***************************************************************************)
(* Every published file is read once more: "migrate" and "sources" verify  *)
(* everything, "selftest" all but the lock and the markers, "stage" its    *)
(* files.                                                                  *)
Readback(a) ==
    CASE Tool(a) = "stage" ->
            LockAndMarkers /\ Pins(a) /\ \A f \in Range(Files) : fs[At(f)] = Mine(a)
      [] Tool(a) = "selftest" -> Pins(a) /\ Protected(a) /\ Phases(a) /\ Proofs(a)
      [] OTHER -> Verified(a)
FinalReadback(a) ==
    /\ pc[a] = "check" /\ AllDone(a)
    /\ Goto(a, IF Readback(a) THEN "terminal" ELSE "fail")
    /\ UNCHANGED <<hostVars, store, ledger, step, done, dciVars, outside, late>>

Pass(a) ==
    /\ pc[a] = "terminal" /\ Write(a, "terminal", 0, "PASS")
    /\ Gone(a, "passed")
    /\ UNCHANGED <<hostVars, store, pinned, marker, outside, late>>
PassFails(a) ==
    /\ pc[a] = "terminal" /\ WriteFails(a, "terminal", 0, "PASS")
    /\ Goto(a, "fail")
    /\ UNCHANGED <<hostVars, store, step, done, dciVars, outside, late>>
Fail(a) ==
    /\ pc[a] = "fail" /\ WriteFails(a, "terminal", 0, "UNKNOWN")
    /\ Gone(a, "ended")
    /\ UNCHANGED <<hostVars, store, pinned, marker, outside, late>>

(***************************************************************************)
(* What happens around the tools.                                          *)
(***************************************************************************)
Resting == {"idle", "passed", "ended"}
Kill(a) ==
    /\ pc[a] \notin Resting
    /\ Gone(a, "ended")
    /\ UNCHANGED <<hostVars, store, ledger, pinned, marker, outside, late>>

(* The entries come back as they were before or after the last changes;    *)
(* /run is empty, so the lock file is not the pinned inode any more.       *)
PowerCut ==
    /\ pinned
    /\ fs' \in {fs, disk} /\ disk' = fs'
    /\ pc' = [a \in Attempts |-> IF pc[a] \in Resting THEN pc[a] ELSE "ended"]
    /\ step' = [a \in Attempts |-> 1] /\ done' = [a \in Attempts |-> {}]
    /\ lock' = Nobody /\ pinned' = FALSE /\ marker' = FALSE
    /\ UNCHANGED <<rooted, store, ledger, outside, late>>

(* labctl dci and the coordinator: the lifecycle runs under the flock, the *)
(* markers stay between its commands.                                      *)
Session == <<"session", 0>>
SessionLocks ==
    /\ lock = Nobody /\ lock' = Session
    /\ UNCHANGED <<hostVars, runVars, pinned, marker, outside, late>>
SessionMarks ==
    /\ lock = Session /\ marker' = ~marker
    /\ UNCHANGED <<hostVars, runVars, lock, pinned, outside, late>>
SessionEnds ==
    /\ lock = Session /\ lock' = Nobody
    /\ UNCHANGED <<hostVars, runVars, pinned, marker, outside, late>>

(* Somebody with the rights to do so puts a file of their own at a name.   *)
(* A bound: once.                                                          *)
Outsider(f) ==
    /\ ~outside /\ outside' = TRUE
    /\ fs' = [fs EXCEPT ![At(f)] = Foreign]
    /\ disk' = [disk EXCEPT ![At(f)] = Foreign]
    /\ late' = {a \in Attempts : pc[a] \in {"terminal", "passed"}
                                 \/ <<"terminal", 0, "PASS">> \in ledger[a]}
    /\ UNCHANGED <<rooted, runVars, dciVars>>

Step(a) ==
    \/ Preflight(a) \/ PrepareStore(a) \/ PrepareFails(a) \/ Begin(a)
    \/ Check(a) \/ Announce(a) \/ Recheck(a) \/ Act(a) \/ WritePayload(a)
    \/ Sync(a) \/ After(a) \/ Prove(a) \/ ActFails(a)
    \/ FinalReadback(a) \/ Pass(a) \/ PassFails(a) \/ Fail(a) \/ Kill(a)

Next ==
    \/ \E a \in Attempts : Step(a)
    \/ \E f \in Entries \ {"ovn"} : Outsider(f)
    \/ PowerCut \/ SessionLocks \/ SessionMarks \/ SessionEnds

Spec == Init /\ [][Next]_vars

(***************************************************************************)
(* Properties.                                                             *)
(***************************************************************************)
(* A PASS in a ledger is true, and stays true over kill -9 and a power     *)
(* cut: every step was announced and proved, and each file the tool        *)
(* published is complete and in place, or parked by a later tool (that of  *)
(* "selftest" too, by "sources") -- unless somebody changed it after the   *)
(* tool's last readback.                                                   *)
Kept(a, f) ==
    \E n \in Names : n[2] = f /\ fs[n] = Mine(a) /\ (n[1] = Nobody \/ n[1] # a)
PassIsWhole ==
    \A a \in Attempts : <<"terminal", 0, "PASS">> \in ledger[a] =>
        /\ \A i \in DOMAIN Program[Tool(a)] :
                \/ Program[Tool(a)][i][1] = "mkdir"    \* the directory may exist
                \/ {<<"intent", i, "INTENT">>, <<"result", i, "PROVED">>} \subseteq ledger[a]
        /\ a \in late \/ \A f \in Targets[Tool(a)] \ {"ovn"} : Kept(a, f)

(* Two invocations of one tool never both touch the host, even when both   *)
(* passed their preflight, and one that stopped half way is not retried.   *)
OnceOnly ==
    \A a, b \in Attempts : Tool(a) = Tool(b) /\ a # b =>
        {r \in ledger[a] : r[1] = "intent"} = {}
        \/ {r \in ledger[b] : r[1] = "intent"} = {}

(* No tool ever loses a file: what it displaces keeps a name, a foreign    *)
(* file that appears at the last moment included.                          *)
Held == {fs[n] : n \in Names} \ {Nothing}
NothingLost ==
    [][ outside' = outside /\ pinned' = pinned =>
            \A i \in Held : i.whole => i \in Held' ]_vars

(* A DCI session finds the files that "sources" exchanges all as its       *)
(* baseline has them or all new, unless an update of them ended without    *)
(* its PASS (or somebody else interfered).                                 *)
MixedOnlyAfterUnknown ==
    lock = Session /\ Passed("selftest") /\ ~outside =>
        \/ \A f \in Range(TargetOrder) : MadeBy(Baseline("sources", f), At(f))
        \/ \A f \in Range(TargetOrder) : MadeBy("sources", At(f))
        \/ \E a \in Attempts : Tool(a) = "sources" /\ pc[a] = "ended"
=============================================================================

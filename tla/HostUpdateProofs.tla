-------------------------- MODULE HostUpdateProofs --------------------------
(***************************************************************************)
(* Proofs about the host updaters, for any set of invocations, any list of *)
(* files and any of them, that of "selftest" included, as the targets of   *)
(* "sources".  The inductive invariant has these parts:                    *)
(*   Owners    the ledger directory is made by exactly one invocation of a *)
(*             tool, and only that one works;                              *)
(*   Hosts     whose the inodes are, and what an effect may displace;      *)
(*   Progress  how far an invocation is, against its ledger and its files; *)
(*   Ordered   an effect is recorded only after every earlier one;         *)
(*   Locking   who has the DCI lock;                                       *)
(*   Unsynced  what a power cut may still take away;                       *)
(*   Secured   the files of a tool that passed have their names for good;  *)
(*   Complete  a pass in the ledger has all its effects before it.         *)
(***************************************************************************)
EXTENDS HostUpdate, TLAPS, SequenceTheorems

Stages == {"idle", "prepare", "begin", "check", "intent", "act", "do", "write", "sync",
           "after", "result", "terminal", "fail", "passed", "ended"}
Statuses == {"INTENT", "PROVED", "PASS", "UNKNOWN"}
Records == {"run", "intent", "result", "terminal"} \X Nat \X Statuses

RunTypes ==
    /\ store \in [Tools -> BOOLEAN]
    /\ ledger \in [Attempts -> SUBSET Records]
    /\ pc \in [Attempts -> Stages]
    /\ step \in [Attempts -> Nat]

(* An invocation has the tool's ledger for itself once its mkdir succeeded.*)
Owns(a) == pc[a] \notin {"idle", "prepare", "passed", "ended"} \/ ledger[a] # {}

Owners ==
    /\ RunTypes
    /\ \A a \in Attempts : Owns(a) => store[Tool(a)]
    /\ \A a, b \in Attempts : Tool(a) = Tool(b) /\ a # b => ~(Owns(a) /\ Owns(b))

LEMMA ToolIsTool == \A a \in Attempts : Tool(a) \in Tools
  BY AttemptsAssumption DEF Tool

LEMMA OwnersInit == Init => Owners
<1> SUFFICES ASSUME Init PROVE Owners
  OBVIOUS
<1>1. RunTypes
  BY DEF Init, RunTypes, Stages
<1>2. \A a \in Attempts : ~Owns(a)
  BY DEF Init, Owns
<1> QED
  BY <1>1, <1>2 DEF Owners

(* Nobody gets the ledger but by the mkdir, which nobody does twice.       *)
LEMMA OwnersKept ==
    ASSUME Owners, RunTypes',
           \A t \in Tools : store[t] => store'[t],
           \A a \in Attempts : Owns(a)' => Owns(a)
    PROVE  Owners'
  BY ToolIsTool DEF Owners

LEMMA OneRecord ==
    ASSUME Owners, NEW a \in Attempts, NEW kind \in {"run", "intent", "result", "terminal"},
           NEW i \in Nat, NEW status \in Statuses, WriteFails(a, kind, i, status)
    PROVE  /\ ledger' \in [Attempts -> SUBSET Records]
           /\ \A b \in Attempts : b # a => ledger'[b] = ledger[b]
<1>1. <<kind, i, status>> \in Records
  BY DEF Records
<1>2. ledger' = ledger \/ ledger' = [ledger EXCEPT ![a] = @ \cup {<<kind, i, status>>}]
  BY DEF WriteFails, Write
<1> QED
  BY <1>1, <1>2 DEF Owners, RunTypes

LEMMA OwnersStep == Owners /\ [Next]_vars => Owners'
<1> SUFFICES ASSUME Owners, [Next]_vars PROVE Owners'
  OBVIOUS
<1> USE DEF Goto, Gone
<1>1. CASE UNCHANGED <<store, ledger, pc, step>>
  BY <1>1 DEF Owners, RunTypes, Owns
<1>2. ASSUME NEW a \in Attempts, Step(a) PROVE Owners'
  <2> USE DEF Owners, RunTypes, Owns, Stages
  <2>1. CASE PrepareStore(a)
    <3>1. RunTypes'
      BY <2>1, ToolIsTool DEF PrepareStore
    <3>2. \A b \in Attempts : Tool(b) = Tool(a) => ~Owns(b)
      BY <2>1 DEF PrepareStore, Vacancy
    <3>3. \A b \in Attempts : b # a /\ Owns(b)' => Owns(b)
      BY <2>1 DEF PrepareStore
    <3>4. store'[Tool(a)] /\ \A t \in Tools : store[t] => store'[t]
      BY <2>1, ToolIsTool DEF PrepareStore
    <3> HIDE DEF RunTypes, Owns
    <3> QED
      BY <3>1, <3>2, <3>3, <3>4, ToolIsTool
  <2>2. CASE Preflight(a)
    <3>1. RunTypes'
      BY <2>2 DEF Preflight
    <3>2. \A b \in Attempts : Owns(b)' => Owns(b)
      BY <2>2 DEF Preflight
    <3> QED
      BY <2>2, <3>1, <3>2, OwnersKept DEF Preflight
  <2>3. CASE PrepareFails(a)
    <3>1. RunTypes'
      BY <2>3, ToolIsTool DEF PrepareFails
    <3>2. \A b \in Attempts : Owns(b)' => Owns(b)
      BY <2>3 DEF PrepareFails
    <3>3. \A t \in Tools : store[t] => store'[t]
      BY <2>3, ToolIsTool DEF PrepareFails
    <3> QED
      BY <3>1, <3>2, <3>3, OwnersKept
  <2>4. CASE Begin(a) \/ Announce(a) \/ Prove(a) \/ Pass(a) \/ PassFails(a) \/ Fail(a)
    <3>1. Owns(a) /\ store' = store
      BY <2>4 DEF Begin, Announce, Prove, Pass, PassFails, Fail, hostVars
    <3>2. PICK kind \in {"run", "intent", "result", "terminal"}, i \in Nat, status \in Statuses :
            WriteFails(a, kind, i, status)
      BY <2>4 DEF Begin, Announce, Prove, Pass, PassFails, Fail, WriteFails, Statuses
    <3>3. /\ ledger' \in [Attempts -> SUBSET Records]
          /\ \A b \in Attempts : b # a => ledger'[b] = ledger[b]
      BY <3>2, OneRecord
    <3>4. /\ pc' \in [Attempts -> Stages] /\ step' \in [Attempts -> Nat]
          /\ \A b \in Attempts : b # a => pc'[b] = pc[b]
      BY <2>4 DEF Begin, Announce, Prove, Pass, PassFails, Fail
    <3>5. RunTypes' /\ \A b \in Attempts : Owns(b)' => Owns(b)
      BY <3>1, <3>3, <3>4
    <3> QED
      BY <3>1, <3>5, OwnersKept
  <2>5. CASE \/ Check(a) \/ Recheck(a) \/ Act(a) \/ WritePayload(a) \/ Sync(a) \/ After(a)
             \/ ActFails(a) \/ FinalReadback(a) \/ Kill(a)
    <3>1. /\ UNCHANGED <<store, ledger>>
          /\ pc[a] \notin {"idle", "prepare", "passed", "ended"} \/ Kill(a)
      BY <2>5 DEF Check, Recheck, Act, WritePayload, Sync, After, ActFails, FinalReadback, Kill,
          runVars
    <3>2. pc' \in [Attempts -> Stages] /\ step' \in [Attempts -> Nat]
      BY <2>5 DEF Check, Recheck, Act, WritePayload, Sync, After, ActFails, FinalReadback, Kill
    <3>3. \A b \in Attempts : b # a => pc'[b] = pc[b]
      BY <2>5 DEF Check, Recheck, Act, WritePayload, Sync, After, ActFails, FinalReadback, Kill
    <3>4. UNCHANGED <<store, ledger>>
      BY <3>1 DEF Kill
    <3>5. Owns(a)' => Owns(a)
      BY <3>1, <3>4, <2>5 DEF Kill
    <3> QED
      BY <3>2, <3>3, <3>4, <3>5, OwnersKept
  <2> QED
    BY <1>2, <2>1, <2>2, <2>3, <2>4, <2>5 DEF Step
<1>3. CASE PowerCut
  <2>1. RunTypes'
    BY <1>3 DEF PowerCut, Owners, RunTypes, Stages
  <2>2. \A b \in Attempts : Owns(b)' => Owns(b)
    BY <1>3 DEF PowerCut, Owns, Resting
  <2> QED
    BY <1>3, <2>1, <2>2, OwnersKept DEF PowerCut
<1> QED
  BY <1>1, <1>2, <1>3 DEF Next, vars, runVars, Outsider, SessionLocks, SessionMarks, SessionEnds

(* The ledger directory, never removed, is what makes a tool one-shot: no  *)
(* second invocation ever announces an effect, however many are started,   *)
(* killed or interrupted by a power cut.                                   *)
THEOREM ToolsRunOnce == Spec => []OnceOnly
<1>1. Owners => OnceOnly
  BY DEF Owners, Owns, OnceOnly
<1> QED
  BY <1>1, OwnersInit, OwnersStep, PTL DEF Spec
-----------------------------------------------------------------------------
(* What the programs of the tools are: their domains, the files they name, *)
(* and that every file of a tool other than "stage" is exchanged.          *)
LEMMA FileNames ==
    /\ \A f \in Range(Files) : f \in Entries /\ f \notin {"evidence", "ovn"}
    /\ \A f \in Range(TargetOrder) : f \in Range(Files)
    /\ "selftest" \in Range(TargetOrder)
    /\ Len(Files) \in Nat /\ DOMAIN Files = 1 .. Len(Files)
    /\ \A i \in DOMAIN Files : Files[i] \in Range(Files)
<1>1. /\ \A f \in Range(Files) : f \in Entries /\ f \notin {"evidence", "ovn"}
      /\ \A f \in Range(TargetOrder) : f \in Range(Files)
      /\ "selftest" \in Range(TargetOrder)
  BY FilesAssumption, TargetsAssumption DEF Entries
<1>2. Len(Files) \in Nat /\ DOMAIN Files = 1 .. Len(Files)
  BY FilesAssumption
<1>3. \A i \in DOMAIN Files : Files[i] \in Range(Files)
  BY DEF Range
<1> QED
  BY <1>1, <1>2, <1>3

LEMMA SourcesShape ==
    /\ \E n \in Nat : DOMAIN Program["sources"] = 1 .. n
    /\ \A i \in DOMAIN Program["sources"] : \E f \in Range(TargetOrder) :
            Program["sources"][i] \in {<<"create", f>>, <<"exchange", f>>}
    /\ \A f \in Range(TargetOrder) : \E i \in DOMAIN Program["sources"] :
            Program["sources"][i] = <<"exchange", f>>
<1> DEFINE Create == [k \in DOMAIN TargetOrder |-> <<"create", TargetOrder[k]>>]
           Exchange == [k \in DOMAIN TargetOrder |-> <<"exchange", TargetOrder[k]>>]
           n == Len(TargetOrder)
<1>1. /\ n \in Nat /\ DOMAIN TargetOrder = 1 .. n
      /\ \A k \in 1 .. n : TargetOrder[k] \in Range(TargetOrder)
  BY TargetsAssumption DEF Range
<1>2. /\ Create \in Seq({"create"} \X Range(TargetOrder)) /\ Len(Create) = n
      /\ \A k \in 1 .. n : Create[k] = <<"create", TargetOrder[k]>>
  BY <1>1
<1>3. /\ Exchange \in Seq({"exchange"} \X Range(TargetOrder)) /\ Len(Exchange) = n
      /\ \A k \in 1 .. n : Exchange[k] = <<"exchange", TargetOrder[k]>>
  BY <1>1
<1>4. Program["sources"] = Create \o Exchange
  BY DEF Program, SourcesProgram
<1>5. \A f \in Range(TargetOrder) : \E k \in 1 .. n : TargetOrder[k] = f
  BY <1>1 DEF Range
<1> HIDE DEF Create, Exchange
<1> HIDE DEF n
<1>6. /\ DOMAIN Program["sources"] = 1 .. n + n
      /\ \A k \in 1 .. n : Program["sources"][k] = Create[k]
      /\ \A k \in n + 1 .. n + n : Program["sources"][k] = Exchange[k - n]
  <2> DEFINE S == {"create", "exchange"} \X Range(TargetOrder)
  <2>1. Create \in Seq(S) /\ Exchange \in Seq(S)
    BY <1>1, <1>2, <1>3
  <2> HIDE DEF S
  <2>2. /\ Len(Create \o Exchange) = n + n
        /\ Create \o Exchange \in Seq(S)
        /\ \A k \in 1 .. n + n : (Create \o Exchange)[k] =
                IF k <= n THEN Create[k] ELSE Exchange[k - n]
    <3>1. /\ Create \o Exchange \in Seq(S)
          /\ Len(Create \o Exchange) = Len(Create) + Len(Exchange)
          /\ \A k \in 1 .. Len(Create) + Len(Exchange) : (Create \o Exchange)[k] =
                IF k <= Len(Create) THEN Create[k] ELSE Exchange[k - Len(Create)]
      BY ONLY <2>1, ConcatProperties, Zenon
    <3> QED
      BY <1>2, <1>3, <3>1, Zenon
  <2>3. DOMAIN (Create \o Exchange) = 1 .. n + n
    BY <2>2
  <2> QED
    BY <1>1, <1>4, <2>2, <2>3
<1>7. ASSUME NEW i \in 1 .. n + n
      PROVE  \E f \in Range(TargetOrder) : Program["sources"][i] \in {<<"create", f>>, <<"exchange", f>>}
  <2>1. CASE i \in 1 .. n
    BY <1>1, <1>2, <1>6, <2>1
  <2>2. CASE i \in n + 1 .. n + n
    BY <1>1, <1>3, <1>6, <2>2
  <2> QED
    BY <1>1, <1>7, <2>1, <2>2
<1>8. ASSUME NEW f \in Range(TargetOrder)
      PROVE  \E i \in 1 .. n + n : Program["sources"][i] = <<"exchange", f>>
  <2>1. PICK k \in 1 .. n : TargetOrder[k] = f
    BY <1>5
  <2>2. k + n \in n + 1 .. n + n /\ k + n \in 1 .. n + n /\ (k + n) - n = k
    BY <1>1
  <2>3. Program["sources"][k + n] = Exchange[k]
    BY <1>6, <2>2
  <2> QED
    BY <1>3, <2>1, <2>2, <2>3
<1>9. n + n \in Nat
  BY <1>1
<1> QED
  BY <1>6, <1>7, <1>8, <1>9

LEMMA StageShape ==
    /\ \E n \in Nat : DOMAIN Program["stage"] = 1 .. n
    /\ Program["stage"][1] = <<"mkdir", "ovn">>
    /\ Targets["stage"] = {"ovn"} \cup Range(Files)
<1>1. /\ DOMAIN Program["stage"] = 1 .. 1 + 2 * Len(Files)
      /\ Program["stage"][1] = <<"mkdir", "ovn">>
      /\ \A i \in 1 .. 1 + 2 * Len(Files) : i # 1 => Program["stage"][i][2] = Files[i \div 2]
  BY FileNames DEF Program, StageProgram
<1>2. ASSUME NEW i \in 1 .. 1 + 2 * Len(Files), i # 1 PROVE i \div 2 \in DOMAIN Files
  BY <1>2, FileNames
<1>3. ASSUME NEW k \in DOMAIN Files
      PROVE  2 * k \in 1 .. 1 + 2 * Len(Files) /\ 2 * k # 1 /\ (2 * k) \div 2 = k
  BY <1>3, FileNames
<1>4. \A f : f \in Targets["stage"] <=> \E i \in 1 .. 1 + 2 * Len(Files) : f = Program["stage"][i][2]
  BY <1>1 DEF Targets, Range, Tools
<1>5. \A f : f \in Range(Files) <=> \E k \in DOMAIN Files : f = Files[k]
  BY DEF Range
<1>6. ASSUME NEW f \in Targets["stage"] PROVE f \in {"ovn"} \cup Range(Files)
  BY <1>1, <1>2, <1>4, <1>5
<1>7. ASSUME NEW f \in Range(Files) PROVE f \in Targets["stage"]
  <2>1. PICK k \in DOMAIN Files : f = Files[k]
    BY <1>5
  <2>2. Program["stage"][2 * k][2] = f
    BY <1>1, <1>3, <2>1
  <2> QED
    BY <1>3, <1>4, <2>2
<1>8. "ovn" \in Targets["stage"]
  <2>1. 1 \in 1 .. 1 + 2 * Len(Files)
    BY FileNames
  <2> QED
    BY <1>1, <1>4, <2>1
<1>9. 1 + 2 * Len(Files) \in Nat
  BY FileNames
<1> QED
  BY <1>1, <1>6, <1>7, <1>8, <1>9

LEMMA ShortShapes ==
    /\ DOMAIN Program["migrate"] = 1 .. 4 /\ DOMAIN Program["selftest"] = 1 .. 2
    /\ Program["migrate"][4] = <<"exchange", "evidence">>
    /\ Program["selftest"][2] = <<"exchange", "selftest">>
    /\ Targets["migrate"] = {"evidence"} /\ Targets["selftest"] = {"selftest"}
<1>1. /\ DOMAIN Program["migrate"] = 1 .. 4 /\ DOMAIN Program["selftest"] = 1 .. 2
      /\ Program["migrate"][4] = <<"exchange", "evidence">>
      /\ Program["selftest"][2] = <<"exchange", "selftest">>
      /\ \A i \in 1 .. 4 : Program["migrate"][i][2] = "evidence"
      /\ \A i \in 1 .. 2 : Program["selftest"][i][2] = "selftest"
  BY DEF Program, MigrateProgram, SelftestProgram
<1> QED
  BY <1>1 DEF Targets, Range, Tools

LEMMA ProgramFacts ==
    /\ \A t \in Tools : \E n \in Nat : DOMAIN Program[t] = 1 .. n
    /\ \A t \in Tools \ {"stage"} : \A f \in Targets[t] :
            \E i \in DOMAIN Program[t] : Program[t][i] = <<"exchange", f>>
    /\ Targets["migrate"] = {"evidence"} /\ Targets["selftest"] = {"selftest"}
    /\ Targets["stage"] = {"ovn"} \cup Range(Files)
    /\ Targets["sources"] = Range(TargetOrder)
<1>1. \A f : f \in Targets["sources"] <=>
            \E i \in DOMAIN Program["sources"] : f = Program["sources"][i][2]
  BY DEF Targets, Range, Tools
<1>2. ASSUME NEW f \in Targets["sources"] PROVE f \in Range(TargetOrder)
  BY <1>1, SourcesShape
<1>3. ASSUME NEW f \in Range(TargetOrder) PROVE f \in Targets["sources"]
  <2>1. PICK i \in DOMAIN Program["sources"] : Program["sources"][i] = <<"exchange", f>>
    BY SourcesShape
  <2> QED
    BY <1>1, <2>1
<1>4. Targets["sources"] = Range(TargetOrder)
  BY <1>2, <1>3
<1>5. ASSUME NEW t \in Tools \ {"stage"}, NEW f \in Targets[t]
      PROVE  \E i \in DOMAIN Program[t] : Program[t][i] = <<"exchange", f>>
  BY <1>4, SourcesShape, ShortShapes DEF Tools
<1>6. ASSUME NEW t \in Tools PROVE \E n \in Nat : DOMAIN Program[t] = 1 .. n
  <2>1. 4 \in Nat /\ 2 \in Nat
    OBVIOUS
  <2> QED
    BY <2>1, SourcesShape, StageShape, ShortShapes DEF Tools
<1> QED
  BY <1>4, <1>5, <1>6, StageShape, ShortShapes

LEMMA TargetsAreEntries ==
    \A t \in Tools : \A i \in DOMAIN Program[t] :
        Program[t][i][2] \in Targets[t] /\ Program[t][i][2] \in Entries
<1>1. ASSUME NEW t \in Tools, NEW i \in DOMAIN Program[t]
      PROVE  Program[t][i][2] \in Targets[t]
  BY DEF Targets, Range
<1>2. \A t \in Tools : \A f \in Targets[t] : f \in Entries
  BY ProgramFacts, FileNames DEF Tools, Entries
<1> QED
  BY <1>1, <1>2

(* The names an effect touches, and what it finds there.                   *)
Inodes == [by : Attempts \cup {Nobody, <<"legacy", 0>>, <<"outsider", 0>>}, whole : BOOLEAN]

(* An invocation in an effect is at a step of its program, and a file that *)
(* it is still writing has only the name made for it.                      *)
Hosts ==
    /\ fs \in [Names -> Inodes] /\ disk \in [Names -> Inodes]
    /\ \A a \in Attempts :
        /\ pc[a] \in {"intent", "act", "do", "write", "sync", "after", "result"} =>
                step[a] \in DOMAIN Program[Tool(a)]
        /\ pc[a] = "write" => fs[Temp(a, File(a))] = Inode(a, FALSE)

LEMMA NamesOfEffect ==
    ASSUME NEW a \in Attempts, step[a] \in DOMAIN Program[Tool(a)]
    PROVE  At(File(a)) \in Names /\ Temp(a, File(a)) \in Names
<1>1. File(a) \in Targets[Tool(a)] /\ File(a) \in Entries
  BY ToolIsTool, TargetsAreEntries DEF File
<1> QED
  BY <1>1 DEF Names, At, Temp

LEMMA NamesDiffer ==
    /\ \A a \in Attempts : \A f, g : Temp(a, f) # At(g)
    /\ \A a, b \in Attempts : \A f, g : a # b => Temp(a, f) # Temp(b, g)
<1>1. \A a \in Attempts : a # Nobody
  BY AttemptsAssumption DEF Nobody, Tools
<1> QED
  BY <1>1 DEF Temp, At

LEMMA HostsInit == Init => Hosts
<1> SUFFICES ASSUME Init PROVE Hosts
  OBVIOUS
<1>1. Legacy \in Inodes /\ Nothing \in Inodes
  BY DEF Inodes, Legacy, Nothing, Inode
<1> QED
  BY <1>1 DEF Init, Hosts

(* What one effect makes of the names: it takes a free name, completes its *)
(* own unfinished file, moves a name to a free one or exchanges two.       *)
LEMMA EffectOnNames ==
    ASSUME Hosts, NEW a \in Attempts, step[a] \in DOMAIN Program[Tool(a)],
           Effect(a, Op(a), File(a))
    PROVE  /\ fs' \in [Names -> Inodes]
           /\ \A n \in Names : n # At(File(a)) /\ n # Temp(a, File(a)) => fs'[n] = fs[n]
           /\ Op(a) = "create" => fs'[Temp(a, File(a))] = Inode(a, FALSE)
           /\ \A n \in Names : fs[n].whole => \E m \in Names : fs'[m] = fs[n]
<1> DEFINE f == File(a)
           new == At(f)
           tmp == Temp(a, f)
<1>1. new \in Names /\ tmp \in Names /\ new # tmp
  BY NamesOfEffect, NamesDiffer
<1>2. Mine(a) \in Inodes /\ Inode(a, FALSE) \in Inodes /\ Nothing \in Inodes
  BY DEF Mine, Inode, Nothing, Inodes
<1>3. ~Nothing.whole /\ ~Inode(a, FALSE).whole
  BY DEF Nothing, Inode
<1>4. fs \in [Names -> Inodes]
  BY DEF Hosts
<1> HIDE DEF f, new, tmp
<1>5. CASE Op(a) = "own" /\ fs' = fs
  BY <1>4, <1>5
<1>6. CASE Op(a) = "mkdir" /\ Free(new) /\ fs' = [fs EXCEPT ![new] = Mine(a)]
  <2>1. \A n \in Names : fs'[n] = IF n = new THEN Mine(a) ELSE fs[n]
    BY <1>4, <1>6
  <2> QED
    BY <1>1, <1>2, <1>3, <1>4, <1>6, <2>1 DEF Free, f, new, tmp
<1>7. CASE /\ Op(a) \in {"store", "create"} /\ Free(tmp)
           /\ fs' = [fs EXCEPT ![tmp] = Inode(a, FALSE)]
  <2>1. \A n \in Names : fs'[n] = IF n = tmp THEN Inode(a, FALSE) ELSE fs[n]
    BY <1>4, <1>7
  <2> QED
    BY <1>1, <1>2, <1>3, <1>4, <1>7, <2>1 DEF Free, f, new, tmp
<1>8. CASE /\ Op(a) = "fill" /\ fs[tmp] = Inode(a, FALSE)
           /\ fs' = [fs EXCEPT ![tmp] = Mine(a)]
  <2>1. \A n \in Names : fs'[n] = IF n = tmp THEN Mine(a) ELSE fs[n]
    BY <1>4, <1>8
  <2> QED
    BY <1>1, <1>2, <1>3, <1>4, <1>8, <2>1 DEF f, new, tmp
<1>9. CASE /\ Op(a) = "publish" /\ NoReplace(f) /\ ~Free(tmp)
           /\ fs' = [fs EXCEPT ![new] = fs[tmp], ![tmp] = Nothing]
  <2>1. \A n \in Names : fs'[n] = IF n = tmp THEN Nothing ELSE IF n = new THEN fs[tmp] ELSE fs[n]
    BY <1>1, <1>4, <1>9
  <2>2. fs' \in [Names -> Inodes]
    BY <1>1, <1>2, <1>4, <1>9
  <2>3. fs[new] = Nothing
    BY <1>9 DEF NoReplace, Free, new
  <2>4. \A n \in Names : fs[n].whole => \E m \in Names : fs'[m] = fs[n]
    BY <1>1, <1>3, <2>1, <2>3
  <2> QED
    BY <1>9, <2>1, <2>2, <2>4 DEF f, new, tmp
<1>10. CASE /\ Op(a) = "exchange" /\ ~Free(new) /\ ~Free(tmp)
            /\ fs' = [fs EXCEPT ![new] = fs[tmp], ![tmp] = fs[new]]
  <2>1. \A n \in Names : fs'[n] = IF n = tmp THEN fs[new] ELSE IF n = new THEN fs[tmp] ELSE fs[n]
    BY <1>1, <1>4, <1>10
  <2>2. fs' \in [Names -> Inodes]
    BY <1>1, <1>4, <1>10
  <2>3. \A n \in Names : \E m \in Names : fs'[m] = fs[n]
    BY <1>1, <2>1
  <2> QED
    BY <1>10, <2>1, <2>2, <2>3 DEF f, new, tmp
<1> QED
  BY <1>5, <1>6, <1>7, <1>8, <1>9, <1>10 DEF Effect, f, new, tmp

LEMMA HostsStep == Owners /\ Hosts /\ [Next]_vars => Hosts'
<1> SUFFICES ASSUME Owners, Hosts, [Next]_vars PROVE Hosts'
  OBVIOUS
<1> DEFINE Effecting == {"intent", "act", "do", "write", "sync", "after", "result"}
           HostTypes == fs \in [Names -> Inodes] /\ disk \in [Names -> Inodes]
           InProgram(a) == pc[a] \in Effecting => step[a] \in DOMAIN Program[Tool(a)]
           Unfinished(a) == pc[a] = "write" => fs[Temp(a, File(a))] = Inode(a, FALSE)
<1>0. /\ HostTypes /\ \A a \in Attempts : InProgram(a) /\ Unfinished(a)
      /\ pc \in [Attempts -> Stages] /\ step \in [Attempts -> Nat]
  BY DEF Hosts, Owners, RunTypes
<1>1. CASE UNCHANGED <<fs, disk, pc, step>>
  BY <1>1 DEF Hosts, File
<1>2. ASSUME NEW a \in Attempts, Step(a) PROVE Hosts'
  <2>1. \A b \in Attempts : b # a => pc'[b] = pc[b] /\ step'[b] = step[b] /\ File(b)' = File(b)
    BY <1>0, <1>2 DEF Step, Preflight, PrepareStore, PrepareFails, Begin, Check, Announce, Recheck,
        Act, WritePayload, Sync, After, Prove, ActFails, FinalReadback, Pass, PassFails, Fail,
        Kill, Goto, Gone, File, runVars, hostVars
  <2>2. \A b \in Attempts : b # a => InProgram(b)'
    BY <1>0, <2>1
  <2>3. CASE Act(a)
    <3>1. /\ pc[a] = "do" /\ step' = step /\ disk' = disk /\ Effect(a, Op(a), File(a))
          /\ pc'[a] = IF Op(a) = "create" THEN "write" ELSE "sync"
      BY <1>0, <2>3 DEF Act, Goto
    <3>2. step[a] \in DOMAIN Program[Tool(a)]
      BY <1>0, <3>1
    <3>3. /\ fs' \in [Names -> Inodes]
          /\ \A n \in Names : n # At(File(a)) /\ n # Temp(a, File(a)) => fs'[n] = fs[n]
          /\ Op(a) = "create" => fs'[Temp(a, File(a))] = Inode(a, FALSE)
      BY <3>1, <3>2, EffectOnNames
    <3>4. InProgram(a)' /\ Unfinished(a)'
      BY <3>1, <3>2, <3>3 DEF File
    <3>5. \A b \in Attempts : b # a => Unfinished(b)'
      <4> SUFFICES ASSUME NEW b \in Attempts, b # a, pc[b] = "write"
                   PROVE  fs'[Temp(b, File(b))] = Inode(b, FALSE)
        BY <2>1
      <4>1. Temp(b, File(b)) \in Names
        BY <1>0, NamesOfEffect
      <4>2. Temp(b, File(b)) # At(File(a)) /\ Temp(b, File(b)) # Temp(a, File(a))
        BY NamesDiffer
      <4> QED
        BY <1>0, <3>3, <4>1, <4>2
    <3> QED
      BY <1>0, <2>2, <3>1, <3>3, <3>4, <3>5 DEF Hosts
  <2>4. CASE WritePayload(a)
    <3>1. /\ pc[a] = "write" /\ step' = step /\ disk' = disk /\ pc'[a] = "sync"
          /\ fs' = [fs EXCEPT ![Temp(a, File(a))] = Mine(a)]
      BY <1>0, <2>4 DEF WritePayload, Goto
    <3>2. step[a] \in DOMAIN Program[Tool(a)] /\ Mine(a) \in Inodes
      BY <1>0, <3>1 DEF Mine, Inode, Inodes
    <3>3. Temp(a, File(a)) \in Names
      BY <3>2, NamesOfEffect
    <3>4. \A b \in Attempts : b # a => Unfinished(b)'
      <4> SUFFICES ASSUME NEW b \in Attempts, b # a, pc[b] = "write"
                   PROVE  fs'[Temp(b, File(b))] = Inode(b, FALSE)
        BY <2>1
      <4>1. Temp(b, File(b)) \in Names
        BY <1>0, NamesOfEffect
      <4>2. Temp(b, File(b)) # Temp(a, File(a))
        BY NamesDiffer
      <4> QED
        BY <1>0, <3>1, <3>3, <4>1, <4>2
    <3> QED
      BY <1>0, <2>2, <3>1, <3>2, <3>3, <3>4 DEF Hosts
  <2>5. CASE Sync(a)
    <3>1. /\ pc[a] = "sync" /\ fs' = fs /\ step' = step /\ pc'[a] = "after"
          /\ disk' = Synced(a, File(a))
      BY <1>0, <2>5 DEF Sync, Goto
    <3>2. step[a] \in DOMAIN Program[Tool(a)]
      BY <1>0, <3>1
    <3>3. At(File(a)) \in Names /\ Temp(a, File(a)) \in Names
      BY <3>2, NamesOfEffect
    <3>4. disk' \in [Names -> Inodes]
      BY <1>0, <3>1, <3>3 DEF Synced
    <3> QED
      BY <1>0, <2>1, <2>2, <3>1, <3>2, <3>4 DEF Hosts
  <2>6. CASE UNCHANGED <<fs, disk>> /\ pc'[a] # "write" /\ InProgram(a)'
    BY <1>0, <2>1, <2>2, <2>6 DEF Hosts
  <2>7. CASE Announce(a) \/ Recheck(a) \/ After(a)
    <3>1. /\ step' = step /\ UNCHANGED <<fs, disk>> /\ pc[a] \in Effecting
          /\ pc'[a] \in {"act", "fail", "do", "result"}
      BY <1>0, <2>7 DEF Announce, Recheck, After, hostVars, Goto
    <3> QED
      BY <1>0, <2>6, <3>1
  <2>8. CASE Check(a)
    <3>1. /\ step' = step /\ UNCHANGED <<fs, disk>> /\ ~AllDone(a)
          /\ pc'[a] \in {"intent", "fail"}
      BY <1>0, <2>8 DEF Check, hostVars, Goto
    <3> QED
      BY <1>0, <2>6, <3>1 DEF AllDone
  <2>9. CASE \/ Preflight(a) \/ PrepareStore(a) \/ PrepareFails(a) \/ Begin(a) \/ Prove(a)
             \/ ActFails(a) \/ FinalReadback(a) \/ Pass(a) \/ PassFails(a) \/ Fail(a) \/ Kill(a)
    <3>1. /\ UNCHANGED <<fs, disk>>
          /\ pc'[a] \in {"prepare", "begin", "ended", "check", "fail", "terminal", "passed"}
      BY <1>0, <2>9 DEF Preflight, PrepareStore, PrepareFails, Begin, Prove, ActFails,
          FinalReadback, Pass, PassFails, Fail, Kill, Goto, Gone, hostVars
    <3> QED
      BY <2>6, <3>1
  <2> QED
    BY <1>2, <2>3, <2>4, <2>5, <2>7, <2>8, <2>9 DEF Step
<1>3. CASE PowerCut
  <2>1. /\ fs' \in {fs, disk} /\ disk' = fs'
        /\ \A a \in Attempts : pc'[a] \in {"idle", "passed", "ended"}
    BY <1>3 DEF PowerCut, Resting
  <2> QED
    BY <1>0, <2>1 DEF Hosts
<1>4. ASSUME NEW f \in Entries, Outsider(f) PROVE Hosts'
  <2>1. /\ fs' = [fs EXCEPT ![At(f)] = Foreign] /\ disk' = [disk EXCEPT ![At(f)] = Foreign]
        /\ UNCHANGED <<pc, step>>
    BY <1>4 DEF Outsider, runVars
  <2>2. Foreign \in Inodes /\ At(f) \in Names
    BY DEF Foreign, Inode, Inodes, Names
  <2>3. \A a \in Attempts : Temp(a, File(a)) # At(f)
    BY NamesDiffer
  <2>4. HostTypes'
    BY <1>0, <2>1, <2>2
  <2>5. ASSUME NEW a \in Attempts, pc[a] = "write"
        PROVE  fs'[Temp(a, File(a))] = Inode(a, FALSE)
    <3>1. Temp(a, File(a)) \in Names
      BY <1>0, <2>5, NamesOfEffect
    <3> QED
      BY <1>0, <2>1, <2>3, <2>5, <3>1
  <2> QED
    BY <1>0, <2>1, <2>4, <2>5 DEF Hosts, File
<1> QED
  BY <1>1, <1>2, <1>3, <1>4 DEF Next, vars, hostVars, runVars, SessionLocks, SessionMarks, SessionEnds

(* No effect of any tool, in any order and wherever one is killed, takes   *)
(* the last name from a complete file: what is displaced is parked, and a  *)
(* file that somebody else put there a moment ago is not overwritten.      *)
THEOREM NoFileIsLost == Spec => NothingLost
<1> DEFINE Safe == outside' = outside /\ pinned' = pinned =>
                        \A i \in Held : i.whole => i \in Held'
<1>1. Owners /\ Hosts /\ [Next]_vars => [Safe]_vars
  <2> SUFFICES ASSUME Owners, Hosts, Next, outside' = outside, pinned' = pinned,
                      NEW n \in Names, fs[n].whole
               PROVE  \E m \in Names : fs'[m] = fs[n]
    <3>1. Held = {fs[n] : n \in Names} \ {Nothing}
      BY DEF Held
    <3>2. Held' = {fs'[n] : n \in Names} \ {Nothing}
      BY DEF Held, Nothing, Inode, Nobody, Names, At, Temp
    <3> QED
      BY <3>1, <3>2
  <2>1. CASE fs' = fs
    BY <2>1
  <2>2. ASSUME NEW a \in Attempts, Act(a) PROVE \E m \in Names : fs'[m] = fs[n]
    BY <2>2, EffectOnNames DEF Act, Hosts
  <2>3. ASSUME NEW a \in Attempts, WritePayload(a) PROVE \E m \in Names : fs'[m] = fs[n]
    <3>1. n # Temp(a, File(a))
      <4>1. fs[Temp(a, File(a))] = Inode(a, FALSE)
        BY <2>3 DEF WritePayload, Hosts
      <4>2. ~Inode(a, FALSE).whole
        BY DEF Inode
      <4> QED
        BY <4>1, <4>2
    <3>2. fs'[n] = fs[n]
      BY <2>3, <3>1 DEF WritePayload, Hosts
    <3> QED
      BY <3>2
  <2>4. ASSUME NEW a \in Attempts, Step(a) PROVE fs' = fs \/ Act(a) \/ WritePayload(a)
    BY <2>4 DEF Step, Preflight, PrepareStore, PrepareFails, Begin, Check, Announce, Recheck,
        Sync, After, Prove, ActFails, FinalReadback, Pass, PassFails, Fail, Kill, hostVars
  <2> QED
    BY <2>1, <2>2, <2>3, <2>4 DEF Next, PowerCut, Outsider, SessionLocks, SessionMarks,
        SessionEnds, hostVars
<1> QED
  BY <1>1, OwnersInit, OwnersStep, HostsInit, HostsStep, PTL DEF Spec, NothingLost
-----------------------------------------------------------------------------
(* What a PASS rests on.  First, what is behind an invocation: every step  *)
(* before the current one is recorded and done, the current one announced; *)
(* "terminal" is reached behind the last one.                              *)
HasPass(a) == <<"terminal", 0, "PASS">> \in ledger[a]
Updaters == {"selftest", "sources"}
Working == {"check", "intent", "act", "do", "write", "sync", "after", "result", "terminal"}
Announced == {"act", "do", "write", "sync", "after", "result"}
Kinds == {"own", "store", "fill", "exchange", "mkdir", "create", "publish"}

Behind(a, i) ==
    \/ Program[Tool(a)][i][1] = "mkdir"
    \/ /\ {<<"intent", i, "INTENT">>, <<"result", i, "PROVED">>} \subseteq ledger[a]
       /\ Program[Tool(a)][i] \in done[a]
ProgressOf(a) ==
    /\ step[a] >= 1
    /\ pc[a] \in {"prepare", "begin"} =>
            \A i \in DOMAIN Program[Tool(a)] : i < step[a] => Program[Tool(a)][i][1] = "mkdir"
    /\ pc[a] \in Working => \A i \in DOMAIN Program[Tool(a)] : i < step[a] => Behind(a, i)
    /\ pc[a] \in Announced => <<"intent", step[a], "INTENT">> \in ledger[a]
    /\ pc[a] \in {"after", "result"} => Program[Tool(a)][step[a]] \in done[a]
    /\ pc[a] = "terminal" => AllDone(a)
Progress ==
    /\ done \in [Attempts -> SUBSET (Kinds \X Entries)]
    /\ \A a \in Attempts : ProgressOf(a)

(* A ledger is written after the preflight; an updater passes it behind    *)
(* the PASS of the tools before it; a PASS ends the work.                  *)
OrderOf(a) ==
    /\ ledger[a] # {} => pc[a] \notin {"idle", "prepare"}
    /\ Tool(a) \in Updaters /\ pc[a] # "idle" => Passed("stage")
    /\ Tool(a) = "sources" /\ pc[a] # "idle" => Passed("selftest")
    /\ HasPass(a) => pc[a] \in {"passed", "ended", "fail"}
    /\ pc[a] = "passed" => HasPass(a)
Ordered == \A a \in Attempts : OrderOf(a)

(* "sources" holds the flock as long as it runs.                           *)
Locking ==
    /\ \A a \in Attempts : Tool(a) = "sources" /\ pc[a] \notin Resting => lock = a
    /\ ~outside => late = {}

(* An entry that a power cut would change back is that of a tool which is  *)
(* between its effect and its fsync, or which stopped there.               *)
Behindhand(c, f) ==
    /\ f \in Targets[Tool(c)] /\ ledger[c] # {} /\ ~HasPass(c)
    /\ pc[c] \in {"fail", "ended"} \/ (pc[c] \in {"write", "sync"} /\ File(c) = f)
Unsynced ==
    \A f \in Entries : fs[At(f)] # disk[At(f)] => \E c \in Attempts : Behindhand(c, f)

(* The file of a tool that passed has its name, now and after a power cut, *)
(* or a later tool is moving it or stopped there, and it has one of that   *)
(* tool's two names, or has moved it and parks it, where nobody looks any  *)
(* more: a third tool displaces what the second one put in its place.      *)
Over(a) == pc[a] = "terminal" \/ HasPass(a)
Later(t, u) ==
    \/ t = "stage" /\ u \in Updaters
    \/ t = "selftest" /\ u = "sources"
Pair(d, f, b) == {d[At(f)], d[Temp(b, f)]}
MovedBy(a, f, b) ==
    /\ Later(Tool(a), Tool(b)) /\ f \in Targets[Tool(b)] /\ ledger[b] # {}
    /\ Mine(a) \in Pair(fs, f, b) /\ Mine(a) \in Pair(disk, f, b)
    /\ Over(b) => fs[Temp(b, f)] = Mine(a) /\ disk[Temp(b, f)] = Mine(a)
Secure(a, f) ==
    \/ fs[At(f)] = Mine(a) /\ disk[At(f)] = Mine(a)
    \/ \E b \in Attempts : MovedBy(a, f, b)
Secured ==
    \A a \in Attempts : Over(a) /\ a \notin late =>
        \A f \in Targets[Tool(a)] \ {"ovn"} : Secure(a, f)

LEMMA ProgramPairs ==
    \A t \in Tools : \A i \in DOMAIN Program[t] : Program[t][i] \in Kinds \X Entries
<1>1. \A i \in DOMAIN Program["migrate"] : Program["migrate"][i] \in Kinds \X Entries
  BY DEF Program, MigrateProgram, Kinds, Entries
<1>2. \A i \in DOMAIN Program["selftest"] : Program["selftest"][i] \in Kinds \X Entries
  BY FileNames DEF Program, SelftestProgram, Kinds
<1>3. \A i \in DOMAIN Program["sources"] : Program["sources"][i] \in Kinds \X Entries
  BY FileNames, SourcesShape DEF Kinds
<1>4. ASSUME NEW i \in DOMAIN Program["stage"] PROVE Program["stage"][i] \in Kinds \X Entries
  <2>1. i \in 1 .. 1 + 2 * Len(Files)
    BY <1>4 DEF Program, StageProgram
  <2>2. CASE i = 1
    BY <2>2, StageShape DEF Kinds, Entries
  <2>3. CASE i # 1
    <3>1. i \div 2 \in DOMAIN Files
      BY <2>1, <2>3, FileNames
    <3>2. Files[i \div 2] \in Entries
      BY <3>1, FileNames DEF Range
    <3>3. Program["stage"][i] = <<IF i % 2 = 0 THEN "create" ELSE "publish", Files[i \div 2]>>
      BY <2>1, <2>3 DEF Program, StageProgram
    <3> QED
      BY <3>2, <3>3 DEF Kinds
  <2> QED
    BY <2>2, <2>3
<1> QED
  BY <1>1, <1>2, <1>3, <1>4 DEF Tools

(* A step of one invocation leaves what the others have and remember, and  *)
(* a ledger only grows.                                                    *)
LEMMA StepIsOwn ==
    ASSUME Owners, Hosts, Progress, NEW a \in Attempts, Step(a)
    PROVE  /\ \A b \in Attempts : b # a =>
                /\ pc'[b] = pc[b] /\ step'[b] = step[b]
                /\ done'[b] = done[b] /\ ledger'[b] = ledger[b]
           /\ \A b \in Attempts : ledger[b] \subseteq ledger'[b]
           /\ done' \in [Attempts -> SUBSET (Kinds \X Entries)]
<1>1. /\ pc \in [Attempts -> Stages] /\ step \in [Attempts -> Nat]
      /\ ledger \in [Attempts -> SUBSET Records]
      /\ done \in [Attempts -> SUBSET (Kinds \X Entries)]
  BY DEF Owners, RunTypes, Progress
<1>2. \A b \in Attempts : b # a => pc'[b] = pc[b] /\ step'[b] = step[b]
  BY <1>1 DEF Step, Goto, Gone, Preflight, PrepareStore, PrepareFails, Begin, Check, Announce, Recheck, Act, WritePayload, Sync, After, Prove, ActFails, FinalReadback, Pass, PassFails, Fail, Kill, runVars
<1>3. \/ UNCHANGED ledger
      \/ \E kind, i, status : ledger' = [ledger EXCEPT ![a] = @ \cup {<<kind, i, status>>}]
  BY DEF Step, WriteFails, Write, Preflight, PrepareStore, PrepareFails, Begin, Check, Announce, Recheck, Act, WritePayload, Sync, After, Prove, ActFails, FinalReadback, Pass, PassFails, Fail, Kill, runVars
<1>4. /\ \A b \in Attempts : b # a => ledger'[b] = ledger[b]
      /\ \A b \in Attempts : ledger[b] \subseteq ledger'[b]
  BY <1>1, <1>3
<1>5. Sync(a) => <<Op(a), File(a)>> \in Kinds \X Entries
  BY ProgramPairs, ToolIsTool DEF Sync, Hosts, Op, File
<1>6. \/ UNCHANGED done
      \/ done' = [done EXCEPT ![a] = {}]
      \/ <<Op(a), File(a)>> \in Kinds \X Entries /\ done' = [done EXCEPT ![a] = @ \cup {<<Op(a), File(a)>>}]
  BY <1>5 DEF Step, Gone, Preflight, PrepareStore, PrepareFails, Begin, Check, Announce, Recheck, Act, WritePayload, Sync, After, Prove, ActFails, FinalReadback, Pass, PassFails, Fail, Kill, runVars
<1>7. /\ \A b \in Attempts : b # a => done'[b] = done[b]
      /\ done' \in [Attempts -> SUBSET (Kinds \X Entries)]
  BY <1>1, <1>6
<1> QED
  BY <1>2, <1>4, <1>7

LEMMA ProgressStep == Owners /\ Hosts /\ Progress /\ [Next]_vars => Progress'
<1> SUFFICES ASSUME Owners, Hosts, Progress, [Next]_vars PROVE Progress'
  OBVIOUS
<1>1. /\ pc \in [Attempts -> Stages] /\ step \in [Attempts -> Nat]
      /\ ledger \in [Attempts -> SUBSET Records]
      /\ done \in [Attempts -> SUBSET (Kinds \X Entries)]
      /\ \A a \in Attempts : ProgressOf(a)
  BY DEF Owners, RunTypes, Progress
<1>2. CASE UNCHANGED runVars
  BY <1>1, <1>2 DEF Progress, ProgressOf, Behind, AllDone, runVars
<1>3. CASE PowerCut
  <2>1. /\ done' \in [Attempts -> SUBSET (Kinds \X Entries)]
        /\ \A a \in Attempts : step'[a] = 1 /\ pc'[a] \in Resting
    BY <1>3 DEF PowerCut, Resting
  <2> QED
    BY <2>1 DEF Progress, ProgressOf, Resting, Working, Announced
<1>4. ASSUME NEW a \in Attempts, Step(a) PROVE Progress'
  <2>1. /\ \A b \in Attempts : b # a =>
            /\ pc'[b] = pc[b] /\ step'[b] = step[b]
            /\ done'[b] = done[b] /\ ledger'[b] = ledger[b]
        /\ \A b \in Attempts : ledger[b] \subseteq ledger'[b]
        /\ done' \in [Attempts -> SUBSET (Kinds \X Entries)]
    BY <1>4, StepIsOwn
  <2>2. \A b \in Attempts : b # a => ProgressOf(b)'
    BY <1>1, <2>1 DEF ProgressOf, Behind, AllDone
  <2>3. ProgressOf(a) /\ step[a] \in Nat /\ Tool(a) \in Tools
    BY <1>1, ToolIsTool
  <2>4. ASSUME Preflight(a) PROVE ProgressOf(a)'
    <3>1. /\ pc'[a] = "prepare" /\ step'[a] \in {1, 2}
          /\ step'[a] = 2 => Tool(a) = "stage"
      BY <1>1, <2>4 DEF Preflight, Goto
    <3>2. \A i \in DOMAIN Program[Tool(a)] : i < step'[a] => Program[Tool(a)][i][1] = "mkdir"
      <4>1. PICK n \in Nat : DOMAIN Program[Tool(a)] = 1 .. n
        BY <2>3, ProgramFacts
      <4>2. ASSUME NEW i \in 1 .. n, i < step'[a] PROVE i = 1 /\ Tool(a) = "stage"
        BY <3>1, <4>2
      <4> QED
        BY <4>1, <4>2, StageShape
    <3> QED
      BY <3>1, <3>2 DEF ProgressOf, Working, Announced
  <2>5. ASSUME PrepareStore(a) PROVE ProgressOf(a)'
    BY <1>1, <2>1, <2>3, <2>5 DEF PrepareStore, Goto, ProgressOf, Behind, AllDone, Working, Announced
  <2>6. ASSUME PrepareFails(a) PROVE ProgressOf(a)'
    BY <1>1, <2>1, <2>3, <2>6 DEF PrepareFails, Goto, ProgressOf, Behind, AllDone, Working, Announced, Gone
  <2>7. ASSUME Begin(a) PROVE ProgressOf(a)'
    BY <1>1, <2>1, <2>3, <2>7 DEF Begin, Goto, ProgressOf, Behind, AllDone, Working, Announced, Write, WriteFails, Vacant
  <2>8. ASSUME Check(a) PROVE ProgressOf(a)'
    BY <1>1, <2>1, <2>3, <2>8 DEF Check, Goto, ProgressOf, Behind, AllDone, Working, Announced
  <2>9. ASSUME Announce(a) PROVE ProgressOf(a)'
    BY <1>1, <2>1, <2>3, <2>9 DEF Announce, Goto, ProgressOf, Behind, AllDone, Working, Announced, Write, WriteFails, Vacant
  <2>10. ASSUME Recheck(a) PROVE ProgressOf(a)'
    BY <1>1, <2>1, <2>3, <2>10 DEF Recheck, Goto, ProgressOf, Behind, AllDone, Working, Announced
  <2>11. ASSUME Act(a) PROVE ProgressOf(a)'
    BY <1>1, <2>1, <2>3, <2>11 DEF Act, Goto, ProgressOf, Behind, AllDone, Working, Announced
  <2>12. ASSUME WritePayload(a) PROVE ProgressOf(a)'
    BY <1>1, <2>1, <2>3, <2>12 DEF WritePayload, Goto, ProgressOf, Behind, AllDone, Working, Announced
  <2>13. ASSUME Sync(a) PROVE ProgressOf(a)'
    <3>1. /\ pc[a] = "sync" /\ pc'[a] = "after" /\ UNCHANGED <<step, ledger>>
          /\ done'[a] = done[a] \cup {<<Op(a), File(a)>>}
      BY <1>1, <2>13 DEF Sync, Goto
    <3>2. Program[Tool(a)][step[a]] \in Kinds \X Entries
      BY <2>3, <3>1, ProgramPairs DEF Hosts
    <3>3. Program[Tool(a)][step[a]] = <<Op(a), File(a)>>
      BY <3>2 DEF Op, File
    <3> QED
      BY <2>3, <3>1, <3>3 DEF ProgressOf, Behind, Working, Announced
  <2>14. ASSUME After(a) PROVE ProgressOf(a)'
    BY <1>1, <2>1, <2>3, <2>14 DEF After, Goto, ProgressOf, Behind, AllDone, Working, Announced
  <2>15. ASSUME Prove(a) PROVE ProgressOf(a)'
    <3>1. pc[a] = "result" /\ UNCHANGED done /\ ledger[a] \subseteq ledger'[a]
      BY <2>1, <2>15 DEF Prove
    <3>2. CASE /\ pc'[a] = "check" /\ step'[a] = step[a] + 1
               /\ <<"result", step[a], "PROVED">> \in ledger'[a]
      <4>1. ASSUME NEW i \in DOMAIN Program[Tool(a)], i < step[a] + 1 PROVE Behind(a, i)'
        <5>1. PICK n \in Nat : DOMAIN Program[Tool(a)] = 1 .. n
          BY <2>3, ProgramFacts
        <5>2. i = step[a] \/ i < step[a]
          BY <2>3, <4>1, <5>1
        <5>3. CASE i = step[a]
          BY <2>3, <3>1, <3>2, <5>3 DEF ProgressOf, Behind, Announced
        <5>4. CASE i < step[a]
          BY <2>3, <3>1, <5>4 DEF ProgressOf, Behind, Working
        <5> QED
          BY <5>2, <5>3, <5>4
      <4>2. step'[a] >= 1
        BY <2>3, <3>2
      <4> QED
        BY <3>2, <4>1, <4>2 DEF ProgressOf, Announced
    <3>3. CASE pc'[a] = "fail" /\ step' = step
      BY <2>3, <3>3 DEF ProgressOf, Working, Announced
    <3> QED
      BY <1>1, <2>15, <3>2, <3>3 DEF Prove, Goto, Write
  <2>16. ASSUME ActFails(a) PROVE ProgressOf(a)'
    BY <1>1, <2>1, <2>3, <2>16 DEF ActFails, Goto, ProgressOf, Behind, AllDone, Working, Announced
  <2>17. ASSUME FinalReadback(a) PROVE ProgressOf(a)'
    BY <1>1, <2>1, <2>3, <2>17 DEF FinalReadback, Goto, ProgressOf, Behind, AllDone, Working, Announced
  <2>18. ASSUME Pass(a) PROVE ProgressOf(a)'
    BY <1>1, <2>1, <2>3, <2>18 DEF Pass, Goto, ProgressOf, Behind, AllDone, Working, Announced, Gone
  <2>19. ASSUME PassFails(a) PROVE ProgressOf(a)'
    BY <1>1, <2>1, <2>3, <2>19 DEF PassFails, Goto, ProgressOf, Behind, AllDone, Working, Announced, Write, WriteFails, Vacant
  <2>20. ASSUME Fail(a) PROVE ProgressOf(a)'
    BY <1>1, <2>1, <2>3, <2>20 DEF Fail, Goto, ProgressOf, Behind, AllDone, Working, Announced, Gone
  <2>21. ASSUME Kill(a) PROVE ProgressOf(a)'
    BY <1>1, <2>1, <2>3, <2>21 DEF Kill, Goto, ProgressOf, Behind, AllDone, Working, Announced, Gone
  <2>22. ProgressOf(a)'
    BY <1>4, <2>4, <2>5, <2>6, <2>7, <2>8, <2>9, <2>10, <2>11, <2>12, <2>13, <2>14, <2>15, <2>16, <2>17, <2>18, <2>19, <2>20, <2>21 DEF Step
  <2> QED
    BY <2>1, <2>2, <2>22 DEF Progress
<1> QED
  BY <1>2, <1>3, <1>4 DEF Next, vars, Outsider, SessionLocks, SessionMarks, SessionEnds

LEMMA PassedStays ==
    ASSUME Owners, NEW t, \A b \in Attempts : ledger[b] \subseteq ledger'[b], Passed(t)
    PROVE  Passed(t)'
  BY DEF Passed

LEMMA OrderedStep == Owners /\ Hosts /\ Progress /\ Ordered /\ [Next]_vars => Ordered'
<1> SUFFICES ASSUME Owners, Hosts, Progress, Ordered, [Next]_vars PROVE Ordered'
  OBVIOUS
<1>1. /\ pc \in [Attempts -> Stages] /\ ledger \in [Attempts -> SUBSET Records]
      /\ \A a \in Attempts : OrderOf(a)
  BY DEF Owners, RunTypes, Ordered
<1>2. CASE UNCHANGED runVars
  BY <1>1, <1>2 DEF Ordered, OrderOf, HasPass, Passed, runVars
<1>3. CASE PowerCut
  <2>1. /\ UNCHANGED ledger
        /\ \A a \in Attempts : pc'[a] = IF pc[a] \in Resting THEN pc[a] ELSE "ended"
    BY <1>3 DEF PowerCut
  <2> QED
    BY <1>1, <2>1 DEF Ordered, OrderOf, HasPass, Passed, Resting
<1>4. ASSUME NEW a \in Attempts, Step(a) PROVE Ordered'
  <2>1. /\ \A b \in Attempts : b # a => pc'[b] = pc[b] /\ ledger'[b] = ledger[b]
        /\ \A b \in Attempts : ledger[b] \subseteq ledger'[b]
    BY <1>4, StepIsOwn
  <2>2. /\ Passed("stage") => Passed("stage")'
        /\ Passed("selftest") => Passed("selftest")'
    BY <2>1, PassedStays
  <2>3. \A b \in Attempts : b # a => OrderOf(b)'
    BY <1>1, <2>1, <2>2 DEF OrderOf, HasPass
  <2>4. OrderOf(a)
    BY <1>1
  <2>5. ASSUME Preflight(a) PROVE OrderOf(a)'
    BY <1>1, <2>2, <2>4, <2>5 DEF Preflight, Goto, OrderOf, HasPass, runVars, Verified, Proofs, Updaters
  <2>6. ASSUME PrepareStore(a) PROVE OrderOf(a)'
    BY <1>1, <2>2, <2>4, <2>6 DEF PrepareStore, Goto, OrderOf, HasPass, runVars
  <2>7. ASSUME PrepareFails(a) PROVE OrderOf(a)'
    BY <1>1, <2>2, <2>4, <2>7 DEF PrepareFails, Goto, OrderOf, HasPass, runVars, Gone
  <2>8. ASSUME Begin(a) PROVE OrderOf(a)'
    BY <1>1, <2>2, <2>4, <2>8 DEF Begin, Goto, OrderOf, HasPass, runVars, Write, WriteFails
  <2>9. ASSUME Check(a) PROVE OrderOf(a)'
    BY <1>1, <2>2, <2>4, <2>9 DEF Check, Goto, OrderOf, HasPass, runVars
  <2>10. ASSUME Announce(a) PROVE OrderOf(a)'
    BY <1>1, <2>2, <2>4, <2>10 DEF Announce, Goto, OrderOf, HasPass, runVars, Write, WriteFails
  <2>11. ASSUME Recheck(a) PROVE OrderOf(a)'
    BY <1>1, <2>2, <2>4, <2>11 DEF Recheck, Goto, OrderOf, HasPass, runVars
  <2>12. ASSUME Act(a) PROVE OrderOf(a)'
    BY <1>1, <2>2, <2>4, <2>12 DEF Act, Goto, OrderOf, HasPass, runVars
  <2>13. ASSUME WritePayload(a) PROVE OrderOf(a)'
    BY <1>1, <2>2, <2>4, <2>13 DEF WritePayload, Goto, OrderOf, HasPass, runVars
  <2>14. ASSUME Sync(a) PROVE OrderOf(a)'
    BY <1>1, <2>2, <2>4, <2>14 DEF Sync, Goto, OrderOf, HasPass, runVars
  <2>15. ASSUME After(a) PROVE OrderOf(a)'
    BY <1>1, <2>2, <2>4, <2>15 DEF After, Goto, OrderOf, HasPass, runVars
  <2>16. ASSUME Prove(a) PROVE OrderOf(a)'
    BY <1>1, <2>2, <2>4, <2>16 DEF Prove, Goto, OrderOf, HasPass, runVars, Write, WriteFails
  <2>17. ASSUME ActFails(a) PROVE OrderOf(a)'
    BY <1>1, <2>2, <2>4, <2>17 DEF ActFails, Goto, OrderOf, HasPass, runVars
  <2>18. ASSUME FinalReadback(a) PROVE OrderOf(a)'
    BY <1>1, <2>2, <2>4, <2>18 DEF FinalReadback, Goto, OrderOf, HasPass, runVars
  <2>19. ASSUME Pass(a) PROVE OrderOf(a)'
    BY <1>1, <2>2, <2>4, <2>19 DEF Pass, Goto, OrderOf, HasPass, runVars, Gone, Write, WriteFails
  <2>20. ASSUME PassFails(a) PROVE OrderOf(a)'
    BY <1>1, <2>2, <2>4, <2>20 DEF PassFails, Goto, OrderOf, HasPass, runVars, Write, WriteFails
  <2>21. ASSUME Fail(a) PROVE OrderOf(a)'
    BY <1>1, <2>2, <2>4, <2>21 DEF Fail, Goto, OrderOf, HasPass, runVars, Gone, Write, WriteFails
  <2>22. ASSUME Kill(a) PROVE OrderOf(a)'
    BY <1>1, <2>2, <2>4, <2>22 DEF Kill, Goto, OrderOf, HasPass, runVars, Gone, Resting
  <2>23. OrderOf(a)'
    BY <1>4, <2>5, <2>6, <2>7, <2>8, <2>9, <2>10, <2>11, <2>12, <2>13, <2>14, <2>15, <2>16, <2>17, <2>18, <2>19, <2>20, <2>21, <2>22 DEF Step
  <2> QED
    BY <2>3, <2>23 DEF Ordered
<1> QED
  BY <1>2, <1>3, <1>4 DEF Next, vars, Outsider, SessionLocks, SessionMarks, SessionEnds

LEMMA LockingStep == Owners /\ Hosts /\ Progress /\ Locking /\ [Next]_vars => Locking'
<1> SUFFICES ASSUME Owners, Hosts, Progress, Locking, [Next]_vars PROVE Locking'
  OBVIOUS
<1> DEFINE Holds(a) == Tool(a) = "sources" /\ pc[a] \notin Resting => lock = a
<1>1. /\ pc \in [Attempts -> Stages] /\ \A a \in Attempts : Holds(a)
      /\ ~outside => late = {}
  BY DEF Owners, RunTypes, Locking
<1>2. \A a \in Attempts : a # Nobody /\ a # Session
  BY AttemptsAssumption DEF Nobody, Session, Tools
<1>3. CASE UNCHANGED <<pc, lock, outside, late>>
  BY <1>1, <1>3 DEF Locking
<1>4. CASE PowerCut
  BY <1>1, <1>4 DEF PowerCut, Locking, Resting
<1>5. ASSUME NEW a \in Attempts, Step(a) PROVE Locking'
  <2>1. \A b \in Attempts : b # a => pc'[b] = pc[b]
    BY <1>5, StepIsOwn
  <2>2. UNCHANGED <<outside, late>>
    BY <1>5 DEF Step, Preflight, PrepareStore, PrepareFails, Begin, Check, Announce, Recheck, Act, WritePayload, Sync, After, Prove, ActFails, FinalReadback, Pass, PassFails, Fail, Kill
  <2>3. CASE Preflight(a)
    <3>1. /\ pc'[a] = "prepare" /\ lock' = IF Tool(a) = "sources" THEN a ELSE lock
          /\ Tool(a) = "sources" => lock \in {Nobody, a}
      BY <1>1, <2>3 DEF Preflight, Acquired, Verified, Flocked, Goto
    <3> QED
      BY <1>1, <1>2, <2>1, <2>2, <3>1 DEF Locking
  <2>4. CASE PrepareFails(a) \/ Pass(a) \/ Fail(a) \/ Kill(a)
    <3>1. pc'[a] \in Resting /\ lock' = IF lock = a THEN Nobody ELSE lock
      BY <1>1, <2>4 DEF PrepareFails, Pass, Fail, Kill, Gone, Goto, Resting
    <3> QED
      BY <1>1, <2>1, <2>2, <3>1 DEF Locking
  <2>5. CASE lock' = lock /\ pc[a] \notin Resting
    BY <1>1, <2>1, <2>2, <2>5 DEF Locking
  <2> QED
    BY <1>5, <2>3, <2>4, <2>5 DEF Step, PrepareStore, Begin, Check, Announce, Recheck, Act, WritePayload, Sync, After, Prove, ActFails, FinalReadback, PassFails, dciVars, Resting
<1>6. CASE SessionLocks \/ SessionMarks \/ SessionEnds
  <2>1. UNCHANGED <<pc, outside, late>> /\ lock \in {Nobody, Session}
    BY <1>6 DEF SessionLocks, SessionMarks, SessionEnds, runVars
  <2> QED
    BY <1>1, <1>2, <2>1 DEF Locking
<1>7. ASSUME NEW f \in Entries, Outsider(f) PROVE Locking'
  BY <1>1, <1>7 DEF Outsider, runVars, dciVars, Locking
<1> QED
  BY <1>3, <1>4, <1>5, <1>6, <1>7 DEF Next, vars, runVars, dciVars

LEMMA UnsyncedStep ==
    Owners /\ Hosts /\ Progress /\ Ordered /\ Unsynced /\ [Next]_vars => Unsynced'
<1> SUFFICES ASSUME Owners, Hosts, Progress, Ordered, Unsynced, [Next]_vars,
                    NEW f \in Entries, fs'[At(f)] # disk'[At(f)]
             PROVE  \E c \in Attempts : Behindhand(c, f)'
  BY DEF Unsynced, At, Nobody, Entries, Range
<1>1. /\ pc \in [Attempts -> Stages] /\ fs \in [Names -> Inodes] /\ disk \in [Names -> Inodes]
      /\ At(f) \in Names
      /\ fs[At(f)] # disk[At(f)] => \E c \in Attempts : Behindhand(c, f)
  BY DEF Owners, RunTypes, Hosts, Unsynced, Names
<1>2. CASE UNCHANGED <<fs, disk, runVars>>
  BY <1>1, <1>2 DEF Behindhand, HasPass, File, runVars
<1>3. CASE PowerCut
  BY <1>3 DEF PowerCut
<1>4. ASSUME NEW g \in Entries, Outsider(g) PROVE \E c \in Attempts : Behindhand(c, f)'
  <2>1. /\ fs' = [fs EXCEPT ![At(g)] = Foreign] /\ disk' = [disk EXCEPT ![At(g)] = Foreign]
        /\ UNCHANGED <<ledger, pc, step>>
    BY <1>4 DEF Outsider, runVars
  <2>2. fs[At(f)] # disk[At(f)]
    BY <1>1, <2>1
  <2> QED
    BY <1>1, <2>1, <2>2 DEF Behindhand, HasPass, File
<1>5. ASSUME NEW a \in Attempts, Step(a) PROVE \E c \in Attempts : Behindhand(c, f)'
  <2>1. \A b \in Attempts : b # a => pc'[b] = pc[b] /\ step'[b] = step[b] /\ ledger'[b] = ledger[b]
    BY <1>5, StepIsOwn
  <2>2. \A c \in Attempts : c # a /\ Behindhand(c, f) => Behindhand(c, f)'
    BY <2>1 DEF Behindhand, HasPass, File
  <2>3. CASE Act(a)
    <3>1. /\ pc[a] = "do" /\ pc'[a] \in {"write", "sync"} /\ UNCHANGED <<disk, ledger, step>>
          /\ Effect(a, Op(a), File(a)) /\ step[a] \in DOMAIN Program[Tool(a)]
      BY <1>1, <2>3 DEF Act, Goto, Hosts
    <3>2. CASE f = File(a)
      <4>1. ledger[a] # {} /\ ~HasPass(a)
        BY <3>1 DEF Progress, ProgressOf, Announced, Ordered, OrderOf
      <4>2. f \in Targets[Tool(a)]
        BY <3>1, <3>2, TargetsAreEntries, ToolIsTool DEF File
      <4> QED
        BY <3>1, <3>2, <4>1, <4>2 DEF Behindhand, HasPass, File
    <3>3. CASE f # File(a)
      <4>1. At(f) # At(File(a)) /\ At(f) # Temp(a, File(a))
        BY <3>3, NamesDiffer DEF At
      <4>2. fs'[At(f)] = fs[At(f)]
        BY <1>1, <3>1, <4>1, EffectOnNames
      <4> QED
        BY <1>1, <2>2, <3>1, <4>2 DEF Behindhand
    <3> QED
      BY <3>2, <3>3
  <2>4. CASE WritePayload(a)
    <3>1. /\ pc[a] = "write" /\ pc'[a] = "sync" /\ UNCHANGED <<disk, ledger, step>>
          /\ fs' = [fs EXCEPT ![Temp(a, File(a))] = Mine(a)]
      BY <1>1, <2>4 DEF WritePayload, Goto
    <3>2. fs'[At(f)] = fs[At(f)]
      BY <1>1, <3>1, NamesDiffer
    <3>3. Behindhand(a, f) => Behindhand(a, f)'
      BY <3>1 DEF Behindhand, HasPass, File
    <3> QED
      BY <1>1, <2>2, <3>1, <3>2, <3>3
  <2>5. CASE Sync(a)
    <3>1. pc[a] = "sync" /\ UNCHANGED fs /\ disk' = Synced(a, File(a))
      BY <2>5 DEF Sync
    <3>2. f # File(a)
      BY <1>1, <3>1, NamesDiffer DEF Synced
    <3>3. disk'[At(f)] = disk[At(f)]
      <4>1. At(f) # At(File(a)) /\ At(f) # Temp(a, File(a))
        BY <3>2, NamesDiffer DEF At
      <4> QED
        BY <1>1, <3>1, <4>1 DEF Synced
    <3>4. ~Behindhand(a, f)
      BY <3>1, <3>2 DEF Behindhand
    <3> QED
      BY <1>1, <2>2, <3>1, <3>3, <3>4
  <2>6. CASE ActFails(a) \/ Kill(a) \/ Fail(a)
    <3>1. UNCHANGED <<fs, disk>> /\ pc'[a] \in {"fail", "ended"}
      BY <1>1, <2>6 DEF ActFails, Kill, Fail, Gone, Goto, hostVars
    <3>2. ledger[a] \subseteq ledger'[a]
      BY <1>5, StepIsOwn
    <3>3. HasPass(a)' => HasPass(a)
      BY <2>6 DEF ActFails, Kill, Fail, WriteFails, Write, HasPass, Owners, RunTypes
    <3> QED
      BY <1>1, <2>2, <3>1, <3>2, <3>3 DEF Behindhand
  <2>7. CASE UNCHANGED <<fs, disk>> /\ ~Behindhand(a, f)
    BY <1>1, <2>2, <2>7
  <2>8. CASE \/ Preflight(a) \/ PrepareStore(a) \/ PrepareFails(a) \/ Begin(a) \/ Check(a)
             \/ Announce(a) \/ Recheck(a) \/ After(a) \/ Prove(a) \/ FinalReadback(a)
             \/ Pass(a) \/ PassFails(a)
    <3>1. UNCHANGED <<fs, disk>> /\ pc[a] \notin {"write", "sync", "fail", "ended"}
      BY <2>8 DEF Preflight, PrepareStore, PrepareFails, Begin, Check, Announce, Recheck, After,
          Prove, FinalReadback, Pass, PassFails, hostVars
    <3> QED
      BY <2>7, <3>1 DEF Behindhand
  <2> QED
    BY <1>5, <2>3, <2>4, <2>5, <2>6, <2>8 DEF Step
<1> QED
  BY <1>2, <1>3, <1>4, <1>5 DEF Next, vars, hostVars, runVars, SessionLocks, SessionMarks, SessionEnds

(* Only "stage" and the updaters share files, and of two one is later.     *)
LEMMA SharedFiles ==
    ASSUME NEW t \in Tools, NEW u \in Tools, NEW f, f \in Targets[t], f \in Targets[u],
           f # "ovn", t # u
    PROVE  Later(t, u) \/ Later(u, t)
<1>1. f \notin Targets["migrate"] \/ f = "evidence"
  BY ProgramFacts
<1>2. \A v \in Tools \ {"migrate"} : f \in Targets[v] => f # "evidence"
  BY ProgramFacts, FileNames DEF Tools
<1>3. t # "migrate" /\ u # "migrate"
  BY <1>1, <1>2
<1>4. t \in {"stage", "selftest", "sources"} /\ u \in {"stage", "selftest", "sources"}
  BY <1>3 DEF Tools
<1> QED
  BY <1>4 DEF Later, Updaters

(* A tool that has begun works behind the PASS of the only invocation that *)
(* an earlier tool has.                                                    *)
LEMMA EarlierIsOver ==
    ASSUME Owners, Ordered, NEW a \in Attempts, NEW c \in Attempts, Owns(c),
           Later(Tool(c), Tool(a)), pc[a] # "idle"
    PROVE  HasPass(c)
<1>1. PICK b \in Attempts : Tool(b) = Tool(c) /\ HasPass(b)
  BY DEF Ordered, OrderOf, Passed, HasPass, Later, Updaters
<1>2. Owns(b)
  BY <1>1 DEF Owns, HasPass
<1> QED
  BY <1>1, <1>2 DEF Owners

(* Who works at a file of a tool that is over is a later tool.             *)
LEMMA MoverIsLater ==
    ASSUME Owners, Ordered, NEW a \in Attempts, NEW c \in Attempts, a # c, Over(a),
           Owns(c), ~HasPass(c), NEW f, f \in Targets[Tool(a)], f \in Targets[Tool(c)], f # "ovn"
    PROVE  Later(Tool(a), Tool(c))
<1>1. Owns(a) /\ pc[a] # "idle"
  BY DEF Over, Owns, HasPass, Ordered, OrderOf
<1>2. Tool(a) # Tool(c)
  BY <1>1 DEF Owners
<1>3. ~Later(Tool(c), Tool(a))
  BY <1>1, EarlierIsOver
<1>4. Later(Tool(a), Tool(c)) \/ Later(Tool(c), Tool(a))
  BY <1>2, SharedFiles, ToolIsTool
<1> QED
  BY <1>3, <1>4

(* An effect moves a complete file between the two names of its pair.      *)
LEMMA EffectOnPair ==
    ASSUME Hosts, NEW c \in Attempts, step[c] \in DOMAIN Program[Tool(c)],
           Effect(c, Op(c), File(c)), NEW i, i.whole, i \in Pair(fs, File(c), c)
    PROVE  i \in Pair(fs', File(c), c)
<1> DEFINE f == File(c)
           new == At(f)
           tmp == Temp(c, f)
<1>1. new \in Names /\ tmp \in Names /\ new # tmp /\ fs \in [Names -> Inodes]
  BY NamesOfEffect, NamesDiffer DEF Hosts
<1>2. i # Nothing /\ i # Inode(c, FALSE)
  BY DEF Nothing, Inode
<1>3. i \in {fs[new], fs[tmp]}
  BY DEF Pair
<1> HIDE DEF f, new, tmp
<1>4. i \in {fs'[new], fs'[tmp]}
  <2>1. \/ fs' = fs
        \/ Free(new) /\ fs' = [fs EXCEPT ![new] = Mine(c)]
        \/ Free(tmp) /\ fs' = [fs EXCEPT ![tmp] = Inode(c, FALSE)]
        \/ fs[tmp] = Inode(c, FALSE) /\ fs' = [fs EXCEPT ![tmp] = Mine(c)]
        \/ Free(new) /\ fs' = [fs EXCEPT ![new] = fs[tmp], ![tmp] = Nothing]
        \/ fs' = [fs EXCEPT ![new] = fs[tmp], ![tmp] = fs[new]]
    BY DEF Effect, NoReplace, f, new, tmp
  <2> QED
    BY <1>1, <1>2, <1>3, <2>1 DEF Free
<1> QED
  BY <1>4 DEF Pair, f, new, tmp

LEMMA SecureFrame ==
    ASSUME UNCHANGED <<fs, disk>>, \A b \in Attempts : ledger[b] \subseteq ledger'[b],
           \A b \in Attempts : Over(b)' => Over(b), NEW a, NEW f, Secure(a, f)
    PROVE  Secure(a, f)'
  BY DEF Secure, MovedBy, Pair

(* The final readback finds the files in place, and the directory synced.  *)
LEMMA ReadbackSecures ==
    ASSUME Owners, Hosts, Progress, Ordered, Unsynced, NEW a \in Attempts,
           FinalReadback(a), pc'[a] = "terminal", NEW f \in Targets[Tool(a)] \ {"ovn"}
    PROVE  fs[At(f)] = Mine(a) /\ disk[At(f)] = Mine(a)
<1>1. pc[a] = "check" /\ AllDone(a) /\ Readback(a)
  BY DEF FinalReadback, Goto, Owners, RunTypes
<1>2. fs[At(f)] = Mine(a)
  <2>1. CASE Tool(a) = "stage"
    BY <1>1, <2>1, ProgramFacts DEF Readback
  <2>2. CASE Tool(a) # "stage"
    <3>1. PICK i \in DOMAIN Program[Tool(a)] : Program[Tool(a)][i] = <<"exchange", f>>
      BY <2>2, ToolIsTool, ProgramFacts
    <3>2. i < step[a]
      <4>1. PICK n \in Nat : DOMAIN Program[Tool(a)] = 1 .. n
        BY ToolIsTool, ProgramFacts
      <4>2. step[a] \in Nat /\ step[a] >= 1 /\ step[a] \notin 1 .. n
        BY <1>1, <4>1 DEF AllDone, Progress, ProgressOf, Owners, RunTypes
      <4> QED
        BY <4>1, <4>2
    <3>3. Behind(a, i)
      BY <1>1, <3>1, <3>2 DEF Progress, ProgressOf, Working
    <3>4. <<"exchange", f>>[1] # "mkdir"
      OBVIOUS
    <3>5. <<"exchange", f>> \in done[a]
      BY <3>1, <3>3, <3>4 DEF Behind
    <3>6. Phases(a)
      BY <1>1, <2>2 DEF Readback, Verified
    <3> QED
      BY <2>2, <3>5, <3>6 DEF Phases, Phase
  <2> QED
    BY <2>1, <2>2
<1>3. disk[At(f)] = fs[At(f)]
  <2> SUFFICES ASSUME disk[At(f)] # fs[At(f)] PROVE FALSE
    OBVIOUS
  <2>1. f \in Entries
    BY ProgramFacts, FileNames, ToolIsTool DEF Tools, Entries
  <2>2. PICK c \in Attempts : Behindhand(c, f)
    BY <2>1 DEF Unsynced
  <2>3. /\ c # a /\ Owns(a) /\ Owns(c) /\ ~HasPass(c) /\ ~HasPass(a)
        /\ pc[c] # "idle" /\ pc[a] # "idle"
    BY <1>1, <2>2 DEF Behindhand, Owns, Ordered, OrderOf
  <2>4. Tool(a) # Tool(c)
    BY <2>3 DEF Owners
  <2>5. Later(Tool(a), Tool(c)) \/ Later(Tool(c), Tool(a))
    BY <2>2, <2>4, SharedFiles, ToolIsTool DEF Behindhand
  <2> QED
    BY <2>3, <2>5, EarlierIsOver
<1> QED
  BY <1>2, <1>3

(* Where "selftest" or "sources" finds its own file at the end, what it    *)
(* displaced is parked.                                                    *)
LEMMA ReadbackParks ==
    ASSUME Owners, Hosts, Progress, Ordered, Unsynced, NEW c \in Attempts,
           FinalReadback(c), pc'[c] = "terminal",
           NEW a \in Attempts, a # c, NEW f \in Targets[Tool(a)] \ {"ovn"},
           Secure(a, f)
    PROVE  Secure(a, f)'
<1>1. UNCHANGED <<fs, disk, ledger>> /\ \A b \in Attempts : b # c => pc'[b] = pc[b]
  BY DEF FinalReadback, hostVars, Goto, Owners, RunTypes
<1>2. CASE fs[At(f)] = Mine(a) /\ disk[At(f)] = Mine(a)
  BY <1>1, <1>2 DEF Secure
<1>3. ASSUME NEW b \in Attempts, MovedBy(a, f, b), b # c PROVE Secure(a, f)'
  BY <1>1, <1>3 DEF Secure, MovedBy, Pair, Over, HasPass
<1>4. CASE MovedBy(a, f, c)
  <2>1. f \in Targets[Tool(c)] \ {"ovn"}
    BY <1>4 DEF MovedBy
  <2>2. fs[At(f)] = Mine(c) /\ disk[At(f)] = Mine(c)
    BY <2>1, ReadbackSecures
  <2>3. Mine(c) # Mine(a)
    BY DEF Mine, Inode
  <2>4. fs[Temp(c, f)] = Mine(a) /\ disk[Temp(c, f)] = Mine(a)
    BY <1>4, <2>2, <2>3 DEF MovedBy, Pair
  <2> QED
    BY <1>1, <1>4, <2>4 DEF Secure, MovedBy, Pair
<1> QED
  BY <1>2, <1>3, <1>4 DEF Secure

LEMMA SecuredStep ==
    Owners /\ Hosts /\ Progress /\ Ordered /\ Unsynced /\ Secured /\ [Next]_vars => Secured'
<1> SUFFICES ASSUME Owners, Hosts, Progress, Ordered, Unsynced, Secured, [Next]_vars,
                    NEW a \in Attempts, Over(a)', a \notin late',
                    NEW f \in Targets[Tool(a)] \ {"ovn"}
             PROVE  Secure(a, f)'
  BY DEF Secured
<1>1. /\ pc \in [Attempts -> Stages] /\ fs \in [Names -> Inodes] /\ disk \in [Names -> Inodes]
      /\ ledger \in [Attempts -> SUBSET Records] /\ f \in Entries
      /\ Over(a) /\ a \notin late => Secure(a, f)
  BY ProgramFacts, FileNames, ToolIsTool DEF Owners, RunTypes, Hosts, Secured, Tools, Entries
<1>2. CASE UNCHANGED <<fs, disk, ledger, pc, late>>
  BY <1>1, <1>2, SecureFrame DEF Over, HasPass
<1>3. CASE PowerCut
  <2>1. /\ UNCHANGED <<ledger, late>> /\ fs' \in {fs, disk} /\ disk' = fs'
        /\ \A b \in Attempts : pc'[b] # "terminal"
    BY <1>3 DEF PowerCut, Resting
  <2>2. \A b \in Attempts : Over(b)' => Over(b)
    BY <2>1 DEF Over, HasPass
  <2>3. Secure(a, f)
    BY <1>1, <2>1, <2>2
  <2> QED
    BY <2>1, <2>2, <2>3 DEF Secure, MovedBy, Pair
<1>4. ASSUME NEW g \in Entries, Outsider(g) PROVE FALSE
  BY <1>4 DEF Outsider, runVars, Over, HasPass
<1>5. ASSUME NEW c \in Attempts, Step(c) PROVE Secure(a, f)'
  <2>1. /\ \A b \in Attempts : b # c => pc'[b] = pc[b] /\ step'[b] = step[b] /\ ledger'[b] = ledger[b]
        /\ \A b \in Attempts : ledger[b] \subseteq ledger'[b]
    BY <1>5, StepIsOwn
  <2>2. late' = late
    BY <1>5 DEF Step, Preflight, PrepareStore, PrepareFails, Begin, Check, Announce, Recheck, Act,
        WritePayload, Sync, After, Prove, ActFails, FinalReadback, Pass, PassFails, Fail, Kill
  <2>3. CASE FinalReadback(c) /\ pc'[c] = "terminal"
    <3>1. CASE a = c
      BY <2>3, <3>1, ReadbackSecures DEF FinalReadback, hostVars, Secure
    <3>2. CASE a # c
      <4>1. Secure(a, f)
        BY <1>1, <2>1, <2>2, <3>2 DEF Over, HasPass
      <4> QED
        BY <2>3, <3>2, <4>1, ReadbackParks
    <3> QED
      BY <3>1, <3>2
  <2>4. CASE ~(FinalReadback(c) /\ pc'[c] = "terminal")
    <3>1. \A b \in Attempts : Over(b)' => Over(b)
      <4>1. pc'[c] # "terminal"
        BY <1>1, <1>5, <2>4 DEF Step, Preflight, PrepareStore, PrepareFails, Begin, Check,
            Announce, Recheck, Act, WritePayload, Sync, After, Prove, ActFails, FinalReadback,
            Pass, PassFails, Fail, Kill, Goto, Gone
      <4>2. HasPass(c)' => HasPass(c) \/ pc[c] = "terminal"
        BY <1>1, <1>5 DEF Step, Preflight, PrepareStore, PrepareFails, Begin, Check,
            Announce, Recheck, Act, WritePayload, Sync, After, Prove, ActFails, FinalReadback,
            Pass, PassFails, Fail, Kill, HasPass, WriteFails, Write, runVars
      <4> QED
        BY <2>1, <4>1, <4>2 DEF Over, HasPass
    <3>2. Secure(a, f)
      BY <1>1, <2>2, <3>1
    <3>3. CASE UNCHANGED <<fs, disk>>
      BY <2>1, <3>1, <3>2, <3>3, SecureFrame
    <3>4. CASE Act(c) \/ WritePayload(c) \/ Sync(c)
      <4>1. /\ pc[c] \in {"do", "write", "sync"} /\ step[c] \in DOMAIN Program[Tool(c)]
            /\ At(File(c)) \in Names /\ Temp(c, File(c)) \in Names
        BY <3>4, NamesOfEffect DEF Act, WritePayload, Sync, Hosts
      <4>2. ~Over(c) /\ c # a
        BY <3>1, <4>1 DEF Over, Ordered, OrderOf
      <4>3. ledger[c] # {} /\ ~HasPass(c) /\ Owns(c) /\ pc[c] # "idle"
        BY <4>1 DEF Progress, ProgressOf, Announced, Ordered, OrderOf, Owns
      <4>4. /\ \A n \in Names : n # At(File(c)) /\ n # Temp(c, File(c)) => fs'[n] = fs[n]
            /\ \A n \in Names : n # At(File(c)) /\ n # Temp(c, File(c)) => disk'[n] = disk[n]
        BY <1>1, <3>4, <4>1, EffectOnNames DEF Act, WritePayload, Sync, Synced
      <4>5. CASE f # File(c)
        <5>1. /\ At(f) \in Names /\ At(f) # At(File(c)) /\ At(f) # Temp(c, File(c))
              /\ \A b \in Attempts : f \in Targets[Tool(b)] =>
                    /\ Temp(b, f) \in Names
                    /\ Temp(b, f) # At(File(c)) /\ Temp(b, f) # Temp(c, File(c))
          BY <1>1, <4>5, NamesDiffer DEF At, Temp, Names
        <5>2. /\ fs'[At(f)] = fs[At(f)] /\ disk'[At(f)] = disk[At(f)]
              /\ \A b \in Attempts : f \in Targets[Tool(b)] =>
                    fs'[Temp(b, f)] = fs[Temp(b, f)] /\ disk'[Temp(b, f)] = disk[Temp(b, f)]
          BY <4>4, <5>1
        <5> QED
          BY <2>1, <3>1, <3>2, <5>2 DEF Secure, MovedBy, Pair
      <4>6. CASE f = File(c)
        <5>1. f \in Targets[Tool(c)] /\ f # "ovn"
          BY <4>1, <4>6, TargetsAreEntries, ToolIsTool DEF File
        <5>2. Later(Tool(a), Tool(c))
          BY <3>1, <4>2, <4>3, <5>1, MoverIsLater
        <5>3. CASE Mine(a) \in Pair(fs, f, c) /\ Mine(a) \in Pair(disk, f, c)
          <6>1. Mine(a) \in Pair(fs', f, c)
            <7>1. CASE Act(c)
              <8>1. Mine(a).whole
                BY DEF Mine, Inode
              <8> QED
                BY <4>1, <4>6, <5>3, <7>1, <8>1, EffectOnPair DEF Act
            <7>2. CASE WritePayload(c)
              <8>1. fs[Temp(c, f)] # Mine(a)
                <9>1. fs[Temp(c, f)] = Inode(c, FALSE)
                  BY <4>6, <7>2 DEF WritePayload, Hosts
                <9>2. Mine(a).whole # Inode(c, FALSE).whole
                  BY DEF Mine, Inode
                <9> QED
                  BY <9>1, <9>2
              <8>2. fs'[At(f)] = fs[At(f)]
                BY <1>1, <4>6, <4>1, <7>2, NamesDiffer DEF WritePayload
              <8> QED
                BY <5>3, <8>1, <8>2 DEF Pair
            <7>3. CASE Sync(c)
              BY <5>3, <7>3 DEF Sync
            <7> QED
              BY <3>4, <7>1, <7>2, <7>3
          <6>2. Mine(a) \in Pair(disk', f, c)
            <7>1. CASE disk' = disk
              BY <5>3, <7>1
            <7>2. CASE Sync(c)
              <8>1. Pair(disk', f, c) = Pair(fs, f, c)
                BY <1>1, <4>1, <4>6, <7>2, NamesDiffer DEF Sync, Synced, Pair
              <8> QED
                BY <5>3, <8>1
            <7> QED
              BY <3>4, <7>1, <7>2 DEF Act, WritePayload
          <6>3. ledger'[c] # {} /\ ~Over(c)'
            BY <2>1, <3>1, <4>2, <4>3
          <6> QED
            BY <5>1, <5>2, <6>1, <6>2, <6>3 DEF Secure, MovedBy
        <5>4. ASSUME NEW b \in Attempts, MovedBy(a, f, b), b # c PROVE Secure(a, f)'
          <6>1. Owns(b) /\ pc[b] # "idle" /\ f \in Targets[Tool(b)]
            BY <5>4 DEF MovedBy, Owns, Ordered, OrderOf
          <6>2. Tool(b) # Tool(c)
            BY <4>3, <5>4, <6>1 DEF Owners
          <6>3. Later(Tool(b), Tool(c)) \/ Later(Tool(c), Tool(b))
            BY <5>2, <5>4, <6>2 DEF MovedBy, Later, Updaters
          <6>4. HasPass(b)
            BY <4>3, <6>1, <6>3, EarlierIsOver
          <6>5. fs[Temp(b, f)] = Mine(a) /\ disk[Temp(b, f)] = Mine(a)
            BY <5>4, <6>4 DEF MovedBy, Over
          <6>6. fs'[Temp(b, f)] = Mine(a) /\ disk'[Temp(b, f)] = Mine(a)
            <7>1. /\ Temp(b, f) \in Names
                  /\ Temp(b, f) # At(File(c)) /\ Temp(b, f) # Temp(c, File(c))
              BY <1>1, <5>4, <6>1, NamesDiffer DEF Names
            <7> QED
              BY <4>4, <6>5, <7>1
          <6>7. ledger'[b] # {}
            BY <2>1, <5>4 DEF MovedBy
          <6> QED
            BY <5>4, <6>6, <6>7 DEF Secure, MovedBy, Pair
        <5>5. CASE fs[At(f)] = Mine(a) /\ disk[At(f)] = Mine(a)
          BY <5>3, <5>5 DEF Pair
        <5>6. CASE MovedBy(a, f, c)
          BY <5>3, <5>6 DEF MovedBy
        <5> QED
          BY <3>2, <5>4, <5>5, <5>6 DEF Secure
      <4> QED
        BY <4>5, <4>6
    <3> QED
      BY <1>5, <3>3, <3>4 DEF Step, Preflight, PrepareStore, PrepareFails, Begin, Check, Announce,
          Recheck, After, Prove, ActFails, FinalReadback, Pass, PassFails, Fail, Kill, hostVars
  <2> QED
    BY <2>3, <2>4
<1> QED
  BY <1>2, <1>3, <1>4, <1>5 DEF Next, vars, hostVars, runVars, SessionLocks, SessionMarks, SessionEnds

(* Once written, a PASS has the records of every step with it.             *)
AllRecorded(a) ==
    \A i \in DOMAIN Program[Tool(a)] :
        \/ Program[Tool(a)][i][1] = "mkdir"
        \/ {<<"intent", i, "INTENT">>, <<"result", i, "PROVED">>} \subseteq ledger[a]
Complete == \A a \in Attempts : HasPass(a) => AllRecorded(a)

LEMMA CompleteStep == Owners /\ Hosts /\ Progress /\ Complete /\ [Next]_vars => Complete'
<1> SUFFICES ASSUME Owners, Hosts, Progress, Complete, [Next]_vars,
                    NEW a \in Attempts, HasPass(a)'
             PROVE  AllRecorded(a)'
  BY DEF Complete
<1>1. pc \in [Attempts -> Stages] /\ ledger \in [Attempts -> SUBSET Records]
  BY DEF Owners, RunTypes
<1>2. CASE UNCHANGED ledger
  BY <1>2 DEF Complete, HasPass, AllRecorded
<1>3. ASSUME NEW c \in Attempts, Step(c) PROVE AllRecorded(a)'
  <2>1. /\ \A b \in Attempts : b # c => ledger'[b] = ledger[b]
        /\ \A b \in Attempts : ledger[b] \subseteq ledger'[b]
    BY <1>3, StepIsOwn
  <2>2. CASE HasPass(a)
    BY <2>1, <2>2 DEF Complete, AllRecorded
  <2>3. CASE ~HasPass(a)
    <3>1. a = c /\ pc[a] = "terminal"
      BY <1>1, <1>3, <2>1, <2>3 DEF Step, Preflight, PrepareStore, PrepareFails, Begin, Check,
          Announce, Recheck, Act, WritePayload, Sync, After, Prove, ActFails, FinalReadback,
          Pass, PassFails, Fail, Kill, HasPass, WriteFails, Write, runVars
    <3>2. PICK n \in Nat : DOMAIN Program[Tool(a)] = 1 .. n
      BY ToolIsTool, ProgramFacts
    <3>3. step[a] \in Nat /\ step[a] >= 1 /\ step[a] \notin 1 .. n
      BY <3>1, <3>2 DEF AllDone, Progress, ProgressOf, Owners, RunTypes
    <3>4. \A i \in 1 .. n : i < step[a]
      BY <3>2, <3>3
    <3>5. AllRecorded(a)
      BY <3>1, <3>2, <3>4 DEF Progress, ProgressOf, Working, Behind, AllRecorded
    <3> QED
      BY <2>1, <3>5 DEF AllRecorded
  <2> QED
    BY <2>2, <2>3
<1> QED
  BY <1>2, <1>3 DEF Next, vars, runVars, PowerCut, Outsider, SessionLocks, SessionMarks, SessionEnds

HostIInv ==
    Owners /\ Hosts /\ Progress /\ Ordered /\ Complete /\ Locking /\ Unsynced /\ Secured

LEMMA HostIInvInit == Init => HostIInv
<1> SUFFICES ASSUME Init PROVE HostIInv
  OBVIOUS
<1>1. /\ \A a \in Attempts : pc[a] = "idle" /\ step[a] = 1 /\ ledger[a] = {}
      /\ done \in [Attempts -> SUBSET (Kinds \X Entries)] /\ disk = fs /\ late = {}
  BY DEF Init
<1>2. \A a \in Attempts : ~HasPass(a)
  BY <1>1 DEF HasPass
<1>3. Progress
  BY <1>1 DEF Progress, ProgressOf, Working, Announced
<1>4. Ordered /\ Complete
  BY <1>1, <1>2 DEF Ordered, OrderOf, Complete
<1>5. Locking
  BY <1>1 DEF Locking, Resting
<1>6. Unsynced
  BY <1>1 DEF Unsynced
<1>7. Secured
  BY <1>1, <1>2 DEF Secured, Over
<1> QED
  BY <1>3, <1>4, <1>5, <1>6, <1>7, OwnersInit, HostsInit DEF HostIInv

LEMMA HostIInvStep == HostIInv /\ [Next]_vars => HostIInv'
  BY OwnersStep, HostsStep, ProgressStep, OrderedStep, CompleteStep, LockingStep, UnsyncedStep,
     SecuredStep DEF HostIInv

(* A PASS that any tool has written stays true whatever is killed, cut or  *)
(* started afterwards: its steps are all announced and proved, and its     *)
(* files are in place or parked by a later tool -- the original that       *)
(* "selftest" displaced stays parked while "sources" displaces its file.   *)
THEOREM PassStaysWhole == Spec => []PassIsWhole
<1>1. HostIInv => PassIsWhole
  <2> SUFFICES ASSUME HostIInv, NEW a \in Attempts, HasPass(a)
               PROVE  /\ AllRecorded(a)
                      /\ a \in late \/ \A f \in Targets[Tool(a)] \ {"ovn"} : Kept(a, f)
    BY DEF PassIsWhole, HasPass, AllRecorded
  <2>1. AllRecorded(a)
    BY DEF HostIInv, Complete
  <2>2. ASSUME a \notin late, NEW f \in Targets[Tool(a)] \ {"ovn"} PROVE Kept(a, f)
    <3>1. Secure(a, f)
      BY <2>2 DEF HostIInv, Secured, Over
    <3>2. At(f) \in Names /\ At(f)[1] = Nobody /\ At(f)[2] = f
      <4>1. f \in Entries
        BY ProgramFacts, FileNames, ToolIsTool DEF Tools, Entries
      <4> QED
        BY <4>1 DEF Names, At
    <3>3. CASE fs[At(f)] = Mine(a)
      BY <3>2, <3>3 DEF Kept
    <3>4. ASSUME NEW b \in Attempts, MovedBy(a, f, b) PROVE Kept(a, f)
      <4>1. Temp(b, f) \in Names /\ Temp(b, f)[1] = b /\ Temp(b, f)[2] = f /\ b # a
        BY <3>4 DEF MovedBy, Names, Temp, Later, Updaters
      <4> QED
        BY <3>3, <3>4, <4>1 DEF MovedBy, Pair, Kept
    <3> QED
      BY <3>1, <3>3, <3>4 DEF Secure
  <2> QED
    BY <2>1, <2>2
<1> QED
  BY <1>1, HostIInvInit, HostIInvStep, PTL DEF Spec

(* The lock the updater holds from its preflight to its end keeps a DCI    *)
(* session from seeing some exchanged files old and others new, the one    *)
(* that "selftest" has already exchanged included.                         *)
THEOREM SessionsSeeWholeUpdates == Spec => []MixedOnlyAfterUnknown
<1>1. HostIInv => MixedOnlyAfterUnknown
  <2> SUFFICES ASSUME HostIInv, lock = Session, Passed("selftest"), ~outside,
                      \A a \in Attempts : Tool(a) = "sources" => pc[a] # "ended"
               PROVE  \/ \A f \in Range(TargetOrder) : MadeBy(Baseline("sources", f), At(f))
                      \/ \A f \in Range(TargetOrder) : MadeBy("sources", At(f))
    BY DEF MixedOnlyAfterUnknown
  <2>1. \A f \in Range(TargetOrder) :
            /\ f \in Targets["stage"] \ {"ovn"} /\ f \in Targets["sources"] \ {"ovn"}
            /\ f \in Entries \ {"evidence"}
    BY ProgramFacts, FileNames
  <2>2. \A a \in Attempts : a # Session
    BY AttemptsAssumption DEF Session, Tools
  <2>3. ASSUME NEW b \in Attempts, Tool(b) = "sources", ledger[b] # {} PROVE HasPass(b)
    <3>1. pc[b] \in Resting
      BY <2>2, <2>3 DEF HostIInv, Locking
    <3>2. pc[b] # "idle"
      BY <2>3 DEF HostIInv, Ordered, OrderOf
    <3> QED
      BY <2>3, <3>1, <3>2 DEF HostIInv, Ordered, OrderOf, Resting
  <2>4. \A a \in Attempts : HasPass(a) => Mine(a).whole /\ Mine(a).by[1] = Tool(a) /\ ledger[a] # {}
    BY DEF Mine, Inode, Tool, HasPass
  <2>5. ASSUME NEW a \in Attempts, HasPass(a), NEW f \in Targets[Tool(a)] \ {"ovn"},
               \A b \in Attempts : f \in Targets[Tool(b)] /\ ledger[b] # {} => ~Later(Tool(a), Tool(b))
        PROVE  MadeBy(Tool(a), At(f))
    <3>1. Secure(a, f)
      BY <2>5 DEF HostIInv, Secured, Locking, Over
    <3>2. fs[At(f)] = Mine(a)
      BY <2>5, <3>1 DEF Secure, MovedBy
    <3> QED
      BY <2>4, <2>5, <3>2 DEF MadeBy
  <2>6. CASE \E b \in Attempts : Tool(b) = "sources" /\ ledger[b] # {}
    <3>1. PICK b \in Attempts : Tool(b) = "sources" /\ HasPass(b)
      BY <2>3, <2>6
    <3>2. \A t : ~Later(Tool(b), t)
      BY <3>1 DEF Later
    <3> QED
      BY <2>1, <2>5, <3>1, <3>2
  <2>7. CASE \A b \in Attempts : Tool(b) = "sources" => ledger[b] = {}
    <3>1. PICK s \in Attempts : Tool(s) = "selftest" /\ HasPass(s)
      BY DEF Passed, HasPass
    <3>2. pc[s] # "idle"
      BY <2>4, <3>1 DEF HostIInv, Ordered, OrderOf
    <3>3. PICK a \in Attempts : Tool(a) = "stage" /\ HasPass(a)
      BY <3>1, <3>2 DEF HostIInv, Ordered, OrderOf, Updaters, Passed, HasPass
    <3>4. ASSUME NEW f \in Range(TargetOrder) PROVE MadeBy(Baseline("sources", f), At(f))
      <4>1. CASE f = "selftest"
        <5>1. Baseline("sources", f) = "selftest" /\ f \in Targets[Tool(s)] \ {"ovn"}
          BY <3>1, <4>1, ProgramFacts DEF Baseline
        <5>2. \A b \in Attempts : ledger[b] # {} => ~Later(Tool(s), Tool(b))
          BY <2>7, <3>1 DEF Later
        <5> QED
          BY <2>5, <3>1, <5>1, <5>2
      <4>2. CASE f # "selftest"
        <5>1. Baseline("sources", f) = "stage" /\ f \in Targets[Tool(a)] \ {"ovn"}
          BY <2>1, <3>3, <4>2 DEF Baseline
        <5>2. \A b \in Attempts : f \in Targets[Tool(b)] /\ ledger[b] # {} => ~Later(Tool(a), Tool(b))
          BY <2>7, <3>3, <4>2, ProgramFacts DEF Later, Updaters
        <5> QED
          BY <2>5, <3>3, <5>1, <5>2
      <4> QED
        BY <4>1, <4>2
    <3> QED
      BY <3>4
  <2> QED
    BY <2>6, <2>7
<1> QED
  BY <1>1, HostIInvInit, HostIInvStep, PTL DEF Spec
=============================================================================

--------------------------- MODULE NBRecoveryProofs ---------------------------
(***************************************************************************)
(* Proofs about the forward recovery, for any number of attempts and any   *)
(* behaviour of the adapter, the database and the operator.  The inductive *)
(* invariant has six parts, the last two and NBLive's own invariant only   *)
(* while recover() never runs beside the adapter (Concurrent = FALSE):     *)
(*   Types     the shape of the state;                                     *)
(*   Journal   what the adapter may still write into the journal;          *)
(*   Numbers   attempt numbers grow, and the copies have a largest one;    *)
(*   Backed    what a published outcome rests on;                          *)
(*   Alone     recover() has the journal to itself;                        *)
(*   Truth     what the snapshots, the proof and the attempts say of the   *)
(*             forward client is so.                                       *)
(***************************************************************************)
EXTENDS NBRecovery, NBLiveProofs, SequenceTheorems, TLAPS

AttemptStates == RecoveryStates \cup {"NB_FORWARD_RECOVERY_RECONCILED"}
Ages == {"before", "during", "settled"}
Proofs == [outcome : {"NONE", "BUILT", "CLEAN"}, uuids : Nat, age : Ages]
Attempt == [number : Nat, state : AttemptStates, proof : Proofs]
Documents == [state : STATES, arts : Nat, attempts : Seq(Attempt)]
Snapshots == [first : Nat, last : Nat, ports : PortSets, age : Ages]
Appending == {"reconcile-tmp", "intent-tmp", "publish-tmp", "blocked-tmp"}
Places == {"idle", "validate", "copy", "before", "after"} \cup AppendPoints \cup Appending

Types ==
    /\ rows \in Nat /\ insertions \in Nat /\ aPorts \in PortSets
    /\ jstate \in STATES \cup {"NONE"} /\ jarts \in Nat /\ next \in Nat
    /\ attempts \in Seq(Attempt) /\ doc \in Documents
    /\ copies \subseteq Nat \X Kinds
    /\ source \in Snapshots /\ revalidation \in Snapshots
    /\ rpc \in Places /\ proof \in Proofs

Journal ==
    /\ pc # "idle" => jstate # "NONE"
    /\ pc # "idle" /\ trusted => jarts = next /\ jstate \notin RecoveryStates
    /\ jstate = "NONE" => jarts = 0

Increasing(s) == \A i, j \in 1 .. Len(s) : i < j => s[i].number < s[j].number
HasLargest(S) == S = {} \/ \E m \in S : \A n \in S : n <= m
Copied == {c[1] : c \in copies}

Numbers == Increasing(attempts) /\ Increasing(doc.attempts) /\ HasLargest(Copied)

(* The three files of an attempt exist. *)
Complete(attempt) == \A k \in Kinds : <<attempt.number, k>> \in copies

Backed ==
    /\ jstate \in RecoveryStates => attempts # <<>>
    /\ rpc \notin {"idle", "intent"} => doc.attempts # <<>>
    /\ rpc \in {"before", "publish", "publish-tmp", "after"} => Complete(LastAttempt)
    /\ rpc \in {"copy", "before", "publish"} => proof.outcome # "NONE"
    /\ rpc = "publish-tmp" => doc.state \in RECOVERED_STATES /\ LastAttempt.state = doc.state
    /\ rpc \in {"reconcile-tmp", "intent-tmp"} => doc.state = "NB_FORWARD_RECOVERY_INTENT"
    /\ rpc = "blocked-tmp" => doc.state = "NB_FORWARD_RECOVERY_BLOCKED"
    /\ jstate \in RECOVERED_STATES =>
         /\ attempts[Len(attempts)].state = jstate
         /\ Complete(attempts[Len(attempts)])
         /\ rpc \in {"idle", "after", "blocked", "blocked-tmp"}
         /\ rpc # "idle" => Len(doc.attempts) = Len(attempts)

Alone ==
    rpc # "idle" =>
        /\ pc = "idle" /\ jstate \in RECOVERABLE_STATES \cup RECOVERED_STATES
        /\ doc.arts = jarts

-----------------------------------------------------------------------------
(* The adapter. *)
LEMMA AdapterMoves ==
    ASSUME Types, Journal, Next
    PROVE  /\ rows' \in Nat /\ insertions' \in Nat /\ aPorts' \in PortSets
           /\ jstate' \in STATES \cup {"NONE"} /\ jarts' \in Nat /\ next' \in Nat
           /\ jarts' >= jarts
           /\ jstate' = jstate \/ (jstate \notin RecoveryStates /\ jstate' \notin RecoveryStates)
           /\ Journal'
           /\ pc = "idle" /\ jstate \notin {"NONE", "NB_FORWARD_VERIFIED"}
                => UNCHANGED <<pc, jstate, jarts>>
<1> USE DEF nbVars, adapterVars, durable
<1>1. CASE NorthboundNext /\ UNCHANGED adapterVars
  <2>1. rows' \in Nat /\ insertions' \in Nat /\ aPorts' \in PortSets
    BY <1>1 DEF NorthboundNext, ServerStep, CommitForward, CommitInverse, Refuse, LoseClient,
       ForeignWrite, Types
  <2> QED
    BY <1>1, <2>1 DEF Types, Journal
<1>2. CASE StartForward \/ StartInverse
  BY <1>2 DEF StartForward, StartInverse, LoadForInverse, FORWARD_STAGES, Types, Journal, STATES,
     RecoveryStates
<1>3. CASE Continue \/ Crash
  <2> USE DEF INTENT, COMMITTED, AMBIGUOUS, VERIFIED
  <2>1. rows' \in Nat /\ insertions' \in Nat /\ aPorts' \in PortSets
    BY <1>3 DEF Continue, Crash, ReadFirstTables, ReadLastTables, RunLocalHelper, HelperFails,
       WriteArtifact, WriteArtifactFails, AppendArtifact, AppendArtifactFails,
       PublishArtifact, PublishFails, Prepare, PublishIntent, StateAppendFails,
       Dispatch, DispatchRefused, Reply, GiveUp,
       RecordOutcome, PublishOutcome, RecordVerified, PublishVerified,
       RetainWrite, RetainWriteFails, RetainAppend, RetainOutcome, Qualify, Types
  <2>2. pc # "idle"
    BY <1>3 DEF Continue, Crash, ReadFirstTables, ReadLastTables, RunLocalHelper, HelperFails,
       WriteArtifact, WriteArtifactFails, AppendArtifact, AppendArtifactFails,
       PublishArtifact, PublishFails, Prepare, PublishIntent, StateAppendFails,
       Dispatch, DispatchRefused, Reply, GiveUp,
       RecordOutcome, PublishOutcome, RecordVerified, PublishVerified,
       RetainWrite, RetainWriteFails, RetainAppend, RetainOutcome, Qualify
  <2>3. CASE AppendArtifact \/ RetainAppend
    BY <2>1, <2>2, <2>3 DEF AppendArtifact, RetainAppend, Types, Journal
  <2>4. CASE AppendArtifactFails
    BY <2>1, <2>2, <2>4 DEF AppendArtifactFails, Types, Journal
  <2>5. CASE Prepare \/ RecordOutcome \/ RecordVerified
    BY <2>1, <2>2, <2>5 DEF Prepare, RecordOutcome, RecordVerified, JournalState, Types, Journal,
       STATES, ForwardStates, InverseStates, RecoveryStates
  <2>6. CASE StateAppendFails \/ RetainOutcome \/ Qualify
    <3>1. /\ UNCHANGED <<jarts, next>> /\ (trusted' => trusted)
          /\ jstate' # jstate => trusted /\ jstate' \in ForwardStates \cup InverseStates
      <4>1. CASE StateAppendFails
        BY <4>1 DEF StateAppendFails, AppendFails, ForwardStates, InverseStates
      <4>2. CASE RetainOutcome
        <5>1. AMBIGUOUS(phase) \in ForwardStates \cup InverseStates
          BY DEF ForwardStates, InverseStates
        <5> QED
          BY <4>2, <5>1 DEF RetainOutcome, AppendFails
      <4>3. CASE Qualify
        <5>1. AMBIGUOUS(phase) \in ForwardStates \cup InverseStates
          BY DEF ForwardStates, InverseStates
        <5> QED
          BY <4>3, <5>1 DEF Qualify
      <4> QED
        BY <2>6, <4>1, <4>2, <4>3
    <3> QED
      BY <2>1, <2>2, <3>1 DEF Types, Journal, STATES, ForwardStates, InverseStates, RecoveryStates
  <2>7. CASE UNCHANGED <<jstate, jarts, next, trusted>>
    BY <2>1, <2>2, <2>7 DEF Types, Journal
  <2>8. \/ AppendArtifact \/ RetainAppend \/ AppendArtifactFails \/ Prepare \/ RecordOutcome
        \/ RecordVerified \/ StateAppendFails \/ RetainOutcome \/ Qualify
        \/ UNCHANGED <<jstate, jarts, next, trusted>>
    BY <1>3 DEF Continue, Crash, ReadFirstTables, ReadLastTables, RunLocalHelper, HelperFails,
       WriteArtifact, WriteArtifactFails, PublishArtifact, PublishFails, PublishIntent, Dispatch,
       DispatchRefused, Reply, GiveUp, PublishOutcome, PublishVerified, RetainWrite,
       RetainWriteFails
  <2> QED
    BY <2>3, <2>4, <2>5, <2>6, <2>7, <2>8
<1> QED
  BY <1>1, <1>2, <1>3 DEF Next, AdapterNext

-----------------------------------------------------------------------------
(* The documents of the recovery. *)
LEMMA LargestOfUnion ==
    ASSUME NEW S \in SUBSET Nat, NEW T \in SUBSET Nat, HasLargest(S), HasLargest(T)
    PROVE  HasLargest(S \cup T)
<1>1. CASE S = {} \/ T = {}
  BY <1>1 DEF HasLargest
<1>2. CASE S # {} /\ T # {}
  <2>1. PICK m \in S : \A n \in S : n <= m
    BY <1>2 DEF HasLargest
  <2>2. PICK k \in T : \A n \in T : n <= k
    BY <1>2 DEF HasLargest
  <2>3. CASE k <= m
    <3>1. \A n \in S \cup T : n <= m
      BY <2>1, <2>2, <2>3
    <3> QED
      BY <3>1 DEF HasLargest
  <2>4. CASE m <= k
    <3>1. \A n \in S \cup T : n <= k
      BY <2>1, <2>2, <2>4
    <3> QED
      BY <3>1 DEF HasLargest
  <2> QED
    BY <2>3, <2>4
<1> QED
  BY <1>1, <1>2

NumbersOf(s) == {s[i].number : i \in 1 .. Len(s)}

LEMMA LargestNumber ==
    ASSUME NEW s \in Seq(Attempt), Increasing(s)
    PROVE  NumbersOf(s) \subseteq Nat /\ HasLargest(NumbersOf(s))
<1>1. Len(s) \in Nat /\ \A i \in 1 .. Len(s) : s[i].number \in Nat
  <2>1. \A i \in 1 .. Len(s) : s[i] \in Attempt
    BY ElementOfSeq
  <2> QED
    BY <2>1, LenProperties DEF Attempt
<1>2. CASE Len(s) = 0
  BY <1>1, <1>2 DEF NumbersOf, HasLargest
<1>3. CASE Len(s) # 0
  <2>1. Len(s) \in 1 .. Len(s)
    BY <1>1, <1>3
  <2>2. \A i \in 1 .. Len(s) : s[i].number <= s[Len(s)].number
    BY <1>1, <2>1 DEF Increasing
  <2> QED
    BY <1>1, <2>1, <2>2 DEF NumbersOf, HasLargest
<1> QED
  BY <1>1, <1>2, <1>3

(* A new attempt gets a number no event and no file has. *)
LEMMA NewNumber ==
    ASSUME Types, Numbers
    PROVE  /\ AttemptNumber \in Nat
           /\ \A i \in 1 .. Len(doc.attempts) : doc.attempts[i].number < AttemptNumber
<1> DEFINE seen == Copied \cup NumbersOf(doc.attempts)
<1>1. doc.attempts \in Seq(Attempt)
  BY DEF Types, Documents
<1>2. seen \subseteq Nat /\ HasLargest(seen)
  <2>1. Copied \subseteq Nat
    BY DEF Types, Copied
  <2> QED
    BY <1>1, <2>1, LargestNumber, LargestOfUnion DEF Numbers
<1>3. AttemptNumber
        = 1 + (IF seen = {} THEN 0 ELSE CHOOSE m \in seen : \A n \in seen : n <= m)
  BY DEF AttemptNumber, Copied, NumbersOf
<1>4. AttemptNumber \in Nat /\ \A n \in seen : n < AttemptNumber
  <2>1. CASE seen = {}
    BY <1>3, <2>1
  <2>2. CASE seen # {}
    <3> DEFINE largest == CHOOSE m \in seen : \A n \in seen : n <= m
    <3>1. largest \in seen /\ \A n \in seen : n <= largest
      <4>1. \E m \in seen : \A n \in seen : n <= m
        BY <1>2, <2>2 DEF HasLargest
      <4> QED
        BY <4>1
    <3>2. AttemptNumber = 1 + largest
      BY <1>3, <2>2
    <3> HIDE DEF largest, seen
    <3>3. largest \in Nat /\ \A n \in seen : n \in Nat
      BY <3>1, <1>2
    <3> QED
      BY <3>1, <3>2, <3>3
  <2> QED
    BY <2>1, <2>2
<1> QED
  BY <1>4 DEF NumbersOf

(* Rewriting the last attempt keeps all numbers. *)
LEMMA SetLastFacts ==
    ASSUME NEW d \in Documents, d.attempts # <<>>, NEW s \in AttemptStates, NEW p \in Proofs
    PROVE  /\ SetLast(d, s, p) \in Documents
           /\ SetLast(d, s, p).state = d.state /\ SetLast(d, s, p).arts = d.arts
           /\ Len(SetLast(d, s, p).attempts) = Len(d.attempts)
           /\ \A i \in 1 .. Len(d.attempts) :
                SetLast(d, s, p).attempts[i].number = d.attempts[i].number
           /\ \A i \in 1 .. Len(d.attempts) - 1 :
                SetLast(d, s, p).attempts[i] = d.attempts[i]
           /\ SetLast(d, s, p).attempts[Len(d.attempts)].state = s
           /\ SetLast(d, s, p).attempts[Len(d.attempts)].proof = p
<1> DEFINE n == Len(d.attempts)
           last == [[d.attempts[n] EXCEPT !.state = s] EXCEPT !.proof = p]
           new == [d.attempts EXCEPT ![n] = last]
<1>1. d.attempts \in Seq(Attempt) /\ n \in Nat /\ n \in 1 .. n
  BY EmptySeq DEF Documents
<1>2. /\ last \in Attempt /\ last.number = d.attempts[n].number /\ last.state = s
      /\ last.proof = p
  <2>1. d.attempts[n] \in Attempt
    BY <1>1, ElementOfSeq
  <2> QED
    BY <2>1 DEF Attempt
<1> HIDE DEF last
<1>3. new \in Seq(Attempt) /\ Len(new) = n
  BY <1>1, <1>2, ExceptSeq
<1>5. /\ new[n] = last
      /\ \A i \in 1 .. n : new[i].number = d.attempts[i].number
      /\ \A i \in 1 .. n - 1 : new[i] = d.attempts[i]
  BY <1>1, <1>2, ExceptSeq
<1>4. SetLast(d, s, p) = [d EXCEPT !.attempts = new]
  <2>1. DOMAIN d.attempts = 1 .. n
    BY <1>1, LenProperties
  <2>2. SetLast(d, s, p).attempts
          = [[d.attempts EXCEPT ![n] = [d.attempts[n] EXCEPT !.state = s]]
               EXCEPT ![n] = [[d.attempts EXCEPT ![n] = [d.attempts[n] EXCEPT !.state = s]][n]
                                EXCEPT !.proof = p]]
    BY DEF SetLast, Documents
  <2> QED
    BY <1>1, <2>1, <2>2 DEF SetLast, Documents, last
<1> HIDE DEF new, last
<1> QED
  BY <1>1, <1>2, <1>3, <1>4, <1>5 DEF Documents

(* The document of every append. *)
LEMMA NewDocumentFacts ==
    ASSUME Types, Numbers, Backed, rpc \in AppendPoints
    PROVE  /\ NewDocument \in Documents /\ NewDocument.arts = doc.arts
           /\ NewDocument.attempts # <<>> /\ Increasing(NewDocument.attempts)
           /\ rpc # "intent" =>
                /\ Len(NewDocument.attempts) = Len(doc.attempts)
                /\ NewDocument.attempts[Len(NewDocument.attempts)].number = LastAttempt.number
           /\ rpc \in {"reconcile", "intent"} => NewDocument.state = "NB_FORWARD_RECOVERY_INTENT"
           /\ rpc = "publish" =>
                /\ NewDocument.state \in RECOVERED_STATES
                /\ NewDocument.attempts[Len(NewDocument.attempts)].state = NewDocument.state
           /\ rpc = "blocked" => NewDocument.state = "NB_FORWARD_RECOVERY_BLOCKED"
<1>1. /\ doc \in Documents /\ doc.attempts \in Seq(Attempt) /\ Increasing(doc.attempts)
      /\ Len(doc.attempts) \in Nat
  BY LenProperties DEF Types, Documents, Numbers
<1>2. NoProof \in Proofs /\ proof \in Proofs
  BY DEF NoProof, Proofs, Ages, Types
<1>3. ASSUME rpc # "intent", NEW s \in AttemptStates, NEW p \in Proofs, NEW t \in STATES
      PROVE  LET d == [SetLast(doc, s, p) EXCEPT !.state = t]
             IN  /\ d \in Documents /\ d.arts = doc.arts /\ d.state = t
                 /\ d.attempts # <<>> /\ Increasing(d.attempts)
                 /\ Len(d.attempts) = Len(doc.attempts)
                 /\ d.attempts[Len(d.attempts)].number = LastAttempt.number
                 /\ d.attempts[Len(d.attempts)].state = s
  <2> DEFINE e == SetLast(doc, s, p)
  <2>1. doc.attempts # <<>>
    BY <1>3 DEF Backed, AppendPoints
  <2>2. /\ e \in Documents /\ e.arts = doc.arts /\ Len(e.attempts) = Len(doc.attempts)
        /\ \A i \in 1 .. Len(doc.attempts) : e.attempts[i].number = doc.attempts[i].number
        /\ e.attempts[Len(doc.attempts)].state = s
    BY <1>1, <1>3, <2>1, SetLastFacts
  <2> HIDE DEF e
  <2>3. /\ [e EXCEPT !.state = t] \in Documents /\ [e EXCEPT !.state = t].arts = e.arts
        /\ [e EXCEPT !.state = t].state = t /\ [e EXCEPT !.state = t].attempts = e.attempts
    BY <1>3, <2>2 DEF Documents
  <2>4. Len(doc.attempts) \in 1 .. Len(doc.attempts) /\ e.attempts # <<>>
    BY <1>1, <2>1, <2>2, EmptySeq
  <2>5. Increasing(e.attempts)
    BY <1>1, <2>2 DEF Increasing
  <2>6. e.attempts[Len(e.attempts)].number = LastAttempt.number
    BY <2>2, <2>4 DEF LastAttempt
  <2>7. LET d == [e EXCEPT !.state = t]
        IN  /\ d \in Documents /\ d.arts = doc.arts /\ d.state = t
            /\ d.attempts # <<>> /\ Increasing(d.attempts)
            /\ Len(d.attempts) = Len(doc.attempts)
            /\ d.attempts[Len(d.attempts)].number = LastAttempt.number
            /\ d.attempts[Len(d.attempts)].state = s
    BY <2>2, <2>3, <2>4, <2>5, <2>6
  <2> QED
    BY <2>7 DEF e
<1>4. CASE rpc = "reconcile"
  <2>1. NewDocument = [SetLast(doc, "NB_FORWARD_RECOVERY_RECONCILED", NoProof)
                         EXCEPT !.state = "NB_FORWARD_RECOVERY_INTENT"]
    BY <1>4 DEF NewDocument
  <2>2. "NB_FORWARD_RECOVERY_RECONCILED" \in AttemptStates /\ "NB_FORWARD_RECOVERY_INTENT" \in STATES
    BY DEF AttemptStates, STATES, RecoveryStates
  <2> QED
    BY <1>2, <1>3, <1>4, <2>1, <2>2
<1>5. CASE rpc = "intent"
  <2> DEFINE fresh == [number |-> AttemptNumber, state |-> "NB_FORWARD_RECOVERY_INTENT",
                       proof |-> NoProof]
             longer == Append(doc.attempts, fresh)
  <2>1. /\ AttemptNumber \in Nat
        /\ \A i \in 1 .. Len(doc.attempts) : doc.attempts[i].number < AttemptNumber
    BY NewNumber
  <2>2. fresh \in Attempt /\ fresh.number = AttemptNumber
    BY <1>2, <2>1 DEF Attempt, AttemptStates, RecoveryStates
  <2>3. NewDocument = [doc EXCEPT !.state = "NB_FORWARD_RECOVERY_INTENT", !.attempts = longer]
    BY <1>5 DEF NewDocument
  <2> HIDE DEF fresh
  <2>4. /\ longer \in Seq(Attempt) /\ longer # <<>> /\ Len(longer) = Len(doc.attempts) + 1
        /\ \A i \in 1 .. Len(doc.attempts) : longer[i] = doc.attempts[i]
        /\ longer[Len(doc.attempts) + 1] = fresh
    BY <1>1, <2>2, AppendProperties
  <2> HIDE DEF longer
  <2>5. Increasing(longer)
    <3> SUFFICES ASSUME NEW i \in 1 .. Len(longer), NEW j \in 1 .. Len(longer), i < j
                 PROVE  longer[i].number < longer[j].number
      BY DEF Increasing
    <3>1. i \in 1 .. Len(doc.attempts)
      BY <1>1, <2>4
    <3>2. CASE j \in 1 .. Len(doc.attempts)
      BY <1>1, <2>4, <3>1, <3>2 DEF Increasing
    <3>3. CASE j = Len(doc.attempts) + 1
      BY <2>1, <2>2, <2>4, <3>1, <3>3
    <3> QED
      BY <1>1, <2>4, <3>2, <3>3
  <2>6. NewDocument \in Documents /\ NewDocument.attempts = longer /\ NewDocument.arts = doc.arts
        /\ NewDocument.state = "NB_FORWARD_RECOVERY_INTENT"
    BY <1>1, <2>3, <2>4 DEF Documents, STATES, RecoveryStates
  <2> QED
    BY <1>5, <2>4, <2>5, <2>6
<1>6. CASE rpc = "publish"
  <2> DEFINE s == IF proof.outcome = "BUILT" THEN "NB_FORWARD_RECOVERED_VERIFIED"
                                             ELSE "NB_FORWARD_RECOVERED_CLEAN"
  <2>1. NewDocument = [SetLast(doc, s, proof) EXCEPT !.state = s]
    BY <1>6 DEF NewDocument
  <2>2. s \in AttemptStates /\ s \in STATES /\ s \in RECOVERED_STATES
    BY DEF AttemptStates, STATES, RecoveryStates, RECOVERED_STATES
  <2> HIDE DEF s
  <2> QED
    BY <1>2, <1>3, <1>6, <2>1, <2>2
<1>7. CASE rpc = "blocked"
  <2>1. NewDocument = [SetLast(doc, "NB_FORWARD_RECOVERY_BLOCKED", LastAttempt.proof)
                         EXCEPT !.state = "NB_FORWARD_RECOVERY_BLOCKED"]
    BY <1>7 DEF NewDocument
  <2>2. LastAttempt.proof \in Proofs
    <3>1. doc.attempts # <<>>
      BY <1>7 DEF Backed
    <3>2. Len(doc.attempts) \in 1 .. Len(doc.attempts)
      BY <1>1, <3>1, EmptySeq
    <3>3. LastAttempt \in Attempt
      BY <1>1, <3>2, ElementOfSeq DEF LastAttempt
    <3> QED
      BY <3>3 DEF Attempt
  <2>3. "NB_FORWARD_RECOVERY_BLOCKED" \in AttemptStates /\ "NB_FORWARD_RECOVERY_BLOCKED" \in STATES
    BY DEF AttemptStates, STATES, RecoveryStates
  <2> QED
    BY <1>3, <1>7, <2>1, <2>2, <2>3
<1> QED
  BY <1>4, <1>5, <1>6, <1>7 DEF AppendPoints

-----------------------------------------------------------------------------
(* The invariant, step by step. *)
Inv == Types /\ Journal /\ Numbers /\ Backed

LEMMA Initially == RecInit => Inv /\ Alone
<1> SUFFICES ASSUME RecInit PROVE Inv /\ Alone
  OBVIOUS
<1> USE DEF RecInit, Init, RecoveryInit
<1>1. Types
  <2>1. aPorts \in PortSets /\ rows = 0 /\ insertions = 0
    BY DEF NorthboundInit
  <2>2. <<>> \in Seq(Attempt)
    BY EmptySeq
  <2> QED
    BY <2>1, <2>2 DEF Types, Snapshots, Documents, STATES, Places, Proofs, NoProof, Ages
<1>2. Journal
  BY DEF Journal
<1>3. Numbers
  BY EmptySeq DEF Numbers, Increasing, HasLargest, Copied
<1>4. Backed /\ Alone
  BY DEF Backed, Alone, RecoveryStates, RECOVERED_STATES
<1> QED
  BY <1>1, <1>2, <1>3, <1>4 DEF Inv

LEMMA AdapterKeeps ==
    ASSUME Inv, Next /\ UNCHANGED recoveryVars
    PROVE  Inv'
<1> USE DEF recoveryVars
<1>1. Types' /\ Journal'
  BY AdapterMoves DEF Inv, Types, Documents
<1>2. Numbers'
  BY DEF Inv, Numbers, Copied
<1>3. Backed'
  <2>1. jstate' = jstate \/ (jstate \notin RecoveryStates /\ jstate' \notin RecoveryStates)
    BY AdapterMoves DEF Inv
  <2>2. jstate' \in RECOVERED_STATES => jstate' \in RecoveryStates
    BY DEF RECOVERED_STATES, RecoveryStates
  <2> QED
    BY <2>1, <2>2 DEF Inv, Backed, Complete, LastAttempt
<1> QED
  BY <1>1, <1>2, <1>3 DEF Inv

LEMMA CaptureKeeps ==
    ASSUME Inv, CaptureSnapshots
    PROVE  Inv'
<1> USE DEF CaptureSnapshots, vars, nbVars, adapterVars
<1>1. source' \in Snapshots /\ revalidation' \in Snapshots
  <2>1. Seen \in Snapshots
    BY DEF Inv, Types, Snapshots, Seen, Age, Ages
  <2> QED
    BY <2>1 DEF Inv, Types, Snapshots
<1> QED
  BY <1>1 DEF Inv, Types, Journal, Numbers, Copied, Backed, Complete, LastAttempt

LEMMA LoadKeeps ==
    ASSUME Inv, LoadContext
    PROVE  Inv'
<1> USE DEF LoadContext, vars, nbVars, adapterVars
<1>1. /\ doc' \in Documents /\ doc'.attempts = attempts
      /\ rpc' \in {"reconcile", "intent"} /\ (rpc' = "reconcile" => attempts # <<>>)
      /\ jstate \notin RECOVERED_STATES
  BY DEF Inv, Types, Documents, RECOVERABLE_STATES, RECOVERED_STATES, STATES, ForwardStates,
     RecoveryStates, Backed
<1>2. Types'
  BY <1>1 DEF Inv, Types, NoProof, Proofs, Ages, Places, AppendPoints
<1>3. Numbers' /\ Journal'
  BY <1>1 DEF Inv, Numbers, Journal, Copied
<1>4. Backed'
  BY <1>1 DEF Inv, Backed
<1> QED
  BY <1>2, <1>3, <1>4 DEF Inv

LEMMA TemporaryKeeps ==
    ASSUME Inv, WriteTemporary
    PROVE  Inv' /\ doc'.arts = doc.arts
<1> USE DEF WriteTemporary, vars, nbVars, adapterVars, AppendPoints
<1>1. /\ doc' \in Documents /\ doc'.arts = doc.arts
      /\ doc'.attempts # <<>> /\ Increasing(doc'.attempts)
      /\ rpc # "intent" =>
           /\ Len(doc'.attempts) = Len(doc.attempts)
           /\ doc'.attempts[Len(doc'.attempts)].number = LastAttempt.number
      /\ rpc \in {"reconcile", "intent"} => doc'.state = "NB_FORWARD_RECOVERY_INTENT"
      /\ rpc = "publish" =>
           /\ doc'.state \in RECOVERED_STATES
           /\ doc'.attempts[Len(doc'.attempts)].state = doc'.state
      /\ rpc = "blocked" => doc'.state = "NB_FORWARD_RECOVERY_BLOCKED"
  BY NewDocumentFacts DEF Inv
<1>2. Types' /\ Numbers' /\ Journal'
  BY <1>1 DEF Inv, Types, Places, Appending, Numbers, Journal, Copied
<1>3. rpc' = "publish-tmp" => Complete(LastAttempt)'
  BY <1>1 DEF Inv, Backed, Complete, LastAttempt
<1>4. Backed'
  BY <1>1, <1>3 DEF Inv, Backed, Complete, LastAttempt
<1> QED
  BY <1>1, <1>2, <1>4 DEF Inv

LEMMA ReplaceKeeps ==
    ASSUME Inv, ReplaceJournal
    PROVE  Inv'
<1> USE DEF ReplaceJournal, nbVars
<1>1. /\ rpc \in Appending /\ doc \in Documents /\ doc.attempts # <<>>
  BY DEF Inv, Types, Appending, Backed
<1>2. Types'
  BY <1>1 DEF Inv, Types, Documents, Places, AppendPoints, Appending
<1>3. Numbers' /\ Journal'
  BY <1>1 DEF Inv, Numbers, Journal, Copied, Types, Documents, STATES, ForwardStates, InverseStates,
     RecoveryStates
<1>4. Backed'
  BY <1>1 DEF Inv, Backed, Complete, LastAttempt, RECOVERED_STATES
<1> QED
  BY <1>2, <1>3, <1>4 DEF Inv

LEMMA RefusedKeeps ==
    ASSUME Inv, AppendRefused \/ RecheckBefore \/ RecheckAfter \/ RecoveryCrash
    PROVE  Inv'
<1> USE DEF AppendRefused, RecheckBefore, RecheckAfter, RecoveryCrash, Error, vars, nbVars,
        adapterVars
<1>1. Types'
  <2>1. rpc' \in Places
    BY DEF Places, AppendPoints, Appending
  <2>2. UNCHANGED <<vars, attempts, copies, source, revalidation, doc, proof>>
    OBVIOUS
  <2> QED
    BY <2>1, <2>2 DEF Inv, Types
<1>2. Numbers' /\ Journal'
  <2>1. UNCHANGED <<attempts, doc, copies, pc, jstate, jarts, trusted, next>>
    OBVIOUS
  <2>2. Copied' = Copied
    BY <2>1 DEF Copied
  <2>3. Numbers'
    BY <2>1, <2>2 DEF Inv, Numbers
  <2>4. Journal'
    BY <2>1 DEF Inv, Journal
  <2> QED
    BY <2>3, <2>4
<1>3. Backed'
  BY DEF Inv, Backed, Complete, LastAttempt, AppendPoints
<1> QED
  BY <1>1, <1>2, <1>3 DEF Inv

LEMMA ValidateKeeps ==
    ASSUME Inv, ValidateSnapshots
    PROVE  Inv'
<1> USE DEF ValidateSnapshots, Error, vars, nbVars, adapterVars
<1>1. Outcome(source) \in {"NONE", "BUILT", "CLEAN"}
  BY DEF Outcome
<1>2. proof' \in Proofs /\ rpc' \in {"copy", "blocked"} /\ (rpc' = "copy" => proof'.outcome # "NONE")
  BY <1>1 DEF Inv, Types, Snapshots, Proofs
<1>3. Types' /\ Numbers' /\ Journal'
  BY <1>2 DEF Inv, Types, Documents, Places, AppendPoints, Appending, Numbers, Journal, Copied
<1>4. Backed'
  BY <1>2 DEF Inv, Backed, Complete, LastAttempt
<1> QED
  BY <1>3, <1>4 DEF Inv

LEMMA CopiesKeep ==
    ASSUME Inv, WriteCopies
    PROVE  Inv'
<1> USE DEF WriteCopies, vars, nbVars, adapterVars
<1> DEFINE number == LastAttempt.number
<1>1. number \in Nat
  <2>1. doc.attempts # <<>> /\ doc.attempts \in Seq(Attempt)
    BY DEF Inv, Types, Documents, Backed
  <2>2. Len(doc.attempts) \in 1 .. Len(doc.attempts)
    BY <2>1, EmptySeq
  <2>3. LastAttempt \in Attempt
    BY <2>1, <2>2, ElementOfSeq DEF LastAttempt
  <2> QED
    BY <2>3 DEF Attempt
<1>2. PICK ks \in {{}, {"source"}, {"source", "revalidate"}, Kinds} :
        /\ copies' = copies \cup {<<number, k>> : k \in ks}
        /\ IF ks = Kinds THEN rpc' = "before" ELSE rpc' \in {"blocked", "idle"}
  OBVIOUS
<1>3. ks \subseteq Kinds
  BY <1>2 DEF Kinds
<1> HIDE DEF number
<1>4. Types'
  BY <1>1, <1>2, <1>3 DEF Inv, Types, Documents, Places, AppendPoints
<1>5. Numbers'
  <2>1. \E T \in {{}, {number}} : Copied' = Copied \cup T
    <3>1. CASE ks = {}
      BY <1>2, <3>1 DEF Copied
    <3>2. CASE ks # {}
      BY <1>2, <3>2 DEF Copied
    <3> QED
      BY <3>1, <3>2
  <2>2. Copied \in SUBSET Nat
    BY DEF Inv, Types, Copied
  <2>3. HasLargest({}) /\ HasLargest({number})
    BY <1>1 DEF HasLargest
  <2> QED
    BY <1>1, <2>1, <2>2, <2>3, LargestOfUnion DEF Inv, Numbers
<1>6. rpc' = "before" => Complete(LastAttempt)'
  BY <1>2 DEF Complete, LastAttempt, number
<1>7. Journal' /\ Backed'
  <2>1. \A attempt : Complete(attempt) => Complete(attempt)'
    BY <1>2 DEF Complete
  <2> QED
    BY <1>2, <1>6, <2>1 DEF Inv, Journal, Backed, Complete, LastAttempt
<1> QED
  BY <1>4, <1>5, <1>7 DEF Inv

LEMMA InvKept == ASSUME Inv, [RecNext]_allVars PROVE Inv'
<1>1. CASE RecNext
  BY <1>1, AdapterKeeps, CaptureKeeps, LoadKeeps, TemporaryKeeps, ReplaceKeeps, RefusedKeeps,
     ValidateKeeps, CopiesKeep DEF RecNext, RecoveryNext
<1>2. CASE UNCHANGED allVars
  <2>1. Types' /\ Journal'
    BY <1>2 DEF Inv, Types, Documents, Journal, allVars, recoveryVars, vars, nbVars, adapterVars
  <2>2. Numbers' /\ Backed'
    BY <1>2 DEF Inv, Numbers, Copied, Backed, Complete, LastAttempt, allVars, recoveryVars, vars,
       adapterVars
  <2> QED
    BY <2>1, <2>2 DEF Inv
<1> QED
  BY <1>1, <1>2

(* A published recovery rests on its own attempt and on its three files,   *)
(* whatever crashed before it, and whatever the adapter did meanwhile.     *)
THEOREM PublishedIsBacked == RecSpec => []RecoveredIsBacked
<1>1. Inv => RecoveredIsBacked
  <2> SUFFICES ASSUME Inv, jstate \in RECOVERED_STATES PROVE RecoveredIsBacked
    BY DEF RecoveredIsBacked
  <2>1. attempts # <<>>
    BY DEF Inv, Backed, RECOVERED_STATES, RecoveryStates
  <2>2. Len(attempts) \in 1 .. Len(attempts)
    BY <2>1, EmptySeq DEF Inv, Types
  <2>3. \A i \in 1 .. Len(attempts) - 1 : attempts[i].number < attempts[Len(attempts)].number
    BY <2>2 DEF Inv, Numbers, Increasing
  <2> QED
    BY <2>1, <2>3 DEF Inv, Backed, Complete, RecoveredIsBacked
<1> QED
  BY <1>1, Initially, InvKept, PTL DEF RecSpec

-----------------------------------------------------------------------------
(* Alone with the journal, recover() takes nothing back. *)
LEMMA AloneKept ==
    ASSUME ~Concurrent, Inv, Alone, [RecNext]_allVars
    PROVE  Alone'
<1>1. CASE Next /\ UNCHANGED recoveryVars
  <2>1. rpc # "idle" => UNCHANGED <<pc, jstate, jarts>>
    BY <1>1, AdapterMoves DEF Inv, Alone, RECOVERABLE_STATES, RECOVERED_STATES
  <2> QED
    BY <1>1, <2>1 DEF Alone, recoveryVars
<1>2. CASE LoadContext
  BY <1>2 DEF LoadContext, Alone, vars, adapterVars
<1>3. CASE WriteTemporary
  <2>1. doc'.arts = doc.arts
    BY <1>3, TemporaryKeeps
  <2> QED
    BY <1>3, <2>1 DEF WriteTemporary, Alone, AppendPoints, vars, adapterVars
<1>4. CASE ReplaceJournal
  <2>1. doc.state \in RECOVERABLE_STATES \cup RECOVERED_STATES
    BY <1>4 DEF Inv, Backed, ReplaceJournal, RECOVERABLE_STATES, RECOVERED_STATES
  <2> QED
    BY <1>4, <2>1 DEF ReplaceJournal, Alone
<1>5. CASE CaptureSnapshots
  BY <1>5 DEF CaptureSnapshots, Alone
<1>6. CASE AppendRefused \/ ValidateSnapshots \/ WriteCopies \/ RecheckBefore \/ RecheckAfter
           \/ RecoveryCrash
  <2>1. rpc # "idle" /\ UNCHANGED <<vars, doc>>
    BY <1>6 DEF AppendRefused, ValidateSnapshots, WriteCopies, RecheckBefore, RecheckAfter,
       RecoveryCrash, AppendPoints
  <2> QED
    BY <2>1 DEF Alone, vars, adapterVars
<1>7. CASE UNCHANGED allVars
  BY <1>7 DEF Alone, allVars, recoveryVars, vars, adapterVars
<1> QED
  BY <1>1, <1>2, <1>3, <1>4, <1>5, <1>6, <1>7 DEF RecNext, RecoveryNext

(* As long as recover() never runs beside the adapter, a published outcome *)
(* is final but for the BLOCKED of its own recheck, a verified forward is  *)
(* never replaced, and no artifact event is lost.                          *)
THEOREM NothingIsTakenBack == ASSUME ~Concurrent PROVE RecSpec => NothingTakenBack
<1> DEFINE Step ==
      /\ (jstate \in RECOVERED_STATES /\ jstate' # jstate) =>
           /\ jstate' = "NB_FORWARD_RECOVERY_BLOCKED"
           /\ Len(attempts') = Len(attempts)
      /\ jstate = "NB_FORWARD_VERIFIED" => jstate' \notin RecoveryStates
      /\ jarts' >= jarts
<1>1. ASSUME Inv, Alone, [RecNext]_allVars PROVE [Step]_allVars
  <2>1. jarts \in Nat
    BY <1>1 DEF Inv, Types
  <2>2. CASE Next /\ UNCHANGED recoveryVars
    <3>1. /\ jstate' = jstate \/ (jstate \notin RecoveryStates /\ jstate' \notin RecoveryStates)
          /\ jarts' >= jarts
      BY <1>1, <2>2, AdapterMoves DEF Inv
    <3> QED
      BY <2>2, <3>1 DEF RECOVERED_STATES, RecoveryStates
  <2>3. CASE ReplaceJournal
    BY <1>1, <2>1, <2>3 DEF ReplaceJournal, Inv, Backed, Alone, RECOVERABLE_STATES,
       RECOVERED_STATES
  <2>4. CASE UNCHANGED <<jstate, jarts>>
    BY <2>1, <2>4 DEF RecoveryStates
  <2>5. \/ Next /\ UNCHANGED recoveryVars
        \/ ReplaceJournal
        \/ UNCHANGED <<jstate, jarts>>
    BY <1>1 DEF RecNext, RecoveryNext, CaptureSnapshots, LoadContext, WriteTemporary, AppendRefused,
       ValidateSnapshots, WriteCopies, RecheckBefore, RecheckAfter, RecoveryCrash, allVars,
       vars, adapterVars
  <2> QED
    BY <2>2, <2>3, <2>4, <2>5
<1>2. RecSpec => [](Inv /\ Alone)
  BY Initially, InvKept, AloneKept, PTL DEF RecSpec
<1>3. ASSUME [](Inv /\ Alone), [][RecNext]_allVars PROVE [][Step]_allVars
  BY <1>1, <1>3, PTL
<1>4. [][Step]_allVars => NothingTakenBack
  BY PTL DEF NothingTakenBack
<1> QED
  BY <1>2, <1>3, <1>4, PTL DEF RecSpec
-----------------------------------------------------------------------------
(* What a published outcome says of the database.  Alone with the journal, *)
(* recover() leaves the adapter's invariant IndInv intact, and what it     *)
(* concludes from a snapshot stays true because the one forward client     *)
(* never leaves the state it ended in.                                     *)
Applied == client["forward"].st = "applied"
Failed == client["forward"].st \in {"refused", "gone"}

(* A snapshot begun after the client had ended shows its rows, unless the  *)
(* inverse was handed over since.                                          *)
SeenTrue(s) ==
    /\ s.first \in {0, 1} /\ (s.first # 0 => Applied)
    /\ s.age = "settled" =>
         /\ Applied \/ Failed
         /\ Applied /\ dispatches["inverse"] = 0 => s.first # 0

Truthful(p) ==
    /\ p.outcome = "BUILT" => p.uuids = 1 /\ Applied
    /\ p.outcome = "CLEAN" /\ p.age = "settled" => Failed

AttemptTrue(a) ==
    /\ Truthful(a.proof)
    /\ a.state = "NB_FORWARD_RECOVERED_VERIFIED" => a.proof.outcome = "BUILT"
    /\ a.state = "NB_FORWARD_RECOVERED_CLEAN" => a.proof.outcome = "CLEAN"

AllTrue(s) == \A i \in 1 .. Len(s) : AttemptTrue(s[i])

Truth == SeenTrue(source) /\ Truthful(proof) /\ AllTrue(attempts) /\ AllTrue(doc.attempts)

TrueInv == Inv /\ Alone /\ IndInv /\ Truth

(* While recover() works, no inverse was ever handed over. *)
LEMMA NoInverseYet ==
    ASSUME Alone, IndInv, rpc # "idle"
    PROVE  dispatches["inverse"] = 0 /\ jstate \notin {"NONE", "NB_ABSENT"}
<1>1. jstate \notin InverseStates /\ jstate \notin {"NONE", "NB_ABSENT"}
  BY DEF Alone, RECOVERABLE_STATES, RECOVERED_STATES, InverseStates
<1>2. dispatches["inverse"] \in Nat /\ ~(dispatches["inverse"] > 0)
  BY <1>1 DEF IndInv, TypeOK, Phases, Control, IntentIsDurable
<1> QED
  BY <1>1, <1>2

(* What has become of the forward client does not change any more. *)
LEMMA EndIsFinal ==
    ASSUME IndInv, [Next]_vars
    PROVE  /\ Applied => Applied'
           /\ Failed => Failed'
           /\ dispatches'["inverse"] = 0 => dispatches["inverse"] = 0
<1> client \in [Phases -> Client] /\ phase \in Phases /\ dispatches \in [Phases -> Nat]
  BY DEF IndInv, TypeOK, NorthboundTypeOK
<1>1. CASE UNCHANGED <<nbVars, dispatches>>
  BY <1>1 DEF nbVars, Applied, Failed
<1>2. CASE Dispatch
  <2>1. pc = "dispatch"
    BY <1>2 DEF Dispatch
  <2>2. ~attempted
    BY <2>1 DEF IndInv, Control, StageControl, Running
  <2>3. dispatches[phase] = 0
    BY <2>1, <2>2 DEF IndInv, Control, DispatchControl, Running
  <2>4. client[phase].st = "none"
    BY <2>3 DEF IndInv, Database
  <2>5. dispatches' = [dispatches EXCEPT ![phase] = 1]
    BY <1>2, <2>3 DEF Dispatch
  <2> QED
    BY <1>2, <2>4, <2>5 DEF Dispatch, Hand, Applied, Failed, Phases
<1>3. CASE NorthboundNext /\ UNCHANGED adapterVars
  <2>1. dispatches' = dispatches
    BY <1>3 DEF adapterVars
  <2> QED
    BY <1>3, <2>1 DEF NorthboundNext, ServerStep, CommitForward, CommitInverse, Refuse,
       LoseClient, ForeignWrite, Client, Phases, Applied, Failed
<1> QED
  BY <1>1, <1>2, <1>3, WhoMovesTheDatabase

LEMMA TruthStays ==
    ASSUME IndInv, [Next]_vars
    PROVE  /\ \A s : SeenTrue(s) =>
                /\ s.first \in {0, 1} /\ (s.first # 0 => Applied')
                /\ s.age = "settled" =>
                     /\ Applied' \/ Failed'
                     /\ Applied' /\ dispatches'["inverse"] = 0 => s.first # 0
           /\ \A p : Truthful(p) =>
                /\ p.outcome = "BUILT" => p.uuids = 1 /\ Applied'
                /\ p.outcome = "CLEAN" /\ p.age = "settled" => Failed'
<1>1. /\ Applied => Applied'
      /\ Failed => Failed'
      /\ dispatches'["inverse"] = 0 => dispatches["inverse"] = 0
  BY EndIsFinal
<1>2. ~(Applied' /\ Failed')
  BY DEF Applied, Failed
<1> QED
  BY <1>1, <1>2 DEF SeenTrue, Truthful

(* The snapshot an operator begins to capture now. *)
LEMMA SeenNow == ASSUME IndInv PROVE SeenTrue(Seen)
<1>1. rows \in {0, 1} /\ (rows # 0 => Applied)
  BY DEF IndInv, Database, Applied
<1>2. Age = "settled" => Applied \/ Failed
  BY DEF Age, Applied, Failed, IndInv, TypeOK, NorthboundTypeOK, Client, ClientStates, Phases
<1>3. Applied /\ dispatches["inverse"] = 0 => rows = 1
  BY DEF IndInv, Database, Applied, Phases
<1> QED
  BY <1>1, <1>2, <1>3 DEF Seen, SeenTrue

(* What recover() concludes from the source snapshot. *)
LEMMA ConclusionTrue ==
    ASSUME SeenTrue(source), dispatches["inverse"] = 0, source \in Snapshots
    PROVE  Truthful([outcome |-> Outcome(source), uuids |-> source.first, age |-> source.age])
BY DEF SeenTrue, Truthful, Outcome, ShowsBuilt, ShowsClean, Snapshots

(* Every document an append is about to write tells the truth. *)
LEMMA NewDocumentTrue ==
    ASSUME Inv, Truth, rpc \in AppendPoints
    PROVE  AllTrue(NewDocument.attempts)
<1>1. /\ doc \in Documents /\ doc.attempts \in Seq(Attempt) /\ Len(doc.attempts) \in Nat
      /\ AllTrue(doc.attempts)
  BY LenProperties DEF Inv, Types, Documents, Truth
<1>2. /\ NoProof \in Proofs /\ proof \in Proofs
      /\ Truthful(NoProof) /\ Truthful(proof)
  BY DEF NoProof, Proofs, Ages, Inv, Types, Truth, Truthful
<1>3. ASSUME rpc # "intent", NEW s \in AttemptStates, NEW p \in Proofs, NEW t \in STATES,
             AttemptTrue([number |-> LastAttempt.number, state |-> s, proof |-> p])
      PROVE  AllTrue([SetLast(doc, s, p) EXCEPT !.state = t].attempts)
  <2> DEFINE e == SetLast(doc, s, p)
  <2>1. doc.attempts # <<>>
    BY <1>3 DEF Inv, Backed, AppendPoints
  <2>2. /\ e \in Documents /\ Len(e.attempts) = Len(doc.attempts)
        /\ \A i \in 1 .. Len(doc.attempts) - 1 : e.attempts[i] = doc.attempts[i]
        /\ e.attempts[Len(doc.attempts)].state = s
        /\ e.attempts[Len(doc.attempts)].proof = p
    BY <1>1, <1>3, <2>1, SetLastFacts
  <2> HIDE DEF e
  <2>3. [e EXCEPT !.state = t].attempts = e.attempts
    BY <2>2 DEF Documents
  <2>4. AttemptTrue(e.attempts[Len(doc.attempts)])
    BY <1>3, <2>2 DEF AttemptTrue
  <2>5. AllTrue(e.attempts)
    <3> SUFFICES ASSUME NEW i \in 1 .. Len(doc.attempts) PROVE AttemptTrue(e.attempts[i])
      BY <2>2 DEF AllTrue
    <3>1. CASE i = Len(doc.attempts)
      BY <2>4, <3>1
    <3>2. CASE i # Len(doc.attempts)
      <4>1. i \in 1 .. Len(doc.attempts) - 1
        BY <1>1, <3>2
      <4> QED
        BY <1>1, <2>2, <4>1 DEF AllTrue
    <3> QED
      BY <3>1, <3>2
  <2>6. AllTrue([e EXCEPT !.state = t].attempts)
    BY <2>3, <2>5
  <2> QED
    BY <2>6 DEF e
<1>4. CASE rpc = "reconcile"
  <2>1. NewDocument = [SetLast(doc, "NB_FORWARD_RECOVERY_RECONCILED", NoProof)
                         EXCEPT !.state = "NB_FORWARD_RECOVERY_INTENT"]
    BY <1>4 DEF NewDocument
  <2>2. "NB_FORWARD_RECOVERY_RECONCILED" \in AttemptStates /\ "NB_FORWARD_RECOVERY_INTENT" \in STATES
    BY DEF AttemptStates, STATES, RecoveryStates
  <2>3. AttemptTrue([number |-> LastAttempt.number, state |-> "NB_FORWARD_RECOVERY_RECONCILED",
                     proof |-> NoProof])
    BY <1>2 DEF AttemptTrue
  <2> QED
    BY <1>2, <1>3, <1>4, <2>1, <2>2, <2>3
<1>5. CASE rpc = "intent"
  <2> DEFINE fresh == [number |-> AttemptNumber, state |-> "NB_FORWARD_RECOVERY_INTENT",
                       proof |-> NoProof]
             longer == Append(doc.attempts, fresh)
  <2>1. AttemptNumber \in Nat
    BY NewNumber DEF Inv
  <2>2. fresh \in Attempt /\ AttemptTrue(fresh)
    BY <1>2, <2>1 DEF Attempt, AttemptStates, RecoveryStates, AttemptTrue
  <2>3. NewDocument = [doc EXCEPT !.state = "NB_FORWARD_RECOVERY_INTENT", !.attempts = longer]
    BY <1>5 DEF NewDocument
  <2> HIDE DEF fresh
  <2>4. /\ Len(longer) = Len(doc.attempts) + 1
        /\ \A i \in 1 .. Len(doc.attempts) : longer[i] = doc.attempts[i]
        /\ longer[Len(doc.attempts) + 1] = fresh
    BY <1>1, <2>2, AppendProperties
  <2> HIDE DEF longer
  <2>5. NewDocument.attempts = longer
    BY <1>1, <2>3 DEF Documents
  <2>6. \A i \in 1 .. Len(longer) : AttemptTrue(longer[i])
    <3> SUFFICES ASSUME NEW i \in 1 .. Len(longer) PROVE AttemptTrue(longer[i])
      OBVIOUS
    <3>1. CASE i \in 1 .. Len(doc.attempts)
      BY <1>1, <2>4, <3>1 DEF AllTrue
    <3>2. CASE i = Len(doc.attempts) + 1
      BY <2>2, <2>4, <3>2
    <3> QED
      BY <1>1, <2>4, <3>1, <3>2
  <2> QED
    BY <2>5, <2>6 DEF AllTrue
<1>6. CASE rpc = "publish"
  <2> DEFINE s == IF proof.outcome = "BUILT" THEN "NB_FORWARD_RECOVERED_VERIFIED"
                                             ELSE "NB_FORWARD_RECOVERED_CLEAN"
  <2>1. NewDocument = [SetLast(doc, s, proof) EXCEPT !.state = s]
    BY <1>6 DEF NewDocument
  <2>2. s \in AttemptStates /\ s \in STATES
    BY DEF AttemptStates, STATES, RecoveryStates
  <2>3. AttemptTrue([number |-> LastAttempt.number, state |-> s, proof |-> proof])
    <3>1. proof.outcome \in {"BUILT", "CLEAN"}
      BY <1>2, <1>6 DEF Inv, Backed, Proofs
    <3> QED
      BY <1>2, <3>1 DEF AttemptTrue
  <2> HIDE DEF s
  <2> QED
    BY <1>2, <1>3, <1>6, <2>1, <2>2, <2>3
<1>7. CASE rpc = "blocked"
  <2>1. NewDocument = [SetLast(doc, "NB_FORWARD_RECOVERY_BLOCKED", LastAttempt.proof)
                         EXCEPT !.state = "NB_FORWARD_RECOVERY_BLOCKED"]
    BY <1>7 DEF NewDocument
  <2>2. LastAttempt.proof \in Proofs /\ Truthful(LastAttempt.proof)
    <3>1. doc.attempts # <<>>
      BY <1>7 DEF Inv, Backed
    <3>2. Len(doc.attempts) \in 1 .. Len(doc.attempts)
      BY <1>1, <3>1, EmptySeq
    <3>3. LastAttempt \in Attempt /\ AttemptTrue(LastAttempt)
      BY <1>1, <3>2, ElementOfSeq DEF LastAttempt, AllTrue
    <3> QED
      BY <3>3 DEF Attempt, AttemptTrue
  <2>3. "NB_FORWARD_RECOVERY_BLOCKED" \in AttemptStates /\ "NB_FORWARD_RECOVERY_BLOCKED" \in STATES
    BY DEF AttemptStates, STATES, RecoveryStates
  <2>4. AttemptTrue([number |-> LastAttempt.number, state |-> "NB_FORWARD_RECOVERY_BLOCKED",
                     proof |-> LastAttempt.proof])
    BY <2>2 DEF AttemptTrue
  <2> QED
    BY <1>3, <1>7, <2>1, <2>2, <2>3, <2>4
<1> QED
  BY <1>4, <1>5, <1>6, <1>7 DEF AppendPoints

LEMMA TruthAtFirst == RecInit => IndInv /\ Truth
<1>1. Init => IndInv
  BY TypeInit, ControlInit, BoundInit, DatabaseInit, ReceiptsInit DEF IndInv
<1>2. RecInit => Truth
  <2> SUFFICES ASSUME RecInit PROVE Truth
    OBVIOUS
  <2>1. source.first = 0 /\ source.age = "before" /\ proof = NoProof
    BY DEF RecInit, RecoveryInit
  <2>2. attempts = <<>> /\ doc.attempts = <<>>
    BY DEF RecInit, RecoveryInit
  <2>3. AllTrue(attempts) /\ AllTrue(doc.attempts)
    BY <2>2, EmptySeq DEF AllTrue
  <2> QED
    BY <2>1, <2>3 DEF Truth, SeenTrue, Truthful, NoProof
<1> QED
  BY <1>1, <1>2 DEF RecInit

(* Under recover()'s own steps, too, the adapter's invariant holds. *)
LEMMA AdapterUndisturbed ==
    ASSUME ~Concurrent, TrueInv, [RecNext]_allVars
    PROVE  IndInv'
<1>1. ASSUME [Next]_vars PROVE IndInv'
  BY <1>1, TypeStep, ControlStep, BoundStep, DatabaseStep, ReceiptsStep DEF IndInv, TrueInv
<1>2. CASE ReplaceJournal
  <2>1. /\ UNCHANGED <<nbVars, file, phase, pc, next, view, attempted, dispatches>>
        /\ jarts' = jarts /\ pc = "idle"
        /\ jstate' = doc.state /\ trusted' = FALSE
        /\ doc.state \in RecoveryStates
    BY <1>2 DEF ReplaceJournal, TrueInv, Alone, Inv, Backed, RECOVERED_STATES, RecoveryStates
  <2>2. dispatches["inverse"] = 0
    BY <1>2, NoInverseYet DEF TrueInv, ReplaceJournal
  <2>3. TypeOK'
    <3>1. jstate' \in STATES /\ trusted' \in BOOLEAN
      BY <2>1, Zenon DEF STATES
    <3> QED
      BY <2>1, <3>1 DEF TrueInv, IndInv, TypeOK, NorthboundTypeOK, nbVars
  <2>4. Control'
    BY <2>1, <2>2 DEF TrueInv, IndInv, Control, ForwardControl, InverseControl, StageControl,
       DispatchControl, Running, NoReissue, IntentIsDurable, RecoveryStates
  <2>5. Bound'
    <3>1. \A s : Exists(s)' = Exists(s)
      BY <2>1 DEF Exists
    <3> QED
      BY <2>1, <3>1 DEF TrueInv, IndInv, Bound, JournalBindsFiles, Running
  <2>6. Database'
    BY <2>1 DEF TrueInv, IndInv, Database, nbVars, Exists, Inserted
  <2>7. Receipts'
    BY <2>1 DEF TrueInv, IndInv, Receipts, PendingView, Reading, ForwardAnswer, InverseAnswer,
       nbVars, Exists, RecoveryStates
  <2> QED
    BY <2>3, <2>4, <2>5, <2>6, <2>7 DEF IndInv
<1>3. [Next]_vars \/ ReplaceJournal
  BY DEF RecNext, RecoveryNext, CaptureSnapshots, LoadContext, WriteTemporary, AppendRefused,
     ValidateSnapshots, WriteCopies, RecheckBefore, RecheckAfter, RecoveryCrash, allVars
<1> QED
  BY <1>1, <1>2, <1>3

LEMMA TruthKept ==
    ASSUME ~Concurrent, TrueInv, [RecNext]_allVars
    PROVE  Truth'
<1> USE DEF TrueInv
<1>1. CASE Next /\ UNCHANGED recoveryVars
  <2>1. UNCHANGED <<source, proof, attempts, doc>>
    BY <1>1 DEF recoveryVars
  <2>2. SeenTrue(source)' /\ Truthful(proof)'
    BY <1>1, <2>1, TruthStays DEF Truth, SeenTrue, Truthful, Applied, Failed
  <2>3. \A a : AttemptTrue(a) =>
          /\ a.proof.outcome = "BUILT" => a.proof.uuids = 1 /\ Applied'
          /\ a.proof.outcome = "CLEAN" /\ a.proof.age = "settled" => Failed'
          /\ a.state = "NB_FORWARD_RECOVERED_VERIFIED" => a.proof.outcome = "BUILT"
          /\ a.state = "NB_FORWARD_RECOVERED_CLEAN" => a.proof.outcome = "CLEAN"
    BY <1>1, TruthStays DEF AttemptTrue
  <2>4. AllTrue(attempts)'
    BY <2>1, <2>3 DEF Truth, AllTrue, AttemptTrue, Truthful, Applied, Failed
  <2>5. AllTrue(doc.attempts)'
    BY <2>1, <2>3 DEF Truth, AllTrue, AttemptTrue, Truthful, Applied, Failed
  <2> QED
    BY <2>2, <2>4, <2>5 DEF Truth
<1> DEFINE Still == client' = client /\ dispatches' = dispatches
<1>s. ASSUME Still
      PROVE  /\ \A s : SeenTrue(s) <=> SeenTrue(s)'
             /\ AllTrue(attempts') <=> AllTrue(attempts)'
             /\ AllTrue(doc'.attempts) <=> AllTrue(doc.attempts)'
             /\ SeenTrue(source') <=> SeenTrue(source)'
             /\ Truthful(proof') <=> Truthful(proof)'
  BY <1>s DEF SeenTrue, AllTrue, AttemptTrue, Truthful, Applied, Failed
<1>2. CASE CaptureSnapshots
  <2>1. Still /\ UNCHANGED <<attempts, doc, proof>>
    BY <1>2 DEF CaptureSnapshots, vars, nbVars, adapterVars
  <2>2. SeenTrue(source')
    <3>1. source' = Seen \/ source' = source \/ source' = [source EXCEPT !.last = rows]
      BY <1>2 DEF CaptureSnapshots
    <3>2. SeenTrue(Seen) /\ SeenTrue(source)
      BY SeenNow DEF Truth
    <3>3. SeenTrue([source EXCEPT !.last = rows])
      BY <3>2 DEF SeenTrue, Inv, Types, Snapshots
    <3> QED
      BY <3>1, <3>2, <3>3
  <2> QED
    BY <2>1, <2>2, <1>s DEF Truth
<1>3. CASE LoadContext
  <2>1. Still /\ UNCHANGED <<attempts, source>> /\ doc'.attempts = attempts /\ proof' = NoProof
    BY <1>3 DEF LoadContext, vars, nbVars, adapterVars
  <2>2. Truthful(proof')
    BY <2>1 DEF Truthful, NoProof
  <2> QED
    BY <2>1, <2>2, <1>s DEF Truth
<1>4. CASE WriteTemporary
  <2>1. Still /\ UNCHANGED <<attempts, source, proof>> /\ doc' = NewDocument /\ rpc \in AppendPoints
    BY <1>4 DEF WriteTemporary, vars, nbVars, adapterVars
  <2>2. AllTrue(doc'.attempts)
    BY <2>1, NewDocumentTrue
  <2> QED
    BY <2>1, <2>2, <1>s DEF Truth
<1>5. CASE ReplaceJournal
  <2>1. Still /\ UNCHANGED <<doc, source, proof>> /\ attempts' = doc.attempts
    BY <1>5 DEF ReplaceJournal, nbVars
  <2> QED
    BY <2>1, <1>s DEF Truth
<1>6. CASE ValidateSnapshots
  <2>1. Still /\ UNCHANGED <<attempts, doc, source>>
    BY <1>6 DEF ValidateSnapshots, vars, nbVars, adapterVars
  <2>2. Truthful(proof')
    <3>1. \/ proof' = proof
          \/ proof' = [outcome |-> Outcome(source), uuids |-> source.first, age |-> source.age]
      BY <1>6 DEF ValidateSnapshots
    <3>2. dispatches["inverse"] = 0
      BY <1>6, NoInverseYet DEF ValidateSnapshots
    <3> QED
      BY <3>1, <3>2, ConclusionTrue DEF Truth, Inv, Types
  <2> QED
    BY <2>1, <2>2, <1>s DEF Truth
<1>7. CASE AppendRefused \/ WriteCopies \/ RecheckBefore \/ RecheckAfter \/ RecoveryCrash
  <2>1. Still /\ UNCHANGED <<attempts, doc, source, proof>>
    BY <1>7 DEF AppendRefused, WriteCopies, RecheckBefore, RecheckAfter, RecoveryCrash,
       vars, nbVars, adapterVars
  <2> QED
    BY <2>1, <1>s DEF Truth
<1>8. CASE UNCHANGED allVars
  <2>1. Still /\ UNCHANGED <<attempts, doc, source, proof>>
    BY <1>8 DEF allVars, recoveryVars, vars, nbVars, adapterVars
  <2> QED
    BY <2>1, <1>s DEF Truth
<1> QED
  BY <1>1, <1>2, <1>3, <1>4, <1>5, <1>6, <1>7, <1>8 DEF RecNext, RecoveryNext

LEMMA TrueInvHolds == ASSUME ~Concurrent PROVE RecSpec => []TrueInv
<1>1. RecInit => TrueInv
  BY Initially, TruthAtFirst DEF TrueInv
<1>2. TrueInv /\ [RecNext]_allVars => TrueInv'
  <2> SUFFICES ASSUME TrueInv, [RecNext]_allVars PROVE TrueInv'
    OBVIOUS
  <2>1. Inv'
    BY InvKept DEF TrueInv
  <2>2. Alone'
    BY AloneKept DEF TrueInv
  <2>3. IndInv'
    BY AdapterUndisturbed
  <2>4. Truth'
    BY TruthKept
  <2> QED
    BY <2>1, <2>2, <2>3, <2>4 DEF TrueInv
<1> QED
  BY <1>1, <1>2, PTL DEF RecSpec

(* The attempt behind a published outcome. *)
LEMMA PublishedAttempt ==
    ASSUME TrueInv, jstate \in RECOVERED_STATES
    PROVE  /\ AttemptTrue(attempts[Len(attempts)])
           /\ attempts[Len(attempts)].state = jstate
           /\ dispatches["inverse"] = 0
<1>1. attempts # <<>> /\ attempts[Len(attempts)].state = jstate
  BY DEF TrueInv, Inv, Backed, RECOVERED_STATES, RecoveryStates
<1>2. Len(attempts) \in 1 .. Len(attempts)
  BY <1>1, EmptySeq DEF TrueInv, Inv, Types
<1>3. dispatches["inverse"] \in Nat /\ ~(dispatches["inverse"] > 0)
  BY DEF TrueInv, IndInv, TypeOK, Phases, Control, IntentIsDurable, RECOVERED_STATES, InverseStates
<1> QED
  BY <1>1, <1>2, <1>3 DEF TrueInv, Truth, AllTrue

(* The rows a published BUILT recovery names are exactly those that exist, *)
(* however old its snapshots were and however late the forward committed.  *)
THEOREM BuiltIsTrue == ASSUME ~Concurrent PROVE RecSpec => []RecoveredVerifiedIsBuilt
<1>1. TrueInv => RecoveredVerifiedIsBuilt
  <2> SUFFICES ASSUME TrueInv, jstate = "NB_FORWARD_RECOVERED_VERIFIED"
               PROVE  rows # 0 /\ attempts[Len(attempts)].proof.uuids = rows
    BY DEF RecoveredVerifiedIsBuilt
  <2>1. /\ attempts[Len(attempts)].proof.uuids = 1 /\ Applied
        /\ dispatches["inverse"] = 0
    BY PublishedAttempt DEF RECOVERED_STATES, AttemptTrue, Truthful
  <2>2. rows = 1
    BY <2>1 DEF TrueInv, IndInv, Database, Applied, Phases
  <2> QED
    BY <2>1, <2>2
<1> QED
  BY <1>1, TrueInvHolds, PTL

(* A CLEAN recovery whose older snapshot was begun after the client had    *)
(* ended is right, and stays right: no forward is left that could commit.  *)
THEOREM SettledCleanIsTrue == ASSUME ~Concurrent PROVE RecSpec => []SettledCleanIsClean
<1>1. TrueInv => SettledCleanIsClean
  <2> SUFFICES ASSUME TrueInv, jstate = "NB_FORWARD_RECOVERED_CLEAN",
                      attempts[Len(attempts)].proof.age = "settled"
               PROVE  rows = 0
    BY DEF SettledCleanIsClean
  <2>1. Failed
    BY PublishedAttempt DEF RECOVERED_STATES, AttemptTrue, Truthful
  <2> QED
    BY <2>1 DEF TrueInv, IndInv, Database, Failed
<1> QED
  BY <1>1, TrueInvHolds, PTL
=============================================================================

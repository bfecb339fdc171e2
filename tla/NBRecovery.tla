------------------------------ MODULE NBRecovery ------------------------------
(***************************************************************************)
(* The local forward recovery (x05-nb-recovery.py) beside the adapter whose *)
(* journal it continues.  When a forward transaction was announced but its *)
(* outcome is unknown, an operator captures two full snapshots and runs    *)
(* recover(), which appends an attempt to the journal, copies the          *)
(* snapshots, writes a proof and publishes BUILT or CLEAN, or BLOCKED.     *)
(* Unlike the adapter it neither holds nor checks the DCI lock, and its    *)
(* journal temporary file has one fixed name.                              *)
(***************************************************************************)
EXTENDS NBLive

CONSTANTS
    MaxAttempts,    \* bound: recovery attempts in one journal
    Concurrent      \* TRUE: recover() may start while the adapter runs

ASSUME MaxAttemptsAssumption == MaxAttempts \in Nat
ASSUME ConcurrentAssumption == Concurrent \in BOOLEAN

VARIABLES
    (* durable *)
    attempts,       \* the journal's recovery-attempt events, [number, state, proof]
    copies,         \* recovery-attempt-<n>-<kind>.json files that exist
    tmp,            \* .journal.json.recovery-tmp exists
    (* the operator's two snapshot files *)
    source, revalidation, captured,     \* [first, last, ports, age], and table reads made
    (* volatile *)
    rpc, doc,       \* the document as read, [state, arts, attempts]
    proof           \* what the two snapshots proved, [outcome, uuids, age]

recoveryVars == <<attempts, copies, tmp, source, revalidation, captured, rpc, doc, proof>>
allVars == <<vars, recoveryVars>>

Mutant_RECOVERABLE_STATES_Verified ==
    {"NB_FORWARD_INTENT", "NB_FORWARD_AMBIGUOUS", "NB_FORWARD_COMMITTED",
     "NB_FORWARD_RECOVERY_INTENT", "NB_FORWARD_RECOVERY_BLOCKED", "NB_FORWARD_VERIFIED"}
RECOVERABLE_STATES == {"NB_FORWARD_INTENT", "NB_FORWARD_AMBIGUOUS",
                       "NB_FORWARD_COMMITTED", "NB_FORWARD_RECOVERY_INTENT",
                       "NB_FORWARD_RECOVERY_BLOCKED"}
RECOVERED_STATES == {"NB_FORWARD_RECOVERED_VERIFIED", "NB_FORWARD_RECOVERED_CLEAN"}

Kinds == {"source", "revalidate", "proof"}

(* What two snapshots prove: an outcome (NONE, BUILT or CLEAN), the UUIDs  *)
(* of a BUILT one, and the age of the older snapshot (history): begun      *)
(* before the forward was handed to a client, while that client ran, or    *)
(* after it had ended ("before", "during", "settled").                     *)
NoProof == [outcome |-> "NONE", uuids |-> 0, age |-> "before"]

AppendPoints == {"reconcile", "intent", "publish", "blocked"}

RecoveryInit ==
    /\ attempts = <<>>
    /\ copies = {}
    /\ tmp = FALSE
    /\ source = [first |-> 0, last |-> 0, ports |-> aPorts, age |-> "before"]
    /\ revalidation = source
    /\ captured = 0
    /\ rpc = "idle"
    /\ doc = [state |-> "NB_ABSENT", arts |-> 0, attempts |-> <<>>]
    /\ proof = NoProof

-----------------------------------------------------------------------------
(* The operator captures the source snapshot and then the revalidation     *)
(* one, each by a series of table reads, at any time: recover() compares   *)
(* the two with each other and never with the time of the dispatch.        *)
Age == CASE client["forward"].st = "none" -> "before"
         [] client["forward"].st = "running" -> "during"
         [] OTHER -> "settled"
Seen == [first |-> rows, last |-> 0, ports |-> aPorts, age |-> Age]

CaptureSnapshots ==
    /\ rpc = "idle"
    /\ captured' = IF captured = 4 THEN 1 ELSE captured + 1
    /\ source' = CASE captured' = 1 -> Seen
                   [] captured' = 2 -> [source EXCEPT !.last = rows]
                   [] OTHER -> source
    /\ revalidation' = CASE captured' = 3 -> Seen
                         [] captured' = 4 -> [revalidation EXCEPT !.last = rows]
                         [] OTHER -> revalidation
    /\ UNCHANGED <<vars, attempts, copies, tmp, rpc, doc, proof>>

-----------------------------------------------------------------------------
LastAttempt == doc.attempts[Len(doc.attempts)]
SetLast(d, state, p) ==
    [d EXCEPT !.attempts[Len(d.attempts)].state = state,
              !.attempts[Len(d.attempts)].proof = p]

(* _load_context and the checks before the reconciliation.                 *)
LoadContext ==
    /\ rpc = "idle"
    /\ captured = 4
    /\ Concurrent \/ pc = "idle"
    /\ Len(attempts) < MaxAttempts
    /\ jstate \in RECOVERABLE_STATES
    /\ jarts >= 2
    /\ \A i \in 1..Len(attempts) : attempts[i].proof # NoProof =>
         \A k \in Kinds : <<attempts[i].number, k>> \in copies
    /\ doc' = [state |-> jstate, arts |-> jarts, attempts |-> attempts]
    /\ jstate = "NB_FORWARD_RECOVERY_INTENT" =>
         attempts[Len(attempts)].state \in {"NB_FORWARD_RECOVERY_INTENT",
                                           "NB_FORWARD_RECOVERY_RECONCILED"}
    /\ rpc' = IF /\ jstate = "NB_FORWARD_RECOVERY_INTENT"
                 /\ attempts[Len(attempts)].state = "NB_FORWARD_RECOVERY_INTENT"
              THEN "reconcile" ELSE "intent"
    /\ proof' = NoProof
    /\ UNCHANGED <<vars, attempts, copies, tmp, source, revalidation, captured>>

(* _attempt_number: above every attempt seen in file names and in events.  *)
AttemptNumber ==
    LET seen == {c[1] : c \in copies} \cup
                {doc.attempts[i].number : i \in 1..Len(doc.attempts)}
    IN  1 + (IF seen = {} THEN 0 ELSE CHOOSE m \in seen : \A n \in seen : n <= m)

(* Mutant: the published state is the opposite of what was proved.         *)
Mutant_NewDocument_Swapped ==
    LET s == IF proof.outcome = "CLEAN" THEN "NB_FORWARD_RECOVERED_VERIFIED"
                                        ELSE "NB_FORWARD_RECOVERED_CLEAN"
    IN  IF rpc = "publish" THEN [SetLast(doc, s, proof) EXCEPT !.state = s]
        ELSE [doc EXCEPT !.state = "NB_FORWARD_RECOVERY_INTENT",
                         !.attempts = Append(@, [number |-> AttemptNumber,
                                                 state |-> "NB_FORWARD_RECOVERY_INTENT",
                                                 proof |-> NoProof])]
(* The document each append is about to write. *)
NewDocument ==
    CASE rpc = "reconcile" ->
           [SetLast(doc, "NB_FORWARD_RECOVERY_RECONCILED", NoProof)
              EXCEPT !.state = "NB_FORWARD_RECOVERY_INTENT"]
      [] rpc = "intent" ->
           [doc EXCEPT !.state = "NB_FORWARD_RECOVERY_INTENT",
                       !.attempts = Append(@, [number |-> AttemptNumber,
                                               state |-> "NB_FORWARD_RECOVERY_INTENT",
                                               proof |-> NoProof])]
      [] rpc = "publish" ->
           LET s == IF proof.outcome = "BUILT" THEN "NB_FORWARD_RECOVERED_VERIFIED"
                                               ELSE "NB_FORWARD_RECOVERED_CLEAN"
           IN  [SetLast(doc, s, proof) EXCEPT !.state = s]
      [] OTHER ->
           [SetLast(doc, "NB_FORWARD_RECOVERY_BLOCKED", LastAttempt.proof)
              EXCEPT !.state = "NB_FORWARD_RECOVERY_BLOCKED"]

(* _journal_append, first half: it refuses an existing temporary file.     *)
WriteTemporary ==
    /\ rpc \in AppendPoints
    /\ ~tmp
    /\ tmp' = TRUE
    /\ doc' = NewDocument
    /\ rpc' = CASE rpc = "reconcile" -> "reconcile-tmp" [] rpc = "intent" -> "intent-tmp"
                [] rpc = "publish" -> "publish-tmp" [] OTHER -> "blocked-tmp"
    /\ UNCHANGED <<vars, attempts, copies, source, revalidation, captured, proof>>

(* _journal_append, second half: os.replace publishes the document.        *)
ReplaceJournal ==
    /\ rpc \in {"reconcile-tmp", "intent-tmp", "publish-tmp", "blocked-tmp"}
    /\ jstate' = doc.state
    /\ jarts' = doc.arts
    /\ attempts' = doc.attempts
    /\ tmp' = FALSE
    /\ trusted' = FALSE
    /\ rpc' = CASE rpc = "reconcile-tmp" -> "intent" [] rpc = "intent-tmp" -> "validate"
                [] rpc = "publish-tmp" -> "after" [] OTHER -> "idle"
    /\ UNCHANGED <<nbVars, file, phase, pc, next, view, attempted, dispatches,
                   copies, source, revalidation, captured, doc, proof>>

(* A RecoveryError: inside the try block it leads to one BLOCKED append.   *)
Error == rpc' = IF rpc \in {"reconcile", "intent", "blocked", "reconcile-tmp",
                            "intent-tmp", "blocked-tmp"}
                THEN "idle" ELSE "blocked"

(* _journal_append refuses, or its write fails and unlinks the temporary.  *)
AppendRefused ==
    /\ \/ rpc \in AppendPoints /\ tmp /\ tmp' = tmp
       \/ rpc \in {"reconcile-tmp", "intent-tmp", "publish-tmp", "blocked-tmp"} /\ tmp' = FALSE
    /\ Error
    /\ UNCHANGED <<vars, attempts, copies, source, revalidation, captured, doc, proof>>

(* validate_state: BUILT if it can be proved, else CLEAN, else nothing.    *)
Outcome(s) ==
    IF ShowsBuilt(s, Fingerprint, s.first) THEN "BUILT"
    ELSE IF ShowsClean(s, Fingerprint) THEN "CLEAN" ELSE "NONE"

(* Both snapshots prove the same outcome with the same UUIDs, or BLOCKED.  *)
ValidateSnapshots ==
    /\ rpc = "validate"
    /\ IF /\ Outcome(source) # "NONE"
          /\ Outcome(source) = Outcome(revalidation)
          /\ source.first = revalidation.first
       THEN /\ proof' = [outcome |-> Outcome(source), uuids |-> source.first,
                         age |-> source.age]
            /\ rpc' = "copy"
       ELSE /\ Error
            /\ UNCHANGED proof
    /\ UNCHANGED <<vars, attempts, copies, tmp, source, revalidation, captured, doc>>

(* Mutant: a failed write does not stop the attempt.                       *)
Mutant_WriteCopies_FailureIgnored ==
    /\ rpc = "copy"
    /\ \E ks \in {{}, {"source"}, {"source", "revalidate"}, Kinds} :
         copies' = copies \cup {<<LastAttempt.number, k>> : k \in ks}
    /\ rpc' = "before"
    /\ UNCHANGED <<vars, attempts, tmp, source, revalidation, captured, doc, proof>>

(* _write_new, three times: source, revalidate, proof.  A crash or an      *)
(* error may leave any prefix of them.                                     *)
WriteCopies ==
    /\ rpc = "copy"
    /\ \E ks \in {{}, {"source"}, {"source", "revalidate"}, Kinds} :
         /\ \A k \in ks : <<LastAttempt.number, k>> \notin copies
         /\ copies' = copies \cup {<<LastAttempt.number, k>> : k \in ks}
         /\ IF ks = Kinds THEN rpc' = "before"
            ELSE rpc' \in {"blocked", "idle"}     \* RecoveryError, or killed
    /\ UNCHANGED <<vars, attempts, tmp, source, revalidation, captured, doc, proof>>

(* _recovery_publish_recheck("before"): the journal must still be the one  *)
(* this attempt wrote.                                                     *)
RecheckBefore ==
    /\ rpc = "before"
    /\ IF jstate = doc.state /\ jarts = doc.arts /\ attempts = doc.attempts
       THEN rpc' \in {"publish", "blocked"}       \* or another bound file changed
       ELSE rpc' = "blocked"
    /\ UNCHANGED <<vars, attempts, copies, tmp, source, revalidation, captured, doc, proof>>

(* revalidate_proof and _recovery_publish_recheck("after").                *)
RecheckAfter ==
    /\ rpc = "after"
    /\ IF jstate = doc.state /\ jarts = doc.arts /\ attempts = doc.attempts
       THEN rpc' \in {"idle", "blocked"}
       ELSE rpc' = "blocked"
    /\ UNCHANGED <<vars, attempts, copies, tmp, source, revalidation, captured, doc, proof>>

RecoveryCrash ==
    /\ rpc # "idle"
    /\ rpc' = "idle"
    /\ UNCHANGED <<vars, attempts, copies, tmp, source, revalidation, captured, doc, proof>>

RecoveryNext ==
    \/ CaptureSnapshots \/ LoadContext \/ WriteTemporary \/ ReplaceJournal
    \/ AppendRefused \/ ValidateSnapshots \/ WriteCopies
    \/ RecheckBefore \/ RecheckAfter \/ RecoveryCrash

RecInit == Init /\ RecoveryInit

RecNext ==
    \/ Next /\ UNCHANGED recoveryVars
    \/ RecoveryNext

RecSpec == RecInit /\ [][RecNext]_allVars

-----------------------------------------------------------------------------
(* A published BUILT recovery names exactly the rows that exist, although  *)
(* its snapshots may be old and the forward may have committed late.       *)
RecoveredVerifiedIsBuilt ==
    jstate = "NB_FORWARD_RECOVERED_VERIFIED" =>
        rows # 0 /\ attempts[Len(attempts)].proof.uuids = rows

(* A published CLEAN recovery is right when its older snapshot was begun   *)
(* after the client inside the container had ended.                        *)
SettledCleanIsClean ==
    /\ jstate = "NB_FORWARD_RECOVERED_CLEAN"
    /\ attempts[Len(attempts)].proof.age = "settled"
    => rows = 0

(* A recovered state in the journal is backed by the last attempt, whose   *)
(* number no other attempt bears (whatever crashed in between, no files    *)
(* are taken for another attempt's), and by its three files.               *)
RecoveredIsBacked ==
    jstate \in RECOVERED_STATES =>
        /\ attempts # <<>>
        /\ attempts[Len(attempts)].state = jstate
        /\ \A i \in 1 .. Len(attempts) - 1 : attempts[i].number < attempts[Len(attempts)].number
        /\ \A k \in Kinds : <<attempts[Len(attempts)].number, k>> \in copies

(* "Keep the global state recoverable if the process crashes during this   *)
(* reconciliation write" (x05-nb-recovery.py:669): no crash may leave a    *)
(* recoverable journal that every later recover() refuses to append to.    *)
CrashLeavesRecoverable == rpc = "idle" /\ jstate \in RECOVERABLE_STATES => ~tmp

(* What stands is never taken back.  A published outcome is final: only    *)
(* the recovery that published it may, when its own recheck fails, turn it *)
(* into BLOCKED; a verified forward is never replaced by an attempt, as    *)
(* long as recover() does not run beside the adapter (nothing in it        *)
(* prevents that: with Concurrent = TRUE this fails); and no artifact      *)
(* event of the adapter's journal is ever dropped.                         *)
NothingTakenBack ==
    [][ /\ (jstate \in RECOVERED_STATES /\ jstate' # jstate) =>
              /\ jstate' = "NB_FORWARD_RECOVERY_BLOCKED"
              /\ Len(attempts') = Len(attempts)
        /\ jstate = "NB_FORWARD_VERIFIED" => jstate' \notin RecoveryStates
        /\ jarts' >= jarts ]_allVars
=============================================================================

------------------------------ MODULE Northbound ------------------------------
(***************************************************************************)
(* The OVN Northbound database as the X05 toolchain uses it: the 34 rows   *)
(* that carry the run's owner token, the complete port set of the DCI      *)
(* logical switch (ls-dci-tenant), and the two guarded OVSDB transactions  *)
(* (forward and inverse) that x05-nb-tx.py builds.  A transaction is       *)
(* handed to an ovsdb-client process that runs inside the OVN central      *)
(* container; that process outlives the adapter that started it, so a      *)
(* transaction whose answer was given up may still commit later.           *)
(***************************************************************************)
EXTENDS Naturals

CONSTANTS
    PortSets,       \* the values the A switch's port set may take, the
                    \* X05 sentinel left out
    MaxInsertions   \* bound: how often a forward transaction may commit

ASSUME PortSetsAssumption == PortSets # {}
ASSUME MaxInsertionsAssumption == MaxInsertions \in Nat \ {0}

VARIABLES
    rows,           \* 0: no owned row exists; g > 0: all 34 exist, with the
                    \* UUIDs that the g-th committed forward assigned
    aPorts,         \* A's port set without the X05 sentinel; the sentinel is
                    \* attached exactly when rows # 0, by the same transactions
    insertions,     \* number of forward commits so far (assigns fresh UUIDs)
    client          \* client[p]: the in-container ovsdb-client of phase p

nbVars == <<rows, aPorts, insertions, client>>

Phases == {"forward", "inverse"}

(* "running": the server may still commit it; "gone": it died unprocessed. *)
ClientStates == {"none", "running", "applied", "refused", "gone"}

(* What a client carries: the port set its guard waits for, and the UUID   *)
(* generation it deletes (inverse) or, once applied, created (forward).    *)
Client == [st : ClientStates, ports : PortSets, rows : Nat]

NorthboundTypeOK ==
    /\ rows \in Nat
    /\ aPorts \in PortSets
    /\ insertions \in Nat
    /\ client \in [Phases -> Client]

NorthboundInit ==
    /\ rows = 0
    /\ aPorts \in PortSets
    /\ insertions = 0
    /\ client = [p \in Phases |-> [st |-> "none", ports |-> aPorts, rows |-> 0]]

-----------------------------------------------------------------------------
(* The wait operations of build(): A's complete port set is the one that   *)
(* the preflight saw and no planned name exists yet.                       *)
ForwardGuard(tx) == aPorts = tx.ports /\ rows = 0

(* The wait operations of build_inverse(): A's set is the original plus    *)
(* the sentinel, and every owned row still has its captured UUID.          *)
InverseGuard(tx) == aPorts = tx.ports /\ rows = tx.rows /\ rows # 0

(* The server commits the forward transaction: 34 inserts and the attach   *)
(* of the sentinel, in one step, with fresh UUIDs.                         *)
CommitForward ==
    /\ client["forward"].st = "running"
    /\ ForwardGuard(client["forward"])
    /\ insertions < MaxInsertions
    /\ insertions' = insertions + 1
    /\ rows' = insertions + 1
    /\ client' = [client EXCEPT !["forward"] =
                     [st |-> "applied", ports |-> @.ports, rows |-> insertions + 1]]
    /\ UNCHANGED aPorts

(* The server commits the inverse: detach the sentinel, delete the rows.   *)
CommitInverse ==
    /\ client["inverse"].st = "running"
    /\ InverseGuard(client["inverse"])
    /\ rows' = 0
    /\ client' = [client EXCEPT !["inverse"].st = "applied"]
    /\ UNCHANGED <<aPorts, insertions>>

(* A wait with timeout 0 that does not hold refuses the whole transaction. *)
Refuse(p) ==
    /\ client[p].st = "running"
    /\ IF p = "forward" THEN ~ForwardGuard(client[p]) ELSE ~InverseGuard(client[p])
    /\ client' = [client EXCEPT ![p].st = "refused"]
    /\ UNCHANGED <<rows, aPorts, insertions>>

(* The container's client dies before the server took the transaction.     *)
LoseClient(p) ==
    /\ client[p].st = "running"
    /\ client' = [client EXCEPT ![p].st = "gone"]
    /\ UNCHANGED <<rows, aPorts, insertions>>

(* Another writer of the same database changes A's switch.                 *)
ForeignWrite ==
    /\ aPorts' \in PortSets \ {aPorts}
    /\ UNCHANGED <<rows, insertions, client>>

ServerStep(p) ==
    \/ p = "forward" /\ CommitForward
    \/ p = "inverse" /\ CommitInverse
    \/ Refuse(p)

NorthboundNext ==
    \/ \E p \in Phases : ServerStep(p) \/ LoseClient(p)
    \/ ForeignWrite

(* docker exec hands the transaction to a new client.                      *)
Hand(p, ports, uuids) ==
    client' = [client EXCEPT ![p] = [st |-> "running", ports |-> ports, rows |-> uuids]]

(***************************************************************************)
(* What a full snapshot shows.  It is a series of table reads, so an early *)
(* table (first) and a late one (last) may come from different states; the *)
(* nb_cfg counter read around them does not move with these transactions.  *)
(***************************************************************************)
Snapshot == [first : Nat, last : Nat, ports : PortSets]

(* x05-nb-postflight --built and the BUILT outcome of the recovery.        *)
ShowsBuilt(s, ports, uuids) ==
    uuids # 0 /\ s.first = uuids /\ s.last = uuids /\ s.ports = ports

(* x05-nb-postflight --clean and the CLEAN outcome of the recovery.        *)
ShowsClean(s, ports) == s.first = 0 /\ s.last = 0 /\ s.ports = ports
=============================================================================

----------------------------- MODULE RuntimeApply -----------------------------
(***************************************************************************)
(* The runtime builder (x05-runtime-apply.py): the object that turns an    *)
(* admitted plan into containers, links, namespaces, OVS ports, FRR        *)
(* instances and Northbound rows, and that removes exactly those again.    *)
(* Every change is one effect: announced in the journal and to the         *)
(* admission producer, dispatched, its outcome recorded, read back, and    *)
(* the reading kept as the identity the removal will insist on.  One       *)
(* effect that is not verified ends the builder's work for good: what is   *)
(* left is described by the journal and by the X05 marker.  Module Capture *)
(* adds the capture session that runs between build and compensation.      *)
(***************************************************************************)
EXTENDS Naturals, Sequences, FiniteSets

CONSTANTS
    KernelDatapath,     \* OVS attaches a port by enslaving its link to ovs-system
    ForeignThings       \* what another tool may remove or replace

ASSUME DatapathAssumption == KernelDatapath \in BOOLEAN

VARIABLES
    (* the laboratory *)
    world,      \* the attributes of each thing; none: it does not exist
    lsp,        \* the switch of the B port
    late,       \* the effect whose caller gave up and whose tool still runs
    touched,    \* history: the things another tool has removed or replaced
    swapped,    \* ... since the last identity check of the current effect
    (* the marker file and the journals *)
    marker,     \* <<state, number of capture successors>> on disk
    journal,    \* how many effect intents, outcomes and readbacks are durable
    removal,    \* what the journal says of the marker's removal
    (* RuntimeBuilder *)
    state, unknown,
    known,      \* _marker_bytes: the marker as the builder last wrote it
    trusted,    \* journal and producer agree with the builder's memory
    bound,      \* _bindings: the captured identities
    bRestore,   \* the B port's place when the runtime was built
    pc, at, step, answer,
    (* the capture session as the builder sees it, driven by module Capture *)
    capture, published, packet, ownership, released

labVars == <<world, lsp, late, touched, swapped>>
diskVars == <<marker, journal, removal>>
builderVars == <<state, unknown, known, trusted, bound, bRestore>>
flowVars == <<pc, at, step, answer>>
captureView == <<capture, published, packet, ownership, released>>
runtimeVars == <<labVars, diskVars, builderVars, flowVars, captureView>>

-----------------------------------------------------------------------------
(* The planned resources.                                                  *)
Attachments == {"client-eth1", "client-eth2", "peer-eth1"}
Gateways == {"gw300", "gw400"}
Sentinels == {"a", "b"}
PeerLinks == {"vrf-x05-peer", "br-x05-peer", "vxlan-x05-pr", "evpn-x05-pr"}
ChassisLinks == {"br-x05-b", "vxlan-x05-b", "evpn-x05-b"}

Veth(x) == <<"veth", x>>            \* the end that becomes an OVS port
Inner(x) == <<"inner", x>>          \* the other end, in a gateway or a sentinel
Port(x) == <<"port", x>>
Netns(x) == <<"netns", x>>
Link(x) == <<"link", x>>
Container(x) == <<"container", x>>
Frr(x) == <<"frr", x>>
Ids(x) == <<"ids", x>>
Rows == <<"nb", "rows">>
Vrf(x) == <<"vrf", x>>

Mutable ==
    {Veth(x) : x \in Attachments \cup Gateways \cup Sentinels}
    \cup {Port(x) : x \in Attachments \cup Gateways \cup Sentinels}
    \cup {Inner(x) : x \in Gateways \cup Sentinels}
    \cup {Netns(x) : x \in Sentinels}
    \cup {Link(x) : x \in PeerLinks \cup ChassisLinks}
    \cup {Container(x) : x \in {"client", "peer"}}
    \cup {Frr(x) : x \in Gateways \cup {"client", "chassis", "peer"}}
    \cup {Ids(x) : x \in {"mapping", "local-ip"}}
Generated == {Vrf(x) : x \in Gateways \cup {"x05-b"}}
Things == Mutable \cup Generated \cup {Rows}

(* An attachment is one resource, its links and its port; the client's FRR *)
(* belongs to the client container.                                        *)
Resource(t) ==
    CASE t[1] \in {"veth", "port"} /\ t[2] \in Attachments -> <<"attachment", t[2]>>
      [] t = Frr("client") -> Container("client")
      [] OTHER -> t

BASE_MUTABLE_IDS == {Resource(t) : t \in Mutable}

(* What goes with a thing that is removed: the other end of a veth pair,   *)
(* the links in a namespace, the processes in a container.                 *)
Fallout(t) ==
    {t} \cup
    CASE t[1] = "veth" -> {Inner(t[2])}
      [] t[1] = "netns" -> {Inner(t[2]), Veth(t[2])}
      [] t = Container("client") ->
             {Frr("client"), Veth("client-eth1"), Veth("client-eth2")}
      [] t = Container("peer") ->
             {Frr("peer"), Veth("peer-eth1")} \cup {Link(x) : x \in PeerLinks}
      [] OTHER -> {}

Attributes == {"made", "mtu", "up", "host-mtu", "host-up", "mac", "master", "address",
               "route", "moved", "loopback", "file", "staged", "running", "applied",
               "remove-file", "ovs-system", "foreign"}

-----------------------------------------------------------------------------
(* What a reading of the laboratory shows.                                 *)
Exists(t) == world[t] # {}
Foreign(t) == "foreign" \in world[t]
Ours == {t \in Mutable \cup {Rows} : Exists(t) /\ ~Foreign(t)}

(* _link_read and its siblings: a link that is an OVS port of a kernel     *)
(* datapath has ovs-system as its master.                                  *)
Enslaved(t) ==
    KernelDatapath /\ t[1] = "veth" /\ Exists(t) /\ Exists(Port(t[2]))
Observed(t) == world[t] \cup {a \in {"ovs-system"} : Enslaved(t)}

(* _link_identity: everything but the flags and the routes. *)
Identity(attributes) == attributes \ {"up", "host-up", "route"}
Unchanged(t) == Identity(Observed(t)) = Identity(bound[t])

-----------------------------------------------------------------------------
(* Effects.  `check' is what is read just before the intent, `guard' what  *)
(* the tool itself enforces when it runs, at whatever time that is, `adds' *)
(* and `dels' the attributes that the things in `of' get and lose.         *)
Effect(of, check, guard, adds, dels) ==
    [of |-> of, check |-> check, guard |-> guard, adds |-> adds, dels |-> dels]

(* A helper makes the links in a namespace of its own, gives them the      *)
(* owner's alias there and then moves them to where they belong.           *)
Publish(ts) == Effect(ts, "absent", "fresh", {"made"}, {})

(* A link is configured by its name; what is there afterwards is kept as   *)
(* its identity.                                                           *)
Configure(t, attribute) == Effect({t}, "none", "exists", {attribute}, {})
SetMtu(t, a) == Configure(t, a)
SetLinkUp(t, a) == Configure(t, a)
SetMaster(t) == Configure(t, "master")
SetMac(t) == Configure(t, "mac")
AddAddress(t) == Configure(t, "address")
ReplaceDefaultRoute(t) == Configure(t, "route")

(* A port is added if there is none, and its removal waits for the very    *)
(* rows that were captured.                                                *)
AddOvsPort(x) == Effect({Port(x)}, "none", "fresh", {"made"}, {})
RemoveOvsPort(x) == Effect({Port(x)}, "bound", "identity", {}, Attributes)

CreateNetns(x) == Effect({Netns(x)}, "none", "fresh", {"made"}, {})
MoveLinkToNetns(x) == Effect({Inner(x), Veth(x)}, "none", "exists", {"moved"}, {})
LoopbackUp(x) == Configure(Netns(x), "loopback")
DeleteNetns(x) == Effect({Netns(x)}, "bound", "exists", {}, Attributes)

(* Links are deleted by name after a reading of their identity.            *)
DeleteLinks(ts) == Effect(ts, "bound", "exists", {}, Attributes)
DeleteAttachment(x) == DeleteLinks({Veth(x)})
DeleteVethPair(x) == DeleteLinks({Veth(x), Inner(x)})
DeleteSingleLink(x) == DeleteLinks({Link(x)})

(* A container is removed by its ID, with all that runs inside it.         *)
CreateContainer(x) == Effect({Container(x)}, "absent", "fresh", {"made"}, {})
RemoveContainer(x) == Effect({Container(x)}, "bound", "identity", {}, Attributes)
ConfigureClientLoopback == Configure(Container("client"), "address")

ChangeExternalIds(inverse) ==
    LET ids == {Ids("mapping"), Ids("local-ip")} IN
    IF inverse THEN Effect(ids, "bound", "identity", {}, Attributes)
    ELSE Effect(ids, "absent", "fresh", {"made"}, {})

ForwardNB == Effect({Rows}, "none", "fresh", {"made"}, {})
InverseNB == Effect({Rows}, "none", "rows", {}, Attributes)

FrrStep(x, check, adds, dels) == Effect({Frr(x)}, check, "any", adds, dels)
CopyFixture(x, a) == FrrStep(x, "none", {a}, {})
RemoveFixture(x, a) == FrrStep(x, "none", {}, {a})

(* Waiting for northd, which makes and removes its VRFs in its own time.   *)
Await(g) == Effect({g}, "await", "none", {"made"}, {})
Gone(g) == Effect({g}, "await", "none", {}, Attributes)

-----------------------------------------------------------------------------
(* The two programs.                                                       *)
BuildAttachment(x) ==
    << Publish({Veth(x)}), SetMtu(Veth(x), "host-mtu"), SetLinkUp(Veth(x), "host-up"),
       SetMtu(Veth(x), "mtu"), SetLinkUp(Veth(x), "up"), AddAddress(Veth(x)),
       AddOvsPort(x) >>

BuildGatewayMirror(g) ==
    << Publish({Veth(g), Inner(g)}), SetLinkUp(Veth(g), "up"), SetMaster(Inner(g)),
       SetMac(Inner(g)), SetLinkUp(Inner(g), "up"), AddAddress(Inner(g)), AddOvsPort(g) >>

BuildSentinel(s) ==
    << CreateNetns(s), Publish({Veth(s), Inner(s)}), MoveLinkToNetns(s), LoopbackUp(s),
       SetLinkUp(Veth(s), "up"), SetMac(Inner(s)), SetLinkUp(Inner(s), "up"),
       AddAddress(Inner(s)), ReplaceDefaultRoute(Inner(s)), AddOvsPort(s) >>

BuildOwnedLink(x, how) ==
    << Publish({Link(x)}) >> \o [i \in 1 .. Len(how) |-> Configure(Link(x), how[i])]

BuildChassisNetwork ==
    BuildOwnedLink("br-x05-b", <<"master", "mac", "up">>)
    \o BuildOwnedLink("vxlan-x05-b", <<"master", "up">>)
    \o BuildOwnedLink("evpn-x05-b", <<"master", "up">>)

BuildPeerNetwork ==
    BuildOwnedLink("vrf-x05-peer", <<"up">>)
    \o BuildOwnedLink("br-x05-peer", <<"master", "up", "address">>)
    \o BuildOwnedLink("vxlan-x05-pr", <<"master", "up">>)
    \o BuildOwnedLink("evpn-x05-pr", <<"master", "up">>)

(* The extension is staged in a file, checked, applied, and the file of    *)
(* its withdrawal left ready.                                              *)
ApplyGatewayFrr(g) ==
    << CopyFixture(g, "file"), FrrStep(g, "none", {"applied"}, {}),
       RemoveFixture(g, "file"), CopyFixture(g, "remove-file") >>

RemoveGatewayFrr(g) ==
    << FrrStep(g, "bound", {}, {"applied"}), RemoveFixture(g, "remove-file") >>

StartFrr(x) ==
    (IF x = "client" THEN <<>> ELSE << FrrStep(x, "none", {"staged"}, {}) >>)
    \o << CopyFixture(x, "file"), FrrStep(x, "none", {"staged"}, {}),
          FrrStep(x, "none", {"running"}, {}) >>

StopFrr(x) ==
    << FrrStep(x, "bound", {}, {"running"}), RemoveFixture(x, "file") >>
    \o (IF x = "client" THEN <<>> ELSE << FrrStep(x, "none", {}, {"staged"}) >>)

BuildProgram ==
    << ForwardNB, Await(Vrf("gw300")), Await(Vrf("gw400")), Await(Vrf("x05-b")),
       CreateContainer("client") >>
    \o BuildAttachment("client-eth1") \o BuildAttachment("client-eth2")
    \o << ConfigureClientLoopback >>
    \o BuildGatewayMirror("gw300") \o BuildGatewayMirror("gw400")
    \o BuildSentinel("a") \o BuildSentinel("b")
    \o BuildChassisNetwork
    \o << CreateContainer("peer") >> \o BuildAttachment("peer-eth1") \o BuildPeerNetwork
    \o << ChangeExternalIds(FALSE) >>
    \o ApplyGatewayFrr("gw300") \o ApplyGatewayFrr("gw400")
    \o StartFrr("client") \o StartFrr("chassis") \o StartFrr("peer")

CompensateProgram ==
    RemoveGatewayFrr("gw300") \o RemoveGatewayFrr("gw400")
    \o StopFrr("client") \o StopFrr("chassis") \o StopFrr("peer")
    \o << RemoveOvsPort("a"), DeleteVethPair("a"), DeleteNetns("a"),
          RemoveOvsPort("b"), DeleteVethPair("b"), DeleteNetns("b"),
          RemoveOvsPort("client-eth1"), RemoveOvsPort("client-eth2"),
          RemoveOvsPort("peer-eth1"),
          DeleteAttachment("client-eth1"), DeleteAttachment("client-eth2"),
          DeleteAttachment("peer-eth1"), RemoveContainer("client"),
          DeleteSingleLink("evpn-x05-pr"), DeleteSingleLink("vxlan-x05-pr"),
          DeleteSingleLink("br-x05-peer"), DeleteSingleLink("vrf-x05-peer"),
          RemoveContainer("peer"),
          RemoveOvsPort("gw300"), DeleteVethPair("gw300"),
          RemoveOvsPort("gw400"), DeleteVethPair("gw400"),
          DeleteSingleLink("evpn-x05-b"), DeleteSingleLink("vxlan-x05-b"),
          DeleteSingleLink("br-x05-b"),
          ChangeExternalIds(TRUE), InverseNB,
          Gone(Vrf("x05-b")), Gone(Vrf("gw300")), Gone(Vrf("gw400")) >>

NoEffect == Effect({}, "none", "none", {}, {})
Program == IF pc = "build" THEN BuildProgram ELSE CompensateProgram
Current == IF pc \in {"build", "compensate"} THEN Program[step] ELSE NoEffect

RuntimeInit ==
    /\ world = [t \in Things |-> {}] /\ lsp = "none" /\ late = NoEffect /\ touched = {} /\ swapped = {}
    /\ marker = <<"none", 0>>
    /\ journal = [intents |-> 0, outcomes |-> 0, readbacks |-> 0]
    /\ removal = "none"
    /\ state = "ADMITTED" /\ unknown = FALSE /\ known = <<"none", 0>>
    /\ trusted = TRUE /\ bound = world /\ bRestore = "none"
    /\ pc = "ready" /\ at = "check" /\ step = 1 /\ answer = "none"
    /\ capture = "none" /\ published = "none" /\ packet = "PENDING"
    /\ ownership = "PENDING" /\ released = FALSE

-----------------------------------------------------------------------------
(* The journal and the producer.  An append or a publication that raises   *)
(* may have reached the disk; the builder's memory is then behind it, and  *)
(* no later check of the journal passes.                                   *)
Recorded(kind) ==
    /\ journal' = [journal EXCEPT ![kind] = @ + 1]
    /\ UNCHANGED trusted

NotRecorded(kind) ==
    \/ UNCHANGED <<journal, trusted>>
    \/ journal' = [journal EXCEPT ![kind] = @ + 1] /\ trusted' \in {trusted, FALSE}

(* _verify_authority *)
Authority == trusted /\ marker = known

(* _verify_stopped_captures: whatever the packets are worth, every child   *)
(* was reaped by its creator, and the marker says so.                      *)
CapturesStopped ==
    capture = "STOPPED" /\ published = "STOPPED" /\ ownership = "PASS"

(* An exception ends the public operation: the runtime is never built or   *)
(* removed half.                                                           *)
Abort ==
    /\ unknown' = TRUE
    /\ state' = CASE pc \in {"marker-dir", "marker-intent", "build", "verify",
                             "marker-built"} -> "FAILED"
                  [] pc = "f-complete" -> "TERMINAL_UNKNOWN"
                  [] OTHER -> "CLEANUP_FAILED"
    /\ pc' = "ready" /\ at' = "check" /\ answer' = "none"
    /\ UNCHANGED step

-----------------------------------------------------------------------------
(* The steps of one effect.                                                *)
EffectPhases == {"marker-dir", "marker-intent", "build", "marker-built", "compensate"}

(* Mutant: an identity is captured once and never compared again. *)
Mutant_Checked_AbsenceOnly(e) ==
    e.check = "absent" => \A t \in e.of : ~Exists(t)

Checked(e) ==
    /\ e.check = "absent" => \A t \in e.of : ~Exists(t)
    /\ e.check = "bound" => \A t \in e.of : Exists(t) /\ Unchanged(t)

(* Mutant: the effect is handed over before its intent is durable. *)
Mutant_Announce_NotDurable ==
    /\ pc \in EffectPhases /\ at = "check" /\ Current.check # "await"
    /\ Authority /\ ~unknown
    /\ Checked(Current)
    /\ at' = "act" /\ swapped' = {}
    /\ UNCHANGED <<world, lsp, late, touched, diskVars, builderVars, pc, step, answer,
                   captureView>>

(* _effect, _local_effect and _library_effect up to the intent, with the   *)
(* reading that precedes the effect.                                       *)
Announce ==
    /\ pc \in EffectPhases /\ at = "check" /\ Current.check # "await"
    /\ Authority /\ ~unknown
    /\ Checked(Current)
    /\ Recorded("intents")
    /\ at' = "act" /\ swapped' = {}
    /\ UNCHANGED <<world, lsp, late, touched, marker, removal, state, unknown, known, bound,
                   bRestore, pc, step, answer, captureView>>

AnnounceFails ==
    /\ pc \in EffectPhases /\ at = "check" /\ Current.check # "await"
    /\ NotRecorded("intents")
    /\ Abort
    /\ UNCHANGED <<labVars, marker, removal, known, bound, bRestore, captureView>>

(* What the tool insists on when it runs. *)
Accepts(e) ==
    CASE e.guard = "fresh" -> \A t \in e.of : ~Exists(t)
      [] e.guard = "exists" -> \A t \in e.of : Exists(t)
      [] e.guard = "identity" -> \A t \in e.of : Exists(t) /\ Unchanged(t)
      [] e.guard = "rows" -> Exists(Rows) /\ lsp = "B"
      [] OTHER -> TRUE

(* What an effect changes, if it reaches only `some' of its things. *)
Reached(e, some) ==
    IF e.dels = Attributes THEN UNION {Fallout(t) : t \in some} ELSE some
Perform(e, some) ==
    /\ Accepts(e)
    /\ world' = [t \in Things |-> IF t \in Reached(e, some)
                                 THEN (world[t] \cup e.adds) \ e.dels ELSE world[t]]
    /\ lsp' = CASE e = ForwardNB -> "B" [] e = InverseNB -> "none" [] OTHER -> lsp

(* A tool that fails may have done a part of its work. *)
PerformPart(e) ==
    \/ UNCHANGED <<world, lsp>>
    \/ \E some \in SUBSET e.of \ {{}, e.of} : Perform(e, some)

Dispatch ==
    /\ pc \in {"build", "compensate"} /\ at = "act"
    /\ \/ Perform(Current, Current.of) /\ answer' = "ok"
       \/ PerformPart(Current) /\ answer' = "error"
    /\ at' = "outcome"
    /\ UNCHANGED <<late, touched, swapped, diskVars, builderVars, pc, step, captureView>>

(* The command's outcome is unknown: a timeout, an unreadable result, a    *)
(* changed binding.  Its tool may go on.  UNKNOWN is recorded if it can be.*)
DispatchLost ==
    /\ pc \in {"build", "compensate"} /\ at = "act"
    /\ NotRecorded("outcomes")
    /\ \/ Perform(Current, Current.of) /\ UNCHANGED late
       \/ PerformPart(Current) /\ UNCHANGED late
       \/ UNCHANGED <<world, lsp>> /\ late' = Current
    /\ Abort
    /\ UNCHANGED <<touched, swapped, marker, removal, known, bound, bRestore, captureView>>

Outcome ==
    /\ pc \in EffectPhases /\ at = "outcome"
    /\ Authority
    /\ \/ answer = "ok" /\ Recorded("outcomes") /\ at' = "readback" /\ answer' = "none"
          /\ UNCHANGED <<pc, step, state, unknown>>
       \/ answer = "error" /\ Recorded("outcomes") /\ Abort
       \/ NotRecorded("outcomes") /\ Abort
    /\ UNCHANGED <<labVars, marker, removal, known, bound, bRestore, captureView>>

(* What each postcondition reads.  The owner's token is part of what a new *)
(* link, port, container or map shows, not of a new namespace.             *)
ReadsBack(e) ==
    /\ \A t \in e.of : e.adds \subseteq world[t] /\ e.dels \cap world[t] = {}
    /\ e.guard = "fresh" => \A t \in e.of : t[1] = "netns" \/ ~Foreign(t)

(* Mutant: only what is new is kept as an identity. *)
Mutant_Captured_Once(ts) ==
    [t \in Things |-> IF t \in ts /\ bound[t] = {} THEN Observed(t) ELSE bound[t]]

Captured(ts) == [t \in Things |-> IF t \in ts THEN Observed(t) ELSE bound[t]]

Advance ==
    /\ at' = "check"
    /\ IF step < Len(Program) THEN step' = step + 1 /\ UNCHANGED pc
       ELSE step' = 1 /\ pc' = IF pc = "build" THEN "verify" ELSE "absence"

Readback ==
    /\ pc \in {"build", "compensate"} /\ at = "readback"
    /\ Authority
    /\ ReadsBack(Current)
    /\ Recorded("readbacks")
    /\ bound' = Captured(Current.of)
    /\ Advance
    /\ UNCHANGED <<labVars, marker, removal, state, unknown, known, bRestore, answer,
                   captureView>>

ReadbackFails ==
    /\ pc \in EffectPhases /\ at = "readback"
    /\ NotRecorded("readbacks")
    /\ Abort
    /\ UNCHANGED <<labVars, marker, removal, known, bound, bRestore, captureView>>

(* Mutant: northd is waited for without a limit. *)
Mutant_Poll_Forever ==
    /\ pc \in {"build", "compensate"} /\ at = "check" /\ Current.check = "await"
    /\ ReadsBack(Current) /\ bound' = Captured(Current.of) /\ Advance
    /\ UNCHANGED <<labVars, diskVars, state, unknown, known, trusted, bRestore, answer,
                   captureView>>

(* _wait_generated_vrf and _wait_generated_absent: at most 40 polls. *)
Poll ==
    /\ pc \in {"build", "compensate"} /\ at = "check" /\ Current.check = "await"
    /\ \/ ReadsBack(Current) /\ bound' = Captured(Current.of) /\ Advance
          /\ UNCHANGED <<state, unknown, answer>>
       \/ Abort /\ UNCHANGED bound
    /\ UNCHANGED <<labVars, diskVars, known, trusted, bRestore, captureView>>

-----------------------------------------------------------------------------
(* build                                                                   *)
Build ==
    /\ pc = "ready" /\ state = "ADMITTED"
    /\ \/ pc' = "marker-dir" /\ UNCHANGED <<state, unknown, trusted>>
       \/ pc' = "ready" /\ state' = "FAILED" /\ unknown' = TRUE /\ trusted' \in BOOLEAN
    /\ UNCHANGED <<labVars, diskVars, known, bound, bRestore, at, step, answer, captureView>>

NextMarker ==
    CASE pc = "marker-dir" -> <<"dir", 0>>
      [] pc = "marker-intent" -> <<"INTENT", 0>>
      [] pc = "marker-built" -> <<"BUILT", 0>>

(* _create_journal_and_marker, _publish_built_marker: the directory is     *)
(* made, the marker created, and later replaced, by one durable local      *)
(* effect each.                                                            *)
WriteMarker ==
    /\ pc \in {"marker-dir", "marker-intent", "marker-built"} /\ at = "act"
    /\ marker' = NextMarker /\ known' = NextMarker
    /\ at' = "outcome" /\ answer' = "ok"
    /\ UNCHANGED <<labVars, journal, removal, state, unknown, trusted, bound, bRestore, pc,
                   step, captureView>>

WriteMarkerFails ==
    /\ pc \in {"marker-dir", "marker-intent", "marker-built"} /\ at = "act"
    /\ marker' \in {marker, NextMarker}
    /\ Abort
    /\ UNCHANGED <<labVars, journal, removal, known, trusted, bound, bRestore, captureView>>

(* Mutant: the build starts on the marker's directory alone. *)
Mutant_MarkerVerified_IntentSkipped ==
    /\ pc \in {"marker-dir", "marker-intent", "marker-built"} /\ at = "readback"
    /\ marker = known
    /\ Recorded("readbacks")
    /\ at' = "check"
    /\ pc' = IF pc = "marker-dir" THEN "build" ELSE "ready"
    /\ state' = IF pc = "marker-dir" THEN "INTENT" ELSE "BUILT"
    /\ UNCHANGED <<labVars, marker, removal, unknown, known, bound, bRestore, step, answer,
                   captureView>>

MarkerVerified ==
    /\ pc \in {"marker-dir", "marker-intent", "marker-built"} /\ at = "readback"
    /\ marker = known
    /\ Recorded("readbacks")
    /\ at' = "check"
    /\ pc' = CASE pc = "marker-dir" -> "marker-intent"
               [] pc = "marker-intent" -> "build"
               [] OTHER -> "ready"
    /\ state' = CASE pc = "marker-intent" -> "INTENT"
                  [] pc = "marker-built" -> "BUILT"
                  [] OTHER -> state
    /\ UNCHANGED <<labVars, marker, removal, unknown, known, bound, bRestore, step, answer,
                   captureView>>

OwnerChecked(t) == t[1] \in {"veth", "inner", "link", "port", "container", "ids"}

(* _verify_complete_runtime: every frozen resource is bound, and every     *)
(* binding is what a fresh reading shows.                                  *)
RuntimeComplete ==
    /\ {Resource(t) : t \in {u \in Mutable : bound[u] # {}}} = BASE_MUTABLE_IDS
    /\ \A t \in Mutable : Unchanged(t) /\ (OwnerChecked(t) => ~Foreign(t))
    /\ \A t \in Generated : Exists(t) /\ Unchanged(t)

Verify ==
    /\ pc = "verify"
    /\ \/ Authority /\ RuntimeComplete /\ bRestore' = lsp /\ pc' = "marker-built"
          /\ UNCHANGED <<at, step, answer, state, unknown>>
       \/ Abort /\ UNCHANGED bRestore
    /\ UNCHANGED <<labVars, diskVars, known, trusted, bound, captureView>>

-----------------------------------------------------------------------------
(* compensate                                                              *)
Compensate ==
    /\ pc = "ready" /\ state = "BUILT" /\ ~unknown
    /\ Authority
    /\ CapturesStopped
    /\ lsp = bRestore
    /\ state' = "COMPENSATING" /\ pc' = "compensate" /\ step' = 1
    /\ UNCHANGED <<labVars, diskVars, unknown, known, trusted, bound, bRestore, at, answer,
                   captureView>>

(* _runtime_absence_readback, with the generated VRFs: whatever bears a    *)
(* planned name is found, whoever made it.                                 *)
RuntimeAbsent == \A t \in Things : ~Exists(t)

FinalAbsence ==
    /\ pc = "absence"
    /\ \/ Authority /\ CapturesStopped /\ RuntimeAbsent
          /\ state' = "COMPENSATED" /\ pc' = "ready"
          /\ UNCHANGED <<at, step, answer, unknown>>
       \/ Abort
    /\ UNCHANGED <<labVars, diskVars, known, trusted, bound, bRestore, captureView>>

-----------------------------------------------------------------------------
(* _finalize_x05_cleanup                                                   *)
Finalize ==
    /\ pc = "ready" /\ state = "COMPENSATED"
    /\ \/ /\ Authority /\ ~unknown
          /\ CapturesStopped /\ packet = "PASS"
          /\ RuntimeAbsent
          /\ pc' = "f-m03" /\ UNCHANGED <<at, step, answer, state, unknown>>
       \/ Abort
    /\ UNCHANGED <<labVars, diskVars, known, trusted, bound, bRestore, captureView>>

(* The M03 lab is verified with labctl under an intent of its own. *)
VerifyM03 ==
    /\ pc = "f-m03"
    /\ \/ Recorded("outcomes") /\ pc' = "f-release"
          /\ UNCHANGED <<at, step, answer, state, unknown>>
       \/ NotRecorded("outcomes") /\ Abort
    /\ UNCHANGED <<labVars, marker, removal, known, bound, bRestore, captureView>>

RemoveIntent ==
    /\ pc = "f-remove"
    /\ \/ Authority /\ released /\ removal' = "intent" /\ pc' = "f-unlink"
          /\ UNCHANGED <<at, step, answer, state, unknown, trusted>>
       \/ removal' \in {"none", "intent"} /\ trusted' \in BOOLEAN /\ Abort
    /\ UNCHANGED <<labVars, marker, journal, known, bound, bRestore, captureView>>

Unlink ==
    /\ pc = "f-unlink"
    /\ \/ marker = known /\ marker' = <<"none", 0>> /\ pc' = "f-complete"
          /\ UNCHANGED <<at, step, answer, state, unknown>>
       \/ Abort /\ UNCHANGED marker
    /\ UNCHANGED <<labVars, journal, removal, known, trusted, bound, bRestore, captureView>>

Complete ==
    /\ pc = "f-complete"
    /\ \/ removal' = "complete" /\ state' = "X05_CLEANED" /\ pc' = "ready"
          /\ UNCHANGED <<at, step, answer, unknown, trusted>>
       \/ removal' \in {"intent", "complete"} /\ trusted' \in BOOLEAN /\ Abort
    /\ UNCHANGED <<labVars, marker, journal, known, bound, bRestore, captureView>>

-----------------------------------------------------------------------------
(* Around the builder.                                                     *)
LateEffect ==
    /\ late # NoEffect
    /\ \/ Perform(late, late.of)
       \/ ~Accepts(late) /\ UNCHANGED <<world, lsp>>
    /\ late' = NoEffect
    /\ UNCHANGED <<touched, swapped, diskVars, builderVars, flowVars, captureView>>

(* ovn-northd makes a VRF for every router it finds, and removes it. *)
Northd ==
    /\ \E g \in Generated :
          /\ Exists(Rows) # Exists(g)
          /\ world' = [world EXCEPT ![g] = IF Exists(Rows) THEN {"made"} ELSE {}]
    /\ UNCHANGED <<lsp, late, touched, swapped, diskVars, builderVars, flowVars, captureView>>

(* The coordinator moves the B port to A and back between build and        *)
(* compensation.                                                           *)
MovePort ==
    /\ pc = "ready" /\ state = "BUILT"
    /\ lsp' = IF lsp = "A" THEN "B" ELSE "A"
    /\ UNCHANGED <<world, late, touched, swapped, diskVars, builderVars, flowVars,
                   captureView>>

(* Another tool removes a thing, or puts one of its own in its place. *)
Interfere ==
    /\ touched = {} /\ state \in {"INTENT", "BUILT", "COMPENSATING"}
    /\ \E t \in ForeignThings :
          /\ \E new \in {{}, {"made", "foreign"}} :
                world' = [u \in Things |-> CASE u = t -> new
                                            [] u \in Fallout(t) \ {t} -> {}
                                            [] OTHER -> world[u]]
          /\ touched' = {t} /\ swapped' = swapped \cup {t}
    /\ UNCHANGED <<lsp, late, diskVars, builderVars, flowVars, captureView>>

(* A kill needs no action: nothing takes over from a builder that is gone,  *)
(* so its behaviours are those that stop, in any state, but for what goes  *)
(* on around it.                                                           *)
BuilderStep ==
    \/ Announce \/ AnnounceFails \/ Dispatch \/ DispatchLost \/ Outcome
    \/ Readback \/ ReadbackFails \/ Poll
    \/ WriteMarker \/ WriteMarkerFails \/ MarkerVerified \/ Verify
    \/ FinalAbsence \/ VerifyM03 \/ RemoveIntent \/ Unlink \/ Complete

RuntimeNext ==
    \/ BuilderStep \/ Build \/ Compensate \/ Finalize
    \/ LateEffect \/ Northd \/ MovePort \/ Interfere

==============================================================================

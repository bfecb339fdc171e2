---------------------------- MODULE RuntimeProofs ----------------------------
(***************************************************************************)
(* What the runtime builder makes, keeps apart and tells: proofs about its *)
(* two programs of effects, for either datapath, any foreign things and    *)
(* any number of capture points.  The invariant of CaptureProofs is        *)
(* strengthened by                                                         *)
(*   Place        where in a program the builder is;                       *)
(*   Lab          the types of the readings, and whose the things are;     *)
(*   Kept         what the builder holds for its own is its own: the       *)
(*                identities it captured, and whatever it or a tool nobody *)
(*                waits for is about to remove;                            *)
(*   IntentCount  how many intents are durable at each step of a build;    *)
(*   Describes    these intents name all that exists;                      *)
(*   Built        what a build has made and read is still as it was read   *)
(*                (without a kernel datapath).                             *)
(***************************************************************************)
EXTENDS CaptureProofs

(* The shape of an effect of either program. *)
EffectSet ==
    [of : SUBSET Things, check : {"none", "absent", "bound", "await"},
     guard : {"none", "fresh", "exists", "identity", "any", "rows"},
     adds : SUBSET Attributes, dels : SUBSET Attributes]

(* What an effect of the builder is. *)
Builds(e) ==
    /\ "foreign" \notin e.adds /\ e.dels \subseteq {"file"}
    /\ \/ e.check # "await" /\ e.of \subseteq Mutable \cup {Rows}
       \/ e.check = "await" /\ e.adds = {"made"} /\ \E g \in Generated : e.of = {g}

(* What an effect of the compensation is. *)
Compensates(e) ==
    /\ e.adds = {}
    /\ \/ e.check = "await" /\ \E g \in Generated : e.of = {g}
       \/ e.check # "await" /\ e.of = {Rows} /\ e.guard = "rows"
       \/ /\ e.check = "bound" /\ e.dels = Attributes
          /\ \A t \in e.of : t \in Mutable /\ t[1] \in IF e.guard = "exists"
                THEN {"veth", "inner", "link", "netns"} ELSE {"port", "container", "ids"}
          /\ e.guard \in {"exists", "identity"}
       \/ /\ e.check # "await" /\ "foreign" \notin e.dels
          /\ \A t \in e.of : t \in Mutable /\ ~OwnerChecked(t)

BuildEffects == {e \in EffectSet : Builds(e)}
CompEffects == {e \in EffectSet : Compensates(e)}

-----------------------------------------------------------------------------
Effects(s) == {s[i] : i \in DOMAIN s}

LEMMA ConcatEffects ==
    ASSUME NEW S, NEW s \in Seq(S), NEW t \in Seq(S)
    PROVE  s \o t \in Seq(S) /\ Effects(s \o t) = Effects(s) \cup Effects(t)
<1>1. s \o t \in Seq(S) /\ Len(s \o t) = Len(s) + Len(t)
  OBVIOUS
<1>2. \A i \in 1 .. Len(s) : (s \o t)[i] = s[i]
  OBVIOUS
<1>3. \A i \in 1 .. Len(t) : (s \o t)[Len(s) + i] = t[i]
  OBVIOUS
<1>4. Effects(s \o t) \subseteq Effects(s) \cup Effects(t)
  <2> SUFFICES ASSUME NEW i \in 1 .. Len(s) + Len(t)
               PROVE  (s \o t)[i] \in Effects(s) \cup Effects(t)
    BY <1>1 DEF Effects
  <2>1. CASE i \in 1 .. Len(s)
    BY <1>2, <2>1 DEF Effects
  <2>2. CASE i \notin 1 .. Len(s)
    <3>1. i - Len(s) \in 1 .. Len(t) /\ i = Len(s) + (i - Len(s))
      BY <2>2
    <3> QED
      BY <1>3, <3>1 DEF Effects
  <2> QED
    BY <2>1, <2>2
<1>5. Effects(s) \subseteq Effects(s \o t)
  <2> SUFFICES ASSUME NEW i \in 1 .. Len(s) PROVE s[i] \in Effects(s \o t)
    BY DEF Effects
  <2>1. i \in DOMAIN (s \o t)
    BY <1>1
  <2> QED
    BY <1>2, <2>1 DEF Effects
<1>6. Effects(t) \subseteq Effects(s \o t)
  <2> SUFFICES ASSUME NEW i \in 1 .. Len(t) PROVE t[i] \in Effects(s \o t)
    BY DEF Effects
  <2>1. Len(s) + i \in DOMAIN (s \o t)
    BY <1>1
  <2> QED
    BY <1>3, <2>1 DEF Effects
<1> QED
  BY <1>1, <1>4, <1>5, <1>6

Ported == Attachments \cup Gateways \cup Sentinels

LEMMA Members ==
    /\ \A x \in Ported : Veth(x) \in Mutable /\ Port(x) \in Mutable
    /\ \A x \in Gateways \cup Sentinels : Inner(x) \in Mutable
    /\ \A x \in Sentinels : Netns(x) \in Mutable
    /\ \A x \in PeerLinks \cup ChassisLinks : Link(x) \in Mutable
    /\ Container("client") \in Mutable /\ Container("peer") \in Mutable
    /\ \A x \in Gateways \cup {"client", "chassis", "peer"} : Frr(x) \in Mutable
    /\ Ids("mapping") \in Mutable /\ Ids("local-ip") \in Mutable
  BY DEF Ported, Mutable

LEMMA EffectBuilds ==
    ASSUME NEW of \in SUBSET (Mutable \cup {Rows}), NEW check \in {"none", "absent", "bound"},
           NEW guard \in {"none", "fresh", "exists", "identity", "any", "rows"},
           NEW adds \in SUBSET (Attributes \ {"foreign"}), NEW dels \in SUBSET {"file"}
    PROVE  Effect(of, check, guard, adds, dels) \in BuildEffects
<1>1. {"file"} \subseteq Attributes
  BY DEF Attributes
<1> QED
  BY <1>1 DEF Effect, BuildEffects, EffectSet, Builds, Things

Plain == Attributes \ {"foreign"}

LEMMA BuildForms ==
    /\ \A ts \in SUBSET Mutable : Publish(ts) \in BuildEffects
    /\ \A t \in Mutable : \A a \in Plain : Configure(t, a) \in BuildEffects
    /\ \A x \in Ported : AddOvsPort(x) \in BuildEffects
    /\ \A x \in Sentinels :
         CreateNetns(x) \in BuildEffects /\ MoveLinkToNetns(x) \in BuildEffects
    /\ \A x \in {"client", "peer"} : CreateContainer(x) \in BuildEffects
    /\ ChangeExternalIds(FALSE) \in BuildEffects
    /\ ForwardNB \in BuildEffects
    /\ \A g \in Generated : Await(g) \in BuildEffects
    /\ \A x \in Gateways \cup {"client", "chassis", "peer"} : \A a \in Plain :
         /\ FrrStep(x, "none", {a}, {}) \in BuildEffects
         /\ CopyFixture(x, a) \in BuildEffects
    /\ \A x \in Gateways : RemoveFixture(x, "file") \in BuildEffects
<1>1. "made" \in Plain /\ "moved" \in Plain
  BY DEF Plain, Attributes
<1>2. \A ts \in SUBSET Mutable : Publish(ts) \in BuildEffects
  BY <1>1, EffectBuilds DEF Publish, Plain
<1>3. \A t \in Mutable : \A a \in Plain : Configure(t, a) \in BuildEffects
  BY EffectBuilds DEF Configure, Plain
<1>4. \A x \in Ported : AddOvsPort(x) \in BuildEffects
  BY <1>1, Members, EffectBuilds DEF AddOvsPort, Plain
<1>5. \A x \in Sentinels :
         CreateNetns(x) \in BuildEffects /\ MoveLinkToNetns(x) \in BuildEffects
  BY <1>1, Members, EffectBuilds DEF CreateNetns, MoveLinkToNetns, Plain, Ported
<1>6. \A x \in {"client", "peer"} : CreateContainer(x) \in BuildEffects
  BY <1>1, Members, EffectBuilds DEF CreateContainer, Plain
<1>7. ChangeExternalIds(FALSE) \in BuildEffects
  BY <1>1, Members, EffectBuilds DEF ChangeExternalIds, Plain
<1>8. ForwardNB \in BuildEffects
  BY <1>1, EffectBuilds DEF ForwardNB, Plain
<1>9. \A g \in Generated : Await(g) \in BuildEffects
  BY <1>1 DEF Await, Effect, BuildEffects, EffectSet, Builds, Things, Plain
<1>10. \A x \in Gateways \cup {"client", "chassis", "peer"} : \A a \in Plain :
         /\ FrrStep(x, "none", {a}, {}) \in BuildEffects
         /\ CopyFixture(x, a) \in BuildEffects
  BY Members, EffectBuilds DEF FrrStep, CopyFixture, Plain
<1>11. \A x \in Gateways : RemoveFixture(x, "file") \in BuildEffects
  BY Members, EffectBuilds DEF RemoveFixture, FrrStep
<1> QED
  BY <1>2, <1>3, <1>4, <1>5, <1>6, <1>7, <1>8, <1>9, <1>10, <1>11

LEMMA AttributeNames ==
    {"made", "mtu", "up", "host-mtu", "host-up", "mac", "master", "address", "route", "moved",
     "loopback", "file", "staged", "running", "applied", "remove-file"} \subseteq Plain
  BY DEF Plain, Attributes

LEMMA AttachmentBuilds ==
    ASSUME NEW x \in Attachments
    PROVE  /\ BuildAttachment(x) \in Seq(BuildEffects)
           /\ {Publish({Veth(x)}), AddOvsPort(x)} \subseteq Effects(BuildAttachment(x))
<1> DEFINE a == Publish({Veth(x)})
           b == SetMtu(Veth(x), "host-mtu")
           c == SetLinkUp(Veth(x), "host-up")
           d == SetMtu(Veth(x), "mtu")
           e == SetLinkUp(Veth(x), "up")
           f == AddAddress(Veth(x))
           g == AddOvsPort(x)
<1>1. a \in BuildEffects /\ b \in BuildEffects /\ c \in BuildEffects /\ d \in BuildEffects
      /\ e \in BuildEffects /\ f \in BuildEffects /\ g \in BuildEffects
  BY Members, AttributeNames, BuildForms DEF Ported, SetMtu, SetLinkUp, AddAddress
<1>2. BuildAttachment(x) = <<a, b, c, d, e, f, g>>
  BY DEF BuildAttachment
<1> HIDE DEF a, b, c, d, e, f, g
<1>3. <<a, b, c, d, e, f, g>> \in Seq(BuildEffects)
  BY <1>1
<1>4. {a, g} \subseteq Effects(<<a, b, c, d, e, f, g>>)
  BY DEF Effects
<1> QED
  BY <1>2, <1>3, <1>4 DEF a, g

-----------------------------------------------------------------------------
(* The parts of the build.                                                 *)
LEMMA MirrorBuilds ==
    ASSUME NEW g \in Gateways
    PROVE  /\ BuildGatewayMirror(g) \in Seq(BuildEffects)
           /\ {Publish({Veth(g), Inner(g)}), AddOvsPort(g)}
                \subseteq Effects(BuildGatewayMirror(g))
<1> DEFINE e1 == Publish({Veth(g), Inner(g)})
           e2 == SetLinkUp(Veth(g), "up")
           e3 == SetMaster(Inner(g))
           e4 == SetMac(Inner(g))
           e5 == SetLinkUp(Inner(g), "up")
           e6 == AddAddress(Inner(g))
           e7 == AddOvsPort(g)
<1>1. /\ e1 \in BuildEffects /\ e2 \in BuildEffects /\ e3 \in BuildEffects /\ e4 \in BuildEffects
      /\ e5 \in BuildEffects /\ e6 \in BuildEffects /\ e7 \in BuildEffects
  BY Members, AttributeNames, BuildForms DEF Ported, SetLinkUp, SetMaster, SetMac, AddAddress
<1>2. BuildGatewayMirror(g) = <<e1, e2, e3, e4, e5, e6, e7>>
  BY DEF BuildGatewayMirror
<1> HIDE DEF e1, e2, e3, e4, e5, e6, e7
<1>3. <<e1, e2, e3, e4, e5, e6, e7>> \in Seq(BuildEffects)
  BY <1>1
<1>4. {e1, e7} \subseteq Effects(<<e1, e2, e3, e4, e5, e6, e7>>)
  BY DEF Effects
<1> QED
  BY <1>2, <1>3, <1>4 DEF e1, e7

LEMMA SentinelBuilds ==
    ASSUME NEW s \in Sentinels
    PROVE  /\ BuildSentinel(s) \in Seq(BuildEffects)
           /\ {CreateNetns(s), Publish({Veth(s), Inner(s)}), AddOvsPort(s)}
                \subseteq Effects(BuildSentinel(s))
<1> DEFINE e1 == CreateNetns(s)
           e2 == Publish({Veth(s), Inner(s)})
           e3 == MoveLinkToNetns(s)
           e4 == LoopbackUp(s)
           e5 == SetLinkUp(Veth(s), "up")
           e6 == SetMac(Inner(s))
           e7 == SetLinkUp(Inner(s), "up")
           e8 == AddAddress(Inner(s))
           e9 == ReplaceDefaultRoute(Inner(s))
           e10 == AddOvsPort(s)
<1>1. /\ e1 \in BuildEffects /\ e2 \in BuildEffects /\ e3 \in BuildEffects /\ e4 \in BuildEffects
      /\ e5 \in BuildEffects /\ e6 \in BuildEffects /\ e7 \in BuildEffects /\ e8 \in BuildEffects
      /\ e9 \in BuildEffects /\ e10 \in BuildEffects
  BY Members, AttributeNames, BuildForms DEF Ported, LoopbackUp, SetLinkUp, SetMac, AddAddress,
         ReplaceDefaultRoute
<1>2. BuildSentinel(s) = <<e1, e2, e3, e4, e5, e6, e7, e8, e9, e10>>
  BY DEF BuildSentinel
<1> HIDE DEF e1, e2, e3, e4, e5, e6, e7, e8, e9, e10
<1>3. <<e1, e2, e3, e4, e5, e6, e7, e8, e9, e10>> \in Seq(BuildEffects)
  BY <1>1
<1>4. {e1, e2, e10} \subseteq Effects(<<e1, e2, e3, e4, e5, e6, e7, e8, e9, e10>>)
  BY DEF Effects
<1> QED
  BY <1>2, <1>3, <1>4 DEF e1, e2, e10

LEMMA OwnedLinkBuilds ==
    ASSUME NEW x \in PeerLinks \cup ChassisLinks, NEW how \in Seq(Plain)
    PROVE  /\ BuildOwnedLink(x, how) \in Seq(BuildEffects)
           /\ Publish({Link(x)}) \in Effects(BuildOwnedLink(x, how))
<1> DEFINE e1 == Publish({Link(x)})
           e2 == [i \in 1 .. Len(how) |-> Configure(Link(x), how[i])]
<1>1. e1 \in BuildEffects
  BY Members, BuildForms
<1>2. \A i \in 1 .. Len(how) : Configure(Link(x), how[i]) \in BuildEffects
  BY Members, BuildForms
<1>3. e2 \in Seq(BuildEffects)
  BY <1>2
<1>4. BuildOwnedLink(x, how) = <<e1>> \o e2
  BY DEF BuildOwnedLink
<1> HIDE DEF e1, e2
<1> DEFINE s == <<e1>>
<1>5. s \in Seq(BuildEffects) /\ e1 \in Effects(s)
  BY <1>1 DEF Effects
<1> HIDE DEF s
<1>6. s \o e2 \in Seq(BuildEffects) /\ e1 \in Effects(s \o e2)
  BY <1>3, <1>5, ConcatEffects
<1> QED
  BY <1>4, <1>6 DEF e1, s

LEMMA ChassisBuilds ==
    /\ BuildChassisNetwork \in Seq(BuildEffects)
    /\ \A x \in ChassisLinks : Publish({Link(x)}) \in Effects(BuildChassisNetwork)
<1> DEFINE a == BuildOwnedLink("br-x05-b", <<"master", "mac", "up">>)
           b == BuildOwnedLink("vxlan-x05-b", <<"master", "up">>)
           c == BuildOwnedLink("evpn-x05-b", <<"master", "up">>)
           p == a \o b
           q == p \o c
           L(x) == Publish({Link(x)})
<1>1. <<"master", "mac", "up">> \in Seq(Plain) /\ <<"master", "up">> \in Seq(Plain)
  BY AttributeNames
<1>2. a \in Seq(BuildEffects) /\ L("br-x05-b") \in Effects(a)
  BY <1>1, OwnedLinkBuilds DEF ChassisLinks
<1>3. b \in Seq(BuildEffects) /\ L("vxlan-x05-b") \in Effects(b)
  BY <1>1, OwnedLinkBuilds DEF ChassisLinks
<1>4. c \in Seq(BuildEffects) /\ L("evpn-x05-b") \in Effects(c)
  BY <1>1, OwnedLinkBuilds DEF ChassisLinks
<1>5. BuildChassisNetwork = q
  BY DEF BuildChassisNetwork
<1> HIDE DEF a, b, c, L
<1>6. p \in Seq(BuildEffects) /\ Effects(p) = Effects(a) \cup Effects(b)
  BY <1>2, <1>3, ConcatEffects
<1> HIDE DEF p
<1>7. q \in Seq(BuildEffects) /\ Effects(q) = Effects(p) \cup Effects(c)
  BY <1>4, <1>6, ConcatEffects
<1> HIDE DEF q
<1>8. \A x \in ChassisLinks : L(x) \in Effects(q)
  BY <1>2, <1>3, <1>4, <1>6, <1>7 DEF ChassisLinks
<1> QED
  BY <1>5, <1>7, <1>8 DEF L

LEMMA PeerBuilds ==
    /\ BuildPeerNetwork \in Seq(BuildEffects)
    /\ \A x \in PeerLinks : Publish({Link(x)}) \in Effects(BuildPeerNetwork)
<1> DEFINE a == BuildOwnedLink("vrf-x05-peer", <<"up">>)
           b == BuildOwnedLink("br-x05-peer", <<"master", "up", "address">>)
           c == BuildOwnedLink("vxlan-x05-pr", <<"master", "up">>)
           d == BuildOwnedLink("evpn-x05-pr", <<"master", "up">>)
           p == a \o b
           q == p \o c
           r == q \o d
           L(x) == Publish({Link(x)})
<1>1. <<"up">> \in Seq(Plain) /\ <<"master", "up", "address">> \in Seq(Plain)
      /\ <<"master", "up">> \in Seq(Plain)
  BY AttributeNames
<1>2. a \in Seq(BuildEffects) /\ L("vrf-x05-peer") \in Effects(a)
  BY <1>1, OwnedLinkBuilds DEF PeerLinks
<1>3. b \in Seq(BuildEffects) /\ L("br-x05-peer") \in Effects(b)
  BY <1>1, OwnedLinkBuilds DEF PeerLinks
<1>4. c \in Seq(BuildEffects) /\ L("vxlan-x05-pr") \in Effects(c)
  BY <1>1, OwnedLinkBuilds DEF PeerLinks
<1>5. d \in Seq(BuildEffects) /\ L("evpn-x05-pr") \in Effects(d)
  BY <1>1, OwnedLinkBuilds DEF PeerLinks
<1>6. BuildPeerNetwork = r
  BY DEF BuildPeerNetwork
<1> HIDE DEF a, b, c, d, L
<1>7. p \in Seq(BuildEffects) /\ Effects(p) = Effects(a) \cup Effects(b)
  BY <1>2, <1>3, ConcatEffects
<1> HIDE DEF p
<1>8. q \in Seq(BuildEffects) /\ Effects(q) = Effects(p) \cup Effects(c)
  BY <1>4, <1>7, ConcatEffects
<1> HIDE DEF q
<1>9. r \in Seq(BuildEffects) /\ Effects(r) = Effects(q) \cup Effects(d)
  BY <1>5, <1>8, ConcatEffects
<1> HIDE DEF r
<1>10. \A x \in PeerLinks : L(x) \in Effects(r)
  BY <1>2, <1>3, <1>4, <1>5, <1>7, <1>8, <1>9 DEF PeerLinks
<1> QED
  BY <1>6, <1>9, <1>10 DEF L

LEMMA GatewayFrrBuilds ==
    ASSUME NEW g \in Gateways
    PROVE  /\ ApplyGatewayFrr(g) \in Seq(BuildEffects)
           /\ {FrrStep(g, "none", {"applied"}, {})}
                \subseteq Effects(ApplyGatewayFrr(g))
<1> DEFINE e1 == CopyFixture(g, "file")
           e2 == FrrStep(g, "none", {"applied"}, {})
           e3 == RemoveFixture(g, "file")
           e4 == CopyFixture(g, "remove-file")
<1>1. /\ e1 \in BuildEffects /\ e2 \in BuildEffects /\ e3 \in BuildEffects /\ e4 \in BuildEffects
  BY Members, AttributeNames, BuildForms
<1>2. ApplyGatewayFrr(g) = <<e1, e2, e3, e4>>
  BY DEF ApplyGatewayFrr
<1> HIDE DEF e1, e2, e3, e4
<1>3. <<e1, e2, e3, e4>> \in Seq(BuildEffects)
  BY <1>1
<1>4. {e2} \subseteq Effects(<<e1, e2, e3, e4>>)
  BY DEF Effects
<1> QED
  BY <1>2, <1>3, <1>4 DEF e2

LEMMA FrrBuilds ==
    ASSUME NEW x \in {"client", "chassis", "peer"}
    PROVE  /\ StartFrr(x) \in Seq(BuildEffects)
           /\ FrrStep(x, "none", {"running"}, {}) \in Effects(StartFrr(x))
<1> DEFINE e1 == FrrStep(x, "none", {"staged"}, {})
           e2 == CopyFixture(x, "file")
           e3 == FrrStep(x, "none", {"running"}, {})
           a == IF x = "client" THEN <<>> ELSE <<e1>>
           b == <<e2, e1, e3>>
<1>1. e1 \in BuildEffects /\ e2 \in BuildEffects /\ e3 \in BuildEffects
  BY AttributeNames, BuildForms
<1>2. StartFrr(x) = a \o b
  BY DEF StartFrr
<1> HIDE DEF e1, e2, e3
<1>3. a \in Seq(BuildEffects) /\ b \in Seq(BuildEffects)
  BY <1>1
<1>4. e3 \in Effects(b)
  BY DEF Effects
<1> HIDE DEF a, b
<1> QED
  BY <1>2, <1>3, <1>4, ConcatEffects DEF e3

-----------------------------------------------------------------------------
(* The build as a whole.                                                   *)
Opening ==
    << ForwardNB, Await(Vrf("gw300")), Await(Vrf("gw400")), Await(Vrf("x05-b")),
       CreateContainer("client") >>

LEMMA ConcatFirst ==
    ASSUME NEW S, NEW s \in Seq(S), NEW t \in Seq(S), Len(s) >= 1
    PROVE  Len(s \o t) >= 1 /\ (s \o t)[1] = s[1]
  OBVIOUS

Opened(s) == s \in Seq(BuildEffects) /\ Len(s) >= 1 /\ s[1] = ForwardNB

LEMMA Continued ==
    ASSUME NEW s, Opened(s), NEW t \in Seq(BuildEffects)
    PROVE  Opened(s \o t) /\ Effects(s \o t) = Effects(s) \cup Effects(t)
<1>1. s \in Seq(BuildEffects) /\ Len(s) >= 1 /\ s[1] = ForwardNB
  BY DEF Opened
<1>2. Len(s \o t) >= 1 /\ (s \o t)[1] = s[1]
  BY <1>1, ConcatFirst
<1>3. s \o t \in Seq(BuildEffects) /\ Effects(s \o t) = Effects(s) \cup Effects(t)
  BY <1>1, ConcatEffects
<1> QED
  BY <1>1, <1>2, <1>3 DEF Opened

LEMMA OpeningBuilds ==
    /\ Opening \in Seq(BuildEffects)
    /\ {ForwardNB, Await(Vrf("gw300")), Await(Vrf("gw400")), Await(Vrf("x05-b")),
        CreateContainer("client")}
         \subseteq Effects(Opening)
<1> DEFINE e1 == ForwardNB
           e2 == Await(Vrf("gw300"))
           e3 == Await(Vrf("gw400"))
           e4 == Await(Vrf("x05-b"))
           e5 == CreateContainer("client")
<1>1. /\ e1 \in BuildEffects /\ e2 \in BuildEffects /\ e3 \in BuildEffects /\ e4 \in BuildEffects
      /\ e5 \in BuildEffects
  BY Members, AttributeNames, BuildForms DEF Generated, Gateways
<1>2. Opening = <<e1, e2, e3, e4, e5>>
  BY DEF Opening
<1> HIDE DEF e1, e2, e3, e4, e5
<1>3. <<e1, e2, e3, e4, e5>> \in Seq(BuildEffects)
  BY <1>1
<1>4. {e1, e2, e3, e4, e5} \subseteq Effects(<<e1, e2, e3, e4, e5>>)
  BY DEF Effects
<1> QED
  BY <1>2, <1>3, <1>4 DEF e1, e2, e3, e4, e5

Parts ==
    {Opening, BuildAttachment("client-eth1"), BuildAttachment("client-eth2"),
     <<ConfigureClientLoopback>>, BuildGatewayMirror("gw300"), BuildGatewayMirror("gw400"),
     BuildSentinel("a"), BuildSentinel("b"), BuildChassisNetwork,
     <<CreateContainer("peer")>>, BuildAttachment("peer-eth1"), BuildPeerNetwork,
     <<ChangeExternalIds(FALSE)>>, ApplyGatewayFrr("gw300"), ApplyGatewayFrr("gw400"),
     StartFrr("client"), StartFrr("chassis"), StartFrr("peer")}

LEMMA PartsBuild == Parts \subseteq Seq(BuildEffects)
<1> DEFINE a == ConfigureClientLoopback
           b == CreateContainer("peer")
           c == ChangeExternalIds(FALSE)
<1>1. a \in BuildEffects /\ b \in BuildEffects /\ c \in BuildEffects
  <2>1. "address" \in Plain
    BY AttributeNames
  <2>2. a \in BuildEffects
    BY <2>1, Members, BuildForms DEF ConfigureClientLoopback
  <2> QED
    BY <2>2, BuildForms
<1> HIDE DEF a, b, c
<1>2. <<a>> \in Seq(BuildEffects) /\ <<b>> \in Seq(BuildEffects)
      /\ <<c>> \in Seq(BuildEffects)
  BY <1>1
<1>3. \A x \in Attachments : BuildAttachment(x) \in Seq(BuildEffects)
  BY AttachmentBuilds
<1>4. \A g \in Gateways : BuildGatewayMirror(g) \in Seq(BuildEffects)
  BY MirrorBuilds
<1>5. \A s \in Sentinels : BuildSentinel(s) \in Seq(BuildEffects)
  BY SentinelBuilds
<1>6. \A g \in Gateways : ApplyGatewayFrr(g) \in Seq(BuildEffects)
  BY GatewayFrrBuilds
<1>7. \A x \in {"client", "chassis", "peer"} : StartFrr(x) \in Seq(BuildEffects)
  BY FrrBuilds
<1> QED
  BY <1>2, <1>3, <1>4, <1>5, <1>6, <1>7, OpeningBuilds, ChassisBuilds, PeerBuilds
     DEF Parts, Attachments, Gateways, Sentinels, a, b, c

LEMMA BuildProgramParts ==
    /\ Opened(BuildProgram)
    /\ \A s \in Parts : Effects(s) \subseteq Effects(BuildProgram)
<1> DEFINE s0 == Opening
           s1 == BuildAttachment("client-eth1")
           s2 == BuildAttachment("client-eth2")
           s3 == <<ConfigureClientLoopback>>
           s4 == BuildGatewayMirror("gw300")
           s5 == BuildGatewayMirror("gw400")
           s6 == BuildSentinel("a")
           s7 == BuildSentinel("b")
           s8 == BuildChassisNetwork
           s9 == <<CreateContainer("peer")>>
           s10 == BuildAttachment("peer-eth1")
           s11 == BuildPeerNetwork
           s12 == <<ChangeExternalIds(FALSE)>>
           s13 == ApplyGatewayFrr("gw300")
           s14 == ApplyGatewayFrr("gw400")
           s15 == StartFrr("client")
           s16 == StartFrr("chassis")
           s17 == StartFrr("peer")
           p1 == s0 \o s1
           p2 == p1 \o s2
           p3 == p2 \o s3
           p4 == p3 \o s4
           p5 == p4 \o s5
           p6 == p5 \o s6
           p7 == p6 \o s7
           p8 == p7 \o s8
           p9 == p8 \o s9
           p10 == p9 \o s10
           p11 == p10 \o s11
           p12 == p11 \o s12
           p13 == p12 \o s13
           p14 == p13 \o s14
           p15 == p14 \o s15
           p16 == p15 \o s16
           p17 == p16 \o s17
<1>1. BuildProgram = p17
  BY DEF BuildProgram, Opening
<1>2. Parts = {s0, s1, s2, s3, s4, s5, s6, s7, s8, s9, s10, s11, s12, s13, s14, s15, s16, s17}
  BY DEF Parts
<1>3. Opened(s0)
  <2>1. s0 \in Seq(BuildEffects)
    BY PartsBuild, <1>2
  <2>2. Len(s0) = 5 /\ s0[1] = ForwardNB
    BY DEF Opening
  <2> QED
    BY <2>1, <2>2 DEF Opened
<1> HIDE DEF s0, s1, s2, s3, s4, s5, s6, s7, s8, s9, s10, s11, s12, s13, s14, s15, s16, s17
<1>4. /\ s1 \in Seq(BuildEffects) /\ s2 \in Seq(BuildEffects) /\ s3 \in Seq(BuildEffects)
      /\ s4 \in Seq(BuildEffects) /\ s5 \in Seq(BuildEffects) /\ s6 \in Seq(BuildEffects)
      /\ s7 \in Seq(BuildEffects) /\ s8 \in Seq(BuildEffects) /\ s9 \in Seq(BuildEffects)
      /\ s10 \in Seq(BuildEffects) /\ s11 \in Seq(BuildEffects) /\ s12 \in Seq(BuildEffects)
      /\ s13 \in Seq(BuildEffects) /\ s14 \in Seq(BuildEffects) /\ s15 \in Seq(BuildEffects)
      /\ s16 \in Seq(BuildEffects) /\ s17 \in Seq(BuildEffects)
  BY <1>2, PartsBuild
<1>5. Opened(p1) /\ Effects(p1) = Effects(s0) \cup Effects(s1)
  BY <1>3, <1>4, Continued
<1> HIDE DEF p1
<1>6. Opened(p2) /\ Effects(p2) = Effects(p1) \cup Effects(s2)
  BY <1>5, <1>4, Continued
<1> HIDE DEF p2
<1>7. Opened(p3) /\ Effects(p3) = Effects(p2) \cup Effects(s3)
  BY <1>6, <1>4, Continued
<1> HIDE DEF p3
<1>8. Opened(p4) /\ Effects(p4) = Effects(p3) \cup Effects(s4)
  BY <1>7, <1>4, Continued
<1> HIDE DEF p4
<1>9. Opened(p5) /\ Effects(p5) = Effects(p4) \cup Effects(s5)
  BY <1>8, <1>4, Continued
<1> HIDE DEF p5
<1>10. Opened(p6) /\ Effects(p6) = Effects(p5) \cup Effects(s6)
  BY <1>9, <1>4, Continued
<1> HIDE DEF p6
<1>11. Opened(p7) /\ Effects(p7) = Effects(p6) \cup Effects(s7)
  BY <1>10, <1>4, Continued
<1> HIDE DEF p7
<1>12. Opened(p8) /\ Effects(p8) = Effects(p7) \cup Effects(s8)
  BY <1>11, <1>4, Continued
<1> HIDE DEF p8
<1>13. Opened(p9) /\ Effects(p9) = Effects(p8) \cup Effects(s9)
  BY <1>12, <1>4, Continued
<1> HIDE DEF p9
<1>14. Opened(p10) /\ Effects(p10) = Effects(p9) \cup Effects(s10)
  BY <1>13, <1>4, Continued
<1> HIDE DEF p10
<1>15. Opened(p11) /\ Effects(p11) = Effects(p10) \cup Effects(s11)
  BY <1>14, <1>4, Continued
<1> HIDE DEF p11
<1>16. Opened(p12) /\ Effects(p12) = Effects(p11) \cup Effects(s12)
  BY <1>15, <1>4, Continued
<1> HIDE DEF p12
<1>17. Opened(p13) /\ Effects(p13) = Effects(p12) \cup Effects(s13)
  BY <1>16, <1>4, Continued
<1> HIDE DEF p13
<1>18. Opened(p14) /\ Effects(p14) = Effects(p13) \cup Effects(s14)
  BY <1>17, <1>4, Continued
<1> HIDE DEF p14
<1>19. Opened(p15) /\ Effects(p15) = Effects(p14) \cup Effects(s15)
  BY <1>18, <1>4, Continued
<1> HIDE DEF p15
<1>20. Opened(p16) /\ Effects(p16) = Effects(p15) \cup Effects(s16)
  BY <1>19, <1>4, Continued
<1> HIDE DEF p16
<1>21. Opened(p17) /\ Effects(p17) = Effects(p16) \cup Effects(s17)
  BY <1>20, <1>4, Continued
<1> HIDE DEF p17
<1> QED
  BY <1>1, <1>2, <1>5, <1>6, <1>7, <1>8, <1>9, <1>10, <1>11, <1>12, <1>13, <1>14, <1>15, <1>16,
         <1>17, <1>18, <1>19, <1>20, <1>21

Makes(e, t) == t \in e.of /\ e.check # "await" /\ e.adds \ {"file"} # {}

(* Everything that is planned is made, and every VRF of northd awaited. *)
LEMMA BuildCovers ==
    /\ BuildProgram \in Seq(BuildEffects)
    /\ Len(BuildProgram) >= 1 /\ BuildProgram[1] = ForwardNB
    /\ \A t \in Mutable \cup {Rows} : \E i \in DOMAIN BuildProgram : Makes(BuildProgram[i], t)
    /\ \A g \in Generated : \E i \in DOMAIN BuildProgram : BuildProgram[i] = Await(g)
<1> DEFINE E == Effects(BuildProgram)
<1>1. /\ BuildProgram \in Seq(BuildEffects)
      /\ Len(BuildProgram) >= 1 /\ BuildProgram[1] = ForwardNB
  BY BuildProgramParts DEF Opened
<1>2. \A e \in E : \E i \in DOMAIN BuildProgram : BuildProgram[i] = e
  BY DEF Effects
<1>3. \A s \in Parts : Effects(s) \subseteq E
  BY BuildProgramParts
<1> HIDE DEF E
<1>4. \A x \in Attachments : Publish({Veth(x)}) \in E /\ AddOvsPort(x) \in E
  BY <1>3, AttachmentBuilds DEF Parts, Attachments
<1>5. \A g \in Gateways : /\ Publish({Veth(g), Inner(g)}) \in E /\ AddOvsPort(g) \in E
                         /\ FrrStep(g, "none", {"applied"}, {}) \in E
  BY <1>3, MirrorBuilds, GatewayFrrBuilds DEF Parts, Gateways
<1>6. \A s \in Sentinels : /\ CreateNetns(s) \in E /\ Publish({Veth(s), Inner(s)}) \in E
                          /\ AddOvsPort(s) \in E
  BY <1>3, SentinelBuilds DEF Parts, Sentinels
<1>7. \A x \in PeerLinks \cup ChassisLinks : Publish({Link(x)}) \in E
  BY <1>3, ChassisBuilds, PeerBuilds DEF Parts
<1>8. \A x \in {"client", "chassis", "peer"} : FrrStep(x, "none", {"running"}, {}) \in E
  BY <1>3, FrrBuilds DEF Parts
<1>9. /\ ForwardNB \in E /\ Await(Vrf("gw300")) \in E /\ Await(Vrf("gw400")) \in E
      /\ Await(Vrf("x05-b")) \in E /\ CreateContainer("client") \in E
  BY <1>3, OpeningBuilds DEF Parts
<1>10. CreateContainer("peer") \in E /\ ChangeExternalIds(FALSE) \in E
  <2> DEFINE a == CreateContainer("peer")
             b == ChangeExternalIds(FALSE)
  <2>1. <<a>> \in Parts /\ <<b>> \in Parts
    BY DEF Parts
  <2> HIDE DEF a, b
  <2>2. a \in Effects(<<a>>) /\ b \in Effects(<<b>>)
    BY DEF Effects
  <2>3. a \in E /\ b \in E
    BY <1>3, <2>1, <2>2
  <2> QED
    BY <2>3 DEF a, b
<1>11. \A t \in Mutable \cup {Rows} : \E e \in E : Makes(e, t)
  <2> USE DEF Makes, Effect
  <2>1. \A x \in Ported : (\E e \in E : Makes(e, Veth(x))) /\ (\E e \in E : Makes(e, Port(x)))
    <3>1. \A x \in Ported : AddOvsPort(x) \in E
      BY <1>4, <1>5, <1>6 DEF Ported
    <3>2. \A x \in Ported : Makes(AddOvsPort(x), Port(x))
      BY DEF AddOvsPort
    <3>3. \A x \in Attachments : Makes(Publish({Veth(x)}), Veth(x))
      BY DEF Publish
    <3>4. \A x \in Gateways \cup Sentinels : Makes(Publish({Veth(x), Inner(x)}), Veth(x))
      BY DEF Publish
    <3> HIDE DEF Makes
    <3> QED
      BY <1>4, <1>5, <1>6, <3>1, <3>2, <3>3, <3>4 DEF Ported
  <2>2. \A x \in Gateways \cup Sentinels : \E e \in E : Makes(e, Inner(x))
    <3>1. \A x \in Gateways \cup Sentinels : Makes(Publish({Veth(x), Inner(x)}), Inner(x))
      BY DEF Publish
    <3> HIDE DEF Makes
    <3> QED
      BY <1>5, <1>6, <3>1
  <2>3. \A x \in Sentinels : \E e \in E : Makes(e, Netns(x))
    <3>1. \A x \in Sentinels : Makes(CreateNetns(x), Netns(x))
      BY DEF CreateNetns
    <3> HIDE DEF Makes
    <3> QED
      BY <1>6, <3>1
  <2>4. \A x \in PeerLinks \cup ChassisLinks : \E e \in E : Makes(e, Link(x))
    <3>1. \A x \in PeerLinks \cup ChassisLinks : Makes(Publish({Link(x)}), Link(x))
      BY DEF Publish
    <3> HIDE DEF Makes
    <3> QED
      BY <1>7, <3>1
  <2>5. \A x \in {"client", "peer"} : \E e \in E : Makes(e, Container(x))
    <3>1. \A x \in {"client", "peer"} : Makes(CreateContainer(x), Container(x))
      BY DEF CreateContainer
    <3> HIDE DEF Makes
    <3> QED
      BY <1>9, <1>10, <3>1
  <2>6. \A x \in Gateways \cup {"client", "chassis", "peer"} : \E e \in E : Makes(e, Frr(x))
    <3>1. \A x \in Gateways : Makes(FrrStep(x, "none", {"applied"}, {}), Frr(x))
      BY DEF FrrStep
    <3>2. \A x \in {"client", "chassis", "peer"} : Makes(FrrStep(x, "none", {"running"}, {}),
              Frr(x))
      BY DEF FrrStep
    <3> HIDE DEF Makes
    <3> QED
      BY <1>5, <1>8, <3>1, <3>2
  <2>7. \A x \in {"mapping", "local-ip"} : \E e \in E : Makes(e, Ids(x))
    <3>1. \A x \in {"mapping", "local-ip"} : Makes(ChangeExternalIds(FALSE), Ids(x))
      BY DEF ChangeExternalIds
    <3> HIDE DEF Makes
    <3> QED
      BY <1>10, <3>1
  <2>8. \E e \in E : Makes(e, Rows)
    <3>1. Makes(ForwardNB, Rows)
      BY DEF ForwardNB
    <3> HIDE DEF Makes
    <3> QED
      BY <1>9, <3>1
  <2> HIDE DEF Makes, Effect
  <2> QED
    BY <2>1, <2>2, <2>3, <2>4, <2>5, <2>6, <2>7, <2>8 DEF Mutable, Ported
<1>12. \A g \in Generated : Await(g) \in E
  BY <1>9 DEF Generated, Gateways
<1> QED
  BY <1>1, <1>2, <1>11, <1>12

-----------------------------------------------------------------------------
(* The compensation.                                                       *)
LEMMA AllAttributes == "foreign" \in Attributes /\ Attributes \in SUBSET Attributes
  BY DEF Attributes

LEMMA Removes ==
    ASSUME NEW of \in SUBSET Mutable, NEW guard \in {"exists", "identity"},
           \A t \in of : t[1] \in IF guard = "exists"
              THEN {"veth", "inner", "link", "netns"} ELSE {"port", "container", "ids"}
    PROVE  Effect(of, "bound", guard, {}, Attributes) \in CompEffects
  BY AllAttributes DEF Effect, CompEffects, EffectSet, Compensates, Things

LEMMA Undoes ==
    ASSUME NEW x \in Gateways \cup {"client", "chassis", "peer"}, NEW check \in {"none", "bound"},
           NEW a \in Plain
    PROVE  FrrStep(x, check, {}, {a}) \in CompEffects
<1>1. Frr(x) \in Mutable /\ ~OwnerChecked(Frr(x))
  BY Members DEF OwnerChecked, Frr
<1>2. a \in Attributes /\ a # "foreign"
  BY DEF Plain
<1> QED
  BY <1>1, <1>2 DEF FrrStep, Effect, CompEffects, EffectSet, Compensates, Things

LEMMA CompForms ==
    /\ \A x \in Ported : RemoveOvsPort(x) \in CompEffects
    /\ \A x \in Gateways \cup Sentinels : DeleteVethPair(x) \in CompEffects
    /\ \A x \in Sentinels : DeleteNetns(x) \in CompEffects
    /\ \A x \in Attachments : DeleteAttachment(x) \in CompEffects
    /\ \A x \in {"client", "peer"} : RemoveContainer(x) \in CompEffects
    /\ \A x \in PeerLinks \cup ChassisLinks : DeleteSingleLink(x) \in CompEffects
    /\ ChangeExternalIds(TRUE) \in CompEffects
    /\ InverseNB \in CompEffects
    /\ \A g \in Generated : Gone(g) \in CompEffects
<1>1. \A x \in Ported : RemoveOvsPort(x) \in CompEffects
  BY Members, Removes DEF RemoveOvsPort, Port
<1>2. \A x \in Gateways \cup Sentinels : DeleteVethPair(x) \in CompEffects
  <2> SUFFICES ASSUME NEW x \in Gateways \cup Sentinels PROVE DeleteVethPair(x) \in CompEffects
    OBVIOUS
  <2>1. {Veth(x), Inner(x)} \in SUBSET Mutable
    BY Members DEF Ported
  <2>2. \A t \in {Veth(x), Inner(x)} : t[1] \in {"veth", "inner", "link", "netns"}
    BY DEF Veth, Inner
  <2> QED
    BY <2>1, <2>2, Removes DEF DeleteVethPair, DeleteLinks
<1>3. \A x \in Sentinels : DeleteNetns(x) \in CompEffects
  BY Members, Removes DEF DeleteNetns, Netns
<1>4. \A x \in Attachments : DeleteAttachment(x) \in CompEffects
  BY Members, Removes DEF DeleteAttachment, DeleteLinks, Veth, Ported
<1>5. \A x \in {"client", "peer"} : RemoveContainer(x) \in CompEffects
  BY Members, Removes DEF RemoveContainer, Container
<1>6. \A x \in PeerLinks \cup ChassisLinks : DeleteSingleLink(x) \in CompEffects
  BY Members, Removes DEF DeleteSingleLink, DeleteLinks, Link
<1>7. ChangeExternalIds(TRUE) \in CompEffects
  <2>1. {Ids("mapping"), Ids("local-ip")} \in SUBSET Mutable
    BY Members
  <2>2. \A t \in {Ids("mapping"), Ids("local-ip")} : t[1] \in {"port", "container", "ids"}
    BY DEF Ids
  <2> QED
    BY <2>1, <2>2, Removes DEF ChangeExternalIds
<1>8. InverseNB \in CompEffects
  BY AllAttributes DEF InverseNB, Effect, CompEffects, EffectSet, Compensates, Things
<1>9. \A g \in Generated : Gone(g) \in CompEffects
  BY AllAttributes DEF Gone, Effect, CompEffects, EffectSet, Compensates, Things
<1> QED
  BY <1>1, <1>2, <1>3, <1>4, <1>5, <1>6, <1>7, <1>8, <1>9

LEMMA GatewayFrrUndone ==
    ASSUME NEW g \in Gateways PROVE RemoveGatewayFrr(g) \in Seq(CompEffects)
<1> DEFINE e1 == FrrStep(g, "bound", {}, {"applied"})
           e2 == RemoveFixture(g, "remove-file")
<1>1. e1 \in CompEffects /\ e2 \in CompEffects
  BY AttributeNames, Undoes DEF RemoveFixture
<1>2. RemoveGatewayFrr(g) = <<e1, e2>>
  BY DEF RemoveGatewayFrr
<1> HIDE DEF e1, e2
<1>3. <<e1, e2>> \in Seq(CompEffects)
  BY <1>1
<1> QED
  BY <1>2, <1>3

LEMMA FrrStopped ==
    ASSUME NEW x \in {"client", "chassis", "peer"} PROVE StopFrr(x) \in Seq(CompEffects)
<1> DEFINE e1 == FrrStep(x, "bound", {}, {"running"})
           e2 == RemoveFixture(x, "file")
           e3 == FrrStep(x, "none", {}, {"staged"})
           a == <<e1, e2>>
           b == IF x = "client" THEN <<>> ELSE <<e3>>
<1>1. e1 \in CompEffects /\ e2 \in CompEffects /\ e3 \in CompEffects
  BY AttributeNames, Undoes DEF RemoveFixture
<1>2. StopFrr(x) = a \o b
  BY DEF StopFrr
<1> HIDE DEF e1, e2, e3
<1>3. a \in Seq(CompEffects) /\ b \in Seq(CompEffects)
  BY <1>1
<1> HIDE DEF a, b
<1> QED
  BY <1>2, <1>3, ConcatEffects

Closing ==
    << RemoveOvsPort("a"), DeleteVethPair("a"), DeleteNetns("a"),
       RemoveOvsPort("b"), DeleteVethPair("b"), DeleteNetns("b"),
       RemoveOvsPort("client-eth1"), RemoveOvsPort("client-eth2"),
       RemoveOvsPort("peer-eth1"),
       DeleteAttachment("client-eth1"), DeleteAttachment("client-eth2"),
       DeleteAttachment("peer-eth1"), RemoveContainer("client"),
       DeleteSingleLink("evpn-x05-pr"), DeleteSingleLink("vxlan-x05-pr"),
       DeleteSingleLink("br-x05-peer"), DeleteSingleLink("vrf-x05-peer"),
       RemoveContainer("peer"),
       RemoveOvsPort("gw300"), DeleteVethPair("gw300"),
       RemoveOvsPort("gw400"), DeleteVethPair("gw400"),
       DeleteSingleLink("evpn-x05-b"), DeleteSingleLink("vxlan-x05-b"),
       DeleteSingleLink("br-x05-b"),
       ChangeExternalIds(TRUE), InverseNB,
       Gone(Vrf("x05-b")), Gone(Vrf("gw300")), Gone(Vrf("gw400")) >>

LEMMA ClosingUndoes == Closing \in Seq(CompEffects)
<1> DEFINE e1 == RemoveOvsPort("a")
           e2 == DeleteVethPair("a")
           e3 == DeleteNetns("a")
           e4 == RemoveOvsPort("b")
           e5 == DeleteVethPair("b")
           e6 == DeleteNetns("b")
           e7 == RemoveOvsPort("client-eth1")
           e8 == RemoveOvsPort("client-eth2")
           e9 == RemoveOvsPort("peer-eth1")
           e10 == DeleteAttachment("client-eth1")
           e11 == DeleteAttachment("client-eth2")
           e12 == DeleteAttachment("peer-eth1")
           e13 == RemoveContainer("client")
           e14 == DeleteSingleLink("evpn-x05-pr")
           e15 == DeleteSingleLink("vxlan-x05-pr")
           e16 == DeleteSingleLink("br-x05-peer")
           e17 == DeleteSingleLink("vrf-x05-peer")
           e18 == RemoveContainer("peer")
           e19 == RemoveOvsPort("gw300")
           e20 == DeleteVethPair("gw300")
           e21 == RemoveOvsPort("gw400")
           e22 == DeleteVethPair("gw400")
           e23 == DeleteSingleLink("evpn-x05-b")
           e24 == DeleteSingleLink("vxlan-x05-b")
           e25 == DeleteSingleLink("br-x05-b")
           e26 == ChangeExternalIds(TRUE)
           e27 == InverseNB
           e28 == Gone(Vrf("x05-b"))
           e29 == Gone(Vrf("gw300"))
           e30 == Gone(Vrf("gw400"))
<1>1. /\ e1 \in CompEffects /\ e2 \in CompEffects /\ e3 \in CompEffects /\ e4 \in CompEffects
      /\ e5 \in CompEffects /\ e6 \in CompEffects /\ e7 \in CompEffects /\ e8 \in CompEffects
      /\ e9 \in CompEffects /\ e10 \in CompEffects /\ e11 \in CompEffects /\ e12 \in CompEffects
      /\ e13 \in CompEffects /\ e14 \in CompEffects /\ e15 \in CompEffects /\ e16 \in CompEffects
      /\ e17 \in CompEffects /\ e18 \in CompEffects /\ e19 \in CompEffects /\ e20 \in CompEffects
      /\ e21 \in CompEffects /\ e22 \in CompEffects /\ e23 \in CompEffects /\ e24 \in CompEffects
      /\ e25 \in CompEffects /\ e26 \in CompEffects /\ e27 \in CompEffects /\ e28 \in CompEffects
      /\ e29 \in CompEffects /\ e30 \in CompEffects
  BY CompForms DEF Ported, Attachments, Gateways, Sentinels, PeerLinks, ChassisLinks, Generated
<1>2. Closing = <<e1, e2, e3, e4, e5, e6, e7, e8, e9, e10, e11, e12, e13, e14, e15, e16, e17,
                      e18, e19, e20, e21, e22, e23, e24, e25, e26, e27, e28, e29, e30>>
  BY DEF Closing
<1> HIDE DEF e1, e2, e3, e4, e5, e6, e7, e8, e9, e10, e11, e12, e13, e14, e15, e16, e17, e18,
                 e19, e20, e21, e22, e23, e24, e25, e26, e27, e28, e29, e30
<1>3. <<e1, e2, e3, e4, e5, e6, e7, e8, e9, e10, e11, e12, e13, e14, e15, e16, e17, e18, e19,
            e20, e21, e22, e23, e24, e25, e26, e27, e28, e29, e30>> \in Seq(CompEffects)
  BY <1>1
<1> QED
  BY <1>2, <1>3

LEMMA CompensateEffects ==
    CompensateProgram \in Seq(CompEffects) /\ Len(CompensateProgram) >= 1
<1> DEFINE s0 == RemoveGatewayFrr("gw300")
           s1 == RemoveGatewayFrr("gw400")
           s2 == StopFrr("client")
           s3 == StopFrr("chassis")
           s4 == StopFrr("peer")
           s5 == Closing
           p1 == s0 \o s1
           p2 == p1 \o s2
           p3 == p2 \o s3
           p4 == p3 \o s4
           p5 == p4 \o s5
<1>1. CompensateProgram = p5
  BY DEF CompensateProgram, Closing
<1>2. s0 \in Seq(CompEffects) /\ s1 \in Seq(CompEffects) /\ s2 \in Seq(CompEffects)
      /\ s3 \in Seq(CompEffects) /\ s4 \in Seq(CompEffects) /\ s5 \in Seq(CompEffects)
  BY GatewayFrrUndone, FrrStopped, ClosingUndoes DEF Gateways
<1>9. Len(s5) >= 1
  BY DEF Closing
<1> HIDE DEF s0, s1, s2, s3, s4, s5
<1>3. p1 \in Seq(CompEffects)
  BY <1>2, ConcatEffects
<1> HIDE DEF p1
<1>4. p2 \in Seq(CompEffects)
  BY <1>2, <1>3, ConcatEffects
<1> HIDE DEF p2
<1>5. p3 \in Seq(CompEffects)
  BY <1>2, <1>4, ConcatEffects
<1> HIDE DEF p3
<1>6. p4 \in Seq(CompEffects)
  BY <1>2, <1>5, ConcatEffects
<1> HIDE DEF p4
<1>7. p5 \in Seq(CompEffects)
  BY <1>2, <1>6, ConcatEffects
<1> HIDE DEF p5
<1>8. Len(p4 \o s5) >= 1
  BY <1>2, <1>6, <1>9
<1> QED
  BY <1>1, <1>7, <1>8 DEF p5

-----------------------------------------------------------------------------
(* How many intents a build has made durable, and what they name.          *)
Last == IntentOf[Len(BuildProgram)]

(* One intent for each effect that is announced, after those of the marker. *)
LEMMA IntentsGrow ==
    /\ IntentOf \in [0 .. Len(BuildProgram) -> Nat]
    /\ IntentOf[0] = 2
    /\ \A i \in 1 .. Len(BuildProgram) :
         IntentOf[i] = IntentOf[i - 1] + (IF Announces(i) THEN 1 ELSE 0)
    /\ \A i \in 0 .. Len(BuildProgram) : IntentOf[i] <= Last
<1> DEFINE N == Len(BuildProgram)
           A(i) == {j \in 1 .. i : Announces(j)}
<1>1. N \in Nat
  BY BuildCovers
<1>2. \A i \in 0 .. N : IntentOf[i] = 2 + Cardinality(A(i))
  BY DEF IntentOf
<1>3. \A i \in 0 .. N : IsFiniteSet(A(i)) /\ Cardinality(A(i)) \in Nat
  <2> SUFFICES ASSUME NEW i \in 0 .. N PROVE IsFiniteSet(A(i)) /\ Cardinality(A(i)) \in Nat
    OBVIOUS
  <2>1. IsFiniteSet(1 .. i)
    BY <1>1, FS_Interval
  <2> QED
    BY <2>1, FS_Subset, FS_CardinalityType
<1>4. A(0) = {}
  OBVIOUS
<1>5. IntentOf = [i \in 0 .. N |-> 2 + Cardinality(A(i))]
  BY DEF IntentOf
<1>6. \A i \in 1 .. N : /\ A(i) = IF Announces(i) THEN A(i - 1) \cup {i} ELSE A(i - 1)
                        /\ i \notin A(i - 1)
  BY <1>1
<1>7. \A i \in 0 .. N : A(i) \subseteq A(N)
  BY <1>1
<1> HIDE DEF A
<1>8. IntentOf \in [0 .. N -> Nat] /\ IntentOf[0] = 2
  BY <1>1, <1>3, <1>4, <1>5, FS_EmptySet
<1>9. \A i \in 1 .. N : IntentOf[i] = IntentOf[i - 1] + (IF Announces(i) THEN 1 ELSE 0)
  <2> SUFFICES ASSUME NEW i \in 1 .. N
               PROVE  IntentOf[i] = IntentOf[i - 1] + (IF Announces(i) THEN 1 ELSE 0)
    OBVIOUS
  <2>1. i - 1 \in 0 .. N /\ i \in 0 .. N
    BY <1>1
  <2>2. Announces(i) => Cardinality(A(i)) = Cardinality(A(i - 1)) + 1
    BY <1>3, <1>6, <2>1, FS_AddElement
  <2>3. ~Announces(i) => Cardinality(A(i)) = Cardinality(A(i - 1))
    BY <1>6
  <2> QED
    BY <1>2, <1>3, <2>1, <2>2, <2>3
<1>10. \A i \in 0 .. N : IntentOf[i] <= IntentOf[N]
  <2> SUFFICES ASSUME NEW i \in 0 .. N PROVE IntentOf[i] <= IntentOf[N]
    OBVIOUS
  <2>1. N \in 0 .. N
    BY <1>1
  <2>2. Cardinality(A(i)) <= Cardinality(A(N))
    BY <1>3, <1>7, <2>1, FS_Subset
  <2> QED
    BY <1>2, <1>3, <2>1, <2>2
<1> QED
  BY <1>8, <1>9, <1>10 DEF Last

LEMMA LastIsNat == Last \in Nat /\ Last >= 2
<1>1. Len(BuildProgram) \in Nat
  BY BuildCovers
<1> QED
  BY <1>1, IntentsGrow DEF Last

LEMMA DescribedGrows ==
    /\ DOMAIN Described = 0 .. Last
    /\ \A k \in 0 .. Last : \A m \in k .. Last : Described[k] \subseteq Described[m]
    /\ \A i \in 1 .. Len(BuildProgram) :
         Announces(i) => BuildProgram[i].of \subseteq Described[IntentOf[i]]
<1> DEFINE D(k) == UNION {BuildProgram[i].of :
                            i \in {j \in DOMAIN BuildProgram : Announces(j) /\ IntentOf[j] <= k}}
<1>1. DOMAIN Described = 0 .. Last /\ \A k \in 0 .. Last : Described[k] = D(k)
  BY DEF Described, Last
<1>2. DOMAIN BuildProgram = 1 .. Len(BuildProgram) /\ Len(BuildProgram) \in Nat
  BY BuildCovers
<1>3. \A j \in 1 .. Len(BuildProgram) : IntentOf[j] \in Nat /\ IntentOf[j] <= Last
  BY <1>2, IntentsGrow
<1>4. \A k \in 0 .. Last : \A m \in k .. Last : D(k) \subseteq D(m)
  <2> SUFFICES ASSUME NEW k \in 0 .. Last, NEW m \in k .. Last,
                      NEW j \in DOMAIN BuildProgram, Announces(j), IntentOf[j] <= k
               PROVE  IntentOf[j] <= m
    OBVIOUS
  <2> QED
    BY <1>2, <1>3, LastIsNat
<1>5. \A i \in 1 .. Len(BuildProgram) : Announces(i) => BuildProgram[i].of \subseteq
          D(IntentOf[i])
  BY <1>2, <1>3
<1>6. \A k \in 0 .. Last : k .. Last \subseteq 0 .. Last
  BY LastIsNat
<1> HIDE DEF D
<1> QED
  BY <1>1, <1>3, <1>4, <1>5, <1>6, LastIsNat

-----------------------------------------------------------------------------
(* The invariant, and what each step does.                                 *)
Place ==
    /\ pc = "build" => step \in 1 .. Len(BuildProgram)
    /\ pc = "compensate" => step \in 1 .. Len(CompensateProgram)
    /\ state = "ADMITTED" => step = 1
    /\ pc \in {"build", "compensate"} /\ at # "check" => Current.check # "await"

Lab ==
    /\ world \in [Things -> SUBSET Attributes]
    /\ bound \in [Things -> SUBSET Attributes]
    /\ late = NoEffect \/ (late \in BuildEffects \cup CompEffects /\ late.check # "await")
    /\ \A t \in Things : Foreign(t) => t \in touched
    /\ state = "ADMITTED" => \A t \in Things : bound[t] = {}

Watched(e) ==
    e.dels = Attributes =>
        \A t \in e.of \cap Mutable : Foreign(t) => t \in swapped \/ "foreign" \in bound[t]

-----------------------------------------------------------------------------
(* What the steps do to the laboratory, to the journal and to the flow.    *)
Calm == UNCHANGED <<world, late, touched, swapped, bound, step, state, pc, at, journal>>

(* A step of the session, or one that ends the operation. *)
Aside ==
    /\ UNCHANGED <<world, late, touched, swapped, bound, step>>
    /\ state' # "ADMITTED"
    /\ state' \in {"INTENT", "BUILT", "COMPENSATING"} => state' = state
    /\ pc' \notin EffectPhases \cup {"verify"}
    /\ journal'.intents \in {journal.intents, journal.intents + 1}

Onward ==
    /\ UNCHANGED <<world, late, touched, swapped, bound, step, state, pc>>
    /\ journal'.intents = journal.intents
    /\ at # "check" /\ at' \in {"outcome", "readback"}
    /\ pc \in {"build", "compensate"} => at = "outcome"

Captures ==
    /\ pc \in {"build", "compensate"}
    /\ at = "readback" \/ (at = "check" /\ Current.check = "await")
    /\ ReadsBack(Current) /\ bound' = Captured(Current.of) /\ Advance
    /\ UNCHANGED <<world, late, touched, swapped, state>>
    /\ journal'.intents = journal.intents

Begins ==
    /\ pc = "ready" /\ state = "ADMITTED" /\ pc' = "marker-dir"
    /\ UNCHANGED <<world, late, touched, swapped, bound, step, state, at, journal>>

Verified ==
    /\ pc = "verify" /\ RuntimeComplete /\ pc' = "marker-built"
    /\ UNCHANGED <<world, late, touched, swapped, bound, step, state, at, journal>>

(* What the tool of an effect may do to the laboratory. *)
Acts(e) == UNCHANGED world \/ \E some \in SUBSET e.of : Perform(e, some)

StepKind ==
    \/ Calm \/ Aside \/ Onward \/ Captures \/ Begins \/ Verified
    \/ Announce \/ Dispatch \/ DispatchLost \/ MarkerVerified \/ Compensate
    \/ LateEffect \/ Northd \/ Interfere

LEMMA AbortedState ==
    ASSUME Abort
    PROVE  pc' = "ready" /\ state' \in {"FAILED", "TERMINAL_UNKNOWN", "CLEANUP_FAILED"}
  BY DEF Abort

LEMMA Intents ==
    ASSUME Shape, NEW kind \in {"intents", "outcomes", "readbacks"},
           Recorded(kind) \/ NotRecorded(kind)
    PROVE  /\ journal'.intents \in {journal.intents, journal.intents + 1}
           /\ kind # "intents" => journal'.intents = journal.intents
<1>1. journal' = journal \/ journal' = [journal EXCEPT ![kind] = @ + 1]
  BY DEF Recorded, NotRecorded
<1> QED
  BY <1>1 DEF Shape

LEMMA SessionAside == Shape /\ Flow /\ SessionStep => Aside
<1> SUFFICES ASSUME Shape, Flow, SessionStep PROVE Aside
  OBVIOUS
<1> USE DEF labVars, diskVars, builderVars, flowVars, captureView, runtimeVars, captureVars
<1>1. UNCHANGED <<world, late, touched, swapped, bound, step, state>>
  BY DEF SessionStep, CheckpointIntent, ReplaceMarker, CheckpointComplete, CheckpointFails, Spawn,
     SpawnFails, Prove, ProveFails, Ready, NotReady, Started, Reap, StopDone, Attach, Start, Stop,
     StartFails
<1>2. state # "ADMITTED"
  BY DEF SessionStep, CheckpointIntent, ReplaceMarker, CheckpointComplete, CheckpointFails, Spawn,
     SpawnFails, Prove, ProveFails, Ready, NotReady, Started, Reap, StopDone, Attach, Start, Stop,
     Flow
<1>3. pc' \notin EffectPhases \cup {"verify"}
  BY DEF SessionStep, CheckpointIntent, ReplaceMarker, CheckpointComplete, CheckpointFails, Spawn,
     SpawnFails, Prove, ProveFails, Ready, NotReady, Started, Reap, StopDone, Attach, Start, Stop,
     StartFails, Checkpoint, EffectPhases, Shape
<1>4. journal'.intents \in {journal.intents, journal.intents + 1}
  <2>1. CASE CheckpointIntent
    BY <2>1, Intents DEF CheckpointIntent
  <2>2. CASE CheckpointComplete
    BY <2>2, Intents DEF CheckpointComplete
  <2>3. CASE CheckpointFails
    BY <2>3, Intents DEF CheckpointFails
  <2>4. CASE ~(CheckpointIntent \/ CheckpointComplete \/ CheckpointFails)
    <3>1. journal' = journal
      BY <2>4 DEF SessionStep, ReplaceMarker, Spawn, SpawnFails, Prove, ProveFails, Ready,
             NotReady,
         Started, Reap, StopDone, Attach, Start, Stop, StartFails
    <3> QED
      BY <3>1
  <2> QED
    BY <2>1, <2>2, <2>3, <2>4
<1> QED
  BY <1>1, <1>2, <1>3, <1>4 DEF Aside

LEMMA ReleaseAside == Shape /\ Flow /\ ReleaseStep => Aside
<1> SUFFICES ASSUME Shape, Flow, ReleaseStep PROVE Aside
  OBVIOUS
<1> USE DEF labVars, diskVars, builderVars, flowVars, captureView, runtimeVars, captureVars
<1>1. UNCHANGED <<world, late, touched, swapped, bound, step, journal>>
  BY DEF ReleaseStep, RetentionIntent, Retain, Released, RetentionFails, Abort
<1>2. pc = "f-release" /\ state = "COMPENSATED"
  BY DEF ReleaseStep, RetentionIntent, Retain, Released, RetentionFails, Flow, Finals
<1>3. state' # "ADMITTED" /\ state' \notin {"INTENT", "BUILT", "COMPENSATING"}
      /\ pc' \notin EffectPhases \cup {"verify"}
  BY <1>2, AbortedState DEF ReleaseStep, RetentionIntent, Retain, Released, RetentionFails,
     EffectPhases
<1> QED
  BY <1>1, <1>3 DEF Aside

LEMMA AbortAside ==
    ASSUME Shape, Abort, UNCHANGED <<world, late, touched, swapped, bound>>,
           journal'.intents \in {journal.intents, journal.intents + 1}
    PROVE  Aside
  BY AbortedState DEF Aside, Abort, EffectPhases

LEMMA StepKinds == Shape /\ Flow /\ [Next]_vars => StepKind
<1> SUFFICES ASSUME Shape, Flow, [Next]_vars PROVE StepKind
  OBVIOUS
<1> USE DEF labVars, diskVars, builderVars, flowVars, captureView, runtimeVars, captureVars
<1>1. CASE UNCHANGED vars \/ ChildExits
  BY <1>1 DEF vars, ChildExits, StepKind, Calm
<1>2. CASE OutsideStep
  BY <1>2 DEF OutsideStep, MovePort, StepKind, Calm
<1>3. CASE Build \/ Compensate \/ Finalize
  <2>1. CASE Build
    BY <2>1 DEF Build, StepKind, Begins, Aside, EffectPhases
  <2>2. CASE Finalize /\ Abort
    BY <2>2, AbortAside DEF Finalize, StepKind
  <2>3. CASE Finalize /\ ~Abort
    BY <2>3 DEF Finalize, StepKind, Aside, EffectPhases
  <2> QED
    BY <1>3, <2>1, <2>2, <2>3 DEF StepKind
<1>4. CASE BuilderStep
  <2>1. CASE AnnounceFails
    BY <2>1, Intents, AbortAside DEF AnnounceFails, StepKind
  <2>2. CASE Outcome
    <3>1. journal'.intents = journal.intents
      BY <2>2, Intents DEF Outcome
    <3>2. CASE Abort
      BY <2>2, <3>1, <3>2, AbortAside DEF Outcome, StepKind
    <3>3. CASE ~Abort
      BY <2>2, <3>1, <3>3 DEF Outcome, StepKind, Onward
    <3> QED
      BY <3>2, <3>3
  <2>3. CASE Readback
    <3>1. journal'.intents = journal.intents
      BY <2>3, Intents DEF Readback
    <3> QED
      BY <2>3, <3>1 DEF Readback, StepKind, Captures
  <2>4. CASE ReadbackFails
    BY <2>4, Intents, AbortAside DEF ReadbackFails, StepKind
  <2>5. CASE Poll
    <3>1. CASE Abort /\ UNCHANGED bound
      BY <2>5, <3>1, AbortAside DEF Poll, StepKind
    <3>2. CASE ~(Abort /\ UNCHANGED bound)
      BY <2>5, <3>2 DEF Poll, StepKind, Captures
    <3> QED
      BY <3>1, <3>2
  <2>6. CASE WriteMarker
    BY <2>6 DEF WriteMarker, StepKind, Onward
  <2>7. CASE WriteMarkerFails
    BY <2>7, AbortAside DEF WriteMarkerFails, StepKind
  <2>8. CASE Verify
    <3>1. CASE Abort
      BY <2>8, <3>1, AbortAside DEF Verify, StepKind
    <3>2. CASE ~Abort
      BY <2>8, <3>2 DEF Verify, StepKind, Verified
    <3> QED
      BY <3>1, <3>2
  <2>9. CASE FinalAbsence \/ VerifyM03 \/ RemoveIntent \/ Unlink \/ Complete
    <3>1. journal'.intents = journal.intents
      BY <2>9, Intents DEF FinalAbsence, VerifyM03, RemoveIntent, Unlink, Complete
    <3>2. CASE Abort
      BY <2>9, <3>1, <3>2, AbortAside
         DEF FinalAbsence, VerifyM03, RemoveIntent, Unlink, Complete, StepKind
    <3>3. CASE ~Abort
      <4>1. UNCHANGED <<world, late, touched, swapped, bound, step>>
        BY <2>9, <3>3 DEF FinalAbsence, VerifyM03, RemoveIntent, Unlink, Complete
      <4>2. /\ state' # "ADMITTED"
            /\ state' \in {"INTENT", "BUILT", "COMPENSATING"} => state' = state
            /\ pc' \notin EffectPhases \cup {"verify"}
        BY <2>9, <3>3 DEF FinalAbsence, VerifyM03, RemoveIntent, Unlink, Complete, EffectPhases,
           Flow, Finals
      <4> QED
        BY <3>1, <4>1, <4>2 DEF Aside, StepKind
    <3> QED
      BY <3>2, <3>3
  <2> QED
    BY <1>4, <2>1, <2>2, <2>3, <2>4, <2>5, <2>6, <2>7, <2>8, <2>9 DEF BuilderStep, StepKind
<1>5. CASE SessionStep
  BY <1>5, SessionAside DEF StepKind
<1>6. CASE ReleaseStep
  BY <1>6, ReleaseAside DEF StepKind
<1> QED
  BY <1>1, <1>2, <1>3, <1>4, <1>5, <1>6, StepCases

-----------------------------------------------------------------------------
LEMMA SameCurrent == ASSUME UNCHANGED <<pc, step>> PROVE Current' = Current
  BY DEF Current, Program

LEMMA CurrentEffect ==
    ASSUME Place
    PROVE  /\ pc = "build" => Current = BuildProgram[step] /\ Current \in BuildEffects
           /\ pc = "compensate" =>
                Current = CompensateProgram[step] /\ Current \in CompEffects
           /\ pc \notin {"build", "compensate"} => Current = NoEffect
<1>1. CASE pc = "build"
  <2>1. BuildProgram[step] \in BuildEffects
    BY <1>1, BuildCovers DEF Place
  <2> QED
    BY <1>1, <2>1 DEF Current, Program
<1>2. CASE pc = "compensate"
  <2>1. CompensateProgram[step] \in CompEffects
    BY <1>2, CompensateEffects DEF Place
  <2> QED
    BY <1>2, <2>1 DEF Current, Program
<1>3. CASE pc \notin {"build", "compensate"}
  BY <1>3 DEF Current
<1> QED
  BY <1>1, <1>2, <1>3

LEMMA PlaceStep == Shape /\ Flow /\ Place /\ [Next]_vars => Place'
<1> SUFFICES ASSUME Shape, Flow, Place, StepKind PROVE Place'
  BY StepKinds
<1>1. CASE Calm \/ Onward
  <2>1. Current' = Current
    BY <1>1, SameCurrent DEF Calm, Onward
  <2> QED
    BY <1>1, <2>1 DEF Calm, Onward, Place
<1>2. CASE Aside
  BY <1>2 DEF Aside, Place, EffectPhases
<1>3. CASE Captures
  <2>1. state' # "ADMITTED" /\ at' = "check"
    BY <1>3 DEF Captures, Advance, Flow
  <2>2. pc' = "build" => step' \in 1 .. Len(BuildProgram)
    <3> SUFFICES ASSUME pc' = "build" PROVE step' \in 1 .. Len(BuildProgram)
      OBVIOUS
    <3>1. pc = "build" /\ step < Len(BuildProgram) /\ step' = step + 1
      BY <1>3 DEF Captures, Advance, Program
    <3> QED
      BY <3>1, BuildCovers DEF Place
  <2>3. pc' = "compensate" => step' \in 1 .. Len(CompensateProgram)
    <3> SUFFICES ASSUME pc' = "compensate" PROVE step' \in 1 .. Len(CompensateProgram)
      OBVIOUS
    <3>1. pc = "compensate" /\ step < Len(CompensateProgram) /\ step' = step + 1
      BY <1>3 DEF Captures, Advance, Program
    <3> QED
      BY <3>1, CompensateEffects DEF Place
  <2> QED
    BY <2>1, <2>2, <2>3 DEF Place
<1>4. CASE Begins \/ Verified
  BY <1>4 DEF Begins, Verified, Place
<1>5. CASE Announce
  <2>1. Current' = Current
    BY <1>5, SameCurrent DEF Announce
  <2> QED
    BY <1>5, <2>1 DEF Announce, Place
<1>6. CASE Dispatch
  <2>1. Current' = Current
    BY <1>6, SameCurrent DEF Dispatch
  <2> QED
    BY <1>6, <2>1 DEF Dispatch, Place, builderVars
<1>7. CASE DispatchLost
  BY <1>7, AbortedState DEF DispatchLost, Place
<1>8. CASE MarkerVerified
  <2>1. 1 \in 1 .. Len(BuildProgram)
    BY BuildCovers
  <2> QED
    BY <1>8, <2>1 DEF MarkerVerified, Place, Flow
<1>9. CASE Compensate
  <2>1. 1 \in 1 .. Len(CompensateProgram)
    BY CompensateEffects
  <2> QED
    BY <1>9, <2>1 DEF Compensate, Place, Shape, EffectPhases
<1>10. CASE LateEffect \/ Northd \/ Interfere
  <2>1. UNCHANGED <<pc, step, at, state>>
    BY <1>10 DEF LateEffect, Northd, Interfere, builderVars, flowVars
  <2>2. Current' = Current
    BY <2>1, SameCurrent
  <2> QED
    BY <2>1, <2>2 DEF Place
<1> QED
  BY <1>1, <1>2, <1>3, <1>4, <1>5, <1>6, <1>7, <1>8, <1>9, <1>10 DEF StepKind

-----------------------------------------------------------------------------
AnyEffect == BuildEffects \cup CompEffects

(* What a tool does changes each thing it reaches in the same way, and     *)
(* brings nothing of another tool.                                         *)
LEMMA Performed ==
    ASSUME world \in [Things -> SUBSET Attributes], NEW e \in AnyEffect, NEW some,
           Perform(e, some)
    PROVE  /\ \A t \in Things :
                world'[t] = IF t \in Reached(e, some)
                            THEN (world[t] \cup e.adds) \ e.dels ELSE world[t]
           /\ world' \in [Things -> SUBSET Attributes]
           /\ \A t \in Things : "foreign" \in world'[t] => "foreign" \in world[t]
<1>1. /\ e.adds \in SUBSET Attributes /\ "foreign" \notin e.adds
  BY DEF AnyEffect, BuildEffects, CompEffects, EffectSet, Builds, Compensates
<1>2. world' = [t \in Things |-> IF t \in Reached(e, some)
                                THEN (world[t] \cup e.adds) \ e.dels ELSE world[t]]
  BY DEF Perform
<1>3. \A t \in Things : world[t] \in SUBSET Attributes
  OBVIOUS
<1>4. \A t \in Things :
         (IF t \in Reached(e, some) THEN (world[t] \cup e.adds) \ e.dels ELSE world[t])
            \in SUBSET Attributes
  BY <1>1, <1>3
<1>5. \A t \in Things :
         world'[t] = IF t \in Reached(e, some)
                     THEN (world[t] \cup e.adds) \ e.dels ELSE world[t]
  BY <1>2
<1>6. world' \in [Things -> SUBSET Attributes]
  BY <1>2, <1>4
<1> QED
  BY <1>1, <1>5, <1>6

LEMMA Dispatched ==
    ASSUME Dispatch \/ DispatchLost
    PROVE  Acts(Current) /\ pc \in {"build", "compensate"} /\ at = "act"
<1>1. PerformPart(Current) => Acts(Current)
  BY DEF PerformPart, Acts
<1>2. Perform(Current, Current.of) => Acts(Current)
  BY DEF Acts
<1> QED
  BY <1>1, <1>2 DEF Dispatch, DispatchLost, Acts

LEMMA LateActs == ASSUME LateEffect PROVE Acts(late)
  BY DEF LateEffect, Acts

LEMMA ActsFrame ==
    ASSUME world \in [Things -> SUBSET Attributes], NEW e \in AnyEffect, Acts(e)
    PROVE  /\ world' \in [Things -> SUBSET Attributes]
           /\ \A t \in Things : "foreign" \in world'[t] => "foreign" \in world[t]
  BY Performed DEF Acts

LEMMA LabSame ==
    ASSUME Lab, UNCHANGED <<world, late, touched, bound>>, state' = "ADMITTED" => state =
        "ADMITTED"
    PROVE  Lab'
  BY DEF Lab, Foreign

LEMMA LabWorld ==
    ASSUME Lab, world' \in [Things -> SUBSET Attributes],
           \A t \in Things : "foreign" \in world'[t] => "foreign" \in world[t],
           late' = late \/ late' = NoEffect \/ (late' = Current /\ Current \in AnyEffect
                                               /\ Current.check # "await"),
           UNCHANGED <<touched, bound>>, state' = "ADMITTED" => state = "ADMITTED"
    PROVE  Lab'
<1>1. \A t \in Things : Foreign(t)' => t \in touched'
  BY DEF Lab, Foreign
<1> QED
  BY <1>1 DEF Lab, AnyEffect

LEMMA ObservedType ==
    ASSUME Lab, NEW t \in Things PROVE Observed(t) \in SUBSET Attributes
<1>1. "ovs-system" \in Attributes
  BY DEF Attributes
<1> QED
  BY <1>1 DEF Lab, Observed

LEMMA LabStep == Shape /\ Flow /\ Cover /\ Place /\ Lab /\ [Next]_vars => Lab'
<1> SUFFICES ASSUME Shape, Flow, Cover, Place, Lab, StepKind PROVE Lab'
  BY StepKinds
<1> USE DEF labVars, builderVars, flowVars
<1>1. CASE Calm \/ Aside \/ Onward \/ Begins \/ Verified
  BY <1>1, LabSame DEF Calm, Aside, Onward, Begins, Verified
<1>2. CASE Announce \/ MarkerVerified \/ Compensate
  BY <1>2, LabSame DEF Announce, MarkerVerified, Compensate
<1>3. CASE Captures
  <2>1. state' # "ADMITTED" /\ UNCHANGED <<world, late, touched>>
    BY <1>3 DEF Captures, Flow
  <2>2. bound' = [t \in Things |-> IF t \in Current.of THEN Observed(t) ELSE bound[t]]
    BY <1>3 DEF Captures, Captured
  <2>3. \A t \in Things : (IF t \in Current.of THEN Observed(t) ELSE bound[t]) \in SUBSET
            Attributes
    BY ObservedType DEF Lab
  <2>4. bound' \in [Things -> SUBSET Attributes]
    BY <2>2, <2>3
  <2> QED
    BY <2>1, <2>4 DEF Lab, Foreign
<1>4. CASE Dispatch \/ DispatchLost
  <2>1. Acts(Current) /\ pc \in {"build", "compensate"} /\ at = "act"
    BY <1>4, Dispatched
  <2>2. Current \in AnyEffect /\ Current.check # "await"
    BY <2>1, CurrentEffect DEF AnyEffect, Place
  <2>3. /\ world' \in [Things -> SUBSET Attributes]
        /\ \A t \in Things : "foreign" \in world'[t] => "foreign" \in world[t]
    BY <2>1, <2>2, ActsFrame DEF Lab
  <2>4. /\ late' = late \/ late' = Current
        /\ UNCHANGED <<touched, bound>>
        /\ state' = "ADMITTED" => state = "ADMITTED"
    BY <1>4, AbortedState DEF Dispatch, DispatchLost
  <2> QED
    BY <2>2, <2>3, <2>4, LabWorld
<1>5. CASE LateEffect
  <2>1. late \in AnyEffect
    BY <1>5 DEF LateEffect, Lab, AnyEffect
  <2>2. /\ world' \in [Things -> SUBSET Attributes]
        /\ \A t \in Things : "foreign" \in world'[t] => "foreign" \in world[t]
    BY <1>5, <2>1, LateActs, ActsFrame DEF Lab
  <2>3. late' = NoEffect /\ UNCHANGED <<touched, bound, state>>
    BY <1>5 DEF LateEffect
  <2> QED
    BY <2>2, <2>3, LabWorld
<1>6. CASE Northd
  <2>1. PICK g \in Generated : world' = [world EXCEPT ![g] = IF Exists(Rows) THEN {"made"} ELSE
            {}]
    BY <1>6 DEF Northd
  <2>2. {"made"} \in SUBSET Attributes
    BY DEF Attributes
  <2>3. g \in Things
    BY DEF Things
  <2>4. /\ world' \in [Things -> SUBSET Attributes]
        /\ \A t \in Things : "foreign" \in world'[t] => "foreign" \in world[t]
    BY <2>1, <2>2, <2>3 DEF Lab
  <2> QED
    BY <1>6, <2>4, LabWorld DEF Northd
<1>7. CASE Interfere
  <2>1. PICK t \in ForeignThings, new \in {{}, {"made", "foreign"}} :
          /\ world' = [u \in Things |-> CASE u = t -> new
                                         [] u \in Fallout(t) \ {t} -> {}
                                         [] OTHER -> world[u]]
          /\ touched' = {t}
    BY <1>7 DEF Interfere
  <2>2. touched = {} /\ state # "ADMITTED" /\ UNCHANGED <<late, bound, state>>
    BY <1>7 DEF Interfere
  <2>3. {} \in SUBSET Attributes /\ {"made", "foreign"} \in SUBSET Attributes
    BY DEF Attributes
  <2>4. \A u \in Things : world'[u] = IF u = t THEN new
                                     ELSE IF u \in Fallout(t) THEN {} ELSE world[u]
    BY <2>1
  <2>5. world' \in [Things -> SUBSET Attributes]
    <3>1. \A u \in Things : (CASE u = t -> new [] u \in Fallout(t) \ {t} -> {} [] OTHER ->
              world[u])
             \in SUBSET Attributes
      BY <2>3 DEF Lab
    <3> QED
      BY <2>1, <3>1
  <2>6. \A u \in Things : "foreign" \in world'[u] => u \in touched'
    BY <2>1, <2>2, <2>4 DEF Lab, Foreign
  <2> QED
    BY <2>2, <2>5, <2>6 DEF Lab, Foreign
<1> QED
  BY <1>1, <1>2, <1>3, <1>4, <1>5, <1>6, <1>7 DEF StepKind

-----------------------------------------------------------------------------
LEMMA Kinds ==
    /\ \A t \in Mutable : t[1] \notin {"vrf", "nb"}
    /\ \A t \in Generated : t[1] = "vrf" /\ ~OwnerChecked(t)
    /\ Rows[1] = "nb" /\ ~OwnerChecked(Rows)
<1>1. \A t \in Mutable : t[1] \notin {"vrf", "nb"}
  BY DEF Mutable, Veth, Port, Inner, Netns, Link, Container, Frr, Ids
<1>2. \A t \in Generated : t[1] = "vrf"
  BY DEF Generated, Vrf
<1>3. Rows[1] = "nb"
  BY DEF Rows
<1> QED
  BY <1>1, <1>2, <1>3 DEF OwnerChecked

LEMMA BuildsKeep == \A e \in BuildEffects \cup {NoEffect} : e.dels # Attributes
  BY AllAttributes DEF BuildEffects, Builds, NoEffect, Effect

LEMMA Seen ==
    ASSUME NEW t \in Things
    PROVE  /\ "foreign" \in Observed(t) <=> Foreign(t)
           /\ Unchanged(t) => (Foreign(t) <=> "foreign" \in bound[t])
<1>1. "foreign" \in Observed(t) <=> Foreign(t)
  BY DEF Observed, Foreign
<1>2. \A A : "foreign" \in Identity(A) <=> "foreign" \in A
  BY DEF Identity
<1> QED
  BY <1>1, <1>2 DEF Unchanged

(* Where the identities of the owned things are those of the builder's own. *)
Owned ==
    state \in {"BUILT", "COMPENSATING"} \/ pc = "marker-built" \/ late.dels = Attributes

OwnedKept == Owned => \A t \in Mutable : OwnerChecked(t) => "foreign" \notin bound[t]

LEMMA OwnedStep ==
    Shape /\ Flow /\ Cover /\ Place /\ OwnedKept /\ [Next]_vars => OwnedKept'
<1> SUFFICES ASSUME Shape, Flow, Cover, Place, OwnedKept, StepKind PROVE OwnedKept'
  BY StepKinds
<1> USE DEF labVars, builderVars, flowVars
<1>1. ASSUME bound' = bound, Owned' => Owned PROVE OwnedKept'
  BY <1>1 DEF OwnedKept
<1>2. NoEffect.dels # Attributes
  BY BuildsKeep
<1>3. CASE Calm \/ Aside \/ Onward \/ Begins
  BY <1>1, <1>3 DEF Calm, Aside, Onward, Begins, Owned, EffectPhases
<1>4. CASE Announce \/ Dispatch \/ Northd \/ Interfere
  BY <1>1, <1>4 DEF Announce, Dispatch, Northd, Interfere, Owned
<1>5. CASE LateEffect
  BY <1>1, <1>2, <1>5 DEF LateEffect, Owned
<1>6. CASE MarkerVerified
  <2>1. late' = late /\ bound' = bound
    BY <1>6 DEF MarkerVerified
  <2>2. pc # "marker-built" => state' \in {"ADMITTED", "INTENT"} /\ pc' # "marker-built"
    BY <1>6 DEF MarkerVerified, Flow
  <2> QED
    BY <1>1, <2>1, <2>2 DEF Owned
<1>7. CASE Compensate
  BY <1>1, <1>7 DEF Compensate, Owned
<1>8. CASE DispatchLost
  <2>1. bound' = bound /\ pc' # "marker-built" /\ state' \notin {"BUILT", "COMPENSATING"}
    BY <1>8, AbortedState DEF DispatchLost
  <2>2. late' = late \/ late' = Current
    BY <1>8 DEF DispatchLost
  <2>3. Current.dels = Attributes => state = "COMPENSATING"
    BY <1>8, CurrentEffect, BuildsKeep DEF DispatchLost, Flow
  <2> QED
    BY <1>1, <2>1, <2>2, <2>3 DEF Owned
<1>9. CASE Verified
  <2>1. \A t \in Mutable : Unchanged(t) /\ (OwnerChecked(t) => ~Foreign(t))
    BY <1>9 DEF Verified, RuntimeComplete
  <2>2. \A t \in Mutable : OwnerChecked(t) => "foreign" \notin bound[t]
    BY <2>1, Seen DEF Things
  <2> QED
    BY <1>9, <2>2 DEF Verified, OwnedKept
<1>10. CASE Captures
  <2>1. state' = state /\ late' = late /\ pc' # "marker-built" /\ late = NoEffect
    BY <1>10 DEF Captures, Advance, Flow, Cover
  <2>2. CASE pc = "build"
    BY <1>2, <1>10, <2>1, <2>2 DEF Flow, OwnedKept, Owned
  <2>3. CASE pc = "compensate"
    <3>1. Owned /\ Current \in CompEffects
      BY <2>3, CurrentEffect DEF Owned, Flow
    <3> SUFFICES ASSUME NEW t \in Mutable, OwnerChecked(t), "foreign" \in bound'[t] PROVE FALSE
      BY DEF OwnedKept, OwnerChecked
    <3>2. t \in Things /\ "foreign" \notin bound[t]
      BY <3>1 DEF OwnedKept, Things
    <3>3. bound'[t] = IF t \in Current.of THEN Observed(t) ELSE bound[t]
      BY <1>10, <3>2 DEF Captures, Captured
    <3>4. t \in Current.of /\ Foreign(t)
      BY <3>2, <3>3, Seen
    <3>5. Current.dels \cap world[t] = {}
      BY <1>10, <3>4 DEF Captures, ReadsBack
    <3>6. "foreign" \notin Current.dels
      BY <3>4, <3>5 DEF Foreign
    <3>7. Compensates(Current)
      BY <3>1 DEF CompEffects
    <3> QED
      BY <3>4, <3>6, <3>7, Kinds, AllAttributes DEF Compensates
  <2> QED
    BY <1>10, <2>2, <2>3 DEF Captures
<1> QED
  BY <1>3, <1>4, <1>5, <1>6, <1>7, <1>8, <1>9, <1>10 DEF StepKind

-----------------------------------------------------------------------------
WatchedCurrent == pc = "compensate" /\ at = "act" => Watched(Current)

LEMMA WatchedSame ==
    ASSUME NEW e, Watched(e), bound' = bound,
           swapped \subseteq swapped',
           \A t \in Mutable : "foreign" \in world'[t] => Foreign(t) \/ t \in swapped'
    PROVE  e.dels = Attributes =>
             \A t \in e.of \cap Mutable : "foreign" \in world'[t]
                 => t \in swapped' \/ "foreign" \in bound'[t]
  BY DEF Watched

(* Other tools change what is planned only where the history says so. *)
LEMMA OthersLeave ==
    ASSUME Northd \/ Interfere
    PROVE  /\ \A t \in Mutable : "foreign" \in world'[t] => Foreign(t) \/ t \in swapped'
           /\ swapped \subseteq swapped' /\ UNCHANGED <<bound, late, pc, at, step, state>>
<1> USE DEF labVars, builderVars, flowVars
<1>1. CASE Northd
  <2>1. PICK g \in Generated : world' = [world EXCEPT ![g] = IF Exists(Rows) THEN {"made"} ELSE
            {}]
    BY <1>1 DEF Northd
  <2>2. \A t \in Mutable : t # g
    BY Kinds
  <2>3. \A t \in Mutable : world'[t] = world[t]
    BY <2>1, <2>2
  <2> QED
    BY <1>1, <2>3 DEF Northd, Foreign
<1>2. CASE Interfere
  <2>1. PICK t \in ForeignThings, new \in {{}, {"made", "foreign"}} :
          /\ world' = [u \in Things |-> CASE u = t -> new
                                         [] u \in Fallout(t) \ {t} -> {}
                                         [] OTHER -> world[u]]
          /\ swapped' = swapped \cup {t}
    BY <1>2 DEF Interfere
  <2>2. \A u \in Mutable : world'[u] = IF u = t THEN new
                                     ELSE IF u \in Fallout(t) THEN {} ELSE world[u]
    BY <2>1 DEF Things
  <2> QED
    BY <1>2, <2>1, <2>2 DEF Interfere, Foreign
<1> QED
  BY <1>1, <1>2

LEMMA WatchedStep ==
    Shape /\ Flow /\ Cover /\ Place /\ Watched(late) /\ WatchedCurrent /\ [Next]_vars
        => Watched(late)' /\ WatchedCurrent'
<1> SUFFICES ASSUME Shape, Flow, Cover, Place, Watched(late), WatchedCurrent, StepKind
             PROVE  Watched(late)' /\ WatchedCurrent'
  BY StepKinds
<1> USE DEF labVars, builderVars, flowVars
<1>1. ASSUME late' = NoEffect PROVE Watched(late)'
  BY <1>1, BuildsKeep DEF Watched
<1>2. CASE Calm \/ Aside \/ Onward \/ Begins \/ Verified
  <2>1. UNCHANGED <<world, late, swapped, bound>>
    BY <1>2 DEF Calm, Aside, Onward, Begins, Verified
  <2>2. Watched(late)'
    BY <2>1 DEF Watched, Foreign
  <2>3. CASE Calm
    <3>1. Current' = Current /\ UNCHANGED <<pc, at>>
      BY <2>3, SameCurrent DEF Calm
    <3> QED
      BY <2>1, <2>2, <3>1 DEF WatchedCurrent, Watched, Foreign
  <2>4. CASE ~Calm
    <3>1. ~(pc' = "compensate" /\ at' = "act")
      BY <1>2, <2>4 DEF Aside, Onward, Begins, Verified, EffectPhases
    <3> QED
      BY <2>2, <3>1 DEF WatchedCurrent
  <2> QED
    BY <2>3, <2>4
<1>3. CASE Captures \/ MarkerVerified \/ Compensate \/ Dispatch
  <2>1. late = NoEffect /\ late' = late
    BY <1>3 DEF Captures, MarkerVerified, Compensate, Dispatch, Flow, Cover
  <2>2. ~(pc' = "compensate" /\ at' = "act")
    BY <1>3 DEF Captures, Advance, MarkerVerified, Compensate, Dispatch, Shape, EffectPhases
  <2> QED
    BY <1>1, <2>1, <2>2 DEF WatchedCurrent
<1>4. CASE LateEffect
  <2>1. state # "COMPENSATING" /\ late' = NoEffect /\ UNCHANGED <<pc, state>>
    BY <1>4 DEF LateEffect, Cover
  <2> QED
    BY <1>1, <2>1 DEF WatchedCurrent, Flow
<1>5. CASE DispatchLost
  <2>1. late = NoEffect
    BY <1>5 DEF DispatchLost, Flow, Cover
  <2>2. pc' = "ready" /\ (late' = late \/ (late' = Current /\ UNCHANGED <<world, swapped,
            bound>>))
    BY <1>5, AbortedState DEF DispatchLost
  <2>3. Watched(Current)
    <3>1. pc = "compensate" \/ Current \in BuildEffects
      BY <1>5, CurrentEffect DEF DispatchLost
    <3> QED
      BY <1>5, <3>1, BuildsKeep DEF DispatchLost, WatchedCurrent, Watched
  <2>4. late' = Current => Watched(late)'
    BY <2>2, <2>3, <2>1, <1>1 DEF Watched, Foreign
  <2> QED
    BY <1>1, <2>1, <2>2, <2>4 DEF WatchedCurrent
<1>6. CASE Announce
  <2>1. late = NoEffect /\ late' = late /\ UNCHANGED <<world, bound, pc, step>>
    BY <1>6 DEF Announce, EffectPhases, Flow, Cover
  <2>2. Current' = Current
    BY <2>1, SameCurrent
  <2>3. ASSUME pc = "compensate", Current.dels = Attributes,
               NEW t \in Current.of \cap Mutable, Foreign(t)
        PROVE  "foreign" \in bound[t]
    <3>1. Compensates(Current) /\ Current.check # "await"
      BY <1>6, <2>3, CurrentEffect DEF Announce, CompEffects
    <3>2. t # Rows
      BY Kinds
    <3>3. Current.check = "bound"
      BY <2>3, <3>1, <3>2, AllAttributes DEF Compensates
    <3>4. Unchanged(t)
      BY <1>6, <3>3 DEF Announce, Checked
    <3> QED
      BY <2>3, <3>4, Seen DEF Things
  <2> QED
    BY <1>1, <2>1, <2>2, <2>3 DEF WatchedCurrent, Watched, Foreign
<1>7. CASE Northd \/ Interfere
  <2>1. /\ \A t \in Mutable : "foreign" \in world'[t] => Foreign(t) \/ t \in swapped'
        /\ swapped \subseteq swapped' /\ UNCHANGED <<bound, late, pc, at, step>>
    BY <1>7, OthersLeave
  <2>2. Current' = Current
    BY <2>1, SameCurrent
  <2>3. Watched(late)'
    BY <2>1, WatchedSame DEF Watched, Foreign
  <2>4. Watched(Current) => Watched(Current)'
    BY <2>1, <2>2, WatchedSame DEF Watched, Foreign
  <2> QED
    BY <2>1, <2>3, <2>4 DEF WatchedCurrent
<1> QED
  BY <1>2, <1>3, <1>4, <1>5, <1>6, <1>7 DEF StepKind

-----------------------------------------------------------------------------
(* What another tool has put there goes only in the ways that are named.   *)
Spared(t) ==
    \/ GoesWithHolder(t)
    \/ t \in swapped /\ t[1] \notin {"port", "container", "ids"}
    \/ t[1] = "netns" /\ "foreign" \in bound[t]

LEMMA ActSpares ==
    ASSUME Lab, NEW e \in AnyEffect, e.check # "await", Acts(e), Watched(e),
           e.dels = Attributes =>
             \A u \in Mutable : OwnerChecked(u) => "foreign" \notin bound[u],
           NEW t \in Mutable, Foreign(t), "foreign" \notin world'[t]
    PROVE  Spared(t)
<1>1. world \in [Things -> SUBSET Attributes] /\ t \in Things
  BY DEF Lab, Things
<1>2. PICK some \in SUBSET e.of : Perform(e, some)
  BY DEF Acts, Foreign
<1>3. /\ \A u \in Things : world'[u] = IF u \in Reached(e, some)
                                      THEN (world[u] \cup e.adds) \ e.dels ELSE world[u]
  BY <1>1, <1>2, Performed
<1>4. t \in Reached(e, some) /\ "foreign" \in e.dels
  BY <1>1, <1>3 DEF Foreign
<1>5. Compensates(e)
  BY <1>4 DEF AnyEffect, BuildEffects, Builds, CompEffects
<1>6. CASE e.of = {Rows} /\ e.guard = "rows"
  <2>1. \A h \in some : h = Rows /\ Fallout(h) = {h}
    BY <1>6, Kinds DEF Fallout, Rows, Container
  <2>2. t = Rows
    BY <1>4, <2>1 DEF Reached
  <2> QED
    BY <2>2, Kinds
<1>7. CASE e.check = "bound" /\ e.dels = Attributes
           /\ (\A u \in e.of : u \in Mutable /\ u[1] \in IF e.guard = "exists"
                THEN {"veth", "inner", "link", "netns"} ELSE {"port", "container", "ids"})
           /\ e.guard \in {"exists", "identity"}
  <2>1. \A u \in Mutable : OwnerChecked(u) => "foreign" \notin bound[u]
    BY <1>7
  <2>2. PICK h \in some : t \in Fallout(h)
    BY <1>4, <1>7 DEF Reached
  <2>3. h \in e.of /\ h \in Mutable /\ h \in Things
    BY <1>7, <2>2 DEF Things
  <2>4. CASE h # t
    <3>1. Exists(h)
      BY <1>2, <1>7, <2>3 DEF Perform, Accepts
    <3>2. h \in Reached(e, some)
      BY <1>7, <2>2 DEF Reached, Fallout
    <3>3. e.adds = {} /\ world[h] \subseteq Attributes
      BY <1>1, <1>5, <2>3 DEF Compensates
    <3>4. world'[h] = {}
      BY <1>3, <1>7, <2>3, <3>2, <3>3
    <3> QED
      BY <2>2, <2>3, <2>4, <3>1, <3>4 DEF Spared, GoesWithHolder
  <2>5. CASE h = t /\ e.guard = "identity"
    <3>1. Unchanged(t) /\ t[1] \in {"port", "container", "ids"}
      BY <1>2, <1>7, <2>3, <2>5 DEF Perform, Accepts
    <3>2. "foreign" \in bound[t] /\ OwnerChecked(t)
      BY <1>1, <3>1, Seen DEF OwnerChecked
    <3> QED
      BY <2>1, <3>2
  <2>6. CASE h = t /\ e.guard = "exists"
    <3>1. t[1] \in {"veth", "inner", "link", "netns"}
      BY <1>7, <2>3, <2>6
    <3>2. t \in swapped \/ "foreign" \in bound[t]
      BY <1>7, <2>3, <2>6 DEF Watched
    <3>3. "foreign" \in bound[t] => ~OwnerChecked(t)
      BY <2>1
    <3>4. "foreign" \in bound[t] => t[1] = "netns"
      BY <3>1, <3>3 DEF OwnerChecked
    <3> QED
      BY <3>1, <3>2, <3>4 DEF Spared
  <2> QED
    BY <1>7, <2>4, <2>5, <2>6
<1> QED
  BY <1>4, <1>5, <1>6, <1>7 DEF Compensates

Kept == OwnedKept /\ Watched(late) /\ WatchedCurrent

LEMMA ForeignSpared ==
    ASSUME Shape, Flow, Cover, Place, Lab, Kept, StepKind,
           NEW t \in Mutable, Foreign(t), "foreign" \notin world'[t]
    PROVE  Spared(t)
<1> USE DEF labVars, builderVars, flowVars
<1>1. t \in Things
  BY DEF Things
<1>2. CASE Calm \/ Aside \/ Onward \/ Captures \/ Begins \/ Verified \/ Announce
           \/ MarkerVerified \/ Compensate
  BY <1>2 DEF Calm, Aside, Onward, Captures, Begins, Verified, Announce, MarkerVerified,
     Compensate, Foreign
<1>3. CASE Dispatch \/ DispatchLost
  <2>1. Acts(Current) /\ pc \in {"build", "compensate"} /\ at = "act"
    BY <1>3, Dispatched
  <2>2. Current \in AnyEffect /\ Current.check # "await"
    BY <2>1, CurrentEffect DEF AnyEffect, Place
  <2>3. pc = "build" => Current.dels # Attributes
    BY CurrentEffect, BuildsKeep
  <2>4. Watched(Current)
    BY <2>1, <2>3 DEF Kept, WatchedCurrent, Watched
  <2>5. Current.dels = Attributes => Owned
    BY <2>1, <2>3 DEF Owned, Flow
  <2> QED
    BY <2>1, <2>2, <2>4, <2>5, ActSpares DEF Kept, OwnedKept
<1>4. CASE LateEffect
  <2>1. late \in AnyEffect /\ late.check # "await"
    BY <1>4 DEF LateEffect, Lab, AnyEffect
  <2> QED
    BY <1>4, <2>1, LateActs, ActSpares DEF Kept, OwnedKept, Owned
<1>5. CASE Northd
  <2>1. PICK g \in Generated : world' = [world EXCEPT ![g] = IF Exists(Rows) THEN {"made"} ELSE
            {}]
    BY <1>5 DEF Northd
  <2>2. t # g
    BY Kinds
  <2> QED
    BY <2>1, <2>2 DEF Foreign
<1>6. CASE Interfere
  BY <1>1, <1>6 DEF Interfere, Lab
<1> QED
  BY <1>2, <1>3, <1>4, <1>5, <1>6 DEF StepKind

-----------------------------------------------------------------------------
(* The journal names what exists.                                          *)
IntentCount ==
    /\ state = "ADMITTED" =>
         journal.intents = (IF pc = "marker-intent" THEN 1 ELSE 0)
                           + (IF at = "check" THEN 0 ELSE 1)
    /\ pc = "build" => journal.intents = IntentOf[IF at = "check" THEN step - 1 ELSE step]
    /\ pc \in {"verify", "marker-built"} => journal.intents >= Last
    /\ pc = "marker-built" /\ at # "check" => journal.intents > Last
    /\ state \in {"BUILT", "COMPENSATING"} => journal.intents > Last

Describes ==
    journal.intents > Last \/ Ours \cup late.of \subseteq Described[journal.intents]

LEMMA CountSame ==
    ASSUME IntentCount, UNCHANGED <<state, pc, step>>, journal'.intents = journal.intents,
           at = "check" <=> at' = "check"
    PROVE  IntentCount'
<1>1. IntentOf' = IntentOf /\ Last' = Last
  BY DEF IntentOf, Last
<1> QED
  BY <1>1 DEF IntentCount

LEMMA CountOff ==
    ASSUME IntentCount, Shape, state' # "ADMITTED", pc' \notin {"build", "verify",
        "marker-built"},
           state' \in {"BUILT", "COMPENSATING"} => state \in {"BUILT", "COMPENSATING"},
           journal'.intents \in {journal.intents, journal.intents + 1}
    PROVE  IntentCount'
<1>1. journal.intents \in Nat /\ Last \in Nat
  BY LastIsNat DEF Shape
<1> QED
  BY <1>1 DEF IntentCount

LEMMA IntentCountStep == Shape /\ Flow /\ Place /\ IntentCount /\ [Next]_vars => IntentCount'
<1> SUFFICES ASSUME Shape, Flow, Place, IntentCount, StepKind PROVE IntentCount'
  BY StepKinds
<1> USE DEF labVars, builderVars, flowVars
<1>1. journal.intents \in Nat /\ Last \in Nat /\ Last >= 2
  BY LastIsNat DEF Shape
<1>2. CASE Calm \/ Onward
  BY <1>2, CountSame DEF Calm, Onward
<1>3. CASE Aside
  BY <1>3, CountOff DEF Aside, EffectPhases
<1>4. CASE Dispatch
  BY <1>4, CountSame DEF Dispatch, diskVars
<1>5. CASE DispatchLost
  <2>1. journal'.intents = journal.intents
    BY <1>5, Intents DEF DispatchLost
  <2> QED
    BY <1>5, <2>1, AbortedState, CountOff DEF DispatchLost
<1>6. CASE LateEffect \/ Northd \/ Interfere
  BY <1>6, CountSame DEF LateEffect, Northd, Interfere, diskVars
<1>7. CASE Begins
  <2>1. state = "ADMITTED" /\ pc = "ready" /\ pc' = "marker-dir"
        /\ UNCHANGED <<state, at, journal>>
    BY <1>7 DEF Begins
  <2> QED
    BY <2>1 DEF IntentCount
<1>8. CASE Verified
  <2>1. state = "INTENT" /\ pc = "verify" /\ pc' = "marker-built" /\ at = "check"
        /\ UNCHANGED <<state, at, journal>>
    BY <1>8 DEF Verified, Flow, Shape, EffectPhases
  <2>2. journal.intents >= Last
    BY <2>1 DEF IntentCount
  <2> QED
    BY <2>1, <2>2 DEF IntentCount
<1>9. CASE Compensate
  <2>1. state = "BUILT" /\ state' = "COMPENSATING" /\ pc' = "compensate"
        /\ journal' = journal
    BY <1>9 DEF Compensate, diskVars
  <2> QED
    BY <2>1, CountOff
<1>10. CASE MarkerVerified
  <2>1. journal'.intents = journal.intents
    BY <1>10, Intents DEF MarkerVerified
  <2>2. at = "readback" /\ at' = "check" /\ step' = step
    BY <1>10 DEF MarkerVerified
  <2>3. CASE pc = "marker-dir"
    <3>1. state = "ADMITTED" /\ state' = state /\ pc' = "marker-intent"
      BY <1>10, <2>3 DEF MarkerVerified, Flow
    <3> QED
      BY <2>1, <2>2, <2>3, <3>1 DEF IntentCount
  <2>4. CASE pc = "marker-intent"
    <3>1. state = "ADMITTED" /\ state' = "INTENT" /\ pc' = "build"
      BY <1>10, <2>4 DEF MarkerVerified, Flow
    <3>2. step' = 1 /\ journal.intents = 2
      BY <2>2, <2>4, <3>1 DEF IntentCount, Place
    <3>3. journal'.intents = IntentOf[IF at' = "check" THEN step' - 1 ELSE step']
      BY <2>1, <2>2, <3>2, IntentsGrow
    <3> QED
      BY <3>1, <3>3 DEF IntentCount
  <2>5. CASE pc = "marker-built"
    <3>1. state' = "BUILT" /\ pc' = "ready"
      BY <1>10, <2>5 DEF MarkerVerified
    <3>2. journal.intents > Last
      BY <2>2, <2>5 DEF IntentCount
    <3> QED
      BY <2>1, <3>1, <3>2 DEF IntentCount
  <2> QED
    BY <1>10, <2>3, <2>4, <2>5 DEF MarkerVerified
<1>11. CASE Announce
  <2>1. journal'.intents = journal.intents + 1
    BY <1>11 DEF Announce, Recorded, Shape
  <2>2. at = "check" /\ at' = "act" /\ UNCHANGED <<state, pc, step>> /\ Current.check # "await"
    BY <1>11 DEF Announce
  <2>3. pc = "build" => journal'.intents = IntentOf[step']
    <3> SUFFICES ASSUME pc = "build" PROVE journal'.intents = IntentOf[step']
      OBVIOUS
    <3>1. Announces(step) /\ step \in 1 .. Len(BuildProgram)
      BY <2>2, CurrentEffect DEF Announces, Place
    <3>2. journal.intents = IntentOf[step - 1]
      BY <2>2 DEF IntentCount
    <3> QED
      BY <2>1, <2>2, <3>1, <3>2, IntentsGrow
  <2>4. state' = "ADMITTED" => journal'.intents = (IF pc' = "marker-intent" THEN 1 ELSE 0)
                                                 + (IF at' = "check" THEN 0 ELSE 1)
    BY <2>1, <2>2 DEF IntentCount
  <2>5. /\ pc' \in {"verify", "marker-built"} => journal'.intents > Last
        /\ state' \in {"BUILT", "COMPENSATING"} => journal'.intents > Last
    BY <1>1, <2>1, <2>2 DEF IntentCount
  <2> QED
    BY <1>1, <2>1, <2>2, <2>3, <2>4, <2>5 DEF IntentCount
<1>12. CASE Captures
  <2>1. state' = state /\ journal'.intents = journal.intents /\ at' = "check"
    BY <1>12 DEF Captures, Advance
  <2>2. CASE pc = "compensate"
    <3>1. state = "COMPENSATING" /\ pc' \in {"compensate", "absence"}
      BY <1>12, <2>2 DEF Captures, Advance, Flow
    <3> QED
      BY <2>1, <3>1, CountOff
  <2>3. CASE pc = "build"
    <3>1. state = "INTENT" /\ step \in 1 .. Len(BuildProgram)
      BY <2>3 DEF Flow, Place
    <3>2. journal.intents = IntentOf[step]
      <4>1. CASE at = "readback"
        BY <2>3, <4>1 DEF IntentCount
      <4>2. CASE at = "check" /\ Current.check = "await"
        <5>1. ~Announces(step) /\ journal.intents = IntentOf[step - 1]
          BY <2>3, <4>2, CurrentEffect DEF Announces, IntentCount
        <5> QED
          BY <3>1, <5>1, IntentsGrow
      <4> QED
        BY <1>12, <4>1, <4>2 DEF Captures
    <3>3. CASE step < Len(BuildProgram)
      <4>1. step' = step + 1 /\ pc' = "build"
        BY <1>12, <2>3, <3>3 DEF Captures, Advance, Program
      <4>2. step' - 1 = step
        BY <3>1, <4>1
      <4> QED
        BY <2>1, <3>1, <3>2, <4>1, <4>2 DEF IntentCount
    <3>4. CASE ~(step < Len(BuildProgram))
      <4>1. pc' = "verify" /\ step = Len(BuildProgram)
        BY <1>12, <2>3, <3>1, <3>4, BuildCovers DEF Captures, Advance, Program
      <4> QED
        BY <1>1, <2>1, <3>1, <3>2, <4>1 DEF IntentCount, Last
    <3> QED
      BY <3>3, <3>4
  <2> QED
    BY <1>12, <2>2, <2>3 DEF Captures
<1> QED
  BY <1>2, <1>3, <1>4, <1>5, <1>6, <1>7, <1>8, <1>9, <1>10, <1>11, <1>12 DEF StepKind

-----------------------------------------------------------------------------
LEMMA ActOurs ==
    ASSUME Lab, NEW e \in AnyEffect, Acts(e)
    PROVE  Ours' \subseteq Ours \cup e.of
<1> SUFFICES ASSUME NEW t \in Mutable \cup {Rows}, world'[t] # {}, "foreign" \notin world'[t],
                    t \notin e.of
             PROVE  Exists(t) /\ ~Foreign(t)
  BY DEF Ours, Exists, Foreign
<1>1. t \in Things /\ world \in [Things -> SUBSET Attributes]
  BY DEF Things, Lab
<1>2. CASE UNCHANGED world
  BY <1>2 DEF Exists, Foreign
<1>3. CASE \E some \in SUBSET e.of : Perform(e, some)
  <2>1. PICK some \in SUBSET e.of : Perform(e, some)
    BY <1>3
  <2>2. world'[t] = IF t \in Reached(e, some)
                    THEN (world[t] \cup e.adds) \ e.dels ELSE world[t]
    BY <1>1, <2>1, Performed
  <2>3. e.adds \subseteq Attributes /\ world[t] \subseteq Attributes
    BY <1>1 DEF AnyEffect, BuildEffects, CompEffects, EffectSet
  <2>4. e.dels = Attributes => (world[t] \cup e.adds) \ e.dels = {}
    BY <2>3
  <2>5. t \notin Reached(e, some)
    BY <2>2, <2>4 DEF Reached
  <2> QED
    BY <2>2, <2>5 DEF Exists, Foreign
<1> QED
  BY <1>2, <1>3 DEF Acts

LEMMA OthersOurs == ASSUME Northd \/ Interfere, Lab PROVE Ours' \subseteq Ours
<1> SUFFICES ASSUME NEW t \in Mutable \cup {Rows}, world'[t] # {}, "foreign" \notin world'[t]
             PROVE  Exists(t) /\ ~Foreign(t)
  BY DEF Ours, Exists, Foreign
<1>1. t \in Things
  BY DEF Things
<1>2. CASE Northd
  <2>1. PICK g \in Generated : world' = [world EXCEPT ![g] = IF Exists(Rows) THEN {"made"} ELSE
            {}]
    BY <1>2 DEF Northd
  <2>2. t # g
    BY Kinds
  <2> QED
    BY <2>1, <2>2 DEF Exists, Foreign
<1>3. CASE Interfere
  <2>1. PICK u \in ForeignThings, new \in {{}, {"made", "foreign"}} :
          world' = [v \in Things |-> CASE v = u -> new
                                      [] v \in Fallout(u) \ {u} -> {}
                                      [] OTHER -> world[v]]
    BY <1>3 DEF Interfere
  <2>2. world'[t] = IF t = u THEN new ELSE IF t \in Fallout(u) THEN {} ELSE world[t]
    BY <1>1, <2>1
  <2>3. world'[t] = world[t]
    BY <2>2
  <2> QED
    BY <2>3 DEF Exists, Foreign
<1> QED
  BY <1>2, <1>3

(* The journal may only learn more. *)
LEMMA DescribesMore ==
    ASSUME Shape, Describes, journal'.intents \in {journal.intents, journal.intents + 1},
           journal.intents <= Last =>
             Ours' \cup late'.of \subseteq Ours \cup late.of \cup Described[journal.intents]
    PROVE  Describes'
<1>1. journal.intents \in Nat /\ Last \in Nat /\ Last' = Last /\ Described' = Described
  BY LastIsNat DEF Shape, Last, Described
<1>2. CASE journal'.intents > Last
  BY <1>1, <1>2 DEF Describes
<1>3. CASE ~(journal'.intents > Last)
  <2>1. journal.intents \in 0 .. Last /\ journal'.intents \in journal.intents .. Last
    BY <1>1, <1>3
  <2>2. Described[journal.intents] \subseteq Described[journal'.intents]
    BY <2>1, DescribedGrows
  <2>3. Ours \cup late.of \subseteq Described[journal.intents]
    BY <1>1, <2>1 DEF Describes
  <2> QED
    BY <1>1, <2>1, <2>2, <2>3 DEF Describes
<1> QED
  BY <1>2, <1>3

LEMMA DescribesStep ==
    Shape /\ Flow /\ Place /\ Lab /\ IntentCount /\ Describes /\ [Next]_vars => Describes'
<1> SUFFICES ASSUME Shape, Flow, Place, Lab, IntentCount, Describes, StepKind PROVE Describes'
  BY StepKinds
<1> USE DEF labVars, builderVars, flowVars, diskVars
<1>1. journal.intents \in Nat /\ Last \in Nat
  BY LastIsNat DEF Shape
<1>2. CASE Calm \/ Aside \/ Onward \/ Captures \/ Begins \/ Verified \/ Announce \/ MarkerVerified
           \/ Compensate
  <2>1. world' = world /\ late' = late
    BY <1>2 DEF Calm, Aside, Onward, Captures, Begins, Verified, Announce, MarkerVerified,
       Compensate
  <2>2. CASE Announce \/ MarkerVerified
    <3>1. journal'.intents \in {journal.intents, journal.intents + 1}
      BY <2>2, Intents DEF Announce, MarkerVerified
    <3> QED
      BY <2>1, <3>1, DescribesMore DEF Ours, Exists, Foreign
  <2>3. CASE ~(Announce \/ MarkerVerified)
    <3>1. journal'.intents \in {journal.intents, journal.intents + 1}
      BY <1>2, <2>3 DEF Calm, Aside, Onward, Captures, Begins, Verified, Compensate
    <3> QED
      BY <2>1, <3>1, DescribesMore DEF Ours, Exists, Foreign
  <2> QED
    BY <2>2, <2>3
<1>3. CASE Dispatch \/ DispatchLost
  <2>1. Acts(Current) /\ pc \in {"build", "compensate"} /\ at = "act"
    BY <1>3, Dispatched
  <2>2. journal'.intents = journal.intents
    BY <1>3, Intents DEF Dispatch, DispatchLost
  <2>3. CASE pc = "compensate"
    BY <1>1, <2>2, <2>3, DescribesMore DEF Flow, IntentCount
  <2>4. CASE pc = "build"
    <3>1. step \in 1 .. Len(BuildProgram) /\ Current = BuildProgram[step] /\ Announces(step)
      BY <2>1, <2>4, CurrentEffect DEF Place, Announces
    <3>2. journal.intents = IntentOf[step]
      BY <2>1, <2>4 DEF IntentCount
    <3>3. Current.of \subseteq Described[journal.intents]
      BY <3>1, <3>2, DescribedGrows
    <3>4. Ours' \subseteq Ours \cup Current.of
      BY <2>1, <2>4, CurrentEffect, ActOurs DEF AnyEffect
    <3>5. late' = late \/ late' = Current
      BY <1>3 DEF Dispatch, DispatchLost
    <3> QED
      BY <2>2, <3>3, <3>4, <3>5, DescribesMore
  <2> QED
    BY <2>1, <2>3, <2>4
<1>4. CASE LateEffect
  <2>1. late \in AnyEffect /\ late' = NoEffect /\ journal' = journal
    BY <1>4 DEF LateEffect, Lab, AnyEffect
  <2>2. Ours' \subseteq Ours \cup late.of
    BY <1>4, <2>1, LateActs, ActOurs
  <2>3. late'.of = {}
    BY <2>1 DEF NoEffect, Effect
  <2> QED
    BY <2>1, <2>2, <2>3, DescribesMore
<1>5. CASE Northd \/ Interfere
  <2>1. late' = late /\ journal' = journal
    BY <1>5 DEF Northd, Interfere
  <2> QED
    BY <1>5, <2>1, OthersOurs, DescribesMore
<1> QED
  BY <1>2, <1>3, <1>4, <1>5 DEF StepKind

-----------------------------------------------------------------------------
(* A build nobody disturbs.                                                *)
Past ==
    CASE pc = "build" -> 1 .. step - 1
      [] pc = "verify" -> 1 .. Len(BuildProgram)
      [] OTHER -> {}

Done(e, t) ==
    IF e.check = "await" THEN "made" \in world[t] /\ world[t] = bound[t]
                         ELSE e.adds \ {"file"} \subseteq world[t]

Settled ==
    \A t \in Mutable \cup {Rows} :
        at \in {"check", "act"} \/ t \notin Current.of => world[t] = bound[t]

Built ==
    touched = {} /\ pc \in {"build", "verify"} =>
        Settled /\ \A j \in Past : \A t \in BuildProgram[j].of : Done(BuildProgram[j], t)

LEMMA ObservedIsWorld == ASSUME ~KernelDatapath, NEW t PROVE Observed(t) = world[t]
  BY DEF Observed, Enslaved

LEMMA PastEffects ==
    ASSUME Place, NEW j \in Past
    PROVE  /\ j \in 1 .. Len(BuildProgram) /\ 1 \in Past
           /\ BuildProgram[j] \in BuildEffects
           /\ Builds(BuildProgram[j])
<1>1. j \in 1 .. Len(BuildProgram) /\ 1 \in Past
  BY BuildCovers DEF Past, Place
<1> QED
  BY <1>1, BuildCovers DEF BuildEffects

LEMMA BuiltSame ==
    ASSUME Built, UNCHANGED <<world, bound, touched, pc, step>>,
           at' \in {"check", "act"} => at \in {"check", "act"}
    PROVE  Built'
<1>1. Current' = Current /\ Past' = Past
  BY SameCurrent DEF Past
<1> QED
  BY <1>1 DEF Built, Settled, Done

LEMMA BuiltStep ==
    ASSUME ~KernelDatapath
    PROVE  Shape /\ Flow /\ Cover /\ Place /\ Lab /\ Built /\ [Next]_vars => Built'
<1> SUFFICES ASSUME Shape, Flow, Cover, Place, Lab, Built, StepKind PROVE Built'
  BY StepKinds
<1> USE DEF labVars, builderVars, flowVars
<1>1. CASE Calm \/ Onward \/ Announce
  BY <1>1, BuiltSame DEF Calm, Onward, Announce
<1>2. CASE Aside \/ Begins \/ Verified \/ DispatchLost \/ Compensate
  <2>1. pc' \notin {"build", "verify"}
    BY <1>2, AbortedState DEF Aside, Begins, Verified, DispatchLost, Compensate, EffectPhases
  <2> QED
    BY <2>1 DEF Built
<1>3. CASE MarkerVerified
  <2> SUFFICES ASSUME pc' \in {"build", "verify"} PROVE Built'
    BY DEF Built
  <2>1. pc = "marker-intent" /\ pc' = "build" /\ step' = step /\ UNCHANGED <<world, bound>>
    BY <1>3 DEF MarkerVerified
  <2>2. state = "ADMITTED"
    BY <2>1 DEF Flow
  <2>3. step = 1 /\ \A t \in Things : world[t] = {} /\ bound[t] = {}
    BY <2>2 DEF Place, Cover, Nothing, Lab, Exists
  <2>4. Past' = {}
    BY <2>1, <2>3 DEF Past
  <2> QED
    BY <2>1, <2>3, <2>4 DEF Built, Settled, Things
<1>4. CASE Dispatch
  <2> SUFFICES ASSUME pc' \in {"build", "verify"}, touched' = {} PROVE Built'
    BY DEF Built
  <2>1. pc = "build" /\ at = "act" /\ at' = "outcome" /\ UNCHANGED <<pc, step, bound, touched>>
    BY <1>4 DEF Dispatch
  <2>2. Current' = Current /\ Past' = Past
    BY <2>1, SameCurrent DEF Past
  <2>3. /\ Current \in BuildEffects /\ Current.check # "await" /\ Builds(Current)
        /\ Acts(Current)
    BY <1>4, <2>1, CurrentEffect, Dispatched DEF Place, BuildEffects
  <2>4. \A t \in Things : /\ world[t] \ {"file"} \subseteq world'[t]
                          /\ t \notin Current.of => world'[t] = world[t]
    <3>1. CASE UNCHANGED world
      BY <3>1
    <3>2. CASE \E some \in SUBSET Current.of : Perform(Current, some)
      <4>1. PICK some \in SUBSET Current.of : Perform(Current, some)
        BY <3>2
      <4>2. Reached(Current, some) = some /\ Current.dels \subseteq {"file"}
        BY <2>3, BuildsKeep DEF Reached, Builds
      <4>3. Current \in AnyEffect /\ world \in [Things -> SUBSET Attributes]
        BY <2>3 DEF AnyEffect, Lab
      <4>4. \A t \in Things : world'[t] = IF t \in Reached(Current, some)
                                 THEN (world[t] \cup Current.adds) \ Current.dels ELSE world[t]
        BY <4>1, <4>3, Performed
      <4> QED
        BY <4>2, <4>4
    <3> QED
      BY <2>3, <3>1, <3>2 DEF Acts
  <2>5. Settled /\ \A j \in Past : \A t \in BuildProgram[j].of : Done(BuildProgram[j], t)
    BY <2>1 DEF Built
  <2>6. Settled'
    BY <2>1, <2>2, <2>4, <2>5 DEF Settled, Things
  <2>7. ASSUME NEW j \in Past, NEW t \in BuildProgram[j].of PROVE Done(BuildProgram[j], t)'
    <3> DEFINE e == BuildProgram[j]
    <3>1. e \in BuildEffects /\ Builds(e) /\ Done(e, t)
      BY <2>5, <2>7, PastEffects
    <3> HIDE DEF e
    <3>2. t \in Things
      BY <2>7, <3>1 DEF BuildEffects, EffectSet, e
    <3>3. CASE e.check = "await"
      <4>1. t \in Generated
        BY <2>7, <3>1, <3>3 DEF Builds, e
      <4>2. t \notin Current.of
        BY <2>3, <4>1, Kinds DEF Builds
      <4>3. Done(e, t)'
        BY <2>1, <2>4, <3>1, <3>2, <3>3, <4>2 DEF Done
      <4> QED
        BY <4>3 DEF e
    <3>4. CASE e.check # "await"
      <4>1. Done(e, t)'
        BY <2>4, <3>1, <3>2, <3>4 DEF Done
      <4> QED
        BY <4>1 DEF e
    <3> QED
      BY <3>3, <3>4
  <2> QED
    BY <2>2, <2>6, <2>7 DEF Built
<1>5. CASE Captures
  <2> SUFFICES ASSUME pc' \in {"build", "verify"}, touched' = {} PROVE Built'
    BY DEF Built
  <2>1. pc = "build" /\ at' = "check" /\ touched = {} /\ world' = world
    BY <1>5 DEF Captures, Advance
  <2>2. /\ Current = BuildProgram[step] /\ Current \in BuildEffects
        /\ step \in 1 .. Len(BuildProgram)
    BY <2>1, CurrentEffect DEF Place
  <2>3. \A j \in Past' : j \in Past \/ j = step
    BY <1>5, <2>1, <2>2, BuildCovers DEF Captures, Advance, Program, Past
  <2>4. \A t \in Things : bound'[t] = IF t \in Current.of THEN world[t] ELSE bound[t]
    BY <1>5, ObservedIsWorld DEF Captures, Captured
  <2>5. Settled /\ \A j \in Past : \A t \in BuildProgram[j].of : Done(BuildProgram[j], t)
    BY <2>1 DEF Built
  <2>6. \A t \in Mutable \cup {Rows} : world'[t] = bound'[t]
    BY <2>1, <2>4, <2>5 DEF Settled, Things
  <2>7. ASSUME NEW j \in Past', NEW t \in BuildProgram[j].of PROVE Done(BuildProgram[j], t)'
    <3>1. CASE j = step
      <4>1. t \in Current.of /\ t \in Things /\ bound'[t] = world[t]
        BY <2>2, <2>4, <2>7, <3>1 DEF BuildEffects, EffectSet
      <4>2. Current.adds \subseteq world[t]
        BY <1>5, <4>1 DEF Captures, ReadsBack
      <4>3. Current.check = "await" => Current.adds = {"made"}
        BY <2>2 DEF BuildEffects, Builds
      <4>4. (BuildProgram[j])' = Current
        BY <2>2, <3>1
      <4> QED
        BY <2>1, <2>2, <3>1, <4>1, <4>2, <4>3 DEF Done
    <3>2. CASE j # step
      <4>1. j \in Past
        BY <2>3, <3>2
      <4>2. Done(BuildProgram[j], t) /\ t \in Things
        BY <2>5, <2>7, <4>1, PastEffects DEF BuildEffects, EffectSet
      <4> QED
        BY <2>1, <2>4, <4>2 DEF Done
    <3> QED
      BY <3>1, <3>2
  <2> QED
    BY <2>6, <2>7 DEF Built, Settled
<1>6. CASE LateEffect
  <2>1. pc' \notin {"build", "verify"}
    BY <1>6 DEF LateEffect, Cover, Flow
  <2> QED
    BY <2>1 DEF Built
<1>7. CASE Northd
  <2> SUFFICES ASSUME pc' \in {"build", "verify"}, touched' = {} PROVE Built'
    BY DEF Built
  <2>1. UNCHANGED <<pc, step, at, bound, touched>>
    BY <1>7 DEF Northd
  <2>2. Current' = Current /\ Past' = Past
    BY <2>1, SameCurrent DEF Past
  <2>3. Settled /\ \A j \in Past : \A t \in BuildProgram[j].of : Done(BuildProgram[j], t)
    BY <2>1 DEF Built
  <2>4. PICK g \in Generated :
          /\ Exists(Rows) # Exists(g)
          /\ world' = [world EXCEPT ![g] = IF Exists(Rows) THEN {"made"} ELSE {}]
    BY <1>7 DEF Northd
  <2>5. \A t \in Things \ {g} : world'[t] = world[t]
    BY <2>4
  <2>6. \A t \in Mutable \cup {Rows} : t \in Things \ {g}
    BY Kinds DEF Things
  <2>7. Settled'
    BY <2>1, <2>2, <2>3, <2>5, <2>6 DEF Settled
  <2>8. ASSUME NEW j \in Past, NEW t \in BuildProgram[j].of PROVE Done(BuildProgram[j], t)'
    <3>1. BuildProgram[j] \in BuildEffects /\ t \in Things /\ 1 \in Past
          /\ Done(BuildProgram[j], t)
      BY <2>3, <2>8, PastEffects DEF BuildEffects, EffectSet
    <3>2. t # g
      <4> SUFFICES ASSUME t = g PROVE FALSE
        OBVIOUS
      <4>1. BuildProgram[j].check = "await"
        BY <2>8, <3>1, <2>6 DEF BuildEffects, Builds
      <4>2. Exists(g)
        BY <3>1, <4>1 DEF Done, Exists
      <4>3. Done(ForwardNB, Rows)
        <5>1. BuildProgram[1] = ForwardNB /\ Rows \in ForwardNB.of
          BY BuildCovers DEF ForwardNB, Effect
        <5> QED
          BY <2>3, <3>1, <5>1
      <4>4. Exists(Rows)
        BY <4>3 DEF Done, ForwardNB, Effect, Exists
      <4> QED
        BY <2>4, <4>2, <4>4
    <3> QED
      BY <2>1, <2>5, <3>1, <3>2 DEF Done
  <2> QED
    BY <2>2, <2>7, <2>8 DEF Built
<1>8. CASE Interfere
  <2>1. touched' # {}
    BY <1>8 DEF Interfere
  <2> QED
    BY <2>1 DEF Built
<1> QED
  BY <1>1, <1>2, <1>3, <1>4, <1>5, <1>6, <1>7, <1>8 DEF StepKind

LEMMA BuiltVerifies ==
    ASSUME ~KernelDatapath, Shape, Lab, Built PROVE BuildVerifies
<1> SUFFICES ASSUME pc = "verify", touched = {} PROVE RuntimeComplete
  BY DEF BuildVerifies
<1>1. at = "check" /\ Past = DOMAIN BuildProgram
  BY BuildCovers DEF Shape, EffectPhases, Past
<1>2. Settled /\ \A j \in Past : \A t \in BuildProgram[j].of : Done(BuildProgram[j], t)
  BY DEF Built
<1>3. \A t \in Mutable : world[t] = bound[t]
  BY <1>1, <1>2 DEF Settled
<1>4. \A t \in Mutable : bound[t] # {}
  <2> SUFFICES ASSUME NEW t \in Mutable PROVE bound[t] # {}
    OBVIOUS
  <2>1. PICK i \in DOMAIN BuildProgram : Makes(BuildProgram[i], t)
    BY BuildCovers
  <2>2. Done(BuildProgram[i], t)
    BY <1>1, <1>2, <2>1 DEF Makes
  <2> QED
    BY <1>3, <2>1, <2>2 DEF Makes, Done
<1>5. \A t \in Mutable : Unchanged(t) /\ ~Foreign(t)
  BY <1>3, ObservedIsWorld DEF Unchanged, Lab, Things
<1>6. ASSUME NEW g \in Generated PROVE Exists(g) /\ Unchanged(g)
  <2>1. PICK i \in DOMAIN BuildProgram : BuildProgram[i] = Await(g)
    BY BuildCovers
  <2>2. Await(g).check = "await" /\ g \in Await(g).of
    BY DEF Await, Effect
  <2>3. "made" \in world[g] /\ world[g] = bound[g]
    BY <1>1, <1>2, <2>1, <2>2 DEF Done
  <2> QED
    BY <2>3, ObservedIsWorld DEF Exists, Unchanged
<1>7. {u \in Mutable : bound[u] # {}} = Mutable
  BY <1>4
<1>8. {Resource(t) : t \in {u \in Mutable : bound[u] # {}}} = BASE_MUTABLE_IDS
  BY <1>7 DEF BASE_MUTABLE_IDS
<1> QED
  BY <1>5, <1>6, <1>8 DEF RuntimeComplete

-----------------------------------------------------------------------------
RInv == Place /\ Lab /\ Kept /\ IntentCount /\ Describes

LEMMA RuntimeInitHolds == Init => RInv /\ Built
<1> SUFFICES ASSUME Init PROVE RInv /\ Built
  OBVIOUS
<1> USE DEF Init, RuntimeInit
<1>1. Current = NoEffect
  BY DEF Current
<1>2. Place
  BY <1>1 DEF Place
<1>3. Lab
  BY DEF Lab, Foreign
<1>4. Kept
  <2>1. Watched(late)
    BY BuildsKeep DEF Watched
  <2>2. OwnedKept
    BY BuildsKeep DEF OwnedKept, Owned
  <2> QED
    BY <2>1, <2>2 DEF Kept, WatchedCurrent
<1>5. IntentCount
  BY DEF IntentCount
<1>6. Describes
  <2>1. Ours = {}
    BY DEF Ours, Exists, Things
  <2>2. late.of = {}
    BY DEF NoEffect, Effect
  <2> QED
    BY <2>1, <2>2 DEF Describes
<1>7. Built
  BY DEF Built
<1> QED
  BY <1>2, <1>3, <1>4, <1>5, <1>6, <1>7 DEF RInv

LEMMA RInvStep == IInv /\ RInv /\ [Next]_vars => RInv'
  BY PlaceStep, LabStep, OwnedStep, WatchedStep, IntentCountStep, DescribesStep
     DEF IInv, RInv, Kept

LEMMA RuntimeInvariance == Spec => [](IInv /\ RInv)
<1>1. Init => RInv
  BY RuntimeInitHolds
<1>2. IInv /\ RInv /\ [Next]_vars => RInv'
  BY RInvStep
<1> QED
  BY <1>1, <1>2, Invariance, PTL DEF Spec

(* What another tool put under a planned name is removed only with its     *)
(* holder, in the window between the last identity check and a removal by  *)
(* name, or if it is a namespace that was exchanged before it was read:    *)
(* never by a removal that insists on the captured identity.               *)
THEOREM ForeignStays == Spec => ForeignKept
<1>1. IInv /\ RInv /\ [Next]_vars =>
        [\A t \in Mutable :
           Foreign(t) /\ "foreign" \notin world'[t] =>
               \/ GoesWithHolder(t)
               \/ t \in swapped /\ t[1] \notin {"port", "container", "ids"}
               \/ t[1] = "netns" /\ "foreign" \in bound[t]]_vars
  BY StepKinds, ForeignSpared DEF IInv, RInv, Spared
<1> QED
  BY <1>1, RuntimeInvariance, PTL DEF Spec, ForeignKept

(* Whoever reads the journal after a crash learns of all that exists, and  *)
(* of all that a tool left running may still change.                       *)
THEOREM JournalDescribes == Spec => []JournalDescribesRuntime
<1>1. IInv /\ RInv => JournalDescribesRuntime
  BY DescribedGrows, LastIsNat DEF IInv, Shape, RInv, Describes, JournalDescribesRuntime
<1> QED
  BY <1>1, RuntimeInvariance, PTL

(* A build that nobody disturbs and all of whose effects were read back    *)
(* passes its final verification, unless a kernel datapath enslaves the    *)
(* links it had read before.                                               *)
THEOREM BuildIsVerified ==
    ASSUME ~KernelDatapath PROVE Spec => []BuildVerifies
<1>1. Init => Built
  BY RuntimeInitHolds
<1>2. IInv /\ RInv /\ Built /\ [Next]_vars => Built'
  BY BuiltStep DEF IInv, RInv
<1>3. IInv /\ RInv /\ Built => BuildVerifies
  BY BuiltVerifies DEF IInv, RInv
<1> QED
  BY <1>1, <1>2, <1>3, RuntimeInvariance, PTL DEF Spec
==============================================================================

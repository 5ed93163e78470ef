---------------------------- MODULE FabricProofs ----------------------------
(***************************************************************************)
(* Theorems about packets in the fat-tree of switches, for every even      *)
(* number of ports, every set of flows between its hosts with all their    *)
(* hashes, every kind of switch and queues of any length.                  *)
(***************************************************************************)
EXTENDS Fabric, TLAPS

(***************************************************************************)
(* The inductive invariant.  Which link a packet is on follows from its    *)
(* flow, its path and the number of switches it has passed.                *)
(***************************************************************************)

(* The packets of link l, the oldest first. *)
FlightOf(q) == q.line \o q.queue
Flight(l) == FlightOf(link[l])

Device == [line : Seq(Packet), queue : Seq(Packet), used : BOOLEAN]

DeviceOK(q) ==
  q \in Device /\ Len(q.queue) <= MaxPackets /\ Len(q.line) <= LineLength
LinksOK == link \in [Links -> Device] /\ \A l \in Links : DeviceOK(link[l])

TypeInv ==
  /\ device \in Devices
  /\ LinksOK
  /\ win \in [SourceEdges -> Window]
  /\ sent \in [Flows -> Nat]
  /\ dropped \subseteq Packet
  /\ arrived \in [Flows -> Seq(Packet)]
  /\ halted \in BOOLEAN

DistanceOf(pkt) == Distance(Src[pkt.flow], Dst[pkt.flow])

(* The uplink of the aggregation switch that a path stands for: one octet  *)
(* carries it from a path-hashing edge switch.                             *)
CorePort(p) == IF HashesPaths THEN AggPort(p) ELSE p % uplinkPorts

(* The six legs of a route: from the source to its edge switch, up to the  *)
(* aggregation switch of the path, up to a core switch c of its group,     *)
(* down again, and from the edge switch of the destination to it.          *)
FirstLeg(l, pkt) ==
  pkt.hops = 0 /\ l = <<Src[pkt.flow], EdgeOf(Src[pkt.flow])>>
UpToAgg(l, pkt) ==
  /\ pkt.hops = 1 /\ DistanceOf(pkt) > 1
  /\ l = <<EdgeOf(Src[pkt.flow]), Agg(Src[pkt.flow][2], EdgePort(pkt.path))>>
UpToCore(l, pkt, c) ==
  /\ pkt.hops = 2 /\ DistanceOf(pkt) = 5
  /\ l = <<Agg(Src[pkt.flow][2], EdgePort(pkt.path)), Core(EdgePort(pkt.path), c)>>
DownToAgg(l, pkt, c) ==
  /\ pkt.hops = 3 /\ DistanceOf(pkt) = 5
  /\ l = <<Core(EdgePort(pkt.path), c), Agg(Dst[pkt.flow][2], EdgePort(pkt.path))>>
DownToEdge(l, pkt) ==
  /\ DistanceOf(pkt) > 1 /\ pkt.hops = DistanceOf(pkt) - 1
  /\ l = <<Agg(Dst[pkt.flow][2], EdgePort(pkt.path)), EdgeOf(Dst[pkt.flow])>>
LastLeg(l, pkt) ==
  pkt.hops = DistanceOf(pkt) /\ l = <<EdgeOf(Dst[pkt.flow]), Dst[pkt.flow]>>

(* A packet is on the leg its hops say, whatever core switch it takes; an  *)
(* ECMP edge switch leaves the second half of the path open.               *)
OnRoute(l, pkt) ==
  /\ \/ FirstLeg(l, pkt)
     \/ UpToAgg(l, pkt)
     \/ \E c \in Index : UpToCore(l, pkt, c) \/ DownToAgg(l, pkt, c)
     \/ DownToEdge(l, pkt)
     \/ LastLeg(l, pkt)
  /\ pkt.hops > 0 /\ DistanceOf(pkt) > 1 => pkt.path \in Paths
  /\ UpToAgg(l, pkt) /\ ~HashesPaths => pkt.path % uplinkPorts = 0

RouteInv ==
  /\ \A l \in Links : \A pkt \in PacketsIn(Flight(l)) : OnRoute(l, pkt)
  /\ \A f \in Flows : \A pkt \in PacketsIn(arrived[f]) :
       pkt.flow = f /\ pkt.hops = DistanceOf(pkt)

-----------------------------------------------------------------------------

(* No device marks a packet that an aggregation switch reads a port from.  *)
Unmarked == EcnThresh = 0 \/ ~HashesPaths

(* The ports an ECMP switch without flowlets hashes a flow to.             *)
HashPort(n, f) == (SwitchHash[n][f] % 65536) % uplinkPorts
EcmpEdgePort(f) == HashPort(EdgeOf(Src[f]), f)
EcmpPath(f) ==
  EcmpEdgePort(f) * uplinkPorts + HashPort(Agg(Src[f][2], EcmpEdgePort(f)), f)

(* The path of a packet that has passed the switches that choose it. *)
EcmpFollows(pkt) ==
  LET h == pkt.hops
      distance == DistanceOf(pkt)
  IN
  /\ h = 0 \/ distance = 1 => pkt.path = NoPath
  /\ h > 0 /\ distance > 1 /\ ~(h > 1 /\ distance = 5)
       => pkt.path = EcmpEdgePort(pkt.flow) * uplinkPorts
  /\ h > 1 /\ distance = 5 => pkt.path = EcmpPath(pkt.flow)

(* The core switch is the one of the path, the ToS byte carries its port on *)
(* the way there, and ECMP alone leaves the path no choice.                 *)
OnPath(l, pkt) ==
  /\ \A c \in Index : UpToCore(l, pkt, c) \/ DownToAgg(l, pkt, c) => c = CorePort(pkt.path)
  /\ HashesPaths /\ UpToAgg(l, pkt) => pkt.tos = AggPort(pkt.path)

PathInv ==
  /\ Unmarked => ~halted
  /\ Unmarked => \A l \in Links : \A pkt \in PacketsIn(Flight(l)) : OnPath(l, pkt)
  /\ device = "Ecmp" =>
       /\ \A l \in Links : \A pkt \in PacketsIn(Flight(l)) : EcmpFollows(pkt)
       /\ \A f \in Flows : \A pkt \in PacketsIn(arrived[f]) : EcmpFollows(pkt)

-----------------------------------------------------------------------------

(* The routes of x and y, packets of one flow, agree as far as h switches.  *)
SameWay(x, y, h) ==
  /\ x.flow = y.flow
  /\ h = 1 => EdgePort(x.path) = EdgePort(y.path)
  /\ h > 1 => x.path = y.path

(* x is in front of y in the sequence s. *)
Before(s, x, y) == \E i, j \in DOMAIN s : i < j /\ s[i] = x /\ s[j] = y

(* Packets of one flow that went the same way are in the order they were    *)
(* sent: on a link, between an earlier and a later link, between the host   *)
(* at the end and the links, and at the host.                               *)
OrderOnLinks ==
  \A l \in Links : \A x, y \in Packet :
    Before(Flight(l), x, y) /\ x.hops = y.hops /\ SameWay(x, y, x.hops) => x.id < y.id
OrderBetweenLinks ==
  \A l, m \in Links : \A x \in PacketsIn(Flight(l)), y \in PacketsIn(Flight(m)) :
    x.hops > y.hops /\ SameWay(x, y, y.hops) => x.id < y.id
OrderAtEnd ==
  \A f \in Flows, m \in Links : \A x \in PacketsIn(arrived[f]), y \in PacketsIn(Flight(m)) :
    SameWay(x, y, y.hops) => x.id < y.id
OrderArrived ==
  \A f \in Flows : \A x, y \in Packet :
    Before(arrived[f], x, y) /\ x.path = y.path => x.id < y.id

(* The packets that are there have been sent. *)
IdsSent ==
  /\ \A l \in Links : \A x \in PacketsIn(Flight(l)) : x.id <= sent[x.flow]
  /\ \A f \in Flows : \A x \in PacketsIn(arrived[f]) : x.id <= sent[f]

OrderInv == OrderOnLinks /\ OrderBetweenLinks /\ OrderAtEnd /\ OrderArrived /\ IdsSent

OrderOK == Unmarked => OrderInv

-----------------------------------------------------------------------------
(* The tree and its routing tables (fat-tree.cc). *)

LEMMA Sizes ==
  /\ K \in Nat /\ Half \in Nat \ {0} /\ Half < K
  /\ uplinkPorts = Half /\ totalPaths = Half * Half
  /\ Index = 0 .. uplinkPorts - 1
<1>1. K \in Nat /\ K >= 2 /\ K % 2 = 0
  BY KAssumption
<1>2. Half \in Nat \ {0} /\ Half < K
  BY <1>1 DEF Half
<1> QED BY <1>1, <1>2, FabricAssumption DEF Index

(* A node is the tuple of its kind and its numbers. *)
LEMMA NodeFields ==
  /\ \A p \in Pod, e, h \in Index : Host(p, e, h) \in Hosts
  /\ \A p \in Pod, e \in Index : Edge(p, e) \in Edges /\ Agg(p, e) \in Aggs
  /\ \A g, c \in Index : Core(g, c) \in Cores
  /\ \A x \in Hosts : /\ x[2] \in Pod /\ x[3] \in Index /\ x[4] \in Index
                      /\ x = Host(x[2], x[3], x[4]) /\ x[1] = "host"
  /\ \A x \in Edges : /\ x[2] \in Pod /\ x[3] \in Index
                      /\ x = Edge(x[2], x[3]) /\ x[1] = "edge"
  /\ \A x \in Aggs : /\ x[2] \in Pod /\ x[3] \in Index
                     /\ x = Agg(x[2], x[3]) /\ x[1] = "agg"
  /\ \A x \in Cores : /\ x[2] \in Index /\ x[3] \in Index
                      /\ x = Core(x[2], x[3]) /\ x[1] = "core"
BY DEF Host, Hosts, Edge, Edges, Agg, Aggs, Core, Cores

(* Nodes differ when their kinds or their numbers do. *)
LEMMA NodeNumbers ==
  /\ \A p, e, h : Host(p, e, h)[1] = "host" /\ Host(p, e, h)[2] = p /\ Host(p, e, h)[3] = e
                  /\ Host(p, e, h)[4] = h
  /\ \A p, e : Edge(p, e)[1] = "edge" /\ Edge(p, e)[2] = p /\ Edge(p, e)[3] = e
  /\ \A p, a : Agg(p, a)[1] = "agg" /\ Agg(p, a)[2] = p /\ Agg(p, a)[3] = a
  /\ \A g, c : Core(g, c)[1] = "core" /\ Core(g, c)[2] = g /\ Core(g, c)[3] = c
BY DEF Host, Edge, Agg, Core

(* The links exist, in both directions. *)
LEMMA LinksExist ==
  /\ \A x \in Hosts : <<x, EdgeOf(x)>> \in Links /\ <<EdgeOf(x), x>> \in Links
  /\ \A p \in Pod, e, a \in Index : /\ <<Edge(p, e), Agg(p, a)>> \in Links
                                   /\ <<Agg(p, a), Edge(p, e)>> \in Links
  /\ \A p \in Pod, g, c \in Index : /\ <<Agg(p, g), Core(g, c)>> \in Links
                                   /\ <<Core(g, c), Agg(p, g)>> \in Links
<1>1. \A l \in DownLinks : l \in Links /\ <<l[2], l[1]>> \in Links
  BY DEF Links
<1>2. ASSUME NEW x \in Hosts PROVE <<EdgeOf(x), x>> \in DownLinks
  <2>1. x[2] \in Pod /\ x[3] \in Index /\ x[4] \in Index /\ x = Host(x[2], x[3], x[4])
    BY NodeFields
  <2>2. EdgeOf(x) = Edge(x[2], x[3])
    BY DEF EdgeOf
  <2>3. <<Edge(x[2], x[3]), Host(x[2], x[3], x[4])>> \in HostLinks
    BY <2>1 DEF HostLinks
  <2> QED BY <2>1, <2>2, <2>3 DEF DownLinks
<1>3. \A p \in Pod, e, a \in Index : <<Agg(p, a), Edge(p, e)>> \in DownLinks
  BY DEF DownLinks, EdgeLinks
<1>4. \A p \in Pod, g, c \in Index : <<Core(g, c), Agg(p, g)>> \in DownLinks
  BY DEF DownLinks, CoreLinks
<1>5. ASSUME NEW a, NEW b, <<a, b>> \in DownLinks
      PROVE <<a, b>> \in Links /\ <<b, a>> \in Links
  <2> DEFINE l == <<a, b>>
  <2>1. l[1] = a /\ l[2] = b /\ l \in DownLinks
    BY <1>5
  <2> HIDE DEF l
  <2>2. l \in Links /\ <<l[2], l[1]>> \in Links
    BY <1>1, <2>1
  <2>3. <<b, a>> \in Links
    BY <2>1, <2>2
  <2> QED BY <2>2, <2>3 DEF l
<1>6. \A x \in Hosts : <<x, EdgeOf(x)>> \in Links /\ <<EdgeOf(x), x>> \in Links
  BY <1>2, <1>5
<1>7. \A p \in Pod, e, a \in Index : /\ <<Edge(p, e), Agg(p, a)>> \in Links
                                  /\ <<Agg(p, a), Edge(p, e)>> \in Links
  BY <1>3, <1>5
<1>8. \A p \in Pod, g, c \in Index : /\ <<Agg(p, g), Core(g, c)>> \in Links
                                  /\ <<Core(g, c), Agg(p, g)>> \in Links
  BY <1>4, <1>5
<1> QED BY <1>6, <1>7, <1>8

(* What the masks leave of the address of a host. *)
LEMMA Masks ==
  ASSUME NEW x \in Hosts
  PROVE  /\ CombineMask(Address(x), 4) = <<10, x[2], x[3], x[4] + 2>>
         /\ CombineMask(Address(x), 3) = <<10, x[2], x[3], 0>>
         /\ CombineMask(Address(x), 2) = <<10, x[2], 0, 0>>
BY DEF CombineMask, Address

(* An edge switch has the hosts under it in its table, and nothing else. *)
LEMMA EdgeTable ==
  ASSUME NEW n \in Edges, NEW x \in Hosts
  PROVE  /\ inTable(n, Address(x)) <=> n = EdgeOf(x)
         /\ n = EdgeOf(x) => getIntf(n, Address(x)) = x
         /\ Len(Uplinks(n)) = uplinkPorts
         /\ \A i \in Index : Uplinks(n)[i + 1] = Agg(n[2], i)
<1>1. n[1] = "edge" /\ n = Edge(n[2], n[3])
  BY NodeFields
<1>2. x[2] \in Pod /\ x[3] \in Index /\ x[4] \in Index /\ x = Host(x[2], x[3], x[4])
  BY NodeFields
<1>3. n = EdgeOf(x) <=> n[2] = x[2] /\ n[3] = x[3]
  BY <1>1, NodeNumbers DEF EdgeOf
<1>4. MaskOctets(n) = 4
  BY <1>1 DEF MaskOctets
<1>5. Routes(n) = [a \in {<<10, n[2], n[3], h + 2>> : h \in Index}
                           |-> Host(n[2], n[3], a[4] - 2)]
  BY <1>1 DEF Routes
<1> DEFINE a == <<10, x[2], x[3], x[4] + 2>>
<1>6. CombineMask(Address(x), MaskOctets(n)) = a
  BY <1>4, Masks
<1>7. a \in DOMAIN Routes(n) <=> n[2] = x[2] /\ n[3] = x[3]
  <2>1. ASSUME a \in DOMAIN Routes(n) PROVE n[2] = x[2] /\ n[3] = x[3]
    <3>1. PICK h \in Index : a = <<10, n[2], n[3], h + 2>>
      BY <1>5, <2>1
    <3> QED BY <3>1
  <2>2. ASSUME n[2] = x[2], n[3] = x[3] PROVE a \in DOMAIN Routes(n)
    <3>1. a = <<10, n[2], n[3], x[4] + 2>>
      BY <2>2
    <3> QED BY <1>2, <1>5, <3>1
  <2> QED BY <2>1, <2>2
<1>8. ASSUME n[2] = x[2], n[3] = x[3] PROVE Routes(n)[a] = x
  <2>1. a[4] = x[4] + 2 /\ x[4] \in Int
    BY <1>2, Sizes
  <2>2. Routes(n)[a] = Host(n[2], n[3], a[4] - 2)
    BY <1>5, <1>7, <1>8
  <2>3. a[4] - 2 = x[4]
    BY <2>1
  <2> HIDE DEF a
  <2> QED BY <1>2, <1>8, <2>2, <2>3
<1>9. /\ Len(Uplinks(n)) = uplinkPorts
      /\ \A i \in Index : Uplinks(n)[i + 1] = Agg(n[2], i)
  <2>1. Uplinks(n) = [i \in 1 .. Half |-> Agg(n[2], i - 1)]
    BY <1>1 DEF Uplinks
  <2> QED BY <2>1, Sizes
<1> HIDE DEF a
<1> QED BY <1>3, <1>6, <1>7, <1>8, <1>9 DEF inTable, getIntf

(* An aggregation switch has the edge switches of its pod. *)
LEMMA AggTable ==
  ASSUME NEW n \in Aggs, NEW x \in Hosts
  PROVE  /\ inTable(n, Address(x)) <=> n[2] = x[2]
         /\ n[2] = x[2] => getIntf(n, Address(x)) = EdgeOf(x)
         /\ Len(Uplinks(n)) = uplinkPorts
         /\ \A i \in Index : Uplinks(n)[i + 1] = Core(n[3], i)
<1>1. n[1] = "agg"
  BY NodeFields
<1>2. x[2] \in Pod /\ x[3] \in Index
  BY NodeFields
<1>3. MaskOctets(n) = 3
  BY <1>1 DEF MaskOctets
<1>4. Routes(n) = [a \in {<<10, n[2], e, 0>> : e \in Index} |-> Edge(n[2], a[3])]
  BY <1>1 DEF Routes
<1> DEFINE a == <<10, x[2], x[3], 0>>
<1>5. CombineMask(Address(x), MaskOctets(n)) = a
  BY <1>3, Masks
<1>6. a \in DOMAIN Routes(n) <=> n[2] = x[2]
  <2>1. ASSUME a \in DOMAIN Routes(n) PROVE n[2] = x[2]
    <3>1. PICK e \in Index : a = <<10, n[2], e, 0>>
      BY <1>4, <2>1
    <3> QED BY <3>1
  <2>2. ASSUME n[2] = x[2] PROVE a \in DOMAIN Routes(n)
    BY <1>2, <1>4, <2>2
  <2> QED BY <2>1, <2>2
<1>7. ASSUME n[2] = x[2] PROVE Routes(n)[a] = EdgeOf(x)
  <2>1. Routes(n)[a] = Edge(n[2], a[3]) /\ a[3] = x[3]
    BY <1>4, <1>6, <1>7
  <2> HIDE DEF a
  <2> QED BY <1>7, <2>1 DEF EdgeOf
<1>8. /\ Len(Uplinks(n)) = uplinkPorts
      /\ \A i \in Index : Uplinks(n)[i + 1] = Core(n[3], i)
  <2>1. Uplinks(n) = [i \in 1 .. Half |-> Core(n[3], i - 1)]
    BY <1>1 DEF Uplinks
  <2> QED BY <2>1, Sizes
<1> HIDE DEF a
<1> QED BY <1>5, <1>6, <1>7, <1>8 DEF inTable, getIntf

(* A core switch has every pod. *)
LEMMA CoreTable ==
  ASSUME NEW n \in Cores, NEW x \in Hosts
  PROVE  inTable(n, Address(x)) /\ getIntf(n, Address(x)) = Agg(x[2], n[2])
<1>1. n[1] = "core"
  BY NodeFields
<1>2. x[2] \in Pod
  BY NodeFields
<1>3. MaskOctets(n) = 2
  BY <1>1 DEF MaskOctets
<1>4. Routes(n) = [a \in {<<10, p, 0, 0>> : p \in Pod} |-> Agg(a[2], n[2])]
  BY <1>1 DEF Routes
<1> DEFINE a == <<10, x[2], 0, 0>>
<1>5. CombineMask(Address(x), MaskOctets(n)) = a
  BY <1>3, Masks
<1>6. a \in DOMAIN Routes(n) /\ a[2] = x[2]
  BY <1>2, <1>4
<1>7. Routes(n)[a] = Agg(a[2], n[2])
  BY <1>4, <1>6
<1> HIDE DEF a
<1> QED BY <1>5, <1>6, <1>7 DEF inTable, getIntf

-----------------------------------------------------------------------------
(* Paths and windows (path-hashing-net-device.cc). *)

(* A path stands for two ports that exist, and the second fits the ToS byte *)
(* of a switch of up to 256 uplinks.                                        *)
LEMMA PathPorts ==
  ASSUME NEW p \in Paths
  PROVE  /\ EdgePort(p) \in Index /\ p % uplinkPorts \in Index
         /\ AggPort(p) \in Index /\ AggPort(p) \in 0 .. 255
         /\ uplinkPorts <= 256 => AggPort(p) = p % uplinkPorts
<1> DEFINE u == uplinkPorts
           d == p \div u
           m == p % u
<1>1. u \in Nat \ {0} /\ p \in Nat /\ p < u * u
  BY Sizes DEF Paths
<1>2. d \in Nat /\ m \in 0 .. u - 1 /\ p = u * d + m
  BY <1>1
<1>3. d < u
  <2>1. SUFFICES ASSUME d >= u PROVE FALSE
    BY <1>1, <1>2
  <2>2. u * d >= u * u
    BY <1>1, <1>2, <2>1
  <2> QED BY <1>1, <1>2, <2>2
<1>4. /\ m % 256 \in 0 .. u - 1 /\ m % 256 \in 0 .. 255
      /\ u <= 256 => m % 256 = m
  BY <1>1, <1>2
<1> QED BY <1>1, <1>2, <1>3, <1>4, Sizes DEF EdgePort, AggPort

(* Two ports make a path, and are the ports it stands for. *)
LEMMA PortsMakePath ==
  ASSUME NEW i \in Index, NEW j \in Index
  PROVE  LET p == i * uplinkPorts + j IN
         p \in Paths /\ EdgePort(p) = i /\ p % uplinkPorts = j
<1> DEFINE u == uplinkPorts
           p == i * u + j
<1>1. /\ u \in Nat \ {0} /\ i \in 0 .. u - 1 /\ j \in 0 .. u - 1
      /\ totalPaths = u * u
  BY Sizes
<1>2. i * u \in Nat
  BY <1>1
<1>3. i * u <= (u - 1) * u /\ (u - 1) * u = u * u - u
  BY <1>1
<1>4. p \in Nat /\ p < u * u
  BY <1>1, <1>2, <1>3
<1>5. p \div u = i /\ p % u = j
  <2>1. p = u * (p \div u) + (p % u) /\ p \div u \in Nat /\ p % u \in 0 .. u - 1
    BY <1>1, <1>4
  <2>2. u * (p \div u) = (p \div u) * u
    BY <1>1, <2>1
  <2> DEFINE d == p \div u
  <2>3. d \in Nat /\ d * u + (p % u) = i * u + j
    BY <2>1, <2>2
  <2> HIDE DEF d
  <2>4. ~(d < i)
    <3>1. SUFFICES ASSUME d + 1 <= i PROVE FALSE
      BY <1>1, <2>3
    <3>2. (d + 1) * u <= i * u /\ (d + 1) * u = d * u + u /\ d * u \in Nat
      BY <1>1, <2>3, <3>1
    <3> QED BY <1>1, <1>2, <2>1, <2>3, <3>2
  <2>5. ~(d > i)
    <3>1. SUFFICES ASSUME i + 1 <= d PROVE FALSE
      BY <1>1, <2>3
    <3>2. (i + 1) * u <= d * u /\ (i + 1) * u = i * u + u /\ d * u \in Nat
      BY <1>1, <2>3, <3>1
    <3> QED BY <1>1, <1>2, <2>1, <2>3, <3>2
  <2>6. d = i
    BY <1>1, <2>3, <2>4, <2>5
  <2> QED BY <1>1, <1>2, <2>1, <2>3, <2>6 DEF d
<1> QED BY <1>1, <1>4, <1>5 DEF Paths, EdgePort

(* Every choice of an edge switch is a path it has. *)
LEMMA HashesArePaths ==
  ASSUME NEW w, NEW f \in Flows
  PROVE  hashToPath(f) \in Paths /\ ChoosePath(w, f) \in Paths
<1>1. \A n \in Nat : n % totalPaths \in Paths
  <2>1. totalPaths \in Nat \ {0}
    BY PathsAssumption, Sizes
  <2> QED BY <2>1 DEF Paths
<1>2. Hash[f] \in Nat /\ ReHash[f] \in Nat
  BY HashAssumption
<1> QED BY <1>1, <1>2 DEF hashToPath, reHashToPath, ChoosePath

(* The count of a packet leaves a window. *)
LEMMA CountType ==
  ASSUME NEW w \in Window, NEW f \in Flows, NEW adv
  PROVE  Count(adv, w, f) \in Window
<1>1. ASSUME NEW p \in Paths PROVE UpdatePath(w, p) \in Window
  <2> DEFINE cnt == w.pathCounter[p] + 1
             counters == [w.pathCounter EXCEPT ![p] = cnt]
             onMax == IF cnt > w.packetsOnMaxPath THEN cnt ELSE w.packetsOnMaxPath
             max == IF cnt > w.packetsOnMaxPath THEN p ELSE w.maxPath
             total == w.totalPackets + 1
  <2>1. /\ counters \in [Paths -> Nat] /\ onMax \in Nat
        /\ max \in Paths /\ total \in Nat
    BY DEF Window
  <2>2. UpdatePath(w, p) =
          [w EXCEPT !.pathCounter = counters, !.packetsOnMaxPath = onMax,
                    !.maxPath = max, !.totalPackets = total]
    BY Zenon DEF UpdatePath
  <2> HIDE DEF cnt, counters, onMax, max, total
  <2> QED BY <2>1, <2>2 DEF Window
<1> QED BY <1>1, HashesArePaths DEF Count, CountHashed, CountTaken

(* So does the end of the window: resetWindow divides by no zero. *)
LEMMA ResetType ==
  ASSUME NEW w \in Window
  PROVE  ResetWindow(w) \in Window
<1> DEFINE share == w.totalPackets \div totalPaths
           onMax == w.pathCounter[w.maxPath]
           zeros == [p \in Paths |-> 0]
           offset == NewOffset(w)
<1>1. /\ w.totalPackets \in Nat /\ onMax \in Nat /\ totalPaths \in Nat \ {0}
      /\ w.maxPath \in Paths /\ w.maxPath \in Nat
  BY PathsAssumption, Sizes DEF Window, Paths
<1>2. \A a \in Nat, b \in Nat \ {0} : a \div b \in Nat /\ (a >= b => a \div b >= 1)
  OBVIOUS
<1>3. offset \in Nat
  <2>1. CASE w.totalPackets >= totalPaths /\ onMax > share
    <3>1. share \in Nat \ {0}
      BY <1>1, <1>2, <2>1
    <3>2. onMax \div share \in Nat \ {0}
      BY <1>1, <1>2, <2>1, <3>1
    <3>3. 100 \div (onMax \div share) \in Nat
      BY <1>2, <3>2
    <3> QED BY <2>1, <3>3 DEF NewOffset
  <2>2. CASE ~(w.totalPackets >= totalPaths /\ onMax > share)
    BY <2>2 DEF NewOffset
  <2> QED BY <2>1, <2>2
<1>4. zeros \in [Paths -> Nat]
  OBVIOUS
<1>5. ResetWindow(w) =
        [w EXCEPT !.previousMaxPath = w.maxPath,
                  !.packetsOnPreviousMaxPath = onMax,
                  !.offset = offset, !.totalPackets = 0,
                  !.packetsOnMaxPath = 0, !.pathCounter = zeros]
  BY DEF ResetWindow
<1> HIDE DEF zeros, onMax, offset
<1> QED BY <1>1, <1>3, <1>4, <1>5 DEF Window, zeros, onMax, offset

-----------------------------------------------------------------------------
(* The packets of a link as one sequence. *)

LEMMA HeadOfConcat ==
  ASSUME NEW S, NEW a \in Seq(S), NEW b \in Seq(S), a # <<>>
  PROVE  /\ a \o b # <<>> /\ Head(a \o b) = Head(a) /\ Head(a) \in S
         /\ Tail(a) \o b = Tail(a \o b)
OBVIOUS

LEMMA ConcatAppend ==
  ASSUME NEW S, NEW a \in Seq(S), NEW b \in Seq(S), NEW e \in S
  PROVE  /\ a \o Append(b, e) = Append(a \o b, e)
         /\ b = <<>> => Append(a, e) \o b = Append(a \o b, e)
OBVIOUS

LEMMA MoveHead ==
  ASSUME NEW S, NEW a \in Seq(S), NEW b \in Seq(S), b # <<>>
  PROVE  Append(a, Head(b)) \o Tail(b) = a \o b
OBVIOUS

(* The elements of a sequence, after its head is gone or one is added. *)
LEMMA TailElements ==
  ASSUME NEW S, NEW s \in Seq(S), s # <<>>
  PROVE  /\ Tail(s) \in Seq(S) /\ Head(s) \in S /\ Head(s) \in PacketsIn(s)
         /\ PacketsIn(Tail(s)) \subseteq PacketsIn(s)
         /\ 1 \in DOMAIN s /\ s[1] = Head(s)
         /\ \A i \in DOMAIN Tail(s) : i + 1 \in DOMAIN s /\ i + 1 > 1 /\ Tail(s)[i] = s[i + 1]
BY DEF PacketsIn

LEMMA TailOrder ==
  ASSUME NEW S, NEW s \in Seq(S), s # <<>>
  PROVE  /\ \A x, y : Before(Tail(s), x, y) => Before(s, x, y)
         /\ \A y \in PacketsIn(Tail(s)) : Before(s, Head(s), y)
<1>1. /\ 1 \in DOMAIN s /\ s[1] = Head(s)
      /\ \A i \in DOMAIN Tail(s) : i + 1 \in DOMAIN s /\ i + 1 > 1 /\ Tail(s)[i] = s[i + 1]
  BY TailElements
<1>2. DOMAIN Tail(s) \subseteq Nat
  OBVIOUS
<1> DEFINE t == Tail(s)
<1> HIDE DEF t
<1>3. ASSUME NEW x, NEW y, Before(t, x, y) PROVE Before(s, x, y)
  <2>1. PICK i \in DOMAIN t, j \in DOMAIN t : i < j /\ t[i] = x /\ t[j] = y
    BY <1>3 DEF Before
  <2>2. i + 1 \in DOMAIN s /\ j + 1 \in DOMAIN s /\ i + 1 < j + 1
        /\ s[i + 1] = x /\ s[j + 1] = y
    BY <1>1, <1>2, <2>1 DEF t
  <2> QED BY <2>2 DEF Before
<1>4. ASSUME NEW y \in PacketsIn(t) PROVE Before(s, Head(s), y)
  <2>1. PICK j \in DOMAIN t : t[j] = y
    BY DEF PacketsIn
  <2>2. j + 1 \in DOMAIN s /\ 1 < j + 1 /\ s[j + 1] = y
    BY <1>1, <1>2, <2>1 DEF t
  <2> QED BY <1>1, <2>2 DEF Before
<1> QED BY <1>3, <1>4 DEF t

LEMMA AppendElements ==
  ASSUME NEW S, NEW s \in Seq(S), NEW e \in S
  PROVE  /\ Append(s, e) \in Seq(S)
         /\ PacketsIn(Append(s, e)) = PacketsIn(s) \cup {e}
         /\ \A i \in DOMAIN Append(s, e) :
              \/ i \in DOMAIN s /\ Append(s, e)[i] = s[i]
              \/ Append(s, e)[i] = e /\ \A j \in DOMAIN s : j < i
<1> DEFINE t == Append(s, e)
           n == Len(s)
<1>1. /\ t \in Seq(S) /\ n \in Nat /\ DOMAIN s = 1 .. n /\ DOMAIN t = 1 .. n + 1
      /\ t[n + 1] = e /\ \A i \in 1 .. n : t[i] = s[i]
  OBVIOUS
<1> HIDE DEF t, n
<1>2. PacketsIn(t) = PacketsIn(s) \cup {e}
  <2>1. \A x : x \in PacketsIn(t) => x \in PacketsIn(s) \cup {e}
    BY <1>1 DEF PacketsIn
  <2>2. \A x \in PacketsIn(s) : x \in PacketsIn(t)
    BY <1>1 DEF PacketsIn
  <2>3. e \in PacketsIn(t)
    BY <1>1 DEF PacketsIn
  <2> QED BY <2>1, <2>2, <2>3
<1>3. \A i \in DOMAIN t :
        \/ i \in DOMAIN s /\ t[i] = s[i]
        \/ t[i] = e /\ \A j \in DOMAIN s : j < i
  BY <1>1
<1> QED BY <1>1, <1>2, <1>3 DEF t

LEMMA AppendOrder ==
  ASSUME NEW S, NEW s \in Seq(S), NEW e \in S, NEW x, NEW y, Before(Append(s, e), x, y)
  PROVE  Before(s, x, y) \/ (x \in PacketsIn(s) /\ y = e)
<1> DEFINE t == Append(s, e)
<1>1. /\ DOMAIN s \subseteq Nat /\ DOMAIN t \subseteq Nat
  OBVIOUS
<1>2. \A i \in DOMAIN t :
        \/ i \in DOMAIN s /\ t[i] = s[i]
        \/ t[i] = e /\ \A j \in DOMAIN s : j < i
  BY AppendElements
<1>3. Len(s) \in Nat /\ DOMAIN s = 1 .. Len(s) /\ DOMAIN t = 1 .. Len(s) + 1
  OBVIOUS
<1>4. PICK i \in DOMAIN t, j \in DOMAIN t : i < j /\ t[i] = x /\ t[j] = y
  BY DEF Before
<1> HIDE DEF t
<1>5. i \in DOMAIN s /\ t[i] = s[i]
  BY <1>1, <1>2, <1>3, <1>4
<1>6. CASE j \in DOMAIN s /\ t[j] = s[j]
  BY <1>4, <1>5, <1>6 DEF Before
<1>7. CASE t[j] = e
  BY <1>4, <1>5, <1>7 DEF PacketsIn
<1> QED BY <1>2, <1>6, <1>7, <1>4

LEMMA ConcatElements ==
  ASSUME NEW S, NEW a \in Seq(S), NEW b \in Seq(S)
  PROVE  /\ a \o b \in Seq(S) /\ PacketsIn(a \o b) = PacketsIn(a) \cup PacketsIn(b)
         /\ PacketsIn(a) \subseteq S
<1> DEFINE c == a \o b
           m == Len(a)
           n == Len(b)
<1>1. /\ c \in Seq(S) /\ m \in Nat /\ n \in Nat
      /\ DOMAIN a = 1 .. m /\ DOMAIN b = 1 .. n /\ DOMAIN c = 1 .. m + n
      /\ \A i \in 1 .. m : a[i] \in S
      /\ \A i \in 1 .. m + n : c[i] = IF i <= m THEN a[i] ELSE b[i - m]
  OBVIOUS
<1> HIDE DEF c, m, n
<1>2. \A x \in PacketsIn(c) : x \in PacketsIn(a) \cup PacketsIn(b)
  BY <1>1 DEF PacketsIn
<1>3. \A x \in PacketsIn(a) : x \in PacketsIn(c)
  BY <1>1 DEF PacketsIn
<1>4. ASSUME NEW x \in PacketsIn(b) PROVE x \in PacketsIn(c)
  <2>1. PICK i \in 1 .. n : x = b[i]
    BY <1>1 DEF PacketsIn
  <2>2. m + i \in 1 .. m + n /\ c[m + i] = x
    BY <1>1, <2>1
  <2> QED BY <1>1, <2>2 DEF PacketsIn
<1>5. PacketsIn(a) \subseteq S
  BY <1>1 DEF PacketsIn
<1>6. PacketsIn(c) = PacketsIn(a) \cup PacketsIn(b)
  BY <1>2, <1>3, <1>4
<1> QED BY <1>1, <1>5, <1>6 DEF c

-----------------------------------------------------------------------------
(* What the devices do to the packets of a link (LinkQueue). *)

LEMMA DeviceFields ==
  ASSUME NEW q \in Device
  PROVE  /\ q.line \in Seq(Packet) /\ q.queue \in Seq(Packet) /\ q.used \in BOOLEAN
         /\ FlightOf(q) \in Seq(Packet)
<1>1. q.line \in Seq(Packet) /\ q.queue \in Seq(Packet) /\ q.used \in BOOLEAN
  BY DEF Device
<1>2. FlightOf(q) \in Seq(Packet)
  BY <1>1, ConcatElements DEF FlightOf
<1> QED BY <1>1, <1>2

(* One field of a device is changed. *)
WithLine(q, a) == [q EXCEPT !.line = a]
WithQueue(q, a) == [q EXCEPT !.queue = a]
AsUsed(q) == [q EXCEPT !.used = TRUE]

LEMMA SetField ==
  ASSUME NEW q \in Device
  PROVE  /\ \A a \in Seq(Packet) :
              /\ WithLine(q, a) \in Device /\ WithLine(q, a).line = a
              /\ WithLine(q, a).queue = q.queue
         /\ \A a \in Seq(Packet) :
              /\ WithQueue(q, a) \in Device /\ WithQueue(q, a).queue = a
              /\ WithQueue(q, a).line = q.line
         /\ AsUsed(q) \in Device /\ AsUsed(q).line = q.line /\ AsUsed(q).queue = q.queue
BY DEF Device, WithLine, WithQueue, AsUsed

(* The line delivers its oldest packet. *)
LEMMA ReceivedFlight ==
  ASSUME NEW q, DeviceOK(q), q.line # <<>>
  PROVE  /\ DeviceOK(Received(q)) /\ FlightOf(Received(q)) = Tail(FlightOf(q))
         /\ FlightOf(q) # <<>> /\ Head(FlightOf(q)) = Head(q.line) /\ Head(q.line) \in Packet
<1> DEFINE t == Tail(q.line)
<1>1. q \in Device /\ Len(q.queue) <= MaxPackets /\ Len(q.line) <= LineLength
  BY DEF DeviceOK
<1>2. q.line \in Seq(Packet) /\ q.queue \in Seq(Packet)
  BY <1>1, DeviceFields
<1>3. t \in Seq(Packet) /\ Len(t) <= Len(q.line) /\ Len(t) \in Nat /\ Len(q.line) \in Nat
  BY <1>2
<1>4. Received(q) = AsUsed(WithLine(q, t))
  BY Zenon DEF Received, AsUsed, WithLine
<1>5. t \o q.queue = Tail(q.line \o q.queue) /\ q.line \o q.queue # <<>>
      /\ Head(q.line \o q.queue) = Head(q.line) /\ Head(q.line) \in Packet
  BY <1>2, HeadOfConcat
<1> HIDE DEF t
<1>6. /\ Received(q).line = t /\ Received(q).queue = q.queue
      /\ Received(q) \in Device
  <2>1. WithLine(q, t) \in Device /\ WithLine(q, t).line = t /\ WithLine(q, t).queue = q.queue
    BY <1>1, <1>3, SetField
  <2> QED BY <1>4, <2>1, SetField
<1>7. Len(t) <= LineLength
  BY <1>1, <1>3, LinkAssumption
<1> QED BY <1>1, <1>5, <1>6, <1>7 DEF DeviceOK, FlightOf

(* TransmitReadyEvent only moves a packet from the queue to the line. *)
LEMMA TransmittedFlight ==
  ASSUME NEW q, DeviceOK(q), CanTransmit(q)
  PROVE  DeviceOK(TransmitReady(q)) /\ FlightOf(TransmitReady(q)) = FlightOf(q)
<1> DEFINE a == Append(q.line, Head(q.queue))
           b == Tail(q.queue)
<1>1. /\ q \in Device /\ Len(q.queue) <= MaxPackets /\ Len(q.line) < LineLength
      /\ q.queue # <<>>
  BY DEF DeviceOK, CanTransmit, LineFree
<1>2. q.line \in Seq(Packet) /\ q.queue \in Seq(Packet)
  BY <1>1, DeviceFields
<1>3. /\ a \in Seq(Packet) /\ b \in Seq(Packet)
      /\ Len(a) = Len(q.line) + 1 /\ Len(b) <= Len(q.queue)
      /\ Len(q.line) \in Nat /\ Len(q.queue) \in Nat /\ Len(b) \in Nat
  BY <1>1, <1>2
<1>4. a \o b = q.line \o q.queue
  BY <1>1, <1>2, MoveHead
<1> HIDE DEF a, b
<1>5. TransmitReady(q) = WithQueue(WithLine(q, a), b)
  <2>1. TransmitReady(q) = [[q EXCEPT !.line = a] EXCEPT !.queue = Tail(@)]
    BY Zenon DEF TransmitReady, a
  <2>2. WithLine(q, a).queue = q.queue
    BY <1>1, <1>3, SetField
  <2>3. [[q EXCEPT !.line = a] EXCEPT !.queue = Tail(@)] = WithQueue(WithLine(q, a), Tail(WithLine(q, a).queue))
    BY Zenon DEF WithLine, WithQueue
  <2> QED BY <2>1, <2>2, <2>3, Zenon DEF b
<1>6. TransmitReady(q) \in Device /\ TransmitReady(q).line = a /\ TransmitReady(q).queue = b
  <2> DEFINE w == WithLine(q, a)
  <2>1. w \in Device /\ w.line = a
    BY <1>1, <1>3, SetField
  <2> HIDE DEF w
  <2>2. WithQueue(w, b) \in Device /\ WithQueue(w, b).line = w.line /\ WithQueue(w, b).queue = b
    BY <1>3, <2>1, SetField
  <2> QED BY <1>5, <2>1, <2>2 DEF w
<1>7. Len(a) <= LineLength /\ Len(b) <= MaxPackets
  BY <1>1, <1>3, LinkAssumption
<1> QED BY <1>4, <1>6, <1>7 DEF DeviceOK, FlightOf

(* A packet as it leaves a device: the same, or with the ECN bits set. *)
WithMark(x) == [x EXCEPT !.tos = SetEcnCE(x.tos)]
Carried(x, y) == y = x \/ (EcnThresh > 0 /\ y = WithMark(x))

LEMMA CarriedFields ==
  ASSUME NEW x \in Packet, NEW y, Carried(x, y)
  PROVE  /\ y \in Packet /\ y.flow = x.flow /\ y.id = x.id /\ y.path = x.path
         /\ y.hops = x.hops /\ (EcnThresh = 0 => y.tos = x.tos)
<1>1. x.tos \in 0 .. 255
  BY DEF Packet
<1>2. SetEcnCE(x.tos) \in 0 .. 255
  BY <1>1 DEF SetEcnCE
<1> HIDE DEF SetEcnCE
<1> QED BY <1>1, <1>2, LinkAssumption DEF Carried, WithMark, Packet

(* SendFrom puts the packet behind the others, wherever it goes. *)
LEMMA SentFlight ==
  ASSUME NEW q, DeviceOK(q), ~Full(q), NEW x \in Packet, NEW r \in SendFrom(q, x)
  PROVE  /\ DeviceOK(r)
         /\ \E y : Carried(x, y) /\ FlightOf(r) = Append(FlightOf(q), y)
<1> DEFINE y == Marked(q, x)
<1>1. Carried(x, y)
  <2>1. CASE x.large /\ EcnThresh > 0 /\ Len(q.queue) >= EcnThresh
    <3>1. Marked(q, x) = WithMark(x)
      BY <2>1, Zenon DEF Marked, WithMark
    <3> QED BY <2>1, <3>1, Zenon DEF Carried
  <2>2. CASE ~(x.large /\ EcnThresh > 0 /\ Len(q.queue) >= EcnThresh)
    <3>1. Marked(q, x) = x
      BY <2>2 DEF Marked
    <3> QED BY <3>1, Zenon DEF Carried
  <2> QED BY <2>1, <2>2
<1>2. y \in Packet
  BY <1>1, CarriedFields
<1> HIDE DEF y
<1>3. /\ q \in Device /\ Len(q.queue) < MaxPackets /\ Len(q.line) <= LineLength
      /\ Len(q.queue) \in Nat /\ Len(q.line) \in Nat
      /\ q.line \in Seq(Packet) /\ q.queue \in Seq(Packet)
  <2>1. q \in Device /\ q.line \in Seq(Packet) /\ q.queue \in Seq(Packet)
    BY DeviceFields DEF DeviceOK
  <2>2. Len(q.queue) \in Nat /\ Len(q.line) \in Nat
    BY <2>1
  <2> QED BY <2>1, <2>2, LinkAssumption DEF DeviceOK, Full
<1>4. CASE r = WithQueue(q, Append(q.queue, y))
  <2> DEFINE b == Append(q.queue, y)
  <2>1. b \in Seq(Packet) /\ Len(b) = Len(q.queue) + 1
    BY <1>2, <1>3
  <2>2. q.line \o b = Append(q.line \o q.queue, y)
    <3>1. \A s, t \in Seq(Packet) : \A e \in Packet : s \o Append(t, e) = Append(s \o t, e)
      BY ConcatAppend
    <3> QED BY <1>2, <1>3, <3>1
  <2> HIDE DEF b
  <2>4. r \in Device /\ r.line = q.line /\ r.queue = b
    BY <1>3, <1>4, <2>1, SetField DEF b
  <2>5. Len(b) <= MaxPackets
    BY <1>3, <2>1, LinkAssumption
  <2> QED BY <1>1, <1>3, <2>2, <2>4, <2>5 DEF DeviceOK, FlightOf
<1>5. CASE MayBeReady(q) /\ r = WithLine(q, Append(q.line, y))
  <2> DEFINE a == Append(q.line, y)
  <2>1. a \in Seq(Packet) /\ Len(a) = Len(q.line) + 1
    BY <1>2, <1>3
  <2>2. q.queue = <<>> /\ Len(q.line) < LineLength
    BY <1>5 DEF MayBeReady, LineFree
  <2>3. a \o q.queue = Append(q.line \o q.queue, y)
    BY <1>2, <1>3, <2>2, ConcatAppend
  <2> HIDE DEF a
  <2>5. r \in Device /\ r.line = a /\ r.queue = q.queue
    BY <1>3, <1>5, <2>1, SetField DEF a
  <2>6. Len(a) <= LineLength /\ Len(q.queue) <= MaxPackets
    BY <1>3, <2>1, <2>2, LinkAssumption
  <2> QED BY <1>1, <1>3, <2>3, <2>5, <2>6 DEF DeviceOK, FlightOf
<1> QED BY <1>4, <1>5, Zenon DEF SendFrom, y, WithLine, WithQueue

-----------------------------------------------------------------------------
(* What the actions do to the flights of all links. *)

(* Link l loses its oldest packet; m gets y; both happen in one step. *)
Enters(m, y) ==
  \A k \in Links : Flight(k)' = IF k = m THEN Append(Flight(m), y) ELSE Flight(k)
Loses(l) ==
  \A k \in Links : Flight(k)' = IF k = l THEN Tail(Flight(l)) ELSE Flight(k)
Moves(l, m, y) ==
  /\ l # m
  /\ \A k \in Links : Flight(k)' = IF k = l THEN Tail(Flight(l))
                                   ELSE IF k = m THEN Append(Flight(m), y) ELSE Flight(k)
Rests == \A k \in Links : Flight(k)' = Flight(k)

LEMMA OneLink ==
  ASSUME LinksOK, NEW l \in Links, NEW r, DeviceOK(r), link' = [link EXCEPT ![l] = r]
  PROVE  /\ LinksOK'
         /\ \A k \in Links : Flight(k)' = IF k = l THEN FlightOf(r) ELSE Flight(k)
<1>1. /\ link \in [Links -> Device] /\ r \in Device
      /\ \A k \in Links : DeviceOK(link[k])
  BY DEF LinksOK, DeviceOK
<1>2. link' \in [Links -> Device] /\ \A k \in Links : link'[k] = IF k = l THEN r ELSE link[k]
  BY <1>1
<1>3. \A k \in Links : DeviceOK(link'[k])
  BY <1>1, <1>2
<1>4. LinksOK'
  BY <1>2, <1>3 DEF LinksOK, DeviceOK
<1>5. \A k \in Links : FlightOf(link'[k]) = IF k = l THEN FlightOf(r) ELSE FlightOf(link[k])
  BY <1>2
<1> QED BY <1>4, <1>5 DEF Flight, FlightOf

LEMMA TwoLinks ==
  ASSUME LinksOK, NEW l \in Links, NEW m \in Links, l # m, NEW r, NEW q, DeviceOK(r), DeviceOK(q),
         link' = [link EXCEPT ![l] = r, ![m] = q]
  PROVE  /\ LinksOK'
         /\ \A k \in Links : Flight(k)' = IF k = l THEN FlightOf(r)
                                          ELSE IF k = m THEN FlightOf(q) ELSE Flight(k)
<1>1. /\ link \in [Links -> Device] /\ r \in Device /\ q \in Device
      /\ \A k \in Links : DeviceOK(link[k])
  BY DEF LinksOK, DeviceOK
<1>2. /\ link' \in [Links -> Device]
      /\ \A k \in Links : link'[k] = IF k = l THEN r ELSE IF k = m THEN q ELSE link[k]
  BY <1>1
<1>3. \A k \in Links : DeviceOK(link'[k])
  BY <1>1, <1>2
<1>4. LinksOK'
  BY <1>2, <1>3 DEF LinksOK, DeviceOK
<1>5. \A k \in Links : FlightOf(link'[k]) = IF k = l THEN FlightOf(r)
                                            ELSE IF k = m THEN FlightOf(q) ELSE FlightOf(link[k])
  BY <1>2
<1> QED BY <1>4, <1>5 DEF Flight, FlightOf

(* The packet a switch has handled. *)
Hopped(x) == [x EXCEPT !.hops = x.hops + 1]

LEMMA HoppedFields ==
  ASSUME NEW x \in Packet
  PROVE  /\ Hopped(x) \in Packet /\ Hopped(x).flow = x.flow /\ Hopped(x).id = x.id
         /\ Hopped(x).path = x.path /\ Hopped(x).hops = x.hops + 1 /\ Hopped(x).tos = x.tos
BY DEF Hopped, Packet

(* A switch drops the packet or sends it on. *)
LEMMA ForwardStep ==
  ASSUME TypeInv, NEW l \in Links, NEW m \in Links, l # m, link[l].line # <<>>,
         NEW x \in Packet, Forward(l, m, x)
  PROVE  /\ LinksOK' /\ dropped' \subseteq Packet
         /\ \/ Loses(l)
            \/ \E y : Carried(Hopped(x), y) /\ Moves(l, m, y)
<1> DEFINE r == Received(link[l])
<1>1. /\ LinksOK /\ dropped \subseteq Packet /\ DeviceOK(link[l]) /\ DeviceOK(link[m])
      /\ link \in [Links -> Device]
  BY DEF TypeInv, LinksOK
<1>2. DeviceOK(r) /\ FlightOf(r) = Tail(FlightOf(link[l]))
  BY <1>1, ReceivedFlight
<1>3. Hopped(x) \in Packet
  BY HoppedFields
<1>4. /\ Full(link[m]) => /\ link' = [link EXCEPT ![l] = Received(@)]
                          /\ dropped' = dropped \cup {Hopped(x)}
      /\ ~Full(link[m]) => /\ \E q \in SendFrom(link[m], Hopped(x)) :
                                link' = [link EXCEPT ![l] = Received(@), ![m] = q]
                           /\ dropped' = dropped
  BY Zenon DEF Forward, Hopped
<1>5. CASE Full(link[m])
  <2>1. link' = [link EXCEPT ![l] = r] /\ dropped' \subseteq Packet
    BY <1>1, <1>3, <1>4, <1>5
  <2> HIDE DEF r
  <2>2. /\ LinksOK'
        /\ \A k \in Links : Flight(k)' = IF k = l THEN FlightOf(r) ELSE Flight(k)
    BY <1>1, <1>2, <2>1, OneLink
  <2>3. Loses(l)
    BY <1>2, <2>2 DEF Loses, Flight
  <2> QED BY <2>1, <2>2, <2>3
<1>6. CASE ~Full(link[m])
  <2>1. PICK q \in SendFrom(link[m], Hopped(x)) : link' = [link EXCEPT ![l] = r, ![m] = q]
    BY <1>4, <1>6
  <2>2. DeviceOK(q)
    BY <1>1, <1>3, <1>6, SentFlight
  <2>3. PICK y : Carried(Hopped(x), y) /\ FlightOf(q) = Append(FlightOf(link[m]), y)
    BY <1>1, <1>3, <1>6, SentFlight
  <2> HIDE DEF r
  <2>4. /\ LinksOK'
        /\ \A k \in Links : Flight(k)' = IF k = l THEN FlightOf(r)
                                         ELSE IF k = m THEN FlightOf(q) ELSE Flight(k)
    BY <1>1, <1>2, <2>1, <2>2, TwoLinks
  <2>5. Moves(l, m, y)
    BY <1>2, <2>3, <2>4 DEF Moves, Flight
  <2>6. dropped' \subseteq Packet
    BY <1>1, <1>4, <1>6
  <2> QED BY <2>3, <2>4, <2>5, <2>6
<1> QED BY <1>5, <1>6

-----------------------------------------------------------------------------
(* Routes. *)

(* How far the hosts of a flow are apart. *)
LEMMA Distances ==
  ASSUME NEW f \in Flows
  PROVE  LET s == Src[f]  d == Dst[f] IN
         /\ s \in Hosts /\ d \in Hosts
         /\ s[2] \in Pod /\ s[3] \in Index /\ d[2] \in Pod /\ d[3] \in Index
         /\ EdgeOf(s) = Edge(s[2], s[3]) /\ EdgeOf(d) = Edge(d[2], d[3])
         /\ EdgeOf(s) \in Edges /\ EdgeOf(d) \in Edges
         /\ Distance(s, d) \in {1, 3, 5}
         /\ Distance(s, d) = 1 <=> EdgeOf(s) = EdgeOf(d)
         /\ Distance(s, d) = 5 <=> s[2] # d[2]
<1> DEFINE s == Src[f]
           d == Dst[f]
<1>1. s \in Hosts /\ d \in Hosts
  BY FabricAssumption
<1> HIDE DEF s, d
<1>2. /\ s[2] \in Pod /\ s[3] \in Index /\ d[2] \in Pod /\ d[3] \in Index
      /\ EdgeOf(s) = Edge(s[2], s[3]) /\ EdgeOf(d) = Edge(d[2], d[3])
      /\ EdgeOf(s) \in Edges /\ EdgeOf(d) \in Edges
  BY <1>1, NodeFields DEF EdgeOf
<1>3. EdgeOf(s) = EdgeOf(d) <=> s[2] = d[2] /\ s[3] = d[3]
  BY <1>2, NodeNumbers
<1>4. /\ Distance(s, d) \in {1, 3, 5}
      /\ Distance(s, d) = 1 <=> EdgeOf(s) = EdgeOf(d)
      /\ Distance(s, d) = 5 <=> s[2] # d[2]
  BY <1>3 DEF Distance
<1> QED BY <1>1, <1>2, <1>4 DEF s, d

(* The leg a packet is on when a switch of each kind, or a host, gets it. *)
LEMMA LegAtNode ==
  ASSUME NEW x \in Packet, NEW l, OnRoute(l, x)
  PROVE  /\ l[2] \in Edges => FirstLeg(l, x) \/ DownToEdge(l, x)
         /\ l[2] \in Aggs => UpToAgg(l, x) \/ \E c \in Index : DownToAgg(l, x, c)
         /\ l[2] \in Cores => \E c \in Index : UpToCore(l, x, c)
         /\ l[2] \in Hosts => LastLeg(l, x)
<1>1. x.flow \in Flows
  BY DEF Packet
<1>2. /\ \A n \in Edges : n[1] = "edge"
      /\ \A n \in Aggs : n[1] = "agg"
      /\ \A n \in Cores : n[1] = "core"
      /\ \A n \in Hosts : n[1] = "host"
  BY NodeFields
<1>3. EdgeOf(Src[x.flow]) \in Edges /\ EdgeOf(Dst[x.flow]) \in Edges /\ Dst[x.flow] \in Hosts
  BY <1>1, Distances
<1>4. /\ FirstLeg(l, x) => l[2][1] = "edge"
      /\ UpToAgg(l, x) => l[2][1] = "agg"
      /\ \A c \in Index : UpToCore(l, x, c) => l[2][1] = "core"
      /\ \A c \in Index : DownToAgg(l, x, c) => l[2][1] = "agg"
      /\ DownToEdge(l, x) => l[2][1] = "edge"
      /\ LastLeg(l, x) => l[2][1] = "host"
  BY <1>2, <1>3, NodeNumbers DEF FirstLeg, UpToAgg, UpToCore, DownToAgg, DownToEdge, LastLeg
<1>5. \/ FirstLeg(l, x)
      \/ UpToAgg(l, x)
      \/ \E c \in Index : UpToCore(l, x, c) \/ DownToAgg(l, x, c)
      \/ DownToEdge(l, x)
      \/ LastLeg(l, x)
  BY DEF OnRoute
<1> QED BY <1>2, <1>4, <1>5

Inv == TypeInv /\ RouteInv /\ PathInv /\ OrderOK

(* The packet a switch takes off link l. *)
LEMMA TakenPacket ==
  ASSUME Inv, NEW l \in Links, link[l].line # <<>>
  PROVE  LET x == Head(link[l].line) IN
         /\ x \in Packet /\ x = Head(Flight(l)) /\ Flight(l) # <<>>
         /\ Flight(l) \in Seq(Packet) /\ x \in PacketsIn(Flight(l))
         /\ OnRoute(l, x) /\ x.flow \in Flows /\ x.hops \in Nat
         /\ Unmarked => OnPath(l, x)
         /\ device = "Ecmp" => EcmpFollows(x)
<1> DEFINE x == Head(link[l].line)
<1>1. DeviceOK(link[l]) /\ link[l] \in Device
  BY DEF Inv, TypeInv, LinksOK, DeviceOK
<1>2. x \in Packet /\ x = Head(Flight(l)) /\ Flight(l) # <<>>
  BY <1>1, ReceivedFlight DEF Flight
<1>3. Flight(l) \in Seq(Packet)
  BY <1>1, DeviceFields DEF Flight
<1> HIDE DEF x
<1>4. x \in PacketsIn(Flight(l))
  BY <1>2, <1>3, TailElements
<1>5. /\ OnRoute(l, x) /\ (Unmarked => OnPath(l, x))
      /\ device = "Ecmp" => EcmpFollows(x)
  BY <1>4 DEF Inv, RouteInv, PathInv
<1>6. x.flow \in Flows /\ x.hops \in Nat
  BY <1>2 DEF Packet
<1> QED BY <1>2, <1>3, <1>4, <1>5, <1>6 DEF x

(* A switch takes x off link l and puts it, as y, on the link m of its next *)
(* leg.  From the first aggregation switch on, the path is settled.         *)
Hop(l, m, x, y) ==
  /\ m \in Links /\ y \in Packet
  /\ y.flow = x.flow /\ y.id = x.id /\ y.hops = x.hops + 1
  /\ OnRoute(m, y)
  /\ Unmarked => OnPath(m, y)
  /\ device = "Ecmp" => EcmpFollows(y)
  /\ x.hops = 1 => EdgePort(y.path) = EdgePort(x.path)
  /\ x.hops > 1 => y.path = x.path

(* On the way down the path stays. *)
LEMMA DownHop ==
  ASSUME NEW x \in Packet, NEW y \in Packet, NEW l, NEW m,
         OnRoute(l, x), Unmarked => OnPath(l, x), device = "Ecmp" => EcmpFollows(x),
         y.flow = x.flow, y.id = x.id, y.hops = x.hops + 1, y.path = x.path,
         LET d == Dst[x.flow] IN
           \/ l[2] \in Edges /\ l[2] = EdgeOf(d) /\ m = <<l[2], d>>
           \/ l[2] \in Aggs /\ l[2][2] = d[2] /\ m = <<l[2], EdgeOf(d)>>
           \/ l[2] \in Cores /\ m = <<l[2], Agg(d[2], l[2][2])>>
  PROVE  Hop(l, m, x, y)
<1> DEFINE f == x.flow
           s == Src[f]
           d == Dst[f]
           D == Distance(s, d)
<1>1. f \in Flows /\ x.hops \in Nat
  BY DEF Packet
<1>2. /\ s \in Hosts /\ d \in Hosts
      /\ s[2] \in Pod /\ s[3] \in Index /\ d[2] \in Pod /\ d[3] \in Index
      /\ EdgeOf(s) = Edge(s[2], s[3]) /\ EdgeOf(d) = Edge(d[2], d[3])
      /\ D \in {1, 3, 5}
      /\ D = 1 <=> EdgeOf(s) = EdgeOf(d)
      /\ D = 5 <=> s[2] # d[2]
  BY <1>1, Distances
<1>3. DistanceOf(x) = D /\ DistanceOf(y) = D /\ y.flow = f
  BY DEF DistanceOf
<1>4. x.hops > 0 /\ D > 1 => x.path \in Paths
  BY <1>3 DEF OnRoute
<1>5. x.path \in Paths => EdgePort(x.path) \in Index
  BY PathPorts
<1>6. CASE l[2] \in Edges /\ l[2] = EdgeOf(d) /\ m = <<l[2], d>>
  <2>1. FirstLeg(l, x) \/ DownToEdge(l, x)
    BY <1>6, LegAtNode
  <2>2. x.hops = D - 1
    <3>1. CASE FirstLeg(l, x)
      <4>1. x.hops = 0 /\ l = <<s, EdgeOf(s)>>
        BY <3>1 DEF FirstLeg
      <4>2. EdgeOf(s) = EdgeOf(d)
        BY <1>6, <4>1
      <4> QED BY <1>2, <4>1, <4>2
    <3>2. CASE DownToEdge(l, x)
      BY <1>3, <3>2 DEF DownToEdge
    <3> QED BY <2>1, <3>1, <3>2
  <2>3. m \in Links /\ m = <<EdgeOf(d), d>>
    BY <1>2, <1>6, LinksExist
  <2>4. y.hops = D
    BY <1>1, <1>2, <2>2
  <2>5. LastLeg(m, y)
    BY <1>3, <2>3, <2>4 DEF LastLeg
  <2>6. D > 1 => y.path \in Paths
    BY <1>2, <1>4, <2>2
  <2>7. /\ \A c \in Index : ~UpToCore(m, y, c) /\ ~DownToAgg(m, y, c)
        /\ ~UpToAgg(m, y)
    BY <1>3, <2>4 DEF UpToCore, DownToAgg, UpToAgg
  <2>8. OnRoute(m, y)
    BY <1>3, <2>5, <2>6, <2>7 DEF OnRoute
  <2>9. OnPath(m, y)
    BY <2>7 DEF OnPath
  <2>10. device = "Ecmp" => EcmpFollows(y)
    BY <1>1, <1>2, <1>3, <2>2, <2>4 DEF EcmpFollows
  <2> QED BY <2>3, <2>8, <2>9, <2>10 DEF Hop
<1>7. CASE l[2] \in Aggs /\ l[2][2] = d[2] /\ m = <<l[2], EdgeOf(d)>>
  <2>1. UpToAgg(l, x) \/ \E c \in Index : DownToAgg(l, x, c)
    BY <1>7, LegAtNode
  <2>2. D > 1 /\ x.hops = D - 2 /\ x.hops > 0 /\ l[2] = Agg(d[2], EdgePort(x.path))
    <3>1. CASE UpToAgg(l, x)
      <4>1. x.hops = 1 /\ D > 1 /\ l[2] = Agg(s[2], EdgePort(x.path))
        BY <1>3, <3>1 DEF UpToAgg
      <4>2. s[2] = d[2]
        BY <1>7, <4>1, NodeNumbers
      <4> QED BY <1>2, <4>1, <4>2
    <3>2. CASE \E c \in Index : DownToAgg(l, x, c)
      BY <1>3, <3>2 DEF DownToAgg
    <3> QED BY <2>1, <3>1, <3>2
  <2>3. x.path \in Paths /\ EdgePort(x.path) \in Index
    BY <1>4, <1>5, <2>2
  <2>4. m = <<Agg(d[2], EdgePort(y.path)), EdgeOf(d)>> /\ m \in Links
    BY <1>2, <1>7, <2>2, <2>3, LinksExist
  <2>5. y.hops = D - 1
    BY <1>1, <1>2, <2>2
  <2>6. DownToEdge(m, y)
    BY <1>3, <2>2, <2>4, <2>5 DEF DownToEdge
  <2>7. /\ \A c \in Index : ~UpToCore(m, y, c) /\ ~DownToAgg(m, y, c)
        /\ ~UpToAgg(m, y)
    BY <1>2, <1>3, <2>2, <2>5 DEF UpToCore, DownToAgg, UpToAgg
  <2>8. OnRoute(m, y)
    BY <1>3, <2>3, <2>6, <2>7 DEF OnRoute
  <2>9. OnPath(m, y)
    BY <2>7 DEF OnPath
  <2>10. device = "Ecmp" => EcmpFollows(y)
    BY <1>1, <1>2, <1>3, <2>2, <2>5 DEF EcmpFollows
  <2> QED BY <2>4, <2>8, <2>9, <2>10 DEF Hop
<1>8. CASE l[2] \in Cores /\ m = <<l[2], Agg(d[2], l[2][2])>>
  <2>1. PICK c \in Index : UpToCore(l, x, c)
    BY <1>8, LegAtNode
  <2>2. /\ x.hops = 2 /\ D = 5 /\ l[2] = Core(EdgePort(x.path), c)
        /\ x.path \in Paths /\ EdgePort(x.path) \in Index
    BY <1>3, <1>4, <1>5, <2>1 DEF UpToCore
  <2>3. m = <<Core(EdgePort(y.path), c), Agg(d[2], EdgePort(y.path))>> /\ m \in Links
    <3>1. l[2][2] = EdgePort(x.path)
      BY <2>2, NodeNumbers
    <3> QED BY <1>2, <1>8, <2>2, <3>1, LinksExist
  <2>4. y.hops = 3
    BY <2>2
  <2>5. DownToAgg(m, y, c)
    BY <1>3, <2>2, <2>3, <2>4 DEF DownToAgg
  <2>6. /\ \A b \in Index : ~UpToCore(m, y, b)
        /\ ~UpToAgg(m, y)
    BY <2>4 DEF UpToCore, UpToAgg
  <2>7. OnRoute(m, y)
    BY <1>3, <2>2, <2>5, <2>6 DEF OnRoute
  <2>8. ASSUME Unmarked PROVE OnPath(m, y)
    <3>1. c = CorePort(y.path)
      BY <2>1, <2>8 DEF OnPath
    <3>2. ASSUME NEW b \in Index, DownToAgg(m, y, b) PROVE b = c
      <4>1. m[1] = Core(EdgePort(y.path), b) /\ m[1] = Core(EdgePort(y.path), c)
        BY <2>3, <3>2 DEF DownToAgg
      <4> QED BY <4>1 DEF Core
    <3> QED BY <2>6, <3>1, <3>2 DEF OnPath
  <2>9. device = "Ecmp" => EcmpFollows(y)
    BY <1>3, <2>2, <2>4 DEF EcmpFollows
  <2> QED BY <2>2, <2>3, <2>7, <2>8, <2>9 DEF Hop
<1> QED BY <1>6, <1>7, <1>8

(* An edge switch chooses a path, and its uplink. *)
LEMMA UpFromEdge ==
  ASSUME NEW x \in Packet, NEW y \in Packet, NEW l, NEW m,
         OnRoute(l, x), l[2] \in Edges, l[2] # EdgeOf(Dst[x.flow]),
         y.flow = x.flow, y.id = x.id, y.hops = x.hops + 1, y.path \in Paths,
         m = <<l[2], Agg(l[2][2], EdgePort(y.path))>>,
         HashesPaths /\ Unmarked => y.tos = AggPort(y.path),
         ~HashesPaths => y.path % uplinkPorts = 0,
         device = "Ecmp" => y.path = EcmpEdgePort(x.flow) * uplinkPorts
  PROVE  Hop(l, m, x, y)
<1> DEFINE f == x.flow
           s == Src[f]
           d == Dst[f]
           D == Distance(s, d)
<1>1. f \in Flows /\ x.hops \in Nat
  BY DEF Packet
<1>2. /\ s \in Hosts /\ d \in Hosts
      /\ s[2] \in Pod /\ s[3] \in Index
      /\ EdgeOf(s) = Edge(s[2], s[3])
      /\ D \in {1, 3, 5}
      /\ D = 1 <=> EdgeOf(s) = EdgeOf(d)
  BY <1>1, Distances
<1>3. DistanceOf(x) = D /\ DistanceOf(y) = D /\ y.flow = f
  BY DEF DistanceOf
<1>4. EdgePort(y.path) \in Index
  BY PathPorts
<1>5. FirstLeg(l, x)
  <2>1. ~DownToEdge(l, x)
    BY DEF DownToEdge
  <2> QED BY <2>1, LegAtNode
<1>6. x.hops = 0 /\ l[2] = EdgeOf(s) /\ D > 1
  <2>1. x.hops = 0 /\ l[2] = EdgeOf(s)
    BY <1>5 DEF FirstLeg
  <2> QED BY <1>2, <2>1
<1>7. m = <<EdgeOf(s), Agg(s[2], EdgePort(y.path))>> /\ m \in Links
  <2>1. l[2] = Edge(s[2], s[3]) /\ l[2][2] = s[2]
    BY <1>2, <1>6, NodeNumbers
  <2> QED BY <1>2, <1>4, <1>6, <2>1, LinksExist
<1>8. y.hops = 1
  BY <1>6
<1>9. UpToAgg(m, y)
  BY <1>3, <1>6, <1>7, <1>8 DEF UpToAgg
<1>10. \A c \in Index : ~UpToCore(m, y, c) /\ ~DownToAgg(m, y, c)
  BY <1>8 DEF UpToCore, DownToAgg
<1>11. OnRoute(m, y)
  BY <1>9 DEF OnRoute
<1>12. Unmarked => OnPath(m, y)
  BY <1>10 DEF OnPath
<1>13. device = "Ecmp" => EcmpFollows(y)
  BY <1>3, <1>6, <1>8 DEF EcmpFollows
<1> QED BY <1>6, <1>7, <1>11, <1>12, <1>13 DEF Hop

(* An aggregation switch takes the uplink to core switch c. *)
LEMMA UpFromAgg ==
  ASSUME NEW x \in Packet, NEW y \in Packet, NEW l, NEW m, NEW c \in Index,
         OnRoute(l, x), l[2] \in Aggs, l[2][2] # Dst[x.flow][2],
         y.flow = x.flow, y.id = x.id, y.hops = x.hops + 1,
         y.path \in Paths, EdgePort(y.path) = EdgePort(x.path),
         m = <<l[2], Core(l[2][3], c)>>,
         Unmarked => c = CorePort(y.path),
         device = "Ecmp" => y.path = EcmpPath(x.flow)
  PROVE  Hop(l, m, x, y)
<1> DEFINE f == x.flow
           s == Src[f]
           d == Dst[f]
           D == Distance(s, d)
<1>1. f \in Flows /\ x.hops \in Nat
  BY DEF Packet
<1>2. /\ s[2] \in Pod /\ D \in {1, 3, 5} /\ D = 5 <=> s[2] # d[2]
  BY <1>1, Distances
<1>3. DistanceOf(x) = D /\ DistanceOf(y) = D /\ y.flow = f
  BY DEF DistanceOf
<1>4. EdgePort(y.path) \in Index
  BY PathPorts
<1>5. UpToAgg(l, x)
  <2>1. ASSUME NEW b \in Index, DownToAgg(l, x, b) PROVE FALSE
    <3>1. l[2] = Agg(d[2], EdgePort(x.path))
      BY <2>1 DEF DownToAgg
    <3> QED BY <3>1, NodeNumbers
  <2> QED BY <2>1, LegAtNode
<1>6. /\ x.hops = 1 /\ l[2] = Agg(s[2], EdgePort(y.path))
      /\ l[2][2] = s[2] /\ l[2][3] = EdgePort(y.path)
  BY <1>5, NodeNumbers DEF UpToAgg
<1>7. D = 5
  BY <1>2, <1>6
<1>8. m = <<Agg(s[2], EdgePort(y.path)), Core(EdgePort(y.path), c)>> /\ m \in Links
  BY <1>2, <1>4, <1>6, LinksExist
<1>9. y.hops = 2
  BY <1>6
<1>10. UpToCore(m, y, c)
  BY <1>3, <1>7, <1>8, <1>9 DEF UpToCore
<1>11. ~UpToAgg(m, y) /\ \A b \in Index : ~DownToAgg(m, y, b)
  BY <1>9 DEF UpToAgg, DownToAgg
<1>12. OnRoute(m, y)
  BY <1>10, <1>11 DEF OnRoute
<1>13. ASSUME Unmarked PROVE OnPath(m, y)
  <2>1. ASSUME NEW b \in Index, UpToCore(m, y, b) PROVE b = c
    <3>1. m[2] = Core(EdgePort(y.path), b) /\ m[2] = Core(EdgePort(y.path), c)
      BY <1>8, <2>1 DEF UpToCore
    <3> QED BY <3>1 DEF Core
  <2> QED BY <1>11, <1>13, <2>1 DEF OnPath
<1>14. device = "Ecmp" => EcmpFollows(y)
  BY <1>3, <1>7, <1>9 DEF EcmpFollows
<1> QED BY <1>6, <1>8, <1>12, <1>13, <1>14 DEF Hop

-----------------------------------------------------------------------------
(* The switches. *)

(* No leg leads from a node to itself. *)
LEMMA LegEnds ==
  ASSUME NEW x \in Packet, NEW l, OnRoute(l, x)
  PROVE  l[1] # l[2]
<1>1. x.flow \in Flows
  BY DEF Packet
<1>2. /\ EdgeOf(Src[x.flow])[1] = "edge" /\ EdgeOf(Dst[x.flow])[1] = "edge"
      /\ Src[x.flow][1] = "host" /\ Dst[x.flow][1] = "host"
  BY <1>1, Distances, NodeFields
<1>3. /\ FirstLeg(l, x) => l[1][1] = "host" /\ l[2][1] = "edge"
      /\ UpToAgg(l, x) => l[1][1] = "edge" /\ l[2][1] = "agg"
      /\ \A c \in Index : UpToCore(l, x, c) => l[1][1] = "agg" /\ l[2][1] = "core"
      /\ \A c \in Index : DownToAgg(l, x, c) => l[1][1] = "core" /\ l[2][1] = "agg"
      /\ DownToEdge(l, x) => l[1][1] = "agg" /\ l[2][1] = "edge"
      /\ LastLeg(l, x) => l[1][1] = "edge" /\ l[2][1] = "host"
  BY <1>2, NodeNumbers DEF FirstLeg, UpToAgg, UpToCore, DownToAgg, DownToEdge, LastLeg
<1> QED BY <1>3 DEF OnRoute

(* What y may be when x is sent: all but its ToS byte follows from x. *)
Sends(x, y) ==
  /\ y \in Packet /\ y.flow = x.flow /\ y.id = x.id /\ y.path = x.path
  /\ y.hops = x.hops + 1 /\ (EcnThresh = 0 => y.tos = x.tos)

Advances(l) ==
  \/ Loses(l)
  \/ \E m, y : Moves(l, m, y) /\ Hop(l, m, Head(Flight(l)), y)

LEMMA ForwardHop ==
  ASSUME Inv, NEW l \in Links, NEW n, link[l].line # <<>>, NEW x \in Packet,
         Forward(l, <<l[2], n>>, x),
         \A y : Sends(x, y) => Hop(l, <<l[2], n>>, Head(link[l].line), y)
  PROVE  LinksOK' /\ dropped' \subseteq Packet /\ Advances(l)
<1> DEFINE m == <<l[2], n>>
<1>1. Sends(x, Hopped(x))
  BY HoppedFields DEF Sends
<1>2. Hopped(x) \in Packet /\ OnRoute(m, Hopped(x)) /\ m \in Links
  BY <1>1, HoppedFields DEF Hop
<1>3. l # m
  <2>1. m[1] # m[2]
    BY <1>2, LegEnds
  <2>2. m[1] = l[2]
    OBVIOUS
  <2>3. Head(link[l].line) \in Packet /\ OnRoute(l, Head(link[l].line))
    BY TakenPacket
  <2>4. l[1] # l[2]
    BY <2>3, LegEnds
  <2> QED BY <2>2, <2>4
<1>4. Forward(l, m, x)
  OBVIOUS
<1>5. \A y : Sends(x, y) => Hop(l, m, Head(link[l].line), y)
  OBVIOUS
<1> HIDE DEF m
<1>6. TypeInv /\ Head(link[l].line) = Head(Flight(l))
  BY TakenPacket DEF Inv
<1>7. /\ LinksOK' /\ dropped' \subseteq Packet
      /\ \/ Loses(l)
         \/ \E y : Carried(Hopped(x), y) /\ Moves(l, m, y)
  BY <1>2, <1>3, <1>4, <1>6, ForwardStep
<1>8. \A y : Carried(Hopped(x), y) => Sends(x, y)
  BY <1>1, CarriedFields DEF Sends
<1> QED BY <1>5, <1>6, <1>7, <1>8 DEF Advances

(* The packet whose path is chosen, and of which the ToS byte may carry it. *)
WithPath(x, p) == [x EXCEPT !.path = p]
WithPort(x, t, p) == [x EXCEPT !.tos = t, !.path = p]

LEMMA ChosenPort ==
  ASSUME NEW x \in Packet, NEW p \in Paths, NEW t \in 0 .. 255
  PROVE  LET y == WithPort(x, t, p) IN
         /\ y \in Packet /\ y.flow = x.flow /\ y.id = x.id /\ y.hops = x.hops
         /\ y.path = p /\ y.tos = t
BY DEF Packet, WithPort

LEMMA ChosenPath ==
  ASSUME NEW x \in Packet, NEW p \in Paths
  PROVE  LET y == WithPath(x, p) IN
         /\ y \in Packet /\ y.flow = x.flow /\ y.id = x.id /\ y.hops = x.hops
         /\ y.path = p /\ y.tos = x.tos
BY DEF Packet, WithPath

(* What a step of a switch on link l does. *)
SwitchStep(l) ==
  /\ link[l].line # <<>>
  /\ LinksOK' /\ dropped' \subseteq Packet /\ win' \in [SourceEdges -> Window]
  /\ UNCHANGED <<device, sent, arrived>>
  /\ \/ Advances(l) /\ UNCHANGED halted
     \/ Rests /\ halted' = TRUE /\ ~Unmarked

LEMMA CoreStep ==
  ASSUME Inv, NEW l \in Links, CoreReceive(l)
  PROVE  SwitchStep(l)
<1> DEFINE x == Head(link[l].line)
           d == Dst[x.flow]
           n == l[2]
<1>1. /\ n \in Cores /\ link[l].line # <<>> /\ UNCHANGED <<device, win, sent, arrived>>
  BY DEF CoreReceive, Receives
<1>2. /\ x \in Packet /\ OnRoute(l, x) /\ (Unmarked => OnPath(l, x))
      /\ device = "Ecmp" => EcmpFollows(x)
      /\ x.flow \in Flows
  BY <1>1, TakenPacket
<1>3. d \in Hosts
  BY <1>2, FabricAssumption
<1>4. inTable(n, DestOf(x)) /\ getIntf(n, DestOf(x)) = Agg(d[2], n[2])
  BY <1>1, <1>3, CoreTable DEF DestOf
<1>5. Forward(l, <<n, Agg(d[2], n[2])>>, x) /\ UNCHANGED halted
  BY <1>4 DEF CoreReceive
<1>6. ASSUME NEW y, Sends(x, y) PROVE Hop(l, <<n, Agg(d[2], n[2])>>, x, y)
  BY <1>1, <1>2, <1>6, DownHop DEF Sends
<1>7. LinksOK' /\ dropped' \subseteq Packet /\ Advances(l)
  BY <1>1, <1>2, <1>5, <1>6, ForwardHop
<1>8. win' \in [SourceEdges -> Window]
  BY <1>1 DEF Inv, TypeInv
<1> QED BY <1>1, <1>5, <1>7, <1>8 DEF SwitchStep

(* An aggregation switch gets a packet that goes up only on that leg. *)
LEMMA GoesUpAtAgg ==
  ASSUME NEW x \in Packet, NEW l, OnRoute(l, x), l[2] \in Aggs, l[2][2] # Dst[x.flow][2]
  PROVE  /\ UpToAgg(l, x) /\ x.path \in Paths /\ EdgePort(x.path) \in Index
         /\ l[2] = Agg(Src[x.flow][2], EdgePort(x.path)) /\ l[2][3] = EdgePort(x.path)
         /\ DistanceOf(x) = 5
<1>1. x.flow \in Flows
  BY DEF Packet
<1>2. \A c \in Index : ~DownToAgg(l, x, c)
  <2> TAKE c \in Index
  <2>1. DownToAgg(l, x, c) => l[2] = Agg(Dst[x.flow][2], EdgePort(x.path))
    BY DEF DownToAgg
  <2> QED BY <2>1, NodeNumbers
<1>3. UpToAgg(l, x)
  BY <1>2, LegAtNode
<1>4. /\ x.hops = 1 /\ DistanceOf(x) > 1
      /\ l[2] = Agg(Src[x.flow][2], EdgePort(x.path))
  BY <1>3 DEF UpToAgg
<1>5. l[2][2] = Src[x.flow][2] /\ l[2][3] = EdgePort(x.path)
  BY <1>4, NodeNumbers
<1>6. DistanceOf(x) = 5
  BY <1>1, <1>5, Distances DEF DistanceOf
<1>7. x.path \in Paths
  BY <1>4 DEF OnRoute
<1> QED BY <1>3, <1>4, <1>5, <1>6, <1>7, PathPorts

LEMMA AggStep ==
  ASSUME Inv, NEW l \in Links, AggReceive(l)
  PROVE  SwitchStep(l)
<1> DEFINE x == Head(link[l].line)
           d == Dst[x.flow]
           n == l[2]
<1>1. /\ n \in Aggs /\ link[l].line # <<>> /\ UNCHANGED <<device, win, sent, arrived>>
      /\ HashesPaths
  BY DEF AggReceive, Receives
<1>2. /\ x \in Packet /\ OnRoute(l, x) /\ (Unmarked => OnPath(l, x))
      /\ device = "Ecmp" => EcmpFollows(x)
      /\ x.flow \in Flows
  BY <1>1, TakenPacket
<1>3. d \in Hosts
  BY <1>2, FabricAssumption
<1>4. /\ inTable(n, DestOf(x)) <=> n[2] = d[2]
      /\ n[2] = d[2] => getIntf(n, DestOf(x)) = EdgeOf(d)
      /\ Len(Uplinks(n)) = uplinkPorts
      /\ \A i \in Index : Uplinks(n)[i + 1] = Core(n[3], i)
  BY <1>1, <1>3, AggTable DEF DestOf
<1>5. win' \in [SourceEdges -> Window]
  BY <1>1 DEF Inv, TypeInv
<1>6. CASE n[2] = d[2]
  <2>1. Forward(l, <<n, EdgeOf(d)>>, x) /\ UNCHANGED halted
    BY <1>4, <1>6 DEF AggReceive
  <2>2. ASSUME NEW y, Sends(x, y) PROVE Hop(l, <<n, EdgeOf(d)>>, x, y)
    BY <1>1, <1>2, <1>6, <2>2, DownHop DEF Sends
  <2>3. LinksOK' /\ dropped' \subseteq Packet /\ Advances(l)
    BY <1>1, <1>2, <2>1, <2>2, ForwardHop
  <2> QED BY <1>1, <1>5, <2>1, <2>3 DEF SwitchStep
<1>7. CASE n[2] # d[2]
  <2>1. /\ UpToAgg(l, x) /\ x.path \in Paths /\ n[3] = EdgePort(x.path)
    BY <1>1, <1>2, <1>7, GoesUpAtAgg
  <2>2. AggPort(x.path) \in Index /\ CorePort(x.path) = AggPort(x.path)
    BY <1>1, <2>1, PathPorts DEF CorePort
  <2>3. Unmarked => x.tos = CorePort(x.path)
    BY <1>1, <1>2, <2>1, <2>2 DEF OnPath
  <2>4. x.tos \in Nat
    BY <1>2 DEF Packet
  <2>5. CASE x.tos < uplinkPorts
    <3>1. x.tos \in Index
      BY <2>4, <2>5, Sizes
    <3>2. Uplinks(n)[x.tos + 1] = Core(n[3], x.tos)
      BY <1>4, <3>1
    <3>3. Forward(l, <<n, Core(n[3], x.tos)>>, x) /\ UNCHANGED halted
      BY <1>4, <1>7, <2>5, <3>2 DEF AggReceive
    <3>4. device # "Ecmp"
      BY <1>1 DEF HashesPaths
    <3>5. ASSUME NEW y, Sends(x, y) PROVE Hop(l, <<n, Core(n[3], x.tos)>>, x, y)
      <4>1. /\ y \in Packet /\ y.flow = x.flow /\ y.id = x.id /\ y.hops = x.hops + 1
            /\ y.path = x.path
        BY <3>5 DEF Sends
      <4>2. Unmarked => x.tos = CorePort(y.path)
        BY <2>3, <4>1
      <4> QED BY <1>1, <1>2, <1>7, <2>1, <3>1, <3>4, <4>1, <4>2, UpFromAgg
    <3>6. LinksOK' /\ dropped' \subseteq Packet /\ Advances(l)
      BY <1>1, <1>2, <3>3, <3>5, ForwardHop
    <3> QED BY <1>1, <1>5, <3>3, <3>6 DEF SwitchStep
  <2>6. CASE ~(x.tos < uplinkPorts)
    <3>1. halted' = TRUE /\ UNCHANGED <<link, dropped>>
      BY <1>4, <1>7, <2>6 DEF AggReceive
    <3>2. ~Unmarked
      BY <2>2, <2>3, <2>6, Sizes
    <3>3. Rests
      BY <3>1 DEF Rests, Flight, FlightOf
    <3>4. LinksOK' /\ dropped' \subseteq Packet
      BY <3>1 DEF Inv, TypeInv, LinksOK, DeviceOK
    <3> QED BY <1>1, <1>5, <3>1, <3>2, <3>3, <3>4 DEF SwitchStep
  <2> QED BY <2>5, <2>6
<1> QED BY <1>6, <1>7

LEMMA EdgeStep ==
  ASSUME Inv, NEW l \in Links, EdgeReceive(l)
  PROVE  SwitchStep(l)
<1> DEFINE x == Head(link[l].line)
           d == Dst[x.flow]
           n == l[2]
<1>1. /\ n \in Edges /\ link[l].line # <<>> /\ UNCHANGED <<device, sent, arrived, halted>>
      /\ HashesPaths
  BY DEF EdgeReceive, Receives
<1>2. /\ x \in Packet /\ OnRoute(l, x) /\ (Unmarked => OnPath(l, x))
      /\ device = "Ecmp" => EcmpFollows(x)
      /\ x.flow \in Flows
  BY <1>1, TakenPacket
<1>3. d \in Hosts
  BY <1>2, FabricAssumption
<1>4. /\ inTable(n, DestOf(x)) <=> n = EdgeOf(d)
      /\ n = EdgeOf(d) => getIntf(n, DestOf(x)) = d
      /\ \A i \in Index : Uplinks(n)[i + 1] = Agg(n[2], i)
  BY <1>1, <1>3, EdgeTable DEF DestOf
<1>5. win \in [SourceEdges -> Window]
  BY DEF Inv, TypeInv
<1>6. CASE n = EdgeOf(d)
  <2>1. Forward(l, <<n, d>>, x) /\ UNCHANGED win
    BY <1>4, <1>6 DEF EdgeReceive
  <2>2. ASSUME NEW y, Sends(x, y) PROVE Hop(l, <<n, d>>, x, y)
    BY <1>1, <1>2, <1>6, <2>2, DownHop DEF Sends
  <2>3. LinksOK' /\ dropped' \subseteq Packet /\ Advances(l)
    BY <1>1, <1>2, <2>1, <2>2, ForwardHop
  <2> QED BY <1>1, <1>5, <2>1, <2>3 DEF SwitchStep
<1>7. CASE n # EdgeOf(d)
  <2> DEFINE p == ChoosePath(win[n], x.flow)
             z == WithPort(x, AggPort(p), p)
  <2>1. p \in Paths /\ EdgePort(p) \in Index /\ AggPort(p) \in 0 .. 255
    BY <1>2, HashesArePaths, PathPorts
  <2>2. /\ z \in Packet /\ z.flow = x.flow /\ z.id = x.id /\ z.hops = x.hops
        /\ z.path = p /\ z.tos = AggPort(p)
    BY <1>2, <2>1, ChosenPort
  <2>3. /\ Forward(l, <<n, Agg(n[2], EdgePort(p))>>, z)
        /\ win' = [win EXCEPT ![n] = Count(device = "PathHashingAdv", win[n], x.flow)]
    BY <1>4, <1>7, <2>1, Zenon DEF EdgeReceive, WithPort
  <2>4. device # "Ecmp"
    BY <1>1 DEF HashesPaths
  <2> HIDE DEF p, z
  <2>5. ASSUME NEW y, Sends(z, y) PROVE Hop(l, <<n, Agg(n[2], EdgePort(p))>>, x, y)
    <3>1. /\ y \in Packet /\ y.flow = x.flow /\ y.id = x.id /\ y.hops = x.hops + 1
          /\ y.path = p /\ (EcnThresh = 0 => y.tos = AggPort(p))
      BY <2>2, <2>5 DEF Sends
    <3>2. HashesPaths /\ Unmarked => y.tos = AggPort(y.path)
      BY <1>1, <3>1 DEF Unmarked
    <3> QED BY <1>1, <1>2, <1>7, <2>1, <2>4, <3>1, <3>2, UpFromEdge
  <2>6. LinksOK' /\ dropped' \subseteq Packet /\ Advances(l)
    BY <1>1, <1>2, <2>2, <2>3, <2>5, ForwardHop
  <2>7. win' \in [SourceEdges -> Window]
    <3>1. n \in SourceEdges => Count(device = "PathHashingAdv", win[n], x.flow) \in Window
      BY <1>2, <1>5, CountType
    <3> QED BY <1>5, <2>3, <3>1
  <2> QED BY <1>1, <2>6, <2>7 DEF SwitchStep
<1> QED BY <1>6, <1>7

(* An ECMP switch chooses one of its uplinks. *)
LEMMA EcmpChoice ==
  ASSUME NEW n \in Edges \cup Aggs, NEW f \in Flows, NEW u \in UplinksFor(n, f),
         Len(Uplinks(n)) = uplinkPorts
  PROVE  u \in Index /\ (device = "Ecmp" => u = HashPort(n, f)) /\ HashPort(n, f) \in Index
<1>1. SwitchHash[n][f] \in Nat
  BY FabricAssumption
<1>2. \A h \in Nat : (h % 65536) % uplinkPorts \in Index
  BY Sizes
<1>3. device # "Ecmp" => u \in Index
  BY Sizes DEF UplinksFor
<1>4. device = "Ecmp" => u = HashPort(n, f)
  BY DEF UplinksFor, HashPort
<1>5. HashPort(n, f) \in Index
  BY <1>1, <1>2 DEF HashPort
<1> QED BY <1>3, <1>4, <1>5

LEMMA EcmpStep ==
  ASSUME Inv, NEW l \in Links, EcmpReceive(l)
  PROVE  SwitchStep(l)
<1> DEFINE x == Head(link[l].line)
           d == Dst[x.flow]
           n == l[2]
<1>1. /\ n \in Edges \cup Aggs /\ link[l].line # <<>>
      /\ UNCHANGED <<device, win, sent, arrived, halted>> /\ ~HashesPaths
  BY DEF EcmpReceive, Receives
<1>2. /\ x \in Packet /\ OnRoute(l, x) /\ (Unmarked => OnPath(l, x))
      /\ device = "Ecmp" => EcmpFollows(x)
      /\ x.flow \in Flows
  BY <1>1, TakenPacket
<1>3. d \in Hosts
  BY <1>2, FabricAssumption
<1>4. win' \in [SourceEdges -> Window]
  BY <1>1 DEF Inv, TypeInv
<1>5. ASSUME NEW m, NEW z \in Packet, Forward(l, <<n, m>>, z),
             \A y : Sends(z, y) => Hop(l, <<n, m>>, x, y)
      PROVE  SwitchStep(l)
  <2>1. LinksOK' /\ dropped' \subseteq Packet /\ Advances(l)
    BY <1>1, <1>5, ForwardHop
  <2> QED BY <1>1, <1>4, <2>1 DEF SwitchStep
<1>6. CASE n \in Edges
  <2>1. /\ inTable(n, DestOf(x)) <=> n = EdgeOf(d)
        /\ n = EdgeOf(d) => getIntf(n, DestOf(x)) = d
        /\ Len(Uplinks(n)) = uplinkPorts
        /\ \A i \in Index : Uplinks(n)[i + 1] = Agg(n[2], i)
    BY <1>3, <1>6, EdgeTable DEF DestOf
  <2>2. CASE n = EdgeOf(d)
    <3>1. Forward(l, <<n, d>>, x)
      BY <2>1, <2>2 DEF EcmpReceive
    <3>2. ASSUME NEW y, Sends(x, y) PROVE Hop(l, <<n, d>>, x, y)
      BY <1>2, <1>6, <2>2, <3>2, DownHop DEF Sends
    <3> QED BY <1>2, <1>5, <3>1, <3>2
  <2>3. CASE n # EdgeOf(d)
    <3>1. PICK u \in UplinksFor(n, x.flow) :
            Forward(l, <<n, Uplinks(n)[u + 1]>>, [x EXCEPT !.path = PathVia(n, x, u)])
      BY <2>1, <2>3, Zenon DEF EcmpReceive
    <3> DEFINE p == u * uplinkPorts
               z == WithPath(x, p)
    <3>2. u \in Index /\ (device = "Ecmp" => u = HashPort(n, x.flow))
      BY <1>1, <1>2, <2>1, EcmpChoice
    <3>3. p \in Paths /\ EdgePort(p) = u /\ p % uplinkPorts = 0
      <4>1. 0 \in Index /\ u \in Nat /\ uplinkPorts \in Nat
        BY <3>2, Sizes
      <4>2. u * uplinkPorts + 0 = u * uplinkPorts
        BY <4>1
      <4> QED BY <3>2, <4>1, <4>2, PortsMakePath
    <3>4. /\ z \in Packet /\ z.flow = x.flow /\ z.id = x.id /\ z.hops = x.hops
          /\ z.path = p
      BY <1>2, <3>3, ChosenPath
    <3>5. PathVia(n, x, u) = p
      BY <1>6 DEF PathVia
    <3>6. Forward(l, <<n, Agg(n[2], u)>>, z)
      <4>1. Uplinks(n)[u + 1] = Agg(n[2], u)
        BY <2>1, <3>2
      <4>2. z = [x EXCEPT !.path = PathVia(n, x, u)]
        BY <3>5, Zenon DEF WithPath
      <4> QED BY <3>1, <4>1, <4>2, Zenon
    <3>7. device = "Ecmp" => p = EcmpEdgePort(x.flow) * uplinkPorts
      <4>1. FirstLeg(l, x)
        BY <1>2, <1>6, <2>3, LegAtNode DEF DownToEdge
      <4>2. n = EdgeOf(Src[x.flow])
        BY <4>1 DEF FirstLeg
      <4> QED BY <3>2, <4>2 DEF EcmpEdgePort
    <3> HIDE DEF p, z
    <3>8. ASSUME NEW y, Sends(z, y) PROVE Hop(l, <<n, Agg(n[2], u)>>, x, y)
      <4>1. /\ y \in Packet /\ y.flow = x.flow /\ y.id = x.id /\ y.hops = x.hops + 1
            /\ y.path = p
        BY <3>4, <3>8 DEF Sends
      <4> QED BY <1>1, <1>2, <1>6, <2>3, <3>3, <3>7, <4>1, UpFromEdge
    <3> QED BY <1>5, <3>4, <3>6, <3>8
  <2> QED BY <2>2, <2>3
<1>7. CASE n \in Aggs
  <2>1. /\ inTable(n, DestOf(x)) <=> n[2] = d[2]
        /\ n[2] = d[2] => getIntf(n, DestOf(x)) = EdgeOf(d)
        /\ Len(Uplinks(n)) = uplinkPorts
        /\ \A i \in Index : Uplinks(n)[i + 1] = Core(n[3], i)
    BY <1>3, <1>7, AggTable DEF DestOf
  <2>2. CASE n[2] = d[2]
    <3>1. Forward(l, <<n, EdgeOf(d)>>, x)
      BY <2>1, <2>2 DEF EcmpReceive
    <3>2. ASSUME NEW y, Sends(x, y) PROVE Hop(l, <<n, EdgeOf(d)>>, x, y)
      BY <1>2, <1>7, <2>2, <3>2, DownHop DEF Sends
    <3> QED BY <1>2, <1>5, <3>1, <3>2
  <2>3. CASE n[2] # d[2]
    <3>1. PICK u \in UplinksFor(n, x.flow) :
            Forward(l, <<n, Uplinks(n)[u + 1]>>, [x EXCEPT !.path = PathVia(n, x, u)])
      BY <2>1, <2>3, Zenon DEF EcmpReceive
    <3> DEFINE e == EdgePort(x.path)
               p == x.path + u
               z == WithPath(x, p)
    <3>2. /\ u \in Index /\ (device = "Ecmp" => u = HashPort(n, x.flow))
      BY <1>1, <1>2, <2>1, EcmpChoice
    <3>3. /\ UpToAgg(l, x) /\ x.path \in Paths /\ e \in Index /\ n[3] = e
          /\ n = Agg(Src[x.flow][2], e) /\ DistanceOf(x) = 5
      BY <1>2, <1>7, <2>3, GoesUpAtAgg
    <3>4. x.path = e * uplinkPorts
      <4>1. x.path % uplinkPorts = 0
        BY <1>1, <1>2, <3>3 DEF OnRoute
      <4>2. x.path \in Nat /\ uplinkPorts \in Nat \ {0}
        BY <3>3, Sizes DEF Paths
      <4>3. x.path = uplinkPorts * (x.path \div uplinkPorts) + (x.path % uplinkPorts)
            /\ x.path \div uplinkPorts \in Nat
        <5>1. \A i \in Nat, j \in Nat \ {0} : i = j * (i \div j) + (i % j) /\ i \div j \in Nat
          OBVIOUS
        <5> QED BY <4>2, <5>1
      <4> QED BY <4>1, <4>2, <4>3 DEF EdgePort
    <3>5. p \in Paths /\ EdgePort(p) = e /\ p % uplinkPorts = u
      BY <3>2, <3>3, <3>4, PortsMakePath
    <3>6. /\ z \in Packet /\ z.flow = x.flow /\ z.id = x.id /\ z.hops = x.hops
          /\ z.path = p
      BY <1>2, <3>5, ChosenPath
    <3>7. PathVia(n, x, u) = p
      <4>1. n \notin Edges
        BY <1>7, NodeFields
      <4> QED BY <4>1 DEF PathVia
    <3>8. Forward(l, <<n, Core(n[3], u)>>, z)
      <4>1. Uplinks(n)[u + 1] = Core(n[3], u)
        BY <2>1, <3>2
      <4>2. z = [x EXCEPT !.path = PathVia(n, x, u)]
        BY <3>7, Zenon DEF WithPath
      <4> QED BY <3>1, <4>1, <4>2, Zenon
    <3>9. device = "Ecmp" => p = EcmpPath(x.flow)
      <4> SUFFICES ASSUME device = "Ecmp" PROVE p = EcmpPath(x.flow)
        OBVIOUS
      <4>1. x.hops = 1
        BY <3>3 DEF UpToAgg
      <4>2. x.path = EcmpEdgePort(x.flow) * uplinkPorts
        BY <1>2, <3>3, <4>1 DEF EcmpFollows
      <4>3. e = EcmpEdgePort(x.flow)
        <5>1. EdgeOf(Src[x.flow]) \in Edges
          BY <1>2, Distances
        <5>2. EcmpEdgePort(x.flow) \in Index
          <6>1. SwitchHash[EdgeOf(Src[x.flow])][x.flow] \in Nat
            BY <1>2, <5>1, FabricAssumption
          <6>2. \A h \in Nat : (h % 65536) % uplinkPorts \in Index
            BY Sizes
          <6> QED BY <6>1, <6>2 DEF EcmpEdgePort, HashPort
        <5>3. 0 \in Index
          BY Sizes
        <5>4. EdgePort(EcmpEdgePort(x.flow) * uplinkPorts + 0) = EcmpEdgePort(x.flow)
          BY <5>2, <5>3, PortsMakePath
        <5>5. EcmpEdgePort(x.flow) * uplinkPorts + 0 = EcmpEdgePort(x.flow) * uplinkPorts
          BY <5>2, Sizes
        <5> QED BY <4>2, <5>4, <5>5
      <4>4. u = HashPort(Agg(Src[x.flow][2], EcmpEdgePort(x.flow)), x.flow)
        BY <3>2, <3>3, <4>3
      <4> QED BY <4>2, <4>4 DEF EcmpPath
    <3>10. CorePort(p) = u
      BY <1>1, <3>5 DEF CorePort
    <3> HIDE DEF p, z
    <3>11. ASSUME NEW y, Sends(z, y) PROVE Hop(l, <<n, Core(n[3], u)>>, x, y)
      <4>1. /\ y \in Packet /\ y.flow = x.flow /\ y.id = x.id /\ y.hops = x.hops + 1
            /\ y.path = p
        BY <3>6, <3>11 DEF Sends
      <4> QED BY <1>2, <1>7, <2>3, <3>2, <3>5, <3>9, <3>10, <4>1, UpFromAgg
    <3> QED BY <1>5, <3>6, <3>8, <3>11
  <2> QED BY <2>2, <2>3
<1> QED BY <1>1, <1>6, <1>7

-----------------------------------------------------------------------------
(* The hosts, and all steps together. *)

NewPacket(f) == [flow |-> f, id |-> sent[f] + 1, large |-> f \in DataFlows,
                 tos |-> 2, path |-> NoPath, hops |-> 0]

(* A new packet of f, on the link to its edge switch. *)
Starts(f) ==
  /\ sent' = [sent EXCEPT ![f] = sent[f] + 1] /\ UNCHANGED <<arrived, halted>>
  /\ \E y : Carried(NewPacket(f), y) /\ Enters(<<Src[f], EdgeOf(Src[f])>>, y)

(* No packet moves; a full queue may have refused one. *)
Quiet ==
  /\ Rests /\ UNCHANGED arrived
  /\ \A f \in Flows : sent'[f] \in Nat /\ sent[f] <= sent'[f]
  /\ halted' = halted \/ ~Unmarked

(* A switch takes a packet off link l. *)
Passes(l) == Flight(l) # <<>> /\ Advances(l) /\ UNCHANGED <<sent, arrived, halted>>

(* The host at the end of link l does. *)
Arrives(l) ==
  LET x == Head(Flight(l)) IN
  /\ Flight(l) # <<>> /\ l[2] \in Hosts /\ Loses(l)
  /\ arrived' = [arrived EXCEPT ![x.flow] = Append(arrived[x.flow], x)]
  /\ UNCHANGED <<sent, halted>>

LEMMA SendStep ==
  ASSUME TypeInv, NEW f \in Flows, HostSend(f)
  PROVE  TypeInv' /\ device' = device /\ (Starts(f) \/ Quiet)
<1> DEFINE l == <<Src[f], EdgeOf(Src[f])>>
           x == NewPacket(f)
<1>1. /\ sent' = [sent EXCEPT ![f] = sent[f] + 1]
      /\ Full(link[l]) => dropped' = dropped \cup {x} /\ link' = link
      /\ ~Full(link[l]) => /\ \E q \in SendFrom(link[l], x) : link' = [link EXCEPT ![l] = q]
                           /\ dropped' = dropped
      /\ UNCHANGED <<device, win, arrived, halted>>
  BY Zenon DEF HostSend, NewPacket
<1>2. l \in Links
  <2>1. Src[f] \in Hosts
    BY FabricAssumption
  <2> QED BY <2>1, LinksExist
<1>3. sent[f] \in Nat /\ sent \in [Flows -> Nat]
  BY DEF TypeInv
<1>4. x \in Packet
  BY <1>3 DEF NewPacket, Packet
<1>5. sent' \in [Flows -> Nat] /\ \A g \in Flows : sent'[g] \in Nat /\ sent[g] <= sent'[g]
  BY <1>1, <1>3
<1> HIDE DEF l, x
<1>6. dropped' \subseteq Packet
  BY <1>1, <1>4 DEF TypeInv
<1>7. LinksOK /\ DeviceOK(link[l])
  BY <1>2 DEF TypeInv, LinksOK
<1>8. LinksOK' => TypeInv'
  BY <1>1, <1>5, <1>6 DEF TypeInv
<1>9. CASE Full(link[l])
  <2>1. LinksOK'
    BY <1>1, <1>7, <1>9 DEF LinksOK, DeviceOK
  <2>2. Quiet
    BY <1>1, <1>5, <1>9 DEF Quiet, Rests, Flight, FlightOf
  <2> QED BY <1>1, <1>8, <2>1, <2>2
<1>10. CASE ~Full(link[l])
  <2>1. PICK q \in SendFrom(link[l], x) : link' = [link EXCEPT ![l] = q]
    BY <1>1, <1>10
  <2>2. DeviceOK(q)
    BY <1>4, <1>7, <1>10, SentFlight
  <2>3. PICK y : Carried(x, y) /\ FlightOf(q) = Append(FlightOf(link[l]), y)
    BY <1>4, <1>7, <1>10, SentFlight
  <2>4. /\ LinksOK'
        /\ \A k \in Links : Flight(k)' = IF k = l THEN FlightOf(q) ELSE Flight(k)
    BY <1>2, <1>7, <2>1, <2>2, OneLink
  <2>5. Enters(l, y)
    BY <2>3, <2>4 DEF Enters, Flight
  <2>6. Starts(f)
    BY <1>1, <2>3, <2>5 DEF Starts, l, x
  <2> QED BY <1>1, <1>8, <2>4, <2>6
<1> QED BY <1>9, <1>10

LEMMA TransmitStep ==
  ASSUME TypeInv, NEW l \in Links, Transmit(l)
  PROVE  TypeInv' /\ device' = device /\ Quiet
<1> DEFINE r == TransmitReady(link[l])
<1>1. /\ link' = [link EXCEPT ![l] = r] /\ CanTransmit(link[l])
      /\ UNCHANGED <<device, win, sent, dropped, arrived, halted>>
  BY DEF Transmit
<1>2. LinksOK /\ DeviceOK(link[l])
  BY DEF TypeInv, LinksOK
<1>3. DeviceOK(r) /\ FlightOf(r) = FlightOf(link[l])
  BY <1>1, <1>2, TransmittedFlight
<1> HIDE DEF r
<1>4. /\ LinksOK'
      /\ \A k \in Links : Flight(k)' = IF k = l THEN FlightOf(r) ELSE Flight(k)
  BY <1>1, <1>2, <1>3, OneLink
<1>5. Rests
  BY <1>3, <1>4 DEF Rests, Flight
<1>6. \A f \in Flows : sent[f] \in Nat
  BY DEF TypeInv
<1>7. TypeInv'
  BY <1>1, <1>4 DEF TypeInv
<1> QED BY <1>1, <1>5, <1>6, <1>7 DEF Quiet

LEMMA ArriveStep ==
  ASSUME Inv, NEW l \in Links, HostReceive(l)
  PROVE  TypeInv' /\ device' = device /\ Arrives(l)
<1> DEFINE r == Received(link[l])
           x == Head(link[l].line)
<1>1. /\ l[2] \in Hosts /\ link[l].line # <<>>
      /\ link' = [link EXCEPT ![l] = r]
      /\ arrived' = [arrived EXCEPT ![x.flow] = Append(arrived[x.flow], x)]
      /\ UNCHANGED <<device, win, sent, dropped, halted>>
  BY DEF HostReceive, Receives
<1>2. TypeInv /\ LinksOK /\ DeviceOK(link[l])
  BY DEF Inv, TypeInv, LinksOK
<1>3. DeviceOK(r) /\ FlightOf(r) = Tail(FlightOf(link[l]))
  BY <1>1, <1>2, ReceivedFlight
<1>4. x \in Packet /\ x = Head(Flight(l)) /\ Flight(l) # <<>> /\ x.flow \in Flows
  BY <1>1, TakenPacket
<1> HIDE DEF r, x
<1>5. /\ LinksOK'
      /\ \A k \in Links : Flight(k)' = IF k = l THEN FlightOf(r) ELSE Flight(k)
  BY <1>1, <1>2, <1>3, OneLink
<1>6. Loses(l)
  BY <1>3, <1>5 DEF Loses, Flight
<1>7. arrived' \in [Flows -> Seq(Packet)]
  <2>1. arrived \in [Flows -> Seq(Packet)]
    BY <1>2 DEF TypeInv
  <2>2. Append(arrived[x.flow], x) \in Seq(Packet)
    BY <1>4, <2>1, AppendElements
  <2> QED BY <1>1, <2>1, <2>2
<1>8. TypeInv'
  BY <1>1, <1>2, <1>5, <1>7 DEF TypeInv
<1> QED BY <1>1, <1>4, <1>6, <1>8 DEF Arrives

(* Every step is one of four, and keeps the types. *)
LEMMA StepKinds ==
  ASSUME Inv, [Next]_vars
  PROVE  /\ TypeInv' /\ device' = device
         /\ \/ \E f \in Flows : Starts(f)
            \/ Quiet
            \/ \E l \in Links : Passes(l)
            \/ \E l \in Links : Arrives(l)
<1>1. TypeInv
  BY DEF Inv
<1>2. \A f \in Flows : sent[f] \in Nat
  BY <1>1 DEF TypeInv
<1>3. ASSUME NEW l \in Links, SwitchStep(l)
      PROVE  TypeInv' /\ device' = device /\ (Passes(l) \/ Quiet)
  <2>1. TypeInv'
    BY <1>1, <1>3 DEF SwitchStep, TypeInv
  <2>2. Flight(l) # <<>>
    BY <1>3, TakenPacket DEF SwitchStep
  <2> QED BY <1>2, <1>3, <2>1, <2>2 DEF SwitchStep, Passes, Quiet
<1>4. CASE \E f \in Flows : HostSend(f)
  BY <1>1, <1>4, SendStep
<1>5. CASE \E l \in Links : Transmit(l)
  BY <1>1, <1>5, TransmitStep
<1>6. CASE \E l \in Links : HostReceive(l)
  BY <1>6, ArriveStep
<1>7. CASE \E l \in Links : EdgeReceive(l) \/ AggReceive(l) \/ EcmpReceive(l) \/ CoreReceive(l)
  BY <1>3, <1>7, EdgeStep, AggStep, EcmpStep, CoreStep
<1>8. CASE \E e \in SourceEdges : ResetTimer(e)
  <2>1. PICK e \in SourceEdges : ResetTimer(e)
    BY <1>8
  <2>2. /\ win' = [win EXCEPT ![e] = ResetWindow(win[e])]
        /\ UNCHANGED <<device, link, sent, dropped, arrived, halted>>
    BY <2>1 DEF ResetTimer
  <2>3. win \in [SourceEdges -> Window] /\ win[e] \in Window
    BY <1>1 DEF TypeInv
  <2>4. win' \in [SourceEdges -> Window]
    BY <2>2, <2>3, ResetType
  <2>5. LinksOK'
    BY <1>1, <2>2 DEF TypeInv, LinksOK, DeviceOK
  <2>6. TypeInv'
    BY <1>1, <2>2, <2>4, <2>5 DEF TypeInv
  <2>7. Quiet
    BY <1>2, <2>2 DEF Quiet, Rests, Flight, FlightOf
  <2> QED BY <2>2, <2>6, <2>7
<1>9. CASE UNCHANGED vars
  <2>1. UNCHANGED <<device, link, win, sent, dropped, arrived, halted>>
    BY <1>9 DEF vars
  <2>2. LinksOK'
    BY <1>1, <2>1 DEF TypeInv, LinksOK, DeviceOK
  <2>3. TypeInv'
    BY <1>1, <2>1, <2>2 DEF TypeInv
  <2>4. Quiet
    BY <1>2, <2>1 DEF Quiet, Rests, Flight, FlightOf
  <2> QED BY <2>1, <2>3, <2>4
<1> QED BY <1>4, <1>5, <1>6, <1>7, <1>8, <1>9 DEF Next

-----------------------------------------------------------------------------
(* Every step keeps the packets on their routes. *)

(* What the invariant says of a packet x on link l. *)
Fits(l, x) ==
  /\ OnRoute(l, x)
  /\ Unmarked => OnPath(l, x)
  /\ device = "Ecmp" => EcmpFollows(x)

LEMMA InFlight ==
  ASSUME Inv, NEW l \in Links
  PROVE  /\ Flight(l) \in Seq(Packet) /\ PacketsIn(Flight(l)) \subseteq Packet
         /\ \A x \in PacketsIn(Flight(l)) : Fits(l, x)
<1>1. link[l] \in Device
  BY DEF Inv, TypeInv, LinksOK
<1>2. Flight(l) \in Seq(Packet)
  BY <1>1, DeviceFields DEF Flight
<1>3. PacketsIn(Flight(l)) \subseteq Packet
  BY <1>2, ConcatElements
<1> QED BY <1>2, <1>3 DEF Inv, RouteInv, PathInv, Fits

(* A new packet starts on its first leg. *)
LEMMA NewFits ==
  ASSUME TypeInv, NEW f \in Flows, NEW y, Carried(NewPacket(f), y)
  PROVE  LET m == <<Src[f], EdgeOf(Src[f])>> IN
         /\ m \in Links /\ y \in Packet /\ Fits(m, y)
         /\ y.flow = f /\ y.id = sent[f] + 1 /\ y.hops = 0
<1> DEFINE m == <<Src[f], EdgeOf(Src[f])>>
           x == NewPacket(f)
<1>1. sent[f] \in Nat
  BY DEF TypeInv
<1>2. x \in Packet /\ x.flow = f /\ x.id = sent[f] + 1 /\ x.hops = 0 /\ x.path = NoPath
  BY <1>1 DEF NewPacket, Packet
<1> HIDE DEF x
<1>3. /\ y \in Packet /\ y.flow = f /\ y.id = sent[f] + 1 /\ y.hops = 0
      /\ y.path = NoPath
  BY <1>2, CarriedFields DEF x
<1>4. m \in Links
  <2>1. Src[f] \in Hosts
    BY FabricAssumption
  <2> QED BY <2>1, LinksExist
<1>5. FirstLeg(m, y) /\ ~UpToAgg(m, y) /\ \A c \in Index : ~UpToCore(m, y, c) /\ ~DownToAgg(m, y, c)
  BY <1>3 DEF FirstLeg, UpToAgg, UpToCore, DownToAgg
<1>6. OnRoute(m, y) /\ OnPath(m, y) /\ EcmpFollows(y)
  BY <1>3, <1>5 DEF OnRoute, OnPath, EcmpFollows
<1> QED BY <1>3, <1>4, <1>6 DEF Fits

(* No packet turns up, and none overtakes another one on its link. *)
LEMMA KeptElements ==
  ASSUME NEW s \in Seq(Packet), NEW t, t = s \/ (s # <<>> /\ t = Tail(s))
  PROVE  /\ PacketsIn(t) \subseteq PacketsIn(s)
         /\ \A u, v : Before(t, u, v) => Before(s, u, v)
BY TailElements, TailOrder

LEMMA AddedElements ==
  ASSUME NEW s \in Seq(Packet), NEW y \in Packet
  PROVE  LET t == Append(s, y) IN
         /\ PacketsIn(t) = PacketsIn(s) \cup {y}
         /\ \A u, v : Before(t, u, v) => Before(s, u, v) \/ (u \in PacketsIn(s) /\ v = y)
<1>1. PacketsIn(Append(s, y)) = PacketsIn(s) \cup {y}
  BY AppendElements
<1>2. ASSUME NEW u, NEW v, Before(Append(s, y), u, v)
      PROVE  Before(s, u, v) \/ (u \in PacketsIn(s) /\ v = y)
  BY <1>2, AppendOrder
<1> QED BY <1>1, <1>2

(* What a step may do to the links: no packet turns up or overtakes another *)
(* one, or only y turns up, behind the others on link m.                    *)
Keeps ==
  \A k \in Links :
    /\ PacketsIn(Flight(k))' \subseteq PacketsIn(Flight(k))
    /\ \A u, v : Before(Flight(k), u, v)' => Before(Flight(k), u, v)
Joins(m, y) ==
  \A k \in Links :
    /\ \A u \in PacketsIn(Flight(k))' : u \in PacketsIn(Flight(k)) \/ (k = m /\ u = y)
    /\ \A u, v : Before(Flight(k), u, v)' =>
         Before(Flight(k), u, v) \/ (k = m /\ u \in PacketsIn(Flight(k)) /\ v = y)

(* The packet that link l loses was in front of those it keeps. *)
Leaves(l) ==
  \A v \in PacketsIn(Flight(l))' : Before(Flight(l), Head(Flight(l)), v)

LEMMA RestsKeeps ==
  ASSUME Rests
  PROVE  Keeps
BY DEF Rests, Keeps, PacketsIn, Before

LEMMA EntersJoins ==
  ASSUME Inv, NEW m \in Links, NEW y \in Packet, Enters(m, y)
  PROVE  Joins(m, y)
<1> SUFFICES ASSUME NEW k \in Links
             PROVE  /\ \A u \in PacketsIn(Flight(k))' : u \in PacketsIn(Flight(k)) \/ (k = m /\ u = y)
                    /\ \A u, v : Before(Flight(k), u, v)' =>
                         Before(Flight(k), u, v) \/ (k = m /\ u \in PacketsIn(Flight(k)) /\ v = y)
  BY DEF Joins
<1>1. Flight(k)' = IF k = m THEN Append(Flight(m), y) ELSE Flight(k)
  BY DEF Enters
<1>2. Flight(k) \in Seq(Packet)
  BY InFlight
<1>3. CASE k = m
  <2>1. Flight(k)' = Append(Flight(k), y)
    BY <1>1, <1>3
  <2>2. /\ PacketsIn(Append(Flight(k), y)) = PacketsIn(Flight(k)) \cup {y}
        /\ \A u, v : Before(Append(Flight(k), y), u, v) =>
             Before(Flight(k), u, v) \/ (u \in PacketsIn(Flight(k)) /\ v = y)
    BY <1>2, AddedElements
  <2> QED BY <1>3, <2>1, <2>2 DEF PacketsIn, Before
<1>4. CASE k # m
  BY <1>1, <1>4 DEF PacketsIn, Before
<1> QED BY <1>3, <1>4

LEMMA LosesKeeps ==
  ASSUME Inv, NEW l \in Links, Flight(l) # <<>>, Loses(l)
  PROVE  Keeps /\ Leaves(l)
<1>1. ASSUME NEW k \in Links
      PROVE  /\ PacketsIn(Flight(k))' \subseteq PacketsIn(Flight(k))
             /\ \A u, v : Before(Flight(k), u, v)' => Before(Flight(k), u, v)
  <2>1. Flight(k)' = Flight(k) \/ (Flight(k) # <<>> /\ Flight(k)' = Tail(Flight(k)))
    BY DEF Loses
  <2>2. Flight(k) \in Seq(Packet)
    BY InFlight
  <2> DEFINE t == Flight(k)'
  <2>3. /\ PacketsIn(t) \subseteq PacketsIn(Flight(k))
        /\ \A u, v : Before(t, u, v) => Before(Flight(k), u, v)
    BY <2>1, <2>2, KeptElements
  <2> QED BY <2>3 DEF PacketsIn, Before
<1>2. Leaves(l)
  <2>1. Flight(l)' = Tail(Flight(l)) /\ Flight(l) \in Seq(Packet)
    BY InFlight DEF Loses
  <2>2. \A v \in PacketsIn(Tail(Flight(l))) : Before(Flight(l), Head(Flight(l)), v)
    BY <2>1, TailOrder
  <2> QED BY <2>1, <2>2 DEF Leaves, PacketsIn
<1> QED BY <1>1, <1>2 DEF Keeps

LEMMA MovesJoins ==
  ASSUME Inv, NEW l \in Links, Flight(l) # <<>>, NEW m \in Links, NEW y \in Packet, Moves(l, m, y)
  PROVE  Joins(m, y) /\ Leaves(l)
<1>1. ASSUME NEW k \in Links
      PROVE  /\ \A u \in PacketsIn(Flight(k))' : u \in PacketsIn(Flight(k)) \/ (k = m /\ u = y)
             /\ \A u, v : Before(Flight(k), u, v)' =>
                  Before(Flight(k), u, v) \/ (k = m /\ u \in PacketsIn(Flight(k)) /\ v = y)
  <2>1. Flight(k) \in Seq(Packet)
    BY InFlight
  <2>2. CASE k = m
    <3>1. Flight(k)' = Append(Flight(k), y)
      BY <2>2 DEF Moves
    <3>2. /\ PacketsIn(Append(Flight(k), y)) = PacketsIn(Flight(k)) \cup {y}
          /\ \A u, v : Before(Append(Flight(k), y), u, v) =>
               Before(Flight(k), u, v) \/ (u \in PacketsIn(Flight(k)) /\ v = y)
      BY <2>1, AddedElements
    <3> QED BY <2>2, <3>1, <3>2 DEF PacketsIn, Before
  <2>3. CASE k # m
    <3>1. Flight(k)' = Flight(k) \/ (Flight(k) # <<>> /\ Flight(k)' = Tail(Flight(k)))
      BY <2>3 DEF Moves
    <3> DEFINE t == Flight(k)'
    <3>2. /\ PacketsIn(t) \subseteq PacketsIn(Flight(k))
          /\ \A u, v : Before(t, u, v) => Before(Flight(k), u, v)
      BY <2>1, <3>1, KeptElements
    <3> QED BY <3>2 DEF PacketsIn, Before
  <2> QED BY <2>2, <2>3
<1>2. Leaves(l)
  <2>1. Flight(l)' = Tail(Flight(l)) /\ Flight(l) \in Seq(Packet)
    BY InFlight DEF Moves
  <2>2. \A v \in PacketsIn(Tail(Flight(l))) : Before(Flight(l), Head(Flight(l)), v)
    BY <2>1, TailOrder
  <2> QED BY <2>1, <2>2 DEF Leaves, PacketsIn
<1> QED BY <1>1, <1>2 DEF Joins

LEMMA ArrivedElements ==
  ASSUME Inv, NEW l \in Links, Arrives(l), NEW f \in Flows
  PROVE  LET x == Head(Flight(l)) IN
         /\ \A u \in PacketsIn(arrived'[f]) : u \in PacketsIn(arrived[f]) \/ (f = x.flow /\ u = x)
         /\ \A u, v : Before(arrived'[f], u, v) =>
              Before(arrived[f], u, v) \/ (f = x.flow /\ u \in PacketsIn(arrived[f]) /\ v = x)
<1> DEFINE x == Head(Flight(l))
<1>1. Flight(l) # <<>> /\ arrived' = [arrived EXCEPT ![x.flow] = Append(arrived[x.flow], x)]
  BY DEF Arrives
<1>2. x \in Packet
  BY <1>1, InFlight, TailElements
<1>3. arrived \in [Flows -> Seq(Packet)]
  BY DEF Inv, TypeInv
<1> HIDE DEF x
<1>4. CASE f = x.flow
  <2>1. arrived'[f] = Append(arrived[f], x) /\ arrived[f] \in Seq(Packet)
    BY <1>1, <1>3, <1>4
  <2>2. /\ PacketsIn(Append(arrived[f], x)) = PacketsIn(arrived[f]) \cup {x}
        /\ \A u, v : Before(Append(arrived[f], x), u, v) =>
             Before(arrived[f], u, v) \/ (u \in PacketsIn(arrived[f]) /\ v = x)
    BY <1>2, <2>1, AddedElements
  <2> QED BY <1>4, <2>1, <2>2 DEF x
<1>5. CASE f # x.flow
  <2>1. arrived'[f] = arrived[f]
    BY <1>1, <1>3, <1>5
  <2> QED BY <1>5, <2>1 DEF x
<1> QED BY <1>4, <1>5

(* The switches stay of one kind, so what they do with a packet does not    *)
(* change while it is under way.                                            *)
LEMMA KindStays ==
  ASSUME device' = device
  PROVE  /\ HashesPaths' <=> HashesPaths
         /\ Unmarked' <=> Unmarked
         /\ \A l, x : /\ OnRoute(l, x)' <=> OnRoute(l, x)
                      /\ OnPath(l, x)' <=> OnPath(l, x)
                      /\ EcmpFollows(x)' <=> EcmpFollows(x)
<1>1. HashesPaths' <=> HashesPaths
  BY DEF HashesPaths
<1>2. \A l, x : OnRoute(l, x)' <=> OnRoute(l, x)
  BY <1>1 DEF OnRoute, FirstLeg, UpToAgg, UpToCore, DownToAgg, DownToEdge, LastLeg, DistanceOf
<1>3. \A p : CorePort(p)' = CorePort(p)
  BY <1>1 DEF CorePort
<1>4. \A l, x : OnPath(l, x)' <=> OnPath(l, x)
  BY <1>1, <1>3 DEF OnPath, UpToAgg, UpToCore, DownToAgg, DistanceOf
<1>5. \A x : EcmpFollows(x)' <=> EcmpFollows(x)
  BY DEF EcmpFollows, DistanceOf, EcmpEdgePort, EcmpPath, HashPort
<1> QED BY <1>1, <1>2, <1>4, <1>5 DEF Unmarked

(* The packet a host receives has passed the switches of a shortest route. *)
LEMMA ArrivedFits ==
  ASSUME Inv, NEW l \in Links, Arrives(l)
  PROVE  LET x == Head(Flight(l)) IN
         /\ x \in Packet /\ x.flow \in Flows /\ x \in PacketsIn(Flight(l))
         /\ x.hops = DistanceOf(x) /\ Fits(l, x)
<1> DEFINE x == Head(Flight(l))
<1>1. Flight(l) # <<>> /\ l[2] \in Hosts
  BY DEF Arrives
<1>2. x \in Packet /\ x \in PacketsIn(Flight(l))
  BY <1>1, InFlight, TailElements
<1>3. Fits(l, x)
  BY <1>2, InFlight
<1> HIDE DEF x
<1>4. LastLeg(l, x)
  BY <1>1, <1>2, <1>3, LegAtNode DEF Fits
<1> QED BY <1>2, <1>3, <1>4 DEF x, LastLeg, Packet

LEMMA StepFits ==
  ASSUME Inv, [Next]_vars
  PROVE  RouteInv' /\ PathInv'
<1>1. device' = device /\ TypeInv
  BY StepKinds DEF Inv
<1>2. ASSUME \A k \in Links : \A u \in PacketsIn(Flight(k))' : u \in PacketsIn(Flight(k)) \/ Fits(k, u),
             \A f \in Flows : \A u \in PacketsIn(arrived'[f]) :
               \/ u \in PacketsIn(arrived[f])
               \/ u.flow = f /\ u.hops = DistanceOf(u) /\ (device = "Ecmp" => EcmpFollows(u)),
             halted' = halted \/ ~Unmarked
      PROVE  RouteInv' /\ PathInv'
  <2>1. \A k \in Links : \A u \in PacketsIn(Flight(k))' : Fits(k, u)
    BY <1>2, InFlight
  <2>2. \A f \in Flows : \A u \in PacketsIn(arrived'[f]) :
          u.flow = f /\ u.hops = DistanceOf(u) /\ (device = "Ecmp" => EcmpFollows(u))
    BY <1>2 DEF Inv, RouteInv, PathInv
  <2>3. \A k \in Links : \A u \in PacketsIn(Flight(k))' :
          OnRoute(k, u)' /\ (Unmarked' => OnPath(k, u)') /\ (device' = "Ecmp" => EcmpFollows(u)')
    BY <1>1, <2>1, KindStays DEF Fits
  <2>4. \A f \in Flows : \A u \in PacketsIn(arrived'[f]) :
          u.flow = f /\ u.hops = DistanceOf(u) /\ (device' = "Ecmp" => EcmpFollows(u)')
    BY <1>1, <2>2, KindStays
  <2>5. Unmarked' => ~halted'
    BY <1>1, <1>2, KindStays DEF Inv, PathInv
  <2> QED BY <2>3, <2>4, <2>5 DEF RouteInv, PathInv, PacketsIn, DistanceOf
<1>3. Keeps => \A k \in Links : \A u \in PacketsIn(Flight(k))' : u \in PacketsIn(Flight(k)) \/ Fits(k, u)
  BY DEF Keeps
<1>4. CASE \E f \in Flows : Starts(f)
  <2>1. PICK f \in Flows : Starts(f)
    BY <1>4
  <2>2. PICK y : Carried(NewPacket(f), y) /\ Enters(<<Src[f], EdgeOf(Src[f])>>, y)
    BY <2>1 DEF Starts
  <2>3. PICK m \in Links : y \in Packet /\ Fits(m, y) /\ Enters(m, y)
    BY <1>1, <2>2, NewFits
  <2>4. Joins(m, y)
    BY <2>3, EntersJoins
  <2> QED BY <1>2, <2>1, <2>3, <2>4 DEF Starts, Joins
<1>5. CASE Quiet
  BY <1>2, <1>3, <1>5, RestsKeeps DEF Quiet
<1>6. CASE \E l \in Links : Passes(l)
  <2>1. PICK l \in Links : Passes(l)
    BY <1>6
  <2>2. Flight(l) # <<>> /\ Advances(l) /\ UNCHANGED <<sent, arrived, halted>>
    BY <2>1 DEF Passes
  <2>3. CASE Loses(l)
    BY <1>2, <1>3, <2>2, <2>3, LosesKeeps
  <2>4. CASE \E m, y : Moves(l, m, y) /\ Hop(l, m, Head(Flight(l)), y)
    <3>1. PICK m, y : Moves(l, m, y) /\ Hop(l, m, Head(Flight(l)), y)
      BY <2>4
    <3>2. m \in Links /\ y \in Packet /\ Fits(m, y)
      BY <3>1 DEF Hop, Fits
    <3>3. Joins(m, y)
      BY <2>2, <3>1, <3>2, MovesJoins
    <3> QED BY <1>2, <2>2, <3>2, <3>3 DEF Joins
  <2> QED BY <2>2, <2>3, <2>4 DEF Advances
<1>7. CASE \E l \in Links : Arrives(l)
  <2>1. PICK l \in Links : Arrives(l)
    BY <1>7
  <2>2. Flight(l) # <<>> /\ Loses(l) /\ halted' = halted
    BY <2>1 DEF Arrives
  <2>3. Keeps
    BY <2>2, LosesKeeps
  <2>4. \A f \in Flows : \A u \in PacketsIn(arrived'[f]) :
          \/ u \in PacketsIn(arrived[f])
          \/ u.flow = f /\ u.hops = DistanceOf(u) /\ (device = "Ecmp" => EcmpFollows(u))
    BY <2>1, ArrivedFits, ArrivedElements DEF Fits
  <2> QED BY <1>2, <1>3, <2>2, <2>3, <2>4
<1> QED BY <1>4, <1>5, <1>6, <1>7, StepKinds

-----------------------------------------------------------------------------
(* Every step keeps the packets of a way in order. *)

(* The hops of a packet say which leg it is on. *)
LEMMA LegByHops ==
  ASSUME NEW x \in Packet, NEW l, OnRoute(l, x)
  PROVE  LET D == DistanceOf(x) IN
         /\ x.hops \in Nat /\ D \in {1, 3, 5} /\ x.hops <= D
         /\ x.hops = 0 => FirstLeg(l, x)
         /\ x.hops = D => LastLeg(l, x)
         /\ x.hops = 1 /\ D > 1 => UpToAgg(l, x)
         /\ x.hops = 2 /\ D = 5 => \E c \in Index : UpToCore(l, x, c)
         /\ x.hops = 3 /\ D = 5 => \E c \in Index : DownToAgg(l, x, c)
         /\ x.hops = D - 1 /\ D > 1 => DownToEdge(l, x)
<1> DEFINE D == DistanceOf(x)
<1>1. x.flow \in Flows /\ x.hops \in Nat
  BY DEF Packet
<1>2. D \in {1, 3, 5}
  BY <1>1, Distances DEF DistanceOf
<1> HIDE DEF D
<1>3. /\ FirstLeg(l, x) => x.hops = 0
      /\ UpToAgg(l, x) => x.hops = 1 /\ D > 1
      /\ \A c \in Index : UpToCore(l, x, c) => x.hops = 2 /\ D = 5
      /\ \A c \in Index : DownToAgg(l, x, c) => x.hops = 3 /\ D = 5
      /\ DownToEdge(l, x) => x.hops = D - 1 /\ D > 1
      /\ LastLeg(l, x) => x.hops = D
  BY DEF FirstLeg, UpToAgg, UpToCore, DownToAgg, DownToEdge, LastLeg, D
<1>4. \/ FirstLeg(l, x)
      \/ UpToAgg(l, x)
      \/ \E c \in Index : UpToCore(l, x, c)
      \/ \E c \in Index : DownToAgg(l, x, c)
      \/ DownToEdge(l, x)
      \/ LastLeg(l, x)
  BY DEF OnRoute
<1>5. CASE FirstLeg(l, x)
  BY <1>1, <1>2, <1>3, <1>5 DEF D
<1>6. CASE UpToAgg(l, x)
  BY <1>1, <1>2, <1>3, <1>6 DEF D
<1>7. CASE \E c \in Index : UpToCore(l, x, c)
  BY <1>1, <1>2, <1>3, <1>7 DEF D
<1>8. CASE \E c \in Index : DownToAgg(l, x, c)
  BY <1>1, <1>2, <1>3, <1>8 DEF D
<1>9. CASE DownToEdge(l, x)
  BY <1>1, <1>2, <1>3, <1>9 DEF D
<1>10. CASE LastLeg(l, x)
  BY <1>1, <1>2, <1>3, <1>10 DEF D
<1> QED BY <1>4, <1>5, <1>6, <1>7, <1>8, <1>9, <1>10

(* Packets of one flow that went the same way as far are on the same link. *)
LEMMA SameLink ==
  ASSUME NEW x \in Packet, NEW y \in Packet, NEW l, NEW m,
         OnRoute(l, x), OnRoute(m, y), OnPath(l, x), OnPath(m, y),
         x.hops = y.hops, SameWay(x, y, x.hops)
  PROVE  l = m
<1> DEFINE D == DistanceOf(x)
           h == x.hops
<1>1. x.flow = y.flow /\ DistanceOf(y) = D
  BY DEF SameWay, DistanceOf
<1>2. /\ h \in Nat /\ D \in {1, 3, 5} /\ h <= D
      /\ h = 0 => FirstLeg(l, x)
      /\ h = D => LastLeg(l, x)
      /\ h = 1 /\ D > 1 => UpToAgg(l, x)
      /\ h = 2 /\ D = 5 => \E c \in Index : UpToCore(l, x, c)
      /\ h = 3 /\ D = 5 => \E c \in Index : DownToAgg(l, x, c)
      /\ h = D - 1 /\ D > 1 => DownToEdge(l, x)
  BY LegByHops
<1>3. /\ h = 0 => FirstLeg(m, y)
      /\ h = D => LastLeg(m, y)
      /\ h = 1 /\ D > 1 => UpToAgg(m, y)
      /\ h = 2 /\ D = 5 => \E c \in Index : UpToCore(m, y, c)
      /\ h = 3 /\ D = 5 => \E c \in Index : DownToAgg(m, y, c)
      /\ h = D - 1 /\ D > 1 => DownToEdge(m, y)
  <2>1. LET E == DistanceOf(y) IN
        /\ y.hops = 0 => FirstLeg(m, y)
        /\ y.hops = E => LastLeg(m, y)
        /\ y.hops = 1 /\ E > 1 => UpToAgg(m, y)
        /\ y.hops = 2 /\ E = 5 => \E c \in Index : UpToCore(m, y, c)
        /\ y.hops = 3 /\ E = 5 => \E c \in Index : DownToAgg(m, y, c)
        /\ y.hops = E - 1 /\ E > 1 => DownToEdge(m, y)
    BY LegByHops
  <2> QED BY <1>1, <2>1
<1>4. /\ h = 1 => EdgePort(x.path) = EdgePort(y.path)
      /\ h > 1 => x.path = y.path
  BY DEF SameWay
<1> HIDE DEF D, h
<1>5. CASE h = 0
  BY <1>1, <1>2, <1>3, <1>5 DEF FirstLeg
<1>6. CASE h = D
  BY <1>1, <1>2, <1>3, <1>6 DEF LastLeg
<1>7. CASE h = 1 /\ D > 1
  BY <1>1, <1>2, <1>3, <1>4, <1>7 DEF UpToAgg
<1>8. CASE h = 2 /\ D = 5
  <2>1. PICK c \in Index : UpToCore(l, x, c)
    BY <1>2, <1>8
  <2>2. PICK b \in Index : UpToCore(m, y, b)
    BY <1>3, <1>8
  <2>3. c = CorePort(x.path) /\ b = CorePort(y.path)
    BY <2>1, <2>2 DEF OnPath
  <2>4. x.path = y.path
    BY <1>4, <1>8
  <2> QED BY <1>1, <2>1, <2>2, <2>3, <2>4 DEF UpToCore
<1>9. CASE h = 3 /\ D = 5
  <2>1. PICK c \in Index : DownToAgg(l, x, c)
    BY <1>2, <1>9
  <2>2. PICK b \in Index : DownToAgg(m, y, b)
    BY <1>3, <1>9
  <2>3. c = CorePort(x.path) /\ b = CorePort(y.path)
    BY <2>1, <2>2 DEF OnPath
  <2>4. x.path = y.path
    BY <1>4, <1>9
  <2> QED BY <1>1, <2>1, <2>2, <2>3, <2>4 DEF DownToAgg
<1>10. CASE h = D - 1 /\ D > 1
  <2>1. h > 1
    BY <1>2, <1>10
  <2> QED BY <1>1, <1>2, <1>3, <1>4, <1>10, <2>1 DEF DownToEdge
<1>11. \/ h = 0
       \/ h = D
       \/ h = 1 /\ D > 1
       \/ h = 2 /\ D = 5
       \/ h = 3 /\ D = 5
       \/ h = D - 1 /\ D > 1
  BY <1>2
<1> QED BY <1>5, <1>6, <1>7, <1>8, <1>9, <1>10, <1>11

(* The way of a packet that hops goes on from where it was. *)
LEMMA WayOn ==
  ASSUME NEW l, NEW m, NEW x \in Packet, NEW y, Hop(l, m, x, y), NEW z \in Packet
  PROVE  /\ SameWay(z, y, y.hops) => SameWay(z, x, x.hops)
         /\ z.hops <= x.hops /\ SameWay(y, z, z.hops) => SameWay(x, z, z.hops)
<1>1. /\ y \in Packet /\ y.flow = x.flow /\ y.hops = x.hops + 1
      /\ x.hops = 1 => EdgePort(y.path) = EdgePort(x.path)
      /\ x.hops > 1 => y.path = x.path
  BY DEF Hop
<1>2. x.hops \in Nat /\ z.hops \in Nat
  BY DEF Packet
<1> QED BY <1>1, <1>2 DEF SameWay

LEMMA AtEnd ==
  ASSUME Inv, NEW f \in Flows
  PROVE  /\ arrived[f] \in Seq(Packet) /\ PacketsIn(arrived[f]) \subseteq Packet
         /\ \A x \in PacketsIn(arrived[f]) : x.flow = f
<1>1. arrived[f] \in Seq(Packet)
  BY DEF Inv, TypeInv
<1> QED BY <1>1, ConcatElements DEF Inv, RouteInv

(* When no packet turns up, the order stays. *)
LEMMA OrderKept ==
  ASSUME Inv, OrderInv, Keeps, arrived' = arrived,
         \A f \in Flows : sent'[f] \in Nat /\ sent[f] <= sent'[f]
  PROVE  OrderInv'
<1>1. \A k \in Links :
        /\ PacketsIn(Flight(k))' \subseteq PacketsIn(Flight(k))
        /\ \A u, v : Before(Flight(k), u, v)' => Before(Flight(k), u, v)
  BY DEF Keeps
<1>2. \A f \in Flows : /\ PacketsIn(arrived[f])' = PacketsIn(arrived[f])
                       /\ \A u, v : Before(arrived[f], u, v)' <=> Before(arrived[f], u, v)
  BY DEF PacketsIn, Before
<1>3. OrderOnLinks'
  BY <1>1 DEF OrderInv, OrderOnLinks, SameWay
<1>4. OrderBetweenLinks'
  BY <1>1 DEF OrderInv, OrderBetweenLinks, SameWay
<1>5. OrderAtEnd'
  BY <1>1, <1>2 DEF OrderInv, OrderAtEnd, SameWay
<1>6. OrderArrived'
  BY <1>2 DEF OrderInv, OrderArrived
<1>7. IdsSent'
  <2>1. \A f \in Flows : sent[f] \in Nat
    BY DEF Inv, TypeInv
  <2>2. ASSUME NEW k \in Links, NEW x \in PacketsIn(Flight(k))' PROVE x.id <= sent'[x.flow]
    <3>1. x \in PacketsIn(Flight(k)) /\ x \in Packet
      BY <1>1, <2>2, InFlight
    <3>2. x.id <= sent[x.flow]
      BY <3>1 DEF OrderInv, IdsSent
    <3>3. x.id \in Nat /\ x.flow \in Flows
      BY <3>1 DEF Packet
    <3> QED BY <2>1, <3>2, <3>3
  <2>3. ASSUME NEW f \in Flows, NEW x \in PacketsIn(arrived[f])' PROVE x.id <= sent'[f]
    <3>1. x \in PacketsIn(arrived[f]) /\ x.id <= sent[f]
      BY <1>2, <2>3 DEF OrderInv, IdsSent
    <3>2. x \in Packet
      BY <3>1, AtEnd
    <3> QED BY <2>1, <3>1, <3>2 DEF Packet
  <2> QED BY <2>2, <2>3 DEF IdsSent
<1> QED BY <1>3, <1>4, <1>5, <1>6, <1>7 DEF OrderInv

(* A new packet comes after all the others of its flow. *)
LEMMA OrderStarts ==
  ASSUME Inv, OrderInv, NEW f \in Flows, Starts(f)
  PROVE  OrderInv'
<1>1. /\ sent \in [Flows -> Nat] /\ sent' = [sent EXCEPT ![f] = sent[f] + 1]
      /\ UNCHANGED <<arrived, halted>>
  BY DEF Inv, TypeInv, Starts
<1>2. \A g \in Flows : sent[g] \in Nat /\ sent'[g] \in Nat /\ sent[g] <= sent'[g]
  BY <1>1
<1>3. sent'[f] = sent[f] + 1
  BY <1>1
<1>4. PICK y : Carried(NewPacket(f), y) /\ Enters(<<Src[f], EdgeOf(Src[f])>>, y)
  BY DEF Starts
<1>5. PICK m \in Links : /\ y \in Packet /\ y.flow = f /\ y.id = sent[f] + 1 /\ y.hops = 0
                         /\ Enters(m, y)
  BY <1>4, NewFits DEF Inv
<1>6. Joins(m, y)
  BY <1>5, EntersJoins
<1>7. \A k \in Links :
        /\ \A u \in PacketsIn(Flight(k))' : u \in PacketsIn(Flight(k)) \/ (k = m /\ u = y)
        /\ \A u, v : Before(Flight(k), u, v)' =>
             Before(Flight(k), u, v) \/ (k = m /\ u \in PacketsIn(Flight(k)) /\ v = y)
  BY <1>6 DEF Joins
<1>8. \A g \in Flows : /\ PacketsIn(arrived[g])' = PacketsIn(arrived[g])
                       /\ \A u, v : Before(arrived[g], u, v)' <=> Before(arrived[g], u, v)
  BY <1>1 DEF PacketsIn, Before
<1>9. \A k \in Links : \A u \in PacketsIn(Flight(k)) :
        u \in Packet /\ u.id \in Nat /\ u.hops \in Nat /\ u.flow \in Flows /\ u.id <= sent[u.flow]
  <2>1. \A k \in Links : \A u \in PacketsIn(Flight(k)) : u \in Packet /\ u.id <= sent[u.flow]
    BY InFlight DEF OrderInv, IdsSent
  <2> QED BY <2>1 DEF Packet
<1>10. OrderOnLinks'
  <2> SUFFICES ASSUME NEW l \in Links, NEW u \in Packet, NEW v \in Packet,
                      Before(Flight(l), u, v)', u.hops = v.hops, SameWay(u, v, u.hops)
               PROVE  u.id < v.id
    BY DEF OrderOnLinks, SameWay
  <2>1. CASE Before(Flight(l), u, v)
    BY <2>1 DEF OrderInv, OrderOnLinks
  <2>2. CASE u \in PacketsIn(Flight(l)) /\ v = y
    BY <1>2, <1>5, <1>9, <2>2 DEF SameWay
  <2> QED BY <1>7, <2>1, <2>2
<1>11. OrderBetweenLinks'
  <2> SUFFICES ASSUME NEW l \in Links, NEW k \in Links,
                      NEW u \in PacketsIn(Flight(l))', NEW v \in PacketsIn(Flight(k))',
                      u.hops > v.hops, SameWay(u, v, v.hops)
               PROVE  u.id < v.id
    BY DEF OrderBetweenLinks, SameWay
  <2>1. CASE u \in PacketsIn(Flight(l)) /\ v \in PacketsIn(Flight(k))
    BY <2>1 DEF OrderInv, OrderBetweenLinks
  <2>2. CASE u \in PacketsIn(Flight(l)) /\ v = y
    BY <1>2, <1>5, <1>9, <2>2 DEF SameWay
  <2>3. u # y
    BY <1>5, <1>7, <1>9
  <2> QED BY <1>7, <2>1, <2>2, <2>3
<1>12. OrderAtEnd'
  <2> SUFFICES ASSUME NEW g \in Flows, NEW k \in Links,
                      NEW u \in PacketsIn(arrived[g])', NEW v \in PacketsIn(Flight(k))',
                      SameWay(u, v, v.hops)
               PROVE  u.id < v.id
    BY DEF OrderAtEnd, SameWay
  <2>1. u \in PacketsIn(arrived[g])
    BY <1>8
  <2>2. CASE v \in PacketsIn(Flight(k))
    BY <2>1, <2>2 DEF OrderInv, OrderAtEnd
  <2>3. CASE v = y
    <3>1. u \in Packet /\ u.flow = g /\ u.id <= sent[g]
      BY <2>1, AtEnd DEF OrderInv, IdsSent
    <3>2. g = f /\ u.id \in Nat
      BY <1>5, <2>3, <3>1 DEF SameWay, Packet
    <3> QED BY <1>2, <1>5, <2>3, <3>1, <3>2
  <2> QED BY <1>7, <2>2, <2>3
<1>13. OrderArrived'
  BY <1>8 DEF OrderInv, OrderArrived
<1>14. IdsSent'
  <2>1. ASSUME NEW k \in Links, NEW u \in PacketsIn(Flight(k))' PROVE u.id <= sent'[u.flow]
    BY <1>2, <1>3, <1>5, <1>7, <1>9, <2>1
  <2>2. ASSUME NEW g \in Flows, NEW u \in PacketsIn(arrived[g])' PROVE u.id <= sent'[g]
    <3>1. u \in Packet /\ u.id <= sent[g]
      BY <1>8, <2>2, AtEnd DEF OrderInv, IdsSent
    <3> QED BY <1>2, <3>1 DEF Packet
  <2> QED BY <2>1, <2>2 DEF IdsSent
<1> QED BY <1>10, <1>11, <1>12, <1>13, <1>14 DEF OrderInv

(* The first packet of a link was sent before all that are not further. *)
LEMMA FirstOfWay ==
  ASSUME Inv, OrderInv, Unmarked, NEW l \in Links, Flight(l) # <<>>, Leaves(l),
         NEW k \in Links, NEW v \in PacketsIn(Flight(k)),
         k = l => v \in PacketsIn(Flight(l))',
         v.hops <= Head(Flight(l)).hops, SameWay(Head(Flight(l)), v, v.hops)
  PROVE  Head(Flight(l)).id < v.id
<1> DEFINE x == Head(Flight(l))
<1>1. x \in Packet /\ x \in PacketsIn(Flight(l)) /\ v \in Packet
  BY InFlight, TailElements
<1> HIDE DEF x
<1>2. x.hops \in Nat /\ v.hops \in Nat
  BY <1>1 DEF Packet
<1>3. CASE v.hops < x.hops
  <2>1. x.hops > v.hops /\ SameWay(x, v, v.hops)
    BY <1>2, <1>3 DEF x
  <2> QED BY <1>1, <2>1 DEF OrderInv, OrderBetweenLinks, x
<1>4. CASE v.hops = x.hops
  <2>1. SameWay(x, v, x.hops)
    BY <1>4 DEF x
  <2>2. OnRoute(l, x) /\ OnPath(l, x) /\ OnRoute(k, v) /\ OnPath(k, v)
    BY <1>1, InFlight DEF Fits
  <2>3. k = l
    BY <1>1, <1>4, <2>1, <2>2, SameLink
  <2>4. Before(Flight(l), x, v)
    BY <2>3 DEF Leaves, x
  <2> QED BY <1>1, <1>4, <2>1, <2>4 DEF OrderInv, OrderOnLinks, x
<1> QED BY <1>2, <1>3, <1>4 DEF x

(* A packet that hops overtakes none that goes its way. *)
LEMMA OrderHops ==
  ASSUME Inv, OrderInv, Unmarked, NEW l \in Links, Flight(l) # <<>>, NEW m, NEW y,
         Moves(l, m, y), Hop(l, m, Head(Flight(l)), y), UNCHANGED <<sent, arrived>>
  PROVE  OrderInv'
<1> DEFINE x == Head(Flight(l))
<1>1. x \in Packet /\ x \in PacketsIn(Flight(l))
  BY InFlight, TailElements
<1>2. Hop(l, m, x, y)
  OBVIOUS
<1> HIDE DEF x
<1>3. /\ m \in Links /\ y \in Packet /\ y.flow = x.flow /\ y.id = x.id /\ y.hops = x.hops + 1
      /\ x.hops \in Nat
  BY <1>1, <1>2 DEF Hop, Packet
<1>4. Joins(m, y) /\ Leaves(l)
  BY <1>3, MovesJoins
<1>5. \A k \in Links :
        /\ \A u \in PacketsIn(Flight(k))' : u \in PacketsIn(Flight(k)) \/ (k = m /\ u = y)
        /\ \A u, v : Before(Flight(k), u, v)' =>
             Before(Flight(k), u, v) \/ (k = m /\ u \in PacketsIn(Flight(k)) /\ v = y)
  BY <1>4 DEF Joins
<1>6. \A g \in Flows : /\ PacketsIn(arrived[g])' = PacketsIn(arrived[g])
                       /\ \A u, v : Before(arrived[g], u, v)' <=> Before(arrived[g], u, v)
  BY DEF PacketsIn, Before
<1>7. \A k \in Links : \A u \in PacketsIn(Flight(k)) :
        u \in Packet /\ u.id \in Nat /\ u.hops \in Nat /\ u.id <= sent[u.flow]
  <2>1. \A k \in Links : \A u \in PacketsIn(Flight(k)) : u \in Packet /\ u.id <= sent[u.flow]
    BY InFlight DEF OrderInv, IdsSent
  <2> QED BY <2>1 DEF Packet
(* What goes the way of y goes the way of x. *)
<1>8. \A u \in Packet : SameWay(u, y, y.hops) => SameWay(u, x, x.hops)
  BY <1>1, <1>2, WayOn
<1>9. ASSUME NEW k \in Links, NEW u \in PacketsIn(Flight(k)), u.hops > x.hops, SameWay(u, y, y.hops)
      PROVE  u.id < y.id
  <2>1. SameWay(u, x, x.hops)
    BY <1>7, <1>8, <1>9
  <2>2. u.id < x.id
    BY <1>1, <1>9, <2>1 DEF OrderInv, OrderBetweenLinks
  <2> QED BY <1>3, <2>2
<1>10. OrderOnLinks'
  <2> SUFFICES ASSUME NEW k \in Links, NEW u \in Packet, NEW v \in Packet,
                      Before(Flight(k), u, v)', u.hops = v.hops, SameWay(u, v, u.hops)
               PROVE  u.id < v.id
    BY DEF OrderOnLinks, SameWay
  <2>1. CASE Before(Flight(k), u, v)
    BY <2>1 DEF OrderInv, OrderOnLinks
  <2>2. CASE u \in PacketsIn(Flight(k)) /\ v = y
    <3>1. u.hops > x.hops /\ SameWay(u, y, y.hops)
      BY <1>3, <2>2
    <3> QED BY <1>9, <2>2, <3>1
  <2> QED BY <1>5, <2>1, <2>2
<1>11. OrderBetweenLinks'
  <2> SUFFICES ASSUME NEW j \in Links, NEW k \in Links,
                      NEW u \in PacketsIn(Flight(j))', NEW v \in PacketsIn(Flight(k))',
                      u.hops > v.hops, SameWay(u, v, v.hops)
               PROVE  u.id < v.id
    BY DEF OrderBetweenLinks, SameWay
  <2>1. CASE u \in PacketsIn(Flight(j)) /\ v \in PacketsIn(Flight(k))
    BY <2>1 DEF OrderInv, OrderBetweenLinks
  <2>2. CASE u \in PacketsIn(Flight(j)) /\ v = y
    <3>1. u.hops > x.hops /\ SameWay(u, y, y.hops)
      BY <1>3, <1>7, <2>2
    <3> QED BY <1>9, <2>2, <3>1
  <2>3. CASE u = y /\ v \in PacketsIn(Flight(k))
    <3>1. v.hops <= x.hops /\ v \in Packet
      BY <1>3, <1>7, <2>3
    <3>2. SameWay(x, v, v.hops)
      BY <1>1, <1>2, <2>3, <3>1, WayOn
    <3>3. x.id < v.id
      <4>1. k = l => v \in PacketsIn(Flight(l))'
        OBVIOUS
      <4> QED BY <1>4, <2>3, <3>1, <3>2, <4>1, FirstOfWay DEF x
    <3> QED BY <1>3, <2>3, <3>3
  <2>4. ~(u = y /\ v = y)
    BY <1>3
  <2> QED BY <1>5, <2>1, <2>2, <2>3, <2>4
<1>12. OrderAtEnd'
  <2> SUFFICES ASSUME NEW g \in Flows, NEW k \in Links,
                      NEW u \in PacketsIn(arrived[g])', NEW v \in PacketsIn(Flight(k))',
                      SameWay(u, v, v.hops)
               PROVE  u.id < v.id
    BY DEF OrderAtEnd, SameWay
  <2>1. u \in PacketsIn(arrived[g])
    BY <1>6
  <2>2. CASE v \in PacketsIn(Flight(k))
    BY <2>1, <2>2 DEF OrderInv, OrderAtEnd
  <2>3. CASE v = y
    <3>1. u \in Packet
      BY <2>1, AtEnd
    <3>2. SameWay(u, x, x.hops)
      BY <1>8, <2>3, <3>1
    <3>3. u.id < x.id
      BY <1>1, <2>1, <3>2 DEF OrderInv, OrderAtEnd
    <3> QED BY <1>3, <2>3, <3>3
  <2> QED BY <1>5, <2>2, <2>3
<1>13. OrderArrived'
  BY <1>6 DEF OrderInv, OrderArrived
<1>14. IdsSent'
  <2>1. y.id <= sent[y.flow]
    BY <1>1, <1>3, <1>7
  <2> QED BY <1>5, <1>6, <1>7, <2>1 DEF OrderInv, IdsSent
<1> QED BY <1>10, <1>11, <1>12, <1>13, <1>14 DEF OrderInv

(* A packet arrives before all that go its way behind it. *)
LEMMA OrderArrives ==
  ASSUME Inv, OrderInv, Unmarked, NEW l \in Links, Arrives(l)
  PROVE  OrderInv'
<1> DEFINE x == Head(Flight(l))
<1>1. /\ x \in Packet /\ x.flow \in Flows /\ x \in PacketsIn(Flight(l))
      /\ x.hops = DistanceOf(x)
  BY ArrivedFits
<1>2. Flight(l) # <<>> /\ Loses(l) /\ sent' = sent
  BY DEF Arrives
<1>3. \A f \in Flows :
        /\ \A u \in PacketsIn(arrived'[f]) : u \in PacketsIn(arrived[f]) \/ (f = x.flow /\ u = x)
        /\ \A u, v : Before(arrived'[f], u, v) =>
             Before(arrived[f], u, v) \/ (f = x.flow /\ u \in PacketsIn(arrived[f]) /\ v = x)
  BY ArrivedElements
<1> HIDE DEF x
<1>4. Keeps /\ Leaves(l)
  BY <1>2, LosesKeeps
<1>5. \A k \in Links :
        /\ PacketsIn(Flight(k))' \subseteq PacketsIn(Flight(k))
        /\ \A u, v : Before(Flight(k), u, v)' => Before(Flight(k), u, v)
  BY <1>4 DEF Keeps
<1>6. OrderOnLinks'
  BY <1>5 DEF OrderInv, OrderOnLinks, SameWay
<1>7. OrderBetweenLinks'
  BY <1>5 DEF OrderInv, OrderBetweenLinks, SameWay
<1>8. OrderAtEnd'
  <2> SUFFICES ASSUME NEW f \in Flows, NEW k \in Links,
                      NEW u \in PacketsIn(arrived'[f]), NEW v \in PacketsIn(Flight(k))',
                      SameWay(u, v, v.hops)
               PROVE  u.id < v.id
    BY DEF OrderAtEnd, SameWay, PacketsIn
  <2>1. v \in PacketsIn(Flight(k)) /\ v \in Packet /\ OnRoute(k, v)
    BY <1>5, InFlight DEF Fits
  <2>2. CASE u \in PacketsIn(arrived[f])
    BY <2>1, <2>2 DEF OrderInv, OrderAtEnd
  <2>3. CASE u = x
    <3>1. v.hops <= DistanceOf(v)
      BY <2>1, LegByHops
    <3>2. DistanceOf(v) = DistanceOf(x)
      BY <2>3 DEF SameWay, DistanceOf
    <3>3. v.hops <= x.hops /\ SameWay(x, v, v.hops)
      BY <1>1, <2>3, <3>1, <3>2
    <3>4. k = l => v \in PacketsIn(Flight(l))'
      OBVIOUS
    <3> QED BY <1>2, <1>4, <2>1, <2>3, <3>3, <3>4, FirstOfWay DEF x
  <2> QED BY <1>3, <2>2, <2>3
<1>9. OrderArrived'
  <2> SUFFICES ASSUME NEW f \in Flows, NEW u \in Packet, NEW v \in Packet,
                      Before(arrived'[f], u, v), u.path = v.path
               PROVE  u.id < v.id
    BY DEF OrderArrived, Before
  <2>1. CASE Before(arrived[f], u, v)
    BY <2>1 DEF OrderInv, OrderArrived
  <2>2. CASE f = x.flow /\ u \in PacketsIn(arrived[f]) /\ v = x
    <3>1. SameWay(u, x, x.hops)
      <4>1. u.flow = x.flow
        BY <2>2, AtEnd
      <4> QED BY <2>2, <4>1 DEF SameWay
    <3> QED BY <1>1, <2>2, <3>1 DEF OrderInv, OrderAtEnd
  <2> QED BY <1>3, <2>1, <2>2
<1>10. IdsSent'
  <2>1. \A k \in Links : \A u \in PacketsIn(Flight(k))' : u.id <= sent'[u.flow]
    BY <1>2, <1>5 DEF OrderInv, IdsSent
  <2>2. \A f \in Flows : \A u \in PacketsIn(arrived'[f]) : u.id <= sent'[f]
    BY <1>1, <1>2, <1>3 DEF OrderInv, IdsSent
  <2> QED BY <2>1, <2>2 DEF IdsSent, PacketsIn
<1> QED BY <1>6, <1>7, <1>8, <1>9, <1>10 DEF OrderInv

LEMMA StepOrder ==
  ASSUME Inv, [Next]_vars
  PROVE  OrderOK'
<1>1. device' = device /\ \A f \in Flows : sent[f] \in Nat
  BY StepKinds DEF Inv, TypeInv
<1> SUFFICES ASSUME Unmarked PROVE OrderInv'
  BY <1>1, KindStays DEF OrderOK
<1>2. OrderInv
  BY DEF Inv, OrderOK
<1>3. CASE \E f \in Flows : Starts(f)
  BY <1>2, <1>3, OrderStarts
<1>4. CASE Quiet
  BY <1>2, <1>4, RestsKeeps, OrderKept DEF Quiet
<1>5. CASE \E l \in Links : Passes(l)
  <2>1. PICK l \in Links : Passes(l)
    BY <1>5
  <2>2. Flight(l) # <<>> /\ Advances(l) /\ UNCHANGED <<sent, arrived>>
    BY <2>1 DEF Passes
  <2>3. CASE Loses(l)
    <3>1. Keeps
      BY <2>2, <2>3, LosesKeeps
    <3>2. \A f \in Flows : sent'[f] \in Nat /\ sent[f] <= sent'[f]
      BY <1>1, <2>2
    <3> QED BY <1>2, <2>2, <3>1, <3>2, OrderKept
  <2>4. CASE \E m, y : Moves(l, m, y) /\ Hop(l, m, Head(Flight(l)), y)
    BY <1>2, <2>2, <2>4, OrderHops
  <2> QED BY <2>2, <2>3, <2>4 DEF Advances
<1>6. CASE \E l \in Links : Arrives(l)
  BY <1>2, <1>6, OrderArrives
<1> QED BY <1>3, <1>4, <1>5, <1>6, StepKinds

LEMMA StepInv ==
  ASSUME Inv, [Next]_vars
  PROVE  Inv'
BY StepKinds, StepFits, StepOrder DEF Inv

LEMMA InitInv ==
  ASSUME Init
  PROVE  Inv
<1>1. /\ device \in Devices /\ link = [l \in Links |-> IdleLink]
      /\ win \in [SourceEdges -> InstalledWindows]
      /\ sent = [f \in Flows |-> 0] /\ dropped = {}
      /\ arrived = [f \in Flows |-> <<>>] /\ halted = FALSE
  BY DEF Init
<1>2. <<>> \in Seq(Packet) /\ Len(<<>>) = 0 /\ PacketsIn(<<>>) = {} /\ <<>> \o <<>> = <<>>
      /\ \A x, y : ~Before(<<>>, x, y)
  <2>1. <<>> \in Seq(Packet) /\ Len(<<>>) = 0
    OBVIOUS
  <2>2. DOMAIN <<>> = {}
    OBVIOUS
  <2>3. <<>> \o <<>> = <<>>
    OBVIOUS
  <2> QED BY <2>1, <2>2, <2>3 DEF PacketsIn, Before
<1>3. IdleLink \in Device /\ IdleLink.line = <<>> /\ IdleLink.queue = <<>>
  BY <1>2 DEF IdleLink, Device
<1>4. DeviceOK(IdleLink) /\ FlightOf(IdleLink) = <<>>
  BY <1>2, <1>3, LinkAssumption DEF DeviceOK, FlightOf
<1>5. \A l \in Links : DeviceOK(link[l]) /\ Flight(l) = <<>>
  BY <1>1, <1>4 DEF Flight
<1>6. LinksOK
  BY <1>1, <1>3, <1>5 DEF LinksOK
<1>7. InstalledWindows \subseteq Window
  <2>1. [p \in Paths |-> 0] \in [Paths -> Nat] /\ 0 \in Nat
    OBVIOUS
  <2>2. 0 \in Paths
    BY PathsAssumption, Sizes DEF Paths
  <2> QED BY <2>1, <2>2, GarbageAssumption DEF InstalledWindows, Window
<1>8. TypeInv
  BY <1>1, <1>2, <1>6, <1>7 DEF TypeInv
<1>9. \A l \in Links : PacketsIn(Flight(l)) = {} /\ \A x, y : ~Before(Flight(l), x, y)
  BY <1>2, <1>5
<1>10. \A f \in Flows : PacketsIn(arrived[f]) = {} /\ \A x, y : ~Before(arrived[f], x, y)
  BY <1>1, <1>2
<1>11. RouteInv /\ PathInv
  BY <1>1, <1>9, <1>10 DEF RouteInv, PathInv
<1>12. OrderInv
  BY <1>9, <1>10 DEF OrderInv, OrderOnLinks, OrderBetweenLinks, OrderAtEnd, OrderArrived, IdsSent
<1> QED BY <1>8, <1>11, <1>12 DEF Inv, OrderOK

LEMMA Invariant == Spec => []Inv
<1>1. Init => Inv
  BY InitInv
<1>2. Inv /\ [Next]_vars => Inv'
  BY StepInv
<1> QED BY <1>1, <1>2, PTL DEF Spec

-----------------------------------------------------------------------------
(* What the invariant says of the properties of the runs. *)

LEMMA LinksInUse ==
  ASSUME Inv, NEW l \in InUse
  PROVE  /\ l \in Links /\ DeviceOK(link[l])
         /\ PacketsOn(l) = PacketsIn(Flight(l))
         /\ \A x \in PacketsOn(l) : x \in Packet /\ Fits(l, x)
<1>1. l \in Links
  BY DEF InUse
<1>2. DeviceOK(link[l]) /\ link[l] \in Device
  BY <1>1 DEF Inv, TypeInv, LinksOK, DeviceOK
<1>3. link[l].line \in Seq(Packet) /\ link[l].queue \in Seq(Packet)
  BY <1>2, DeviceFields
<1>4. PacketsOn(l) = PacketsIn(Flight(l))
  BY <1>3, ConcatElements DEF PacketsOn, Flight, FlightOf
<1> QED BY <1>1, <1>2, <1>4, InFlight

(* The types of the variables, whatever the switches are: a device never    *)
(* holds more than its queue and its line, and every packet is one.         *)
THEOREM TypeCorrect == Spec => []TypeOK
<1>1. ASSUME Inv PROVE TypeOK
  <2>1. /\ device \in Devices /\ win \in [SourceEdges -> Window] /\ sent \in [Flows -> Nat]
        /\ dropped \subseteq Packet /\ halted \in BOOLEAN /\ DOMAIN link = Links
    BY <1>1 DEF Inv, TypeInv, LinksOK
  <2>2. ASSUME NEW l \in InUse
        PROVE  /\ PacketsOn(l) \subseteq Packet
               /\ Len(link[l].queue) <= MaxPackets /\ Len(link[l].line) <= LineLength
    BY <1>1, LinksInUse DEF DeviceOK
  <2>3. \A f \in Flows : PacketsIn(arrived[f]) \subseteq Packet
    BY <1>1, AtEnd
  <2> QED BY <2>1, <2>2, <2>3 DEF TypeOK
<1> QED BY <1>1, Invariant, PTL

(* ShortestRoute: whatever the switches do with their packets, and whatever *)
(* the devices do to the ToS byte, a packet that arrives has passed the     *)
(* one, three or five switches of a shortest route to its own destination.  *)
THEOREM ShortestRouteCorrect == Spec => []ShortestRoute
<1>1. ASSUME Inv PROVE ShortestRoute
  <2>1. ASSUME NEW f \in Flows, NEW x \in PacketsIn(arrived[f])
        PROVE  x.hops = Distance(Src[f], Dst[f])
    BY <1>1 DEF Inv, RouteInv, DistanceOf
  <2>2. ASSUME NEW l \in InUse, NEW x \in PacketsOn(l)
        PROVE  /\ x.hops <= Distance(Src[x.flow], Dst[x.flow])
               /\ l[2] \in Hosts => l[2] = Dst[x.flow]
    <3>1. x \in Packet /\ OnRoute(l, x)
      BY <1>1, LinksInUse DEF Fits
    <3>2. x.hops <= DistanceOf(x)
      BY <3>1, LegByHops
    <3>3. l[2] \in Hosts => LastLeg(l, x)
      BY <3>1, LegAtNode
    <3> QED BY <3>2, <3>3 DEF DistanceOf, LastLeg
  <2> QED BY <2>1, <2>2 DEF ShortestRoute
<1> QED BY <1>1, Invariant, PTL

(* The other properties hold where no device marks packets that path-hashing *)
(* switches forward: ecnThresh is 0, or the switches are ECMP ones.          *)
PathHashingKinds == {"PathHashing", "PathHashingAdv"}
NoMarking == EcnThresh = 0 \/ Devices \cap PathHashingKinds = {}

LEMMA NothingMarked ==
  ASSUME NoMarking, Inv
  PROVE  Unmarked
<1>1. device \in Devices
  BY DEF Inv, TypeInv
<1> QED BY <1>1 DEF NoMarking, PathHashingKinds, Unmarked, HashesPaths

(* NeverHalts: no assertion fails and every uplink a packet asks for exists. *)
THEOREM NeverHaltsCorrect ==
  ASSUME NoMarking
  PROVE  Spec => []NeverHalts
<1>1. ASSUME Inv PROVE NeverHalts
  BY <1>1, NothingMarked DEF Inv, PathInv, NeverHalts
<1> QED BY <1>1, Invariant, PTL

(* TosCarriesPort: what the aggregation switch reads is what the edge switch *)
(* wrote, which the run with marking refutes.                                *)
THEOREM TosCarriesPortCorrect ==
  ASSUME NoMarking
  PROVE  Spec => []TosCarriesPort
<1>1. ASSUME Inv PROVE TosCarriesPort
  <2> SUFFICES ASSUME NEW l \in InUse, HashesPaths, l[1] \in Edges, l[2] \in Aggs,
                      NEW x \in PacketsOn(l)
               PROVE  x.tos = AggPort(x.path)
    BY DEF TosCarriesPort
  <2>1. x \in Packet /\ OnRoute(l, x) /\ OnPath(l, x)
    BY <1>1, LinksInUse, NothingMarked DEF Fits
  <2>2. UpToAgg(l, x) \/ \E c \in Index : DownToAgg(l, x, c)
    BY <2>1, LegAtNode
  <2>3. \A c \in Index : ~DownToAgg(l, x, c)
    <3>1. l[1][1] = "edge"
      BY NodeFields
    <3> QED BY <3>1, NodeNumbers DEF DownToAgg
  <2> QED BY <2>1, <2>2, <2>3 DEF OnPath
<1> QED BY <1>1, Invariant, PTL

(* PathIsFollowed: a packet crosses the core switch its path stands for, if  *)
(* one octet can tell the uplinks of an aggregation switch apart.            *)
THEOREM PathIsFollowedCorrect ==
  ASSUME NoMarking, uplinkPorts <= 256 \/ Devices \cap PathHashingKinds = {}
  PROVE  Spec => []PathIsFollowed
<1>1. ASSUME Inv PROVE PathIsFollowed
  <2> SUFFICES ASSUME NEW l \in InUse, l[1] \in Aggs, l[2] \in Cores, NEW x \in PacketsOn(l)
               PROVE  l = <<Agg(Src[x.flow][2], EdgePort(x.path)),
                            Core(EdgePort(x.path), x.path % uplinkPorts)>>
    BY DEF PathIsFollowed
  <2>1. x \in Packet /\ OnRoute(l, x) /\ OnPath(l, x)
    BY <1>1, LinksInUse, NothingMarked DEF Fits
  <2>2. PICK c \in Index : UpToCore(l, x, c)
    BY <2>1, LegAtNode
  <2>3. x.hops = 2 /\ DistanceOf(x) = 5
    BY <2>2 DEF UpToCore
  <2>4. x.path \in Paths
    BY <2>1, <2>3 DEF OnRoute
  <2>5. c = CorePort(x.path)
    BY <2>1, <2>2 DEF OnPath
  <2>6. CorePort(x.path) = x.path % uplinkPorts
    <3>1. device \in Devices
      BY <1>1 DEF Inv, TypeInv
    <3>2. CASE ~HashesPaths
      BY <3>2 DEF CorePort
    <3>3. CASE HashesPaths
      <4>1. uplinkPorts <= 256
        BY <3>1, <3>3 DEF HashesPaths, PathHashingKinds
      <4> QED BY <2>4, <3>3, <4>1, PathPorts DEF CorePort
    <3> QED BY <3>2, <3>3
  <2> QED BY <2>2, <2>5, <2>6 DEF UpToCore
<1> QED BY <1>1, Invariant, PTL

(* ReorderedOnlyByReroute: packets of one flow and one path arrive in the   *)
(* order they were sent, and ECMP switches without flowlets give a flow one *)
(* path.                                                                    *)
THEOREM ReorderedOnlyByRerouteCorrect ==
  ASSUME NoMarking
  PROVE  Spec => []ReorderedOnlyByReroute
<1>1. ASSUME Inv PROVE ReorderedOnlyByReroute
  <2> SUFFICES ASSUME NEW f \in Flows, NEW i \in DOMAIN arrived[f], NEW j \in DOMAIN arrived[f],
                      i < j, arrived[f][i].id > arrived[f][j].id
               PROVE  device # "Ecmp" /\ arrived[f][i].path # arrived[f][j].path
    BY DEF ReorderedOnlyByReroute
  <2> DEFINE x == arrived[f][i]
             y == arrived[f][j]
  <2>1. /\ x \in PacketsIn(arrived[f]) /\ y \in PacketsIn(arrived[f])
        /\ Before(arrived[f], x, y)
    BY DEF PacketsIn, Before
  <2>2. x.id > y.id
    OBVIOUS
  <2> HIDE DEF x, y
  <2>3. /\ x \in Packet /\ y \in Packet /\ x.flow = f /\ y.flow = f
        /\ x.hops = DistanceOf(x) /\ y.hops = DistanceOf(y)
    BY <1>1, <2>1, AtEnd DEF Inv, RouteInv
  <2>4. x.path # y.path
    <3>1. SUFFICES ASSUME x.path = y.path PROVE FALSE
      OBVIOUS
    <3>2. x.id < y.id
      BY <1>1, <2>1, <2>3, <3>1, NothingMarked DEF Inv, OrderOK, OrderInv, OrderArrived
    <3> QED BY <2>2, <2>3, <3>2 DEF Packet
  <2>5. ASSUME device = "Ecmp" PROVE x.path = y.path
    <3>1. EcmpFollows(x) /\ EcmpFollows(y)
      BY <1>1, <2>1, <2>5 DEF Inv, PathInv
    <3>2. DistanceOf(x) = DistanceOf(y) /\ DistanceOf(x) \in {1, 3, 5}
      BY <2>3, Distances DEF DistanceOf
    <3> QED BY <2>3, <3>1, <3>2 DEF EcmpFollows
  <2> QED BY <2>4, <2>5 DEF x, y
<1> QED BY <1>1, Invariant, PTL
=============================================================================

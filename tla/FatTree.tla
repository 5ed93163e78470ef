------------------------------ MODULE FatTree ------------------------------
(***************************************************************************)
(* The fat-tree that fat-tree.cc wires: K pods of K/2 edge and K/2         *)
(* aggregation switches, K/2 hosts under an edge switch, and K/2 groups of *)
(* K/2 core switches.  A network device is named by the node it leads to,  *)
(* so a routing table (the map addressToInterface of a switch) is a        *)
(* function from masked addresses to neighbours, and uplinkDevices a       *)
(* sequence of neighbours (numbered from 1 here, from 0 in the code).      *)
(***************************************************************************)
EXTENDS Integers, Sequences

CONSTANT K    (* ports of a switch                                         *)

ASSUME KAssumption == K \in Nat \ {0} /\ K % 2 = 0

Half == K \div 2
Pod == 0 .. K - 1
Index == 0 .. Half - 1

Host(p, e, h) == <<"host", p, e, h>>
Edge(p, e) == <<"edge", p, e>>
Agg(p, a) == <<"agg", p, a>>
Core(g, c) == <<"core", g, c>>

Hosts == {Host(p, e, h) : p \in Pod, e \in Index, h \in Index}
Edges == {Edge(p, e) : p \in Pod, e \in Index}
Aggs == {Agg(p, a) : p \in Pod, a \in Index}
Cores == {Core(g, c) : g \in Index, c \in Index}
Switches == Edges \cup Aggs \cup Cores

(* The address of a host, 10.pod.edge.(h+2). *)
Address(host) == <<10, host[2], host[3], host[4] + 2>>

(* Wiring of the three levels; every link is used in both directions. *)
HostLinks == {<<Edge(p, e), Host(p, e, h)>> : p \in Pod, e \in Index, h \in Index}
EdgeLinks == {<<Agg(p, a), Edge(p, e)>> : p \in Pod, a \in Index, e \in Index}
CoreLinks == {<<Core(g, c), Agg(p, g)>> : g \in Index, c \in Index, p \in Pod}
DownLinks == HostLinks \cup EdgeLinks \cup CoreLinks
Links == DownLinks \cup {<<l[2], l[1]>> : l \in DownLinks}

(* The up-facing devices of a switch, in the order the loops add them. *)
Uplinks(n) ==
  CASE n[1] = "edge" -> [i \in 1 .. Half |-> Agg(n[2], i - 1)]
    [] n[1] = "agg"  -> [i \in 1 .. Half |-> Core(n[3], i - 1)]
    [] n[1] = "core" -> <<>>

(* routesEdges, routesAggs, routesCores: hosts, edge switches and pods. *)
Routes(n) ==
  CASE n[1] = "edge" -> [a \in {<<10, n[2], n[3], h + 2>> : h \in Index}
                           |-> Host(n[2], n[3], a[4] - 2)]
    [] n[1] = "agg"  -> [a \in {<<10, n[2], e, 0>> : e \in Index}
                           |-> Edge(n[2], a[3])]
    [] n[1] = "core" -> [a \in {<<10, p, 0, 0>> : p \in Pod}
                           |-> Agg(a[2], n[2])]

(* BUG: the masks of the aggregation and the core switches are swapped. *)
MaskOctetsSwapped(n) == CASE n[1] = "edge" -> 4 [] n[1] = "agg" -> 2 [] n[1] = "core" -> 3

(* edgeMask /32, aggMask /24, coreMask /16: the octets a switch looks at. *)
MaskOctets(n) == CASE n[1] = "edge" -> 4 [] n[1] = "agg" -> 3 [] n[1] = "core" -> 2

CombineMask(a, octets) == [i \in 1 .. 4 |-> IF i <= octets THEN a[i] ELSE 0]

inTable(n, a) == CombineMask(a, MaskOctets(n)) \in DOMAIN Routes(n)
getIntf(n, a) == Routes(n)[CombineMask(a, MaskOctets(n))]
=============================================================================

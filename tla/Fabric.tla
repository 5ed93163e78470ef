------------------------------- MODULE Fabric -------------------------------
(***************************************************************************)
(* The fat-tree with its switches and the CSMA devices between them, each  *)
(* a drop-tail queue that may set the ECN bits of the ToS byte.  All the   *)
(* switches are of one kind:                                               *)
(*   - path-hashing ones: edge switches count and choose paths             *)
(*     (PathWindow), aggregation switches read their uplink from the ToS   *)
(*     byte;                                                               *)
(*   - ECMP ones: edge and aggregation switches hash to an uplink, each    *)
(*     with a seed of its own, or take any uplink for a new flowlet        *)
(*     (module Flowlet says when a flowlet is new; here it always may be). *)
(* Core switches only go down.                                             *)
(*                                                                         *)
(* A link is the device at its sending end (LinkQueue) and the line it     *)
(* transmits on.                                                           *)
(***************************************************************************)
EXTENDS FatTree, PathWindow, LinkQueue, FiniteSets

CONSTANTS
  Src, Dst,      (* Src[f], Dst[f]: the hosts flow f connects               *)
  DataFlows,     (* flows of packets of more than 500 bytes                 *)
  Devices,       (* the kinds of switches installed, see device             *)
  SwitchHash,    (* SwitchHash[n][f]: getHash at ECMP switch n, with its    *)
                 (* seed, of the packets of flow f                          *)
  MaxSend        (* bound: MaxSend[f] is the number of packets f sends      *)

ASSUME FabricAssumption ==
  /\ uplinkPorts = Half /\ totalPaths = Half * Half
  /\ Src \in [Flows -> Hosts] /\ Dst \in [Flows -> Hosts]
  /\ \A f \in Flows : Src[f] # Dst[f]
  /\ DataFlows \subseteq Flows
  /\ Devices \subseteq {"PathHashing", "PathHashingAdv", "Ecmp", "EcmpFlowlet"}
  /\ SwitchHash \in [Edges \cup Aggs -> [Flows -> Nat]]
  /\ MaxSend \in [Flows -> Nat]

VARIABLES
  device,   (* the kind: PathHashingNetDevice, PathHashingAdvNetDevice, or  *)
            (* EcmpNetDevice with FlowletGap 0 or positive                  *)
  link,     (* link[l]: the packets at the sending device of link l         *)
  win,      (* window state of the edge switches flows enter by             *)
  sent,     (* number of packets each flow has sent                         *)
  dropped,  (* history: packets a full queue refused                        *)
  arrived,  (* history: packets each flow's receiver got, in order          *)
  halted    (* the program has stopped: a failed assertion or a device      *)
            (* index beyond uplinkDevices                                   *)

vars == <<device, link, win, sent, dropped, arrived, halted>>

EdgeOf(host) == Edge(host[2], host[3])
SourceEdges == {EdgeOf(Src[f]) : f \in Flows}

NoPath == -1

HashesPaths == device \in {"PathHashing", "PathHashingAdv"}

(* path and hops are history: the path the switches chose and the number   *)
(* of switches that handled the packet.                                    *)
Packet == [flow : Flows, id : Nat, large : BOOLEAN, tos : 0 .. 255,
           path : Paths \cup {NoPath}, hops : Nat]

PacketsIn(q) == {q[i] : i \in DOMAIN q}
InUse == {l \in Links : link[l] # IdleLink}
PacketsOn(l) == PacketsIn(link[l].line) \cup PacketsIn(link[l].queue)

TypeOK ==
  /\ device \in Devices
  /\ DOMAIN link = Links
  /\ \A l \in InUse :
       /\ PacketsOn(l) \subseteq Packet
       /\ Len(link[l].queue) <= MaxPackets /\ Len(link[l].line) <= LineLength
  /\ win \in [SourceEdges -> Window]
  /\ sent \in [Flows -> Nat]
  /\ dropped \subseteq Packet
  /\ \A f \in Flows : PacketsIn(arrived[f]) \subseteq Packet
  /\ halted \in BOOLEAN

Init ==
  /\ device \in Devices
  /\ link = [l \in Links |-> IdleLink]
  /\ win \in [SourceEdges -> InstalledWindows]
  /\ sent = [f \in Flows |-> 0]
  /\ dropped = {}
  /\ arrived = [f \in Flows |-> <<>>]
  /\ halted = FALSE

-----------------------------------------------------------------------------

(* pkt comes off the line of link l and is sent on link m. *)
Forward(l, m, pkt) ==
  LET hop == [pkt EXCEPT !.hops = @ + 1] IN
  IF Full(link[m])
  THEN /\ link' = [link EXCEPT ![l] = Received(@)]
       /\ dropped' = dropped \cup {hop}
  ELSE /\ \E q \in SendFrom(link[m], hop) :
            link' = [link EXCEPT ![l] = Received(@), ![m] = q]
       /\ UNCHANGED dropped

-----------------------------------------------------------------------------

(* A host sends the next packet of flow f to its edge switch.  The sender's *)
(* stack sets the ECN-capable code point ECT(0).                            *)
HostSend(f) ==
  LET l == <<Src[f], EdgeOf(Src[f])>>
      pkt == [flow |-> f, id |-> sent[f] + 1, large |-> f \in DataFlows,
              tos |-> 2, path |-> NoPath, hops |-> 0]
  IN
  /\ ~halted /\ sent[f] < MaxSend[f]
  /\ sent' = [sent EXCEPT ![f] = @ + 1]
  /\ IF Full(link[l])
     THEN dropped' = dropped \cup {pkt} /\ UNCHANGED link
     ELSE /\ \E q \in SendFrom(link[l], pkt) : link' = [link EXCEPT ![l] = q]
          /\ UNCHANGED dropped
  /\ UNCHANGED <<device, win, arrived, halted>>

Transmit(l) ==
  /\ ~halted /\ CanTransmit(link[l])
  /\ link' = [link EXCEPT ![l] = TransmitReady(@)]
  /\ UNCHANGED <<device, win, sent, dropped, arrived, halted>>

(* Line l has a packet for the node at its end. *)
Receives(l) == ~halted /\ link[l].line # <<>>
DestOf(pkt) == Address(Dst[pkt.flow])

HostReceive(l) ==
  /\ l[2] \in Hosts /\ Receives(l)
  /\ LET pkt == Head(link[l].line) IN
       arrived' = [arrived EXCEPT ![pkt.flow] = Append(@, pkt)]
  /\ link' = [link EXCEPT ![l] = Received(@)]
  /\ UNCHANGED <<device, win, sent, dropped, halted>>

(* EdgeReceiveFromDevice of a path-hashing switch: down when the host is in the table, else count,  *)
(* choose a path, write the second port of it in the ToS byte and send.    *)
EdgeReceive(l) ==
  /\ HashesPaths /\ l[2] \in Edges /\ Receives(l)
  /\ LET e == l[2]
         pkt == Head(link[l].line)
     IN  IF inTable(e, DestOf(pkt))
         THEN /\ Forward(l, <<e, getIntf(e, DestOf(pkt))>>, pkt)
              /\ UNCHANGED win
         ELSE LET p == ChoosePath(win[e], pkt.flow)
              IN  /\ Forward(l, <<e, Uplinks(e)[EdgePort(p) + 1]>>,
                             [pkt EXCEPT !.tos = AggPort(p), !.path = p])
                  /\ win' = [win EXCEPT ![e] = Count(device = "PathHashingAdv", @, pkt.flow)]
  /\ UNCHANGED <<device, sent, arrived, halted>>

(* BUG: aggregation switches spread packets over their uplinks themselves. *)
AggReceiveAny(l) ==
  /\ HashesPaths /\ l[2] \in Aggs /\ Receives(l)
  /\ LET a == l[2]
         pkt == Head(link[l].line)
     IN  IF inTable(a, DestOf(pkt))
         THEN Forward(l, <<a, getIntf(a, DestOf(pkt))>>, pkt)
         ELSE \E i \in DOMAIN Uplinks(a) : Forward(l, <<a, Uplinks(a)[i]>>, pkt)
  /\ UNCHANGED <<device, win, sent, arrived, halted>>

(* AggReceiveFromDevice of one: down when the edge switch is in the table, else *)
(* the ToS byte is the index of the uplink.  NetDeviceContainer::Get does  *)
(* not check it: beyond the last device the program does not go on.        *)
AggReceive(l) ==
  /\ HashesPaths /\ l[2] \in Aggs /\ Receives(l)
  /\ LET a == l[2]
         pkt == Head(link[l].line)
     IN  IF inTable(a, DestOf(pkt))
         THEN Forward(l, <<a, getIntf(a, DestOf(pkt))>>, pkt) /\ UNCHANGED halted
         ELSE IF pkt.tos < Len(Uplinks(a))
         THEN Forward(l, <<a, Uplinks(a)[pkt.tos + 1]>>, pkt) /\ UNCHANGED halted
         ELSE halted' = TRUE /\ UNCHANGED <<link, dropped>>
  /\ UNCHANGED <<device, win, sent, arrived>>

(* hashToUplink: the low 16 bits of the hash, or the port of a flowlet.    *)
UplinksFor(n, f) ==
  IF device = "Ecmp" THEN {(SwitchHash[n][f] % 65536) % Len(Uplinks(n))}
  ELSE 0 .. Len(Uplinks(n)) - 1

(* The history of an ECMP packet's path: first the edge's uplink is chosen, *)
(* then the aggregation switch's.                                           *)
PathVia(n, pkt, u) == IF n \in Edges THEN u * uplinkPorts ELSE pkt.path + u

(* EdgeReceiveFromDevice and AggReceiveFromDevice of an ECMP switch.       *)
EcmpReceive(l) ==
  /\ ~HashesPaths /\ l[2] \in Edges \cup Aggs /\ Receives(l)
  /\ LET n == l[2]
         pkt == Head(link[l].line)
     IN  IF inTable(n, DestOf(pkt))
         THEN Forward(l, <<n, getIntf(n, DestOf(pkt))>>, pkt)
         ELSE \E u \in UplinksFor(n, pkt.flow) :
                Forward(l, <<n, Uplinks(n)[u + 1]>>, [pkt EXCEPT !.path = PathVia(n, pkt, u)])
  /\ UNCHANGED <<device, win, sent, arrived, halted>>

(* CoreReceiveFromDevice: only down, NS_ASSERT that it can.                *)
CoreReceive(l) ==
  /\ l[2] \in Cores /\ Receives(l)
  /\ LET c == l[2]
         pkt == Head(link[l].line)
     IN  IF inTable(c, DestOf(pkt))
         THEN Forward(l, <<c, getIntf(c, DestOf(pkt))>>, pkt) /\ UNCHANGED halted
         ELSE halted' = TRUE /\ UNCHANGED <<link, dropped>>
  /\ UNCHANGED <<device, win, sent, arrived>>

(* The timer of one path-hashing edge switch. *)
ResetTimer(e) ==
  /\ ~halted /\ HashesPaths
  /\ win' = [win EXCEPT ![e] = ResetWindow(@)]
  /\ UNCHANGED <<device, link, sent, dropped, arrived, halted>>

Receive(l) == HostReceive(l) \/ EdgeReceive(l) \/ AggReceive(l) \/ EcmpReceive(l)
              \/ CoreReceive(l)

Next ==
  \/ \E f \in Flows : HostSend(f)
  \/ \E l \in Links : Transmit(l)
  \/ \E l \in Links : HostReceive(l)
  \/ \E l \in Links : EdgeReceive(l)
  \/ \E l \in Links : AggReceive(l)
  \/ \E l \in Links : EcmpReceive(l)
  \/ \E l \in Links : CoreReceive(l)
  \/ \E e \in SourceEdges : ResetTimer(e)

(* The simulator runs every scheduled event: TransmitReadyEvent follows a  *)
(* transmission and reception follows it too, so the links do not all      *)
(* stand still.  Nothing makes an application send.                        *)
Move == \E l \in Links : Transmit(l) \/ Receive(l)
Spec == Init /\ [][Next]_vars /\ WF_vars(Move)

-----------------------------------------------------------------------------
(* Properties *)

(* No packet reaches a switch that has nowhere to send it: the assertion in *)
(* CoreReceiveFromDevice holds and every index into uplinkDevices exists.   *)
NeverHalts == ~halted

(* "uplink port was set by edge switch in the ToS field"                    *)
(* (path-hashing-net-device.cc:334-336): what an aggregation switch reads   *)
(* as its uplink is the port the edge switch chose, and counted.            *)
TosCarriesPort ==
  \A l \in InUse : HashesPaths /\ l[1] \in Edges /\ l[2] \in Aggs =>
    \A pkt \in PacketsOn(l) : pkt.tos = AggPort(pkt.path)

(* The core switch a packet crosses is the one its path stands for, so that *)
(* the edge switch's counters describe what the fabric carries.             *)
PathIsFollowed ==
  \A l \in InUse : l[1] \in Aggs /\ l[2] \in Cores =>
    \A pkt \in PacketsOn(l) :
      l = <<Agg(Src[pkt.flow][2], EdgePort(pkt.path)),
            Core(EdgePort(pkt.path), pkt.path % uplinkPorts)>>

(* Every packet that arrives does so at its destination's edge, over a      *)
(* shortest route: one switch under one edge, three in a pod, five between  *)
(* pods.  So no packet goes up again after it has come down.                *)
Distance(s, d) == IF s[2] # d[2] THEN 5 ELSE IF s[3] # d[3] THEN 3 ELSE 1
ShortestRoute ==
  /\ \A f \in Flows : \A pkt \in PacketsIn(arrived[f]) :
       pkt.hops = Distance(Src[f], Dst[f])
  /\ \A l \in InUse : \A pkt \in PacketsOn(l) :
       /\ pkt.hops <= Distance(Src[pkt.flow], Dst[pkt.flow])
       /\ l[2] \in Hosts => l[2] = Dst[pkt.flow]

(* A flow's packets are reordered only if the switches changed its path     *)
(* between them; with ECMP and no flowlets, never.                          *)
ReorderedOnlyByReroute ==
  \A f \in Flows : \A i, j \in DOMAIN arrived[f] :
    i < j /\ arrived[f][i].id > arrived[f][j].id
      => device # "Ecmp" /\ arrived[f][i].path # arrived[f][j].path

(* Every packet a host sends reaches its destination or a full queue.       *)
Done(f, n) == \E pkt \in dropped \cup PacketsIn(arrived[f]) : pkt.flow = f /\ pkt.id = n
EventuallyArrives ==
  \A f \in Flows : \A n \in 1 .. MaxSend[f] : (sent[f] >= n) ~> Done(f, n)
=============================================================================

---------------------------- MODULE FlowletPath ----------------------------
(***************************************************************************)
(* The way of packets up a fat-tree of EcmpNetDevices: the edge switch of  *)
(* module Flowlet and, beyond each of its uplinks, an aggregation switch   *)
(* with uplinks and a flowlet table of its own.  A packet changes switch   *)
(* at the moment its delay on the link between them is over.               *)
(*                                                                         *)
(* getHash also hashes the seed of the switch, so flows that share an      *)
(* entry of one table need not share one of the next.                      *)
(***************************************************************************)
EXTENDS Flowlet, Sequences

CONSTANTS
  AggHash,      (* AggHash[a][f]: getHash of f's packets at switch a        *)
  MaxSent       (* bound: packets sent                                      *)

ASSUME PathAssumption ==
  /\ AggHash \in [Ports -> [Flows -> Nat]]
  /\ MaxSent \in Nat

VARIABLES
  packets,      (* the packets sent, in order: their flow, when they were   *)
                (* sent and to which switch, when they are due there, and   *)
                (* by which uplink they leave it and when they are across   *)
  agg_table,    (* flowlet_table of each aggregation switch                 *)
  agg_line      (* when the last packet on each of its uplinks gets across  *)

pathVars == <<packets, agg_table, agg_line>>
allVars == <<vars, pathVars>>

Packet == [flow : Flows, sent : Nat, agg : Ports, due : Nat,
           port : Ports \cup {NoPort}, across : Nat]

PathTypeOK ==
  /\ TypeOK
  /\ packets \in Seq(Packet) /\ Len(packets) <= MaxSent
  /\ DOMAIN agg_table = Ports
  /\ \A a \in Ports :
       /\ DOMAIN agg_table[a] \subseteq Slots
       /\ \A s \in DOMAIN agg_table[a] : agg_table[a][s] \in flowlet_t
  /\ agg_line \in [Ports -> [Ports -> Nat]]

PathInit ==
  /\ Init
  /\ packets = <<>>
  /\ agg_table = [a \in Ports |-> [s \in {} |-> [time |-> 0, outPort |-> 0]]]
  /\ agg_line = [a \in Ports |-> [p \in Ports |-> 0]]

-----------------------------------------------------------------------------
(* The edge switch *)

(* A packet of f goes to the aggregation switch beyond its uplink. *)
EdgeReceive(f) ==
  /\ Len(packets) < MaxSent
  /\ StaticPort(f) \/ NewFlowlet(f) \/ SameFlowlet(f)
  /\ packets' = Append(packets,
       [flow |-> f, sent |-> now, agg |-> outPort'[f], due |-> arrival'[f],
        port |-> NoPort, across |-> 0])
  /\ UNCHANGED <<agg_table, agg_line>>

-----------------------------------------------------------------------------
(* The aggregation switches *)

aggTuple(a, f) == AggHash[a][f] % Uint16

(* Packet n is still on its way to its aggregation switch. *)
OnTheWay(n) == packets[n].port = NoPort

(* It is there now, behind the packets sent to that switch before it. *)
Arrives(n) ==
  /\ OnTheWay(n) /\ packets[n].due <= now
  /\ \A m \in 1 .. n - 1 : packets[m].agg = packets[n].agg => ~OnTheWay(m)

(* It leaves by uplink p and is across after some delay. *)
AggSendOn(n, p) ==
  LET a == packets[n].agg IN
  /\ \E delay \in MinDelay .. MaxDelay :
       /\ now + delay >= agg_line[a][p]
       /\ agg_line' = [agg_line EXCEPT ![a][p] = now + delay]
       /\ packets' = [packets EXCEPT ![n] =
            [flow |-> @.flow, sent |-> @.sent, agg |-> a, due |-> @.due,
             port |-> p, across |-> now + delay]]
  /\ UNCHANGED vars

AggHasEntry(a, s) == s \in DOMAIN agg_table[a]
AggExpired(a, s) == now - agg_table[a][s].time > m_flowletGap

AggSetEntry(a, s, p) ==
  agg_table' = [agg_table EXCEPT ![a] =
    [x \in DOMAIN @ \cup {s} |-> IF x = s THEN [time |-> now, outPort |-> p] ELSE @[x]]]

(* The branches of hashToUplink at the aggregation switch a. *)
AggStaticPort(n, a, s) ==
  /\ m_flowletGap = 0
  /\ AggSendOn(n, s % totalPaths)
  /\ UNCHANGED agg_table

AggNewFlowlet(n, a, s) ==
  /\ m_flowletGap > 0
  /\ AggHasEntry(a, s) => AggExpired(a, s)
  /\ \E p \in Ports : AggSetEntry(a, s, p) /\ AggSendOn(n, p)

(* BUG: the entry keeps the time of the first packet of the flowlet. *)
AggSameFlowletNoTime(n, a, s) ==
  /\ m_flowletGap > 0
  /\ AggHasEntry(a, s) /\ ~AggExpired(a, s)
  /\ AggSendOn(n, agg_table[a][s].outPort % totalPaths)
  /\ UNCHANGED agg_table

AggSameFlowlet(n, a, s) ==
  /\ m_flowletGap > 0
  /\ AggHasEntry(a, s) /\ ~AggExpired(a, s)
  /\ AggSetEntry(a, s, agg_table[a][s].outPort)
  /\ AggSendOn(n, agg_table[a][s].outPort % totalPaths)

(* Packet n gets to its aggregation switch and goes on. *)
AggReceive(n) ==
  /\ Arrives(n)
  /\ LET a == packets[n].agg
         s == aggTuple(a, packets[n].flow)
     IN AggStaticPort(n, a, s) \/ AggNewFlowlet(n, a, s) \/ AggSameFlowlet(n, a, s)

(* Time passes when no packet is due. *)
PathTick ==
  /\ \A n \in DOMAIN packets : OnTheWay(n) => packets[n].due > now
  /\ Tick
  /\ UNCHANGED pathVars

PathNext ==
  \/ \E f \in Flows : EdgeReceive(f)
  \/ \E n \in DOMAIN packets : AggReceive(n)
  \/ PathTick

PathSpec == PathInit /\ [][PathNext]_allVars

-----------------------------------------------------------------------------
(* Properties *)

(* Over both switches a flow keeps its order when the gap covers twice the  *)
(* difference of the delays of a link: hashToUplink of the aggregation      *)
(* switch sees gaps that the first links have stretched or shortened, and   *)
(* packets of one flow may go by different aggregation switches.  A gap     *)
(* that covers the difference once is enough for either hop alone, not for  *)
(* both.                                                                    *)
NoReorderingOnPath ==
  2 * (MaxDelay - MinDelay) <= m_flowletGap =>
    \A m, n \in DOMAIN packets :
      m < n /\ packets[m].flow = packets[n].flow /\ ~OnTheWay(n) =>
        IF OnTheWay(m)
        THEN packets[m].agg # packets[n].agg
        ELSE packets[m].across <= packets[n].across
=============================================================================

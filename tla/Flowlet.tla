------------------------------ MODULE Flowlet ------------------------------
(***************************************************************************)
(* One switch of the EcmpNetDevice: hashToUplink and its flowlet table,    *)
(* driven by packets whose destination is not in the switch's table.       *)
(*                                                                         *)
(* The table is keyed by the low 16 bits of the hash of a flow, so flows   *)
(* may share an entry; entries are never removed.                          *)
(*                                                                         *)
(* The network beyond an uplink is external: it is first-in first-out and  *)
(* delays a packet by MinDelay .. MaxDelay.                                *)
(***************************************************************************)
EXTENDS Integers, Functions, TLC

CONSTANTS
  Flows,              (* the connections that send through the switch       *)
  Hash,               (* Hash[f]: getHash of the packets of flow f          *)
  totalPaths,         (* number of uplinks of the switch                    *)
  Uint16,             (* number of values of a uint16_t, 2^16               *)
  FlowletGaps,        (* values of the FlowletGap attribute                 *)
  EcmpModes,          (* values of the EcmpMode attribute                   *)
  MinDelay, MaxDelay, (* bounds of the delay beyond an uplink               *)
  MaxTime             (* bound: the clock stops there                       *)

ASSUME FlowletAssumption ==
  /\ Hash \in [Flows -> Nat]
  /\ Uint16 \in Nat \ {0}
  /\ totalPaths \in 1 .. Uint16
  /\ FlowletGaps \subseteq Nat
  /\ MinDelay \in Nat /\ MaxDelay \in Nat /\ MinDelay <= MaxDelay
  /\ MaxTime \in Nat

Ports == 0 .. totalPaths - 1
Never == -1
NoPort == -1

(* BUG: the key keeps all the bits of the hash. *)
hashedTupleWide(f) == Hash[f]

(* hashedTuple is a uint16_t. *)
hashedTuple(f) == Hash[f] % Uint16
Slots == 0 .. Uint16 - 1

VARIABLES
  m_flowletGap,   (* the attributes, set when the device is installed       *)
  m_ecmpMode,
  flowlet_table,  (* hashedTuple -> time and port of the last packet        *)
  now,            (* Simulator::Now                                         *)
  lineArrival,    (* when the last packet sent on each uplink gets across   *)
  sentAt,         (* history: when each flow sent its last packet, Never    *)
  outPort,        (* history: the uplink it left by                         *)
  arrival,        (* history: when it gets across                           *)
  ports           (* history: the uplinks each flow has left by             *)

attributes == <<m_flowletGap, m_ecmpMode>>
vars == <<m_flowletGap, m_ecmpMode, flowlet_table, now, lineArrival, sentAt,
          outPort, arrival, ports>>

flowlet_t == [time : Nat, outPort : Ports]

TypeOK ==
  /\ m_flowletGap \in FlowletGaps
  /\ m_ecmpMode \in EcmpModes
  /\ DOMAIN flowlet_table \subseteq Slots
  /\ \A s \in DOMAIN flowlet_table : flowlet_table[s] \in flowlet_t
  /\ now \in Nat
  /\ lineArrival \in [Ports -> Nat]
  /\ sentAt \in [Flows -> Nat \cup {Never}]
  /\ outPort \in [Flows -> Ports \cup {NoPort}]
  /\ arrival \in [Flows -> Nat]
  /\ ports \in [Flows -> SUBSET Ports]

Init ==
  /\ m_flowletGap \in FlowletGaps
  /\ m_ecmpMode \in EcmpModes
  /\ flowlet_table = [s \in {} |-> [time |-> 0, outPort |-> 0]]
  /\ now = 0
  /\ lineArrival = [p \in Ports |-> 0]
  /\ sentAt = [f \in Flows |-> Never]
  /\ outPort = [f \in Flows |-> NoPort]
  /\ arrival = [f \in Flows |-> 0]
  /\ ports = [f \in Flows |-> {}]

-----------------------------------------------------------------------------

(* BUG: a gap that is exactly the threshold ends the flowlet. *)
ExpiredAtGap(s) == now - flowlet_table[s].time >= m_flowletGap

Expired(s) == now - flowlet_table[s].time > m_flowletGap

HasEntry(s) == s \in DOMAIN flowlet_table

(* A packet of f leaves by uplink p now and gets across after some delay,  *)
(* behind the packets sent on p before it.                                 *)
SendOn(p, f) ==
  /\ \E delay \in MinDelay .. MaxDelay :
       /\ now + delay >= lineArrival[p]
       /\ lineArrival' = [lineArrival EXCEPT ![p] = now + delay]
       /\ arrival' = [arrival EXCEPT ![f] = now + delay]
  /\ sentAt' = [sentAt EXCEPT ![f] = now]
  /\ outPort' = [outPort EXCEPT ![f] = p]
  /\ ports' = [ports EXCEPT ![f] = @ \cup {p}]
  /\ UNCHANGED <<attributes, now>>

SetEntry(s, p) ==
  flowlet_table' =
    [x \in DOMAIN flowlet_table \cup {s} |->
       IF x = s THEN [time |-> now, outPort |-> p] ELSE flowlet_table[x]]

(* hashToUplink with FlowletGap 0: plain ECMP, the table is not used. *)
StaticPort(f) ==
  /\ m_flowletGap = 0
  /\ SendOn(hashedTuple(f) % totalPaths, f)
  /\ UNCHANGED flowlet_table

(* hashToUplink on an unknown or expired entry: a random uplink. *)
NewFlowlet(f) ==
  LET s == hashedTuple(f) IN
  /\ m_flowletGap > 0
  /\ HasEntry(s) => Expired(s)
  /\ \E p \in Ports : SetEntry(s, p) /\ SendOn(p, f)

(* BUG: the entry keeps the time of the first packet of the flowlet. *)
SameFlowletNoTime(f) ==
  LET s == hashedTuple(f) IN
  /\ m_flowletGap > 0
  /\ HasEntry(s) /\ ~Expired(s)
  /\ SendOn(flowlet_table[s].outPort, f)
  /\ UNCHANGED flowlet_table

(* hashToUplink within the gap: the entry's uplink, and its time is now. *)
SameFlowlet(f) ==
  LET s == hashedTuple(f)
      p == flowlet_table[s].outPort % totalPaths
  IN
  /\ m_flowletGap > 0
  /\ HasEntry(s) /\ ~Expired(s)
  /\ SetEntry(s, flowlet_table[s].outPort)
  /\ SendOn(p, f)

Tick ==
  /\ now < MaxTime
  /\ now' = now + 1
  /\ UNCHANGED <<attributes, flowlet_table, lineArrival, sentAt, outPort,
                 arrival, ports>>

Next ==
  \/ \E f \in Flows : StaticPort(f)
  \/ \E f \in Flows : NewFlowlet(f)
  \/ \E f \in Flows : SameFlowlet(f)
  \/ Tick

Spec == Init /\ [][Next]_vars

-----------------------------------------------------------------------------
(* Properties *)

(* Packets of a flow that are at most FlowletGap apart leave by one uplink, *)
(* also when other flows use and renew the same entry of the table.         *)
FlowletKeepsPort ==
  [][\A f \in Flows :
       sentAt[f] # Never /\ sentAt'[f] - sentAt[f] <= m_flowletGap
         => outPort'[f] = outPort[f]]_vars

(* What flowlet switching is for: when the delays beyond the uplinks differ *)
(* by no more than the gap, a flow's packets never overtake each other,     *)
(* whichever uplinks they took.                                             *)
NoReordering ==
  [][MaxDelay - MinDelay <= m_flowletGap
       => \A f \in Flows : arrival'[f] >= arrival[f]]_vars

(* Flows that collide in the table travel together: as long as neither has  *)
(* paused for more than the gap they leave by the same uplink.              *)
CollidingFlowsShareAPort ==
  \A f, g \in Flows :
    /\ hashedTuple(f) = hashedTuple(g)
    /\ sentAt[f] # Never /\ now - sentAt[f] <= m_flowletGap
    /\ sentAt[g] # Never /\ now - sentAt[g] <= m_flowletGap
    => outPort[f] = outPort[g]

(* With FlowletGap 0 a flow has one uplink for ever. *)
GapZeroIsStatic ==
  m_flowletGap = 0 => \A f \in Flows : \A p, q \in ports[f] : p = q
=============================================================================

--------------------------- MODULE FlowletProofs ---------------------------
(***************************************************************************)
(* Theorems about the flowlet table of EcmpNetDevice, for any number of    *)
(* flows, uplinks and gaps, and any delays beyond the uplinks.             *)
(***************************************************************************)
EXTENDS FlowletPath, TLAPS

(* What the properties rest on, for every flow that has sent: the entry of  *)
(* its slot is at least as recent as its last packet, whoever renewed it,   *)
(* and while the flow is within the gap the entry holds its uplink.  Its    *)
(* last packet is across no later than MaxDelay after it was sent and no    *)
(* later than the line it took is free.                                     *)
EntryFollows(f) ==
  m_flowletGap > 0 /\ sentAt[f] # Never =>
    LET s == hashedTuple(f) IN
    /\ s \in DOMAIN flowlet_table
    /\ sentAt[f] <= flowlet_table[s].time
    /\ now - sentAt[f] <= m_flowletGap => outPort[f] = flowlet_table[s].outPort

StaticFollows(f) ==
  m_flowletGap = 0 =>
    /\ ports[f] \subseteq {hashedTuple(f) % totalPaths}
    /\ sentAt[f] # Never => outPort[f] = hashedTuple(f) % totalPaths

ArrivalBound(f) ==
  IF sentAt[f] = Never THEN arrival[f] = 0
  ELSE /\ outPort[f] \in Ports
       /\ sentAt[f] <= now
       /\ arrival[f] <= sentAt[f] + MaxDelay
       /\ arrival[f] <= lineArrival[outPort[f]]

FlowletInv == \A f \in Flows : EntryFollows(f) /\ StaticFollows(f) /\ ArrivalBound(f)

-----------------------------------------------------------------------------

(* A remainder is in range. *)
LEMMA Remainder ==
  ASSUME NEW n \in Nat, NEW d \in Nat, d > 0
  PROVE  (n % d) \in 0 .. d - 1
OBVIOUS

(* The uplink numbers and the keys of the table are in range. *)
LEMMA Ranges ==
  /\ \A f \in Flows : hashedTuple(f) \in Slots /\ hashedTuple(f) % totalPaths \in Ports
  /\ \A p \in Ports : p % totalPaths = p
<1>1. /\ totalPaths \in Nat /\ totalPaths > 0 /\ Hash \in [Flows -> Nat]
      /\ Uint16 \in Nat /\ Uint16 > 0
  BY FlowletAssumption
<1>2. ASSUME NEW f \in Flows
      PROVE  hashedTuple(f) \in Slots /\ hashedTuple(f) % totalPaths \in Ports
  <2>1. Hash[f] \in Nat
    BY <1>1
  <2>2. hashedTuple(f) \in Slots
    BY <1>1, <2>1, Remainder DEF hashedTuple, Slots
  <2>3. hashedTuple(f) \in Nat
    BY <1>1, <2>2 DEF Slots
  <2>4. (hashedTuple(f) % totalPaths) \in Ports
    BY <1>1, <2>3, Remainder DEF Ports
  <2> QED BY <2>2, <2>4
<1>3. ASSUME NEW p \in Ports PROVE p % totalPaths = p
  BY <1>1 DEF Ports
<1> QED BY <1>2, <1>3

(* Sending keeps the types of the variables SendOn changes. *)
LEMMA SendOnType ==
  ASSUME TypeOK, NEW f \in Flows, NEW p \in Ports, SendOn(p, f)
  PROVE  /\ lineArrival' \in [Ports -> Nat] /\ arrival' \in [Flows -> Nat]
         /\ sentAt' \in [Flows -> Nat \cup {Never}]
         /\ outPort' \in [Flows -> Ports \cup {NoPort}]
         /\ ports' \in [Flows -> SUBSET Ports]
         /\ m_flowletGap' = m_flowletGap /\ m_ecmpMode' = m_ecmpMode /\ now' = now
<1>1. PICK delay \in MinDelay .. MaxDelay :
        /\ lineArrival' = [lineArrival EXCEPT ![p] = now + delay]
        /\ arrival' = [arrival EXCEPT ![f] = now + delay]
  BY DEF SendOn
<1>2. now + delay \in Nat
  BY FlowletAssumption DEF TypeOK
<1>3. lineArrival' \in [Ports -> Nat] /\ arrival' \in [Flows -> Nat]
  BY <1>1, <1>2 DEF TypeOK
<1>4. sentAt' \in [Flows -> Nat \cup {Never}] /\ outPort' \in [Flows -> Ports \cup {NoPort}]
  BY DEF TypeOK, SendOn
<1>5. ports' \in [Flows -> SUBSET Ports]
  BY DEF TypeOK, SendOn
<1> QED BY <1>3, <1>4, <1>5 DEF SendOn, attributes

(* Setting an entry keeps the type of the table. *)
LEMMA SetEntryType ==
  ASSUME TypeOK, NEW s \in Slots, NEW p \in Ports, SetEntry(s, p)
  PROVE  /\ DOMAIN flowlet_table' \subseteq Slots
         /\ \A x \in DOMAIN flowlet_table' : flowlet_table'[x] \in flowlet_t
<1>1. [time |-> now, outPort |-> p] \in flowlet_t
  BY DEF flowlet_t, TypeOK
<1>2. DOMAIN flowlet_table' = DOMAIN flowlet_table \cup {s}
  BY DEF SetEntry
<1>3. \A x \in DOMAIN flowlet_table' : flowlet_table'[x] \in flowlet_t
  BY <1>1, <1>2 DEF SetEntry, TypeOK
<1> QED BY <1>2, <1>3 DEF TypeOK

(* Every state is well typed: in particular every port a packet leaves by   *)
(* is an uplink, though the table stores it for all the flows of a slot.    *)
THEOREM TypeCorrect == Spec => []TypeOK
<1>1. Init => TypeOK
  BY FlowletAssumption DEF Init, TypeOK, Ports, flowlet_t
<1>2. ASSUME TypeOK, [Next]_vars PROVE TypeOK'
  <2>1. ASSUME NEW f \in Flows, StaticPort(f) PROVE TypeOK'
    <3>1. hashedTuple(f) % totalPaths \in Ports
      BY Ranges
    <3>2. SendOn(hashedTuple(f) % totalPaths, f) /\ flowlet_table' = flowlet_table
      BY <2>1 DEF StaticPort
    <3> QED BY <1>2, <3>1, <3>2, SendOnType DEF TypeOK
  <2>2. ASSUME NEW f \in Flows, NewFlowlet(f) PROVE TypeOK'
    <3>1. PICK p \in Ports : SetEntry(hashedTuple(f), p) /\ SendOn(p, f)
      BY <2>2 DEF NewFlowlet
    <3> QED BY <1>2, <3>1, Ranges, SendOnType, SetEntryType DEF TypeOK
  <2>3. ASSUME NEW f \in Flows, SameFlowlet(f) PROVE TypeOK'
    <3> DEFINE p == flowlet_table[hashedTuple(f)].outPort
    <3>1. p \in Ports
      BY <1>2, <2>3 DEF SameFlowlet, HasEntry, TypeOK, flowlet_t
    <3>2. SetEntry(hashedTuple(f), p) /\ SendOn(p % totalPaths, f)
      BY <2>3 DEF SameFlowlet
    <3> HIDE DEF p
    <3>3. SendOn(p, f)
      BY <3>1, <3>2, Ranges
    <3> QED BY <1>2, <3>1, <3>2, <3>3, Ranges, SendOnType, SetEntryType DEF TypeOK
  <2>4. CASE Tick
    BY <1>2, <2>4 DEF TypeOK, Tick, attributes
  <2>5. CASE UNCHANGED vars
    BY <1>2, <2>5 DEF TypeOK, vars
  <2> QED BY <1>2, <2>1, <2>2, <2>3, <2>4, <2>5 DEF Next
<1> QED BY <1>1, <1>2, PTL DEF Spec

-----------------------------------------------------------------------------

(* What SendOn does to the history of the flow, of the others, and to the   *)
(* lines.                                                                   *)
LEMMA SendOnFields ==
  ASSUME TypeOK, NEW f \in Flows, NEW p \in Ports, SendOn(p, f)
  PROVE  /\ sentAt'[f] = now /\ outPort'[f] = p /\ ports'[f] = ports[f] \cup {p}
         /\ \A g \in Flows : g # f =>
              /\ sentAt'[g] = sentAt[g] /\ outPort'[g] = outPort[g]
              /\ arrival'[g] = arrival[g] /\ ports'[g] = ports[g]
         /\ arrival'[f] = lineArrival'[p] /\ arrival'[f] >= lineArrival[p]
         /\ arrival'[f] >= now + MinDelay /\ arrival'[f] <= now + MaxDelay
         /\ \A q \in Ports : lineArrival'[q] >= lineArrival[q]
<1>1. PICK delay \in MinDelay .. MaxDelay :
        /\ now + delay >= lineArrival[p]
        /\ lineArrival' = [lineArrival EXCEPT ![p] = now + delay]
        /\ arrival' = [arrival EXCEPT ![f] = now + delay]
  BY DEF SendOn
<1>2. /\ sentAt' = [sentAt EXCEPT ![f] = now] /\ outPort' = [outPort EXCEPT ![f] = p]
      /\ ports' = [ports EXCEPT ![f] = @ \cup {p}]
  BY DEF SendOn
<1>3. /\ sentAt'[f] = now /\ outPort'[f] = p /\ ports'[f] = ports[f] \cup {p}
      /\ \A g \in Flows : g # f =>
           /\ sentAt'[g] = sentAt[g] /\ outPort'[g] = outPort[g]
           /\ arrival'[g] = arrival[g] /\ ports'[g] = ports[g]
  BY <1>1, <1>2 DEF TypeOK
<1>4. arrival'[f] = now + delay /\ lineArrival'[p] = now + delay
  BY <1>1 DEF TypeOK
<1>5. \A q \in Ports : lineArrival'[q] >= lineArrival[q]
  BY <1>1 DEF TypeOK
<1>6. delay \in Nat /\ delay >= MinDelay /\ delay <= MaxDelay /\ now \in Nat
      /\ MinDelay \in Nat /\ MaxDelay \in Nat
  BY FlowletAssumption DEF TypeOK
<1> QED BY <1>1, <1>3, <1>4, <1>5, <1>6

(* Sending keeps ArrivalBound of every flow. *)
LEMMA ArrivalStep ==
  ASSUME TypeOK, NEW f \in Flows, NEW p \in Ports, SendOn(p, f),
         NEW g \in Flows, ArrivalBound(g)
  PROVE  ArrivalBound(g)'
<1>1. now' = now /\ now \in Nat
  BY SendOnType DEF TypeOK
<1>2. CASE g = f
  <2>1. sentAt'[f] # Never
    BY <1>1, SendOnFields DEF Never
  <2>2. arrival'[f] \in Nat
    BY SendOnType
  <2> QED BY <1>1, <1>2, <2>1, <2>2, SendOnFields DEF ArrivalBound
<1>3. CASE g # f
  <2>1. /\ sentAt'[g] = sentAt[g] /\ outPort'[g] = outPort[g] /\ arrival'[g] = arrival[g]
    BY <1>3, SendOnFields
  <2>2. CASE sentAt[g] = Never
    BY <2>1, <2>2 DEF ArrivalBound
  <2>3. CASE sentAt[g] # Never
    <3>1. /\ outPort[g] \in Ports /\ sentAt[g] <= now
          /\ arrival[g] <= sentAt[g] + MaxDelay /\ arrival[g] <= lineArrival[outPort[g]]
      BY <2>3 DEF ArrivalBound
    <3>2. /\ lineArrival'[outPort[g]] >= lineArrival[outPort[g]]
          /\ lineArrival'[outPort[g]] \in Nat /\ lineArrival[outPort[g]] \in Nat
          /\ arrival[g] \in Nat
      BY <3>1, SendOnFields, SendOnType DEF TypeOK
    <3>3. arrival[g] <= lineArrival'[outPort[g]]
      BY <3>1, <3>2
    <3> QED BY <1>1, <2>1, <2>3, <3>1, <3>3 DEF ArrivalBound
  <2> QED BY <2>2, <2>3
<1> QED BY <1>2, <1>3

(* Renewing an entry keeps EntryFollows of every flow: of the sender, and   *)
(* of the others of its slot because the entry keeps its uplink, or had     *)
(* expired and they had been silent even longer.                            *)
LEMMA EntryStep ==
  ASSUME TypeOK, NEW f \in Flows, NEW p \in Ports, SendOn(p, f),
         SetEntry(hashedTuple(f), p), m_flowletGap > 0,
         \/ ~HasEntry(hashedTuple(f))
         \/ Expired(hashedTuple(f))
         \/ flowlet_table[hashedTuple(f)].outPort = p,
         NEW g \in Flows, EntryFollows(g), ArrivalBound(g)
  PROVE  EntryFollows(g)'
<1> DEFINE s == hashedTuple(f)
           t == hashedTuple(g)
<1>1. /\ now' = now /\ now \in Nat /\ m_flowletGap' = m_flowletGap /\ m_flowletGap \in Nat
      /\ sentAt[g] \in Nat \cup {Never}
  BY SendOnType, FlowletAssumption DEF TypeOK
<1>2. DOMAIN flowlet_table' = DOMAIN flowlet_table \cup {s}
  BY DEF SetEntry
<1>3. flowlet_table'[s] = [time |-> now, outPort |-> p]
  BY DEF SetEntry
<1>4. \A x \in DOMAIN flowlet_table : x # s => flowlet_table'[x] = flowlet_table[x]
  BY DEF SetEntry
<1>5. \A x \in DOMAIN flowlet_table : flowlet_table[x].time \in Nat
  BY DEF TypeOK, flowlet_t
<1> HIDE DEF s, t
<1>6. CASE g = f
  <2>1. t = s /\ t \in DOMAIN flowlet_table'
    BY <1>2, <1>6 DEF s, t
  <2>2. sentAt'[g] = now /\ outPort'[g] = p
    BY <1>6, SendOnFields
  <2>3. flowlet_table'[t].time = now /\ flowlet_table'[t].outPort = p
    BY <1>3, <2>1
  <2> QED BY <1>1, <2>1, <2>2, <2>3 DEF EntryFollows, t
<1>7. CASE g # f
  <2>1. sentAt'[g] = sentAt[g] /\ outPort'[g] = outPort[g]
    BY <1>7, SendOnFields
  <2>2. SUFFICES ASSUME sentAt[g] # Never
                 PROVE  /\ t \in DOMAIN flowlet_table'
                        /\ sentAt[g] <= flowlet_table'[t].time
                        /\ now - sentAt[g] <= m_flowletGap
                             => outPort[g] = flowlet_table'[t].outPort
    BY <1>1, <2>1 DEF EntryFollows, t
  <2>3. /\ t \in DOMAIN flowlet_table
        /\ sentAt[g] <= flowlet_table[t].time
        /\ now - sentAt[g] <= m_flowletGap => outPort[g] = flowlet_table[t].outPort
    BY <2>2 DEF EntryFollows, t
  <2>4. t \in DOMAIN flowlet_table'
    BY <1>2, <2>3
  <2>5. CASE t # s
    BY <1>4, <2>3, <2>4, <2>5
  <2>6. CASE t = s
    <3>1. flowlet_table'[t].time = now /\ flowlet_table'[t].outPort = p
      BY <1>3, <2>6
    <3>2. sentAt[g] <= now
      BY <2>2 DEF ArrivalBound
    <3>3. ASSUME now - sentAt[g] <= m_flowletGap PROVE outPort[g] = p
      <4>1. flowlet_table[t].time \in Nat /\ sentAt[g] \in Nat
        BY <1>1, <1>5, <2>2, <2>3
      <4>2. now - flowlet_table[t].time <= m_flowletGap
        BY <1>1, <2>3, <3>3, <4>1
      <4>3. ~Expired(t)
        BY <1>1, <4>1, <4>2 DEF Expired
      <4>4. HasEntry(t)
        BY <2>3 DEF HasEntry
      <4>5. flowlet_table[t].outPort = p
        BY <2>6, <4>3, <4>4 DEF s
      <4> QED BY <2>3, <3>3, <4>5
    <3> QED BY <2>4, <3>1, <3>2, <3>3
  <2> QED BY <2>5, <2>6
<1> QED BY <1>6, <1>7

-----------------------------------------------------------------------------

(* Which uplink the three branches of hashToUplink take.                    *)
LEMMA Branches ==
  ASSUME TypeOK, NEW f \in Flows
  PROVE  /\ StaticPort(f) => /\ SendOn(hashedTuple(f) % totalPaths, f)
                             /\ hashedTuple(f) % totalPaths \in Ports
         /\ SameFlowlet(f) =>
              LET p == flowlet_table[hashedTuple(f)].outPort IN
              /\ p \in Ports /\ SendOn(p, f) /\ SetEntry(hashedTuple(f), p)
<1>1. StaticPort(f) => /\ SendOn(hashedTuple(f) % totalPaths, f)
                       /\ hashedTuple(f) % totalPaths \in Ports
  BY Ranges DEF StaticPort
<1>2. ASSUME SameFlowlet(f)
      PROVE  LET p == flowlet_table[hashedTuple(f)].outPort IN
             /\ p \in Ports /\ SendOn(p, f) /\ SetEntry(hashedTuple(f), p)
  <2> DEFINE p == flowlet_table[hashedTuple(f)].outPort
  <2>1. p \in Ports
    BY <1>2 DEF SameFlowlet, HasEntry, TypeOK, flowlet_t
  <2>2. SetEntry(hashedTuple(f), p) /\ SendOn(p % totalPaths, f)
    BY <1>2 DEF SameFlowlet
  <2> HIDE DEF p
  <2>3. SendOn(p, f)
    BY <2>1, <2>2, Ranges
  <2> QED BY <2>1, <2>2, <2>3 DEF p
<1> QED BY <1>1, <1>2

(* A packet that finds an entry, or makes one, keeps FlowletInv. *)
LEMMA EntryBranch ==
  ASSUME TypeOK, FlowletInv, NEW f \in Flows, NEW p \in Ports,
         SendOn(p, f), SetEntry(hashedTuple(f), p), m_flowletGap > 0,
         \/ ~HasEntry(hashedTuple(f))
         \/ Expired(hashedTuple(f))
         \/ flowlet_table[hashedTuple(f)].outPort = p
  PROVE  FlowletInv'
<1>1. m_flowletGap' = m_flowletGap /\ m_flowletGap' # 0
  <2>1. m_flowletGap \in Nat
    BY FlowletAssumption DEF TypeOK
  <2> QED BY <2>1, SendOnType
<1>2. SUFFICES ASSUME NEW g \in Flows
               PROVE  EntryFollows(g)' /\ StaticFollows(g)' /\ ArrivalBound(g)'
  BY DEF FlowletInv
<1>3. EntryFollows(g) /\ ArrivalBound(g)
  BY DEF FlowletInv
<1>4. EntryFollows(g)'
  BY <1>3, EntryStep
<1>5. ArrivalBound(g)'
  BY <1>3, ArrivalStep
<1>6. StaticFollows(g)'
  BY <1>1 DEF StaticFollows
<1> QED BY <1>4, <1>5, <1>6

(* The strengthening is inductive. *)
LEMMA FlowletInvStep ==
  ASSUME TypeOK, TypeOK', FlowletInv, [Next]_vars PROVE FlowletInv'
<1>1. ASSUME NEW f \in Flows, StaticPort(f) PROVE FlowletInv'
  <2> DEFINE p == hashedTuple(f) % totalPaths
  <2>1. p \in Ports /\ SendOn(p, f) /\ m_flowletGap = 0
    BY <1>1, Branches DEF StaticPort
  <2>2. m_flowletGap' = 0
    BY <2>1, SendOnType
  <2> HIDE DEF p
  <2>3. SUFFICES ASSUME NEW g \in Flows
                 PROVE  EntryFollows(g)' /\ StaticFollows(g)' /\ ArrivalBound(g)'
    BY DEF FlowletInv
  <2>4. EntryFollows(g)'
    BY <2>2 DEF EntryFollows
  <2>5. ArrivalBound(g)'
    BY <2>1, ArrivalStep DEF FlowletInv
  <2>6. StaticFollows(g)
    BY DEF FlowletInv
  <2>7. CASE g = f
    <3>1. outPort'[f] = p /\ ports'[f] = ports[f] \cup {p}
      BY <2>1, SendOnFields
    <3>2. ports[f] \subseteq {p}
      BY <2>1, <2>6, <2>7 DEF StaticFollows, p
    <3>3. ports'[f] \subseteq {p} /\ outPort'[f] = p
      BY <3>1, <3>2
    <3> QED BY <2>4, <2>5, <2>7, <3>3 DEF StaticFollows, p
  <2>8. CASE g # f
    <3>1. outPort'[g] = outPort[g] /\ ports'[g] = ports[g] /\ sentAt'[g] = sentAt[g]
      BY <2>1, <2>8, SendOnFields
    <3>2. /\ ports[g] \subseteq {hashedTuple(g) % totalPaths}
          /\ sentAt[g] # Never => outPort[g] = hashedTuple(g) % totalPaths
      BY <2>1, <2>6 DEF StaticFollows
    <3>3. /\ ports'[g] \subseteq {hashedTuple(g) % totalPaths}
          /\ sentAt'[g] # Never => outPort'[g] = hashedTuple(g) % totalPaths
      BY <3>1, <3>2, Zenon
    <3> QED BY <2>4, <2>5, <3>3 DEF StaticFollows
  <2> QED BY <2>4, <2>5, <2>7, <2>8
<1>2. ASSUME NEW f \in Flows, NewFlowlet(f) PROVE FlowletInv'
  <2>1. PICK p \in Ports : SetEntry(hashedTuple(f), p) /\ SendOn(p, f)
    BY <1>2 DEF NewFlowlet
  <2>2. m_flowletGap > 0 /\ (~HasEntry(hashedTuple(f)) \/ Expired(hashedTuple(f)))
    BY <1>2 DEF NewFlowlet
  <2> QED BY <2>1, <2>2, EntryBranch
<1>3. ASSUME NEW f \in Flows, SameFlowlet(f) PROVE FlowletInv'
  <2> DEFINE p == flowlet_table[hashedTuple(f)].outPort
  <2>1. p \in Ports /\ SendOn(p, f) /\ SetEntry(hashedTuple(f), p)
    BY <1>3, Branches
  <2>2. m_flowletGap > 0
    BY <1>3 DEF SameFlowlet
  <2>3. p = flowlet_table[hashedTuple(f)].outPort
    OBVIOUS
  <2> HIDE DEF p
  <2> QED BY <2>1, <2>2, <2>3, EntryBranch
<1>4. CASE Tick
  <2>1. SUFFICES ASSUME NEW g \in Flows
                 PROVE  EntryFollows(g)' /\ StaticFollows(g)' /\ ArrivalBound(g)'
    BY DEF FlowletInv
  <2>2. /\ now' = now + 1 /\ now \in Nat
        /\ flowlet_table' = flowlet_table /\ lineArrival' = lineArrival /\ sentAt' = sentAt
        /\ outPort' = outPort /\ arrival' = arrival /\ ports' = ports
        /\ m_flowletGap' = m_flowletGap
    BY <1>4 DEF Tick, attributes, TypeOK
  <2>3. EntryFollows(g) /\ StaticFollows(g) /\ ArrivalBound(g)
    BY DEF FlowletInv
  <2>4. sentAt[g] \in Nat \cup {Never} /\ m_flowletGap \in Nat
    BY FlowletAssumption DEF TypeOK
  <2>5. now' - sentAt[g] <= m_flowletGap => now - sentAt[g] <= m_flowletGap
    BY <2>2, <2>4 DEF Never
  <2>6. sentAt[g] <= now => sentAt[g] <= now'
    BY <2>2, <2>4 DEF Never
  <2>7. EntryFollows(g)'
    BY <2>2, <2>3, <2>5 DEF EntryFollows
  <2>8. StaticFollows(g)' /\ ArrivalBound(g)'
    BY <2>2, <2>3, <2>6 DEF StaticFollows, ArrivalBound
  <2> QED BY <2>7, <2>8
<1>5. CASE UNCHANGED vars
  BY <1>5 DEF vars, FlowletInv, EntryFollows, StaticFollows, ArrivalBound
<1> QED BY <1>1, <1>2, <1>3, <1>4, <1>5 DEF Next

(* The inductive invariant, which relates the table to what was sent. *)
THEOREM FlowletInvCorrect == Spec => []FlowletInv
<1>1. Init => FlowletInv
  BY DEF Init, FlowletInv, EntryFollows, StaticFollows, ArrivalBound
<1>2. TypeOK /\ TypeOK' /\ FlowletInv /\ [Next]_vars => FlowletInv'
  BY FlowletInvStep
<1> QED BY <1>1, <1>2, TypeCorrect, PTL DEF Spec

-----------------------------------------------------------------------------

(* A packet of f that is not more than the gap behind the one before leaves *)
(* by the same uplink.                                                      *)
LEMMA KeepsPortStep ==
  ASSUME TypeOK, FlowletInv, [Next]_vars, NEW f \in Flows, sentAt[f] # Never,
         sentAt'[f] - sentAt[f] <= m_flowletGap
  PROVE  outPort'[f] = outPort[f]
<1>1. EntryFollows(f) /\ StaticFollows(f)
  BY DEF FlowletInv
<1>2. ASSUME NEW g \in Flows, NEW p \in Ports, SendOn(p, g), g # f
      PROVE  outPort'[f] = outPort[f]
  BY <1>2, SendOnFields
<1>3. ASSUME NEW g \in Flows, StaticPort(g) PROVE outPort'[f] = outPort[f]
  <2>1. CASE g = f
    <3>1. SendOn(hashedTuple(f) % totalPaths, f) /\ hashedTuple(f) % totalPaths \in Ports
      BY <1>3, <2>1, Branches
    <3>2. outPort'[f] = hashedTuple(f) % totalPaths
      BY <3>1, SendOnFields
    <3> QED BY <1>1, <1>3, <3>2 DEF StaticFollows, StaticPort
  <2>2. CASE g # f
    BY <1>2, <1>3, <2>2, Branches
  <2> QED BY <2>1, <2>2
<1>4. ASSUME NEW g \in Flows, NewFlowlet(g) PROVE outPort'[f] = outPort[f]
  <2>1. PICK p \in Ports : SendOn(p, g)
    BY <1>4 DEF NewFlowlet
  <2>2. CASE g # f
    BY <1>2, <2>1, <2>2
  <2>3. CASE g = f
    <3> DEFINE s == hashedTuple(f)
    <3>1. m_flowletGap > 0 /\ (s \in DOMAIN flowlet_table => Expired(s))
      BY <1>4, <2>3 DEF NewFlowlet, HasEntry
    <3>2. s \in DOMAIN flowlet_table /\ sentAt[f] <= flowlet_table[s].time
      BY <1>1, <3>1 DEF EntryFollows
    <3>3. flowlet_table[s].time \in Nat
      BY <3>2 DEF TypeOK, flowlet_t
    <3>4. now - flowlet_table[s].time > m_flowletGap
      BY <3>1, <3>2 DEF Expired
    <3>5. sentAt'[f] = now
      BY <2>1, <2>3, SendOnFields
    <3>6. now \in Nat /\ m_flowletGap \in Nat /\ sentAt[f] \in Nat
      BY FlowletAssumption DEF TypeOK
    <3> HIDE DEF s
    <3> QED BY <3>2, <3>3, <3>4, <3>5, <3>6
  <2> QED BY <2>2, <2>3
<1>5. ASSUME NEW g \in Flows, SameFlowlet(g) PROVE outPort'[f] = outPort[f]
  <2> DEFINE p == flowlet_table[hashedTuple(g)].outPort
  <2>1. p \in Ports /\ SendOn(p, g) /\ m_flowletGap > 0
    BY <1>5, Branches DEF SameFlowlet
  <2> HIDE DEF p
  <2>2. CASE g # f
    BY <1>2, <2>1, <2>2
  <2>3. CASE g = f
    <3>1. sentAt'[f] = now /\ outPort'[f] = p
      BY <2>1, <2>3, SendOnFields
    <3> QED BY <1>1, <2>1, <2>3, <3>1 DEF EntryFollows, p
  <2> QED BY <2>2, <2>3
<1>6. CASE Tick
  BY <1>6 DEF Tick
<1>7. CASE UNCHANGED vars
  BY <1>7 DEF vars
<1> QED BY <1>3, <1>4, <1>5, <1>6, <1>7 DEF Next

(* Packets of a flow at most FlowletGap apart leave by one uplink, although *)
(* the table entry may be shared with any other flows.                      *)
THEOREM FlowletKeepsPortCorrect == Spec => FlowletKeepsPort
<1>1. TypeOK /\ FlowletInv /\ [Next]_vars =>
        [\A f \in Flows :
           sentAt[f] # Never /\ sentAt'[f] - sentAt[f] <= m_flowletGap
             => outPort'[f] = outPort[f]]_vars
  BY KeepsPortStep
<1> QED BY <1>1, TypeCorrect, FlowletInvCorrect, PTL DEF Spec, FlowletKeepsPort

(* Flows of one table entry that have not paused share their uplink. *)
THEOREM CollidingFlowsCorrect == Spec => []CollidingFlowsShareAPort
<1>1. TypeOK /\ FlowletInv => CollidingFlowsShareAPort
  <2>1. SUFFICES
          ASSUME TypeOK, FlowletInv, NEW f \in Flows, NEW g \in Flows,
                 hashedTuple(f) = hashedTuple(g),
                 sentAt[f] # Never, now - sentAt[f] <= m_flowletGap,
                 sentAt[g] # Never, now - sentAt[g] <= m_flowletGap
          PROVE  outPort[f] = outPort[g]
    BY DEF CollidingFlowsShareAPort
  <2>2. m_flowletGap \in Nat
    BY <2>1, FlowletAssumption DEF TypeOK
  <2>3. CASE m_flowletGap = 0
    BY <2>1, <2>3 DEF FlowletInv, StaticFollows
  <2>4. CASE m_flowletGap # 0
    <3>1. m_flowletGap > 0
      BY <2>2, <2>4
    <3> QED BY <2>1, <3>1 DEF FlowletInv, EntryFollows
  <2> QED BY <2>3, <2>4
<1> QED BY <1>1, TypeCorrect, FlowletInvCorrect, PTL

(* Plain ECMP (FlowletGap 0) never moves a flow. *)
THEOREM GapZeroIsStaticCorrect == Spec => []GapZeroIsStatic
<1>1. FlowletInv => GapZeroIsStatic
  BY DEF FlowletInv, StaticFollows, GapZeroIsStatic
<1> QED BY <1>1, FlowletInvCorrect, PTL

(* If the delays beyond the uplinks differ by no more than FlowletGap, the  *)
(* packets of a flow get across in the order they were sent.                *)
THEOREM NoReorderingCorrect == Spec => NoReordering
<1>1. ASSUME TypeOK, FlowletInv, [Next]_vars, MaxDelay - MinDelay <= m_flowletGap,
             NEW f \in Flows
      PROVE  arrival'[f] >= arrival[f]
  <2>1. /\ arrival[f] \in Nat /\ now \in Nat /\ m_flowletGap \in Nat
        /\ MinDelay \in Nat /\ MaxDelay \in Nat /\ sentAt[f] \in Nat \cup {Never}
        /\ lineArrival \in [Ports -> Nat]
    BY <1>1, FlowletAssumption DEF TypeOK
  <2>2. ArrivalBound(f)
    BY <1>1 DEF FlowletInv
  <2>3. ASSUME NEW g \in Flows, NEW p \in Ports, SendOn(p, g)
        PROVE  arrival'[f] >= arrival[f]
    <3>1. CASE g # f
      BY <1>1, <2>1, <2>3, <3>1, SendOnFields
    <3>2. CASE g = f
      <4>1. /\ sentAt'[f] = now /\ outPort'[f] = p
            /\ arrival'[f] >= lineArrival[p] /\ arrival'[f] >= now + MinDelay
        BY <1>1, <2>3, <3>2, SendOnFields
      <4>2. arrival'[f] \in Nat
        BY <1>1, <2>3, SendOnType
      <4>3. CASE sentAt[f] = Never
        BY <2>2, <4>2, <4>3 DEF ArrivalBound
      <4>4. CASE sentAt[f] # Never
        <5>1. /\ outPort[f] \in Ports /\ arrival[f] <= sentAt[f] + MaxDelay
              /\ arrival[f] <= lineArrival[outPort[f]] /\ sentAt[f] \in Nat
          BY <2>1, <2>2, <4>4 DEF ArrivalBound
        <5>2. CASE outPort[f] = p
          <6>1. lineArrival[p] \in Nat
            BY <2>1
          <6> QED BY <2>1, <4>1, <4>2, <5>1, <5>2, <6>1
        <5>3. CASE outPort[f] # p
          <6>1. now - sentAt[f] > m_flowletGap
            BY <1>1, <2>1, <4>1, <4>4, <5>1, <5>3, KeepsPortStep
          <6> QED BY <1>1, <2>1, <4>1, <4>2, <5>1, <6>1
        <5> QED BY <5>2, <5>3
      <4> QED BY <4>3, <4>4
    <3> QED BY <3>1, <3>2
  <2>4. ASSUME NEW g \in Flows, StaticPort(g) PROVE arrival'[f] >= arrival[f]
    BY <1>1, <2>3, <2>4, Branches
  <2>5. ASSUME NEW g \in Flows, NewFlowlet(g) PROVE arrival'[f] >= arrival[f]
    BY <2>3, <2>5 DEF NewFlowlet
  <2>6. ASSUME NEW g \in Flows, SameFlowlet(g) PROVE arrival'[f] >= arrival[f]
    BY <1>1, <2>3, <2>6, Branches
  <2>7. CASE Tick
    BY <2>1, <2>7 DEF Tick
  <2>8. CASE UNCHANGED vars
    BY <2>1, <2>8 DEF vars
  <2> QED BY <1>1, <2>4, <2>5, <2>6, <2>7, <2>8 DEF Next
<1>2. TypeOK /\ FlowletInv /\ [Next]_vars =>
        [MaxDelay - MinDelay <= m_flowletGap
           => \A f \in Flows : arrival'[f] >= arrival[f]]_vars
  BY <1>1
<1> QED BY <1>2, TypeCorrect, FlowletInvCorrect, PTL DEF Spec, NoReordering
-----------------------------------------------------------------------------
(* Packets that cross two switches (module FlowletPath). *)

(* The edge switch of this module does what module Flowlet says, so what   *)
(* is proved of that module holds here too.                                *)
THEOREM PathImplementsEdge == PathSpec => Spec
<1>1. PathInit => Init
  BY DEF PathInit
<1>2. [PathNext]_allVars => [Next]_vars
  <2>1. ASSUME NEW f \in Flows, EdgeReceive(f) PROVE Next
    BY <2>1 DEF EdgeReceive, Next
  <2>2. ASSUME NEW n \in DOMAIN packets, AggReceive(n) PROVE UNCHANGED vars
    BY <2>2 DEF AggReceive, AggStaticPort, AggNewFlowlet, AggSameFlowlet, AggSendOn
  <2>3. PathTick => Next
    BY DEF PathTick, Next
  <2>4. UNCHANGED allVars => UNCHANGED vars
    BY DEF allVars
  <2> QED BY <2>1, <2>2, <2>3, <2>4 DEF PathNext
<1> QED BY <1>1, <1>2, PTL DEF PathSpec, Spec

-----------------------------------------------------------------------------

(* What EdgeReceive does: the flow leaves by some uplink p, a packet is put *)
(* on the way to the switch beyond it, and the entry of its slot, when the  *)
(* table is used, holds p now; it was missing, expired or held p already.   *)
EdgeSends(f, p) ==
  /\ SendOn(p, f)
  /\ packets' = Append(packets,
       [flow |-> f, sent |-> now, agg |-> p, due |-> arrival'[f],
        port |-> NoPort, across |-> 0])
  /\ agg_table' = agg_table /\ agg_line' = agg_line
  /\ \/ m_flowletGap = 0
     \/ /\ m_flowletGap > 0
        /\ SetEntry(hashedTuple(f), p)
        /\ \/ ~HasEntry(hashedTuple(f))
           \/ Expired(hashedTuple(f))
           \/ flowlet_table[hashedTuple(f)].outPort = p

LEMMA EdgeBranches ==
  ASSUME TypeOK, NEW f \in Flows, EdgeReceive(f)
  PROVE  \E p \in Ports : EdgeSends(f, p)
<1>1. \E p \in Ports : /\ SendOn(p, f)
                       /\ \/ m_flowletGap = 0
                          \/ /\ m_flowletGap > 0
                             /\ SetEntry(hashedTuple(f), p)
                             /\ \/ ~HasEntry(hashedTuple(f))
                                \/ Expired(hashedTuple(f))
                                \/ flowlet_table[hashedTuple(f)].outPort = p
  <2>1. CASE StaticPort(f)
    <3>1. /\ SendOn(hashedTuple(f) % totalPaths, f)
          /\ hashedTuple(f) % totalPaths \in Ports
      BY <2>1, Branches
    <3> QED BY <2>1, <3>1 DEF StaticPort
  <2>2. CASE NewFlowlet(f)
    BY <2>2 DEF NewFlowlet
  <2>3. CASE SameFlowlet(f)
    <3>1. LET p == flowlet_table[hashedTuple(f)].outPort IN
          p \in Ports /\ SendOn(p, f) /\ SetEntry(hashedTuple(f), p)
      BY <2>3, Branches
    <3> QED BY <2>3, <3>1 DEF SameFlowlet
  <2> QED BY <2>1, <2>2, <2>3 DEF EdgeReceive
<1>2. PICK p \in Ports : /\ SendOn(p, f)
                         /\ \/ m_flowletGap = 0
                            \/ /\ m_flowletGap > 0
                               /\ SetEntry(hashedTuple(f), p)
                               /\ \/ ~HasEntry(hashedTuple(f))
                                  \/ Expired(hashedTuple(f))
                                  \/ flowlet_table[hashedTuple(f)].outPort = p
  BY <1>1
<1>3. outPort'[f] = p
  BY <1>2, SendOnFields
<1>4. EdgeSends(f, p)
  BY <1>2, <1>3 DEF EdgeReceive, EdgeSends
<1> QED BY <1>4

(* A sequence with one element more. *)
LEMMA AppendFacts ==
  ASSUME NEW S, NEW seq \in Seq(S), NEW e \in S
  PROVE  /\ Append(seq, e) \in Seq(S)
         /\ Len(Append(seq, e)) = Len(seq) + 1
         /\ DOMAIN Append(seq, e) = 1 .. Len(seq) + 1
         /\ \A i \in DOMAIN seq : Append(seq, e)[i] = seq[i]
         /\ Append(seq, e)[Len(seq) + 1] = e
         /\ DOMAIN seq = 1 .. Len(seq) /\ Len(seq) \in Nat
OBVIOUS

(* What AggReceive does: packet n, due now, leaves by some uplink p and is  *)
(* across after some delay, behind the packets before it on that uplink;    *)
(* the entry of its slot is as after EdgeReceive.                           *)
AggSends(n, a, s, p, t) ==
  /\ t >= now + MinDelay /\ t <= now + MaxDelay /\ t >= agg_line[a][p]
  /\ agg_line' = [agg_line EXCEPT ![a][p] = t]
  /\ packets' = [packets EXCEPT ![n] =
       [flow |-> packets[n].flow, sent |-> packets[n].sent, agg |-> a,
        due |-> packets[n].due, port |-> p, across |-> t]]
  /\ UNCHANGED vars
  /\ \/ m_flowletGap = 0 /\ agg_table' = agg_table
     \/ /\ m_flowletGap > 0
        /\ AggSetEntry(a, s, p)
        /\ \/ ~AggHasEntry(a, s)
           \/ AggExpired(a, s)
           \/ agg_table[a][s].outPort = p

(* The keys of the aggregation switches' tables are in range. *)
LEMMA AggRange ==
  ASSUME NEW a \in Ports, NEW f \in Flows
  PROVE  /\ aggTuple(a, f) \in Slots /\ (aggTuple(a, f) % totalPaths) \in Ports
<1>1. /\ totalPaths \in Nat /\ totalPaths > 0 /\ AggHash[a][f] \in Nat
      /\ Uint16 \in Nat /\ Uint16 > 0
  BY FlowletAssumption, PathAssumption
<1>2. aggTuple(a, f) \in Slots
  BY <1>1, Remainder DEF aggTuple, Slots
<1>3. aggTuple(a, f) \in Nat
  BY <1>1, <1>2 DEF Slots
<1> QED BY <1>1, <1>2, <1>3, Remainder DEF Ports

(* The fields of a packet. *)
LEMMA PacketFields ==
  ASSUME PathTypeOK, NEW n \in DOMAIN packets
  PROVE  /\ packets[n] \in Packet
         /\ packets[n].flow \in Flows /\ packets[n].agg \in Ports
         /\ packets[n].sent \in Nat /\ packets[n].due \in Nat
         /\ packets[n].across \in Nat /\ packets[n].port \in Ports \cup {NoPort}
         /\ (~OnTheWay(n) => packets[n].port \in Ports)
<1>1. packets[n] \in Packet
  BY DEF PathTypeOK
<1> QED BY <1>1 DEF Packet, OnTheWay

LEMMA AggBranches ==
  ASSUME PathTypeOK, NEW n \in DOMAIN packets, AggReceive(n)
  PROVE  LET a == packets[n].agg
             s == aggTuple(a, packets[n].flow)
         IN \E p \in Ports : \E t \in Nat : AggSends(n, a, s, p, t)
<1> DEFINE a == packets[n].agg
           s == aggTuple(a, packets[n].flow)
<1>1. a \in Ports /\ s \in Slots /\ s % totalPaths \in Ports
  BY AggRange, PacketFields
<1>2. ASSUME NEW p \in Ports, AggSendOn(n, p),
             \/ m_flowletGap = 0 /\ agg_table' = agg_table
             \/ /\ m_flowletGap > 0
                /\ AggSetEntry(a, s, p)
                /\ \/ ~AggHasEntry(a, s)
                   \/ AggExpired(a, s)
                   \/ agg_table[a][s].outPort = p
      PROVE  \E t \in Nat : AggSends(n, a, s, p, t)
  <2>1. PICK delay \in MinDelay .. MaxDelay :
          /\ now + delay >= agg_line[a][p]
          /\ agg_line' = [agg_line EXCEPT ![a][p] = now + delay]
          /\ packets' = [packets EXCEPT ![n] =
               [flow |-> packets[n].flow, sent |-> packets[n].sent, agg |-> a,
                due |-> packets[n].due, port |-> p, across |-> now + delay]]
    BY <1>2 DEF AggSendOn
  <2>2. now \in Nat /\ MinDelay \in Nat /\ MaxDelay \in Nat
    BY FlowletAssumption DEF PathTypeOK, TypeOK
  <2>3. /\ now + delay \in Nat /\ now + delay >= now + MinDelay
        /\ now + delay <= now + MaxDelay
    BY <2>2
  <2>4. UNCHANGED vars
    BY <1>2 DEF AggSendOn
  <2>5. AggSends(n, a, s, p, now + delay)
    BY <1>2, <2>1, <2>3, <2>4 DEF AggSends
  <2> QED BY <2>3, <2>5
<1>3. CASE AggStaticPort(n, a, s)
  BY <1>1, <1>2, <1>3 DEF AggStaticPort
<1>4. CASE AggNewFlowlet(n, a, s)
  BY <1>2, <1>4 DEF AggNewFlowlet
<1>5. CASE AggSameFlowlet(n, a, s)
  <2> DEFINE p == agg_table[a][s].outPort
  <2>1. /\ m_flowletGap > 0 /\ AggSetEntry(a, s, p) /\ AggSendOn(n, p % totalPaths)
        /\ s \in DOMAIN agg_table[a]
    BY <1>5 DEF AggSameFlowlet, AggHasEntry
  <2>2. p \in Ports
    BY <1>1, <2>1 DEF PathTypeOK, flowlet_t
  <2>3. p % totalPaths = p
    BY <2>2, Ranges
  <2> HIDE DEF p
  <2>4. AggSendOn(n, p)
    BY <2>1, <2>3
  <2>5. agg_table[a][s].outPort = p
    BY DEF p
  <2>6. \E t \in Nat : AggSends(n, a, s, p, t)
    BY <1>2, <2>1, <2>2, <2>4, <2>5
  <2> QED BY <2>2, <2>6
<1> QED BY <1>3, <1>4, <1>5 DEF AggReceive

-----------------------------------------------------------------------------

(* What AggSends does to the packets, the tables and the lines. *)
LEMMA AggFields ==
  ASSUME PathTypeOK, NEW n \in DOMAIN packets, NEW p \in Ports, NEW t \in Nat,
         NEW a, a = packets[n].agg, NEW s \in Slots, AggSends(n, a, s, p, t)
  PROVE  /\ packets' \in Seq(Packet) /\ Len(packets') = Len(packets)
         /\ DOMAIN packets' = DOMAIN packets
         /\ \A m \in DOMAIN packets : m # n => packets'[m] = packets[m]
         /\ \A m \in DOMAIN packets :
              /\ packets'[m].flow = packets[m].flow /\ packets'[m].sent = packets[m].sent
              /\ packets'[m].agg = packets[m].agg /\ packets'[m].due = packets[m].due
         /\ packets'[n].port = p /\ packets'[n].across = t
         /\ agg_line' \in [Ports -> [Ports -> Nat]] /\ agg_line'[a][p] = t
         /\ \A b, q \in Ports : agg_line'[b][q] >= agg_line[b][q]
         /\ DOMAIN agg_table' = Ports
         /\ \A b \in Ports :
              /\ DOMAIN agg_table'[b] \subseteq Slots
              /\ \A x \in DOMAIN agg_table'[b] : agg_table'[b][x] \in flowlet_t
<1>1. /\ packets[n] \in Packet /\ a \in Ports /\ packets \in Seq(Packet)
      /\ packets[n].flow \in Flows /\ packets[n].sent \in Nat /\ packets[n].due \in Nat
  BY PacketFields DEF PathTypeOK
<1> DEFINE pkt == [flow |-> packets[n].flow, sent |-> packets[n].sent, agg |-> a,
                   due |-> packets[n].due, port |-> p, across |-> t]
<1>2. pkt \in Packet
  BY <1>1 DEF Packet
<1>3. packets' = [packets EXCEPT ![n] = pkt]
  BY DEF AggSends
<1>4. /\ pkt.flow = packets[n].flow /\ pkt.sent = packets[n].sent
      /\ pkt.agg = packets[n].agg /\ pkt.due = packets[n].due
      /\ pkt.port = p /\ pkt.across = t
  OBVIOUS
<1> HIDE DEF pkt
<1>5. /\ packets' \in Seq(Packet) /\ Len(packets') = Len(packets)
      /\ DOMAIN packets' = DOMAIN packets /\ packets'[n] = pkt
      /\ \A m \in DOMAIN packets : m # n => packets'[m] = packets[m]
  BY <1>1, <1>2, <1>3
<1>6. \A m \in DOMAIN packets :
        /\ packets'[m].flow = packets[m].flow /\ packets'[m].sent = packets[m].sent
        /\ packets'[m].agg = packets[m].agg /\ packets'[m].due = packets[m].due
  BY <1>4, <1>5
<1>7. /\ agg_line' \in [Ports -> [Ports -> Nat]] /\ agg_line'[a][p] = t
      /\ \A b, q \in Ports : agg_line'[b][q] >= agg_line[b][q]
  <2>1. /\ agg_line' = [agg_line EXCEPT ![a][p] = t] /\ t >= agg_line[a][p]
        /\ agg_line \in [Ports -> [Ports -> Nat]]
    BY DEF AggSends, PathTypeOK
  <2>2. \A b, q \in Ports :
          agg_line'[b][q] = IF b = a /\ q = p THEN t ELSE agg_line[b][q]
    BY <1>1, <2>1
  <2>3. \A b, q \in Ports : agg_line[b][q] \in Nat
    BY <2>1
  <2>4. agg_line' \in [Ports -> [Ports -> Nat]]
    BY <1>1, <2>1
  <2>5. agg_line'[a][p] = t
    BY <1>1, <2>2
  <2>6. ASSUME NEW b \in Ports, NEW q \in Ports
        PROVE  agg_line'[b][q] >= agg_line[b][q]
    <3>1. agg_line'[b][q] = IF b = a /\ q = p THEN t ELSE agg_line[b][q]
      BY <2>2
    <3>2. agg_line[b][q] \in Nat
      BY <2>3
    <3> QED BY <2>1, <3>1, <3>2
  <2> QED BY <2>4, <2>5, <2>6
<1>8. /\ DOMAIN agg_table' = Ports
      /\ \A b \in Ports :
           /\ DOMAIN agg_table'[b] \subseteq Slots
           /\ \A x \in DOMAIN agg_table'[b] : agg_table'[b][x] \in flowlet_t
  <2>1. /\ DOMAIN agg_table = Ports
        /\ \A b \in Ports :
             /\ DOMAIN agg_table[b] \subseteq Slots
             /\ \A x \in DOMAIN agg_table[b] : agg_table[b][x] \in flowlet_t
    BY DEF PathTypeOK
  <2>2. CASE agg_table' = agg_table
    BY <2>1, <2>2
  <2>3. CASE AggSetEntry(a, s, p)
    <3>1. [time |-> now, outPort |-> p] \in flowlet_t
      BY DEF flowlet_t, PathTypeOK, TypeOK
    <3>2. /\ DOMAIN agg_table' = Ports
          /\ \A b \in Ports : b # a => agg_table'[b] = agg_table[b]
          /\ agg_table'[a] =
               [x \in DOMAIN agg_table[a] \cup {s} |->
                  IF x = s THEN [time |-> now, outPort |-> p] ELSE agg_table[a][x]]
      BY <1>1, <2>1, <2>3 DEF AggSetEntry
    <3>3. /\ DOMAIN agg_table'[a] \subseteq Slots
          /\ \A x \in DOMAIN agg_table'[a] : agg_table'[a][x] \in flowlet_t
      BY <1>1, <2>1, <3>1, <3>2
    <3> QED BY <2>1, <3>2, <3>3
  <2> QED BY <2>2, <2>3 DEF AggSends
<1> QED BY <1>4, <1>5, <1>6, <1>7, <1>8

(* Every packet has an uplink of its own switch, and the tables of the      *)
(* aggregation switches hold uplinks of theirs.                             *)
LEMMA PathTypeStep ==
  ASSUME TypeOK', PathTypeOK, [PathNext]_allVars PROVE PathTypeOK'
<1> USE DEF PathTypeOK
<1>1. ASSUME NEW f \in Flows, EdgeReceive(f) PROVE PathTypeOK'
  <2>1. PICK p \in Ports : EdgeSends(f, p)
    BY <1>1, EdgeBranches
  <2>2. now \in Nat /\ arrival'[f] \in Nat
    BY DEF TypeOK
  <2> DEFINE pkt == [flow |-> f, sent |-> now, agg |-> p, due |-> arrival'[f],
                     port |-> NoPort, across |-> 0]
  <2>3. pkt \in Packet
    BY <2>2 DEF Packet
  <2>4. packets' = Append(packets, pkt) /\ UNCHANGED <<agg_table, agg_line>>
    BY <2>1 DEF EdgeSends
  <2>5. Len(packets) < MaxSent /\ MaxSent \in Nat
    BY <1>1, PathAssumption DEF EdgeReceive
  <2> HIDE DEF pkt
  <2>6. packets' \in Seq(Packet) /\ Len(packets') <= MaxSent
    BY <2>3, <2>4, <2>5, AppendFacts
  <2> QED BY <2>4, <2>6
<1>2. ASSUME NEW n \in DOMAIN packets, AggReceive(n) PROVE PathTypeOK'
  <2> DEFINE a == packets[n].agg
             s == aggTuple(a, packets[n].flow)
  <2>1. s \in Slots
    BY AggRange, PacketFields
  <2>2. PICK p \in Ports, t \in Nat : AggSends(n, a, s, p, t)
    BY <1>2, AggBranches
  <2> HIDE DEF s
  <2> QED BY <2>1, <2>2, AggFields
<1>3. CASE PathTick
  BY <1>3 DEF PathTick, pathVars
<1>4. CASE UNCHANGED allVars
  BY <1>4 DEF allVars, pathVars
<1> QED BY <1>1, <1>2, <1>3, <1>4 DEF PathNext

THEOREM PathTypeCorrect == PathSpec => []PathTypeOK
<1>1. PathInit => PathTypeOK
  <2>1. Init => TypeOK
    BY FlowletAssumption DEF Init, TypeOK, Ports, flowlet_t
  <2> QED BY <2>1, PathAssumption DEF PathInit, PathTypeOK, flowlet_t
<1>2. TypeOK' /\ PathTypeOK /\ [PathNext]_allVars => PathTypeOK'
  BY PathTypeStep
<1>3. PathSpec => []TypeOK
  BY PathImplementsEdge, TypeCorrect, PTL
<1> QED BY <1>1, <1>2, <1>3, PTL DEF PathSpec

-----------------------------------------------------------------------------

(* Each packet takes MinDelay .. MaxDelay on each link, is handled when it  *)
(* is due, and is no later than the line it took.                           *)
OnTime(n) ==
  /\ packets[n].sent <= now
  /\ packets[n].sent + MinDelay <= packets[n].due
  /\ packets[n].due <= packets[n].sent + MaxDelay
  /\ packets[n].due <= lineArrival[packets[n].agg]
  /\ OnTheWay(n) => now <= packets[n].due
  /\ ~OnTheWay(n) =>
       /\ packets[n].due <= now
       /\ packets[n].due + MinDelay <= packets[n].across
       /\ packets[n].across <= packets[n].due + MaxDelay
       /\ packets[n].across <= agg_line[packets[n].agg][packets[n].port]

(* The entry of the edge switch has been renewed since packet n was sent    *)
(* and holds its uplink while n is within the gap.                          *)
EdgeEntry(n) ==
  m_flowletGap > 0 =>
    LET s == hashedTuple(packets[n].flow) IN
    /\ s \in DOMAIN flowlet_table
    /\ packets[n].sent <= flowlet_table[s].time
    /\ now - packets[n].sent <= m_flowletGap => packets[n].agg = flowlet_table[s].outPort

(* The same of the aggregation switch and the time n got there.             *)
AggEntry(n) ==
  m_flowletGap > 0 /\ ~OnTheWay(n) =>
    LET a == packets[n].agg
        s == aggTuple(a, packets[n].flow)
    IN
    /\ s \in DOMAIN agg_table[a]
    /\ packets[n].due <= agg_table[a][s].time
    /\ now - packets[n].due <= m_flowletGap => packets[n].port = agg_table[a][s].outPort

(* Packets to one switch get there, and leave it, in the order of sending.  *)
Behind(m, n) ==
  /\ packets[m].sent <= packets[n].sent
  /\ packets[m].agg = packets[n].agg =>
       /\ packets[m].due <= packets[n].due
       /\ OnTheWay(m) => OnTheWay(n)

(* Packets of a flow within the gap go by one aggregation switch.           *)
SameWay(m, n) ==
  /\ m_flowletGap > 0
  /\ packets[m].flow = packets[n].flow
  /\ packets[n].sent - packets[m].sent <= m_flowletGap
  => packets[m].agg = packets[n].agg

(* Packets of a flow that go by one switch are across in order.             *)
InOrder(m, n) ==
  /\ MaxDelay - MinDelay <= m_flowletGap
  /\ packets[m].flow = packets[n].flow
  /\ packets[m].agg = packets[n].agg
  /\ ~OnTheWay(m) /\ ~OnTheWay(n)
  => packets[m].across <= packets[n].across

PathInv ==
  /\ \A n \in DOMAIN packets : OnTime(n) /\ EdgeEntry(n) /\ AggEntry(n)
  /\ \A m, n \in DOMAIN packets : m < n => Behind(m, n) /\ SameWay(m, n) /\ InOrder(m, n)

(* The new packet and the table of the edge switch. *)
LEMMA EdgeStep ==
  ASSUME PathTypeOK, PathTypeOK', PathInv, NEW f \in Flows, NEW p \in Ports,
         EdgeSends(f, p)
  PROVE  PathInv'
<1> DEFINE s == hashedTuple(f)
<1>0. PICK k \in Nat : k = Len(packets) + 1
  BY DEF PathTypeOK
<1>1. /\ now' = now /\ now \in Nat /\ m_flowletGap' = m_flowletGap /\ m_flowletGap \in Nat
      /\ MinDelay \in Nat /\ MaxDelay \in Nat
      /\ lineArrival \in [Ports -> Nat] /\ lineArrival' \in [Ports -> Nat]
      /\ agg_table' = agg_table /\ agg_line' = agg_line
  BY SendOnType, FlowletAssumption DEF EdgeSends, PathTypeOK, TypeOK
<1>2. /\ arrival'[f] \in Nat /\ arrival'[f] = lineArrival'[p] /\ arrival'[f] >= lineArrival[p]
      /\ arrival'[f] >= now + MinDelay /\ arrival'[f] <= now + MaxDelay
      /\ \A q \in Ports : lineArrival'[q] >= lineArrival[q]
  BY SendOnFields, SendOnType DEF EdgeSends, PathTypeOK
<1> DEFINE pkt == [flow |-> f, sent |-> now, agg |-> p, due |-> arrival'[f],
                   port |-> NoPort, across |-> 0]
<1>3. pkt \in Packet
  BY <1>1, <1>2 DEF Packet
<1>4. /\ pkt.flow = f /\ pkt.sent = now /\ pkt.agg = p /\ pkt.due = arrival'[f]
      /\ pkt.port = NoPort
  OBVIOUS
<1>5. packets' = Append(packets, pkt)
  BY DEF EdgeSends
<1> HIDE DEF pkt
<1>6. /\ DOMAIN packets' = DOMAIN packets \cup {k} /\ DOMAIN packets = 1 .. Len(packets)
      /\ Len(packets) \in Nat /\ packets'[k] = pkt
      /\ \A n \in DOMAIN packets : packets'[n] = packets[n]
  <2>1. packets \in Seq(Packet)
    BY DEF PathTypeOK
  <2> QED BY <1>0, <1>3, <1>5, <2>1, AppendFacts
<1>7. \A n \in DOMAIN packets : OnTheWay(n)' <=> OnTheWay(n)
  BY <1>6 DEF OnTheWay
<1>8. OnTheWay(k)'
  BY <1>4, <1>6 DEF OnTheWay
<1>9. ASSUME NEW n \in DOMAIN packets PROVE OnTime(n)'
  <2>1. OnTime(n) /\ packets[n].agg \in Ports /\ packets[n].due \in Nat
    BY PacketFields DEF PathInv
  <2>2. packets'[n] = packets[n]
    BY <1>6
  <2>3. packets[n].due <= lineArrival'[packets[n].agg]
    <3>1. lineArrival[packets[n].agg] \in Nat /\ lineArrival'[packets[n].agg] \in Nat
      BY <1>1, <2>1
    <3> QED BY <1>2, <2>1, <3>1 DEF OnTime
  <2> QED BY <1>1, <1>7, <2>1, <2>2, <2>3 DEF OnTime
<1>10. OnTime(k)'
  BY <1>1, <1>2, <1>4, <1>6, <1>8 DEF OnTime
<1>11. ASSUME NEW n \in DOMAIN packets PROVE AggEntry(n)'
  <2>1. AggEntry(n) /\ packets'[n] = packets[n]
    BY <1>6 DEF PathInv
  <2> QED BY <1>1, <1>7, <2>1 DEF AggEntry
<1>12. AggEntry(k)'
  BY <1>8 DEF AggEntry
<1>13. ASSUME m_flowletGap > 0
       PROVE  /\ DOMAIN flowlet_table' = DOMAIN flowlet_table \cup {s}
              /\ flowlet_table'[s].time = now /\ flowlet_table'[s].outPort = p
              /\ \A x \in DOMAIN flowlet_table : x # s => flowlet_table'[x] = flowlet_table[x]
  <2>1. SetEntry(s, p)
    BY <1>1, <1>13 DEF EdgeSends
  <2> HIDE DEF s
  <2> QED BY <2>1 DEF SetEntry
<1>14. ASSUME m_flowletGap > 0, NEW n \in DOMAIN packets, hashedTuple(packets[n].flow) = s,
              now - packets[n].sent <= m_flowletGap
       PROVE  packets[n].agg = p
  <2>1. /\ s \in DOMAIN flowlet_table /\ packets[n].sent <= flowlet_table[s].time
        /\ packets[n].agg = flowlet_table[s].outPort
    BY <1>14 DEF PathInv, EdgeEntry
  <2>2. packets[n].sent \in Nat /\ flowlet_table[s].time \in Nat
    BY <2>1, PacketFields DEF PathTypeOK, TypeOK, flowlet_t
  <2> HIDE DEF s
  <2>3. now - flowlet_table[s].time <= m_flowletGap
    BY <1>1, <1>14, <2>1, <2>2
  <2>4. HasEntry(s) /\ ~Expired(s)
    BY <1>1, <2>1, <2>2, <2>3 DEF HasEntry, Expired
  <2>5. flowlet_table[s].outPort = p
    BY <1>1, <1>14, <2>4 DEF EdgeSends, s
  <2> QED BY <2>1, <2>5
<1>15. ASSUME NEW n \in DOMAIN packets PROVE EdgeEntry(n)'
  <2>1. EdgeEntry(n) /\ packets'[n] = packets[n] /\ packets[n].sent <= now
    BY <1>6 DEF PathInv, OnTime
  <2> SUFFICES ASSUME m_flowletGap > 0 PROVE EdgeEntry(n)'
    BY <1>1 DEF EdgeEntry
  <2> DEFINE x == hashedTuple(packets[n].flow)
  <2>2. /\ x \in DOMAIN flowlet_table /\ packets[n].sent <= flowlet_table[x].time
        /\ now - packets[n].sent <= m_flowletGap => packets[n].agg = flowlet_table[x].outPort
    BY <2>1 DEF EdgeEntry
  <2>3. /\ x \in DOMAIN flowlet_table' /\ packets[n].sent <= flowlet_table'[x].time
        /\ now - packets[n].sent <= m_flowletGap => packets[n].agg = flowlet_table'[x].outPort
    <3>1. CASE x = s
      BY <1>13, <1>14, <2>1, <3>1
    <3>2. CASE x # s
      <4> HIDE DEF x, s
      <4> QED BY <1>13, <2>2, <3>2
    <3> QED BY <3>1, <3>2
  <2> QED BY <1>1, <2>1, <2>3 DEF EdgeEntry
<1>16. EdgeEntry(k)'
  <2>1. CASE m_flowletGap > 0
    BY <1>1, <1>4, <1>6, <1>13, <2>1 DEF EdgeEntry
  <2>2. CASE ~(m_flowletGap > 0)
    BY <1>1, <2>2 DEF EdgeEntry
  <2> QED BY <2>1, <2>2
<1>17. ASSUME NEW m \in DOMAIN packets PROVE Behind(m, k)' /\ SameWay(m, k)' /\ InOrder(m, k)'
  <2>1. /\ OnTime(m) /\ packets'[m] = packets[m] /\ packets[m].agg \in Ports
        /\ packets[m].due \in Nat
    BY <1>6, PacketFields DEF PathInv
  <2>2. Behind(m, k)'
    <3>1. ASSUME packets[m].agg = p PROVE packets[m].due <= arrival'[f]
      <4>1. packets[m].due <= lineArrival[p] /\ lineArrival[p] \in Nat
        BY <1>1, <2>1, <3>1 DEF OnTime
      <4> QED BY <1>2, <2>1, <4>1
    <3> QED BY <1>4, <1>6, <1>8, <2>1, <3>1 DEF Behind, OnTime
  <2>3. SameWay(m, k)'
    <3> SUFFICES ASSUME m_flowletGap > 0, packets[m].flow = f,
                        now - packets[m].sent <= m_flowletGap
                 PROVE  packets[m].agg = p
      BY <1>1, <1>4, <1>6, <2>1 DEF SameWay
    <3> QED BY <1>14
  <2>4. InOrder(m, k)'
    BY <1>8 DEF InOrder
  <2> QED BY <2>2, <2>3, <2>4
<1>18. ASSUME NEW m \in DOMAIN packets, NEW n \in DOMAIN packets, m < n
       PROVE  Behind(m, n)' /\ SameWay(m, n)' /\ InOrder(m, n)'
  <2>1. /\ Behind(m, n) /\ SameWay(m, n) /\ InOrder(m, n)
        /\ packets'[m] = packets[m] /\ packets'[n] = packets[n]
    BY <1>6, <1>18 DEF PathInv
  <2> QED BY <1>1, <1>7, <2>1 DEF Behind, SameWay, InOrder
<1> HIDE DEF s
<1>19. \A n \in DOMAIN packets' : OnTime(n)' /\ EdgeEntry(n)' /\ AggEntry(n)'
  BY <1>6, <1>9, <1>10, <1>11, <1>12, <1>15, <1>16
<1>20. ASSUME NEW m \in DOMAIN packets', NEW n \in DOMAIN packets', m < n
       PROVE  Behind(m, n)' /\ SameWay(m, n)' /\ InOrder(m, n)'
  <2>1. m \in DOMAIN packets
    BY <1>0, <1>6, <1>20
  <2> QED BY <1>0, <1>6, <1>17, <1>18, <1>20, <2>1
<1> QED BY <1>19, <1>20 DEF PathInv

(* A packet that leaves an aggregation switch.                              *)
LEMMA AggStep ==
  ASSUME PathTypeOK, PathTypeOK', PathInv, NEW n \in DOMAIN packets, Arrives(n),
         NEW a \in Ports, a = packets[n].agg,
         NEW s \in Slots, s = aggTuple(a, packets[n].flow),
         NEW p \in Ports, NEW t \in Nat, AggSends(n, a, s, p, t)
  PROVE  PathInv'
<1>1. /\ now' = now /\ now \in Nat /\ m_flowletGap' = m_flowletGap /\ m_flowletGap \in Nat
      /\ MinDelay \in Nat /\ MaxDelay \in Nat
      /\ flowlet_table' = flowlet_table /\ lineArrival' = lineArrival
  BY FlowletAssumption DEF AggSends, PathTypeOK, TypeOK, vars
<1>0. DOMAIN packets = 1 .. Len(packets) /\ Len(packets) \in Nat
  BY DEF PathTypeOK
<1>2. /\ DOMAIN packets' = DOMAIN packets
      /\ \A m \in DOMAIN packets : m # n => packets'[m] = packets[m]
      /\ \A m \in DOMAIN packets :
           /\ packets'[m].flow = packets[m].flow /\ packets'[m].sent = packets[m].sent
           /\ packets'[m].agg = packets[m].agg /\ packets'[m].due = packets[m].due
      /\ packets'[n].port = p /\ packets'[n].across = t
      /\ agg_line' \in [Ports -> [Ports -> Nat]] /\ agg_line'[a][p] = t
      /\ \A b, q \in Ports : agg_line'[b][q] >= agg_line[b][q]
  BY AggFields
<1>3. t >= now + MinDelay /\ t <= now + MaxDelay /\ t >= agg_line[a][p]
  BY DEF AggSends
<1>4. /\ \A m \in DOMAIN packets : m # n => (OnTheWay(m)' <=> OnTheWay(m))
      /\ ~OnTheWay(n)' /\ OnTheWay(n)
  BY <1>2 DEF OnTheWay, NoPort, Ports, Arrives
<1>5. packets[n].due = now
  <2>1. now <= packets[n].due /\ packets[n].due <= now /\ packets[n].due \in Nat
    BY <1>4, PacketFields DEF PathInv, OnTime, Arrives
  <2> QED BY <1>1, <2>1
<1>6. ASSUME NEW m \in DOMAIN packets PROVE OnTime(m)' /\ EdgeEntry(m)'
  <2>1. OnTime(m) /\ EdgeEntry(m)
    BY DEF PathInv
  <2>2. EdgeEntry(m)'
    BY <1>1, <1>2, <2>1 DEF EdgeEntry
  <2>3. CASE m = n
    BY <1>1, <1>2, <1>3, <1>4, <1>5, <2>1, <2>2, <2>3 DEF OnTime
  <2>4. CASE m # n
    <3>1. packets'[m] = packets[m] /\ (OnTheWay(m)' <=> OnTheWay(m))
      BY <1>2, <1>4, <2>4
    <3> DEFINE b == packets[m].agg
               q == packets[m].port
    <3>2. ASSUME ~OnTheWay(m) PROVE packets[m].across <= agg_line'[b][q]
      <4>1. b \in Ports /\ q \in Ports /\ packets[m].across \in Nat
        BY <3>2, PacketFields
      <4>2. agg_line'[b][q] \in Nat /\ agg_line[b][q] \in Nat
        BY <1>2, <4>1 DEF PathTypeOK
      <4>3. packets[m].across <= agg_line[b][q]
        BY <2>1, <3>2 DEF OnTime
      <4>4. agg_line'[b][q] >= agg_line[b][q]
        BY <1>2, <4>1
      <4> HIDE DEF b, q
      <4> QED BY <4>1, <4>2, <4>3, <4>4
    <3> QED BY <1>1, <2>1, <2>2, <3>1, <3>2 DEF OnTime
  <2> QED BY <2>3, <2>4
<1>7. ASSUME m_flowletGap > 0
      PROVE  /\ DOMAIN agg_table'[a] = DOMAIN agg_table[a] \cup {s}
             /\ agg_table'[a][s].time = now /\ agg_table'[a][s].outPort = p
             /\ \A x \in DOMAIN agg_table[a] : x # s => agg_table'[a][x] = agg_table[a][x]
             /\ \A b \in Ports : b # a => agg_table'[b] = agg_table[b]
  <2>1. AggSetEntry(a, s, p) /\ DOMAIN agg_table = Ports
    BY <1>1, <1>7 DEF AggSends, PathTypeOK
  <2>2. agg_table'[a] =
          [x \in DOMAIN agg_table[a] \cup {s} |->
             IF x = s THEN [time |-> now, outPort |-> p] ELSE agg_table[a][x]]
    BY <2>1 DEF AggSetEntry
  <2>3. \A b \in Ports : b # a => agg_table'[b] = agg_table[b]
    BY <2>1 DEF AggSetEntry
  <2> QED BY <2>2, <2>3
<1>8. ASSUME m_flowletGap > 0, NEW m \in DOMAIN packets, ~OnTheWay(m),
             packets[m].agg = a, aggTuple(a, packets[m].flow) = s,
             now - packets[m].due <= m_flowletGap
      PROVE  packets[m].port = p
  <2>1. /\ s \in DOMAIN agg_table[a] /\ packets[m].due <= agg_table[a][s].time
        /\ packets[m].port = agg_table[a][s].outPort
    BY <1>8 DEF PathInv, AggEntry
  <2>2. packets[m].due \in Nat /\ agg_table[a][s].time \in Nat
    BY <2>1, PacketFields DEF PathTypeOK, flowlet_t
  <2>3. now - agg_table[a][s].time <= m_flowletGap
    BY <1>1, <1>8, <2>1, <2>2
  <2>4. AggHasEntry(a, s) /\ ~AggExpired(a, s)
    BY <1>1, <2>1, <2>2, <2>3 DEF AggHasEntry, AggExpired
  <2>5. agg_table[a][s].outPort = p
    BY <1>1, <1>8, <2>4 DEF AggSends
  <2> QED BY <2>1, <2>5
<1>9. ASSUME NEW m \in DOMAIN packets PROVE AggEntry(m)'
  <2> SUFFICES ASSUME m_flowletGap > 0, ~OnTheWay(m)' PROVE AggEntry(m)'
    BY <1>1 DEF AggEntry
  <2> DEFINE b == packets[m].agg
             x == aggTuple(b, packets[m].flow)
  <2>1. b \in Ports /\ packets'[m].agg = b /\ packets'[m].flow = packets[m].flow
    BY <1>2, PacketFields
  <2>2. CASE m = n
    BY <1>1, <1>2, <1>5, <1>7, <2>2 DEF AggEntry
  <2>3. CASE m # n
    <3>1. packets'[m] = packets[m] /\ ~OnTheWay(m) /\ AggEntry(m) /\ OnTime(m)
      BY <1>2, <1>4, <2>3 DEF PathInv
    <3>2. /\ x \in DOMAIN agg_table[b] /\ packets[m].due <= agg_table[b][x].time
          /\ now - packets[m].due <= m_flowletGap => packets[m].port = agg_table[b][x].outPort
          /\ packets[m].due <= now
      BY <3>1 DEF AggEntry, OnTime
    <3>3. /\ x \in DOMAIN agg_table'[b] /\ packets[m].due <= agg_table'[b][x].time
          /\ now - packets[m].due <= m_flowletGap => packets[m].port = agg_table'[b][x].outPort
      <4>1. CASE b = a /\ x = s
        BY <1>7, <1>8, <3>1, <3>2, <4>1
      <4>2. CASE ~(b = a /\ x = s)
        <5> HIDE DEF b, x
        <5> QED BY <1>7, <2>1, <3>2, <4>2
      <4> QED BY <4>1, <4>2
    <3> QED BY <1>1, <3>1, <3>3 DEF AggEntry
  <2> QED BY <2>2, <2>3
<1>10. ASSUME NEW m \in DOMAIN packets, NEW k \in DOMAIN packets, m < k
       PROVE  Behind(m, k)' /\ SameWay(m, k)'
  <2>1. Behind(m, k) /\ SameWay(m, k) /\ m \in Nat /\ k \in Nat
    BY <1>0, <1>10 DEF PathInv
  <2>2. SameWay(m, k)'
    BY <1>1, <1>2, <2>1 DEF SameWay
  <2>3. ASSUME OnTheWay(m)', packets[m].agg = packets[k].agg PROVE OnTheWay(k)'
    <3>1. m # n /\ OnTheWay(m)
      BY <1>4, <2>3
    <3>2. k # n
      <4>1. ASSUME k = n PROVE m \in 1 .. n - 1
        BY <1>0, <1>10, <2>1, <4>1
      <4> QED BY <2>3, <3>1, <4>1 DEF Arrives
    <3> QED BY <1>4, <2>1, <2>3, <3>1, <3>2 DEF Behind
  <2> QED BY <1>2, <2>1, <2>2, <2>3 DEF Behind
<1>11. ASSUME NEW m \in DOMAIN packets, NEW k \in DOMAIN packets, m < k,
              MaxDelay - MinDelay <= m_flowletGap,
              packets[m].flow = packets[k].flow, packets[m].agg = packets[k].agg,
              ~OnTheWay(m)', ~OnTheWay(k)'
       PROVE  packets'[m].across <= packets'[k].across
  <2>1. Behind(m, k) /\ InOrder(m, k) /\ m \in Nat /\ k \in Nat
    BY <1>0, <1>11 DEF PathInv
  <2>2. CASE m # n /\ k # n
    BY <1>2, <1>4, <1>11, <2>1, <2>2 DEF InOrder
  <2>3. CASE m = n
    BY <1>4, <1>11, <2>1, <2>3 DEF Behind
  <2>4. CASE k = n
    <3>1. /\ m # n /\ packets'[m] = packets[m] /\ ~OnTheWay(m)
          /\ packets'[k].across = t
      BY <1>2, <1>4, <1>11, <2>1, <2>4
    <3>2. /\ packets[m].due \in Nat /\ packets[m].across \in Nat
          /\ packets[m].across <= packets[m].due + MaxDelay
          /\ packets[m].due <= now
          /\ packets[m].across <= agg_line[a][packets[m].port]
      BY <1>11, <2>4, <3>1, PacketFields DEF PathInv, OnTime
    <3>3. CASE m_flowletGap > 0 /\ now - packets[m].due <= m_flowletGap
      <4>1. packets[m].port = p
        BY <1>8, <1>11, <2>4, <3>1, <3>3
      <4>2. agg_line[a][p] \in Nat
        BY DEF PathTypeOK
      <4> QED BY <1>3, <3>1, <3>2, <4>1, <4>2
    <3>4. CASE ~(m_flowletGap > 0 /\ now - packets[m].due <= m_flowletGap)
      <4>1. now - packets[m].due >= m_flowletGap
        BY <1>1, <3>2, <3>4
      <4> QED BY <1>1, <1>3, <1>11, <3>1, <3>2, <4>1
    <3> QED BY <3>3, <3>4
  <2> QED BY <2>2, <2>3, <2>4
<1>12. ASSUME NEW m \in DOMAIN packets, NEW k \in DOMAIN packets, m < k
       PROVE  InOrder(m, k)'
  BY <1>1, <1>2, <1>11, <1>12 DEF InOrder
<1> QED BY <1>2, <1>6, <1>9, <1>10, <1>12 DEF PathInv

(* The clock does not pass the time a packet is due. *)
LEMMA PathTickStep ==
  ASSUME PathTypeOK, PathInv, PathTick PROVE PathInv'
<1>1. /\ now' = now + 1 /\ now \in Nat /\ m_flowletGap' = m_flowletGap /\ m_flowletGap \in Nat
      /\ flowlet_table' = flowlet_table /\ lineArrival' = lineArrival
      /\ packets' = packets /\ agg_table' = agg_table /\ agg_line' = agg_line
  BY FlowletAssumption DEF PathTick, Tick, attributes, pathVars, PathTypeOK, TypeOK
<1>2. \A n \in DOMAIN packets : OnTheWay(n)' <=> OnTheWay(n)
  BY <1>1 DEF OnTheWay
<1>3. ASSUME NEW n \in DOMAIN packets PROVE OnTime(n)' /\ EdgeEntry(n)' /\ AggEntry(n)'
  <2>1. OnTime(n) /\ EdgeEntry(n) /\ AggEntry(n)
    BY DEF PathInv
  <2>2. packets[n].sent \in Nat /\ packets[n].due \in Nat
    BY PacketFields
  <2>3. OnTheWay(n) => packets[n].due > now
    BY DEF PathTick
  <2>4. OnTime(n)'
    BY <1>1, <1>2, <2>1, <2>2, <2>3 DEF OnTime
  <2>5. EdgeEntry(n)'
    BY <1>1, <2>1, <2>2 DEF EdgeEntry
  <2>6. AggEntry(n)'
    BY <1>1, <1>2, <2>1, <2>2 DEF AggEntry
  <2> QED BY <2>4, <2>5, <2>6
<1>4. ASSUME NEW m \in DOMAIN packets, NEW n \in DOMAIN packets, m < n
      PROVE  Behind(m, n)' /\ SameWay(m, n)' /\ InOrder(m, n)'
  <2>1. Behind(m, n) /\ SameWay(m, n) /\ InOrder(m, n)
    BY <1>4 DEF PathInv
  <2> QED BY <1>1, <1>2, <2>1 DEF Behind, SameWay, InOrder
<1> QED BY <1>1, <1>3, <1>4 DEF PathInv

(* The inductive invariant: when each packet moves, and what the tables of  *)
(* both switches know of it.                                                *)
THEOREM PathInvCorrect == PathSpec => []PathInv
<1>1. PathInit => PathInv
  BY DEF PathInit, PathInv
<1>2. ASSUME PathTypeOK, PathTypeOK', PathInv, [PathNext]_allVars PROVE PathInv'
  <2>1. ASSUME NEW f \in Flows, EdgeReceive(f) PROVE PathInv'
    <3>1. PICK p \in Ports : EdgeSends(f, p)
      BY <1>2, <2>1, EdgeBranches DEF PathTypeOK
    <3> QED BY <1>2, <3>1, EdgeStep
  <2>2. ASSUME NEW n \in DOMAIN packets, AggReceive(n) PROVE PathInv'
    <3> DEFINE a == packets[n].agg
               s == aggTuple(a, packets[n].flow)
    <3>1. a \in Ports /\ s \in Slots
      BY <1>2, AggRange, PacketFields
    <3>2. PICK p \in Ports, t \in Nat : AggSends(n, a, s, p, t)
      BY <1>2, <2>2, AggBranches
    <3>3. Arrives(n)
      BY <2>2 DEF AggReceive
    <3> QED BY <1>2, <3>1, <3>2, <3>3, AggStep
  <2>3. CASE PathTick
    BY <1>2, <2>3, PathTickStep
  <2>4. CASE UNCHANGED allVars
    BY <1>2, <2>4 DEF allVars, vars, pathVars, PathInv, OnTime, EdgeEntry, AggEntry,
       Behind, SameWay, InOrder, OnTheWay
  <2> QED BY <1>2, <2>1, <2>2, <2>3, <2>4 DEF PathNext
<1>3. PathTypeOK /\ PathTypeOK' /\ PathInv /\ [PathNext]_allVars => PathInv'
  BY <1>2
<1> QED BY <1>1, <1>3, PathTypeCorrect, PTL DEF PathSpec

(* If FlowletGap covers twice the difference of the delays of a link, the   *)
(* packets of a flow get across two switches in the order they were sent:   *)
(* by one aggregation switch because its table keeps them together, by two  *)
(* because then they were sent more than the gap apart.                     *)
THEOREM NoReorderingOnPathCorrect == PathSpec => []NoReorderingOnPath
<1>1. ASSUME PathTypeOK, PathInv PROVE NoReorderingOnPath
  <2> SUFFICES ASSUME 2 * (MaxDelay - MinDelay) <= m_flowletGap,
                      NEW m \in DOMAIN packets, NEW n \in DOMAIN packets,
                      m < n, packets[m].flow = packets[n].flow, ~OnTheWay(n)
               PROVE  IF OnTheWay(m)
                      THEN packets[m].agg # packets[n].agg
                      ELSE packets[m].across <= packets[n].across
    BY DEF NoReorderingOnPath
  <2>1. Behind(m, n) /\ SameWay(m, n) /\ InOrder(m, n) /\ OnTime(m) /\ OnTime(n)
    BY <1>1 DEF PathInv
  <2>2. /\ MinDelay \in Nat /\ MaxDelay \in Nat /\ MinDelay <= MaxDelay
        /\ m_flowletGap \in Nat
    BY <1>1, FlowletAssumption DEF PathTypeOK, TypeOK
  <2>3. CASE OnTheWay(m)
    BY <2>1, <2>3 DEF Behind
  <2>4. CASE ~OnTheWay(m)
    <3>1. CASE packets[m].agg = packets[n].agg
      BY <2>1, <2>2, <2>4, <3>1 DEF InOrder
    <3>2. CASE packets[m].agg # packets[n].agg
      <4>1. /\ packets[m].sent \in Nat /\ packets[n].sent \in Nat
            /\ packets[m].due \in Nat /\ packets[n].due \in Nat
            /\ packets[m].across \in Nat /\ packets[n].across \in Nat
        BY <1>1, PacketFields
      <4>2. packets[n].sent - packets[m].sent >= m_flowletGap
        <5>1. CASE m_flowletGap = 0
          BY <2>1, <4>1, <5>1 DEF Behind
        <5>2. CASE m_flowletGap > 0
          BY <2>1, <2>2, <3>2, <4>1, <5>2 DEF SameWay
        <5> QED BY <2>2, <5>1, <5>2
      <4>3. /\ packets[m].across <= packets[m].sent + MaxDelay + MaxDelay
            /\ packets[n].across >= packets[n].sent + MinDelay + MinDelay
        BY <2>1, <2>2, <2>4, <4>1 DEF OnTime
      <4> QED BY <2>2, <2>4, <4>1, <4>2, <4>3
    <3> QED BY <2>4, <3>1, <3>2
  <2> QED BY <2>3, <2>4
<1> QED BY <1>1, PathTypeCorrect, PathInvCorrect, PTL

(* On the path, too, the packets of a flow within the gap leave the edge    *)
(* switch by one uplink, and get to the next switch in order.               *)
THEOREM EdgeOnPathCorrect == PathSpec => FlowletKeepsPort /\ NoReordering
BY PathImplementsEdge, FlowletKeepsPortCorrect, NoReorderingCorrect, PTL
=============================================================================

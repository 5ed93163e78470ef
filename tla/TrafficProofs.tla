--------------------------- MODULE TrafficProofs ---------------------------
(***************************************************************************)
(* Theorems about the set-up of a simulation, for every even K, every      *)
(* distribution of flow sizes, and any simulation time and number of flows.*)
(***************************************************************************)
EXTENDS Traffic, FiniteSetTheorems, WellFoundedInduction, TLAPS

(* While a pair is drawn, the branch taken is the one of the number drawn.  *)
PairInv ==
  /\ src \in Hosts
  /\ num \in Int
  /\ pc = "host" => num < sameEdgeProb
  /\ pc = "edge" => num >= sameEdgeProb /\ num < sameEdgeProb + samePodProb
  /\ pc = "pod" => num >= sameEdgeProb + samePodProb
  /\ PairHasAskedLocality

(* A host is its pod, its edge switch and its number under it. *)
LEMMA HostFields ==
  /\ \A p \in Pod, e \in Index, h \in Index :
       Host(p, e, h) \in Hosts
       /\ Host(p, e, h)[2] = p /\ Host(p, e, h)[3] = e /\ Host(p, e, h)[4] = h
  /\ \A x \in Hosts : /\ x[2] \in Pod /\ x[3] \in Index /\ x[4] \in Index
                      /\ x = Host(x[2], x[3], x[4])
BY DEF Host, Hosts

(* AnyHost is a host, as a switch has at least two ports. *)
LEMMA AnyHostIsHost == AnyHost \in Hosts
<1>1. K \in Nat /\ K >= 2
  BY KAssumption
<1>2. Half \in Nat /\ Half >= 1
  BY <1>1 DEF Half
<1>3. 0 \in Pod /\ 0 \in Index
  BY <1>1, <1>2 DEF Pod, Index
<1> QED BY <1>3, HostFields DEF AnyHost

(* Every pair is of two hosts as far apart as the number drawn asks for.    *)
THEOREM PairCorrect == Spec => []PairHasAskedLocality
<1> USE DEF sameEdgeProb, samePodProb
<1>1. Init => PairInv
  BY AnyHostIsHost DEF Init, PairInv, PairHasAskedLocality
<1>2. ASSUME PairInv, [Next]_vars PROVE PairInv'
  <2>1. ASSUME src' = AnyHost, num' = 0, pc' \in {"run", "source"} PROVE PairInv'
    BY <2>1, AnyHostIsHost DEF PairInv, PairHasAskedLocality
  <2>2. ASSUME UNCHANGED <<src, num>>, pc' \in {"generate", "run", "source", "fatal"}
        PROVE  PairInv'
    BY <1>2, <2>2 DEF PairInv, PairHasAskedLocality
  <2>3. CASE GenerateCdf \/ GenerateNormal \/ Generated
    BY <2>2, <2>3 DEF GenerateCdf, GenerateNormal, Generated
  <2>4. CASE StartOthers
    BY <2>2, <2>4 DEF StartOthers
  <2>5. CASE StartFlow
    <3>1. CASE NextPair
      BY <2>1, <3>1 DEF NextPair
    <3>2. CASE UNCHANGED <<src, num>> /\ pc' = "fatal"
      BY <2>2, <3>2
    <3> QED BY <2>5, <3>1, <3>2 DEF StartFlow
  <2>6. CASE DrawSource
    BY <1>2, <2>6 DEF DrawSource, PairInv, PairHasAskedLocality
  <2>7. CASE DrawLocality
    <3>1. num' \in Int
      BY <2>7, TrafficAssumption DEF DrawLocality
    <3> QED BY <1>2, <2>7, <3>1 DEF DrawLocality, PairInv, PairHasAskedLocality
  <2>8. CASE DrawHost
    <3>1. PICK h \in Index \ {src[4]} : dst' = Host(src[2], src[3], h)
      BY <2>8 DEF DrawHost
    <3>2. /\ src' = src /\ num' = num /\ pc' = "start" /\ num < sameEdgeProb
          /\ src \in Hosts /\ num \in Int
      BY <1>2, <2>8 DEF DrawHost, PairInv
    <3>3. dst'[2] = src[2] /\ dst'[3] = src[3] /\ dst'[4] # src[4]
      BY <3>1, <3>2, HostFields
    <3> QED BY <3>2, <3>3 DEF PairInv, PairHasAskedLocality
  <2>9. CASE DrawEdge
    <3>1. PICK e \in Index \ {src[3]}, h \in Index : dst' = Host(src[2], e, h)
      BY <2>9 DEF DrawEdge
    <3>2. /\ src' = src /\ num' = num /\ pc' = "start" /\ num >= sameEdgeProb
          /\ num < sameEdgeProb + samePodProb /\ src \in Hosts /\ num \in Int
      BY <1>2, <2>9 DEF DrawEdge, PairInv
    <3>3. dst'[2] = src[2] /\ dst'[3] # src[3]
      BY <3>1, <3>2, HostFields
    <3> QED BY <3>2, <3>3 DEF PairInv, PairHasAskedLocality
  <2>10. CASE DrawPod
    <3>1. PICK p \in Pod \ {src[2]}, e \in Index, h \in Index : dst' = Host(p, e, h)
      BY <2>10 DEF DrawPod
    <3>2. /\ src' = src /\ num' = num /\ pc' = "start" /\ num >= sameEdgeProb + samePodProb
          /\ src \in Hosts /\ num \in Int
      BY <1>2, <2>10 DEF DrawPod, PairInv
    <3>3. dst'[2] # src[2]
      BY <3>1, <3>2, HostFields
    <3> QED BY <3>2, <3>3 DEF PairInv, PairHasAskedLocality
  <2>11. CASE UNCHANGED vars
    BY <1>2, <2>11 DEF vars, PairInv, PairHasAskedLocality
  <2> QED BY <1>2, <2>3, <2>4, <2>5, <2>6, <2>7, <2>8, <2>9, <2>10, <2>11 DEF Next
<1>3. PairInv => PairHasAskedLocality
  BY DEF PairInv
<1> QED BY <1>1, <1>2, <1>3, PTL DEF Spec

-----------------------------------------------------------------------------

(* The sizes a generator may yield. *)
Sizes == {Unit} \cup {cdf[Min(SizesFor(sample))][1] : sample \in Samples}

Flow == [at : Nat, size : Sizes]

(* What the generators have made: flows in the order of their times, none   *)
(* after the clock, none in the last 5 seconds.                             *)
FlowsInv ==
  /\ simTime \in Nat /\ time \in Nat
  /\ flows \in Seq(Flow)
  /\ \A n \in DOMAIN flows :
       /\ flows[n].at <= time /\ flows[n].at < simTime - 50
       /\ \A l \in DOMAIN flows : l <= n => flows[l].at <= flows[n].at

(* The clients scheduled are those of the first flows, and while there are  *)
(* more the set-up goes on.                                                 *)
AgendaInv ==
  expType \in {"cdf", "normal"} =>
    /\ agenda \in Seq(Flow)
    /\ Len(agenda) <= Len(flows)
    /\ \A n \in DOMAIN agenda :
         agenda[n].at = CLIENTS_START_TIME + flows[n].at /\ agenda[n].size = flows[n].size
    /\ pc = "generate" => agenda = <<>>
    /\ pc \in {"source", "locality", "host", "edge", "pod", "start"} => Len(agenda) < Len(flows)
    /\ pc = "run" => Len(agenda) = Len(flows)

(* The fields of a flow. *)
LEMMA FlowFields ==
  ASSUME FlowsInv, NEW n \in DOMAIN flows
  PROVE  /\ flows[n] \in Flow
         /\ flows[n].at \in Nat /\ flows[n].size \in Sizes
<1>1. flows \in Seq(Flow)
  BY DEF FlowsInv
<1>2. flows[n] \in Flow
  BY <1>1
<1> QED BY <1>2 DEF Flow

(* One flow more. *)
LEMMA FlowsAppend ==
  ASSUME FlowsInv, time < simTime - 50, NEW s \in Sizes, NEW gap \in Nat,
         time' = time + gap, simTime' = simTime,
         flows' = Append(flows, [at |-> time, size |-> s])
  PROVE  FlowsInv'
<1> DEFINE flow == [at |-> time, size |-> s]
<1>1. /\ flow \in Flow /\ flow.at = time
      /\ flows \in Seq(Flow) /\ simTime \in Nat /\ time \in Nat
  BY DEF FlowsInv, Flow
<1>2. flows' = Append(flows, flow)
  OBVIOUS
<1> HIDE DEF flow
<1>3. /\ flows' \in Seq(Flow) /\ Len(flows) \in Nat
      /\ DOMAIN flows = 1 .. Len(flows) /\ DOMAIN flows' = 1 .. Len(flows) + 1
      /\ flows'[Len(flows) + 1] = flow
      /\ \A n \in DOMAIN flows : flows'[n] = flows[n]
  BY <1>1, <1>2
<1>4. \A n \in DOMAIN flows : flows[n].at \in Nat
  BY FlowFields
<1>5. ASSUME NEW n \in DOMAIN flows'
      PROVE  /\ flows'[n].at <= time' /\ flows'[n].at < simTime' - 50
             /\ \A l \in DOMAIN flows' : l <= n => flows'[l].at <= flows'[n].at
  <2>1. CASE n \in DOMAIN flows
    <3>1. \A l \in DOMAIN flows' : l <= n => l \in DOMAIN flows
      BY <1>3, <2>1
    <3> QED BY <1>1, <1>3, <1>4, <2>1, <3>1 DEF FlowsInv
  <2>2. CASE n \notin DOMAIN flows
    <3>1. n = Len(flows) + 1 /\ flows'[n].at = time
      BY <1>1, <1>3, <2>2
    <3>2. \A l \in DOMAIN flows' : flows'[l].at <= time
      BY <1>1, <1>3 DEF FlowsInv
    <3> QED BY <1>1, <3>1, <3>2
  <2> QED BY <2>1, <2>2
<1> QED BY <1>1, <1>3, <1>5 DEF FlowsInv

(* One client more. *)
LEMMA AgendaAppend ==
  ASSUME FlowsInv, AgendaInv, expType \in {"cdf", "normal"}, pc = "start",
         agenda' = Append(agenda, Client(CLIENTS_START_TIME + flows[Len(agenda) + 1].at,
                                         flows[Len(agenda) + 1].size)),
         pc' = IF Len(agenda') = Len(flows) THEN "run" ELSE "source",
         flows' = flows, expType' = expType
  PROVE  AgendaInv'
<1> DEFINE n == Len(agenda) + 1
           client == Client(CLIENTS_START_TIME + flows[n].at, flows[n].size)
<1>1. /\ agenda \in Seq(Flow) /\ Len(agenda) \in Nat
      /\ Len(agenda) < Len(flows) /\ Len(flows) \in Nat
      /\ flows \in Seq(Flow)
  BY DEF AgendaInv, FlowsInv
<1>2. flows[n] \in Flow /\ flows[n].at \in Nat /\ flows[n].size \in Sizes
  <2>1. n \in DOMAIN flows
    BY <1>1
  <2> QED BY <2>1, FlowFields
<1>3. /\ client \in Flow
      /\ client.at = CLIENTS_START_TIME + flows[n].at /\ client.size = flows[n].size
  BY <1>2 DEF Client, CLIENTS_START_TIME, Flow
<1>4. agenda' = Append(agenda, client)
  OBVIOUS
<1> HIDE DEF client
<1>5. /\ agenda' \in Seq(Flow) /\ Len(agenda') = n
      /\ DOMAIN agenda = 1 .. Len(agenda) /\ DOMAIN agenda' = 1 .. n
      /\ agenda'[n] = client /\ \A l \in DOMAIN agenda : agenda'[l] = agenda[l]
  BY <1>1, <1>3, <1>4
<1>6. \A l \in DOMAIN agenda :
        agenda[l].at = CLIENTS_START_TIME + flows[l].at /\ agenda[l].size = flows[l].size
  BY DEF AgendaInv
<1>7. \A l \in DOMAIN agenda' :
        agenda'[l].at = CLIENTS_START_TIME + flows[l].at /\ agenda'[l].size = flows[l].size
  BY <1>1, <1>3, <1>5, <1>6
<1> QED BY <1>1, <1>5, <1>7 DEF AgendaInv

(* The set-up keeps both. *)
LEMMA TrafficStep ==
  ASSUME FlowsInv, AgendaInv, [Next]_vars PROVE FlowsInv' /\ AgendaInv'
<1>1. CASE GenerateCdf
  <2>1. PICK sample \in Samples, gap \in Gaps :
          /\ time' = time + gap
          /\ \/ UNCHANGED flows
             \/ flows' = Append(flows, [at |-> time, size |-> cdf[Min(SizesFor(sample))][1]])
    BY <1>1 DEF GenerateCdf
  <2>2. /\ gap \in Nat /\ cdf[Min(SizesFor(sample))][1] \in Sizes
        /\ simTime' = simTime /\ expType' = expType /\ pc' = pc /\ agenda' = agenda
        /\ pc = "generate" /\ time < simTime - 50
    BY <1>1, TrafficAssumption DEF GenerateCdf, More, Sizes, options
  <2>3. FlowsInv'
    <3>1. CASE UNCHANGED flows
      BY <2>1, <2>2, <3>1, FlowFields DEF FlowsInv
    <3>2. CASE ~ UNCHANGED flows
      <4> DEFINE s == cdf[Min(SizesFor(sample))][1]
      <4>1. s \in Sizes /\ flows' = Append(flows, [at |-> time, size |-> s])
        BY <2>1, <2>2, <3>2
      <4> HIDE DEF s
      <4> QED BY <2>1, <2>2, <4>1, FlowsAppend
    <3> QED BY <3>1, <3>2
  <2>4. AgendaInv'
    BY <2>2, <2>3 DEF AgendaInv, FlowsInv
  <2> QED BY <2>3, <2>4
<1>2. CASE GenerateNormal
  <2>1. PICK gap \in Gaps : time' = time + gap
    BY <1>2 DEF GenerateNormal
  <2>2. /\ gap \in Nat /\ Unit \in Sizes
        /\ simTime' = simTime /\ expType' = expType /\ pc' = pc /\ agenda' = agenda
        /\ pc = "generate" /\ time < simTime - 50
        /\ flows' = Append(flows, [at |-> time, size |-> Unit])
    BY <1>2, TrafficAssumption DEF GenerateNormal, More, Sizes, options
  <2>3. FlowsInv'
    BY <2>1, <2>2, FlowsAppend
  <2>4. AgendaInv'
    BY <2>2, <2>3 DEF AgendaInv, FlowsInv
  <2> QED BY <2>3, <2>4
<1>3. ASSUME UNCHANGED <<simTime, time, flows>> PROVE FlowsInv'
  BY <1>3 DEF FlowsInv
<1>4. CASE Generated
  <2>1. /\ UNCHANGED <<simTime, expType, time, flows, agenda>> /\ pc = "generate"
        /\ pc' = IF flows = <<>> THEN "run" ELSE "source"
    BY <1>4 DEF Generated, options
  <2>2. flows # <<>> => Len(flows) > 0
    BY DEF FlowsInv
  <2> QED BY <1>3, <2>1, <2>2 DEF AgendaInv, FlowsInv
<1>5. ASSUME UNCHANGED <<simTime, expType, time, flows, agenda>>,
             pc \in {"source", "locality", "host", "edge", "pod", "start"},
             pc' \in {"source", "locality", "host", "edge", "pod", "start"}
      PROVE  FlowsInv' /\ AgendaInv'
  BY <1>3, <1>5 DEF AgendaInv
<1>6. CASE DrawSource \/ DrawLocality \/ DrawHost \/ DrawEdge \/ DrawPod
  BY <1>5, <1>6 DEF DrawSource, DrawLocality, DrawHost, DrawEdge, DrawPod, Pairing, options
<1>7. CASE StartFlow
  <2>1. UNCHANGED <<simTime, expType, time, flows>> /\ pc = "start"
    BY <1>7 DEF StartFlow, options
  <2>2. CASE pc' = "fatal" /\ agenda' = agenda
    BY <1>3, <2>1, <2>2 DEF AgendaInv
  <2>3. CASE ~(pc' = "fatal" /\ agenda' = agenda)
    <3>1. /\ agenda' = Append(agenda, Client(CLIENTS_START_TIME + flows[Len(agenda) + 1].at,
                                             flows[Len(agenda) + 1].size))
          /\ pc' = IF Len(agenda') = Len(flows) THEN "run" ELSE "source"
      BY <1>7, <2>3 DEF StartFlow, NextPair
    <3>2. CASE expType \in {"cdf", "normal"}
      BY <1>3, <2>1, <3>1, <3>2, AgendaAppend
    <3>3. CASE expType \notin {"cdf", "normal"}
      BY <1>3, <2>1, <3>3 DEF AgendaInv
    <3> QED BY <3>2, <3>3
  <2> QED BY <2>2, <2>3
<1>8. CASE StartOthers
  BY <1>3, <1>8 DEF StartOthers, AgendaInv, options
<1>9. CASE UNCHANGED vars
  BY <1>3, <1>9 DEF vars, options, AgendaInv
<1> QED BY <1>1, <1>2, <1>4, <1>6, <1>7, <1>8, <1>9 DEF Next

(* When the simulation starts each flow has its client, of its size and in  *)
(* order.  3 of the 5 seconds the generators leave are free of new clients. *)
THEOREM EveryFlowHasItsClientCorrect == Spec => []EveryFlowHasItsClient
<1>1. Init => FlowsInv /\ AgendaInv
  BY TrafficAssumption DEF Init, FlowsInv, AgendaInv, CLIENTS_START_TIME
<1>2. FlowsInv /\ AgendaInv /\ [Next]_vars => FlowsInv' /\ AgendaInv'
  BY TrafficStep
<1>3. ASSUME FlowsInv, AgendaInv PROVE EveryFlowHasItsClient
  <2> SUFFICES ASSUME pc = "run", expType \in {"cdf", "normal"}
               PROVE  /\ Len(agenda) = Len(flows)
                      /\ \A n \in DOMAIN agenda :
                           /\ agenda[n].size = flows[n].size
                           /\ agenda[n].at < simTime - 30
                           /\ n > 1 => agenda[n - 1].at <= agenda[n].at
    BY DEF EveryFlowHasItsClient
  <2>1. /\ Len(agenda) = Len(flows) /\ Len(flows) \in Nat /\ simTime \in Nat
        /\ DOMAIN agenda = 1 .. Len(flows) /\ DOMAIN flows = 1 .. Len(flows)
    BY <1>3 DEF FlowsInv, AgendaInv
  <2>2. \A n \in DOMAIN flows :
          /\ flows[n].at \in Nat
          /\ agenda[n].at = CLIENTS_START_TIME + flows[n].at /\ agenda[n].size = flows[n].size
    BY <1>3, <2>1, FlowFields DEF AgendaInv
  <2>3. ASSUME NEW n \in DOMAIN agenda
        PROVE  /\ agenda[n].size = flows[n].size
               /\ agenda[n].at < simTime - 30
               /\ n > 1 => agenda[n - 1].at <= agenda[n].at
    <3>1. flows[n].at < simTime - 50
      BY <1>3, <2>1 DEF FlowsInv
    <3>2. ASSUME n > 1 PROVE n - 1 \in DOMAIN flows /\ flows[n - 1].at <= flows[n].at
      <4>1. n - 1 \in DOMAIN flows /\ n - 1 <= n
        BY <2>1, <3>2
      <4> QED BY <1>3, <2>1, <4>1 DEF FlowsInv
    <3> QED BY <2>1, <2>2, <3>1, <3>2 DEF CLIENTS_START_TIME
  <2> QED BY <2>1, <2>3
<1> QED BY <1>1, <1>2, <1>3, PTL DEF Spec

-----------------------------------------------------------------------------

(* There are finitely many hosts. *)
LEMMA HostsFinite ==
  /\ IsFiniteSet(Hosts)
  /\ Cardinality(Hosts) \in Nat \ {0}
  /\ Cardinality(Hosts \ {AnyHost}) \in Nat
  /\ Cardinality(Hosts \ {AnyHost}) <= Cardinality(Hosts)
<1> DEFINE S == (Pod \X Index) \X Index
           f == [t \in S |-> Host(t[1][1], t[1][2], t[2])]
<1>1. IsFiniteSet(S)
  <2>1. K - 1 \in Int /\ Half - 1 \in Int
    BY KAssumption DEF Half
  <2>2. IsFiniteSet(Pod) /\ IsFiniteSet(Index)
    BY <2>1, FS_Interval DEF Pod, Index
  <2>3. IsFiniteSet(Pod \X Index)
    BY <2>2, FS_Product
  <2> QED BY <2>2, <2>3, FS_Product
<1>2. f \in Surjection(S, Hosts)
  <2>1. \A t \in S : f[t] \in Hosts
    BY DEF Hosts
  <2>2. ASSUME NEW x \in Hosts PROVE \E t \in S : f[t] = x
    <3>1. PICK p \in Pod, e \in Index, h \in Index : x = Host(p, e, h)
      BY <2>2 DEF Hosts
    <3>2. <<<<p, e>>, h>> \in S /\ f[<<<<p, e>>, h>>] = x
      BY <3>1
    <3> QED BY <3>2
  <2> HIDE DEF S
  <2>3. f \in [S -> Hosts]
    BY <2>1
  <2> HIDE DEF f
  <2> QED BY <2>2, <2>3 DEF Surjection
<1> HIDE DEF S, f
<1>3. IsFiniteSet(Hosts)
  BY <1>1, <1>2, FS_Surjection
<1>4. Hosts # {}
  BY AnyHostIsHost
<1>5. Cardinality(Hosts) \in Nat /\ Cardinality(Hosts) # 0
  BY <1>3, <1>4, FS_CardinalityType, FS_EmptySet
<1>6. /\ IsFiniteSet(Hosts \ {AnyHost})
      /\ Cardinality(Hosts \ {AnyHost}) <= Cardinality(Hosts)
  BY <1>3, FS_Subset
<1>7. Cardinality(Hosts \ {AnyHost}) \in Nat
  BY <1>6, FS_CardinalityType
<1> QED BY <1>3, <1>5, <1>6, <1>7

(* What is known of the agenda besides its type: it is empty at first, and  *)
(* only the flows of the generators get pairs.                              *)
TypeInv ==
  /\ TypeOK
  /\ pc = "generate" => agenda = <<>>
  /\ pc \in {"source", "locality", "host", "edge", "pod", "start"} => expType \in {"cdf", "normal"}

(* The agendas of the other experiment types. *)
LEMMA OthersAgenda ==
  ASSUME TypeInv, StartOthers
  PROVE  /\ Len(agenda') <= Cardinality(Hosts)
         /\ \A n \in DOMAIN agenda' : agenda'[n].size % Unit = 0
<1> DEFINE incast == [n \in 1 .. Cardinality(Hosts \ {AnyHost}) |->
                        Client(CLIENTS_START_TIME, flowSize)]
           test == <<Client(CLIENTS_START_TIME, 10 * Unit)>>
<1>1. /\ expType = "incast" /\ flowSize % Unit = 0 => agenda' = incast
      /\ expType = "test" => agenda' = test
      /\ ~(expType = "incast" /\ flowSize % Unit = 0) /\ expType # "test" => agenda' = agenda
  <2>1. agenda' = CASE expType = "incast" /\ flowSize % Unit = 0 -> incast
                    [] expType = "test" -> test
                    [] OTHER -> agenda
    BY Zenon DEF StartOthers
  <2>2. ~(expType = "incast" /\ expType = "test")
    OBVIOUS
  <2> HIDE DEF incast, test
  <2> QED BY <2>1, <2>2, Zenon
<1>2. agenda = <<>>
  BY DEF TypeInv, StartOthers
<1>3. CASE expType = "incast" /\ flowSize % Unit = 0
  <2>1. /\ DOMAIN incast = 1 .. Cardinality(Hosts \ {AnyHost})
        /\ \A n \in DOMAIN incast : incast[n].size = flowSize
    BY DEF Client
  <2>2. Len(incast) = Cardinality(Hosts \ {AnyHost})
    BY HostsFinite
  <2> HIDE DEF incast
  <2> QED BY <1>1, <1>3, <2>1, <2>2, HostsFinite
<1>4. CASE expType = "test"
  <2>1. (10 * Unit) % Unit = 0
    BY DEF Unit
  <2>2. Len(test) = 1 /\ \A n \in DOMAIN test : test[n].size = 10 * Unit
    BY DEF Client
  <2> HIDE DEF test, incast
  <2>3. agenda' = test
    BY <1>1, <1>4
  <2>4. \A n \in DOMAIN agenda' : agenda'[n].size % Unit = 0
    BY <2>1, <2>2, <2>3
  <2>5. 1 <= Cardinality(Hosts)
    BY HostsFinite
  <2> QED BY <2>2, <2>3, <2>4, <2>5
<1>5. CASE agenda' = agenda
  <2>1. Len(<<>>) = 0 /\ DOMAIN <<>> = {}
    OBVIOUS
  <2> QED BY <1>2, <1>5, <2>1, HostsFinite
<1> QED BY <1>1, <1>3, <1>4, <1>5

LEMMA TypeStep ==
  ASSUME FlowsInv, AgendaInv, TypeInv, [Next]_vars PROVE TypeInv'
<1>1. /\ expType \in ExpTypes /\ simTime \in SimTimes /\ flowSize \in FlowSizes
      /\ src \in Hosts /\ dst \in Hosts /\ num \in Samples \cup {0}
      /\ expType \in {"cdf", "normal"} => Len(agenda) <= Len(flows)
      /\ expType \notin {"cdf", "normal"} => Len(agenda) <= Cardinality(Hosts)
      /\ \A n \in DOMAIN agenda : agenda[n].size % Unit = 0
      /\ pc = "generate" => agenda = <<>>
      /\ pc \in {"source", "locality", "host", "edge", "pod", "start"} => expType \in {"cdf", "normal"}
  BY DEF TypeInv, TypeOK
<1>2. options' = options => UNCHANGED <<expType, simTime, flowSize>>
  BY DEF options
<1>3. FlowsInv' /\ AgendaInv'
  BY TrafficStep
<1>4. ASSUME options' = options, agenda' = agenda,
             src' \in Hosts, dst' \in Hosts, num' \in Samples \cup {0},
             pc' \in {"generate", "source", "locality", "host", "edge", "pod", "start", "run", "fatal"},
             pc' = "generate" => pc = "generate",
             pc' \in {"source", "locality", "host", "edge", "pod", "start"} => expType \in {"cdf", "normal"}
      PROVE  TypeInv'
  <2>1. expType \in {"cdf", "normal"} => Len(agenda') <= Len(flows')
    BY <1>2, <1>3, <1>4 DEF AgendaInv
  <2> QED BY <1>1, <1>2, <1>4, <2>1 DEF TypeInv, TypeOK
<1>5. CASE GenerateCdf \/ GenerateNormal \/ Generated
  BY <1>1, <1>4, <1>5 DEF GenerateCdf, GenerateNormal, Generated, TypeInv, TypeOK
<1>6. CASE DrawSource
  BY <1>1, <1>4, <1>6 DEF DrawSource, Pairing
<1>7. CASE DrawLocality
  BY <1>1, <1>4, <1>7 DEF DrawLocality, Pairing
<1>8. CASE DrawHost \/ DrawEdge \/ DrawPod
  <2>1. /\ dst' \in Hosts /\ UNCHANGED <<src, num>> /\ pc' = "start" /\ Pairing
        /\ pc \in {"host", "edge", "pod"}
    <3>1. src[2] \in Pod /\ src[3] \in Index
      BY <1>1, HostFields
    <3> QED BY <1>8, <3>1, HostFields DEF DrawHost, DrawEdge, DrawPod
  <2> QED BY <1>1, <1>4, <2>1 DEF Pairing
<1>9. CASE StartFlow
  <2>1. /\ pc = "start" /\ expType \in {"cdf", "normal"}
        /\ options' = options /\ flows' = flows
    BY <1>1, <1>9 DEF StartFlow
  <2>2. CASE flows[Len(agenda) + 1].size % Unit # 0
    BY <1>1, <1>4, <1>9, <2>1, <2>2 DEF StartFlow
  <2>3. CASE flows[Len(agenda) + 1].size % Unit = 0
    <3> DEFINE m == Len(agenda) + 1
               client == Client(CLIENTS_START_TIME + flows[m].at, flows[m].size)
    <3>1. /\ agenda' = Append(agenda, client)
          /\ pc' \in {"run", "source"} /\ src' = AnyHost /\ dst' = AnyHost /\ num' = 0
      BY <1>9, <2>3 DEF StartFlow, NextPair
    <3> HIDE DEF client
    <3>2. agenda \in Seq(Flow) /\ agenda' \in Seq(Flow)
      BY <1>2, <1>3, <2>1 DEF AgendaInv
    <3>3. /\ DOMAIN agenda = 1 .. Len(agenda) /\ DOMAIN agenda' = 1 .. m
          /\ Len(agenda) \in Nat
      BY <3>1, <3>2
    <3>4. /\ \A n \in DOMAIN agenda' : agenda'[n].size = flows[n].size
          /\ \A n \in DOMAIN agenda : agenda[n].size = flows[n].size
          /\ Len(agenda') <= Len(flows')
      BY <1>2, <1>3, <2>1 DEF AgendaInv
    <3>5. \A n \in DOMAIN agenda' : agenda'[n].size % Unit = 0
      <4>1. \A n \in DOMAIN agenda' : n \in DOMAIN agenda \/ n = m
        BY <3>3
      <4>2. flows[m].size % Unit = 0
        BY <2>3
      <4> HIDE DEF m
      <4> QED BY <1>1, <3>4, <4>1, <4>2
    <3>6. src' \in Hosts /\ dst' \in Hosts /\ num' \in Samples \cup {0}
      BY <3>1, AnyHostIsHost
    <3> QED BY <1>1, <1>2, <2>1, <3>1, <3>4, <3>5, <3>6 DEF TypeInv, TypeOK
  <2> QED BY <2>2, <2>3
<1>10. CASE StartOthers
  <2>1. /\ expType \notin {"cdf", "normal"} /\ pc' \in {"run", "fatal"}
        /\ options' = options /\ UNCHANGED <<src, dst, num>>
    <3>1. pc' = IF agenda' = agenda THEN "fatal" ELSE "run"
      BY <1>10, Zenon DEF StartOthers
    <3> QED BY <1>10, <3>1 DEF StartOthers
  <2>2. /\ Len(agenda') <= Cardinality(Hosts)
        /\ \A n \in DOMAIN agenda' : agenda'[n].size % Unit = 0
    BY <1>10, OthersAgenda
  <2> QED BY <1>1, <1>2, <2>1, <2>2 DEF TypeInv, TypeOK
<1>11. CASE UNCHANGED vars
  BY <1>1, <1>4, <1>11 DEF vars, TypeInv, TypeOK
<1> QED BY <1>5, <1>6, <1>7, <1>8, <1>9, <1>10, <1>11 DEF Next

(* The types: hosts that exist, an agenda no longer than the flows made for *)
(* it or the hosts there are, and only sizes that iperf can send.           *)
THEOREM TypeCorrect == Spec => []TypeOK
<1>1. Init => FlowsInv /\ AgendaInv /\ TypeInv
  <2> SUFFICES ASSUME Init PROVE FlowsInv /\ AgendaInv /\ TypeInv
    OBVIOUS
  <2>1. FlowsInv /\ AgendaInv
    BY TrafficAssumption DEF Init, FlowsInv, AgendaInv, CLIENTS_START_TIME
  <2>2. Len(<<>>) = 0 /\ DOMAIN <<>> = {}
    OBVIOUS
  <2>3. TypeInv
    BY <2>2, AnyHostIsHost, HostsFinite DEF Init, TypeInv, TypeOK
  <2> QED BY <2>1, <2>3
<1>2. FlowsInv /\ AgendaInv /\ TypeInv /\ [Next]_vars => FlowsInv' /\ AgendaInv' /\ TypeInv'
  BY TrafficStep, TypeStep
<1>3. TypeInv => TypeOK
  BY DEF TypeInv
<1> QED BY <1>1, <1>2, <1>3, PTL DEF Spec

-----------------------------------------------------------------------------

(* A set of natural numbers has a least element. *)
LEMMA MinIsLeast ==
  ASSUME NEW S \in SUBSET Nat, S # {}
  PROVE  Min(S) \in S /\ \A y \in S : Min(S) <= y
<1>1. PICK x \in S : \A y \in S : <<y, x>> \notin OpToRel(<, Nat)
  BY WFMin, NatLessThanWellFounded, Zenon
<1>2. \A y \in S : ~(y < x)
  BY <1>1, Zenon DEF OpToRel
<1>3. \A y \in S : x <= y
  BY <1>2
<1> QED BY <1>3, Zenon DEF Min

(* The lines of the file give the sizes in increasing order. *)
SizesIncrease == \A m, n \in DOMAIN cdf : m <= n => cdf[m][1] <= cdf[n][1]

(* The first line that a sample is within is the smallest such size.        *)
LEMMA FirstIsSmallest ==
  ASSUME SizesIncrease, NEW sample \in Samples, SizesFor(sample) # {}
  PROVE  cdf[Min(SizesFor(sample))][1]
           = Min({cdf[m][1] : m \in {l \in DOMAIN cdf : cdf[l][2] >= sample}})
<1> DEFINE L == SizesFor(sample)
           V == {cdf[m][1] : m \in L}
           m0 == Min(L)
<1>1. /\ sample \in Int /\ DOMAIN cdf \subseteq Nat
      /\ \A n \in DOMAIN cdf : cdf[n][1] \in Nat /\ cdf[n][2] \in Int
  <2>1. cdf \in Seq(Nat \X (0 .. 100)) /\ Samples \subseteq 0 .. 99
    BY TrafficAssumption
  <2>2. \A n \in DOMAIN cdf : cdf[n] \in Nat \X (0 .. 100)
    BY <2>1
  <2>3. ASSUME NEW n \in DOMAIN cdf PROVE cdf[n][1] \in Nat /\ cdf[n][2] \in Int
    <3>1. \A e \in Nat \X (0 .. 100) : e[1] \in Nat /\ e[2] \in Int
      OBVIOUS
    <3> QED BY <2>2, <3>1
  <2>4. sample \in Int /\ DOMAIN cdf \subseteq Nat
    BY <2>1
  <2> QED BY <2>3, <2>4
<1>2. L = {l \in DOMAIN cdf : cdf[l][2] >= sample}
  BY <1>1 DEF SizesFor
<1>3. L \subseteq DOMAIN cdf /\ L \subseteq Nat
  BY <1>1 DEF SizesFor
<1>4. m0 \in L /\ \A l \in L : m0 <= l
  BY <1>3, MinIsLeast
<1> HIDE DEF L, m0
<1>5. V \in SUBSET Nat /\ cdf[m0][1] \in V
  BY <1>1, <1>3, <1>4
<1>6. \A v \in V : cdf[m0][1] <= v
  BY <1>3, <1>4 DEF SizesIncrease
<1> HIDE DEF V
<1>7. Min(V) \in V /\ \A v \in V : Min(V) <= v
  BY <1>5, MinIsLeast
<1>8. cdf[m0][1] = Min(V)
  <2>1. cdf[m0][1] \in Nat /\ Min(V) \in Nat
    BY <1>5, <1>7, Zenon
  <2>2. cdf[m0][1] <= Min(V) /\ Min(V) <= cdf[m0][1]
    BY <1>5, <1>6, <1>7, Zenon
  <2>3. \A x, y \in Nat : x <= y /\ y <= x => x = y
    OBVIOUS
  <2> QED BY <2>1, <2>2, <2>3, Zenon
<1> QED BY <1>2, <1>8, Zenon DEF V, m0, L

(* The sample each flow was made for, and the line it is within. *)
QuantileInv ==
  expType = "cdf" =>
    /\ drawn \in Seq(Samples) /\ Len(drawn) = Len(flows)
    /\ \A n \in DOMAIN flows :
         SizesFor(drawn[n]) # {} /\ flows[n].size = cdf[Min(SizesFor(drawn[n]))][1]

LEMMA QuantileStep ==
  ASSUME FlowsInv, QuantileInv, [Next]_vars PROVE QuantileInv'
<1>1. CASE UNCHANGED <<expType, flows, drawn>>
  BY <1>1 DEF QuantileInv
<1>2. CASE GenerateCdf
  <2>1. PICK sample \in Samples :
          \/ UNCHANGED <<flows, drawn>>
          \/ /\ SizesFor(sample) # {}
             /\ flows' = Append(flows, [at |-> time, size |-> cdf[Min(SizesFor(sample))][1]])
             /\ drawn' = Append(drawn, sample)
    BY <1>2, Zenon DEF GenerateCdf
  <2>2. expType = "cdf" /\ expType' = "cdf"
    BY <1>2 DEF GenerateCdf, options
  <2>3. CASE UNCHANGED <<flows, drawn>>
    BY <1>1, <2>2, <2>3
  <2>4. CASE ~UNCHANGED <<flows, drawn>>
    <3> DEFINE size == cdf[Min(SizesFor(sample))][1]
               flow == [at |-> time, size |-> size]
               k == Len(flows) + 1
    <3>1. /\ SizesFor(sample) # {}
          /\ flows' = Append(flows, flow) /\ drawn' = Append(drawn, sample)
      BY <2>1, <2>4
    <3>2. flow.size = size
      OBVIOUS
    <3>3. flow \in Flow
      BY DEF FlowsInv, Flow, Sizes
    <3>4. /\ flows \in Seq(Flow) /\ drawn \in Seq(Samples) /\ Len(drawn) = Len(flows)
          /\ \A n \in DOMAIN flows :
               SizesFor(drawn[n]) # {} /\ flows[n].size = cdf[Min(SizesFor(drawn[n]))][1]
      BY <2>2 DEF FlowsInv, QuantileInv
    <3> HIDE DEF size, flow
    <3>5. /\ Len(flows) \in Nat /\ DOMAIN flows = 1 .. Len(flows) /\ DOMAIN flows' = 1 .. k
          /\ Len(flows') = k /\ flows'[k] = flow /\ \A n \in DOMAIN flows : flows'[n] = flows[n]
      BY <3>1, <3>3, <3>4
    <3>6. /\ drawn' \in Seq(Samples) /\ Len(drawn') = k
          /\ drawn'[k] = sample /\ \A n \in DOMAIN flows : drawn'[n] = drawn[n]
      BY <3>1, <3>4, <3>5
    <3>7. ASSUME NEW n \in DOMAIN flows'
          PROVE  SizesFor(drawn'[n]) # {} /\ flows'[n].size = cdf[Min(SizesFor(drawn'[n]))][1]
      <4>1. CASE n \in DOMAIN flows
        BY <3>4, <3>5, <3>6, <4>1
      <4>2. CASE n = k
        BY <3>1, <3>2, <3>5, <3>6, <4>2 DEF size
      <4> QED BY <3>5, <4>1, <4>2
    <3> QED BY <3>5, <3>6, <3>7 DEF QuantileInv, SizesFor
  <2> QED BY <2>3, <2>4
<1>3. CASE GenerateNormal
  BY <1>3 DEF GenerateNormal, QuantileInv, options
<1>4. CASE Generated \/ DrawSource \/ DrawLocality \/ DrawHost \/ DrawEdge \/ DrawPod
  BY <1>1, <1>4 DEF Generated, DrawSource, DrawLocality, DrawHost, DrawEdge, DrawPod, Pairing, options
<1>5. CASE StartFlow
  BY <1>1, <1>5 DEF StartFlow, options
<1>6. CASE StartOthers
  BY <1>1, <1>6, Zenon DEF StartOthers, options
<1>7. CASE UNCHANGED vars
  BY <1>1, <1>7 DEF vars, options
<1> QED BY <1>2, <1>3, <1>4, <1>5, <1>6, <1>7 DEF Next

(* The sizes are quantiles of the distribution: each flow has the smallest  *)
(* size whose cumulative probability reaches the sample it was drawn for,   *)
(* for every file whose sizes increase.                                     *)
THEOREM SizesAreQuantilesCorrect ==
  ASSUME SizesIncrease
  PROVE  Spec => []SizesAreQuantiles
<1>1. Init => FlowsInv /\ AgendaInv /\ QuantileInv
  <2> SUFFICES ASSUME Init PROVE FlowsInv /\ AgendaInv /\ QuantileInv
    OBVIOUS
  <2>1. FlowsInv /\ AgendaInv
    BY TrafficAssumption DEF Init, FlowsInv, AgendaInv, CLIENTS_START_TIME
  <2>2. <<>> \in Seq(Samples) /\ Len(<<>>) = 0 /\ DOMAIN <<>> = {}
    OBVIOUS
  <2> QED BY <2>1, <2>2 DEF Init, QuantileInv
<1>2. FlowsInv /\ AgendaInv /\ QuantileInv /\ [Next]_vars
        => FlowsInv' /\ AgendaInv' /\ QuantileInv'
  BY TrafficStep, QuantileStep
<1>3. ASSUME FlowsInv, QuantileInv PROVE SizesAreQuantiles
  <2> SUFFICES ASSUME expType = "cdf", NEW n \in DOMAIN flows
               PROVE  flows[n].size
                        = Min({cdf[m][1] : m \in {l \in DOMAIN cdf : cdf[l][2] >= drawn[n]}})
    BY DEF SizesAreQuantiles
  <2>1. /\ SizesFor(drawn[n]) # {} /\ flows[n].size = cdf[Min(SizesFor(drawn[n]))][1]
        /\ drawn \in Seq(Samples) /\ Len(drawn) = Len(flows) /\ flows \in Seq(Flow)
    BY <1>3 DEF FlowsInv, QuantileInv
  <2>2. drawn[n] \in Samples
    BY <2>1
  <2> QED BY <2>1, <2>2, FirstIsSmallest
<1> QED BY <1>1, <1>2, <1>3, PTL DEF Spec
=============================================================================

------------------------------- MODULE Traffic -------------------------------
(***************************************************************************)
(* The traffic of one simulation: main() of fat-tree.cc with the flow       *)
(* generators, getSourceDestPairs and StartFlow of misc-tools.cc.  What it  *)
(* makes is an agenda: the clients to start, and when.                      *)
(*                                                                         *)
(* Times are in tenths of a second and probabilities in percent.  The       *)
(* milliseconds that set apart the senders of an incast, and the one client *)
(* of a test, are left out.                                                 *)
(***************************************************************************)
EXTENDS FatTree, FiniteSetsExt

CONSTANTS
  ExpTypes,     (* experiment types, values of expType                      *)
  SimTimes,     (* values of simTime                                        *)
  FlowSizes,    (* values of flowSize, for the incast                       *)
  cdf,          (* lines of distrFile: <<size, prob>>                       *)
  Samples,      (* what a uniform distribution over 0.0 .. 1.0 may yield    *)
  Gaps,         (* what the exponential distribution may yield              *)
  MaxFlows      (* bound: flows generated                                   *)

ASSUME TrafficAssumption ==
  /\ SimTimes \subseteq Nat /\ Samples \subseteq 0 .. 99 /\ Gaps \subseteq Nat
  /\ cdf \in Seq(Nat \X (0 .. 100))

CLIENTS_START_TIME == 20
sameEdgeProb == 20     (* main passes 0.2 and 0.3 and not its options       *)
samePodProb == 30
Unit == 128000         (* StartFlow takes multiples of this                 *)

VARIABLES
  pc,        (* "generate", "source", "locality", "host", "edge", "pod",    *)
             (* "start", then "run", or "fatal"                             *)
  expType, simTime, flowSize,  (* options                                   *)
  time,      (* clock of the generator                                      *)
  flows,     (* what it has generated: at, size                             *)
  src, dst,  (* the pair that getSourceDestPairs is making                  *)
  num,       (* the number it has drawn for the locality                    *)
  agenda,    (* clients scheduled: at, size (the pair of the next one is    *)
             (* src and dst)                                                *)
  drawn      (* history: the samples the sizes were taken for               *)

options == <<expType, simTime, flowSize>>
vars == <<pc, options, time, flows, src, dst, num, agenda, drawn>>

AnyHost == Host(0, 0, 0)

TypeOK ==
  /\ pc \in {"generate", "source", "locality", "host", "edge", "pod", "start", "run", "fatal"}
  /\ expType \in ExpTypes /\ simTime \in SimTimes /\ flowSize \in FlowSizes
  /\ src \in Hosts /\ dst \in Hosts /\ num \in Samples \cup {0}
  /\ Len(agenda) <= IF expType \in {"cdf", "normal"} THEN Len(flows) ELSE Cardinality(Hosts)
  /\ \A n \in DOMAIN agenda : agenda[n].size % Unit = 0

Init ==
  /\ pc = "generate"
  /\ expType \in ExpTypes /\ simTime \in SimTimes /\ flowSize \in FlowSizes
  /\ time = CLIENTS_START_TIME + 5
  /\ flows = <<>> /\ agenda = <<>> /\ drawn = <<>>
  /\ src = AnyHost /\ dst = AnyHost /\ num = 0

-----------------------------------------------------------------------------
(* generateFlowsNormalDist and generateFlowsCdf *)

(* BUG: a sample that is on a step of the distribution takes the next one.  *)
SizesAbove(sample) == {n \in DOMAIN cdf : sample < cdf[n][2]}

(* The lines a sample is within; the first of them gives the size.          *)
SizesFor(sample) == {n \in DOMAIN cdf : sample <= cdf[n][2]}

(* "Stop generating flows for the last 5 seconds": there is time for one    *)
(* more.  (The bound stands for gaps that are long enough.)                 *)
More == time < simTime - 50 /\ Len(flows) < MaxFlows

GenerateCdf ==
  /\ pc = "generate" /\ expType = "cdf" /\ More
  /\ \E sample \in Samples, gap \in Gaps :
       /\ time' = time + gap
       /\ IF SizesFor(sample) = {} THEN UNCHANGED <<flows, drawn>>
          ELSE /\ flows' = Append(flows, [at |-> time, size |-> cdf[Min(SizesFor(sample))][1]])
               /\ drawn' = Append(drawn, sample)
  /\ UNCHANGED <<pc, options, src, dst, num, agenda>>

(* The sizes of the normal distribution are generated and not used.         *)
GenerateNormal ==
  /\ pc = "generate" /\ expType = "normal" /\ More
  /\ \E gap \in Gaps : time' = time + gap
  /\ flows' = Append(flows, [at |-> time, size |-> Unit])
  /\ UNCHANGED <<pc, options, src, dst, num, agenda, drawn>>

Generated ==
  /\ pc = "generate" /\ expType \in {"cdf", "normal"} /\ ~More
  /\ pc' = IF flows = <<>> THEN "run" ELSE "source"
  /\ UNCHANGED <<options, time, flows, src, dst, num, agenda, drawn>>

-----------------------------------------------------------------------------
(* getSourceDestPairs *)

Pairing == UNCHANGED <<options, time, flows, agenda, drawn>>

DrawSource ==
  /\ pc = "source"
  /\ src' \in Hosts
  /\ pc' = "locality"
  /\ Pairing /\ UNCHANGED <<dst, num>>

DrawLocality ==
  /\ pc = "locality"
  /\ num' \in Samples
  /\ pc' = IF num' < sameEdgeProb THEN "host"
           ELSE IF num' < sameEdgeProb + samePodProb THEN "edge" ELSE "pod"
  /\ Pairing /\ UNCHANGED <<src, dst>>

(* A draw that must not be the source's is repeated while it is: where      *)
(* there is no other (in a fabric of 2-port switches) it never ends.        *)

(* BUG: the host itself is not excluded. *)
DrawAnyHost ==
  /\ pc = "host"
  /\ \E h \in Index : dst' = Host(src[2], src[3], h)
  /\ pc' = "start" /\ Pairing /\ UNCHANGED <<src, num>>

DrawHost ==
  /\ pc = "host"
  /\ \E h \in Index \ {src[4]} : dst' = Host(src[2], src[3], h)
  /\ pc' = "start" /\ Pairing /\ UNCHANGED <<src, num>>

(* BUG: the last switch of the pod is never drawn. *)
DrawEdgeTooFew ==
  /\ pc = "edge"
  /\ \E e \in 0 .. Half - 2 : e # src[3] /\ \E h \in Index : dst' = Host(src[2], e, h)
  /\ pc' = "start" /\ Pairing /\ UNCHANGED <<src, num>>

DrawEdge ==
  /\ pc = "edge"
  /\ \E e \in Index \ {src[3]}, h \in Index : dst' = Host(src[2], e, h)
  /\ pc' = "start" /\ Pairing /\ UNCHANGED <<src, num>>

DrawPod ==
  /\ pc = "pod"
  /\ \E p \in Pod \ {src[2]}, e \in Index, h \in Index : dst' = Host(p, e, h)
  /\ pc' = "start" /\ Pairing /\ UNCHANGED <<src, num>>

-----------------------------------------------------------------------------

Client(at, size) == [at |-> at, size |-> size]

(* The pair is done with; the next one is drawn, or the simulation starts.  *)
NextPair ==
  /\ pc' = IF Len(agenda') = Len(flows) THEN "run" ELSE "source"
  /\ src' = AnyHost /\ dst' = AnyHost /\ num' = 0

(* BUG: the size is not looked at. *)
StartFlowAnySize ==
  LET flow == flows[Len(agenda) + 1] IN
  /\ pc = "start"
  /\ agenda' = Append(agenda, Client(CLIENTS_START_TIME + flow.at, flow.size))
  /\ NextPair
  /\ UNCHANGED <<options, time, flows, drawn>>

(* StartFlow, for the next flow; CLIENTS_START_TIME is added once more.     *)
StartFlow ==
  LET flow == flows[Len(agenda) + 1] IN
  /\ pc = "start"
  /\ IF flow.size % Unit # 0
     THEN pc' = "fatal" /\ UNCHANGED <<agenda, src, dst, num>>
     ELSE /\ agenda' = Append(agenda, Client(CLIENTS_START_TIME + flow.at, flow.size))
          /\ NextPair
  /\ UNCHANGED <<options, time, flows, drawn>>

(* Every other host sends to host[0][0][0], or a test flow is sent, or the  *)
(* type is unknown.                                                         *)
StartOthers ==
  /\ pc = "generate" /\ expType \notin {"cdf", "normal"}
  /\ agenda' = CASE expType = "incast" /\ flowSize % Unit = 0 ->
                      [n \in 1 .. Cardinality(Hosts \ {AnyHost}) |->
                         Client(CLIENTS_START_TIME, flowSize)]
                 [] expType = "test" -> <<Client(CLIENTS_START_TIME, 10 * Unit)>>
                 [] OTHER -> agenda
  /\ pc' = IF agenda' = agenda THEN "fatal" ELSE "run"
  /\ UNCHANGED <<options, time, flows, src, dst, num, drawn>>

Next ==
  \/ GenerateCdf \/ GenerateNormal \/ Generated
  \/ DrawSource \/ DrawLocality \/ DrawHost \/ DrawEdge \/ DrawPod
  \/ StartFlow \/ StartOthers

(* main() runs on. *)
Spec == Init /\ [][Next]_vars /\ WF_vars(Next)

-----------------------------------------------------------------------------
(* Properties *)

(* No host sends to itself, and the number drawn decides how far apart the  *)
(* two are: under one edge switch, in one pod, or in two pods.              *)
PairHasAskedLocality ==
  pc = "start" =>
    /\ dst # src
    /\ (dst[2] = src[2]) <=> (num < sameEdgeProb + samePodProb)
    /\ (dst[2] = src[2] /\ dst[3] = src[3]) <=> (num < sameEdgeProb)

(* The sizes follow the distribution of the file: a flow has the smallest   *)
(* size whose cumulative probability reaches the sample.                    *)
SizesAreQuantiles ==
  expType = "cdf" => \A n \in DOMAIN flows :
    flows[n].size = Min({cdf[m][1] : m \in {l \in DOMAIN cdf : cdf[l][2] >= drawn[n]}})

(* When the simulation starts every flow has its client, in the order they  *)
(* were generated, and all of them start before its last 3 seconds: the     *)
(* generators stop 5 seconds before the end, by a clock that has            *)
(* CLIENTS_START_TIME in it, and main() adds it again.                      *)
EveryFlowHasItsClient ==
  pc = "run" /\ expType \in {"cdf", "normal"} =>
    /\ Len(agenda) = Len(flows)
    /\ \A n \in DOMAIN agenda :
         /\ agenda[n].size = flows[n].size
         /\ agenda[n].at < simTime - 30
         /\ n > 1 => agenda[n - 1].at <= agenda[n].at

(* "Stop generating flows for the last 5 seconds of the total time in order *)
(* to let all the flows finish inside the simulation window"                *)
(* (misc-tools.cc:117): no client starts in the last 5 seconds.             *)
LastFiveSecondsAreFree ==
  pc = "run" /\ expType \in {"cdf", "normal"} =>
    \A n \in DOMAIN agenda : agenda[n].at < simTime - 50

(* The set-up comes to an end: the simulation starts, or the program        *)
(* refuses a size or a type.                                                *)
SetUpEnds == <>(pc \in {"run", "fatal"})
=============================================================================

----------------------------- MODULE MCFabric -----------------------------
(* A fat-tree of 4-port switches and one edge switch that two flows enter  *)
(* by: "far" to another pod, "near" to another edge switch of the pod.     *)
(* They hash to the same path, and 61 % 100 and 97 % 100 are both beyond a *)
(* small offset.                                                           *)
EXTENDS Fabric

MCFlows == {"far", "near"}
MCSrc == [f \in MCFlows |-> IF f = "far" THEN Host(0, 0, 0) ELSE Host(0, 0, 1)]
MCDst == [f \in MCFlows |-> IF f = "far" THEN Host(1, 1, 0) ELSE Host(0, 1, 0)]
MCHash == [f \in MCFlows |-> IF f = "far" THEN 61 ELSE 97]
MCReHash == [f \in MCFlows |-> IF f = "far" THEN 2 ELSE 4]
MCSwitchHash == [n \in Edges \cup Aggs |-> [f \in MCFlows |->
  IF n[1] = "edge" THEN 65536 + n[3] ELSE IF f = "far" THEN 5 ELSE 2]]
MCMaxSend == [f \in MCFlows |-> IF f = "far" THEN 2 ELSE 1]
=============================================================================

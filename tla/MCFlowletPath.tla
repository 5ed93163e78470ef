--------------------------- MODULE MCFlowletPath ---------------------------
(* Two flows that share an entry at the edge and at one of two aggregation  *)
(* switches, and not at the other.                                          *)
EXTENDS FlowletPath

MCFlows == {"a", "b"}
MCHash == [f \in MCFlows |-> IF f = "a" THEN 7 ELSE 65536 + 7]
MCAggHash ==
  (0 :> [f \in MCFlows |-> IF f = "a" THEN 2 ELSE 65536 + 2])
    @@ (1 :> [f \in MCFlows |-> IF f = "a" THEN 2 ELSE 3])
=============================================================================

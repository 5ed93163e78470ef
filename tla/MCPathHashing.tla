--------------------------- MODULE MCPathHashing ---------------------------
(* Four paths (k = 4) and four flows: two that hash to path 0 with a low    *)
(* and a high residue, one that rehashes to the path it came from, one on   *)
(* its own path.                                                            *)
EXTENDS PathHashing

MCFlows == {"cold", "hot", "same", "far"}
MCHash == [f \in MCFlows |-> CASE f = "cold" -> 8 [] f = "hot" -> 60
                               [] f = "same" -> 41 [] f = "far" -> 99]
MCReHash == [f \in MCFlows |-> CASE f = "cold" -> 3 [] f = "hot" -> 1
                                 [] f = "same" -> 5 [] f = "far" -> 0]
=============================================================================

------------------------------ MODULE MCAnneal ------------------------------
(* Two parameters of anneal_robust.py with few values, two lists of seeds,  *)
(* and completion times with a hill between two valleys.                    *)
EXTENDS Anneal

MCNames == {"ecnThresh", "dctcpEnable"}
MCStart == [n \in MCNames |-> IF n = "ecnThresh" THEN 10 ELSE 1]
MCLow == [n \in MCNames |-> IF n = "ecnThresh" THEN 5 ELSE 0]
MCHigh == [n \in MCNames |-> IF n = "ecnThresh" THEN 15 ELSE 1]
MCStep == [n \in MCNames |-> IF n = "ecnThresh" THEN 5 ELSE 1]

MCSeedLists == {<<1, 2, 1, 1, 2>>, <<2, 2, 1, 1, 1>>}
MCFct == [s \in {1, 2} |-> [p \in Params |->
           CASE p["ecnThresh"] = 10 -> 3
             [] p["ecnThresh"] = 5 -> s + p["dctcpEnable"]
             [] OTHER -> 0]]
MCMaxGain == [t \in 0 .. T_min - 1 |-> 9 - 2 * t]
=============================================================================

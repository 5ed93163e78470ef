------------------------------ MODULE MCTraffic ------------------------------
(* The fat-tree of 4-port switches, and the file distributions/custom.txt   *)
(* shortened, with a line that iperf cannot send.                           *)
EXTENDS Traffic

MCCdf == <<<<128000, 75>>, <<200000, 80>>, <<384000, 98>>>>
=============================================================================

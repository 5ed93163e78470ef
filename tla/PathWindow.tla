----------------------------- MODULE PathWindow -----------------------------
(***************************************************************************)
(* The load-tracking state of an edge switch of the path-hashing devices   *)
(* (PathHashingNetDevice and PathHashingAdvNetDevice) and the pure steps   *)
(* the devices take on it.  A "path" is a number in 0 .. totalPaths-1: the *)
(* pair (uplink of the edge switch, uplink of the aggregation switch).     *)
(*                                                                         *)
(* Flows are abstract.  What the code computes from the addresses and the  *)
(* ports of a packet are two numbers: getHash (Murmur3) and getHash_2      *)
(* (FNV-1a).  They depend on the flow only, so they are constants.         *)
(***************************************************************************)
EXTENDS Integers, FiniteSets

CONSTANTS
  totalPaths,    (* number of up-paths of an edge switch                   *)
  uplinkPorts,   (* uplinks of an edge switch, and of an aggregation one   *)
  Flows,         (* the connections that send through the switch           *)
  Hash,          (* Hash[f]: getHash of the packets of flow f              *)
  ReHash,        (* ReHash[f]: getHash_2 of the packets of flow f          *)
  Garbage        (* values an uninitialised uint32_t field may hold        *)

ASSUME PathsAssumption ==
  /\ uplinkPorts \in Nat \ {0}
  /\ totalPaths \in 1 .. uplinkPorts * uplinkPorts

ASSUME HashAssumption ==
  /\ Hash \in [Flows -> Nat]
  /\ ReHash \in [Flows -> Nat]

ASSUME GarbageAssumption == Garbage \subseteq Nat

Paths == 0 .. totalPaths - 1

Window == [pathCounter : [Paths -> Nat], totalPackets : Nat,
           maxPath : Paths, packetsOnMaxPath : Nat,
           previousMaxPath : Nat, packetsOnPreviousMaxPath : Nat, offset : Nat]

(***************************************************************************)
(* The state Install leaves: the helper sets the counters and maxPath, and *)
(* leaves previousMaxPath, packetsOnPreviousMaxPath and offset as the      *)
(* allocation found them.  packetsOnPreviousMaxPath is written before it   *)
(* is read, so one value stands for all.                                   *)
(***************************************************************************)
InstalledWindows ==
  [pathCounter : {[p \in Paths |-> 0]}, totalPackets : {0},
   maxPath : {0}, packetsOnMaxPath : {0},
   previousMaxPath : Garbage, packetsOnPreviousMaxPath : {0},
   offset : Garbage]

hashToPath(f) == Hash[f] % totalPaths
reHashToPath(f) == ReHash[f] % totalPaths

(* The port of the edge switch and the port of the aggregation switch that *)
(* a path stands for.  The second travels in the ToS byte (uint8_t).       *)
EdgePort(p) == p \div uplinkPorts
AggPort(p) == (p % uplinkPorts) % 256

-----------------------------------------------------------------------------

(* BUG: the new maximum and its path are written to each other's field.    *)
UpdatePathSwapped(w, p) ==
  LET cnt == w.pathCounter[p] + 1
      overtakes == cnt > w.packetsOnMaxPath
  IN  [w EXCEPT !.pathCounter[p] = cnt,
                !.packetsOnMaxPath = IF overtakes THEN p ELSE @,
                !.maxPath = IF overtakes THEN cnt ELSE @,
                !.totalPackets = @ + 1]

(* BUG: the total is left to the caller.                                   *)
UpdatePathNoTotal(w, p) ==
  LET cnt == w.pathCounter[p] + 1 IN
  [w EXCEPT !.pathCounter[p] = cnt,
            !.packetsOnMaxPath = IF cnt > @ THEN cnt ELSE @,
            !.maxPath = IF cnt > w.packetsOnMaxPath THEN p ELSE @]

(* UpdatePath: one more packet on path p; p becomes the maximum only when  *)
(* it overtakes it.                                                        *)
UpdatePath(w, p) ==
  LET cnt == w.pathCounter[p] + 1
      overtakes == cnt > w.packetsOnMaxPath
  IN  [w EXCEPT !.pathCounter[p] = cnt,
                !.packetsOnMaxPath = IF overtakes THEN cnt ELSE @,
                !.maxPath = IF overtakes THEN p ELSE @,
                !.totalPackets = @ + 1]

(* BUG: the path is looked up against the maximum of the current window.   *)
ChoosePathCurrent(w, f) ==
  IF hashToPath(f) = w.maxPath /\ Hash[f] % 100 > w.offset
  THEN reHashToPath(f) ELSE hashToPath(f)

(* The path a packet of f takes: flows that hash to the hot path of the    *)
(* previous window are sent elsewhere, except the ones whose residue is    *)
(* within offset.                                                          *)
ChoosePath(w, f) ==
  IF hashToPath(f) = w.previousMaxPath /\ Hash[f] % 100 > w.offset
  THEN reHashToPath(f) ELSE hashToPath(f)

(* What EdgeReceiveFromDevice does to the window for a packet of f that    *)
(* goes up.  The base device counts the packet on the path it hashes to,   *)
(* before it is moved; the advanced one on the path it takes.              *)
CountHashed(w, f) == UpdatePath(w, hashToPath(f))
CountTaken(w, f) == UpdatePath(w, ChoosePath(w, f))
Count(adv, w, f) == IF adv THEN CountTaken(w, f) ELSE CountHashed(w, f)

-----------------------------------------------------------------------------

(* BUG: the share of the residues that leaves instead of the one that stays. *)
NewOffsetLeaving(w) ==
  LET equalShare == w.totalPackets \div totalPaths
      onMax == w.pathCounter[w.maxPath]
  IN  IF w.totalPackets >= totalPaths /\ onMax > equalShare
      THEN 100 - 100 \div (onMax \div equalShare)
      ELSE 100

(* BUG: packets are compared with the equal share before it is divided by  *)
(* the number of paths.                                                    *)
NewOffsetNoShare(w) ==
  IF w.pathCounter[w.maxPath] > 1 THEN 100 \div w.pathCounter[w.maxPath] ELSE 100

(* The share of the residues 0 .. 99 that stays on the hot path: all of    *)
(* them in a short or balanced window, else one part in                    *)
(* (packets on the hot path / equal share).                                *)
NewOffset(w) ==
  LET equalShare == w.totalPackets \div totalPaths
      onMax == w.pathCounter[w.maxPath]
  IN  IF w.totalPackets >= totalPaths /\ onMax > equalShare
      THEN 100 \div (onMax \div equalShare)
      ELSE 100

(* BUG: the maximum of the window that ends is kept as this one's count.   *)
ResetWindowKeepMax(w) ==
  [w EXCEPT !.previousMaxPath = w.maxPath,
            !.packetsOnPreviousMaxPath = w.pathCounter[w.maxPath],
            !.offset = NewOffset(w),
            !.totalPackets = 0,
            !.pathCounter = [p \in Paths |-> 0]]

(* resetWindow, the timer that closes a window: the hot path and its       *)
(* offset are kept for the next one and the counters are zeroed; maxPath   *)
(* itself is kept.                                                         *)
ResetWindow(w) ==
  [w EXCEPT !.previousMaxPath = w.maxPath,
            !.packetsOnPreviousMaxPath = w.pathCounter[w.maxPath],
            !.offset = NewOffset(w),
            !.totalPackets = 0,
            !.packetsOnMaxPath = 0,
            !.pathCounter = [p \in Paths |-> 0]]

(* The packets the counters count, packet i of path p for every i up to    *)
(* pathCounter[p]: their number is the sum of the counters.                *)
Counted(pathCounter) == UNION {{p} \X (1 .. pathCounter[p]) : p \in Paths}

(* The assertions resetWindow makes before it zeroes the counters.         *)
ResetAssertions(w) ==
  /\ w.packetsOnMaxPath = w.pathCounter[w.maxPath]
  /\ w.totalPackets = Cardinality(Counted(w.pathCounter))
=============================================================================

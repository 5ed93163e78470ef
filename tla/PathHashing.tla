---------------------------- MODULE PathHashing ----------------------------
(***************************************************************************)
(* One edge switch of the path-hashing devices: packets that go up arrive  *)
(* in any order and resetWindow ends windows at any moment between them.   *)
(***************************************************************************)
EXTENDS PathWindow

CONSTANT MaxPerWindow  (* bound: packets that go up in one window           *)

ASSUME BoundAssumption == MaxPerWindow \in Nat

VARIABLES
  adv,     (* which device is installed: TRUE for PathHashingAdvNetDevice   *)
  win,     (* the window state of the device                                *)
  load,    (* history: packets really sent on each path in this window      *)
  last,    (* history: path of each flow's last packet, NoPath before it    *)
  active,  (* history: flows that have sent in this window                  *)
  closed   (* history: packets counted in the last closed window            *)

vars == <<adv, win, load, last, active, closed>>

NoPath == -1
NoWindow == -1

TypeOK ==
  /\ adv \in BOOLEAN
  /\ win \in Window
  /\ load \in [Paths -> Nat]
  /\ last \in [Flows -> Paths \cup {NoPath}]
  /\ active \in SUBSET Flows
  /\ closed \in Nat \cup {NoWindow}

Init ==
  /\ adv \in BOOLEAN
  /\ win \in InstalledWindows
  /\ load = [p \in Paths |-> 0]
  /\ last = [f \in Flows |-> NoPath]
  /\ active = {}
  /\ closed = NoWindow

(* EdgeReceiveFromDevice on a packet whose destination is not in the table *)
EdgeReceiveUp(f) ==
  /\ win.totalPackets < MaxPerWindow
  /\ win' = Count(adv, win, f)
  /\ LET p == ChoosePath(win, f) IN
       /\ load' = [load EXCEPT ![p] = @ + 1]
       /\ last' = [last EXCEPT ![f] = p]
  /\ active' = active \cup {f}
  /\ UNCHANGED <<adv, closed>>

(* The timer fires and schedules itself again. *)
ResetTimer ==
  /\ win' = ResetWindow(win)
  /\ load' = [p \in Paths |-> 0]
  /\ active' = {}
  /\ closed' = win.totalPackets
  /\ UNCHANGED <<adv, last>>

Next ==
  \/ \E f \in Flows : EdgeReceiveUp(f)
  \/ ResetTimer

Spec == Init /\ [][Next]_vars

-----------------------------------------------------------------------------
(* Properties *)

(* maxPath is a most loaded path of the counters, at every moment of the    *)
(* window and not only when the timer looks at it (UpdatePath keeps it      *)
(* incrementally and never rescans): no path is above packetsOnMaxPath,     *)
(* which is the count of maxPath.                                           *)
HotPathIsArgmax ==
  /\ win.packetsOnMaxPath = win.pathCounter[win.maxPath]
  /\ \A p \in Paths : win.pathCounter[p] <= win.packetsOnMaxPath

(* The assertions of resetWindow (path-hashing-net-device.cc:418-429) hold  *)
(* whenever the timer may fire.                                             *)
AssertionsHold == ResetAssertions(win)

(* The advanced device's counters are the packets really sent on each path. *)
(* The base device's are not, but they err on one side only: packets leave  *)
(* nothing but the hot path of the previous window, so every other path     *)
(* carries at least what is counted on it.                                  *)
CountersBoundLoad ==
  /\ adv => win.pathCounter = load
  /\ \A p \in Paths \ {win.previousMaxPath} : load[p] >= win.pathCounter[p]

(* Once a window has been closed some of the hot path's residues always     *)
(* stay on it: offset is in 100 \div (2*totalPaths-1) .. 100, so it reaches *)
(* 0 (which would move 99 flows in 100 off the hot path) only in a fabric   *)
(* of more than 50 paths.                                                   *)
OffsetInBand ==
  closed # NoWindow => win.offset \in (100 \div (2 * totalPaths - 1)) .. 100

(* The packets of f would be moved off the path they hash to. *)
Moved(f) == hashToPath(f) = win.previousMaxPath /\ Hash[f] % 100 > win.offset

(* Flows are moved only off a path that was overloaded: the window closed   *)
(* last had a packet for every path, and the path they leave had at least   *)
(* twice the equal share of it.  (Before the first reset the fields are not *)
(* initialised, and a flow may be moved off any path.)                      *)
MovesOnlyOffOverloaded ==
  \A f \in Flows : closed # NoWindow /\ Moved(f) =>
     /\ closed >= totalPaths
     /\ win.packetsOnPreviousMaxPath >= 2 * (closed \div totalPaths)

(* A connection keeps one path for a whole window, whatever the other       *)
(* flows do to the counters meanwhile: its packets can be reordered only    *)
(* across a reset.                                                          *)
FlowKeepsPathInWindow ==
  [][\A f \in active : last'[f] = last[f]]_vars
=============================================================================

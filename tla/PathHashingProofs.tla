------------------------- MODULE PathHashingProofs -------------------------
(***************************************************************************)
(* Proofs about one edge switch of the path-hashing devices, for every     *)
(* number of paths, every set of flows and all their hashes, and windows   *)
(* of any length.                                                          *)
(***************************************************************************)
EXTENDS PathHashing, FiniteSetTheorems, TLAPS

(***************************************************************************)
(* Lemmas about the pure steps.                                            *)
(***************************************************************************)

(* The paths are a nonempty range that starts at 0. *)
LEMMA PathsNonEmpty == totalPaths \in Nat \ {0} /\ 0 \in Paths
BY PathsAssumption, SMT DEF Paths

(* Both hashes select a path the switch has (hashToPath, reHashToPath). *)
LEMMA HashesArePaths ==
  ASSUME NEW f \in Flows
  PROVE  hashToPath(f) \in Paths /\ reHashToPath(f) \in Paths
<1>1. Hash[f] \in Nat /\ ReHash[f] \in Nat
  BY HashAssumption
<1>2. \A n \in Nat : n % totalPaths \in 0 .. totalPaths - 1
  BY PathsNonEmpty, SMT
<1>3. QED
  BY <1>1, <1>2, PathsNonEmpty DEF hashToPath, reHashToPath, Paths

(* So does the choice between them (EdgeReceiveFromDevice). *)
LEMMA ChosenPathIsPath ==
  ASSUME NEW w, NEW f \in Flows
  PROVE  ChoosePath(w, f) \in Paths
BY HashesArePaths DEF ChoosePath

(* A path stands for ports that exist: its edge port and its aggregation   *)
(* port are below the number of uplinks, and together they determine the   *)
(* path (EdgeReceiveFromDevice encodes the second in the ToS byte, so a    *)
(* switch of at most 256 uplinks is assumed).                              *)
LEMMA PortsDeterminePath ==
  ASSUME NEW p \in Paths, uplinkPorts <= 256
  PROVE  /\ EdgePort(p) \in 0 .. uplinkPorts - 1
         /\ AggPort(p) \in 0 .. uplinkPorts - 1
         /\ p = EdgePort(p) * uplinkPorts + AggPort(p)
<1> DEFINE u == uplinkPorts
           d == p \div u
           m == p % u
<1>1. u \in Nat \ {0} /\ p \in Nat /\ p < u * u
  BY PathsAssumption, SMT DEF Paths
<1>2. d \in Nat /\ m \in 0 .. u - 1 /\ p = u * d + m
  BY <1>1, SMT
<1>3. d < u
  <2>1. SUFFICES ASSUME d >= u PROVE FALSE
    BY <1>1, <1>2, SMT
  <2>2. u * d >= u * u
    BY <1>1, <1>2, <2>1, SMT
  <2>3. QED
    BY <1>1, <1>2, <2>2, SMT
<1>4. AggPort(p) = m
  BY <1>1, <1>2, SMT DEF AggPort
<1>5. u * d = d * u
  BY <1>1, <1>2, SMT
<1>6. QED
  BY <1>1, <1>2, <1>3, <1>4, <1>5, SMT DEF EdgePort

(* The fields of the window after UpdatePath. *)
LEMMA UpdatePathFields ==
  ASSUME NEW w \in Window, NEW p \in Paths
  PROVE  LET cnt == w.pathCounter[p] + 1
             up == UpdatePath(w, p)
         IN  /\ up \in Window
             /\ up.pathCounter = [w.pathCounter EXCEPT ![p] = cnt]
             /\ up.packetsOnMaxPath = IF cnt > w.packetsOnMaxPath
                                      THEN cnt ELSE w.packetsOnMaxPath
             /\ up.maxPath = IF cnt > w.packetsOnMaxPath THEN p ELSE w.maxPath
             /\ up.totalPackets = w.totalPackets + 1
             /\ up.previousMaxPath = w.previousMaxPath
             /\ up.packetsOnPreviousMaxPath = w.packetsOnPreviousMaxPath
             /\ up.offset = w.offset
<1> DEFINE cnt == w.pathCounter[p] + 1
           counters == [w.pathCounter EXCEPT ![p] = cnt]
           onMax == IF cnt > w.packetsOnMaxPath THEN cnt ELSE w.packetsOnMaxPath
           max == IF cnt > w.packetsOnMaxPath THEN p ELSE w.maxPath
           total == w.totalPackets + 1
<1>1. cnt \in Nat /\ counters \in [Paths -> Nat] /\ onMax \in Nat
      /\ max \in Paths /\ total \in Nat
  BY DEF Window
<1>2. UpdatePath(w, p) =
        [w EXCEPT !.pathCounter = counters, !.packetsOnMaxPath = onMax,
                  !.maxPath = max, !.totalPackets = total]
  BY Zenon DEF UpdatePath
<1> HIDE DEF cnt, counters, onMax, max, total
<1>3. UpdatePath(w, p) \in Window
  BY <1>1, <1>2 DEF Window
<1>4. DOMAIN w = {"pathCounter", "totalPackets", "maxPath", "packetsOnMaxPath",
                  "previousMaxPath", "packetsOnPreviousMaxPath", "offset"}
  BY DEF Window
<1>5. /\ UpdatePath(w, p).pathCounter = counters
      /\ UpdatePath(w, p).packetsOnMaxPath = onMax
      /\ UpdatePath(w, p).maxPath = max
      /\ UpdatePath(w, p).totalPackets = total
      /\ UpdatePath(w, p).previousMaxPath = w.previousMaxPath
      /\ UpdatePath(w, p).packetsOnPreviousMaxPath = w.packetsOnPreviousMaxPath
      /\ UpdatePath(w, p).offset = w.offset
  BY <1>2, <1>4
<1>6. QED
  BY <1>3, <1>5, Zenon DEF cnt, counters, onMax, max, total

(* So does the count of either device. *)
LEMMA CountType ==
  ASSUME NEW w \in Window, NEW f \in Flows, NEW a \in BOOLEAN
  PROVE  Count(a, w, f) \in Window
BY UpdatePathFields, HashesArePaths, ChosenPathIsPath
   DEF Count, CountHashed, CountTaken

(* A quotient by a positive number is a natural number, and division by a  *)
(* smaller divisor does not vanish.                                        *)
LEMMA Quotient ==
  ASSUME NEW a \in Nat, NEW b \in Nat \ {0}
  PROVE  /\ a \div b \in Nat
         /\ a >= b => a \div b >= 1
         /\ a = b * (a \div b) + (a % b)
         /\ a % b \in 0 .. b - 1
BY SMT

(* NewOffset is a natural number: the divisions it makes are by numbers    *)
(* that are not 0 (resetWindow divides by equalShare and by a quotient).   *)
LEMMA NewOffsetType ==
  ASSUME NEW w \in Window
  PROVE  NewOffset(w) \in Nat
<1> DEFINE share == w.totalPackets \div totalPaths
           onMax == w.pathCounter[w.maxPath]
<1>1. w.totalPackets \in Nat /\ onMax \in Nat /\ totalPaths \in Nat \ {0}
  BY PathsNonEmpty DEF Window
<1>2. share \in Nat
  BY <1>1, Quotient
<1>3. CASE w.totalPackets >= totalPaths /\ onMax > share
  <2>1. share \in Nat \ {0}
    <3>1. share >= 1
      BY <1>1, <1>3, Quotient
    <3>2. QED BY <1>2, <3>1, SMT
  <2>2. onMax \div share \in Nat \ {0}
    <3>1. onMax >= share
      BY <1>1, <1>2, <1>3, SMT
    <3>2. onMax \div share \in Nat /\ onMax \div share >= 1
      BY <1>1, <2>1, <3>1, Quotient
    <3>3. QED BY <3>2, SMT
  <2>3. 100 \div (onMax \div share) \in Nat
    BY <2>2, Quotient
  <2>4. QED
    BY <1>3, <2>3 DEF NewOffset
<1>4. CASE ~(w.totalPackets >= totalPaths /\ onMax > share)
  BY <1>4 DEF NewOffset
<1>5. QED
  BY <1>3, <1>4

(* The fields of the window after resetWindow. *)
LEMMA ResetWindowFields ==
  ASSUME NEW w \in Window
  PROVE  LET new == ResetWindow(w)
         IN  /\ new \in Window
             /\ new.pathCounter = [p \in Paths |-> 0]
             /\ new.packetsOnMaxPath = 0
             /\ new.maxPath = w.maxPath
             /\ new.totalPackets = 0
             /\ new.previousMaxPath = w.maxPath
             /\ new.packetsOnPreviousMaxPath = w.pathCounter[w.maxPath]
             /\ new.offset = NewOffset(w)
<1> DEFINE zeros == [p \in Paths |-> 0]
           onMax == w.pathCounter[w.maxPath]
           offset == NewOffset(w)
<1>1. w.maxPath \in Nat /\ w.maxPath \in Paths
  BY PathsNonEmpty, SMT DEF Window, Paths
<1>2. onMax \in Nat
  BY DEF Window
<1>3. zeros \in [Paths -> Nat] /\ offset \in Nat
  BY NewOffsetType
<1>4. ResetWindow(w) =
        [w EXCEPT !.previousMaxPath = w.maxPath,
                  !.packetsOnPreviousMaxPath = onMax,
                  !.offset = offset, !.totalPackets = 0,
                  !.packetsOnMaxPath = 0, !.pathCounter = zeros]
  BY DEF ResetWindow
<1> HIDE DEF zeros, onMax, offset
<1>5. QED
  BY <1>1, <1>2, <1>3, <1>4 DEF Window, zeros, onMax, offset

-----------------------------------------------------------------------------

(* The type invariant (state of PathHashingNetDevice and its helper). *)
THEOREM TypeCorrect == Spec => []TypeOK
<1>1. Init => TypeOK
  <2> SUFFICES ASSUME Init PROVE TypeOK
    OBVIOUS
  <2> DEFINE zeros == [p \in Paths |-> 0]
  <2>1. zeros \in [Paths -> Nat]
    OBVIOUS
  <2> HIDE DEF zeros
  <2>2. win \in Window
    BY <2>1, PathsNonEmpty, GarbageAssumption DEF Init, InstalledWindows, Window, zeros
  <2>3. QED
    BY <2>2 DEF Init, TypeOK
<1>2. TypeOK /\ [Next]_vars => TypeOK'
  <2> SUFFICES ASSUME TypeOK, [Next]_vars PROVE TypeOK'
    OBVIOUS
  <2> USE DEF TypeOK
  <2>1. ASSUME NEW f \in Flows, EdgeReceiveUp(f) PROVE TypeOK'
    <3>1. win' \in Window
      BY <2>1, CountType DEF EdgeReceiveUp
    <3>2. ChoosePath(win, f) \in Paths
      BY ChosenPathIsPath
    <3>3. load' \in [Paths -> Nat] /\ last' \in [Flows -> Paths \cup {NoPath}]
      BY <2>1, <3>2 DEF EdgeReceiveUp
    <3>4. QED
      BY <2>1, <3>1, <3>3 DEF EdgeReceiveUp
  <2>2. CASE ResetTimer
    <3>1. win' \in Window
      BY <2>2, ResetWindowFields DEF ResetTimer
    <3>2. closed' \in Nat
      BY <2>2 DEF ResetTimer, Window
    <3>3. QED
      BY <2>2, <3>1, <3>2 DEF ResetTimer
  <2>3. CASE UNCHANGED vars
    BY <2>3 DEF vars
  <2>4. QED
    BY <2>1, <2>2, <2>3 DEF Next
<1>3. QED
  BY <1>1, <1>2, PTL DEF Spec

-----------------------------------------------------------------------------

(* The hot path is a most loaded path, incrementally maintained (UpdatePath *)
(* never rescans the counters).                                            *)
THEOREM HotPathCorrect == Spec => []HotPathIsArgmax
<1>1. Init => HotPathIsArgmax
  BY PathsNonEmpty DEF Init, InstalledWindows, HotPathIsArgmax
<1>2. TypeOK /\ HotPathIsArgmax /\ [Next]_vars => HotPathIsArgmax'
  <2> SUFFICES ASSUME TypeOK, HotPathIsArgmax, [Next]_vars
               PROVE  HotPathIsArgmax'
    OBVIOUS
  <2>1. ASSUME NEW w \in Window, NEW p \in Paths, win' = UpdatePath(w, p), w = win
        PROVE  HotPathIsArgmax'
    <3> DEFINE cnt == w.pathCounter[p] + 1
    <3>1. w.pathCounter \in [Paths -> Nat] /\ w.packetsOnMaxPath \in Nat /\ w.maxPath \in Paths
      BY DEF Window
    <3>2. /\ win'.pathCounter = [w.pathCounter EXCEPT ![p] = cnt]
          /\ win'.packetsOnMaxPath = IF cnt > w.packetsOnMaxPath
                                     THEN cnt ELSE w.packetsOnMaxPath
          /\ win'.maxPath = IF cnt > w.packetsOnMaxPath THEN p ELSE w.maxPath
      BY <2>1, UpdatePathFields, Zenon
    <3>3. /\ w.packetsOnMaxPath = w.pathCounter[w.maxPath]
          /\ \A r \in Paths : w.pathCounter[r] <= w.packetsOnMaxPath
      BY <2>1 DEF HotPathIsArgmax
    <3>4. CASE cnt > w.packetsOnMaxPath
      BY <3>1, <3>2, <3>3, <3>4 DEF HotPathIsArgmax
    <3>5. CASE ~(cnt > w.packetsOnMaxPath)
      BY <3>1, <3>2, <3>3, <3>5 DEF HotPathIsArgmax
    <3>6. QED
      BY <3>4, <3>5
  <2>2. ASSUME NEW f \in Flows, EdgeReceiveUp(f) PROVE HotPathIsArgmax'
    BY <2>1, <2>2, HashesArePaths, ChosenPathIsPath
       DEF EdgeReceiveUp, Count, CountHashed, CountTaken, TypeOK
  <2>3. CASE ResetTimer
    <3>1. win \in Window
      BY DEF TypeOK
    <3>2. /\ win'.pathCounter = [p \in Paths |-> 0]
          /\ win'.packetsOnMaxPath = 0
          /\ win'.maxPath \in Paths
      BY <2>3, <3>1, ResetWindowFields DEF ResetTimer, Window
    <3>3. QED
      BY <3>2 DEF HotPathIsArgmax
  <2>4. CASE UNCHANGED vars
    BY <2>4 DEF vars, HotPathIsArgmax
  <2>5. QED
    BY <2>2, <2>3, <2>4 DEF Next
<1>3. QED
  BY <1>1, <1>2, TypeCorrect, PTL DEF Spec

(* One more packet on path p is one more packet counted. *)
LEMMA CountedOneMore ==
  ASSUME NEW c \in [Paths -> Nat], NEW p \in Paths
  PROVE  LET d == [c EXCEPT ![p] = c[p] + 1]
             x == <<p, c[p] + 1>>
         IN  Counted(d) = Counted(c) \cup {x} /\ x \notin Counted(c)
<1> DEFINE d == [c EXCEPT ![p] = c[p] + 1]
<1>1. /\ \A q \in Paths : c[q] \in Nat
      /\ \A q \in Paths : d[q] = IF q = p THEN c[p] + 1 ELSE c[q]
  OBVIOUS
<1> HIDE DEF d
<1>2. \A q, i : <<q, i>> \in Counted(c) <=> q \in Paths /\ i \in 1 .. c[q]
  BY DEF Counted
<1>3. \A q, i : <<q, i>> \in Counted(d) <=> q \in Paths /\ i \in 1 .. d[q]
  BY DEF Counted
<1>4. /\ \A z \in Counted(c) : z = <<z[1], z[2]>>
      /\ \A z \in Counted(d) : z = <<z[1], z[2]>>
  BY DEF Counted
<1>5. \A q \in Paths : \A i :
        i \in 1 .. d[q] <=> i \in 1 .. c[q] \/ (q = p /\ i = c[p] + 1)
  BY <1>1
<1>6. <<p, c[p] + 1>> \notin Counted(c)
  BY <1>1, <1>2
<1>7. \A z \in Counted(d) : z \in Counted(c) \/ z = <<p, c[p] + 1>>
  <2> SUFFICES ASSUME NEW z \in Counted(d) PROVE z \in Counted(c) \/ z = <<p, c[p] + 1>>
    OBVIOUS
  <2>1. z = <<z[1], z[2]>> /\ z[1] \in Paths /\ z[2] \in 1 .. d[z[1]]
    BY <1>3, <1>4
  <2>2. z[2] \in 1 .. c[z[1]] \/ (z[1] = p /\ z[2] = c[p] + 1)
    BY <1>5, <2>1
  <2> QED BY <1>2, <2>1, <2>2
<1>8. \A z \in Counted(c) : z \in Counted(d)
  <2> SUFFICES ASSUME NEW z \in Counted(c) PROVE z \in Counted(d)
    OBVIOUS
  <2>1. z = <<z[1], z[2]>> /\ z[1] \in Paths /\ z[2] \in 1 .. c[z[1]]
    BY <1>2, <1>4
  <2>2. z[2] \in 1 .. d[z[1]]
    BY <1>5, <2>1
  <2> QED BY <1>3, <2>1, <2>2
<1>9. <<p, c[p] + 1>> \in Counted(d)
  <2>1. c[p] + 1 \in 1 .. d[p]
    BY <1>1
  <2> QED BY <1>3, <2>1
<1>10. Counted(d) = Counted(c) \cup {<<p, c[p] + 1>>}
  BY <1>7, <1>8, <1>9
<1> QED BY <1>6, <1>10 DEF d

(* totalPackets is the sum of the counters, which UpdatePath counts apart. *)
TotalIsSum ==
  /\ IsFiniteSet(Counted(win.pathCounter))
  /\ win.totalPackets = Cardinality(Counted(win.pathCounter))

LEMMA TotalIsSumCorrect == Spec => []TotalIsSum
<1>1. Counted([p \in Paths |-> 0]) = {}
  <2> DEFINE c == [p \in Paths |-> 0]
  <2>1. \A p \in Paths : c[p] = 0
    OBVIOUS
  <2> HIDE DEF c
  <2>2. \A p \in Paths : 1 .. c[p] = {}
    BY <2>1
  <2>3. Counted(c) = {}
    BY <2>2 DEF Counted
  <2> QED BY <2>3 DEF c
<1>2. Init => TotalIsSum
  <2> SUFFICES ASSUME Init PROVE TotalIsSum
    OBVIOUS
  <2>1. win.pathCounter = [p \in Paths |-> 0] /\ win.totalPackets = 0
    BY DEF Init, InstalledWindows
  <2> QED BY <1>1, <2>1, FS_EmptySet DEF TotalIsSum
<1>3. TypeOK /\ TotalIsSum /\ [Next]_vars => TotalIsSum'
  <2> SUFFICES ASSUME TypeOK, TotalIsSum, [Next]_vars
               PROVE  TotalIsSum'
    OBVIOUS
  <2> DEFINE c == win.pathCounter
  <2>1. c \in [Paths -> Nat] /\ win.totalPackets \in Nat
    BY DEF TypeOK, Window
  <2>2. ASSUME NEW p \in Paths, win' = UpdatePath(win, p) PROVE TotalIsSum'
    <3>1. /\ win'.pathCounter = [c EXCEPT ![p] = c[p] + 1]
          /\ win'.totalPackets = win.totalPackets + 1
      BY <2>2, UpdatePathFields, Zenon DEF TypeOK
    <3>2. PICK x : x \notin Counted(c) /\ Counted(win'.pathCounter) = Counted(c) \cup {x}
      <4>1. /\ <<p, c[p] + 1>> \notin Counted(c)
            /\ Counted([c EXCEPT ![p] = c[p] + 1]) = Counted(c) \cup {<<p, c[p] + 1>>}
        BY <2>1, CountedOneMore
      <4>2. QED
        BY <3>1, <4>1, Zenon
    <3>3. IsFiniteSet(Counted(c)) /\ win.totalPackets = Cardinality(Counted(c))
      BY DEF TotalIsSum
    <3>4. /\ IsFiniteSet(Counted(win'.pathCounter))
          /\ Cardinality(Counted(win'.pathCounter)) = Cardinality(Counted(c)) + 1
      BY <3>2, <3>3, FS_AddElement
    <3>5. QED
      BY <3>1, <3>3, <3>4 DEF TotalIsSum, Counted
  <2>3. ASSUME NEW f \in Flows, EdgeReceiveUp(f) PROVE TotalIsSum'
    BY <2>2, <2>3, HashesArePaths, ChosenPathIsPath
       DEF EdgeReceiveUp, Count, CountHashed, CountTaken
  <2>4. CASE ResetTimer
    <3>1. win'.pathCounter = [p \in Paths |-> 0] /\ win'.totalPackets = 0
      BY <2>4, ResetWindowFields DEF ResetTimer, TypeOK
    <3>2. Counted(win'.pathCounter) = {}
      BY <1>1, <3>1
    <3>3. QED
      BY <3>1, <3>2, FS_EmptySet DEF TotalIsSum, Counted
  <2>5. CASE UNCHANGED vars
    BY <2>5 DEF vars, TotalIsSum, Counted
  <2>6. QED
    BY <2>3, <2>4, <2>5 DEF Next
<1>4. QED
  BY <1>2, <1>3, TypeCorrect, PTL DEF Spec

(* The assertions of resetWindow hold whenever the timer may fire: the      *)
(* maximum is the counter of the hot path, and the total is the sum of all  *)
(* the counters, after any number of packets and windows.                   *)
THEOREM AssertionsCorrect == Spec => []AssertionsHold
<1>1. HotPathIsArgmax /\ TotalIsSum => AssertionsHold
  BY DEF HotPathIsArgmax, TotalIsSum, AssertionsHold, ResetAssertions
<1>2. QED
  BY <1>1, HotPathCorrect, TotalIsSumCorrect, PTL

-----------------------------------------------------------------------------

(* No path carries more packets than the window counts in all: the part of *)
(* "totalPackets is the sum of the counters" that resetWindow's arithmetic *)
(* relies on.                                                              *)
MaxWithinTotal == win.packetsOnMaxPath <= win.totalPackets

(* No path is counted more packets than the window. *)
LEMMA MaxWithinTotalCorrect == Spec => []MaxWithinTotal
<1>1. Init => MaxWithinTotal
  BY DEF Init, InstalledWindows, MaxWithinTotal
<1>2. TypeOK /\ HotPathIsArgmax /\ MaxWithinTotal /\ [Next]_vars => MaxWithinTotal'
  <2> SUFFICES ASSUME TypeOK, HotPathIsArgmax, MaxWithinTotal, [Next]_vars
               PROVE  MaxWithinTotal'
    OBVIOUS
  <2>1. ASSUME NEW p \in Paths, win' = UpdatePath(win, p)
        PROVE  MaxWithinTotal'
    <3>1. /\ win.pathCounter[p] \in Nat
          /\ win.pathCounter[p] <= win.packetsOnMaxPath
          /\ win.packetsOnMaxPath \in Nat /\ win.totalPackets \in Nat
      BY DEF Window, TypeOK, HotPathIsArgmax
    <3>2. /\ win'.packetsOnMaxPath = IF win.pathCounter[p] + 1 > win.packetsOnMaxPath
                                     THEN win.pathCounter[p] + 1 ELSE win.packetsOnMaxPath
          /\ win'.totalPackets = win.totalPackets + 1
      BY <2>1, UpdatePathFields, Zenon DEF TypeOK
    <3>3. QED
      BY <3>1, <3>2, SMT DEF MaxWithinTotal
  <2>2. ASSUME NEW f \in Flows, EdgeReceiveUp(f) PROVE MaxWithinTotal'
    BY <2>1, <2>2, HashesArePaths, ChosenPathIsPath
       DEF EdgeReceiveUp, Count, CountHashed, CountTaken
  <2>3. CASE ResetTimer
    BY <2>3, ResetWindowFields DEF ResetTimer, TypeOK, MaxWithinTotal
  <2>4. CASE UNCHANGED vars
    BY <2>4 DEF vars, MaxWithinTotal
  <2>5. QED
    BY <2>2, <2>3, <2>4 DEF Next
<1>3. QED
  BY <1>1, <1>2, TypeCorrect, HotPathCorrect, PTL DEF Spec

-----------------------------------------------------------------------------

(* A larger divisor gives no larger quotient. *)
LEMMA QuotientAntitone ==
  ASSUME NEW a \in Nat, NEW b \in Nat \ {0}, NEW c \in Nat \ {0}, b <= c
  PROVE  a \div c <= a \div b
<1> DEFINE x == a \div b
           y == a \div c
<1>1. /\ x \in Nat /\ y \in Nat
      /\ a < b * x + b
      /\ c * y <= a
  <2>1. a = b * x + (a % b) /\ a % b \in 0 .. b - 1 /\ x \in Nat
    BY Quotient
  <2>2. a = c * y + (a % c) /\ a % c \in 0 .. c - 1 /\ y \in Nat
    BY Quotient
  <2>3. b * x \in Nat /\ c * y \in Nat
    BY <2>1, <2>2, SMT
  <2> HIDE DEF x, y
  <2>4. QED
    BY <2>1, <2>2, <2>3, SMT
<1> HIDE DEF x, y
<1>2. ASSUME y >= x + 1 PROVE FALSE
  <2>1. b * y <= c * y
    BY <1>1, SMT
  <2>2. b * (x + 1) <= b * y
    BY <1>1, <1>2, SMT
  <2>3. b * (x + 1) = b * x + b
    BY <1>1, SMT
  <2>4. b * x \in Nat /\ b * y \in Nat /\ c * y \in Nat
    BY <1>1, SMT
  <2>5. QED
    BY <1>1, <2>1, <2>2, <2>3, <2>4, SMT
<1>3. x \in Nat /\ y \in Nat
  BY <1>1
<1>4. y <= x
  BY <1>2, <1>3, SMT
<1>5. QED
  BY <1>4 DEF x, y

(* A path that carries no more than the whole window carries less than     *)
(* 2*totalPaths equal shares: NewOffset divides 100 by less than that.     *)
LEMMA NewOffsetBand ==
  ASSUME NEW w \in Window, w.pathCounter[w.maxPath] <= w.totalPackets
  PROVE  NewOffset(w) \in (100 \div (2 * totalPaths - 1)) .. 100
<1> DEFINE n == totalPaths
           t == w.totalPackets
           share == t \div n
           onMax == w.pathCounter[w.maxPath]
           q == onMax \div share
           low == 100 \div (2 * n - 1)
<1>1. t \in Nat /\ onMax \in Nat /\ n \in Nat \ {0} /\ onMax <= t
  BY PathsNonEmpty DEF Window
<1>2. 2 * n - 1 \in Nat \ {0}
  BY <1>1, SMT
<1>3. low \in Nat /\ low <= 100
  <2>1. low \in Nat
    BY <1>2, Quotient
  <2>2. 100 \div (2 * n - 1) <= 100 \div 1
    <3>1. 1 \in Nat \ {0} /\ 100 \in Nat /\ 1 <= 2 * n - 1
      BY <1>1, SMT
    <3> HIDE DEF n
    <3>2. QED
      BY <1>2, <3>1, QuotientAntitone, Zenon
  <2>3. 100 \div 1 = 100
    BY SMT
  <2>4. QED
    BY <2>1, <2>2, <2>3
<1>4. CASE t >= n /\ onMax > share
  <2>1. share \in Nat \ {0} /\ t < n * share + n
    <3>1. share \in Nat /\ share >= 1
      BY <1>1, <1>4, Quotient
    <3>2. t = n * share + (t % n) /\ t % n \in 0 .. n - 1
      BY <1>1, Quotient
    <3>3. n * share \in Nat
      BY <1>1, <3>1, SMT
    <3> HIDE DEF share
    <3>4. QED
      BY <1>1, <3>1, <3>2, <3>3, SMT
  <2>2. q \in Nat \ {0} /\ share * q <= onMax
    <3>1. q \in Nat /\ onMax = share * q + (onMax % share) /\ onMax % share \in 0 .. share - 1
      BY <1>1, <2>1, Quotient
    <3>2. onMax >= share
      BY <1>1, <1>4, <2>1, SMT
    <3>3. q >= 1
      BY <1>1, <2>1, <3>2, Quotient
    <3>4. share * q \in Nat
      BY <2>1, <3>1, SMT
    <3> HIDE DEF share, q
    <3>5. QED
      BY <1>1, <2>1, <3>1, <3>3, <3>4, SMT
  <2> HIDE DEF share, q
  <2>3. q <= 2 * n - 1
    <3>1. SUFFICES ASSUME q >= 2 * n PROVE FALSE
      BY <1>1, <2>2, SMT
    <3>2. share * q >= share * (2 * n)
      BY <1>1, <2>1, <2>2, <3>1, SMT
    <3>3. share * (2 * n) = n * share + n * share
      BY <1>1, <2>1, SMT
    <3>4. n * share >= n /\ n * share \in Nat
      BY <1>1, <2>1, SMT
    <3>5. share * q \in Nat
      BY <2>1, <2>2, SMT
    <3>6. QED
      BY <1>1, <2>1, <2>2, <3>2, <3>3, <3>4, <3>5, SMT
  <2>4. low <= 100 \div q /\ 100 \div q \in Nat
    BY <1>2, <2>2, <2>3, QuotientAntitone, Quotient
  <2>5. 100 \div q <= 100
    <3>1. 100 \div q <= 100 \div 1
      <4>1. q \in Nat \ {0} /\ 1 <= q
        BY <2>2, SMT
      <4>2. QED
        BY <4>1, QuotientAntitone, SMT
    <3>2. 100 \div 1 = 100
      BY SMT
    <3>3. QED
      BY <3>1, <3>2
  <2>6. NewOffset(w) = 100 \div q
    BY <1>4 DEF NewOffset, share, q
  <2> HIDE DEF low
  <2>7. QED
    BY <1>3, <2>4, <2>5, <2>6, SMT DEF low
<1>5. CASE ~(t >= n /\ onMax > share)
  <2>1. NewOffset(w) = 100
    BY <1>5 DEF NewOffset
  <2> HIDE DEF low
  <2>2. 100 \in low .. 100
    BY <1>3, SMT
  <2>3. QED
    BY <2>1, <2>2 DEF low
<1>6. QED
  BY <1>4, <1>5

(* The share that stays on a hot path never vanishes (resetWindow).        *)
THEOREM OffsetBandCorrect == Spec => []OffsetInBand
<1>1. Init => OffsetInBand
  BY DEF Init, OffsetInBand
<1>2. TypeOK /\ HotPathIsArgmax /\ MaxWithinTotal /\ OffsetInBand /\ [Next]_vars
        => OffsetInBand'
  <2> SUFFICES ASSUME TypeOK, HotPathIsArgmax, MaxWithinTotal, OffsetInBand, [Next]_vars
               PROVE  OffsetInBand'
    OBVIOUS
  <2>1. ASSUME NEW f \in Flows, EdgeReceiveUp(f) PROVE OffsetInBand'
    <3>1. win'.offset = win.offset
      BY <2>1, UpdatePathFields, HashesArePaths, ChosenPathIsPath
         DEF EdgeReceiveUp, Count, CountHashed, CountTaken, TypeOK
    <3>2. QED
      BY <2>1, <3>1 DEF EdgeReceiveUp, OffsetInBand
  <2>2. CASE ResetTimer
    <3>1. win \in Window /\ win.pathCounter[win.maxPath] <= win.totalPackets
      BY DEF TypeOK, HotPathIsArgmax, MaxWithinTotal
    <3>2. win'.offset = NewOffset(win)
      BY <2>2, <3>1, ResetWindowFields DEF ResetTimer
    <3>3. QED
      BY <3>1, <3>2, NewOffsetBand DEF OffsetInBand
  <2>3. CASE UNCHANGED vars
    BY <2>3 DEF vars, OffsetInBand
  <2>4. QED
    BY <2>1, <2>2, <2>3 DEF Next
<1>3. QED
  BY <1>1, <1>2, TypeCorrect, HotPathCorrect, MaxWithinTotalCorrect, PTL DEF Spec

-----------------------------------------------------------------------------

(* A flow that has sent in this window would be given the same path again: *)
(* what ChoosePath reads changes only when a window closes.                *)
ActiveFlowsAreSettled == \A f \in active : last[f] = ChoosePath(win, f)

(* The last path of a flow active in the window is the one the window gives it. *)
LEMMA ActiveFlowsAreSettledCorrect == Spec => []ActiveFlowsAreSettled
<1>1. Init => ActiveFlowsAreSettled
  BY DEF Init, ActiveFlowsAreSettled
<1>2. TypeOK /\ ActiveFlowsAreSettled /\ [Next]_vars => ActiveFlowsAreSettled'
  <2> SUFFICES ASSUME TypeOK, ActiveFlowsAreSettled, [Next]_vars
               PROVE  ActiveFlowsAreSettled'
    OBVIOUS
  <2>1. ASSUME NEW f \in Flows, EdgeReceiveUp(f) PROVE ActiveFlowsAreSettled'
    <3>1. win'.offset = win.offset /\ win'.previousMaxPath = win.previousMaxPath
      BY <2>1, UpdatePathFields, HashesArePaths, ChosenPathIsPath
         DEF EdgeReceiveUp, Count, CountHashed, CountTaken, TypeOK
    <3>2. \A g : ChoosePath(win', g) = ChoosePath(win, g)
      BY <3>1 DEF ChoosePath
    <3>3. QED
      BY <2>1, <3>2 DEF EdgeReceiveUp, ActiveFlowsAreSettled, TypeOK
  <2>2. CASE ResetTimer
    BY <2>2 DEF ResetTimer, ActiveFlowsAreSettled
  <2>3. CASE UNCHANGED vars
    BY <2>3 DEF vars, ActiveFlowsAreSettled
  <2>4. QED
    BY <2>1, <2>2, <2>3 DEF Next
<1>3. QED
  BY <1>1, <1>2, TypeCorrect, PTL DEF Spec

(* Within a window a connection keeps its path (EdgeReceiveFromDevice).    *)
THEOREM FlowKeepsPathCorrect == Spec => FlowKeepsPathInWindow
<1>1. TypeOK /\ ActiveFlowsAreSettled /\ [Next]_vars
        => [\A f \in active : last'[f] = last[f]]_vars
  <2> SUFFICES ASSUME TypeOK, ActiveFlowsAreSettled, [Next]_vars, ~ UNCHANGED vars
               PROVE  \A f \in active : last'[f] = last[f]
    BY DEF vars
  <2>1. ASSUME NEW f \in Flows, EdgeReceiveUp(f)
        PROVE  \A g \in active : last'[g] = last[g]
    BY <2>1 DEF EdgeReceiveUp, ActiveFlowsAreSettled, TypeOK
  <2>2. CASE ResetTimer
    BY <2>2 DEF ResetTimer
  <2>3. QED
    BY <2>1, <2>2 DEF Next
<1>2. QED
  BY <1>1, TypeCorrect, ActiveFlowsAreSettledCorrect, PTL
     DEF Spec, FlowKeepsPathInWindow

-----------------------------------------------------------------------------

(* An offset below 100 records that the window closed last was overloaded. *)
OffsetTellsOverload ==
  closed # NoWindow /\ win.offset < 100 =>
     /\ closed >= totalPaths
     /\ win.packetsOnPreviousMaxPath >= 2 * (closed \div totalPaths)

(* resetWindow sets an offset below 100 only for such a window.            *)
LEMMA NewOffsetTellsOverload ==
  ASSUME NEW w \in Window, NewOffset(w) < 100
  PROVE  /\ w.totalPackets >= totalPaths
         /\ w.pathCounter[w.maxPath] >= 2 * (w.totalPackets \div totalPaths)
<1> DEFINE share == w.totalPackets \div totalPaths
           onMax == w.pathCounter[w.maxPath]
           q == onMax \div share
<1>1. w.totalPackets \in Nat /\ onMax \in Nat /\ totalPaths \in Nat \ {0}
  BY PathsNonEmpty DEF Window
<1>2. w.totalPackets >= totalPaths /\ onMax > share /\ NewOffset(w) = 100 \div q
  BY SMT DEF NewOffset
<1>3. share \in Nat \ {0}
  <2>1. share \in Nat /\ share >= 1
    BY <1>1, <1>2, Quotient
  <2>2. QED
    BY <2>1, SMT
<1>4. q \in Nat /\ onMax = share * q + (onMax % share) /\ onMax % share \in 0 .. share - 1
  BY <1>1, <1>3, Quotient
<1>5. q # 1
  BY <1>2, SMT
<1>6. q >= 1
  <2>1. onMax >= share
    BY <1>1, <1>2, <1>3, SMT
  <2>2. QED
    BY <1>1, <1>3, <2>1, Quotient
<1> HIDE DEF share, onMax, q
<1>7. q >= 2
  BY <1>4, <1>5, <1>6, SMT
<1>8. share * q >= share * 2 /\ share * q \in Nat
  BY <1>3, <1>4, <1>7, SMT
<1>9. onMax >= 2 * share
  BY <1>1, <1>3, <1>4, <1>8, SMT
<1>10. QED
  BY <1>2, <1>9 DEF share, onMax

(* An offset below 100 tells that the window closed last was overloaded. *)
LEMMA OffsetTellsOverloadCorrect == Spec => []OffsetTellsOverload
<1>1. Init => OffsetTellsOverload
  BY DEF Init, OffsetTellsOverload
<1>2. TypeOK /\ OffsetTellsOverload /\ [Next]_vars => OffsetTellsOverload'
  <2> SUFFICES ASSUME TypeOK, OffsetTellsOverload, [Next]_vars
               PROVE  OffsetTellsOverload'
    OBVIOUS
  <2>1. ASSUME NEW f \in Flows, EdgeReceiveUp(f) PROVE OffsetTellsOverload'
    <3>1. /\ win'.offset = win.offset
          /\ win'.packetsOnPreviousMaxPath = win.packetsOnPreviousMaxPath
      BY <2>1, UpdatePathFields, HashesArePaths, ChosenPathIsPath
         DEF EdgeReceiveUp, Count, CountHashed, CountTaken, TypeOK
    <3>2. QED
      BY <2>1, <3>1 DEF EdgeReceiveUp, OffsetTellsOverload
  <2>2. CASE ResetTimer
    <3>1. /\ win'.offset = NewOffset(win)
          /\ win'.packetsOnPreviousMaxPath = win.pathCounter[win.maxPath]
          /\ closed' = win.totalPackets
      BY <2>2, ResetWindowFields, Zenon DEF ResetTimer, TypeOK
    <3>2. QED
      BY <3>1, NewOffsetTellsOverload DEF OffsetTellsOverload, TypeOK
  <2>3. CASE UNCHANGED vars
    BY <2>3 DEF vars, OffsetTellsOverload
  <2>4. QED
    BY <2>1, <2>2, <2>3 DEF Next
<1>3. QED
  BY <1>1, <1>2, TypeCorrect, PTL DEF Spec

(* Flows are moved only off a path that was overloaded.                    *)
THEOREM MovesOnlyOffOverloadedCorrect == Spec => []MovesOnlyOffOverloaded
<1>1. TypeOK /\ OffsetTellsOverload => MovesOnlyOffOverloaded
  <2> SUFFICES ASSUME TypeOK, OffsetTellsOverload,
                      NEW f \in Flows, closed # NoWindow, Moved(f)
               PROVE  /\ closed >= totalPaths
                      /\ win.packetsOnPreviousMaxPath >= 2 * (closed \div totalPaths)
    BY DEF MovesOnlyOffOverloaded
  <2>1. win.offset \in Nat /\ Hash[f] \in Nat
    BY HashAssumption DEF TypeOK, Window
  <2>2. Hash[f] % 100 \in 0 .. 99 /\ Hash[f] % 100 > win.offset
    BY <2>1, SMT DEF Moved
  <2>3. win.offset < 100
    BY <2>1, <2>2, SMT
  <2>4. QED
    BY <2>3 DEF OffsetTellsOverload
<1>2. QED
  BY <1>1, TypeCorrect, OffsetTellsOverloadCorrect, PTL

(* The counters against the packets really sent: exact for the advanced    *)
(* device, and for the base device below the load on every path but the    *)
(* hot one.                                                                *)
THEOREM CountersBoundLoadCorrect == Spec => []CountersBoundLoad
<1>1. Init => CountersBoundLoad
  BY DEF Init, InstalledWindows, CountersBoundLoad
<1>2. TypeOK /\ CountersBoundLoad /\ [Next]_vars => CountersBoundLoad'
  <2> SUFFICES ASSUME TypeOK, CountersBoundLoad, [Next]_vars
               PROVE  CountersBoundLoad'
    OBVIOUS
  <2>1. ASSUME NEW f \in Flows, EdgeReceiveUp(f) PROVE CountersBoundLoad'
    <3> DEFINE h == hashToPath(f)
               p == ChoosePath(win, f)
               c == IF adv THEN p ELSE h
    <3>1. h \in Paths /\ p \in Paths /\ c \in Paths
      BY HashesArePaths, ChosenPathIsPath
    <3>2. win' = UpdatePath(win, c) /\ load' = [load EXCEPT ![p] = @ + 1] /\ adv' = adv
      BY <2>1 DEF EdgeReceiveUp, Count, CountHashed, CountTaken
    <3>3. h = win.previousMaxPath \/ p = h
      BY DEF ChoosePath
    <3> HIDE DEF h, p
    <3>4. /\ win'.pathCounter = [win.pathCounter EXCEPT ![c] = win.pathCounter[c] + 1]
          /\ win'.previousMaxPath = win.previousMaxPath
      BY <3>1, <3>2, UpdatePathFields, Zenon DEF TypeOK
    <3>5. win.pathCounter \in [Paths -> Nat] /\ load \in [Paths -> Nat]
      BY DEF TypeOK, Window
    <3>6. CASE adv
      <4>1. c = p /\ win.pathCounter = load
        BY <3>6 DEF CountersBoundLoad
      <4>2. win'.pathCounter = load'
        BY <3>2, <3>4, <4>1, Zenon
      <4>3. \A r \in Paths : load'[r] \in Nat
        BY <3>1, <3>2, <3>5
      <4>4. \A r \in Paths : load'[r] >= win'.pathCounter[r]
        BY <4>2, <4>3, SMT
      <4>5. QED
        BY <4>2, <4>4 DEF CountersBoundLoad
    <3>7. CASE ~adv
      <4>1. c = h
        BY <3>7
      <4>2. ASSUME NEW r \in Paths, r # win.previousMaxPath
            PROVE  load'[r] >= win'.pathCounter[r]
        <5>1. load[r] >= win.pathCounter[r]
          BY <4>2 DEF CountersBoundLoad
        <5>2. h = r => p = r
          BY <3>3, <4>2
        <5>3. /\ load'[r] = IF r = p THEN load[r] + 1 ELSE load[r]
              /\ win'.pathCounter[r] = IF r = h THEN win.pathCounter[r] + 1
                                       ELSE win.pathCounter[r]
          BY <3>1, <3>2, <3>4, <3>5, <4>1
        <5>4. load[r] \in Nat /\ win.pathCounter[r] \in Nat
          BY <3>5
        <5>5. QED
          BY <5>1, <5>2, <5>3, <5>4, SMT
      <4>3. QED
        BY <3>2, <3>4, <3>7, <4>2 DEF CountersBoundLoad
    <3>8. QED
      BY <3>6, <3>7
  <2>2. CASE ResetTimer
    <3>1. win'.pathCounter = [p \in Paths |-> 0] /\ load' = [p \in Paths |-> 0]
      BY <2>2, ResetWindowFields DEF ResetTimer, TypeOK
    <3>2. QED
      BY <3>1 DEF CountersBoundLoad
  <2>3. CASE UNCHANGED vars
    BY <2>3 DEF vars, CountersBoundLoad
  <2>4. QED
    BY <2>1, <2>2, <2>3 DEF Next
<1>3. QED
  BY <1>1, <1>2, TypeCorrect, PTL DEF Spec
=============================================================================

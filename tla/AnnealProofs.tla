---------------------------- MODULE AnnealProofs ----------------------------
(***************************************************************************)
(* Theorems about the search of anneal_robust.py, for any parameters and   *)
(* limits, any lists of seeds, any results of the simulations, any number  *)
(* of temperatures and of steps at each, and any number of processes.      *)
(***************************************************************************)
EXTENDS Anneal, TLAPS

(* The result of simulation r with seeds s and parameters p, and the sum of *)
(* the first v of them.                                                     *)
Fct(s, r, p) == averageFCT[s[r]][p]
Part(s, r, v, p) == IF r <= v THEN Fct(s, r, p) ELSE 0
SumOf(s, v, p) == Part(s, 1, v, p) + Part(s, 2, v, p) + Part(s, 3, v, p)

(* While a cost is measured the loops are not at their ends, and what has   *)
(* been summed is of the parameters measured.  The first cost is that of    *)
(* params.                                                                  *)
Measuring ==
  pc = "simulate" =>
    /\ T < T_min /\ i <= StepsPerT
    /\ sum_fct = SumOf(seeds, valid, new_params)
    /\ old_cost = NoCost => new_params = params /\ measured = seeds

(* Around a save anneal has ended a temperature, anneal_continue a step.    *)
Saving ==
  pc \in {"dump", "cool"} =>
    /\ old_cost # NoCost
    /\ program = "anneal" => i = StepsPerT + 1 /\ step = T * StepsPerT + 1
    /\ program = "continue" => T < T_min /\ step = T * StepsPerT + i

(* What anneal has saved is of the beginning of a temperature.              *)
Saved ==
  /\ chk.by = "anneal" => chk.step = chk.T * StepsPerT + 1
  /\ pc = "cool" => saved
  /\ CheckpointIsRecent

AnnealInv ==
  TypeOK /\ CostIsOfParams /\ StepsMatchTemperature /\ Measuring /\ Saving /\ Saved

-----------------------------------------------------------------------------

(* A neighbour is within the limits when its origin is. *)
LEMMA NeighborInLimits ==
  ASSUME NEW p \in Params, NEW q \in neighbor(p)
  PROVE  q \in Params
<1>1. ASSUME NEW n \in ParamNames PROVE q[n] \in low_limit[n] .. high_limit[n]
  BY <1>1 DEF neighbor, Moves, Params
<1>2. q \in [ParamNames -> UNION {low_limit[n] .. high_limit[n] : n \in ParamNames}]
  <2>1. \A n \in ParamNames : q[n] \in UNION {low_limit[m] .. high_limit[m] : m \in ParamNames}
    BY <1>1
  <2>2. q = [n \in ParamNames |-> q[n]]
    BY DEF neighbor
  <2> QED BY <2>1, <2>2
<1> QED BY <1>1, <1>2 DEF Params

(* Results of simulations are natural numbers, and so are their sums. *)
LEMMA Results ==
  ASSUME NEW s \in SeedLists, NEW p \in Params
  PROVE  /\ \A r \in 1 .. Runs : Fct(s, r, p) \in Nat
         /\ CostIn(s, p) \in Nat /\ CostIn(s, p) = SumOf(s, Runs, p)
         /\ \A v \in 0 .. Runs : SumOf(s, v, p) \in Nat
         /\ \A v \in 0 .. Runs - 1 : SumOf(s, v + 1, p) = SumOf(s, v, p) + Fct(s, v + 1, p)
<1>1. \A r \in 1 .. Runs : Fct(s, r, p) \in Nat
  BY AnnealAssumption DEF Fct
<1>2. Fct(s, 1, p) \in Nat /\ Fct(s, 2, p) \in Nat /\ Fct(s, 3, p) \in Nat
  BY <1>1 DEF Runs
<1>3. CostIn(s, p) = Fct(s, 1, p) + Fct(s, 2, p) + Fct(s, 3, p)
  BY DEF CostIn, Fct
<1>4. CostIn(s, p) \in Nat /\ CostIn(s, p) = SumOf(s, Runs, p)
  BY <1>2, <1>3 DEF SumOf, Part, Runs
<1>5. \A v \in 0 .. Runs : SumOf(s, v, p) \in Nat
  BY <1>2 DEF SumOf, Part, Runs
<1>6. \A v \in 0 .. Runs - 1 : SumOf(s, v + 1, p) = SumOf(s, v, p) + Fct(s, v + 1, p)
  BY <1>2 DEF SumOf, Part, Runs
<1> QED BY <1>1, <1>4, <1>5, <1>6

(* The types of the constants that the steps use. *)
LEMMA Constants ==
  /\ StepsPerT \in Nat /\ StepsPerT > 0 /\ T_min \in Nat /\ T_min > 0 /\ MaxStarts \in Nat
  /\ start_value \in Params
BY AnnealAssumption

(* One more temperature is StepsPerT more steps. *)
LEMMA OneMore ==
  ASSUME NEW t \in Nat
  PROVE  /\ t * StepsPerT \in Nat /\ (t + 1) * StepsPerT = t * StepsPerT + StepsPerT
         /\ 0 * StepsPerT = 0
BY Constants

(* What the head of the inner loop does to the variables of a trial. *)
LEMMA NextStepStarts ==
  ASSUME NEW p \in Params, NextStep(p)
  PROVE  pc' = "simulate" /\ new_params' \in Params /\ valid' = 0 /\ sum_fct' = 0
BY NeighborInLimits DEF NextStep, Measure

(* With no simulation ended nothing has been summed. *)
LEMMA NothingSummed ==
  ASSUME NEW s, NEW p
  PROVE  SumOf(s, 0, p) = 0
BY DEF SumOf, Part

-----------------------------------------------------------------------------
(* One lemma per action. *)

LEMMA InitInv == ASSUME Init PROVE AnnealInv
<1>1. TypeOK
  <2>1. ~Complete(chk)
    BY DEF Init, NoFile, Complete
  <2>2. saved \in BOOLEAN
    BY DEF Init
  <2>3. T \in 0 .. T_min /\ i \in 1 .. StepsPerT + 1 /\ step \in Nat \ {0}
    BY Constants DEF Init
  <2>4. valid \in 0 .. Runs /\ sum_fct \in Nat /\ starts \in 0 .. MaxStarts
    BY Constants DEF Init, Runs
  <2>5. params \in Params /\ new_params \in Params
    BY Constants DEF Init
  <2> QED BY <2>1, <2>2, <2>3, <2>4, <2>5 DEF Init, TypeOK
<1>2. CostIsOfParams
  BY DEF Init, CostIsOfParams, Alive, Complete, NoFile
<1>3. StepsMatchTemperature /\ Measuring /\ Saving /\ Saved
  BY DEF Init, StepsMatchTemperature, Measuring, Saving, Saved, CheckpointIsRecent, NoFile
<1> QED BY <1>1, <1>2, <1>3 DEF AnnealInv

LEMMA StartAnnealStep == ASSUME AnnealInv, StartAnneal PROVE AnnealInv'
<1> USE DEF AnnealInv
<1>1. /\ pc' = "simulate" /\ program' = "anneal" /\ seeds' \in SeedLists /\ measured' = seeds'
      /\ params' = start_value /\ new_params' = start_value /\ old_cost' = NoCost
      /\ T' = 0 /\ i' = 1 /\ step' = 1 /\ valid' = 0 /\ sum_fct' = 0
      /\ chk' = chk /\ saved' = FALSE /\ starts' = starts + 1 /\ starts < MaxStarts
  BY DEF StartAnneal, Measure
<1>2. TypeOK'
  <2>1. saved' \in BOOLEAN
    BY <1>1
  <2>2. T' \in 0 .. T_min /\ i' \in 1 .. StepsPerT + 1 /\ step' \in Nat \ {0}
    BY <1>1, Constants
  <2>3. valid' \in 0 .. Runs /\ sum_fct' \in Nat /\ starts' \in 0 .. MaxStarts
    BY <1>1, Constants DEF TypeOK, Runs
  <2>4. params' \in Params /\ new_params' \in Params
    BY <1>1, Constants
  <2> QED BY <1>1, <2>1, <2>2, <2>3, <2>4 DEF TypeOK, Complete
<1>3. CostIsOfParams'
  BY <1>1 DEF CostIsOfParams, Complete, CostIn
<1>4. Measuring'
  BY <1>1, Constants, NothingSummed DEF Measuring
<1>5. StepsMatchTemperature'
  BY <1>1, OneMore DEF StepsMatchTemperature
<1>6. Saving' /\ Saved'
  BY <1>1 DEF Saving, Saved, CheckpointIsRecent
<1> QED BY <1>2, <1>3, <1>4, <1>5, <1>6

LEMMA StartContinueStep == ASSUME AnnealInv, StartContinue PROVE AnnealInv'
<1> USE DEF AnnealInv
<1>1. /\ chk.by = "anneal" /\ chk.T < T_min /\ Complete(chk) /\ chk' = chk
      /\ chk.step \in Nat /\ chk.T \in 0 .. T_min /\ chk.params \in Params
      /\ chk.old_cost \in Nat /\ chk.measured \in SeedLists
      /\ chk.step = chk.T * StepsPerT + 1
  BY DEF StartContinue, TypeOK, Complete, Saved
<1>2. /\ program' = "continue" /\ seeds' \in SeedLists /\ measured' = chk.measured
      /\ params' = chk.params /\ old_cost' = chk.old_cost /\ T' = chk.T /\ i' = 1
      /\ step' = chk.step /\ saved' = TRUE /\ starts' = starts + 1 /\ starts < MaxStarts
  BY DEF StartContinue
<1>3. pc' = "simulate" /\ new_params' \in Params /\ valid' = 0 /\ sum_fct' = 0
  BY <1>1, NextStepStarts DEF StartContinue
<1>4. step' = T' * StepsPerT + i' /\ step' \in Nat \ {0}
  BY <1>1, <1>2, OneMore, Constants
<1>5. new_params' \in Params /\ valid' \in 0 .. Runs /\ sum_fct' \in Nat
  BY <1>3 DEF Runs
<1>6. TypeOK'
  BY <1>1, <1>2, <1>3, <1>4, <1>5, Constants DEF TypeOK
<1>7. CostIsOfParams'
  BY <1>1, <1>2 DEF CostIsOfParams, CostIn
<1>8. Measuring'
  BY <1>1, <1>2, <1>3, Constants, NothingSummed DEF Measuring, NoCost
<1>9. StepsMatchTemperature'
  BY <1>2, <1>3, <1>4 DEF StepsMatchTemperature
<1>10. Saving' /\ Saved'
  BY <1>1, <1>2, <1>3 DEF Saving, Saved, CheckpointIsRecent
<1> QED BY <1>6, <1>7, <1>8, <1>9, <1>10

(* A process that is gone, by an exception or a crash, leaves the file.     *)
LEMMA DieStep == ASSUME AnnealInv, Die PROVE AnnealInv'
<1> USE DEF AnnealInv
<1>1. pc' = "down" /\ UNCHANGED <<search, trial, chk, starts, saved>>
  BY DEF Die
<1>2. TypeOK'
  BY <1>1 DEF TypeOK, search, trial
<1>3. CostIsOfParams'
  BY <1>1 DEF CostIsOfParams, Alive, CostIn
<1>4. StepsMatchTemperature' /\ Measuring' /\ Saving'
  BY <1>1 DEF StepsMatchTemperature, Measuring, Saving
<1>5. Saved'
  BY <1>1 DEF Saved, CheckpointIsRecent
<1> QED BY <1>2, <1>3, <1>4, <1>5

LEMMA StartContinueFailsStep == ASSUME AnnealInv, StartContinueFails PROVE AnnealInv'
<1> USE DEF AnnealInv
<1>1. /\ pc' = "down" /\ starts < MaxStarts /\ starts' = starts + 1
      /\ UNCHANGED <<search, trial, chk, saved>>
  BY DEF StartContinueFails
<1>2. TypeOK'
  BY <1>1, Constants DEF TypeOK, search, trial
<1>3. CostIsOfParams'
  BY <1>1 DEF CostIsOfParams, Alive, CostIn
<1>4. StepsMatchTemperature' /\ Measuring' /\ Saving'
  BY <1>1 DEF StepsMatchTemperature, Measuring, Saving
<1>5. Saved'
  BY <1>1 DEF Saved, CheckpointIsRecent
<1> QED BY <1>2, <1>3, <1>4, <1>5

LEMMA SimulateStep == ASSUME AnnealInv, Simulate PROVE AnnealInv'
<1> USE DEF AnnealInv
<1>1. /\ pc = "simulate" /\ valid \in 0 .. Runs - 1 /\ valid' = valid + 1
      /\ sum_fct' = sum_fct + Fct(seeds, valid + 1, new_params)
      /\ pc' = pc /\ new_params' = new_params /\ chk' = chk /\ starts' = starts
      /\ saved' = saved /\ UNCHANGED search
  BY DEF Simulate, TypeOK, Fct, Runs
<1>2. /\ seeds \in SeedLists /\ new_params \in Params /\ sum_fct = SumOf(seeds, valid, new_params)
  BY <1>1 DEF TypeOK, Measuring
<1>3. sum_fct' = SumOf(seeds, valid', new_params)
  BY <1>1, <1>2, Results
<1>4. valid' \in 0 .. Runs
  BY <1>1 DEF Runs
<1>5. sum_fct' \in Nat
  BY <1>2, <1>3, <1>4, Results
<1>6. TypeOK'
  BY <1>1, <1>4, <1>5 DEF TypeOK, search
<1>7. CostIsOfParams'
  BY <1>1 DEF CostIsOfParams, Alive, CostIn, search
<1>8. Measuring'
  BY <1>1, <1>3 DEF Measuring, search, SumOf, Part, Fct
<1>9. StepsMatchTemperature' /\ Saving'
  BY <1>1 DEF StepsMatchTemperature, Saving, search
<1>10. Saved'
  BY <1>1 DEF Saved, CheckpointIsRecent, Complete, search
<1> QED BY <1>6, <1>7, <1>8, <1>9, <1>10

LEMMA FirstCostStep == ASSUME AnnealInv, FirstCost PROVE AnnealInv'
<1> USE DEF AnnealInv
<1>1. /\ pc = "simulate" /\ valid = Runs /\ old_cost = NoCost /\ old_cost' = sum_fct
      /\ UNCHANGED <<program, seeds, params, T, i, step, measured, chk, starts, saved>>
  BY DEF FirstCost, Measured
<1>2. pc' = "simulate" /\ new_params' \in Params /\ valid' = 0 /\ sum_fct' = 0
  BY NextStepStarts DEF FirstCost, TypeOK
<1>3. old_cost' = CostIn(measured, params) /\ old_cost' \in Nat
  BY <1>1, Results DEF TypeOK, Measuring
<1>4. old_cost' # NoCost
  BY <1>3 DEF NoCost
<1>5. TypeOK'
  BY <1>1, <1>2, <1>3, Constants DEF TypeOK, Runs
<1>6. CostIsOfParams'
  BY <1>1, <1>3 DEF CostIsOfParams, CostIn
<1>7. Measuring'
  BY <1>1, <1>2, <1>4, NothingSummed DEF Measuring
<1>8. StepsMatchTemperature' /\ Saving'
  BY <1>1, <1>2 DEF StepsMatchTemperature, Saving
<1>9. Saved'
  <2>1. ~(saved /\ program = "continue")
    BY <1>1 DEF Saved, CheckpointIsRecent, TypeOK, NoCost
  <2> QED BY <1>1, <1>2, <2>1 DEF Saved, CheckpointIsRecent, Complete, TypeOK
<1> QED BY <1>5, <1>6, <1>7, <1>8, <1>9

LEMMA DecideStep == ASSUME AnnealInv, Decide PROVE AnnealInv'
<1> USE DEF AnnealInv
<1>1. /\ pc = "simulate" /\ valid = Runs /\ old_cost # NoCost
      /\ i' = i + 1 /\ step' = step + 1
      /\ UNCHANGED <<program, seeds, starts, saved>>
      /\ Accept \/ Refuse
  BY DEF Decide, Measured
<1>2. /\ params' \in Params /\ measured' \in SeedLists /\ old_cost' \in Nat
      /\ old_cost' = CostIn(measured', params')
  <2>1. CASE Accept
    BY <1>1, <2>1, Results DEF Accept, TypeOK, Measuring
  <2>2. CASE Refuse
    BY <1>1, <2>2 DEF Refuse, TypeOK, CostIsOfParams, Alive
  <2> QED BY <1>1, <2>1, <2>2
<1>3. old_cost' # NoCost
  BY <1>2 DEF NoCost
<1>4. /\ T \in Nat /\ T < T_min /\ i \in 1 .. StepsPerT /\ step = T * StepsPerT + i
      /\ step \in Nat \ {0}
  BY <1>1, Constants DEF TypeOK, Measuring, StepsMatchTemperature
<1>5. CASE program = "anneal" /\ i < StepsPerT
  <2>1. /\ pc' = "simulate" /\ new_params' \in Params /\ valid' = 0 /\ sum_fct' = 0
        /\ T' = T /\ chk' = chk
    BY <1>2, <1>5, NextStepStarts DEF Decide
  <2>2. TypeOK'
    BY <1>1, <1>2, <1>4, <2>1, Constants DEF TypeOK, Runs
  <2>3. CostIsOfParams'
    BY <1>2, <2>1 DEF CostIsOfParams, CostIn
  <2>4. Measuring'
    BY <1>1, <1>3, <1>4, <1>5, <2>1, NothingSummed, Constants DEF Measuring
  <2>5. StepsMatchTemperature'
    BY <1>1, <1>4, <2>1, OneMore DEF StepsMatchTemperature
  <2>6. Saving' /\ Saved'
    BY <1>1, <1>5, <2>1 DEF Saving, Saved, CheckpointIsRecent, Complete
  <2> QED BY <2>2, <2>3, <2>4, <2>5, <2>6
<1>6. CASE ~(program = "anneal" /\ i < StepsPerT)
  <2>1. /\ pc' = "dump" /\ chk' = Torn /\ UNCHANGED trial
        /\ T' = IF program = "anneal" THEN T + 1 ELSE T
    BY <1>6 DEF Decide
  <2>2. ~Complete(Torn)
    BY DEF Torn, Complete
  <2>3. T' \in 0 .. T_min /\ i' \in 1 .. StepsPerT + 1 /\ step' \in Nat \ {0}
    BY <1>1, <1>4, <2>1, Constants
  <2>4. TypeOK'
    BY <1>1, <1>2, <2>1, <2>2, <2>3 DEF TypeOK, trial
  <2>5. CostIsOfParams'
    BY <1>2, <2>1, <2>2 DEF CostIsOfParams, CostIn
  <2>6. Measuring' /\ StepsMatchTemperature' /\ Saved'
    BY <2>1 DEF Measuring, StepsMatchTemperature, Saved, CheckpointIsRecent, Torn
  <2>7. program = "anneal" => i' = StepsPerT + 1 /\ step' = T' * StepsPerT + 1
    BY <1>1, <1>4, <1>6, <2>1, OneMore, Constants
  <2>8. program = "continue" => T' < T_min /\ step' = T' * StepsPerT + i'
    BY <1>1, <1>4, <2>1, OneMore, Constants
  <2>9. Saving'
    BY <1>1, <1>3, <2>7, <2>8 DEF Saving
  <2> QED BY <2>4, <2>5, <2>6, <2>9
<1> QED BY <1>5, <1>6

LEMMA DumpStep == ASSUME AnnealInv, Dump PROVE AnnealInv'
<1> USE DEF AnnealInv
<1>1. /\ pc = "dump" /\ pc' = "cool" /\ saved' = TRUE /\ UNCHANGED <<search, trial, starts>>
      /\ chk' = IF program = "anneal" THEN AnnealList ELSE ContinueList
  BY DEF Dump
<1>2. /\ Complete(chk') /\ chk'.step = step /\ chk'.T = T /\ chk'.params = params
      /\ chk'.old_cost = old_cost /\ chk'.measured = measured
      /\ (chk'.by = "anneal" <=> program = "anneal")
  BY <1>1 DEF AnnealList, ContinueList, Complete
<1>3. old_cost # NoCost /\ old_cost \in Nat /\ old_cost = CostIn(measured, params)
  BY <1>1 DEF Saving, TypeOK, CostIsOfParams, Alive
<1>4. saved' \in BOOLEAN
  BY <1>1
<1>5. TypeOK'
  BY <1>1, <1>2, <1>3, <1>4 DEF TypeOK, search, trial
<1>6. CostIsOfParams'
  BY <1>1, <1>2, <1>3 DEF CostIsOfParams, CostIn, search
<1>7. Measuring' /\ StepsMatchTemperature'
  BY <1>1 DEF Measuring, StepsMatchTemperature
<1>8. Saving'
  BY <1>1 DEF Saving, search
<1>9. CheckpointIsRecent'
  BY <1>1, <1>2 DEF CheckpointIsRecent, Saving, search
<1>10. Saved'
  BY <1>1, <1>2, <1>9 DEF Saved, Saving, search
<1> QED BY <1>5, <1>6, <1>7, <1>8, <1>10

LEMMA CoolStep == ASSUME AnnealInv, Cool PROVE AnnealInv'
<1> USE DEF AnnealInv
<1>1. /\ pc = "cool" /\ i' = IF i > StepsPerT THEN 1 ELSE i
      /\ T' = IF program = "continue" /\ i > StepsPerT THEN T + 1 ELSE T
      /\ UNCHANGED <<program, seeds, params, old_cost, step, measured, chk, starts, saved>>
  BY DEF Cool
<1>2. \/ /\ T' < T_min /\ pc' = "simulate" /\ new_params' \in Params
         /\ valid' = 0 /\ sum_fct' = 0
      \/ ~(T' < T_min) /\ pc' = "done" /\ UNCHANGED trial
  BY <1>1, NextStepStarts DEF Cool, TypeOK
<1>3. /\ old_cost # NoCost /\ saved
      /\ program = "anneal" => i = StepsPerT + 1 /\ step = T * StepsPerT + 1
      /\ program = "continue" => T < T_min /\ step = T * StepsPerT + i
      /\ program \in {"anneal", "continue"}
  BY <1>1 DEF Saving, Saved, TypeOK
<1>4. T \in 0 .. T_min /\ i \in 1 .. StepsPerT + 1 /\ step \in Nat \ {0}
  BY DEF TypeOK
<1>5. T' \in 0 .. T_min /\ i' \in 1 .. StepsPerT
  BY <1>1, <1>3, <1>4, Constants
<1>6. step' = T' * StepsPerT + i' /\ (program = "anneal" \/ i > StepsPerT => i' = 1)
  <2>1. CASE program = "anneal"
    BY <1>1, <1>3, <1>4, <2>1, Constants
  <2>2. CASE program = "continue" /\ i > StepsPerT
    BY <1>1, <1>3, <1>4, <2>2, OneMore, Constants
  <2>3. CASE program = "continue" /\ ~(i > StepsPerT)
    BY <1>1, <1>3, <1>4, <2>3, Constants
  <2> QED BY <1>3, <2>1, <2>2, <2>3
<1>7. ~(T' < T_min) => T' = T_min /\ i' = 1
  BY <1>1, <1>3, <1>4, <1>5, <1>6, Constants
<1>8. TypeOK'
  <2>1. new_params' \in Params /\ valid' \in 0 .. Runs /\ sum_fct' \in Nat
    BY <1>2 DEF TypeOK, trial, Runs
  <2> QED BY <1>1, <1>2, <1>5, <2>1, Constants DEF TypeOK
<1>9. CostIsOfParams'
  BY <1>1 DEF CostIsOfParams, CostIn, Alive
<1>10. Measuring'
  BY <1>1, <1>2, <1>3, <1>5, NothingSummed, Constants DEF Measuring
<1>11. StepsMatchTemperature'
  BY <1>2, <1>6, <1>7 DEF StepsMatchTemperature
<1>12. Saving'
  BY <1>2 DEF Saving
<1>13. /\ Complete(chk) /\ (program = "anneal" => chk.by = "anneal")
       /\ (chk.by = "anneal" => chk.T = T /\ chk.step = T * StepsPerT + 1)
       /\ program = "continue" =>
            /\ chk.step = step /\ chk.params = params
            /\ chk.old_cost = old_cost /\ chk.measured = measured
            /\ chk.by = "anneal" => i = 1
  BY <1>1, <1>3 DEF Saved, CheckpointIsRecent
<1>14. chk.by = "anneal" => T' = T /\ (program = "continue" => i' = 1)
  BY <1>1, <1>3, <1>13, Constants
<1>15. CheckpointIsRecent'
  BY <1>1, <1>13, <1>14 DEF CheckpointIsRecent, Complete
<1>16. Saved'
  BY <1>1, <1>2, <1>15 DEF Saved
<1> QED BY <1>8, <1>9, <1>10, <1>11, <1>12, <1>16

-----------------------------------------------------------------------------

LEMMA Stutter == ASSUME AnnealInv, UNCHANGED vars PROVE AnnealInv'
<1> USE DEF AnnealInv
<1>1. TypeOK'
  BY DEF TypeOK, vars, search, trial
<1>2. CostIsOfParams'
  BY DEF CostIsOfParams, Alive, CostIn, vars, search
<1>3. StepsMatchTemperature' /\ Saving' /\ Saved'
  BY DEF StepsMatchTemperature, Saving, Saved, CheckpointIsRecent, Complete, vars, search
<1>4. Measuring'
  BY DEF Measuring, SumOf, Part, Fct, vars, search, trial
<1> QED BY <1>1, <1>2, <1>3, <1>4

(* The inductive invariant of the search, through any crashes and restarts. *)
THEOREM AnnealInvCorrect == Spec => []AnnealInv
<1>1. ASSUME AnnealInv, [Next]_vars PROVE AnnealInv'
  <2>1. CASE StartAnneal
    BY <1>1, <2>1, StartAnnealStep
  <2>2. CASE StartContinue
    BY <1>1, <2>2, StartContinueStep
  <2>3. CASE StartContinueFails
    BY <1>1, <2>3, StartContinueFailsStep
  <2>4. CASE Simulate
    BY <1>1, <2>4, SimulateStep
  <2>5. CASE FirstCost
    BY <1>1, <2>5, FirstCostStep
  <2>6. CASE Decide
    BY <1>1, <2>6, DecideStep
  <2>7. CASE Dump
    BY <1>1, <2>7, DumpStep
  <2>8. CASE Cool
    BY <1>1, <2>8, CoolStep
  <2>9. CASE SimulateFails \/ AcceptOverflows \/ Crash
    BY <1>1, <2>9, DieStep DEF SimulateFails, AcceptOverflows, Crash
  <2>10. CASE UNCHANGED vars
    BY <1>1, <2>10, Stutter
  <2> QED
    BY <1>1, <2>1, <2>2, <2>3, <2>4, <2>5, <2>6, <2>7, <2>8, <2>9, <2>10 DEF Next, Work
<1> QED BY <1>1, InitInv, PTL DEF Spec

(* The variables, and what a complete checkpoint holds, keep their types:   *)
(* parameters stay within their limits (neighbor).                          *)
THEOREM TypeCorrect == Spec => []TypeOK
<1>1. AnnealInv => TypeOK
  BY DEF AnnealInv
<1> QED BY <1>1, AnnealInvCorrect, PTL

(* old_cost is the cost of params, in the process and in anneal.chk.        *)
THEOREM CostIsOfParamsCorrect == Spec => []CostIsOfParams
<1>1. AnnealInv => CostIsOfParams
  BY DEF AnnealInv
<1> QED BY <1>1, AnnealInvCorrect, PTL

(* step agrees with T and i, and a search that ends has made all its steps. *)
THEOREM StepsMatchTemperatureCorrect == Spec => []StepsMatchTemperature
<1>1. AnnealInv => StepsMatchTemperature
  BY DEF AnnealInv
<1> QED BY <1>1, AnnealInvCorrect, PTL

(* anneal.chk holds the beginning of anneal's temperature, or the step at   *)
(* which anneal_continue stands, unless it is being written.                *)
THEOREM CheckpointIsRecentCorrect == Spec => []CheckpointIsRecent
<1>1. AnnealInv => CheckpointIsRecent
  BY DEF AnnealInv, Saved
<1> QED BY <1>1, AnnealInvCorrect, PTL
=============================================================================

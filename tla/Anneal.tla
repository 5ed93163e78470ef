------------------------------- MODULE Anneal -------------------------------
(***************************************************************************)
(* The search for TCP parameters of anneal_robust.py: the loops of anneal   *)
(* and anneal_continue, the simulations they wait for, and the file         *)
(* anneal.chk that outlives a process.  A process may die at any moment; a  *)
(* user who finds it dead starts anneal or anneal_continue.                 *)
(*                                                                         *)
(* The temperature T is the number of times it has been multiplied by       *)
(* alpha.  A cost is the sum of the flow completion times of the three      *)
(* simulations (the code divides it by 3).                                  *)
(***************************************************************************)
EXTENDS Integers, Sequences

CONSTANTS
  ParamNames,                       (* keys of param_properties             *)
  start_value, low_limit, high_limit, step_size,  (* and its four columns   *)
  SeedLists,                        (* lists a process may draw as seeds    *)
  averageFCT,  (* averageFCT[s][p]: result of the simulation with seed s    *)
  MaxGain,     (* MaxGain[t]: the largest old_cost - new_cost whose exp is  *)
               (* a float at temperature t                                  *)
  StepsPerT,   (* steps at each temperature                                 *)
  T_min,       (* the temperature at which the loop ends                    *)
  MaxStarts    (* bound: processes started                                  *)

Params == {p \in [ParamNames -> UNION {low_limit[n] .. high_limit[n] : n \in ParamNames}] :
             \A n \in ParamNames : p[n] \in low_limit[n] .. high_limit[n]}

Runs == 3  (* simulations of one cost                                       *)

ASSUME AnnealAssumption ==
  /\ low_limit \in [ParamNames -> Int] /\ high_limit \in [ParamNames -> Int]
  /\ step_size \in [ParamNames -> Nat]
  /\ start_value \in Params
  /\ \A s \in SeedLists : Len(s) >= Runs
  /\ \A s \in SeedLists : \A r \in 1 .. Runs : averageFCT[s[r]] \in [Params -> Nat]
  /\ StepsPerT \in Nat \ {0} /\ T_min \in Nat \ {0} /\ MaxStarts \in Nat
  /\ MaxGain \in [0 .. T_min - 1 -> Nat]

VARIABLES
  pc,        (* what the process does; "down" when there is none            *)
  program,   (* which of the two functions it runs                          *)
  seeds,     (* drawn when the process starts                               *)
  params, old_cost, T, i, step,
  new_params,          (* the parameters whose cost is being measured       *)
  valid, sum_fct,      (* the simulations of them that have ended           *)
  chk,       (* the file anneal.chk                                         *)
  starts,    (* processes started                                           *)
  measured,  (* history: the seeds old_cost was measured with               *)
  saved      (* history: this process has saved or restored chk             *)

search == <<program, seeds, params, old_cost, T, i, step, measured>>
trial == <<new_params, valid, sum_fct>>
vars == <<pc, search, trial, chk, starts, saved>>

NoCost == -1
NoFile == [by |-> "nobody"]
Torn == [by |-> "torn"]   (* open(..., "wb") has emptied the file           *)

(* BUG: i is pickled in the place of step. *)
AnnealListI == [by |-> "anneal", step |-> i, T |-> T, params |-> params,
                old_cost |-> old_cost, measured |-> measured]

(* The lists the two functions pickle, [step, T, params, old_cost] and      *)
(* [step, T, i, params, old_cost].                                          *)
AnnealList == [by |-> "anneal", step |-> step, T |-> T, params |-> params,
               old_cost |-> old_cost, measured |-> measured]
ContinueList == [by |-> "continue", step |-> step, T |-> T, i |-> i,
                 params |-> params, old_cost |-> old_cost, measured |-> measured]
Complete(c) == c.by \in {"anneal", "continue"}

TypeOK ==
  /\ pc \in {"down", "simulate", "dump", "cool", "done"}
  /\ program \in {"anneal", "continue"}
  /\ seeds \in SeedLists /\ measured \in SeedLists
  /\ params \in Params /\ new_params \in Params
  /\ old_cost \in Nat \cup {NoCost}
  /\ T \in 0 .. T_min /\ i \in 1 .. StepsPerT + 1 /\ step \in Nat \ {0}
  /\ valid \in 0 .. Runs /\ sum_fct \in Nat
  /\ Complete(chk) =>
       /\ chk.step \in Nat /\ chk.T \in 0 .. T_min
       /\ chk.params \in Params /\ chk.old_cost \in Nat /\ chk.measured \in SeedLists
  /\ starts \in 0 .. MaxStarts
  /\ saved \in BOOLEAN

Init ==
  /\ pc = "down" /\ program = "anneal"
  /\ seeds \in SeedLists /\ measured = seeds
  /\ params = start_value /\ new_params = start_value
  /\ old_cost = NoCost /\ T = 0 /\ i = 1 /\ step = 1
  /\ valid = 0 /\ sum_fct = 0
  /\ chk = NoFile /\ starts = 0 /\ saved = FALSE

-----------------------------------------------------------------------------

(* BUG: the limits are not looked at. *)
MovesUnlimited(n, v) == {v, v + step_size[n], v - step_size[n]}

(* A parameter moves one step up or down when that is within its limits,    *)
(* or stays.                                                                *)
Moves(n, v) ==
  {w \in {v + step_size[n], v - step_size[n]} : w \in low_limit[n] .. high_limit[n]}
  \cup {v}

neighbor(p) ==
  {q \in [ParamNames -> UNION {Moves(n, p[n]) : n \in ParamNames}] :
     \A n \in ParamNames : q[n] \in Moves(n, p[n])}

(* cost(p) begins. *)
Measure(p) ==
  /\ pc' = "simulate"
  /\ new_params' = p /\ valid' = 0 /\ sum_fct' = 0

(* The head of the inner loop. *)
NextStep(p) == \E q \in neighbor(p) : Measure(q)

(* The process dies; what it had in memory is gone and nothing else is.     *)
Die == pc' = "down" /\ UNCHANGED <<search, trial, chk, starts, saved>>

Alive == pc \in {"simulate", "dump", "cool"}

-----------------------------------------------------------------------------

(* A new process calls anneal with the starting parameters. *)
StartAnneal ==
  /\ ~Alive /\ starts < MaxStarts
  /\ program' = "anneal" /\ seeds' \in SeedLists /\ measured' = seeds'
  /\ params' = start_value /\ old_cost' = NoCost /\ T' = 0 /\ i' = 1 /\ step' = 1
  /\ Measure(start_value)
  /\ starts' = starts + 1 /\ saved' = FALSE
  /\ UNCHANGED chk

(* BUG: i is the one the dead process left. *)
StartContinueKeepI ==
  /\ ~Alive /\ starts < MaxStarts /\ chk.by = "anneal" /\ chk.T < T_min
  /\ program' = "continue" /\ seeds' \in SeedLists
  /\ step' = chk.step /\ T' = chk.T /\ params' = chk.params
  /\ old_cost' = chk.old_cost /\ measured' = chk.measured
  /\ NextStep(chk.params)
  /\ starts' = starts + 1 /\ saved' = TRUE
  /\ UNCHANGED <<chk, i>>

(* A new process calls anneal_continue and finds what anneal has saved      *)
(* before its last temperature.                                             *)
StartContinue ==
  /\ ~Alive /\ starts < MaxStarts /\ chk.by = "anneal" /\ chk.T < T_min
  /\ program' = "continue" /\ seeds' \in SeedLists
  /\ step' = chk.step /\ T' = chk.T /\ params' = chk.params /\ i' = 1
  /\ old_cost' = chk.old_cost /\ measured' = chk.measured
  /\ NextStep(chk.params)
  /\ starts' = starts + 1 /\ saved' = TRUE
  /\ UNCHANGED chk

(* anneal_continue finds no file, an empty one (pickle.load raises), its    *)
(* own list (it takes i for the parameters and neighbor(i) raises), or what *)
(* anneal saved after its last temperature: the loops, which assign i, are  *)
(* not entered, and the line of the final results raises UnboundLocalError. *)
StartContinueFails ==
  /\ ~Alive /\ starts < MaxStarts
  /\ chk.by = "anneal" => chk.T = T_min
  /\ pc' = "down" /\ starts' = starts + 1
  /\ UNCHANGED <<search, trial, chk, saved>>

Simulate ==
  /\ pc = "simulate" /\ valid < Runs
  /\ valid' = valid + 1
  /\ sum_fct' = sum_fct + averageFCT[seeds[valid + 1]][new_params]
  /\ UNCHANGED <<pc, search, new_params, chk, starts, saved>>

(* run_experiment returns None, and cost reads an item of it before it asks *)
(* whether it is None: the TypeError ends the process.  (cost never returns *)
(* -1, and the loops never take their "continue".)                          *)
SimulateFails == pc = "simulate" /\ valid < Runs /\ Die

Measured == pc = "simulate" /\ valid = Runs

(* old_cost = cost(params), the first statement of anneal. *)
FirstCost ==
  /\ Measured /\ old_cost = NoCost
  /\ old_cost' = sum_fct
  /\ NextStep(params)
  /\ UNCHANGED <<program, seeds, params, T, i, step, measured, chk, starts, saved>>

(* exp raises OverflowError when a cost has fallen too far for T. *)
Overflows == old_cost - sum_fct > MaxGain[T]
AcceptOverflows == Measured /\ old_cost # NoCost /\ Overflows /\ Die

(* BUG: the cost of the parameters is left at that of the last ones. *)
AcceptKeepCost == params' = new_params /\ measured' = seeds /\ UNCHANGED old_cost

Accept == params' = new_params /\ old_cost' = sum_fct /\ measured' = seeds

(* Worse parameters are refused with a probability of at most              *)
(* 1 - exp((old_cost - new_cost)/T), better and equal ones never.           *)
Refuse == sum_fct > old_cost /\ UNCHANGED <<params, old_cost, measured>>

(* BUG: a refused neighbour does not count as a step. *)
DecideUntilAccepted ==
  /\ Measured /\ old_cost # NoCost /\ ~Overflows
  /\ \/ Accept /\ i' = i + 1 /\ step' = step + 1
     \/ Refuse /\ UNCHANGED <<i, step>>
  /\ IF program = "anneal" /\ i < StepsPerT
     THEN NextStep(params') /\ UNCHANGED <<T, chk>>
     ELSE /\ pc' = "dump" /\ chk' = Torn
          /\ T' = IF program = "anneal" THEN T + 1 ELSE T
          /\ UNCHANGED trial
  /\ UNCHANGED <<program, seeds, starts, saved>>

(* After a decision anneal saves at the end of a temperature,               *)
(* anneal_continue always.  The file is emptied before it is written.       *)
Decide ==
  /\ Measured /\ old_cost # NoCost /\ ~Overflows
  /\ Accept \/ Refuse
  /\ i' = i + 1 /\ step' = step + 1
  /\ IF program = "anneal" /\ i < StepsPerT
     THEN NextStep(params') /\ UNCHANGED <<T, chk>>
     ELSE /\ pc' = "dump" /\ chk' = Torn
          /\ T' = IF program = "anneal" THEN T + 1 ELSE T
          /\ UNCHANGED trial
  /\ UNCHANGED <<program, seeds, starts, saved>>

(* anneal has cooled already, anneal_continue cools after its fifth step.   *)
Dump ==
  /\ pc = "dump"
  /\ chk' = IF program = "anneal" THEN AnnealList ELSE ContinueList
  /\ saved' = TRUE
  /\ pc' = "cool"
  /\ UNCHANGED <<search, trial, starts>>

(* The end of the body of the inner loop, or of the outer one. *)
Cool ==
  LET t == IF program = "continue" /\ i > StepsPerT THEN T + 1 ELSE T IN
  /\ pc = "cool"
  /\ T' = t
  /\ i' = IF i > StepsPerT THEN 1 ELSE i
  /\ IF t < T_min THEN NextStep(params) ELSE pc' = "done" /\ UNCHANGED trial
  /\ UNCHANGED <<program, seeds, params, old_cost, step, measured, chk, starts, saved>>

Crash == Alive /\ Die

Work == Simulate \/ SimulateFails \/ FirstCost \/ AcceptOverflows \/ Decide \/ Dump \/ Cool

Next == StartAnneal \/ StartContinue \/ StartContinueFails \/ Work \/ Crash

(* A live process runs; nobody has to start one. *)
Spec == Init /\ [][Next]_vars /\ WF_vars(Work)

-----------------------------------------------------------------------------
(* Properties *)

CostIn(s, p) == averageFCT[s[1]][p] + averageFCT[s[2]][p] + averageFCT[s[3]][p]

(* The cost that new costs are compared with is the cost of the parameters  *)
(* that were accepted last, in the process and in the file, whatever died   *)
(* and was resumed in between.                                              *)
CostIsOfParams ==
  /\ Alive /\ old_cost # NoCost => old_cost = CostIn(measured, params)
  /\ Complete(chk) => chk.old_cost = CostIn(chk.measured, chk.params)

(* "[step/total_steps]" tells how far the search is: step, T and i agree,   *)
(* across restarts too, and a search that ends has made all its steps.      *)
StepsMatchTemperature ==
  /\ pc = "simulate" => step = T * StepsPerT + i
  /\ pc = "done" => T = T_min /\ step = T_min * StepsPerT + 1

(* What a death can cost, once the process has saved or restored a file and *)
(* while it is not writing it.  anneal's is of the beginning of this        *)
(* temperature: anneal_continue would do again the i - 1 steps since.  What *)
(* anneal_continue has read is where it stands until its first step ends;   *)
(* the lists it saves then are of its last step, but nothing can be resumed *)
(* from them (CheckpointRestorable): a death costs the whole search.        *)
CheckpointIsRecent ==
  saved /\ pc \in {"simulate", "cool", "done"} =>
    /\ Complete(chk)
    /\ program = "anneal" => chk.by = "anneal"
    /\ chk.by = "anneal" => chk.T = T /\ chk.step = T * StepsPerT + 1
    /\ program = "continue" =>
         /\ chk.step = step /\ chk.params = params
         /\ chk.old_cost = old_cost /\ chk.measured = measured
         /\ chk.by = "anneal" => i = 1

(* A search that is not killed ends. *)
Terminates == Alive ~> pc \in {"done", "down"}

(* "This function restores the exploration process from the last checkpoint"*)
(* (anneal_robust.py:238): whatever was saved can be restored.              *)
CheckpointRestorable == Complete(chk) => chk.by = "anneal"
=============================================================================

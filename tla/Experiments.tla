----------------------------- MODULE Experiments -----------------------------
(***************************************************************************)
(* experiment_generator.py, which writes experiments to pickle files and   *)
(* the last id it has used to last_exp_id, and run_experiments.py, which   *)
(* runs the files of a folder one after the other (experiment.py).  Both    *)
(* may die at any moment, and are started again by hand; only the files     *)
(* survive.  The pickle files and the results are in one folder, which may  *)
(* be the directory the runner works in.                                   *)
(*                                                                         *)
(* An experiment (its setup and its parameters) is a number: the count of   *)
(* those made before it.                                                    *)
(***************************************************************************)
EXTENDS Integers, FiniteSets, Functions

CONSTANTS
  Styles,      (* names of the files: "exp" ("exp5.p") or "exp_" ("exp_5.p") *)
  Number,      (* experiments made by one run of the generator              *)
  MaxMade,     (* bound: experiments made                                   *)
  MaxDeaths,   (* bound: deaths of a process and failed simulations         *)
  MaxBatches   (* bound: batches started                                    *)

ASSUME ExperimentsAssumption ==
  /\ Number \in Nat \ {0} /\ MaxMade \in Nat
  /\ MaxDeaths \in Nat /\ MaxBatches \in Nat

VARIABLES
  last_exp_id,  (* the file of that name, Emptied while it is written       *)
  pickles,      (* <<style, expId>> -> the experiment in that file, or Torn *)
  gen,          (* the generator: pc, style, expId and files still to make  *)
  run,          (* the runner: pc, the files it has found and has yet to    *)
                (* run, the file it runs and the experiment in it           *)
  files,        (* experiments whose output is under files-*                *)
  here,         (* the folder is the directory of the runner, ".", which is *)
                (* where the generator writes by default                    *)
  cwd,          (* expId -> report in directory experiment_N of the runner  *)
  folder,       (* expId -> report in experiment_N of another folder        *)
  made, deaths, batches,  (* counters for the bounds                        *)
  reused        (* history: ids that two experiments have got               *)

counters == <<made, deaths, batches>>
vars == <<last_exp_id, pickles, gen, run, files, here, cwd, folder, counters, reused>>

Emptied == -1   (* open(..., "w") has emptied the file                      *)
Torn == 0
NoFile == <<"none", 0>>

Ids == 1 .. MaxMade
Made == 1 .. made
(* The experiment, those whose output was parsed, and the batch that did.   *)
Report == [exp : Made, from : SUBSET Made, batch : Nat]

TypeOK ==
  /\ last_exp_id \in 0 .. MaxMade \cup {Emptied}
  /\ DOMAIN pickles \subseteq Styles \X Ids
  /\ \A f \in DOMAIN pickles : pickles[f] \in Made \cup {Torn}
  /\ gen \in [pc : {"idle", "loop", "dump", "last"}, style : Styles,
              expId : 0 .. MaxMade, left : 0 .. Number]
  /\ run \in [pc : {"idle", "next", "simulate", "report", "move", "done"},
              batch : SUBSET DOMAIN pickles, todo : SUBSET DOMAIN pickles,
              file : (Styles \X Ids) \cup {NoFile}, exp : 0 .. made]
  /\ run.todo \subseteq run.batch
  /\ files \subseteq Made /\ here \in BOOLEAN
  /\ DOMAIN cwd \cup DOMAIN folder \subseteq Ids
  /\ \A n \in DOMAIN cwd : cwd[n] \in Report
  /\ \A n \in DOMAIN folder : folder[n] \in Report
  /\ made \in Nat /\ batches \in Nat /\ reused \subseteq Ids

Init ==
  /\ last_exp_id = 0
  /\ pickles = [f \in {} |-> Torn]
  /\ gen \in [pc : {"idle"}, style : Styles, expId : {0}, left : {0}]
  /\ run = [pc |-> "idle", batch |-> {}, todo |-> {}, file |-> NoFile, exp |-> 0]
  /\ files = {} /\ here \in BOOLEAN
  /\ cwd = [n \in {} |-> 0] /\ folder = [n \in {} |-> 0]
  /\ made = 0 /\ deaths = 0 /\ batches = 0
  /\ reused = {}

With(f, x, y) == [z \in DOMAIN f \cup {x} |-> IF z = x THEN y ELSE f[z]]
Without(f, x) == Restrict(f, DOMAIN f \ {x})

-----------------------------------------------------------------------------
(* The generator.  An emptied last_exp_id raises before anything is done.   *)

(* BUG: what last_exp_id holds is taken for the next free id. *)
StartAtLast(style) ==
  /\ gen.pc = "idle" /\ last_exp_id # Emptied /\ made + Number <= MaxMade
  /\ gen' = [pc |-> "loop", style |-> style, left |-> Number,
             expId |-> IF last_exp_id = 0 THEN 0 ELSE last_exp_id - 1]
  /\ UNCHANGED <<last_exp_id, pickles, run, files, here, cwd, folder, counters, reused>>

Start(style) ==
  /\ gen.pc = "idle" /\ last_exp_id # Emptied /\ made + Number <= MaxMade
  /\ gen' = [pc |-> "loop", style |-> style, expId |-> last_exp_id, left |-> Number]
  /\ UNCHANGED <<last_exp_id, pickles, run, files, here, cwd, folder, counters, reused>>

GenFile == <<gen.style, gen.expId>>

(* BUG: one experiment more than number is made. *)
OpenPickleTooMany ==
  /\ gen.pc = "loop" /\ gen.left >= 0
  /\ gen' = [gen EXCEPT !.pc = "dump", !.expId = @ + 1]
  /\ pickles' = With(pickles, GenFile', Torn)
  /\ reused' = reused \cup {n \in {gen.expId + 1} : \E s \in Styles : <<s, n>> \in DOMAIN pickles}
  /\ UNCHANGED <<last_exp_id, run, files, here, cwd, folder, counters>>

(* expId += 1, and the file of that name is opened for writing. *)
OpenPickle ==
  /\ gen.pc = "loop" /\ gen.left > 0
  /\ gen' = [gen EXCEPT !.pc = "dump", !.expId = @ + 1]
  /\ pickles' = With(pickles, GenFile', Torn)
  /\ reused' = reused \cup {n \in {gen.expId + 1} : \E s \in Styles : <<s, n>> \in DOMAIN pickles}
  /\ UNCHANGED <<last_exp_id, run, files, here, cwd, folder, counters>>

Dump ==
  /\ gen.pc = "dump"
  /\ made' = made + 1
  /\ pickles' = [pickles EXCEPT ![GenFile] = made + 1]
  /\ gen' = [gen EXCEPT !.pc = "loop", !.left = @ - 1]
  /\ UNCHANGED <<last_exp_id, run, files, here, cwd, folder, deaths, batches, reused>>

OpenLastId ==
  /\ gen.pc = "loop" /\ gen.left = 0
  /\ gen' = [gen EXCEPT !.pc = "last"]
  /\ last_exp_id' = Emptied
  /\ UNCHANGED <<pickles, run, files, here, cwd, folder, counters, reused>>

WriteLastId ==
  /\ gen.pc = "last"
  /\ last_exp_id' = gen.expId
  /\ gen' = [gen EXCEPT !.pc = "idle"]
  /\ UNCHANGED <<pickles, run, files, here, cwd, folder, counters, reused>>

GeneratorDies ==
  /\ gen.pc # "idle" /\ deaths < MaxDeaths
  /\ gen' = [gen EXCEPT !.pc = "idle"]
  /\ deaths' = deaths + 1
  /\ UNCHANGED <<last_exp_id, pickles, run, files, here, cwd, folder, made, batches, reused>>

-----------------------------------------------------------------------------
(* The runner. *)

RunnerOnly == UNCHANGED <<last_exp_id, pickles, gen, here, made, reused>>

(* run_experiments: glob. *)
StartBatch ==
  /\ run.pc \in {"idle", "done"} /\ batches < MaxBatches
  /\ run' = [pc |-> "next", batch |-> DOMAIN pickles, todo |-> DOMAIN pickles,
             file |-> NoFile, exp |-> 0]
  /\ batches' = batches + 1
  /\ RunnerOnly /\ UNCHANGED <<files, cwd, folder, deaths>>

(* BUG: the output of earlier simulations is left under files-*. *)
LoadDirty(f) ==
  /\ run.pc = "next" /\ f \in run.todo
  /\ IF pickles[f] = Torn
     THEN run' = [run EXCEPT !.pc = "idle"]
     ELSE run' = [run EXCEPT !.pc = "simulate", !.file = f, !.exp = pickles[f]]
  /\ RunnerOnly /\ UNCHANGED <<files, cwd, folder, deaths, batches>>

(* run_experiment opens the next file: pickle.load raises if it is torn,    *)
(* else the directory is cleaned.                                           *)
Load(f) ==
  /\ run.pc = "next" /\ f \in run.todo
  /\ IF pickles[f] = Torn
     THEN run' = [run EXCEPT !.pc = "idle"] /\ UNCHANGED files
     ELSE /\ run' = [run EXCEPT !.pc = "simulate", !.file = f, !.exp = pickles[f]]
          /\ files' = {}
  /\ RunnerOnly /\ UNCHANGED <<cwd, folder, deaths, batches>>

Simulate ==
  /\ run.pc = "simulate"
  /\ run' = [run EXCEPT !.pc = "report"]
  /\ files' = files \cup {run.exp}
  /\ RunnerOnly /\ UNCHANGED <<cwd, folder, deaths, batches>>

(* BUG: the batch goes on with the next experiment. *)
SimulateFailsGoOn ==
  /\ run.pc = "simulate" /\ deaths < MaxDeaths
  /\ run' = [run EXCEPT !.pc = "next", !.todo = @ \ {run.file}]
  /\ files' = files \cup {run.exp}
  /\ deaths' = deaths + 1
  /\ RunnerOnly /\ UNCHANGED <<cwd, folder, batches>>

(* waf returns an error and run_experiment leaves the interpreter. *)
SimulateFails ==
  /\ run.pc = "simulate" /\ deaths < MaxDeaths
  /\ run' = [run EXCEPT !.pc = "idle"]
  /\ files' = files \cup {run.exp}
  /\ deaths' = deaths + 1
  /\ RunnerOnly /\ UNCHANGED <<cwd, folder, batches>>

ExpId == run.file[2]

(* What is under files-* is parsed, and the report is put in a directory    *)
(* that mkdir makes or finds.                                               *)
WriteReport ==
  /\ run.pc = "report"
  /\ run' = [run EXCEPT !.pc = "move"]
  /\ cwd' = With(cwd, ExpId, [exp |-> run.exp, from |-> files, batch |-> batches])
  /\ RunnerOnly /\ UNCHANGED <<files, folder, deaths, batches>>

NextFile == run' = [run EXCEPT !.pc = "next", !.todo = @ \ {run.file}]

(* BUG: what the folder holds already is replaced. *)
MoveReplaces ==
  /\ run.pc = "move"
  /\ IF here
     THEN UNCHANGED <<cwd, folder>>
     ELSE /\ folder' = With(folder, ExpId, cwd[ExpId])
          /\ cwd' = Without(cwd, ExpId)
  /\ NextFile
  /\ RunnerOnly /\ UNCHANGED <<files, deaths, batches>>

(* mv fails when the folder is the directory itself or holds a directory of *)
(* that name already, and the script does not look at what it returns.      *)
Move ==
  /\ run.pc = "move"
  /\ IF here \/ ExpId \in DOMAIN folder
     THEN UNCHANGED <<cwd, folder>>
     ELSE /\ folder' = With(folder, ExpId, cwd[ExpId])
          /\ cwd' = Without(cwd, ExpId)
  /\ NextFile
  /\ RunnerOnly /\ UNCHANGED <<files, deaths, batches>>

FinishBatch ==
  /\ run.pc = "next" /\ run.todo = {}
  /\ run' = [run EXCEPT !.pc = "done"]
  /\ RunnerOnly /\ UNCHANGED <<files, cwd, folder, deaths, batches>>

RunnerDies ==
  /\ run.pc \notin {"idle", "done"} /\ deaths < MaxDeaths
  /\ run' = [run EXCEPT !.pc = "idle"]
  /\ deaths' = deaths + 1
  /\ RunnerOnly /\ UNCHANGED <<files, cwd, folder, batches>>

Next ==
  \/ \E s \in Styles : Start(s)
  \/ OpenPickle \/ Dump \/ OpenLastId \/ WriteLastId \/ GeneratorDies
  \/ StartBatch
  \/ \E f \in run.todo : Load(f)
  \/ Simulate \/ SimulateFails \/ WriteReport \/ Move \/ FinishBatch \/ RunnerDies

Spec == Init /\ [][Next]_vars

-----------------------------------------------------------------------------
(* Properties *)

(* The results in the folder of the experiments. *)
Results == IF here THEN cwd ELSE folder

(* A report has been computed from the output of the simulation it reports, *)
(* whatever simulations failed, or died with the runner, in the directory.  *)
ReportsOwnRun ==
  /\ \A n \in DOMAIN cwd : cwd[n].from = {cwd[n].exp}
  /\ \A n \in DOMAIN folder : folder[n].from = {folder[n].exp}

(* A batch that ends has a result for every file it found, after any        *)
(* failures and reruns: its own experiment's, unless the id was given out   *)
(* twice.                                                                   *)
BatchComplete ==
  run.pc = "done" => \A f \in run.batch :
    /\ f[2] \in DOMAIN Results
    /\ f[2] \notin reused => Results[f[2]].exp = pickles[f]

(* What becomes of a result when its experiment is run again.  In another   *)
(* folder it stands (the new report is left in the directory of the         *)
(* runner).  In the directory itself the new report replaces it, and is of  *)
(* the same experiment unless the id was given out twice.                   *)
ResultsStand ==
  [][\A n \in DOMAIN Results :
       /\ n \in DOMAIN Results'
       /\ ~here => Results'[n] = Results[n]
       /\ n \notin reused => Results'[n].exp = Results[n].exp]_vars

(* An id is the experiment's own once last_exp_id has it: only ids of a run *)
(* of the generator that died are given out again.                          *)
RecordedIdsAreFinal ==
  [][\A f \in DOMAIN pickles : f[2] <= last_exp_id => pickles'[f] = pickles[f]]_vars
=============================================================================

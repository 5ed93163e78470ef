------------------------- MODULE ExperimentsProofs -------------------------
(***************************************************************************)
(* Theorems about the generator and the runner of experiments, for any     *)
(* number of experiments, deaths and batches.                              *)
(***************************************************************************)
EXTENDS Experiments, TLAPS

(* The generator only opens ids above the recorded one, and never more than *)
(* the bound; the file it is writing is torn.                               *)
Generating ==
  /\ last_exp_id <= made
  /\ gen.pc \in {"loop", "last"} => last_exp_id <= gen.expId /\ gen.expId <= made
  /\ gen.pc = "loop" => gen.expId + gen.left <= MaxMade
  /\ gen.pc = "dump" =>
       /\ last_exp_id < gen.expId /\ gen.expId <= made + 1
       /\ gen.left > 0 /\ gen.expId + gen.left <= MaxMade + 1
       /\ GenFile \in DOMAIN pickles /\ pickles[GenFile] = Torn

(* An id has one file unless it was given out again. *)
OneFile == \A f, g \in DOMAIN pickles : f[2] = g[2] => f = g \/ f[2] \in reused

Busy == run.pc \in {"simulate", "report", "move"}

(* What is known under an id that was given out once is of the experiment   *)
(* in its file.                                                             *)
Reported ==
  /\ \A n \in DOMAIN cwd \cup DOMAIN folder : \E f \in DOMAIN pickles : f[2] = n
  /\ \A f \in DOMAIN pickles : f[2] \notin reused =>
       /\ f[2] \in DOMAIN cwd => cwd[f[2]].exp = pickles[f]
       /\ f[2] \in DOMAIN folder => folder[f[2]].exp = pickles[f]
       /\ Busy /\ run.file = f => run.exp = pickles[f]

(* Where the runner is tells what is under files-* and which results there  *)
(* are.                                                                     *)
Running ==
  /\ Busy => run.file \in run.todo /\ run.exp \in Made
  /\ run.pc = "simulate" => files = {}
  /\ run.pc = "report" => files = {run.exp}
  /\ run.pc = "move" => ExpId \in DOMAIN cwd
  /\ run.pc # "idle" => \A f \in run.batch \ run.todo : f[2] \in DOMAIN Results
  /\ run.pc = "done" => run.todo = {}

ExperimentsInv == TypeOK /\ Generating /\ OneFile /\ Reported /\ Running /\ ReportsOwnRun

-----------------------------------------------------------------------------

(* The types of the constants. *)
LEMMA Constants ==
  Number \in Nat /\ Number > 0 /\ MaxMade \in Nat
BY ExperimentsAssumption

LEMMA InitInv == ASSUME Init PROVE ExperimentsInv
<1> USE DEF Init
<1>1. /\ DOMAIN pickles = {} /\ DOMAIN cwd = {} /\ DOMAIN folder = {}
      /\ run.pc = "idle" /\ run.batch = {} /\ run.todo = {}
      /\ gen.pc = "idle" /\ gen.expId = 0 /\ gen.left = 0
  OBVIOUS
<1>2. TypeOK
  <2>1. gen \in [pc : {"idle", "loop", "dump", "last"}, style : Styles,
                 expId : 0 .. MaxMade, left : 0 .. Number]
    BY Constants
  <2>2. run \in [pc : {"idle", "next", "simulate", "report", "move", "done"},
                 batch : SUBSET DOMAIN pickles, todo : SUBSET DOMAIN pickles,
                 file : (Styles \X Ids) \cup {NoFile}, exp : 0 .. made]
    BY <1>1
  <2>3. /\ last_exp_id \in 0 .. MaxMade \cup {Emptied} /\ made \in Nat /\ batches \in Nat
        /\ here \in BOOLEAN
    BY Constants
  <2> QED BY <1>1, <2>1, <2>2, <2>3 DEF TypeOK
<1>3. Generating /\ OneFile /\ Reported /\ Running /\ ReportsOwnRun
  BY <1>1 DEF Generating, OneFile, Reported, Running, ReportsOwnRun, Busy
<1> QED BY <1>2, <1>3 DEF ExperimentsInv

-----------------------------------------------------------------------------
(* The generator: one lemma per action.  It leaves the runner, its files    *)
(* and its results alone.                                                   *)

Others == UNCHANGED <<run, files, here, cwd, folder, batches>>

LEMMA StartStep ==
  ASSUME ExperimentsInv, NEW s \in Styles, Start(s) PROVE ExperimentsInv'
<1> USE DEF ExperimentsInv
<1>1. /\ gen' = [pc |-> "loop", style |-> s, expId |-> last_exp_id, left |-> Number]
      /\ last_exp_id # Emptied /\ made + Number <= MaxMade
      /\ UNCHANGED <<last_exp_id, pickles, made, reused>> /\ Others
  BY DEF Start, Others, counters
<1>2. last_exp_id \in 0 .. MaxMade /\ last_exp_id <= made /\ made \in Nat
  BY <1>1 DEF TypeOK, Generating
<1>3. gen' \in [pc : {"idle", "loop", "dump", "last"}, style : Styles,
                expId : 0 .. MaxMade, left : 0 .. Number]
  BY <1>1, <1>2, Constants
<1>4. TypeOK'
  BY <1>1, <1>3 DEF TypeOK, Others, Report, Made
<1>5. Generating'
  <2>1. gen'.pc = "loop" /\ gen'.expId = last_exp_id /\ gen'.left = Number
    BY <1>1
  <2> QED BY <1>1, <1>2, <2>1, Constants DEF Generating
<1>6. OneFile' /\ Reported'
  BY <1>1 DEF OneFile, Reported, Busy, Others
<1>7. Running' /\ ReportsOwnRun'
  BY <1>1 DEF Running, Results, Busy, Made, ExpId, ReportsOwnRun, Others
<1> QED BY <1>4, <1>5, <1>6, <1>7

LEMMA OpenPickleStep == ASSUME ExperimentsInv, OpenPickle PROVE ExperimentsInv'
<1> USE DEF ExperimentsInv
<1> DEFINE new == <<gen.style, gen.expId + 1>>
<1>1. /\ gen.pc = "loop" /\ gen.left > 0
      /\ gen' = [gen EXCEPT !.pc = "dump", !.expId = gen.expId + 1]
      /\ pickles' = With(pickles, GenFile', Torn)
      /\ reused' = reused \cup {n \in {gen.expId + 1} : \E t \in Styles : <<t, n>> \in DOMAIN pickles}
      /\ UNCHANGED <<last_exp_id, made>> /\ Others
  BY DEF OpenPickle, Others, counters
<1>2. /\ gen \in [pc : {"idle", "loop", "dump", "last"}, style : Styles,
                  expId : 0 .. MaxMade, left : 0 .. Number]
      /\ made \in Nat /\ last_exp_id \in 0 .. MaxMade \cup {Emptied}
      /\ DOMAIN pickles \subseteq Styles \X Ids
      /\ last_exp_id <= made /\ last_exp_id <= gen.expId /\ gen.expId <= made
      /\ gen.expId + gen.left <= MaxMade
  BY <1>1 DEF TypeOK, Generating
<1>3. /\ gen' = [pc |-> "dump", style |-> gen.style, expId |-> gen.expId + 1, left |-> gen.left]
      /\ gen'.pc = "dump" /\ gen'.style = gen.style /\ gen'.expId = gen.expId + 1
      /\ gen'.left = gen.left
  BY <1>1, <1>2
<1>4. GenFile' = new
  BY <1>3 DEF GenFile
<1>5. /\ DOMAIN pickles' = DOMAIN pickles \cup {new} /\ pickles'[new] = Torn
      /\ \A f \in DOMAIN pickles : f # new => pickles'[f] = pickles[f]
  <2>1. pickles' = With(pickles, new, Torn)
    BY <1>1, <1>4
  <2> HIDE DEF new
  <2>2. /\ DOMAIN With(pickles, new, Torn) = DOMAIN pickles \cup {new}
        /\ With(pickles, new, Torn)[new] = Torn
        /\ \A z \in DOMAIN pickles : z # new => With(pickles, new, Torn)[z] = pickles[z]
    BY DEF With
  <2> QED BY <2>1, <2>2
<1>6. gen.expId + 1 \in Ids /\ new \in Styles \X Ids /\ new[2] = gen.expId + 1
  BY <1>1, <1>2, Constants DEF Ids
<1>7. \A f \in DOMAIN pickles : f[2] = gen.expId + 1 => gen.expId + 1 \in reused'
  BY <1>1, <1>2 DEF Ids
<1>8. reused \subseteq reused' /\ reused' \subseteq Ids
  BY <1>1, <1>6 DEF TypeOK
<1>9. TypeOK'
  <2>1. gen' \in [pc : {"idle", "loop", "dump", "last"}, style : Styles,
                  expId : 0 .. MaxMade, left : 0 .. Number]
    BY <1>2, <1>3, <1>6 DEF Ids
  <2>2. DOMAIN pickles' \subseteq Styles \X Ids
    BY <1>2, <1>5, <1>6
  <2>3. \A f \in DOMAIN pickles' : pickles'[f] \in Made' \cup {Torn}
    BY <1>1, <1>5 DEF TypeOK, Made
  <2>4. run' \in [pc : {"idle", "next", "simulate", "report", "move", "done"},
                  batch : SUBSET DOMAIN pickles', todo : SUBSET DOMAIN pickles',
                  file : (Styles \X Ids) \cup {NoFile}, exp : 0 .. made']
    BY <1>1, <1>5 DEF TypeOK, Others
  <2> QED BY <1>1, <1>8, <2>1, <2>2, <2>3, <2>4 DEF TypeOK, Others, Report, Made
<1>10. Generating'
  BY <1>1, <1>2, <1>3, <1>4, <1>5, Constants DEF Generating, Emptied
<1>11. OneFile'
  BY <1>5, <1>6, <1>7, <1>8 DEF OneFile
<1>12. Running' /\ ReportsOwnRun'
  BY <1>1 DEF Running, Results, Busy, Made, ExpId, ReportsOwnRun, Others
<1>13. Reported'
  <2>1. \A n \in DOMAIN cwd' \cup DOMAIN folder' : \E f \in DOMAIN pickles' : f[2] = n
    BY <1>1, <1>5 DEF Reported, Others
  <2>2. ASSUME NEW f \in DOMAIN pickles', f[2] \notin reused'
        PROVE  /\ f[2] \in DOMAIN cwd' => cwd'[f[2]].exp = pickles'[f]
               /\ f[2] \in DOMAIN folder' => folder'[f[2]].exp = pickles'[f]
               /\ Busy' /\ run'.file = f => run'.exp = pickles'[f]
    <3>1. CASE f = new
      <4>1. \A g \in DOMAIN pickles : g[2] # f[2]
        BY <1>6, <1>7, <2>2, <3>1
      <4>2. f[2] \notin DOMAIN cwd /\ f[2] \notin DOMAIN folder
        BY <4>1 DEF Reported
      <4>3. Busy => run.file # f
        BY <4>1 DEF Running, TypeOK
      <4> QED BY <1>1, <4>2, <4>3 DEF Others, Busy
    <3>2. CASE f # new
      BY <1>1, <1>5, <1>8, <2>2, <3>2 DEF Reported, Others, Busy
    <3> QED BY <3>1, <3>2
  <2> QED BY <2>1, <2>2 DEF Reported
<1> QED BY <1>9, <1>10, <1>11, <1>12, <1>13

LEMMA DumpStep == ASSUME ExperimentsInv, Dump PROVE ExperimentsInv'
<1> USE DEF ExperimentsInv
<1>1. /\ gen.pc = "dump" /\ made' = made + 1
      /\ pickles' = [pickles EXCEPT ![GenFile] = made + 1]
      /\ gen' = [gen EXCEPT !.pc = "loop", !.left = gen.left - 1]
      /\ UNCHANGED <<last_exp_id, reused>> /\ Others
  BY DEF Dump, Others
<1>2. /\ gen \in [pc : {"idle", "loop", "dump", "last"}, style : Styles,
                  expId : 0 .. MaxMade, left : 0 .. Number]
      /\ made \in Nat /\ last_exp_id \in 0 .. MaxMade \cup {Emptied}
      /\ last_exp_id < gen.expId /\ gen.expId <= made + 1 /\ gen.left > 0
      /\ gen.expId + gen.left <= MaxMade + 1
      /\ GenFile \in DOMAIN pickles /\ pickles[GenFile] = Torn
      /\ last_exp_id <= made
  BY <1>1 DEF TypeOK, Generating
<1>3. /\ gen' = [pc |-> "loop", style |-> gen.style, expId |-> gen.expId, left |-> gen.left - 1]
      /\ gen'.pc = "loop" /\ gen'.expId = gen.expId /\ gen'.left = gen.left - 1
  BY <1>1, <1>2
<1>4. /\ DOMAIN pickles' = DOMAIN pickles /\ pickles'[GenFile] = made + 1
      /\ \A f \in DOMAIN pickles : f # GenFile => pickles'[f] = pickles[f]
  BY <1>1, <1>2
<1>5. Made \subseteq Made' /\ made + 1 \in Made' /\ Torn \notin Made
  BY <1>1, <1>2 DEF Made, Torn
<1>6. TypeOK'
  <2>1. gen' \in [pc : {"idle", "loop", "dump", "last"}, style : Styles,
                  expId : 0 .. MaxMade, left : 0 .. Number]
    BY <1>2, <1>3, Constants
  <2>2. \A f \in DOMAIN pickles' : pickles'[f] \in Made' \cup {Torn}
    BY <1>4, <1>5 DEF TypeOK
  <2>3. run' \in [pc : {"idle", "next", "simulate", "report", "move", "done"},
                  batch : SUBSET DOMAIN pickles', todo : SUBSET DOMAIN pickles',
                  file : (Styles \X Ids) \cup {NoFile}, exp : 0 .. made']
    <3>1. /\ run \in [pc : {"idle", "next", "simulate", "report", "move", "done"},
                      batch : SUBSET DOMAIN pickles, todo : SUBSET DOMAIN pickles,
                      file : (Styles \X Ids) \cup {NoFile}, exp : 0 .. made]
          /\ 0 .. made \subseteq 0 .. made'
      BY <1>1, <1>2 DEF TypeOK
    <3> QED BY <1>1, <1>4, <3>1 DEF Others
  <2>4. /\ \A n \in DOMAIN cwd' : cwd'[n] \in Report'
        /\ \A n \in DOMAIN folder' : folder'[n] \in Report'
    BY <1>1, <1>5 DEF TypeOK, Report, Others
  <2>5. files' \subseteq Made' /\ made' \in Nat
    BY <1>1, <1>2, <1>5 DEF TypeOK, Others
  <2> QED BY <1>1, <1>4, <2>1, <2>2, <2>3, <2>4, <2>5 DEF TypeOK, Others
<1>7. Generating'
  BY <1>1, <1>2, <1>3, Constants DEF Generating, Emptied
<1>8. OneFile'
  BY <1>1, <1>4 DEF OneFile
<1>9. Running' /\ ReportsOwnRun'
  BY <1>1, <1>5 DEF Running, Results, Busy, ExpId, ReportsOwnRun, Others
<1>10. Reported'
  <2>1. \A n \in DOMAIN cwd' \cup DOMAIN folder' : \E f \in DOMAIN pickles' : f[2] = n
    BY <1>1, <1>4 DEF Reported, Others
  <2>2. ASSUME NEW f \in DOMAIN pickles', f[2] \notin reused'
        PROVE  /\ f[2] \in DOMAIN cwd' => cwd'[f[2]].exp = pickles'[f]
               /\ f[2] \in DOMAIN folder' => folder'[f[2]].exp = pickles'[f]
               /\ Busy' /\ run'.file = f => run'.exp = pickles'[f]
    <3>1. CASE f = GenFile
      (* Nothing is known of a torn file's id. *)
      <4>1. /\ f[2] \in DOMAIN cwd => cwd[f[2]].exp = Torn
            /\ f[2] \in DOMAIN folder => folder[f[2]].exp = Torn
            /\ Busy /\ run.file = f => run.exp = Torn
        BY <1>1, <1>2, <2>2, <3>1 DEF Reported
      <4>2. f[2] \notin DOMAIN cwd /\ f[2] \notin DOMAIN folder
        BY <1>5, <4>1 DEF TypeOK, Report
      <4>3. ~(Busy /\ run.file = f)
        BY <1>5, <4>1 DEF Running
      <4> QED BY <1>1, <4>2, <4>3 DEF Others, Busy
    <3>2. CASE f # GenFile
      BY <1>1, <1>4, <2>2, <3>2 DEF Reported, Others, Busy
    <3> QED BY <3>1, <3>2
  <2> QED BY <2>1, <2>2 DEF Reported
<1> QED BY <1>6, <1>7, <1>8, <1>9, <1>10

(* Steps of the generator that leave the pickle files alone. *)
LEMMA LastIdStep ==
  ASSUME ExperimentsInv, OpenLastId \/ WriteLastId \/ GeneratorDies
  PROVE  ExperimentsInv'
<1> USE DEF ExperimentsInv
<1>1. /\ UNCHANGED <<pickles, made, reused>> /\ Others
      /\ \/ gen.pc = "loop" /\ gen' = [gen EXCEPT !.pc = "last"] /\ last_exp_id' = Emptied
         \/ gen.pc = "last" /\ gen' = [gen EXCEPT !.pc = "idle"] /\ last_exp_id' = gen.expId
         \/ gen' = [gen EXCEPT !.pc = "idle"] /\ last_exp_id' = last_exp_id
  BY DEF OpenLastId, WriteLastId, GeneratorDies, Others, counters
<1>2. /\ gen \in [pc : {"idle", "loop", "dump", "last"}, style : Styles,
                  expId : 0 .. MaxMade, left : 0 .. Number]
      /\ made \in Nat /\ last_exp_id \in 0 .. MaxMade \cup {Emptied} /\ last_exp_id <= made
      /\ gen.pc \in {"loop", "last"} => gen.expId <= made
  BY DEF TypeOK, Generating
<1>3. /\ gen' \in [pc : {"idle", "loop", "dump", "last"}, style : Styles,
                   expId : 0 .. MaxMade, left : 0 .. Number]
      /\ gen'.expId = gen.expId
      /\ \/ gen'.pc = "last" /\ gen.pc = "loop" /\ last_exp_id' = Emptied
         \/ gen'.pc = "idle"
  BY <1>1, <1>2
<1>4. last_exp_id' \in 0 .. MaxMade \cup {Emptied} /\ last_exp_id' <= made
  BY <1>1, <1>2 DEF Emptied
<1>5. TypeOK'
  BY <1>1, <1>3, <1>4 DEF TypeOK, Others, Report, Made
<1>6. Generating'
  BY <1>1, <1>2, <1>3, <1>4 DEF Generating, Emptied
<1>7. OneFile' /\ Reported'
  BY <1>1 DEF OneFile, Reported, Busy, Others
<1>8. Running' /\ ReportsOwnRun'
  BY <1>1 DEF Running, Results, Busy, Made, ExpId, ReportsOwnRun, Others
<1> QED BY <1>5, <1>6, <1>7, <1>8

-----------------------------------------------------------------------------
(* The runner: one lemma per action.  It leaves the generator and its files *)
(* alone.                                                                   *)

RunTypes == [pc : {"idle", "next", "simulate", "report", "move", "done"},
             batch : SUBSET DOMAIN pickles, todo : SUBSET DOMAIN pickles,
             file : (Styles \X Ids) \cup {NoFile}, exp : 0 .. made]

LEMMA RunnerFrame ==
  ASSUME ExperimentsInv, RunnerOnly,
         run' \in RunTypes, run'.todo \subseteq run'.batch, files' \subseteq Made,
         DOMAIN cwd' \cup DOMAIN folder' \subseteq Ids,
         \A n \in DOMAIN cwd' : cwd'[n] \in Report,
         \A n \in DOMAIN folder' : folder'[n] \in Report,
         batches' \in Nat
  PROVE  TypeOK' /\ Generating' /\ OneFile'
<1>1. TypeOK'
  BY DEF ExperimentsInv, TypeOK, RunnerOnly, RunTypes, Report, Made
<1>2. Generating' /\ OneFile'
  BY DEF ExperimentsInv, Generating, OneFile, RunnerOnly, GenFile
<1> QED BY <1>1, <1>2

(* A runner that has no experiment in hand, and has left the files of       *)
(* results alone.                                                           *)
LEMMA IdleStep ==
  ASSUME ExperimentsInv, RunnerOnly, UNCHANGED <<cwd, folder>>, ~Busy',
         run' \in RunTypes, run'.todo \subseteq run'.batch, files' \subseteq Made,
         run'.pc # "idle" =>
           \A f \in run'.batch \ run'.todo : f[2] \in DOMAIN Results,
         run'.pc = "done" => run'.todo = {}, batches' \in Nat
  PROVE  ExperimentsInv'
<1>1. TypeOK' /\ Generating' /\ OneFile'
  BY RunnerFrame DEF ExperimentsInv, TypeOK
<1>2. Reported' /\ ReportsOwnRun'
  BY DEF ExperimentsInv, Reported, ReportsOwnRun, RunnerOnly
<1>3. Running'
  BY DEF Running, Results, Busy, RunnerOnly
<1> QED BY <1>1, <1>2, <1>3 DEF ExperimentsInv

LEMMA StartBatchStep == ASSUME ExperimentsInv, StartBatch PROVE ExperimentsInv'
<1>1. /\ run' = [pc |-> "next", batch |-> DOMAIN pickles, todo |-> DOMAIN pickles,
                 file |-> NoFile, exp |-> 0]
      /\ RunnerOnly /\ UNCHANGED <<files, cwd, folder>> /\ batches' = batches + 1
  BY DEF StartBatch
<1>2. made \in Nat /\ batches' \in Nat /\ files \subseteq Made
  BY <1>1 DEF ExperimentsInv, TypeOK
<1>3. run' \in RunTypes
  BY <1>1, <1>2 DEF RunTypes
<1>4. run'.pc = "next" /\ run'.batch = run'.todo
  BY <1>1
<1> QED BY <1>1, <1>2, <1>3, <1>4, IdleStep DEF Busy

(* The runner stops: it fails, dies, or finds a torn file. *)
LEMMA StopStep ==
  ASSUME ExperimentsInv, RunnerOnly, UNCHANGED <<cwd, folder, batches>>,
         run' = [run EXCEPT !.pc = "idle"], files' \subseteq Made
  PROVE  ExperimentsInv'
<1>1. run \in RunTypes /\ run.todo \subseteq run.batch
  BY DEF ExperimentsInv, TypeOK, RunTypes
<1>2. run' \in RunTypes /\ run'.pc = "idle" /\ run'.todo \subseteq run'.batch
  BY <1>1 DEF RunTypes
<1>3. batches' \in Nat
  BY DEF ExperimentsInv, TypeOK
<1> QED BY <1>2, <1>3, IdleStep DEF Busy

LEMMA FinishBatchStep == ASSUME ExperimentsInv, FinishBatch PROVE ExperimentsInv'
<1>1. /\ run.pc = "next" /\ run.todo = {} /\ run' = [run EXCEPT !.pc = "done"]
      /\ RunnerOnly /\ UNCHANGED <<files, cwd, folder, batches>>
  BY DEF FinishBatch
<1>2. /\ run \in RunTypes /\ run.todo \subseteq run.batch /\ files \subseteq Made
      /\ batches' \in Nat
  BY <1>1 DEF ExperimentsInv, TypeOK, RunTypes
<1>3. /\ run' \in RunTypes /\ run'.pc = "done"
      /\ run'.todo = run.todo /\ run'.batch = run.batch
  BY <1>1, <1>2 DEF RunTypes
<1>4. \A f \in run.batch \ run.todo : f[2] \in DOMAIN Results
  BY <1>1 DEF ExperimentsInv, Running
<1> QED BY <1>1, <1>2, <1>3, <1>4, IdleStep DEF Busy

LEMMA SimulateFailsStep ==
  ASSUME ExperimentsInv, SimulateFails \/ RunnerDies PROVE ExperimentsInv'
<1>1. files' \subseteq Made
  BY DEF ExperimentsInv, TypeOK, Running, Results, Busy, SimulateFails, RunnerDies
<1> QED BY <1>1, StopStep DEF SimulateFails, RunnerDies

LEMMA LoadStep ==
  ASSUME ExperimentsInv, NEW f \in run.todo, Load(f) PROVE ExperimentsInv'
<1>1. RunnerOnly /\ UNCHANGED <<cwd, folder, batches>> /\ run.pc = "next"
  BY DEF Load
<1>2. CASE pickles[f] = Torn
  <2>1. run' = [run EXCEPT !.pc = "idle"] /\ UNCHANGED files
    BY <1>2 DEF Load
  <2>2. files' \subseteq Made
    BY <2>1 DEF ExperimentsInv, TypeOK
  <2> QED BY <1>1, <2>1, <2>2, StopStep
<1>3. CASE pickles[f] # Torn
  <2>1. run' = [run EXCEPT !.pc = "simulate", !.file = f, !.exp = pickles[f]] /\ files' = {}
    BY <1>3 DEF Load
  <2>2. /\ run \in RunTypes /\ run.todo \subseteq run.batch /\ made \in Nat
        /\ DOMAIN pickles \subseteq Styles \X Ids
    BY DEF ExperimentsInv, TypeOK, RunTypes
  <2>3. f \in DOMAIN pickles /\ f \in Styles \X Ids
    BY <2>2 DEF RunTypes
  <2>4. pickles[f] \in Made
    BY <1>3, <2>3 DEF ExperimentsInv, TypeOK
  <2>5. /\ run'.pc = "simulate" /\ run'.file = f /\ run'.exp = pickles[f]
        /\ run'.todo = run.todo /\ run'.batch = run.batch
    BY <2>1, <2>2 DEF RunTypes
  <2>6. run' \in RunTypes
    <3>1. run' = [pc |-> "simulate", batch |-> run.batch, todo |-> run.todo,
                  file |-> f, exp |-> pickles[f]]
      BY <2>1, <2>2 DEF RunTypes
    <3>2. /\ run.batch \in SUBSET DOMAIN pickles /\ run.todo \in SUBSET DOMAIN pickles
          /\ pickles[f] \in 0 .. made
      BY <2>2, <2>4 DEF RunTypes, Made
    <3> QED BY <2>3, <3>1, <3>2 DEF RunTypes
  <2>7. TypeOK' /\ Generating' /\ OneFile'
    BY <1>1, <2>1, <2>2, <2>5, <2>6, RunnerFrame DEF ExperimentsInv, TypeOK
  <2>8. Reported' /\ ReportsOwnRun'
    BY <1>1, <2>5 DEF ExperimentsInv, Reported, ReportsOwnRun, RunnerOnly
  <2>9. Running'
    BY <1>1, <2>1, <2>4, <2>5 DEF ExperimentsInv, Running, Results, Busy, RunnerOnly, Made
  <2> QED BY <2>7, <2>8, <2>9 DEF ExperimentsInv
<1> QED BY <1>2, <1>3

LEMMA SimulateStep == ASSUME ExperimentsInv, Simulate PROVE ExperimentsInv'
<1>1. /\ run.pc = "simulate" /\ run' = [run EXCEPT !.pc = "report"]
      /\ files' = files \cup {run.exp}
      /\ RunnerOnly /\ UNCHANGED <<cwd, folder, batches>>
  BY DEF Simulate
<1>2. run \in RunTypes /\ run.todo \subseteq run.batch
  BY DEF ExperimentsInv, TypeOK, RunTypes
<1>3. /\ run' \in RunTypes /\ run'.pc = "report" /\ run'.file = run.file /\ run'.exp = run.exp
      /\ run'.todo = run.todo /\ run'.batch = run.batch
  BY <1>1, <1>2 DEF RunTypes
<1>4. files = {} /\ run.exp \in Made /\ run.file \in run.todo
  BY <1>1 DEF ExperimentsInv, Running, Results, Busy
<1>5. TypeOK' /\ Generating' /\ OneFile'
  BY <1>1, <1>2, <1>3, <1>4, RunnerFrame DEF ExperimentsInv, TypeOK
<1>6. Reported' /\ ReportsOwnRun'
  BY <1>1, <1>3 DEF ExperimentsInv, Reported, ReportsOwnRun, RunnerOnly, Busy
<1>7. Running'
  BY <1>1, <1>3, <1>4 DEF ExperimentsInv, Running, Results, Busy, RunnerOnly, Made
<1> QED BY <1>5, <1>6, <1>7 DEF ExperimentsInv

LEMMA WriteReportStep == ASSUME ExperimentsInv, WriteReport PROVE ExperimentsInv'
<1> DEFINE new == [exp |-> run.exp, from |-> files, batch |-> batches]
<1>1. /\ run.pc = "report" /\ run' = [run EXCEPT !.pc = "move"]
      /\ cwd' = With(cwd, ExpId, new)
      /\ RunnerOnly /\ UNCHANGED <<files, folder, batches>>
  BY DEF WriteReport
<1>2. /\ run \in RunTypes /\ run.todo \subseteq run.batch /\ files \subseteq Made
      /\ batches \in Nat
      /\ DOMAIN pickles \subseteq Styles \X Ids
  BY DEF ExperimentsInv, TypeOK, RunTypes
<1>3. /\ run' \in RunTypes /\ run'.pc = "move" /\ run'.file = run.file /\ run'.exp = run.exp
      /\ run'.todo = run.todo /\ run'.batch = run.batch
  BY <1>1, <1>2 DEF RunTypes
<1>4. files = {run.exp} /\ run.exp \in Made /\ run.file \in run.todo /\ Busy
  BY <1>1 DEF ExperimentsInv, Running, Results, Busy
<1>5. run.file \in DOMAIN pickles /\ ExpId \in Ids
  BY <1>2, <1>4 DEF RunTypes, ExpId
<1>6. /\ new \in Report /\ new.exp = run.exp /\ new.from = {new.exp}
  BY <1>2, <1>4 DEF Report
<1>7. /\ DOMAIN cwd' = DOMAIN cwd \cup {ExpId} /\ cwd'[ExpId] = new
      /\ \A n \in DOMAIN cwd : n # ExpId => cwd'[n] = cwd[n]
  <2> DEFINE id == ExpId
  <2> HIDE DEF new, id
  <2>1. /\ DOMAIN With(cwd, id, new) = DOMAIN cwd \cup {id}
        /\ With(cwd, id, new)[id] = new
        /\ \A n \in DOMAIN cwd : n # id => With(cwd, id, new)[n] = cwd[n]
    BY DEF With
  <2> QED BY <1>1, <2>1 DEF id
<1> HIDE DEF new
<1>8. TypeOK' /\ Generating' /\ OneFile'
  <2>1. DOMAIN cwd' \cup DOMAIN folder' \subseteq Ids
    BY <1>1, <1>5, <1>7 DEF ExperimentsInv, TypeOK
  <2>2. \A n \in DOMAIN cwd' : cwd'[n] \in Report
    BY <1>6, <1>7 DEF ExperimentsInv, TypeOK
  <2>3. (\A n \in DOMAIN folder' : folder'[n] \in Report) /\ batches' \in Nat
    BY <1>1, <1>2 DEF ExperimentsInv, TypeOK
  <2> QED BY <1>1, <1>2, <1>3, <2>1, <2>2, <2>3, RunnerFrame
<1>9. ReportsOwnRun'
  BY <1>1, <1>6, <1>7 DEF ExperimentsInv, ReportsOwnRun
<1>10. Running'
  BY <1>1, <1>3, <1>4, <1>7 DEF ExperimentsInv, Running, Results, Busy, RunnerOnly, Made, ExpId
<1>11. Reported'
  <2>1. \A n \in DOMAIN cwd' \cup DOMAIN folder' : \E f \in DOMAIN pickles' : f[2] = n
    BY <1>1, <1>5, <1>7 DEF ExperimentsInv, Reported, RunnerOnly, ExpId
  <2>2. ASSUME NEW f \in DOMAIN pickles, f[2] \notin reused
        PROVE  f[2] \in DOMAIN cwd' => cwd'[f[2]].exp = pickles[f]
    <3>1. CASE f[2] = ExpId
      <4>1. f = run.file
        BY <1>5, <2>2, <3>1 DEF ExperimentsInv, OneFile, ExpId
      <4> QED BY <1>4, <1>6, <1>7, <2>2, <3>1, <4>1 DEF ExperimentsInv, Reported
    <3>2. CASE f[2] # ExpId
      BY <1>7, <2>2, <3>2 DEF ExperimentsInv, Reported
    <3> QED BY <3>1, <3>2
  <2>3. ASSUME NEW f \in DOMAIN pickles, f[2] \notin reused
        PROVE  /\ f[2] \in DOMAIN folder' => folder'[f[2]].exp = pickles[f]
               /\ run'.file = f => run'.exp = pickles[f]
    BY <1>1, <1>3, <1>4, <2>3 DEF ExperimentsInv, Reported
  <2>4. pickles' = pickles /\ reused' = reused
    BY <1>1 DEF RunnerOnly
  <2> QED BY <2>1, <2>2, <2>3, <2>4 DEF Reported
<1> QED BY <1>8, <1>9, <1>10, <1>11 DEF ExperimentsInv

LEMMA MoveStep == ASSUME ExperimentsInv, Move PROVE ExperimentsInv'
<1>1. /\ run.pc = "move"
      /\ run' = [run EXCEPT !.pc = "next", !.todo = run.todo \ {run.file}]
      /\ RunnerOnly /\ UNCHANGED <<files, batches>>
  BY DEF Move, NextFile
<1>2. /\ run \in RunTypes /\ run.todo \subseteq run.batch /\ files \subseteq Made
      /\ batches' \in Nat
  BY <1>1 DEF ExperimentsInv, TypeOK, RunTypes
<1>3. /\ run' \in RunTypes /\ run'.pc = "next" /\ run'.batch = run.batch
      /\ run'.todo = run.todo \ {run.file}
  BY <1>1, <1>2 DEF RunTypes
<1>4. ExpId \in DOMAIN cwd /\ ~Busy'
  BY <1>1, <1>3 DEF ExperimentsInv, Running, Results, Busy
(* A report is in the folder where it was there or in the directory of the  *)
(* runner before, and none is lost.                                         *)
<1>5. /\ \A n \in DOMAIN cwd' : n \in DOMAIN cwd /\ cwd'[n] = cwd[n]
      /\ \A n \in DOMAIN folder' :
           \/ n \in DOMAIN folder /\ folder'[n] = folder[n]
           \/ n \in DOMAIN cwd /\ folder'[n] = cwd[n]
      /\ DOMAIN Results \subseteq DOMAIN Results' /\ ExpId \in DOMAIN Results'
  <2> DEFINE id == ExpId
             report == cwd[id]
  <2> HIDE DEF id, report
  <2>1. /\ DOMAIN With(folder, id, report) = DOMAIN folder \cup {id}
        /\ With(folder, id, report)[id] = report
        /\ \A n \in DOMAIN folder : n # id => With(folder, id, report)[n] = folder[n]
    BY DEF With
  <2>2. \A n \in DOMAIN Without(cwd, id) :
          n \in DOMAIN cwd /\ Without(cwd, id)[n] = cwd[n]
    BY DEF Without, Restrict
  <2>3. \/ (here \/ id \in DOMAIN folder) /\ UNCHANGED <<cwd, folder>>
        \/ ~here /\ folder' = With(folder, id, report) /\ cwd' = Without(cwd, id)
    BY DEF Move, id, report
  <2>4. here' = here
    BY <1>1 DEF RunnerOnly
  <2>5. /\ \A n \in DOMAIN cwd' : n \in DOMAIN cwd /\ cwd'[n] = cwd[n]
        /\ \A n \in DOMAIN folder' :
             \/ n \in DOMAIN folder /\ folder'[n] = folder[n]
             \/ n \in DOMAIN cwd /\ folder'[n] = cwd[n]
    BY <1>4, <2>1, <2>2, <2>3 DEF id, report
  <2>6. DOMAIN Results \subseteq DOMAIN Results' /\ id \in DOMAIN Results'
    BY <1>4, <2>1, <2>3, <2>4 DEF id, Results
  <2> QED BY <2>5, <2>6 DEF id
<1>6. TypeOK' /\ Generating' /\ OneFile'
  <2>1. DOMAIN cwd' \cup DOMAIN folder' \subseteq Ids
    BY <1>5 DEF ExperimentsInv, TypeOK
  <2>2. /\ \A n \in DOMAIN cwd' : cwd'[n] \in Report
        /\ \A n \in DOMAIN folder' : folder'[n] \in Report
    BY <1>5 DEF ExperimentsInv, TypeOK
  <2> QED BY <1>1, <1>2, <1>3, <2>1, <2>2, RunnerFrame
<1>7. ReportsOwnRun'
  BY <1>5 DEF ExperimentsInv, ReportsOwnRun
<1>8. Running'
  BY <1>1, <1>3, <1>4, <1>5 DEF ExperimentsInv, Running, Results, Busy, ExpId
<1>9. Reported'
  <2>1. \A n \in DOMAIN cwd' \cup DOMAIN folder' : \E f \in DOMAIN pickles : f[2] = n
    BY <1>5 DEF ExperimentsInv, Reported
  <2>2. ASSUME NEW f \in DOMAIN pickles, f[2] \notin reused
        PROVE  /\ f[2] \in DOMAIN cwd' => cwd'[f[2]].exp = pickles[f]
               /\ f[2] \in DOMAIN folder' => folder'[f[2]].exp = pickles[f]
    BY <1>5, <2>2 DEF ExperimentsInv, Reported
  <2>3. pickles' = pickles /\ reused' = reused
    BY <1>1 DEF RunnerOnly
  <2> QED BY <1>4, <2>1, <2>2, <2>3 DEF Reported
<1> QED BY <1>6, <1>7, <1>8, <1>9 DEF ExperimentsInv

-----------------------------------------------------------------------------

LEMMA StepInv == ASSUME ExperimentsInv, [Next]_vars PROVE ExperimentsInv'
<1>1. CASE \E s \in Styles : Start(s)
  BY <1>1, StartStep
<1>2. CASE OpenPickle
  BY <1>2, OpenPickleStep
<1>3. CASE Dump
  BY <1>3, DumpStep
<1>4. CASE OpenLastId \/ WriteLastId \/ GeneratorDies
  BY <1>4, LastIdStep
<1>5. CASE StartBatch
  BY <1>5, StartBatchStep
<1>6. CASE \E f \in run.todo : Load(f)
  BY <1>6, LoadStep
<1>7. CASE Simulate
  BY <1>7, SimulateStep
<1>8. CASE SimulateFails \/ RunnerDies
  BY <1>8, SimulateFailsStep
<1>9. CASE WriteReport
  BY <1>9, WriteReportStep
<1>10. CASE Move
  BY <1>10, MoveStep
<1>11. CASE FinishBatch
  BY <1>11, FinishBatchStep
<1>12. CASE UNCHANGED vars
  <2>1. /\ UNCHANGED <<last_exp_id, pickles, gen, run, files, here, cwd, folder>>
        /\ UNCHANGED <<made, batches, reused>>
    BY <1>12 DEF vars, counters
  <2>2. TypeOK' /\ Generating' /\ OneFile'
    BY <2>1 DEF ExperimentsInv, TypeOK, Report, Made, Generating, OneFile, GenFile
  <2>3. Reported' /\ Running' /\ ReportsOwnRun'
    BY <2>1 DEF ExperimentsInv, Reported, Running, Results, ReportsOwnRun, Busy, ExpId, Made
  <2> QED BY <2>2, <2>3 DEF ExperimentsInv
<1> QED
  BY <1>1, <1>2, <1>3, <1>4, <1>5, <1>6, <1>7, <1>8, <1>9, <1>10, <1>11, <1>12 DEF Next

(* The invariant of the generator and the runner holds in every state,      *)
(* whichever of them dies and wherever the other is then                    *)
(* (experiment_generator.py, run_experiments.py).                           *)
THEOREM ExperimentsInvCorrect == Spec => []ExperimentsInv
<1>1. Init => ExperimentsInv
  BY InitInv
<1>2. ExperimentsInv /\ [Next]_vars => ExperimentsInv'
  BY StepInv
<1> QED BY <1>1, <1>2, PTL DEF Spec

(* The variables of Experiments keep their types: in particular no id above *)
(* the number of experiments asked for is ever the name of a file.          *)
THEOREM TypeCorrect == Spec => []TypeOK
<1>1. ExperimentsInv => TypeOK
  BY DEF ExperimentsInv
<1> QED BY <1>1, ExperimentsInvCorrect, PTL

(* Every report comes from the output of the simulation it reports: cleaning *)
(* the directory before each simulation is enough, whatever failed or died   *)
(* before (run_experiment).                                                  *)
THEOREM ReportsOwnRunCorrect == Spec => []ReportsOwnRun
<1>1. ExperimentsInv => ReportsOwnRun
  BY DEF ExperimentsInv
<1> QED BY <1>1, ExperimentsInvCorrect, PTL

(* A batch that ends has a result for every file it found, its own          *)
(* experiment's where the id was given out once (run_experiments).          *)
THEOREM BatchCompleteCorrect == Spec => []BatchComplete
<1>1. ExperimentsInv => BatchComplete
  <2> SUFFICES ASSUME ExperimentsInv, run.pc = "done", NEW f \in run.batch
               PROVE  /\ f[2] \in DOMAIN Results
                      /\ f[2] \notin reused => Results[f[2]].exp = pickles[f]
    BY DEF BatchComplete
  <2>1. f[2] \in DOMAIN Results
    BY DEF ExperimentsInv, Running
  <2>2. f \in DOMAIN pickles
    BY DEF ExperimentsInv, TypeOK
  <2> QED BY <2>1, <2>2 DEF ExperimentsInv, Reported, Results
<1> QED BY <1>1, ExperimentsInvCorrect, PTL

(* The file of an id that last_exp_id covers is never written again: the    *)
(* generator starts above it, however it died before.                       *)
THEOREM RecordedIdsAreFinalCorrect == Spec => RecordedIdsAreFinal
<1>1. ASSUME ExperimentsInv, [Next]_vars, NEW f \in DOMAIN pickles, f[2] <= last_exp_id
      PROVE  pickles'[f] = pickles[f]
  <2>1. last_exp_id \in Int /\ gen.expId \in Int /\ f[2] \in Int
    BY <1>1 DEF ExperimentsInv, TypeOK, Emptied, Ids
  <2>2. CASE OpenPickle
    <3> DEFINE new == <<gen.style, gen.expId + 1>>
    <3>1. last_exp_id <= gen.expId /\ GenFile' = new
      <4>1. gen \in [pc : {"idle", "loop", "dump", "last"}, style : Styles,
                     expId : 0 .. MaxMade, left : 0 .. Number]
        BY <1>1 DEF ExperimentsInv, TypeOK
      <4>2. gen.pc = "loop" /\ gen' = [gen EXCEPT !.pc = "dump", !.expId = gen.expId + 1]
        BY <2>2 DEF OpenPickle
      <4>3. gen' = [pc |-> "dump", style |-> gen.style, expId |-> gen.expId + 1,
                    left |-> gen.left]
        BY <4>1, <4>2
      <4>4. gen'.style = gen.style /\ gen'.expId = gen.expId + 1
        BY <4>3
      <4> QED BY <1>1, <4>2, <4>4 DEF ExperimentsInv, Generating, GenFile
    <3>2. f # new
      BY <1>1, <2>1, <3>1
    <3>3. pickles' = With(pickles, new, Torn)
      BY <2>2, <3>1 DEF OpenPickle
    <3> HIDE DEF new
    <3> QED BY <3>2, <3>3 DEF With
  <2>3. CASE Dump
    <3>1. f # GenFile
      BY <1>1, <2>1, <2>3 DEF ExperimentsInv, Generating, Dump, GenFile
    <3> QED BY <2>3, <3>1 DEF Dump
  <2>4. CASE ~OpenPickle /\ ~Dump
    BY <1>1, <2>4 DEF Next, vars, Start, OpenLastId, WriteLastId, GeneratorDies,
                      StartBatch, Load, Simulate, SimulateFails, WriteReport, Move,
                      FinishBatch, RunnerDies, RunnerOnly
  <2> QED BY <2>2, <2>3, <2>4
<1>2. ExperimentsInv /\ [Next]_vars
      => [\A f \in DOMAIN pickles : f[2] <= last_exp_id => pickles'[f] = pickles[f]]_vars
  BY <1>1
<1> QED BY <1>2, ExperimentsInvCorrect, PTL DEF Spec, RecordedIdsAreFinal

(* When an experiment is run again, its result stands in another folder     *)
(* (mv fails); in the directory of the runner it is replaced, by a report   *)
(* of the same experiment unless the id was given out twice (experiment.py).*)
THEOREM ResultsStandCorrect == Spec => ResultsStand
<1> DEFINE Stands(n) == /\ n \in DOMAIN Results'
                        /\ ~here => Results'[n] = Results[n]
                        /\ n \notin reused => Results'[n].exp = Results[n].exp
<1>1. ASSUME ExperimentsInv, [Next]_vars, NEW n \in DOMAIN Results
      PROVE  Stands(n)
  <2> DEFINE id == ExpId
             old == cwd[id]
             new == [exp |-> run.exp, from |-> files, batch |-> batches]
  <2>1. CASE Move
    <3>1. /\ here' = here
          /\ \/ UNCHANGED <<cwd, folder>>
             \/ id \notin DOMAIN folder /\ folder' = With(folder, id, old) /\ ~here
      BY <2>1 DEF Move, RunnerOnly
    <3> HIDE DEF id, old
    <3>2. ASSUME id \notin DOMAIN folder, n \in DOMAIN folder
          PROVE  n \in DOMAIN With(folder, id, old) /\ With(folder, id, old)[n] = folder[n]
      BY <3>2 DEF With
    <3> QED BY <1>1, <3>1, <3>2 DEF Results
  <2>2. CASE WriteReport
    <3>1. /\ here' = here /\ folder' = folder /\ cwd' = With(cwd, id, new)
          /\ run.pc = "report"
      BY <2>2 DEF WriteReport, RunnerOnly
    <3>2. new.exp = run.exp /\ run.file \in DOMAIN pickles /\ run.file[2] = id /\ Busy
      BY <1>1, <3>1 DEF ExperimentsInv, TypeOK, Running, Busy, ExpId
    <3> HIDE DEF id, new
    <3>3. /\ DOMAIN With(cwd, id, new) = DOMAIN cwd \cup {id}
          /\ With(cwd, id, new)[id] = new
          /\ \A m \in DOMAIN cwd : m # id => With(cwd, id, new)[m] = cwd[m]
      BY DEF With
    <3>4. ASSUME n \in DOMAIN cwd, n = id, id \notin reused
          PROVE  new.exp = cwd[n].exp
      BY <1>1, <3>2, <3>4 DEF ExperimentsInv, Reported
    <3> QED BY <1>1, <3>1, <3>3, <3>4 DEF Results
  <2>3. CASE ~Move /\ ~WriteReport
    <3>1. UNCHANGED <<here, cwd, folder>>
      BY <1>1, <2>3 DEF Next, vars, Start, OpenPickle, Dump, OpenLastId, WriteLastId,
                        GeneratorDies, StartBatch, Load, Simulate, SimulateFails,
                        FinishBatch, RunnerDies, RunnerOnly
    <3> QED BY <1>1, <3>1 DEF Results
  <2> QED BY <2>1, <2>2, <2>3
<1>2. ExperimentsInv /\ [Next]_vars => [\A n \in DOMAIN Results : Stands(n)]_vars
  BY <1>1
<1> QED BY <1>2, ExperimentsInvCorrect, PTL DEF Spec, ResultsStand
=============================================================================

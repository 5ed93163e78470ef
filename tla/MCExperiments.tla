---------------------------- MODULE MCExperiments ----------------------------
(* Two runs of the generator, of two experiments each. *)
EXTENDS Experiments
=============================================================================

----------------------------- MODULE MCCsmaLink -----------------------------
(* A queue of two packets, marked from one on, and a line of two. *)
EXTENDS CsmaLink
=============================================================================

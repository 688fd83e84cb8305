----------------------------- MODULE MCMlClient -----------------------------
(***************************************************************************)
(* Two trainings and one handler; at first the disk has no model, or an    *)
(* old one without a surface.                                              *)
(***************************************************************************)
EXTENDS MlClient

MCOnDisk == {[id |-> 1, surface |-> 0]}
=============================================================================

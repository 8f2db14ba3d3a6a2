---------------------------- MODULE MCVesselTable ----------------------------
(***************************************************************************)
(* The views share the chain and, the globe and the vessel table, the      *)
(* selection: these two are followed together, the verifiers by themselves.*)
(***************************************************************************)
EXTENDS VesselTable, TLC
=============================================================================

----------------------------- MODULE MCGpgObjects -----------------------------
(***************************************************************************)
(* GpgObjects with room for three wrappers and three structures: a result  *)
(* and what it lists next to the arguments of the next operation.           *)
(***************************************************************************)
EXTENDS GpgObjects

MCMaxObjects == 3
MCMaxNatives == 3
MCMaxInputs == 2
MCMaxExtras == 1
=============================================================================

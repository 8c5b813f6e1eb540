-------------------------- MODULE MCAesdSocketFile --------------------------
(***************************************************************************)
(* The run of AesdSocketFile: its bounds are in the configuration.         *)
(***************************************************************************)
EXTENDS AesdSocketFile
=============================================================================

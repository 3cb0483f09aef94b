-------------------------------- MODULE MCPads ----------------------------
(***************************************************************************)
(* The pads for TLC, at their full number, with the modes the programs     *)
(* write.                                                                  *)
(***************************************************************************)
EXTENDS Pads
=============================================================================

----------------------------- MODULE MCFirHost -----------------------------
(***************************************************************************)
(* FirHost for TLC.                                                        *)
(***************************************************************************)
EXTENDS FirHost
=============================================================================

------------------------------ MODULE MCSysTimer --------------------------
(***************************************************************************)
(* simple_system_common.c for TLC.  The report of an exception shares      *)
(* nothing with the timer: an exception comes before anything else, or     *)
(* not at all.                                                             *)
(***************************************************************************)
EXTENDS SysTimer, ExcReport

MCInit == Init /\ ExcInit
MCNext ==
  \/ line = 0 /\ Next /\ UNCHANGED excVars
  \/ mtime = 0 /\ pc["main"] = "idle" /\ ~mie /\ ExcStep /\ UNCHANGED vars
MCSpec == MCInit /\ [][MCNext]_<<vars, excVars>>
=============================================================================

------------------------------ MODULE MCSocBus -----------------------------
(***************************************************************************)
(* SocBus for TLC: the data bus reads and writes the execution memory and  *)
(* uses the other sides, the debug bridge writes the execution memory and  *)
(* reads an address that may never answer.                                 *)
(***************************************************************************)
EXTENDS SocBus

ReadAt(side, w) == [valid |-> TRUE, we |-> FALSE, adr |-> At(side, w), dat |-> 0]
WriteAt(side, w, v) == [valid |-> TRUE, we |-> TRUE, adr |-> At(side, w), dat |-> v]

MCAccesses ==
  [dbus |-> {ReadAt("c", Words - 1), WriteAt("c", Words - 1, 1), WriteAt("c", 0, 1),
             ReadAt("m", 0), ReadAt("o", 0)},
   dbg |-> {WriteAt("c", Words - 1, 0), ReadAt("m", 0)}]
=============================================================================

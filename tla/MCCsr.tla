---------------------------------- MODULE MCCsr ---------------------------
(***************************************************************************)
(* The registers of the core under csr.h for TLC, a pair of registers of   *)
(* a bank at a time: a field write touches one register, and what it may   *)
(* disturb is in that register or in one other.  Wide registers, which the *)
(* core has none of, are explored apart: they come first, or not at all.   *)
(***************************************************************************)
EXTENDS Csr, CsrBuffer

MCValues == {{}, 0 .. 31}

Apart == bank = 1 /\ used = {1} /\ io.op = "none" /\ call = NoCall

MCInit ==
  /\ bank \in DOMAIN Software /\ \E i, j \in DOMAIN Regs : used = {i, j}
  /\ Init /\ BufferInit
  /\ Apart \/ (dw = 1 /\ bytes = 1)
MCNext ==
  \/ number = -1 /\ Next /\ UNCHANGED bufferVars
  \/ Apart /\ BufferNext /\ UNCHANGED vars
MCSpec == MCInit /\ [][MCNext]_<<vars, bufferVars>>
=============================================================================

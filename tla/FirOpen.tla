------------------------------- MODULE FirOpen -----------------------------
(***************************************************************************)
(* The user project of lab 4 under any program: the master may make any    *)
(* access in Requests, in any order and after any pause of at least one    *)
(* cycle.  The one thing asked of it is that it does not send a sample     *)
(* before the previous one has been shifted in, filtered and read.         *)
(*                                                                         *)
(* An access that the project never answers is ended by the bus (the       *)
(* time-out of mgmt_core.v after 10^6 cycles).  How long that takes is not *)
(* modelled: the master may give such an access up at any time.            *)
(***************************************************************************)
EXTENDS FirBridge

CONSTANTS Requests,
          MaxWait   \* cycles an answered access waits at most

ASSUME RequestsAssumption ==
  /\ Requests \subseteq [valid : {TRUE}, we : BOOLEAN, adr : Address, dat : Nat]
  /\ MaxWait \in Nat /\ MaxWait >= 4

VARIABLE age   \* history: cycles the request has waited, up to MaxWait + 1

\* The accesses the project answers.
Answerable(r) == r.adr.reg # "hole" /\ (r.adr.reg = "data_length" => r.we)

\* No sample is on its way through the filter.
Settled == /\ state_data = "stop" /\ state_FIR = "stop" /\ ~isY_readyRead
           /\ isSRAM_dataReady => isFIRDoneFirst

Issue ==
  /\ ~wb.valid /\ wb' \in Requests
  /\ wb'.we /\ wb'.adr \in Stream => Settled

StaysIdle == ~wb.valid /\ UNCHANGED wb

GivesUp == wb.valid /\ ~wbs_ack_o /\ ~Answerable(wb) /\ wb' = NoRequest

\* The age of the next cycle's request.
Ages == age' = IF Holds /\ age <= MaxWait THEN age + 1
               ELSE IF Holds THEN age ELSE 0

OpenInit == ProjectInit /\ age = 0
OpenNext == (Issue \/ StaysIdle \/ Holds \/ Drops \/ GivesUp) /\ ProjectClock /\ Ages
OpenSpec == OpenInit /\ [][OpenNext]_<<vars, age>>

-----------------------------------------------------------------------------
\* The acknowledgement is not tied to cyc and outlives its access by a cycle;
\* it never answers the next access, which may start right after that cycle.
NoStaleAck == [][Issues => ~wbs_ack_o']_<<vars, age>>

\* An output is complete when it is shown: one product for each valid sample,
\* even if the program reads too early, rewrites coefficients or the length,
\* or starts again while the sum is being formed.
SumIsComplete == isY_readyRead => Len(sm_tdata) = data_validNum

\* A coefficient read back is made of one write per lane: no access ends with
\* the byte counter anywhere but where the next write has to start.
ByteCounterIsAligned == ~awvalid => tap_WE_shift_n = 0

\* Every access the project answers at all is answered within MaxWait cycles,
\* also while the filter computes or after an access that was given up.
AnsweredInTime == wb.valid /\ Answerable(wb) => age <= MaxWait
=============================================================================

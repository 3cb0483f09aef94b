------------------------------- MODULE Fir3Bench ---------------------------
(***************************************************************************)
(* The testbench of lab 3 (fir_tb.v) and its filter.  One process writes   *)
(* length and coefficients, reads the coefficients back and starts the     *)
(* filter; one sends the samples; one compares the outputs with the golden *)
(* ones and reads done and idle at the end.                                *)
(*                                                                         *)
(* The testbench reads the status once while the filter works, before the  *)
(* last sample, which is late by the time of that read.  Here the status   *)
(* may be read in any cycle, and any sample may be late by up to MaxLate   *)
(* cycles.  Sample n is the number n and coefficient k the number k.       *)
(***************************************************************************)
EXTENDS Fir3

CONSTANTS RunLength,   \* Data_Num: 600 in the source
          MaxLate      \* 4 in the source; at most 6 * Tape_Num + 1, when the sample
                       \* is taken

\* The counters of the shift and of the window have four bits, the length ten.
ASSUME RunAssumption ==
  Tape_Num \in 2 .. 15 /\ RunLength \in 1 .. 1023 /\ MaxLate \in 0 .. 6 * Tape_Num + 1

VARIABLES step,      \* the access that the AXI-lite channels are used for
          accepted,  \* samples accepted
          late,      \* cycles for which the old sample has been left in place
          outputs,   \* outputs seen
          final,     \* status reads that begin after the last output
          error      \* error, error_coef

benchVars == <<axi, stream, step, accepted, late, outputs, final, error>>
benchAll == <<filterVars, benchVars>>

\* The accesses by number: the length, Tape_Num coefficients written, as many
\* read back, a free cycle, the start, and status reads from there on.
Start == 2 * Tape_Num + 2
Started == Start + 1
WritesIn(s) == s <= Tape_Num \/ s = Start
ReadsBack(s) == s \in Tape_Num + 1 .. 2 * Tape_Num
CoefficientOf(s) == (s - 1) % Tape_Num
AddressOf(s) == CASE s = 0 -> [reg |-> "data_length", n |-> 0]
                  [] s \in 1 .. 2 * Tape_Num -> [reg |-> "tap", n |-> CoefficientOf(s)]
                  [] OTHER -> [reg |-> "ap_state", n |-> 0]
DataOf(s) == IF s = 0 THEN RunLength ELSE IF s <= Tape_Num THEN CoefficientOf(s) ELSE 1

Golden(n) == [k \in 1 .. (IF n < Tape_Num THEN n + 1 ELSE Tape_Num) |->
                <<WordOf(k - 1), WordOf(n - k + 1)>>]

AllSeen == outputs = RunLength
Finished == final.ended = 2

BenchInit ==
  /\ FilterInit
  /\ axi = [awvalid |-> TRUE, awaddr |-> AddressOf(0), wvalid |-> FALSE, wdata |-> 0,
            arvalid |-> FALSE, araddr |-> AddressOf(0), rready |-> FALSE]
  /\ stream = [ss_tvalid |-> TRUE, ss_tdata |-> 0, sm_tready |-> TRUE]
  /\ step = 0 /\ accepted = 0 /\ late = 0 /\ outputs = 0
  /\ final = [begun |-> FALSE, ended |-> 0] /\ error = FALSE
-----------------------------------------------------------------------------
(* config_write and config_read_check, each a phase of address and one of  *)
(* data; the next access begins as soon as one ends.                       *)

\* The AXI-lite lines at the beginning of access s, as they are at the end of
\* the one before it.
Begun(s) == [awvalid |-> WritesIn(s), awaddr |-> AddressOf(s), wvalid |-> FALSE,
             wdata |-> axi.wdata, arvalid |-> ReadsBack(s), araddr |-> AddressOf(s),
             rready |-> FALSE]

Ends ==
  /\ step' = IF step < Started THEN step + 1 ELSE step
  /\ axi' = Begun(step')

Continues(lines) == axi' = lines /\ UNCHANGED <<step, final>>

WriteAddressPhase ==
  /\ axi.awvalid
  /\ Continues(IF lite.awready
                 THEN [axi EXCEPT !.awvalid = FALSE, !.wvalid = TRUE, !.wdata = DataOf(step)]
                 ELSE axi)

WriteDataPhase ==
  /\ axi.wvalid
  /\ IF lite.wready THEN Ends /\ UNCHANGED final ELSE Continues(axi)

ReadAddressPhase ==
  /\ axi.arvalid
  /\ Continues(IF lite.arready THEN [axi EXCEPT !.arvalid = FALSE, !.rready = TRUE] ELSE axi)

ReadDataPhase ==
  /\ axi.rready
  /\ IF lite.rvalid
       THEN /\ Ends
            /\ final' = [begun |-> FALSE,
                         ended |-> IF final.begun THEN final.ended + 1 ELSE final.ended]
       ELSE Continues(axi)

Free == ~axi.awvalid /\ ~axi.wvalid /\ ~axi.arvalid /\ ~axi.rready

FreeCycle == Free /\ step < Started /\ Ends /\ UNCHANGED final

ReadStatus ==
  /\ Free /\ step = Started
  /\ axi' = [axi EXCEPT !.arvalid = TRUE]
  /\ final' = [final EXCEPT !.begun = AllSeen]
  /\ UNCHANGED step

Idles == Free /\ step = Started /\ ~AllSeen /\ Continues(axi)

LiteProcess == \/ WriteAddressPhase \/ WriteDataPhase \/ ReadAddressPhase \/ ReadDataPhase
               \/ FreeCycle \/ ReadStatus \/ Idles

\* A coefficient reads as it was written.  Done and idle are not shown before
\* the last output, and both are from then on.
ReadIsWrong ==
  /\ axi.rready /\ lite.rvalid
  /\ LET rdata == lite.rdata IN
     IF step < Started THEN rdata.tap # WordOf(CoefficientOf(step))
     ELSE \/ rdata.start
          \/ (rdata.done \/ rdata.idle) /\ ~AllSeen
          \/ final.begun /\ ~(rdata.done /\ rdata.idle)
-----------------------------------------------------------------------------
(* The streams: task ss, which keeps tvalid up between two samples, and    *)
(* task sm, which is always ready.                                         *)

Present == stream' = [stream EXCEPT !.ss_tdata = accepted'] /\ late' = 0
Leave == late < MaxLate /\ late' = late + 1 /\ UNCHANGED stream

ss ==
  CASE ss_tready ->
         /\ accepted' = accepted + 1
         /\ IF accepted' < RunLength THEN Present \/ Leave ELSE UNCHANGED <<stream, late>>
    [] ~ss_tready /\ late > 0 -> UNCHANGED accepted /\ (Present \/ Leave)
    [] ~ss_tready /\ late = 0 ->
         /\ stream' = [stream EXCEPT !.ss_tvalid = accepted < RunLength]
         /\ UNCHANGED <<accepted, late>>

sm == outputs' = IF sm_tvalid THEN outputs + 1 ELSE outputs

OutputIsWrong == sm_tvalid /\ ~AllSeen /\ calc.sum # Golden(outputs)

BenchNext ==
  /\ ~Finished
  /\ LiteProcess /\ ss /\ sm /\ FilterClock
  /\ error' = (error \/ ReadIsWrong \/ OutputIsWrong)

BenchSpec == BenchInit /\ [][BenchNext]_benchAll /\ WF_benchAll(BenchNext)

-----------------------------------------------------------------------------
\* The testbench reports no error: every coefficient reads as written, every
\* output is the sum of the products over the last samples, done and idle come
\* with the last output; and no output comes after it.  This relies on a
\* source that never lowers tvalid and shows each sample in time, and on a
\* sink that is always ready.
TestbenchPasses == ~error /\ outputs <= RunLength
=============================================================================

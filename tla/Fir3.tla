-------------------------------- MODULE Fir3 -------------------------------
(***************************************************************************)
(* fir (fir.v of lab 3): the first version of the filter, with AXI-lite    *)
(* handshakes of its own and a stream on either side, and the two RAMs its *)
(* testbench wires to it.  Each variable holds the registers of one always *)
(* block, axi and stream the inputs.  As in Fir, sm_tdata, here calc.sum,  *)
(* is the formal sum of the products accumulated.                          *)
(***************************************************************************)
EXTENDS Bram, Sequences

CONSTANT Tape_Num   \* number of taps: 11 in the source

VARIABLES axi,    \* the inputs of the AXI-lite channels
          stream, \* and those of the streams
          lite,   \* awready, wready, arready, rvalid, rdata, isInADDR_tap
          ap,     \* start, done, idle and data_length
          data,   \* the shift of the samples, and the RAM of samples
          tap,    \* the port of the RAM of taps, and that RAM
          calc    \* the computation

filterVars == <<lite, ap, data, tap, calc>>

\* An address is a register's name or, for a coefficient, its number.
IsTap(addr) == addr.reg = "tap"

\* What the RAMs' word addresses range over.
Index == 0 .. Tape_Num

FilterInit ==
  /\ lite = [awready |-> FALSE, wready |-> FALSE, arready |-> FALSE, rvalid |-> FALSE,
             rdata |-> [start |-> FALSE, done |-> FALSE, idle |-> FALSE, tap |-> WordOf(0)],
             isTap |-> FALSE]
  /\ ap = [start |-> FALSE, done |-> FALSE, idle |-> TRUE, length |-> 0]
  /\ data = [state |-> "stop", WE |-> {}, Di |-> WordOf(0), A |-> 0, n |-> Tape_Num,
             ready |-> FALSE, validNum |-> 0,
             RAM |-> [i \in Index |-> WordOf(Unwritten)], Do |-> WordOf(Unwritten)]
  /\ tap = [WE |-> {}, EN |-> FALSE, Di |-> WordOf(0), A |-> 0,
            RAM |-> [i \in Index |-> WordOf(Unwritten)], Do |-> WordOf(0)]
  /\ calc = [state |-> "stop", idx |-> 0, sum |-> <<>>, ready |-> FALSE]
-----------------------------------------------------------------------------
(* The steps of an AXI-lite access, which the source tells apart by case   *)
(* over {awvalid, awready, wvalid, wready} and its like for reads.  Any    *)
(* other pattern is ignored: address and data may not be offered together. *)

WriteAddress(ready) == axi.awvalid /\ lite.awready = ready /\ ~axi.wvalid /\ ~lite.wready
WriteData(ready) == ~axi.awvalid /\ ~lite.awready /\ axi.wvalid /\ lite.wready = ready
ReadAddress(ready) == axi.arvalid /\ lite.arready = ready /\ ~axi.rready /\ ~lite.rvalid
ReadData(valid) == ~axi.arvalid /\ ~lite.arready /\ axi.rready /\ lite.rvalid = valid

\* Combinational outputs.
ss_tready == stream.ss_tvalid /\ calc.ready
sm_tvalid == calc.ready
sm_tlast == calc.ready /\ ap.length = 1

\* The lanes enabled next, and the last of them.
ShiftLeft(lanes) == {l + 1 : l \in lanes \ {3}}
LastLane(lanes) == lanes = {3}

LiteClock == lite' =
  [awready |-> WriteAddress(FALSE) \/ (lite.awready /\ ~WriteAddress(TRUE)),
   wready |-> \/ WriteData(FALSE) /\ (IF tap.EN THEN LastLane(tap.WE) ELSE tap.WE = {})
              \/ lite.wready /\ ~WriteData(TRUE),
   arready |-> ReadAddress(FALSE) \/ (lite.arready /\ ~ReadAddress(TRUE)),
   rvalid |-> ReadData(FALSE) \/ (lite.rvalid /\ ~ReadData(TRUE)),
   rdata |-> CASE ReadData(FALSE) /\ lite.isTap -> [lite.rdata EXCEPT !.tap = tap.Do]
               [] ReadData(FALSE) /\ ~lite.isTap ->
                    [lite.rdata EXCEPT !.start = ap.start, !.done = ap.done, !.idle = ap.idle]
               [] OTHER -> lite.rdata,
   isTap |-> IF ReadAddress(FALSE) THEN IsTap(axi.araddr)
             ELSE lite.isTap /\ ~ReadData(FALSE)]

\* The control register and the length of ten bits, which counts the outputs
\* down.
Writes(reg) == WriteData(FALSE) /\ axi.awaddr.reg = reg

ApClock == ap' =
  [start |-> ap.idle /\ (Writes("ap_state") \/ ap.start),
   done |-> ap.done \/ sm_tlast,
   idle |-> sm_tlast \/ (ap.idle /\ ~Writes("ap_state")),
   length |-> CASE calc.ready -> (ap.length - 1) % 1024
                [] ~calc.ready /\ Writes("data_length") -> axi.wdata
                [] OTHER -> ap.length]
-----------------------------------------------------------------------------
(* The samples are shifted up by one place, from the highest down, and the *)
(* new one is taken from the stream at the end, without a handshake: that  *)
(* comes when the sum is formed.                                           *)

DataStop == IF ss_tready
  THEN [data EXCEPT !.WE = {}, !.A = Tape_Num - 2, !.n = Tape_Num, !.ready = FALSE]
  ELSE data

Starts == stream.ss_tvalid /\ (calc.ready \/ ap.start)

DataReadWait ==
  [data EXCEPT !.WE = {0}, !.A = data.n, !.state = "write",
               !.Di = IF data.n = 0 THEN WordOf(stream.ss_tdata) ELSE data.Do]

DataWrite ==
  CASE ~LastLane(data.WE) -> [data EXCEPT !.WE = ShiftLeft(@)]
    [] LastLane(data.WE) /\ data.n = 0 ->
         [data EXCEPT !.WE = {}, !.ready = TRUE, !.state = "stop",
                      !.validNum = IF @ < Tape_Num THEN @ + 1 ELSE @]
    [] LastLane(data.WE) /\ data.n > 0 ->
         [data EXCEPT !.WE = {}, !.A = IF data.n > 1 THEN data.n - 2 ELSE 0,
                      !.n = @ - 1, !.state = "read"]

DataNext == CASE data.state = "stop" -> IF Starts THEN [DataStop EXCEPT !.state = "read"]
                                        ELSE DataStop
              [] data.state = "read" -> [data EXCEPT !.state = "read_wait"]
              [] data.state = "read_wait" -> DataReadWait
              [] data.state = "write" -> DataWrite

\* The computation has the last word on the port.
DataClock == data' =
  [(IF calc.state = "read" THEN [DataNext EXCEPT !.WE = {}, !.A = calc.idx] ELSE DataNext)
     EXCEPT !.RAM = BramWrite(data.RAM, data.A, data.WE, data.Di),
            !.Do = BramRead(TRUE, data.RAM, data.A)]
-----------------------------------------------------------------------------
(* The port of the taps serves writes, reads and the computation, which    *)
(* comes last in the source and wins.                                      *)

TapWrites ==
  CASE WriteAddress(FALSE) /\ IsTap(axi.awaddr) -> [tap EXCEPT !.A = axi.awaddr.n]
    [] WriteAddress(TRUE) /\ IsTap(axi.awaddr) -> [tap EXCEPT !.EN = TRUE]
    [] WriteData(FALSE) /\ tap.EN /\ tap.WE = {} -> [tap EXCEPT !.WE = {0}, !.Di = WordOf(axi.wdata)]
    [] WriteData(FALSE) /\ tap.EN /\ tap.WE # {} -> [tap EXCEPT !.WE = ShiftLeft(@)]
    [] WriteData(TRUE) -> [tap EXCEPT !.EN = FALSE]
    [] OTHER -> tap

TapReads ==
  CASE ReadAddress(FALSE) ->
         [TapWrites EXCEPT !.EN = TRUE, !.A = IF IsTap(axi.araddr) THEN axi.araddr.n ELSE @]
    [] ReadData(TRUE) -> [TapWrites EXCEPT !.EN = FALSE]
    [] OTHER -> TapWrites

\* Mutation: the end of a read has the last word on the enable.
TapNextReadWins ==
  IF calc.state = "read"
    THEN [TapReads EXCEPT !.EN = ~ReadData(TRUE), !.WE = {}, !.A = calc.idx]
    ELSE TapReads

TapNext ==
  IF calc.state = "read" THEN [TapReads EXCEPT !.EN = TRUE, !.WE = {}, !.A = calc.idx]
  ELSE TapReads

TapClock == tap' =
  [TapNext EXCEPT
     !.RAM = IF tap.EN THEN BramWrite(tap.RAM, tap.A, tap.WE, tap.Di) ELSE tap.RAM,
     !.Do = BramRead(tap.EN, tap.RAM, tap.A)]
-----------------------------------------------------------------------------
\* The computation: one product per valid sample.  The output is shown for one
\* cycle, whether or not anybody takes it.
CalcStop ==
  LET begins == ~ap.idle /\ data.ready /\ ~calc.ready /\ stream.sm_tready IN
  /\ calc.state = "stop"
  /\ calc' = [state |-> IF begins THEN "read" ELSE "stop", idx |-> 0, sum |-> <<>>,
              ready |-> FALSE]

CalcRead == calc.state = "read" /\ calc' = [calc EXCEPT !.state = "read_wait"]

CalcReadWait == calc.state = "read_wait" /\ calc' = [calc EXCEPT !.state = "calculate"]

Calculate ==
  LET last == calc.idx = data.validNum - 1 IN
  /\ calc.state = "calculate"
  /\ calc' = [state |-> IF last THEN "stop" ELSE "read", idx |-> (calc.idx + 1) % 16,
              sum |-> Append(calc.sum, <<tap.Do, data.Do>>), ready |-> last]

CalcClock == CalcStop \/ CalcRead \/ CalcReadWait \/ Calculate

FilterClock == LiteClock /\ ApClock /\ DataClock /\ TapClock /\ CalcClock
=============================================================================

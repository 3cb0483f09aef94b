--------------------------------- MODULE Fir -------------------------------
(***************************************************************************)
(* fir (fir.v of lab 4): the filter with its AXI-lite registers, its two   *)
(* streams, and the tap and data RAMs that user_project.v wires to it.     *)
(* All always blocks run at the same edge; FirClock is the conjunction of  *)
(* one definition per block, and the combinational outputs are operators.  *)
(* The inputs are registers of the Wishbone bridge (module FirBridge).     *)
(*                                                                         *)
(* Numbers are not added or multiplied: sm_tdata is the formal sum of the  *)
(* products accumulated, a sequence of pairs of words <<tap, data>>, with  *)
(* <<>> for zero.  What is checked is which products an output is made of. *)
(***************************************************************************)
EXTENDS Bram, Sequences

CONSTANTS Tape_Num,   \* number of taps: 11 in the source
          LengthMod   \* 2^10: data_length has ten bits

\* With one tap nothing is shifted; data_n and data_validNum count up to the
\* number of taps in four bits.
ASSUME FirAssumption == /\ Tape_Num \in 2 .. 15
                        /\ LengthMod \in Nat /\ LengthMod >= 2

VARIABLES awvalid, awaddr, wdata,   \* inputs: awvalid stands for wvalid too,
          arvalid, araddr, rready,  \* which is driven by the same conditions
          ss_tvalid, ss_tdata, sm_tready
VARIABLES rdata, SRAM_readCycle, isStateReady_r, isStateReady_w,
          ap_start, ap_idle, ap_done, data_length, is_data_length_minus
VARIABLES state_data, data_WE, data_Di, data_A, data_n,
          isSRAM_dataReady, data_validNum, dataRAM, data_Do
VARIABLES tap_A, tap_WE_shift_n, tapRAM, tap_Do
VARIABLES state_FIR, idx_reg, sm_tdata, isFIRReady, isFIRDoneFirst, isY_readyRead

axiVars == <<awvalid, awaddr, wdata, arvalid, araddr, rready, ss_tvalid,
             ss_tdata, sm_tready>>
regVars == <<rdata, SRAM_readCycle, isStateReady_r, isStateReady_w, ap_start,
             ap_idle, ap_done, data_length, is_data_length_minus>>
dataVars == <<state_data, data_WE, data_Di, data_A, data_n, isSRAM_dataReady,
              data_validNum, dataRAM, data_Do>>
tapVars == <<tap_A, tap_WE_shift_n, tapRAM, tap_Do>>
calcVars == <<state_FIR, idx_reg, sm_tdata, isFIRReady, isFIRDoneFirst,
              isY_readyRead>>
firVars == <<regVars, dataVars, tapVars, calcVars>>

\* The RAMs are used at addresses 0 .. Tape_Num; the data RAM's last word is
\* written by the first step of every shift and never read.
Index == 0 .. Tape_Num

\* What the bus addresses decode to.  "hole" stands for the addresses below
\* 0x40 that no case of fir.v answers.
Register(r) == [reg |-> r, n |-> 0]
Coefficient(n) == [reg |-> "coeff", n |-> n]
AxiLite == {Register("ap_state"), Register("data_length"), Register("hole")}
             \cup {Coefficient(n) : n \in Index}
Stream == {Register("x"), Register("y")}
Address == AxiLite \cup Stream

Status == [y : BOOLEAN, x : BOOLEAN, idle : BOOLEAN, done : BOOLEAN, start : BOOLEAN]
NoStatus == [y |-> FALSE, x |-> FALSE, idle |-> FALSE, done |-> FALSE, start |-> FALSE]
\* A word read over AXI-lite is a status or a coefficient; it has a field for
\* either reading, and the one that does not apply is zero.
ReadWord(status, coeff) == [status |-> status, coeff |-> coeff]
ZeroRead == ReadWord(NoStatus, WordOf(0))

\* Reset leaves isStateReady_r and the latch tap_A as they are: anything.
FirInit ==
  /\ rdata = ZeroRead /\ SRAM_readCycle = 0
  /\ isStateReady_r \in BOOLEAN /\ isStateReady_w = FALSE
  /\ ap_start = FALSE /\ ap_idle = TRUE /\ ap_done = FALSE
  /\ data_length = 0 /\ is_data_length_minus = FALSE
  /\ state_data = "stop" /\ data_WE = {} /\ data_Di = WordOf(0) /\ data_A = 0
  /\ data_n = Tape_Num /\ isSRAM_dataReady = FALSE /\ data_validNum = 0
  /\ dataRAM = [i \in Index |-> WordOf(Unwritten)] /\ data_Do = WordOf(Unwritten)
  /\ tap_A \in Index /\ tap_WE_shift_n = 0
  /\ tapRAM = [i \in Index |-> WordOf(Unwritten)] /\ tap_Do = WordOf(0)
  /\ state_FIR = "stop" /\ idx_reg = 0 /\ sm_tdata = <<>>
  /\ isFIRReady = TRUE /\ isFIRDoneFirst = FALSE /\ isY_readyRead = FALSE
-----------------------------------------------------------------------------
\* Combinational outputs.
\* Mutation: a coefficient is acknowledged a byte too early.
awreadyEarly == tap_WE_shift_n = 2 \/ isStateReady_w
\* Mutation: writes are not answered while the filter computes.
awreadyAtRest == isFIRReady /\ (tap_WE_shift_n = 3 \/ isStateReady_w)
awready == tap_WE_shift_n = 3 \/ isStateReady_w     \* and wready
rvalid == isStateReady_r                            \* and arready
isX_readyWrite == ~ap_idle /\ state_data = "stop"
ss_tready == ss_tvalid /\ isFIRReady
sm_tvalid == isY_readyRead
sm_tlast == isFIRReady /\ data_length = 0

WritesTo(r) == awvalid /\ awaddr.reg = r
ReadsFrom(r) == arvalid /\ araddr.reg = r
apState == [y |-> isY_readyRead, x |-> isX_readyWrite, idle |-> ap_idle,
            done |-> ap_done, start |-> ap_start]

ReadClock ==
  IF ReadsFrom("coeff") /\ rready
    THEN /\ SRAM_readCycle' = IF SRAM_readCycle = 2 THEN 0
                                ELSE (SRAM_readCycle + 1) % 4
         /\ isStateReady_r' = (SRAM_readCycle = 1)
         /\ rdata' = IF SRAM_readCycle = 1 THEN ReadWord(NoStatus, tap_Do) ELSE rdata
    ELSE /\ isStateReady_r' = (ReadsFrom("ap_state") /\ rready)
         /\ rdata' = IF ReadsFrom("ap_state") /\ rready
                       THEN ReadWord(apState, WordOf(0)) ELSE rdata
         /\ UNCHANGED SRAM_readCycle

\* The block-level handshake: started by any write to the control register,
\* finished one cycle after sm_tlast is seen.
ControlClock ==
  /\ isStateReady_w' = (~isStateReady_w /\ (WritesTo("ap_state") \/ WritesTo("data_length")))
  /\ ap_start' = (ap_idle /\ (WritesTo("ap_state") \/ ap_start))
  /\ ap_idle' = (ap_done \/ (ap_idle /\ ~WritesTo("ap_state")))
  /\ ap_done' = (sm_tlast /\ ~ap_done)

\* Each output is counted once, when it is ready; the latch that says it was
\* counted is released by the shift of the next sample.
\* Mutation: an output is counted in every cycle it waits to be read.
CountsOutputAgain == isY_readyRead
CountsOutput == isY_readyRead /\ ~is_data_length_minus

LengthClock ==
  /\ data_length' = CASE CountsOutput -> (data_length - 1) % LengthMod
                      [] ~CountsOutput /\ WritesTo("data_length") -> wdata % LengthMod
                      [] OTHER -> data_length
  /\ is_data_length_minus' =
       (CountsOutput \/ (is_data_length_minus /\ (isX_readyWrite \/ data_length = 0)))
-----------------------------------------------------------------------------
\* The data RAM: a sample is accepted by shifting the stored ones up by one
\* place, from the highest down, and storing it at 0.  Each word takes a read,
\* a wait and four cycles of writing, one per byte lane.
DataStop ==
  /\ state_data = "stop"
  /\ state_data' = IF ss_tvalid /\ isX_readyWrite THEN "read" ELSE "stop"
  /\ data_n' = Tape_Num
  /\ isSRAM_dataReady' = (isSRAM_dataReady /\ ~sm_tready /\ ~ss_tready)
  /\ UNCHANGED <<data_Di, data_validNum>>

DataRead ==
  /\ state_data = "read"
  /\ state_data' = "read_wait"
  /\ UNCHANGED <<data_n, isSRAM_dataReady, data_Di, data_validNum>>

DataReadWait ==
  /\ state_data = "read_wait"
  /\ state_data' = "write"
  /\ data_Di' = IF data_n = 0 THEN WordOf(ss_tdata) ELSE data_Do
  /\ UNCHANGED <<data_n, isSRAM_dataReady, data_validNum>>

\* The last lane of a word is being written.
LastLane == data_WE = {3}

DataWrite ==
  /\ state_data = "write"
  /\ IF LastLane /\ data_n = 0
       THEN /\ state_data' = "stop" /\ isSRAM_dataReady' = TRUE
            /\ data_validNum' = IF data_validNum < Tape_Num THEN data_validNum + 1
                                  ELSE data_validNum
            /\ UNCHANGED data_n
       ELSE /\ state_data' = IF LastLane THEN "read" ELSE "write"
            /\ data_n' = IF LastLane THEN data_n - 1 ELSE data_n
            /\ UNCHANGED <<isSRAM_dataReady, data_validNum>>
  /\ UNCHANGED data_Di

\* Mutation: the shift reads the word it is about to write.
DataPortClockOffByOne ==
  IF state_FIR = "read"
    THEN data_WE' = {} /\ data_A' = idx_reg
    ELSE CASE state_data = "stop" -> data_WE' = {} /\ data_A' = Tape_Num - 2
           [] state_data = "read" -> UNCHANGED <<data_WE, data_A>>
           [] state_data = "read_wait" -> data_WE' = {0} /\ data_A' = data_n
           [] state_data = "write" ->
                /\ data_WE' = {l + 1 : l \in data_WE \ {3}}
                /\ data_A' = IF LastLane /\ data_n > 0 THEN data_n - 1 ELSE data_A

\* data_WE and data_A are also driven by the state machine that computes,
\* whose assignment comes last.
DataPortClock ==
  IF state_FIR = "read"
    THEN data_WE' = {} /\ data_A' = idx_reg
    ELSE CASE state_data = "stop" ->
                data_WE' = {} /\ data_A' = Tape_Num - 2
           [] state_data = "read" ->
                UNCHANGED <<data_WE, data_A>>
           [] state_data = "read_wait" ->
                data_WE' = {0} /\ data_A' = data_n
           [] state_data = "write" ->
                /\ data_WE' = {l + 1 : l \in data_WE \ {3}}
                /\ data_A' = CASE ~LastLane \/ data_n = 0 -> data_A
                               [] OTHER -> IF data_n > 1 THEN data_n - 2 ELSE 0

DataClock ==
  /\ DataStop \/ DataRead \/ DataReadWait \/ DataWrite
  /\ DataPortClock
  /\ dataRAM' = BramWrite(dataRAM, data_A, data_WE, data_Di)
  /\ data_Do' = BramRead(TRUE, dataRAM, data_A)
-----------------------------------------------------------------------------
\* The tap RAM.  Its address is a latch: with nobody asking it keeps the last.
TapEnable == WritesTo("coeff") \/ ReadsFrom("coeff") \/ state_FIR # "stop"
TapAddress == CASE state_FIR = "read_wait" -> idx_reg
                [] state_FIR # "read_wait" /\ WritesTo("coeff") -> awaddr.n
                [] state_FIR # "read_wait" /\ ~WritesTo("coeff") /\ ReadsFrom("coeff") -> araddr.n
                [] OTHER -> tap_A

TapClock ==
  /\ tap_A' = TapAddress
  /\ tap_WE_shift_n' = IF WritesTo("coeff") THEN (tap_WE_shift_n + 1) % 4
                         ELSE tap_WE_shift_n
  /\ tapRAM' = IF WritesTo("coeff")
                 THEN BramWrite(tapRAM, TapAddress, {tap_WE_shift_n}, WordOf(wdata))
                 ELSE tapRAM
  /\ tap_Do' = BramRead(TapEnable, tapRAM, TapAddress)
-----------------------------------------------------------------------------
\* The computation: one product per valid sample, three cycles each.
\* Mutation: a sum is formed again and again while its sample is there.
CalcStopNoLatch ==
  LET taken == sm_tvalid /\ sm_tready
  IN /\ state_FIR = "stop"
     /\ state_FIR' = IF isSRAM_dataReady THEN "read" ELSE "stop"
     /\ isFIRReady' = (isFIRReady /\ ~isSRAM_dataReady)
     /\ idx_reg' = 0
     /\ isFIRDoneFirst' = FALSE
     /\ isY_readyRead' = (isY_readyRead /\ ~taken)
     /\ sm_tdata' = IF taken THEN <<>> ELSE sm_tdata

CalcStop ==
  LET begins == isSRAM_dataReady /\ ~isFIRDoneFirst
      taken == sm_tvalid /\ sm_tready
  IN /\ state_FIR = "stop"
     /\ state_FIR' = IF begins THEN "read" ELSE "stop"
     /\ isFIRReady' = (isFIRReady /\ ~begins)
     /\ idx_reg' = 0
     /\ isFIRDoneFirst' = (isFIRDoneFirst /\ isSRAM_dataReady)
     /\ isY_readyRead' = (isY_readyRead /\ ~taken)
     /\ sm_tdata' = IF taken THEN <<>> ELSE sm_tdata

CalcRead ==
  /\ state_FIR = "read" /\ state_FIR' = "read_wait"
  /\ UNCHANGED <<idx_reg, sm_tdata, isFIRReady, isFIRDoneFirst, isY_readyRead>>

CalcReadWait ==
  /\ state_FIR = "read_wait" /\ state_FIR' = "calculate"
  /\ UNCHANGED <<idx_reg, sm_tdata, isFIRReady, isFIRDoneFirst, isY_readyRead>>

Calculate ==
  LET last == idx_reg = data_validNum - 1
  IN /\ state_FIR = "calculate"
     /\ state_FIR' = IF last THEN "stop" ELSE "read"
     /\ sm_tdata' = Append(sm_tdata, <<tap_Do, data_Do>>)
     /\ idx_reg' = (idx_reg + 1) % 16
     /\ isFIRReady' = last /\ isY_readyRead' = last
     /\ isFIRDoneFirst' = TRUE

CalcClock == CalcStop \/ CalcRead \/ CalcReadWait \/ Calculate

FirClock == ReadClock /\ ControlClock /\ LengthClock /\ DataClock /\ TapClock /\ CalcClock
=============================================================================

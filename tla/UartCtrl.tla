------------------------------ MODULE UartCtrl -----------------------------
(***************************************************************************)
(* ctrl (uart_ctrl.v): the register file between the Wishbone bus and the  *)
(* two serial halves.  Its always blocks all run at the same clock edge,   *)
(* so CtrlClock is the conjunction of one definition per block.  Its       *)
(* inputs from the halves are their output registers, declared by the      *)
(* modules it extends; the bus request wb is a parameter,                  *)
(*   [valid, we: BOOLEAN, adr: Address, dat: Byte],                        *)
(* with valid for wb_valid = cyc & stb & (address in the UART's page).     *)
(*                                                                         *)
(* stat_reg is the status register with one Boolean for each two-bit field *)
(* of complementary bits: rx_full stands for stat_reg[1:0] = 10 (and its   *)
(* negation for 01), tx_full for stat_reg[3:2] = 10; overrun is bit 4 and  *)
(* frame_err bit 5.  Only 10 and 01 are ever written to the pairs.         *)
(***************************************************************************)
EXTENDS UartReceive, UartTransmit

VARIABLES rx_buffer, tx_buffer,   \* the bytes visible to, and from, the bus
          stat_reg,
          tx_start_local,         \* a written byte waits for the transmitter
          o_rx_finish, o_tx, o_tx_start,   \* outputs to the serial halves
          o_wb_ack, o_wb_dat               \* outputs to the bus

ctrlVars == <<rx_buffer, tx_buffer, stat_reg, tx_start_local, o_rx_finish,
              o_tx, o_tx_start, o_wb_ack, o_wb_dat>>

\* OTHER stands for the addresses of the page that decode to no register.
Address == {"RX_DATA", "TX_DATA", "STAT_REG", "OTHER"}
Stat == [rx_full : BOOLEAN, tx_full : BOOLEAN,
         overrun : BOOLEAN, frame_err : BOOLEAN]
NoStat == [rx_full |-> FALSE, tx_full |-> FALSE,
           overrun |-> FALSE, frame_err |-> FALSE]
\* A word read from the bus is a byte or a status; it has a field for either
\* reading, and the one that does not apply is zero.
Word == [data : Byte, stat : Stat]
ZeroWord == [data |-> ZeroByte, stat |-> NoStat]

Idle == [valid |-> FALSE, we |-> FALSE, adr |-> "OTHER", dat |-> ZeroByte]
Read(a) == [valid |-> TRUE, we |-> FALSE, adr |-> a, dat |-> ZeroByte]
Write(a, b) == [valid |-> TRUE, we |-> TRUE, adr |-> a, dat |-> b]
Request == [valid : {TRUE}, we : BOOLEAN, adr : Address, dat : Byte]

CtrlInit ==
  /\ rx_buffer = ZeroByte /\ tx_buffer = ZeroByte
  /\ stat_reg = NoStat
  /\ tx_start_local = FALSE
  /\ o_rx_finish = FALSE
  /\ o_tx = ZeroByte /\ o_tx_start = FALSE
  /\ o_wb_ack = FALSE /\ o_wb_dat = ZeroWord

-----------------------------------------------------------------------------
Reads(wb, a) == wb.valid /\ ~wb.we /\ wb.adr = a
Writes(wb, a) == wb.valid /\ wb.we /\ wb.adr = a

\* The received byte is copied to rx_buffer.
LoadsRx == irq /\ ~stat_reg.rx_full /\ ~frame_err
\* The receiver may go on: the byte was fetched, or there is none.
Finishes(wb) == (Reads(wb, "RX_DATA") /\ stat_reg.rx_full) \/ frame_err

\* The four branches of the if chain over the receiver's events, in order:
\* only the first that applies is taken.
RecordsFrameErr == frame_err /\ rx_busy
FillsRx == ~RecordsFrameErr /\ LoadsRx
RecordsOverrun == ~RecordsFrameErr /\ ~LoadsRx /\ rx_busy /\ stat_reg.rx_full
EmptiesRx(wb) == ~RecordsFrameErr /\ ~LoadsRx /\ ~RecordsOverrun /\ Finishes(wb)

\* Mutation: reading STAT_REG wins against an error recorded at the same edge.
StatClockClearWins(wb) ==
  LET kept(bit) == bit /\ ~Reads(wb, "STAT_REG") IN
  stat_reg' = [rx_full   |-> FillsRx \/ (stat_reg.rx_full /\ ~EmptiesRx(wb)),
               tx_full   |-> tx_busy,
               overrun   |-> kept(RecordsOverrun \/ stat_reg.overrun),
               frame_err |-> kept(RecordsFrameErr \/ stat_reg.frame_err)]

\* Mutation: reading STAT_REG also forgets the received byte.
StatClockForgets(wb) ==
  LET kept(bit) == bit /\ ~Reads(wb, "STAT_REG") IN
  stat_reg' = [rx_full   |-> FillsRx \/ (kept(stat_reg.rx_full) /\ ~EmptiesRx(wb)),
               tx_full   |-> tx_busy,
               overrun   |-> RecordsOverrun \/ kept(stat_reg.overrun),
               frame_err |-> RecordsFrameErr \/ kept(stat_reg.frame_err)]

\* Reading STAT_REG clears the two error bits, unless the same edge sets one.
StatClock(wb) ==
  LET kept(bit) == bit /\ ~Reads(wb, "STAT_REG") IN
  stat_reg' = [rx_full   |-> FillsRx \/ (stat_reg.rx_full /\ ~EmptiesRx(wb)),
               tx_full   |-> tx_busy,
               overrun   |-> RecordsOverrun \/ kept(stat_reg.overrun),
               frame_err |-> RecordsFrameErr \/ kept(stat_reg.frame_err)]

\* Mutation: a byte may be written while another is being sent.
TxBufferClockUnguarded(wb) ==
  IF clear_req
    THEN tx_buffer' = ZeroByte /\ tx_start_local' = FALSE
    ELSE IF Writes(wb, "TX_DATA")
           THEN tx_buffer' = wb.dat /\ tx_start_local' = TRUE
           ELSE UNCHANGED <<tx_buffer, tx_start_local>>

\* A served request is forgotten even if another byte is written right then.
TxBufferClock(wb) ==
  IF clear_req
    THEN tx_buffer' = ZeroByte /\ tx_start_local' = FALSE
    ELSE IF Writes(wb, "TX_DATA") /\ ~tx_busy
           THEN tx_buffer' = wb.dat /\ tx_start_local' = TRUE
           ELSE UNCHANGED <<tx_buffer, tx_start_local>>

TxRequestClock ==
  IF clear_req
    THEN o_tx' = ZeroByte /\ o_tx_start' = FALSE
    ELSE o_tx' = tx_buffer /\ o_tx_start' = tx_start_local

RxBufferClock == rx_buffer' = IF LoadsRx THEN rx_data ELSE rx_buffer

\* Mutation: reading the byte does not release the receiver.
RxFinishClockNoRead(wb) == o_rx_finish' = frame_err

RxFinishClock(wb) == o_rx_finish' = Finishes(wb)

\* The answer is registered: the master samples it one edge after the
\* register was read, in the cycle that carries the acknowledgement.
ReadClock(wb) ==
  o_wb_dat' = CASE Reads(wb, "RX_DATA") -> [ZeroWord EXCEPT !.data = rx_buffer]
                [] Reads(wb, "STAT_REG") -> [ZeroWord EXCEPT !.stat = stat_reg]
                [] Reads(wb, "TX_DATA") \/ Reads(wb, "OTHER") -> ZeroWord
                [] OTHER -> o_wb_dat

AckClock(wb) == o_wb_ack' = wb.valid

CtrlClock(wb) ==
  /\ StatClock(wb)
  /\ TxBufferClock(wb)
  /\ TxRequestClock
  /\ RxBufferClock
  /\ RxFinishClock(wb)
  /\ ReadClock(wb)
  /\ AckClock(wb)

CtrlTypeOK ==
  /\ rx_buffer \in Byte /\ tx_buffer \in Byte /\ o_tx \in Byte
  /\ stat_reg \in Stat
  /\ tx_start_local \in BOOLEAN /\ o_rx_finish \in BOOLEAN
  /\ o_tx_start \in BOOLEAN /\ o_wb_ack \in BOOLEAN
  /\ o_wb_dat \in Word
=============================================================================

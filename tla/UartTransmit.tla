---------------------------- MODULE UartTransmit ---------------------------
(***************************************************************************)
(* uart_transmission (uart_tx.v): the transmitter of the lab 6 UART, one   *)
(* definition per state of its always block.  The start request tx_start   *)
(* and the byte tx_data are registers of the controller and come as        *)
(* parameters.                                                             *)
(***************************************************************************)
EXTENDS UartFrame

VARIABLES tx_state,       \* state
          tx_clk_cnt,     \* clk_cnt
          tx_index,       \* the data bit on the line
          detect_posedge_start,  \* tx_start of the last two cycles, older first
          tx,             \* the line
          clear_req,      \* one-cycle pulse: forget the request just served
          tx_busy         \* busy

txVars == <<tx_state, tx_clk_cnt, tx_index, detect_posedge_start, tx,
            clear_req, tx_busy>>

TxStates == {"WAIT", "START_BIT", "SEND_DATA", "STOP_BIT", "CLEAR_REQ"}

TxInit ==
  /\ tx_state = "WAIT"
  /\ tx_clk_cnt = 0
  /\ tx_index = 0
  /\ detect_posedge_start = <<FALSE, FALSE>>
  /\ tx = 1
  /\ clear_req = FALSE
  /\ tx_busy = FALSE

-----------------------------------------------------------------------------

BitOver == tx_clk_cnt = ClkDiv - 1
TxCount == tx_clk_cnt' = IF BitOver THEN 0 ELSE tx_clk_cnt + 1

TxWait ==
  /\ tx_state = "WAIT"
  /\ tx_state' = IF detect_posedge_start = <<FALSE, TRUE>>
                   THEN "START_BIT" ELSE "WAIT"
  /\ tx' = 1
  /\ clear_req' = FALSE
  /\ UNCHANGED <<tx_clk_cnt, tx_index, tx_busy>>

TxStartBit ==
  /\ tx_state = "START_BIT"
  /\ tx_state' = IF BitOver THEN "SEND_DATA" ELSE "START_BIT"
  /\ TxCount
  /\ tx' = 0
  /\ tx_busy' = TRUE
  /\ UNCHANGED <<tx_index, clear_req>>

\* Mutation: the most significant bit is sent first.
TxSendDataReversed(tx_data) ==
  /\ tx_state = "SEND_DATA"
  /\ tx_state' = IF BitOver /\ tx_index = LastIndex THEN "STOP_BIT" ELSE "SEND_DATA"
  /\ tx_index' = IF BitOver THEN NextIndex(tx_index) ELSE tx_index
  /\ TxCount
  /\ tx' = tx_data[LastIndex - tx_index]
  /\ tx_busy' = TRUE
  /\ UNCHANGED clear_req

TxSendData(tx_data) ==
  /\ tx_state = "SEND_DATA"
  /\ tx_state' = IF BitOver /\ tx_index = LastIndex THEN "STOP_BIT" ELSE "SEND_DATA"
  /\ tx_index' = IF BitOver THEN NextIndex(tx_index) ELSE tx_index
  /\ TxCount
  /\ tx' = tx_data[tx_index]
  /\ tx_busy' = TRUE
  /\ UNCHANGED clear_req

TxStopBit ==
  /\ tx_state = "STOP_BIT"
  /\ tx_state' = IF BitOver THEN "CLEAR_REQ" ELSE "STOP_BIT"
  /\ TxCount
  /\ tx' = 1
  /\ tx_busy' = TRUE
  /\ UNCHANGED <<tx_index, clear_req>>

\* Mutation: the request just served is not cleared.
TxClearReqMissing ==
  /\ tx_state = "CLEAR_REQ"
  /\ tx_state' = "WAIT"
  /\ tx_busy' = FALSE
  /\ UNCHANGED <<tx_clk_cnt, tx_index, tx, clear_req>>

TxClearReq ==
  /\ tx_state = "CLEAR_REQ"
  /\ tx_state' = "WAIT"
  /\ clear_req' = TRUE
  /\ tx_busy' = FALSE
  /\ UNCHANGED <<tx_clk_cnt, tx_index, tx>>

TxClock(tx_start, tx_data) ==
  /\ detect_posedge_start' = <<detect_posedge_start[2], tx_start>>
  /\ \/ TxWait
     \/ TxStartBit
     \/ TxSendData(tx_data)
     \/ TxStopBit
     \/ TxClearReq

TxTypeOK ==
  /\ tx_state \in TxStates
  /\ tx_clk_cnt \in 0 .. ClkDiv - 1
  /\ tx_index \in 0 .. LastIndex
  /\ detect_posedge_start \in BOOLEAN \X BOOLEAN
  /\ tx \in Bit
  /\ clear_req \in BOOLEAN /\ tx_busy \in BOOLEAN
=============================================================================

---------------------------- MODULE UartReceive ----------------------------
(***************************************************************************)
(* uart_receive (uart_rx.v): the receiver of the lab 6 UART.  Every        *)
(* definition named after a state is what one rising clock edge does in    *)
(* that state; RxClock is the always block.  The line rx and the           *)
(* acknowledgement rx_finish are inputs and come as parameters.            *)
(***************************************************************************)
EXTENDS UartFrame

VARIABLES rx_state,     \* state
          rx_clk_cnt,   \* clk_cnt: cycles since the last sampling point
          rx_index,     \* the data bit sampled next
          irq,          \* one-cycle pulse: a frame has been received
          rx_data,      \* shift register
          frame_err,    \* one-cycle pulse: the stop bit was low
          rx_busy       \* busy

rxVars == <<rx_state, rx_clk_cnt, rx_index, irq, rx_data, frame_err, rx_busy>>

RxStates == {"WAIT", "START_BIT", "GET_DATA", "STOP_BIT", "WAIT_READ",
             "FRAME_ERR", "IRQ"}

RxInit ==
  /\ rx_state = "WAIT"
  /\ rx_clk_cnt = 0
  /\ rx_index = 0
  /\ irq = FALSE
  /\ rx_data = ZeroByte
  /\ frame_err = FALSE
  /\ rx_busy = FALSE

-----------------------------------------------------------------------------

RxWait(rx) ==
  /\ rx_state = "WAIT"
  /\ rx_state' = IF rx = 0 THEN "START_BIT" ELSE "WAIT"
  /\ irq' = FALSE /\ frame_err' = FALSE /\ rx_busy' = FALSE
  /\ rx_data' = ZeroByte
  /\ UNCHANGED <<rx_clk_cnt, rx_index>>

\* A start bit that is high again at its middle is not abandoned: the state
\* stays START_BIT and the line is looked at every half bit from then on.
RxStartBit(rx) ==
  LET middle == rx_clk_cnt = HalfDiv - 1 IN
  /\ rx_state = "START_BIT"
  /\ rx_clk_cnt' = IF middle THEN 0 ELSE rx_clk_cnt + 1
  /\ rx_state' = IF middle /\ rx = 0 THEN "GET_DATA" ELSE "START_BIT"
  /\ rx_busy' = TRUE
  /\ UNCHANGED <<rx_index, irq, rx_data, frame_err>>

\* Mutation: the bit counter is compared with clk_div instead of clk_div - 1.
RxGetDataLate(rx) ==
  LET sample == rx_clk_cnt = ClkDiv IN
  /\ rx_state = "GET_DATA"
  /\ rx_clk_cnt' = IF sample THEN 0 ELSE rx_clk_cnt + 1
  /\ rx_state' = IF sample /\ rx_index = LastIndex THEN "STOP_BIT" ELSE "GET_DATA"
  /\ rx_index' = IF sample THEN NextIndex(rx_index) ELSE rx_index
  /\ rx_data' = IF sample THEN [rx_data EXCEPT ![rx_index] = rx] ELSE rx_data
  /\ rx_busy' = TRUE
  /\ UNCHANGED <<irq, frame_err>>

RxGetData(rx) ==
  LET sample == rx_clk_cnt = ClkDiv - 1 IN
  /\ rx_state = "GET_DATA"
  /\ rx_clk_cnt' = IF sample THEN 0 ELSE rx_clk_cnt + 1
  /\ rx_state' = IF sample /\ rx_index = LastIndex THEN "STOP_BIT" ELSE "GET_DATA"
  /\ rx_index' = IF sample THEN NextIndex(rx_index) ELSE rx_index
  /\ rx_data' = IF sample THEN [rx_data EXCEPT ![rx_index] = rx] ELSE rx_data
  /\ rx_busy' = TRUE
  /\ UNCHANGED <<irq, frame_err>>

RxStopBit(rx) ==
  LET sample == rx_clk_cnt = ClkDiv - 1 IN
  /\ rx_state = "STOP_BIT"
  /\ rx_clk_cnt' = IF sample THEN 0 ELSE rx_clk_cnt + 1
  /\ rx_state' = CASE ~sample -> "STOP_BIT"
                   [] sample /\ rx = 1 -> "IRQ"
                   [] sample /\ rx # 1 -> "FRAME_ERR"
  /\ frame_err' = IF sample THEN rx # 1 ELSE frame_err
  /\ rx_busy' = TRUE
  /\ UNCHANGED <<rx_index, irq, rx_data>>

RxIrq ==
  /\ rx_state = "IRQ"
  /\ rx_state' = "WAIT_READ"
  /\ irq' = TRUE
  /\ rx_busy' = FALSE
  /\ UNCHANGED <<rx_clk_cnt, rx_index, rx_data, frame_err>>

\* Mutation: rx_finish is not waited for.
RxWaitReadOnce(rx_finish) ==
  /\ rx_state = "WAIT_READ"
  /\ rx_state' = "WAIT"
  /\ irq' = FALSE
  /\ rx_busy' = FALSE
  /\ UNCHANGED <<rx_clk_cnt, rx_index, rx_data, frame_err>>

\* The receiver is deaf until the controller says that the byte was read.
RxWaitRead(rx_finish) ==
  /\ rx_state = "WAIT_READ"
  /\ rx_state' = IF rx_finish THEN "WAIT" ELSE "WAIT_READ"
  /\ irq' = FALSE
  /\ rx_busy' = FALSE
  /\ UNCHANGED <<rx_clk_cnt, rx_index, rx_data, frame_err>>

RxFrameErr ==
  /\ rx_state = "FRAME_ERR"
  /\ rx_state' = "WAIT"
  /\ irq' = FALSE /\ frame_err' = FALSE /\ rx_busy' = FALSE
  /\ UNCHANGED <<rx_clk_cnt, rx_index, rx_data>>

RxClock(rx, rx_finish) ==
  \/ RxWait(rx)
  \/ RxStartBit(rx)
  \/ RxGetData(rx)
  \/ RxStopBit(rx)
  \/ RxIrq
  \/ RxWaitRead(rx_finish)
  \/ RxFrameErr

RxTypeOK ==
  /\ rx_state \in RxStates
  /\ rx_clk_cnt \in 0 .. ClkDiv - 1
  /\ rx_index \in 0 .. LastIndex
  /\ rx_data \in Byte
  /\ irq \in BOOLEAN /\ frame_err \in BOOLEAN /\ rx_busy \in BOOLEAN
=============================================================================

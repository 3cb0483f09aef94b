------------------------------- MODULE TbUart ------------------------------
(***************************************************************************)
(* tbuart (vip/tbuart.v) and the task that drives it (uart_tb.v): the      *)
(* serial peer of the UART.  It has a clock of its own with one tick per   *)
(* bit, whose phase against the system clock is arbitrary; tb_phase counts *)
(* the system clock cycles of a tick.  Both of its halves move at a tick.  *)
(*                                                                         *)
(* The test program sends one byte, waits until a byte has come back and   *)
(* only then sends the next: Patient is TRUE.  A peer that is not patient  *)
(* sends whenever its transmitter is free.  A stop bit may be spoiled on   *)
(* the line at most Glitches times (never in the testbench itself); the    *)
(* peer then gives up on that byte and sends another.                      *)
(***************************************************************************)
EXTENDS UartFrame

CONSTANTS Messages,   \* the bytes the peer sends
          Patient,    \* does the peer wait for its echoes?
          Glitches    \* how many stop bits are spoiled, at most

ASSUME PeerAssumption ==
  Messages \subseteq Byte /\ Patient \in BOOLEAN /\ Glitches \in Nat

VARIABLES tb_phase,
          tr_state, tb_tx_index, tx_pattern, ser_tx,         \* transmitter
          recv_state, tb_rx_index, recv_pattern, tb_rx_data, \* receiver
          expected,    \* tx_data_tmp: the byte last sent
          awaiting,    \* its echo has not come back
          spoiled,     \* its stop bit was spoiled
          noise,       \* the line is pulled low now
          glitches     \* stop bits spoiled so far

trVars == <<tr_state, tb_tx_index, tx_pattern, ser_tx, expected, spoiled,
            noise, glitches>>
recvVars == <<recv_state, tb_rx_index, recv_pattern, tb_rx_data>>
tbVars == <<tb_phase, trVars, recvVars, awaiting>>

TbInit ==
  /\ tb_phase \in 0 .. ClkDiv - 1
  /\ tr_state = "T_WAIT" /\ tb_tx_index = 0 /\ tx_pattern = ZeroByte /\ ser_tx = 1
  /\ recv_state = "R_WAIT" /\ tb_rx_index = 0
  /\ recv_pattern = ZeroByte /\ tb_rx_data = ZeroByte
  /\ expected = ZeroByte /\ awaiting = FALSE
  /\ spoiled = FALSE /\ noise = FALSE /\ glitches = 0

\* What the UART sees on its input pin.
Line == IF noise THEN 0 ELSE ser_tx

-----------------------------------------------------------------------------
(* The transmitter and the task send_data. *)

TrIdle ==
  /\ tr_state = "T_WAIT"
  /\ tx_pattern' = ZeroByte /\ ser_tx' = 1 /\ tb_tx_index' = 0
  /\ UNCHANGED <<tr_state, expected, spoiled, noise, glitches>>

TrStart ==
  /\ tr_state = "T_WAIT"
  /\ Patient => ~awaiting \/ spoiled
  /\ tr_state' = "T_START_BIT"
  /\ \E data \in Messages : tx_pattern' = data /\ expected' = data
  /\ ser_tx' = 1 /\ tb_tx_index' = 0
  /\ spoiled' = FALSE
  /\ UNCHANGED <<noise, glitches>>

TrStartBit ==
  /\ tr_state = "T_START_BIT"
  /\ tr_state' = "T_SEND_DATA"
  /\ ser_tx' = 0 /\ tb_tx_index' = 0
  /\ UNCHANGED <<tx_pattern, expected, spoiled, noise, glitches>>

TrSendData ==
  /\ tr_state = "T_SEND_DATA"
  /\ tr_state' = IF tb_tx_index = LastIndex THEN "T_STOP_BIT" ELSE "T_SEND_DATA"
  /\ ser_tx' = tx_pattern[tb_tx_index]
  /\ tb_tx_index' = NextIndex(tb_tx_index)
  /\ UNCHANGED <<tx_pattern, expected, spoiled, noise, glitches>>

\* The line may be pulled low for the whole stop bit.
TrStopBit ==
  /\ tr_state = "T_STOP_BIT"
  /\ tr_state' = "T_CLEAR"
  /\ ser_tx' = 1 /\ tb_tx_index' = 0
  /\ \/ UNCHANGED <<spoiled, noise, glitches>>
     \/ /\ glitches < Glitches
        /\ glitches' = glitches + 1
        /\ noise' = TRUE /\ spoiled' = TRUE
  /\ UNCHANGED <<tx_pattern, expected>>

TrClear ==
  /\ tr_state = "T_CLEAR"
  /\ tr_state' = "T_WAIT"
  /\ tx_pattern' = ZeroByte /\ ser_tx' = 1 /\ tb_tx_index' = 0
  /\ noise' = FALSE
  /\ UNCHANGED <<expected, spoiled, glitches>>

Transmit == TrIdle \/ TrStart \/ TrStartBit \/ TrSendData \/ TrStopBit \/ TrClear

-----------------------------------------------------------------------------
(* The receiver; tx is the UART's output pin. *)

RecvWait(tx) ==
  /\ recv_state = "R_WAIT"
  /\ recv_state' = IF tx = 0 THEN "R_GET_DATA" ELSE "R_WAIT"
  /\ tb_rx_index' = 0
  /\ recv_pattern' = ZeroByte
  /\ UNCHANGED tb_rx_data

\* Bits are shifted in at the top, so the first one ends up lowest.
RecvGetData(tx) ==
  /\ recv_state = "R_GET_DATA"
  /\ recv_state' = IF tb_rx_index = LastIndex THEN "R_STOP_BIT" ELSE "R_GET_DATA"
  /\ tb_rx_index' = NextIndex(tb_rx_index)
  /\ recv_pattern' = [i \in 0 .. LastIndex |->
                        IF i = LastIndex THEN tx ELSE recv_pattern[i + 1]]
  /\ UNCHANGED tb_rx_data

\* rx_finish is raised here: the test program's wait(rx_finish == 1) ends.
RecvStopBit(tx) ==
  /\ recv_state = "R_STOP_BIT"
  /\ recv_state' = IF tx = 1 THEN "R_WAIT" ELSE "R_STOP_BIT"
  /\ tb_rx_index' = 0
  /\ recv_pattern' = ZeroByte
  /\ tb_rx_data' = recv_pattern

Receive(tx) == RecvWait(tx) \/ RecvGetData(tx) \/ RecvStopBit(tx)

\* The test program's side: a byte sent is awaited until one has come back.
Await == awaiting' = CASE tr_state' = "T_START_BIT" -> TRUE
                       [] recv_state = "R_STOP_BIT" -> FALSE
                       [] OTHER -> awaiting

TbClock(tx) ==
  IF tb_phase = ClkDiv - 1
    THEN tb_phase' = 0 /\ Transmit /\ Receive(tx) /\ Await
    ELSE tb_phase' = tb_phase + 1 /\ UNCHANGED <<trVars, recvVars, awaiting>>
=============================================================================

-------------------------------- MODULE Uart -------------------------------
(***************************************************************************)
(* uart (uart.v): receiver, transmitter and controller on one clock, in    *)
(* the most hostile surroundings the hardware allows: the serial line may  *)
(* change at every cycle, and the bus master may start any of Requests     *)
(* whenever the bus protocol lets it.                                      *)
(*                                                                         *)
(* The master is the data bus of VexRiscv: it holds a request until the    *)
(* cycle in which it is acknowledged and then, because its command goes    *)
(* through a half pipe, leaves at least one cycle without a request.       *)
(***************************************************************************)
EXTENDS UartCtrl

CONSTANT Requests   \* what the master may ask for

ASSUME RequestsAssumption == Requests \subseteq Request

VARIABLE wb   \* the request on the bus

vars == <<rxVars, txVars, ctrlVars, wb>>

\* Every register of the UART at one rising clock edge.
UartClock(rx) ==
  /\ RxClock(rx, o_rx_finish)
  /\ TxClock(o_tx_start, o_tx)
  /\ CtrlClock(wb)

\* The master's side of the same edge.
StartRequest == ~wb.valid /\ wb' \in Requests
StayIdle     == ~wb.valid /\ UNCHANGED wb
HoldRequest  == wb.valid /\ ~o_wb_ack /\ UNCHANGED wb
DropRequest  == wb.valid /\ o_wb_ack /\ wb' = Idle
MasterClock == StartRequest \/ StayIdle \/ HoldRequest \/ DropRequest

Init == RxInit /\ TxInit /\ CtrlInit /\ wb = Idle

Next == \E rx \in Bit : UartClock(rx) /\ MasterClock

Spec == Init /\ [][Next]_vars

-----------------------------------------------------------------------------
\* Every register holds a value of its width, the counters never run past
\* their limits (they are compared with =, so one that did would count to 2^32).
TypeOK == RxTypeOK /\ TxTypeOK /\ CtrlTypeOK /\ wb \in Requests \cup {Idle}

\* No byte is announced in vain: whenever the receiver pulses irq, the
\* controller's guard at uart_ctrl.v:88 is open and the byte is copied.
AnnouncedIsLoaded == irq => LoadsRx

\* The receiver is never parked for good: in WAIT_READ there is a byte about
\* to be loaded, a byte to be read, or the release already on its way.  (A
\* read is only honoured while rx_full; a parked receiver with an empty
\* status would be deaf for ever.)
ParkedIsReadable == rx_state = "WAIT_READ" => irq \/ stat_reg.rx_full \/ o_rx_finish

\* While the status says full, the receiver holds still and the buffer is the
\* byte it received: nothing can overtake a byte the CPU has not fetched.
FullIsStable ==
  stat_reg.rx_full => /\ rx_state = "WAIT_READ"
                      /\ rx_buffer = rx_data
                      /\ ~o_rx_finish

\* The overrun bit can never be set: its condition needs the receiver busy
\* while a byte is unread, and the receiver waits in that case.
OverrunUnreachable == ~stat_reg.overrun

\* Every framing error reaches bit 5, whatever the bus does at that edge, the
\* reads that clear the bit included.
FrameErrIsRecorded == [][frame_err => stat_reg'.frame_err]_vars

\* A frame on the line carries one byte: no write that slips in before the
\* transmitter is busy changes the byte once data bits are being sent.
SentByteIsStable == [][tx_state = "SEND_DATA" => UNCHANGED o_tx]_vars
=============================================================================

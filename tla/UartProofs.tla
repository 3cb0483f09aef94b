----------------------------- MODULE UartProofs ----------------------------
(***************************************************************************)
(* Theorems about Uart, for every bit length ClkDiv >= 2, every number of  *)
(* data bits, every waveform on the line and every set of bus requests.    *)
(*                                                                         *)
(* The safety of the receive path is a handshake among three registers     *)
(* written by two always blocks in two modules: rx_state and irq in        *)
(* uart_rx.v, stat_reg[1:0] and rx_finish in uart_ctrl.v.  None of the     *)
(* invariants is inductive alone; Handshake below is.                      *)
(*                                                                         *)
(* The second part is about the polling driver of UartWrite.  It is one of *)
(* the masters Uart allows (DriverIsMaster), so that all of this holds of  *)
(* it too; what it adds is how long tx_full takes to show a write.         *)
(***************************************************************************)
EXTENDS UartWrite, SequenceTheorems, TLAPS

\* The counters start every state they count in from zero, and the receiver
\* leaves START_BIT before a full bit has been counted.
Counters ==
  /\ rx_state \in {"WAIT", "IRQ", "WAIT_READ", "FRAME_ERR"} => rx_clk_cnt = 0
  /\ rx_state = "START_BIT" => rx_clk_cnt < HalfDiv
  /\ tx_state \in {"WAIT", "CLEAR_REQ"} => tx_clk_cnt = 0

\* A received byte goes through three phases, and irq, rx_full and o_rx_finish
\* say which: announced, held for the CPU, released.  Outside WAIT_READ only
\* the release that follows a framing error may still be up.
Handshake ==
  /\ irq => /\ rx_state = "WAIT_READ" /\ ~stat_reg.rx_full /\ ~o_rx_finish
  /\ stat_reg.rx_full => /\ rx_state = "WAIT_READ" /\ ~irq /\ ~o_rx_finish
                         /\ rx_buffer = rx_data
  /\ rx_state = "WAIT_READ" => /\ irq \/ stat_reg.rx_full \/ o_rx_finish
                               /\ ~rx_busy
  /\ o_rx_finish => rx_state \in {"WAIT", "WAIT_READ"}
  /\ frame_err <=> rx_state = "FRAME_ERR"
  /\ frame_err => rx_busy
  /\ ~stat_reg.overrun

\* Once the start bit has lasted a cycle the transmitter is busy and the
\* controller refuses writes; the byte is then copied to o_tx in time.
Transmission ==
  /\ clear_req => tx_state = "WAIT"
  /\ tx_state = "START_BIT" /\ tx_clk_cnt > 0 => tx_busy
  /\ tx_state = "SEND_DATA" => tx_busy /\ o_tx = tx_buffer

IInv == TypeOK /\ Counters /\ Handshake /\ Transmission

-----------------------------------------------------------------------------
(* Lemmas about the pieces of one clock edge. *)

\* Half a bit is at least one cycle and less than a bit.
LEMMA HalfBit == HalfDiv \in 1 .. ClkDiv - 1
  BY FrameAssumption DEF HalfDiv

\* A shift register stays a byte when one of its bits is replaced.
LEMMA SetBit ==
  ASSUME NEW b \in Byte, NEW i \in 0 .. LastIndex, NEW v \in Bit
  PROVE  [b EXCEPT ![i] = v] \in Byte
  BY FrameAssumption DEF Byte, LastIndex

\* The next index is an index.
LEMMA IndexWraps ==
  ASSUME NEW i \in 0 .. LastIndex
  PROVE  NextIndex(i) \in 0 .. LastIndex
  BY FrameAssumption DEF NextIndex, LastIndex

\* The reset value of the data registers is a byte.
LEMMA ZeroIsByte == ZeroByte \in Byte
  BY FrameAssumption DEF ZeroByte, Byte, Bit

\* The reset value of the status register is a status.
LEMMA NoStatIsStat == NoStat \in Stat
  BY DEF NoStat, Stat

\* What is on the bus is well formed, a request or none.
LEMMA BusTyped ==
  ASSUME NEW q \in Requests \cup {Idle}
  PROVE  q.valid \in BOOLEAN /\ q.we \in BOOLEAN /\ q.adr \in Address /\ q.dat \in Byte
<1>1. CASE q \in Requests
  BY <1>1, RequestsAssumption DEF Request
<1>2. CASE q = Idle
  BY <1>2, ZeroIsByte DEF Idle, Address
<1>3. QED
  BY <1>1, <1>2

\* One edge of the receiver preserves its types and the bounds of its counter.
LEMMA RxTyped ==
  ASSUME RxTypeOK, Counters, NEW rx \in Bit, RxClock(rx, o_rx_finish)
  PROVE  /\ RxTypeOK'
         /\ rx_state' \in {"WAIT", "IRQ", "WAIT_READ", "FRAME_ERR"} => rx_clk_cnt' = 0
         /\ rx_state' = "START_BIT" => rx_clk_cnt' < HalfDiv
<1> USE FrameAssumption, HalfBit DEF RxTypeOK, RxStates, Counters
<1>1. CASE RxWait(rx)
  <2>1. rx_clk_cnt' = 0 /\ rx_index' = rx_index /\ rx_state' \in {"WAIT", "START_BIT"}
    BY <1>1 DEF RxWait
  <2>2. /\ rx_data' \in Byte
        /\ irq' \in BOOLEAN /\ frame_err' \in BOOLEAN /\ rx_busy' \in BOOLEAN
    BY <1>1, ZeroIsByte DEF RxWait
  <2>3. rx_clk_cnt' \in 0 .. ClkDiv - 1 /\ rx_clk_cnt' < HalfDiv
    BY <2>1
  <2>4. QED
    BY <2>1, <2>2, <2>3
<1>2. CASE RxStartBit(rx)
  BY <1>2 DEF RxStartBit
<1>3. CASE RxGetData(rx)
  <2>1. rx_data' \in Byte /\ rx_index' \in 0 .. LastIndex
    BY <1>3, SetBit, IndexWraps DEF RxGetData
  <2>2. QED
    BY <1>3, <2>1 DEF RxGetData
<1>4. CASE RxStopBit(rx)
  <2>1. irq' \in BOOLEAN /\ frame_err' \in BOOLEAN /\ rx_busy' \in BOOLEAN
    BY <1>4 DEF RxStopBit
  <2>2. rx_state' \in {"STOP_BIT", "IRQ", "FRAME_ERR"}
    BY <1>4 DEF RxStopBit
  <2>3. /\ rx_clk_cnt' \in 0 .. ClkDiv - 1
        /\ rx_state' # "STOP_BIT" => rx_clk_cnt' = 0
    BY <1>4 DEF RxStopBit
  <2>4. QED
    BY <1>4, <2>1, <2>2, <2>3 DEF RxStopBit
<1>5. CASE RxIrq
  BY <1>5 DEF RxIrq
<1>6. CASE RxWaitRead(o_rx_finish)
  BY <1>6 DEF RxWaitRead
<1>7. CASE RxFrameErr
  BY <1>7 DEF RxFrameErr
<1>8. QED
  BY <1>1, <1>2, <1>3, <1>4, <1>5, <1>6, <1>7 DEF RxClock

\* One edge of the transmitter does the same for its own registers.
LEMMA TxTyped ==
  ASSUME TxTypeOK, CtrlTypeOK, Counters, TxClock(o_tx_start, o_tx)
  PROVE  /\ TxTypeOK'
         /\ tx_state' \in {"WAIT", "CLEAR_REQ"} => tx_clk_cnt' = 0
<1> USE FrameAssumption DEF TxTypeOK, TxStates, Counters
<1>1. detect_posedge_start' \in BOOLEAN \X BOOLEAN
  BY DEF TxClock, CtrlTypeOK
<1>2. CASE TxWait
  BY <1>1, <1>2 DEF TxWait, Bit
<1>3. CASE TxStartBit
  BY <1>1, <1>3 DEF TxStartBit, TxCount, BitOver, Bit
<1>4. CASE TxSendData(o_tx)
  <2>1. tx_index' \in 0 .. LastIndex
    BY <1>4, IndexWraps DEF TxSendData
  <2>2. tx' \in Bit
    BY <1>4 DEF TxSendData, CtrlTypeOK, Byte, LastIndex
  <2>3. QED
    BY <1>1, <1>4, <2>1, <2>2 DEF TxSendData, TxCount, BitOver
<1>5. CASE TxStopBit
  BY <1>1, <1>5 DEF TxStopBit, TxCount, BitOver, Bit
<1>6. CASE TxClearReq
  BY <1>1, <1>6 DEF TxClearReq
<1>7. QED
  BY <1>2, <1>3, <1>4, <1>5, <1>6 DEF TxClock

\* One edge of the controller preserves the types of its registers.
LEMMA CtrlTyped ==
  ASSUME TypeOK, CtrlClock(wb)
  PROVE  CtrlTypeOK'
<1> USE DEF TypeOK, RxTypeOK, TxTypeOK, CtrlTypeOK
<1>1. stat_reg' \in Stat
  BY DEF CtrlClock, StatClock, Stat, RecordsOverrun, RecordsFrameErr, FillsRx,
         LoadsRx, EmptiesRx, Finishes, Reads
<1>2. tx_buffer' \in Byte /\ tx_start_local' \in BOOLEAN
  BY ZeroIsByte, BusTyped DEF CtrlClock, TxBufferClock
<1>3. o_tx' \in Byte /\ o_tx_start' \in BOOLEAN
  BY ZeroIsByte DEF CtrlClock, TxRequestClock
<1>4. rx_buffer' \in Byte
  BY DEF CtrlClock, RxBufferClock
<1>5. o_rx_finish' \in BOOLEAN
  BY DEF CtrlClock, RxFinishClock, Finishes, Reads
<1>6. o_wb_ack' \in BOOLEAN
  BY ZeroIsByte, BusTyped DEF CtrlClock, AckClock
<1>7. o_wb_dat' \in Word
  BY ZeroIsByte, NoStatIsStat DEF CtrlClock, ReadClock, Word, ZeroWord
<1>8. QED
  BY <1>1, <1>2, <1>3, <1>4, <1>5, <1>6, <1>7

-----------------------------------------------------------------------------
(* The inductive invariant. *)

\* What the controller decides at an edge, in terms of the receiver's phase:
\* it fills exactly on an announcement, empties only what was full.
LEMMA CtrlDecides ==
  ASSUME IInv, CtrlClock(wb)
  PROVE  /\ stat_reg'.rx_full <=> irq \/ (stat_reg.rx_full /\ ~Reads(wb, "RX_DATA"))
         /\ o_rx_finish' <=> frame_err \/ (stat_reg.rx_full /\ Reads(wb, "RX_DATA"))
         /\ ~stat_reg'.overrun
         /\ rx_buffer' = IF irq THEN rx_data ELSE rx_buffer
<1> USE DEF IInv, TypeOK, RxTypeOK, CtrlTypeOK, Stat, Handshake
<1>1. LoadsRx <=> irq
  BY DEF LoadsRx
<1>2. ~RecordsOverrun
  BY DEF RecordsOverrun
<1>3. FillsRx <=> irq
  BY <1>1 DEF FillsRx, RecordsFrameErr
<1>4. EmptiesRx(wb) <=> ~RecordsFrameErr /\ ~irq /\ Finishes(wb)
  BY <1>1, <1>2 DEF EmptiesRx
<1>5. stat_reg'.rx_full <=> irq \/ (stat_reg.rx_full /\ ~Reads(wb, "RX_DATA"))
  BY <1>3, <1>4 DEF CtrlClock, StatClock, Finishes, RecordsFrameErr
<1>6. ~stat_reg'.overrun
  BY <1>2 DEF CtrlClock, StatClock
<1>7. o_rx_finish' <=> frame_err \/ (stat_reg.rx_full /\ Reads(wb, "RX_DATA"))
  BY DEF CtrlClock, RxFinishClock, Finishes
<1>8. rx_buffer' = IF irq THEN rx_data ELSE rx_buffer
  BY <1>1 DEF CtrlClock, RxBufferClock
<1>9. QED
  BY <1>5, <1>6, <1>7, <1>8

\* The handshake survives every edge, one case per state of the receiver.
LEMMA HandshakeKept ==
  ASSUME IInv, NEW rx \in Bit, RxClock(rx, o_rx_finish), CtrlClock(wb)
  PROVE  Handshake'
<1> USE DEF Handshake
<1> DEFINE Full == stat_reg.rx_full
<1>1. Handshake /\ RxTypeOK /\ CtrlTypeOK
  BY DEF IInv, TypeOK
<1>2. /\ Full' <=> irq \/ (Full /\ ~Reads(wb, "RX_DATA"))
      /\ o_rx_finish' <=> frame_err \/ (Full /\ Reads(wb, "RX_DATA"))
      /\ ~stat_reg'.overrun
      /\ rx_buffer' = IF irq THEN rx_data ELSE rx_buffer
  BY CtrlDecides
<1>3. CASE RxWait(rx)
  BY <1>1, <1>2, <1>3 DEF RxWait
<1>4. CASE RxStartBit(rx)
  BY <1>1, <1>2, <1>4 DEF RxStartBit
<1>5. CASE RxGetData(rx)
  BY <1>1, <1>2, <1>5 DEF RxGetData
<1>6. CASE RxStopBit(rx)
  BY <1>1, <1>2, <1>6 DEF RxStopBit
<1>7. CASE RxIrq
  BY <1>1, <1>2, <1>7 DEF RxIrq
<1>8. CASE RxWaitRead(o_rx_finish)
  BY <1>1, <1>2, <1>8 DEF RxWaitRead
<1>9. CASE RxFrameErr
  BY <1>1, <1>2, <1>9 DEF RxFrameErr
<1>10. QED
  BY <1>3, <1>4, <1>5, <1>6, <1>7, <1>8, <1>9 DEF RxClock

\* A busy transmitter shuts the controller's write port, and a request is
\* only cleared when the transmitter is back in WAIT.
LEMMA TransmissionKept ==
  ASSUME IInv, TxClock(o_tx_start, o_tx), CtrlClock(wb)
  PROVE  Transmission'
<1> USE DEF Transmission
<1>1. Transmission /\ Counters /\ TxTypeOK /\ CtrlTypeOK
  BY DEF IInv, TypeOK
<1>2. ~clear_req => o_tx' = tx_buffer
  BY DEF CtrlClock, TxRequestClock
<1>3. ~clear_req /\ tx_busy => tx_buffer' = tx_buffer
  BY DEF CtrlClock, TxBufferClock
<1>4. CASE TxWait
  <2>1. ~clear_req' /\ tx_state' # "SEND_DATA"
    BY <1>4 DEF TxWait
  <2>2. ~(tx_clk_cnt' > 0)
    BY <1>1, <1>4 DEF TxWait, Counters
  <2>3. QED
    BY <2>1, <2>2
<1>5. CASE TxStartBit
  <2>1. BitOver => tx_clk_cnt > 0
    BY FrameAssumption, <1>1 DEF BitOver, TxTypeOK
  <2>2. QED
    BY <1>1, <1>2, <1>3, <1>5, <2>1 DEF TxStartBit
<1>6. CASE TxSendData(o_tx)
  BY <1>1, <1>2, <1>3, <1>6 DEF TxSendData
<1>7. CASE TxStopBit
  BY <1>1, <1>7 DEF TxStopBit
<1>8. CASE TxClearReq
  BY <1>1, <1>8 DEF TxClearReq
<1>9. QED
  BY <1>4, <1>5, <1>6, <1>7, <1>8 DEF TxClock

\* The invariant holds after reset.
LEMMA InitIInv == Init => IInv
<1> SUFFICES ASSUME Init PROVE IInv
  OBVIOUS
<1> USE DEF Init, RxInit, TxInit, CtrlInit
<1>0. 0 \in 0 .. ClkDiv - 1 /\ 0 \in 0 .. LastIndex /\ 0 < HalfDiv
  BY FrameAssumption, HalfBit DEF LastIndex
<1>1. RxTypeOK
  BY <1>0, ZeroIsByte DEF RxTypeOK, RxStates
<1>2. TxTypeOK
  BY <1>0 DEF TxTypeOK, TxStates, Bit
<1>3. CtrlTypeOK
  <2>1. ZeroWord \in Word
    BY ZeroIsByte, NoStatIsStat DEF ZeroWord, Word
  <2>2. QED
    BY <2>1, ZeroIsByte, NoStatIsStat DEF CtrlTypeOK
<1>4. Counters
  BY <1>0 DEF Counters
<1>5. Handshake
  BY DEF Handshake, NoStat
<1>6. Transmission
  BY DEF Transmission
<1>7. QED
  BY <1>1, <1>2, <1>3, <1>4, <1>5, <1>6 DEF IInv, TypeOK

\* The invariant is inductive.
LEMMA NextIInv == IInv /\ [Next]_vars => IInv'
<1> SUFFICES ASSUME IInv, [Next]_vars PROVE IInv'
  OBVIOUS
<1>1. CASE Next
  <2>1. PICK rx \in Bit : UartClock(rx) /\ MasterClock
    BY <1>1 DEF Next
  <2>2. RxClock(rx, o_rx_finish) /\ TxClock(o_tx_start, o_tx) /\ CtrlClock(wb)
    BY <2>1 DEF UartClock
  <2>3. /\ RxTypeOK'
        /\ rx_state' \in {"WAIT", "IRQ", "WAIT_READ", "FRAME_ERR"} => rx_clk_cnt' = 0
        /\ rx_state' = "START_BIT" => rx_clk_cnt' < HalfDiv
    BY <2>2, RxTyped DEF IInv, TypeOK
  <2>4. /\ TxTypeOK'
        /\ tx_state' \in {"WAIT", "CLEAR_REQ"} => tx_clk_cnt' = 0
    BY <2>2, TxTyped DEF IInv, TypeOK
  <2>5. CtrlTypeOK'
    BY <2>2, CtrlTyped DEF IInv
  <2>6. wb' \in Requests \cup {Idle}
    BY <2>1 DEF IInv, TypeOK, MasterClock, StartRequest, StayIdle, HoldRequest,
                DropRequest
  <2>7. Handshake'
    BY <2>2, HandshakeKept
  <2>8. Transmission'
    BY <2>2, TransmissionKept
  <2>9. QED
    BY <2>3, <2>4, <2>5, <2>6, <2>7, <2>8 DEF IInv, TypeOK, Counters
<1>2. CASE UNCHANGED vars
  BY <1>2 DEF vars, rxVars, txVars, ctrlVars, IInv, TypeOK, RxTypeOK, TxTypeOK,
              CtrlTypeOK, Counters, Handshake, Transmission
<1>3. QED
  BY <1>1, <1>2

\* Every reachable state satisfies the inductive invariant.
THEOREM Invariance == Spec => []IInv
  BY InitIInv, NextIInv, PTL DEF Spec

-----------------------------------------------------------------------------
(* The properties. *)

\* Every register keeps its width for every frame format: in particular the
\* counters compared with = never run past the value they are compared with.
THEOREM TypeCorrect == Spec => []TypeOK
<1>1. IInv => TypeOK
  BY DEF IInv
<1>2. QED
  BY <1>1, Invariance, PTL

\* Whatever arrives on the line, however late the CPU reads: the overrun bit
\* of the status register is never set.
THEOREM NoOverrun == Spec => []OverrunUnreachable
<1>1. IInv => OverrunUnreachable
  BY DEF IInv, Handshake, OverrunUnreachable
<1>2. QED
  BY <1>1, Invariance, PTL

\* The receiver and the controller agree on who holds the byte: a parked
\* receiver can be released, and a byte that waits for the CPU is not disturbed.
THEOREM ReceiveHandshake ==
  Spec => [](ParkedIsReadable /\ FullIsStable)
<1>1. IInv => ParkedIsReadable /\ FullIsStable
  BY DEF IInv, TypeOK, RxTypeOK, CtrlTypeOK, Stat, Handshake, ParkedIsReadable,
         FullIsStable
<1>2. QED
  BY <1>1, Invariance, PTL

\* No pulse of irq is in vain: at every pulse the controller's guard is open,
\* the status empty and no framing error in the way, and the byte is copied.
THEOREM AnnouncedLoaded == Spec => []AnnouncedIsLoaded
<1>1. IInv => AnnouncedIsLoaded
  BY DEF IInv, TypeOK, RxTypeOK, Handshake, AnnouncedIsLoaded, LoadsRx
<1>2. QED
  BY <1>1, Invariance, PTL

\* A framing error is recorded even at an edge at which the bus reads, and so
\* clears, the status register.
THEOREM FrameErrRecorded == Spec => FrameErrIsRecorded
<1>1. IInv /\ [Next]_vars => [frame_err => stat_reg'.frame_err]_vars
  <2> SUFFICES ASSUME IInv, Next, frame_err PROVE stat_reg'.frame_err
    BY DEF IInv, TypeOK, RxTypeOK
  <2>1. RecordsFrameErr
    BY DEF IInv, Handshake, RecordsFrameErr
  <2>2. StatClock(wb)
    BY DEF Next, UartClock, CtrlClock
  <2>3. QED
    BY <2>1, <2>2 DEF StatClock
<1>2. QED
  BY <1>1, Invariance, PTL DEF Spec, FrameErrIsRecorded

\* The byte on the line does not change once its data bits are being sent.
THEOREM SentByteStable == Spec => SentByteIsStable
<1>1. IInv /\ [Next]_vars => [tx_state = "SEND_DATA" => UNCHANGED o_tx]_vars
  <2> SUFFICES ASSUME IInv, Next, tx_state = "SEND_DATA" PROVE o_tx' = o_tx
    OBVIOUS
  <2>1. o_tx = tx_buffer /\ ~clear_req
    BY DEF IInv, Transmission
  <2>2. QED
    BY <2>1 DEF Next, UartClock, CtrlClock, TxRequestClock
<1>2. QED
  BY <1>1, Invariance, PTL DEF Spec, SentByteIsStable

-----------------------------------------------------------------------------
(* The polling driver (UartWrite).  A byte it hands over passes through the  *)
(* phases below, each of which lasts one cycle but the first and Sending.    *)
(* tx_full follows at the second cycle of Sending; what keeps the driver     *)
(* from seeing the old value is that its next access comes later.            *)

Written == Chars \cup {LF, CR}

\* What the driver has on the bus, and what it has still to write.
DriverTypes ==
  /\ pc \in {"next", "poll", "write"} /\ gap \in 0 .. MinGap
  /\ todo \in Seq(Written) /\ (pc # "next" => todo # <<>>)
  /\ wb.valid => /\ pc = "poll" => wb = Read("STAT_REG")
                 /\ pc = "write" => wb = Write("TX_DATA", Head(todo))
                 /\ pc # "next"
  /\ wb.valid \/ o_wb_ack => gap = 0

Handed == tx_start_local /\ ~clear_req /\ ~wb.valid /\ ~tx_busy /\ pc # "write"
Sent == o_tx_start /\ o_tx = tx_buffer /\ unsent = <<o_tx>>
\* A poll that has been answered has been told to wait.
ToldToWait == pc # "write" /\ (wb.valid /\ o_wb_ack => o_wb_dat.stat.tx_full)

Quiet ==
  /\ tx_state = "WAIT" /\ ~tx_start_local /\ ~o_tx_start /\ ~tx_busy /\ ~clear_req
  /\ detect_posedge_start = <<FALSE, FALSE>> /\ unsent = <<>>
  /\ ~(wb.valid /\ wb.we /\ o_wb_ack)
Taken ==
  /\ tx_state = "WAIT" /\ tx_start_local /\ ~o_tx_start /\ ~tx_busy /\ ~clear_req
  /\ detect_posedge_start = <<FALSE, FALSE>> /\ unsent = <<>>
  /\ wb.valid /\ wb.we /\ o_wb_ack /\ tx_buffer = wb.dat
Requested ==
  /\ tx_state = "WAIT" /\ Handed /\ Sent /\ gap = 0
  /\ detect_posedge_start = <<FALSE, FALSE>>
Detected ==
  /\ tx_state = "WAIT" /\ Handed /\ Sent /\ gap <= 1
  /\ detect_posedge_start = <<FALSE, TRUE>>
Starting ==
  /\ tx_state = "START_BIT" /\ tx_clk_cnt = 0 /\ Handed /\ Sent /\ gap <= 2
  /\ detect_posedge_start = <<TRUE, TRUE>>
Sending ==
  /\ tx_state \in {"START_BIT", "SEND_DATA", "STOP_BIT", "CLEAR_REQ"}
  /\ tx_start_local /\ ~clear_req /\ tx_busy /\ Sent
  /\ detect_posedge_start = <<TRUE, TRUE>>
  /\ ToldToWait /\ (stat_reg.tx_full \/ ~wb.valid)
Finished ==
  /\ tx_state = "WAIT" /\ ~tx_busy /\ clear_req /\ unsent = <<>>
  /\ detect_posedge_start = <<TRUE, TRUE>>
  /\ ToldToWait /\ (stat_reg.tx_full \/ ~wb.valid)
Cleared ==
  /\ tx_state = "WAIT" /\ ~tx_start_local /\ ~o_tx_start /\ ~tx_busy /\ ~clear_req
  /\ detect_posedge_start = <<TRUE, TRUE>> \/ detect_posedge_start = <<TRUE, FALSE>>
  /\ unsent = <<>> /\ pc # "write" /\ (detect_posedge_start[2] => ToldToWait)

WriteInv ==
  /\ DriverTypes
  /\ \/ Quiet \/ Taken \/ Requested \/ Detected \/ Starting \/ Sending
     \/ Finished \/ Cleared

\* The driver is one of the masters that the UART is prepared for.
LEMMA DriverStep ==
  ASSUME DriverTypes, Driver, AckClock(wb)
  PROVE  MasterClock /\ DriverTypes'
<1>1. /\ Read("STAT_REG").valid /\ ~Idle.valid
      /\ \A c : Write("TX_DATA", c).valid
  BY DEF Read, Write, Idle
<1>2. CASE NextChar
  <2>1. ~wb.valid /\ pc = "next"
    BY <1>2 DEF NextChar, DriverTypes
  <2>2. todo' \in Seq(Written) /\ todo' # <<>>
    <3>1. PICK c \in Chars : todo' = IF c = LF THEN <<CR, LF>> ELSE <<c>>
      BY <1>2 DEF NextChar
    <3>2. c \in Written /\ CR \in Written /\ LF \in Written
      BY DEF Written
    <3>3. <<c>> \in Seq(Written) /\ <<CR, LF>> \in Seq(Written)
      BY <3>2
    <3>4. QED
      BY <3>1, <3>3
  <2>3. QED
    BY <1>2, <2>1, <2>2 DEF NextChar, DriverTypes, AckClock, MasterClock, StayIdle
<1>3. CASE IssueAccess
  <2>1. Head(todo) \in Written
    BY <1>3 DEF IssueAccess, DriverTypes
  <2>2. wb' \in Requests
    BY <1>3, <2>1, WriteAssumption DEF IssueAccess, Written
  <2>3. /\ pc' = pc /\ pc \in {"poll", "write"} /\ todo' = todo /\ gap' = 0 /\ ~o_wb_ack'
        /\ wb' = IF pc = "poll" THEN Read("STAT_REG") ELSE Write("TX_DATA", Head(todo))
    BY <1>3 DEF IssueAccess, DriverTypes, AckClock
  <2>4. 0 \in 0 .. MinGap
    BY WriteAssumption
  <2>5. DriverTypes'
    BY <1>1, <2>3, <2>4 DEF DriverTypes
  <2>6. QED
    BY <1>3, <2>2, <2>5 DEF IssueAccess, MasterClock, StartRequest
<1>4. CASE AccessDone
  <2>1. wb.valid /\ o_wb_ack /\ wb' = Idle /\ gap' = gap /\ gap = 0 /\ pc \in {"poll", "write"}
    BY <1>4 DEF AccessDone, DropRequest, DriverTypes
  <2>2. CASE pc = "poll"
    BY <1>1, <1>4, <2>1, <2>2 DEF AccessDone, DriverTypes, MasterClock
  <2>3. CASE pc = "write"
    <3>1. todo \in Seq(Written) /\ todo # <<>>
      BY <2>1, <2>3 DEF DriverTypes
    <3>2. Tail(todo) \in Seq(Written) /\ (Len(todo) # 1 => Tail(todo) # <<>>)
      <4>1. Tail(todo) \in Seq(Written) /\ Len(Tail(todo)) = Len(todo) - 1
        BY <3>1, HeadTailProperties
      <4>2. Len(todo) \in Nat /\ Len(<<>>) = 0
        BY <3>1
      <4>3. Len(todo) # 1 => Len(Tail(todo)) # 0
        BY <4>1, <4>2
      <4>4. QED
        BY <4>1, <4>2, <4>3
    <3>3. todo' = Tail(todo) /\ pc' = IF Len(todo) = 1 THEN "next" ELSE "poll"
      BY <1>4, <2>3 DEF AccessDone
    <3>4. DriverTypes'
      BY <1>1, <2>1, <3>2, <3>3 DEF DriverTypes
    <3>5. QED
      BY <1>4, <3>4 DEF AccessDone, MasterClock
  <2>4. QED
    BY <2>1, <2>2, <2>3
<1>5. CASE AccessWait
  BY <1>5 DEF AccessWait, HoldRequest, drvVars, DriverTypes, AckClock, MasterClock
<1>6. CASE IdleCycle
  BY <1>6, WriteAssumption DEF IdleCycle, DriverTypes, AckClock, MasterClock, StayIdle
<1>7. QED
  BY <1>2, <1>3, <1>4, <1>5, <1>6 DEF Driver

-----------------------------------------------------------------------------
(* One lemma per phase: the next cycle finds the byte in it, or in the next. *)

\* A driver that does not mean to write has no write on the bus.
LEMMA BusForm ==
  ASSUME DriverTypes
  PROVE  /\ wb.valid /\ wb.we => pc = "write" /\ Writes(wb, "TX_DATA")
         /\ wb.valid /\ pc = "poll" => Reads(wb, "STAT_REG")
         /\ pc # "write" => ~Writes(wb, "TX_DATA")
  BY DEF DriverTypes, Reads, Writes, Read, Write

\* A request is held until it is answered, and the next one is MinGap away.
LEMMA DriverFacts ==
  ASSUME DriverTypes, Driver
  PROVE  /\ ~wb.valid => /\ wb'.valid => gap = MinGap
                         /\ gap < MinGap => gap' \in 0 .. gap + 1
         /\ wb.valid /\ ~o_wb_ack => wb' = wb /\ ~DropRequest
         /\ wb.valid /\ o_wb_ack => ~wb'.valid /\ gap' = gap /\ DropRequest
         /\ ToldToWait => pc' # "write"
         /\ pc = "write" /\ wb.valid /\ o_wb_ack => pc' # "write"
  BY DEF DriverTypes, Driver, NextChar, IssueAccess, AccessDone, AccessWait, IdleCycle,
         DropRequest, HoldRequest, drvVars, Idle, ToldToWait

\* A poll answered while tx_full is set is told to wait.
LEMMA StillToldToWait ==
  ASSUME DriverTypes, Driver, ReadClock(wb), AckClock(wb), ToldToWait,
         stat_reg.tx_full \/ ~wb.valid
  PROVE  ToldToWait'
<1>1. pc' # "write"
  BY DriverFacts
<1>2. ASSUME wb'.valid, o_wb_ack'
      PROVE  o_wb_dat'.stat.tx_full
  <2>1. wb.valid
    BY <1>2 DEF AckClock
  <2>2. Reads(wb, "STAT_REG") /\ ~Reads(wb, "RX_DATA")
    BY <2>1, BusForm DEF ToldToWait, DriverTypes, Reads
  <2>3. o_wb_dat' = [ZeroWord EXCEPT !.stat = stat_reg]
    BY <2>2 DEF ReadClock, Reads
  <2>4. QED
    BY <2>1, <2>3 DEF ZeroWord
<1>3. QED
  BY <1>1, <1>2 DEF ToldToWait

\* The edge detector sees the start request of this cycle, a Boolean.
LEMMA DetectorStep ==
  ASSUME IInv, UartClock(1)
  PROVE  /\ detect_posedge_start' = <<detect_posedge_start[2], o_tx_start>>
         /\ o_tx_start \in BOOLEAN
  BY DEF UartClock, TxClock, IInv, TypeOK, CtrlTypeOK

\* Nothing under way: a write may come and be taken.
LEMMA QuietStep ==
  ASSUME IInv, DriverTypes, Driver, UartClock(1), History, Quiet
  PROVE  Quiet' \/ Taken'
<1>1. /\ tx_state' = "WAIT" /\ ~tx_busy' /\ ~clear_req' /\ ~o_tx_start'
  BY DEF UartClock, TxClock, TxWait, TxStartBit, TxSendData, TxStopBit, TxClearReq,
         CtrlClock, TxRequestClock, Quiet
<1>0. detect_posedge_start' = <<FALSE, FALSE>>
  BY DetectorStep DEF Quiet
<1>2. ~(DropRequest /\ wb.we)
  BY DEF Quiet, DropRequest
<1>3. unsent' = <<>>
  BY <1>2 DEF History, Quiet
<1>4. o_wb_ack' = wb.valid
  BY DEF UartClock, CtrlClock, AckClock
<1>5. CASE Writes(wb, "TX_DATA")
  <2>1. tx_start_local' /\ tx_buffer' = wb.dat
    BY <1>5 DEF UartClock, CtrlClock, TxBufferClock, Quiet
  <2>2. wb.valid /\ wb.we /\ wb' = wb
    BY <1>5, DriverFacts DEF Writes, Quiet
  <2>3. QED
    BY <1>0, <1>1, <1>3, <1>4, <2>1, <2>2 DEF Taken
<1>6. CASE ~Writes(wb, "TX_DATA")
  <2>1. ~tx_start_local'
    BY <1>6 DEF UartClock, CtrlClock, TxBufferClock, Quiet
  <2>2. ~(wb'.valid /\ wb'.we /\ o_wb_ack')
    BY <1>4, <1>6, BusForm, DriverFacts
  <2>3. QED
    BY <1>0, <1>1, <1>3, <2>1, <2>2 DEF Quiet
<1>7. QED
  BY <1>5, <1>6

\* The write is acknowledged, and the byte handed over.
LEMMA TakenStep ==
  ASSUME IInv, DriverTypes, Driver, UartClock(1), History, Taken
  PROVE  Requested'
<1>1. /\ tx_state' = "WAIT" /\ ~tx_busy' /\ ~clear_req'
  BY DEF UartClock, TxClock, TxWait, TxStartBit, TxSendData, TxStopBit, TxClearReq, Taken
<1>0. detect_posedge_start' = <<FALSE, FALSE>>
  BY DetectorStep DEF Taken
<1>2. tx_start_local' /\ o_tx_start' /\ o_tx' = tx_buffer /\ tx_buffer' = tx_buffer
  BY DEF UartClock, CtrlClock, TxBufferClock, TxRequestClock, Taken
<1>3. ~wb'.valid /\ gap' = 0 /\ DropRequest /\ pc' # "write"
  BY BusForm, DriverFacts DEF Taken, DriverTypes
<1>4. unsent' = <<tx_buffer>>
  BY <1>3 DEF History, Taken, UnsentBound
<1>5. QED
  BY <1>0, <1>1, <1>2, <1>3, <1>4 DEF Requested, Handed, Sent

\* While the request travels to the transmitter, the driver keeps off the bus.
LEMMA HandedStep ==
  ASSUME MinGap >= 3, IInv, DriverTypes, Driver, UartClock(1), History, Handed, Sent, gap <= 2,
         tx_state # "CLEAR_REQ"
  PROVE  /\ tx_start_local' /\ Sent' /\ ~wb'.valid /\ gap' \in 0 .. gap + 1 /\ pc' # "write"
         /\ detect_posedge_start' = <<detect_posedge_start[2], TRUE>>
<1>1. ~wb'.valid /\ gap' \in 0 .. gap + 1 /\ pc' # "write"
  BY DriverFacts, WriteAssumption DEF Handed, DriverTypes, ToldToWait
<1>2. /\ tx_start_local' /\ o_tx_start' /\ o_tx' = tx_buffer /\ tx_buffer' = tx_buffer
  BY DEF UartClock, CtrlClock, TxBufferClock, TxRequestClock, Handed, Sent, Writes
<1>0. detect_posedge_start' = <<detect_posedge_start[2], TRUE>>
  BY DetectorStep DEF Sent
<1>3. unsent' = unsent
  BY DEF History, Handed, DropRequest
<1>4. QED
  BY <1>0, <1>1, <1>2, <1>3 DEF Sent

\* The request reaches the transmitter ...
LEMMA RequestedStep ==
  ASSUME MinGap >= 3, IInv, DriverTypes, Driver, UartClock(1), History, Requested
  PROVE  Detected'
<1>1. tx_state' = "WAIT" /\ ~tx_busy' /\ ~clear_req'
  BY DEF UartClock, TxClock, TxWait, TxStartBit, TxSendData, TxStopBit, TxClearReq,
         Requested, Handed
<1>2. gap = 0 /\ gap <= 2 /\ Handed /\ Sent /\ tx_state # "CLEAR_REQ"
      /\ detect_posedge_start = <<FALSE, FALSE>>
  BY DEF Requested
<1>3. /\ tx_start_local' /\ Sent' /\ ~wb'.valid /\ gap' \in 0 .. gap + 1 /\ pc' # "write"
      /\ detect_posedge_start' = <<detect_posedge_start[2], TRUE>>
  BY <1>2, HandedStep
<1>4. QED
  BY <1>1, <1>2, <1>3 DEF Detected, Handed

\* ... which sees it rise ...
LEMMA DetectedStep ==
  ASSUME MinGap >= 3, IInv, DriverTypes, Driver, UartClock(1), History, Detected
  PROVE  Starting'
<1>1. tx_state' = "START_BIT" /\ tx_clk_cnt' = 0 /\ ~tx_busy' /\ ~clear_req'
  BY DEF UartClock, TxClock, TxWait, TxStartBit, TxSendData, TxStopBit, TxClearReq,
         Detected, Handed, IInv, Counters
<1>2. gap <= 1 /\ gap \in Nat /\ gap <= 2 /\ Handed /\ Sent /\ tx_state # "CLEAR_REQ"
  BY DEF Detected, DriverTypes
<1>3. /\ tx_start_local' /\ Sent' /\ ~wb'.valid /\ gap' \in 0 .. gap + 1 /\ pc' # "write"
      /\ detect_posedge_start' = <<detect_posedge_start[2], TRUE>>
  BY <1>2, HandedStep
<1>4. QED
  BY <1>1, <1>2, <1>3 DEF Starting, Handed, Detected

\* ... and is busy when the driver can ask next.
LEMMA StartingStep ==
  ASSUME MinGap >= 3, IInv, DriverTypes, Driver, UartClock(1), History, Starting
  PROVE  Sending'
<1>1. ~BitOver
  BY FrameAssumption DEF BitOver, Starting
<1>2. tx_state' = "START_BIT" /\ tx_busy' /\ ~clear_req'
  BY <1>1 DEF UartClock, TxClock, TxWait, TxStartBit, TxSendData, TxStopBit, TxClearReq,
              Starting, Handed
<1>3. gap <= 2 /\ Handed /\ Sent /\ tx_state # "CLEAR_REQ"
      /\ detect_posedge_start = <<TRUE, TRUE>>
  BY DEF Starting
<1>4. /\ tx_start_local' /\ Sent' /\ ~wb'.valid /\ pc' # "write"
      /\ detect_posedge_start' = <<detect_posedge_start[2], TRUE>>
  BY <1>3, HandedStep
<1>5. QED
  BY <1>2, <1>3, <1>4 DEF Sending, ToldToWait

\* The byte is being sent: tx_full follows tx_busy, and polls are told to wait.
LEMMA SendingStep ==
  ASSUME IInv, DriverTypes, Driver, UartClock(1), History, Sending
  PROVE  Sending' \/ Finished'
<1>1. /\ pc # "write" /\ ~Writes(wb, "TX_DATA") /\ ~(DropRequest /\ wb.we)
  BY BusForm DEF Sending, ToldToWait, DropRequest
<1>2. ToldToWait'
  BY StillToldToWait DEF UartClock, CtrlClock, Sending
<1>3. stat_reg'.tx_full
  BY DEF UartClock, CtrlClock, StatClock, Sending
<1>4. /\ tx_start_local' /\ o_tx_start' /\ o_tx' = tx_buffer /\ tx_buffer' = tx_buffer
  BY <1>1 DEF UartClock, CtrlClock, TxBufferClock, TxRequestClock, Sending, Sent
<1>5. detect_posedge_start' = <<TRUE, TRUE>>
  BY DetectorStep DEF Sending, Sent
<1>6. CASE tx_state # "CLEAR_REQ"
  <2>1. unsent' = unsent
    BY <1>1, <1>6 DEF History
  <2>2. /\ tx_state' \in {"START_BIT", "SEND_DATA", "STOP_BIT", "CLEAR_REQ"}
        /\ tx_busy' /\ ~clear_req'
    <3>1. tx_state \in {"START_BIT", "SEND_DATA", "STOP_BIT"} /\ ~clear_req
      BY <1>6 DEF Sending
    <3>2. TxStartBit \/ TxSendData(o_tx) \/ TxStopBit
      BY <3>1 DEF UartClock, TxClock, TxWait, TxClearReq
    <3>3. QED
      BY <3>1, <3>2 DEF TxStartBit, TxSendData, TxStopBit
  <2>3. QED
    BY <1>2, <1>3, <1>4, <1>5, <2>1, <2>2 DEF Sending, Sent
<1>7. CASE tx_state = "CLEAR_REQ"
  <2>1. unsent = <<o_tx>> /\ unsent # <<>> /\ Tail(unsent) = <<>>
    <3>1. unsent = <<o_tx>> /\ unsent \in Seq({o_tx}) /\ Len(unsent) = 1 /\ unsent # <<>>
      BY DEF Sending, Sent
    <3>2. Tail(unsent) \in Seq({o_tx}) /\ Len(Tail(unsent)) = 0
      BY <3>1, HeadTailProperties
    <3>3. QED
      BY <3>1, <3>2, EmptySeq
  <2>2. unsent' = <<>>
    BY <1>1, <1>7, <2>1 DEF History
  <2>3. tx_state' = "WAIT" /\ ~tx_busy' /\ clear_req'
    BY <1>7 DEF UartClock, TxClock, TxWait, TxStartBit, TxSendData, TxStopBit, TxClearReq
  <2>4. QED
    BY <1>2, <1>3, <1>5, <2>2, <2>3 DEF Finished
<1>8. QED
  BY <1>6, <1>7

\* The request is forgotten, and tx_full with it.
LEMMA FinishedStep ==
  ASSUME IInv, DriverTypes, Driver, UartClock(1), History, Finished
  PROVE  Cleared'
<1>1. pc # "write" /\ ~(DropRequest /\ wb.we)
  BY BusForm DEF Finished, ToldToWait, DropRequest
<1>2. ToldToWait'
  BY StillToldToWait DEF UartClock, CtrlClock, Finished
<1>3. ~tx_start_local' /\ ~o_tx_start'
  BY DEF UartClock, CtrlClock, TxBufferClock, TxRequestClock, Finished
<1>4. detect_posedge_start' = <<TRUE, TRUE>> \/ detect_posedge_start' = <<TRUE, FALSE>>
  BY DetectorStep DEF Finished
<1>5. tx_state' = "WAIT" /\ ~tx_busy' /\ ~clear_req'
  BY DEF UartClock, TxClock, TxWait, TxStartBit, TxSendData, TxStopBit, TxClearReq, Finished
<1>6. unsent' = <<>>
  BY <1>1 DEF History, Finished
<1>7. QED
  BY <1>2, <1>3, <1>4, <1>5, <1>6 DEF Cleared, ToldToWait

\* Two cycles later the edge detector is ready for the next request.
LEMMA ClearedStep ==
  ASSUME IInv, DriverTypes, Driver, UartClock(1), History, Cleared
  PROVE  Cleared' \/ Quiet'
<1>1. pc # "write" /\ ~Writes(wb, "TX_DATA") /\ ~(DropRequest /\ wb.we) /\ ~(wb.valid /\ wb.we)
  BY BusForm DEF Cleared, DropRequest
<1>2. ~tx_start_local' /\ ~o_tx_start'
  BY <1>1 DEF UartClock, CtrlClock, TxBufferClock, TxRequestClock, Cleared
<1>3. detect_posedge_start' = <<detect_posedge_start[2], FALSE>>
  BY DetectorStep DEF Cleared
<1>4. tx_state' = "WAIT" /\ ~tx_busy' /\ ~clear_req'
  <2>1. tx_state = "WAIT" /\ ~tx_busy
    BY DEF Cleared
  <2>2. detect_posedge_start # <<FALSE, TRUE>>
    <3>1. detect_posedge_start = <<TRUE, TRUE>> \/ detect_posedge_start = <<TRUE, FALSE>>
      BY DEF Cleared
    <3>2. <<TRUE, TRUE>> # <<FALSE, TRUE>> /\ <<TRUE, FALSE>> # <<FALSE, TRUE>>
      OBVIOUS
    <3>3. QED
      BY <3>1, <3>2
  <2>3. TxWait
    BY <2>1 DEF UartClock, TxClock, TxStartBit, TxSendData, TxStopBit, TxClearReq
  <2>4. QED
    BY <2>1, <2>2, <2>3 DEF TxWait
<1>5. unsent' = <<>>
  BY <1>1 DEF History, Cleared
<1>6. CASE detect_posedge_start = <<TRUE, TRUE>>
  <2>1. pc' # "write"
    BY <1>6, DriverFacts DEF Cleared
  <2>2. QED
    BY <1>2, <1>3, <1>4, <1>5, <1>6, <2>1 DEF Cleared
<1>7. CASE detect_posedge_start = <<TRUE, FALSE>>
  <2>1. o_wb_ack' = wb.valid
    BY DEF UartClock, CtrlClock, AckClock
  <2>2. ~(wb'.valid /\ wb'.we /\ o_wb_ack')
    BY <1>1, <2>1, DriverFacts
  <2>3. QED
    BY <1>2, <1>3, <1>4, <1>5, <1>7, <2>2 DEF Quiet
<1>8. QED
  BY <1>6, <1>7 DEF Cleared

\* The phases of a written byte follow one another.
LEMMA WriteInvStep ==
  ASSUME MinGap >= 3, IInv, WriteInv, WriteNext
  PROVE  WriteInv'
<1>1. DriverTypes /\ Driver /\ UartClock(1) /\ History
  BY DEF WriteInv, WriteNext
<1>2. DriverTypes'
  BY <1>1, DriverStep DEF UartClock, CtrlClock
<1>3. QED
  BY <1>1, <1>2, QuietStep, TakenStep, RequestedStep, DetectedStep, StartingStep,
     SendingStep, FinishedStep, ClearedStep DEF WriteInv

-----------------------------------------------------------------------------
(* What the driver gets. *)

\* The driver keeps the master's side of the bus protocol, so whatever is
\* proved of the UART holds under it.
THEOREM DriverIsMaster == WriteSpec => Spec
<1>1. WriteInit => Init /\ DriverTypes
  <2>1. <<>> \in Seq(Written) /\ 0 \in 0 .. MinGap
    BY WriteAssumption
  <2>2. QED
    BY <2>1 DEF WriteInit, Init, CtrlInit, Idle, DriverTypes
<1>2. DriverTypes /\ [WriteNext]_writeVars => DriverTypes' /\ [Next]_vars
  <2>1. ASSUME DriverTypes, WriteNext PROVE DriverTypes' /\ Next
    <3>1. MasterClock /\ DriverTypes'
      BY <2>1, DriverStep DEF WriteNext, UartClock, CtrlClock
    <3>2. QED
      BY <2>1, <3>1 DEF WriteNext, Next, Bit
  <2>2. DriverTypes /\ UNCHANGED writeVars => DriverTypes' /\ UNCHANGED vars
    BY DEF writeVars, drvVars, vars, ctrlVars, DriverTypes
  <2>3. QED
    BY <2>1, <2>2
<1>3. QED
  BY <1>1, <1>2, PTL DEF WriteSpec, Spec

\* NoWriteLost: a driver that lets three cycles pass between its accesses has
\* every byte transmitted, in order and once.  With two, it reads tx_full
\* before the transmitter has taken the byte, and loses it.
THEOREM WritesAreSent ==
  ASSUME MinGap >= 3
  PROVE  WriteSpec => []NoWriteLost
<1>1. WriteInit => WriteInv
  <2>1. <<>> \in Seq(Written) /\ 0 \in 0 .. MinGap
    BY WriteAssumption
  <2>2. QED
    BY <2>1 DEF WriteInit, Init, CtrlInit, TxInit, Idle, DriverTypes, WriteInv, Quiet
<1>2. IInv /\ WriteInv /\ [WriteNext]_writeVars => WriteInv'
  <2>1. CASE UNCHANGED writeVars
    BY <2>1 DEF writeVars, drvVars, vars, ctrlVars, txVars, WriteInv, DriverTypes, Quiet,
                Taken, Requested, Detected, Starting, Sending, Finished, Cleared,
                Handed, Sent, ToldToWait
  <2>2. QED
    BY <2>1, WriteInvStep
<1>3. WriteInv => NoWriteLost
  BY DEF WriteInv, NoWriteLost, Quiet, Taken, Requested, Detected, Starting, Sending,
         Finished, Cleared, Sent
<1>4. QED
  BY <1>1, <1>2, <1>3, DriverIsMaster, Invariance, PTL DEF WriteSpec
=============================================================================

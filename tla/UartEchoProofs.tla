--------------------------- MODULE UartEchoProofs --------------------------
(***************************************************************************)
(* Theorems about UartEcho with the testbench's peer (patient, and on a    *)
(* clean line), for every bit length, every number of data bits, every set *)
(* of messages, every phase between the two clocks and every speed of the  *)
(* processor.                                                              *)
(*                                                                         *)
(* A byte goes round in four stages: the peer rests, sends, is served by   *)
(* the routine and gets its echo.  Two receivers sample lines whose frames *)
(* began at moments they do not know.  What each has seen of a frame is a  *)
(* matter of counting: the bit the line shows, and whether the sampling    *)
(* point of that bit is over.                                              *)
(***************************************************************************)
EXTENDS UartEcho, TLAPS

-----------------------------------------------------------------------------
(* A frame as the line shows it: the start bit is number 0, the stop bit     *)
(* number DataBits + 1, and before the frame the line is high.               *)

Frame(n) == IF n = 0 THEN 0 ELSE IF n \in 1 .. DataBits THEN expected[n - 1] ELSE 1

\* The peer shows bit n.
PeerShows(n) ==
  /\ ser_tx = Frame(n) /\ tx_pattern = expected
  /\ \/ n \in 0 .. LastIndex /\ tr_state = "T_SEND_DATA" /\ tb_tx_index = n
     \/ n = DataBits /\ tr_state = "T_STOP_BIT"
     \/ n = DataBits + 1 /\ tr_state = "T_CLEAR"

\* The receiver samples data bit n next, or the stop bit.
RxAwaits(n) ==
  /\ rx_clk_cnt \in 0 .. ClkDiv - 1
  /\ \/ n \in 0 .. LastIndex /\ rx_state = "GET_DATA" /\ rx_index = n
     \/ n = DataBits /\ rx_state = "STOP_BIT" /\ rx_index = 0
  /\ \A i \in 0 .. n - 1 : rx_data[i] = expected[i]

\* The transmitter's state machine is at bit n; its line follows a cycle later.
TxIsAt(n) ==
  /\ tx_clk_cnt \in 0 .. ClkDiv - 1
  /\ tx = Frame(IF tx_clk_cnt = 0 THEN n - 1 ELSE n)
  /\ \/ n = 0 /\ tx_state = "START_BIT" /\ tx_index = 0
     \/ n \in 1 .. DataBits /\ tx_state = "SEND_DATA" /\ tx_index = n - 1
     \/ n = DataBits + 1 /\ tx_state = "STOP_BIT" /\ tx_index = 0
     \/ n = DataBits + 2 /\ tx_state = "CLEAR_REQ" /\ tx_index = 0 /\ tx_clk_cnt = 0

\* The peer's receiver has seen the bits below n.
RecvSaw(n) ==
  \/ n <= 0 /\ recv_state = "R_WAIT"
  \/ /\ n \in 1 .. DataBits /\ recv_state = "R_GET_DATA" /\ tb_rx_index = n - 1
     /\ \A i \in 0 .. n - 2 : recv_pattern[DataBits - (n - 1) + i] = expected[i]
  \/ n = DataBits + 1 /\ recv_state = "R_STOP_BIT" /\ recv_pattern = expected

-----------------------------------------------------------------------------
(* The parts at rest. *)

TbTypes ==
  /\ tb_phase \in 0 .. ClkDiv - 1 /\ awaiting \in BOOLEAN
  /\ expected \in Byte /\ rx_data = [i \in 0 .. LastIndex |-> rx_data[i]]
  /\ ~noise /\ ~spoiled /\ glitches = 0
  /\ irq \in BOOLEAN /\ tx_start_local \in BOOLEAN /\ o_tx_start \in BOOLEAN

NoErrors == /\ ~frame_err /\ ~stat_reg.frame_err /\ ~stat_reg.overrun
            /\ stat_reg.rx_full => ~rx_busy
Bus == wb.valid => Accessing /\ wb = AccessOf[pc]

PeerRests == tr_state \in {"T_WAIT", "T_CLEAR"} /\ ser_tx = 1
NoByte == ~irq /\ ~stat_reg.rx_full /\ ~o_rx_finish
RxRests == rx_state = "WAIT" /\ rx_clk_cnt = 0 /\ rx_index = 0 /\ NoByte
IrqRests == irq_regs = <<FALSE, FALSE>> /\ ~trigger_d /\ ~pending
CpuRests == pc = "main" /\ ~wb.valid

TxWaits == tx_state = "WAIT" /\ tx_clk_cnt = 0 /\ tx_index = 0 /\ tx = 1 /\ ~tx_busy
NoRequest == ~tx_start_local /\ ~o_tx_start /\ ~clear_req /\ ~stat_reg.tx_full
TxRests == TxWaits /\ NoRequest /\ detect_posedge_start = <<FALSE, FALSE>>

-----------------------------------------------------------------------------
(* Resting: the transmitter may still be at the end of the last echo, but    *)
(* rests before the peer's next start bit.                                   *)

Requested == tx_start_local /\ o_tx_start /\ detect_posedge_start = <<TRUE, TRUE>>
TxEnds ==
  \/ /\ TxIsAt(DataBits + 1) /\ Requested /\ ~clear_req /\ tr_state # "T_START_BIT"
     /\ tb_phase + 2 <= tx_clk_cnt
  \/ /\ TxIsAt(DataBits + 2) /\ Requested /\ ~clear_req /\ tr_state # "T_START_BIT"
     /\ tb_phase < ClkDiv - 1
  \/ TxWaits /\ Requested /\ clear_req /\ tr_state # "T_START_BIT"
  \/ /\ TxWaits /\ NoRequest /\ detect_posedge_start = <<TRUE, TRUE>>
     /\ tr_state = "T_START_BIT" => tb_phase = 0
  \/ /\ TxWaits /\ NoRequest /\ detect_posedge_start = <<TRUE, FALSE>>
     /\ tr_state = "T_START_BIT" => tb_phase <= 1

Resting ==
  /\ ~awaiting /\ PeerRests
  /\ RxRests /\ IrqRests /\ CpuRests /\ (TxRests \/ TxEnds) /\ RecvSaw(0)

(* Sending: the receiver follows the peer, half a bit later. *)

\* The sampling point is HalfDiv + 1 cycles after the beginning of a bit.
Follows(n) ==
  LET at == HalfDiv + 1 + rx_clk_cnt IN
  /\ RxAwaits(n)
  /\ \/ at < ClkDiv /\ tb_phase = at /\ PeerShows(n)
     \/ at >= ClkDiv /\ tb_phase = at - ClkDiv /\ PeerShows(n + 1)

Receiving ==
  \/ /\ tr_state = "T_START_BIT" /\ ser_tx = 1 /\ tx_pattern = expected /\ tb_tx_index = 0
     /\ RxRests /\ (TxRests \/ TxEnds)
  \/ PeerShows(0) /\ tb_phase = 0 /\ RxRests /\ TxRests
  \/ /\ PeerShows(0) /\ tb_phase = rx_clk_cnt + 1
     /\ rx_state = "START_BIT" /\ rx_clk_cnt \in 0 .. HalfDiv - 1 /\ rx_index = 0
     /\ NoByte /\ TxRests
  \/ (\E n \in 0 .. DataBits : Follows(n)) /\ NoByte /\ TxRests

Sending == awaiting /\ Receiving /\ IrqRests /\ CpuRests /\ RecvSaw(0)

(* Serving: the byte is announced, held until the routine reads it, and      *)
(* then in the routine's hands.                                              *)

Announced ==
  /\ rx_state = "IRQ" /\ rx_clk_cnt = 0 /\ rx_index = 0 /\ rx_data = expected
  /\ NoByte /\ IrqRests /\ CpuRests
Loading ==
  /\ rx_state = "WAIT_READ" /\ rx_clk_cnt = 0 /\ rx_index = 0 /\ rx_data = expected
  /\ irq /\ ~stat_reg.rx_full /\ ~o_rx_finish
  /\ IrqRests /\ CpuRests
Held ==
  /\ rx_state = "WAIT_READ" /\ rx_clk_cnt = 0 /\ rx_index = 0 /\ rx_buffer = expected
  /\ ~irq /\ stat_reg.rx_full /\ ~o_rx_finish
\* The interrupt is on its way: how far, say the registers it goes through.
Interrupting ==
  /\ Held /\ ~wb.valid
  /\ \/ irq_regs = <<TRUE, FALSE>> /\ ~trigger_d /\ ~pending /\ pc = "main"
     \/ irq_regs = <<FALSE, TRUE>> /\ ~trigger_d /\ ~pending /\ pc = "main"
     \/ irq_regs = <<FALSE, FALSE>> /\ trigger_d /\ pending /\ pc = "main"
     \/ irq_regs = <<FALSE, FALSE>> /\ ~trigger_d /\ pending /\ pc \in {"main", "clear"}
Fetching ==
  /\ Held /\ IrqRests /\ pc \in {"stat5", "stat4", "data"}
  /\ wb.valid /\ o_wb_ack =>
       /\ pc # "data"
       /\ ~o_wb_dat.stat.frame_err /\ ~o_wb_dat.stat.overrun
Fetched ==
  /\ rx_state = "WAIT_READ" /\ rx_clk_cnt = 0 /\ rx_index = 0
  /\ ~irq /\ ~stat_reg.rx_full /\ o_rx_finish
  /\ IrqRests /\ pc = "data" /\ wb.valid /\ o_wb_ack /\ o_wb_dat.data = expected
Answering ==
  /\ RxRests /\ IrqRests /\ pc \in {"poll", "write"} /\ num = expected
  /\ wb.valid /\ o_wb_ack => pc = "poll" /\ ~o_wb_dat.stat.tx_full

Serving ==
  /\ awaiting /\ PeerRests /\ TxRests /\ RecvSaw(0)
  /\ Announced \/ Loading \/ Interrupting \/ Fetching \/ Fetched \/ Answering

(* Echoing: the peer's receiver follows the transmitter.                     *)

\* How many bits of a frame the peer has seen, with the state machine at bit n:
\* it looks at the line when tb_phase is ClkDiv - 1.
Seen(n) == IF tb_phase + 2 <= tx_clk_cnt THEN n + 1
           ELSE IF tx_clk_cnt = 0 /\ tb_phase = ClkDiv - 1 THEN n - 1 ELSE n

HandedOver ==
  /\ TxWaits /\ tx_start_local /\ ~clear_req /\ ~stat_reg.tx_full
  /\ tx_buffer = expected /\ RecvSaw(0)
Taken ==
  /\ HandedOver /\ ~o_tx_start /\ detect_posedge_start = <<FALSE, FALSE>>
  /\ pc = "write" /\ num = expected /\ wb.valid /\ o_wb_ack
Detecting ==
  /\ HandedOver /\ o_tx_start /\ o_tx = expected /\ CpuRests
  /\ detect_posedge_start \in {<<FALSE, FALSE>>, <<FALSE, TRUE>>}
Transmitting ==
  /\ Requested /\ ~clear_req /\ tx_buffer = expected /\ o_tx = expected /\ CpuRests
  /\ \E n \in 0 .. DataBits + 2 :
       TxIsAt(n) /\ Seen(n) <= DataBits + 1 /\ RecvSaw(Seen(n))

Echoing ==
  /\ awaiting /\ PeerRests /\ RxRests /\ IrqRests
  /\ Taken \/ Detecting \/ Transmitting

EchoInv == TbTypes /\ NoErrors /\ Bus /\ (Resting \/ Sending \/ Serving \/ Echoing)

\* The peer of the testbench waits for its echo, and nothing spoils its bits.
Testbench == Patient /\ Glitches = 0

-----------------------------------------------------------------------------
(* Sizes and bits. *)

\* A frame has a data bit, and the middle of a bit is inside it.
LEMMA Sizes ==
  /\ ClkDiv \in Nat /\ ClkDiv >= 2 /\ DataBits \in Nat /\ DataBits >= 1
  /\ LastIndex = DataBits - 1
  /\ HalfDiv \in Nat /\ 1 <= HalfDiv /\ HalfDiv <= ClkDiv - 1
  BY FrameAssumption DEF HalfDiv, LastIndex

\* The bits of a frame.
LEMMA FrameBits ==
  /\ Frame(0) = 0
  /\ \A n \in Int : n < 0 \/ n > DataBits => Frame(n) = 1
  /\ \A n \in 1 .. DataBits : Frame(n) = expected[n - 1]
  BY Sizes DEF Frame

\* Bytes are equal when their bits are.
LEMMA SameByte ==
  ASSUME NEW b, b = [i \in 0 .. LastIndex |-> b[i]], NEW c \in Byte,
         \A i \in 0 .. LastIndex : b[i] = c[i]
  PROVE  b = c
<1>1. c = [i \in 0 .. LastIndex |-> c[i]]
  BY DEF Byte, LastIndex
<1>2. QED
  BY <1>1

-----------------------------------------------------------------------------
(* The two clocks. *)

\* The peer moves when its phase is over, and otherwise not at all.
LEMMA TickOrNot ==
  ASSUME TbTypes, TbClock(tx)
  PROVE  \/ /\ tb_phase = ClkDiv - 1 /\ tb_phase' = 0
            /\ Transmit /\ Receive(tx) /\ Await
         \/ /\ tb_phase < ClkDiv - 1 /\ tb_phase' = tb_phase + 1
            /\ UNCHANGED <<trVars, recvVars, awaiting>>
  BY Sizes DEF TbTypes, TbClock

\* The phase between the clocks goes round.
LEMMA Tick ==
  ASSUME TbTypes, TbClock(tx)
  PROVE  /\ tb_phase \in 0 .. ClkDiv - 1
         /\ tb_phase < ClkDiv - 1 => tb_phase' = tb_phase + 1
         /\ tb_phase = ClkDiv - 1 => tb_phase' = 0
  BY TickOrNot, Sizes DEF TbTypes

\* The line is clean, and stays so.
LEMMA CleanLine ==
  ASSUME Testbench, TbTypes, TbClock(tx)
  PROVE  Line = ser_tx /\ ~noise' /\ ~spoiled' /\ glitches' = 0
<1>1. ASSUME Transmit PROVE ~noise' /\ ~spoiled' /\ glitches' = 0
  BY <1>1 DEF Testbench, TbTypes, Transmit, TrIdle, TrStart, TrStartBit, TrSendData,
              TrStopBit, TrClear
<1>2. ASSUME UNCHANGED trVars PROVE ~noise' /\ ~spoiled' /\ glitches' = 0
  BY <1>2 DEF TbTypes, trVars
<1>3. QED
  BY <1>1, <1>2, TickOrNot DEF TbTypes, Line

\* A frame goes on by a bit each tick; the byte in it does not change.
LEMMA PeerStep ==
  ASSUME Testbench, TbTypes, TbClock(tx), NEW n \in 0 .. DataBits, PeerShows(n)
  PROVE  /\ expected' = expected
         /\ tb_phase = ClkDiv - 1 => PeerShows(n + 1)'
         /\ tb_phase < ClkDiv - 1 => PeerShows(n)'
<1>1. CASE tb_phase < ClkDiv - 1
  BY <1>1, TickOrNot DEF TbTypes, trVars, PeerShows, Frame
<1>2. CASE tb_phase = ClkDiv - 1
  <2>1. Transmit
    BY <1>2, TickOrNot DEF TbTypes
  <2>2. CASE n \in 0 .. LastIndex
    <3>1. TrSendData /\ tb_tx_index = n
      BY <2>1, <2>2, Sizes DEF PeerShows, Transmit, TrIdle, TrStart, TrStartBit, TrSendData,
                          TrStopBit, TrClear
    <3>2. /\ expected' = expected /\ tx_pattern' = tx_pattern /\ ser_tx' = expected[n]
          /\ tr_state' = IF n = LastIndex THEN "T_STOP_BIT" ELSE "T_SEND_DATA"
          /\ n # LastIndex => tb_tx_index' = n + 1
      BY <3>1 DEF PeerShows, TrSendData, NextIndex
    <3>3. Frame(n + 1)' = expected[n]
      BY <2>2, <3>2, Sizes DEF Frame
    <3>4. QED
      BY <1>2, <2>2, <3>2, <3>3, Sizes DEF PeerShows
  <2>3. CASE n = DataBits
    <3>1. TrStopBit
      BY <2>1, <2>3, Sizes DEF PeerShows, Transmit, TrIdle, TrStart, TrStartBit, TrSendData,
                          TrStopBit, TrClear
    <3>2. /\ expected' = expected /\ tx_pattern' = tx_pattern /\ ser_tx' = 1
          /\ tr_state' = "T_CLEAR"
      BY <3>1 DEF PeerShows, TrStopBit
    <3>3. Frame(n + 1)' = 1
      BY <2>3, Sizes DEF Frame
    <3>4. QED
      BY <1>2, <2>3, <3>2, <3>3, Sizes DEF PeerShows
  <2>4. QED
    BY <2>2, <2>3, Sizes
<1>3. QED
  BY <1>1, <1>2, Sizes DEF TbTypes

\* A peer that waits for its echo rests.
LEMMA PeerRestsStep ==
  ASSUME Testbench, TbTypes, TbClock(tx), PeerRests, awaiting
  PROVE  PeerRests' /\ expected' = expected
<1>1. ASSUME Transmit PROVE PeerRests' /\ expected' = expected
  BY <1>1 DEF Testbench, TbTypes, PeerRests, Transmit, TrIdle, TrStart, TrStartBit, TrSendData,
              TrStopBit, TrClear
<1>2. ASSUME UNCHANGED trVars PROVE PeerRests' /\ expected' = expected
  BY <1>2 DEF PeerRests, trVars
<1>3. QED
  BY <1>1, <1>2, TickOrNot

\* What the peer's receiver has seen grows by the bit the line shows.
LEMMA RecvStep ==
  ASSUME TbTypes, TbClock(tx), expected' = expected,
         NEW n \in -1 .. DataBits, RecvSaw(n), tb_phase = ClkDiv - 1 => tx = Frame(n)
  PROVE  /\ tb_phase = ClkDiv - 1 => RecvSaw(n + 1)'
         /\ tb_phase < ClkDiv - 1 => RecvSaw(n)'
         /\ tb_rx_data' = tb_rx_data
         /\ recv_state # "R_STOP_BIT"
<1>1. recv_state # "R_STOP_BIT"
  BY Sizes DEF RecvSaw
<1>2. CASE tb_phase < ClkDiv - 1
  BY <1>1, <1>2, TickOrNot DEF TbTypes, recvVars, RecvSaw
<1>3. CASE tb_phase = ClkDiv - 1
  <2>1. RecvWait(tx) \/ RecvGetData(tx)
    BY <1>1, <1>3, TickOrNot DEF TbTypes, Receive, RecvStopBit
  <2>2. CASE n <= 0
    <3>1. RecvWait(tx)
      BY <2>1, <2>2 DEF RecvSaw, RecvGetData
    <3>2. /\ tb_rx_data' = tb_rx_data /\ tb_rx_index' = 0
          /\ recv_state' = IF tx = 0 THEN "R_GET_DATA" ELSE "R_WAIT"
      BY <3>1 DEF RecvWait
    <3>3. tx = 0 <=> n = 0
      BY <1>3, <2>2, FrameBits
    <3>4. CASE n = 0
      BY <1>1, <1>3, <3>2, <3>3, <3>4, Sizes DEF RecvSaw
    <3>5. CASE n = -1
      BY <1>1, <1>3, <3>2, <3>3, <3>5, Sizes DEF RecvSaw
    <3>6. QED
      BY <2>2, <3>4, <3>5
  <2>3. CASE n \in 1 .. DataBits
    <3>1. RecvGetData(tx) /\ tb_rx_index = n - 1
      BY <2>1, <2>3, Sizes DEF RecvSaw, RecvWait
    <3>2. tx = expected[n - 1]
      BY <1>3, <2>3, FrameBits
    <3>3. /\ tb_rx_data' = tb_rx_data
          /\ recv_state' = IF n = DataBits THEN "R_STOP_BIT" ELSE "R_GET_DATA"
          /\ n # DataBits => tb_rx_index' = n
          /\ recv_pattern' = [i \in 0 .. LastIndex |->
                                IF i = LastIndex THEN tx ELSE recv_pattern[i + 1]]
      BY <2>3, <3>1, Sizes DEF RecvGetData, NextIndex
    <3>4. ASSUME NEW i \in 0 .. n - 1 PROVE recv_pattern'[DataBits - n + i] = expected[i]
      <4>1. DataBits - n + i \in 0 .. LastIndex
        BY <2>3, Sizes
      <4>2. CASE i = n - 1
        BY <2>3, <3>2, <3>3, <4>1, <4>2, Sizes
      <4>3. CASE i # n - 1
        <5>1. i \in 0 .. n - 2 /\ DataBits - n + i # LastIndex
          BY <2>3, <4>3, Sizes
        <5>2. recv_pattern[DataBits - (n - 1) + i] = expected[i]
          BY <2>3, <5>1, Sizes DEF RecvSaw
        <5>3. DataBits - (n - 1) + i = (DataBits - n + i) + 1
          BY <2>3, Sizes
        <5>4. QED
          BY <3>3, <4>1, <5>1, <5>2, <5>3
      <4>4. QED
        BY <4>2, <4>3
    <3>5. CASE n = DataBits
      <4>1. recv_pattern' = expected
        <5>1. expected \in [0 .. LastIndex -> Bit]
          BY DEF TbTypes, Byte, LastIndex
        <5>2. \A i \in 0 .. LastIndex : recv_pattern'[i] = expected[i]
          BY <3>4, <3>5, Sizes
        <5>3. QED
          BY <3>3, <5>1, <5>2
      <4>2. QED
        BY <1>1, <1>3, <3>3, <3>5, <4>1, Sizes DEF RecvSaw
    <3>6. CASE n # DataBits
      <4>1. \A i \in 0 .. (n + 1) - 2 : recv_pattern'[DataBits - ((n + 1) - 1) + i] = expected[i]
        BY <2>3, <3>4, Sizes
      <4>2. n + 1 \in 1 .. DataBits /\ n = (n + 1) - 1
        BY <2>3, <3>6, Sizes
      <4>3. recv_state' = "R_GET_DATA" /\ tb_rx_index' = (n + 1) - 1
        BY <3>3, <3>6, <4>2
      <4>4. RecvSaw(n + 1)'
        BY <4>1, <4>2, <4>3 DEF RecvSaw
      <4>5. QED
        BY <1>1, <1>3, <3>3, <4>4
    <3>7. QED
      BY <3>5, <3>6
  <2>4. QED
    BY <2>2, <2>3, Sizes
<1>4. QED
  BY <1>2, <1>3, Sizes DEF TbTypes

\* Between two ticks nothing of the peer changes.
LEMMA PeerStays ==
  ASSUME TbTypes, TbClock(tx), tb_phase < ClkDiv - 1, NEW n \in Int
  PROVE  /\ PeerShows(n) => PeerShows(n)'
         /\ RecvSaw(n) => RecvSaw(n)'
         /\ UNCHANGED <<expected, tb_rx_data, awaiting, tr_state, ser_tx>>
<1>1. UNCHANGED <<trVars, recvVars, awaiting>>
  BY TickOrNot DEF TbTypes
<1>2. QED
  BY <1>1 DEF trVars, recvVars, PeerShows, RecvSaw, Frame

\* The stop bit ends a byte: it is what was sent.
LEMMA RecvEnds ==
  ASSUME TbTypes, TbClock(tx), tb_phase = ClkDiv - 1, tx = 1, RecvSaw(DataBits + 1)
  PROVE  /\ RecvSaw(0)' /\ tb_rx_data' = expected
         /\ tr_state' # "T_START_BIT" => ~awaiting'
<1>1. recv_state = "R_STOP_BIT" /\ recv_pattern = expected
  BY Sizes DEF RecvSaw
<1>2. RecvStopBit(tx) /\ Await
  BY <1>1, TickOrNot, Sizes DEF TbTypes, Receive, RecvWait, RecvGetData
<1>3. recv_state' = "R_WAIT" /\ tb_rx_data' = expected
  BY <1>1, <1>2 DEF RecvStopBit
<1>4. QED
  BY <1>1, <1>2, <1>3 DEF RecvSaw, Await

-----------------------------------------------------------------------------
(* The receiver follows the peer. *)

\* A bit is sampled when the counter is at its end.
LEMMA RxStep ==
  ASSUME RxClock(Line, o_rx_finish), TbTypes, expected' = expected, ~irq, ~frame_err,
         NEW n \in 0 .. DataBits, RxAwaits(n),
         rx_clk_cnt = ClkDiv - 1 => Line = Frame(n + 1)
  PROVE  /\ ~irq' /\ ~frame_err'
         /\ rx_clk_cnt < ClkDiv - 1 => RxAwaits(n)' /\ rx_clk_cnt' = rx_clk_cnt + 1
         /\ rx_clk_cnt = ClkDiv - 1 /\ n < DataBits => RxAwaits(n + 1)' /\ rx_clk_cnt' = 0
         /\ rx_clk_cnt = ClkDiv - 1 /\ n = DataBits
              => rx_state' = "IRQ" /\ rx_clk_cnt' = 0 /\ rx_index' = 0 /\ rx_data' = expected
<1>1. rx_clk_cnt \in 0 .. ClkDiv - 1 /\ \A i \in 0 .. n - 1 : rx_data[i] = expected[i]
  BY DEF RxAwaits
<1>2. CASE n \in 0 .. LastIndex
  <2>1. RxGetData(Line) /\ rx_index = n
    BY <1>2, Sizes DEF RxAwaits, RxClock, RxWait, RxStartBit, RxGetData, RxStopBit, RxIrq,
                       RxWaitRead, RxFrameErr
  <2>2. CASE rx_clk_cnt < ClkDiv - 1
    BY <1>1, <1>2, <2>1, <2>2, Sizes DEF RxGetData, RxAwaits
  <2>3. CASE rx_clk_cnt = ClkDiv - 1
    <3>1. /\ rx_clk_cnt' = 0 /\ ~irq' /\ ~frame_err'
          /\ rx_state' = IF n = LastIndex THEN "STOP_BIT" ELSE "GET_DATA"
          /\ rx_index' = IF n = LastIndex THEN 0 ELSE n + 1
          /\ rx_data' = [rx_data EXCEPT ![n] = Line]
      BY <2>1, <2>3 DEF RxGetData, NextIndex
    <3>2. Line = expected[n]
      BY <1>2, <2>3, FrameBits, Sizes
    <3>3. DOMAIN rx_data = 0 .. LastIndex
      <4>1. DOMAIN [i \in 0 .. LastIndex |-> rx_data[i]] = 0 .. LastIndex
        OBVIOUS
      <4>2. QED
        BY <4>1 DEF TbTypes
    <3>4. \A i \in 0 .. n : rx_data'[i] = expected[i]
      <4>1. \A i \in 0 .. LastIndex : rx_data'[i] = IF i = n THEN Line ELSE rx_data[i]
        BY <3>1, <3>3
      <4>2. QED
        BY <1>1, <1>2, <3>2, <4>1, Sizes
    <3>5. \A i \in 0 .. (n + 1) - 1 : rx_data'[i] = expected'[i]
      BY <1>2, <3>4, Sizes
    <3>6. /\ n + 1 \in 0 .. LastIndex \/ n + 1 = DataBits
          /\ n + 1 = DataBits <=> n = LastIndex
          /\ n + 1 \in 0 .. LastIndex <=> n # LastIndex
          /\ 0 \in 0 .. ClkDiv - 1
      BY <1>2, Sizes
    <3>7. RxAwaits(n + 1)'
      BY <3>1, <3>5, <3>6 DEF RxAwaits
    <3>8. QED
      BY <1>2, <2>3, <3>1, <3>7, Sizes
  <2>4. QED
    BY <1>1, <2>2, <2>3, Sizes
<1>3. CASE n = DataBits
  <2>1. RxStopBit(Line) /\ rx_index = 0
    BY <1>3, Sizes DEF RxAwaits, RxClock, RxWait, RxStartBit, RxGetData, RxStopBit, RxIrq,
                       RxWaitRead, RxFrameErr
  <2>2. CASE rx_clk_cnt < ClkDiv - 1
    BY <1>1, <1>3, <2>1, <2>2, Sizes DEF RxStopBit, RxAwaits
  <2>3. CASE rx_clk_cnt = ClkDiv - 1
    <3>1. Line = 1
      BY <1>3, <2>3, FrameBits, Sizes
    <3>2. rx_data = expected
      <4>1. rx_data = [i \in 0 .. LastIndex |-> rx_data[i]] /\ expected \in Byte
        BY DEF TbTypes
      <4>2. \A i \in 0 .. LastIndex : rx_data[i] = expected[i]
        BY <1>1, <1>3, Sizes
      <4>3. QED
        BY <4>1, <4>2, SameByte
    <3>3. /\ ~irq' /\ ~frame_err' /\ rx_state' = "IRQ"
          /\ rx_clk_cnt' = 0 /\ rx_index' = 0 /\ rx_data' = expected
      BY <2>1, <2>3, <3>1, <3>2 DEF RxStopBit
    <3>4. QED
      BY <1>3, <2>3, <3>3, Sizes
  <2>4. QED
    BY <1>1, <2>2, <2>3, Sizes
<1>4. QED
  BY <1>2, <1>3, Sizes

\* Each bit is sampled in its middle: a receiver that follows goes on to do so,
\* until it has the whole byte.
LEMMA FollowStep ==
  ASSUME Testbench, TbTypes, TbClock(tx), RxClock(Line, o_rx_finish), awaiting,
         ~irq, ~frame_err, NEW n \in 0 .. DataBits, Follows(n)
  PROVE  /\ expected' = expected /\ ~irq' /\ ~frame_err'
         /\ \/ \E m \in 0 .. DataBits : Follows(m)'
            \/ /\ rx_state' = "IRQ" /\ rx_clk_cnt' = 0 /\ rx_index' = 0
               /\ rx_data' = expected /\ PeerRests'
<1> DEFINE at == HalfDiv + 1 + rx_clk_cnt
<1>1. RxAwaits(n) /\ rx_clk_cnt \in 0 .. ClkDiv - 1 /\ at \in Nat /\ at <= HalfDiv + ClkDiv
  BY Sizes DEF Follows, RxAwaits
<1>2. Line = ser_tx
  BY CleanLine
<1>3. CASE at < ClkDiv
  <2>1. tb_phase = at /\ PeerShows(n)
    BY <1>1, <1>3, Sizes DEF Follows
  <2>2. expected' = expected
    BY <2>1, PeerStep
  <2>3. rx_clk_cnt < ClkDiv - 1
    BY <1>1, <1>3, Sizes
  <2>4. ~irq' /\ ~frame_err' /\ RxAwaits(n)' /\ rx_clk_cnt' = rx_clk_cnt + 1
    BY <1>1, <2>2, <2>3, RxStep
  <2>5. CASE at + 1 < ClkDiv
    <3>1. tb_phase' = tb_phase + 1 /\ PeerShows(n)'
      BY <1>1, <2>1, <2>5, PeerStep, Tick, Sizes
    <3>2. Follows(n)'
      BY <1>1, <2>1, <2>4, <2>5, <3>1, Sizes DEF Follows
    <3>3. QED
      BY <2>2, <2>4, <3>2
  <2>6. CASE at + 1 = ClkDiv
    <3>1. tb_phase' = 0 /\ PeerShows(n + 1)'
      BY <1>1, <2>1, <2>6, PeerStep, Tick, Sizes
    <3>2. Follows(n)'
      BY <1>1, <2>4, <2>6, <3>1, Sizes DEF Follows
    <3>3. QED
      BY <2>2, <2>4, <3>2
  <2>7. QED
    BY <1>1, <1>3, <2>5, <2>6, Sizes
<1>4. CASE at >= ClkDiv
  <2>1. tb_phase = at - ClkDiv /\ PeerShows(n + 1)
    BY <1>1, <1>4, Sizes DEF Follows
  <2>2. ser_tx = Frame(n + 1)
    BY <2>1 DEF PeerShows
  <2>3. CASE rx_clk_cnt < ClkDiv - 1
    <3>1. tb_phase < ClkDiv - 1
      BY <1>1, <2>1, <2>3, Sizes
    <3>2. tb_phase' = tb_phase + 1 /\ PeerShows(n + 1)' /\ expected' = expected
      <4>1. n + 1 \in Int
        BY Sizes
      <4>2. QED
        BY <2>1, <3>1, <4>1, PeerStays, Tick
    <3>3. ~irq' /\ ~frame_err' /\ RxAwaits(n)' /\ rx_clk_cnt' = rx_clk_cnt + 1
      BY <1>1, <2>3, <3>2, RxStep
    <3>4. Follows(n)'
      BY <1>1, <1>4, <2>1, <3>2, <3>3, Sizes DEF Follows
    <3>5. QED
      BY <3>2, <3>3, <3>4
  <2>4. CASE rx_clk_cnt = ClkDiv - 1 /\ n < DataBits
    <3>1. n + 1 \in 0 .. DataBits /\ tb_phase = HalfDiv
      BY <2>1, <2>4, Sizes
    <3>2. /\ expected' = expected
          /\ tb_phase < ClkDiv - 1 => PeerShows(n + 1)'
          /\ tb_phase = ClkDiv - 1 => PeerShows((n + 1) + 1)'
      BY <2>1, <3>1, PeerStep
    <3>3. ~irq' /\ ~frame_err' /\ RxAwaits(n + 1)' /\ rx_clk_cnt' = 0
      BY <1>1, <1>2, <2>2, <2>4, <3>2, RxStep
    <3>4. Follows(n + 1)'
      <4>1. CASE HalfDiv < ClkDiv - 1
        <5>1. tb_phase' = HalfDiv + 1 + rx_clk_cnt' /\ PeerShows(n + 1)'
          BY <3>1, <3>2, <3>3, <4>1, Tick, Sizes
        <5>2. QED
          BY <3>3, <4>1, <5>1, Sizes DEF Follows
      <4>2. CASE HalfDiv = ClkDiv - 1
        <5>1. tb_phase' = HalfDiv + 1 + rx_clk_cnt' - ClkDiv /\ PeerShows((n + 1) + 1)'
          BY <3>1, <3>2, <3>3, <4>2, Tick, Sizes
        <5>2. QED
          BY <3>3, <4>2, <5>1, Sizes DEF Follows
      <4>3. QED
        BY <4>1, <4>2, Sizes
    <3>5. QED
      BY <3>1, <3>2, <3>3, <3>4
  <2>5. CASE rx_clk_cnt = ClkDiv - 1 /\ n = DataBits
    <3>1. PeerRests
      BY <2>1, <2>2, <2>5, FrameBits, Sizes DEF PeerShows, PeerRests
    <3>2. PeerRests' /\ expected' = expected
      BY <3>1, PeerRestsStep
    <3>3. QED
      BY <1>1, <1>2, <2>2, <2>5, <3>2, RxStep
  <2>6. QED
    BY <1>1, <2>3, <2>4, <2>5, Sizes
<1>5. QED
  BY <1>1, <1>3, <1>4, Sizes

-----------------------------------------------------------------------------
(* The transmitter, and what the peer has seen of its frame. *)

\* The state machine goes on by a bit when the counter is at its end.
LEMMA TxStep ==
  ASSUME TxClock(o_tx_start, o_tx), NEW n \in 0 .. DataBits + 1, TxIsAt(n),
         n <= DataBits => o_tx = expected /\ expected' = expected
  PROVE  /\ tx_busy' /\ clear_req' = clear_req
         /\ tx_clk_cnt < ClkDiv - 1 => TxIsAt(n)' /\ tx_clk_cnt' = tx_clk_cnt + 1
         /\ tx_clk_cnt = ClkDiv - 1 => TxIsAt(n + 1)' /\ tx_clk_cnt' = 0
<1>1. /\ tx_clk_cnt \in 0 .. ClkDiv - 1
      /\ BitOver <=> tx_clk_cnt = ClkDiv - 1
      /\ 0 \in 0 .. ClkDiv - 1
  BY Sizes DEF TxIsAt, BitOver
<1>2. CASE n = 0
  <2>1. TxStartBit
    <3>1. tx_state = "START_BIT"
      BY <1>2, Sizes DEF TxIsAt
    <3>2. QED
      BY <3>1 DEF TxClock, TxWait, TxSendData, TxStopBit, TxClearReq
  <2>2. /\ tx' = 0 /\ tx_busy' /\ clear_req' = clear_req /\ tx_index' = 0
        /\ tx_state' = IF tx_clk_cnt = ClkDiv - 1 THEN "SEND_DATA" ELSE "START_BIT"
        /\ tx_clk_cnt' = IF tx_clk_cnt = ClkDiv - 1 THEN 0 ELSE tx_clk_cnt + 1
    BY <1>1, <1>2, <2>1, Sizes DEF TxIsAt, TxStartBit, TxCount
  <2>3. Frame(0)' = 0
    BY DEF Frame
  <2>4. CASE tx_clk_cnt < ClkDiv - 1
    <3>1. tx_clk_cnt' = tx_clk_cnt + 1 /\ tx_clk_cnt' \in 0 .. ClkDiv - 1 /\ tx_clk_cnt' # 0
      BY <1>1, <2>2, <2>4, Sizes
    <3>2. TxIsAt(n)'
      BY <1>2, <2>2, <2>3, <2>4, <3>1 DEF TxIsAt
    <3>3. QED
      BY <2>2, <2>4, <3>1, <3>2, Sizes
  <2>5. CASE tx_clk_cnt = ClkDiv - 1
    <3>1. n + 1 \in 1 .. DataBits /\ (n + 1) - 1 = 0
      BY <1>2, Sizes
    <3>2. TxIsAt(n + 1)'
      BY <1>1, <2>2, <2>3, <2>5, <3>1 DEF TxIsAt
    <3>3. QED
      BY <2>2, <2>5, <3>2, Sizes
  <2>6. QED
    BY <1>1, <2>4, <2>5, Sizes
<1>3. CASE n \in 1 .. DataBits
  <2>1. TxSendData(o_tx) /\ tx_index = n - 1
    <3>1. tx_state = "SEND_DATA" /\ tx_index = n - 1
      BY <1>3, Sizes DEF TxIsAt
    <3>2. QED
      BY <3>1 DEF TxClock, TxWait, TxStartBit, TxStopBit, TxClearReq
  <2>2. /\ tx' = expected[n - 1] /\ tx_busy' /\ clear_req' = clear_req
        /\ tx_clk_cnt' = IF tx_clk_cnt = ClkDiv - 1 THEN 0 ELSE tx_clk_cnt + 1
        /\ tx_clk_cnt < ClkDiv - 1 => tx_state' = "SEND_DATA" /\ tx_index' = n - 1
        /\ tx_clk_cnt = ClkDiv - 1
             => IF n = DataBits THEN tx_state' = "STOP_BIT" /\ tx_index' = 0
                                ELSE tx_state' = "SEND_DATA" /\ tx_index' = n
    BY <1>1, <1>3, <2>1, Sizes DEF TxSendData, TxCount, NextIndex
  <2>3. Frame(n)' = expected[n - 1]
    BY <1>3, Sizes DEF Frame
  <2>4. CASE tx_clk_cnt < ClkDiv - 1
    <3>1. tx_clk_cnt' = tx_clk_cnt + 1 /\ tx_clk_cnt' \in 0 .. ClkDiv - 1 /\ tx_clk_cnt' # 0
      BY <1>1, <2>2, <2>4, Sizes
    <3>2. TxIsAt(n)'
      BY <1>3, <2>2, <2>3, <2>4, <3>1 DEF TxIsAt
    <3>3. QED
      BY <2>2, <2>4, <3>1, <3>2, Sizes
  <2>5. CASE tx_clk_cnt = ClkDiv - 1 /\ n = DataBits
    <3>1. n + 1 = DataBits + 1 /\ n = (n + 1) - 1
      BY <2>5, Sizes
    <3>2. TxIsAt(n + 1)'
      BY <1>1, <2>2, <2>3, <2>5, <3>1 DEF TxIsAt
    <3>3. QED
      BY <2>2, <2>5, <3>2, Sizes
  <2>6. CASE tx_clk_cnt = ClkDiv - 1 /\ n # DataBits
    <3>1. n + 1 \in 1 .. DataBits /\ n = (n + 1) - 1 /\ tx_index' = (n + 1) - 1
      BY <1>3, <2>2, <2>6, Sizes
    <3>2. TxIsAt(n + 1)'
      BY <1>1, <2>2, <2>3, <2>6, <3>1 DEF TxIsAt
    <3>3. QED
      BY <2>2, <2>6, <3>2, Sizes
  <2>7. QED
    BY <1>1, <2>4, <2>5, <2>6, Sizes
<1>4. CASE n = DataBits + 1
  <2>1. TxStopBit
    <3>1. tx_state = "STOP_BIT"
      BY <1>4, Sizes DEF TxIsAt
    <3>2. QED
      BY <3>1 DEF TxClock, TxWait, TxStartBit, TxSendData, TxClearReq
  <2>2. /\ tx' = 1 /\ tx_busy' /\ clear_req' = clear_req /\ tx_index' = 0
        /\ tx_state' = IF tx_clk_cnt = ClkDiv - 1 THEN "CLEAR_REQ" ELSE "STOP_BIT"
        /\ tx_clk_cnt' = IF tx_clk_cnt = ClkDiv - 1 THEN 0 ELSE tx_clk_cnt + 1
    BY <1>1, <1>4, <2>1, Sizes DEF TxIsAt, TxStopBit, TxCount
  <2>3. Frame(DataBits + 1)' = 1
    BY Sizes DEF Frame
  <2>4. CASE tx_clk_cnt < ClkDiv - 1
    <3>1. tx_clk_cnt' = tx_clk_cnt + 1 /\ tx_clk_cnt' \in 0 .. ClkDiv - 1 /\ tx_clk_cnt' # 0
      BY <1>1, <2>2, <2>4, Sizes
    <3>2. TxIsAt(n)'
      BY <1>4, <2>2, <2>3, <2>4, <3>1 DEF TxIsAt
    <3>3. QED
      BY <2>2, <2>4, <3>1, <3>2, Sizes
  <2>5. CASE tx_clk_cnt = ClkDiv - 1
    <3>1. n + 1 = DataBits + 2 /\ (n + 1) - 1 = DataBits + 1
      BY <1>4, Sizes
    <3>2. TxIsAt(n + 1)'
      BY <1>1, <2>2, <2>3, <2>5, <3>1 DEF TxIsAt
    <3>3. QED
      BY <2>2, <2>5, <3>2, Sizes
  <2>6. QED
    BY <1>1, <2>4, <2>5, Sizes
<1>5. QED
  BY <1>2, <1>3, <1>4, Sizes

\* The count of bits seen goes up at each tick of the peer, and only then.
LEMMA SeenStep ==
  ASSUME tb_phase \in 0 .. ClkDiv - 1, tx_clk_cnt \in 0 .. ClkDiv - 1,
         tb_phase < ClkDiv - 1 => tb_phase' = tb_phase + 1,
         tb_phase = ClkDiv - 1 => tb_phase' = 0,
         NEW n \in Int, NEW m \in Int,
         \/ tx_clk_cnt < ClkDiv - 1 /\ tx_clk_cnt' = tx_clk_cnt + 1 /\ m = n
         \/ tx_clk_cnt = ClkDiv - 1 /\ tx_clk_cnt' = 0 /\ m = n + 1
  PROVE  /\ tb_phase = ClkDiv - 1 => Seen(m)' = Seen(n) + 1
         /\ tb_phase < ClkDiv - 1 => Seen(m)' = Seen(n)
<1>1. CASE tb_phase = ClkDiv - 1
  BY <1>1, Sizes DEF Seen
<1>2. CASE tb_phase < ClkDiv - 1
  BY <1>2, Sizes DEF Seen
<1>3. QED
  BY <1>1, <1>2

-----------------------------------------------------------------------------
(* The parts at rest, and what the controller does at an edge. *)

\* What is on the bus, by the place of the routine.
LEMMA BusMeans ==
  ASSUME Bus
  PROVE  /\ Writes(wb, "TX_DATA") <=> wb.valid /\ pc = "write"
         /\ Reads(wb, "RX_DATA") <=> wb.valid /\ pc = "data"
         /\ Reads(wb, "STAT_REG") <=> wb.valid /\ pc \in {"stat5", "stat4", "poll"}
         /\ wb.valid => pc \in {"stat5", "stat4", "data", "poll", "write"}
         /\ wb.valid /\ pc = "write" => wb.dat = num
<1>1. CASE ~wb.valid
  BY <1>1 DEF Writes, Reads
<1>2. CASE wb.valid
  <2>1. wb = AccessOf[pc] /\ pc \in {"stat5", "stat4", "data", "poll", "write"}
    BY <1>2 DEF Bus, Accessing
  <2>2. CASE pc \in {"stat5", "stat4", "poll"}
    <3>1. wb = Read("STAT_REG")
      BY <2>1, <2>2 DEF AccessOf
    <3>2. QED
      BY <1>2, <2>2, <3>1 DEF Read, Writes, Reads
  <2>3. CASE pc = "data"
    <3>1. wb = Read("RX_DATA")
      BY <2>1, <2>3 DEF AccessOf
    <3>2. QED
      BY <1>2, <2>3, <3>1 DEF Read, Writes, Reads
  <2>4. CASE pc = "write"
    <3>1. wb = Write("TX_DATA", num)
      BY <2>1, <2>4 DEF AccessOf
    <3>2. QED
      BY <1>2, <2>4, <3>1 DEF Write, Writes, Reads
  <2>5. QED
    BY <2>1, <2>2, <2>3, <2>4
<1>3. QED
  BY <1>1, <1>2

\* The errors stay away.
LEMMA ErrorsStep ==
  ASSUME NoErrors, CtrlClock(wb)
  PROVE  ~stat_reg'.frame_err /\ ~stat_reg'.overrun
  BY DEF NoErrors, CtrlClock, StatClock, RecordsFrameErr, RecordsOverrun

\* Without an announcement no byte comes to be there, nor is one released.
LEMMA NoByteStep ==
  ASSUME NoErrors, CtrlClock(wb), NoByte
  PROVE  ~stat_reg'.rx_full /\ ~o_rx_finish'
  BY DEF NoErrors, NoByte, CtrlClock, StatClock, RxFinishClock, FillsRx, LoadsRx, Finishes

\* A receiver at rest stays so while the line is high.
LEMMA RxRestsStep ==
  ASSUME NoErrors, CtrlClock(wb), RxClock(Line, o_rx_finish), RxRests, Line = 1
  PROVE  RxRests' /\ NoErrors'
<1>1. RxWait(Line)
  BY DEF RxRests, RxClock, RxStartBit, RxGetData, RxStopBit, RxIrq, RxWaitRead, RxFrameErr
<1>2. /\ rx_state' = "WAIT" /\ ~irq' /\ ~frame_err'
      /\ rx_clk_cnt' = rx_clk_cnt /\ rx_index' = rx_index
  BY <1>1 DEF RxWait
<1>3. ~stat_reg'.rx_full /\ ~o_rx_finish'
  BY NoByteStep DEF RxRests
<1>4. QED
  BY <1>2, <1>3, ErrorsStep DEF RxRests, NoByte, NoErrors

\* The interrupt stays away without an announcement.
LEMMA IrqRestsStep ==
  ASSUME TbTypes, IrqRests, ~irq, NEW clear \in BOOLEAN, UserIrqClock(irq, clear)
  PROVE  IrqRests'
<1>1. irq = FALSE /\ Trigger = FALSE
  BY DEF TbTypes, IrqRests, Trigger
<1>2. irq_regs' = <<FALSE, FALSE>> /\ ~trigger_d' /\ ~pending'
  BY <1>1 DEF UserIrqClock, IrqRests
<1>3. QED
  BY <1>2 DEF IrqRests

\* What the processor may do at an edge.
LEMMA CpuStep ==
  ASSUME CpuClock, Bus
  PROVE  /\ Bus'
         /\ \/ UNCHANGED <<pc, num, wb>> /\ (wb.valid => ~o_wb_ack)
            \/ TakeTrap \/ ClearPending
            \/ Accessing /\ ~wb.valid /\ wb'.valid /\ pc' = pc /\ num' = num
            \/ Complete /\ wb.valid /\ o_wb_ack /\ ~wb'.valid
<1>1. CASE UNCHANGED <<pc, num, wb>> /\ (wb.valid => ~o_wb_ack)
  BY <1>1 DEF Bus, Accessing, AccessOf
<1>2. CASE TakeTrap
  BY <1>2 DEF TakeTrap, Bus, Accessing
<1>3. CASE ClearPending
  BY <1>3 DEF ClearPending, Bus, Accessing
<1>4. CASE Access
  <2>1. Accessing /\ ~wb.valid /\ pc' = pc /\ num' = num /\ wb' = AccessOf[pc]
    BY <1>4 DEF Access, cpuVars
  <2>2. AccessOf[pc].valid
    BY <2>1 DEF Accessing, AccessOf, Read, Write
  <2>3. Bus'
    BY <2>1 DEF Bus, Accessing, AccessOf
  <2>4. QED
    BY <2>1, <2>2, <2>3
<1>5. CASE Complete
  BY <1>5 DEF Complete, DropRequest, Idle, Bus
<1>6. QED
  BY <1>1, <1>2, <1>3, <1>4, <1>5
     DEF CpuClock, Advance, BusWait, HoldRequest, Elsewhere, cpuVars

\* The background program goes on until there is an interrupt.
LEMMA CpuRestsStep ==
  ASSUME CpuClock, Bus, CpuRests, ~pending
  PROVE  CpuRests'
  BY CpuStep DEF CpuRests, TakeTrap, ClearPending, Complete, Accessing

\* What the controller does for the transmitter while nothing is written.
LEMMA NoWriteStep ==
  ASSUME CtrlClock(wb), ~Writes(wb, "TX_DATA")
  PROVE  /\ stat_reg'.tx_full = tx_busy
         /\ clear_req => ~tx_start_local' /\ ~o_tx_start'
         /\ ~clear_req => /\ tx_start_local' = tx_start_local /\ tx_buffer' = tx_buffer
                          /\ o_tx_start' = tx_start_local /\ o_tx' = tx_buffer
  BY DEF CtrlClock, StatClock, TxBufferClock, TxRequestClock

\* A waiting transmitter waits on, unless a request has just come up.
LEMMA TxWaitsStep ==
  ASSUME TxClock(o_tx_start, o_tx), TxWaits, detect_posedge_start # <<FALSE, TRUE>>
  PROVE  TxWaits' /\ ~clear_req'
<1>1. TxWait
  BY DEF TxWaits, TxClock, TxStartBit, TxSendData, TxStopBit, TxClearReq
<1>2. QED
  BY <1>1 DEF TxWaits, TxWait

\* Without a write nothing is sent.
LEMMA TxRestsStep ==
  ASSUME TbTypes, TxClock(o_tx_start, o_tx), CtrlClock(wb), ~Writes(wb, "TX_DATA"), TxRests
  PROVE  TxRests'
<1>1. TxWaits' /\ ~clear_req'
  BY TxWaitsStep DEF TxRests
<1>2. ~stat_reg'.tx_full /\ ~tx_start_local' /\ ~o_tx_start'
  BY NoWriteStep DEF TxRests, TxWaits, NoRequest
<1>3. detect_posedge_start' = <<FALSE, FALSE>>
  <2>1. o_tx_start = FALSE /\ detect_posedge_start[2] = FALSE
    BY DEF TbTypes, TxRests, NoRequest
  <2>2. QED
    BY <2>1 DEF TxClock
<1>4. QED
  BY <1>1, <1>2, <1>3 DEF TxRests, NoRequest

\* The line is high when no frame is on it.
LEMMA QuietLine ==
  ASSUME TbTypes, TxRests \/ TxEnds
  PROVE  tx = 1
<1>1. TxIsAt(DataBits + 1) /\ tb_phase + 2 <= tx_clk_cnt => tx = 1
  BY FrameBits, Sizes DEF TxIsAt, TbTypes
<1>2. TxIsAt(DataBits + 2) => tx = 1
  BY FrameBits, Sizes DEF TxIsAt
<1>3. QED
  BY <1>1, <1>2 DEF TxRests, TxEnds, TxWaits

\* The end of an echo takes its course, and is over by the next start bit.
LEMMA TxEndsStep ==
  ASSUME TbTypes, TbClock(tx), TxClock(o_tx_start, o_tx), CtrlClock(wb),
         ~Writes(wb, "TX_DATA"), TxRests \/ TxEnds,
         tr_state' = tr_state \/ (tb_phase = ClkDiv - 1 /\ tr_state # "T_START_BIT")
           \/ (tb_phase = ClkDiv - 1 /\ tr_state = "T_START_BIT" /\ tr_state' = "T_SEND_DATA")
  PROVE  /\ TxRests' \/ TxEnds'
         /\ tr_state = "T_START_BIT" /\ tb_phase = ClkDiv - 1 => TxRests'
<1> DEFINE Sent(n) == /\ TxIsAt(n) /\ Requested /\ ~clear_req /\ tr_state # "T_START_BIT"
           Cleared == TxWaits /\ Requested /\ clear_req /\ tr_state # "T_START_BIT"
           Ended(d) == TxWaits /\ NoRequest /\ detect_posedge_start = <<TRUE, d>>
<1>1. detect_posedge_start' = <<detect_posedge_start[2], o_tx_start>>
  BY DEF TxClock
<1>2. Requested => o_tx_start = TRUE /\ tx_start_local = TRUE /\ detect_posedge_start[2] = TRUE
  BY DEF TbTypes, Requested
<1>3. NoRequest => o_tx_start = FALSE /\ tx_start_local = FALSE
  BY DEF TbTypes, NoRequest
<1>4. Requested /\ ~clear_req => Requested'
  BY <1>1, <1>2, NoWriteStep DEF Requested
<1>5. CASE TxRests
  BY <1>5, TxRestsStep
<1>6. CASE Sent(DataBits + 1) /\ tb_phase + 2 <= tx_clk_cnt
  <2>1. /\ tx_clk_cnt \in 0 .. ClkDiv - 1 /\ tb_phase < ClkDiv - 1 /\ tb_phase' = tb_phase + 1
        /\ tb_phase \in 0 .. ClkDiv - 1
    BY <1>6, Tick, Sizes DEF TxIsAt
  <2>2. tr_state' # "T_START_BIT"
    BY <1>6, <2>1
  <2>3. /\ ~clear_req'
        /\ tx_clk_cnt < ClkDiv - 1 => TxIsAt(DataBits + 1)' /\ tx_clk_cnt' = tx_clk_cnt + 1
        /\ tx_clk_cnt = ClkDiv - 1 => TxIsAt(DataBits + 2)'
    <3>1. DataBits + 1 \in 0 .. DataBits + 1 /\ (DataBits + 1) + 1 = DataBits + 2
          /\ ~(DataBits + 1 <= DataBits)
      BY Sizes
    <3>2. QED
      BY <1>6, <3>1, TxStep
  <2>4. CASE tx_clk_cnt < ClkDiv - 1
    <3>1. tb_phase' + 2 <= tx_clk_cnt'
      BY <1>6, <2>1, <2>3, <2>4, Sizes
    <3>2. QED
      BY <1>4, <1>6, <2>1, <2>2, <2>3, <2>4, <3>1, Sizes DEF TxEnds
  <2>5. CASE tx_clk_cnt = ClkDiv - 1
    <3>1. tb_phase' < ClkDiv - 1
      BY <1>6, <2>1, <2>5, Sizes
    <3>2. QED
      BY <1>4, <1>6, <2>1, <2>2, <2>3, <2>5, <3>1, Sizes DEF TxEnds
  <2>6. QED
    BY <2>1, <2>4, <2>5, Sizes
<1>7. CASE Sent(DataBits + 2) /\ tb_phase < ClkDiv - 1
  <2>1. tx_state = "CLEAR_REQ" /\ tx_clk_cnt = 0 /\ tx_index = 0 /\ tx = 1
    BY <1>7, FrameBits, Sizes DEF TxIsAt
  <2>2. TxClearReq
    BY <2>1 DEF TxClock, TxWait, TxStartBit, TxSendData, TxStopBit
  <2>3. TxWaits' /\ clear_req'
    BY <2>1, <2>2 DEF TxClearReq, TxWaits
  <2>4. tr_state' # "T_START_BIT"
    BY <1>7, Sizes DEF TbTypes
  <2>5. QED
    BY <1>4, <1>7, <2>3, <2>4 DEF TxEnds
<1>8. CASE Cleared
  <2>1. TxWaits' /\ ~clear_req'
    BY <1>8, TxWaitsStep DEF Requested
  <2>2. NoRequest'
    BY <1>8, <2>1, NoWriteStep DEF NoRequest, TxWaits
  <2>3. detect_posedge_start' = <<TRUE, TRUE>>
    BY <1>1, <1>2, <1>8
  <2>4. tr_state' = "T_START_BIT" => tb_phase' = 0
    BY <1>8, Tick
  <2>5. QED
    BY <1>8, <2>1, <2>2, <2>3, <2>4 DEF TxEnds
<1>9. CASE Ended(TRUE) /\ (tr_state = "T_START_BIT" => tb_phase = 0)
  <2>1. TxWaits' /\ ~clear_req'
    BY <1>9, TxWaitsStep
  <2>2. NoRequest'
    BY <1>9, <2>1, NoWriteStep DEF NoRequest, TxWaits
  <2>3. detect_posedge_start' = <<TRUE, FALSE>>
    BY <1>1, <1>3, <1>9
  <2>4. tr_state = "T_START_BIT" => tb_phase' = 1 /\ tb_phase < ClkDiv - 1
    BY <1>9, Tick, Sizes
  <2>5. tr_state' = "T_START_BIT" => tb_phase' <= 1
    BY <2>4, Tick
  <2>6. QED
    BY <2>1, <2>2, <2>3, <2>4, <2>5, Sizes DEF TxEnds
<1>10. CASE Ended(FALSE) /\ (tr_state = "T_START_BIT" => tb_phase <= 1)
  <2>1. TxWaits' /\ ~clear_req'
    BY <1>10, TxWaitsStep
  <2>2. NoRequest'
    BY <1>10, <2>1, NoWriteStep DEF NoRequest, TxWaits
  <2>3. detect_posedge_start' = <<FALSE, FALSE>>
    BY <1>1, <1>3, <1>10
  <2>4. QED
    BY <2>1, <2>2, <2>3 DEF TxRests
<1>11. QED
  BY <1>5, <1>6, <1>7, <1>8, <1>9, <1>10 DEF TxEnds

-----------------------------------------------------------------------------
(* The stages.  Each step of the loop is also one of the channel's. *)

Stutters == (awaiting' <=> awaiting) /\ expected' = expected /\ tb_rx_data' = tb_rx_data
Sends == ~awaiting /\ awaiting' /\ expected' \in Messages /\ tb_rx_data' = tb_rx_data
Echoes == awaiting /\ ~awaiting' /\ expected' = expected /\ tb_rx_data' = expected

\* The peer's receiver looks at a quiet line.
LEMMA RecvRests ==
  ASSUME TbTypes, TbClock(tx), RecvSaw(0), tx = 1
  PROVE  RecvSaw(0)' /\ tb_rx_data' = tb_rx_data /\ recv_state # "R_STOP_BIT"
<1>1. recv_state = "R_WAIT"
  BY Sizes DEF RecvSaw
<1>2. CASE Receive(tx)
  BY <1>1, <1>2 DEF Receive, RecvWait, RecvGetData, RecvStopBit, RecvSaw
<1>3. CASE UNCHANGED recvVars
  BY <1>1, <1>3 DEF recvVars, RecvSaw
<1>4. QED
  BY <1>1, <1>2, <1>3, TickOrNot

\* The echo is awaited until it comes.
LEMMA AwaitStep ==
  ASSUME TbTypes, TbClock(tx), recv_state # "R_STOP_BIT"
  PROVE  awaiting' = (awaiting \/ (tb_phase = ClkDiv - 1 /\ tr_state' = "T_START_BIT"))
<1>1. CASE tb_phase < ClkDiv - 1
  BY <1>1, TickOrNot, Sizes DEF TbTypes
<1>2. CASE tb_phase = ClkDiv - 1
  <2>1. Await
    BY <1>2, TickOrNot DEF TbTypes
  <2>2. QED
    BY <1>2, <2>1 DEF Await, TbTypes
<1>3. QED
  BY <1>1, <1>2, Sizes DEF TbTypes

\* Types are kept, and the line stays clean.
LEMMA TypesStep ==
  ASSUME Testbench, TbTypes, EchoNext
  PROVE  TbTypes'
<1>1. TbClock(tx) /\ RxClock(Line, o_rx_finish) /\ CtrlClock(wb)
  BY DEF EchoNext, Edge, UartClock
<1>2. tb_phase' \in 0 .. ClkDiv - 1
  BY <1>1, Tick, Sizes
<1>3. awaiting' \in BOOLEAN
  <2>1. Await => awaiting' \in BOOLEAN
    BY DEF Await, TbTypes
  <2>2. awaiting' = awaiting => awaiting' \in BOOLEAN
    BY DEF TbTypes
  <2>3. QED
    BY <1>1, <2>1, <2>2, TickOrNot
<1>4. expected' \in Byte
  <2>1. Transmit => expected' \in Byte
    BY PeerAssumption DEF TbTypes, Transmit, TrIdle, TrStart, TrStartBit, TrSendData, TrStopBit,
                          TrClear
  <2>2. UNCHANGED trVars => expected' \in Byte
    BY DEF TbTypes, trVars
  <2>3. QED
    BY <1>1, <2>1, <2>2, TickOrNot
<1>5. rx_data' = [i \in 0 .. LastIndex |-> rx_data'[i]]
  <2>1. rx_data' = rx_data \/ rx_data' = ZeroByte \/ \E i, b : rx_data' = [rx_data EXCEPT ![i] = b]
    BY <1>1 DEF RxClock, RxWait, RxStartBit, RxGetData, RxStopBit, RxIrq, RxWaitRead, RxFrameErr
  <2>2. rx_data = [i \in 0 .. LastIndex |-> rx_data[i]]
    BY DEF TbTypes
  <2>3. CASE rx_data' = rx_data
    BY <2>2, <2>3
  <2>4. CASE rx_data' = ZeroByte
    BY <2>4 DEF ZeroByte, LastIndex
  <2>5. ASSUME NEW i, NEW b, rx_data' = [rx_data EXCEPT ![i] = b]
        PROVE  rx_data' = [j \in 0 .. LastIndex |-> rx_data'[j]]
    BY <2>2, <2>5
  <2>6. QED
    BY <2>1, <2>3, <2>4, <2>5
<1>6. ~noise' /\ ~spoiled' /\ glitches' = 0
  BY <1>1, CleanLine
<1>7. irq' \in BOOLEAN
  BY <1>1 DEF TbTypes, RxClock, RxWait, RxStartBit, RxGetData, RxStopBit, RxIrq, RxWaitRead,
              RxFrameErr
<1>8. tx_start_local' \in BOOLEAN /\ o_tx_start' \in BOOLEAN
  BY <1>1 DEF TbTypes, CtrlClock, TxBufferClock, TxRequestClock
<1>9. QED
  BY <1>2, <1>3, <1>4, <1>5, <1>6, <1>7, <1>8 DEF TbTypes

\* From rest a byte may be sent; the echo of the last one is over.
LEMMA RestingStep ==
  ASSUME Testbench, TbTypes, NoErrors, Bus, Resting, EchoNext
  PROVE  /\ NoErrors'
         /\ Resting' \/ Sending'
         /\ Stutters \/ Sends
<1>1. /\ TbClock(tx) /\ RxClock(Line, o_rx_finish) /\ TxClock(o_tx_start, o_tx)
      /\ CtrlClock(wb) /\ CpuClock /\ UserIrqClock(irq, pc = "clear" /\ pc' # "clear")
  BY DEF EchoNext, Edge, UartClock
<1>2. /\ ~awaiting /\ PeerRests /\ RxRests /\ IrqRests /\ CpuRests
      /\ TxRests \/ TxEnds
      /\ RecvSaw(0)
  BY DEF Resting
<1>3. Line = 1 /\ tx = 1
  BY <1>1, <1>2, CleanLine, QuietLine DEF PeerRests
<1>4. RxRests' /\ NoErrors'
  BY <1>1, <1>2, <1>3, RxRestsStep
<1>5. IrqRests' /\ CpuRests'
  BY <1>1, <1>2, IrqRestsStep, CpuRestsStep DEF RxRests, NoByte, IrqRests
<1>6. RecvSaw(0)' /\ tb_rx_data' = tb_rx_data /\ recv_state # "R_STOP_BIT"
  BY <1>1, <1>2, <1>3, RecvRests
<1>7. awaiting' = (awaiting \/ (tb_phase = ClkDiv - 1 /\ tr_state' = "T_START_BIT"))
  BY <1>1, <1>6, AwaitStep
<1>8. \/ PeerRests' /\ expected' = expected /\ tr_state' # "T_START_BIT"
      \/ /\ tb_phase = ClkDiv - 1 /\ tr_state = "T_WAIT" /\ tr_state' = "T_START_BIT"
         /\ ser_tx' = 1 /\ tb_tx_index' = 0
         /\ tx_pattern' = expected' /\ expected' \in Messages
  <2>1. CASE UNCHANGED trVars
    BY <1>2, <2>1 DEF PeerRests, trVars
  <2>2. CASE tb_phase = ClkDiv - 1 /\ Transmit
    BY <1>2, <2>2 DEF PeerRests, Transmit, TrIdle, TrStart, TrStartBit, TrSendData, TrStopBit,
                      TrClear
  <2>3. QED
    BY <1>1, <2>1, <2>2, TickOrNot
<1>9. TxRests' \/ TxEnds'
  <2>1. ~Writes(wb, "TX_DATA")
    BY <1>2 DEF CpuRests, Writes
  <2>2. tr_state' = tr_state \/ (tb_phase = ClkDiv - 1 /\ tr_state # "T_START_BIT")
    BY <1>1, <1>2, TickOrNot DEF PeerRests, trVars
  <2>3. QED
    BY <1>1, <1>2, <2>1, <2>2, TxEndsStep
<1>10. CASE PeerRests' /\ expected' = expected /\ tr_state' # "T_START_BIT"
  BY <1>2, <1>4, <1>5, <1>6, <1>7, <1>9, <1>10 DEF Resting, Stutters
<1>11. CASE /\ tb_phase = ClkDiv - 1 /\ tr_state' = "T_START_BIT"
            /\ ser_tx' = 1 /\ tb_tx_index' = 0
            /\ tx_pattern' = expected' /\ expected' \in Messages
  <2>1. awaiting' /\ Sends
    BY <1>2, <1>6, <1>7, <1>11 DEF Sends
  <2>2. Receiving'
    BY <1>4, <1>9, <1>11 DEF Receiving
  <2>3. QED
    BY <1>4, <1>5, <1>6, <2>1, <2>2 DEF Sending
<1>12. QED
  BY <1>8, <1>10, <1>11

\* While a byte is sent the receiver follows, and announces it at its end.
LEMMA SendingStep ==
  ASSUME Testbench, TbTypes, NoErrors, Bus, Sending, EchoNext
  PROVE  /\ NoErrors'
         /\ Sending' \/ Serving'
         /\ Stutters
<1>1. /\ TbClock(tx) /\ RxClock(Line, o_rx_finish) /\ TxClock(o_tx_start, o_tx)
      /\ CtrlClock(wb) /\ CpuClock /\ UserIrqClock(irq, pc = "clear" /\ pc' # "clear")
  BY DEF EchoNext, Edge, UartClock
<1>2. /\ awaiting /\ Receiving /\ IrqRests /\ CpuRests /\ RecvSaw(0) /\ NoByte
      /\ TxRests \/ TxEnds
  BY DEF Sending, Receiving, RxRests
<1>3. Line = ser_tx /\ tx = 1
  BY <1>1, <1>2, CleanLine, QuietLine
<1>4. RecvSaw(0)' /\ tb_rx_data' = tb_rx_data /\ recv_state # "R_STOP_BIT"
  BY <1>1, <1>2, <1>3, RecvRests
<1>5. awaiting'
  BY <1>1, <1>2, <1>4, AwaitStep
<1>6. IrqRests' /\ CpuRests'
  BY <1>1, <1>2, IrqRestsStep, CpuRestsStep DEF NoByte, IrqRests
<1>7. /\ ~stat_reg'.frame_err /\ ~stat_reg'.overrun
      /\ ~stat_reg'.rx_full /\ ~o_rx_finish'
  BY <1>1, <1>2, ErrorsStep, NoByteStep
<1>8. ~Writes(wb, "TX_DATA")
  BY <1>2 DEF CpuRests, Writes
<1>9. TxRests => TxRests'
  BY <1>1, <1>8, TxRestsStep
<1>10. ASSUME expected' = expected, ~irq', ~frame_err', Receiving'
       PROVE  NoErrors' /\ Sending' /\ Stutters
  BY <1>2, <1>4, <1>5, <1>6, <1>7, <1>10 DEF NoErrors, Sending, Stutters
<1>11. ~irq /\ ~frame_err
  BY <1>2 DEF NoByte, NoErrors
<1>12. CASE /\ tr_state = "T_START_BIT" /\ ser_tx = 1 /\ tx_pattern = expected /\ tb_tx_index = 0
            /\ RxRests /\ (TxRests \/ TxEnds)
  <2>1. RxRests' /\ NoErrors'
    BY <1>1, <1>3, <1>12, RxRestsStep
  <2>2. ~irq' /\ ~frame_err'
    BY <2>1 DEF RxRests, NoByte, NoErrors
  <2>3. CASE tb_phase < ClkDiv - 1
    <3>1. UNCHANGED <<tr_state, ser_tx, tx_pattern, tb_tx_index, expected>>
      BY <1>1, <2>3, TickOrNot DEF TbTypes, trVars
    <3>2. TxRests' \/ TxEnds'
      BY <1>1, <1>8, <1>12, <3>1, TxEndsStep
    <3>3. Receiving'
      BY <1>12, <2>1, <3>1, <3>2 DEF Receiving
    <3>4. QED
      BY <1>10, <2>2, <3>1, <3>3
  <2>4. CASE tb_phase = ClkDiv - 1
    <3>1. Transmit /\ tb_phase' = 0
      BY <1>1, <2>4, TickOrNot DEF TbTypes
    <3>2. /\ tr_state' = "T_SEND_DATA" /\ ser_tx' = 0 /\ tb_tx_index' = 0
          /\ tx_pattern' = tx_pattern /\ expected' = expected
      BY <1>12, <3>1 DEF Transmit, TrIdle, TrStart, TrStartBit, TrSendData, TrStopBit, TrClear
    <3>3. TxRests'
      BY <1>1, <1>8, <1>12, <2>4, <3>2, TxEndsStep
    <3>4. PeerShows(0)'
      <4>1. Frame(0)' = 0 /\ 0 \in 0 .. LastIndex
        BY Sizes DEF Frame
      <4>2. QED
        BY <1>12, <3>2, <4>1 DEF PeerShows
    <3>5. Receiving'
      BY <2>1, <3>1, <3>3, <3>4 DEF Receiving
    <3>6. QED
      BY <1>10, <2>2, <3>2, <3>5
  <2>5. QED
    BY <2>3, <2>4, Sizes DEF TbTypes
<1>13. CASE PeerShows(0) /\ tb_phase = 0 /\ RxRests /\ TxRests
  <2>1. Line = 0
    BY <1>3, <1>13, FrameBits DEF PeerShows
  <2>2. RxWait(Line)
    BY <1>1, <1>13 DEF RxRests, RxClock, RxStartBit, RxGetData, RxStopBit, RxIrq, RxWaitRead,
                       RxFrameErr
  <2>3. /\ rx_state' = "START_BIT" /\ ~irq' /\ ~frame_err'
        /\ rx_clk_cnt' = 0 /\ rx_index' = 0
    BY <1>13, <2>1, <2>2 DEF RxWait, RxRests
  <2>4. PeerShows(0)' /\ expected' = expected /\ tb_phase' = 1
    BY <1>1, <1>13, PeerStays, Tick, Sizes
  <2>5. 0 \in 0 .. HalfDiv - 1 /\ 1 = 0 + 1
    BY Sizes
  <2>6. NoByte'
    BY <1>7, <2>3 DEF NoByte
  <2>7. Receiving'
    BY <1>9, <1>13, <2>3, <2>4, <2>5, <2>6 DEF Receiving
  <2>8. QED
    BY <1>10, <2>3, <2>4, <2>7
<1>14. CASE /\ PeerShows(0) /\ tb_phase = rx_clk_cnt + 1
            /\ rx_state = "START_BIT" /\ rx_clk_cnt \in 0 .. HalfDiv - 1 /\ rx_index = 0
            /\ TxRests
  <2>1. Line = 0
    BY <1>3, <1>14, FrameBits DEF PeerShows
  <2>2. RxStartBit(Line)
    BY <1>1, <1>14 DEF RxClock, RxWait, RxGetData, RxStopBit, RxIrq, RxWaitRead, RxFrameErr
  <2>3. ~irq' /\ ~frame_err' /\ rx_index' = 0
    BY <1>11, <1>14, <2>2 DEF RxStartBit
  <2>4. NoByte'
    BY <1>7, <2>3 DEF NoByte
  <2>5. /\ expected' = expected
        /\ tb_phase < ClkDiv - 1 => PeerShows(0)'
        /\ tb_phase = ClkDiv - 1 => PeerShows(0 + 1)'
    <3>1. 0 \in 0 .. DataBits
      BY Sizes
    <3>2. QED
      BY <1>1, <1>14, <3>1, PeerStep
  <2>6. CASE rx_clk_cnt < HalfDiv - 1
    <3>1. /\ rx_state' = "START_BIT" /\ rx_clk_cnt' = rx_clk_cnt + 1
          /\ rx_clk_cnt' \in 0 .. HalfDiv - 1
      BY <1>14, <2>2, <2>6, Sizes DEF RxStartBit
    <3>2. tb_phase < ClkDiv - 1 /\ tb_phase' = rx_clk_cnt' + 1
      BY <1>1, <1>14, <2>6, <3>1, Tick, Sizes
    <3>3. Receiving'
      BY <1>9, <1>14, <2>3, <2>4, <2>5, <3>1, <3>2 DEF Receiving
    <3>4. QED
      BY <1>10, <2>3, <2>5, <3>3
  <2>7. CASE rx_clk_cnt = HalfDiv - 1
    <3>1. rx_state' = "GET_DATA" /\ rx_clk_cnt' = 0
      BY <2>1, <2>2, <2>7 DEF RxStartBit
    <3>2. RxAwaits(0)'
      <4>1. 0 \in 0 .. ClkDiv - 1 /\ 0 \in 0 .. LastIndex /\ 0 .. 0 - 1 = {}
        BY Sizes
      <4>2. QED
        BY <2>3, <3>1, <4>1 DEF RxAwaits
    <3>3. Follows(0)'
      <4>1. CASE HalfDiv < ClkDiv - 1
        <5>1. tb_phase' = HalfDiv + 1 /\ PeerShows(0)'
          BY <1>1, <1>14, <2>5, <2>7, <4>1, Tick, Sizes
        <5>2. QED
          BY <3>1, <3>2, <4>1, <5>1, Sizes DEF Follows
      <4>2. CASE HalfDiv = ClkDiv - 1
        <5>1. tb_phase' = 0 /\ PeerShows(0 + 1)'
          BY <1>1, <1>14, <2>5, <2>7, <4>2, Tick, Sizes
        <5>2. QED
          BY <3>1, <3>2, <4>2, <5>1, Sizes DEF Follows
      <4>3. QED
        BY <4>1, <4>2, Sizes
    <3>4. Receiving'
      <4>1. 0 \in 0 .. DataBits
        BY Sizes
      <4>2. QED
        BY <1>9, <1>14, <2>4, <3>3, <4>1 DEF Receiving
    <3>5. QED
      BY <1>10, <2>3, <2>5, <3>4
  <2>8. QED
    BY <1>14, <2>6, <2>7, Sizes
<1>15. CASE (\E n \in 0 .. DataBits : Follows(n)) /\ TxRests
  <2>1. PICK n \in 0 .. DataBits : Follows(n)
    BY <1>15
  <2>2. /\ expected' = expected /\ ~irq' /\ ~frame_err'
        /\ \/ \E m \in 0 .. DataBits : Follows(m)'
           \/ /\ rx_state' = "IRQ" /\ rx_clk_cnt' = 0 /\ rx_index' = 0
              /\ rx_data' = expected /\ PeerRests'
    BY <1>1, <1>2, <1>11, <2>1, FollowStep
  <2>3. NoByte'
    BY <1>7, <2>2 DEF NoByte
  <2>4. CASE \E m \in 0 .. DataBits : Follows(m)'
    <3>1. (\E m \in 0 .. DataBits : Follows(m))'
      BY <2>4
    <3>2. Receiving'
      BY <1>9, <1>15, <2>3, <3>1 DEF Receiving
    <3>3. QED
      BY <1>10, <2>2, <3>2
  <2>5. CASE /\ rx_state' = "IRQ" /\ rx_clk_cnt' = 0 /\ rx_index' = 0
             /\ rx_data' = expected /\ PeerRests'
    <3>1. Announced'
      BY <1>6, <2>2, <2>3, <2>5 DEF Announced
    <3>2. Serving'
      BY <1>4, <1>5, <1>9, <1>15, <2>5, <3>1 DEF Serving
    <3>3. NoErrors'
      BY <1>7, <2>2 DEF NoErrors
    <3>4. QED
      BY <1>2, <1>4, <1>5, <2>2, <3>2, <3>3 DEF Stutters
  <2>6. QED
    BY <2>2, <2>4, <2>5
<1>16. QED
  BY <1>2, <1>12, <1>13, <1>14, <1>15 DEF Receiving

\* What a read returns at the next edge.
LEMMA ReadStep ==
  ASSUME CtrlClock(wb)
  PROVE  /\ o_wb_ack' = wb.valid
         /\ Reads(wb, "STAT_REG") => o_wb_dat'.stat = stat_reg
         /\ Reads(wb, "RX_DATA") => o_wb_dat'.data = rx_buffer
<1>1. o_wb_ack' = wb.valid
  BY DEF CtrlClock, AckClock
<1>2. ASSUME Reads(wb, "STAT_REG") PROVE o_wb_dat'.stat = stat_reg
  <2>1. o_wb_dat' = [ZeroWord EXCEPT !.stat = stat_reg]
    BY <1>2 DEF CtrlClock, ReadClock, Reads
  <2>2. QED
    BY <2>1 DEF ZeroWord
<1>3. ASSUME Reads(wb, "RX_DATA") PROVE o_wb_dat'.data = rx_buffer
  <2>1. o_wb_dat' = [ZeroWord EXCEPT !.data = rx_buffer]
    BY <1>3 DEF CtrlClock, ReadClock, Reads
  <2>2. QED
    BY <2>1 DEF ZeroWord
<1>4. QED
  BY <1>1, <1>2, <1>3

\* A byte that is not read stays where it is.
LEMMA HeldStep ==
  ASSUME NoErrors, Held, CtrlClock(wb), RxClock(Line, o_rx_finish), ~Reads(wb, "RX_DATA"),
         expected' = expected
  PROVE  Held' /\ NoErrors'
<1>1. RxWaitRead(FALSE)
  BY DEF Held, RxClock, RxWait, RxStartBit, RxGetData, RxStopBit, RxIrq, RxWaitRead, RxFrameErr
<1>2. /\ rx_state' = "WAIT_READ" /\ rx_clk_cnt' = 0 /\ rx_index' = 0 /\ ~irq'
      /\ ~frame_err' /\ ~rx_busy'
  BY <1>1 DEF Held, NoErrors, RxWaitRead
<1>3. stat_reg'.rx_full /\ ~o_rx_finish' /\ rx_buffer' = rx_buffer
  BY DEF Held, NoErrors, CtrlClock, StatClock, RxFinishClock, RxBufferClock, FillsRx, LoadsRx,
         EmptiesRx, Finishes
<1>4. QED
  BY <1>2, <1>3, ErrorsStep DEF Held, NoErrors

\* From the announcement to the interrupt.
LEMMA InterruptStep ==
  ASSUME TbTypes, NoErrors, Bus, RxClock(Line, o_rx_finish), CtrlClock(wb), CpuClock,
         UserIrqClock(irq, pc = "clear" /\ pc' # "clear"), expected' = expected,
         Announced \/ Loading \/ Interrupting
  PROVE  NoErrors' /\ (Loading' \/ Interrupting' \/ Fetching')
<1> DEFINE Clears == pc = "clear" /\ pc' # "clear"
<1>1. /\ irq_regs' = <<irq, irq_regs[1]>> /\ trigger_d' = irq_regs[2]
      /\ pending' = ((irq_regs[2] /\ ~trigger_d) \/ (pending /\ ~Clears))
  BY DEF UserIrqClock, Trigger
<1>2. irq <=> irq = TRUE
  BY DEF TbTypes
<1>3. CASE Announced
  <2>1. RxIrq
    BY <1>3 DEF Announced, RxClock, RxWait, RxStartBit, RxGetData, RxStopBit, RxIrq, RxWaitRead,
                RxFrameErr
  <2>2. /\ rx_state' = "WAIT_READ" /\ rx_clk_cnt' = 0 /\ rx_index' = 0 /\ rx_data' = expected
        /\ irq' /\ ~frame_err' /\ ~rx_busy'
    BY <1>3, <2>1 DEF Announced, NoErrors, RxIrq
  <2>3. ~stat_reg'.rx_full /\ ~o_rx_finish'
    BY <1>3, NoByteStep DEF Announced
  <2>4. IrqRests' /\ CpuRests'
    BY <1>3, IrqRestsStep, CpuRestsStep DEF Announced, NoByte, IrqRests
  <2>5. QED
    BY <2>2, <2>3, <2>4, ErrorsStep DEF Loading, NoErrors
<1>4. CASE Loading
  <2>1. RxWaitRead(FALSE)
    BY <1>4 DEF Loading, RxClock, RxWait, RxStartBit, RxGetData, RxStopBit, RxIrq, RxWaitRead,
                RxFrameErr
  <2>2. /\ rx_state' = "WAIT_READ" /\ rx_clk_cnt' = 0 /\ rx_index' = 0 /\ ~irq'
        /\ ~frame_err' /\ ~rx_busy'
    BY <1>4, <2>1 DEF Loading, NoErrors, RxWaitRead
  <2>3. stat_reg'.rx_full /\ ~o_rx_finish' /\ rx_buffer' = expected
    BY <1>4 DEF Loading, NoErrors, CpuRests, CtrlClock, StatClock, RxFinishClock, RxBufferClock,
                RecordsFrameErr, FillsRx, LoadsRx, Finishes, Reads
  <2>4. irq_regs' = <<TRUE, FALSE>> /\ ~trigger_d' /\ ~pending' /\ CpuRests'
    <3>1. CpuRests'
      BY <1>4, CpuRestsStep DEF Loading, IrqRests
    <3>2. irq = TRUE /\ irq_regs = <<FALSE, FALSE>> /\ ~pending
      BY <1>2, <1>4 DEF Loading, IrqRests
    <3>3. QED
      BY <1>1, <3>1, <3>2
  <2>5. Held'
    BY <2>2, <2>3 DEF Held
  <2>6. Interrupting'
    BY <2>4, <2>5 DEF Interrupting, CpuRests
  <2>7. QED
    BY <2>2, <2>6, ErrorsStep DEF NoErrors
<1>5. CASE Interrupting
  <2>1. Held /\ ~wb.valid /\ irq = FALSE
    BY <1>2, <1>5 DEF Interrupting, Held
  <2>2. Held' /\ NoErrors'
    BY <2>1, HeldStep DEF Reads
  <2>3. CASE irq_regs = <<TRUE, FALSE>> /\ ~trigger_d /\ ~pending /\ pc = "main"
    <3>1. CpuRests'
      BY <2>1, <2>3, CpuRestsStep DEF CpuRests
    <3>2. irq_regs' = <<FALSE, TRUE>> /\ ~trigger_d' /\ ~pending'
      BY <1>1, <2>1, <2>3
    <3>3. QED
      BY <2>2, <3>1, <3>2 DEF Interrupting, CpuRests
  <2>4. CASE irq_regs = <<FALSE, TRUE>> /\ ~trigger_d /\ ~pending /\ pc = "main"
    <3>1. CpuRests'
      BY <2>1, <2>4, CpuRestsStep DEF CpuRests
    <3>2. irq_regs' = <<FALSE, FALSE>> /\ trigger_d' /\ pending'
      BY <1>1, <2>1, <2>4
    <3>3. QED
      BY <2>2, <3>1, <3>2 DEF Interrupting, CpuRests
  <2>5. CASE irq_regs = <<FALSE, FALSE>> /\ pending /\ pc \in {"main", "clear"}
    <3>1. irq_regs' = <<FALSE, FALSE>> /\ ~trigger_d' /\ (pending' <=> ~Clears)
      BY <1>1, <2>1, <2>5
    <3>2. /\ ~wb'.valid
          /\ \/ pc' \in {"main", "clear"} /\ ~Clears
             \/ pc' = "stat5" /\ Clears
      BY <2>1, <2>5, CpuStep DEF TakeTrap, ClearPending, Accessing
    <3>3. CASE ~Clears
      BY <2>2, <3>1, <3>2, <3>3 DEF Interrupting
    <3>4. CASE Clears
      BY <2>2, <3>1, <3>2, <3>4 DEF Fetching, IrqRests
    <3>5. QED
      BY <3>3, <3>4
  <2>6. QED
    BY <1>5, <2>3, <2>4, <2>5 DEF Interrupting
<1>6. QED
  BY <1>3, <1>4, <1>5

\* The routine asks for the status twice and then for the byte.
LEMMA FetchStep ==
  ASSUME NoErrors, Bus, RxClock(Line, o_rx_finish), CtrlClock(wb), CpuClock,
         IrqRests', expected' = expected, Fetching
  PROVE  NoErrors' /\ (Fetching' \/ Fetched')
<1>1. /\ Held /\ pc \in {"stat5", "stat4", "data"}
      /\ wb.valid /\ o_wb_ack =>
           pc # "data" /\ ~o_wb_dat.stat.frame_err /\ ~o_wb_dat.stat.overrun
  BY DEF Fetching
<1>2. \/ UNCHANGED <<pc, num, wb>> /\ (wb.valid => ~o_wb_ack)
      \/ ~wb.valid /\ pc' = pc
      \/ Complete /\ wb.valid /\ o_wb_ack /\ ~wb'.valid
  BY <1>1, CpuStep DEF TakeTrap, ClearPending
<1>3. CASE wb.valid /\ pc = "data"
  <2>1. UNCHANGED <<pc, num, wb>> /\ Reads(wb, "RX_DATA")
    BY <1>1, <1>2, <1>3, BusMeans
  <2>2. o_wb_ack' /\ o_wb_dat'.data = expected
    BY <1>1, <1>3, <2>1, ReadStep DEF Held
  <2>3. RxWaitRead(FALSE)
    BY <1>1 DEF Held, RxClock, RxWait, RxStartBit, RxGetData, RxStopBit, RxIrq, RxWaitRead,
                RxFrameErr
  <2>4. /\ rx_state' = "WAIT_READ" /\ rx_clk_cnt' = 0 /\ rx_index' = 0 /\ ~irq'
        /\ ~frame_err' /\ ~rx_busy'
    BY <1>1, <2>3 DEF Held, NoErrors, RxWaitRead
  <2>5. ~stat_reg'.rx_full /\ o_rx_finish'
    BY <1>1, <2>1 DEF Held, NoErrors, CtrlClock, StatClock, RxFinishClock, RecordsFrameErr,
                      FillsRx, LoadsRx, RecordsOverrun, EmptiesRx, Finishes
  <2>6. Fetched'
    BY <1>3, <2>1, <2>2, <2>4, <2>5 DEF Fetched
  <2>7. QED
    BY <2>4, <2>6, ErrorsStep DEF NoErrors
<1>4. CASE ~(wb.valid /\ pc = "data")
  <2>1. ~Reads(wb, "RX_DATA")
    BY <1>4, BusMeans
  <2>2. Held' /\ NoErrors'
    BY <1>1, <2>1, HeldStep
  <2>3. pc' \in {"stat5", "stat4", "data"}
    BY <1>1, <1>2, <1>4 DEF Complete
  <2>4. wb'.valid /\ o_wb_ack' =>
          pc' # "data" /\ ~o_wb_dat'.stat.frame_err /\ ~o_wb_dat'.stat.overrun
    <3>1. CASE ~wb.valid \/ ~wb'.valid
      BY <3>1, ReadStep
    <3>2. CASE wb.valid /\ wb'.valid
      <4>1. pc' = pc /\ Reads(wb, "STAT_REG")
        BY <1>1, <1>2, <1>4, <3>2, BusMeans
      <4>2. QED
        BY <1>4, <3>2, <4>1, ReadStep DEF NoErrors
    <3>3. QED
      BY <3>1, <3>2
  <2>5. QED
    BY <2>2, <2>3, <2>4 DEF Fetching
<1>5. QED
  BY <1>3, <1>4

\* The byte arrives, and the receiver is free again.
LEMMA FetchedStep ==
  ASSUME NoErrors, Bus, RxClock(Line, o_rx_finish), CtrlClock(wb), CpuClock,
         IrqRests', expected' = expected, Fetched
  PROVE  NoErrors' /\ Answering'
<1>1. RxWaitRead(TRUE)
  BY DEF Fetched, RxClock, RxWait, RxStartBit, RxGetData, RxStopBit, RxIrq, RxWaitRead, RxFrameErr
<1>2. /\ rx_state' = "WAIT" /\ rx_clk_cnt' = 0 /\ rx_index' = 0 /\ ~irq'
      /\ ~frame_err' /\ ~rx_busy'
  BY <1>1 DEF Fetched, NoErrors, RxWaitRead
<1>3. ~stat_reg'.rx_full /\ ~o_rx_finish'
  BY DEF Fetched, NoErrors, CtrlClock, StatClock, RxFinishClock, FillsRx, LoadsRx, Finishes
<1>4. Complete /\ ~wb'.valid
  BY CpuStep DEF Fetched, TakeTrap, ClearPending
<1>5. pc' = "poll" /\ num' = expected
  BY <1>4 DEF Fetched, Complete
<1>6. QED
  BY <1>2, <1>3, <1>4, <1>5, ErrorsStep DEF NoErrors, Answering, RxRests, NoByte

\* The routine finds the transmitter free and writes the byte to it.
LEMMA AnswerStep ==
  ASSUME TbTypes, NoErrors, Bus, RxClock(Line, o_rx_finish), TxClock(o_tx_start, o_tx),
         CtrlClock(wb), CpuClock, IrqRests', expected' = expected, Line = 1, TxRests, Answering
  PROVE  /\ NoErrors' /\ RxRests'
         /\ \/ Answering' /\ TxRests'
            \/ RecvSaw(0)' => Taken'
<1>1. /\ RxRests /\ pc \in {"poll", "write"} /\ num = expected
      /\ wb.valid /\ o_wb_ack => pc = "poll" /\ ~o_wb_dat.stat.tx_full
  BY DEF Answering
<1>2. RxRests' /\ NoErrors'
  BY <1>1, RxRestsStep
<1>3. \/ UNCHANGED <<pc, num, wb>> /\ (wb.valid => ~o_wb_ack)
      \/ ~wb.valid /\ pc' = pc /\ num' = num
      \/ Complete /\ wb.valid /\ o_wb_ack /\ ~wb'.valid
  BY <1>1, CpuStep DEF TakeTrap, ClearPending
<1>4. CASE wb.valid /\ pc = "write"
  <2>1. UNCHANGED <<pc, num, wb>> /\ Writes(wb, "TX_DATA") /\ wb.dat = num
    BY <1>1, <1>3, <1>4, BusMeans
  <2>2. TxWaits' /\ ~clear_req'
    BY TxWaitsStep DEF TxRests
  <2>3. ~clear_req /\ ~tx_busy /\ tx_start_local = FALSE /\ o_tx_start = FALSE
    BY DEF TbTypes, TxRests, TxWaits, NoRequest
  <2>4. /\ tx_start_local' /\ tx_buffer' = expected /\ ~o_tx_start' /\ ~stat_reg'.tx_full
    BY <1>1, <2>1, <2>3 DEF CtrlClock, StatClock, TxBufferClock, TxRequestClock
  <2>5. detect_posedge_start' = <<FALSE, FALSE>>
    BY <2>3 DEF TxClock, TxRests
  <2>6. o_wb_ack' /\ wb'.valid /\ pc' = "write" /\ num' = expected
    BY <1>1, <1>4, <2>1, ReadStep
  <2>7. QED
    BY <1>2, <2>2, <2>4, <2>5, <2>6 DEF Taken, HandedOver
<1>5. CASE ~(wb.valid /\ pc = "write")
  <2>1. ~Writes(wb, "TX_DATA")
    BY <1>5, BusMeans
  <2>2. TxRests'
    BY <2>1, TxRestsStep
  <2>3. pc' \in {"poll", "write"} /\ num' = expected
    BY <1>1, <1>3, <1>5 DEF Complete
  <2>4. wb'.valid /\ o_wb_ack' => pc' = "poll" /\ ~o_wb_dat'.stat.tx_full
    <3>1. CASE ~wb.valid \/ ~wb'.valid
      BY <3>1, ReadStep
    <3>2. CASE wb.valid /\ wb'.valid
      <4>1. pc' = "poll" /\ Reads(wb, "STAT_REG")
        BY <1>1, <1>3, <1>5, <3>2, BusMeans
      <4>2. QED
        BY <4>1, ReadStep DEF TxRests, NoRequest
    <3>3. QED
      BY <3>1, <3>2
  <2>5. QED
    BY <1>2, <2>2, <2>3, <2>4 DEF Answering
<1>6. QED
  BY <1>4, <1>5

\* The routine fetches the byte and hands it to the transmitter.
LEMMA ServingStep ==
  ASSUME Testbench, TbTypes, NoErrors, Bus, Serving, EchoNext
  PROVE  /\ NoErrors'
         /\ Serving' \/ Echoing'
         /\ Stutters
<1>1. /\ TbClock(tx) /\ RxClock(Line, o_rx_finish) /\ TxClock(o_tx_start, o_tx)
      /\ CtrlClock(wb) /\ CpuClock /\ UserIrqClock(irq, pc = "clear" /\ pc' # "clear")
  BY DEF EchoNext, Edge, UartClock
<1>2. /\ awaiting /\ PeerRests /\ TxRests /\ RecvSaw(0)
      /\ (Announced \/ Loading \/ Interrupting) \/ Fetching \/ Fetched \/ Answering
  BY DEF Serving
<1>3. Line = 1 /\ tx = 1
  BY <1>1, <1>2, CleanLine, QuietLine DEF PeerRests
<1>4. RecvSaw(0)' /\ tb_rx_data' = tb_rx_data /\ recv_state # "R_STOP_BIT"
  BY <1>1, <1>2, <1>3, RecvRests
<1>5. awaiting' /\ PeerRests' /\ expected' = expected
  BY <1>1, <1>2, <1>4, AwaitStep, PeerRestsStep
<1>6. Stutters
  BY <1>2, <1>4, <1>5 DEF Stutters
<1>7. IrqRests /\ ~irq => IrqRests'
  BY <1>1, IrqRestsStep
<1>8. CASE Announced \/ Loading \/ Interrupting
  <2>1. NoErrors' /\ (Loading' \/ Interrupting' \/ Fetching')
    BY <1>1, <1>5, <1>8, InterruptStep
  <2>2. ~Writes(wb, "TX_DATA")
    BY <1>8 DEF Announced, Loading, Interrupting, CpuRests, Writes
  <2>3. TxRests'
    BY <1>1, <1>2, <2>2, TxRestsStep
  <2>4. QED
    BY <1>4, <1>5, <1>6, <2>1, <2>3 DEF Serving
<1>9. CASE Fetching \/ Fetched
  <2>1. IrqRests /\ ~irq /\ pc \in {"stat5", "stat4", "data"}
    BY <1>9 DEF Fetching, Fetched, Held
  <2>2. NoErrors' /\ (Fetching' \/ Fetched' \/ Answering')
    BY <1>1, <1>5, <1>7, <1>9, <2>1, FetchStep, FetchedStep
  <2>3. TxRests'
    BY <1>1, <1>2, <2>1, BusMeans, TxRestsStep
  <2>4. QED
    BY <1>4, <1>5, <1>6, <2>2, <2>3 DEF Serving
<1>10. CASE Answering
  <2>1. IrqRests'
    BY <1>7, <1>10 DEF Answering, RxRests, NoByte
  <2>2. /\ NoErrors' /\ RxRests'
        /\ \/ Answering' /\ TxRests'
           \/ Taken'
    BY <1>1, <1>2, <1>3, <1>4, <1>5, <1>10, <2>1, AnswerStep
  <2>3. QED
    BY <1>4, <1>5, <1>6, <2>1, <2>2 DEF Serving, Echoing
<1>11. QED
  BY <1>2, <1>8, <1>9, <1>10

\* The byte is handed over and starts off.
LEMMA HandOverStep ==
  ASSUME TbTypes, Bus, TbClock(tx), TxClock(o_tx_start, o_tx), CtrlClock(wb), CpuClock,
         expected' = expected, ~pending, tx = 1, Taken \/ Detecting
  PROVE  /\ Detecting' \/ Transmitting'
         /\ recv_state # "R_STOP_BIT" /\ tb_rx_data' = tb_rx_data
<1>1. /\ HandedOver /\ TxWaits /\ tx_start_local = TRUE /\ ~clear_req /\ tx_buffer = expected
      /\ RecvSaw(0) /\ ~tx_busy
  BY DEF Taken, Detecting, HandedOver, TxWaits, TbTypes
<1>2. RecvSaw(0)' /\ tb_rx_data' = tb_rx_data /\ recv_state # "R_STOP_BIT"
  BY <1>1, RecvRests
<1>3. tx_start_local' /\ tx_buffer' = expected /\ ~stat_reg'.tx_full
  <2>1. CASE Taken
    <3>1. Writes(wb, "TX_DATA") /\ wb.dat = expected
      BY <2>1, BusMeans DEF Taken
    <3>2. QED
      BY <1>1, <3>1 DEF CtrlClock, StatClock, TxBufferClock
  <2>2. CASE Detecting
    <3>1. ~Writes(wb, "TX_DATA")
      BY <2>2 DEF Detecting, CpuRests, Writes
    <3>2. QED
      BY <1>1, <3>1, NoWriteStep
  <2>3. QED
    BY <2>1, <2>2
<1>4. o_tx' = expected /\ o_tx_start' = TRUE
  BY <1>1 DEF CtrlClock, TxRequestClock
<1>5. CpuRests'
  <2>1. CASE Taken
    <3>1. Complete /\ ~wb'.valid
      BY <2>1, CpuStep DEF Taken, TakeTrap, ClearPending
    <3>2. QED
      BY <2>1, <3>1 DEF Taken, Complete, CpuRests
  <2>2. CASE Detecting
    BY <2>2, CpuRestsStep DEF Detecting
  <2>3. QED
    BY <2>1, <2>2
<1>6. detect_posedge_start' = <<detect_posedge_start[2], o_tx_start>>
  BY DEF TxClock
<1>7. CASE detect_posedge_start = <<FALSE, FALSE>>
  <2>1. TxWaits' /\ ~clear_req'
    BY <1>1, <1>7, TxWaitsStep
  <2>2. detect_posedge_start' \in {<<FALSE, FALSE>>, <<FALSE, TRUE>>}
    BY <1>6, <1>7 DEF TbTypes
  <2>3. HandedOver'
    BY <1>2, <1>3, <2>1 DEF HandedOver
  <2>4. QED
    BY <1>2, <1>4, <1>5, <2>2, <2>3 DEF Detecting
<1>8. CASE detect_posedge_start = <<FALSE, TRUE>>
  <2>1. o_tx_start = TRUE
    BY <1>8 DEF Taken, Detecting, TbTypes
  <2>2. TxWait
    BY <1>1 DEF TxWaits, TxClock, TxStartBit, TxSendData, TxStopBit, TxClearReq
  <2>3. /\ tx_state' = "START_BIT" /\ tx' = 1 /\ ~clear_req'
        /\ tx_clk_cnt' = 0 /\ tx_index' = 0
    BY <1>1, <1>8, <2>2 DEF TxWait, TxWaits
  <2>4. Requested'
    BY <1>3, <1>4, <1>6, <1>8, <2>1 DEF Requested
  <2>5. TxIsAt(0)'
    <3>1. 0 \in 0 .. ClkDiv - 1 /\ Frame(0 - 1)' = 1
      BY Sizes DEF Frame
    <3>2. QED
      BY <2>3, <3>1 DEF TxIsAt
  <2>6. Seen(0)' <= 0 /\ Seen(0)' <= DataBits + 1
    <3>1. PICK p \in 0 .. ClkDiv - 1 : tb_phase' = p
      BY Tick, Sizes
    <3>2. ~(p + 2 <= 0)
      BY Sizes
    <3>3. Seen(0)' = IF p = ClkDiv - 1 THEN 0 - 1 ELSE 0
      BY <2>3, <3>1, <3>2 DEF Seen
    <3>4. QED
      BY <3>3, Sizes
  <2>7. RecvSaw(Seen(0))'
    <3>1. recv_state' = "R_WAIT"
      BY <1>2, Sizes DEF RecvSaw
    <3>2. QED
      BY <2>6, <3>1 DEF RecvSaw
  <2>8. 0 \in 0 .. DataBits + 2
    BY Sizes
  <2>9. QED
    BY <1>2, <1>3, <1>4, <1>5, <2>3, <2>4, <2>5, <2>6, <2>7, <2>8 DEF Transmitting
<1>9. QED
  BY <1>7, <1>8 DEF Taken, Detecting

\* The echo goes out, bit by bit, until the peer has seen its stop bit.
LEMMA TransmitStep ==
  ASSUME TbTypes, Bus, TbClock(tx), TxClock(o_tx_start, o_tx), CtrlClock(wb), CpuClock,
         expected' = expected, ~pending, awaiting, tr_state' # "T_START_BIT", Transmitting
  PROVE  \/ Transmitting' /\ awaiting' /\ tb_rx_data' = tb_rx_data
         \/ /\ TxEnds' /\ CpuRests' /\ RecvSaw(0)'
            /\ ~awaiting' /\ tb_rx_data' = expected
<1>1. PICK n \in 0 .. DataBits + 2 : TxIsAt(n) /\ Seen(n) <= DataBits + 1 /\ RecvSaw(Seen(n))
  BY DEF Transmitting
<1>2. /\ tx_clk_cnt \in 0 .. ClkDiv - 1 /\ tb_phase \in 0 .. ClkDiv - 1
      /\ tx = Frame(IF tx_clk_cnt = 0 THEN n - 1 ELSE n)
      /\ n = DataBits + 2 => tx_clk_cnt = 0
  BY <1>1, Sizes DEF TxIsAt, TbTypes
<1>3. Seen(n) \in Int /\ Seen(n) >= -1
  BY <1>2, Sizes DEF Seen
<1>4. PICK k \in Int : k = Seen(n)
  BY <1>3
<1>5. k \in -1 .. DataBits + 1 /\ RecvSaw(k)
  BY <1>1, <1>3, <1>4, Sizes
<1>6. /\ Requested /\ ~clear_req /\ tx_buffer = expected /\ o_tx = expected /\ CpuRests
      /\ o_tx_start = TRUE /\ tx_start_local = TRUE
  BY DEF Transmitting, Requested, TbTypes
<1>7. CpuRests'
  BY <1>6, CpuRestsStep
<1>8. Requested' /\ tx_buffer' = expected /\ o_tx' = expected
  <2>1. ~Writes(wb, "TX_DATA")
    BY <1>6 DEF CpuRests, Writes
  <2>2. /\ tx_start_local' = TRUE /\ o_tx_start' = TRUE
        /\ tx_buffer' = expected /\ o_tx' = expected
    BY <1>6, <2>1, NoWriteStep
  <2>3. detect_posedge_start' = <<TRUE, TRUE>>
    BY <1>6 DEF TxClock, Requested
  <2>4. QED
    BY <2>2, <2>3 DEF Requested
<1>9. ASSUME n <= DataBits + 1
      PROVE  /\ ~clear_req'
             /\ tx_clk_cnt < ClkDiv - 1 => TxIsAt(n)' /\ tx_clk_cnt' = tx_clk_cnt + 1
             /\ tx_clk_cnt = ClkDiv - 1 => TxIsAt(n + 1)' /\ tx_clk_cnt' = 0
  <2>1. n \in 0 .. DataBits + 1
    BY <1>9, Sizes
  <2>2. QED
    BY <1>1, <1>6, <2>1, TxStep
\* The frame goes on: one case for the bit on the line staying, one for the next.
<1>10. ASSUME n <= DataBits + 1, NEW j \in -1 .. DataBits + 1, RecvSaw(j)',
              tb_phase = ClkDiv - 1 => j = k + 1, tb_phase < ClkDiv - 1 => j = k
       PROVE  Transmitting'
  <2>1. PICK m \in {n, n + 1} :
          /\ TxIsAt(m)'
          /\ \/ tx_clk_cnt < ClkDiv - 1 /\ tx_clk_cnt' = tx_clk_cnt + 1 /\ m = n
             \/ tx_clk_cnt = ClkDiv - 1 /\ tx_clk_cnt' = 0 /\ m = n + 1
    BY <1>2, <1>9, <1>10, Sizes
  <2>2. m \in 0 .. DataBits + 2 /\ n \in Int /\ m \in Int
    BY <1>10, <2>1, Sizes
  <2>3. Seen(m)' = j
    <3>1. /\ tb_phase = ClkDiv - 1 => Seen(m)' = Seen(n) + 1
          /\ tb_phase < ClkDiv - 1 => Seen(m)' = Seen(n)
      BY <1>2, <2>1, <2>2, Tick, SeenStep
    <3>2. tb_phase = ClkDiv - 1 \/ tb_phase < ClkDiv - 1
      BY <1>2, Sizes
    <3>3. QED
      BY <1>4, <1>10, <3>1, <3>2
  <2>4. RecvSaw(Seen(m))' /\ Seen(m)' <= DataBits + 1
    <3>1. j <= DataBits + 1
      BY <1>10, Sizes
    <3>2. QED
      BY <1>10, <2>3, <3>1 DEF RecvSaw
  <2>5. QED
    BY <1>7, <1>8, <1>9, <1>10, <2>1, <2>2, <2>4 DEF Transmitting
<1>11. CASE k <= DataBits
  <2>1. n <= DataBits + 1
    BY <1>2, <1>4, <1>11, Sizes DEF Seen
  <2>2. tb_phase = ClkDiv - 1 => tx = Frame(k)
    BY <1>2, <1>4, Sizes DEF Seen
  <2>3. k \in -1 .. DataBits /\ k + 1 \in -1 .. DataBits + 1 /\ k \in -1 .. DataBits + 1
    BY <1>5, <1>11, Sizes
  <2>4. /\ tb_phase = ClkDiv - 1 => RecvSaw(k + 1)'
        /\ tb_phase < ClkDiv - 1 => RecvSaw(k)'
        /\ tb_rx_data' = tb_rx_data
        /\ recv_state # "R_STOP_BIT"
    BY <1>5, <2>2, <2>3, RecvStep
  <2>5. awaiting'
    BY <2>4, AwaitStep
  <2>6. CASE tb_phase = ClkDiv - 1
    BY <1>10, <2>1, <2>3, <2>4, <2>5, <2>6, Sizes
  <2>7. CASE tb_phase < ClkDiv - 1
    BY <1>10, <2>1, <2>3, <2>4, <2>5, <2>7, Sizes
  <2>8. QED
    BY <1>2, <2>6, <2>7, Sizes
<1>12. CASE k = DataBits + 1 /\ tb_phase < ClkDiv - 1
  <2>1. n <= DataBits + 1
    BY <1>2, <1>4, <1>12, Sizes DEF Seen
  <2>2. RecvSaw(k)' /\ awaiting' /\ tb_rx_data' = tb_rx_data
    BY <1>5, <1>12, PeerStays
  <2>3. QED
    BY <1>5, <1>10, <1>12, <2>1, <2>2, Sizes
<1>13. CASE k = DataBits + 1 /\ tb_phase = ClkDiv - 1
  <2>1. \/ n = DataBits + 1 /\ tx_clk_cnt >= 1
        \/ n = DataBits + 2
    BY <1>2, <1>4, <1>13, Sizes DEF Seen
  <2>2. tx = 1
    BY <1>2, <2>1, FrameBits, Sizes
  <2>3. RecvSaw(0)' /\ tb_rx_data' = expected /\ ~awaiting'
    BY <1>5, <1>13, <2>2, RecvEnds
  <2>4. tb_phase' = 0
    BY <1>13, Tick
  <2>5. CASE n = DataBits + 1 /\ tx_clk_cnt < ClkDiv - 1
    <3>1. TxIsAt(DataBits + 1)' /\ ~clear_req' /\ tb_phase' + 2 <= tx_clk_cnt'
      BY <1>2, <1>9, <2>1, <2>4, <2>5, Sizes
    <3>2. QED
      BY <1>7, <1>8, <2>3, <3>1 DEF TxEnds
  <2>6. CASE n = DataBits + 1 /\ tx_clk_cnt = ClkDiv - 1
    <3>1. TxIsAt(DataBits + 2)' /\ ~clear_req' /\ tb_phase' < ClkDiv - 1
      <4>1. n + 1 = DataBits + 2 /\ n <= DataBits + 1 /\ 0 < ClkDiv - 1
        BY <2>6, Sizes
      <4>2. QED
        BY <1>9, <2>4, <2>6, <4>1
    <3>2. QED
      BY <1>7, <1>8, <2>3, <3>1 DEF TxEnds
  <2>7. CASE n = DataBits + 2
    <3>1. tx_state = "CLEAR_REQ" /\ tx_clk_cnt = 0 /\ tx_index = 0
      BY <1>1, <2>7, Sizes DEF TxIsAt
    <3>2. TxClearReq
      BY <3>1 DEF TxClock, TxWait, TxStartBit, TxSendData, TxStopBit
    <3>3. TxWaits' /\ clear_req'
      BY <2>2, <3>1, <3>2 DEF TxClearReq, TxWaits
    <3>4. QED
      BY <1>7, <1>8, <2>3, <3>3 DEF TxEnds
  <2>8. QED
    BY <1>2, <2>1, <2>5, <2>6, <2>7, Sizes
<1>14. QED
  BY <1>2, <1>5, <1>11, <1>12, <1>13, Sizes

\* The byte that was sent comes back, and all is at rest.
LEMMA EchoingStep ==
  ASSUME Testbench, TbTypes, NoErrors, Bus, Echoing, EchoNext
  PROVE  /\ NoErrors'
         /\ Echoing' \/ Resting'
         /\ Stutters \/ Echoes
<1>1. /\ TbClock(tx) /\ RxClock(Line, o_rx_finish) /\ TxClock(o_tx_start, o_tx)
      /\ CtrlClock(wb) /\ CpuClock /\ UserIrqClock(irq, pc = "clear" /\ pc' # "clear")
  BY DEF EchoNext, Edge, UartClock
<1>2. /\ awaiting /\ PeerRests /\ RxRests /\ IrqRests /\ ~pending /\ ~irq
      /\ (Taken \/ Detecting) \/ Transmitting
  BY DEF Echoing, RxRests, NoByte, IrqRests
<1>3. PeerRests' /\ expected' = expected
  BY <1>1, <1>2, PeerRestsStep
<1>4. RxRests' /\ NoErrors'
  BY <1>1, <1>2, CleanLine, RxRestsStep DEF PeerRests
<1>5. IrqRests'
  BY <1>1, <1>2, IrqRestsStep
<1>6. tr_state' # "T_START_BIT"
  BY <1>3 DEF PeerRests
<1>7. CASE Taken \/ Detecting
  <2>1. tx = 1
    BY <1>7 DEF Taken, Detecting, HandedOver, TxWaits
  <2>2. /\ Detecting' \/ Transmitting'
        /\ recv_state # "R_STOP_BIT" /\ tb_rx_data' = tb_rx_data
    BY <1>1, <1>2, <1>3, <1>7, <2>1, HandOverStep
  <2>3. awaiting'
    BY <1>1, <1>2, <2>2, AwaitStep
  <2>4. QED
    BY <1>2, <1>3, <1>4, <1>5, <2>2, <2>3 DEF Echoing, Stutters
<1>8. CASE Transmitting
  <2>1. \/ Transmitting' /\ awaiting' /\ tb_rx_data' = tb_rx_data
        \/ /\ TxEnds' /\ CpuRests' /\ RecvSaw(0)'
           /\ ~awaiting' /\ tb_rx_data' = expected
    BY <1>1, <1>2, <1>3, <1>6, <1>8, TransmitStep
  <2>2. QED
    BY <1>2, <1>3, <1>4, <1>5, <2>1 DEF Echoing, Resting, Stutters, Echoes
<1>9. QED
  BY <1>2, <1>7, <1>8

-----------------------------------------------------------------------------
(* The theorems. *)

\* At power-on everything rests.
LEMMA EchoStarts ==
  ASSUME Testbench, EchoInit
  PROVE  EchoInv /\ Channel!Init
<1>1. Init /\ UserIrqInit /\ TbInit /\ CpuRests
  BY DEF EchoInit, Init, Idle, CpuRests
<1>2. ZeroByte \in Byte /\ ZeroByte = [i \in 0 .. LastIndex |-> ZeroByte[i]]
  BY DEF ZeroByte, Byte, Bit, LastIndex
<1>3. ~stat_reg.rx_full /\ ~stat_reg.tx_full /\ ~stat_reg.frame_err /\ ~stat_reg.overrun
  BY <1>1 DEF Init, CtrlInit, NoStat
<1>4. TbTypes
  BY <1>1, <1>2 DEF Init, RxInit, CtrlInit, TbInit, TbTypes
<1>5. NoErrors /\ Bus
  BY <1>1, <1>3 DEF Init, RxInit, NoErrors, Bus, CpuRests
<1>6. RxRests /\ IrqRests
  BY <1>1, <1>3 DEF Init, RxInit, CtrlInit, RxRests, NoByte, UserIrqInit, IrqRests
<1>7. TxRests
  BY <1>1, <1>3 DEF Init, TxInit, CtrlInit, TxRests, TxWaits, NoRequest
<1>8. PeerRests /\ RecvSaw(0) /\ ~awaiting
  BY <1>1 DEF TbInit, PeerRests, RecvSaw
<1>9. Resting
  BY <1>1, <1>6, <1>7, <1>8 DEF Resting
<1>10. Channel!Init
  BY <1>8 DEF Channel!Init
<1>11. QED
  BY <1>4, <1>5, <1>9, <1>10 DEF EchoInv

\* Every step keeps the invariant, and the peer sees a step of the channel.
LEMMA EchoStep ==
  ASSUME Testbench, EchoInv, EchoNext
  PROVE  EchoInv' /\ (Stutters \/ Sends \/ Echoes)
<1>1. TbTypes /\ NoErrors /\ Bus /\ (Resting \/ Sending \/ Serving \/ Echoing)
  BY DEF EchoInv
<1>2. TbTypes'
  BY <1>1, TypesStep
<1>3. Bus'
  BY <1>1, CpuStep DEF EchoNext
<1>4. /\ NoErrors'
      /\ Resting' \/ Sending' \/ Serving' \/ Echoing'
      /\ Stutters \/ Sends \/ Echoes
  BY <1>1, RestingStep, SendingStep, ServingStep, EchoingStep
<1>5. QED
  BY <1>2, <1>3, <1>4 DEF EchoInv

\* The stage a byte is in: what each part of the loop knows of it.  The peer
\* rests, sends, is served by the routine or gets its echo, and in each stage
\* the other three are quiet.
THEOREM EchoInvariance == ASSUME Testbench PROVE EchoSpec => []EchoInv
<1>1. EchoInit => EchoInv
  BY EchoStarts
<1>2. EchoInv /\ [EchoNext]_echoVars => EchoInv'
  <2>1. SUFFICES ASSUME EchoInv, [EchoNext]_echoVars PROVE EchoInv'
    OBVIOUS
  <2>2. CASE EchoNext
    BY <2>1, <2>2, EchoStep
  <2>3. CASE UNCHANGED echoVars
    <3>1. UNCHANGED <<vars, userIrqVars, tbVars, cpuVars>>
      BY <2>3 DEF echoVars
    <3>2. UNCHANGED <<rxVars, txVars, ctrlVars, wb, trVars, recvVars, tb_phase, awaiting>>
      BY <3>1 DEF vars, tbVars
    <3>3. TbTypes' /\ NoErrors' /\ Bus'
      BY <2>1, <3>1, <3>2
         DEF rxVars, ctrlVars, cpuVars, trVars, EchoInv, TbTypes, NoErrors, Bus, Accessing,
             AccessOf
    <3>4. /\ PeerRests' = PeerRests /\ RxRests' = RxRests /\ IrqRests' = IrqRests
          /\ CpuRests' = CpuRests /\ TxRests' = TxRests
      BY <3>1, <3>2
         DEF rxVars, txVars, ctrlVars, userIrqVars, trVars, cpuVars, PeerRests, RxRests, NoByte,
             IrqRests, CpuRests, TxRests, TxWaits, NoRequest
    <3>5. ASSUME NEW n \in Int
          PROVE  /\ RecvSaw(n)' = RecvSaw(n) /\ PeerShows(n)' = PeerShows(n)
                 /\ Follows(n)' = Follows(n) /\ TxIsAt(n)' = TxIsAt(n)
                 /\ Seen(n)' = Seen(n)
      BY <3>2 DEF rxVars, txVars, trVars, recvVars, RecvSaw, PeerShows, Follows, RxAwaits, TxIsAt,
                  Seen, Frame
    <3>6. TxEnds => TxEnds'
      <4>1. /\ TxIsAt(DataBits + 1)' = TxIsAt(DataBits + 1)
            /\ TxIsAt(DataBits + 2)' = TxIsAt(DataBits + 2)
        BY <3>5, Sizes
      <4>2. UNCHANGED <<TxWaits, NoRequest, Requested, tx_clk_cnt, detect_posedge_start, clear_req,
                        tr_state>>
        BY <3>2 DEF txVars, ctrlVars, trVars, TxWaits, NoRequest, Requested
      <4>3. QED
        BY <3>2, <4>1, <4>2 DEF TxEnds
    <3>7. Resting => Resting'
      BY <3>2, <3>4, <3>5, <3>6 DEF Resting
    <3>8. Sending => Sending'
      <4>1. Receiving => Receiving'
        <5>1. (\E n \in 0 .. DataBits : Follows(n)) => (\E n \in 0 .. DataBits : Follows(n))'
          BY <3>5, Sizes
        <5>2. UNCHANGED <<tb_phase, tr_state, ser_tx, tx_pattern, expected, tb_tx_index, rx_state,
                          rx_clk_cnt, rx_index, NoByte>>
          BY <3>2 DEF rxVars, trVars, ctrlVars, NoByte
        <5>3. QED
          BY <3>4, <3>5, <3>6, <5>1, <5>2 DEF Receiving
      <4>2. QED
        BY <3>2, <3>4, <3>5, <4>1 DEF Sending
    <3>9. Serving => Serving'
      <4>1. /\ Announced => Announced'
            /\ Loading => Loading'
            /\ Interrupting => Interrupting'
            /\ Fetching => Fetching'
            /\ Fetched => Fetched'
            /\ Answering => Answering'
        BY <3>1, <3>2, <3>4
           DEF rxVars, ctrlVars, userIrqVars, trVars, cpuVars, NoByte, Announced, Loading, Held,
               Interrupting, Fetching, Fetched, Answering
      <4>2. QED
        BY <3>2, <3>4, <3>5, <4>1 DEF Serving
    <3>10. Echoing => Echoing'
      <4>1. (Taken => Taken') /\ (Detecting => Detecting')
        <5>1. UNCHANGED <<HandedOver, o_tx_start, detect_posedge_start, pc, num, wb, o_wb_ack, o_tx,
                          expected, CpuRests>>
          BY <3>1, <3>2, <3>4, <3>5 DEF txVars, ctrlVars, trVars, cpuVars, HandedOver, TxWaits
        <5>2. QED
          BY <5>1 DEF Taken, Detecting
      <4>2. Transmitting => Transmitting'
        <5>1. ASSUME NEW n \in 0 .. DataBits + 2,
                     TxIsAt(n) /\ Seen(n) <= DataBits + 1 /\ RecvSaw(Seen(n))
              PROVE  (TxIsAt(n) /\ Seen(n) <= DataBits + 1 /\ RecvSaw(Seen(n)))'
          BY <3>2, <3>5, <5>1 DEF recvVars, trVars, RecvSaw
        <5>2. UNCHANGED <<Requested, clear_req, tx_buffer, o_tx, expected>>
          BY <3>2 DEF txVars, ctrlVars, trVars, Requested
        <5>3. QED
          BY <3>4, <5>1, <5>2 DEF Transmitting
      <4>3. QED
        BY <3>2, <3>4, <4>1, <4>2 DEF Echoing
    <3>11. QED
      BY <2>1, <3>3, <3>7, <3>8, <3>9, <3>10 DEF EchoInv
  <2>4. QED
    BY <2>1, <2>2, <2>3
<1>3. QED
  BY <1>1, <1>2, PTL DEF EchoSpec

\* The service routine reads RX_DATA only while the receiver holds a byte for
\* it, and writes TX_DATA only to a transmitter that takes the byte: the two
\* accesses the controller would otherwise ignore.
THEOREM AccessesFindHardwareReady == ASSUME Testbench PROVE EchoSpec => []AccessesLand
<1>1. EchoInv => AccessesLand
  <2>1. SUFFICES ASSUME EchoInv, wb.valid, ~o_wb_ack
                 PROVE  /\ pc = "data" => stat_reg.rx_full
                        /\ pc = "write" => tx_state = "WAIT" /\ ~tx_start_local /\ ~clear_req
    BY DEF AccessesLand
  <2>2. CASE Resting \/ Sending
    BY <2>1, <2>2 DEF Resting, Sending, CpuRests
  <2>3. CASE Serving
    <3>1. tx_state = "WAIT" /\ ~tx_start_local /\ ~clear_req
      BY <2>3 DEF Serving, TxRests, TxWaits, NoRequest
    <3>2. CASE Announced \/ Loading \/ Interrupting \/ Fetched
      BY <2>1, <3>2 DEF Announced, Loading, Interrupting, Fetched, CpuRests
    <3>3. CASE Fetching
      BY <3>1, <3>3 DEF Fetching, Held
    <3>4. CASE Answering
      BY <3>1, <3>4 DEF Answering
    <3>5. QED
      BY <2>3, <3>2, <3>3, <3>4 DEF Serving
  <2>4. CASE Echoing
    BY <2>1, <2>4 DEF Echoing, Taken, Detecting, Transmitting, CpuRests
  <2>5. QED
    BY <2>1, <2>2, <2>3, <2>4 DEF EchoInv
<1>2. QED
  BY <1>1, EchoInvariance, PTL

\* While the routine runs no second interrupt is on its way: it never returns
\* to an event for which there is no byte.
THEOREM InterruptsAreSingle == ASSUME Testbench PROVE EchoSpec => []OneInterruptPerByte
<1>1. EchoInv => OneInterruptPerByte
  <2>1. SUFFICES ASSUME EchoInv, pc \in {"stat5", "stat4", "data", "poll", "write"}
                 PROVE  IrqRests
    <3>1. IrqRests => ~pending /\ ~Trigger
      BY DEF IrqRests, Trigger
    <3>2. QED
      BY <3>1 DEF OneInterruptPerByte
  <2>2. QED
    BY <2>1 DEF EchoInv, Resting, Sending, Serving, Echoing, Announced, Loading, Interrupting,
                Fetching, Fetched, Answering, Taken, Detecting, Transmitting, CpuRests
<1>2. QED
  BY <1>1, EchoInvariance, PTL

\* The program implements the channel, as far as safety goes: what comes back
\* to the peer is the byte it sent, once, and nothing else ever comes back.
THEOREM EchoImplementsChannel ==
  ASSUME Testbench
  PROVE  EchoSpec => Channel!Init /\ [][Channel!Next]_<<awaiting, expected, tb_rx_data>>
<1>1. EchoInit => Channel!Init
  BY EchoStarts
<1>2. EchoInv /\ [EchoNext]_echoVars
        => [Channel!Next]_<<awaiting, expected, tb_rx_data>>
  <2>1. SUFFICES ASSUME EchoInv, EchoNext
                 PROVE  \/ Channel!Next
                        \/ UNCHANGED <<awaiting, expected, tb_rx_data>>
    BY DEF echoVars, tbVars, trVars, recvVars
  <2>2. awaiting \in BOOLEAN /\ awaiting' \in BOOLEAN
    BY <2>1, EchoStep DEF EchoInv, TbTypes
  <2>3. CASE Stutters
    BY <2>2, <2>3 DEF Stutters
  <2>4. CASE Sends
    BY <2>4 DEF Sends, Channel!Next, Channel!Send
  <2>5. CASE Echoes
    BY <2>5 DEF Echoes, Channel!Next, Channel!Echo
  <2>6. QED
    BY <2>1, <2>3, <2>4, <2>5, EchoStep
<1>3. QED
  BY <1>1, <1>2, EchoInvariance, PTL DEF EchoSpec

=============================================================================

------------------------------ MODULE FirProofs ----------------------------
(***************************************************************************)
(* Theorems about the filter of lab 4: under any program (FirOpen), for    *)
(* 2 to 15 taps, every width of the length and every set of accesses; and  *)
(* under its own program (FirHost), for every length of a run that fills   *)
(* the window and fits its register, and every number of runs.             *)
(*                                                                         *)
(* Handshakes.  The bridge and the filter answer an access through a chain *)
(* of registers in two modules, and nothing in that chain looks at whether *)
(* the access is still there.  What keeps answers and accesses together is *)
(* the age of the access: Writing, Reading and Streaming say, for each     *)
(* channel, which registers are up at which age, and what may be left over *)
(* from an access that is over.                                            *)
(*                                                                         *)
(* Flow follows one sample through the filter: in which of its phases it   *)
(* is, and which products the sum is made of by then.                      *)
(*                                                                         *)
(* The program.  It shares no clock count with the filter: it learns how   *)
(* far the filter is by polling, and what a poll returns was sampled by    *)
(* the poll before it.  HostInv says, for each place the program can be    *)
(* at, in which of five phases the filter is, what the data RAM holds      *)
(* (while it is shifted, byte lane by byte lane), which products the sum   *)
(* is made of, and what the two stale copies of the status may say.        *)
(***************************************************************************)
EXTENDS FirOpen, FirHost, SequenceTheorems, TLAPS

\* The registers of the handshakes, and the request, have their types.
HandshakeTypes ==
  /\ awvalid \in BOOLEAN /\ awaddr \in AxiLite
  /\ arvalid \in BOOLEAN /\ araddr \in AxiLite /\ rready \in BOOLEAN
  /\ ss_tvalid \in BOOLEAN /\ sm_tready \in BOOLEAN
  /\ isStateReady_r \in BOOLEAN /\ isStateReady_w \in BOOLEAN
  /\ tap_WE_shift_n \in 0 .. 3 /\ SRAM_readCycle \in 0 .. 2
  /\ wb.valid \in BOOLEAN /\ wb.we \in BOOLEAN /\ wb.adr \in Address
  /\ age \in 0 .. MaxWait + 1

\* The write channel is up for the access on the bus, or for one to a hole.
Writing ==
  /\ awvalid => \/ awaddr.reg = "hole"
                \/ wb.valid /\ wb.we /\ wb.adr = awaddr
  /\ awvalid /\ awaddr.reg \in {"ap_state", "data_length"}
       => age = IF isStateReady_w THEN 2 ELSE 1
  /\ isStateReady_w => awvalid /\ awaddr.reg \in {"ap_state", "data_length"}
  /\ awvalid /\ awaddr.reg = "coeff" => age = tap_WE_shift_n + 1
  /\ tap_WE_shift_n # 0 => awvalid /\ awaddr.reg = "coeff"
  /\ wb.valid /\ wb.we /\ wb.adr.reg \in {"ap_state", "data_length", "coeff"}
       => age = 0 \/ (awvalid /\ awaddr = wb.adr)

\* The read channel is up for the access on the bus, or for one that is never
\* answered; isStateReady_r may outlive its access by a cycle.
Reading ==
  /\ arvalid => \/ araddr.reg \in {"hole", "data_length"}
                \/ wb.valid /\ ~wb.we /\ wb.adr = araddr /\ rready
  /\ arvalid /\ araddr.reg = "ap_state" => age = IF isStateReady_r THEN 2 ELSE 1
  /\ arvalid /\ araddr.reg = "coeff" =>
       age = SRAM_readCycle + 1 /\ (isStateReady_r <=> SRAM_readCycle = 2)
  /\ SRAM_readCycle # 0 => arvalid /\ araddr.reg = "coeff"
  /\ isStateReady_r => ~wb.valid \/ (arvalid /\ araddr.reg \in {"ap_state", "coeff"})
  /\ wb.valid /\ ~wb.we /\ wb.adr.reg \in {"ap_state", "coeff"}
       => age = 0 \/ (arvalid /\ araddr = wb.adr)

\* A stream strobe is up for the access on the bus, or outlives it by a cycle.
Streaming ==
  /\ ss_tvalid \/ sm_tready => ~wb.valid \/ (wb.adr \in Stream /\ age = 1)
  /\ wb.valid /\ wb.adr \in Stream => age = 0 \/ (age = 1 /\ (ss_tvalid \/ sm_tready))

IInv == HandshakeTypes /\ Writing /\ Reading /\ Streaming

-----------------------------------------------------------------------------
\* An address of the project belongs to one channel, by the register it names.
LEMMA AddressKinds ==
  ASSUME NEW a \in Address
  PROVE  /\ a.reg \in {"ap_state", "data_length", "hole", "coeff", "x", "y"}
         /\ a \in AxiLite <=> a.reg \in {"ap_state", "data_length", "hole", "coeff"}
         /\ a \in Stream <=> a.reg \in {"x", "y"}
  BY DEF Address, AxiLite, Stream, Register, Coefficient

\* The register of an AXI-lite address.
LEMMA LiteRegisters ==
  ASSUME NEW a \in AxiLite
  PROVE  a.reg \in {"ap_state", "data_length", "hole", "coeff"}
  BY AddressKinds DEF Address

\* A request is well formed.
LEMMA RequestTyped ==
  ASSUME NEW r \in Requests
  PROVE  r.valid /\ r.we \in BOOLEAN /\ r.adr \in Address
  BY RequestsAssumption

\* No request is on the bus after NoRequest.
LEMMA NoRequestTyped ==
  NoRequest.valid = FALSE /\ NoRequest.we = FALSE /\ NoRequest.adr \in Address
  BY DEF NoRequest, Address, AxiLite

\* The bound on the wait is a number.
LEMMA WaitIsNat == MaxWait \in Nat /\ MaxWait >= 4
  BY RequestsAssumption

\* What the master does in a cycle: the next request is the same one, a cycle
\* older, or a new one of age 0, or none.
LEMMA MasterStep ==
  ASSUME HandshakeTypes, OpenNext
  PROVE  /\ wb'.valid \in BOOLEAN /\ wb'.we \in BOOLEAN /\ wb'.adr \in Address
         /\ age' \in 0 .. MaxWait + 1
         /\ \/ /\ wb.valid /\ ~wbs_ack_o /\ wb' = wb
               /\ age' = IF age <= MaxWait THEN age + 1 ELSE age
            \/ ~wb.valid /\ age' = 0
            \/ wb.valid /\ ~wb'.valid /\ age' = 0 /\ (wbs_ack_o \/ ~Answerable(wb))
<1>1. Ages
  BY DEF OpenNext
<1>2. ~Holds => age' = 0
  BY <1>1 DEF Ages
<1>3. 0 \in 0 .. MaxWait + 1
  BY WaitIsNat
<1>4. CASE Issue
  <2>1. ~wb.valid /\ wb' \in Requests
    BY <1>4 DEF Issue
  <2>2. wb'.valid /\ wb'.we \in BOOLEAN /\ wb'.adr \in Address
    BY <2>1, RequestTyped
  <2>3. age' = 0
    BY <2>1, <1>2 DEF Holds
  <2>4. QED
    BY <2>1, <2>2, <2>3, <1>3
<1>5. CASE StaysIdle
  <2>1. ~wb.valid /\ wb' = wb
    BY <1>5 DEF StaysIdle
  <2>2. age' = 0
    BY <2>1, <1>2 DEF Holds
  <2>3. QED
    BY <2>1, <2>2, <1>3 DEF HandshakeTypes
<1>6. CASE Holds
  <2>1. wb.valid /\ ~wbs_ack_o /\ wb' = wb
    BY <1>6 DEF Holds
  <2>2. age' = IF age <= MaxWait THEN age + 1 ELSE age
    BY <1>1, <1>6 DEF Ages
  <2>3. age' \in 0 .. MaxWait + 1
    BY <2>2, WaitIsNat DEF HandshakeTypes
  <2>4. QED
    BY <2>1, <2>2, <2>3 DEF HandshakeTypes
<1>7. CASE Drops
  <2>1. wb.valid /\ wbs_ack_o /\ wb' = NoRequest
    BY <1>7 DEF Drops
  <2>2. age' = 0
    BY <2>1, <1>2 DEF Holds
  <2>3. QED
    BY <2>1, <2>2, <1>3, NoRequestTyped
<1>8. CASE GivesUp
  <2>1. wb.valid /\ ~wbs_ack_o /\ ~Answerable(wb) /\ wb' = NoRequest
    BY <1>8 DEF GivesUp
  <2>2. ~wb'.valid
    BY <2>1, NoRequestTyped
  <2>3. age' = 0
    BY <2>1, <2>2, <1>2 DEF Holds
  <2>4. QED
    BY <2>1, <2>3, <1>3, NoRequestTyped
<1>9. QED
  BY <1>4, <1>5, <1>6, <1>7, <1>8 DEF OpenNext

\* The registers of the handshakes after an edge.
LEMMA RegisterStep ==
  ASSUME OpenNext
  PROVE  WriteChannel /\ ReadChannel /\ StreamChannels /\ ReadClock
         /\ ControlClock /\ TapClock
  BY DEF OpenNext, ProjectClock, FirClock, BridgeClock

\* The registers keep their types.
LEMMA TypesStep ==
  ASSUME IInv, OpenNext
  PROVE  HandshakeTypes'
<1> USE DEF IInv, HandshakeTypes
<1>1. /\ awvalid' \in BOOLEAN /\ awaddr' \in AxiLite
      /\ arvalid' \in BOOLEAN /\ araddr' \in AxiLite /\ rready' \in BOOLEAN
      /\ ss_tvalid' \in BOOLEAN /\ sm_tready' \in BOOLEAN
  BY RegisterStep DEF WriteChannel, ReadChannel, StreamChannels, isAddr_axi_w,
     isAddr_axi_r, isAddr_axis_w, isAddr_axis_r
<1>2. isStateReady_w' \in BOOLEAN
  BY RegisterStep DEF ControlClock
<1>3. tap_WE_shift_n' \in 0 .. 3
  BY RegisterStep DEF TapClock
<1>4. isStateReady_r' \in BOOLEAN /\ SRAM_readCycle' \in 0 .. 2
  <2>1. ReadClock
    BY RegisterStep
  <2>2. SRAM_readCycle' \in {0, SRAM_readCycle, (SRAM_readCycle + 1) % 4}
    BY <2>1 DEF ReadClock
  <2>3. SRAM_readCycle = 2 => SRAM_readCycle' \in {0, 2}
    BY <2>1 DEF ReadClock
  <2>4. isStateReady_r' \in BOOLEAN
    BY <2>1 DEF ReadClock
  <2>5. QED
    BY <2>2, <2>3, <2>4
<1>5. QED
  BY <1>1, <1>2, <1>3, <1>4, MasterStep

\* The write channel stays with its access.
LEMMA WritingStep ==
  ASSUME IInv, OpenNext
  PROVE  Writing'
<1> USE DEF IInv
<1>1. HandshakeTypes /\ HandshakeTypes'
  BY TypesStep
<1>2. /\ awaddr.reg \in {"ap_state", "data_length", "hole", "coeff"}
      /\ awaddr'.reg \in {"ap_state", "data_length", "hole", "coeff"}
  BY <1>1, LiteRegisters DEF HandshakeTypes
<1>3. awvalid' = (~awready /\ (isAddr_axi_w \/ awvalid))
  BY RegisterStep DEF WriteChannel
<1>4. awaddr' = IF isAddr_axi_w THEN wb.adr ELSE awaddr
  BY RegisterStep DEF WriteChannel
<1>5. isStateReady_w' = (~isStateReady_w /\ (WritesTo("ap_state") \/ WritesTo("data_length")))
  BY RegisterStep DEF ControlClock
<1>6. tap_WE_shift_n' = IF WritesTo("coeff") THEN (tap_WE_shift_n + 1) % 4
                          ELSE tap_WE_shift_n
  BY RegisterStep DEF TapClock
<1>7. WritesTo("ap_state") \/ WritesTo("data_length") \/ WritesTo("coeff")
        => wb.valid /\ wb.we /\ wb.adr = awaddr
  BY DEF Writing, WritesTo
<1>8. WritesTo("coeff") => ~WritesTo("ap_state") /\ ~WritesTo("data_length")
  BY DEF WritesTo
<1>9. isAddr_axi_w <=> wb.valid /\ wb.we /\ wb.adr.reg \in {"ap_state", "data_length", "hole", "coeff"}
  BY <1>1, AddressKinds DEF isAddr_axi_w, HandshakeTypes
<1>10. CASE wb.valid /\ ~wbs_ack_o /\ wb' = wb /\ age' = IF age <= MaxWait THEN age + 1 ELSE age
  <2>1. ~awready /\ tap_WE_shift_n # 3 /\ ~isStateReady_w
    BY <1>10 DEF wbs_ack_o, awready
  <2>2. awvalid' = (isAddr_axi_w \/ awvalid)
    BY <2>1, <1>3
  <2>3. CASE isAddr_axi_w
    BY <2>1, <2>2, <2>3, <1>1, <1>2, <1>4, <1>5, <1>6, <1>7, <1>9, <1>10, WaitIsNat
       DEF Writing, WritesTo, HandshakeTypes
  <2>4. CASE ~isAddr_axi_w
    BY <2>1, <2>2, <2>4, <1>1, <1>2, <1>4, <1>5, <1>6, <1>7, <1>9, <1>10
       DEF Writing, WritesTo, HandshakeTypes
  <2>5. QED
    BY <2>3, <2>4
<1>11. CASE ~wb.valid /\ age' = 0
  BY <1>1, <1>2, <1>3, <1>4, <1>5, <1>6, <1>7, <1>9, <1>11
     DEF Writing, WritesTo, HandshakeTypes
<1>12. CASE wb.valid /\ ~wb'.valid /\ age' = 0 /\ (wbs_ack_o \/ ~Answerable(wb))
  <2>1. CASE awready
    BY <2>1, <1>1, <1>2, <1>3, <1>4, <1>5, <1>6, <1>12
       DEF Writing, WritesTo, HandshakeTypes, awready
  <2>2. CASE ~awready
    <3>1. rvalid => ~wb.we
      BY <1>12 DEF Reading, rvalid
    <3>2. ss_tvalid \/ sm_tready => wb.adr \in Stream
      BY <1>12 DEF Streaming
    <3>3. isAddr_axi_w => ~Answerable(wb)
      BY <2>2, <3>1, <3>2, <1>1, <1>9, <1>12, AddressKinds DEF wbs_ack_o, HandshakeTypes
    <3>5. isAddr_axi_w => wb.adr.reg = "hole"
      BY <3>3, <1>9 DEF Answerable
    <3>6. awvalid /\ awaddr.reg # "hole" => isAddr_axi_w /\ wb.adr = awaddr
      BY <1>1, <1>2, <1>9 DEF Writing
    <3>7. awvalid' => awaddr'.reg = "hole"
      BY <3>5, <3>6, <1>3, <1>4
    <3>8. ~isStateReady_w' /\ tap_WE_shift_n' = 0
      BY <3>5, <3>6, <1>1, <1>2, <1>5, <1>6 DEF Writing, WritesTo, HandshakeTypes
    <3>9. QED
      BY <3>7, <3>8, <1>12 DEF Writing
  <2>3. QED
    BY <2>1, <2>2
<1>13. QED
  BY <1>1, <1>10, <1>11, <1>12, MasterStep

\* The read channel stays with its access.
LEMMA ReadingStep ==
  ASSUME IInv, OpenNext
  PROVE  Reading'
<1> USE DEF IInv
<1>1. HandshakeTypes /\ HandshakeTypes'
  BY TypesStep
<1>2. /\ araddr.reg \in {"ap_state", "data_length", "hole", "coeff"}
      /\ araddr'.reg \in {"ap_state", "data_length", "hole", "coeff"}
  BY <1>1, LiteRegisters DEF HandshakeTypes
<1>3. arvalid' = (~isStateReady_r /\ (isAddr_axi_r \/ arvalid))
  BY RegisterStep DEF ReadChannel, rvalid
<1>4. /\ araddr' = IF isAddr_axi_r THEN wb.adr ELSE araddr
      /\ rready' = isAddr_axi_r
  BY RegisterStep DEF ReadChannel
<1>5. /\ ReadsFrom("coeff") /\ rready =>
            /\ SRAM_readCycle' = IF SRAM_readCycle = 2 THEN 0 ELSE (SRAM_readCycle + 1) % 4
            /\ isStateReady_r' = (SRAM_readCycle = 1)
      /\ ~(ReadsFrom("coeff") /\ rready) =>
            /\ SRAM_readCycle' = SRAM_readCycle
            /\ isStateReady_r' = (ReadsFrom("ap_state") /\ rready)
  BY RegisterStep DEF ReadClock
<1>6. ReadsFrom("ap_state") \/ ReadsFrom("coeff")
        => wb.valid /\ ~wb.we /\ wb.adr = araddr /\ rready
  BY DEF Reading, ReadsFrom
<1>7. isAddr_axi_r <=> wb.valid /\ ~wb.we /\ wb.adr.reg \in {"ap_state", "data_length", "hole", "coeff"}
  BY <1>1, AddressKinds DEF isAddr_axi_r, HandshakeTypes
<1>8. CASE wb.valid /\ ~wbs_ack_o /\ wb' = wb /\ age' = IF age <= MaxWait THEN age + 1 ELSE age
  <2>1. ~isStateReady_r
    BY <1>8 DEF wbs_ack_o, rvalid
  <2>2. CASE isAddr_axi_r
    BY <2>1, <2>2, <1>1, <1>2, <1>3, <1>4, <1>5, <1>6, <1>7, <1>8, WaitIsNat
       DEF Reading, ReadsFrom, HandshakeTypes
  <2>3. CASE ~isAddr_axi_r
    BY <2>1, <2>3, <1>1, <1>2, <1>3, <1>4, <1>5, <1>6, <1>7, <1>8
       DEF Reading, ReadsFrom, HandshakeTypes
  <2>4. QED
    BY <2>2, <2>3
<1>9. CASE ~wb.valid /\ age' = 0
  BY <1>1, <1>2, <1>3, <1>4, <1>5, <1>6, <1>7, <1>9
     DEF Reading, ReadsFrom, HandshakeTypes
<1>10. CASE wb.valid /\ ~wb'.valid /\ age' = 0 /\ (wbs_ack_o \/ ~Answerable(wb))
  <2>1. CASE isStateReady_r
    BY <2>1, <1>1, <1>2, <1>3, <1>4, <1>5, <1>6, <1>10
       DEF Reading, ReadsFrom, HandshakeTypes
  <2>2. CASE ~isStateReady_r
    <3>1. awready => wb.we
      BY <1>1, <1>10 DEF Writing, awready, HandshakeTypes
    <3>2. ss_tvalid \/ sm_tready => wb.adr \in Stream
      BY <1>10 DEF Streaming
    <3>3. isAddr_axi_r => ~Answerable(wb)
      BY <2>2, <3>1, <3>2, <1>1, <1>7, <1>10, AddressKinds DEF wbs_ack_o, rvalid, HandshakeTypes
    <3>5. isAddr_axi_r => wb.adr.reg \in {"hole", "data_length"}
      BY <3>3 DEF Answerable
    <3>6. ~ReadsFrom("ap_state") /\ ~ReadsFrom("coeff")
      BY <3>5, <1>2, <1>6, <1>7 DEF ReadsFrom
    <3>7. arvalid' => araddr'.reg \in {"hole", "data_length"}
      BY <3>5, <3>6, <1>2, <1>3, <1>4 DEF ReadsFrom
    <3>8. ~isStateReady_r' /\ SRAM_readCycle' = 0
      BY <3>6, <1>5 DEF Reading, ReadsFrom
    <3>9. QED
      BY <3>7, <3>8, <1>10 DEF Reading
  <2>3. QED
    BY <2>1, <2>2
<1>11. QED
  BY <1>1, <1>8, <1>9, <1>10, MasterStep

\* The stream strobes stay with their access, but for a cycle.
LEMMA StreamingStep ==
  ASSUME IInv, OpenNext
  PROVE  Streaming'
<1> USE DEF IInv
<1>1. /\ ss_tvalid' = isAddr_axis_w /\ sm_tready' = isAddr_axis_r
  BY RegisterStep DEF StreamChannels
<1>2. isAddr_axis_w \/ isAddr_axis_r <=> wb.valid /\ wb.adr \in Stream
  BY DEF isAddr_axis_w, isAddr_axis_r, HandshakeTypes
<1>3. CASE wb.valid /\ ~wbs_ack_o /\ wb' = wb /\ age' = IF age <= MaxWait THEN age + 1 ELSE age
  BY <1>1, <1>2, <1>3, WaitIsNat DEF Streaming, HandshakeTypes, wbs_ack_o
<1>4. CASE ~wb.valid /\ age' = 0
  BY <1>1, <1>2, <1>4 DEF Streaming
<1>5. CASE wb.valid /\ ~wb'.valid /\ age' = 0
  BY <1>5 DEF Streaming
<1>6. QED
  BY <1>3, <1>4, <1>5, MasterStep
-----------------------------------------------------------------------------
(* The theorems. *)

\* The handshake invariant holds in every reachable state of the bridge.
THEOREM Invariance == OpenSpec => []IInv
<1>1. OpenInit => IInv
  <2> SUFFICES ASSUME OpenInit PROVE IInv
    OBVIOUS
  <2>1. /\ ~awvalid /\ ~arvalid /\ ~rready /\ ~ss_tvalid /\ ~sm_tready
        /\ awvalid \in BOOLEAN /\ arvalid \in BOOLEAN /\ rready \in BOOLEAN
        /\ ss_tvalid \in BOOLEAN /\ sm_tready \in BOOLEAN
        /\ awaddr \in AxiLite /\ araddr \in AxiLite
    BY DEF OpenInit, ProjectInit, BridgeInit, AxiLite
  <2>2. /\ ~isStateReady_w /\ isStateReady_w \in BOOLEAN /\ isStateReady_r \in BOOLEAN
        /\ tap_WE_shift_n = 0 /\ SRAM_readCycle = 0
    BY DEF OpenInit, ProjectInit, FirInit
  <2>3. ~wb.valid /\ wb.valid \in BOOLEAN /\ wb.we \in BOOLEAN /\ wb.adr \in Address /\ age = 0
    BY NoRequestTyped DEF OpenInit, ProjectInit
  <2>4. QED
    BY <2>1, <2>2, <2>3, WaitIsNat DEF IInv, HandshakeTypes, Writing, Reading, Streaming
<1>2. IInv /\ [OpenNext]_<<vars, age>> => IInv'
  <2>1. CASE OpenNext
    BY <2>1, TypesStep, WritingStep, ReadingStep, StreamingStep DEF IInv
  <2>2. CASE UNCHANGED <<vars, age>>
    BY <2>2 DEF vars, axiVars, firVars, regVars, tapVars, IInv, HandshakeTypes,
                Writing, Reading, Streaming
  <2>3. QED
    BY <2>1, <2>2
<1>3. QED
  BY <1>1, <1>2, PTL DEF OpenSpec

\* An access the project answers is answered within MaxWait cycles, and four
\* suffice.
THEOREM Answered == OpenSpec => []AnsweredInTime
<1>1. IInv => AnsweredInTime
  <2> SUFFICES ASSUME IInv, wb.valid, Answerable(wb)
               PROVE  age <= MaxWait
    BY DEF AnsweredInTime
  <2>1. wb.adr.reg \in {"ap_state", "data_length", "hole", "coeff", "x", "y"}
    BY AddressKinds DEF IInv, HandshakeTypes
  <2>2. CASE wb.adr \in Stream
    BY <2>2, WaitIsNat DEF IInv, Streaming
  <2>3. CASE wb.we /\ wb.adr.reg \in {"ap_state", "data_length", "coeff"}
    BY <2>3, WaitIsNat DEF IInv, Writing, HandshakeTypes
  <2>4. CASE ~wb.we /\ wb.adr.reg \in {"ap_state", "coeff"}
    BY <2>4, WaitIsNat DEF IInv, Reading, HandshakeTypes
  <2>5. QED
    BY <2>1, <2>2, <2>3, <2>4, AddressKinds DEF Answerable, IInv, HandshakeTypes
<1>2. QED
  BY <1>1, Invariance, PTL

\* The byte counter of coefficient writes is at the first lane between writes.
THEOREM ByteCounterAligned == OpenSpec => []ByteCounterIsAligned
<1>1. IInv => ByteCounterIsAligned
  BY DEF IInv, Writing, ByteCounterIsAligned
<1>2. QED
  BY <1>1, Invariance, PTL

\* An access of age 0 sees no acknowledgement.
FirstCycleIsQuiet == wb.valid /\ age = 0 => ~wbs_ack_o

\* The invariant says so.
LEMMA QuietFirstCycle == IInv => FirstCycleIsQuiet
<1> SUFFICES ASSUME IInv, wb.valid, age = 0
             PROVE  ~wbs_ack_o
  BY DEF FirstCycleIsQuiet
<1>1. ~isStateReady_w /\ tap_WE_shift_n # 3
  BY DEF IInv, Writing, HandshakeTypes
<1>2. ~isStateReady_r
  BY DEF IInv, Reading, HandshakeTypes
<1>3. ~ss_tvalid /\ ~sm_tready
  BY DEF IInv, Streaming
<1>4. QED
  BY <1>1, <1>2, <1>3 DEF wbs_ack_o, awready, rvalid

\* No acknowledgement left over from an access answers the next one.
THEOREM AcksAreFresh == OpenSpec => NoStaleAck
<1>1. IInv /\ FirstCycleIsQuiet' /\ [OpenNext]_<<vars, age>>
        => [Issues => ~wbs_ack_o']_<<vars, age>>
  <2> SUFFICES ASSUME IInv, FirstCycleIsQuiet', OpenNext, Issues
               PROVE  ~wbs_ack_o'
    OBVIOUS
  <2>1. ~wb.valid /\ wb'.valid
    BY DEF Issues
  <2>2. age' = 0
    BY <2>1, MasterStep DEF IInv
  <2>3. QED
    BY <2>1, <2>2 DEF FirstCycleIsQuiet
<1>2. QED
  BY <1>1, Invariance, QuietFirstCycle, PTL DEF OpenSpec, NoStaleAck

-----------------------------------------------------------------------------
(* A sum is complete.  A sample goes through five phases, and the shift and  *)
(* the computation never run at once: each begins only in the phase that     *)
(* the other has ended.                                                      *)

Still == state_data = "stop" /\ state_FIR = "stop"

NoSample == /\ Still /\ isFIRReady /\ ~isY_readyRead /\ Len(sm_tdata) = 0
            /\ isSRAM_dataReady => isFIRDoneFirst
InShift == /\ state_data \in {"read", "read_wait", "write"} /\ state_FIR = "stop"
           /\ isFIRReady /\ ~isY_readyRead /\ Len(sm_tdata) = 0
           /\ ~isSRAM_dataReady /\ (isFIRDoneFirst => state_data = "read")
HasWindow == /\ Still /\ isFIRReady /\ ~isY_readyRead /\ Len(sm_tdata) = 0
             /\ isSRAM_dataReady /\ ~isFIRDoneFirst /\ data_validNum >= 1
InSum == /\ state_data = "stop" /\ state_FIR \in {"read", "read_wait", "calculate"}
         /\ ~isY_readyRead
         /\ Len(sm_tdata) = idx_reg /\ idx_reg < data_validNum
HasOutput == /\ Still /\ isFIRReady /\ isY_readyRead /\ Len(sm_tdata) = data_validNum
             /\ isSRAM_dataReady => isFIRDoneFirst

StreamWrite == wb.valid /\ wb.we /\ wb.adr \in Stream

FlowTypes ==
  /\ data_validNum \in 0 .. Tape_Num /\ idx_reg \in 0 .. 15 /\ \E S : sm_tdata \in Seq(S)
  /\ isSRAM_dataReady \in BOOLEAN

Flow ==
  /\ FlowTypes
  /\ NoSample \/ InShift \/ HasWindow \/ InSum \/ HasOutput
  /\ StreamWrite => NoSample
  /\ ss_tvalid => \/ StreamWrite
                  \/ ~wb.valid /\ (state_data = "read" \/ (NoSample /\ ap_idle))
  /\ sm_tready /\ wb.valid => ~wb.we

\* The blocks the phases depend on.
LEMMA PhaseClocks ==
  ASSUME OpenNext
  PROVE  /\ DataStop \/ DataRead \/ DataReadWait \/ DataWrite
         /\ CalcStop \/ CalcRead \/ CalcReadWait \/ Calculate
         /\ ap_idle' = (ap_done \/ (ap_idle /\ ~WritesTo("ap_state")))
         /\ ss_tvalid' = isAddr_axis_w /\ sm_tready' = isAddr_axis_r
  BY DEF OpenNext, ProjectClock, FirClock, BridgeClock, DataClock, CalcClock, ControlClock,
         StreamChannels

\* A sequence stays one when an element is appended.
LEMMA AppendIsSeq ==
  ASSUME NEW S, NEW s \in Seq(S), NEW e
  PROVE  Append(s, e) \in Seq(S \cup {e}) /\ Len(Append(s, e)) = Len(s) + 1
<1> DEFINE T == S \cup {e}
<1>1. S \subseteq T /\ e \in T
  OBVIOUS
<1> HIDE DEF T
<1>2. s \in Seq(T)
  BY <1>1, SeqMonotonic
<1>3. Append(s, e) \in Seq(T) /\ Len(Append(s, e)) = Len(s) + 1
  BY <1>1, <1>2, AppendProperties
<1>4. QED
  BY <1>3 DEF T

\* The counters stay in their ranges, and the sum stays a sequence.
LEMMA FlowTypesStep ==
  ASSUME FlowTypes, OpenNext
  PROVE  FlowTypes'
<1>0. DataStop \/ DataRead \/ DataReadWait \/ DataWrite
  BY PhaseClocks
<1>1. data_validNum' \in 0 .. Tape_Num
  <2>1. data_validNum \in 0 .. Tape_Num
    BY DEF FlowTypes
  <2>2. \/ data_validNum' = data_validNum
        \/ data_validNum < Tape_Num /\ data_validNum' = data_validNum + 1
    BY <1>0 DEF DataStop, DataRead, DataReadWait, DataWrite
  <2>3. QED
    BY <2>1, <2>2, FirAssumption
<1>2. isSRAM_dataReady' \in BOOLEAN
  <2>1. isSRAM_dataReady \in BOOLEAN
    BY DEF FlowTypes
  <2>2. QED
    BY <1>0, <2>1 DEF DataStop, DataRead, DataReadWait, DataWrite
<1>3. idx_reg' \in 0 .. 15
  <2>1. CalcStop \/ CalcRead \/ CalcReadWait \/ Calculate
    BY PhaseClocks
  <2>2. idx_reg \in 0 .. 15
    BY DEF FlowTypes
  <2>3. idx_reg' \in {0, idx_reg, (idx_reg + 1) % 16}
    BY <2>1 DEF CalcStop, CalcRead, CalcReadWait, Calculate
  <2>4. QED
    BY <2>2, <2>3
<1>4. \E S : sm_tdata' \in Seq(S)
  <2>1. PICK S : sm_tdata \in Seq(S)
    BY DEF FlowTypes
  <2>2. \/ sm_tdata' = <<>> \/ sm_tdata' = sm_tdata
        \/ sm_tdata' = Append(sm_tdata, <<tap_Do, data_Do>>)
    BY PhaseClocks DEF CalcStop, CalcRead, CalcReadWait, Calculate
  <2>3. <<>> \in Seq(S)
    OBVIOUS
  <2>4. Append(sm_tdata, <<tap_Do, data_Do>>) \in Seq(S \cup {<<tap_Do, data_Do>>})
    BY <2>1, AppendIsSeq
  <2>5. QED
    BY <2>1, <2>2, <2>3, <2>4
<1>5. QED
  BY <1>1, <1>2, <1>3, <1>4 DEF FlowTypes

\* Without a sample to accept, a resting filter rests.
LEMMA RestStays ==
  ASSUME OpenNext, NoSample, ss_tvalid => ap_idle
  PROVE  NoSample'
<1>1. DataStop /\ CalcStop
  BY PhaseClocks DEF NoSample, Still, DataRead, DataReadWait, DataWrite, CalcRead,
     CalcReadWait, Calculate
<1>2. state_data' = "stop" /\ (isSRAM_dataReady' => isSRAM_dataReady)
  BY <1>1 DEF DataStop, isX_readyWrite
<1>3. QED
  BY <1>1, <1>2 DEF CalcStop, NoSample, Still, sm_tvalid

\* A sample is accepted from rest only, and then the earlier one is forgotten.
LEMMA NoSampleStep ==
  ASSUME OpenNext, NoSample
  PROVE  NoSample' \/ InShift'
<1>1. CASE ss_tvalid => ap_idle
  BY <1>1, RestStays
<1>2. CASE ss_tvalid /\ ~ap_idle
  <2>1. DataStop /\ CalcStop
    BY PhaseClocks DEF NoSample, Still, DataRead, DataReadWait, DataWrite, CalcRead,
       CalcReadWait, Calculate
  <2>2. state_data' = "read" /\ ~isSRAM_dataReady'
    BY <1>2, <2>1 DEF DataStop, isX_readyWrite, ss_tready, NoSample, Still
  <2>3. QED
    BY <2>1, <2>2 DEF CalcStop, NoSample, InShift, Still, sm_tvalid
<1>3. QED
  BY <1>1, <1>2

\* Shifting ends with a loaded window.
LEMMA InShiftStep ==
  ASSUME OpenNext, FlowTypes, InShift
  PROVE  InShift' \/ HasWindow'
<1>1. CalcStop
  BY PhaseClocks DEF InShift, CalcRead, CalcReadWait, Calculate
<1>2. /\ state_FIR' = "stop" /\ isFIRReady' /\ ~isY_readyRead' /\ Len(sm_tdata') = 0
      /\ ~isFIRDoneFirst'
  BY <1>1 DEF CalcStop, InShift, sm_tvalid
<1>3. DataRead \/ DataReadWait \/ DataWrite
  BY PhaseClocks DEF InShift, DataStop
<1>4. CASE state_data = "write" /\ LastLane /\ data_n = 0
  <2>1. state_data' = "stop" /\ isSRAM_dataReady' /\ data_validNum' >= 1
    BY <1>3, <1>4, FirAssumption DEF DataRead, DataReadWait, DataWrite, FlowTypes
  <2>2. QED
    BY <1>2, <2>1 DEF HasWindow, Still
<1>5. CASE ~(state_data = "write" /\ LastLane /\ data_n = 0)
  <2>1. state_data' \in {"read", "read_wait", "write"} /\ ~isSRAM_dataReady'
    BY <1>3, <1>5 DEF DataRead, DataReadWait, DataWrite, InShift
  <2>2. QED
    BY <1>2, <2>1 DEF InShift
<1>6. QED
  BY <1>4, <1>5

\* A sample that is in starts the computation at once.
LEMMA HasWindowStep ==
  ASSUME OpenNext, Flow, HasWindow
  PROVE  InSum'
<1>1. DataStop /\ CalcStop /\ ~ss_tvalid
  BY PhaseClocks DEF Flow, HasWindow, NoSample, Still, DataRead, DataReadWait, DataWrite,
     CalcRead, CalcReadWait, Calculate
<1>2. state_data' = "stop" /\ data_validNum' = data_validNum
  BY <1>1 DEF DataStop
<1>3. /\ state_FIR' = "read" /\ ~isY_readyRead' /\ Len(sm_tdata') = 0 /\ idx_reg' = 0
  BY <1>1 DEF CalcStop, HasWindow, sm_tvalid
<1>4. QED
  BY <1>2, <1>3 DEF InSum, HasWindow, Flow, FlowTypes

\* Each round of the computation appends one product.
LEMMA InSumStep ==
  ASSUME OpenNext, Flow, InSum
  PROVE  InSum' \/ HasOutput'
<1>1. DataStop /\ ~ss_tvalid
  BY PhaseClocks DEF Flow, InSum, NoSample, Still, DataRead, DataReadWait, DataWrite
<1>2. state_data' = "stop" /\ data_validNum' = data_validNum
  BY <1>1 DEF DataStop
<1>3. CASE state_FIR # "calculate"
  <2>1. CalcRead \/ CalcReadWait
    BY <1>3, PhaseClocks DEF InSum, CalcStop, Calculate
  <2>2. QED
    BY <1>2, <2>1 DEF CalcRead, CalcReadWait, InSum
<1>4. CASE state_FIR = "calculate"
  <2>1. Calculate
    BY <1>4, PhaseClocks DEF CalcStop, CalcRead, CalcReadWait
  <2>2. PICK S : sm_tdata \in Seq(S)
    BY DEF Flow, FlowTypes
  <2>3. Len(sm_tdata') = Len(sm_tdata) + 1 /\ Len(sm_tdata) \in Nat
    BY <2>1, <2>2, AppendIsSeq DEF Calculate
  <2>4. data_validNum \in 0 .. 15 /\ idx_reg \in 0 .. 15
    BY FirAssumption DEF Flow, FlowTypes
  <2>5. CASE idx_reg = data_validNum - 1
    <3>1. state_FIR' = "stop" /\ isFIRReady' /\ isY_readyRead' /\ isFIRDoneFirst'
      BY <2>1, <2>5 DEF Calculate
    <3>2. Len(sm_tdata') = data_validNum
      BY <2>3, <2>4, <2>5 DEF InSum
    <3>3. QED
      BY <1>2, <3>1, <3>2 DEF HasOutput, Still
  <2>6. CASE idx_reg # data_validNum - 1
    <3>1. state_FIR' = "read" /\ ~isY_readyRead' /\ idx_reg' = (idx_reg + 1) % 16
      BY <2>1, <2>6 DEF Calculate
    <3>2. idx_reg + 1 < data_validNum /\ idx_reg' = idx_reg + 1
      BY <2>4, <2>6, <3>1 DEF InSum
    <3>3. QED
      BY <1>2, <2>3, <2>4, <3>1, <3>2 DEF InSum
  <2>7. QED
    BY <2>5, <2>6
<1>5. QED
  BY <1>3, <1>4

\* The sum stays until it is taken.
LEMMA HasOutputStep ==
  ASSUME OpenNext, Flow, HasOutput
  PROVE  HasOutput' \/ NoSample'
<1>1. DataStop /\ CalcStop /\ ~ss_tvalid
  BY PhaseClocks DEF Flow, HasOutput, NoSample, Still, DataRead, DataReadWait, DataWrite,
     CalcRead, CalcReadWait, Calculate
<1>2. state_data' = "stop" /\ data_validNum' = data_validNum /\ (isSRAM_dataReady' => isSRAM_dataReady)
  BY <1>1 DEF DataStop
<1>3. Len(<<>>) = 0
  OBVIOUS
<1>4. QED
  BY <1>1, <1>2, <1>3 DEF CalcStop, HasOutput, NoSample, Still

\* The stream's write side keeps to its phase.
LEMMA StreamWriteStep ==
  ASSUME IInv, Flow, OpenNext
  PROVE  /\ StreamWrite' => NoSample'
         /\ ss_tvalid' => \/ StreamWrite'
                          \/ ~wb'.valid /\ (state_data' = "read" \/ (NoSample' /\ ap_idle'))
         /\ sm_tready' /\ wb'.valid => ~wb'.we
<1>1. /\ ss_tvalid' = StreamWrite /\ sm_tready' = (wb.valid /\ ~wb.we /\ wb.adr \in Stream)
  BY PhaseClocks DEF StreamWrite, isAddr_axis_w, isAddr_axis_r
<1>2. CASE Issue \/ StaysIdle
  <2>1. ~wb.valid /\ ~StreamWrite
    BY <1>2 DEF Issue, StaysIdle, StreamWrite
  <2>2. ASSUME StreamWrite' PROVE NoSample'
    <3>1. Settled
      BY <1>2, <2>1, <2>2 DEF Issue, StaysIdle, StreamWrite
    <3>2. NoSample
      BY <3>1 DEF Settled, Flow, InShift, HasWindow, InSum, HasOutput, Still
    <3>3. ss_tvalid => ap_idle
      BY <2>1, <3>2 DEF Flow, NoSample, Still
    <3>4. QED
      BY <3>2, <3>3, RestStays
  <2>3. QED
    BY <1>1, <2>1, <2>2
<1>3. CASE Holds
  <2>1. wb' = wb /\ wb.valid /\ ~ss_tvalid
    BY <1>3 DEF Holds, wbs_ack_o
  <2>2. StreamWrite => NoSample'
    BY <2>1, RestStays DEF Flow
  <2>3. QED
    BY <1>1, <2>1, <2>2 DEF StreamWrite
<1>4. CASE Drops \/ GivesUp
  <2>1. wb.valid /\ ~wb'.valid /\ (wbs_ack_o \/ ~Answerable(wb))
    BY <1>4, NoRequestTyped DEF Drops, GivesUp
  <2>2. ASSUME StreamWrite
        PROVE  state_data' = "read" \/ (NoSample' /\ ap_idle')
    <3>1. wbs_ack_o
      BY <2>1, <2>2, AddressKinds DEF Answerable, StreamWrite, IInv, HandshakeTypes
    <3>2. age # 0
      BY <2>1, <3>1, QuietFirstCycle DEF FirstCycleIsQuiet
    <3>3. ss_tvalid
      BY <2>1, <2>2, <3>2 DEF IInv, Streaming, Flow, StreamWrite
    <3>4. NoSample
      BY <2>2 DEF Flow
    <3>5. CASE ap_idle
      <4>1. ~WritesTo("ap_state")
        BY <2>2, AddressKinds DEF WritesTo, IInv, Writing, HandshakeTypes, StreamWrite
      <4>2. QED
        BY <3>4, <3>5, <4>1, PhaseClocks, RestStays
    <3>6. CASE ~ap_idle
      BY <3>3, <3>4, <3>6, PhaseClocks
         DEF NoSample, Still, DataStop, DataRead, DataReadWait, DataWrite, isX_readyWrite
    <3>7. QED
      BY <3>5, <3>6
  <2>3. QED
    BY <1>1, <2>1, <2>2 DEF StreamWrite
<1>5. QED
  BY <1>2, <1>3, <1>4 DEF OpenNext

\* The five phases follow one another under any accesses.
LEMMA FlowStep ==
  ASSUME IInv, Flow, OpenNext
  PROVE  Flow'
<1>1. FlowTypes'
  BY FlowTypesStep DEF Flow
<1>2. NoSample' \/ InShift' \/ HasWindow' \/ InSum' \/ HasOutput'
  BY NoSampleStep, InShiftStep, HasWindowStep, InSumStep, HasOutputStep DEF Flow
<1>3. QED
  BY <1>1, <1>2, StreamWriteStep DEF Flow

\* SumIsComplete: an output that is shown has one product for each valid
\* sample, whatever the program does meanwhile, for 2 to 15 taps.
THEOREM SumsAreComplete == OpenSpec => []SumIsComplete
<1>1. OpenInit => Flow
  <2> SUFFICES ASSUME OpenInit PROVE Flow
    OBVIOUS
  <2>1. FlowTypes
    <3>1. sm_tdata \in Seq({})
      BY DEF OpenInit, ProjectInit, FirInit
    <3>2. \E S : sm_tdata \in Seq(S)
      BY <3>1
    <3>3. data_validNum = 0 /\ idx_reg = 0 /\ isSRAM_dataReady = FALSE
      BY DEF OpenInit, ProjectInit, FirInit
    <3>4. data_validNum \in 0 .. Tape_Num /\ idx_reg \in 0 .. 15
      BY <3>3, FirAssumption
    <3>5. isSRAM_dataReady \in BOOLEAN
      BY <3>3
    <3>6. QED
      BY <3>2, <3>4, <3>5 DEF FlowTypes
  <2>2. NoSample
    BY DEF OpenInit, ProjectInit, FirInit, NoSample, Still
  <2>3. ~wb.valid /\ ~ss_tvalid /\ ~sm_tready
    BY NoRequestTyped DEF OpenInit, ProjectInit, BridgeInit
  <2>4. QED
    BY <2>1, <2>2, <2>3 DEF Flow, StreamWrite
<1>2. IInv /\ Flow /\ [OpenNext]_<<vars, age>> => Flow'
  <2>1. CASE UNCHANGED <<vars, age>>
    BY <2>1 DEF vars, axiVars, firVars, regVars, dataVars, tapVars, calcVars, Flow, FlowTypes,
                NoSample, InShift, HasWindow, InSum, HasOutput, Still, StreamWrite
  <2>2. QED
    BY <2>1, FlowStep
<1>3. Flow => SumIsComplete
  BY DEF Flow, NoSample, InShift, HasWindow, InSum, HasOutput, SumIsComplete
<1>4. QED
  BY <1>1, <1>2, <1>3, Invariance, PTL DEF OpenSpec

-----------------------------------------------------------------------------
(* The filter and its own program. *)

Word == [Lane -> Int]
Polls == {"poll_x", "poll_y", "poll_idle"}
Running == {"poll_x", "put_x", "poll_y", "get_y", "poll_idle"}
Places == {"length", "coeff", "start", "done"} \cup Running

\* Counters, RAMs and the word registers have their types.
HostTypes ==
  /\ pc \in Places /\ k \in 0 .. Tape_Num /\ sent \in 0 .. RunLength /\ run \in 0 .. Runs
  /\ \E S : got \in Seq(S)
  /\ data_n \in 0 .. Tape_Num /\ idx_reg \in 0 .. 15 /\ data_validNum \in 0 .. Tape_Num
  /\ data_length \in 0 .. LengthMod - 1 /\ data_A \in Index /\ tap_A \in Index
  /\ dataRAM \in [Index -> Word] /\ tapRAM \in [Index -> Word]
  /\ data_Do \in Word /\ data_Di \in Word /\ ss_tdata \in Int

-----------------------------------------------------------------------------
(* The bus: which registers of the bridge and the filter are up for the      *)
(* access that the program is making.                                        *)

Request == IF wb.valid THEN pc # "done" /\ wb = AccessAt(pc) ELSE wb = NoRequest
ProgramIsAt ==
  /\ pc = "coeff" => k < Tape_Num
  /\ pc \in {"poll_x", "put_x"} => sent < RunLength

WriteSide ==
  /\ awvalid => wb.valid /\ wb.we /\ wb.adr \in AxiLite /\ awaddr = wb.adr /\ wdata = wb.dat
  /\ isStateReady_w => awvalid /\ awaddr.reg \in {"ap_state", "data_length"}
  /\ tap_WE_shift_n \in 0 .. 3 /\ (tap_WE_shift_n # 0 => awvalid /\ awaddr.reg = "coeff")

ReadSide ==
  /\ arvalid => wb.valid /\ pc \in Polls /\ araddr = wb.adr /\ rready
  /\ isStateReady_r => ~wb.valid \/ arvalid
  /\ SRAM_readCycle = 0

StreamSide ==
  /\ ss_tvalid => pc = IF wb.valid THEN "put_x" ELSE "poll_y"
  /\ sm_tready => IF wb.valid THEN pc = "get_y" ELSE pc \in {"poll_x", "poll_idle"}

Bus == Request /\ ProgramIsAt /\ WriteSide /\ ReadSide /\ StreamSide

-----------------------------------------------------------------------------
(* What the RAMs and the sum hold.  The last sample sent is sent - 1.        *)

\* The sample i places before sample n, which may be one of the run before.
Source(n, i) == IF i <= n THEN n - i ELSE n - i + RunLength
InUse(n, i) == run > 0 \/ i <= n
Held(n, i) == InUse(n, i) => dataRAM[i] = WordOf(Source(n, i))
\* How many samples count when m have been sent.
Valid(m) == IF run = 0 /\ m < Tape_Num THEN m ELSE Tape_Num
Samples == \A i \in 0 .. Tape_Num - 1 : Held(sent - 1, i)

\* The first m products of the output for the last sample.
Sum(m) == [i \in 1 .. m |-> <<WordOf(i - 1), WordOf(Source(sent - 1, i - 1))>>]

\* Coefficients below k are written, and so are the lanes below the byte
\* counter of the one that is being written.
Taps ==
  /\ pc = "coeff" => \A i \in 0 .. k - 1 : tapRAM[i] = WordOf(i)
  /\ pc = "coeff" /\ awvalid => \A l \in 0 .. tap_WE_shift_n - 1 : tapRAM[k][l] = k
  /\ pc \in {"start"} \cup Running => \A i \in 0 .. Tape_Num - 1 : tapRAM[i] = WordOf(i)

-----------------------------------------------------------------------------
(* The five phases of a sample. *)

Quiet == state_data = "stop" /\ data_WE = {}
Resting ==
  /\ Quiet /\ state_FIR = "stop" /\ isFIRReady /\ ~isY_readyRead
  /\ isSRAM_dataReady => isFIRDoneFirst
  /\ sm_tdata = <<>> /\ Samples /\ data_validNum = Valid(sent)

\* Word data_n is being moved up: those above it have been, those below not.
Moved == \A i \in 0 .. Tape_Num - 1 : /\ i > data_n => Held(sent - 1, i)
                                      /\ i < data_n => Held(sent - 2, i)
Moving == data_n < Tape_Num /\ InUse(sent - 1, data_n)
MovedWord == WordOf(Source(sent - 1, data_n))
MoveRead == state_data = "read" /\ data_WE = {} /\ (Moving /\ data_n > 0 => data_A = data_n - 1)
MoveWait == state_data = "read_wait" /\ data_WE = {} /\ (Moving /\ data_n > 0 => data_Do = MovedWord)
MoveWrite ==
  /\ state_data = "write" /\ data_A = data_n
  /\ \E m \in Lane :
       /\ data_WE = {m}
       /\ Moving => /\ data_Di = MovedWord
                    /\ \A l \in 0 .. m - 1 : dataRAM[data_n][l] = MovedWord[l]
Shifting ==
  /\ state_FIR = "stop" /\ isFIRReady /\ ~isY_readyRead /\ sm_tdata = <<>>
  /\ ~isSRAM_dataReady
  /\ isFIRDoneFirst \/ is_data_length_minus => state_data = "read" /\ data_n = Tape_Num
  /\ ss_tdata = sent - 1 /\ data_validNum = Valid(sent - 1)
  /\ Moved /\ (MoveRead \/ MoveWait \/ MoveWrite)

Filled == Quiet /\ Samples /\ data_validNum = Valid(sent)
Loaded ==
  /\ Filled /\ state_FIR = "stop" /\ isFIRReady /\ ~isY_readyRead /\ sm_tdata = <<>>
  /\ isSRAM_dataReady /\ ~isFIRDoneFirst /\ ~is_data_length_minus
Computing ==
  /\ Filled /\ ~isY_readyRead /\ ~is_data_length_minus
  /\ idx_reg < data_validNum /\ sm_tdata = Sum(idx_reg)
  /\ \/ state_FIR = "read"
     \/ state_FIR = "read_wait" /\ data_A = idx_reg
     \/ state_FIR = "calculate" /\ tap_Do = WordOf(idx_reg)
                                /\ data_Do = WordOf(Source(sent - 1, idx_reg))
Waiting ==
  /\ Filled /\ state_FIR = "stop" /\ isFIRReady /\ isY_readyRead
  /\ isSRAM_dataReady => isFIRDoneFirst
  /\ sm_tdata = Sum(data_validNum)
  /\ is_data_length_minus => axis_rdata = sm_tdata

Phase ==
  IF pc \in {"poll_y", "get_y"}
    THEN sent > 0 /\ (Shifting \/ Loaded \/ Computing \/ Waiting) ELSE Resting
Fetching == pc = "get_y" => Waiting /\ is_data_length_minus
\* A strobe that outlives its access is that of a sample being accepted.
Accepted == ss_tvalid /\ ~wb.valid => state_data = "read"

-----------------------------------------------------------------------------
(* What is counted, and what the polls return. *)

Outputs ==
  /\ Len(got) = IF pc \in {"poll_y", "get_y"} THEN sent - 1 ELSE sent
  /\ pc = "poll_idle" => sent = RunLength
  /\ pc \in {"length", "coeff", "start"} => sent = 0
  /\ pc # "done" => run < Runs

Lengths ==
  /\ pc = "length" /\ isStateReady_w => data_length = RunLength
  /\ pc \in {"coeff", "start"} => data_length = RunLength /\ ~ap_done
  /\ pc \in Running => /\ data_length # 0 => ~ap_done /\ ~ap_idle
                       /\ data_length + Computed = RunLength

\* A status that says y was sampled with an output waiting; the polls before
\* a sample is sent have made sure that no older one is left.
Statuses ==
  /\ pc = "poll_x" /\ wb.valid /\ isStateReady_r => ~rdata.status.y
  /\ pc = "put_x" => ~rdata.status.y /\ ~axi_rdata.status.y
  /\ pc = "poll_y" /\ (rdata.status.y \/ axi_rdata.status.y)
       => isY_readyRead /\ is_data_length_minus

HostInv ==
  /\ HostTypes /\ Bus /\ Taps /\ Phase /\ Fetching /\ Accepted
  /\ Outputs /\ Lengths /\ Statuses

-----------------------------------------------------------------------------
(* The edge, block by block, and the bus. *)

\* The counts are numbers, and a run is at least as long as the filter.
LEMMA Counts ==
  /\ Tape_Num \in Nat /\ Tape_Num >= 2 /\ Tape_Num <= 15
  /\ RunLength \in Nat /\ RunLength >= Tape_Num /\ RunLength < LengthMod /\ LengthMod \in Nat
  /\ Runs \in Nat /\ Runs >= 1
  BY FirAssumption, HostAssumption

\* The blocks that move at an edge.
LEMMA Edge ==
  ASSUME HostNext
  PROVE  /\ WriteChannel /\ ReadChannel /\ StreamChannels
         /\ ReadClock /\ ControlClock /\ LengthClock /\ TapClock
         /\ DataStop \/ DataRead \/ DataReadWait \/ DataWrite
         /\ DataPortClock
         /\ dataRAM' = BramWrite(dataRAM, data_A, data_WE, data_Di)
         /\ data_Do' = dataRAM[data_A]
         /\ CalcStop \/ CalcRead \/ CalcReadWait \/ Calculate
  BY DEF HostNext, ProjectClock, FirClock, BridgeClock, DataClock, CalcClock, BramRead

\* What the program puts on the bus.
LEMMA Accesses ==
  ASSUME NEW at \in Places, at # "done", at = "coeff" => k \in Index
  PROVE  LET a == AccessAt(at)
         IN /\ a.valid
            /\ a.we <=> at \in {"length", "coeff", "start", "put_x"}
            /\ a.adr \in AxiLite <=> at \in {"length", "coeff", "start"} \cup Polls
            /\ a.adr \in Stream <=> at \in {"put_x", "get_y"}
            /\ at = "length" => a.adr.reg = "data_length" /\ a.dat = RunLength
            /\ at = "coeff" => a.adr.reg = "coeff" /\ a.adr.n = k /\ a.dat = k
            /\ at = "start" => a.adr.reg = "ap_state"
            /\ at \in Polls => a.adr.reg = "ap_state"
            /\ at = "put_x" => a.dat = sent
  BY DEF AccessAt, WriteOf, ReadOf, Places, Running, Polls, AxiLite, Stream, Register,
         Coefficient

\* An idle bus carries no request.
LEMMA NoAccess == ~NoRequest.valid
  BY DEF NoRequest

\* Which channel takes the access on the bus.
LEMMA Channels ==
  ASSUME HostTypes, Bus
  PROVE  /\ isAddr_axi_w <=> wb.valid /\ pc \in {"length", "coeff", "start"}
         /\ isAddr_axi_r <=> wb.valid /\ pc \in Polls
         /\ isAddr_axis_w <=> wb.valid /\ pc = "put_x"
         /\ isAddr_axis_r <=> wb.valid /\ pc = "get_y"
         /\ wb.valid => pc # "done"
         /\ wb.valid /\ pc = "length" => wb.adr.reg = "data_length" /\ wb.dat = RunLength
         /\ wb.valid /\ pc = "coeff" => wb.adr.reg = "coeff" /\ wb.adr.n = k /\ wb.dat = k
         /\ wb.valid /\ pc = "start" => wb.adr.reg = "ap_state"
         /\ wb.valid /\ pc \in Polls => wb.adr.reg = "ap_state"
         /\ wb.valid /\ pc = "put_x" => wb.dat = sent
<1>1. CASE ~wb.valid
  BY <1>1 DEF isAddr_axi_w, isAddr_axi_r, isAddr_axis_w, isAddr_axis_r
<1>2. CASE wb.valid
  <2>1. pc \in Places /\ pc # "done" /\ wb = AccessAt(pc)
    BY <1>2 DEF HostTypes, Bus, Request
  <2>2. pc = "coeff" => k \in Index
    BY Counts DEF HostTypes, Bus, ProgramIsAt, Index
  <2>3. QED
    BY <1>2, <2>1, <2>2, Accesses
       DEF isAddr_axi_w, isAddr_axi_r, isAddr_axis_w, isAddr_axis_r, Places, Running, Polls
<1>3. QED
  BY <1>1, <1>2

\* Which registers see the access on the bus.
LEMMA Seen ==
  ASSUME HostTypes, Bus
  PROVE  /\ WritesTo("data_length") <=> awvalid /\ pc = "length"
         /\ WritesTo("coeff") <=> awvalid /\ pc = "coeff"
         /\ WritesTo("ap_state") <=> awvalid /\ pc = "start"
         /\ awvalid => wb.valid /\ pc \in {"length", "coeff", "start"} /\ wdata = wb.dat
         /\ awvalid => awaddr = wb.adr
         /\ ReadsFrom("ap_state") <=> arvalid
         /\ ~ReadsFrom("coeff")
         /\ arvalid => wb.valid /\ pc \in Polls /\ rready
<1>1. awvalid => isAddr_axi_w /\ wdata = wb.dat /\ awaddr = wb.adr
  BY DEF Bus, WriteSide, isAddr_axi_w
<1>2. arvalid => wb.valid /\ pc \in Polls /\ rready /\ araddr = wb.adr
  BY DEF Bus, ReadSide
<1>3. QED
  BY <1>1, <1>2, Channels DEF WritesTo, ReadsFrom

\* An access is acknowledged by its own channel only.
LEMMA Acknowledged ==
  ASSUME HostTypes, Bus, wb.valid
  PROVE  /\ pc \in {"length", "start"} => (wbs_ack_o <=> isStateReady_w)
         /\ pc = "coeff" => (wbs_ack_o <=> tap_WE_shift_n = 3)
         /\ pc \in Polls => (wbs_ack_o <=> isStateReady_r)
         /\ pc = "put_x" => (wbs_ack_o <=> ss_tvalid)
         /\ pc = "get_y" => (wbs_ack_o <=> sm_tready)
<1>1. /\ isStateReady_w => pc \in {"length", "start"}
      /\ tap_WE_shift_n = 3 => pc = "coeff"
  BY Seen, Channels DEF Bus, WriteSide
<1>2. isStateReady_r => pc \in Polls
  BY DEF Bus, ReadSide
<1>3. /\ ss_tvalid => pc = "put_x"
      /\ sm_tready => pc = "get_y"
  BY DEF Bus, StreamSide
<1>4. QED
  BY <1>1, <1>2, <1>3 DEF wbs_ack_o, awready, rvalid, Polls

\* What the program does in a cycle: nothing, an access that begins, one that
\* goes on, or one that is answered.
LEMMA ProgramStep ==
  ASSUME HostNext
  PROVE  \/ ~wb.valid /\ UNCHANGED hostVars /\ (wb' = wb \/ (pc # "done" /\ wb' = AccessAt(pc)))
         \/ wb.valid /\ ~wbs_ack_o /\ UNCHANGED hostVars /\ wb' = wb
         \/ wb.valid /\ wbs_ack_o /\ wb' = NoRequest
            /\ (DoneLength \/ DoneCoeff \/ DoneStart \/ DonePollX \/ DonePutX
                \/ DonePollY \/ DoneGetY \/ DonePollIdle)
  BY DEF HostNext, Access, Idles, Waits, Completes, Holds, Drops

-----------------------------------------------------------------------------
(* The program and the bus keep their parts of the invariant. *)

\* What has been received stays a sequence, one longer after an output.
LEMMA GotStep ==
  ASSUME HostTypes, HostNext
  PROVE  /\ \E S : got' \in Seq(S)
         /\ Len(got) \in Nat
         /\ DoneGetY => Len(got') = Len(got) + 1
<1>1. PICK S : got \in Seq(S)
  BY DEF HostTypes
<1>2. got' = got \/ got' = Append(got, axis_rdata) \/ got' = <<>>
  BY ProgramStep DEF hostVars, DoneLength, DoneCoeff, DoneStart, DonePollX, DonePutX,
                     DonePollY, DoneGetY, DonePollIdle
<1>3. Append(got, axis_rdata) \in Seq(S \cup {axis_rdata})
      /\ Len(Append(got, axis_rdata)) = Len(got) + 1
  BY <1>1, AppendIsSeq
<1>4. <<>> \in Seq(S) /\ Len(got) \in Nat
  BY <1>1
<1>5. QED
  BY <1>1, <1>2, <1>3, <1>4 DEF DoneGetY

\* The program's counters, where it is and what it has received.
LEMMA CountersStep ==
  ASSUME HostTypes, ProgramIsAt, Outputs, HostNext
  PROVE  /\ pc' \in Places /\ k' \in 0 .. Tape_Num /\ sent' \in 0 .. RunLength
         /\ run' \in 0 .. Runs
         /\ ProgramIsAt' /\ Outputs'
<1> USE DEF HostTypes, ProgramIsAt, Outputs, Places, Running
<1>1. CASE UNCHANGED hostVars
  BY <1>1 DEF hostVars
<1>2. CASE DoneLength
  BY <1>2, Counts DEF DoneLength
<1>3. CASE DoneCoeff
  BY <1>3, Counts DEF DoneCoeff
<1>4. CASE DoneStart
  BY <1>4, Counts DEF DoneStart
<1>5. CASE DonePollX
  BY <1>5 DEF DonePollX
<1>6. CASE DonePutX
  BY <1>6, Counts DEF DonePutX
<1>7. CASE DonePollY
  BY <1>7 DEF DonePollY
<1>8. CASE DoneGetY
  BY <1>8, GotStep, Counts DEF DoneGetY
<1>9. CASE DonePollIdle
  BY <1>9, Counts DEF DonePollIdle
<1>10. QED
  BY <1>1, <1>2, <1>3, <1>4, <1>5, <1>6, <1>7, <1>8, <1>9, ProgramStep

\* The request of the next cycle is the access at the program's place.
LEMMA RequestStep ==
  ASSUME HostTypes, Request, HostNext
  PROVE  Request'
<1>1. CASE wb' = NoRequest
  BY <1>1, NoAccess DEF Request
<1>2. CASE UNCHANGED hostVars /\ wb' = wb
  BY <1>2 DEF Request, AccessAt, hostVars
<1>3. CASE UNCHANGED hostVars /\ pc # "done" /\ wb' = AccessAt(pc)
  <2>1. AccessAt(pc).valid
    BY <1>3 DEF AccessAt, WriteOf, ReadOf, HostTypes, Places, Running
  <2>2. AccessAt(pc)' = AccessAt(pc)
    BY <1>3 DEF AccessAt, hostVars
  <2>3. QED
    BY <1>3, <2>1, <2>2 DEF Request, hostVars
<1>4. QED
  BY <1>1, <1>2, <1>3, ProgramStep

\* The write channel stays with its access.
LEMMA WriteSideStep ==
  ASSUME HostTypes, Bus, HostNext
  PROVE  WriteSide'
<1>1. awvalid' = (~awready /\ (isAddr_axi_w \/ awvalid))
      /\ awaddr' = (IF isAddr_axi_w THEN wb.adr ELSE awaddr)
      /\ wdata' = (IF isAddr_axi_w THEN wb.dat ELSE wdata)
  BY Edge DEF WriteChannel
<1>2. isStateReady_w' = (~isStateReady_w /\ (WritesTo("ap_state") \/ WritesTo("data_length")))
  BY Edge DEF ControlClock
<1>3. tap_WE_shift_n' = IF WritesTo("coeff") THEN (tap_WE_shift_n + 1) % 4
                          ELSE tap_WE_shift_n
  BY Edge DEF TapClock
<1>4. tap_WE_shift_n \in 0 .. 3 /\ (tap_WE_shift_n # 0 => awvalid /\ pc = "coeff")
  BY Seen, Channels DEF Bus, WriteSide
<1>5. tap_WE_shift_n' \in 0 .. 3 /\ (tap_WE_shift_n' # 0 => awvalid /\ pc = "coeff")
      /\ (tap_WE_shift_n = 3 => tap_WE_shift_n' = 0)
  BY <1>3, <1>4, Seen
<1>6. CASE ~isAddr_axi_w
  <2>1. ~awvalid
    BY <1>6, Seen, Channels
  <2>2. QED
    BY <1>1, <1>2, <1>5, <1>6, <2>1, Seen DEF WriteSide
<1>7. CASE isAddr_axi_w /\ wbs_ack_o
  <2>1. wb.valid /\ (isStateReady_w \/ tap_WE_shift_n = 3)
    BY <1>7, Acknowledged, Channels
  <2>2. awready
    BY <2>1 DEF awready
  <2>3. ~awvalid'
    BY <2>2, <1>1
  <2>4. isStateReady_w => ~isStateReady_w'
    BY <1>2
  <2>5. isStateReady_w => pc \in {"length", "start"}
    BY Seen, Channels DEF Bus, WriteSide
  <2>6. tap_WE_shift_n = 3 => ~isStateReady_w' /\ tap_WE_shift_n' = 0
    <3>1. tap_WE_shift_n = 3 => pc = "coeff" /\ tap_WE_shift_n' = 0
      BY <1>4, <1>5
    <3>2. pc = "coeff" => ~WritesTo("ap_state") /\ ~WritesTo("data_length")
      BY Seen
    <3>3. QED
      BY <3>1, <3>2, <1>2
  <2>7. isStateReady_w => tap_WE_shift_n' = 0
    BY <2>5, <1>5
  <2>8. QED
    BY <2>1, <2>3, <2>4, <2>6, <2>7, <1>5 DEF WriteSide
<1>8. CASE isAddr_axi_w /\ ~wbs_ack_o
  <2>1. wb.valid /\ wb' = wb /\ UNCHANGED hostVars
    BY <1>8, ProgramStep, Channels
  <2>2. ~awready
    BY <1>8 DEF wbs_ack_o
  <2>3. awvalid' /\ awaddr' = wb.adr /\ wdata' = wb.dat
    BY <1>1, <1>8, <2>2
  <2>4. wb.we /\ wb.adr \in AxiLite
    BY <1>8 DEF isAddr_axi_w
  <2>5. isStateReady_w' => awaddr'.reg \in {"ap_state", "data_length"}
    BY <1>2, <2>1, <2>3, Seen, Channels
  <2>6. tap_WE_shift_n' # 0 => awaddr'.reg = "coeff"
    BY <1>5, <2>1, <2>3, Channels
  <2>7. QED
    BY <1>5, <2>1, <2>3, <2>4, <2>5, <2>6 DEF WriteSide
<1>9. QED
  BY <1>6, <1>7, <1>8

\* The read channel stays with its poll.
LEMMA ReadSideStep ==
  ASSUME HostTypes, Bus, HostNext
  PROVE  ReadSide'
<1>1. /\ arvalid' = (~isStateReady_r /\ (isAddr_axi_r \/ arvalid))
      /\ araddr' = (IF isAddr_axi_r THEN wb.adr ELSE araddr)
      /\ rready' = isAddr_axi_r
  BY Edge DEF ReadChannel, rvalid
<1>2. /\ isStateReady_r' = (ReadsFrom("ap_state") /\ rready)
      /\ SRAM_readCycle' = SRAM_readCycle
  BY Edge, Seen DEF ReadClock
<1>3. SRAM_readCycle' = 0
  BY <1>2 DEF Bus, ReadSide
<1>4. CASE ~isAddr_axi_r
  <2>1. ~arvalid /\ ~arvalid' /\ ~isStateReady_r'
    BY <1>1, <1>2, <1>4, Seen, Channels
  <2>2. QED
    BY <1>3, <2>1 DEF ReadSide
<1>5. CASE isAddr_axi_r /\ wbs_ack_o
  <2>1. isStateReady_r /\ ~wb'.valid
    BY <1>5, Channels, Acknowledged, ProgramStep, NoAccess
  <2>2. QED
    BY <1>1, <1>3, <2>1 DEF ReadSide
<1>6. CASE isAddr_axi_r /\ ~wbs_ack_o
  <2>1. wb.valid /\ pc \in Polls /\ wb' = wb /\ pc' = pc
    BY <1>6, ProgramStep, Channels DEF hostVars
  <2>2. ~isStateReady_r
    BY <1>6 DEF wbs_ack_o, rvalid
  <2>3. QED
    BY <1>1, <1>3, <1>6, <2>1, <2>2 DEF ReadSide
<1>7. QED
  BY <1>4, <1>5, <1>6

\* The strobes of the streams stay with their access, but for a cycle.
LEMMA StreamSideStep ==
  ASSUME HostTypes, Bus, HostNext
  PROVE  StreamSide'
<1>1. /\ ss_tvalid' <=> wb.valid /\ pc = "put_x"
      /\ sm_tready' <=> wb.valid /\ pc = "get_y"
  BY Edge, Channels DEF StreamChannels
<1>2. CASE ~wb.valid
  BY <1>1, <1>2 DEF StreamSide
<1>3. CASE wb.valid /\ ~wbs_ack_o
  <2>1. wb' = wb /\ pc' = pc
    BY <1>3, ProgramStep DEF hostVars
  <2>2. QED
    BY <1>1, <1>3, <2>1 DEF StreamSide
<1>4. CASE wb.valid /\ wbs_ack_o
  <2>1. /\ ~wb'.valid
        /\ pc = "put_x" => pc' = "poll_y"
        /\ pc = "get_y" => pc' \in {"poll_x", "poll_idle"}
    BY <1>4, ProgramStep, NoAccess
       DEF DoneLength, DoneCoeff, DoneStart, DonePollX, DonePutX, DonePollY, DoneGetY,
           DonePollIdle
  <2>2. QED
    BY <1>1, <2>1 DEF StreamSide
<1>5. QED
  BY <1>2, <1>3, <1>4

\* What is known of the bus is kept by every edge.
LEMMA BusStep ==
  ASSUME HostTypes, Bus, Outputs, HostNext
  PROVE  Bus'
  BY RequestStep, CountersStep, WriteSideStep, ReadSideStep, StreamSideStep DEF Bus

-----------------------------------------------------------------------------
(* Words and RAMs. *)

\* The word of a number is a word, and the only one with that number in every lane.
LEMMA WholeWord ==
  ASSUME NEW n \in Int
  PROVE  /\ WordOf(n) \in Word
         /\ \A l \in Lane : WordOf(n)[l] = n
         /\ \A w \in Word : (\A l \in Lane : w[l] = n) => w = WordOf(n)
  BY DEF WordOf, Word

\* A write changes the enabled lanes of one word.
LEMMA RamWrite ==
  ASSUME NEW ram \in [Index -> Word], NEW a \in Index, NEW we, NEW di \in Word
  PROVE  LET written == BramWrite(ram, a, we, di)
         IN /\ written \in [Index -> Word]
            /\ \A i \in Index : i # a => written[i] = ram[i]
            /\ \A l \in Lane : written[a][l] = IF l \in we THEN di[l] ELSE ram[a][l]
            /\ we = {} => written = ram
<1> DEFINE word == [l \in Lane |-> IF l \in we THEN di[l] ELSE ram[a][l]]
<1>1. BramWrite(ram, a, we, di) = [ram EXCEPT ![a] = word]
  BY DEF BramWrite
<1>2. word \in Word
  BY DEF Word
<1>3. we = {} => word = ram[a]
  BY DEF Word
<1>4. \A l \in Lane : word[l] = IF l \in we THEN di[l] ELSE ram[a][l]
  OBVIOUS
<1> HIDE DEF word
<1>5. QED
  BY <1>1, <1>2, <1>3, <1>4

\* The counters of the filter stay in their ranges.
LEMMA FilterCountersStep ==
  ASSUME HostTypes, Bus, HostNext
  PROVE  /\ data_n' \in 0 .. Tape_Num /\ idx_reg' \in 0 .. 15
         /\ data_validNum' \in 0 .. Tape_Num /\ data_length' \in 0 .. LengthMod - 1
<1> USE DEF HostTypes
<1>0. DataStop \/ DataRead \/ DataReadWait \/ DataWrite
  BY Edge
<1>1. data_validNum' \in 0 .. Tape_Num
  <2>1. \/ data_validNum' = data_validNum
        \/ data_validNum < Tape_Num /\ data_validNum' = data_validNum + 1
    BY <1>0 DEF DataStop, DataRead, DataReadWait, DataWrite
  <2>2. QED
    BY <2>1, Counts
<1>2. data_n' \in 0 .. Tape_Num
  <2>1. data_n' \in {Tape_Num, data_n} \/ (data_n # 0 /\ data_n' = data_n - 1)
    BY <1>0 DEF DataStop, DataRead, DataReadWait, DataWrite
  <2>2. QED
    BY <2>1, Counts
<1>3. idx_reg' \in 0 .. 15
  <2>1. idx_reg' \in {0, idx_reg, (idx_reg + 1) % 16}
    BY Edge DEF CalcStop, CalcRead, CalcReadWait, Calculate
  <2>2. QED
    BY <2>1
<1>4. data_length' \in 0 .. LengthMod - 1
  <2>1. CountsOutput => data_length' = (data_length - 1) % LengthMod
    BY Edge DEF LengthClock
  <2>2. ~CountsOutput /\ WritesTo("data_length") => data_length' = RunLength % LengthMod
    BY Edge, Seen, Channels DEF LengthClock
  <2>3. ~CountsOutput /\ ~WritesTo("data_length") => data_length' = data_length
    BY Edge DEF LengthClock
  <2>4. RunLength % LengthMod = RunLength
    BY Counts
  <2>5. (data_length - 1) % LengthMod \in 0 .. LengthMod - 1
    BY Counts
  <2>6. QED
    BY <2>1, <2>2, <2>3, <2>4, <2>5, Counts
<1>5. QED
  BY <1>1, <1>2, <1>3, <1>4

\* The RAMs, their addresses and the word registers keep their types.
LEMMA RamStep ==
  ASSUME HostTypes, Bus, 
         state_FIR \in {"read", "read_wait"} => idx_reg < data_validNum, HostNext
  PROVE  /\ data_A' \in Index /\ tap_A' \in Index /\ ss_tdata' \in Int
         /\ dataRAM' \in [Index -> Word] /\ tapRAM' \in [Index -> Word]
         /\ data_Do' \in Word /\ data_Di' \in Word
<1>1. ss_tdata' \in Int
  <2>1. ss_tdata' = ss_tdata \/ (wb.valid /\ pc = "put_x" /\ ss_tdata' = wb.dat)
    BY Edge, Channels DEF StreamChannels
  <2>2. QED
    BY <2>1, Channels DEF HostTypes
<1>2. data_A' \in Index
  <2>1. CASE state_FIR = "read"
    <3>1. data_A' = idx_reg
      BY <2>1, Edge DEF DataPortClock
    <3>2. QED
      BY <2>1, <3>1, Counts DEF HostTypes, Index
  <2>2. CASE state_FIR # "read"
    <3>1. \/ data_A' \in {Tape_Num - 2, data_A, data_n, 0}
          \/ data_n > 1 /\ data_A' = data_n - 2
      <4>1. state_data \in {"stop", "read", "read_wait", "write"}
        BY Edge DEF DataStop, DataRead, DataReadWait, DataWrite
      <4>2. DataPortClock
        BY Edge
      <4>3. /\ state_data = "stop" => data_A' = Tape_Num - 2
            /\ state_data = "read" => data_A' = data_A
            /\ state_data = "read_wait" => data_A' = data_n
            /\ state_data = "write" =>
                 data_A' \in {data_A, 0} \/ (data_n > 1 /\ data_A' = data_n - 2)
        BY <2>2, <4>2 DEF DataPortClock
      <4>4. QED
        BY <4>1, <4>3
    <3>2. QED
      BY <3>1, Counts DEF HostTypes, Index
  <2>3. QED
    BY <2>1, <2>2
<1>3. dataRAM' \in [Index -> Word] /\ data_Do' \in Word
  BY Edge, RamWrite DEF HostTypes
<1>4. data_Di' \in Word
  <2>1. data_Di' = data_Di \/ data_Di' = WordOf(ss_tdata) \/ data_Di' = data_Do
    BY Edge DEF DataStop, DataRead, DataReadWait, DataWrite
  <2>2. QED
    BY <2>1, WholeWord DEF HostTypes
<1>5. TapAddress \in Index
  <2>1. CASE state_FIR = "read_wait"
    <3>1. TapAddress = idx_reg
      BY <2>1 DEF TapAddress
    <3>2. QED
      BY <2>1, <3>1, Counts DEF HostTypes, Index
  <2>2. CASE state_FIR # "read_wait" /\ WritesTo("coeff")
    <3>1. TapAddress = k /\ pc = "coeff"
      BY <2>2, Seen, Channels DEF TapAddress
    <3>2. QED
      BY <3>1 DEF HostTypes, Index
  <2>3. CASE state_FIR # "read_wait" /\ ~WritesTo("coeff")
    <3>1. ~ReadsFrom("coeff")
      BY Seen
    <3>2. TapAddress = tap_A
      BY <2>3, <3>1 DEF TapAddress
    <3>3. QED
      BY <3>2 DEF HostTypes
  <2>4. QED
    BY <2>1, <2>2, <2>3
<1>6. tap_A' \in Index
  BY <1>5, Edge DEF TapClock
<1>7. tapRAM' \in [Index -> Word]
  <2>1. CASE ~WritesTo("coeff")
    BY <2>1, Edge DEF TapClock, HostTypes
  <2>2. CASE WritesTo("coeff")
    <3>1. tapRAM' = BramWrite(tapRAM, TapAddress, {tap_WE_shift_n}, WordOf(wdata))
      BY <2>2, Edge DEF TapClock
    <3>2. wdata \in Int
      BY <2>2, Seen, Channels DEF HostTypes
    <3>3. QED
      BY <1>5, <3>1, <3>2, RamWrite, WholeWord DEF HostTypes
  <2>3. QED
    BY <2>1, <2>2
<1>8. QED
  BY <1>1, <1>2, <1>3, <1>4, <1>6, <1>7

\* Where the program goes from where it is.
LEMMA Moves ==
  ASSUME HostTypes, Bus, HostNext
  PROVE  /\ ~(wb.valid /\ wbs_ack_o) => UNCHANGED hostVars
         /\ wb.valid /\ wbs_ack_o =>
              /\ pc = "length" => DoneLength
              /\ pc = "coeff" => DoneCoeff
              /\ pc = "start" => DoneStart
              /\ pc = "poll_x" => DonePollX
              /\ pc = "put_x" => DonePutX
              /\ pc = "poll_y" => DonePollY
              /\ pc = "get_y" => DoneGetY
              /\ pc = "poll_idle" => DonePollIdle
  BY ProgramStep DEF DoneLength, DoneCoeff, DoneStart, DonePollX, DonePutX, DonePollY,
                     DoneGetY, DonePollIdle

\* A coefficient is written lane by lane, and nothing else writes the tap RAM.
LEMMA TapsStep ==
  ASSUME HostTypes, Bus, Phase, Taps, HostNext
  PROVE  Taps'
<1>1. CASE awvalid /\ pc = "coeff"
  <2>1. wb.valid /\ wdata = k /\ awaddr.n = k /\ k \in Index /\ k \in 0 .. Tape_Num - 1
    <3>1. k \in 0 .. Tape_Num /\ k < Tape_Num
      BY <1>1 DEF HostTypes, Bus, ProgramIsAt
    <3>2. k \in Index /\ k \in 0 .. Tape_Num - 1
      BY <3>1, Counts DEF Index
    <3>3. QED
      BY <1>1, <3>2, Seen, Channels
  <2>2. TapAddress = k
    BY <1>1, <2>1, Seen DEF TapAddress, Phase, Resting
  <2>3. tapRAM' = BramWrite(tapRAM, k, {tap_WE_shift_n}, WordOf(k))
        /\ tap_WE_shift_n' = (tap_WE_shift_n + 1) % 4
    BY <1>1, <2>1, <2>2, Seen, Edge DEF TapClock
  <2>4. /\ tapRAM' \in [Index -> Word]
        /\ \A i \in Index : i # k => tapRAM'[i] = tapRAM[i]
        /\ \A l \in Lane : tapRAM'[k][l] = IF l = tap_WE_shift_n THEN k ELSE tapRAM[k][l]
    <3>1. WordOf(k) \in Word /\ \A l \in Lane : WordOf(k)[l] = k
      BY <2>1, WholeWord DEF Index
    <3>2. QED
      BY <2>1, <2>3, <3>1, RamWrite DEF HostTypes
  <2>5. \A i \in 0 .. k - 1 : tapRAM'[i] = WordOf(i)
    <3>1. \A i \in 0 .. k - 1 : i \in Index /\ i # k
      BY <2>1, Counts DEF Index
    <3>2. QED
      BY <1>1, <2>4, <3>1 DEF Taps
  <2>6. tap_WE_shift_n \in 0 .. 3
        /\ \A l \in 0 .. tap_WE_shift_n : tapRAM'[k][l] = k
    <3>1. tap_WE_shift_n \in 0 .. 3
      BY DEF Bus, WriteSide
    <3>2. \A l \in 0 .. tap_WE_shift_n - 1 : tapRAM[k][l] = k
      BY <1>1 DEF Taps
    <3>3. QED
      BY <2>4, <3>1, <3>2 DEF Lane
  <2>7. CASE ~wbs_ack_o
    <3>1. pc' = pc /\ k' = k
      BY <2>7, Moves DEF hostVars
    <3>2. tap_WE_shift_n' = tap_WE_shift_n + 1
      BY <1>1, <2>1, <2>3, <2>6, <2>7, Acknowledged
    <3>3. QED
      BY <1>1, <2>5, <2>6, <3>1, <3>2 DEF Taps, Running
  <2>8. CASE wbs_ack_o
    <3>1. tap_WE_shift_n = 3
      BY <1>1, <2>1, <2>8, Acknowledged
    <3>2. tapRAM'[k] = WordOf(k)
      <4>1. tapRAM'[k] \in Word /\ \A l \in Lane : tapRAM'[k][l] = k
        BY <2>1, <2>4, <2>6, <3>1 DEF Lane
      <4>2. QED
        BY <2>1, <4>1, WholeWord DEF Index
    <3>3. k' = k + 1 /\ pc' = IF k = Tape_Num - 1 THEN "start" ELSE "coeff"
      BY <1>1, <2>1, <2>8, Moves DEF DoneCoeff
    <3>4. ~awvalid'
      BY <3>1, Edge DEF WriteChannel, awready
    <3>5. \A i \in 0 .. k : tapRAM'[i] = WordOf(i)
      BY <2>1, <2>5, <3>2
    <3>6. QED
      BY <2>1, <3>3, <3>4, <3>5, Counts DEF Taps, Running
  <2>9. QED
    BY <2>7, <2>8
<1>2. CASE ~(awvalid /\ pc = "coeff")
  <2>1. tapRAM' = tapRAM /\ tap_WE_shift_n' = tap_WE_shift_n /\ tap_WE_shift_n = 0
    BY <1>2, Edge, Seen, Channels DEF TapClock, Bus, WriteSide
  <2>2. CASE pc = "coeff"
    <3>1. ~(wb.valid /\ wbs_ack_o)
      BY <2>1, <2>2, Acknowledged
    <3>2. pc' = pc /\ k' = k
      BY <3>1, Moves DEF hostVars
    <3>3. QED
      BY <2>1, <2>2, <3>2 DEF Taps, Running
  <2>3. CASE pc = "length"
    <3>1. pc' = "length" \/ (pc' = "coeff" /\ k' = 0)
      BY <2>3, Moves DEF hostVars, DoneLength
    <3>2. QED
      BY <2>1, <3>1 DEF Taps, Running
  <2>4. CASE pc \in {"start"} \cup Running
    <3>1. pc' \in {"start", "length", "done"} \cup Running
      BY <2>4, ProgramStep
         DEF hostVars, DoneLength, DoneCoeff, DoneStart, DonePollX, DonePutX, DonePollY,
             DoneGetY, DonePollIdle, Running
    <3>2. QED
      BY <2>1, <2>4, <3>1 DEF Taps, Running
  <2>5. CASE pc = "done"
    <3>1. pc' = pc
      BY <2>5, Moves, Channels DEF hostVars
    <3>2. QED
      BY <2>5, <3>1 DEF Taps, Running
  <2>6. QED
    BY <2>2, <2>3, <2>4, <2>5 DEF HostTypes, Places
<1>3. QED
  BY <1>1, <1>2

-----------------------------------------------------------------------------
(* Each phase turns into itself or into the next one. *)

\* Samples that stay where they are stay the samples, also when a run ends.
LEMMA SamplesStay ==
  ASSUME HostTypes, Samples, data_validNum = Valid(sent),
         dataRAM' = dataRAM, data_validNum' = data_validNum,
         \/ sent' = sent /\ run' = run
         \/ sent = RunLength /\ sent' = 0 /\ run' = run + 1
  PROVE  Samples' /\ data_validNum' = Valid(sent)'
<1>1. CASE sent' = sent /\ run' = run
  BY <1>1 DEF Samples, Held, InUse, Source, Valid
<1>2. CASE sent = RunLength /\ sent' = 0 /\ run' = run + 1
  <2>1. data_validNum' = Valid(sent)'
    BY <1>2, Counts DEF Valid, HostTypes
  <2>2. \A i \in 0 .. Tape_Num - 1 : dataRAM[i] = WordOf(RunLength - 1 - i)
    BY <1>2, Counts DEF Samples, Held, InUse, Source
  <2>3. \A i \in 0 .. Tape_Num - 1 : Source(-1, i) = RunLength - 1 - i
    BY Counts DEF Source
  <2>4. sent' - 1 = -1
    BY <1>2
  <2>5. QED
    BY <2>1, <2>2, <2>3, <2>4 DEF Samples, Held, Source
<1>3. QED
  BY <1>1, <1>2

\* With nothing to do, nothing moves.
LEMMA StillEdge ==
  ASSUME HostTypes, Quiet, state_FIR = "stop", isSRAM_dataReady => isFIRDoneFirst,
         isFIRReady, HostNext
  PROVE  /\ data_WE' = {} /\ dataRAM' = dataRAM /\ data_validNum' = data_validNum
         /\ state_FIR' = "stop" /\ isFIRReady'
         /\ isSRAM_dataReady' => isFIRDoneFirst'
         /\ state_data' = IF ss_tvalid /\ ~ap_idle THEN "read" ELSE "stop"
         /\ data_n' = Tape_Num
         /\ isSRAM_dataReady' => ~ss_tvalid
         /\ isY_readyRead' <=> isY_readyRead /\ ~sm_tready
         /\ sm_tdata' = IF isY_readyRead /\ sm_tready THEN <<>> ELSE sm_tdata
<1>1. DataStop /\ CalcStop
  BY Edge DEF Quiet, DataRead, DataReadWait, DataWrite, CalcRead, CalcReadWait, Calculate
<1>2. data_WE' = {}
  BY Edge DEF DataPortClock, Quiet
<1>3. dataRAM' = dataRAM
  BY Edge, RamWrite DEF Quiet, HostTypes
<1>4. /\ state_data' = IF ss_tvalid /\ ~ap_idle THEN "read" ELSE "stop"
      /\ data_n' = Tape_Num /\ data_validNum' = data_validNum
      /\ isSRAM_dataReady' <=> isSRAM_dataReady /\ ~sm_tready /\ ~ss_tvalid
  BY <1>1 DEF DataStop, isX_readyWrite, ss_tready
<1>5. QED
  BY <1>1, <1>2, <1>3, <1>4 DEF CalcStop, sm_tvalid

\* While no sample is sent, a filter at rest stays so.
LEMMA RestingStep ==
  ASSUME HostTypes, Bus, Outputs, Resting, pc \notin {"poll_y", "get_y"},
         ~(pc = "put_x" /\ wb.valid /\ wbs_ack_o), HostNext
  PROVE  Resting' /\ pc' \notin {"poll_y", "get_y"} /\ ~ss_tvalid
<1>1. ~ss_tvalid
  BY Acknowledged DEF Bus, StreamSide
<1>2. pc' \notin {"poll_y", "get_y"}
  BY ProgramStep
     DEF hostVars, DoneLength, DoneCoeff, DoneStart, DonePollX, DonePutX, DonePollY,
         DoneGetY, DonePollIdle
<1>3. \/ sent' = sent /\ run' = run
      \/ sent = RunLength /\ sent' = 0 /\ run' = run + 1
  BY ProgramStep
     DEF hostVars, DoneLength, DoneCoeff, DoneStart, DonePollX, DonePutX, DonePollY,
         DoneGetY, DonePollIdle, Outputs
<1>4. /\ dataRAM' = dataRAM /\ data_validNum' = data_validNum /\ data_WE' = {}
      /\ state_FIR' = "stop" /\ isFIRReady' /\ (isSRAM_dataReady' => isFIRDoneFirst')
      /\ state_data' = "stop" /\ ~isY_readyRead' /\ sm_tdata' = <<>>
  BY <1>1, StillEdge DEF Resting
<1>5. Samples' /\ data_validNum' = Valid(sent)'
  BY <1>3, <1>4, SamplesStay DEF Resting
<1>6. QED
  BY <1>1, <1>2, <1>4, <1>5 DEF Resting, Quiet

\* A sample that is sent is accepted, and its shift begins.
LEMMA PutStep ==
  ASSUME HostTypes, Bus, Resting, ~ap_idle, pc = "put_x", wb.valid, wbs_ack_o, HostNext
  PROVE  Shifting' /\ state_data' = "read" /\ pc' = "poll_y" /\ sent' > 0
<1>1. ss_tvalid
  BY Acknowledged
<1>2. pc' = "poll_y" /\ sent' = sent + 1 /\ run' = run
  BY Moves DEF DonePutX
<1>3. sent \in Nat
  BY Counts DEF HostTypes
<1>4. /\ dataRAM' = dataRAM /\ data_validNum' = data_validNum /\ data_WE' = {}
      /\ state_FIR' = "stop" /\ isFIRReady' /\ ~isSRAM_dataReady'
      /\ state_data' = "read" /\ data_n' = Tape_Num /\ ~isY_readyRead' /\ sm_tdata' = <<>>
  BY <1>1, StillEdge DEF Resting
<1>5. ss_tdata' = sent' - 1
  BY <1>2, <1>3, Edge, Channels DEF StreamChannels
<1>6. data_validNum' = Valid(sent - 1)'
  BY <1>2, <1>3, <1>4 DEF Resting, Valid
<1>7. Moved'
  <2>1. sent' - 2 = sent - 1
    BY <1>2, <1>3
  <2>2. \A i \in 0 .. Tape_Num - 1 : Held(sent - 1, i)
    BY DEF Resting, Samples
  <2>3. QED
    BY <1>2, <1>4, <2>1, <2>2, Counts DEF Moved, Held, InUse, Source
<1>8. MoveRead'
  BY <1>4, Counts DEF MoveRead, Moving
<1>9. QED
  BY <1>2, <1>3, <1>4, <1>5, <1>6, <1>7, <1>8 DEF Shifting

\* While the program polls for an output it has sent and received what it had.
LEMMA Polling ==
  ASSUME HostTypes, Bus, pc = "poll_y", HostNext
  PROVE  /\ pc' \in {"poll_y", "get_y"} /\ UNCHANGED <<sent, got, run, k>>
         /\ ss_tdata' = ss_tdata /\ ~ss_tvalid' /\ ~sm_tready /\ ~sm_tready'
         /\ ~awvalid /\ ~WritesTo("ap_state")
         /\ pc' = "get_y" => axi_rdata.status.y
<1>1. pc' \in {"poll_y", "get_y"} /\ UNCHANGED <<sent, got, run, k>>
      /\ (pc' = "get_y" => axi_rdata.status.y)
  BY Moves DEF hostVars, DonePollY, Polled
<1>2. ss_tdata' = ss_tdata /\ ~ss_tvalid' /\ ~sm_tready'
  BY Edge, Channels DEF StreamChannels
<1>3. ~sm_tready
  BY DEF Bus, StreamSide
<1>4. QED
  BY <1>1, <1>2, <1>3, Seen

\* Before the output of the last sample is computed, more is left of the length
\* than nothing.
LEMMA LengthIsLeft ==
  ASSUME HostTypes, Outputs, Lengths, pc = "poll_y", sent > 0,
         ~(isY_readyRead /\ is_data_length_minus)
  PROVE  data_length # 0 /\ ~ap_idle /\ ~ap_done
<1>1. data_length + Len(got) = RunLength
  BY DEF Lengths, Running, Computed, HostTypes
<1>2. Len(got) = sent - 1 /\ sent \in 0 .. RunLength
  BY DEF Outputs, HostTypes
<1>3. data_length # 0
  BY <1>1, <1>2, Counts DEF HostTypes
<1>4. QED
  BY <1>3 DEF Lengths, Running

\* The flags while a sample is shifted in.
LEMMA ShiftFlags ==
  ASSUME HostTypes, Bus, Outputs, Lengths, pc = "poll_y", sent > 0, Shifting, HostNext
  PROVE  /\ state_FIR' = "stop" /\ isFIRReady' /\ ~isY_readyRead' /\ sm_tdata' = <<>>
         /\ ~isFIRDoneFirst' /\ ~is_data_length_minus'
         /\ data_length # 0
<1>1. CalcStop
  BY Edge DEF Shifting, CalcRead, CalcReadWait, Calculate
<1>2. data_length # 0
  BY LengthIsLeft DEF Shifting
<1>3. state_data # "stop"
  BY DEF Shifting, MoveRead, MoveWait, MoveWrite
<1>4. ~is_data_length_minus'
  BY <1>2, <1>3, Edge DEF LengthClock, CountsOutput, isX_readyWrite, Shifting
<1>5. QED
  BY <1>1, <1>2, <1>4 DEF CalcStop, Shifting, sm_tvalid

\* The word that is moved up is that of the place below.
LEMMA SourceBelow ==
  ASSUME NEW n \in Nat, NEW i \in Nat, i > 0
  PROVE  /\ Source(n - 1, i - 1) = Source(n, i)
         /\ InUse(n, i) => InUse(n - 1, i - 1)
<1>1. CASE i <= n
  BY <1>1, Counts DEF Source, InUse
<1>2. CASE i > n
  BY <1>2, Counts DEF Source, InUse
<1>3. QED
  BY <1>1, <1>2

\* A sample that is moved is read from its place ...
LEMMA MoveReadStep ==
  ASSUME HostTypes, sent > 0, Moved, MoveRead, state_FIR = "stop",
         UNCHANGED <<sent, run>>, HostNext
  PROVE  /\ Moved' /\ MoveWait'
         /\ UNCHANGED <<data_n, isSRAM_dataReady, data_validNum>>
<1>1. DataRead /\ data_WE' = data_WE
  BY Edge DEF MoveRead, DataStop, DataReadWait, DataWrite, DataPortClock
<1>2. data_n' = data_n /\ isSRAM_dataReady' = isSRAM_dataReady
      /\ data_validNum' = data_validNum /\ state_data' = "read_wait"
  BY <1>1 DEF DataRead
<1>3. dataRAM' = dataRAM
  BY Edge, RamWrite DEF MoveRead, HostTypes
<1>4. Moved'
  BY <1>2, <1>3 DEF Moved, Held, InUse, Source
<1>5. ASSUME Moving, data_n > 0
      PROVE  data_Do' = MovedWord
  <2>1. data_n \in Nat /\ data_n < Tape_Num /\ sent - 1 \in Nat
    BY <1>5, Counts DEF HostTypes, Moving
  <2>2. data_Do' = dataRAM[data_n - 1]
    BY <1>5, Edge DEF MoveRead
  <2>3. InUse(sent - 2, data_n - 1) /\ Source(sent - 2, data_n - 1) = Source(sent - 1, data_n)
    <3>1. sent - 1 - 1 = sent - 2
      BY Counts DEF HostTypes
    <3>2. QED
      BY <1>5, <2>1, <3>1, SourceBelow DEF Moving
  <2>4. Held(sent - 2, data_n - 1)
    <3>1. data_n - 1 \in 0 .. Tape_Num - 1 /\ data_n - 1 < data_n
      BY <1>5, <2>1, Counts
    <3>2. QED
      BY <3>1 DEF Moved
  <2>5. QED
    BY <2>2, <2>3, <2>4 DEF Held, MovedWord
<1>6. MoveWait'
  BY <1>1, <1>2, <1>5 DEF MoveRead, MoveWait, Moving, MovedWord, InUse, Source
<1>7. QED
  BY <1>2, <1>4, <1>6

\* ... is there a cycle later, and goes to the next place.
LEMMA MoveWaitStep ==
  ASSUME HostTypes, sent > 0, Moved, MoveWait, state_FIR = "stop", ss_tdata = sent - 1,
         UNCHANGED <<sent, run>>, HostNext
  PROVE  /\ Moved' /\ MoveWrite'
         /\ UNCHANGED <<data_n, isSRAM_dataReady, data_validNum>>
<1>1. DataReadWait /\ data_WE' = {0} /\ data_A' = data_n
  BY Edge DEF MoveWait, DataStop, DataRead, DataWrite, DataPortClock
<1>2. data_n' = data_n /\ isSRAM_dataReady' = isSRAM_dataReady
      /\ data_validNum' = data_validNum /\ state_data' = "write"
      /\ data_Di' = IF data_n = 0 THEN WordOf(ss_tdata) ELSE data_Do
  BY <1>1 DEF DataReadWait
<1>3. dataRAM' = dataRAM
  BY Edge, RamWrite DEF MoveWait, HostTypes
<1>4. Moved'
  BY <1>2, <1>3 DEF Moved, Held, InUse, Source
<1>5. Moving => data_Di' = MovedWord
  <2>1. CASE data_n = 0
    <3>1. Source(sent - 1, 0) = sent - 1
      BY Counts DEF Source, HostTypes
    <3>2. QED
      BY <1>2, <2>1, <3>1 DEF MovedWord
  <2>2. CASE data_n # 0
    <3>1. data_n > 0
      BY <2>2 DEF HostTypes
    <3>2. QED
      BY <1>2, <2>2, <3>1 DEF MoveWait
  <2>3. QED
    BY <2>1, <2>2
<1>6. MoveWrite'
  <2>1. 0 \in Lane /\ 0 .. 0 - 1 = {}
    BY DEF Lane
  <2>2. Moving' <=> Moving
    BY <1>2 DEF Moving, InUse
  <2>3. MovedWord' = MovedWord
    BY <1>2 DEF MovedWord, Source
  <2>4. QED
    BY <1>1, <1>2, <1>5, <2>1, <2>2, <2>3 DEF MoveWrite
<1>7. QED
  BY <1>2, <1>4, <1>6

\* A lane is written; after the last one the word is whole and the next is due.
LEMMA MoveWriteStep ==
  ASSUME HostTypes, sent > 0, Moved, MoveWrite, state_FIR = "stop", ~isSRAM_dataReady,
         data_validNum = Valid(sent - 1), UNCHANGED <<sent, run>>, HostNext
  PROVE  \/ /\ Moved' /\ (MoveRead' \/ MoveWrite')
            /\ ~isSRAM_dataReady' /\ data_validNum' = data_validNum
         \/ Filled' /\ isSRAM_dataReady'
<1>1. PICK m \in Lane : /\ data_WE = {m}
                        /\ Moving => /\ data_Di = MovedWord
                                     /\ \A l \in 0 .. m - 1 : dataRAM[data_n][l] = MovedWord[l]
  BY DEF MoveWrite
<1>2. DataWrite /\ data_WE' = {l + 1 : l \in data_WE \ {3}}
      /\ data_A' = CASE ~LastLane \/ data_n = 0 -> data_A
                     [] OTHER -> IF data_n > 1 THEN data_n - 2 ELSE 0
  BY Edge DEF MoveWrite, DataStop, DataRead, DataReadWait, DataPortClock
<1>3. LastLane <=> m = 3
  BY <1>1 DEF LastLane
<1>4. /\ dataRAM' \in [Index -> Word]
      /\ \A i \in Index : i # data_n => dataRAM'[i] = dataRAM[i]
      /\ \A l \in Lane : dataRAM'[data_n][l] = IF l = m THEN data_Di[l] ELSE dataRAM[data_n][l]
  <2>1. dataRAM' = BramWrite(dataRAM, data_n, {m}, data_Di) /\ data_n \in Index
    BY <1>1, Edge DEF MoveWrite, HostTypes, Index
  <2>2. QED
    BY <2>1, RamWrite DEF HostTypes
<1>5. Moving => \A l \in 0 .. m : dataRAM'[data_n][l] = MovedWord[l]
  BY <1>1, <1>4 DEF Lane
<1>6. Moving' <=> data_n' < Tape_Num /\ InUse(sent - 1, data_n')
  BY DEF Moving, InUse
<1> DEFINE AfterEdge(n, i) == InUse(n, i) => dataRAM'[i] = WordOf(Source(n, i))
<1>7. \A i \in 0 .. Tape_Num - 1 :
        /\ i > data_n => AfterEdge(sent - 1, i)
        /\ i < data_n => AfterEdge(sent - 2, i)
  <2>1. \A i \in 0 .. Tape_Num - 1 : i \in Index
    BY Counts DEF Index
  <2>2. data_n \in 0 .. Tape_Num
    BY DEF HostTypes
  <2>3. QED
    BY <1>4, <2>1, <2>2, Counts DEF Moved, Held
<1>8. \A i \in 0 .. Tape_Num - 1 : /\ Held(sent - 1, i)' <=> AfterEdge(sent - 1, i)
                                   /\ Held(sent - 2, i)' <=> AfterEdge(sent - 2, i)
  BY DEF Held, InUse, Source
<1> HIDE DEF AfterEdge
<1>9. CASE m # 3
  <2>1. m + 1 \in Lane /\ data_WE' = {m + 1}
    <3>1. m + 1 \in Lane
      BY <1>9 DEF Lane
    <3>2. data_WE \ {3} = {m}
      BY <1>1, <1>9
    <3>3. QED
      BY <1>2, <3>1, <3>2
  <2>2. UNCHANGED <<data_n, isSRAM_dataReady, data_validNum, data_Di>> /\ state_data' = "write"
    BY <1>2, <1>3, <1>9 DEF DataWrite
  <2>3. data_A' = data_n'
    BY <1>2, <1>3, <1>9, <2>2 DEF MoveWrite
  <2>4. Moved'
    BY <1>7, <1>8, <2>2 DEF Moved
  <2>5. MoveWrite'
    <3>1. MovedWord' = MovedWord /\ (Moving' <=> Moving)
      BY <2>2 DEF MovedWord, Source, Moving, InUse
    <3> DEFINE lane == m + 1
    <3>2. lane - 1 = m
      BY DEF Lane
    <3>3. lane \in Lane /\ data_WE' = {lane}
      BY <2>1
    <3> HIDE DEF lane
    <3>4. Moving' => /\ data_Di' = MovedWord'
                     /\ \A l \in 0 .. lane - 1 : dataRAM'[data_n'][l] = MovedWord'[l]
      BY <1>1, <1>5, <2>2, <3>1, <3>2
    <3>5. QED
      BY <2>2, <2>3, <3>3, <3>4 DEF MoveWrite
  <2>6. QED
    BY <2>2, <2>4, <2>5
<1>10. CASE m = 3
  <2>1. data_WE' = {}
    BY <1>1, <1>2, <1>10
  <2>2. Moving => dataRAM'[data_n] = MovedWord
    <3>1. ASSUME Moving
          PROVE  dataRAM'[data_n] = MovedWord
      <4>1. Source(sent - 1, data_n) \in Int
        BY Counts DEF Source, HostTypes
      <4>2. \A l \in Lane : dataRAM'[data_n][l] = Source(sent - 1, data_n)
        BY <1>5, <1>10, <3>1, <4>1, WholeWord DEF MovedWord, Lane
      <4>3. dataRAM'[data_n] \in Word
        BY <1>4 DEF HostTypes, Index
      <4>4. QED
        BY <4>1, <4>2, <4>3, WholeWord DEF MovedWord
    <3>2. QED
      BY <3>1
  <2>3. data_n < Tape_Num => AfterEdge(sent - 1, data_n)
    BY <2>2 DEF Moving, MovedWord, AfterEdge
  <2>4. CASE data_n # 0
    <3>1. data_n' = data_n - 1 /\ state_data' = "read"
          /\ UNCHANGED <<isSRAM_dataReady, data_validNum>>
      BY <1>2, <1>3, <1>10, <2>4 DEF DataWrite
    <3>2. data_n' > 0 => data_A' = data_n' - 1
      BY <1>2, <1>3, <1>10, <2>4, <3>1, Counts, SMTT(30) DEF HostTypes
    <3>3. Moved'
      <4>1. \A i \in 0 .. Tape_Num - 1 : /\ i > data_n' => i > data_n \/ i = data_n
                                         /\ i < data_n' => i < data_n
        BY <3>1, Counts DEF HostTypes
      <4>2. \A i \in 0 .. Tape_Num - 1 : /\ i > data_n' => Held(sent - 1, i)'
                                         /\ i < data_n' => Held(sent - 2, i)'
        <5>1. \A i \in 0 .. Tape_Num - 1 : /\ i > data_n' => AfterEdge(sent - 1, i)
                                           /\ i < data_n' => AfterEdge(sent - 2, i)
          BY <1>7, <2>3, <4>1, Counts
        <5>2. QED
          BY <1>8, <5>1
      <4>3. QED
        BY <4>2 DEF Moved
    <3>4. QED
      BY <2>1, <3>1, <3>2, <3>3 DEF MoveRead
  <2>5. CASE data_n = 0
    <3>1. state_data' = "stop" /\ isSRAM_dataReady'
          /\ data_validNum' = IF data_validNum < Tape_Num THEN data_validNum + 1
                                ELSE data_validNum
      BY <1>2, <1>3, <1>10, <2>5 DEF DataWrite
    <3>2. data_validNum' = Valid(sent)'
      BY <3>1, Counts DEF Valid, HostTypes
    <3>3. Samples'
      <4>1. \A i \in 0 .. Tape_Num - 1 : i > data_n \/ (i = data_n /\ data_n < Tape_Num)
        BY <2>5, Counts
      <4>2. \A i \in 0 .. Tape_Num - 1 : Held(sent - 1, i)'
        BY <1>7, <1>8, <2>3, <4>1
      <4>3. QED
        BY <4>2 DEF Samples
    <3>4. QED
      BY <2>1, <3>1, <3>2, <3>3 DEF Filled, Quiet
  <2>6. QED
    BY <2>4, <2>5
<1>11. QED
  BY <1>9, <1>10

\* Shifting goes on lane by lane until the window is loaded.
LEMMA ShiftingStep ==
  ASSUME HostTypes, Bus, Outputs, Lengths, pc = "poll_y", sent > 0, Shifting, HostNext
  PROVE  Shifting' \/ Loaded'
<1>1. UNCHANGED <<sent, run>> /\ ss_tdata' = ss_tdata
  BY Polling
<1>2. /\ state_FIR' = "stop" /\ isFIRReady' /\ ~isY_readyRead' /\ sm_tdata' = <<>>
      /\ ~isFIRDoneFirst' /\ ~is_data_length_minus'
  BY ShiftFlags
<1>3. \/ /\ Moved' /\ (MoveRead' \/ MoveWait' \/ MoveWrite')
         /\ ~isSRAM_dataReady' /\ data_validNum' = data_validNum
      \/ Filled' /\ isSRAM_dataReady'
  BY <1>1, MoveReadStep, MoveWaitStep, MoveWriteStep DEF Shifting
<1>4. ss_tdata' = sent' - 1 /\ Valid(sent - 1)' = Valid(sent - 1)
  BY <1>1 DEF Shifting, Valid
<1>5. QED
  BY <1>2, <1>3, <1>4 DEF Shifting, Loaded

\* The products of a sum: none at first, and one more by each round.
LEMMA SumGrows ==
  ASSUME NEW m \in Nat
  PROVE  /\ Sum(0) = <<>>
         /\ Append(Sum(m), <<WordOf(m), WordOf(Source(sent - 1, m))>>) = Sum(m + 1)
<1> DEFINE product(i) == <<WordOf(i - 1), WordOf(Source(sent - 1, i - 1))>>
           T == {product(i) : i \in 1 .. m + 1}
<1>1. Sum(0) = <<>>
  BY DEF Sum
<1>2. Sum(m) = [i \in 1 .. m |-> product(i)] /\ Sum(m + 1) = [i \in 1 .. m + 1 |-> product(i)]
  BY DEF Sum
<1>3. product(m + 1) = <<WordOf(m), WordOf(Source(sent - 1, m))>>
  OBVIOUS
<1>4. \A i \in 1 .. m + 1 : product(i) \in T
  OBVIOUS
<1> HIDE DEF product, T
<1>5. Sum(m) \in Seq(T) /\ Len(Sum(m)) = m /\ \A i \in 1 .. m : Sum(m)[i] = product(i)
  BY <1>2, <1>4
<1>6. Append(Sum(m), product(m + 1)) \in Seq(T)
      /\ Len(Append(Sum(m), product(m + 1))) = m + 1
      /\ \A i \in 1 .. m + 1 : Append(Sum(m), product(m + 1))[i] = product(i)
  BY <1>4, <1>5, AppendProperties
<1>7. Sum(m + 1) \in Seq(T) /\ Len(Sum(m + 1)) = m + 1
      /\ \A i \in 1 .. m + 1 : Sum(m + 1)[i] = product(i)
  BY <1>2, <1>4
<1>8. QED
  BY <1>1, <1>3, <1>6, <1>7, SeqEqual

\* With its samples in place and no strobe up, the data RAM keeps them.
LEMMA FilledStays ==
  ASSUME HostTypes, Filled, ~ss_tvalid, UNCHANGED <<sent, run>>, HostNext
  PROVE  Filled' /\ dataRAM' = dataRAM /\ data_validNum' = data_validNum
         /\ (isSRAM_dataReady' => isSRAM_dataReady)
<1>1. DataStop
  BY Edge DEF Filled, Quiet, DataRead, DataReadWait, DataWrite
<1>2. state_data' = "stop" /\ data_validNum' = data_validNum
      /\ (isSRAM_dataReady' => isSRAM_dataReady)
  BY <1>1 DEF DataStop
<1>3. data_WE' = {}
  BY Edge DEF DataPortClock, Filled, Quiet
<1>4. dataRAM' = dataRAM
  BY Edge, RamWrite DEF Filled, Quiet, HostTypes
<1>5. Samples' /\ data_validNum' = Valid(sent)'
  BY <1>2, <1>4, SamplesStay DEF Filled
<1>6. QED
  BY <1>2, <1>3, <1>4, <1>5 DEF Filled, Quiet

\* A sample that is in starts the computation at once.
LEMMA LoadedStep ==
  ASSUME HostTypes, sent > 0, Loaded, ~ss_tvalid, UNCHANGED <<sent, run>>, HostNext
  PROVE  Computing'
<1>1. CalcStop
  BY Edge DEF Loaded, CalcRead, CalcReadWait, Calculate
<1>2. state_FIR' = "read" /\ ~isY_readyRead' /\ sm_tdata' = <<>> /\ idx_reg' = 0
  BY <1>1 DEF CalcStop, Loaded, sm_tvalid
<1>3. ~is_data_length_minus'
  BY Edge DEF LengthClock, CountsOutput, Loaded
<1>4. Filled' /\ data_validNum' = data_validNum
  BY FilledStays DEF Loaded
<1>5. 0 < data_validNum'
  BY <1>4, Counts DEF Loaded, Filled, Valid, HostTypes
<1>6. sm_tdata' = Sum(0)'
  BY <1>2 DEF Sum
<1>7. QED
  BY <1>2, <1>3, <1>4, <1>5, <1>6 DEF Computing, Sum

\* Each round of the computation appends the product of its place.
LEMMA ComputingStep ==
  ASSUME HostTypes, Taps, pc = "poll_y", sent > 0, Computing, ~ss_tvalid,
         UNCHANGED <<sent, run>>, HostNext
  PROVE  Computing' \/ Waiting'
<1>1. Filled' /\ dataRAM' = dataRAM /\ data_validNum' = data_validNum
      /\ (isSRAM_dataReady' => isSRAM_dataReady)
  BY FilledStays DEF Computing
<1>2. ~is_data_length_minus'
  BY Edge DEF LengthClock, CountsOutput, Computing
<1>3. /\ idx_reg \in Nat /\ data_validNum \in Nat
      /\ idx_reg < data_validNum /\ data_validNum <= Tape_Num
  BY Counts DEF Computing, HostTypes
<1>4. \A m : Sum(m)' = Sum(m)
  BY DEF Sum, Source
<1>5. CASE state_FIR = "read"
  <2>1. CalcRead
    BY <1>5, Edge DEF CalcStop, CalcReadWait, Calculate
  <2>2. data_A' = idx_reg
    BY <1>5, Edge DEF DataPortClock
  <2>3. QED
    BY <1>1, <1>2, <1>3, <2>1, <2>2 DEF CalcRead, Computing, Sum, Source
<1>6. CASE state_FIR = "read_wait"
  <2>1. CalcReadWait
    BY <1>6, Edge DEF CalcStop, CalcRead, Calculate
  <2>2. data_Do' = WordOf(Source(sent - 1, idx_reg))
    <3>1. data_Do' = dataRAM[idx_reg]
      BY <1>6, Edge DEF Computing
    <3>2. InUse(sent - 1, idx_reg)
      BY <1>3, Counts DEF Computing, Filled, Valid, InUse, HostTypes
    <3>3. idx_reg \in 0 .. Tape_Num - 1
      BY <1>3, Counts
    <3>4. QED
      BY <3>1, <3>2, <3>3 DEF Computing, Filled, Samples, Held
  <2>3. tap_Do' = WordOf(idx_reg)
    <3>1. TapAddress = idx_reg /\ TapEnable
      BY <1>6 DEF TapAddress, TapEnable
    <3>2. tap_Do' = tapRAM[idx_reg]
      BY <3>1, Edge DEF TapClock, BramRead
    <3>3. idx_reg \in 0 .. Tape_Num - 1
      BY <1>3, Counts
    <3>4. QED
      BY <3>2, <3>3 DEF Taps, Running
  <2>4. state_FIR' = "calculate" /\ UNCHANGED <<idx_reg, sm_tdata, isY_readyRead>>
    BY <2>1 DEF CalcReadWait
  <2>5. sm_tdata' = Sum(idx_reg)'
    BY <1>4, <2>4 DEF Computing
  <2>6. Source(sent - 1, idx_reg)' = Source(sent - 1, idx_reg)
    BY <2>4 DEF Source
  <2>7. QED
    BY <1>1, <1>2, <1>3, <2>2, <2>3, <2>4, <2>5, <2>6 DEF Computing
<1>7. CASE state_FIR = "calculate"
  <2>1. Calculate
    BY <1>7, Edge DEF CalcStop, CalcRead, CalcReadWait
  <2>2. sm_tdata' = Sum(idx_reg + 1)
    BY <1>3, <1>7, <2>1, SumGrows DEF Calculate, Computing
  <2>3. CASE idx_reg = data_validNum - 1
    <3>1. state_FIR' = "stop" /\ isFIRReady' /\ isY_readyRead' /\ isFIRDoneFirst'
      BY <2>1, <2>3 DEF Calculate
    <3>2. sm_tdata' = Sum(data_validNum)
      BY <1>3, <2>2, <2>3
    <3>3. sm_tdata' = Sum(data_validNum)'
      BY <1>1, <3>2 DEF Sum, Source
    <3>4. QED
      BY <1>1, <1>2, <3>1, <3>3 DEF Waiting
  <2>4. CASE idx_reg # data_validNum - 1
    <3>1. state_FIR' = "read" /\ ~isY_readyRead' /\ idx_reg' = (idx_reg + 1) % 16
      BY <2>1, <2>4 DEF Calculate
    <3>2. idx_reg + 1 < data_validNum /\ idx_reg' = idx_reg + 1
      BY <1>3, <2>4, <3>1, Counts DEF HostTypes
    <3>3. sm_tdata' = Sum(idx_reg)'
      BY <2>2, <3>2 DEF Sum, Source
    <3>4. QED
      BY <1>1, <1>2, <3>1, <3>2, <3>3 DEF Computing
  <2>5. QED
    BY <2>3, <2>4
<1>8. QED
  BY <1>5, <1>6, <1>7 DEF Computing

\* The sum stays until it is taken, is counted once and shown to the bridge.
LEMMA WaitingStays ==
  ASSUME HostTypes, Waiting, ~ss_tvalid, ~sm_tready, UNCHANGED <<sent, run>>,
         is_data_length_minus => data_length = 0 \/ ~ap_idle, HostNext
  PROVE  Waiting' /\ is_data_length_minus'
<1>1. /\ state_FIR' = "stop" /\ isFIRReady' /\ (isSRAM_dataReady' => isFIRDoneFirst')
      /\ isY_readyRead' /\ sm_tdata' = sm_tdata
  BY StillEdge DEF Waiting, Filled
<1>2. Filled' /\ data_validNum' = data_validNum
  BY FilledStays DEF Waiting
<1>3. is_data_length_minus'
  BY Edge DEF LengthClock, CountsOutput, isX_readyWrite, Waiting, Filled, Quiet
<1>4. axis_rdata' = sm_tdata'
  BY <1>1, Edge DEF StreamChannels, sm_tvalid, Waiting
<1>5. Sum(data_validNum)' = Sum(data_validNum)
  BY <1>2 DEF Sum, Source
<1>6. QED
  BY <1>1, <1>2, <1>3, <1>4, <1>5 DEF Waiting

\* An output that is read is gone, and the filter rests.
LEMMA GetStep ==
  ASSUME HostTypes, Waiting, ~ss_tvalid, sm_tready, UNCHANGED <<sent, run>>, HostNext
  PROVE  Resting'
<1>1. /\ state_FIR' = "stop" /\ isFIRReady' /\ (isSRAM_dataReady' => isFIRDoneFirst')
      /\ ~isY_readyRead' /\ sm_tdata' = <<>>
  BY StillEdge DEF Waiting, Filled
<1>2. Filled' /\ data_validNum' = data_validNum
  BY FilledStays DEF Waiting
<1>3. QED
  BY <1>1, <1>2 DEF Resting, Filled, Valid

-----------------------------------------------------------------------------
(* The phases, the counts and the polls follow the program. *)

\* A strobe is up with a sample that is being sent or accepted, only.
LEMMA NoStrobe ==
  ASSUME Bus, Accepted, pc \in {"poll_y", "get_y"}, state_data = "stop"
  PROVE  ~ss_tvalid
  BY DEF Bus, StreamSide, Accepted

\* The filter is still busy with its run while outputs are missing.
LEMMA StillBusy ==
  ASSUME HostTypes, Lengths, pc \in Running
  PROVE  data_length = 0 \/ (~ap_idle /\ ~ap_done)
  BY DEF Lengths

\* While the program configures, sends or waits, the filter rests or takes a sample.
LEMMA AtRestStep ==
  ASSUME HostInv, pc \notin {"poll_y", "get_y"}, HostNext
  PROVE  Phase' /\ Fetching' /\ Accepted'
<1> USE DEF HostInv
<1>1. Resting
  BY DEF Phase
<1>2. ss_tvalid' <=> wb.valid /\ pc = "put_x"
  BY Edge, Channels DEF StreamChannels
<1>3. CASE pc = "put_x" /\ wb.valid /\ wbs_ack_o
  <2>1. ~ap_idle
    <3>1. Len(got) = sent /\ sent < RunLength /\ sent \in Nat
      BY <1>3, Counts DEF Outputs, Bus, ProgramIsAt, HostTypes
    <3>2. data_length + Len(got) = RunLength
      BY <1>1, <1>3, <3>1 DEF Lengths, Running, Computed, Resting
    <3>3. data_length # 0
      BY <3>1, <3>2, Counts
    <3>4. QED
      BY <1>3, <3>3, StillBusy DEF Running
  <2>2. Shifting' /\ state_data' = "read" /\ pc' = "poll_y" /\ sent' > 0
    BY <1>1, <1>3, <2>1, PutStep
  <2>3. QED
    BY <2>2 DEF Phase, Fetching, Accepted
<1>4. CASE ~(pc = "put_x" /\ wb.valid /\ wbs_ack_o)
  <2>1. Resting' /\ pc' \notin {"poll_y", "get_y"}
    BY <1>1, <1>4, RestingStep
  <2>2. wb.valid /\ pc = "put_x" => wb' = wb
    BY <1>4, ProgramStep
  <2>3. QED
    BY <1>2, <2>1, <2>2 DEF Phase, Fetching, Accepted
<1>5. QED
  BY <1>3, <1>4

\* While the program waits for an output, the filter works towards one.
LEMMA PollingStep ==
  ASSUME HostInv, pc = "poll_y", HostNext
  PROVE  Phase' /\ Fetching' /\ Accepted'
<1> USE DEF HostInv
<1>1. sent > 0 /\ (Shifting \/ Loaded \/ Computing \/ Waiting)
  BY DEF Phase
<1>2. /\ pc' \in {"poll_y", "get_y"} /\ UNCHANGED <<sent, run>> /\ ~ss_tvalid' /\ ~sm_tready
      /\ pc' = "get_y" => axi_rdata.status.y
  BY Polling
<1>3. sent' > 0
  BY <1>1, <1>2
<1>4. pc' = "get_y" => isY_readyRead /\ is_data_length_minus
  BY <1>2 DEF Statuses
<1>5. CASE Shifting
  BY <1>1, <1>2, <1>3, <1>4, <1>5, ShiftingStep DEF Shifting, Phase, Fetching, Accepted
<1>6. CASE Loaded
  <2>1. Computing'
    BY <1>1, <1>2, <1>6, NoStrobe, LoadedStep DEF Loaded, Filled, Quiet
  <2>2. QED
    BY <1>2, <1>3, <1>4, <1>6, <2>1 DEF Loaded, Phase, Fetching, Accepted
<1>7. CASE Computing
  <2>1. Computing' \/ Waiting'
    BY <1>1, <1>2, <1>7, NoStrobe, ComputingStep DEF Computing, Filled, Quiet
  <2>2. QED
    BY <1>2, <1>3, <1>4, <1>7, <2>1 DEF Computing, Phase, Fetching, Accepted
<1>8. CASE Waiting
  <2>1. Waiting' /\ is_data_length_minus'
    BY <1>2, <1>8, NoStrobe, StillBusy, WaitingStays DEF Waiting, Filled, Quiet, Running
  <2>2. QED
    BY <1>2, <1>3, <2>1 DEF Phase, Fetching, Accepted
<1>9. QED
  BY <1>1, <1>5, <1>6, <1>7, <1>8

\* The output that the program reads is the one the filter holds.
LEMMA FetchingStep ==
  ASSUME HostInv, pc = "get_y", HostNext
  PROVE  Phase' /\ Fetching' /\ Accepted'
<1> USE DEF HostInv
<1>1. sent > 0 /\ Waiting /\ is_data_length_minus
  BY DEF Phase, Fetching
<1>2. ~ss_tvalid /\ ~ss_tvalid'
  <2>1. ~ss_tvalid
    BY <1>1, NoStrobe DEF Waiting, Filled, Quiet
  <2>2. ~ss_tvalid'
    BY Edge, Channels DEF StreamChannels
  <2>3. QED
    BY <2>1, <2>2
<1>3. CASE sm_tready
  <2>1. wb.valid /\ wbs_ack_o
    BY <1>3, Acknowledged DEF Bus, StreamSide
  <2>2. UNCHANGED <<sent, run>> /\ pc' \in {"poll_x", "poll_idle"}
    BY <2>1, Moves DEF DoneGetY
  <2>3. Resting'
    BY <1>1, <1>2, <1>3, <2>2, GetStep
  <2>4. QED
    BY <1>2, <2>2, <2>3 DEF Phase, Fetching, Accepted
<1>4. CASE ~sm_tready
  <2>1. UNCHANGED <<sent, run, pc>>
    BY <1>4, Acknowledged, Moves DEF hostVars
  <2>2. Waiting' /\ is_data_length_minus'
    BY <1>1, <1>2, <1>4, <2>1, StillBusy, WaitingStays DEF Running
  <2>3. QED
    BY <1>1, <1>2, <2>1, <2>2 DEF Phase, Fetching, Accepted
<1>5. QED
  BY <1>3, <1>4

\* What the status said stays true until the program has acted on it.
LEMMA StatusesStep ==
  ASSUME HostInv, HostNext
  PROVE  Statuses'
<1> USE DEF HostInv
<1>1. /\ rdata'.status.y <=> IF arvalid THEN isY_readyRead ELSE rdata.status.y
      /\ isStateReady_r' <=> arvalid
      /\ axi_rdata' = IF isStateReady_r THEN rdata ELSE axi_rdata
  <2>1. rdata' = IF arvalid THEN ReadWord(apState, WordOf(0)) ELSE rdata
    BY Edge, Seen DEF ReadClock
  <2>2. isStateReady_r' <=> arvalid
    BY Edge, Seen DEF ReadClock
  <2>3. axi_rdata' = IF isStateReady_r THEN rdata ELSE axi_rdata
    BY Edge DEF ReadChannel, rvalid
  <2>4. ReadWord(apState, WordOf(0)).status.y = isY_readyRead
    BY DEF ReadWord, apState
  <2>5. QED
    BY <2>1, <2>2, <2>3, <2>4
<1>2. CASE pc \notin {"poll_y", "get_y"}
  <2>1. ~isY_readyRead
    BY <1>2 DEF Phase, Resting
  <2>2. arvalid => ~rdata'.status.y
    BY <1>1, <2>1
  <2>3. pc' = "poll_x" /\ wb'.valid /\ isStateReady_r' => ~rdata'.status.y
    BY <1>1, <2>2
  <2>4. ASSUME pc' \in {"put_x", "poll_y"}
        PROVE  ~rdata'.status.y /\ ~axi_rdata'.status.y
    <3>1. \/ pc = "put_x"
          \/ pc = "poll_x" /\ wb.valid /\ wbs_ack_o
      BY <1>2, <2>4, ProgramStep
         DEF hostVars, DoneLength, DoneCoeff, DoneStart, DonePollX, DonePutX, DonePollY,
             DoneGetY, DonePollIdle
    <3>2. CASE pc = "put_x"
      BY <1>1, <2>2, <3>2 DEF Statuses
    <3>3. CASE pc = "poll_x" /\ wb.valid /\ wbs_ack_o
      <4>1. isStateReady_r /\ arvalid
        BY <3>3, Acknowledged DEF Polls, Bus, ReadSide
      <4>2. QED
        BY <1>1, <2>2, <3>3, <4>1 DEF Statuses
    <3>4. QED
      BY <3>1, <3>2, <3>3
  <2>5. QED
    BY <2>3, <2>4 DEF Statuses
<1>3. CASE pc = "poll_y"
  <2>1. pc' \in {"poll_y", "get_y"} /\ ~sm_tready
    BY <1>3, Polling
  <2>2. isY_readyRead => isY_readyRead' /\ is_data_length_minus'
    <3>1. ASSUME isY_readyRead PROVE Waiting' /\ is_data_length_minus'
      <4>1. Waiting
        BY <1>3, <3>1 DEF Phase, Shifting, Loaded, Computing
      <4>2. UNCHANGED <<sent, run>>
        BY <1>3, Polling
      <4>3. QED
        BY <1>3, <2>1, <4>1, <4>2, NoStrobe, StillBusy, WaitingStays
           DEF Waiting, Filled, Quiet, Running
    <3>2. QED
      BY <3>1 DEF Waiting
  <2>3. rdata'.status.y \/ axi_rdata'.status.y => isY_readyRead
    BY <1>1, <1>3 DEF Statuses
  <2>4. QED
    BY <2>1, <2>2, <2>3 DEF Statuses
<1>4. CASE pc = "get_y"
  <2>1. pc' = "get_y" \/ (~wb'.valid /\ pc' \in {"poll_x", "poll_idle"})
    BY <1>4, ProgramStep, NoAccess
       DEF hostVars, DoneLength, DoneCoeff, DoneStart, DonePollX, DonePutX, DonePollY,
           DoneGetY, DonePollIdle
  <2>2. QED
    BY <2>1 DEF Statuses
<1>5. QED
  BY <1>2, <1>3, <1>4

\* The phases keep to the program.
LEMMA PhaseStep ==
  ASSUME HostInv, HostNext
  PROVE  Phase' /\ Fetching' /\ Accepted'
  BY AtRestStep, PollingStep, FetchingStep

\* What the length and the block-level handshake do at an edge.
LEMMA LengthEdge ==
  ASSUME HostInv, HostNext
  PROVE  /\ CountsOutput => data_length' = (data_length - 1) % LengthMod /\ is_data_length_minus'
         /\ ~CountsOutput => data_length' = IF awvalid /\ pc = "length" THEN RunLength
                                              ELSE data_length
         /\ data_length # 0 => ~ap_done'
         /\ awvalid /\ pc = "start" /\ ~ap_done => ~ap_idle'
         /\ ~ap_idle /\ ~ap_done => ~ap_idle'
         /\ isStateReady_w' => awvalid /\ pc \in {"length", "start"}
<1> USE DEF HostInv
<1>1. WritesTo("data_length") => wdata % LengthMod = RunLength
  BY Seen, Channels, Counts
<1>2. /\ CountsOutput => data_length' = (data_length - 1) % LengthMod /\ is_data_length_minus'
      /\ ~CountsOutput => data_length' = IF awvalid /\ pc = "length" THEN RunLength
                                           ELSE data_length
  BY <1>1, Seen, Edge DEF LengthClock
<1>3. /\ ap_done' <=> isFIRReady /\ data_length = 0 /\ ~ap_done
      /\ ap_idle' <=> ap_done \/ (ap_idle /\ ~WritesTo("ap_state"))
      /\ isStateReady_w' => WritesTo("ap_state") \/ WritesTo("data_length")
  BY Edge DEF ControlClock, sm_tlast
<1>4. QED
  BY <1>2, <1>3, Seen

\* Before the run starts its length is written, and is there when it starts.
LEMMA LengthIsWritten ==
  ASSUME HostInv, pc \in {"length", "coeff", "start"}, HostNext
  PROVE  Lengths'
<1> USE DEF HostInv
<1>1. ~CountsOutput
  BY DEF Phase, Resting, CountsOutput
<1>2. isStateReady_w => awvalid
  BY DEF Bus, WriteSide
<1>3. RunLength # 0
  BY Counts
<1>4. CASE pc = "length"
  <2>1. isStateReady_w' => data_length' = RunLength
    BY <1>1, <1>4, LengthEdge
  <2>2. CASE pc' = "length"
    BY <2>1, <2>2 DEF Lengths, Running
  <2>3. CASE pc' # "length"
    <3>1. wb.valid /\ wbs_ack_o /\ pc' = "coeff"
      BY <1>4, <2>3, Moves DEF hostVars, DoneLength
    <3>2. isStateReady_w /\ awvalid
      BY <1>2, <1>4, <3>1, Acknowledged
    <3>3. data_length' = RunLength /\ ~ap_done'
      BY <1>1, <1>3, <1>4, <3>2, LengthEdge DEF Lengths
    <3>4. QED
      BY <3>1, <3>3 DEF Lengths, Running
  <2>4. QED
    BY <2>2, <2>3
<1>5. CASE pc \in {"coeff", "start"}
  <2>1. data_length' = RunLength /\ data_length = RunLength /\ ~ap_done /\ ~ap_done'
    BY <1>1, <1>3, <1>5, LengthEdge DEF Lengths
  <2>2. CASE pc' \in {"coeff", "start"}
    BY <2>1, <2>2 DEF Lengths, Running
  <2>3. CASE pc' \notin {"coeff", "start"}
    <3>1. pc = "start" /\ wb.valid /\ wbs_ack_o /\ pc' = "poll_x"
      BY <1>5, <2>3, Moves DEF hostVars, DoneCoeff, DoneStart
    <3>2. ~ap_idle'
      BY <1>2, <2>1, <3>1, Acknowledged, LengthEdge
    <3>3. ~isY_readyRead'
      BY <3>1, PhaseStep DEF Phase, Resting
    <3>4. Len(got') = 0
      BY <1>5, <3>1, CountersStep, Moves DEF Outputs, DoneStart, Bus
    <3>5. data_length' + Computed' = RunLength
      BY <2>1, <3>3, <3>4, Counts DEF Computed
    <3>6. QED
      BY <2>1, <3>1, <3>2, <3>5 DEF Lengths, Running
  <2>4. QED
    BY <2>2, <2>3
<1>6. QED
  BY <1>4, <1>5

\* An output waits to be read, and to be counted, at its own places only.
LEMMA OutputWaits ==
  ASSUME HostInv, isY_readyRead
  PROVE  Waiting /\ pc \in {"poll_y", "get_y"} /\ (pc = "get_y" => is_data_length_minus)
  BY DEF HostInv, Phase, Fetching, Resting, Shifting, Loaded, Computing

\* The length and the outputs keep their sum.
LEMMA SumStays ==
  ASSUME HostInv, pc \in Running, pc' \in Running, HostNext
  PROVE  data_length' + Computed' = RunLength /\ (data_length' # 0 => data_length # 0)
<1> USE DEF HostInv
<1>1. data_length + Computed = RunLength /\ data_length \in 0 .. LengthMod - 1
  BY DEF Lengths, HostTypes
<1>2. Len(got) \in Nat /\ (DoneGetY => Len(got') = Len(got) + 1)
  BY GotStep
<1>3. pc # "length"
  BY DEF Running
<1>4. Phase'
  BY PhaseStep
<1>5. CASE CountsOutput
  <2>1. Waiting /\ pc = "poll_y"
    BY <1>5, OutputWaits DEF CountsOutput
  <2>2. Computed = Len(got) /\ sent > 0
    BY <1>2, <1>5, <2>1 DEF Computed, CountsOutput, Phase
  <2>3. data_length # 0
    BY <1>5, <2>1, <2>2, LengthIsLeft DEF CountsOutput
  <2>4. data_length' = data_length - 1 /\ is_data_length_minus'
    BY <1>1, <1>5, <2>3, LengthEdge, Counts
  <2>5. got' = got /\ UNCHANGED <<sent, run>> /\ ~sm_tready
    BY <2>1, Polling
  <2>6. isY_readyRead'
    BY <1>5, <2>1, <2>5, NoStrobe, WaitingStays
       DEF Waiting, Filled, Quiet, CountsOutput
  <2>7. Computed' = Len(got) + 1
    BY <2>4, <2>5, <2>6 DEF Computed
  <2>8. QED
    BY <1>1, <1>2, <2>2, <2>3, <2>4, <2>7, Counts
<1>6. CASE ~CountsOutput
  <2>1. data_length' = data_length
    BY <1>3, <1>6, LengthEdge
  <2>2. CASE pc \in Running \ {"poll_y", "get_y"}
    <3>1. ~isY_readyRead /\ ~isY_readyRead'
      <4>1. ~isY_readyRead
        BY <2>2 DEF Phase, Resting
      <4>2. pc # "put_x" => pc' \notin {"poll_y", "get_y"}
        BY <2>2, ProgramStep
           DEF hostVars, DoneLength, DoneCoeff, DoneStart, DonePollX, DonePutX, DonePollY,
               DoneGetY, DonePollIdle, Running
      <4>3. ~isY_readyRead'
        BY <2>2, <4>1, Edge
           DEF Phase, Resting, CalcStop, CalcRead, CalcReadWait, Calculate
      <4>4. QED
        BY <4>1, <4>3
    <3>2. got' = got
      BY <2>2, ProgramStep
         DEF hostVars, DoneLength, DoneCoeff, DoneStart, DonePollX, DonePutX, DonePollY,
             DoneGetY, DonePollIdle, Running
    <3>3. QED
      BY <1>1, <2>1, <3>1, <3>2 DEF Computed
  <2>3. CASE pc = "poll_y"
    <3>1. got' = got /\ UNCHANGED <<sent, run>> /\ ~sm_tready
      BY <2>3, Polling
    <3>2. CASE isY_readyRead
      <4>1. Waiting /\ is_data_length_minus
        BY <1>6, <3>2, OutputWaits DEF CountsOutput
      <4>2. isY_readyRead' /\ is_data_length_minus'
        BY <2>3, <3>1, <4>1, NoStrobe, StillBusy, WaitingStays
           DEF Waiting, Filled, Quiet
      <4>3. QED
        BY <1>1, <2>1, <3>1, <3>2, <4>1, <4>2 DEF Computed
    <3>3. CASE ~isY_readyRead
      <4>1. ~is_data_length_minus'
        <5>1. CASE Shifting
          BY <2>3, <5>1, ShiftFlags DEF Phase
        <5>2. CASE ~Shifting
          <6>1. ~is_data_length_minus
            BY <2>3, <3>3, <5>2 DEF Phase, Loaded, Computing, Waiting
          <6>2. QED
            BY <3>3, <6>1, Edge DEF LengthClock, CountsOutput
        <5>3. QED
          BY <5>1, <5>2
      <4>2. QED
        BY <1>1, <2>1, <3>1, <3>3, <4>1 DEF Computed
    <3>4. QED
      BY <3>2, <3>3
  <2>4. CASE pc = "get_y"
    <3>1. isY_readyRead /\ is_data_length_minus /\ Computed = Len(got) + 1
      BY <2>4 DEF Fetching, Waiting, Computed
    <3>2. CASE wb.valid /\ wbs_ack_o
      <4>1. DoneGetY /\ pc' \notin {"poll_y", "get_y"}
        BY <2>4, <3>2, Moves DEF DoneGetY
      <4>2. ~isY_readyRead'
        BY <1>4, <4>1 DEF Phase, Resting
      <4>3. Computed' = Len(got) + 1
        BY <1>2, <4>1, <4>2 DEF Computed
      <4>4. QED
        BY <1>1, <2>1, <3>1, <4>3
    <3>3. CASE ~(wb.valid /\ wbs_ack_o)
      <4>1. pc' = pc /\ got' = got
        BY <3>3, Moves DEF hostVars
      <4>2. isY_readyRead' /\ is_data_length_minus'
        BY <2>4, <4>1, PhaseStep DEF Fetching, Waiting
      <4>3. QED
        BY <1>1, <2>1, <3>1, <4>1, <4>2 DEF Computed
    <3>4. QED
      BY <3>2, <3>3
  <2>5. QED
    BY <2>2, <2>3, <2>4
<1>7. QED
  BY <1>5, <1>6

\* The length left and the outputs formed add up after every edge.
LEMMA LengthsStep ==
  ASSUME HostInv, HostNext
  PROVE  Lengths'
<1>1. CASE pc \in {"length", "coeff", "start"}
  BY <1>1, LengthIsWritten
<1>2. CASE pc \in Running /\ pc' \in Running
  <2>1. data_length' + Computed' = RunLength /\ (data_length' # 0 => data_length # 0)
    BY <1>2, SumStays
  <2>2. data_length # 0 => ~ap_idle' /\ ~ap_done'
    BY <1>2, LengthEdge, StillBusy DEF HostInv
  <2>3. QED
    BY <1>2, <2>1, <2>2 DEF Lengths, Running
<1>3. CASE pc \in Running /\ pc' \notin Running
  <2>1. pc' \in {"length", "done"}
    BY <1>3, ProgramStep
       DEF hostVars, DoneLength, DoneCoeff, DoneStart, DonePollX, DonePutX, DonePollY,
           DoneGetY, DonePollIdle, Running
  <2>2. ~isStateReady_w'
    BY <1>3, LengthEdge DEF Running
  <2>3. QED
    BY <2>1, <2>2 DEF Lengths, Running
<1>4. CASE pc = "done"
  <2>1. pc' = "done"
    BY <1>4, Moves, Channels DEF hostVars, HostInv
  <2>2. QED
    BY <2>1 DEF Lengths, Running
<1>5. QED
  BY <1>1, <1>2, <1>3, <1>4 DEF HostInv, HostTypes, Places

-----------------------------------------------------------------------------
(* The theorems. *)

\* The invariant holds before the first access.
LEMMA HostStarts == HostInit => HostInv
<1> SUFFICES ASSUME HostInit PROVE HostInv
  OBVIOUS
<1>1. pc = "length" /\ k = 0 /\ sent = 0 /\ got = <<>> /\ run = 0 /\ wb = NoRequest
  BY DEF HostInit, ProjectInit
<1>2. /\ data_n = Tape_Num /\ idx_reg = 0 /\ data_validNum = 0 /\ data_length = 0
      /\ data_A = 0 /\ tap_A \in Index /\ data_WE = {}
      /\ dataRAM = [i \in Index |-> WordOf(Unwritten)]
      /\ tapRAM = [i \in Index |-> WordOf(Unwritten)]
      /\ data_Do = WordOf(Unwritten) /\ data_Di = WordOf(0)
  BY DEF HostInit, ProjectInit, FirInit
<1>3. /\ state_data = "stop" /\ state_FIR = "stop" /\ isFIRReady /\ ~isY_readyRead
      /\ ~isSRAM_dataReady /\ sm_tdata = <<>> /\ ~isStateReady_w
      /\ tap_WE_shift_n = 0 /\ SRAM_readCycle = 0
  BY DEF HostInit, ProjectInit, FirInit
<1>4. ~awvalid /\ ~arvalid /\ ~ss_tvalid /\ ~sm_tready /\ ss_tdata = 0
  BY DEF HostInit, ProjectInit, BridgeInit
<1>5. HostTypes
  <2>1. WordOf(Unwritten) \in Word /\ WordOf(0) \in Word
    BY WholeWord DEF Unwritten
  <2>2. dataRAM \in [Index -> Word] /\ tapRAM \in [Index -> Word]
    BY <1>2, <2>1
  <2>3. \E S : got \in Seq(S)
    <3>1. got \in Seq({})
      BY <1>1
    <3>2. QED
      BY <3>1
  <2>4. /\ pc \in Places /\ k \in 0 .. Tape_Num /\ sent \in 0 .. RunLength /\ run \in 0 .. Runs
        /\ data_n \in 0 .. Tape_Num /\ idx_reg \in 0 .. 15 /\ data_validNum \in 0 .. Tape_Num
        /\ data_length \in 0 .. LengthMod - 1 /\ data_A \in Index /\ tap_A \in Index
        /\ ss_tdata \in Int
    BY <1>1, <1>2, <1>4, Counts DEF Places, Index
  <2>5. data_Do \in Word /\ data_Di \in Word
    BY <1>2, <2>1
  <2>6. QED
    BY <2>2, <2>3, <2>4, <2>5 DEF HostTypes
<1>6. Bus
  BY <1>1, <1>3, <1>4, NoAccess, Counts
     DEF Bus, Request, ProgramIsAt, WriteSide, ReadSide, StreamSide
<1>7. Taps
  BY <1>1 DEF Taps, Running
<1>8. Resting
  <2>1. Samples
    BY <1>1 DEF Samples, Held, InUse
  <2>2. data_validNum = Valid(sent)
    BY <1>1, <1>2, Counts DEF Valid
  <2>3. QED
    BY <1>2, <1>3, <2>1, <2>2 DEF Resting, Quiet
<1>9. Phase /\ Fetching /\ Accepted
  BY <1>1, <1>4, <1>8 DEF Phase, Fetching, Accepted
<1>10. Outputs
  BY <1>1, Counts DEF Outputs
<1>11. Lengths /\ Statuses
  BY <1>1, <1>3 DEF Lengths, Statuses, Running
<1>12. QED
  BY <1>5, <1>6, <1>7, <1>9, <1>10, <1>11 DEF HostInv

\* Every variable stays in its range.
LEMMA HostTypesStep ==
  ASSUME HostInv, HostNext
  PROVE  HostTypes'
<1> USE DEF HostInv
<1>1. state_FIR \in {"read", "read_wait"} => idx_reg < data_validNum
  BY DEF Phase, Resting, Shifting, Loaded, Computing, Waiting
<1>2. /\ pc' \in Places /\ k' \in 0 .. Tape_Num /\ sent' \in 0 .. RunLength
      /\ run' \in 0 .. Runs
  BY CountersStep DEF Bus
<1>3. \E S : got' \in Seq(S)
  BY GotStep
<1>4. QED
  BY <1>1, <1>2, <1>3, FilterCountersStep, RamStep DEF HostTypes

\* The invariant of the program and the filter holds in every reachable state.
THEOREM HostInvariance == HostSpec => []HostInv
<1>1. HostInv /\ [HostNext]_hostAll => HostInv'
  <2> SUFFICES ASSUME HostInv, [HostNext]_hostAll PROVE HostInv'
    OBVIOUS
  <2>1. CASE HostNext
    <3>1. HostTypes'
      BY <2>1, HostTypesStep
    <3>2. Bus'
      BY <2>1, BusStep DEF HostInv
    <3>3. Taps'
      BY <2>1, TapsStep DEF HostInv
    <3>4. Outputs'
      BY <2>1, CountersStep DEF HostInv, Bus
    <3>5. QED
      BY <2>1, <3>1, <3>2, <3>3, <3>4, PhaseStep, LengthsStep, StatusesStep DEF HostInv
  <2>2. CASE UNCHANGED hostAll
    <3>1. UNCHANGED vars /\ UNCHANGED hostVars
      BY <2>2 DEF hostAll
    <3> USE <3>1 DEF vars, axiVars, firVars, regVars, dataVars, tapVars, calcVars, bridgeVars,
            hostVars, HostInv
    <3>2. HostTypes'
      BY DEF HostTypes
    <3>3. Bus'
      BY DEF Bus, Request, AccessAt, ProgramIsAt, WriteSide, ReadSide, StreamSide
    <3>4. Taps' /\ Outputs' /\ Statuses' /\ Accepted'
      BY DEF Taps, Outputs, Statuses, Accepted
    <3>5. Lengths'
      BY DEF Lengths, Computed
    <3>6. /\ Resting' <=> Resting
          /\ Loaded' <=> Loaded
          /\ Computing' <=> Computing
          /\ Waiting' <=> Waiting
      BY DEF Resting, Loaded, Computing, Waiting, Filled, Quiet, Samples, Held, InUse, Source,
             Valid, Sum
    <3>7. Shifting' <=> Shifting
      BY DEF Shifting, Moved, MoveRead, MoveWait, MoveWrite, Moving, MovedWord, Held, InUse,
             Source, Valid
    <3>8. Phase' /\ Fetching'
      BY <3>6, <3>7 DEF Phase, Fetching
    <3>9. QED
      BY <3>2, <3>3, <3>4, <3>5, <3>8
  <2>3. QED
    BY <2>1, <2>2
<1>2. QED
  BY <1>1, HostStarts, PTL DEF HostSpec

\* OutputFindsResult: the stale status never sends the program to fetch an
\* output that is not there, or that it has fetched already.
THEOREM OutputsFindResults == HostSpec => []OutputFindsResult
<1>1. HostInv => OutputFindsResult
  BY DEF HostInv, OutputFindsResult, Fetching, Waiting, Outputs, Phase, HostTypes
<1>2. QED
  BY <1>1, HostInvariance, PTL

\* LengthAddsUp: what is left of the length and the outputs computed add up to
\* the length that was written, for every such length and number of taps.
THEOREM LengthsAddUp == HostSpec => []LengthAddsUp
<1>1. HostInv => LengthAddsUp
  BY DEF HostInv, LengthAddsUp, Lengths, Running
<1>2. QED
  BY <1>1, HostInvariance, PTL

\* TapsAreSettled: a computation meets whole coefficients.
THEOREM TapsSettled == HostSpec => []TapsAreSettled
<1>1. HostInv => TapsAreSettled
  BY DEF HostInv, TapsAreSettled, Phase, Resting, Taps, Running
<1>2. QED
  BY <1>1, HostInvariance, PTL

-----------------------------------------------------------------------------
(* The program and the filter implement FirFilter, but for its fairness. *)

\* The places before the first sample count backwards from the last one.
LEMMA WrapsAround ==
  ASSUME NEW R \in Nat, NEW x \in Int, -R <= x, x < R, R > 0
  PROVE  x % R = IF x >= 0 THEN x ELSE x + R
<1>1. CASE x >= 0
  BY <1>1
<1>2. CASE x < 0
  BY <1>2
<1>3. QED
  BY <1>1, <1>2

\* The sum of all the products that count is the output of the abstract filter.
LEMMA SumIsOutput ==
  ASSUME HostTypes, sent > 0
  PROVE  Sum(Valid(sent)) = Filter!Output(sent - 1)
<1>1. sent \in Nat /\ sent <= RunLength /\ run \in Nat
  BY Counts DEF HostTypes
<1>2. CASE run = 0
  <2>1. Filter!Output(sent - 1) = Filter!FreshOutput(sent - 1)
    BY <1>2 DEF Filter!Output
  <2>2. Valid(sent) = IF sent - 1 < Tape_Num THEN sent - 1 + 1 ELSE Tape_Num
    BY <1>1, <1>2, Counts DEF Valid
  <2>3. \A i \in 1 .. Valid(sent) : Source(sent - 1, i - 1) = sent - 1 - i + 1
    BY <1>1, <2>2, Counts DEF Source
  <2>4. QED
    BY <2>1, <2>2, <2>3 DEF Sum, Filter!FreshOutput
<1>3. CASE run # 0
  <2>1. Filter!Output(sent - 1) = Filter!CarriedOutput(sent - 1)
    BY <1>3 DEF Filter!Output
  <2>2. Valid(sent) = Tape_Num
    BY <1>3 DEF Valid
  <2>3. ASSUME NEW i \in 1 .. Tape_Num
        PROVE  Source(sent - 1, i - 1) = (sent - 1 - i + 1) % RunLength
    <3>1. -RunLength <= sent - 1 - i + 1 /\ sent - 1 - i + 1 < RunLength /\ RunLength > 0
          /\ sent - 1 - i + 1 \in Int
      BY <1>1, Counts
    <3>2. Source(sent - 1, i - 1)
            = IF sent - 1 - i + 1 >= 0 THEN sent - 1 - i + 1 ELSE sent - 1 - i + 1 + RunLength
      BY <1>1, Counts DEF Source
    <3>3. QED
      BY <3>1, <3>2, WrapsAround, Counts
  <2>4. QED
    BY <2>1, <2>2, <2>3 DEF Sum, Filter!CarriedOutput
<1>4. QED
  BY <1>2, <1>3

\* Every step of the program and the filter is a step of the abstract filter,
\* or none: an output that is read is the sum of the taps times the samples.
LEMMA StepIsFilters ==
  ASSUME HostInv, HostNext
  PROVE  Filter!FilterNext \/ UNCHANGED <<sent, got, run>>
<1> USE DEF HostInv
<1>1. CASE pc = "put_x" /\ wb.valid /\ wbs_ack_o
  <2>1. DonePutX
    BY <1>1, Moves
  <2>2. run < Runs /\ sent < RunLength /\ Len(got) = sent
    BY <1>1 DEF Outputs, Bus, ProgramIsAt
  <2>3. QED
    BY <2>1, <2>2 DEF DonePutX, Filter!FilterNext, Filter!Send
<1>2. CASE pc = "get_y" /\ wb.valid /\ wbs_ack_o
  <2>1. DoneGetY
    BY <1>2, Moves
  <2>2. sent > 0 /\ Len(got) < sent
    BY <1>2, Counts DEF Phase, Outputs, HostTypes
  <2>3. axis_rdata = Sum(Valid(sent))
    BY <1>2 DEF Fetching, Waiting, Filled
  <2>4. axis_rdata = Filter!Output(sent - 1)
    BY <2>2, <2>3, SumIsOutput
  <2>5. QED
    BY <2>1, <2>2, <2>4 DEF DoneGetY, Filter!FilterNext, Filter!Receive
<1>3. CASE pc = "poll_idle" /\ wb.valid /\ wbs_ack_o
  <2>1. DonePollIdle
    BY <1>3, Moves
  <2>2. Len(got) = RunLength
    BY <1>3 DEF Outputs
  <2>3. QED
    BY <2>1, <2>2 DEF DonePollIdle, Filter!FilterNext, Filter!Finish
<1>4. CASE ~(pc \in {"put_x", "get_y", "poll_idle"} /\ wb.valid /\ wbs_ack_o)
  BY <1>4, ProgramStep
     DEF hostVars, DoneLength, DoneCoeff, DoneStart, DonePollX, DonePutX, DonePollY,
         DoneGetY, DonePollIdle
<1>5. QED
  BY <1>1, <1>2, <1>3, <1>4

\* The safety half of FiltersFaithfully: whatever the polls return and however
\* long the program takes, the outputs it receives are those of FirFilter.
THEOREM HostImplementsFilter ==
  HostSpec => Filter!FilterInit /\ [][Filter!FilterNext]_<<sent, got, run>>
<1>1. HostInit => Filter!FilterInit
  BY DEF HostInit, Filter!FilterInit
<1>2. HostInv /\ [HostNext]_hostAll => [Filter!FilterNext]_<<sent, got, run>>
  <2>1. CASE UNCHANGED hostAll
    BY <2>1 DEF hostAll, hostVars
  <2>2. QED
    BY <2>1, StepIsFilters
<1>3. QED
  BY <1>1, <1>2, HostInvariance, PTL DEF HostSpec
=============================================================================

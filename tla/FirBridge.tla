------------------------------ MODULE FirBridge ----------------------------
(***************************************************************************)
(* The user project of lab 4 (user_project.v): the bridge that turns       *)
(* Wishbone accesses into AXI-lite transfers (addresses below 0x80) and    *)
(* stream transfers (0x80 to 0x84), with the filter behind it, and the     *)
(* bus master's side of the handshake.                                     *)
(*                                                                         *)
(* The acknowledgement is combinational and does not look at cyc, and the  *)
(* bridge keeps its stream strobes up for as long as it sees the request:  *)
(* they are still up in the cycle after the master has dropped it.  The    *)
(* core's data bus always leaves that one cycle idle.                      *)
(***************************************************************************)
EXTENDS Fir

VARIABLES axi_rdata, axis_rdata,   \* the bridge's read registers
          wb                       \* the request on the bus

bridgeVars == <<axi_rdata, axis_rdata>>
vars == <<axiVars, firVars, bridgeVars, wb>>

NoRequest == [valid |-> FALSE, we |-> FALSE, adr |-> Register("hole"), dat |-> 0]
ReadOf(a) == [valid |-> TRUE, we |-> FALSE, adr |-> a, dat |-> 0]
WriteOf(a, d) == [valid |-> TRUE, we |-> TRUE, adr |-> a, dat |-> d]

isAddr_axi_w == wb.valid /\ wb.we /\ wb.adr \in AxiLite
isAddr_axi_r == wb.valid /\ ~wb.we /\ wb.adr \in AxiLite
isAddr_axis_w == wb.valid /\ wb.we /\ wb.adr \in Stream
isAddr_axis_r == wb.valid /\ ~wb.we /\ wb.adr \in Stream

wbs_ack_o == awready \/ rvalid \/ sm_tready \/ ss_tvalid

BridgeInit ==
  /\ awvalid = FALSE /\ awaddr = Register("ap_state") /\ wdata = 0
  /\ arvalid = FALSE /\ araddr = Register("ap_state") /\ rready = FALSE
  /\ ss_tvalid = FALSE /\ ss_tdata = 0 /\ sm_tready = FALSE
  /\ axi_rdata = ZeroRead /\ axis_rdata = <<>>

\* Mutation: the request sets awvalid again at the edge that answers it.
WriteChannelSwapped ==
  /\ awvalid' = (isAddr_axi_w \/ (~awready /\ awvalid))
  /\ awaddr' = IF isAddr_axi_w THEN wb.adr ELSE awaddr
  /\ wdata' = IF isAddr_axi_w THEN wb.dat ELSE wdata

WriteChannel ==
  /\ awvalid' = (~awready /\ (isAddr_axi_w \/ awvalid))
  /\ awaddr' = IF isAddr_axi_w THEN wb.adr ELSE awaddr
  /\ wdata' = IF isAddr_axi_w THEN wb.dat ELSE wdata

ReadChannel ==
  /\ arvalid' = (~rvalid /\ (isAddr_axi_r \/ arvalid))
  /\ araddr' = IF isAddr_axi_r THEN wb.adr ELSE araddr
  /\ rready' = isAddr_axi_r
  /\ axi_rdata' = IF rvalid THEN rdata ELSE axi_rdata

\* Mutation: sm_tready stays up until there is an output.
StreamChannelsWait ==
  /\ ss_tvalid' = isAddr_axis_w
  /\ ss_tdata' = IF isAddr_axis_w THEN wb.dat ELSE ss_tdata
  /\ sm_tready' = (isAddr_axis_r \/ (sm_tready /\ ~sm_tvalid))
  /\ axis_rdata' = IF sm_tvalid THEN sm_tdata ELSE axis_rdata

StreamChannels ==
  /\ ss_tvalid' = isAddr_axis_w
  /\ ss_tdata' = IF isAddr_axis_w THEN wb.dat ELSE ss_tdata
  /\ sm_tready' = isAddr_axis_r
  /\ axis_rdata' = IF sm_tvalid THEN sm_tdata ELSE axis_rdata

BridgeClock == WriteChannel /\ ReadChannel /\ StreamChannels

ProjectInit == FirInit /\ BridgeInit /\ wb = NoRequest
ProjectClock == FirClock /\ BridgeClock
-----------------------------------------------------------------------------
\* The master holds its request until the acknowledgement, then drops it.
Holds == wb.valid /\ ~wbs_ack_o /\ UNCHANGED wb
Drops == wb.valid /\ wbs_ack_o /\ wb' = NoRequest

\* The request of the next cycle is a new one.
Issues == ~wb.valid /\ wb'.valid
=============================================================================

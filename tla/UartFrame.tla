----------------------------- MODULE UartFrame -----------------------------
(***************************************************************************)
(* What the receiver, the transmitter and the controller of the lab 6 UART *)
(* agree on: how many clock cycles a bit lasts and how many data bits a    *)
(* frame carries.  uart.v computes clk_div = 40000000 / BAUD_RATE (4166 at *)
(* 9600 baud) and the source fixes eight data bits; both are parameters    *)
(* here, so that TLC can use short frames and the proofs cover every one.  *)
(*                                                                         *)
(* clk_div has to be at least 2: the receiver compares its counter with    *)
(* (clk_div >> 1) - 1, which for clk_div = 1 wraps to 2^32 - 1.            *)
(***************************************************************************)
EXTENDS Integers

CONSTANTS ClkDiv,    \* clock cycles per bit: clk_div
          DataBits   \* data bits per frame: 8 in the source

ASSUME FrameAssumption == /\ ClkDiv \in Nat /\ ClkDiv >= 2
                          /\ DataBits \in Nat /\ DataBits >= 1

Bit  == {0, 1}
Byte == [0 .. DataBits - 1 -> Bit]
\* clk_div >> 1: from the falling edge to the middle of the start bit.
HalfDiv == ClkDiv \div 2

ZeroByte == [i \in 0 .. DataBits - 1 |-> 0]

\* The index registers are exactly as wide as a frame needs (reg [2:0] for
\* eight bits), so that incrementing the last index wraps to zero.
LastIndex == DataBits - 1
NextIndex(i) == IF i = LastIndex THEN 0 ELSE i + 1
=============================================================================

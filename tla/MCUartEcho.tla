----------------------------- MODULE MCUartEcho ----------------------------
(***************************************************************************)
(* UartEcho for TLC, with frames of eight bits as in the source: the peer  *)
(* sends the two bytes of uart_tb.v, 61 and 15, and the two constant ones, *)
(* whose frames have the fewest edges.                                     *)
(***************************************************************************)
EXTENDS UartEcho

ByteOf(n) == [i \in 0 .. DataBits - 1 |-> (n \div 2^i) % 2]
MCMessages == {ByteOf(61), ByteOf(15), ByteOf(0), ByteOf(255)}
MCRequests == Request
=============================================================================

---------------------------- MODULE MCUartWrite ----------------------------
(***************************************************************************)
(* UartWrite for TLC, with bytes of two bits and strings over a letter and *)
(* a line feed.                                                            *)
(***************************************************************************)
EXTENDS UartWrite

ByteOf(n) == [i \in 0 .. DataBits - 1 |-> (n \div 2^i) % 2]
MCLF == ByteOf(2)
MCCR == ByteOf(1)
MCChars == {ByteOf(2), ByteOf(3)}
MCRequests == Request
=============================================================================

------------------------------- MODULE MCUart ------------------------------
(***************************************************************************)
(* Uart for TLC: every register can be read, and one asymmetric byte can   *)
(* be written to the only register a write can change.                     *)
(***************************************************************************)
EXTENDS Uart

\* A byte whose bits differ, so that a swapped or shifted bit shows.
ByteA == [i \in 0 .. DataBits - 1 |-> i % 2]
ByteB == [i \in 0 .. DataBits - 1 |-> 1 - (i % 2)]

MCRequests == {Read("RX_DATA"), Read("STAT_REG"), Write("TX_DATA", ByteA),
               Write("TX_DATA", ByteB)}
=============================================================================

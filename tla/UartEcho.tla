------------------------------ MODULE UartEcho -----------------------------
(***************************************************************************)
(* The loopback program of lab 6: the UART, the interrupt it raises, the   *)
(* interrupt service routine that reads a byte and writes it back, and the *)
(* serial peer of the testbench.                                           *)
(*                                                                         *)
(* pc is where the CPU is in isr() and the functions it calls; from        *)
(* "stat5" on each value is one access to a UART register:                 *)
(*   main    the background program, interrupts enabled                    *)
(*   clear   isr: user_irq_0_ev_pending_write(1)                           *)
(*   stat5   uart_read: the first read of reg_uart_stat, tested >> 5       *)
(*   stat4   uart_read: the second one, tested >> 4                        *)
(*   data    uart_read: num = reg_rx_data                                  *)
(*   poll    uart_write: while ((reg_uart_stat >> 3) & 1)                  *)
(*   write   uart_write: reg_tx_data = n                                   *)
(* Between two accesses the CPU takes any number of cycles.                *)
(***************************************************************************)
EXTENDS Uart, UserIrq, TbUart

VARIABLES pc,
          num    \* the local variable of uart_read, then the argument n

cpuVars == <<pc, num>>
echoVars == <<vars, userIrqVars, tbVars, cpuVars>>

AccessOf ==
  [stat5 |-> Read("STAT_REG"), stat4 |-> Read("STAT_REG"),
   data |-> Read("RX_DATA"), poll |-> Read("STAT_REG"),
   write |-> Write("TX_DATA", num)]
Accessing == pc \in {"stat5", "stat4", "data", "poll", "write"}

-----------------------------------------------------------------------------
(* The CPU at one clock edge. *)

\* Interrupts are taken in main; isr() finds the event pending, because
\* nothing else clears it.
TakeTrap ==
  /\ pc = "main" /\ pending
  /\ pc' = "clear"
  /\ UNCHANGED <<num, wb>>

ClearPending ==
  /\ pc = "clear"
  /\ pc' = "stat5"
  /\ UNCHANGED <<num, wb>>

Access ==
  /\ Accessing /\ ~wb.valid
  /\ wb' = AccessOf[pc]
  /\ UNCHANGED cpuVars

\* The access is acknowledged: the value is tested or stored.  When one of the
\* error tests fails uart_read returns num without having assigned it.
Complete ==
  /\ Accessing /\ DropRequest
  /\ \/ /\ pc = "stat5"
        /\ IF ~o_wb_dat.stat.frame_err
             THEN pc' = "stat4" /\ UNCHANGED num
             ELSE pc' = "poll" /\ num' \in Byte
     \/ /\ pc = "stat4"
        /\ IF ~o_wb_dat.stat.frame_err /\ ~o_wb_dat.stat.overrun
             THEN pc' = "data" /\ UNCHANGED num
             ELSE pc' = "poll" /\ num' \in Byte
     \/ /\ pc = "data"
        /\ pc' = "poll" /\ num' = o_wb_dat.data
     \/ /\ pc = "poll"
        /\ pc' = IF o_wb_dat.stat.tx_full THEN "poll" ELSE "write"
        /\ UNCHANGED num
     \/ /\ pc = "write"
        /\ pc' = "main" /\ UNCHANGED num

BusWait == HoldRequest /\ UNCHANGED cpuVars
Advance == TakeTrap \/ ClearPending \/ Access \/ Complete

\* The CPU executes other instructions: those in between, or the background
\* program (which may be all there is to do).
Elsewhere == ~wb.valid /\ UNCHANGED <<cpuVars, wb>>

CpuClock == Advance \/ BusWait \/ Elsewhere

-----------------------------------------------------------------------------
EchoInit ==
  /\ Init /\ UserIrqInit /\ TbInit
  /\ pc = "main" /\ num = ZeroByte

\* One edge of the system clock for everything but the CPU.
Edge ==
  /\ UartClock(Line)
  /\ UserIrqClock(irq, pc = "clear" /\ pc' # "clear")
  /\ TbClock(tx)

EchoNext == CpuClock /\ Edge

\* The clock runs for ever, and the CPU does not spend for ever on the
\* instructions between two accesses, nor ignore a pending interrupt.
CpuProgress == (Advance \/ BusWait) /\ Edge
EchoSpec ==
  /\ EchoInit /\ [][EchoNext]_echoVars
  /\ WF_echoVars(EchoNext) /\ WF_echoVars(CpuProgress)

-----------------------------------------------------------------------------
\* What the loopback promises to the peer: each byte it sends comes back once,
\* unchanged, and nothing else ever does.
Channel == INSTANCE EchoChannel WITH
  phase <- IF awaiting THEN "waiting" ELSE "ready",
  sent <- expected,
  got <- tb_rx_data

EchoesFaithfully == Channel!Spec

\* An access of the service routine finds the hardware ready for it: the read
\* of RX_DATA a byte that is full, the write to TX_DATA a transmitter that is
\* neither busy, nor about to start, nor about to forget the request.
AccessesLand ==
  wb.valid /\ ~o_wb_ack =>
    /\ pc = "data" => stat_reg.rx_full
    /\ pc = "write" => tx_state = "WAIT" /\ ~tx_start_local /\ ~clear_req

\* One interrupt per byte: while the routine runs, no further event is raised
\* that the final return would find pending (the routine would then read an
\* empty buffer and send the old byte again).
OneInterruptPerByte ==
  pc \in {"stat5", "stat4", "data", "poll", "write"} =>
    ~pending /\ ~(Trigger /\ ~trigger_d)

\* The loopback of README.md:53-56 happens for every undamaged byte, again
\* even if an earlier one was damaged.
UndamagedByteIsAnswered == awaiting /\ ~spoiled ~> ~awaiting \/ spoiled
=============================================================================

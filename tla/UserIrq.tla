------------------------------- MODULE UserIrq -----------------------------
(***************************************************************************)
(* The way of user_irq[0] into the CPU (mgmt_core.v): two synchronising    *)
(* flip-flops and the event manager gpioin0, in its reset configuration    *)
(* (mode 0 and edge 0: trigger is the synchronised level) with its enable  *)
(* bit set by counter_la_uart.c.  A rising trigger sets the pending bit;   *)
(* a write to the pending register clears it, and loses against a rising   *)
(* trigger at the same edge.                                               *)
(***************************************************************************)
EXTENDS Integers

VARIABLES irq_regs,     \* <<regs0, regs1>> of multiregimpl131
          trigger_d,    \* gpioin0_gpioin0_trigger_d
          pending       \* gpioin0_gpioin0_pending

userIrqVars == <<irq_regs, trigger_d, pending>>

UserIrqInit == irq_regs = <<FALSE, FALSE>> /\ trigger_d = FALSE /\ pending = FALSE

Trigger == irq_regs[2]

\* Mutation: the write to the pending register has no effect.
UserIrqClockSticky(user_irq, clear) ==
  /\ irq_regs' = <<user_irq, irq_regs[1]>>
  /\ trigger_d' = Trigger
  /\ pending' = (Trigger \/ pending)

UserIrqClock(user_irq, clear) ==
  /\ irq_regs' = <<user_irq, irq_regs[1]>>
  /\ trigger_d' = Trigger
  /\ pending' = ((Trigger /\ ~trigger_d) \/ (pending /\ ~clear))
=============================================================================

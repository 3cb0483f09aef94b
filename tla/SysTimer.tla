-------------------------------- MODULE SysTimer --------------------------
(***************************************************************************)
(* The timer and the performance counters of simple_system_common.c.  The  *)
(* 64-bit time and its comparator are each two registers, which the        *)
(* program accesses one at a time while time goes on; the handler may run  *)
(* between any two accesses of the program, and not within itself.         *)
(*                                                                         *)
(* The registers and the interrupt are the simulated system's: time counts *)
(* up, and the interrupt is raised while time has reached the comparator,  *)
(* which is zero after reset.  Each step is one access, or time going on.  *)
(***************************************************************************)
EXTENDS Integers

CONSTANTS Radix,     \* the values of one register: 2^32
          Bases,     \* the periods the program asks for
          MaxTime    \* bound: how far time goes in the model

ASSUME TimerAssumption == /\ Radix \in Nat /\ Radix > 1
                          /\ Bases \subseteq Nat \ {0}
                          /\ MaxTime \in Nat

VARIABLES uses,             \* what the program uses: timer or counters share
                            \* only the time
          mtime,
          cmph, cmp,        \* MTIMECMPH and MTIMECMP
          mie, mstatus,     \* the timer's interrupt, and all, enabled
          inIsr,
          pc, goal,         \* where program and handler are, and what
          h, l, base,       \* they read the time for; the halves read
          time_elapsed, time_increment,
          counth, count,    \* one of the counters; the others are like it
          inhibit,
          began,            \* history: when a timer_read started
          floor, torn,      \* history: no interrupt is due before floor, but
                            \* for a handler that ran within timecmp_update
          enabledAt, calm,  \* history: when timer_enable started, and
                            \* whether it always found the timer disabled
          resetAt           \* history: when pcount_reset started, or -1

regVars == <<uses, cmph, cmp, floor, torn>>
timerVars == <<mie, mstatus, inIsr, time_elapsed, time_increment, enabledAt, calm>>
readVars == <<goal, h, l, base, began>>
countVars == <<counth, count, inhibit, resetAt>>
vars == <<mtime, regVars, timerVars, pc, readVars, countVars>>

Contexts == {"main", "isr"}
Running == IF inIsr THEN "isr" ELSE "main"
At(c, label) == c = Running /\ pc[c] = label
Goto(c, label) == pc' = [pc EXCEPT ![c] = label]
Comparator == cmph * Radix + cmp
Counter == counth * Radix + count

-----------------------------------------------------------------------------
(* timer_read. *)

BeginRead(c, g, b) ==
  /\ goal' = [goal EXCEPT ![c] = g]
  /\ base' = [base EXCEPT ![c] = b]
  /\ began' = [began EXCEPT ![c] = mtime]
  /\ Goto(c, "timeh")

ReadHigh(c) ==
  /\ At(c, "timeh")
  /\ h' = [h EXCEPT ![c] = mtime \div Radix]
  /\ Goto(c, "time")
  /\ UNCHANGED <<mtime, regVars, timerVars, goal, l, base, began, countVars>>

ReadLow(c) ==
  /\ At(c, "time")
  /\ l' = [l EXCEPT ![c] = mtime % Radix]
  /\ Goto(c, "again")
  /\ UNCHANGED <<mtime, regVars, timerVars, goal, h, base, began, countVars>>

\* Mutation: the time is not read again when it overflowed meanwhile.
CheckHighOnce(c) ==
  /\ At(c, "again")
  /\ Goto(c, "read")
  /\ UNCHANGED <<mtime, regVars, timerVars, readVars, countVars>>

CheckHigh(c) ==
  /\ At(c, "again")
  /\ Goto(c, IF h[c] = mtime \div Radix THEN "read" ELSE "timeh")
  /\ UNCHANGED <<mtime, regVars, timerVars, readVars, countVars>>

final_time(c) == h[c] * Radix + l[c]

\* The locals of a call go with it.
Forget(c) ==
  /\ h' = [h EXCEPT ![c] = 0] /\ l' = [l EXCEPT ![c] = 0]
  /\ base' = [base EXCEPT ![c] = 0] /\ goal' = [goal EXCEPT ![c] = "read"]
  /\ began' = [began EXCEPT ![c] = 0]

\* What the caller of timer_read does with it: nothing, or increment_timecmp.
EndRead(c) ==
  /\ At(c, "read")
  /\ IF goal[c] = "arm" THEN Goto(c, "cmp") /\ UNCHANGED readVars
                        ELSE Goto(c, "idle") /\ Forget(c)
  /\ UNCHANGED <<mtime, regVars, timerVars, countVars>>

-----------------------------------------------------------------------------
(* timecmp_update. *)

\* Mutation: the period is not added to the time.
new_timeBare(c) == final_time(c)

new_time(c) == final_time(c) + base[c]

\* Mutation: the low half is left as it is while the high half changes.
RaiseLowNot(c) ==
  /\ At(c, "cmp")
  /\ cmp' = cmp
  /\ floor' = IF new_time(c) < floor THEN new_time(c) ELSE floor
  /\ Goto(c, "cmph")
  /\ UNCHANGED <<uses, mtime, cmph, torn, timerVars, readVars, countVars>>

RaiseLow(c) ==
  /\ At(c, "cmp")
  /\ cmp' = Radix - 1
  /\ floor' = IF new_time(c) < floor THEN new_time(c) ELSE floor
  /\ Goto(c, "cmph")
  /\ UNCHANGED <<uses, mtime, cmph, torn, timerVars, readVars, countVars>>

WriteHigh(c) ==
  /\ At(c, "cmph")
  /\ cmph' = new_time(c) \div Radix
  /\ Goto(c, "cmpl")
  /\ UNCHANGED <<uses, mtime, cmp, floor, torn, timerVars, readVars, countVars>>

WriteLow(c) ==
  /\ At(c, "cmpl")
  /\ cmp' = new_time(c) % Radix
  /\ floor' = cmph * Radix + cmp'
  /\ torn' = (torn /\ c = "isr")
  /\ Goto(c, IF c = "isr" THEN "count" ELSE "mie")
  /\ Forget(c)
  /\ UNCHANGED <<uses, mtime, cmph, timerVars, countVars>>

-----------------------------------------------------------------------------
(* The program: timer_enable, timer_disable, timer_read, and the counters. *)

timer_enable(b) ==
  /\ At("main", "idle") /\ uses = "timer"
  /\ time_elapsed' = 0
  /\ enabledAt' = mtime /\ calm' = (calm /\ ~mie)
  /\ base' = [base EXCEPT !["main"] = b]
  /\ Goto("main", "increment")
  /\ UNCHANGED <<mtime, regVars, mie, mstatus, inIsr, time_increment,
                 goal, h, l, began, countVars>>

SetIncrement ==
  /\ At("main", "increment")
  /\ time_increment' = base["main"]
  /\ BeginRead("main", "arm", base["main"])
  /\ UNCHANGED <<mtime, regVars, mie, mstatus, inIsr, time_elapsed, enabledAt, calm,
                 h, l, countVars>>

EnableTimer ==
  /\ At("main", "mie")
  /\ mie' = TRUE
  /\ Goto("main", "mstatus")
  /\ UNCHANGED <<mtime, regVars, mstatus, inIsr, time_elapsed, time_increment,
                 enabledAt, calm, readVars, countVars>>

EnableAll ==
  /\ At("main", "mstatus")
  /\ mstatus' = TRUE
  /\ Goto("main", "idle")
  /\ UNCHANGED <<mtime, regVars, mie, inIsr, time_elapsed, time_increment,
                 enabledAt, calm, readVars, countVars>>

timer_disable ==
  /\ At("main", "idle") /\ uses = "timer"
  /\ mie' = FALSE
  /\ UNCHANGED <<mtime, regVars, mstatus, inIsr, time_elapsed, time_increment,
                 enabledAt, calm, pc, readVars, countVars>>

timer_read ==
  /\ At("main", "idle") /\ uses = "timer"
  /\ BeginRead("main", "read", 0)
  /\ UNCHANGED <<mtime, regVars, timerVars, h, l, countVars>>

pcount_enable(enable) ==
  /\ At("main", "idle") /\ uses = "counters"
  /\ inhibit' = ~enable
  /\ UNCHANGED <<mtime, regVars, timerVars, pc, readVars, counth, count, resetAt>>

\* Mutation: the high halves are cleared first.
ResetOrderSwapped == <<"high", "low">>

ResetOrder == <<"low", "high">>
Clear(half) ==
  IF half = "low" THEN count' = 0 /\ UNCHANGED counth ELSE counth' = 0 /\ UNCHANGED count

\* pcount_reset clears one half of all counters, then the other.
pcount_reset ==
  /\ At("main", "idle") /\ uses = "counters"
  /\ Clear(ResetOrder[1])
  /\ resetAt' = mtime
  /\ Goto("main", "reset")
  /\ UNCHANGED <<mtime, regVars, timerVars, readVars, inhibit>>

EndReset ==
  /\ At("main", "reset")
  /\ Clear(ResetOrder[2])
  /\ Goto("main", "idle")
  /\ UNCHANGED <<mtime, regVars, timerVars, readVars, inhibit, resetAt>>

-----------------------------------------------------------------------------
(* The handler and the system. *)

Interrupt ==
  /\ ~inIsr /\ mie /\ mstatus
  /\ mtime >= Comparator
  /\ inIsr' = TRUE
  /\ torn' = (torn \/ pc["main"] \in {"cmph", "cmpl"})
  /\ BeginRead("isr", "arm", time_increment)
  /\ UNCHANGED <<uses, mtime, cmph, cmp, floor, mie, mstatus, time_elapsed, time_increment,
                 enabledAt, calm, h, l, countVars>>

EndHandler ==
  /\ At("isr", "count")
  /\ time_elapsed' = time_elapsed + 1
  /\ inIsr' = FALSE
  /\ Goto("isr", "idle")
  /\ UNCHANGED <<mtime, regVars, mie, mstatus, time_increment, enabledAt, calm,
                 readVars, countVars>>

Tick ==
  /\ mtime < MaxTime
  /\ mtime' = mtime + 1
  /\ IF inhibit \/ uses = "timer" THEN UNCHANGED <<counth, count>>
     ELSE /\ count' = (count + 1) % Radix
          /\ counth' = IF count + 1 = Radix THEN counth + 1 ELSE counth
  /\ UNCHANGED <<regVars, timerVars, pc, readVars, inhibit, resetAt>>

Init ==
  /\ uses \in {"timer", "counters"}
  /\ mtime = 0 /\ cmph = 0 /\ cmp = 0
  /\ mie = FALSE /\ mstatus = FALSE /\ inIsr = FALSE
  /\ pc = [c \in Contexts |-> "idle"] /\ goal = [c \in Contexts |-> "read"]
  /\ h = [c \in Contexts |-> 0] /\ l = [c \in Contexts |-> 0]
  /\ base = [c \in Contexts |-> 0]
  /\ time_elapsed = 0 /\ time_increment = 0
  /\ counth = 0 /\ count = 0 /\ inhibit = FALSE
  /\ began = [c \in Contexts |-> 0] /\ floor = 0 /\ torn = FALSE
  /\ enabledAt = 0 /\ calm = TRUE /\ resetAt = -1

Next ==
  \/ \E c \in Contexts : \/ ReadHigh(c) \/ ReadLow(c) \/ CheckHigh(c) \/ EndRead(c)
                         \/ RaiseLow(c) \/ WriteHigh(c) \/ WriteLow(c)
  \/ \E b \in Bases : timer_enable(b)
  \/ \E e \in BOOLEAN : pcount_enable(e)
  \/ SetIncrement \/ EnableTimer \/ EnableAll
  \/ timer_disable \/ timer_read \/ pcount_reset \/ EndReset
  \/ Interrupt \/ EndHandler \/ Tick

Spec == Init /\ [][Next]_vars

-----------------------------------------------------------------------------
\* "Returns current mtime value": what timer_read returns was the time at some
\* moment of the call, although it is put together from registers read apart.
ReadIsCurrent ==
  \A c \in Contexts : pc[c] = "read" => began[c] <= final_time(c) /\ final_time(c) <= mtime

\* While the comparator is being changed, in three writes, it never is below
\* both what it was and what it will be, so that no interrupt comes before
\* the earlier of the two.  (The program's update may still be mixed up with
\* one by the handler that interrupts it.)
ComparatorIsNeverEarly == ~torn => Comparator >= floor

\* The handler counts whole periods, never more than have passed since the
\* timer was enabled, provided it was disabled then.
ElapsedIsNeverAhead ==
  calm /\ pc["main"] # "increment" => time_elapsed * time_increment <= mtime - enabledAt

\* After pcount_reset a counter shows no more than what it can have counted
\* since, although it goes on counting while its halves are cleared.
ResetCounterIsSmall ==
  resetAt >= 0 /\ pc["main"] # "reset" => Counter <= mtime - resetAt
=============================================================================

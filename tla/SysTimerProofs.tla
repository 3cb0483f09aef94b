--------------------------- MODULE SysTimerProofs -------------------------
(***************************************************************************)
(* Theorems about SysTimer, for registers of every size, every period and  *)
(* every length of time.                                                   *)
(*                                                                         *)
(* A register pair is written and read in halves, so that what it holds or *)
(* what was read is between two steps no time at all.  The invariants say, *)
(* for each step of a call, which half is already right.                   *)
(*                                                                         *)
(* The last part is about ExcReport, for registers of every number of      *)
(* digits: what has been written is the beginning of one report, and the   *)
(* value that puthex has left is the digits still to come.                 *)
(***************************************************************************)
EXTENDS SysTimer, ExcReport, FiniteSetTheorems, NaturalsInduction, WellFoundedInduction, TLAPS

Labels == {"idle", "timeh", "time", "again", "read", "cmp", "cmph", "cmpl", "count",
           "mie", "mstatus", "increment", "reset"}
Half == 0 .. Radix - 1

\* The registers, the locals of the calls and the histories have their types.
Types ==
  /\ mtime \in Nat /\ cmph \in Nat /\ cmp \in Half
  /\ mie \in BOOLEAN /\ mstatus \in BOOLEAN /\ inIsr \in BOOLEAN
  /\ pc \in [Contexts -> Labels] /\ goal \in [Contexts -> {"read", "arm"}]
  /\ h \in [Contexts -> Nat] /\ l \in [Contexts -> Half] /\ base \in [Contexts -> Nat]
  /\ time_elapsed \in Nat /\ time_increment \in Nat
  /\ counth \in Nat /\ count \in Half /\ inhibit \in BOOLEAN
  /\ began \in [Contexts -> Nat] /\ floor \in Nat /\ torn \in BOOLEAN
  /\ enabledAt \in Nat /\ calm \in BOOLEAN /\ resetAt \in Int

\* The handler is in a call exactly while it runs, and reads the time only to
\* update the comparator.
HandlerRuns ==
  /\ inIsr <=> pc["isr"] # "idle"
  /\ pc["isr"] \in {"idle", "timeh", "time", "again", "read", "cmp", "cmph", "cmpl", "count"}
  /\ pc["isr"] \in {"timeh", "time", "again", "read"} => goal["isr"] = "arm"
  /\ pc["main"] # "count"

\* The time a call of timer_read is about to return: the low half was read
\* with a high half q, of which the one read first is no more than a bound.
TimeRead(c) ==
  /\ began[c] <= mtime
  /\ pc[c] = "time" => h[c] * Radix <= mtime
  /\ pc[c] = "again" => \E q \in Nat : /\ h[c] <= q
                                       /\ began[c] <= q * Radix + l[c]
                                       /\ q * Radix + l[c] <= mtime
  /\ pc[c] \in {"read", "cmp", "cmph", "cmpl"} =>
       began[c] <= final_time(c) /\ final_time(c) <= mtime
TimesRead == \A c \in Contexts : TimeRead(c)

\* While an update that nobody interrupted is between its writes, the low half
\* of the comparator is as high as it can be.
LowIsRaised ==
  /\ inIsr /\ pc["main"] \in {"cmph", "cmpl"} => torn
  /\ \A c \in Contexts : ~torn /\ pc[c] = "cmph" => cmp = Radix - 1 /\ floor <= new_time(c)

\* A counter that is being cleared has its low half cleared.
LowIsCleared ==
  /\ resetAt <= mtime
  /\ resetAt >= 0 /\ pc["main"] = "reset" => count <= mtime - resetAt

\* Where the periods counted, and the one under way, stand: with the program
\* while it enables the timer, with the comparator while nobody changes it,
\* and with the handler's own reading of the time while it does.
Counted == time_elapsed * time_increment
Updates == {"cmp", "cmph", "cmpl"}
Reads == {"timeh", "time", "again", "read"}
HighIsWritten(c) == pc[c] = "cmpl" => cmph = new_time(c) \div Radix

Enabling ==
  /\ pc["main"] = "increment" => ~mie /\ time_elapsed = 0
  /\ pc["main"] \in Reads \cup Updates /\ goal["main"] = "arm" =>
       /\ ~mie /\ time_elapsed = 0
       /\ enabledAt <= began["main"] /\ base["main"] = time_increment
  /\ pc["main"] = "mie" =>
       ~mie /\ time_elapsed = 0 /\ enabledAt + time_increment <= Comparator
  /\ HighIsWritten("main")

Handling ==
  /\ mie /\ ~inIsr => Counted + time_increment <= Comparator - enabledAt
  /\ pc["isr"] \in Reads \cup Updates =>
       /\ base["isr"] = time_increment
       /\ Counted + time_increment <= began["isr"] - enabledAt
  /\ HighIsWritten("isr")
  /\ pc["isr"] = "count" =>
       /\ Counted + time_increment + time_increment <= Comparator - enabledAt
       /\ Counted + time_increment <= mtime - enabledAt

Periods ==
  /\ enabledAt <= mtime /\ (inIsr => mie)
  /\ pc["main"] \in Updates => goal["main"] = "arm"
  /\ calm => Enabling /\ Handling
  /\ ElapsedIsNeverAhead

IInv == /\ Types /\ HandlerRuns /\ TimesRead
        /\ LowIsRaised /\ ComparatorIsNeverEarly
        /\ LowIsCleared /\ ResetCounterIsSmall /\ Periods

-----------------------------------------------------------------------------
\* A time and its halves.
LEMMA Halves ==
  ASSUME NEW t \in Nat
  PROVE  /\ t \div Radix \in Nat /\ t % Radix \in Half
         /\ t = (t \div Radix) * Radix + (t % Radix)
         /\ (t \div Radix) * Radix <= t /\ t < (t \div Radix) * Radix + Radix
  BY SMT, TimerAssumption DEF TimerAssumption, Half

\* High halves are ordered like times.
LEMMA Scale ==
  ASSUME NEW a \in Int, NEW b \in Int, a < b
  PROVE  a * Radix + Radix <= b * Radix
  BY SMT, TimerAssumption DEF TimerAssumption

\* What has passed by one time has passed by any later one.
LEMMA Later ==
  ASSUME NEW past \in Nat, NEW now \in Nat, NEW begin \in Nat, past <= now
  PROVE  \A k \in Int : k <= past - begin => k <= now - begin
  OBVIOUS

\* The time put together from two halves.
LEMMA TimeTyped ==
  ASSUME Types, NEW c \in Contexts
  PROVE  /\ final_time(c) \in Nat
         /\ new_time(c) \in Nat
         /\ new_time(c) \div Radix \in Nat /\ new_time(c) % Radix \in Half
         /\ new_time(c) = (new_time(c) \div Radix) * Radix + (new_time(c) % Radix)
<1>1. h[c] \in Nat /\ l[c] \in Nat /\ base[c] \in Nat
  BY TimerAssumption DEF Types, Half, TimerAssumption
<1>2. h[c] * Radix \in Nat
  BY <1>1, TimerAssumption DEF TimerAssumption
<1>3. final_time(c) \in Nat /\ new_time(c) \in Nat
  BY <1>1, <1>2 DEF final_time, new_time
<1>4. QED
  BY <1>3, Halves

-----------------------------------------------------------------------------
\* The registers are typed at the start.
LEMMA TypesInit == Init => Types
<1>1. Radix \in Nat /\ 0 \in Half
  BY TimerAssumption DEF TimerAssumption, Half
<1>2. ASSUME Init
      PROVE  /\ pc \in [Contexts -> Labels] /\ goal \in [Contexts -> {"read", "arm"}]
             /\ h \in [Contexts -> Nat] /\ l \in [Contexts -> Half]
             /\ base \in [Contexts -> Nat] /\ began \in [Contexts -> Nat]
  BY <1>2, <1>1 DEF Init, Labels
<1>3. ASSUME Init
      PROVE  /\ mtime \in Nat /\ cmph \in Nat /\ cmp \in Half
             /\ time_elapsed \in Nat /\ time_increment \in Nat
             /\ counth \in Nat /\ count \in Half
             /\ floor \in Nat /\ enabledAt \in Nat /\ resetAt \in Int
  BY <1>3, <1>1 DEF Init
<1>4. ASSUME Init
      PROVE  /\ mie \in BOOLEAN /\ mstatus \in BOOLEAN /\ inIsr \in BOOLEAN
             /\ inhibit \in BOOLEAN /\ torn \in BOOLEAN /\ calm \in BOOLEAN
  BY <1>4 DEF Init
<1>5. QED
  BY <1>2, <1>3, <1>4 DEF Types

\* Every step keeps the types.
LEMMA TypesStep ==
  ASSUME Types, Next
  PROVE  Types'
<1>0. Radix \in Nat /\ Radix > 1 /\ 0 \in Half /\ Radix - 1 \in Half
  BY TimerAssumption DEF TimerAssumption, Half
<1>1. ASSUME NEW c \in Contexts, ReadHigh(c)
      PROVE  Types'
  BY <1>1, Halves DEF ReadHigh, Goto, Types, Labels, regVars, timerVars, countVars, Half
<1>2. ASSUME NEW c \in Contexts, ReadLow(c)
      PROVE  Types'
  BY <1>2, Halves DEF ReadLow, Goto, Types, Labels, regVars, timerVars, countVars, Half
<1>3. ASSUME NEW c \in Contexts, CheckHigh(c)
      PROVE  Types'
  BY <1>3 DEF CheckHigh, Goto, Types, Labels, regVars, timerVars, readVars, countVars
<1>4. ASSUME NEW c \in Contexts, EndRead(c)
      PROVE  Types'
  BY <1>4, <1>0 DEF EndRead, Forget, Goto, Types, Labels, regVars, timerVars, readVars, countVars
<1>5. ASSUME NEW c \in Contexts, RaiseLow(c)
      PROVE  Types'
  BY <1>5, <1>0, TimeTyped DEF RaiseLow, Goto, Types, Labels, timerVars, readVars, countVars
<1>6. ASSUME NEW c \in Contexts, WriteHigh(c)
      PROVE  Types'
  BY <1>6, TimeTyped DEF WriteHigh, Goto, Types, Labels, timerVars, readVars, countVars
<1>7. ASSUME NEW c \in Contexts, WriteLow(c)
      PROVE  Types'
  <2>1. cmp' \in Half /\ cmph' = cmph
    BY <1>7, TimeTyped DEF WriteLow
  <2>2. floor' \in Nat
    BY <1>7, <1>0, <2>1 DEF WriteLow, Types, Half
  <2>3. QED
    BY <1>7, <1>0, <2>1, <2>2 DEF WriteLow, Forget, Goto, Types, Labels, timerVars, countVars
<1>8. ASSUME NEW b \in Bases, timer_enable(b)
      PROVE  Types'
  BY <1>8, TimerAssumption DEF timer_enable, Goto, Types, Labels, regVars, countVars, TimerAssumption
<1>9. ASSUME NEW e \in BOOLEAN, pcount_enable(e)
      PROVE  Types'
  BY <1>9 DEF pcount_enable, Types, regVars, timerVars, readVars
<1>10. CASE SetIncrement
  BY <1>10 DEF SetIncrement, BeginRead, Goto, Types, Labels, Contexts, regVars, countVars
<1>11. CASE EnableTimer
  BY <1>11 DEF EnableTimer, Goto, Types, Labels, regVars, readVars, countVars
<1>12. CASE EnableAll
  BY <1>12 DEF EnableAll, Goto, Types, Labels, regVars, readVars, countVars
<1>13. CASE timer_disable
  BY <1>13 DEF timer_disable, Types, regVars, readVars, countVars
<1>14. CASE timer_read
  BY <1>14 DEF timer_read, BeginRead, Goto, Types, Labels, Contexts, regVars, timerVars, countVars
<1>15. CASE pcount_reset
  <2>1. count' = 0 /\ counth' = counth
    BY <1>15 DEF pcount_reset, Clear, ResetOrder
  <2>2. pc' \in [Contexts -> Labels]
    BY <1>15 DEF pcount_reset, Goto, Types, Labels
  <2>3. resetAt' \in Int
    BY <1>15 DEF pcount_reset, Types
  <2>4. QED
    BY <1>15, <1>0, <2>1, <2>2, <2>3 DEF pcount_reset, Types, regVars, timerVars, readVars
<1>16. CASE EndReset
  <2>1. counth' = 0 /\ count' = count
    BY <1>16 DEF EndReset, Clear, ResetOrder
  <2>2. pc' \in [Contexts -> Labels]
    BY <1>16 DEF EndReset, Goto, Types, Labels
  <2>3. QED
    BY <1>16, <2>1, <2>2 DEF EndReset, Types, regVars, timerVars, readVars
<1>17. CASE Interrupt
  BY <1>17 DEF Interrupt, BeginRead, Goto, Types, Labels, Contexts, countVars
<1>18. CASE EndHandler
  <2>1. pc' \in [Contexts -> Labels]
    BY <1>18 DEF EndHandler, Goto, Types, Labels
  <2>2. time_elapsed' \in Nat
    BY <1>18 DEF EndHandler, Types
  <2>3. inIsr' = FALSE
    BY <1>18 DEF EndHandler
  <2>4. UNCHANGED <<mtime, cmph, cmp, floor, torn, mie, mstatus, time_increment,
                    enabledAt, calm, goal, h, l, base, began, counth, count, inhibit, resetAt>>
    BY <1>18 DEF EndHandler, regVars, readVars, countVars
  <2>5. QED
    BY <2>1, <2>2, <2>3, <2>4 DEF Types
<1>19. CASE Tick
  <2>1. count' \in Half /\ counth' \in Nat
    BY <1>19, <1>0 DEF Tick, Types, Half
  <2>2. mtime' \in Nat
    BY <1>19 DEF Tick, Types
  <2>3. QED
    BY <1>19, <2>1, <2>2 DEF Tick, Types, regVars, timerVars, readVars
<1>20. QED
  BY <1>1, <1>2, <1>3, <1>4, <1>5, <1>6, <1>7, <1>8, <1>9, <1>10, <1>11, <1>12, <1>13,
     <1>14, <1>15, <1>16, <1>17, <1>18, <1>19 DEF Next

-----------------------------------------------------------------------------
(* Who runs. *)

\* No handler runs at the start.
LEMMA HandlerRunsInit == Init => HandlerRuns
  BY DEF Init, HandlerRuns, Contexts

\* The handler runs exactly while its context is inside a call.
LEMMA HandlerRunsStep ==
  ASSUME Types, HandlerRuns, Next
  PROVE  HandlerRuns'
<1>1. "main" \in Contexts /\ "isr" \in Contexts
  BY DEF Contexts
<1>2. ASSUME NEW c \in Contexts,
             ReadHigh(c) \/ ReadLow(c) \/ CheckHigh(c) \/ RaiseLow(c) \/ WriteHigh(c)
      PROVE  HandlerRuns'
  BY <1>1, <1>2 DEF ReadHigh, ReadLow, CheckHigh, RaiseLow, WriteHigh, At, Running, Goto,
     HandlerRuns, Types, timerVars, readVars, Contexts
<1>3. ASSUME NEW c \in Contexts, EndRead(c)
      PROVE  HandlerRuns'
  BY <1>1, <1>3 DEF EndRead, Forget, At, Running, Goto, HandlerRuns, Types, timerVars,
     readVars, Contexts
<1>4. ASSUME NEW c \in Contexts, WriteLow(c)
      PROVE  HandlerRuns'
  BY <1>1, <1>4 DEF WriteLow, Forget, At, Running, Goto, HandlerRuns, Types, timerVars, Contexts
<1>5. ASSUME NEW b \in Bases, timer_enable(b)
      PROVE  HandlerRuns'
  BY <1>1, <1>5 DEF timer_enable, At, Running, Goto, HandlerRuns, Types
<1>6. ASSUME NEW e \in BOOLEAN, pcount_enable(e)
      PROVE  HandlerRuns'
  BY <1>6 DEF pcount_enable, HandlerRuns, timerVars, readVars
<1>7. CASE SetIncrement \/ timer_read
  BY <1>1, <1>7 DEF SetIncrement, timer_read, BeginRead, At, Running, Goto, HandlerRuns, Types,
     timerVars
<1>8. CASE EnableTimer \/ EnableAll \/ pcount_reset \/ EndReset
  BY <1>1, <1>8 DEF EnableTimer, EnableAll, pcount_reset, EndReset, At, Running, Goto,
     HandlerRuns, Types, timerVars, readVars
<1>9. CASE timer_disable \/ Tick
  BY <1>9 DEF timer_disable, Tick, HandlerRuns, timerVars, readVars
<1>10. CASE Interrupt
  BY <1>1, <1>10 DEF Interrupt, BeginRead, Goto, HandlerRuns, Types
<1>11. CASE EndHandler
  BY <1>1, <1>11 DEF EndHandler, Goto, HandlerRuns, Types, readVars
<1>12. QED
  BY <1>2, <1>3, <1>4, <1>5, <1>6, <1>7, <1>8, <1>9, <1>10, <1>11 DEF Next

-----------------------------------------------------------------------------
(* timer_read. *)

\* A call that waits while others go on, or time does.
LEMMA ReadWaits ==
  ASSUME Types, NEW c \in Contexts, TimeRead(c),
         mtime' \in Nat, mtime <= mtime',
         pc'[c] = pc[c], h'[c] = h[c], l'[c] = l[c], began'[c] = began[c]
  PROVE  TimeRead(c)'
<1>1. began[c] \in Nat /\ h[c] \in Nat /\ l[c] \in Int /\ Radix \in Nat /\ mtime \in Nat
  BY TimerAssumption DEF Types, Half, TimerAssumption
<1>2. h[c] * Radix \in Nat /\ \A q \in Nat : q * Radix \in Nat
  BY <1>1
<1>3. began'[c] <= mtime'
  BY <1>1 DEF TimeRead
<1>4. pc'[c] = "time" => h'[c] * Radix <= mtime'
  BY <1>1, <1>2 DEF TimeRead
<1>5. ASSUME pc'[c] = "again"
      PROVE  \E q \in Nat : /\ h'[c] <= q
                            /\ began'[c] <= q * Radix + l'[c]
                            /\ q * Radix + l'[c] <= mtime'
  <2>1. PICK q \in Nat : /\ h[c] <= q
                         /\ began[c] <= q * Radix + l[c]
                         /\ q * Radix + l[c] <= mtime
    BY <1>5 DEF TimeRead
  <2>2. q * Radix + l[c] <= mtime'
    BY <2>1, <1>1, <1>2
  <2>3. QED
    BY <2>1, <2>2
<1>6. pc'[c] \in {"read", "cmp", "cmph", "cmpl"} =>
        began'[c] <= h'[c] * Radix + l'[c] /\ h'[c] * Radix + l'[c] <= mtime'
  BY <1>1, <1>2 DEF TimeRead, final_time
<1>7. QED
  BY <1>3, <1>4, <1>5, <1>6 DEF TimeRead, final_time

\* A step that does not touch the locals of a call, and leaves it or begins it.
LEMMA ReadLeft ==
  ASSUME NEW c \in Contexts, began'[c] <= mtime',
         pc'[c] \notin {"time", "again", "read", "cmp", "cmph", "cmpl"}
  PROVE  TimeRead(c)'
  BY DEF TimeRead

\* No time is being read at the start.
LEMMA TimesReadInit == Init => TimesRead
  BY DEF Init, TimesRead, TimeRead, Contexts

\* Every step keeps what is known of the times being read.
LEMMA TimesReadStep ==
  ASSUME Types, HandlerRuns, TimesRead, Next
  PROVE  TimesRead'
<1> SUFFICES ASSUME NEW d \in Contexts
             PROVE  TimeRead(d)'
  BY DEF TimesRead
<1>1. Types' /\ TimeRead(d)
  BY TypesStep DEF TimesRead
<1>2. /\ mtime \in Nat /\ mtime' \in Nat /\ began[d] \in Nat /\ h[d] \in Nat
      /\ l[d] \in Int /\ Radix \in Nat
  BY <1>1, TimerAssumption DEF Types, Half, TimerAssumption
<1>3. began[d] <= mtime
  BY <1>1 DEF TimeRead
<1>4. ASSUME NEW c \in Contexts, ReadHigh(c)
      PROVE  TimeRead(d)'
  <2>1. CASE d # c
    BY <1>1, <1>2, <1>4, <2>1, ReadWaits DEF ReadHigh, Goto, Types
  <2>2. CASE d = c
    <3>1. mtime' = mtime /\ began' = began /\ pc'[d] = "time" /\ h'[d] = mtime \div Radix
      BY <1>4, <2>2 DEF ReadHigh, Goto, Types
    <3>2. h'[d] * Radix <= mtime
      BY <3>1, <1>2, Halves
    <3>3. QED
      BY <3>1, <3>2, <1>3 DEF TimeRead
  <2>3. QED
    BY <2>1, <2>2
<1>5. ASSUME NEW c \in Contexts, ReadLow(c)
      PROVE  TimeRead(d)'
  <2>1. CASE d # c
    BY <1>1, <1>2, <1>5, <2>1, ReadWaits DEF ReadLow, Goto, Types
  <2>2. CASE d = c
    <3>1. /\ mtime' = mtime /\ began' = began /\ pc[d] = "time" /\ pc'[d] = "again"
          /\ h' = h /\ l'[d] = mtime % Radix
      BY <1>5, <2>2 DEF ReadLow, At, Goto, Types
    <3> DEFINE q == mtime \div Radix
    <3>2. /\ q \in Nat /\ l'[d] \in Half /\ mtime = q * Radix + l'[d]
          /\ q * Radix <= mtime /\ mtime < q * Radix + Radix
      BY <3>1, <1>2, Halves
    <3>3. h[d] * Radix <= mtime
      BY <3>1, <1>1 DEF TimeRead
    <3>4. h[d] <= q
      <4>1. SUFFICES ASSUME q < h[d]
                     PROVE  FALSE
        BY <3>2, <1>2
      <4>2. q * Radix + Radix <= h[d] * Radix
        BY <4>1, <3>2, <1>2, Scale
      <4>3. q * Radix \in Nat /\ h[d] * Radix \in Nat
        BY <3>2, <1>2
      <4>4. QED
        BY <4>2, <4>3, <3>2, <3>3, <1>2
    <3>5. began[d] <= q * Radix + l'[d] /\ q * Radix + l'[d] <= mtime
      BY <3>2, <1>2, <1>3
    <3>6. QED
      BY <3>1, <3>2, <3>4, <3>5, <1>3 DEF TimeRead
  <2>3. QED
    BY <2>1, <2>2
<1>6. ASSUME NEW c \in Contexts, CheckHigh(c)
      PROVE  TimeRead(d)'
  <2>1. CASE d # c
    BY <1>1, <1>2, <1>6, <2>1, ReadWaits DEF CheckHigh, Goto, Types, readVars
  <2>2. CASE d = c /\ h[c] # mtime \div Radix
    BY <1>2, <1>3, <1>6, <2>2, ReadLeft DEF CheckHigh, Goto, Types, readVars
  <2>3. CASE d = c /\ h[c] = mtime \div Radix
    <3>1. /\ mtime' = mtime /\ began' = began /\ pc[d] = "again" /\ pc'[d] = "read"
          /\ h' = h /\ l' = l
      BY <1>6, <2>3 DEF CheckHigh, At, Goto, Types, readVars
    <3>2. PICK q \in Nat : /\ h[d] <= q
                           /\ began[d] <= q * Radix + l[d]
                           /\ q * Radix + l[d] <= mtime
      BY <3>1, <1>1 DEF TimeRead
    <3>3. h[d] = q
      <4>0. h[d] <= q /\ q \in Nat /\ h[d] \in Nat
        BY ONLY <3>2, <1>2
      <4>1. ASSUME h[d] < q
            PROVE  FALSE
        <5>1. h[d] * Radix + Radix <= q * Radix
          BY <4>1, <4>0, <1>2, Scale
        <5>2. mtime < h[d] * Radix + Radix
          BY <2>3, <1>2, Halves DEF Half
        <5>3. q * Radix \in Nat /\ h[d] * Radix \in Nat /\ l[d] \in Nat
          BY <3>2, <1>2 DEF Types, Half
        <5>4. QED
          BY <5>1, <5>2, <5>3, <3>2, <1>2
      <4>2. QED
        BY ONLY <4>0, <4>1
    <3>4. began[d] <= h[d] * Radix + l[d] /\ h[d] * Radix + l[d] <= mtime
      BY <3>2, <3>3
    <3>5. QED
      BY <3>1, <3>4, <1>3 DEF TimeRead, final_time
  <2>4. QED
    BY <2>1, <2>2, <2>3
<1>7. ASSUME NEW c \in Contexts, EndRead(c)
      PROVE  TimeRead(d)'
  <2>1. CASE d # c
    BY <1>1, <1>2, <1>7, <2>1, ReadWaits DEF EndRead, Forget, Goto, Types, readVars
  <2>2. CASE d = c /\ goal[c] = "arm"
    <3>1. /\ mtime' = mtime /\ began' = began /\ pc[d] = "read" /\ pc'[d] = "cmp"
          /\ h' = h /\ l' = l
      BY <1>7, <2>2 DEF EndRead, At, Goto, Types, readVars
    <3>2. QED
      BY <3>1, <1>1, <1>3 DEF TimeRead, final_time
  <2>3. CASE d = c /\ goal[c] # "arm"
    <3>1. mtime' = mtime /\ began'[d] = 0 /\ pc'[d] = "idle"
      BY <1>7, <2>3 DEF EndRead, Forget, Goto, Types
    <3>2. QED
      BY <3>1, <1>2, ReadLeft
  <2>4. QED
    BY <2>1, <2>2, <2>3
<1>8. ASSUME NEW c \in Contexts, RaiseLow(c) \/ WriteHigh(c)
      PROVE  TimeRead(d)'
  <2>1. CASE d # c
    BY <1>1, <1>2, <1>8, <2>1, ReadWaits DEF RaiseLow, WriteHigh, Goto, Types, readVars
  <2>2. CASE d = c
    <3>1. /\ mtime' = mtime /\ began' = began /\ h' = h /\ l' = l
          /\ pc[d] \in {"cmp", "cmph"} /\ pc'[d] \in {"cmph", "cmpl"}
      BY <1>8, <2>2 DEF RaiseLow, WriteHigh, At, Goto, Types, readVars
    <3>2. QED
      BY <3>1, <1>1, <1>3 DEF TimeRead, final_time
  <2>3. QED
    BY <2>1, <2>2
<1>9. ASSUME NEW c \in Contexts, WriteLow(c)
      PROVE  TimeRead(d)'
  <2>1. CASE d # c
    BY <1>1, <1>2, <1>9, <2>1, ReadWaits DEF WriteLow, Forget, Goto, Types
  <2>2. CASE d = c
    <3>1. mtime' = mtime /\ began'[d] = 0 /\ pc'[d] \in {"count", "mie"}
      BY <1>9, <2>2 DEF WriteLow, Forget, Goto, Types
    <3>2. QED
      BY <3>1, <1>2, ReadLeft
  <2>3. QED
    BY <2>1, <2>2
<1>10. ASSUME NEW b \in Bases, timer_enable(b)
       PROVE  TimeRead(d)'
  <2>1. /\ mtime' = mtime /\ h' = h /\ l' = l /\ began' = began
        /\ pc'[d] = IF d = "main" THEN "increment" ELSE pc[d]
    BY <1>10 DEF timer_enable, Goto, Types
  <2>2. QED
    BY <2>1, <1>1, <1>2, <1>3, ReadWaits, ReadLeft
<1>11. ASSUME NEW e \in BOOLEAN, pcount_enable(e)
       PROVE  TimeRead(d)'
  BY <1>1, <1>2, <1>11, ReadWaits DEF pcount_enable, readVars
<1>12. CASE SetIncrement \/ timer_read
  <2>1. /\ mtime' = mtime /\ h' = h /\ l' = l
        /\ pc'[d] = IF d = "main" THEN "timeh" ELSE pc[d]
        /\ began'[d] = IF d = "main" THEN mtime ELSE began[d]
    BY <1>12 DEF SetIncrement, timer_read, BeginRead, Goto, Types
  <2>2. QED
    BY <2>1, <1>1, <1>2, ReadWaits, ReadLeft
<1>13. CASE EnableTimer \/ EnableAll \/ pcount_reset \/ EndReset
  <2>1. /\ mtime' = mtime /\ h' = h /\ l' = l /\ began' = began
        /\ d = "main" => pc'[d] \in {"mstatus", "idle", "reset"}
        /\ d # "main" => pc'[d] = pc[d]
    BY <1>13 DEF EnableTimer, EnableAll, pcount_reset, EndReset, Goto, Types, readVars
  <2>2. QED
    BY <2>1, <1>1, <1>2, <1>3, ReadWaits, ReadLeft
<1>14. CASE timer_disable \/ Tick
  <2>1. mtime <= mtime' /\ UNCHANGED <<pc, h, l, began>>
    BY <1>2, <1>14 DEF timer_disable, Tick, readVars
  <2>2. QED
    BY <2>1, <1>1, <1>2, ReadWaits
<1>15. CASE Interrupt
  <2>1. /\ mtime' = mtime /\ h' = h /\ l' = l
        /\ pc'[d] = IF d = "isr" THEN "timeh" ELSE pc[d]
        /\ began'[d] = IF d = "isr" THEN mtime ELSE began[d]
    BY <1>15 DEF Interrupt, BeginRead, Goto, Types
  <2>2. QED
    BY <2>1, <1>1, <1>2, ReadWaits, ReadLeft
<1>16. CASE EndHandler
  <2>1. /\ mtime' = mtime /\ h' = h /\ l' = l /\ began' = began
        /\ pc'[d] = IF d = "isr" THEN "idle" ELSE pc[d]
    BY <1>16 DEF EndHandler, Goto, Types, readVars
  <2>2. QED
    BY <2>1, <1>1, <1>2, <1>3, ReadWaits, ReadLeft
<1>17. QED
  BY <1>4, <1>5, <1>6, <1>7, <1>8, <1>9, <1>10, <1>11, <1>12, <1>13, <1>14, <1>15, <1>16
     DEF Next

-----------------------------------------------------------------------------
(* timecmp_update. *)

\* The comparator starts at the floor.
LEMMA ComparatorInit == Init => LowIsRaised /\ ComparatorIsNeverEarly
<1>1. Init => LowIsRaised
  BY DEF Init, LowIsRaised, Contexts
<1>2. Init => Comparator = 0 * Radix + 0 /\ floor = 0
  BY DEF Init, Comparator
<1>3. 0 * Radix + 0 = 0
  BY TimerAssumption DEF TimerAssumption
<1>4. QED
  BY <1>1, <1>2, <1>3 DEF ComparatorIsNeverEarly

\* A step that leaves comparator, floor and the updates alone.
LEMMA ComparatorWaits ==
  ASSUME LowIsRaised, ComparatorIsNeverEarly,
         UNCHANGED <<cmph, cmp, floor, torn, h, l, base>>,
         inIsr' /\ pc'["main"] \in {"cmph", "cmpl"} => inIsr /\ pc'["main"] = pc["main"],
         \A c \in Contexts : pc'[c] = "cmph" => pc[c] = "cmph"
  PROVE  LowIsRaised' /\ ComparatorIsNeverEarly'
  BY DEF LowIsRaised, ComparatorIsNeverEarly, Comparator, new_time, final_time

\* Every step keeps the comparator at or above the floor.
LEMMA ComparatorStep ==
  ASSUME Types, HandlerRuns, LowIsRaised, ComparatorIsNeverEarly, Next
  PROVE  LowIsRaised' /\ ComparatorIsNeverEarly'
<1>1. /\ Types'
      /\ "main" \in Contexts /\ "isr" \in Contexts /\ Contexts = {"main", "isr"}
      /\ Radix \in Nat /\ Radix > 1 /\ cmph \in Nat /\ cmp \in 0 .. Radix - 1 /\ floor \in Nat
      /\ cmph * Radix \in Nat /\ cmph' * Radix \in Nat
  BY TypesStep, TimerAssumption DEF Contexts, TimerAssumption, Types, Half
<1>2. ASSUME NEW c \in Contexts, RaiseLow(c)
      PROVE  LowIsRaised' /\ ComparatorIsNeverEarly'
  <2>1. /\ cmp' = Radix - 1 /\ cmph' = cmph /\ torn' = torn /\ inIsr' = inIsr
        /\ h' = h /\ l' = l /\ base' = base
        /\ floor' = IF new_time(c) < floor THEN new_time(c) ELSE floor
        /\ pc' = [pc EXCEPT ![c] = "cmph"] /\ c = Running
    BY <1>2 DEF RaiseLow, At, Goto, timerVars, readVars
  <2>2. new_time(c) \in Nat /\ new_time(c)' = new_time(c) /\ floor' <= new_time(c) /\ floor' <= floor
    <3>1. new_time(c)' = new_time(c)
      BY <2>1 DEF new_time, final_time
    <3>2. new_time(c) \in Nat
      BY TimeTyped
    <3>3. QED
      BY <2>1, <3>1, <3>2, <1>1
  <2>3. inIsr' /\ pc'["main"] \in {"cmph", "cmpl"} => torn'
    BY <2>1 DEF Running, LowIsRaised, Types
  <2>4. ASSUME NEW d \in Contexts, d # c
        PROVE  ~torn' => pc'[d] # "cmph"
    BY <2>1, <2>4, <1>1 DEF Running, HandlerRuns, LowIsRaised, Types
  <2>5. LowIsRaised'
    BY <2>1, <2>2, <2>3, <2>4 DEF LowIsRaised
  <2>6. Comparator <= Comparator'
    BY <2>1, <1>1 DEF Comparator
  <2>7. Comparator \in Int /\ Comparator' \in Int /\ floor' \in Int
    BY <2>1, <2>2, <1>1 DEF Comparator
  <2>8. QED
    BY <2>1, <2>2, <2>5, <2>6, <2>7, <1>1 DEF ComparatorIsNeverEarly
<1>3. ASSUME NEW c \in Contexts, WriteHigh(c)
      PROVE  LowIsRaised' /\ ComparatorIsNeverEarly'
  <2>1. /\ cmp' = cmp /\ cmph' = new_time(c) \div Radix /\ torn' = torn /\ inIsr' = inIsr
        /\ floor' = floor
        /\ pc' = [pc EXCEPT ![c] = "cmpl"] /\ c = Running /\ pc[c] = "cmph"
    BY <1>3 DEF WriteHigh, At, Goto, timerVars, readVars
  <2>2. inIsr' /\ pc'["main"] \in {"cmph", "cmpl"} => torn'
    BY <2>1 DEF Running, LowIsRaised, Types
  <2>3. ASSUME NEW d \in Contexts
        PROVE  ~torn' => pc'[d] # "cmph"
    BY <2>1, <1>1 DEF Running, HandlerRuns, LowIsRaised, Types
  <2>4. LowIsRaised'
    BY <2>2, <2>3 DEF LowIsRaised
  <2>5. ASSUME ~torn'
        PROVE  Comparator' >= floor'
    <3>1. cmp = Radix - 1 /\ floor <= new_time(c)
      BY <2>1, <2>5 DEF LowIsRaised
    <3>2. new_time(c) \in Nat
      BY TimeTyped
    <3>3. new_time(c) < cmph' * Radix + Radix
      BY <2>1, <3>2, Halves
    <3>4. QED
      BY <2>1, <3>1, <3>2, <3>3, <1>1 DEF Comparator
  <2>6. QED
    BY <2>4, <2>5 DEF ComparatorIsNeverEarly
<1>4. ASSUME NEW c \in Contexts, WriteLow(c)
      PROVE  LowIsRaised' /\ ComparatorIsNeverEarly'
  <2>1. /\ cmph' = cmph /\ torn' = (torn /\ c = "isr") /\ inIsr' = inIsr
        /\ floor' = cmph * Radix + cmp'
        /\ pc' = [pc EXCEPT ![c] = IF c = "isr" THEN "count" ELSE "mie"] /\ c = Running
    BY <1>4 DEF WriteLow, At, Goto, timerVars
  <2>2. inIsr' /\ pc'["main"] \in {"cmph", "cmpl"} => torn'
    BY <2>1, <1>1 DEF Running, LowIsRaised, Types
  <2>3. ASSUME NEW d \in Contexts
        PROVE  ~torn' => pc'[d] # "cmph"
    BY <2>1, <1>1 DEF Running, HandlerRuns, LowIsRaised, Types
  <2>4. Comparator' = floor' /\ floor' \in Nat
    BY <2>1, <1>1 DEF Comparator, Types
  <2>5. QED
    BY <2>2, <2>3, <2>4 DEF LowIsRaised, ComparatorIsNeverEarly
<1>5. CASE Interrupt
  <2>1. /\ UNCHANGED <<cmph, cmp, floor>>
        /\ torn' = (torn \/ pc["main"] \in {"cmph", "cmpl"})
        /\ pc' = [pc EXCEPT !["isr"] = "timeh"] /\ ~inIsr
    BY <1>5 DEF Interrupt, BeginRead, Goto
  <2>2. pc'["main"] = pc["main"] /\ pc'["isr"] = "timeh"
    BY <2>1, <1>1 DEF Types
  <2>3. LowIsRaised'
    BY <2>1, <2>2, <1>1 DEF LowIsRaised
  <2>4. ComparatorIsNeverEarly'
    BY <2>1 DEF ComparatorIsNeverEarly, Comparator
  <2>5. QED
    BY <2>3, <2>4
<1>6. ASSUME NEW c \in Contexts, ReadHigh(c) \/ ReadLow(c) \/ CheckHigh(c) \/ EndRead(c)
      PROVE  LowIsRaised' /\ ComparatorIsNeverEarly'
  <2>1. /\ UNCHANGED <<cmph, cmp, floor, torn>> /\ inIsr' = inIsr
        /\ \A d \in Contexts : pc'[d] # pc[d] => d = c /\ pc'[d] \notin {"cmph", "cmpl"}
        /\ \A d \in Contexts \ {c} : h'[d] = h[d] /\ l'[d] = l[d] /\ base'[d] = base[d]
        /\ pc'[c] \notin {"cmph", "cmpl"}
    BY <1>6 DEF ReadHigh, ReadLow, CheckHigh, EndRead, Forget, Goto, Types, regVars, timerVars,
       readVars
  <2>2. LowIsRaised'
    BY <2>1, <1>1 DEF LowIsRaised, new_time, final_time
  <2>3. ComparatorIsNeverEarly'
    BY <2>1 DEF ComparatorIsNeverEarly, Comparator
  <2>4. QED
    BY <2>2, <2>3
<1>7. ASSUME NEW b \in Bases, timer_enable(b)
      PROVE  LowIsRaised' /\ ComparatorIsNeverEarly'
  <2>1. /\ UNCHANGED <<cmph, cmp, floor, torn, h, l>> /\ inIsr' = inIsr
        /\ pc'["main"] = "increment" /\ pc'["isr"] = pc["isr"] /\ base'["isr"] = base["isr"]
    BY <1>7, <1>1 DEF timer_enable, Goto, Types, regVars
  <2>2. LowIsRaised'
    BY <2>1, <1>1 DEF LowIsRaised, new_time, final_time
  <2>3. ComparatorIsNeverEarly'
    BY <2>1 DEF ComparatorIsNeverEarly, Comparator
  <2>4. QED
    BY <2>2, <2>3
<1>8. CASE SetIncrement \/ timer_read
  <2>1. /\ UNCHANGED <<cmph, cmp, floor, torn, h, l>> /\ inIsr' = inIsr
        /\ pc'["main"] = "timeh" /\ pc'["isr"] = pc["isr"] /\ base'["isr"] = base["isr"]
    BY <1>8, <1>1 DEF SetIncrement, timer_read, BeginRead, Goto, Types, regVars, timerVars
  <2>2. LowIsRaised'
    BY <2>1, <1>1 DEF LowIsRaised, new_time, final_time
  <2>3. ComparatorIsNeverEarly'
    BY <2>1 DEF ComparatorIsNeverEarly, Comparator
  <2>4. QED
    BY <2>2, <2>3
<1>9. CASE EnableTimer \/ EnableAll \/ pcount_reset \/ EndReset
  <2>1. /\ UNCHANGED <<cmph, cmp, floor, torn, h, l, base, inIsr>>
        /\ pc'["main"] \in {"mstatus", "idle", "reset"} /\ pc'["isr"] = pc["isr"]
    BY <1>9, <1>1 DEF EnableTimer, EnableAll, pcount_reset, EndReset, Goto, Types, regVars,
       timerVars, readVars
  <2>2. QED
    BY <2>1, <1>1, ComparatorWaits
<1>10. ASSUME timer_disable \/ Tick \/ \E e \in BOOLEAN : pcount_enable(e)
       PROVE  LowIsRaised' /\ ComparatorIsNeverEarly'
  <2>1. UNCHANGED <<cmph, cmp, floor, torn, h, l, base, inIsr, pc>>
    BY <1>10 DEF timer_disable, Tick, pcount_enable, regVars, timerVars, readVars
  <2>2. QED
    BY <2>1, ComparatorWaits
<1>11. CASE EndHandler
  <2>1. UNCHANGED <<cmph, cmp, floor, torn, h, l, base>> /\ inIsr' = FALSE
    BY <1>11 DEF EndHandler, regVars, readVars
  <2>2. pc'["main"] = pc["main"] /\ pc'["isr"] = "idle"
    BY <1>11, <1>1 DEF EndHandler, Goto, Types
  <2>3. QED
    BY <2>1, <2>2, <1>1, ComparatorWaits
<1>12. QED
  BY <1>2, <1>3, <1>4, <1>5, <1>6, <1>7, <1>8, <1>9, <1>10, <1>11 DEF Next

-----------------------------------------------------------------------------
(* pcount_reset. *)

\* No counter is being cleared at the start.
LEMMA CounterInit == Init => LowIsCleared /\ ResetCounterIsSmall
  BY DEF Init, LowIsCleared, ResetCounterIsSmall

\* Every step keeps what is known of a counter that is cleared.
LEMMA CounterStep ==
  ASSUME Types, LowIsCleared, ResetCounterIsSmall, Next
  PROVE  LowIsCleared' /\ ResetCounterIsSmall'
<1>1. /\ Radix \in Nat /\ Radix > 1 /\ counth \in Nat /\ count \in 0 .. Radix - 1
      /\ mtime \in Nat /\ resetAt \in Int /\ "main" \in Contexts
      /\ counth * Radix \in Nat /\ (counth + 1) * Radix = counth * Radix + Radix
  BY TimerAssumption DEF TimerAssumption, Types, Half, Contexts
<1>2. CASE pcount_reset
  <2>1. /\ count' = 0 /\ resetAt' = mtime /\ mtime' = mtime /\ pc'["main"] = "reset"
    BY <1>1, <1>2 DEF pcount_reset, Clear, ResetOrder, Goto, Types
  <2>2. QED
    BY <2>1, <1>1 DEF LowIsCleared, ResetCounterIsSmall
<1>3. CASE EndReset
  <2>1. /\ counth' = 0 /\ count' = count /\ resetAt' = resetAt /\ mtime' = mtime
        /\ pc["main"] = "reset" /\ pc'["main"] = "idle"
    BY <1>1, <1>3 DEF EndReset, Clear, ResetOrder, At, Goto, Types
  <2>2. 0 * Radix + count = count
    BY <1>1
  <2>3. QED
    BY <2>1, <2>2, <1>1 DEF LowIsCleared, ResetCounterIsSmall, Counter
<1>4. CASE Tick
  <2>1. mtime' = mtime + 1 /\ resetAt' = resetAt /\ pc' = pc
    BY <1>4 DEF Tick
  <2>2. CASE count' = count /\ counth' = counth
    BY <2>1, <2>2, <1>1 DEF LowIsCleared, ResetCounterIsSmall, Counter
  <2>3. CASE count + 1 < Radix /\ count' = count + 1 /\ counth' = counth
    BY <2>1, <2>3, <1>1 DEF LowIsCleared, ResetCounterIsSmall, Counter
  <2>4. CASE count + 1 = Radix /\ count' = 0 /\ counth' = counth + 1
    BY <2>1, <2>4, <1>1 DEF LowIsCleared, ResetCounterIsSmall, Counter
  <2>5. QED
    BY <1>4, <1>1, <2>2, <2>3, <2>4 DEF Tick
<1>5. ASSUME NEW c \in Contexts,
             \/ ReadHigh(c) \/ ReadLow(c) \/ CheckHigh(c) \/ EndRead(c)
             \/ RaiseLow(c) \/ WriteHigh(c) \/ WriteLow(c)
      PROVE  UNCHANGED <<mtime, counth, count, resetAt>> /\ (pc'["main"] = "reset" <=> pc["main"] = "reset")
  BY <1>5, <1>1 DEF ReadHigh, ReadLow, CheckHigh, EndRead, RaiseLow, WriteHigh, WriteLow, At,
     Goto, Types, countVars
<1>6. ASSUME \/ SetIncrement \/ EnableTimer \/ EnableAll \/ timer_disable \/ timer_read
             \/ Interrupt \/ EndHandler
             \/ \E b \in Bases : timer_enable(b)
             \/ \E e \in BOOLEAN : pcount_enable(e)
      PROVE  UNCHANGED <<mtime, counth, count, resetAt>> /\ (pc'["main"] = "reset" <=> pc["main"] = "reset")
  BY <1>6, <1>1 DEF SetIncrement, EnableTimer, EnableAll, timer_disable, timer_read, Interrupt,
     EndHandler, timer_enable, pcount_enable, BeginRead, At, Goto, Types, countVars
<1>7. ASSUME UNCHANGED <<mtime, counth, count, resetAt>>,
             pc'["main"] = "reset" <=> pc["main"] = "reset"
      PROVE  LowIsCleared' /\ ResetCounterIsSmall'
  BY <1>7 DEF LowIsCleared, ResetCounterIsSmall, Counter
<1>8. QED
  BY <1>2, <1>3, <1>4, <1>5, <1>6, <1>7 DEF Next

-----------------------------------------------------------------------------
(* The periods counted. *)

\* No period is counted at the start.
LEMMA PeriodsInit == Init => Periods
<1>1. Init => /\ enabledAt <= mtime /\ ~inIsr /\ ~mie
              /\ pc["main"] = "idle" /\ pc["isr"] = "idle"
              /\ time_elapsed * time_increment = 0 /\ mtime = 0 /\ enabledAt = 0
  BY DEF Init, Contexts
<1>2. QED
  BY <1>1 DEF Periods, Enabling, Handling, HighIsWritten, Updates, Reads, ElapsedIsNeverAhead

\* A step of one context's call that reads the time.
LEMMA PeriodsRead ==
  ASSUME Types, HandlerRuns, Periods, NEW c \in Contexts,
         ReadHigh(c) \/ ReadLow(c) \/ CheckHigh(c) \/ EndRead(c)
  PROVE  Periods'
<1>1. /\ UNCHANGED <<mtime, cmph, cmp, mie, inIsr, time_elapsed, time_increment, enabledAt, calm>>
      /\ \A d \in Contexts \ {c} :
            /\ pc'[d] = pc[d] /\ goal'[d] = goal[d] /\ began'[d] = began[d] /\ base'[d] = base[d]
            /\ h'[d] = h[d] /\ l'[d] = l[d]
      /\ pc[c] \in Reads
      /\ \/ /\ pc'[c] \in Reads \cup {"cmp"} /\ goal'[c] = goal[c]
            /\ began'[c] = began[c] /\ base'[c] = base[c]
            /\ pc'[c] = "cmp" => goal[c] = "arm"
         \/ pc'[c] = "idle" /\ goal[c] # "arm"
  BY DEF ReadHigh, ReadLow, CheckHigh, EndRead, Forget, At, Goto, Types, regVars, timerVars,
     readVars, Reads, Half
<1>2. "main" \in Contexts /\ "isr" \in Contexts /\ c \in {"main", "isr"}
  BY DEF Contexts
<1>3. Comparator' = Comparator /\ Counted' = Counted
  BY <1>1 DEF Comparator, Counted
<1>4. pc["isr"] \in Reads => goal["isr"] = "arm"
  BY DEF HandlerRuns, Reads
<1>5. Enabling => Enabling'
  BY <1>1, <1>2, <1>3 DEF Enabling, HighIsWritten, Reads, Updates, new_time, final_time
<1>6. Handling => Handling'
  BY <1>1, <1>2, <1>3, <1>4 DEF Handling, HighIsWritten, Reads, Updates, new_time, final_time
<1>7. pc'["main"] \in Updates => goal'["main"] = "arm"
  BY <1>1, <1>2 DEF Periods, Reads, Updates
<1>8. ElapsedIsNeverAhead'
  BY <1>1, <1>2 DEF Periods, ElapsedIsNeverAhead, Reads
<1>9. QED
  BY <1>1, <1>5, <1>6, <1>7, <1>8 DEF Periods

\* A step that writes half of the comparator.
LEMMA PeriodsUpdate ==
  ASSUME Types, HandlerRuns, TimesRead, Periods, NEW c \in Contexts,
         RaiseLow(c) \/ WriteHigh(c) \/ WriteLow(c)
  PROVE  Periods'
<1>1. /\ UNCHANGED <<mtime, mie, inIsr, time_elapsed, time_increment, enabledAt, calm>>
      /\ \A d \in Contexts \ {c} :
            /\ pc'[d] = pc[d] /\ goal'[d] = goal[d] /\ began'[d] = began[d] /\ base'[d] = base[d]
            /\ h'[d] = h[d] /\ l'[d] = l[d]
      /\ pc[c] \in Updates
      /\ c = Running
  BY DEF RaiseLow, WriteHigh, WriteLow, Forget, At, Goto, Types, timerVars, readVars, Updates
<1>2. "main" \in Contexts /\ "isr" \in Contexts /\ c \in {"main", "isr"}
  BY DEF Contexts
<1>3. /\ mtime \in Nat /\ enabledAt \in Nat /\ time_increment \in Nat
      /\ Counted \in Nat /\ Counted' = Counted /\ began[c] \in Nat
  BY <1>1 DEF Counted, Types
<1>4. c = "main" => ~inIsr /\ pc["isr"] = "idle" /\ pc'["isr"] = "idle" /\ goal["main"] = "arm"
  BY <1>1, <1>2 DEF Running, HandlerRuns, Periods
<1>5. c = "isr" => inIsr /\ pc'["main"] = pc["main"] /\ goal'["main"] = goal["main"]
  BY <1>1, <1>2 DEF Running
<1>6. /\ final_time(c) \in Nat /\ new_time(c) = final_time(c) + base[c]
      /\ began[c] <= final_time(c) /\ final_time(c) <= mtime
  BY <1>1, TimeTyped DEF new_time, TimesRead, TimeRead, Updates
<1>7. WriteLow(c) => Comparator' = cmph * Radix + (new_time(c) % Radix)
  BY DEF WriteLow, Comparator
<1>8. WriteLow(c) /\ calm => Comparator' = final_time(c) + base[c]
  <2>1. WriteLow(c) /\ calm => cmph = new_time(c) \div Radix
    BY <1>2 DEF WriteLow, At, Periods, Enabling, Handling, HighIsWritten
  <2>2. QED
    BY <2>1, <1>6, <1>7, TimeTyped
<1>9. CASE c = "main"
  <2>1. calm => /\ ~mie /\ time_elapsed = 0
                /\ enabledAt <= began["main"] /\ base["main"] = time_increment
    BY <1>1, <1>4, <1>9 DEF Periods, Enabling
  <2>2. calm => Handling'
    <3>1. calm => ~mie'
      BY <1>1, <2>1
    <3>2. pc'["isr"] = "idle"
      BY <1>4, <1>9
    <3>3. QED
      BY <3>1, <3>2 DEF Handling, HighIsWritten, Reads, Updates
  <2>3. calm => Enabling'
    <3>1. CASE RaiseLow(c)
      BY <1>1, <1>2, <1>9, <2>1, <3>1 DEF RaiseLow, At, Goto, Types, readVars, Enabling,
         HighIsWritten, Updates, Reads
    <3>2. CASE WriteHigh(c)
      <4>1. /\ pc'["main"] = "cmpl" /\ UNCHANGED <<began, base, goal, h, l>>
            /\ cmph' = new_time("main") \div Radix
        BY <1>2, <1>9, <3>2 DEF WriteHigh, Goto, Types, readVars
      <4>2. new_time("main")' = new_time("main")
        BY <4>1 DEF new_time, final_time
      <4>3. QED
        BY <1>1, <2>1, <4>1, <4>2 DEF Enabling, HighIsWritten
    <3>3. CASE WriteLow(c)
      <4>1. pc'["main"] = "mie"
        BY <1>2, <1>9, <3>3 DEF WriteLow, Goto, Types
      <4>2. calm => enabledAt + time_increment <= Comparator'
        BY <1>3, <1>6, <1>8, <1>9, <2>1, <3>3
      <4>3. QED
        BY <1>1, <2>1, <4>1, <4>2 DEF Enabling, HighIsWritten, Reads, Updates
    <3>4. QED
      BY <3>1, <3>2, <3>3
  <2>4. pc'["main"] \in Updates => goal'["main"] = "arm"
    BY <1>4, <1>9 DEF RaiseLow, WriteHigh, WriteLow, Goto, Types, readVars, Updates, Contexts
  <2>5. ElapsedIsNeverAhead'
    BY <1>1, <1>9 DEF Periods, ElapsedIsNeverAhead, Updates
  <2>6. QED
    BY <1>1, <2>2, <2>3, <2>4, <2>5 DEF Periods
<1>10. CASE c = "isr"
  <2>1. inIsr /\ mie /\ mie' /\ inIsr'
    BY <1>1, <1>5, <1>10 DEF Periods
  <2>2. calm => Enabling'
    BY <1>1, <1>2, <1>10, <2>1 DEF Periods, Enabling, HighIsWritten, Reads, Updates
  <2>3. calm => /\ base["isr"] = time_increment
                /\ Counted + time_increment <= began["isr"] - enabledAt
    BY <1>1, <1>10 DEF Periods, Handling, Updates
  <2>4. calm => Handling'
    <3>1. CASE RaiseLow(c)
      BY <1>1, <1>2, <1>3, <1>10, <2>1, <2>3, <3>1 DEF RaiseLow, At, Goto, Types, readVars,
         Handling, HighIsWritten, Updates, Reads
    <3>2. CASE WriteHigh(c)
      <4>1. /\ pc'["isr"] = "cmpl" /\ UNCHANGED <<began, base, goal, h, l>>
            /\ cmph' = new_time("isr") \div Radix
        BY <1>2, <1>10, <3>2 DEF WriteHigh, Goto, Types, readVars
      <4>2. new_time("isr")' = new_time("isr")
        BY <4>1 DEF new_time, final_time
      <4>3. QED
        BY <1>1, <1>3, <2>1, <2>3, <4>1, <4>2 DEF Handling, HighIsWritten
    <3>3. CASE WriteLow(c)
      <4>1. pc'["isr"] = "count"
        BY <1>2, <1>10, <3>3 DEF WriteLow, Goto, Types
      <4>2. calm => /\ Counted + time_increment + time_increment <= Comparator' - enabledAt
                    /\ Counted + time_increment <= mtime - enabledAt
        BY <1>3, <1>6, <1>8, <1>10, <2>3, <3>3
      <4>3. QED
        BY <1>1, <1>3, <2>1, <4>1, <4>2 DEF Handling, HighIsWritten, Reads, Updates
    <3>4. QED
      BY <3>1, <3>2, <3>3
  <2>5. pc'["main"] \in Updates => goal'["main"] = "arm"
    BY <1>5, <1>10 DEF Periods
  <2>6. ElapsedIsNeverAhead'
    BY <1>1, <1>5, <1>10 DEF Periods, ElapsedIsNeverAhead
  <2>7. QED
    BY <1>1, <2>1, <2>2, <2>4, <2>5, <2>6 DEF Periods
<1>11. QED
  BY <1>2, <1>9, <1>10

\* Every step keeps the periods counted behind the time.
LEMMA PeriodsStep ==
  ASSUME Types, HandlerRuns, TimesRead, Periods, Next
  PROVE  Periods'
<1>1. /\ "main" \in Contexts /\ "isr" \in Contexts
      /\ mtime \in Nat /\ enabledAt \in Nat /\ time_increment \in Nat /\ time_elapsed \in Nat
      /\ Counted \in Nat
  BY DEF Contexts, Types, Counted
<1>2. ASSUME NEW b \in Bases, timer_enable(b)
      PROVE  Periods'
  <2>1. /\ UNCHANGED <<mtime, mie, inIsr, goal, began>> /\ pc'["main"] = "increment"
        /\ pc'["isr"] = "idle" /\ ~inIsr /\ time_elapsed' = 0
        /\ enabledAt' = mtime /\ calm' = (calm /\ ~mie)
    BY <1>1, <1>2 DEF timer_enable, At, Running, Goto, Types, HandlerRuns
  <2>2. calm' => Enabling' /\ Handling'
    BY <2>1 DEF Enabling, Handling, HighIsWritten, Reads, Updates
  <2>3. ElapsedIsNeverAhead'
    BY <2>1 DEF ElapsedIsNeverAhead
  <2>4. QED
    BY <1>1, <2>1, <2>2, <2>3 DEF Periods, Updates
<1>3. CASE SetIncrement
  <2>1. /\ UNCHANGED <<mtime, mie, inIsr, enabledAt, calm, time_elapsed>>
        /\ pc["main"] = "increment" /\ pc'["main"] = "timeh" /\ goal'["main"] = "arm"
        /\ pc'["isr"] = "idle" /\ ~inIsr /\ began'["main"] = mtime
        /\ base'["main"] = base["main"] /\ time_increment' = base["main"]
    BY <1>1, <1>3 DEF SetIncrement, BeginRead, At, Running, Goto, Types, HandlerRuns
  <2>2. base["main"] \in Nat /\ 0 * base["main"] = 0
    BY <1>1 DEF Types
  <2>3. calm => ~mie /\ time_elapsed = 0
    BY <2>1 DEF Periods, Enabling
  <2>4. calm => Enabling' /\ Handling'
    BY <1>1, <2>1, <2>3 DEF Periods, Enabling, Handling, HighIsWritten, Reads, Updates
  <2>5. ElapsedIsNeverAhead'
    BY <1>1, <2>1, <2>2, <2>3 DEF Periods, ElapsedIsNeverAhead
  <2>6. QED
    BY <2>1, <2>4, <2>5 DEF Periods, Updates
<1>4. CASE EnableTimer
  <2>1. /\ UNCHANGED <<mtime, inIsr, enabledAt, calm, time_elapsed, time_increment, cmph, cmp>>
        /\ pc["main"] = "mie" /\ pc'["main"] = "mstatus" /\ mie' = TRUE
        /\ pc'["isr"] = "idle" /\ ~inIsr
    BY <1>1, <1>4 DEF EnableTimer, At, Running, Goto, Types, HandlerRuns, regVars
  <2>2. Comparator' = Comparator /\ Counted' = Counted
    BY <2>1 DEF Comparator, Counted
  <2>3. calm => Counted = 0 /\ enabledAt + time_increment <= Comparator
    BY <1>1, <2>1 DEF Periods, Enabling, Counted
  <2>4. Comparator \in Int
    BY TimerAssumption DEF Comparator, Types, Half, TimerAssumption
  <2>5. calm => Enabling' /\ Handling'
    BY <1>1, <2>1, <2>2, <2>3, <2>4 DEF Enabling, Handling, HighIsWritten, Reads, Updates
  <2>6. ElapsedIsNeverAhead'
    BY <2>1 DEF Periods, ElapsedIsNeverAhead
  <2>7. QED
    BY <2>1, <2>5, <2>6 DEF Periods, Updates
<1>5. CASE EnableAll \/ pcount_reset \/ EndReset \/ timer_disable \/ timer_read
  <2> DEFINE Same ==
        /\ UNCHANGED <<mtime, inIsr, enabledAt, calm, time_elapsed, time_increment, cmph, cmp>>
        /\ pc'["main"] \in {"idle", "reset"} \/ (pc'["main"] = "timeh" /\ goal'["main"] = "read")
        /\ pc["main"] # "increment"
        /\ pc'["isr"] = "idle" /\ ~inIsr
        /\ mie' => mie
  <2>0. ~inIsr => pc["isr"] = "idle"
    BY DEF HandlerRuns
  <2>1. Same
    <3>1. EnableAll => Same
      BY <1>1, <2>0 DEF EnableAll, At, Running, Goto, Types, regVars
    <3>2. pcount_reset => Same
      BY <1>1, <2>0 DEF pcount_reset, At, Running, Goto, Types, regVars, timerVars
    <3>3. EndReset => Same
      BY <1>1, <2>0 DEF EndReset, At, Running, Goto, Types, regVars, timerVars
    <3>4. timer_disable => Same
      BY <1>1, <2>0 DEF timer_disable, At, Running, Types, regVars
    <3>5. timer_read => Same
      BY <1>1, <2>0 DEF timer_read, BeginRead, At, Running, Goto, Types, regVars, timerVars
    <3>6. QED
      BY <1>5, <3>1, <3>2, <3>3, <3>4, <3>5
  <2>2. Comparator' = Comparator /\ Counted' = Counted
    BY <2>1 DEF Comparator, Counted
  <2>3. calm => Enabling' /\ Handling'
    BY <2>1, <2>2 DEF Periods, Enabling, Handling, HighIsWritten, Reads, Updates
  <2>4. ElapsedIsNeverAhead'
    BY <2>1 DEF Periods, ElapsedIsNeverAhead
  <2>5. QED
    BY <2>1, <2>3, <2>4 DEF Periods, Updates
<1>6. CASE Interrupt
  <2>1. /\ UNCHANGED <<mtime, mie, enabledAt, calm, time_elapsed, time_increment, cmph, cmp, h, l>>
        /\ ~inIsr /\ inIsr' /\ mie /\ mtime >= Comparator
        /\ pc'["main"] = pc["main"] /\ goal'["main"] = goal["main"]
        /\ began'["main"] = began["main"] /\ base'["main"] = base["main"]
        /\ pc'["isr"] = "timeh" /\ began'["isr"] = mtime /\ base'["isr"] = time_increment
    BY <1>1, <1>6 DEF Interrupt, BeginRead, Goto, Types
  <2>2. Comparator' = Comparator /\ Counted' = Counted /\ Comparator \in Int
    BY <2>1, TimerAssumption DEF Comparator, Counted, Types, Half, TimerAssumption
  <2>3. calm => Enabling'
    BY <2>1, <2>2 DEF Periods, Enabling, HighIsWritten, Reads, Updates, new_time, final_time
  <2>4. calm => Counted + time_increment <= mtime - enabledAt
    BY <1>1, <2>1, <2>2 DEF Periods, Handling
  <2>5. calm => Handling'
    BY <2>1, <2>2, <2>4 DEF Handling, HighIsWritten
  <2>6. ElapsedIsNeverAhead'
    BY <2>1 DEF Periods, ElapsedIsNeverAhead
  <2>7. QED
    BY <2>1, <2>3, <2>5, <2>6 DEF Periods
<1>7. CASE EndHandler
  <2>1. /\ UNCHANGED <<mtime, mie, enabledAt, calm, time_increment, cmph, cmp, h, l, goal, began, base>>
        /\ inIsr /\ ~inIsr' /\ time_elapsed' = time_elapsed + 1
        /\ pc'["main"] = pc["main"] /\ pc["isr"] = "count" /\ pc'["isr"] = "idle"
    BY <1>1, <1>7 DEF EndHandler, At, Goto, Types, HandlerRuns, regVars, readVars
  <2>2. Comparator' = Comparator
    BY <2>1 DEF Comparator
  <2>3. Counted' = Counted + time_increment
    BY <1>1, <2>1 DEF Counted
  <2>4. mie
    BY <2>1 DEF Periods
  <2>5. calm => Enabling'
    BY <2>1, <2>2, <2>4 DEF Periods, Enabling, HighIsWritten, Reads, Updates, new_time, final_time
  <2>6. calm => Handling'
    BY <2>1, <2>2, <2>3 DEF Periods, Handling, HighIsWritten, Reads, Updates
  <2>7. calm => Counted' <= mtime - enabledAt
    BY <2>1, <2>3 DEF Periods, Handling
  <2>8. ElapsedIsNeverAhead'
    BY <2>1, <2>7 DEF ElapsedIsNeverAhead, Counted
  <2>9. QED
    BY <2>1, <2>4, <2>5, <2>6, <2>8 DEF Periods
<1>8. ASSUME Tick \/ \E e \in BOOLEAN : pcount_enable(e)
      PROVE  Periods'
  <2>0. mtime' \in Nat /\ mtime <= mtime' /\ enabledAt' = enabledAt
    BY <1>1, <1>8 DEF Tick, pcount_enable, timerVars
  <2>1. UNCHANGED <<mie, inIsr, enabledAt, calm, time_elapsed, time_increment, cmph, cmp,
                    h, l, goal, began, base, pc>>
    BY <1>8 DEF Tick, pcount_enable, regVars, timerVars, readVars
  <2>2. /\ Comparator' = Comparator /\ Counted' = Counted
        /\ \A c \in Contexts : new_time(c)' = new_time(c)
    BY <2>1 DEF Comparator, Counted, new_time, final_time
  <2>3. Enabling => Enabling'
    BY <1>1, <2>1, <2>2 DEF Enabling, HighIsWritten
  <2>4. \A k \in Int : k <= mtime - enabledAt => k <= mtime' - enabledAt'
    <3>1. \A k \in Int : k <= mtime - enabledAt => k <= mtime' - enabledAt
      BY <1>1, <2>0, Later
    <3>2. enabledAt' = enabledAt
      BY <2>0
    <3>3. QED
      BY ONLY <3>1, <3>2
  <2>5. Handling => Handling'
    <3>1. Counted + time_increment \in Int
      BY <1>1
    <3>2. UNCHANGED <<pc, inIsr, base, began, cmph>> /\ mie' = mie /\ enabledAt' = enabledAt
          /\ time_increment' = time_increment
      BY <2>1
    <3>3. HighIsWritten("isr") => HighIsWritten("isr")'
      BY <1>1, <2>2, <3>2 DEF HighIsWritten
    <3>4. QED
      BY <2>2, <2>4, <3>1, <3>2, <3>3 DEF Handling
  <2>6. ElapsedIsNeverAhead'
    <3>1. calm' /\ pc'["main"] # "increment" => Counted <= mtime - enabledAt
      BY <2>1 DEF Periods, ElapsedIsNeverAhead, Counted
    <3>2. calm' /\ pc'["main"] # "increment" => Counted' <= mtime' - enabledAt'
      BY <1>1, <2>2, <2>4, <3>1
    <3>3. QED
      BY <3>2 DEF ElapsedIsNeverAhead, Counted
  <2>7. QED
    BY <1>1, <2>0, <2>1, <2>3, <2>5, <2>6 DEF Periods
<1>9. QED
  BY <1>2, <1>3, <1>4, <1>5, <1>6, <1>7, <1>8, PeriodsRead, PeriodsUpdate DEF Next

-----------------------------------------------------------------------------
\* The invariants hold together, for every size of a register.
THEOREM Invariance == Spec => []IInv
<1>1. Init => IInv
  BY TypesInit, HandlerRunsInit, TimesReadInit, ComparatorInit, CounterInit, PeriodsInit DEF IInv
<1>2. IInv /\ [Next]_vars => IInv'
  <2>1. CASE Next
    BY <2>1, TypesStep, HandlerRunsStep, TimesReadStep, ComparatorStep, CounterStep, PeriodsStep
    DEF IInv
  <2>2. ASSUME IInv, UNCHANGED vars
        PROVE  IInv'
    <3>1. Types' /\ HandlerRuns'
      BY <2>2 DEF IInv, vars, regVars, timerVars, readVars, countVars, Types, HandlerRuns
    <3>2. TimesRead' /\ LowIsRaised' /\ ComparatorIsNeverEarly'
      BY <2>2 DEF IInv, vars, regVars, timerVars, readVars, TimesRead, TimeRead, LowIsRaised,
         ComparatorIsNeverEarly, Comparator, new_time, final_time
    <3>3. LowIsCleared' /\ ResetCounterIsSmall'
      BY <2>2 DEF IInv, vars, countVars, LowIsCleared, ResetCounterIsSmall, Counter
    <3>4. Periods'
      BY <2>2 DEF IInv, vars, regVars, timerVars, readVars, Periods, Enabling, Handling,
         HighIsWritten, Counted, Comparator, new_time, final_time, ElapsedIsNeverAhead
    <3>5. QED
      BY <3>1, <3>2, <3>3, <3>4 DEF IInv
  <2>3. QED
    BY <2>1, <2>2
<1>3. QED
  BY <1>1, <1>2, PTL DEF Spec

\* timer_read returns a time at which the call was under way, whatever the
\* size of a half: a half that overflows between two reads is noticed.
THEOREM ReadsAreCurrent == Spec => []ReadIsCurrent
<1>1. IInv => ReadIsCurrent
  BY DEF IInv, TimesRead, TimeRead, ReadIsCurrent
<1>2. QED
  BY <1>1, Invariance, PTL

\* No order of the three writes of timecmp_update and the ticks between them
\* brings an interrupt before its time.
THEOREM ComparatorNeverEarly == Spec => []ComparatorIsNeverEarly
<1>1. IInv => ComparatorIsNeverEarly
  BY DEF IInv
<1>2. QED
  BY <1>1, Invariance, PTL

\* The handler never counts a period that has not passed.
THEOREM ElapsedNeverAhead == Spec => []ElapsedIsNeverAhead
<1>1. IInv => ElapsedIsNeverAhead
  BY DEF IInv, Periods
<1>2. QED
  BY <1>1, Invariance, PTL

\* A counter cleared while it counts shows nothing from before.
THEOREM ResetCountersSmall == Spec => []ResetCounterIsSmall
<1>1. IInv => ResetCounterIsSmall
  BY DEF IInv
<1>2. QED
  BY <1>1, Invariance, PTL

-----------------------------------------------------------------------------
(***************************************************************************)
(* The report of an exception.                                             *)
(***************************************************************************)
\* A set of natural numbers has a least one.
LEMMA Least ==
  ASSUME NEW T \in SUBSET Nat, T # {}
  PROVE  \E m \in T : \A x \in T : m <= x
<1>1. IsWellFoundedOn(OpToRel(<, Nat), Nat)
  BY NatLessThanWellFounded
<1>2. PICK m \in T : \A y \in T : ~ (<<y, m>> \in OpToRel(<, Nat))
  BY <1>1, WFMin, Zenon
<1>3. \A y \in T : ~ (y < m)
  BY <1>2 DEF OpToRel
<1>4. QED
  BY <1>3

\* Induction, for a set in the place of a predicate.
LEMMA Induction ==
  ASSUME NEW T \in SUBSET Nat, 0 \in T, \A m \in T : m + 1 \in T
  PROVE  T = Nat
<1>1. SUFFICES ASSUME Nat \ T # {} PROVE FALSE
  OBVIOUS
<1>2. PICK m \in Nat \ T : \A x \in Nat \ T : m <= x
  BY <1>1, Least
<1>3. m - 1 \in T
  BY <1>2
<1>4. QED
  BY <1>2, <1>3

-----------------------------------------------------------------------------
\* Quotient and remainder, by any divisor.
LEMMA Division ==
  ASSUME NEW v \in Nat, NEW b \in Nat, b > 0
  PROVE  /\ v \div b \in Nat /\ v % b \in Nat /\ v % b < b
         /\ v = (v \div b) * b + (v % b)
  BY SMT

\* There is one quotient and one remainder.
LEMMA OneQuotient ==
  ASSUME NEW b \in Nat, NEW q \in Int, NEW r \in Nat, NEW x \in Int, NEW y \in Nat,
         r < b, y < b, q * b + r = x * b + y
  PROVE  q = x /\ r = y
<1>1. \A m \in Int, n \in Int : m < n => m * b + b <= n * b
  BY SMT
<1>2. q * b \in Int /\ x * b \in Int
  OBVIOUS
<1>3. ~(q < x)
  BY <1>1, <1>2
<1>4. ~(x < q)
  BY <1>1, <1>2
<1>5. QED
  BY <1>2, <1>3, <1>4

\* What a number made of a quotient and a remainder is divided into.
LEMMA Quotient ==
  ASSUME NEW b \in Nat, NEW q \in Nat, NEW r \in Nat, r < b
  PROVE  (q * b + r) \div b = q /\ (q * b + r) % b = r
<1>1. q * b + r \in Nat /\ b > 0
  BY SMT
<1>2. PICK w \in Nat : w = q * b + r
  BY <1>1
<1>3. PICK x \in Nat, y \in Nat : x = w \div b /\ y = w % b /\ y < b /\ w = x * b + y
  BY <1>1, Division
<1>4. q * b + r = x * b + y
  BY <1>2, <1>3
<1>5. q = x /\ r = y
  BY <1>3, <1>4, OneQuotient
<1>6. QED
  BY <1>2, <1>3, <1>5

-----------------------------------------------------------------------------
\* What Place is chosen to be.
PlacesUpTo(u, m) == u = [n \in 0 .. m |-> IF n = 0 THEN 1 ELSE 16 * u[n - 1]]

\* The function of the places exists, and a place counts sixteen of the one
\* to its right.
LEMMA PlaceSteps == Place[0] = 1 /\ \A n \in 0 .. Digits - 1 : Place[n + 1] = 16 * Place[n]
<1> DEFINE T == {m \in Nat : \E u : PlacesUpTo(u, m)}
<1>1. 0 \in T
  <2>1. PlacesUpTo([n \in 0 .. 0 |-> 1], 0)
    BY DEF PlacesUpTo
  <2>2. QED
    BY <2>1
<1>2. ASSUME NEW m \in T
      PROVE  m + 1 \in T
  <2>1. PICK u : PlacesUpTo(u, m)
    OBVIOUS
  <2> DEFINE v == [n \in 0 .. m + 1 |-> IF n = m + 1 THEN 16 * u[m] ELSE u[n]]
  <2>2. \A n \in 0 .. m + 1 : v[n] = IF n = 0 THEN 1 ELSE 16 * v[n - 1]
    BY <2>1 DEF PlacesUpTo
  <2>3. PlacesUpTo(v, m + 1)
    BY <2>2 DEF PlacesUpTo
  <2>4. QED
    BY <2>3
<1>3. T = Nat
  BY <1>1, <1>2, Induction
<1>4. Digits \in Nat
  BY ExcAssumption DEF ExcAssumption
<1>5. \E u : PlacesUpTo(u, Digits)
  BY <1>3, <1>4
<1>6. PlacesUpTo(Place, Digits)
  BY <1>5 DEF Place, PlacesUpTo
<1>7. QED
  BY <1>4, <1>6 DEF PlacesUpTo

\* The places are positive numbers.
LEMMA PlaceTyped ==
  /\ Digits \in Nat /\ Digits > 0
  /\ \A n \in 0 .. Digits : Place[n] \in Nat /\ Place[n] > 0
<1> DEFINE T == {n \in Nat : n <= Digits => Place[n] \in Nat /\ Place[n] > 0}
<1>1. Digits \in Nat /\ Digits > 0
  BY ExcAssumption DEF ExcAssumption
<1>2. 0 \in T
  BY PlaceSteps
<1>3. ASSUME NEW n \in T
      PROVE  n + 1 \in T
  <2>1. CASE n + 1 <= Digits
    <3>1. Place[n] \in Nat /\ Place[n] > 0 /\ Place[n + 1] = 16 * Place[n]
      BY <1>1, <2>1, PlaceSteps
    <3>2. QED
      BY <3>1
  <2>2. QED
    BY <2>1, <1>1
<1>4. T = Nat
  BY <1>2, <1>3, Induction
<1>5. QED
  BY <1>1, <1>4

\* Places multiply.
LEMMA PlaceProduct ==
  ASSUME NEW m \in Nat, NEW n \in Nat, m + n <= Digits
  PROVE  Place[m + n] = Place[m] * Place[n]
<1> DEFINE T == {k \in Nat : m + k <= Digits => Place[m + k] = Place[m] * Place[k]}
<1>1. 0 \in T
  BY PlaceSteps, PlaceTyped
<1>2. ASSUME NEW k \in T
      PROVE  k + 1 \in T
  <2>1. SUFFICES ASSUME m + (k + 1) <= Digits
                 PROVE  Place[m + (k + 1)] = Place[m] * Place[k + 1]
    OBVIOUS
  <2>2. Place[m + k] = Place[m] * Place[k]
    BY <2>1, PlaceTyped
  <2>3. Place[m + (k + 1)] = 16 * Place[m + k] /\ Place[k + 1] = 16 * Place[k]
    <3>1. m + k \in 0 .. Digits - 1 /\ k \in 0 .. Digits - 1 /\ m + (k + 1) = (m + k) + 1
      BY <2>1, PlaceTyped
    <3>2. QED
      BY <3>1, PlaceSteps
  <2>4. Place[m] \in Nat /\ Place[k] \in Nat
    BY <2>1, PlaceTyped
  <2>5. \A x \in Nat, y \in Nat : 16 * (x * y) = x * (16 * y)
    BY SMT
  <2>6. QED
    BY <2>2, <2>3, <2>4, <2>5
<1>3. T = Nat
  BY <1>1, <1>2, Induction
<1>4. QED
  BY <1>3

-----------------------------------------------------------------------------
\* The digits of a register, from the left.
DigitOf(v, k) == (v \div Place[Digits - k]) % 16

\* What puthex has left when it has put n digits of v.
Left(v, n) == (v % Place[Digits - n]) * Place[n]

\* At first puthex has the whole register left.
LEMMA NoneShown == ASSUME NEW v \in Nat, v < Place[Digits] PROVE Left(v, 0) = v
<1>1. Place[Digits] \in Nat /\ Place[Digits] > 0
  BY PlaceTyped
<1>2. v % Place[Digits] = v
  <2>1. 0 * Place[Digits] + v = v
    BY <1>1
  <2>2. (0 * Place[Digits] + v) % Place[Digits] = v
    BY <1>1, Quotient
  <2>3. QED
    BY <2>1, <2>2
<1>3. Place[0] = 1 /\ Digits - 0 = Digits
  BY PlaceSteps, PlaceTyped
<1>4. QED
  BY <1>1, <1>2, <1>3 DEF Left

\* A pass of the loop takes the next digit off what is left.
LEMMA OneShown ==
  ASSUME NEW v \in Nat, NEW n \in Nat, n < Digits
  PROVE  /\ Left(v, n) \div Place[Digits - 1] = DigitOf(v, n + 1)
         /\ (Left(v, n) * 16) % Place[Digits] = Left(v, n + 1)
         /\ DigitOf(v, n + 1) \in 0 .. 15
         /\ v \div Place[Digits - (n + 1)] = 16 * (v \div Place[Digits - n]) + DigitOf(v, n + 1)
<1>1. PICK P \in Nat : P = Place[Digits - (n + 1)] /\ P > 0
  BY PlaceTyped
<1>2. PICK N \in Nat : N = Place[n] /\ N > 0
  BY PlaceTyped
<1>3. Place[Digits - n] = 16 * P
  <2>1. Digits - (n + 1) \in 0 .. Digits - 1 /\ Digits - n = (Digits - (n + 1)) + 1
    BY PlaceTyped
  <2>2. QED
    BY <1>1, <2>1, PlaceSteps
<1>4. Place[n + 1] = 16 * N
  <2>1. n \in 0 .. Digits - 1
    BY PlaceTyped
  <2>2. QED
    BY <1>2, <2>1, PlaceSteps
<1>5. Place[Digits - 1] = P * N
  <2>1. Digits - (n + 1) \in Nat /\ (Digits - (n + 1)) + n = Digits - 1
    BY PlaceTyped
  <2>2. QED
    BY <1>1, <1>2, <2>1, PlaceProduct, PlaceTyped
<1>6. Place[Digits] = (16 * P) * N
  <2>1. Digits - n \in Nat /\ (Digits - n) + n = Digits
    BY PlaceTyped
  <2>2. QED
    BY <1>3, <1>2, <2>1, PlaceProduct, PlaceTyped
<1>7. PICK b \in Nat : b = 16 * P /\ b > 0
  BY <1>1
<1>8. PICK q \in Nat, w \in Nat : q = v \div b /\ w = v % b /\ w < b /\ v = q * b + w
  BY <1>7, Division
<1>9. PICK d \in Nat, r \in Nat : d = w \div P /\ r = w % P /\ r < P /\ w = d * P + r
  <2>1. /\ w \div P \in Nat /\ w % P \in Nat /\ w % P < P
        /\ w = (w \div P) * P + (w % P)
    BY <1>1, Division
  <2>2. QED
    BY <2>1, Zenon
<1>10. d \in 0 .. 15
  <2>1. \A x \in Nat : x >= 16 => x * P >= 16 * P
    BY <1>1, SMT
  <2>2. PICK t \in Nat : t = d * P
    BY <1>1, <1>9
  <2>3. t < 16 * P
    BY <2>2, <1>7, <1>8, <1>9
  <2>4. QED
    BY <2>1, <2>2, <2>3
<1>11. v = (16 * q + d) * P + r
  <2>1. PICK x \in Nat, y \in Nat : x = q * b /\ y = d * P
    OBVIOUS
  <2>2. (16 * q + d) * P = x + y
    BY <2>1, <1>7, SMT
  <2>3. v = x + w /\ w = y + r
    BY <1>8, <1>9, <2>1
  <2>4. PICK z \in Nat : z = (16 * q + d) * P
    OBVIOUS
  <2>5. v = z + r
    BY <2>2, <2>3, <2>4
  <2>6. QED
    BY <2>4, <2>5
<1>12. v \div P = 16 * q + d /\ v % P = r
  <2>1. PICK x \in Nat : x = 16 * q + d
    OBVIOUS
  <2>2. (x * P + r) \div P = x /\ (x * P + r) % P = r
    BY <1>9, Quotient
  <2>3. QED
    BY <2>1, <2>2, <1>11
<1>13. DigitOf(v, n + 1) = d
  <2>1. (16 * q + d) % 16 = d
    BY <1>10
  <2>2. QED
    BY <1>1, <1>12, <2>1 DEF DigitOf
<1>14. PICK c \in Nat, s \in Nat : c = P * N /\ s = r * N /\ s < c
  <2>1. P * N \in Nat /\ r * N \in Nat
    OBVIOUS
  <2>2. \A x \in Nat, y \in Nat : x < y => x * N < y * N
    BY <1>2, SMT
  <2>3. r * N < P * N
    BY <1>9, <2>2
  <2>4. QED
    BY <2>1, <2>3
<1>15. w * N = d * c + s
  BY <1>9, <1>14, SMT
<1>16. Left(v, n) = d * c + s
  BY <1>2, <1>3, <1>7, <1>8, <1>15 DEF Left
<1>17. Left(v, n + 1) = 16 * s
  <2>1. Left(v, n + 1) = r * (16 * N)
    BY <1>1, <1>4, <1>12 DEF Left
  <2>2. r * (16 * N) = 16 * (r * N)
    BY SMT
  <2>3. QED
    BY <1>14, <2>1, <2>2
<1>18. Place[Digits - 1] = c /\ Place[Digits] = 16 * c
  <2>1. (16 * P) * N = 16 * (P * N)
    BY SMT
  <2>2. QED
    BY <2>1, <1>5, <1>6, <1>14
<1>19. (d * c + s) \div c = d
  BY <1>14, Quotient
<1>20. ((d * c + s) * 16) % (16 * c) = 16 * s
  <2>1. PICK g \in Nat, t \in Nat : g = 16 * c /\ t = 16 * s /\ t < g
    BY <1>14
  <2>2. (d * c + s) * 16 = d * g + t
    BY <2>1, SMT
  <2>3. (d * g + t) % g = t
    BY <2>1, Quotient
  <2>4. QED
    BY <2>1, <2>2, <2>3
<1>21. v \div Place[Digits - (n + 1)] = 16 * (v \div Place[Digits - n]) + d
  BY <1>1, <1>3, <1>7, <1>8, <1>12
<1>22. QED
  BY <1>10, <1>13, <1>16, <1>17, <1>18, <1>19, <1>20, <1>21

-----------------------------------------------------------------------------
\* The characters of a register's digits.
Shown(v) == [k \in 1 .. Digits |-> [char |-> Character(DigitOf(v, k))]]

\* What a character is read back as.
Digit(c) == CHOOSE d \in 0 .. 15 : c = (IF d \in 0 .. 9 THEN 48 ELSE 65 - 10) + d

\* What the reader of Denoted is chosen to be.
NumbersUpTo(u, c) == u = [n \in 0 .. Len(c) |-> IF n = 0 THEN 0 ELSE 16 * u[n - 1] + Digit(c[n])]

\* A digit's character is read back as the digit.
LEMMA ReadBack ==
  ASSUME NEW d \in 0 .. 15
  PROVE  Character(d) \in 48 .. 57 \cup 65 .. 70 /\ Digit(Character(d)) = d
<1>1. Character(d) \in 48 .. 57 \cup 65 .. 70
  BY DEF Character
<1>2. Character(d) = (IF d \in 0 .. 9 THEN 48 ELSE 65 - 10) + d
  BY DEF Character
<1>3. \A x \in 0 .. 15 : Character(d) = (IF x \in 0 .. 9 THEN 48 ELSE 65 - 10) + x => x = d
  BY DEF Character
<1>4. QED
  BY <1>1, <1>2, <1>3 DEF Digit

\* A digit is one.
LEMMA DigitTyped == ASSUME NEW v \in Nat, NEW k \in 1 .. Digits PROVE DigitOf(v, k) \in 0 .. 15
<1>1. k - 1 \in Nat /\ k - 1 < Digits /\ (k - 1) + 1 = k
  BY PlaceTyped
<1>2. QED
  BY <1>1, OneShown

\* Digit by digit, the number that the characters denote is what is left of
\* the register without the digits not yet read.
LEMMA NumberIs ==
  ASSUME NEW v \in Nat, v < Place[Digits],
         NEW c, Len(c) = Digits, \A k \in 1 .. Digits : Digit(c[k]) = DigitOf(v, k)
  PROVE  (CHOOSE u : NumbersUpTo(u, c))[Digits] = v
<1>1. v \div Place[Digits] = 0 /\ v \div Place[0] = v
  <2>1. Place[Digits] \in Nat /\ Place[Digits] > 0 /\ Place[0] = 1
    BY PlaceTyped, PlaceSteps
  <2>2. (0 * Place[Digits] + v) \div Place[Digits] = 0
    BY <2>1, Quotient
  <2>3. 0 * Place[Digits] + v = v
    BY <2>1
  <2>4. QED
    BY <2>1, <2>2, <2>3
<1>2. \A k \in 1 .. Digits :
        v \div Place[Digits - k] = 16 * (v \div Place[Digits - (k - 1)]) + DigitOf(v, k)
  <2>1. TAKE k \in 1 .. Digits
  <2>2. k - 1 \in Nat /\ k - 1 < Digits /\ (k - 1) + 1 = k
    BY PlaceTyped
  <2>3. QED
    BY <2>2, OneShown
<1> DEFINE w == [k \in 0 .. Digits |-> v \div Place[Digits - k]]
<1>3. NumbersUpTo(w, c)
  <2>1. \A k \in 0 .. Digits : w[k] = IF k = 0 THEN 0 ELSE 16 * w[k - 1] + Digit(c[k])
    <3>1. Digits \in Nat
      BY PlaceTyped
    <3>2. w[0] = 0
      BY <3>1, <1>1
    <3>3. ASSUME NEW k \in 1 .. Digits
          PROVE  w[k] = 16 * w[k - 1] + Digit(c[k])
      BY <3>1, <1>2
    <3> HIDE DEF w
    <3>4. QED
      BY <3>1, <3>2, <3>3
  <2>2. QED
    BY <2>1 DEF NumbersUpTo
<1>4. PICK u : u = (CHOOSE x : NumbersUpTo(x, c)) /\ NumbersUpTo(u, c)
  BY <1>3, Zenon
<1>5. u[0] = 0 /\ \A k \in 1 .. Digits : u[k] = 16 * u[k - 1] + DigitOf(v, k)
  <2>1. NumbersUpTo(u, c)
    BY <1>4
  <2>2. \A k \in 0 .. Digits : u[k] = IF k = 0 THEN 0 ELSE 16 * u[k - 1] + Digit(c[k])
    BY <2>1 DEF NumbersUpTo
  <2>3. 0 \in 0 .. Digits /\ \A k \in 1 .. Digits : k \in 0 .. Digits /\ k # 0
    BY PlaceTyped
  <2>4. QED
    BY <2>2, <2>3
<1> DEFINE T == {k \in Nat : k <= Digits => u[k] = v \div Place[Digits - k]}
<1>6. 0 \in T
  BY <1>1, <1>5, PlaceTyped
<1>7. ASSUME NEW k \in T
      PROVE  k + 1 \in T
  <2>1. SUFFICES ASSUME k + 1 <= Digits
                 PROVE  u[k + 1] = v \div Place[Digits - (k + 1)]
    OBVIOUS
  <2>2. k + 1 \in 1 .. Digits /\ (k + 1) - 1 = k /\ u[k] = v \div Place[Digits - k]
    BY <2>1, PlaceTyped
  <2>3. QED
    BY <1>2, <1>5, <2>2
<1>8. T = Nat
  BY <1>6, <1>7, Induction
<1>9. Digits \in T /\ Digits - Digits = 0
  BY <1>8, PlaceTyped
<1>10. u[Digits] = v
  BY <1>1, <1>9
<1>11. QED
  BY <1>4, <1>10

\* The digits that puthex shows of a register denote the register.
LEMMA ShownDenotes ==
  ASSUME NEW v \in Nat, v < Place[Digits]
  PROVE  Denoted(Shown(v)) = v
<1>1. Digits \in Nat
  BY PlaceTyped
<1>2. PICK c : c = [n \in DOMAIN Shown(v) |-> Shown(v)[n].char]
  OBVIOUS
<1>3. DOMAIN Shown(v) = 1 .. Digits /\ \A n \in 1 .. Digits : Shown(v)[n].char = Character(DigitOf(v, n))
  BY DEF Shown
<1>4. c = [n \in 1 .. Digits |-> Character(DigitOf(v, n))]
  BY <1>2, <1>3
<1>5. Len(c) = Digits /\ DOMAIN c = 1 .. Digits
  BY <1>1, <1>4
<1>6. \A k \in 1 .. Digits : c[k] \in 48 .. 57 \cup 65 .. 70 /\ Digit(c[k]) = DigitOf(v, k)
  <2>1. TAKE k \in 1 .. Digits
  <2>2. c[k] = Character(DigitOf(v, k))
    BY <1>4
  <2>3. DigitOf(v, k) \in 0 .. 15
    BY DigitTyped
  <2>4. QED
    BY <2>2, <2>3, ReadBack
<1>7. (CHOOSE u : NumbersUpTo(u, c))[Digits] = v
  BY <1>5, <1>6, NumberIs
<1>8. Denoted(Shown(v)) = IF \A n \in DOMAIN c : c[n] \in 48 .. 57 \cup 65 .. 70
                            THEN (CHOOSE u : NumbersUpTo(u, c))[Len(c)] ELSE -1
  BY <1>2 DEF Denoted, NumbersUpTo, Digit
<1>9. QED
  BY <1>5, <1>6, <1>7, <1>8

-----------------------------------------------------------------------------
\* What putchar writes.
Items == [text : Titles] \cup [char : Nat]

\* The n-th item of the report.
Item(n) ==
  CASE n = 1 -> [text |-> "EXCEPTION!!!"]
    [] n = 2 -> [text |-> "underline"]
    [] n = 3 -> [text |-> "MEPC"]
    [] n \in 4 .. 3 + Digits -> Shown(regs["mepc"])[n - 3]
    [] n = 4 + Digits -> [text |-> "MCAUSE"]
    [] n \in 5 + Digits .. 4 + 2 * Digits -> Shown(regs["mcause"])[n - (4 + Digits)]
    [] n = 5 + 2 * Digits -> [text |-> "MTVAL"]
    [] n \in 6 + 2 * Digits .. 5 + 3 * Digits -> Shown(regs["mtval"])[n - (5 + 2 * Digits)]
    [] n = 6 + 3 * Digits -> [text |-> "newline"]

\* How much of the report comes before a call.
Start(k) ==
  CASE k \in 0 .. 1 -> 0
    [] k \in 2 .. 4 -> k - 1
    [] k \in 5 .. 6 -> k - 2 + Digits
    [] k \in 7 .. 8 -> k - 3 + 2 * Digits
    [] k = 9 -> 5 + 3 * Digits
    [] k \in 10 .. 11 -> 6 + 3 * Digits

\* What the arithmetic of the report needs.
Sizes == Digits \in Nat /\ Digits > 0

\* The registers are typed, the locals of puthex are in use only in one of its
\* calls, and the simulation halts at the end.
ExcTypes ==
  /\ line \in 0 .. 11 /\ i \in 0 .. Digits + 1
  /\ i > 0 => line \in {4, 6, 8}
  /\ regs \in [Registers -> Nat] /\ \A r \in Registers : regs[r] < Place[Digits]
  /\ output \in Seq(Items)
  /\ halted \in BOOLEAN /\ (halted => line = 11)

\* What has been written is the report's beginning, and what puthex has left
\* are the digits to come.
ExcInv ==
  /\ ExcTypes
  /\ i > 0 => rest = Left(regs[Calls[line]], i - 1)
  /\ Len(output) = Start(line) + (IF i > 0 THEN i - 1 ELSE 0)
  /\ \A n \in 1 .. Len(output) : output[n] = Item(n)

\* Calls start at a place.
LEMMA StartTyped == ASSUME Sizes, NEW k \in 0 .. 11 PROVE Start(k) \in Nat
<1>1. CASE k \in 0 .. 4
  BY <1>1 DEF Start, Sizes
<1>2. CASE k \in 5 .. 8
  BY <1>2 DEF Start, Sizes
<1>3. CASE k \in 9 .. 11
  BY <1>3 DEF Start, Sizes
<1>4. QED
  BY <1>1, <1>2, <1>3

\* Which of the calls are which.
LEMMA CallsAre ==
  /\ DOMAIN Calls = 1 .. 10
  /\ \A k \in 1 .. 10 : Calls[k] \in Titles <=> k \in {1, 2, 3, 5, 7, 9}
  /\ \A k \in 1 .. 10 : Calls[k] \in Registers <=> k \in {4, 6, 8}
  /\ \A k \in 1 .. 10 : Calls[k] = "halt" <=> k = 10
  /\ Calls[4] = "mepc" /\ Calls[6] = "mcause" /\ Calls[8] = "mtval"
  BY DEF Calls, Titles, Registers

\* A string is the next item of the report.
LEMMA TitleItem ==
  ASSUME Sizes, NEW k \in {1, 2, 3, 5, 7, 9}
  PROVE  Item(Start(k) + 1) = [text |-> Calls[k]] /\ Start(k + 1) = Start(k) + 1
<1>1. CASE k = 1
  BY <1>1 DEF Item, Start, Calls, Sizes
<1>2. CASE k = 2
  BY <1>2 DEF Item, Start, Calls, Sizes
<1>3. CASE k = 3
  BY <1>3 DEF Item, Start, Calls, Sizes
<1>4. CASE k = 5
  BY <1>4 DEF Item, Start, Calls, Sizes
<1>5. CASE k = 7
  BY <1>5 DEF Item, Start, Calls, Sizes
<1>6. CASE k = 9
  BY <1>6 DEF Item, Start, Calls, Sizes
<1>7. QED
  BY <1>1, <1>2, <1>3, <1>4, <1>5, <1>6

\* So is a digit.
LEMMA DigitItem ==
  ASSUME Sizes, NEW k \in {4, 6, 8}, NEW m \in 1 .. Digits
  PROVE  /\ Item(Start(k) + m) = [char |-> Character(DigitOf(regs[Calls[k]], m))]
         /\ Start(k + 1) = Start(k) + Digits
<1>1. \A v : Shown(v)[m] = [char |-> Character(DigitOf(v, m))]
  BY DEF Shown
<1>2. CASE k = 4
  <2>1. Start(k) = 3 /\ Start(k + 1) = 3 + Digits /\ Calls[k] = "mepc"
    BY <1>2 DEF Start, Calls, Sizes
  <2>2. Item(3 + m) = Shown(regs["mepc"])[m]
    BY DEF Item, Sizes
  <2>3. QED
    BY <1>1, <2>1, <2>2
<1>3. CASE k = 6
  <2>1. Start(k) = 4 + Digits /\ Start(k + 1) = 4 + 2 * Digits /\ Calls[k] = "mcause"
    BY <1>3 DEF Start, Calls, Sizes
  <2>2. Item((4 + Digits) + m) = Shown(regs["mcause"])[m]
    BY DEF Item, Sizes
  <2>3. QED
    BY <1>1, <2>1, <2>2 DEF Sizes
<1>4. CASE k = 8
  <2>1. Start(k) = 5 + 2 * Digits /\ Start(k + 1) = 5 + 3 * Digits /\ Calls[k] = "mtval"
    BY <1>4 DEF Start, Calls, Sizes
  <2>2. Item((5 + 2 * Digits) + m) = Shown(regs["mtval"])[m]
    BY DEF Item, Sizes
  <2>3. QED
    BY <1>1, <2>1, <2>2 DEF Sizes
<1>5. QED
  BY <1>2, <1>3, <1>4

\* The report grows by the item that comes next.
LEMMA Grows ==
  ASSUME ExcInv, Sizes, NEW item, item \in Items, item = Item(Len(output) + 1), regs' = regs,
         output' = Append(output, item)
  PROVE  /\ output' \in Seq(Items) /\ Len(output') = Len(output) + 1
         /\ \A n \in 1 .. Len(output') : output'[n] = Item(n)'
<1>1. \A n : Item(n)' = Item(n)
  BY Zenon DEF Item, Shown
<1>2. output \in Seq(Items) /\ \A n \in 1 .. Len(output) : output[n] = Item(n)
  BY DEF ExcInv, ExcTypes
<1>3. PICK o : o = Append(output, item)
  OBVIOUS
<1>4. output' = o
  BY <1>3
<1> HIDE DEF ExcInv, Item
<1>5. /\ o \in Seq(Items) /\ Len(o) = Len(output) + 1
      /\ \A n \in 1 .. Len(o) : o[n] = Item(n)
  BY <1>2, <1>3
<1>6. QED
  BY <1>1, <1>4, <1>5, Zenon

\* Nothing has been written at the start.
LEMMA ExcInvInit == ExcInit => ExcInv
<1> SUFFICES ASSUME ExcInit
             PROVE  ExcInv
  OBVIOUS
<1>1. Digits \in Nat /\ Digits > 0 /\ Place[Digits] > 0
  BY PlaceTyped
<1>2. line = 0 /\ i = 0 /\ halted = FALSE /\ regs = [r \in Registers |-> 0]
  BY DEF ExcInit
<1>3. output = <<>> /\ output \in Seq(Items) /\ Len(output) = 0
  BY DEF ExcInit
<1>4. regs \in [Registers -> Nat] /\ \A r \in Registers : regs[r] < Place[Digits]
  BY <1>1, <1>2
<1>5. ExcTypes
  <2>1. output \in Seq(Items)
    BY <1>3
  <2>2. halted \in BOOLEAN /\ ~halted
    BY <1>2, Zenon
  <2>3. line \in 0 .. 11 /\ i \in 0 .. Digits + 1 /\ ~(i > 0)
    BY <1>1, <1>2
  <2>4. QED
    BY <1>4, <2>1, <2>2, <2>3 DEF ExcTypes
<1>6. Start(line) = 0
  BY <1>2 DEF Start
<1>7. QED
  BY <1>2, <1>3, <1>5, <1>6 DEF ExcInv

\* Every step writes the report's next item, or none.
LEMMA ExcInvStep == ExcInv /\ [ExcStep]_excVars => ExcInv'
<1> SUFFICES ASSUME ExcInv, [ExcStep]_excVars
             PROVE  ExcInv'
  OBVIOUS
<1>1. Sizes
  BY PlaceTyped DEF Sizes
<1>2. ExcTypes /\ Digits \in Nat /\ Digits > 0
  BY <1>1 DEF ExcInv, Sizes
<1>3. CASE Exception
  <2>1. line = 0 /\ line' = 1 /\ UNCHANGED <<rest, i, output, halted>>
    BY <1>3 DEF Exception
  <2>2. i = 0 /\ halted = FALSE
    BY <1>2, <2>1 DEF ExcTypes
  <2>3. regs' \in [Registers -> RegValues]
    BY <1>3 DEF Exception
  <2>4. \A x \in RegValues : x \in Nat /\ x < Place[Digits]
    <3>1. Place[Digits] \in Nat /\ RegValues \subseteq 0 .. Place[Digits] - 1
      BY PlaceTyped, ExcAssumption DEF ExcAssumption
    <3>2. QED
      BY <3>1
  <2>5. regs' \in [Registers -> Nat] /\ \A r \in Registers : regs'[r] < Place[Digits]
    BY <2>3, <2>4
  <2>6. Start(line) = 0 /\ Start(line)' = 0
    BY <2>1 DEF Start
  <2>7. Len(output) = 0 /\ output \in Seq(Items)
    BY <1>2, <2>2, <2>6 DEF ExcInv, ExcTypes
  <2>8. Len(output') = 0 /\ output' \in Seq(Items)
    BY <2>1, <2>7
  <2>9. ExcTypes'
    BY <1>2, <2>1, <2>2, <2>5, <2>8 DEF ExcTypes
  <2>10. \A n \in 1 .. Len(output') : output'[n] = Item(n)'
    BY <2>8
  <2>11. QED
    BY <2>1, <2>2, <2>6, <2>8, <2>9, <2>10 DEF ExcInv
<1>4. CASE puts
  <2>1. /\ line \in DOMAIN Calls /\ Calls[line] \in Titles
        /\ output' = Append(output, [text |-> Calls[line]]) /\ line' = line + 1
        /\ regs' = regs /\ rest' = rest /\ i' = i /\ halted' = halted
    BY <1>4 DEF puts, putchar, Follow
  <2>2. line \in {1, 2, 3, 5, 7, 9}
    BY <2>1, CallsAre
  <2>3. i = 0 /\ halted = FALSE
    BY <1>2, <2>2 DEF ExcTypes
  <2>4. Len(output) = Start(line)
    <3>1. Start(line) \in Nat
      BY <1>1, <1>2, StartTyped DEF ExcTypes
    <3>2. QED
      BY <2>3, <3>1 DEF ExcInv
  <2>5. Item(Start(line) + 1) = [text |-> Calls[line]] /\ Start(line + 1) = Start(line) + 1
    BY <1>1, <2>2, TitleItem
  <2>6. [text |-> Calls[line]] \in Items
    BY <2>1 DEF Items
  <2>7. /\ output' \in Seq(Items) /\ Len(output') = Len(output) + 1
        /\ \A n \in 1 .. Len(output') : output'[n] = Item(n)'
    BY <1>1, <2>1, <2>4, <2>5, <2>6, Grows
  <2>8. ExcTypes'
    BY <1>2, <2>1, <2>2, <2>3, <2>7 DEF ExcTypes
  <2>9. Start(line)' = Start(line + 1)
    BY <2>1 DEF Start
  <2>10. QED
    BY <2>1, <2>3, <2>4, <2>5, <2>7, <2>8, <2>9 DEF ExcInv
<1>5. CASE puthex
  <2>1. /\ line \in DOMAIN Calls /\ Calls[line] \in Registers /\ i = 0
        /\ rest' = regs[Calls[line]] /\ i' = 1
        /\ line' = line /\ regs' = regs /\ output' = output /\ halted' = halted
    BY <1>5 DEF puthex
  <2>2. line \in {4, 6, 8}
    BY <2>1, CallsAre
  <2>3. ExcTypes'
    BY <1>2, <2>1, <2>2 DEF ExcTypes
  <2>4. regs[Calls[line]] \in Nat /\ regs[Calls[line]] < Place[Digits]
    BY <1>2, <2>1 DEF ExcTypes
  <2>5. rest' = Left(regs[Calls[line]], 0)
    BY <2>1, <2>4, NoneShown
  <2>6. Start(line)' = Start(line) /\ \A n : Item(n)' = Item(n)
    BY <2>1, Zenon DEF Start, Item, Shown
  <2>7. Left(regs[Calls[line]], i - 1)' = Left(regs[Calls[line]], 0)
    BY <2>1 DEF Left
  <2>8. QED
    BY <2>1, <2>3, <2>5, <2>6, <2>7 DEF ExcInv
<1>6. CASE PutDigit
  <2>1. /\ i \in 1 .. Digits
        /\ output' = Append(output, [char |-> Character(rest \div Place[Digits - 1])])
        /\ rest' = (rest * 16) % Place[Digits] /\ i' = i + 1
        /\ line' = line /\ regs' = regs /\ halted' = halted
    BY <1>6 DEF PutDigit, putchar
  <2>2. line \in {4, 6, 8} /\ Calls[line] \in Registers /\ halted = FALSE
    <3>1. line \in {4, 6, 8} /\ (halted => line = 11) /\ halted \in BOOLEAN
      BY <1>2, <2>1 DEF ExcTypes
    <3>2. QED
      BY <3>1, CallsAre
  <2>3. PICK v \in Nat : v = regs[Calls[line]]
    BY <1>2, <2>2 DEF ExcTypes
  <2>4. PICK n \in Nat : n = i - 1 /\ n < Digits /\ i = n + 1 /\ i' = n + 2
    BY <1>2, <2>1
  <2>5. rest = Left(v, n) /\ Len(output) = Start(line) + n
    BY <2>1, <2>3, <2>4 DEF ExcInv
  <2>6. /\ rest \div Place[Digits - 1] = DigitOf(v, n + 1) /\ rest' = Left(v, n + 1)
        /\ DigitOf(v, n + 1) \in 0 .. 15
    BY <1>2, <2>1, <2>4, <2>5, OneShown
  <2>7. PICK item : item = [char |-> Character(DigitOf(v, n + 1))] /\ item \in Items
    <3>1. PICK c \in Nat : c = Character(DigitOf(v, n + 1))
      BY <2>6 DEF Character
    <3>2. [char |-> c] \in Items
      BY DEF Items
    <3>3. QED
      BY <3>1, <3>2
  <2>8. output' = Append(output, item)
    BY <2>1, <2>6, <2>7
  <2>9. item = Item(Len(output) + 1)
    <3>1. n + 1 \in 1 .. Digits
      BY <2>4, <1>2
    <3>2. Item(Start(line) + (n + 1)) = item
      BY <1>1, <2>2, <2>3, <2>7, <3>1, DigitItem
    <3>3. Start(line) \in Nat
      BY <1>1, <1>2, StartTyped DEF ExcTypes
    <3>4. QED
      BY <2>5, <3>2, <3>3
  <2>10. /\ output' \in Seq(Items) /\ Len(output') = Len(output) + 1
         /\ \A m \in 1 .. Len(output') : output'[m] = Item(m)'
    BY <1>1, <2>1, <2>7, <2>8, <2>9, Grows
  <2>11. ExcTypes'
    BY <1>2, <2>1, <2>2, <2>10 DEF ExcTypes
  <2>12. Start(line)' = Start(line) /\ Start(line) \in Nat
    <3>1. Start(line)' = Start(line)
      BY <2>1, Zenon DEF Start
    <3>2. QED
      BY <1>1, <1>2, <3>1, StartTyped DEF ExcTypes
  <2>13. Left(regs[Calls[line]], i - 1)' = Left(v, n + 1)
    BY <2>1, <2>3, <2>4 DEF Left
  <2>14. i' > 0 /\ i' - 1 = n + 1
    BY <2>4
  <2>15. QED
    BY <2>1, <2>4, <2>5, <2>6, <2>10, <2>11, <2>12, <2>13, <2>14 DEF ExcInv
<1>7. CASE EndHex
  <2>1. /\ i = Digits + 1 /\ i' = 0 /\ line' = line + 1
        /\ regs' = regs /\ output' = output /\ halted' = halted
    BY <1>7 DEF EndHex, Follow
  <2>2. line \in {4, 6, 8} /\ halted = FALSE
    BY <1>2, <2>1 DEF ExcTypes
  <2>3. ExcTypes'
    BY <1>2, <2>1, <2>2 DEF ExcTypes
  <2>4. Start(line + 1) = Start(line) + Digits
    <3>1. 1 \in 1 .. Digits
      BY <1>2
    <3>2. QED
      BY <1>1, <2>2, <3>1, DigitItem
  <2>5. Start(line)' = Start(line + 1) /\ \A n : Item(n)' = Item(n)
    BY <2>1, Zenon DEF Start, Item, Shown
  <2>6. Len(output) = Start(line) + Digits
    BY <1>2, <2>1 DEF ExcInv
  <2>7. QED
    <3>1. Len(output') = Start(line)' + 0
      BY <2>1, <2>4, <2>5, <2>6, <1>2, <2>2, SMTT(30) DEF Start
    <3>2. \A n \in 1 .. Len(output') : output'[n] = Item(n)'
      BY <2>1, <2>5 DEF ExcInv
    <3>3. QED
      BY <2>1, <2>3, <3>1, <3>2 DEF ExcInv
<1>8. CASE sim_halt
  <2>1. /\ line \in DOMAIN Calls /\ Calls[line] = "halt" /\ halted' = TRUE /\ line' = line + 1
        /\ regs' = regs /\ output' = output /\ i' = i /\ rest' = rest
    BY <1>8 DEF sim_halt, Follow
  <2>2. line = 10 /\ line' = 11
    BY <2>1, CallsAre
  <2>3. i = 0
    BY <1>2, <2>2 DEF ExcTypes
  <2>4. ExcTypes'
    BY <1>2, <2>1, <2>2, <2>3 DEF ExcTypes
  <2>5. Start(line) = 6 + 3 * Digits /\ Start(line)' = 6 + 3 * Digits
    BY <2>2 DEF Start
  <2>6. \A n : Item(n)' = Item(n)
    BY <2>1, Zenon DEF Item, Shown
  <2>7. QED
    BY <2>1, <2>3, <2>4, <2>5, <2>6 DEF ExcInv
<1>9. CASE UNCHANGED excVars
  <2>1. /\ line' = line /\ regs' = regs /\ rest' = rest /\ i' = i /\ output' = output
        /\ halted' = halted
    BY <1>9 DEF excVars
  <2>2. ExcTypes'
    BY <1>2, <2>1 DEF ExcTypes
  <2>3. Start(line)' = Start(line) /\ \A n : Item(n)' = Item(n)
    BY <2>1, Zenon DEF Start, Item, Shown
  <2>4. Left(regs[Calls[line]], i - 1)' = Left(regs[Calls[line]], i - 1)
    BY <2>1 DEF Left
  <2>5. QED
    BY <2>1, <2>2, <2>3, <2>4 DEF ExcInv
<1>10. QED
  BY <1>3, <1>4, <1>5, <1>6, <1>7, <1>8, <1>9 DEF ExcStep

\* The strings of the report are at one place each.
LEMMA TitlesAt ==
  ASSUME Sizes, NEW n \in 1 .. 6 + 3 * Digits
  PROVE  /\ Item(n) = [text |-> "MEPC"] <=> n = 3
         /\ Item(n) = [text |-> "MCAUSE"] <=> n = 4 + Digits
         /\ Item(n) = [text |-> "MTVAL"] <=> n = 5 + 2 * Digits
<1>1. \A v, t : \A k \in 1 .. Digits : Shown(v)[k] # [text |-> t]
  <2>1. \A c, t : [char |-> c] # [text |-> t]
    <3>1. \A c, t : DOMAIN [char |-> c] = {"char"} /\ DOMAIN [text |-> t] = {"text"}
      OBVIOUS
    <3>2. QED
      BY <3>1
  <2>2. QED
    BY <2>1 DEF Shown
<1>2. \A t, x : [text |-> t] = [text |-> x] => t = x
  <2>1. \A t : [text |-> t].text = t
    OBVIOUS
  <2>2. QED
    BY <2>1, Zenon
<1>3. CASE n \in 4 .. 3 + Digits
  <2>1. Item(n) = Shown(regs["mepc"])[n - 3] /\ n - 3 \in 1 .. Digits
    BY <1>3 DEF Item, Sizes
  <2>2. QED
    BY <1>1, <1>3, <2>1 DEF Sizes
<1>4. CASE n \in 5 + Digits .. 4 + 2 * Digits
  <2>1. Item(n) = Shown(regs["mcause"])[n - (4 + Digits)] /\ n - (4 + Digits) \in 1 .. Digits
    BY <1>4 DEF Item, Sizes
  <2>2. QED
    BY <1>1, <1>4, <2>1 DEF Sizes
<1>5. CASE n \in 6 + 2 * Digits .. 5 + 3 * Digits
  <2>1. Item(n) = Shown(regs["mtval"])[n - (5 + 2 * Digits)] /\ n - (5 + 2 * Digits) \in 1 .. Digits
    BY <1>5 DEF Item, Sizes
  <2>2. QED
    BY <1>1, <1>5, <2>1 DEF Sizes
<1>6. CASE n = 1
  <2>1. Item(n) = [text |-> "EXCEPTION!!!"]
    BY <1>6 DEF Item, Sizes
  <2>2. QED
    BY <1>2, <1>6, <2>1 DEF Sizes
<1>7. CASE n = 2
  <2>1. Item(n) = [text |-> "underline"]
    BY <1>7 DEF Item, Sizes
  <2>2. QED
    BY <1>2, <1>7, <2>1 DEF Sizes
<1>8. CASE n = 3
  <2>1. Item(n) = [text |-> "MEPC"]
    BY <1>8 DEF Item, Sizes
  <2>2. QED
    BY <1>2, <1>8, <2>1 DEF Sizes
<1>9. CASE n = 4 + Digits
  <2>1. Item(n) = [text |-> "MCAUSE"]
    BY <1>9 DEF Item, Sizes
  <2>2. QED
    BY <1>2, <1>9, <2>1 DEF Sizes
<1>10. CASE n = 5 + 2 * Digits
  <2>1. Item(n) = [text |-> "MTVAL"]
    BY <1>10 DEF Item, Sizes
  <2>2. QED
    BY <1>2, <1>10, <2>1 DEF Sizes
<1>11. CASE n = 6 + 3 * Digits
  <2>1. Item(n) = [text |-> "newline"]
    BY <1>11 DEF Item, Sizes
  <2>2. QED
    BY <1>2, <1>11, <2>1 DEF Sizes
<1>12. QED
  BY <1>3, <1>4, <1>5, <1>6, <1>7, <1>8, <1>9, <1>10, <1>11 DEF Sizes

\* There are six of them.
LEMMA SixTitles == Cardinality(Titles) = 6
<1>1. Cardinality({}) = 0 /\ IsFiniteSet({})
  BY FS_EmptySet
<1>2. IsFiniteSet({"underline"}) /\ Cardinality({"underline"}) = 1
  BY FS_Singleton
<1>3. IsFiniteSet({"underline", "MEPC"}) /\ Cardinality({"underline", "MEPC"}) = 2
  BY <1>2, FS_AddElement, {"underline", "MEPC"} = {"underline"} \cup {"MEPC"}
<1>4. IsFiniteSet({"underline", "MEPC", "MCAUSE"}) /\ Cardinality({"underline", "MEPC", "MCAUSE"}) = 3
  BY <1>3, FS_AddElement, {"underline", "MEPC", "MCAUSE"} = {"underline", "MEPC"} \cup {"MCAUSE"}
<1>5. /\ IsFiniteSet({"underline", "MEPC", "MCAUSE", "MTVAL"})
      /\ Cardinality({"underline", "MEPC", "MCAUSE", "MTVAL"}) = 4
  BY <1>4, FS_AddElement,
     {"underline", "MEPC", "MCAUSE", "MTVAL"} = {"underline", "MEPC", "MCAUSE"} \cup {"MTVAL"}
<1>6. /\ IsFiniteSet({"underline", "MEPC", "MCAUSE", "MTVAL", "newline"})
      /\ Cardinality({"underline", "MEPC", "MCAUSE", "MTVAL", "newline"}) = 5
  BY <1>5, FS_AddElement,
     {"underline", "MEPC", "MCAUSE", "MTVAL", "newline"} =
       {"underline", "MEPC", "MCAUSE", "MTVAL"} \cup {"newline"}
<1>7. Titles = {"underline", "MEPC", "MCAUSE", "MTVAL", "newline"} \cup {"EXCEPTION!!!"}
  BY DEF Titles
<1>8. QED
  BY <1>6, <1>7, FS_AddElement

\* What is written in the places of a register denotes it.
LEMMA Under ==
  ASSUME ExcInv, Sizes, NEW r \in Registers, NEW a \in Nat, a + Digits <= Len(output),
         \A k \in 1 .. Digits : Item(a + k) = Shown(regs[r])[k]
  PROVE  Denoted(SubSeq(output, a + 1, a + Digits)) = regs[r]
<1>1. output \in Seq(Items) /\ \A n \in 1 .. Len(output) : output[n] = Item(n)
  BY DEF ExcInv, ExcTypes
<1>2. PICK s : s = SubSeq(output, a + 1, a + Digits)
  OBVIOUS
<1>3. DOMAIN s = 1 .. Digits /\ \A k \in 1 .. Digits : s[k] = output[a + k]
  BY <1>1, <1>2 DEF Sizes
<1>4. s = [k \in 1 .. Digits |-> s[k]]
  BY <1>1, <1>2, <1>3 DEF Sizes
<1>5. Shown(regs[r]) = [k \in 1 .. Digits |-> Shown(regs[r])[k]]
  BY DEF Shown
<1>6. \A k \in 1 .. Digits : s[k] = Shown(regs[r])[k]
  <2>1. \A k \in 1 .. Digits : a + k \in 1 .. Len(output)
    BY <1>1 DEF Sizes
  <2>2. QED
    BY <1>1, <1>3, <2>1
<1>7. s = Shown(regs[r])
  BY <1>4, <1>5, <1>6
<1>8. Denoted(Shown(regs[r])) = regs[r]
  BY ShownDenotes DEF ExcInv, ExcTypes
<1>9. QED
  BY <1>2, <1>7, <1>8

\* The report that is complete is faithful.
LEMMA ExcInvFaithful == ExcInv => ReportIsFaithful
<1> SUFFICES ASSUME ExcInv, halted
             PROVE  ReportIsFaithful
  BY DEF ReportIsFaithful
<1>1. Sizes /\ Digits \in Nat /\ Digits > 0
  BY PlaceTyped DEF Sizes
<1>2. Len(output) = 6 + 3 * Digits
  <2>1. line = 11 /\ i = 0
    BY DEF ExcInv, ExcTypes
  <2>2. QED
    BY <1>1, <2>1 DEF ExcInv, Start
<1>3. output \in Seq(Items) /\ \A n \in 1 .. 6 + 3 * Digits : output[n] = Item(n)
  BY <1>2 DEF ExcInv, ExcTypes
<1>4. DOMAIN output = 1 .. 6 + 3 * Digits
  BY <1>2, <1>3
<1> DEFINE at(title) == CHOOSE n \in DOMAIN output : output[n] = [text |-> title]
<1>5. at("MEPC") = 3 /\ at("MCAUSE") = 4 + Digits /\ at("MTVAL") = 5 + 2 * Digits
  <2>1. /\ 3 \in DOMAIN output /\ 4 + Digits \in DOMAIN output
        /\ 5 + 2 * Digits \in DOMAIN output
    BY <1>1, <1>4
  <2>2. \A n \in DOMAIN output : /\ output[n] = [text |-> "MEPC"] <=> n = 3
                                 /\ output[n] = [text |-> "MCAUSE"] <=> n = 4 + Digits
                                 /\ output[n] = [text |-> "MTVAL"] <=> n = 5 + 2 * Digits
    BY <1>1, <1>3, <1>4, TitlesAt
  <2>3. QED
    BY <2>1, <2>2
<1>6. Denoted(SubSeq(output, 3 + 1, 3 + Digits)) = regs["mepc"]
  <2>1. \A k \in 1 .. Digits : Item(3 + k) = Shown(regs["mepc"])[k]
    BY <1>1 DEF Item
  <2>2. QED
    BY <1>1, <1>2, <2>1, Under DEF Registers
<1>7. Denoted(SubSeq(output, (4 + Digits) + 1, (4 + Digits) + Digits)) = regs["mcause"]
  <2>1. \A k \in 1 .. Digits : Item((4 + Digits) + k) = Shown(regs["mcause"])[k]
    BY <1>1 DEF Item
  <2>2. PICK a \in Nat : a = 4 + Digits /\ a + Digits <= Len(output)
    BY <1>1, <1>2
  <2>3. "mcause" \in Registers
    BY DEF Registers
  <2>4. Denoted(SubSeq(output, a + 1, a + Digits)) = regs["mcause"]
    BY <1>1, <2>1, <2>2, <2>3, Under
  <2>5. QED
    BY <2>2, <2>4
<1>8. Denoted(SubSeq(output, (5 + 2 * Digits) + 1, (5 + 2 * Digits) + Digits)) = regs["mtval"]
  <2>1. \A k \in 1 .. Digits : Item((5 + 2 * Digits) + k) = Shown(regs["mtval"])[k]
    BY <1>1 DEF Item
  <2>2. PICK a \in Nat : a = 5 + 2 * Digits /\ a + Digits <= Len(output)
    BY <1>1, <1>2
  <2>3. "mtval" \in Registers
    BY DEF Registers
  <2>4. Denoted(SubSeq(output, a + 1, a + Digits)) = regs["mtval"]
    BY <1>1, <2>1, <2>2, <2>3, Under
  <2>5. QED
    BY <2>2, <2>4
<1>9. QED
  BY <1>2, <1>5, <1>6, <1>7, <1>8, SixTitles DEF ReportIsFaithful

\* The digits that simple_exc_handler writes under each title are the register
\* that the processor left, for registers of every number of digits.
THEOREM ReportFaithful == ExcInit /\ [][ExcStep]_excVars => []ReportIsFaithful
<1>1. ExcInit => ExcInv
  BY ExcInvInit
<1>2. ExcInv /\ [ExcStep]_excVars => ExcInv'
  BY ExcInvStep
<1>3. ExcInv => ReportIsFaithful
  BY ExcInvFaithful
<1>4. QED
  BY <1>1, <1>2, <1>3, PTL
=============================================================================

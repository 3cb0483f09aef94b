-------------------------------- MODULE SocBus -----------------------------
(***************************************************************************)
(* The Wishbone bus of the management core (mgmt_core.v) down to the       *)
(* execution memory.  Three masters share it: the instruction bus fetches  *)
(* lines of LineLen words, the data bus and the debug bridge make single   *)
(* accesses.  Behind the user project's wrapper are the execution memory   *)
(* (side "c", 0x3800_xxxx) and a second slave (side "m"); all other slaves *)
(* of the core are side "o".                                               *)
(*                                                                         *)
(* There are two wrappers.  In lab 4 (user_project_wrapper.v,              *)
(* user_proj_example.counter.v) a decoder whose outputs are latches drives *)
(* the slaves, and the second is the filter.  In lab 6                     *)
(* (user_project_wrapper.v, exmem.v) both slaves see the bus and decode    *)
(* for themselves, muxes pass on the answer, the memory has no delay, and  *)
(* the second slave is the UART.                                           *)
(*                                                                         *)
(* The second slave and those of the core are taken for anything that      *)
(* answers late or never: the bus ends an access after Timeout cycles.     *)
(* Each variable is a register (or a latch), each step a clock edge.       *)
(***************************************************************************)
EXTENDS Integers

CONSTANTS Words,     \* words of each side that are used: 0 .. Words - 1
          RamSize,   \* words of the RAM: 2^N in bram.v
          LineLen,   \* words of a line of the instruction cache: 8
          DELAYS,    \* of the execution memory of lab 4: 10
          Timeout,   \* cycles until the bus gives up: 10^6
          Values,    \* what is written
          Accesses   \* what the data bus and the debug bridge ask for

Side == {"c", "m", "o"}
Address == [side : Side, w : 0 .. Words - 1]
Access == [valid : BOOLEAN, we : BOOLEAN, adr : Address, dat : Values]

ASSUME BusAssumption ==
  /\ Words \in Nat \ {0} /\ LineLen \in Nat \ {0} /\ Words % LineLen = 0
  /\ RamSize \in Nat \ {0} /\ DELAYS \in Nat
  /\ Timeout \in Nat /\ Timeout > DELAYS + 1
  /\ 0 \in Values
  /\ Accesses["dbus"] \subseteq Access /\ Accesses["dbg"] \subseteq Access

\* What is linked to side "c" fits into the RAM, which takes every address of
\* the side modulo its size.
ASSUME FitAssumption == Words <= RamSize

VARIABLES wrapper,   \* "latches" (lab 4) or "muxes" (lab 6)
          req,       \* what each master shows on its bus
          beat,      \* _zz_iBusWishbone_ADR: the word of the line
          grant, count,
          sel_r,     \* the side selected in the previous cycle (slave_sel_r)
          held_c, held_m,         \* what the decoder's latches hold
          ready, delayed_count,   \* the execution memory
          ram, Do0,
          ack_m, ack_o,           \* answers of the other sides
          golden     \* history: what each word of side "c" should hold

busVars == <<grant, count, sel_r>>
memVars == <<held_c, held_m, ready, delayed_count, ram, Do0>>
vars == <<wrapper, req, beat, busVars, memVars, ack_m, ack_o, golden>>

At(side, w) == [side |-> side, w |-> w]
NoAccess == [valid |-> FALSE, we |-> FALSE, adr |-> At("o", 0), dat |-> 0]
Masters == {"ibus", "dbus", "dbg"}

-----------------------------------------------------------------------------
(* One cycle of the bus, from the registers that drive it. *)

shared == req[grant]
Mprj(side) == side \in {"c", "m"}

\* The request as the core shows it to the user project.
wbs == [shared EXCEPT !.valid = @ /\ Mprj(shared.adr.side)]

\* The latches drive the side that is not selected with what they drove last.
Unselected(held) == IF wrapper = "latches" THEN held ELSE [wbs EXCEPT !.valid = FALSE]
wbs_c == IF shared.adr.side = "c" THEN wbs ELSE Unselected(held_c)
wbs_m == IF shared.adr.side # "c" THEN wbs ELSE Unselected(held_m)

\* Which slave the wrapper's answer comes from.
Answering == IF shared.adr.side = "c" THEN "c"
             ELSE IF wrapper = "latches" \/ shared.adr.side = "m" THEN "m" ELSE "none"
wbs_ack_o == (Answering = "c" /\ ready) \/ (Answering = "m" /\ ack_m)

done == count = 0
shared_ack == wbs_ack_o \/ ack_o \/ done
Acked(m) == shared_ack /\ grant = m

\* Every answer shows where it comes from; on time-out the bus returns ones.
shared_dat_r ==
  IF done THEN [from |-> "none", val |-> 0]
  ELSE IF ~Mprj(sel_r) THEN [from |-> "o", val |-> 0]
  ELSE [from |-> Answering, val |-> IF Answering = "c" THEN Do0 ELSE 0]

-----------------------------------------------------------------------------
(* The masters. *)

\* What a master shows without a request is its address.
Idle(a) == [NoAccess EXCEPT !.adr = a.adr]

\* The debug bridge ends a command after 10^6 cycles, wherever it is.  An
\* access to the execution memory may be cut short by that.
Abandons(m) == IF m = "dbg" /\ req[m].adr.side = "c"
                 THEN {Idle(req[m])} ELSE {}

\* The data bus and the debug bridge keep a request until it is acknowledged
\* and then leave one cycle without one.
SingleNext(m) ==
  IF req[m].valid
    THEN Abandons(m) \cup IF Acked(m) THEN {Idle(req[m])} ELSE {req[m]}
    ELSE Accesses[m] \cup {Idle(a) : a \in Accesses[m]}

Line(side, w) == [valid |-> TRUE, we |-> FALSE, adr |-> At(side, w), dat |-> 0]

\* The instruction bus keeps cyc up for all the words of a line.  A line is
\* fetched from where programs are: the flash, the core's RAM or side "c".
FetchNext ==
  IF ~req["ibus"].valid
    THEN {req["ibus"]} \cup {Line(side, w) : side \in {"c", "o"},
                             w \in {v \in 0 .. Words - 1 : v % LineLen = 0}}
  ELSE IF ~Acked("ibus") THEN {req["ibus"]}
  ELSE IF beat = LineLen - 1
    THEN {[req["ibus"] EXCEPT !.valid = FALSE, !.adr = At(@.side, @.w - beat)]}
    ELSE {[req["ibus"] EXCEPT !.adr = At(@.side, @.w + 1)]}

MastersClock ==
  /\ \E i \in FetchNext, d \in SingleNext("dbus"), g \in SingleNext("dbg") :
       req' = [ibus |-> i, dbus |-> d, dbg |-> g]
  /\ beat' = IF req["ibus"].valid /\ Acked("ibus") THEN (beat + 1) % LineLen ELSE beat

-----------------------------------------------------------------------------
(* The arbiter, the time-out and the slaves. *)

After == [ibus |-> "dbus", dbus |-> "dbg", dbg |-> "ibus"]

\* Mutation: the grant is passed on while its holder has a request.
ArbiterClockHasty ==
  grant' = LET a == After[grant] b == After[a] IN
           IF req[a].valid THEN a ELSE IF req[b].valid THEN b ELSE grant
\* Mutation: the debug bridge passes the grant to the data bus first.
ArbiterClockUnfair ==
  grant' = LET a == After[grant] b == After[a] IN
           IF req[grant].valid THEN grant
           ELSE IF req["dbus"].valid THEN "dbus" ELSE IF req["dbg"].valid THEN "dbg" ELSE grant

\* The holder keeps the grant while it has a request, cyc that is.
ArbiterClock ==
  grant' = LET a == After[grant] b == After[a] IN
           IF req[grant].valid THEN grant
           ELSE IF req[a].valid THEN a ELSE IF req[b].valid THEN b ELSE grant

\* Mutation: the time-out is not wound up again by an answer.
TimeoutClockNoReset ==
  count' = IF shared.valid /\ ~shared_ack THEN count - 1
           ELSE IF shared.valid /\ ~done THEN count ELSE Timeout

TimeoutClock ==
  count' = IF shared.valid /\ ~shared_ack THEN count - 1 ELSE Timeout

\* Mutation: the latches follow the bus one cycle late.
DecoderClockLate == held_c' = wbs /\ held_m' = wbs

\* The muxes keep nothing.
DecoderClock ==
  /\ held_c' = IF wrapper = "latches" THEN wbs_c ELSE NoAccess
  /\ held_m' = IF wrapper = "latches" THEN wbs_m ELSE NoAccess

\* The memory of lab 6 counts nothing: it is that of lab 4 without delay.
Delay == IF wrapper = "latches" THEN DELAYS ELSE 0

\* An access is answered after Delay more cycles, a line word by word.
ReadyClock ==
  /\ ready' = (wbs_c.valid /\ ~ready /\ delayed_count = Delay)
  /\ delayed_count' = IF ~wbs_c.valid \/ ready THEN delayed_count
                      ELSE IF delayed_count = Delay THEN 0 ELSE delayed_count + 1

\* The RAM takes the address modulo its size, and writes in every cycle of
\* the access.
A0 == wbs_c.adr.w % RamSize
RamClock ==
  /\ ram' = IF wbs_c.valid /\ wbs_c.we THEN [ram EXCEPT ![A0] = wbs_c.dat] ELSE ram
  /\ Do0' = IF wbs_c.valid THEN ram[A0] ELSE 0

\* The answer of the filter, or of the UART, may outlive its access by a cycle;
\* the other slaves answer for one cycle.
OthersClock ==
  /\ ack_m' \in IF wbs_m.valid THEN BOOLEAN ELSE {FALSE}
  /\ ack_o' \in IF shared.valid /\ ~Mprj(shared.adr.side) /\ ~ack_o
                  THEN BOOLEAN ELSE {FALSE}

\* A write counts when it ends, acknowledged or abandoned.
History ==
  golden' = IF /\ shared.valid /\ shared.we /\ shared.adr.side = "c"
               /\ shared_ack \/ ~req'[grant].valid
              THEN [golden EXCEPT ![shared.adr.w] = shared.dat] ELSE golden

Init ==
  /\ wrapper \in {"latches", "muxes"}
  /\ req = [m \in Masters |-> NoAccess] /\ beat = 0
  /\ grant = "ibus" /\ count = Timeout /\ sel_r = "o"
  /\ held_c = NoAccess /\ held_m = NoAccess
  /\ ready = FALSE /\ delayed_count = 0
  /\ ram = [a \in 0 .. RamSize - 1 |-> 0] /\ Do0 = 0
  /\ ack_m = FALSE /\ ack_o = FALSE
  /\ golden = [w \in 0 .. Words - 1 |-> 0]

Next ==
  /\ MastersClock /\ ArbiterClock /\ TimeoutClock
  /\ sel_r' = shared.adr.side
  /\ DecoderClock /\ ReadyClock /\ RamClock /\ OthersClock
  /\ History
  /\ UNCHANGED wrapper

\* The clock runs.
Spec == Init /\ [][Next]_vars /\ WF_vars(Next)

-----------------------------------------------------------------------------
\* Neither side of the wrapper ever sees a request that is not on the bus: the
\* bus is idle whenever the latches of a side close.
NoGhostRequest ==
  /\ wbs_c.valid => shared.valid /\ wbs_c = shared
  /\ wbs_m.valid => shared.valid /\ wbs_m = shared

\* What answers an access is the slave it addresses, and the data lines show
\* that slave's: no acknowledgement outlives its access into another one, and
\* the select that steers the data, a cycle old, has caught up.
AnswersAreOwn ==
  shared.valid /\ shared_ack /\ ~done =>
    /\ shared_dat_r.from = shared.adr.side
    /\ shared.adr.side = "c" <=> ready
    /\ shared.adr.side = "m" <=> ack_m
    /\ shared.adr.side = "o" <=> ack_o

\* The execution memory is a memory: whoever reads a word, single or in a
\* line, gets what was last written to it by anyone.
ReadsSeeLastWrite ==
  shared.valid /\ ~shared.we /\ shared.adr.side = "c" /\ shared_ack
    => shared_dat_r = [from |-> "c", val |-> golden[shared.adr.w]]

\* The execution memory answers before the bus gives up on it, however its
\* delay counter was left by an abandoned access: the time the bus has left
\* always exceeds what the memory still needs.
MemoryIsInTime ==
  shared.valid /\ shared.adr.side = "c"
    => count > (IF ready THEN 0 ELSE Delay - delayed_count + 1)

\* No master is locked out, whatever the others do and even if a slave never
\* answers: the grant rotates and the time-out ends every access.
EveryRequestIsAnswered ==
  \A m \in Masters :
    req[m].valid ~> \/ req[m].valid /\ Acked(m)
                    \/ m = "dbg" /\ ~req[m].valid
=============================================================================
